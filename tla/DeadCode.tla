------------------------------ MODULE DeadCode ------------------------------
(***************************************************************************)
(* Dead code elimination (passes/DeadCode.cpp): run the purity analysis,   *)
(* then mark and sweep every function, and again until nothing changes.    *)
(*                                                                         *)
(* mark starts from the instructions that must stay (is_critical) and      *)
(* follows operands; sweep first detaches every unmarked instruction from  *)
(* its operands and then erases them all.                                  *)
(*                                                                         *)
(* A program is a record                                                   *)
(*   declared, main, arrays   as in FuncInfo                               *)
(*   code      for each function its instructions, block after block       *)
(*   op        the opcode of each instruction                              *)
(*   operands  the operands of each instruction that are instructions      *)
(*   addr      for a load or a store, the address chain of FuncInfo        *)
(*   callee    for a call, the function called                             *)
(***************************************************************************)
EXTENDS Lists

CONSTANTS
    Func, Order,    \* as in FuncInfo
    Inst,           \* the instructions of all functions
    Programs        \* the programs under compilation

Opcode == {"call", "br", "ret", "store", "load", "phi", "other"}

VARIABLES
    module, fpc, at, is_pure, worklist, now, use,   \* FuncInfo's variables
    prog,       \* the program, as it enters the pass; no step changes it
    phase,      \* "info", "mark", "work", "operand", "erase", "next", "done"
    fi,         \* the position in Order of the function being cleaned
    changed,    \* the flag of the do-while loop of run
    insts,      \* what each function's blocks hold now
    operands,   \* the operands each instruction has now
    marked,     \* the marked instructions of the current function
    work_list,  \* marked instructions whose operands are still to visit
    ins, k,     \* the instruction in hand and its next operand
    wait_del    \* the instructions sweep is removing

info == <<module, fpc, at, is_pure, worklist, now, use>>
vars == <<info, prog, phase, fi, changed, insts, operands, marked, work_list,
          ins, k, wait_del>>

InstsOf(p, f) == Members(p.code[f])

FunctionOf(i) == CHOOSE f \in Func : i \in InstsOf(prog, f)

(* What FuncInfo sees of a program.  The use list of a function holds one  *)
(* use per call instruction, appended as the calls are built: function     *)
(* after function, and within a function in code order.                    *)
CallsTo(p, caller, f) ==
    Kept(p.code[caller], {i \in Inst : p.op[i] = "call" /\ p.callee[i] = f})

UsesOf(p, f) ==
    LET upto[n \in 0..Len(Order)] ==
            IF n = 0 THEN << >>
            ELSE upto[n - 1] \o [j \in 1..Len(CallsTo(p, Order[n], f)) |-> Order[n]]
    IN  upto[Len(Order)]

InfoOf(p) ==
    [declared |-> p.declared, main |-> p.main, arrays |-> p.arrays,
     accesses |-> [f \in Func |->
        {[op |-> p.op[i], addr |-> p.addr[i]] :
            i \in {j \in InstsOf(p, f) : p.op[j] \in {"load", "store"}}}],
     uses |-> [f \in Func |-> UsesOf(p, f)]]

InfoModules == {InfoOf(p) : p \in Programs}

Info == INSTANCE FuncInfo WITH pc <- fpc, Modules <- InfoModules

ASSUME OrderAssumption ==
    /\ Order \in Seq(Func) /\ Order # << >>
    /\ \A f \in Func : \E n \in 1..Len(Order) : Order[n] = f

ASSUME InstAssumption == Inst # {}

(* What IRBuilder makes of a program: an instruction stands in a block of  *)
(* one function, and its operands are instructions of that function.       *)
ProgramType ==
    [declared : SUBSET Func, main : Func, arrays : SUBSET Func,
     code : [Func -> Seq(Inst)], op : [Inst -> Opcode], operands : [Inst -> Seq(Inst)],
     addr : [Inst -> Seq(Info!Link)], callee : [Inst -> Func]]

OwnOperands(p) ==
    \A f \in Func :
        /\ \A g \in Func \ {f} : InstsOf(p, f) \cap InstsOf(p, g) = {}
        /\ \A i \in InstsOf(p, f) : Members(p.operands[i]) \subseteq InstsOf(p, f)

ASSUME ProgramsAssumption == \A p \in Programs : p \in ProgramType /\ OwnOperands(p)

-----------------------------------------------------------------------------
(* is_critical: calls to functions not known to be pure, branches, returns *)
(* and every store, a store to a local array included.                     *)
CallsOneOf(i, impure) == prog.op[i] = "call" /\ prog.callee[i] \in impure
AlwaysStays(i) == prog.op[i] \in {"br", "ret", "store"}

(* A mutant: only calls to external functions count as effects.            *)
is_critical_external(i) == CallsOneOf(i, prog.declared) \/ AlwaysStays(i)

is_critical(i) == CallsOneOf(i, {f \in Func : ~is_pure[f]}) \/ AlwaysStays(i)

CurrentFunc == Order[fi]

Init ==
    /\ prog \in Programs
    /\ module = InfoOf(prog) /\ Info!Init
    /\ phase = "info" /\ fi = 1 /\ changed = FALSE
    /\ insts = prog.code
    /\ operands = prog.operands
    /\ marked = {} /\ work_list = << >> /\ wait_del = {}
    /\ ins = CHOOSE i \in Inst : TRUE
    /\ k = 1

(* func_info->run()                                                        *)
RunFuncInfo ==
    /\ phase = "info" /\ Info!Next
    /\ UNCHANGED <<prog, phase, fi, changed, insts, operands, marked,
                   work_list, ins, k, wait_del>>

(* do { changed = false; ...                                               *)
StartRound ==
    /\ phase = "info" /\ fpc = "done"
    /\ phase' = "mark" /\ fi' = 1 /\ changed' = FALSE
    /\ UNCHANGED <<info, prog, insts, operands, marked, work_list, ins, k, wait_del>>

(* The first loop of mark(Function): forget the previous function's marks, *)
(* mark and queue what is critical.                                        *)
MarkCritical ==
    /\ phase = "mark"
    /\ marked' = {i \in Members(insts[CurrentFunc]) : is_critical(i)}
    /\ work_list' = Kept(insts[CurrentFunc], marked')
    /\ phase' = "work"
    /\ UNCHANGED <<info, prog, fi, changed, insts, operands, ins, k, wait_del>>

(* The loop of mark(Function) takes an instruction, ...                    *)
Take(first) ==
    /\ phase = "work" /\ work_list # << >>
    /\ ins' = Head(work_list) /\ k' = first
    /\ work_list' = Tail(work_list)
    /\ phase' = "operand"
    /\ UNCHANGED <<info, prog, fi, changed, insts, operands, marked, wait_del>>

DequeueFromZero == Take(0)        \* a mutant: operands are counted from zero

Dequeue == Take(1)

(* ... and mark(Instruction) looks at its operands one by one.             *)
Def == operands[ins][k]

LookAtOperand(queue) ==
    /\ phase = "operand" /\ k <= Len(operands[ins])
    /\ IF Def \notin marked /\ FunctionOf(Def) = FunctionOf(ins)
       THEN marked' = marked \cup {Def} /\ work_list' = queue
       ELSE UNCHANGED <<marked, work_list>>
    /\ k' = k + 1
    /\ UNCHANGED <<info, prog, phase, fi, changed, insts, operands, ins, wait_del>>

MarkOperandShallow == LookAtOperand(work_list)    \* a mutant: the operand is not queued

MarkOperand == LookAtOperand(Append(work_list, Def))

OperandsMarked ==
    /\ phase = "operand" /\ k > Len(operands[ins])
    /\ phase' = "work"
    /\ UNCHANGED <<info, prog, fi, changed, insts, operands, marked, work_list,
                   ins, k, wait_del>>

(* sweep, up to remove_all_operands on everything unmarked.                *)
Unmarked == Members(insts[CurrentFunc]) \ marked

DetachAll(dead) ==
    /\ phase = "work" /\ work_list = << >>
    /\ wait_del' = dead
    /\ operands' = [i \in Inst |-> IF i \in dead THEN << >> ELSE operands[i]]
    /\ phase' = "erase"
    /\ UNCHANGED <<info, prog, fi, changed, insts, marked, work_list, ins, k>>

(* A mutant: what another instruction still uses is not removed.           *)
DetachUnused ==
    DetachAll({i \in Unmarked : \A j \in Members(insts[CurrentFunc]) : i \notin Members(operands[j])})

Detach == DetachAll(Unmarked)

(* The last loop of sweep, and the result or-ed into changed.              *)
EraseAll(swept) ==
    /\ phase = "erase"
    /\ insts' = [insts EXCEPT ![CurrentFunc] = Kept(@, Inst \ wait_del)]
    /\ changed' = (changed \/ swept)
    /\ wait_del' = {}
    /\ phase' = "next"
    /\ UNCHANGED <<info, prog, fi, operands, marked, work_list, ins, k>>

EraseAlwaysChanged == EraseAll(TRUE)      \* a mutant: sweep always reports a change

Erase == EraseAll(wait_del # {})

NextFunction ==
    /\ phase = "next" /\ fi < Len(Order)
    /\ fi' = fi + 1 /\ phase' = "mark"
    /\ UNCHANGED <<info, prog, changed, insts, operands, marked, work_list,
                   ins, k, wait_del>>

(* ... } while (changed)                                                   *)
EndRound ==
    /\ phase = "next" /\ fi = Len(Order)
    /\ IF changed THEN phase' = "mark" /\ fi' = 1 /\ changed' = FALSE
                  ELSE phase' = "done" /\ UNCHANGED <<fi, changed>>
    /\ UNCHANGED <<info, prog, insts, operands, marked, work_list, ins, k, wait_del>>

Next == \/ RunFuncInfo \/ StartRound \/ MarkCritical \/ Dequeue \/ MarkOperand
        \/ OperandsMarked \/ Detach \/ Erase \/ NextFunction \/ EndRound

Spec == Init /\ [][Next]_vars

(* The pass is straight-line code: it keeps going while it has a statement *)
(* left to run.                                                            *)
FairSpec == Spec /\ WF_vars(Next)

-----------------------------------------------------------------------------
Remaining == UNION {Members(insts[f]) : f \in Func}
Erased == (UNION {InstsOf(prog, f) : f \in Func}) \ Remaining

(* The type invariant of the pass: lists hold instructions of their own    *)
(* function, and the worklist and the deletion set stay inside it.         *)
TypeOK ==
    /\ phase \in {"info", "mark", "work", "operand", "erase", "next", "done"}
    /\ fi \in 1..Len(Order) /\ changed \in BOOLEAN
    /\ \A f \in Func : Members(insts[f]) \subseteq InstsOf(prog, f)
    /\ operands \in [Inst -> Seq(Inst)]
    /\ marked \subseteq Inst /\ work_list \in Seq(Inst)
    /\ ins \in Inst /\ k \in Nat \ {0}
    /\ wait_del \subseteq Inst

(* An instruction that was erased had no effect anyone could see: it was   *)
(* no store, branch or return, and if it was a call, no chain of calls     *)
(* from the callee reaches a function with an effect of its own.           *)
EffectsKept ==
    \A i \in Erased :
        /\ prog.op[i] \notin {"store", "br", "ret"}
        /\ prog.op[i] = "call" => prog.callee[i] \notin Info!Impure

(* Whatever is left in a block keeps all the operands it came with, and    *)
(* they are left too: at no point, between the two loops of sweep          *)
(* included, does an instruction that stays refer to one that is gone.     *)
LiveCodeIntact ==
    \A i \in Remaining :
        /\ i \notin wait_del => operands[i] = prog.operands[i]
        /\ Members(operands[i]) \subseteq Remaining

(* What is left when the pass returns is needed: it is in every set that   *)
(* holds the critical instructions and the operands of its members, so     *)
(* that phis which only feed each other are gone.                          *)
NeededSet(S) ==
    /\ \A f \in Func : \A i \in InstsOf(prog, f) : is_critical(i) => i \in S
    /\ \A i \in S : Members(prog.operands[i]) \subseteq S

OnlyNeededLeft ==
    phase = "done" =>
        \A S \in SUBSET Inst : NeededSet(S) => Remaining \subseteq S

(* The do-while loop ends.                                                 *)
Termination == <>(phase = "done")
=============================================================================
