------------------------------ MODULE FuncInfo ------------------------------
(***************************************************************************)
(* The purity analysis that DeadCode runs first (passes/FuncInfo.cpp).     *)
(*                                                                         *)
(* Every function is first marked from its own body (trivial_mark); the    *)
(* impure ones are queued, and the queue is drained by walking the use     *)
(* list of each dequeued function: the function that contains a use is a   *)
(* caller, and becomes impure too.                                         *)
(*                                                                         *)
(* A module of the program under compilation is a record                   *)
(*   declared  the functions that have no body (input, output, ...)        *)
(*   main      the function named "main"                                   *)
(*   arrays    the functions with a parameter that is not an int or a float*)
(*   accesses  for each function its loads and stores: the opcode, and the *)
(*             chain of address computations behind the pointer            *)
(*   uses      for each function its use list: the callers, in use order   *)
(***************************************************************************)
EXTENDS Integers, Sequences

CONSTANTS
    Func,      \* the functions of the module
    Order,     \* Module::get_functions(), the order run() marks them in
    Modules    \* the modules under compilation

ASSUME OrderAssumption ==
    /\ Order \in Seq(Func) /\ Order # << >>
    /\ \A f \in Func : \E k \in 1..Len(Order) : Order[k] = f

(* What one value of an address chain is: a chain starts at the pointer    *)
(* operand and follows operand 0 of a getelementptr ("gep") or, for any    *)
(* other instruction ("other"), its first operand of pointer type.         *)
Link == {"gep", "other", "alloca", "load", "global", "argument"}

Access == [op : {"load", "store"}, addr : Seq(Link)]

ModuleType == [declared : SUBSET Func, main : Func, arrays : SUBSET Func,
               accesses : [Func -> SUBSET Access], uses : [Func -> Seq(Func)]]

ASSUME ModulesAssumption == Modules \subseteq ModuleType

VARIABLES
    module,    \* the module being analysed; no step changes it
    pc,        \* "mark", "drain", "process" or "done"
    at,        \* how many functions of Order have been marked
    is_pure,   \* the result: a map from functions to BOOLEAN
    worklist,  \* the functions found impure whose callers are still to visit
    now,       \* the function whose use list is being walked
    use        \* the position of the next use to look at

vars == <<module, pc, at, is_pure, worklist, now, use>>

-----------------------------------------------------------------------------
(* get_first_addr: the value an address is computed from.  The walk        *)
(* passes through getelementptr and other instructions and stops at an     *)
(* alloca, a load, or a value that is no instruction.                      *)
Passes(link) == link \in {"gep", "other"}

get_first_addr(addr) ==
    LET first[k \in 1..Len(addr)] ==
            IF Passes(addr[k]) /\ k < Len(addr) THEN first[k + 1] ELSE addr[k]
    IN  first[1]

is_local(access) == get_first_addr(access.addr) = "alloca"

is_side_effect_inst(access) == ~is_local(access)

TriviallyImpure(f) ==
    \/ f \in module.declared
    \/ f = module.main
    \/ f \in module.arrays
    \/ \E access \in module.accesses[f] : is_side_effect_inst(access)

-----------------------------------------------------------------------------
(* The map of a freshly built pass is empty, and operator[] reads a        *)
(* missing entry as false.                                                 *)
Init ==
    /\ module \in Modules
    /\ pc = "mark" /\ at = 0
    /\ is_pure = [f \in Func |-> FALSE]
    /\ worklist = << >>
    /\ now = Order[1] /\ use = 1

(* One iteration of the first loop of run: trivial_mark and the push.      *)
Mark(f, impure) ==
    /\ pc = "mark" /\ at < Len(Order)
    /\ is_pure' = [is_pure EXCEPT ![f] = ~impure]
    /\ worklist' = IF impure THEN Append(worklist, f) ELSE worklist
    /\ at' = at + 1
    /\ UNCHANGED <<module, pc, now, use>>

(* A mutant: the result for the previous function is not reset.            *)
TrivialMarkSticky ==
    Mark(Order[at + 1], TriviallyImpure(Order[at + 1]) \/ (at > 0 /\ ~is_pure[Order[at]]))

TrivialMark == Mark(Order[at + 1], TriviallyImpure(Order[at + 1]))

Marked ==
    /\ pc = "mark" /\ at = Len(Order)
    /\ pc' = "drain"
    /\ UNCHANGED <<module, at, is_pure, worklist, now, use>>

(* while (worklist.empty() == false): take the front and walk its uses.    *)
Walk(first, rest) ==
    /\ pc = "drain" /\ worklist # << >>
    /\ now' = Head(worklist) /\ use' = first
    /\ worklist' = rest
    /\ pc' = "process"
    /\ UNCHANGED <<module, at, is_pure>>

DequeueFromZero == Walk(0, Tail(worklist))  \* a mutant: the walk begins too early
DequeueKeeps == Walk(1, worklist)           \* a mutant: the front stays in the queue

Dequeue == Walk(1, Tail(worklist))

(* One iteration of process: a caller still believed pure becomes impure   *)
(* and is queued.                                                          *)
Caller == module.uses[now][use]
SetPure(pure) == is_pure' = [is_pure EXCEPT ![Caller] = pure]
Queue == worklist' = Append(worklist, Caller)

VisitCaller(ifPure, ifImpure) ==
    /\ pc = "process" /\ use <= Len(module.uses[now])
    /\ IF is_pure[Caller] THEN ifPure ELSE ifImpure
    /\ use' = use + 1
    /\ UNCHANGED <<module, pc, at, now>>

(* Mutants: the callers of a caller are never visited; a caller that is    *)
(* impure already is marked from its body again.                           *)
ProcessUseShallow ==
    VisitCaller(SetPure(FALSE) /\ UNCHANGED worklist, UNCHANGED <<is_pure, worklist>>)
ProcessUseRemark ==
    VisitCaller(SetPure(FALSE) /\ Queue,
                SetPure(~TriviallyImpure(Caller)) /\ UNCHANGED worklist)

ProcessUse == VisitCaller(SetPure(FALSE) /\ Queue, UNCHANGED <<is_pure, worklist>>)

Processed ==
    /\ pc = "process" /\ use > Len(module.uses[now])
    /\ pc' = "drain"
    /\ UNCHANGED <<module, at, is_pure, worklist, now, use>>

Finish ==
    /\ pc = "drain" /\ worklist = << >>
    /\ pc' = "done"
    /\ UNCHANGED <<module, at, is_pure, worklist, now, use>>

Next == TrivialMark \/ Marked \/ Dequeue \/ ProcessUse \/ Processed \/ Finish

Spec == Init /\ [][Next]_vars

(* run() is straight-line code: it keeps going while a statement is left.  *)
FairSpec == Spec /\ WF_vars(Next)

-----------------------------------------------------------------------------
(* The type invariant: every variable stays in the range its C++ type and  *)
(* the loops of run and process give it.                                   *)
TypeOK ==
    /\ module \in ModuleType
    /\ pc \in {"mark", "drain", "process", "done"}
    /\ at \in 0..Len(Order)
    /\ is_pure \in [Func -> BOOLEAN]
    /\ worklist \in Seq(Func)
    /\ now \in Func
    /\ use \in Nat \ {0}

Callers(f) == {module.uses[f][k] : k \in 1..Len(module.uses[f])}

(* A set of functions that holds every trivially impure one, and with a    *)
(* function all of its callers.                                            *)
ClosedUnderCalls(S) ==
    /\ \A f \in Func : TriviallyImpure(f) => f \in S
    /\ \A f \in S : Callers(f) \subseteq S

(* The specification of the analysis: a function is impure iff it is in    *)
(* every such set, that is, iff it calls, directly or through any chain of *)
(* calls, a function that is impure by itself.                             *)
Impure == {f \in Func : \A S \in SUBSET Func : ClosedUnderCalls(S) => f \in S}

(* When run() returns, is_pure_function(f) answers exactly that, whatever  *)
(* recursion the call graph has and whatever the order of the queue.       *)
FoundImpure == {f \in Func : ~is_pure[f]}

ExactAtDone == pc = "done" => FoundImpure = Impure

(* While the queue is drained nothing is called impure without a reason:   *)
(* an early reader would only ever err towards pure.                       *)
NeverTooImpure ==
    pc \in {"drain", "process"} => FoundImpure \subseteq Impure

(* Once the bodies are marked, a function that was found impure is never   *)
(* pure again, and only the function that a step queues changes its mark.  *)
ImpureForGood ==
    [][pc # "mark" =>
         \A f \in Func : is_pure'[f] # is_pure[f] =>
            is_pure[f] /\ worklist' = Append(worklist, f)]_vars

(* run() returns, recursion in the call graph notwithstanding: a function  *)
(* is queued at most once.                                                 *)
Termination == <>(pc = "done")
=============================================================================
