------------------------------ MODULE FrontEnd ------------------------------
(***************************************************************************)
(* A program through the front end, and what becomes of it: main           *)
(* (cminusfc/cminusfc.cpp) has it parsed, its syntax tree turned into the  *)
(* abstract one, and this visited; then the module is executed, as LLVM    *)
(* defines its instructions, and what it prints compared with what the     *)
(* program means.                                                          *)
(***************************************************************************)
EXTENDS Visitors

CONSTANT Programs      \* the source programs, well typed, that assign before they read

Src == INSTANCE Meaning

VARIABLES
    meant,     \* what the program is to print
    phase,     \* "visit", "run", "done"
    frames,    \* the calls under way: place, arguments and values of instructions
    mem,       \* by <<kind, global or number of the alloca, offset>>
    cells,     \* how many allocas were executed
    out,       \* what was printed
    reads      \* how often input() was called

fvars == <<meant, phase, frames, mem, cells, out, reads>>
vars == <<vvars, fvars>>

Init ==
    /\ \E program \in Programs :
         /\ VInit(Transform(Parse(program)))
         /\ meant = Src!Meaning(program)
    /\ phase = "visit"
    /\ frames = << >> /\ mem = << >> /\ cells = 0 /\ out = << >> /\ reads = 0

(* The first instruction of a function.                                    *)
Enter(f, args) == [at |-> m.funcs[f].entry, k |-> 1, args |-> args, env |-> << >>]

Start ==
    /\ phase = "visit" /\ todo = << >>
    /\ phase' = "run"
    /\ frames' = <<Enter("main", << >>)>>
    /\ UNCHANGED <<vvars, meant, mem, cells, out, reads>>

-----------------------------------------------------------------------------
(* The instructions.                                                       *)
Top == Last(frames)
Inst == m.code[Top.at][Top.k]

Val(v) ==
    CASE v[1] = "const" -> v[3]
      [] v[1] = "arg" -> Top.args[v[3]]
      [] v[1] = "global" -> <<"global", v[3], 0>>
      [] v[1] = "inst" -> Top.env[v[3]]

Arg(n) == Val(Inst.args[n])

Step(ops) == phase = "run" /\ Inst.op \in ops

Advanced(frame, val) ==
    LET i == <<frame.at, frame.k>> IN
    [frame EXCEPT !.k = @ + 1, !.env = [x \in DOMAIN @ \cup {i} |-> IF x = i THEN val ELSE @[x]]]

(* The instruction has a value (0 when it is void) and control goes on.    *)
Result(val) == frames' = [frames EXCEPT ![Len(frames)] = Advanced(@, val)]

ExecuteOperation ==
    /\ Step({"binary", "fbinary", "icmp", "fcmp"})
    /\ Result(Src!Calculate(Inst.by, Inst.op \in {"fbinary", "fcmp"}, Arg(1), Arg(2)))
    /\ UNCHANGED <<vvars, meant, phase, mem, cells, out, reads>>

ExecuteCast ==
    /\ Step({"zext", "sitofp", "fptosi"})
    /\ Result(CASE Inst.op = "zext" -> Arg(1) [] Inst.op = "sitofp" -> Src!ToFloat(Arg(1))
                [] Inst.op = "fptosi" -> Src!ToInt(Arg(1)))
    /\ UNCHANGED <<vvars, meant, phase, mem, cells, out, reads>>

ExecuteAlloca ==
    /\ Step({"alloca"})
    /\ cells' = cells + 1
    /\ Result(<<"local", cells + 1, 0>>)
    /\ UNCHANGED <<vvars, meant, phase, mem, out, reads>>

ExecuteLoad ==
    /\ Step({"load"})
    /\ Result(IF Arg(1) \in DOMAIN mem THEN mem[Arg(1)] ELSE 0)
    /\ UNCHANGED <<vvars, meant, phase, mem, cells, out, reads>>

ExecuteStore ==
    /\ Step({"store"})
    /\ mem' = [c \in DOMAIN mem \cup {Arg(2)} |-> IF c = Arg(2) THEN Arg(1) ELSE mem[c]]
    /\ Result(0)
    /\ UNCHANGED <<vvars, meant, phase, cells, out, reads>>

ExecuteGep ==
    /\ Step({"gep"})
    /\ Result(<<Arg(1)[1], Arg(1)[2], Arg(1)[3] + Arg(Len(Inst.args))>>)
    /\ UNCHANGED <<vvars, meant, phase, mem, cells, out, reads>>

ExecuteBranch ==
    /\ Step({"br"})
    /\ LET b == IF Len(Inst.args) = 1 THEN Inst.args[1]
                ELSE IF Arg(1) # 0 THEN Inst.args[2] ELSE Inst.args[3]
       IN  frames' = [frames EXCEPT ![Len(frames)] = [@ EXCEPT !.at = b, !.k = 1]]
    /\ UNCHANGED <<vvars, meant, phase, mem, cells, out, reads>>

Callee == Inst.args[1][3]

ExecuteCall ==
    /\ Step({"call"}) /\ m.funcs[Callee].entry # 0
    /\ frames' = Append(frames, Enter(Callee, [n \in 1..(Len(Inst.args) - 1) |-> Arg(n + 1)]))
    /\ UNCHANGED <<vvars, meant, phase, mem, cells, out, reads>>

(* The functions of the runtime library, src/io/io.c.                      *)
ExecuteInput ==
    /\ Step({"call"}) /\ Callee = "input"
    /\ reads' = reads + 1
    /\ Result(Src!Input(reads + 1))
    /\ UNCHANGED <<vvars, meant, phase, mem, cells, out>>

ExecuteOutput ==
    /\ Step({"call"}) /\ Callee \in {"output", "outputFloat"}
    /\ out' = Append(out, <<IF Callee = "output" THEN "int" ELSE "float", Arg(2)>>)
    /\ Result(0)
    /\ UNCHANGED <<vvars, meant, phase, mem, cells, reads>>

ExecuteNegIdxExcept ==
    /\ Step({"call"}) /\ Callee = "neg_idx_except"
    /\ out' = Append(out, <<"negative index exception">>)
    /\ phase' = "done"
    /\ UNCHANGED <<vvars, meant, frames, mem, cells, reads>>

ExecuteReturn ==
    /\ Step({"ret"})
    /\ LET below == Front(frames)
           val == IF Inst.args = << >> THEN 0 ELSE Arg(1)
       IN  IF below = << >> THEN phase' = "done" /\ UNCHANGED frames
           ELSE UNCHANGED phase /\ frames' = [below EXCEPT ![Len(below)] = Advanced(@, val)]
    /\ UNCHANGED <<vvars, meant, mem, cells, out, reads>>

Run ==
    \/ ExecuteOperation \/ ExecuteCast \/ ExecuteAlloca \/ ExecuteLoad \/ ExecuteStore
    \/ ExecuteGep \/ ExecuteBranch \/ ExecuteCall \/ ExecuteInput \/ ExecuteOutput
    \/ ExecuteNegIdxExcept \/ ExecuteReturn

Next == (Visit /\ UNCHANGED fvars) \/ Start \/ Run

Spec == Init /\ [][Next]_vars

(* The compiler goes on, and so does the program it compiled.              *)
FairSpec == Spec /\ WF_vars(Next)

-----------------------------------------------------------------------------
(* No assertion of a constructor of an instruction fails on a well-typed   *)
(* program: wherever an int meets a float, in an operation, an assignment, *)
(* an argument, a subscript or a return, and wherever a visitor finds in   *)
(* the context what another one left there, the types are those that       *)
(* Instruction.cpp asserts, and nothing follows a terminator.              *)
AssertionsHold ==
    \A b \in 1..Len(m.code) : \A k \in 1..Len(m.code[b]) : Asserted(m, b, k)

(* What the module prints is what the program means, as far as it came:    *)
(* the lists kept their order from the grammar to the visitors, precedence *)
(* survived, names are those of the innermost scope, is_lval reached the   *)
(* variable it was set for, conversions happen where they must, and a      *)
(* negative subscript stops the program before the access.                 *)
OutputAsMeant == IsPrefix(out, meant)

(* Every program is compiled, ends, and has then printed all it should.    *)
Finishes == <>(phase = "done" /\ out = meant)
=============================================================================
