--------------------------- MODULE DeadCodeProofs ---------------------------
(***************************************************************************)
(* Dead code elimination keeps what a program needs and nothing else, for  *)
(* every program, call graph and order of the functions.                   *)
(*                                                                         *)
(* The invariant of the purity analysis is FuncInfo's own, taken from      *)
(* FuncInfoProofs.  On top of it, the blocks of every function stay closed *)
(* under operands and keep what is critical; while a function is marked,   *)
(* the marks are closed under operands but for what waits in the worklist  *)
(* or is in hand, and every mark is deserved.                              *)
(***************************************************************************)
EXTENDS DeadCode, FlowProofs

Purity == INSTANCE FuncInfoProofs WITH pc <- fpc, Modules <- InfoModules

(* The program does not change, and what the pass works on stays inside it.*)
Typing ==
    /\ TypeOK
    /\ prog \in Programs /\ module = InfoOf(prog)
    /\ insts \in [Func -> Seq(Inst)]

(* FuncInfo runs to its end before anything is touched.                    *)
InfoFirst ==
    /\ Purity!IInv
    /\ phase = "info" => insts = prog.code /\ operands = prog.operands
    /\ phase # "info" => fpc = "done"

(* Critical instructions stay, and what stays keeps its operands.          *)
CriticalStay ==
    phase # "info" =>
      \A f \in Func : \A i \in InstsOf(prog, f) :
          is_critical(i) => i \in Members(insts[f])

BlocksClosed ==
    \A f \in Func : \A i \in Members(insts[f]) :
        /\ Members(prog.operands[i]) \subseteq Members(insts[f])
        /\ IF i \in wait_del THEN operands[i] = << >>
                             ELSE operands[i] = prog.operands[i]

(* The operands of i before the one in hand are marked.                    *)
InHand(i) ==
    /\ phase = "operand" /\ i = ins
    /\ \A n \in 1..Len(operands[i]) : n < k => operands[i][n] \in marked

Followed(i) == Members(prog.operands[i]) \subseteq marked

Marking ==
    phase \in {"work", "operand", "erase"} =>
      /\ marked \subseteq Members(insts[CurrentFunc])
      /\ \A i \in Members(insts[CurrentFunc]) : is_critical(i) => i \in marked
      /\ Members(work_list) \subseteq marked
      /\ phase = "operand" => ins \in marked
      /\ \A i \in marked : i \in Members(work_list) \/ InHand(i) \/ Followed(i)
      /\ \A S \in SUBSET Inst : NeededSet(S) => marked \subseteq S

Sweeping ==
    IF phase = "erase"
    THEN work_list = << >> /\ wait_del = Unmarked
    ELSE wait_del = {}

(* The functions cleaned in this round hold only what is needed.           *)
Cleaned(n) == n < fi \/ (n = fi /\ phase \in {"next", "done"})

RoundsClean ==
    /\ phase # "info" =>
         \A n \in 1..Len(Order) : Cleaned(n) =>
           \A S \in SUBSET Inst : NeededSet(S) => Members(insts[Order[n]]) \subseteq S
    /\ phase = "done" => fi = Len(Order)

IInv ==
    /\ Typing /\ InfoFirst /\ CriticalStay /\ BlocksClosed
    /\ Marking /\ Sweeping /\ RoundsClean

-----------------------------------------------------------------------------
(* The use list that UsesOf builds is a list of functions.                 *)
UsesUpTo(u, p, f, N) ==
    u = [n \in 0..N |->
            IF n = 0 THEN << >>
            ELSE u[n - 1] \o [j \in 1..Len(CallsTo(p, Order[n], f)) |-> Order[n]]]

LEMMA CallsTyped ==
  ASSUME NEW p \in Programs, NEW f \in Func, NEW n \in 1..Len(Order)
  PROVE  /\ Order[n] \in Func
         /\ [j \in 1..Len(CallsTo(p, Order[n], f)) |-> Order[n]] \in Seq(Func)
<1>1. Order[n] \in Func
  BY OrderAssumption
<1>2. p.code \in [Func -> Seq(Inst)]
  BY ProgramsAssumption DEF ProgramType
<1>3. CallsTo(p, Order[n], f) \in Seq(Inst)
  BY <1>1, <1>2, KeptMembers DEF CallsTo
<1>4. Len(CallsTo(p, Order[n], f)) \in Nat
  BY <1>3
<1> QED BY <1>1, <1>4

LEMMA UsesExist ==
  ASSUME NEW p, NEW f
  PROVE  \A N \in Nat : \E u : UsesUpTo(u, p, f, N)
<1> DEFINE Run(n) == [j \in 1..Len(CallsTo(p, Order[n], f)) |-> Order[n]]
           T == {N \in Nat : \E u : UsesUpTo(u, p, f, N)}
<1>1. 0 \in T
  <2> DEFINE u == [n \in 0..0 |-> << >>]
  <2>1. UsesUpTo(u, p, f, 0)
    BY DEF UsesUpTo
  <2> QED BY <2>1
<1>2. ASSUME NEW N \in Nat, N \in T PROVE N + 1 \in T
  <2>1. PICK u : UsesUpTo(u, p, f, N)
    BY <1>2
  <2> DEFINE last == u[N] \o Run(N + 1)
             v == [n \in 0..(N + 1) |-> IF n \in 0..N THEN u[n] ELSE last]
  <2>2. \A n \in 0..N : u[n] = IF n = 0 THEN << >> ELSE u[n - 1] \o Run(n)
    BY <2>1 DEF UsesUpTo
  <2>3. (\A n \in 0..N : v[n] = u[n]) /\ v[N + 1] = last
    <3> HIDE DEF last
    <3> QED OBVIOUS
  <2>4. ASSUME NEW n \in 0..(N + 1)
        PROVE  v[n] = IF n = 0 THEN << >> ELSE v[n - 1] \o Run(n)
    <3> HIDE DEF v, Run
    <3>1. CASE n = 0
      BY <3>1, <2>2, <2>3
    <3>2. CASE n \in 1..N
      <4>1. n \in 0..N /\ n - 1 \in 0..N /\ n # 0
        BY <3>2
      <4> QED BY <4>1, <2>2, <2>3
    <3>3. CASE n = N + 1
      <4>1. N \in 0..N /\ n - 1 = N /\ n # 0
        BY <3>3
      <4> QED BY <3>3, <4>1, <2>3
    <3> QED BY <3>1, <3>2, <3>3
  <2>5. UsesUpTo(v, p, f, N + 1)
    BY <2>4 DEF UsesUpTo
  <2> QED BY <2>5
<1> HIDE DEF T
<1>3. Nat \subseteq T
  BY <1>1, <1>2, SetInduction
<1> QED BY <1>3 DEF T

LEMMA UsesTyped ==
  ASSUME NEW p \in Programs, NEW f \in Func
  PROVE  UsesOf(p, f) \in Seq(Func)
<1> DEFINE N == Len(Order)
           Run(n) == [j \in 1..Len(CallsTo(p, Order[n], f)) |-> Order[n]]
           u == CHOOSE u : u = [n \in 0..N |->
                    IF n = 0 THEN << >>
                    ELSE u[n - 1] \o [j \in 1..Len(CallsTo(p, Order[n], f)) |-> Order[n]]]
           T == {n \in Nat : n <= N => u[n] \in Seq(Func)}
<1>1. N \in Nat
  BY OrderAssumption
<1>2. UsesOf(p, f) = u[N]
  BY DEF UsesOf
<1>3. \E v : UsesUpTo(v, p, f, N)
  BY <1>1, UsesExist
<1>4. UsesUpTo(u, p, f, N)
  BY <1>3 DEF UsesUpTo
<1> HIDE DEF u, N
<1>5. \A n \in 0..N : u[n] = IF n = 0 THEN << >> ELSE u[n - 1] \o Run(n)
  BY <1>4 DEF UsesUpTo
<1>6. \A n \in 1..N : Run(n) \in Seq(Func)
  BY CallsTyped DEF N
<1> HIDE DEF Run
<1>7. 0 \in T
  <2>1. 0 \in 0..N
    BY <1>1
  <2>2. u[0] = << >>
    BY <1>5, <2>1
  <2>3. u[0] \in Seq(Func)
    BY <2>2
  <2> QED BY <2>3
<1>8. ASSUME NEW n \in Nat, n \in T PROVE n + 1 \in T
  <2> SUFFICES ASSUME n + 1 <= N PROVE u[n + 1] \in Seq(Func)
    OBVIOUS
  <2>1. n + 1 \in 1..N /\ n + 1 \in 0..N /\ (n + 1) - 1 = n /\ n + 1 # 0 /\ n <= N
    BY <1>1
  <2>2. u[n] \in Seq(Func)
    BY <1>8, <2>1
  <2>3. u[n + 1] = u[n] \o Run(n + 1)
    BY <1>5, <2>1
  <2>4. Run(n + 1) \in Seq(Func)
    BY <1>6, <2>1
  <2> QED BY <2>2, <2>3, <2>4
<1> HIDE DEF T
<1>9. Nat \subseteq T
  BY <1>7, <1>8, SetInduction
<1> QED BY <1>1, <1>2, <1>9 DEF T

(* What FuncInfo sees of a program is well typed, as its proofs assume.    *)
LEMMA InfoTyped == InfoModules \subseteq Purity!ModuleType
<1> SUFFICES ASSUME NEW p \in Programs PROVE InfoOf(p) \in Purity!ModuleType
  BY DEF InfoModules
<1>1. p \in ProgramType
  BY ProgramsAssumption
<1>2. p.declared \in SUBSET Func /\ p.main \in Func /\ p.arrays \in SUBSET Func
  BY <1>1 DEF ProgramType
<1>3. p.code \in [Func -> Seq(Inst)] /\ p.addr \in [Inst -> Seq(Purity!Link)]
  BY <1>1 DEF ProgramType, Info!Link, Purity!Link
<1>4. ASSUME NEW f \in Func, NEW i \in InstsOf(p, f), p.op[i] \in {"load", "store"}
      PROVE  [op |-> p.op[i], addr |-> p.addr[i]] \in Purity!Access
  <2>1. i \in Inst
    BY <1>3, MembersOfSeq DEF InstsOf
  <2>2. p.addr[i] \in Seq(Purity!Link)
    BY <1>3, <2>1
  <2> QED BY <1>4, <2>2 DEF Purity!Access
<1>5. InfoOf(p).accesses \in [Func -> SUBSET Purity!Access]
  BY <1>4 DEF InfoOf
<1>6. InfoOf(p).uses \in [Func -> Seq(Func)]
  BY UsesTyped DEF InfoOf
<1> QED BY <1>2, <1>5, <1>6 DEF InfoOf, Purity!ModuleType

LEMMA PurityAssumptions == Purity!OrderAssumption /\ Purity!ModulesAssumption
  BY OrderAssumption, InfoTyped DEF Purity!OrderAssumption, Purity!ModulesAssumption

(* The analysis that DeadCode runs is the one FuncInfoProofs is about.     *)
LEMMA SameTrivial == \A f : Info!TriviallyImpure(f) <=> Purity!TriviallyImpure(f)
  BY DEF Info!TriviallyImpure, Purity!TriviallyImpure, Info!is_side_effect_inst,
         Purity!is_side_effect_inst, Info!is_local, Purity!is_local,
         Info!get_first_addr, Purity!get_first_addr, Info!Passes, Purity!Passes

LEMMA SameImpure == Info!Impure = Purity!Impure
  BY SameTrivial DEF Info!Impure, Purity!Impure, Info!ClosedUnderCalls,
     Purity!ClosedUnderCalls, Info!Callers, Purity!Callers

LEMMA SameInit == Info!Init <=> Purity!Init
  BY DEF Info!Init, Purity!Init

LEMMA SameNext == Info!Next => Purity!Next
<1>1. Info!TrivialMark => Purity!TrivialMark
  BY SameTrivial DEF Info!TrivialMark, Purity!TrivialMark, Info!Mark, Purity!Mark
<1>2. Info!Marked => Purity!Marked
  BY DEF Info!Marked, Purity!Marked
<1>3. Info!Dequeue => Purity!Dequeue
  BY DEF Info!Dequeue, Purity!Dequeue, Info!Walk, Purity!Walk
<1>4. Info!ProcessUse => Purity!ProcessUse
  BY DEF Info!ProcessUse, Purity!ProcessUse, Info!VisitCaller, Purity!VisitCaller,
     Info!SetPure, Purity!SetPure, Info!Queue, Purity!Queue, Info!Caller, Purity!Caller
<1>5. Info!Processed => Purity!Processed
  BY DEF Info!Processed, Purity!Processed
<1>6. Info!Finish => Purity!Finish
  BY DEF Info!Finish, Purity!Finish
<1> QED BY <1>1, <1>2, <1>3, <1>4, <1>5, <1>6 DEF Info!Next, Purity!Next

(* So its invariant is one here, and the result is exact.                  *)
LEMMA PurityInit == Info!Init => Purity!IInv
  BY SameInit, PurityAssumptions, Purity!InitIInv

LEMMA PurityNext == Purity!IInv /\ (Info!Next \/ UNCHANGED info) => Purity!IInv'
<1>1. Info!Next \/ UNCHANGED info => [Purity!Next]_(Purity!vars)
  BY SameNext DEF info, Purity!vars
<1> QED BY <1>1, PurityAssumptions, Purity!NextIInv

LEMMA PurityExact ==
  Purity!IInv /\ fpc = "done" => {f \in Func : ~is_pure[f]} = Info!Impure
<1>1. Purity!IInv => Purity!ExactAtDone
  BY PurityAssumptions, Purity!IInvIsExact
<1> QED BY <1>1, SameImpure DEF Purity!ExactAtDone, Purity!FoundImpure

-----------------------------------------------------------------------------
(* What the type invariant gives of the function in hand.                  *)
LEMMA Shape ==
  ASSUME Typing
  PROVE  /\ Len(Order) \in Nat /\ fi \in 1..Len(Order) /\ CurrentFunc \in Func
         /\ prog.code \in [Func -> Seq(Inst)] /\ prog.operands \in [Inst -> Seq(Inst)]
         /\ insts[CurrentFunc] \in Seq(Inst)
         /\ OwnOperands(prog)
         /\ \A f \in Func : /\ InstsOf(prog, f) \subseteq Inst
                            /\ Members(insts[f]) \subseteq InstsOf(prog, f)
<1>1. prog \in ProgramType /\ OwnOperands(prog)
  BY ProgramsAssumption DEF Typing
<1>2. Len(Order) \in Nat /\ fi \in 1..Len(Order) /\ CurrentFunc \in Func
  <2>1. fi \in 1..Len(Order)
    BY DEF Typing, TypeOK
  <2> QED BY <2>1, OrderAssumption DEF CurrentFunc
<1>3. prog.code \in [Func -> Seq(Inst)] /\ prog.operands \in [Inst -> Seq(Inst)]
  BY <1>1 DEF ProgramType
<1>4. \A f \in Func : InstsOf(prog, f) \subseteq Inst
  BY <1>3, MembersOfSeq DEF InstsOf
<1> QED BY <1>1, <1>2, <1>3, <1>4 DEF Typing, TypeOK

(* An instruction is found in the function that holds it.                  *)
LEMMA FunctionFound ==
  ASSUME Typing, NEW f \in Func, NEW i \in InstsOf(prog, f)
  PROVE  FunctionOf(i) = f
<1>1. \A g \in Func : i \in InstsOf(prog, g) => g = f
  BY Shape DEF OwnOperands
<1> QED BY <1>1 DEF FunctionOf

(* What is critical, and what is needed, hangs on the program and on the   *)
(* marks of the purity analysis alone.                                     *)
LEMMA NeedsStable ==
  ASSUME prog' = prog, is_pure' = is_pure
  PROVE  /\ \A i : is_critical(i)' <=> is_critical(i)
         /\ \A S : NeededSet(S)' <=> NeededSet(S)
<1>1. \A i : is_critical(i)' <=> is_critical(i)
  BY DEF is_critical, CallsOneOf, AlwaysStays
<1> QED BY <1>1 DEF NeededSet, InstsOf

LEMMA BlocksStable ==
  ASSUME UNCHANGED <<prog, insts, operands, wait_del>>, BlocksClosed
  PROVE  BlocksClosed'
  BY DEF BlocksClosed

LEMMA CriticalStable ==
  ASSUME UNCHANGED <<prog, insts, is_pure>>, phase # "info", CriticalStay
  PROVE  CriticalStay'
  BY NeedsStable DEF CriticalStay, InstsOf

LEMMA InfoStable ==
  ASSUME InfoFirst, phase # "info", phase' # "info", UNCHANGED info
  PROVE  InfoFirst'
<1>1. Purity!IInv' /\ fpc' = "done"
  BY PurityNext DEF InfoFirst, info
<1> QED BY <1>1 DEF InfoFirst

(* Of a step that leaves fi, insts, what is needed and what is cleaned.    *)
LEMMA RoundsStable ==
  ASSUME UNCHANGED <<prog, is_pure, fi, insts>>, phase # "info",
         phase \in {"next", "done"} <=> phase' \in {"next", "done"}, phase' # "done",
         RoundsClean
  PROVE  RoundsClean'
<1>1. \A n \in 1..Len(Order) : Cleaned(n)' <=> Cleaned(n)
  BY DEF Cleaned
<1> QED BY <1>1, NeedsStable DEF RoundsClean

-----------------------------------------------------------------------------
LEMMA InitIInv == Init => IInv
<1> SUFFICES ASSUME Init PROVE IInv
  OBVIOUS
<1>1. prog \in Programs /\ prog \in ProgramType /\ OwnOperands(prog)
  BY ProgramsAssumption DEF Init
<1>2. prog.code \in [Func -> Seq(Inst)] /\ prog.operands \in [Inst -> Seq(Inst)]
  BY <1>1 DEF ProgramType
<1>3. /\ phase = "info" /\ insts = prog.code /\ operands = prog.operands /\ wait_del = {}
      /\ marked = {} /\ work_list = << >> /\ k = 1 /\ changed = FALSE /\ fi = 1
      /\ ins \in Inst
  BY InstAssumption DEF Init
<1>4. fi \in 1..Len(Order)
  BY <1>3, OrderAssumption
<1>5. TypeOK
  <2>1. \A f \in Func : Members(insts[f]) \subseteq InstsOf(prog, f)
    BY <1>3 DEF InstsOf
  <2>2. operands \in [Inst -> Seq(Inst)] /\ work_list \in Seq(Inst)
    BY <1>2, <1>3
  <2>3. phase = "info" /\ changed \in BOOLEAN /\ marked \subseteq Inst
    BY <1>3
  <2>4. k \in Nat \ {0} /\ ins \in Inst /\ wait_del \subseteq Inst
    BY <1>3
  <2> QED BY <1>4, <2>1, <2>2, <2>3, <2>4 DEF TypeOK
<1>6. Typing
  BY <1>1, <1>2, <1>3, <1>5 DEF Typing, Init
<1>7. InfoFirst
  BY <1>3, PurityInit DEF InfoFirst, Init
<1>8. BlocksClosed
  BY <1>1, <1>2, <1>3 DEF BlocksClosed, OwnOperands, InstsOf
<1> QED BY <1>3, <1>6, <1>7, <1>8 DEF IInv, CriticalStay, Marking, Sweeping, RoundsClean

(* A step of the analysis.                                                 *)
LEMMA InfoStep == IInv /\ RunFuncInfo => IInv'
<1> SUFFICES ASSUME IInv, RunFuncInfo PROVE IInv'
  OBVIOUS
<1>1. /\ phase = "info" /\ Info!Next
      /\ UNCHANGED <<prog, phase, fi, changed, insts, operands, marked, work_list,
                     ins, k, wait_del>>
  BY DEF RunFuncInfo
<1>2. module' = module
  BY <1>1 DEF Info!Next, Info!TrivialMark, Info!Mark, Info!Marked, Info!Dequeue, Info!Walk,
     Info!ProcessUse, Info!VisitCaller, Info!Processed, Info!Finish
<1>3. Typing'
  BY <1>1, <1>2 DEF IInv, Typing, TypeOK, InstsOf
<1>4. InfoFirst'
  BY <1>1, PurityNext DEF IInv, InfoFirst
<1>5. BlocksClosed'
  BY <1>1, BlocksStable DEF IInv
<1> QED BY <1>1, <1>3, <1>4, <1>5 DEF IInv, CriticalStay, Marking, Sweeping, RoundsClean

LEMMA StartRoundStep == IInv /\ StartRound => IInv'
<1> SUFFICES ASSUME IInv, StartRound PROVE IInv'
  OBVIOUS
<1>1. /\ phase = "info" /\ fpc = "done" /\ phase' = "mark" /\ fi' = 1 /\ changed' = FALSE
      /\ UNCHANGED <<info, prog, insts, operands, marked, work_list, ins, k, wait_del>>
  BY DEF StartRound
<1>2. Typing'
  <2>1. fi' \in 1..Len(Order)
    BY <1>1, OrderAssumption
  <2> QED BY <1>1, <2>1 DEF IInv, Typing, TypeOK, InstsOf, info
<1>3. InfoFirst'
  BY <1>1, PurityNext DEF IInv, InfoFirst, info
<1>4. CriticalStay'
  BY <1>1 DEF IInv, InfoFirst, CriticalStay, InstsOf
<1>5. BlocksClosed'
  BY <1>1, BlocksStable DEF IInv
<1>6. RoundsClean'
  <2>1. \A n \in 1..Len(Order) : ~Cleaned(n)'
    BY <1>1 DEF Cleaned
  <2> QED BY <1>1, <2>1 DEF RoundsClean
<1> QED BY <1>1, <1>2, <1>3, <1>4, <1>5, <1>6 DEF IInv, Marking, Sweeping

(* The marks of a function begin with what is critical in it.              *)
LEMMA MarkCriticalStep == IInv /\ MarkCritical => IInv'
<1> SUFFICES ASSUME IInv, MarkCritical PROVE IInv'
  OBVIOUS
<1> DEFINE cur == insts[CurrentFunc]
<1>1. /\ phase = "mark" /\ phase' = "work"
      /\ marked' = {i \in Members(cur) : is_critical(i)} /\ work_list' = Kept(cur, marked')
      /\ UNCHANGED <<info, prog, fi, changed, insts, operands, ins, k, wait_del>>
      /\ is_pure' = is_pure /\ CurrentFunc' = CurrentFunc
  BY DEF MarkCritical, info, CurrentFunc
<1>2. Typing /\ cur \in Seq(Inst) /\ Members(cur) \subseteq Inst
      /\ CurrentFunc \in Func /\ Members(cur) \subseteq InstsOf(prog, CurrentFunc)
  BY Shape, MembersOfSeq DEF IInv
<1>3. work_list' \in Seq(Inst) /\ Members(work_list') = marked' /\ marked' \subseteq Inst
  BY <1>1, <1>2, KeptMembers
<1>4. Typing'
  BY <1>1, <1>2, <1>3 DEF Typing, TypeOK, InstsOf, info
<1>5. InfoFirst' /\ CriticalStay' /\ BlocksClosed' /\ RoundsClean'
  BY <1>1, InfoStable, CriticalStable, BlocksStable, RoundsStable DEF IInv
<1>6. Marking'
  <2>1. ASSUME NEW S \in SUBSET Inst, NeededSet(S)' PROVE marked' \subseteq S
    <3>1. NeededSet(S)
      BY <1>1, <2>1, NeedsStable
    <3> QED BY <1>1, <1>2, <3>1 DEF NeededSet
  <2>2. \A i : is_critical(i)' <=> is_critical(i)
    BY <1>1, NeedsStable
  <2> HIDE DEF cur
  <2>3. Members(insts[CurrentFunc])' = Members(cur)
    BY <1>1 DEF cur
  <2> QED BY <1>1, <1>3, <2>1, <2>2, <2>3 DEF Marking
<1>7. Sweeping'
  BY <1>1 DEF IInv, Sweeping
<1> QED BY <1>4, <1>5, <1>6, <1>7 DEF IInv

(* A marked instruction is taken in hand.                                  *)
LEMMA DequeueStep == IInv /\ Dequeue => IInv'
<1> SUFFICES ASSUME IInv, Dequeue PROVE IInv'
  OBVIOUS
<1>1. /\ phase = "work" /\ phase' = "operand" /\ work_list # << >>
      /\ ins' = Head(work_list) /\ k' = 1 /\ work_list' = Tail(work_list)
      /\ UNCHANGED <<info, prog, fi, changed, insts, operands, marked, wait_del>>
      /\ is_pure' = is_pure /\ CurrentFunc' = CurrentFunc
  BY DEF Dequeue, Take, info, CurrentFunc
<1>2. Typing
  BY DEF IInv
<1>3. /\ ins' \in Inst /\ work_list' \in Seq(Inst)
      /\ Members(work_list) = {ins'} \cup Members(work_list')
  <2>1. work_list \in Seq(Inst)
    BY <1>2 DEF Typing, TypeOK
  <2> QED BY <1>1, <2>1, TailMembers
<1>4. Typing'
  BY <1>1, <1>2, <1>3 DEF Typing, TypeOK, InstsOf, info
<1>5. InfoFirst' /\ CriticalStay' /\ BlocksClosed' /\ RoundsClean'
  BY <1>1, InfoStable, CriticalStable, BlocksStable, RoundsStable DEF IInv
<1>6. Marking'
  <2>1. ASSUME NEW i, i = Head(work_list) PROVE InHand(i)'
    <3>1. \A n \in 1..Len(operands[i]) : ~(n < 1)
      OBVIOUS
    <3> QED BY <1>1, <2>1, <3>1 DEF InHand
  <2>2. ASSUME NEW i \in marked
        PROVE  i \in Members(work_list') \/ InHand(i)' \/ Followed(i)'
    <3>1. i \in Members(work_list) \/ Followed(i)
      BY <1>1 DEF IInv, Marking, InHand
    <3> QED BY <1>1, <1>3, <2>1, <3>1 DEF Followed
  <2>3. (\A i : is_critical(i)' <=> is_critical(i)) /\ \A S : NeededSet(S)' <=> NeededSet(S)
    BY <1>1, NeedsStable
  <2> QED BY <1>1, <1>3, <2>2, <2>3 DEF IInv, Marking
<1>7. Sweeping'
  BY <1>1 DEF IInv, Sweeping
<1> QED BY <1>4, <1>5, <1>6, <1>7 DEF IInv

(* An operand of a marked instruction is marked, and queued if it was not. *)
LEMMA MarkOperandStep == IInv /\ MarkOperand => IInv'
<1> SUFFICES ASSUME IInv, MarkOperand PROVE IInv'
  OBVIOUS
<1>1. /\ phase = "operand" /\ phase' = "operand" /\ k' = k + 1
      /\ k <= Len(operands[ins])
      /\ UNCHANGED <<info, prog, fi, changed, insts, operands, ins, wait_del>>
      /\ is_pure' = is_pure /\ CurrentFunc' = CurrentFunc
  BY DEF MarkOperand, LookAtOperand, info, CurrentFunc
<1>2. Typing /\ OwnOperands(prog) /\ CurrentFunc \in Func /\ k \in Nat \ {0}
      /\ Members(insts[CurrentFunc]) \subseteq InstsOf(prog, CurrentFunc)
      /\ InstsOf(prog, CurrentFunc) \subseteq Inst
      /\ operands \in [Inst -> Seq(Inst)] /\ work_list \in Seq(Inst) /\ marked \subseteq Inst
  BY Shape DEF IInv, Typing, TypeOK
<1>3. /\ ins \in marked /\ ins \in Members(insts[CurrentFunc]) /\ ins \in Inst
      /\ operands[ins] = prog.operands[ins]
      /\ Members(prog.operands[ins]) \subseteq Members(insts[CurrentFunc])
  BY <1>1, <1>2 DEF IInv, Marking, Sweeping, BlocksClosed
<1>4. Def \in Members(prog.operands[ins])
  <2>1. k \in 1..Len(operands[ins])
    BY <1>1, <1>2, <1>3
  <2> QED BY <1>3, <2>1 DEF Def, Members
<1>5. Def \in Members(insts[CurrentFunc]) /\ Def \in Inst
  BY <1>2, <1>3, <1>4
<1>6. FunctionOf(Def) = FunctionOf(ins)
  BY <1>2, <1>3, <1>5, FunctionFound
<1>7. /\ marked' = marked \cup {Def} /\ work_list' \in Seq(Inst)
      /\ Members(work_list) \subseteq Members(work_list')
      /\ Members(work_list') \subseteq Members(work_list) \cup {Def}
      /\ Def \notin marked => Def \in Members(work_list')
  <2>1. CASE Def \notin marked
    <3>1. marked' = marked \cup {Def} /\ work_list' = Append(work_list, Def)
      BY <1>6, <2>1 DEF MarkOperand, LookAtOperand
    <3>2. Append(work_list, Def) \in Seq(Inst)
      BY <1>2, <1>5
    <3> QED BY <1>2, <3>1, <3>2, AppendMembers
  <2>2. CASE Def \in marked
    <3>1. marked' = marked /\ work_list' = work_list
      BY <2>2 DEF MarkOperand, LookAtOperand
    <3> QED BY <1>2, <2>2, <3>1
  <2> QED BY <2>1, <2>2
<1>8. Typing'
  <2>1. k' \in Nat \ {0} /\ marked' \subseteq Inst
    BY <1>1, <1>2, <1>5, <1>7
  <2> QED BY <1>1, <1>2, <1>7, <2>1 DEF Typing, TypeOK, InstsOf, info
<1>9. InfoFirst' /\ CriticalStay' /\ BlocksClosed' /\ RoundsClean'
  BY <1>1, InfoStable, CriticalStable, BlocksStable, RoundsStable DEF IInv
<1>10. Marking'
  <2>1. ASSUME NEW i \in marked'
        PROVE  i \in Members(work_list') \/ InHand(i)' \/ Followed(i)'
    <3>1. CASE i \notin marked
      BY <1>7, <2>1, <3>1
    <3>2. CASE i \in Members(work_list)
      BY <1>7, <3>2
    <3>3. CASE InHand(i)
      <4>1. ASSUME NEW n \in 1..Len(operands[i]), n < k + 1 PROVE operands[i][n] \in marked'
        <5>1. n < k \/ n = k
          BY <1>2, <4>1
        <5> QED BY <1>7, <3>3, <5>1 DEF InHand, Def
      <4> QED BY <1>1, <3>3, <4>1 DEF InHand
    <3>4. CASE Followed(i)
      BY <1>1, <1>7, <3>4 DEF Followed
    <3> QED BY <1>1, <3>1, <3>2, <3>3, <3>4 DEF IInv, Marking
  <2>2. ASSUME NEW S \in SUBSET Inst, NeededSet(S)' PROVE marked' \subseteq S
    <3>1. NeededSet(S) /\ marked \subseteq S
      BY <1>1, <2>2, NeedsStable DEF IInv, Marking
    <3>2. Members(prog.operands[ins]) \subseteq S
      BY <1>3, <3>1 DEF NeededSet
    <3> QED BY <1>4, <1>7, <3>1, <3>2
  <2>3. \A i : is_critical(i)' <=> is_critical(i)
    BY <1>1, NeedsStable
  <2>4. /\ marked \subseteq Members(insts[CurrentFunc]) /\ Members(work_list) \subseteq marked
        /\ \A i \in Members(insts[CurrentFunc]) : is_critical(i) => i \in marked
    BY <1>1 DEF IInv, Marking
  <2> QED BY <1>1, <1>3, <1>5, <1>7, <2>1, <2>2, <2>3, <2>4 DEF Marking
<1>11. Sweeping'
  BY <1>1 DEF IInv, Sweeping
<1> QED BY <1>8, <1>9, <1>10, <1>11 DEF IInv

(* The instruction in hand is done: all its operands are marked.           *)
LEMMA OperandsMarkedStep == IInv /\ OperandsMarked => IInv'
<1> SUFFICES ASSUME IInv, OperandsMarked PROVE IInv'
  OBVIOUS
<1>1. /\ phase = "operand" /\ phase' = "work" /\ k > Len(operands[ins])
      /\ UNCHANGED <<info, prog, fi, changed, insts, operands, marked, work_list,
                     ins, k, wait_del>>
      /\ is_pure' = is_pure /\ CurrentFunc' = CurrentFunc
  BY DEF OperandsMarked, info, CurrentFunc
<1>2. Typing /\ CurrentFunc \in Func /\ k \in Nat \ {0} /\ operands \in [Inst -> Seq(Inst)]
  BY Shape DEF IInv, Typing, TypeOK
<1>3. /\ ins \in marked /\ ins \in Inst /\ operands[ins] = prog.operands[ins]
  BY <1>1, <1>2 DEF IInv, Marking, Sweeping, BlocksClosed, Typing, TypeOK
<1>4. InHand(ins) => Followed(ins)
  <2>1. Len(operands[ins]) \in Nat
    BY <1>2, <1>3
  <2>2. \A n \in 1..Len(operands[ins]) : n < k
    BY <1>1, <1>2, <2>1
  <2> QED BY <1>3, <2>2 DEF InHand, Followed, Members
<1>5. Typing'
  BY <1>1, <1>2 DEF Typing, TypeOK, InstsOf, info
<1>6. InfoFirst' /\ CriticalStay' /\ BlocksClosed' /\ RoundsClean'
  BY <1>1, InfoStable, CriticalStable, BlocksStable, RoundsStable DEF IInv
<1>7. Marking'
  <2>1. \A i \in marked : i \in Members(work_list) \/ Followed(i)
    BY <1>1, <1>4 DEF IInv, Marking, InHand
  <2>2. (\A i : is_critical(i)' <=> is_critical(i)) /\ \A S : NeededSet(S)' <=> NeededSet(S)
    BY <1>1, NeedsStable
  <2> QED BY <1>1, <2>1, <2>2 DEF IInv, Marking, Followed
<1>8. Sweeping'
  BY <1>1 DEF IInv, Sweeping
<1> QED BY <1>5, <1>6, <1>7, <1>8 DEF IInv

(* The worklist is empty: the marks are closed under operands, and what is *)
(* not marked loses its own.                                               *)
LEMMA DetachStep == IInv /\ Detach => IInv'
<1> SUFFICES ASSUME IInv, Detach PROVE IInv'
  OBVIOUS
<1>1. /\ phase = "work" /\ phase' = "erase" /\ work_list = << >>
      /\ wait_del' = Unmarked
      /\ operands' = [i \in Inst |-> IF i \in Unmarked THEN << >> ELSE operands[i]]
      /\ UNCHANGED <<info, prog, fi, changed, insts, marked, work_list, ins, k>>
      /\ is_pure' = is_pure /\ CurrentFunc' = CurrentFunc /\ wait_del = {}
  BY DEF Detach, DetachAll, info, CurrentFunc, IInv, Sweeping
<1>2. Typing /\ operands \in [Inst -> Seq(Inst)] /\ Unmarked \subseteq Inst
      /\ \A f \in Func : Members(insts[f]) \subseteq Inst
  BY Shape DEF IInv, Typing, TypeOK, Unmarked
<1>3. Typing'
  <2>1. operands' \in [Inst -> Seq(Inst)] /\ wait_del' \subseteq Inst
    BY <1>1, <1>2
  <2> QED BY <1>1, <1>2, <2>1 DEF Typing, TypeOK, InstsOf, info
<1>4. InfoFirst' /\ CriticalStay' /\ RoundsClean'
  BY <1>1, InfoStable, CriticalStable, RoundsStable DEF IInv
<1>5. BlocksClosed'
  BY <1>1, <1>2 DEF IInv, BlocksClosed
<1>6. Marking'
  <2>1. \A i \in marked : Followed(i)
    BY <1>1, MembersOfEmpty DEF IInv, Marking, InHand
  <2>2. (\A i : is_critical(i)' <=> is_critical(i)) /\ \A S : NeededSet(S)' <=> NeededSet(S)
    BY <1>1, NeedsStable
  <2> QED BY <1>1, <2>1, <2>2 DEF IInv, Marking, Followed
<1>7. Sweeping'
  BY <1>1 DEF Sweeping, Unmarked
<1> QED BY <1>3, <1>4, <1>5, <1>6, <1>7 DEF IInv

(* What is erased was unmarked, so the function is left with its marks.    *)
LEMMA EraseStep == IInv /\ Erase => IInv'
<1> SUFFICES ASSUME IInv, Erase PROVE IInv'
  OBVIOUS
<1> DEFINE left == Kept(insts[CurrentFunc], Inst \ wait_del)
<1>1. /\ phase = "erase" /\ phase' = "next" /\ wait_del' = {}
      /\ insts' = [insts EXCEPT ![CurrentFunc] = left]
      /\ changed' = (changed \/ wait_del # {})
      /\ UNCHANGED <<info, prog, fi, operands, marked, work_list, ins, k>>
      /\ is_pure' = is_pure
  BY DEF Erase, EraseAll, info
<1>2. /\ Typing /\ CurrentFunc \in Func /\ insts \in [Func -> Seq(Inst)]
      /\ insts[CurrentFunc] \in Seq(Inst) /\ OwnOperands(prog)
      /\ \A f \in Func : /\ Members(insts[f]) \subseteq InstsOf(prog, f)
                         /\ InstsOf(prog, f) \subseteq Inst
  BY Shape DEF IInv, Typing
<1>3. /\ wait_del = Members(insts[CurrentFunc]) \ marked
      /\ marked \subseteq Members(insts[CurrentFunc])
      /\ \A i \in Members(insts[CurrentFunc]) : is_critical(i) => i \in marked
      /\ \A i \in marked : Followed(i)
      /\ \A S \in SUBSET Inst : NeededSet(S) => marked \subseteq S
  BY <1>1, MembersOfEmpty DEF IInv, Sweeping, Marking, InHand, Unmarked
<1>4. left \in Seq(Inst) /\ Members(left) = marked
  <2>1. left \in Seq(Inst) /\ Members(left) = Members(insts[CurrentFunc]) \cap (Inst \ wait_del)
    BY <1>2, KeptMembers
  <2> QED BY <1>2, <1>3, <2>1
<1> HIDE DEF left
<1>5. \A f \in Func : insts'[f] = IF f = CurrentFunc THEN left ELSE insts[f]
  BY <1>1, <1>2
<1>6. \A f \in Func : Members(insts'[f]) = IF f = CurrentFunc THEN marked ELSE Members(insts[f])
  BY <1>4, <1>5
<1>7. Typing'
  <2>1. insts' \in [Func -> Seq(Inst)]
    BY <1>1, <1>2, <1>4
  <2>2. \A f \in Func : Members(insts'[f]) \subseteq InstsOf(prog, f)
    BY <1>2, <1>3, <1>6
  <2>3. changed' \in BOOLEAN /\ wait_del' \subseteq Inst
    BY <1>1
  <2> QED BY <1>1, <1>2, <2>1, <2>2, <2>3 DEF Typing, TypeOK, InstsOf, info
<1>8. InfoFirst'
  BY <1>1, InfoStable DEF IInv
<1>9. (\A i : is_critical(i)' <=> is_critical(i)) /\ \A S : NeededSet(S)' <=> NeededSet(S)
  BY <1>1, NeedsStable
<1>10. CriticalStay'
  <2>1. ASSUME NEW f \in Func, NEW i \in InstsOf(prog, f), is_critical(i)
        PROVE  i \in Members(insts'[f])
    <3>1. i \in Members(insts[f])
      BY <1>1, <2>1 DEF IInv, CriticalStay
    <3> QED BY <1>3, <1>6, <2>1, <3>1
  <2> QED BY <1>1, <1>9, <2>1 DEF CriticalStay, InstsOf
<1>11. BlocksClosed'
  <2>1. ASSUME NEW f \in Func, NEW i \in Members(insts'[f])
        PROVE  Members(prog.operands[i]) \subseteq Members(insts'[f]) /\ operands[i] = prog.operands[i]
    <3>1. CASE f = CurrentFunc
      <4>1. i \in marked /\ i \notin wait_del /\ i \in Members(insts[f])
        BY <1>3, <1>6, <2>1, <3>1
      <4>2. Members(prog.operands[i]) \subseteq marked
        BY <1>3, <4>1 DEF Followed
      <4>3. operands[i] = prog.operands[i]
        BY <4>1 DEF IInv, BlocksClosed
      <4> QED BY <1>6, <3>1, <4>2, <4>3
    <3>2. CASE f # CurrentFunc
      <4>1. i \in Members(insts[f]) /\ i \in InstsOf(prog, f)
        BY <1>2, <1>6, <2>1, <3>2
      <4>2. i \notin wait_del
        BY <1>2, <1>3, <3>2, <4>1 DEF OwnOperands
      <4>3. Members(prog.operands[i]) \subseteq Members(insts[f]) /\ operands[i] = prog.operands[i]
        BY <4>1, <4>2 DEF IInv, BlocksClosed
      <4> QED BY <1>6, <3>2, <4>3
    <3> QED BY <3>1, <3>2
  <2> QED BY <1>1, <2>1 DEF BlocksClosed
<1>12. RoundsClean'
  <2>1. ASSUME NEW n \in 1..Len(Order), n <= fi, NEW S \in SUBSET Inst, NeededSet(S)
        PROVE  Members(insts'[Order[n]]) \subseteq S
    <3>1. Order[n] \in Func
      BY OrderAssumption
    <3>2. CASE Order[n] = CurrentFunc
      BY <1>3, <1>6, <2>1, <3>1, <3>2
    <3>3. CASE Order[n] # CurrentFunc
      <4>1. Cleaned(n)
        <5>1. n # fi
          BY <3>3 DEF CurrentFunc
        <5>2. n \in Nat /\ fi \in Nat
          BY <1>2, Shape
        <5> QED BY <2>1, <5>1, <5>2 DEF Cleaned
      <4>2. Members(insts[Order[n]]) \subseteq S
        BY <1>1, <2>1, <4>1 DEF IInv, RoundsClean
      <4> QED BY <1>6, <3>1, <3>3, <4>2
    <3> QED BY <3>2, <3>3
  <2>2. \A n \in 1..Len(Order) : Cleaned(n)' => n <= fi
    BY <1>1, <1>2, Shape DEF Cleaned
  <2> QED BY <1>1, <1>9, <2>1, <2>2 DEF RoundsClean
<1> QED BY <1>1, <1>7, <1>8, <1>10, <1>11, <1>12 DEF IInv, Marking, Sweeping

LEMMA NextFunctionStep == IInv /\ NextFunction => IInv'
<1> SUFFICES ASSUME IInv, NextFunction PROVE IInv'
  OBVIOUS
<1>1. /\ phase = "next" /\ phase' = "mark" /\ fi < Len(Order) /\ fi' = fi + 1
      /\ UNCHANGED <<info, prog, changed, insts, operands, marked, work_list, ins, k, wait_del>>
      /\ is_pure' = is_pure
  BY DEF NextFunction, info
<1>2. Typing /\ Len(Order) \in Nat /\ fi \in 1..Len(Order)
  BY Shape DEF IInv
<1>3. Typing'
  <2>1. fi' \in 1..Len(Order)
    BY <1>1, <1>2
  <2> QED BY <1>1, <1>2, <2>1 DEF Typing, TypeOK, InstsOf, info
<1>4. InfoFirst' /\ CriticalStay' /\ BlocksClosed'
  BY <1>1, InfoStable, CriticalStable, BlocksStable DEF IInv
<1>5. RoundsClean'
  <2>1. \A n \in 1..Len(Order) : Cleaned(n)' => Cleaned(n)
    BY <1>1, <1>2 DEF Cleaned
  <2> QED BY <1>1, <2>1, NeedsStable DEF IInv, RoundsClean
<1> QED BY <1>1, <1>3, <1>4, <1>5 DEF IInv, Marking, Sweeping

LEMMA EndRoundStep == IInv /\ EndRound => IInv'
<1> SUFFICES ASSUME IInv, EndRound PROVE IInv'
  OBVIOUS
<1>1. /\ phase = "next" /\ fi = Len(Order)
      /\ \/ phase' = "mark" /\ fi' = 1 /\ changed' = FALSE
         \/ phase' = "done" /\ fi' = fi /\ changed' = changed
      /\ UNCHANGED <<info, prog, insts, operands, marked, work_list, ins, k, wait_del>>
      /\ is_pure' = is_pure
  BY DEF EndRound, info
<1>2. Typing /\ Len(Order) \in Nat /\ fi \in 1..Len(Order) /\ changed \in BOOLEAN
  BY Shape DEF IInv, Typing, TypeOK
<1>3. Typing'
  <2>1. fi' \in 1..Len(Order)
    BY <1>1, <1>2
  <2>2. changed' \in BOOLEAN
    BY <1>1, <1>2
  <2>3. phase' \in {"mark", "done"}
    BY <1>1
  <2> QED BY <1>1, <1>2, <2>1, <2>2, <2>3 DEF Typing, TypeOK, InstsOf, info
<1>4. InfoFirst' /\ CriticalStay' /\ BlocksClosed'
  BY <1>1, InfoStable, CriticalStable, BlocksStable DEF IInv
<1>5. RoundsClean'
  <2>1. \A n \in 1..Len(Order) : Cleaned(n)' => Cleaned(n)
    BY <1>1, <1>2 DEF Cleaned
  <2> QED BY <1>1, <2>1, NeedsStable DEF IInv, RoundsClean
<1> QED BY <1>1, <1>3, <1>4, <1>5 DEF IInv, Marking, Sweeping

LEMMA NextIInv == IInv /\ [Next]_vars => IInv'
<1>1. CASE UNCHANGED vars
  <2> SUFFICES ASSUME IInv PROVE IInv'
    OBVIOUS
  <2>1. /\ UNCHANGED <<prog, phase, fi, changed, insts, operands, marked, work_list,
                      ins, k, wait_del, module, fpc, is_pure>>
        /\ UNCHANGED info /\ CurrentFunc' = CurrentFunc
    BY <1>1 DEF vars, info, CurrentFunc
  <2>2. Typing'
    BY <2>1 DEF IInv, Typing, TypeOK, InstsOf
  <2>3. InfoFirst'
    BY <2>1, PurityNext DEF IInv, InfoFirst
  <2>4. BlocksClosed'
    BY <2>1, BlocksStable DEF IInv
  <2>5. (\A i : is_critical(i)' <=> is_critical(i)) /\ \A S : NeededSet(S)' <=> NeededSet(S)
    BY <2>1, NeedsStable
  <2>6. CriticalStay'
    BY <2>1, <2>5 DEF IInv, CriticalStay, InstsOf
  <2>7. \A i : (InHand(i)' <=> InHand(i)) /\ (Followed(i)' <=> Followed(i))
    BY <2>1 DEF InHand, Followed
  <2>8. Marking'
    BY <2>1, <2>5, <2>7 DEF IInv, Marking
  <2>9. Sweeping'
    BY <2>1 DEF IInv, Sweeping, Unmarked
  <2>10. RoundsClean'
    <3>1. \A n : Cleaned(n)' <=> Cleaned(n)
      BY <2>1 DEF Cleaned
    <3> QED BY <2>1, <2>5, <3>1 DEF IInv, RoundsClean
  <2> QED BY <2>2, <2>3, <2>4, <2>6, <2>8, <2>9, <2>10 DEF IInv
<1> QED BY <1>1, InfoStep, StartRoundStep, MarkCriticalStep, DequeueStep, MarkOperandStep,
           OperandsMarkedStep, DetachStep, EraseStep, NextFunctionStep, EndRoundStep DEF Next

LEMMA IInvHolds == Spec => []IInv
  BY InitIInv, NextIInv, PTL DEF Spec

-----------------------------------------------------------------------------
(* Lists, worklist and deletion set stay typed, for every program.         *)
THEOREM TypeCorrect == Spec => []TypeOK
<1>1. IInv => TypeOK
  BY DEF IInv, Typing
<1> QED BY <1>1, IInvHolds, PTL

(* sweep erases nothing with an effect: no store, branch or return, and no *)
(* call from which a chain of calls reaches a function with an effect.     *)
THEOREM EffectsAreKept == Spec => []EffectsKept
<1>1. IInv => EffectsKept
  <2> SUFFICES ASSUME IInv, NEW i \in Erased
               PROVE  /\ prog.op[i] \notin {"store", "br", "ret"}
                      /\ prog.op[i] = "call" => prog.callee[i] \notin Info!Impure
    BY DEF EffectsKept
  <2>1. PICK f \in Func : i \in InstsOf(prog, f)
    BY DEF Erased
  <2>2. i \notin Members(insts[f])
    BY <2>1 DEF Erased, Remaining
  <2>3. phase # "info" /\ fpc = "done"
    BY <2>1, <2>2 DEF IInv, InfoFirst, InstsOf
  <2>4. ~is_critical(i)
    BY <2>1, <2>2, <2>3 DEF IInv, CriticalStay
  <2>5. {g \in Func : ~is_pure[g]} = Info!Impure
    BY <2>3, PurityExact DEF IInv, InfoFirst
  <2> QED BY <2>4, <2>5 DEF is_critical, CallsOneOf, AlwaysStays
<1> QED BY <1>1, IInvHolds, PTL

(* No instruction that stays refers to one that is gone, between the two   *)
(* loops of sweep included.                                                *)
THEOREM LiveCodeStaysIntact == Spec => []LiveCodeIntact
<1>1. IInv => LiveCodeIntact
  <2> SUFFICES ASSUME IInv, NEW f \in Func, NEW i \in Members(insts[f])
               PROVE  /\ i \notin wait_del => operands[i] = prog.operands[i]
                      /\ Members(operands[i]) \subseteq Members(insts[f])
    BY DEF LiveCodeIntact, Remaining
  <2>1. /\ Members(prog.operands[i]) \subseteq Members(insts[f])
        /\ IF i \in wait_del THEN operands[i] = << >> ELSE operands[i] = prog.operands[i]
    BY DEF IInv, BlocksClosed
  <2> QED BY <2>1, MembersOfEmpty
<1> QED BY <1>1, IInvHolds, PTL

(* When run returns, whatever is left is needed: it is in every set that   *)
(* holds what is critical and the operands of its members.                 *)
THEOREM NothingNeedlessLeft == Spec => []OnlyNeededLeft
<1>1. IInv => OnlyNeededLeft
  <2> SUFFICES ASSUME IInv, phase = "done", NEW S \in SUBSET Inst, NeededSet(S),
                      NEW f \in Func
               PROVE  Members(insts[f]) \subseteq S
    BY DEF OnlyNeededLeft, Remaining
  <2>1. PICK n \in 1..Len(Order) : Order[n] = f
    BY OrderAssumption
  <2>2. Cleaned(n)
    <3>1. Len(Order) \in Nat /\ fi = Len(Order)
      BY Shape DEF IInv, RoundsClean
    <3> QED BY <2>1, <3>1 DEF Cleaned
  <2> QED BY <2>1, <2>2 DEF IInv, RoundsClean
<1> QED BY <1>1, IInvHolds, PTL
=============================================================================
