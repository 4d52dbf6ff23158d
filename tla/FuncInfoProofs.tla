--------------------------- MODULE FuncInfoProofs ---------------------------
(***************************************************************************)
(* FuncInfo computes the impure functions exactly, for every module, every *)
(* call graph and every order of the functions.                            *)
(*                                                                         *)
(* The inductive invariant is the worklist invariant: whatever is marked   *)
(* impure deserves it, and its callers are marked too unless it is still   *)
(* queued, or is the function in hand and its remaining uses are ahead.    *)
(***************************************************************************)
EXTENDS FuncInfo, TLAPS

(* f waits in the queue.                                                   *)
Queued(f) == \E j \in 1..Len(worklist) : worklist[j] = f

(* While run() marks the bodies, a function already visited carries its    *)
(* own trivial mark, and is queued if that mark is impure.                 *)
MarkInv ==
    pc = "mark" =>
      /\ \A k \in 1..at :
           /\ is_pure[Order[k]] <=> ~TriviallyImpure(Order[k])
           /\ TriviallyImpure(Order[k]) => Queued(Order[k])
      /\ \A f \in Func : Queued(f) => TriviallyImpure(f)

(* f is in hand, and the callers before the current use are done.          *)
InHand(f) ==
    /\ pc = "process" /\ f = now
    /\ \A k \in 1..Len(module.uses[f]) :
          k < use => ~is_pure[module.uses[f][k]]

Propagated(f) ==
    \A k \in 1..Len(module.uses[f]) : ~is_pure[module.uses[f][k]]

DrainInv ==
    pc # "mark" =>
      /\ \A f \in Func : TriviallyImpure(f) => ~is_pure[f]
      /\ \A f \in Func : ~is_pure[f] => f \in Impure
      /\ \A f \in Func : ~is_pure[f] => Queued(f) \/ InHand(f) \/ Propagated(f)

NowInv == pc = "process" => ~is_pure[now]

WorkInv == pc # "mark" => \A f \in Func : Queued(f) => ~is_pure[f]

DoneInv == pc = "done" => worklist = << >>

IInv == TypeOK /\ MarkInv /\ DrainInv /\ NowInv /\ WorkInv /\ DoneInv

-----------------------------------------------------------------------------
(* Appending keeps what a sequence holds, and holds what is appended.      *)
LEMMA AppendHolds ==
  ASSUME NEW S, NEW q \in Seq(S), NEW x \in S
  PROVE  /\ Append(q, x) \in Seq(S)
         /\ Len(Append(q, x)) = Len(q) + 1
         /\ Append(q, x)[Len(q) + 1] = x
         /\ \A j \in 1..Len(q) : Append(q, x)[j] = q[j]
  OBVIOUS

LEMMA QueueGrows ==
  ASSUME worklist \in Seq(Func), NEW f \in Func, worklist' = Append(worklist, f)
  PROVE  /\ worklist' \in Seq(Func)
         /\ \A g : Queued(g)' <=> g = f \/ Queued(g)
<1>1. /\ worklist' \in Seq(Func) /\ Len(worklist') = Len(worklist) + 1
      /\ worklist'[Len(worklist) + 1] = f
      /\ \A j \in 1..Len(worklist) : worklist'[j] = worklist[j]
  BY AppendHolds
<1>2. Len(worklist) \in Nat
  OBVIOUS
<1>3. ASSUME NEW g PROVE Queued(g)' <=> g = f \/ Queued(g)
  BY <1>1, <1>2 DEF Queued
<1> QED BY <1>1, <1>3

LEMMA QueueShrinks ==
  ASSUME worklist \in Seq(Func), worklist # << >>, worklist' = Tail(worklist)
  PROVE  /\ worklist' \in Seq(Func) /\ Head(worklist) \in Func
         /\ Queued(Head(worklist))
         /\ \A g : Queued(g)' => Queued(g)
         /\ \A g : Queued(g) => g = Head(worklist) \/ Queued(g)'
<1>1. /\ worklist' \in Seq(Func) /\ Head(worklist) = worklist[1]
      /\ Len(worklist) \in Nat \ {0} /\ Len(worklist') = Len(worklist) - 1
      /\ \A j \in 1..Len(worklist') : worklist'[j] = worklist[j + 1]
  OBVIOUS
<1>2. Queued(Head(worklist)) /\ Head(worklist) \in Func
  BY <1>1 DEF Queued
<1>3. ASSUME NEW g, Queued(g)' PROVE Queued(g)
  BY <1>1, <1>3 DEF Queued
<1>4. ASSUME NEW g, Queued(g), g # Head(worklist) PROVE Queued(g)'
  <2>1. PICK j \in 1..Len(worklist) : worklist[j] = g
    BY <1>4 DEF Queued
  <2>2. j - 1 \in 1..Len(worklist') /\ worklist'[j - 1] = g
    BY <2>1, <1>4, <1>1
  <2> QED BY <2>2 DEF Queued
<1> QED BY <1>1, <1>2, <1>3, <1>4

(* The type invariant holds of every reachable state.                      *)
LEMMA InitTypeOK == Init => TypeOK
  BY OrderAssumption, ModulesAssumption DEF Init, TypeOK

LEMMA NextTypeOK == TypeOK /\ [Next]_vars => TypeOK'
<1> SUFFICES ASSUME TypeOK, [Next]_vars PROVE TypeOK'
  OBVIOUS
<1>1. CASE TrivialMark
  <2>1. Order[at + 1] \in Func
    BY <1>1, OrderAssumption DEF TrivialMark, Mark, TypeOK
  <2>2. worklist' \in Seq(Func)
    BY <1>1, <2>1 DEF TrivialMark, Mark, TypeOK
  <2>3. is_pure' \in [Func -> BOOLEAN]
    BY <1>1, <2>1 DEF TrivialMark, Mark, TypeOK, TriviallyImpure
  <2>4. at' \in 0..Len(Order)
    BY <1>1, OrderAssumption DEF TrivialMark, Mark, TypeOK
  <2>5. UNCHANGED <<module, pc, now, use>>
    BY <1>1 DEF TrivialMark, Mark
  <2> QED BY <2>2, <2>3, <2>4, <2>5 DEF TypeOK
<1>2. CASE Marked
  BY <1>2 DEF Marked, TypeOK
<1>3. CASE Dequeue
  <2>1. Head(worklist) \in Func /\ Tail(worklist) \in Seq(Func)
    BY <1>3 DEF Dequeue, Walk, TypeOK
  <2> QED BY <2>1,  <1>3 DEF Dequeue, Walk, TypeOK
<1>4. CASE ProcessUse
  <2>1. module.uses[now] \in Seq(Func)
    BY <1>4, ModulesAssumption DEF ProcessUse, VisitCaller, SetPure, Queue, Caller, TypeOK, ModuleType
  <2>2. module.uses[now][use] \in Func
    BY <1>4, <2>1 DEF ProcessUse, VisitCaller, SetPure, Queue, Caller, TypeOK
  <2>3. is_pure' \in [Func -> BOOLEAN]
    BY <1>4, <2>2 DEF ProcessUse, VisitCaller, SetPure, Queue, Caller, TypeOK
  <2>4. worklist' \in Seq(Func)
    <3>1. \/ worklist' = worklist
          \/ worklist' = Append(worklist, module.uses[now][use])
      BY <1>4 DEF ProcessUse, VisitCaller, SetPure, Queue, Caller
    <3> QED BY <3>1, <2>2, AppendHolds DEF TypeOK
  <2> QED BY <1>4, <2>3, <2>4 DEF ProcessUse, VisitCaller, SetPure, Queue, Caller, TypeOK
<1>5. CASE Processed
  BY <1>5 DEF Processed, TypeOK
<1>6. CASE Finish
  BY <1>6 DEF Finish, TypeOK
<1>7. CASE UNCHANGED vars
  BY <1>7 DEF vars, TypeOK
<1> QED BY <1>1, <1>2, <1>3, <1>4, <1>5, <1>6, <1>7 DEF Next

(* TypeOK for every module under compilation.                              *)
THEOREM TypeCorrect == Spec => []TypeOK
  BY InitTypeOK, NextTypeOK, PTL DEF Spec

-----------------------------------------------------------------------------
(* TriviallyImpure and Impure are functions of the module alone.           *)
LEMMA ImpureStable ==
  ASSUME module' = module
  PROVE  /\ Impure' = Impure
         /\ \A f : TriviallyImpure(f)' = TriviallyImpure(f)
  BY DEF Impure, ClosedUnderCalls, TriviallyImpure, Callers

LEMMA TrivialIsImpure ==
  ASSUME NEW f \in Func, TriviallyImpure(f)
  PROVE  f \in Impure
  BY DEF Impure, ClosedUnderCalls

(* A caller of an impure function is impure.                               *)
LEMMA CallerIsImpure ==
  ASSUME TypeOK, NEW f \in Impure, NEW k \in 1..Len(module.uses[f])
  PROVE  module.uses[f][k] \in Impure
<1>1. module.uses \in [Func -> Seq(Func)] /\ f \in Func
  BY ModulesAssumption DEF TypeOK, ModuleType, Impure
<1>2. module.uses[f][k] \in Func
  BY <1>1
<1>3. ASSUME NEW S \in SUBSET Func, ClosedUnderCalls(S)
      PROVE  module.uses[f][k] \in S
  <2>1. f \in S
    BY <1>3 DEF Impure
  <2>2. Callers(f) \subseteq S
    BY <1>3, <2>1 DEF ClosedUnderCalls
  <2> QED BY <2>2 DEF Callers
<1> QED BY <1>2, <1>3 DEF Impure

LEMMA InitIInv == Init => IInv
<1> SUFFICES ASSUME Init PROVE IInv
  OBVIOUS
<1>1. \A f : ~Queued(f)
  <2>1. worklist = << >> /\ Len(worklist) = 0
    BY DEF Init
  <2> QED BY <2>1 DEF Queued
<1>2. at = 0 /\ pc = "mark"
  BY DEF Init
<1>3. MarkInv
  BY <1>1, <1>2 DEF MarkInv
<1> QED BY <1>2, <1>3, InitTypeOK DEF IInv, DrainInv, NowInv, WorkInv, DoneInv

LEMMA NextIInv == IInv /\ [Next]_vars => IInv'
<1> SUFFICES ASSUME IInv, [Next]_vars PROVE IInv'
  OBVIOUS
<1>t. TypeOK /\ TypeOK'
  BY NextTypeOK DEF IInv
<1>m. module' = module
  BY DEF Next, TrivialMark, Mark, Marked, Dequeue, Walk, ProcessUse, VisitCaller, SetPure, Queue, Caller, Processed, Finish, vars
<1>i. /\ Impure' = Impure
      /\ \A f : TriviallyImpure(f)' = TriviallyImpure(f)
  BY <1>m, ImpureStable
<1>u. module.uses \in [Func -> Seq(Func)]
  BY <1>t, ModulesAssumption DEF TypeOK, ModuleType
<1>1. CASE TrivialMark
  <2> DEFINE f == Order[at + 1]
  <2>1. /\ f \in Func /\ at \in Nat /\ at' = at + 1 /\ pc = "mark" /\ pc' = "mark"
        /\ at + 1 <= Len(Order) /\ Len(Order) \in Nat /\ worklist \in Seq(Func)
    BY <1>1, <1>t, OrderAssumption DEF TrivialMark, Mark, TypeOK
  <2>2. \A g \in Func : is_pure'[g] <=> IF g = f THEN ~TriviallyImpure(g) ELSE is_pure[g]
    BY <1>1, <1>t, <2>1 DEF TrivialMark, Mark, TypeOK
  <2>3. IF TriviallyImpure(f) THEN worklist' = Append(worklist, f)
                              ELSE worklist' = worklist
    BY <1>1 DEF TrivialMark, Mark
  <2>4. \A g \in Func : Queued(g)' <=> (g = f /\ TriviallyImpure(f)) \/ Queued(g)
    <3>1. CASE TriviallyImpure(f)
      BY <2>3, <3>1, <2>1, QueueGrows
    <3>2. CASE ~TriviallyImpure(f)
      BY <2>3, <3>2 DEF Queued
    <3> QED BY <3>1, <3>2
  <2>5. ASSUME NEW k \in 1..at'
        PROVE  /\ is_pure'[Order[k]] <=> ~TriviallyImpure(Order[k])
               /\ TriviallyImpure(Order[k]) => Queued(Order[k])'
    <3>1. Order[k] \in Func
      BY <2>1, OrderAssumption
    <3>2. CASE Order[k] = f
      BY <3>1, <3>2, <2>2, <2>4
    <3>3. CASE Order[k] # f
      <4>1. k \in 1..at
        BY <2>1, <3>3
      <4> QED BY <4>1, <3>1, <3>3, <2>1, <2>2, <2>4 DEF IInv, MarkInv
    <3> QED BY <3>2, <3>3
  <2>6. \A g \in Func : Queued(g)' => TriviallyImpure(g)
    BY <2>1, <2>4 DEF IInv, MarkInv
  <2>7. MarkInv'
    BY <2>1, <2>5, <2>6, <1>i DEF MarkInv, Queued
  <2> HIDE DEF f
  <2> QED BY <1>t, <2>1, <2>7 DEF IInv, DrainInv, NowInv, WorkInv, DoneInv
<1>2. CASE Marked
  <2>1. \A f \in Func : \E k \in 1..at : Order[k] = f
    BY <1>2, <1>t, OrderAssumption DEF Marked, TypeOK
  <2>2. \A f \in Func : is_pure[f] <=> ~TriviallyImpure(f)
    BY <1>2, <2>1 DEF IInv, MarkInv, Marked
  <2>3. \A f \in Func : TriviallyImpure(f) <=> Queued(f)
    BY <1>2, <2>1 DEF IInv, MarkInv, Marked
  <2>4. \A f : Queued(f)' <=> Queued(f)
    BY <1>2 DEF Marked, Queued
  <2>5. DrainInv'
    BY <1>2, <1>i, <2>2, <2>3, <2>4, TrivialIsImpure DEF Marked, DrainInv
  <2>6. WorkInv'
    BY <1>2, <2>2, <2>3, <2>4 DEF Marked, WorkInv
  <2> QED BY <1>2, <1>t, <2>5, <2>6
          DEF Marked, IInv, MarkInv, NowInv, DoneInv
<1>3. CASE Dequeue
  <2>1. /\ now' = Head(worklist) /\ use' = 1 /\ now' \in Func
        /\ Queued(now') /\ \A g : Queued(g)' => Queued(g)
        /\ \A g : Queued(g) => g = now' \/ Queued(g)'
    BY <1>3, <1>t, QueueShrinks DEF Dequeue, Walk, TypeOK
  <2>2. \A f \in Func : f = now' => InHand(f)'
    <3>1. Len(module.uses[now']) \in Nat
      BY <2>1, <1>u
    <3>2. pc' = "process" /\ module' = module /\ use' = 1
      BY <1>3 DEF Dequeue, Walk
    <3>3. \A k \in 1..Len(module.uses[now']) : ~(k < 1)
      OBVIOUS
    <3> QED BY <3>2, <3>3, <1>m DEF InHand
  <2>3. ASSUME NEW f \in Func, ~is_pure[f]
        PROVE  Queued(f)' \/ InHand(f)' \/ Propagated(f)'
    <3>1. CASE Queued(f)
      BY <3>1, <2>1, <2>2
    <3>2. CASE Propagated(f)
      BY <3>2, <1>3 DEF Dequeue, Walk, Propagated
    <3>3. pc = "drain" /\ is_pure' = is_pure
      BY <1>3 DEF Dequeue, Walk
    <3>4. Queued(f) \/ Propagated(f)
      BY <2>3, <3>3 DEF IInv, DrainInv, InHand
    <3> QED BY <3>1, <3>2, <3>4
  <2>4. DrainInv'
    BY <1>3, <1>i, <2>3 DEF Dequeue, Walk, IInv, DrainInv
  <2>5. NowInv' /\ WorkInv'
    BY <1>3, <2>1 DEF Dequeue, Walk, IInv, NowInv, WorkInv
  <2> QED BY <1>3, <1>t, <2>4, <2>5 DEF Dequeue, Walk, IInv, MarkInv, DoneInv
<1>4. CASE ProcessUse
  <2> DEFINE caller == module.uses[now][use]
  <2>1. /\ pc = "process" /\ pc' = "process" /\ now' = now /\ use' = use + 1
        /\ use \in 1..Len(module.uses[now]) /\ now \in Func /\ use \in Nat
        /\ module.uses[now] \in Seq(Func) /\ worklist \in Seq(Func)
    BY <1>4, <1>t, <1>u DEF ProcessUse, VisitCaller, SetPure, Queue, Caller, TypeOK
  <2>2. caller \in Func
    BY <2>1
  <2>3. caller \in Impure
    <3>1. now \in Impure
      BY <2>1 DEF IInv, NowInv, DrainInv
    <3> QED BY <3>1, <2>1, <1>t, CallerIsImpure
  <2>4. \A g \in Func : is_pure'[g] <=> is_pure[g] /\ g # caller
    BY <1>4, <1>t, <2>2 DEF ProcessUse, VisitCaller, SetPure, Queue, Caller, TypeOK
  <2>5. \A g \in Func : Queued(g)' <=> Queued(g) \/ (is_pure[caller] /\ g = caller)
    <3>1. CASE is_pure[caller]
      <4>1. worklist' = Append(worklist, caller)
        BY <1>4, <3>1 DEF ProcessUse, VisitCaller, SetPure, Queue, Caller
      <4> QED BY <4>1, <3>1, <2>1, <2>2, QueueGrows
    <3>2. CASE ~is_pure[caller]
      BY <1>4, <3>2 DEF ProcessUse, VisitCaller, SetPure, Queue, Caller, Queued
    <3> QED BY <3>1, <3>2
  <2>6. ASSUME NEW f \in Func, ~is_pure'[f]
        PROVE  Queued(f)' \/ InHand(f)' \/ Propagated(f)'
    <3>1. CASE is_pure[f]
      BY <3>1, <2>2, <2>4, <2>5, <2>6
    <3>2. CASE ~is_pure[f] /\ Queued(f)
      BY <3>2, <2>5
    <3>3. CASE InHand(f)
      <4>1. ASSUME NEW k \in 1..Len(module.uses[f]), k < use'
            PROVE  ~is_pure'[module.uses[f][k]]
        <5>1. f = now /\ (k < use \/ k = use)
          BY <3>3, <2>1, <4>1 DEF InHand
        <5>2. module.uses[f][k] \in Func
          BY <5>1, <2>1
        <5> QED BY <5>1, <5>2, <2>4, <3>3, <4>1 DEF InHand
      <4> QED BY <4>1, <3>3, <2>1, <1>m DEF InHand
    <3>4. CASE Propagated(f)
      <4>1. module.uses[f] \in Seq(Func)
        BY <1>u
      <4> QED BY <4>1, <3>4, <2>4, <1>m DEF Propagated
    <3> QED BY <3>1, <3>2, <3>3, <3>4, <2>1 DEF IInv, DrainInv
  <2>7. DrainInv'
    BY <2>1, <2>2, <2>3, <2>4, <2>6, <1>i DEF IInv, DrainInv
  <2>8. NowInv' /\ WorkInv'
    BY <2>1, <2>2, <2>4, <2>5 DEF IInv, NowInv, WorkInv
  <2> HIDE DEF caller
  <2> QED BY <2>1, <1>t, <2>7, <2>8 DEF IInv, MarkInv, DoneInv
<1>5. CASE Processed
  <2>1. Len(module.uses[now]) \in Nat /\ use \in Nat
    BY <1>t, <1>u DEF TypeOK
  <2>2. \A f \in Func : InHand(f) => Propagated(f)
    BY <1>5, <2>1 DEF Processed, InHand, Propagated
  <2>3. DrainInv'
    BY <1>5, <2>2, <1>i DEF Processed, IInv, DrainInv, Queued, InHand, Propagated
  <2> QED BY <1>5, <1>t, <2>3
          DEF Processed, IInv, MarkInv, NowInv, WorkInv, DoneInv, Queued
<1>6. CASE Finish
  BY <1>6, <1>t, <1>i
     DEF Finish, IInv, MarkInv, DrainInv, NowInv, WorkInv, DoneInv, Queued, InHand, Propagated
<1>7. CASE UNCHANGED vars
  BY <1>7, <1>t, <1>i
     DEF vars, IInv, MarkInv, DrainInv, NowInv, WorkInv, DoneInv, Queued, InHand, Propagated
<1> QED BY <1>1, <1>2, <1>3, <1>4, <1>5, <1>6, <1>7 DEF Next

(* IInv is an invariant, so the result is exact: the functions marked      *)
(* impure form a set closed under calls, and nothing in it is undeserved.  *)
LEMMA IInvIsExact == IInv => ExactAtDone
<1> SUFFICES ASSUME IInv, pc = "done"
             PROVE  FoundImpure = Impure
  BY DEF ExactAtDone
<1> DEFINE S == FoundImpure
<1>0. S = {g \in Func : ~is_pure[g]}
  BY DEF FoundImpure
<1> HIDE DEF S
<1>1. module.uses \in [Func -> Seq(Func)]
  BY ModulesAssumption DEF IInv, TypeOK, ModuleType
<1>2. \A g \in S : ~Queued(g)
  BY <1>0 DEF IInv, DoneInv, Queued
<1>3. \A g \in S : Propagated(g)
  BY <1>0, <1>2 DEF IInv, DrainInv, InHand
<1>4. ASSUME NEW g \in S, NEW k \in 1..Len(module.uses[g])
      PROVE  module.uses[g][k] \in S
  BY <1>0, <1>1, <1>3 DEF Propagated
<1>8. \A g \in S : Callers(g) \subseteq S
  BY <1>4 DEF Callers
<1>5. \A g \in Func : TriviallyImpure(g) => g \in S
  BY <1>0 DEF IInv, DrainInv
<1>6. ClosedUnderCalls(S) /\ S \in SUBSET Func
  BY <1>0, <1>8, <1>5 DEF ClosedUnderCalls
<1>7. Impure \subseteq S
  BY <1>6 DEF Impure
<1>9. S \subseteq Impure
  BY <1>0 DEF IInv, DrainInv
<1> QED BY <1>7, <1>9 DEF S

LEMMA IInvHolds == Spec => []IInv
  BY InitIInv, NextIInv, PTL DEF Spec

(* When FuncInfo::run returns, a function is marked pure iff no chain of   *)
(* calls leads from it to a function that is impure by its own body.       *)
THEOREM Exact == Spec => []ExactAtDone
  BY IInvHolds, IInvIsExact, PTL

(* While the queue is drained every impure mark is deserved.               *)
THEOREM Deserved == Spec => []NeverTooImpure
<1>1. IInv => NeverTooImpure
  BY DEF IInv, DrainInv, NeverTooImpure, FoundImpure
<1> QED BY <1>1, IInvHolds, PTL
=============================================================================
