---------------------------- MODULE UseDefProofs ----------------------------
(***************************************************************************)
(* The use lists mirror the operands: for every set of values, every bound *)
(* on the operands, and every order of the calls, with remove_operand not  *)
(* applied where the next operand is the same.                             *)
(*                                                                         *)
(* The invariant has to say what the use lists hold in the middle of       *)
(* remove_operand, too: the operands up to the one looked at have moved    *)
(* their use, and at the index two values have one.                        *)
(***************************************************************************)
EXTENDS UseDef, TLAPS

Typed ==
    /\ alive \subseteq Value
    /\ operands \in [User -> Seq(Value \cup {null})]
    /\ \A u \in User : Len(operands[u]) <= MaxOperands
    /\ uses \in [Value -> [Use -> Nat]]
    /\ job \in Job

(* No operand is a destroyed value, no user that is gone has operands.     *)
AliveInv ==
    \A u \in User : /\ u \notin alive => operands[u] = << >>
                    /\ \A i \in 1..Len(operands[u]) : operands[u][i] \in alive \cup {null}

(* What the loop in hand relies on.                                        *)
ReplaceInv ==
    job.do \in {"replace", "destroy", "replace_if"} =>
        job.old \in alive /\ job.new \in alive \cup {null} /\ job.old # job.new

DestroyInv ==
    job.do = "destroy" =>
        job.new = null /\ (job.old \in User => operands[job.old] = << >>)

RestInv ==
    job.do = "replace_if" =>
        \A use \in job.rest : /\ use[2] <= Len(operands[use[1]])
                              /\ operands[use[1]][use[2]] = job.old

RemoveInv ==
    job.do = "remove" =>
        LET ops == operands[job.user] IN
        /\ job.user \in alive
        /\ job.idx <= Len(ops)
        /\ job.next \in (job.idx + 1)..(Len(ops) + 1)
        /\ \A i \in job.idx..Len(ops) : ops[i] # null
        /\ job.idx < Len(ops) => ops[job.idx] # ops[job.idx + 1]

(* Operand i of u is v once the use lists are what they are now.           *)
Listed(v, u, i) ==
    IF job.do = "remove" /\ u = job.user /\ job.idx <= i /\ i < job.next
    THEN \/ i = job.idx /\ operands[u][i] = v
         \/ i + 1 < job.next /\ operands[u][i + 1] = v
    ELSE i <= Len(operands[u]) /\ operands[u][i] = v

Mirror ==
    \A v \in Value, u \in User, i \in 1..MaxOperands :
        uses[v][<<u, i>>] = IF Listed(v, u, i) THEN 1 ELSE 0

TypedLists == operands \in [User -> Seq(Value \cup {null})]
              /\ (\A u \in User : Len(operands[u]) <= MaxOperands)
              /\ uses \in [Value -> [Use -> Nat]]

PlainMirror ==
    \A v \in Value, u \in User, i \in 1..MaxOperands : uses[v][<<u, i>>] = Due(v, u, i)

Inv == Typed /\ AliveInv /\ ReplaceInv /\ DestroyInv /\ RestInv /\ RemoveInv /\ Mirror

-----------------------------------------------------------------------------
(* What set_operand and remove_all_operands do to lists that mirror.       *)
LEMMA PairsAreUses == \A u \in User, i \in 1..MaxOperands : <<u, i>> \in Use
BY DEF Use

LEMMA SetOperandKeeps ==
    ASSUME TypedLists, PlainMirror,
           NEW u \in User, NEW i \in 1..Len(operands[u]), NEW v \in Value \cup {null},
           set_operand(<<u, i>>, v)
    PROVE  /\ TypedLists' /\ PlainMirror'
           /\ \A w \in User : Len(operands'[w]) = Len(operands[w])
           /\ \A w \in User : \A j \in 1..Len(operands[w]) :
                operands'[w][j] = IF w = u /\ j = i THEN v ELSE operands[w][j]
<1> DEFINE use == <<u, i>>
           old == operands[u][i]
<1>0. /\ MaxOperands \in Nat /\ null \notin Value /\ i \in 1..MaxOperands /\ use \in Use
      /\ old \in Value \cup {null}
  BY UseDefAssumption, PairsAreUses DEF TypedLists
<1>1. /\ operands' = [operands EXCEPT ![u][i] = v]
      /\ uses' = UsesAfterSet(use, v)
  BY DEF set_operand
<1>2. /\ operands' \in [User -> Seq(Value \cup {null})]
      /\ \A w \in User : Len(operands'[w]) = Len(operands[w])
      /\ \A w \in User : \A j \in 1..Len(operands[w]) :
           operands'[w][j] = IF w = u /\ j = i THEN v ELSE operands[w][j]
  BY <1>1 DEF TypedLists
<1>3. DEFINE dropped == IF old = null THEN uses ELSE remove_use(uses, old, use)
<1>4. /\ dropped \in [Value -> [Use -> Nat]]
      /\ \A w \in Value, x \in Use :
           dropped[w][x] = IF w = old /\ x = use THEN 0 ELSE uses[w][x]
  BY <1>0 DEF remove_use, TypedLists
<1>5. uses' = IF v = null THEN dropped ELSE add_use(dropped, v, use)
  BY <1>1 DEF UsesAfterSet
<1>6. /\ uses' \in [Value -> [Use -> Nat]]
      /\ \A w \in Value, x \in Use :
           uses'[w][x] = IF w = v /\ x = use THEN dropped[w][x] + 1 ELSE dropped[w][x]
  <2> HIDE DEF dropped
  <2>1. CASE v = null
    BY <1>0, <1>4, <1>5, <2>1
  <2>2. CASE v # null
    <3> HIDE DEF use
    <3>1. v \in Value /\ uses' = [dropped EXCEPT ![v][use] = @ + 1]
      BY <1>5, <2>2 DEF add_use
    <3> QED BY <1>0, <1>4, <3>1
  <2> QED BY <2>1, <2>2
<1>7. TypedLists'
  BY <1>2, <1>6 DEF TypedLists
<1>8. ASSUME NEW w \in Value, NEW x \in User, NEW j \in 1..MaxOperands
      PROVE  uses'[w][<<x, j>>] = Due(w, x, j)'
  <2>1. uses[w][<<x, j>>] = Due(w, x, j) /\ <<x, j>> \in Use
    BY PairsAreUses DEF PlainMirror
  <2>2. uses'[w][<<x, j>>] = IF x = u /\ j = i THEN (IF w = v THEN 1 ELSE 0)
                             ELSE uses[w][<<x, j>>]
    <3>1. (<<x, j>> = use) <=> (x = u /\ j = i)
      OBVIOUS
    <3>2. dropped[w][<<x, j>>] = IF x = u /\ j = i THEN 0 ELSE uses[w][<<x, j>>]
      BY <1>0, <1>4, <2>1, <3>1 DEF Due
    <3>3. uses'[w][<<x, j>>] = IF w = v /\ <<x, j>> = use THEN dropped[w][<<x, j>>] + 1
                               ELSE dropped[w][<<x, j>>]
      BY <1>6, <2>1
    <3>4. dropped[w][<<x, j>>] \in Nat
      BY <1>4, <2>1
    <3> HIDE DEF dropped, use
    <3> QED BY <3>1, <3>2, <3>3, <3>4
  <2>3. (j <= Len(operands'[x]) /\ operands'[x][j] = w)
          <=> IF x = u /\ j = i THEN v = w ELSE j <= Len(operands[x]) /\ operands[x][j] = w
    BY <1>2
  <2> HIDE DEF use
  <2> QED BY <2>1, <2>2, <2>3 DEF Due
<1> QED BY <1>2, <1>7, <1>8 DEF PlainMirror

LEMMA RemoveAllKeeps ==
    ASSUME TypedLists, PlainMirror, NEW u \in User, remove_all_operands(u)
    PROVE  /\ TypedLists' /\ PlainMirror'
           /\ operands' = [operands EXCEPT ![u] = << >>]
<1>0. MaxOperands \in Nat /\ null \notin Value
  BY UseDefAssumption
<1>1. operands' = [operands EXCEPT ![u] = << >>]
  BY DEF remove_all_operands
<1>2. /\ operands' \in [User -> Seq(Value \cup {null})]
      /\ \A w \in User : Len(operands'[w]) <= MaxOperands
  BY <1>0, <1>1 DEF TypedLists
<1>3. uses' \in [Value -> [Use -> Nat]]
  BY DEF remove_all_operands, TypedLists
<1>4. ASSUME NEW w \in Value, NEW x \in User, NEW j \in 1..MaxOperands
      PROVE  uses'[w][<<x, j>>] = Due(w, x, j)'
  <2>1. uses'[w][<<x, j>>] = IF x = u /\ j <= Len(operands[u]) /\ operands[u][j] = w
                             THEN 0 ELSE uses[w][<<x, j>>]
    BY PairsAreUses DEF remove_all_operands
  <2>2. uses[w][<<x, j>>] = Due(w, x, j)
    BY DEF PlainMirror
  <2>3. CASE x = u
    BY <1>0, <1>1, <2>1, <2>2, <2>3 DEF Due, TypedLists
  <2>4. CASE x # u
    BY <1>1, <2>1, <2>2, <2>4 DEF Due, TypedLists
  <2> QED BY <2>3, <2>4
<1> QED BY <1>1, <1>2, <1>3, <1>4 DEF TypedLists, PlainMirror

-----------------------------------------------------------------------------
(* What a job is made of, and what is left of Inv when there is none.      *)
LEMMA JobParts ==
    ASSUME job \in Job
    PROVE  /\ job.do \in {"idle", "replace", "destroy", "replace_if", "remove"}
           /\ job.do = "idle" => job = Idle
           /\ job.do \in {"replace", "destroy", "replace_if"} =>
                job.old \in Value /\ job.new \in Value \cup {null}
           /\ job.do = "replace_if" => job.rest \subseteq Use
           /\ job.do = "remove" => job.user \in User /\ job.idx \in 1..MaxOperands
BY DEF Job, Idle

LEMMA MirrorIsPlain ==
    /\ job.do # "remove" => (Mirror <=> PlainMirror)
    /\ job'.do # "remove" => (Mirror' <=> PlainMirror')
BY DEF Mirror, PlainMirror, Listed, Due

LEMMA NoJobLeft ==
    ASSUME job' = Idle, alive' \subseteq Value, TypedLists', AliveInv', PlainMirror'
    PROVE  Inv'
<1>1. job'.do = "idle" /\ job' \in Job
  BY DEF Idle, Job
<1>2. Mirror'
  BY <1>1, MirrorIsPlain
<1> QED
  BY <1>1, <1>2 DEF Inv, Typed, TypedLists, ReplaceInv, DestroyInv, RestInv, RemoveInv

(* Outside remove_operand the invariant gives lists that mirror.           *)
LEMMA Plain ==
    ASSUME Inv, job.do # "remove"
    PROVE  TypedLists /\ PlainMirror /\ AliveInv /\ alive \subseteq Value
BY MirrorIsPlain DEF Inv, Typed, TypedLists

LEMMA InitInv == Init => Inv
<1> SUFFICES ASSUME Init PROVE Inv
  OBVIOUS
<1>0. MaxOperands \in Nat
  BY UseDefAssumption
<1>1. TypedLists
  BY <1>0 DEF Init, TypedLists
<1>2. AliveInv /\ PlainMirror
  BY <1>0, PairsAreUses DEF Init, AliveInv, PlainMirror, Due
<1>3. job \in Job /\ job.do = "idle"
  BY DEF Init, Idle, Job
<1>4. Mirror
  BY <1>2, <1>3, MirrorIsPlain
<1> QED
  BY <1>1, <1>2, <1>3, <1>4
  DEF Init, Inv, Typed, TypedLists, ReplaceInv, DestroyInv, RestInv, RemoveInv

-----------------------------------------------------------------------------
(* The calls that are over when they return.                               *)
LEMMA CreateInv == ASSUME Inv, NEW v \in Value, Create(v) PROVE Inv'
<1>1. job.do # "remove" /\ job' = Idle
  BY DEF Create, Idle
<1>2. TypedLists /\ PlainMirror /\ AliveInv /\ alive \subseteq Value
  BY <1>1, Plain
<1>3. TypedLists' /\ PlainMirror' /\ AliveInv'
  <2>1. UNCHANGED <<operands, uses>> /\ alive' = alive \cup {v} /\ v \notin alive
    BY DEF Create
  <2>2. AliveInv'
    BY <1>2, <2>1 DEF AliveInv
  <2> QED BY <1>2, <2>1, <2>2 DEF TypedLists, PlainMirror, Due
<1>4. alive' \subseteq Value
  BY <1>2 DEF Create
<1> QED BY <1>1, <1>3, <1>4, NoJobLeft

LEMMA AddOperandInv ==
    ASSUME Inv, NEW u \in User, NEW v \in Value, AddOperand(u, v)
    PROVE  Inv'
<1> DEFINE k == Len(operands[u]) + 1
           use == <<u, k>>
<1>1. job.do # "remove" /\ job' = Idle /\ alive' = alive
  BY DEF AddOperand, Idle
<1>2. TypedLists /\ PlainMirror /\ AliveInv /\ alive \subseteq Value
  BY <1>1, Plain
<1>3. /\ operands' = [operands EXCEPT ![u] = Append(@, v)]
      /\ uses' = [uses EXCEPT ![v][use] = @ + 1]
      /\ Len(operands[u]) < MaxOperands /\ u \in alive /\ v \in alive
  BY DEF AddOperand, add_use
<1>4. MaxOperands \in Nat /\ k \in 1..MaxOperands /\ use \in Use
  BY <1>2, <1>3, UseDefAssumption, PairsAreUses DEF TypedLists
<1>5. /\ operands' \in [User -> Seq(Value \cup {null})]
      /\ \A w \in User : Len(operands'[w]) = IF w = u THEN k ELSE Len(operands[w])
      /\ \A w \in User : \A j \in 1..Len(operands'[w]) :
           operands'[w][j] = IF w = u /\ j = k THEN v ELSE operands[w][j]
  BY <1>2, <1>3 DEF TypedLists
<1>6. /\ uses' \in [Value -> [Use -> Nat]]
      /\ \A w \in Value, x \in Use :
           uses'[w][x] = IF w = v /\ x = use THEN uses[w][x] + 1 ELSE uses[w][x]
  <2> HIDE DEF use
  <2> QED BY <1>2, <1>3, <1>4 DEF TypedLists
<1>7. TypedLists'
  BY <1>4, <1>5, <1>6, <1>2 DEF TypedLists
<1>8. AliveInv'
  BY <1>1, <1>2, <1>3, <1>5 DEF AliveInv, TypedLists
<1>9. ASSUME NEW w \in Value, NEW x \in User, NEW j \in 1..MaxOperands
      PROVE  uses'[w][<<x, j>>] = Due(w, x, j)'
  <2>1. uses[w][<<x, j>>] = Due(w, x, j) /\ <<x, j>> \in Use
    BY <1>2, PairsAreUses DEF PlainMirror
  <2>2. (<<x, j>> = use) <=> (x = u /\ j = k)
    OBVIOUS
  <2>3. uses'[w][<<x, j>>] = IF w = v /\ x = u /\ j = k THEN uses[w][<<x, j>>] + 1
                             ELSE uses[w][<<x, j>>]
    BY <1>6, <2>1, <2>2
  <2>4. Len(operands[x]) \in Nat
    BY <1>2 DEF TypedLists
  <2> QED BY <1>5, <2>1, <2>3, <2>4 DEF Due
<1>10. PlainMirror'
  BY <1>9 DEF PlainMirror
<1> QED BY <1>1, <1>2, <1>7, <1>8, <1>10, NoJobLeft

LEMMA SetOperandInv ==
    ASSUME Inv, NEW u \in User, NEW i \in 1..MaxOperands, NEW v \in Value \cup {null},
           SetOperand(u, i, v)
    PROVE  Inv'
<1>1. job.do # "remove" /\ job' = Idle /\ alive' = alive
  BY DEF SetOperand, Idle
<1>2. TypedLists /\ PlainMirror /\ AliveInv /\ alive \subseteq Value
  BY <1>1, Plain
<1>3. i \in 1..Len(operands[u]) /\ set_operand(<<u, i>>, v) /\ v \in alive \cup {null} /\ u \in alive
  BY <1>2, UseDefAssumption DEF SetOperand, TypedLists
<1>4. /\ TypedLists' /\ PlainMirror'
      /\ \A w \in User : Len(operands'[w]) = Len(operands[w])
      /\ \A w \in User : \A j \in 1..Len(operands[w]) :
           operands'[w][j] = IF w = u /\ j = i THEN v ELSE operands[w][j]
  BY <1>2, <1>3, SetOperandKeeps
<1>5. AliveInv'
  BY <1>1, <1>2, <1>3, <1>4 DEF AliveInv, TypedLists
<1> QED BY <1>1, <1>2, <1>4, <1>5, NoJobLeft

LEMMA RemoveAllOperandsInv ==
    ASSUME Inv, NEW u \in User, RemoveAllOperands(u)
    PROVE  Inv'
<1>1. job.do # "remove" /\ job' = Idle /\ alive' = alive /\ remove_all_operands(u)
  BY DEF RemoveAllOperands, Idle
<1>2. TypedLists /\ PlainMirror /\ AliveInv /\ alive \subseteq Value
  BY <1>1, Plain
<1>3. TypedLists' /\ PlainMirror' /\ operands' = [operands EXCEPT ![u] = << >>]
  BY <1>1, <1>2, RemoveAllKeeps
<1>4. AliveInv'
  BY <1>1, <1>2, <1>3 DEF AliveInv, TypedLists
<1> QED BY <1>1, <1>2, <1>3, <1>4, NoJobLeft

-----------------------------------------------------------------------------
(* The calls that start a loop: what the loop relies on.                   *)
LEMMA DestroyStartsInv == ASSUME Inv, NEW v \in Value, Destroy(v) PROVE Inv'
<1>1. /\ job = Idle /\ v \in alive /\ alive' = alive
      /\ job' = [do |-> "destroy", old |-> v, new |-> null]
  BY DEF Destroy
<1>2. job.do # "remove" /\ job'.do = "destroy" /\ job'.old = v /\ job'.new = null
  BY <1>1 DEF Idle
<1>3. TypedLists /\ PlainMirror /\ AliveInv /\ alive \subseteq Value
  BY <1>2, Plain
<1>4. /\ TypedLists' /\ PlainMirror' /\ AliveInv'
      /\ v \in User => operands'[v] = << >>
  <2>1. CASE v \in User
    <3>1. remove_all_operands(v)
      BY <2>1 DEF Destroy
    <3>2. TypedLists' /\ PlainMirror' /\ operands' = [operands EXCEPT ![v] = << >>]
      BY <1>3, <2>1, <3>1, RemoveAllKeeps
    <3> QED BY <1>1, <1>3, <2>1, <3>2 DEF AliveInv, TypedLists
  <2>2. CASE v \notin User
    <3>1. UNCHANGED <<operands, uses>>
      BY <2>2 DEF Destroy
    <3> QED BY <1>1, <1>3, <2>2, <3>1 DEF AliveInv, TypedLists, PlainMirror, Due
  <2> QED BY <2>1, <2>2
<1>5. job' \in Job
  BY <1>1 DEF Job
<1>6. v # null
  BY UseDefAssumption
<1>7. Mirror'
  BY <1>2, <1>4, MirrorIsPlain
<1> QED
  BY <1>1, <1>2, <1>3, <1>4, <1>5, <1>6, <1>7
  DEF Inv, Typed, TypedLists, ReplaceInv, DestroyInv, RestInv, RemoveInv

LEMMA ReplaceStartsInv ==
    ASSUME Inv, NEW old \in Value, NEW new \in Value \cup {null},
           ReplaceAllUseWith(old, new) \/ ReplaceUseWithIf(old, new)
    PROVE  Inv'
<1>1. /\ job = Idle /\ old \in alive /\ new \in alive \cup {null} /\ old # new
      /\ UNCHANGED <<alive, operands, uses>>
      /\ \/ job' = [do |-> "replace", old |-> old, new |-> new]
         \/ job' = [do |-> "replace_if", old |-> old, new |-> new, rest |-> Uses(old)]
  BY DEF ReplaceAllUseWith, ReplaceUseWithIf, Different
<1>2. /\ job.do # "remove" /\ job'.do \in {"replace", "replace_if"}
      /\ job'.old = old /\ job'.new = new
      /\ job'.do = "replace_if" => job'.rest = Uses(old)
  BY <1>1 DEF Idle
<1>3. TypedLists /\ PlainMirror /\ AliveInv /\ alive \subseteq Value
  BY <1>2, Plain
<1>4. TypedLists' /\ PlainMirror' /\ AliveInv'
  BY <1>1, <1>3 DEF TypedLists, PlainMirror, Due, AliveInv
<1>5. Uses(old) \subseteq Use
  BY DEF Uses
<1>6. job' \in Job
  BY <1>1, <1>5 DEF Job
<1>7. Mirror'
  BY <1>2, <1>4, MirrorIsPlain
<1>8. ASSUME NEW use \in Uses(old)
      PROVE  use[2] <= Len(operands[use[1]]) /\ operands[use[1]][use[2]] = old
  <2>1. PICK u \in User, i \in 1..MaxOperands : use = <<u, i>>
    BY DEF Uses, Use
  <2>2. uses[old][<<u, i>>] > 0 /\ uses[old][<<u, i>>] = Due(old, u, i)
    BY <1>3, <2>1 DEF Uses, PlainMirror
  <2> QED BY <2>1, <2>2 DEF Due
<1>9. RestInv'
  BY <1>1, <1>2, <1>8 DEF RestInv
<1> QED
  BY <1>1, <1>2, <1>3, <1>4, <1>6, <1>7, <1>9
  DEF Inv, Typed, TypedLists, ReplaceInv, DestroyInv, RemoveInv

LEMMA RemoveStartsInv ==
    ASSUME EqualNeighbours = FALSE, Inv,
           NEW u \in User, NEW idx \in 1..MaxOperands, RemoveOperand(u, idx)
    PROVE  Inv'
<1>1. /\ job = Idle /\ u \in alive /\ idx <= Len(operands[u])
      /\ \A i \in idx..Len(operands[u]) : operands[u][i] # null
      /\ idx < Len(operands[u]) => operands[u][idx] # operands[u][idx + 1]
      /\ job' = [do |-> "remove", user |-> u, idx |-> idx, next |-> idx + 1]
      /\ UNCHANGED <<alive, operands, uses>>
  BY DEF RemoveOperand
<1>2. /\ job.do # "remove" /\ job'.do = "remove"
      /\ job'.user = u /\ job'.idx = idx /\ job'.next = idx + 1
  BY <1>1 DEF Idle
<1>3. TypedLists /\ PlainMirror /\ AliveInv /\ alive \subseteq Value
  BY <1>2, Plain
<1>4. TypedLists' /\ AliveInv'
  BY <1>1, <1>3 DEF TypedLists, AliveInv
<1>5. MaxOperands \in Nat /\ idx + 1 \in 1..(MaxOperands + 1)
  BY UseDefAssumption
<1>6. job' \in Job
  BY <1>1, <1>5 DEF Job
<1>7. ASSUME NEW v \in Value, NEW w \in User, NEW i \in 1..MaxOperands
      PROVE  uses'[v][<<w, i>>] = IF Listed(v, w, i)' THEN 1 ELSE 0
  <2>1. uses'[v][<<w, i>>] = Due(v, w, i)
    BY <1>1, <1>3 DEF PlainMirror
  <2>2. Listed(v, w, i)' <=> (i <= Len(operands[w]) /\ operands[w][i] = v)
    BY <1>1, <1>2 DEF Listed
  <2> QED BY <2>1, <2>2 DEF Due
<1>8. Mirror'
  BY <1>7 DEF Mirror
<1>9. RemoveInv'
  BY <1>1, <1>2, <1>3 DEF RemoveInv, TypedLists
<1> QED
  BY <1>1, <1>2, <1>3, <1>4, <1>6, <1>8, <1>9
  DEF Inv, Typed, TypedLists, ReplaceInv, DestroyInv, RestInv

-----------------------------------------------------------------------------
(* The rounds of the loops, and their ends.                                *)
LEMMA ReplaceNextInv == ASSUME Inv, ReplaceNext PROVE Inv'
<1>1. job.do \in {"replace", "destroy"} /\ UNCHANGED <<alive, job>>
  BY DEF ReplaceNext
<1>2. TypedLists /\ PlainMirror /\ AliveInv /\ alive \subseteq Value
  BY <1>1, Plain
<1>3. /\ job \in Job /\ job.old \in Value /\ job.new \in Value \cup {null}
      /\ job.new \in alive \cup {null}
  BY <1>1, JobParts DEF Inv, Typed, ReplaceInv
<1>4. PICK use \in Uses(job.old) : set_operand(use, job.new)
  BY DEF ReplaceNext
<1>5. PICK u \in User, i \in 1..MaxOperands : use = <<u, i>>
  BY <1>4 DEF Uses, Use
<1>6. i \in 1..Len(operands[u]) /\ operands[u][i] = job.old
  <2>1. uses[job.old][<<u, i>>] > 0 /\ uses[job.old][<<u, i>>] = Due(job.old, u, i)
    BY <1>2, <1>3, <1>4, <1>5 DEF Uses, PlainMirror
  <2> QED BY <1>2, <2>1, UseDefAssumption DEF Due, TypedLists
<1>7. /\ TypedLists' /\ PlainMirror'
      /\ \A w \in User : Len(operands'[w]) = Len(operands[w])
      /\ \A w \in User : \A j \in 1..Len(operands[w]) :
           operands'[w][j] = IF w = u /\ j = i THEN job.new ELSE operands[w][j]
  BY <1>2, <1>3, <1>4, <1>5, <1>6, SetOperandKeeps
<1>8. \A w \in User : operands[w] = << >> => operands'[w] = << >>
  BY <1>2, <1>7 DEF TypedLists
<1>9. AliveInv'
  BY <1>1, <1>2, <1>3, <1>7, <1>8 DEF AliveInv, TypedLists
<1>10. Mirror'
  BY <1>1, <1>7, MirrorIsPlain
<1>11. DestroyInv'
  BY <1>1, <1>8 DEF Inv, DestroyInv
<1> QED
  BY <1>1, <1>2, <1>3, <1>7, <1>9, <1>10, <1>11
  DEF Inv, Typed, TypedLists, ReplaceInv, RestInv, RemoveInv

LEMMA ReplaceDoneInv == ASSUME Inv, ReplaceDone PROVE Inv'
<1>1. /\ job.do \in {"replace", "destroy"} /\ Uses(job.old) = {}
      /\ job' = Idle /\ UNCHANGED <<operands, uses>>
      /\ alive' = IF job.do = "destroy" THEN alive \ {job.old} ELSE alive
  BY DEF ReplaceDone
<1>2. TypedLists /\ PlainMirror /\ AliveInv /\ alive \subseteq Value
  BY <1>1, Plain
<1>3. job \in Job /\ job.old \in Value
  BY <1>1, JobParts DEF Inv, Typed
<1>4. TypedLists' /\ PlainMirror'
  BY <1>1, <1>2 DEF TypedLists, PlainMirror, Due
<1>5. ASSUME NEW u \in User, NEW i \in 1..Len(operands[u])
      PROVE  operands[u][i] # job.old
  <2>1. i \in 1..MaxOperands
    BY <1>2, UseDefAssumption DEF TypedLists
  <2>2. uses[job.old][<<u, i>>] = Due(job.old, u, i) /\ <<u, i>> \in Use
    BY <1>2, <1>3, <2>1, PairsAreUses DEF PlainMirror
  <2>3. ~(uses[job.old][<<u, i>>] > 0)
    BY <1>1, <2>2 DEF Uses
  <2>4. i <= Len(operands[u])
    BY <1>2 DEF TypedLists
  <2> QED BY <2>2, <2>3, <2>4 DEF Due
<1>6. job.do = "destroy" /\ job.old \in User => operands[job.old] = << >>
  BY DEF Inv, DestroyInv
<1>7. AliveInv'
  BY <1>1, <1>2, <1>5, <1>6 DEF AliveInv
<1> QED BY <1>1, <1>2, <1>4, <1>7, NoJobLeft

LEMMA ReplaceIfNextInv == ASSUME Inv, ReplaceIfNext PROVE Inv'
<1>1. job.do = "replace_if" /\ alive' = alive
  BY DEF ReplaceIfNext
<1>2. TypedLists /\ PlainMirror /\ AliveInv /\ alive \subseteq Value
  BY <1>1, Plain
<1>3. /\ job \in Job /\ job.old \in alive /\ job.new \in alive \cup {null}
      /\ job.old \in Value /\ job.new \in Value \cup {null} /\ job.old # job.new
      /\ job.rest \subseteq Use
  BY <1>1, JobParts DEF Inv, Typed, ReplaceInv
<1>4. PICK use \in job.rest : /\ set_operand(use, job.new) \/ UNCHANGED <<operands, uses>>
                              /\ job' = [job EXCEPT !.rest = @ \ {use}]
  BY DEF ReplaceIfNext
<1>5. PICK u \in User, i \in 1..MaxOperands : use = <<u, i>>
  BY <1>3, <1>4 DEF Use
<1>6. i \in 1..Len(operands[u]) /\ operands[u][i] = job.old
  BY <1>1, <1>2, <1>4, <1>5, UseDefAssumption DEF Inv, RestInv, TypedLists
<1>7. /\ job' \in Job /\ job'.do = "replace_if" /\ job'.old = job.old /\ job'.new = job.new
      /\ job'.rest = job.rest \ {use}
  BY <1>1, <1>3, <1>4 DEF Job
<1>8. /\ TypedLists' /\ PlainMirror'
      /\ \A w \in User : Len(operands'[w]) = Len(operands[w])
      /\ \A w \in User : \A j \in 1..Len(operands[w]) :
           operands'[w][j] \in {operands[w][j]} \cup IF w = u /\ j = i THEN {job.new} ELSE {}
  <2>1. CASE set_operand(use, job.new)
    <3>1. set_operand(<<u, i>>, job.new)
      BY <1>5, <2>1
    <3>2. PICK w : w = job.new
      OBVIOUS
    <3>3. set_operand(<<u, i>>, w) /\ w \in Value \cup {null}
      BY <1>3, <3>1, <3>2
    <3>4. /\ TypedLists' /\ PlainMirror'
          /\ \A x \in User : Len(operands'[x]) = Len(operands[x])
          /\ \A x \in User : \A j \in 1..Len(operands[x]) :
               operands'[x][j] = IF x = u /\ j = i THEN w ELSE operands[x][j]
      BY <1>2, <1>6, <3>3, SetOperandKeeps
    <3> QED BY <3>2, <3>4
  <2>2. CASE UNCHANGED <<operands, uses>>
    BY <1>2, <2>2 DEF TypedLists, PlainMirror, Due
  <2> QED BY <1>4, <2>1, <2>2
<1>9. \A w \in User : operands[w] = << >> => operands'[w] = << >>
  BY <1>2, <1>8 DEF TypedLists
<1>10. AliveInv'
  BY <1>1, <1>2, <1>3, <1>8, <1>9 DEF AliveInv, TypedLists
<1>11. Mirror'
  BY <1>7, <1>8, MirrorIsPlain
<1>12. ASSUME NEW x \in job'.rest
       PROVE  x[2] <= Len(operands'[x[1]]) /\ operands'[x[1]][x[2]] = job.old
  <2>1. x \in job.rest /\ x # use
    BY <1>7
  <2>2. PICK w \in User, j \in 1..MaxOperands : x = <<w, j>>
    BY <1>3, <2>1 DEF Use
  <2>3. j <= Len(operands[w]) /\ operands[w][j] = job.old
    BY <1>1, <2>1, <2>2 DEF Inv, RestInv
  <2>4. ~(w = u /\ j = i) /\ j \in 1..Len(operands[w])
    BY <1>2, <1>5, <2>1, <2>2, <2>3, UseDefAssumption DEF TypedLists
  <2> QED BY <1>8, <2>2, <2>3, <2>4
<1>13. RestInv'
  BY <1>7, <1>12 DEF RestInv
<1> QED
  BY <1>1, <1>2, <1>3, <1>7, <1>8, <1>10, <1>11, <1>13
  DEF Inv, Typed, TypedLists, ReplaceInv, DestroyInv, RemoveInv

LEMMA ReplaceIfDoneInv == ASSUME Inv, ReplaceIfDone PROVE Inv'
<1>1. job.do = "replace_if" /\ job' = Idle /\ UNCHANGED <<alive, operands, uses>>
  BY DEF ReplaceIfDone
<1>2. TypedLists /\ PlainMirror /\ AliveInv /\ alive \subseteq Value
  BY <1>1, Plain
<1>3. TypedLists' /\ PlainMirror' /\ AliveInv'
  BY <1>1, <1>2 DEF TypedLists, PlainMirror, Due, AliveInv
<1> QED BY <1>1, <1>2, <1>3, NoJobLeft

-----------------------------------------------------------------------------
(* remove_operand: a round moves one use, the end drops the one left over. *)
LEMMA RemoveParts ==
    ASSUME Inv, job.do = "remove"
    PROVE  /\ TypedLists /\ AliveInv /\ alive \subseteq Value
           /\ job \in Job /\ job.user \in User /\ job.idx \in 1..MaxOperands
           /\ Len(operands[job.user]) \in 0..MaxOperands
           /\ job.idx <= Len(operands[job.user])
           /\ job.next \in (job.idx + 1)..(Len(operands[job.user]) + 1)
           /\ \A i \in job.idx..Len(operands[job.user]) : operands[job.user][i] \in Value
           /\ job.idx < Len(operands[job.user]) =>
                operands[job.user][job.idx] # operands[job.user][job.idx + 1]
<1>1. /\ TypedLists /\ AliveInv /\ alive \subseteq Value /\ job \in Job
  BY DEF Inv, Typed, TypedLists
<1>2. job.user \in User /\ job.idx \in 1..MaxOperands
  BY <1>1, JobParts
<1>3. Len(operands[job.user]) \in 0..MaxOperands
  BY <1>1, <1>2, UseDefAssumption DEF TypedLists
<1>4. \A i \in job.idx..Len(operands[job.user]) : operands[job.user][i] \in Value
  <2> TAKE i \in job.idx..Len(operands[job.user])
  <2>1. operands[job.user][i] # null /\ i \in 1..Len(operands[job.user])
    BY <1>2, <1>3 DEF Inv, RemoveInv
  <2> QED BY <1>1, <1>2, <2>1 DEF TypedLists
<1> QED BY <1>1, <1>2, <1>3, <1>4 DEF Inv, RemoveInv

LEMMA ShiftNextInv == ASSUME Inv, ShiftNext PROVE Inv'
<1> DEFINE u == job.user
           j == job.next
           v == operands[u][j]
           from == <<u, j>>
           to == <<u, j - 1>>
<1>1. /\ job.do = "remove" /\ UNCHANGED <<alive, operands>> /\ j <= Len(operands[u])
      /\ uses' = add_use(remove_use(uses, v, from), v, to)
      /\ job' = [job EXCEPT !.next = @ + 1]
  BY DEF ShiftNext
<1>2. /\ TypedLists /\ AliveInv /\ alive \subseteq Value
      /\ job \in Job /\ u \in User /\ job.idx \in 1..MaxOperands
      /\ Len(operands[u]) \in 0..MaxOperands
      /\ job.idx <= Len(operands[u])
      /\ j \in (job.idx + 1)..(Len(operands[u]) + 1)
      /\ \A i \in job.idx..Len(operands[u]) : operands[u][i] \in Value
      /\ job.idx < Len(operands[u]) => operands[u][job.idx] # operands[u][job.idx + 1]
  BY <1>1, RemoveParts
<1>3. /\ MaxOperands \in Nat /\ v \in Value /\ j \in 2..MaxOperands /\ j - 1 \in 1..MaxOperands
      /\ from \in Use /\ to \in Use /\ from # to
  <2>1. MaxOperands \in Nat /\ j \in 2..MaxOperands /\ j - 1 \in 1..MaxOperands
    BY <1>1, <1>2, UseDefAssumption
  <2>2. v \in Value
    BY <1>1, <1>2
  <2>3. j # j - 1
    BY <2>1
  <2> QED BY <1>2, <2>1, <2>2, <2>3, PairsAreUses
<1>4. /\ job'.do = "remove" /\ job'.user = u /\ job'.idx = job.idx /\ job'.next = j + 1
      /\ job' \in Job
  <2>1. j + 1 \in 1..(MaxOperands + 1)
    BY <1>3
  <2> QED BY <1>1, <1>2, <2>1 DEF Job
<1>5. /\ uses' \in [Value -> [Use -> Nat]]
      /\ \A w \in Value, x \in Use :
           uses'[w][x] = IF w = v /\ x = from THEN 0
                         ELSE IF w = v /\ x = to THEN uses[w][x] + 1 ELSE uses[w][x]
  <2> HIDE DEF from, to, v
  <2>1. uses \in [Value -> [Use -> Nat]]
    BY <1>2 DEF TypedLists
  <2> QED BY <1>1, <1>3, <2>1 DEF add_use, remove_use
<1>6. TypedLists' /\ AliveInv'
  BY <1>1, <1>2, <1>5 DEF TypedLists, AliveInv
<1>7. ASSUME NEW w \in Value, NEW x \in User, NEW i \in 1..MaxOperands
      PROVE  uses'[w][<<x, i>>] = IF Listed(w, x, i)' THEN 1 ELSE 0
  <2>1. uses[w][<<x, i>>] = (IF Listed(w, x, i) THEN 1 ELSE 0) /\ <<x, i>> \in Use
    BY PairsAreUses DEF Inv, Mirror
  <2>2. /\ (<<x, i>> = from) <=> (x = u /\ i = j)
        /\ (<<x, i>> = to) <=> (x = u /\ i = j - 1)
    OBVIOUS
  <2>3. uses'[w][<<x, i>>] = IF w = v /\ x = u /\ i = j THEN 0
                             ELSE IF w = v /\ x = u /\ i = j - 1 THEN uses[w][<<x, i>>] + 1
                             ELSE uses[w][<<x, i>>]
    BY <1>5, <2>1, <2>2
  <2>4. CASE x # u
    BY <1>1, <1>4, <2>1, <2>3, <2>4 DEF Listed
  <2>5. CASE x = u /\ i = j
    BY <1>1, <1>2, <1>3, <1>4, <2>1, <2>3, <2>5 DEF Listed
  <2>6. CASE x = u /\ i = j - 1
    <3>1. Listed(w, x, i) <=> (i = job.idx /\ operands[u][i] = w)
      BY <1>1, <1>2, <1>3, <2>6 DEF Listed
    <3>2. Listed(w, x, i)' <=> ((i = job.idx /\ operands[u][i] = w) \/ v = w)
      <4>1. j \in Nat /\ i = j - 1 /\ i + 1 = j /\ job.idx <= i /\ i < j + 1 /\ i + 1 < j + 1
        <5>1. PICK a, z : a = job.idx /\ z = j
          OBVIOUS
        <5>2. z \in Nat /\ a \in Nat /\ a + 1 <= z
          BY <1>2, <1>3, <5>1
        <5> QED BY <2>6, <5>1, <5>2
      <4>2. /\ job'.do = "remove" /\ x = job'.user /\ job'.idx <= i /\ i < job'.next
            /\ i + 1 < job'.next /\ job'.idx = job.idx
        BY <1>4, <2>6, <4>1
      <4>3. operands'[x] = operands[u]
        BY <1>1, <2>6
      <4>4. Listed(w, x, i)' <=> \/ i = job'.idx /\ operands'[x][i] = w
                                \/ operands'[x][i + 1] = w
        BY <4>2 DEF Listed
      <4> QED BY <4>1, <4>2, <4>3, <4>4
    <3>3. ~(i = job.idx /\ operands[u][i] = v)
      BY <1>1, <1>2, <1>3, <2>6
    <3>4. i # j
      BY <1>1, <1>2, <2>6
    <3>5. uses'[w][<<x, i>>] = IF w = v THEN uses[w][<<x, i>>] + 1 ELSE uses[w][<<x, i>>]
      BY <2>3, <2>6, <3>4
    <3>6. CASE w = v
      <4>1. ~Listed(w, x, i) /\ Listed(w, x, i)'
        BY <3>1, <3>2, <3>3, <3>6
      <4>2. uses[w][<<x, i>>] = 0
        BY <2>1, <4>1
      <4> QED BY <3>5, <3>6, <4>1, <4>2
    <3>7. CASE w # v
      <4>1. Listed(w, x, i)' <=> Listed(w, x, i)
        BY <3>1, <3>2, <3>7
      <4> QED BY <2>1, <3>5, <3>7, <4>1
    <3> QED BY <3>6, <3>7
  <2>7. CASE x = u /\ i # j /\ i # j - 1
    <3>1. Listed(w, x, i)' <=> Listed(w, x, i)
      BY <1>1, <1>2, <1>3, <1>4, <2>7 DEF Listed
    <3> QED BY <2>1, <2>3, <2>7, <3>1
  <2> QED BY <2>4, <2>5, <2>6, <2>7
<1>8. Mirror'
  BY <1>7 DEF Mirror
<1>9. RemoveInv'
  BY <1>1, <1>2, <1>4 DEF Inv, RemoveInv
<1> QED
  BY <1>1, <1>2, <1>4, <1>6, <1>8, <1>9
  DEF Inv, Typed, TypedLists, ReplaceInv, DestroyInv, RestInv

LEMMA RemoveDoneInv == ASSUME Inv, RemoveDone PROVE Inv'
<1> DEFINE u == job.user
           n == job.idx
           v == operands[u][n]
           last == Len(operands[u])
           use == <<u, n>>
           shifted == [i \in 1..(last - 1) |-> IF i < n THEN operands[u][i] ELSE operands[u][i + 1]]
<1>1. /\ job.do = "remove" /\ alive' = alive /\ job' = Idle /\ job.next > last
      /\ uses' = remove_use(uses, v, use)
      /\ operands' = [operands EXCEPT ![u] = shifted]
  BY DEF RemoveDone
<1>2. /\ TypedLists /\ AliveInv /\ alive \subseteq Value
      /\ u \in User /\ n \in 1..MaxOperands /\ last \in 0..MaxOperands /\ n <= last
      /\ job.next \in (n + 1)..(last + 1)
      /\ \A i \in n..last : operands[u][i] \in Value
      /\ n < last => operands[u][n] # operands[u][n + 1]
  BY <1>1, RemoveParts
<1>3. MaxOperands \in Nat /\ v \in Value /\ job.next = last + 1 /\ use \in Use
  <2>1. MaxOperands \in Nat
    BY UseDefAssumption
  <2>2. v \in Value
    BY <1>2, <2>1
  <2>3. use \in Use
    BY <1>2, PairsAreUses
  <2>4. job.next = last + 1
    <3> HIDE DEF last, n
    <3> QED BY <1>1, <1>2, <2>1
  <2> QED BY <2>1, <2>2, <2>3, <2>4
<1>4. /\ uses' \in [Value -> [Use -> Nat]]
      /\ \A w \in Value, x \in Use :
           uses'[w][x] = IF w = v /\ x = use THEN 0 ELSE uses[w][x]
  <2> HIDE DEF use, v
  <2>1. uses \in [Value -> [Use -> Nat]]
    BY <1>2 DEF TypedLists
  <2> QED BY <1>1, <1>3, <2>1 DEF remove_use
<1>5. operands[u] \in Seq(Value \cup {null}) /\ last \in 1..MaxOperands /\ last - 1 \in 0..MaxOperands
  <2>1. last \in 1..MaxOperands /\ last - 1 \in 0..MaxOperands
    BY <1>2, <1>3
  <2> HIDE DEF last
  <2> QED BY <1>2, <2>1 DEF TypedLists
<1>6. \A i \in 1..(last - 1) : shifted[i] \in Value \cup {null}
  BY <1>2, <1>5
<1>7. shifted \in Seq(Value \cup {null}) /\ Len(shifted) = last - 1
  BY <1>5, <1>6
<1>8. /\ operands' \in [User -> Seq(Value \cup {null})]
      /\ \A w \in User : operands'[w] = IF w = u THEN shifted ELSE operands[w]
  <2> HIDE DEF shifted
  <2> QED BY <1>1, <1>2, <1>7 DEF TypedLists
<1>9. TypedLists'
  BY <1>2, <1>4, <1>5, <1>7, <1>8 DEF TypedLists
<1>10. AliveInv'
  <2>1. u \in alive
    BY <1>1 DEF Inv, RemoveInv
  <2>2. \A i \in 1..(last - 1) : shifted[i] \in alive \cup {null}
    BY <1>2, <1>5 DEF AliveInv
  <2> HIDE DEF shifted, last
  <2> QED BY <1>1, <1>2, <1>7, <1>8, <2>1, <2>2 DEF AliveInv
<1>11. ASSUME NEW w \in Value, NEW x \in User, NEW i \in 1..MaxOperands
       PROVE  uses'[w][<<x, i>>] = Due(w, x, i)'
  <2>1. uses[w][<<x, i>>] = (IF Listed(w, x, i) THEN 1 ELSE 0) /\ <<x, i>> \in Use
    BY PairsAreUses DEF Inv, Mirror
  <2>2. (<<x, i>> = use) <=> (x = u /\ i = n)
    OBVIOUS
  <2>3. uses'[w][<<x, i>>] = IF w = v /\ x = u /\ i = n THEN 0 ELSE uses[w][<<x, i>>]
    BY <1>4, <2>1, <2>2
  <2>4. CASE x # u
    BY <1>1, <1>8, <2>1, <2>3, <2>4 DEF Listed, Due
  <2>5. CASE x = u
    <3>1. Due(w, x, i)' = IF i <= last - 1 /\ shifted[i] = w THEN 1 ELSE 0
      BY <1>7, <1>8, <2>5 DEF Due
    <3>2. Listed(w, x, i) <=>
            IF n <= i /\ i <= last
            THEN (i = n /\ v = w) \/ (i + 1 <= last /\ operands[u][i + 1] = w)
            ELSE i <= last /\ operands[u][i] = w
      BY <1>1, <1>2, <1>3, <2>5 DEF Listed
    <3>3. (i <= last - 1 /\ shifted[i] = w) <=>
            IF i < n THEN operands[u][i] = w ELSE i + 1 <= last /\ operands[u][i + 1] = w
      BY <1>2, <1>5
    <3> HIDE DEF shifted
    <3> QED BY <1>2, <2>1, <2>3, <2>5, <3>1, <3>2, <3>3
  <2> QED BY <2>4, <2>5
<1>12. PlainMirror'
  BY <1>11 DEF PlainMirror
<1> QED BY <1>1, <1>2, <1>9, <1>10, <1>12, NoJobLeft

-----------------------------------------------------------------------------
LEMMA NextInv ==
    ASSUME EqualNeighbours = FALSE, Inv, [Next]_vars
    PROVE  Inv'
<1>1. ASSUME NEW v \in Value, Create(v) PROVE Inv'
  BY <1>1, CreateInv
<1>2. ASSUME NEW v \in Value, Destroy(v) PROVE Inv'
  BY <1>2, DestroyStartsInv
<1>3. ASSUME NEW u \in User, RemoveAllOperands(u) PROVE Inv'
  BY <1>3, RemoveAllOperandsInv
<1>4. ASSUME NEW u \in User, NEW v \in Value, AddOperand(u, v) PROVE Inv'
  BY <1>4, AddOperandInv
<1>5. ASSUME NEW u \in User, NEW i \in 1..MaxOperands, RemoveOperand(u, i) PROVE Inv'
  BY <1>5, RemoveStartsInv
<1>6. ASSUME NEW u \in User, NEW i \in 1..MaxOperands, NEW v \in Value \cup {null},
             SetOperand(u, i, v)
      PROVE  Inv'
  BY <1>6, SetOperandInv
<1>7. ASSUME NEW old \in Value, NEW new \in Value \cup {null},
             ReplaceAllUseWith(old, new) \/ ReplaceUseWithIf(old, new)
      PROVE  Inv'
  BY <1>7, ReplaceStartsInv
<1>8. CASE Round
  BY <1>8, ReplaceNextInv, ReplaceDoneInv, ReplaceIfNextInv, ReplaceIfDoneInv,
     ShiftNextInv, RemoveDoneInv DEF Round
<1>9. CASE UNCHANGED vars
  BY <1>9 DEF vars, Inv, Typed, AliveInv, ReplaceInv, DestroyInv, RestInv, RemoveInv, Mirror, Listed
<1> QED
  BY <1>1, <1>2, <1>3, <1>4, <1>5, <1>6, <1>7, <1>8, <1>9 DEF Next

(* A use is listed once or not at all, between the rounds of               *)
(* remove_operand too.                                                     *)
LEMMA InvTypeOK == Inv => TypeOK
<1> SUFFICES ASSUME Inv PROVE TypeOK
  OBVIOUS
<1>1. \A v \in Value, x \in Use : uses[v][x] \in 0..1
  <2> TAKE v \in Value, x \in Use
  <2>1. PICK u \in User, i \in 1..MaxOperands : x = <<u, i>>
    BY DEF Use
  <2> QED BY <2>1 DEF Inv, Mirror
<1>2. uses \in [Value -> [Use -> 0..1]]
  BY <1>1 DEF Inv, Typed
<1> QED BY <1>2 DEF Inv, Typed, TypeOK

LEMMA InvMirrors == Inv => UsesMirrorOperands
<1> SUFFICES ASSUME Inv, job.do # "remove" PROVE UsesMirrorOperands
  BY DEF UsesMirrorOperands
<1> QED BY Plain DEF UsesMirrorOperands, PlainMirror, AliveInv

(* Whatever calls are made of values and users, in any order, the lists    *)
(* have their types and no use is in a list twice, as long as no operand   *)
(* is removed from before an equal one.                                    *)
THEOREM TypeCorrect == EqualNeighbours = FALSE /\ Spec => []TypeOK
<1> SUFFICES ASSUME EqualNeighbours = FALSE PROVE Spec => []TypeOK
  OBVIOUS
<1>1. Init => Inv
  BY InitInv
<1>2. Inv /\ [Next]_vars => Inv'
  BY NextInv
<1>3. Inv => TypeOK
  BY InvTypeOK
<1> QED BY <1>1, <1>2, <1>3, PTL DEF Spec

(* And the use list of every value is exactly the operands that are it, so *)
(* replace_all_use_with reaches every use, and after a destruction nothing *)
(* refers to the value that is gone.                                       *)
THEOREM MirrorCorrect == EqualNeighbours = FALSE /\ Spec => []UsesMirrorOperands
<1> SUFFICES ASSUME EqualNeighbours = FALSE PROVE Spec => []UsesMirrorOperands
  OBVIOUS
<1>1. Init => Inv
  BY InitInv
<1>2. Inv /\ [Next]_vars => Inv'
  BY NextInv
<1>3. Inv => UsesMirrorOperands
  BY InvMirrors
<1> QED BY <1>1, <1>2, <1>3, PTL DEF Spec
=============================================================================
