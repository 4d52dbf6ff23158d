------------------------------- MODULE UseDef -------------------------------
(***************************************************************************)
(* Values, their users and the use lists between them (lightir/Value.cpp,  *)
(* lightir/User.cpp), as a library: one action for each call that may be   *)
(* made of it, in any order, and one for each round of a loop that walks a *)
(* list while it changes.  Positions of operands are counted from 1.       *)
(*                                                                         *)
(* The order of a use list is left out: begin() is any of its entries.     *)
(***************************************************************************)
EXTENDS Naturals, Sequences

CONSTANTS
    User,             \* the values that have operands: instructions, arrays
    Leaf,             \* the other values: blocks, arguments, constants
    null,             \* nullptr
    MaxOperands,      \* bound: operands of a user
    EqualNeighbours   \* TRUE: remove_operand also where the next is the same

Value == User \cup Leaf
Use == User \X (1..MaxOperands)

ASSUME UseDefAssumption ==
    User \cap Leaf = {} /\ null \notin Value /\ MaxOperands \in Nat

VARIABLES
    alive,      \* the values constructed and not destroyed
    operands,   \* operands_, by user
    uses,       \* use_list_, by value: how often a use is in it
    job         \* the call whose loop is going on

vars == <<alive, operands, uses, job>>

Idle == [do |-> "idle"]

Job == [do : {"idle"}]
    \cup [do : {"replace", "destroy"}, old : Value, new : Value \cup {null}]
    \cup [do : {"replace_if"}, old : Value, new : Value \cup {null}, rest : SUBSET Use]
    \cup [do : {"remove"}, user : User, idx : 1..MaxOperands, next : 1..(MaxOperands + 1)]

Init ==
    /\ alive = {}
    /\ operands = [u \in User |-> << >>]
    /\ uses = [v \in Value |-> [use \in Use |-> 0]]
    /\ job = Idle

-----------------------------------------------------------------------------
add_use(us, v, use) == [us EXCEPT ![v][use] = @ + 1]

(* remove_if takes every entry that is equal.                              *)
remove_use(us, v, use) == [us EXCEPT ![v][use] = 0]

Uses(v) == {use \in Use : uses[v][use] > 0}

(* A mutant: the old operand keeps its use.                                *)
UsesKept(use, v) == IF v = null THEN uses ELSE add_use(uses, v, use)

UsesAfterSet(use, v) ==
    LET old == operands[use[1]][use[2]]
        dropped == IF old = null THEN uses ELSE remove_use(uses, old, use)
    IN  IF v = null THEN dropped ELSE add_use(dropped, v, use)

set_operand(use, v) ==
    /\ uses' = UsesAfterSet(use, v)
    /\ operands' = [operands EXCEPT ![use[1]][use[2]] = v]

(* A mutant: the operands go and their uses stay.                          *)
forget_operands(u) == UNCHANGED uses /\ operands' = [operands EXCEPT ![u] = << >>]

remove_all_operands(u) ==
    /\ uses' = [v \in Value |-> [use \in Use |->
                  IF use[1] = u /\ use[2] <= Len(operands[u]) /\ operands[u][use[2]] = v
                  THEN 0 ELSE uses[v][use]]]
    /\ operands' = [operands EXCEPT ![u] = << >>]

-----------------------------------------------------------------------------
(* The calls.                                                              *)
Create(v) ==
    /\ job = Idle /\ v \notin alive
    /\ alive' = alive \cup {v}
    /\ UNCHANGED <<operands, uses, job>>

AddOperand(u, v) ==
    /\ job = Idle /\ {u, v} \subseteq alive
    /\ Len(operands[u]) < MaxOperands
    /\ uses' = add_use(uses, v, <<u, Len(operands[u]) + 1>>)
    /\ operands' = [operands EXCEPT ![u] = Append(@, v)]
    /\ UNCHANGED <<alive, job>>

SetOperand(u, i, v) ==
    /\ job = Idle /\ u \in alive /\ v \in alive \cup {null}
    /\ i <= Len(operands[u])
    /\ set_operand(<<u, i>>, v)
    /\ UNCHANGED <<alive, job>>

RemoveAllOperands(u) ==
    /\ job = Idle /\ u \in alive
    /\ remove_all_operands(u)
    /\ UNCHANGED <<alive, job>>

(* The destructors: ~User, of a value that is one, and the loop of ~Value. *)
Destroy(v) ==
    /\ job = Idle /\ v \in alive
    /\ IF v \in User THEN remove_all_operands(v) ELSE UNCHANGED <<operands, uses>>
    /\ job' = [do |-> "destroy", old |-> v, new |-> null]
    /\ UNCHANGED alive

(* A mutant: no test whether a value is to be replaced by itself.          *)
Replaceable(old, new) == TRUE

Different(old, new) == old # new

ReplaceAllUseWith(old, new) ==
    /\ job = Idle /\ old \in alive /\ new \in alive \cup {null}
    /\ Different(old, new)
    /\ job' = [do |-> "replace", old |-> old, new |-> new]
    /\ UNCHANGED <<alive, operands, uses>>

ReplaceUseWithIf(old, new) ==
    /\ job = Idle /\ old \in alive /\ new \in alive \cup {null}
    /\ Different(old, new)
    /\ job' = [do |-> "replace_if", old |-> old, new |-> new, rest |-> Uses(old)]
    /\ UNCHANGED <<alive, operands, uses>>

(* remove_operand calls the operands from idx on, so none is null.         *)
RemoveOperand(u, idx) ==
    /\ job = Idle /\ u \in alive
    /\ idx <= Len(operands[u])
    /\ \A i \in idx..Len(operands[u]) : operands[u][i] # null
    /\ (idx < Len(operands[u]) /\ operands[u][idx] = operands[u][idx + 1]) => EqualNeighbours
    /\ job' = [do |-> "remove", user |-> u, idx |-> idx, next |-> idx + 1]
    /\ UNCHANGED <<alive, operands, uses>>

-----------------------------------------------------------------------------
(* The rounds of the loops, and what follows them.                         *)
ReplaceNext ==
    /\ job.do \in {"replace", "destroy"}
    /\ \E use \in Uses(job.old) : set_operand(use, job.new)
    /\ UNCHANGED <<alive, job>>

ReplaceDone ==
    /\ job.do \in {"replace", "destroy"}
    /\ Uses(job.old) = {}
    /\ alive' = IF job.do = "destroy" THEN alive \ {job.old} ELSE alive
    /\ job' = Idle
    /\ UNCHANGED <<operands, uses>>

ReplaceIfNext ==
    /\ job.do = "replace_if"
    /\ \E use \in job.rest :
         /\ set_operand(use, job.new) \/ UNCHANGED <<operands, uses>>
         /\ job' = [job EXCEPT !.rest = @ \ {use}]
    /\ UNCHANGED alive

ReplaceIfDone ==
    /\ job.do = "replace_if" /\ job.rest = {}
    /\ job' = Idle
    /\ UNCHANGED <<alive, operands, uses>>

(* An operand after the removed one gets the position before its own.      *)
ShiftNext ==
    /\ job.do = "remove" /\ job.next <= Len(operands[job.user])
    /\ LET v == operands[job.user][job.next] IN
         uses' = add_use(remove_use(uses, v, <<job.user, job.next>>),
                         v, <<job.user, job.next - 1>>)
    /\ job' = [job EXCEPT !.next = @ + 1]
    /\ UNCHANGED <<alive, operands>>

RemoveDone ==
    /\ job.do = "remove" /\ job.next > Len(operands[job.user])
    /\ uses' = remove_use(uses, operands[job.user][job.idx], <<job.user, job.idx>>)
    /\ operands' = [operands EXCEPT ![job.user] =
           [i \in 1..(Len(@) - 1) |-> IF i < job.idx THEN @[i] ELSE @[i + 1]]]
    /\ job' = Idle
    /\ UNCHANGED alive

Round == ReplaceNext \/ ReplaceDone \/ ReplaceIfNext \/ ReplaceIfDone \/ ShiftNext \/ RemoveDone

Next ==
    \/ \E v \in Value : Create(v) \/ Destroy(v)
    \/ \E u \in User : RemoveAllOperands(u)
    \/ \E u \in User, v \in Value : AddOperand(u, v)
    \/ \E u \in User, i \in 1..MaxOperands : RemoveOperand(u, i)
    \/ \E u \in User, i \in 1..MaxOperands, v \in Value \cup {null} : SetOperand(u, i, v)
    \/ \E old \in Value, new \in Value \cup {null} :
         ReplaceAllUseWith(old, new) \/ ReplaceUseWithIf(old, new)
    \/ Round

Spec == Init /\ [][Next]_vars

(* A call that was made goes on.                                           *)
FairSpec == Spec /\ WF_vars(Round)

-----------------------------------------------------------------------------
(* The type invariant of values, users and the call in hand: a use is in a *)
(* list once or not at all, within the loop of remove_operand too.         *)
TypeOK ==
    /\ alive \subseteq Value
    /\ operands \in [User -> Seq(Value \cup {null})]
    /\ \A u \in User : Len(operands[u]) <= MaxOperands
    /\ uses \in [Value -> [Use -> 0..1]]
    /\ job \in Job

(* How often the use list of v should hold <<u, i>>.                       *)
Due(v, u, i) == IF i <= Len(operands[u]) /\ operands[u][i] = v THEN 1 ELSE 0

(* Between two calls and between two rounds of a replacement, the use list *)
(* of a value holds exactly its uses, each once: what replace_all_use_with *)
(* and the destructors walk is where the value really is an operand.  So   *)
(* no operand is a destroyed value and no use is of a destroyed user, in   *)
(* whatever order values are destroyed.                                    *)
UsesMirrorOperands ==
    job.do # "remove" =>
      /\ \A v \in Value, u \in User, i \in 1..MaxOperands :
           uses[v][<<u, i>>] = Due(v, u, i)
      /\ \A u \in User : /\ u \notin alive => operands[u] = << >>
                         /\ \A i \in 1..Len(operands[u]) : operands[u][i] \in alive \cup {null}

(* The loops end, the one of replace_all_use_with too, which runs until a  *)
(* list is empty that its own calls of set_operand take entries from.      *)
ReplacementEnds == (job # Idle) ~> (job = Idle)
=============================================================================
