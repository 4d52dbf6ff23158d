--------------------------- MODULE Mem2RegProofs ---------------------------
(***************************************************************************)
(* Theorems about the promotion of local variables, for every function,    *)
(* whatever the order in which variables, blocks and children are taken.   *)
(*                                                                         *)
(* generate_phi puts the phis of every variable exactly at the iterated    *)
(* dominance frontier of its stores.  The inductive invariant is that of a *)
(* worklist: a block that defines the variable waits in the queue unless   *)
(* its frontier has its phis, and no block has a phi that the iterated     *)
(* frontier does not call for.                                             *)
(*                                                                         *)
(* rename visits every block that control reaches once.  The calls that    *)
(* are open form a path in the dominator tree, the subtrees still to visit *)
(* hang from them, and whatever is neither open nor ahead is past.  Until  *)
(* rename leaves it, a block is its phis followed by what it held when it  *)
(* entered the pass, with the loads replaced so far; the loads replaced    *)
(* are the ones rename has passed, and the operands of the phis come from  *)
(* the blocks that have told their successors.                             *)
(*                                                                         *)
(* The stack of a variable is, by rank, what the phis and stores passed by *)
(* the open calls pushed (StacksInv).  Points of the function, a block and *)
(* a position, are ordered by dominance; the top of the stack is the       *)
(* nearest definition before the point where rename stands, so that a load *)
(* was replaced by what its nearest definition gives, and a phi's operand  *)
(* for a predecessor is what the end of that predecessor sees (SsaInv).    *)
(* Every variable has its phis at all the frontiers, or one definition and *)
(* no phi at all (HandledInv).                                             *)
(*                                                                         *)
(* The execution keeps, at the point it has reached, memory equal to the   *)
(* value that the nearest definition has in the promoted function          *)
(* (ExecInv): a store becomes the nearest definition, a jump makes the     *)
(* phis of the block the nearest ones, and where there is no phi the       *)
(* definitions before the end of the predecessor are those before the      *)
(* block.                                                                  *)
(***************************************************************************)
EXTENDS Mem2Reg, FlowProofs

(* What a block holds while phis are placed.                               *)
Placed == StoreInst \cup LoadInst \cup {PhiInst(v) : v \in Var}

PlacingPhis == phase \in {"collect", "pick", "place"}

TypingInv ==
    /\ body \in [Block -> Seq(StoreInst \cup LoadInst)]
    /\ PlacingPhis => insts \in [Block -> Seq(Placed)]
    /\ defset = [v \in Var |-> defset[v]]
    /\ active \subseteq Var /\ var \in Var

(* The variables still to handle have the blocks that store them as their  *)
(* definitions, and no phis.                                               *)
WaitingInv ==
    /\ phase = "collect" => insts = body
    /\ phase \in {"pick", "place"} => \A v \in active :
          /\ defset[v] = DefBlocks(v)
          /\ \A b \in Block : PhisOf(v, b) = {}

OnePhiEach ==
    \A b \in Block : IF b \in frontiers THEN \E k \in 1..Len(insts[b]) : PhisOf(var, b) = {k}
                                        ELSE PhisOf(var, b) = {}

QueueInv ==
    phase = "place" =>
      /\ var \notin active
      /\ defset[var] = DefBlocks(var) \cup frontiers
      /\ queue \subseteq defset[var]
      /\ \A b \in defset[var] : b \in queue \/ df[b] \subseteq frontiers
      /\ \A S \in SUBSET Blocks : ClosedUnderFrontiers(var, S) => frontiers \subseteq S
      /\ OnePhiEach

PlacementInv == TypingInv /\ WaitingInv /\ QueueInv

-----------------------------------------------------------------------------
(* What is at the positions of a block after a phi was put at its head.    *)
LEMMA Prepend ==
  ASSUME NEW S, NEW x \in S, NEW s \in Seq(S)
  PROVE  /\ <<x>> \o s \in Seq(S)
         /\ Len(<<x>> \o s) = Len(s) + 1
         /\ (<<x>> \o s)[1] = x
         /\ \A k \in 1..Len(s) : (<<x>> \o s)[k + 1] = s[k]
  OBVIOUS

(* No block has a phi when it enters the pass.                             *)
LEMMA NoPhiInBody ==
  ASSUME body \in [Block -> Seq(StoreInst \cup LoadInst)], insts = body,
         NEW v \in Var, NEW b \in Block
  PROVE  PhisOf(v, b) = {}
<1>1. insts[b] \in Seq(StoreInst \cup LoadInst)
  OBVIOUS
<1>2. \A k \in 1..Len(insts[b]) : insts[b][k] \in StoreInst \cup LoadInst
  BY <1>1
<1>3. \A i \in StoreInst \cup LoadInst : i.op # "phi"
  BY DEF StoreInst, LoadInst
<1> QED BY <1>2, <1>3 DEF PhisOf

(* Placing phis of var leaves those of another variable alone, ...         *)
LEMMA PhisOfOthers ==
  ASSUME insts \in [Block -> Seq(Placed)], var \in Var, NEW new,
         insts' = [b \in Block |-> IF b \in new THEN <<PhiInst(var)>> \o insts[b]
                                                ELSE insts[b]],
         NEW v \in Var, v # var, NEW b \in Block, PhisOf(v, b) = {}
  PROVE  PhisOf(v, b)' = {}
<1>1. CASE b \notin new
  BY <1>1 DEF PhisOf
<1>2. CASE b \in new
  <2>1. PhiInst(var) \in Placed
    BY DEF Placed
  <2>2. insts[b] \in Seq(Placed) /\ insts'[b] = <<PhiInst(var)>> \o insts[b]
    BY <1>2
  <2>3. /\ Len(insts'[b]) = Len(insts[b]) + 1
        /\ insts'[b][1] = PhiInst(var)
        /\ \A k \in 1..Len(insts[b]) : insts'[b][k + 1] = insts[b][k]
    BY <2>1, <2>2, Prepend
  <2>4. PhiInst(var).var = var
    BY DEF PhiInst
  <2>5. ASSUME NEW k \in 1..Len(insts'[b])
        PROVE  ~(insts'[b][k].op = "phi" /\ insts'[b][k].var = v)
    <3>1. CASE k = 1
      BY <3>1, <2>3, <2>4
    <3>2. CASE k # 1
      <4>1. k - 1 \in 1..Len(insts[b]) /\ insts'[b][k] = insts[b][k - 1]
        BY <3>2, <2>2, <2>3
      <4> QED BY <4>1 DEF PhisOf
    <3> QED BY <3>1, <3>2
  <2> QED BY <2>5 DEF PhisOf
<1> QED BY <1>1, <1>2

(* ... and gives each new block its one phi.                               *)
LEMMA PhisOfNew ==
  ASSUME insts \in [Block -> Seq(Placed)], var \in Var, var' = var, NEW new,
         insts' = [b \in Block |-> IF b \in new THEN <<PhiInst(var)>> \o insts[b]
                                                ELSE insts[b]],
         NEW b \in new, b \in Block, PhisOf(var, b) = {}
  PROVE  1 \in 1..Len(insts'[b]) /\ PhisOf(var, b)' = {1}
<1>1. PhiInst(var) \in Placed
  BY DEF Placed
<1>2. insts[b] \in Seq(Placed) /\ insts'[b] = <<PhiInst(var)>> \o insts[b]
  OBVIOUS
<1>3. /\ Len(insts'[b]) = Len(insts[b]) + 1
      /\ insts'[b][1] = PhiInst(var)
      /\ \A k \in 1..Len(insts[b]) : insts'[b][k + 1] = insts[b][k]
  BY <1>1, <1>2, Prepend
<1>4. Len(insts[b]) \in Nat
  BY <1>2
<1>5. insts'[b][1].op = "phi" /\ insts'[b][1].var = var
  BY <1>3 DEF PhiInst
<1>6. ASSUME NEW k \in 1..Len(insts'[b]), k # 1
      PROVE  ~(insts'[b][k].op = "phi" /\ insts'[b][k].var = var)
  <2>1. k - 1 \in 1..Len(insts[b]) /\ insts'[b][k] = insts[b][k - 1]
    BY <1>3, <1>4, <1>6
  <2> QED BY <2>1 DEF PhisOf
<1>7. 1 \in 1..Len(insts'[b])
  BY <1>3, <1>4
<1> QED BY <1>5, <1>6, <1>7 DEF PhisOf

(* The blocks of the lists stay sequences.                                 *)
LEMMA PlacedStays ==
  ASSUME insts \in [Block -> Seq(Placed)], var \in Var, NEW new,
         insts' = [b \in Block |-> IF b \in new THEN <<PhiInst(var)>> \o insts[b]
                                                ELSE insts[b]]
  PROVE  insts' \in [Block -> Seq(Placed)]
<1>1. PhiInst(var) \in Placed
  BY DEF Placed
<1>2. \A b \in Block : insts[b] \in Seq(Placed) /\ <<PhiInst(var)>> \o insts[b] \in Seq(Placed)
  BY <1>1, Prepend
<1> QED BY <1>2

-----------------------------------------------------------------------------
(* The invariant holds when the pass begins.                               *)
LEMMA InitPlacement == Init => PlacementInv
<1> SUFFICES ASSUME Init PROVE PlacementInv
  OBVIOUS
<1>1. body \in [Block -> Seq(StoreInst \cup LoadInst)]
  BY FunctionsAssumption DEF Init
<1>2. insts \in [Block -> Seq(Placed)]
  <2>1. \A b \in Block : body[b] \in Seq(Placed)
    BY <1>1 DEF Placed
  <2> QED BY <1>1, <2>1 DEF Init
<1>3. var \in Var
  BY VarAssumption DEF Init
<1> QED BY <1>1, <1>2, <1>3 DEF Init, PlacementInv, TypingInv, WaitingInv, QueueInv

(* A step that changes none of the placement's variables, to a phase in    *)
(* which no phi is placed, keeps the invariant.                            *)
LEMMA PlacementOver ==
  ASSUME PlacementInv, UNCHANGED <<body, placing>>,
         phase' \notin {"collect", "pick", "place"}
  PROVE  PlacementInv'
  BY DEF PlacementInv, TypingInv, WaitingInv, QueueInv, PlacingPhis, placing

(* One block of the queue.                                                 *)
LEMMA PlacePhisKeepsPlacement == PlacementInv /\ PlacePhis => PlacementInv'
<1> SUFFICES ASSUME PlacementInv, PlacePhis PROVE PlacementInv'
  OBVIOUS
<1>0. PICK bb \in queue :
         /\ frontiers' = frontiers \cup (df[bb] \ frontiers)
         /\ insts' = [b \in Block |-> IF b \in df[bb] \ frontiers
                                      THEN <<PhiInst(var)>> \o insts[b] ELSE insts[b]]
         /\ queue' = (queue \ {bb}) \cup ((df[bb] \ frontiers) \ defset[var])
         /\ defset' = [defset EXCEPT ![var] = @ \cup (df[bb] \ frontiers)]
  BY DEF PlacePhis, Place, NewPhis, Joining
<1> DEFINE new == df[bb] \ frontiers
<1>1. phase = "place" /\ phase' = phase /\ UNCHANGED <<fn, body, df, active, var>>
  BY DEF PlacePhis, Place, graph
<1>2. insts \in [Block -> Seq(Placed)] /\ var \in Var /\ active \subseteq Var
  BY <1>1 DEF PlacementInv, TypingInv, PlacingPhis
<1>3. /\ \A v \in Var : v # var => defset'[v] = defset[v]
      /\ defset'[var] = defset[var] \cup new
      /\ defset' = [v \in Var |-> defset'[v]]
  <2>1. defset = [v \in Var |-> defset[v]]
    BY DEF PlacementInv, TypingInv
  <2> QED BY <1>0, <1>2, <2>1
<1>4. /\ var \notin active
      /\ defset[var] = DefBlocks(var) \cup frontiers
      /\ queue \subseteq defset[var]
      /\ \A b \in defset[var] : b \in queue \/ df[b] \subseteq frontiers
      /\ \A S \in SUBSET Blocks : ClosedUnderFrontiers(var, S) => frontiers \subseteq S
      /\ OnePhiEach
  BY <1>1 DEF PlacementInv, QueueInv
<1>5. \A v : DefBlocks(v)' = DefBlocks(v)
  BY <1>1 DEF DefBlocks, Blocks
<1>6. TypingInv'
  <2>1. insts' \in [Block -> Seq(Placed)]
    BY <1>0, <1>2, PlacedStays
  <2> QED BY <1>1, <1>3, <2>1 DEF PlacementInv, TypingInv
<1>7. WaitingInv'
  <2>1. ASSUME NEW v \in active PROVE defset'[v] = DefBlocks(v)'
    BY <1>1, <1>2, <1>3, <1>4, <1>5 DEF PlacementInv, WaitingInv
  <2>2. ASSUME NEW v \in active, NEW b \in Block PROVE PhisOf(v, b)' = {}
    <3>1. v \in Var /\ v # var /\ PhisOf(v, b) = {}
      BY <1>1, <1>2, <1>4 DEF PlacementInv, WaitingInv
    <3> QED BY <1>0, <1>2, <3>1, PhisOfOthers
  <2> QED BY <1>1, <2>1, <2>2 DEF WaitingInv
<1>8. QueueInv'
  <2>1. var' \notin active'
    BY <1>1, <1>4
  <2>2. defset'[var] = DefBlocks(var) \cup frontiers'
    BY <1>0, <1>3, <1>4
  <2>3. queue' \subseteq defset'[var]
    BY <1>0, <1>3, <1>4
  <2>4. \A b \in defset'[var] : b \in queue' \/ df[b] \subseteq frontiers'
    BY <1>0, <1>3, <1>4
  <2>5. ASSUME NEW S \in SUBSET Blocks, ClosedUnderFrontiers(var, S)
        PROVE  frontiers' \subseteq S
    <3>1. frontiers \subseteq S
      BY <1>4, <2>5
    <3>2. bb \in DefBlocks(var) \cup S
      BY <1>0, <1>4, <3>1
    <3> QED BY <1>0, <2>5, <3>1, <3>2 DEF ClosedUnderFrontiers
  <2>6. ASSUME NEW b \in Block
        PROVE  IF b \in frontiers' THEN \E k \in 1..Len(insts'[b]) : PhisOf(var, b)' = {k}
                                   ELSE PhisOf(var, b)' = {}
    <3>1. CASE b \in new
      <4>1. PhisOf(var, b) = {}
        BY <1>4, <3>1 DEF OnePhiEach
      <4> QED BY <1>0, <1>1, <1>2, <3>1, <4>1, PhisOfNew
    <3>2. CASE b \notin new
      <4>1. insts'[b] = insts[b] /\ (b \in frontiers' <=> b \in frontiers)
        BY <1>0, <3>2
      <4>2. PhisOf(var, b)' = PhisOf(var, b)
        BY <1>1, <4>1 DEF PhisOf
      <4> QED BY <1>4, <4>1, <4>2 DEF OnePhiEach
    <3> QED BY <3>1, <3>2
  <2>7. OnePhiEach'
    BY <1>1, <2>6 DEF OnePhiEach
  <2>8. \A S : ClosedUnderFrontiers(var, S)' <=> ClosedUnderFrontiers(var, S)
    BY <1>1, <1>5 DEF ClosedUnderFrontiers
  <2> QED BY <1>1, <1>5, <2>1, <2>2, <2>3, <2>4, <2>5, <2>7, <2>8
          DEF QueueInv, Blocks, ClosedUnderFrontiers
<1> QED BY <1>6, <1>7, <1>8 DEF PlacementInv

(* The other steps of generate_phi, and everything that follows it.        *)
LEMMA NextPlacement == PlacementInv /\ [Next]_vars => PlacementInv'
<1> SUFFICES ASSUME PlacementInv, [Next]_vars PROVE PlacementInv'
  OBVIOUS
<1>i. TypingInv /\ WaitingInv /\ QueueInv
  BY DEF PlacementInv
<1>1. CASE CollectDefs
  <2>1. phase = "collect" /\ phase' = "pick" /\ UNCHANGED <<fn, body, df, insts, var>>
    BY <1>1 DEF CollectDefs, graph
  <2>2. \A v : DefBlocks(v)' = DefBlocks(v)
    BY <2>1 DEF DefBlocks, Blocks
  <2>3. \A v \in Var, b \in Block : PhisOf(v, b)' = {}
    <3>1. \A v \in Var, b \in Block : PhisOf(v, b) = {}
      BY <1>i, <2>1, NoPhiInBody DEF TypingInv, WaitingInv
    <3> QED BY <2>1, <3>1 DEF PhisOf
  <2>4. active' \subseteq Var /\ defset' = [v \in Var |-> DefBlocks(v)]
    BY <1>1 DEF CollectDefs
  <2> QED BY <1>i, <2>1, <2>2, <2>3, <2>4
          DEF PlacementInv, TypingInv, WaitingInv, QueueInv, PlacingPhis
<1>2. CASE PickVariable
  <2>1. PICK v \in active :
          /\ var' = v /\ active' = active \ {v}
          /\ IF PrunedVariable(v) THEN phase' = "pick" /\ UNCHANGED queue
                                  ELSE phase' = "place" /\ queue' = defset[v]
    BY <1>2 DEF PickVariable
  <2>2. phase = "pick" /\ frontiers' = {} /\ UNCHANGED <<fn, body, df, insts, defset>>
    BY <1>2 DEF PickVariable, graph
  <2>3. phase' \in {"pick", "place"}
    BY <2>1
  <2>4. \A w : DefBlocks(w)' = DefBlocks(w)
    BY <2>2 DEF DefBlocks, Blocks
  <2>5. \A w, b : PhisOf(w, b)' = PhisOf(w, b)
    BY <2>2 DEF PhisOf
  <2>6. TypingInv' /\ WaitingInv'
    BY <1>i, <2>1, <2>2, <2>3, <2>4, <2>5 DEF TypingInv, WaitingInv, PlacingPhis
  <2>7. QueueInv'
    <3> SUFFICES ASSUME phase' = "place" PROVE QueueInv'
      BY DEF QueueInv
    <3>1. queue' = defset[v] /\ defset[v] = DefBlocks(v)
      BY <1>i, <2>1, <2>2 DEF WaitingInv
    <3>2. OnePhiEach'
      BY <1>i, <2>1, <2>2, <2>5 DEF OnePhiEach, WaitingInv
    <3> QED BY <2>1, <2>2, <2>4, <3>1, <3>2 DEF QueueInv
  <2> QED BY <2>6, <2>7 DEF PlacementInv
<1>3. CASE PlacePhis
  BY <1>3, PlacePhisKeepsPlacement
<1>4. CASE VariablePlaced
  <2>1. phase = "place" /\ phase' = "pick" /\ UNCHANGED <<fn, body, df, insts, defset, active, var>>
    BY <1>4 DEF VariablePlaced, graph, placing
  <2>2. \A w : DefBlocks(w)' = DefBlocks(w)
    BY <2>1 DEF DefBlocks, Blocks
  <2>3. \A w, b : PhisOf(w, b)' = PhisOf(w, b)
    BY <2>1 DEF PhisOf
  <2> QED BY <1>i, <2>1, <2>2, <2>3
          DEF PlacementInv, TypingInv, WaitingInv, QueueInv, PlacingPhis
<1>5. CASE BeginRename \/ RenamePhi \/ RenameStore \/ RenameLoad \/ FillSuccessors
           \/ RenameChild \/ LeaveBlock \/ Start \/ ExecuteStore \/ ExecuteLoad \/ Jump
  <2>1. UNCHANGED <<body, placing>> /\ phase' \notin {"collect", "pick", "place"}
    BY <1>5 DEF BeginRename, RenamePhi, RenameStore, RenameLoad, FillSuccessors,
        RenameChild, LeaveBlock, Start, ExecuteStore, ExecuteLoad, Jump, InBody, Leaving, Push, Leave,
        Running, graph
  <2> QED BY <2>1, PlacementOver
<1>6. CASE UNCHANGED vars
  <2>1. UNCHANGED <<fn, body, df, insts, phase, defset, active, var, queue, frontiers>>
    BY <1>6 DEF vars
  <2>2. \A w : DefBlocks(w)' = DefBlocks(w)
    BY <2>1 DEF DefBlocks, Blocks
  <2>3. \A w, b : PhisOf(w, b)' = PhisOf(w, b)
    BY <2>1 DEF PhisOf
  <2>4. \A S : ClosedUnderFrontiers(var, S)' <=> ClosedUnderFrontiers(var, S)
    BY <2>1, <2>2 DEF ClosedUnderFrontiers
  <2>5. TypingInv' /\ WaitingInv'
    BY <1>i, <2>1, <2>2, <2>3 DEF TypingInv, WaitingInv, PlacingPhis
  <2>6. OnePhiEach' <=> OnePhiEach
    BY <2>1, <2>3 DEF OnePhiEach
  <2>7. QueueInv'
    BY <1>i, <2>1, <2>2, <2>4, <2>6 DEF QueueInv, Blocks, ClosedUnderFrontiers
  <2> QED BY <2>5, <2>7 DEF PlacementInv
<1> QED BY <1>1, <1>2, <1>3, <1>4, <1>5, <1>6 DEF Next, PassNext

(* When generate_phi is done with a variable, the variable has one phi at  *)
(* each block of the iterated dominance frontier of its stores, and none   *)
(* anywhere else.                                                          *)
THEOREM PhisPlacedExactly == Spec => []PhisAtIteratedFrontier
<1>1. PlacementInv => PhisAtIteratedFrontier
  <2> SUFFICES ASSUME PlacementInv, phase = "place", queue = {}
               PROVE  /\ ClosedUnderFrontiers(var, frontiers)
                      /\ \A S \in SUBSET Blocks : ClosedUnderFrontiers(var, S) => frontiers \subseteq S
                      /\ OnePhiEach
    BY DEF PhisAtIteratedFrontier, OnePhiEach
  <2> QED BY DEF PlacementInv, QueueInv, ClosedUnderFrontiers
<1> QED BY <1>1, InitPlacement, NextPlacement, PTL DEF Spec

-----------------------------------------------------------------------------
(* The values that replace loads: never a load.                            *)
Finals == ({"new"} \X Block \X Nat) \cup ({"phi"} \X Var \X Block) \cup {Garbage}

PhiType == [op : {"phi"}, var : Var, args : Seq(Finals \X Block)]
StoreNow == [op : {"store"}, var : Var, val : Finals \cup ({"load"} \X Block \X Nat)]
Item == PhiType \cup StoreNow \cup LoadInst

(* The shape of a block: n phis of different variables, and then what the  *)
(* block held when it entered the pass, the loads replaced so far being r; *)
(* when rename has left it, the loads alone.                               *)
PhiHead(c, n) ==
    /\ n \in 0..Len(c)
    /\ \A k \in 1..Len(c) : c[k].op = "phi" <=> k <= n
    /\ \A j, k \in 1..n : c[j].var = c[k].var => j = k

Now(i, r) == IF i.op = "store" /\ i.val \in DOMAIN r THEN [i EXCEPT !.val = r[i.val]] ELSE i

Arranged(c, code, r, n) ==
    /\ PhiHead(c, n) /\ Len(c) = n + Len(code)
    /\ \A m \in 1..Len(code) : c[n + m] = Now(code[m], r)

Bare(c, n) == PhiHead(c, n) /\ \A k \in 1..Len(c) : n < k => c[k].op = "load"

-----------------------------------------------------------------------------
(* Instructions, field by field.                                           *)
LEMMA ItemFields ==
  ASSUME NEW x \in Item
  PROVE  /\ x.op \in {"phi", "store", "load"} /\ x.var \in Var
         /\ x.op = "phi" => x \in PhiType /\ x.args \in Seq(Finals \X Block)
         /\ x.op = "store" => x \in StoreNow
                              /\ x.val \in Finals \cup ({"load"} \X Block \X Nat)
         /\ x.op = "load" => x \in LoadInst
<1>1. CASE x \in PhiType
  BY <1>1 DEF PhiType
<1>2. CASE x \in StoreNow
  <2> DEFINE S == Finals \cup ({"load"} \X Block \X Nat)
  <2>1. StoreNow = [op : {"store"}, var : Var, val : S]
    BY DEF StoreNow
  <2> HIDE DEF S
  <2>2. x.op = "store" /\ x.var \in Var /\ x.val \in S
    BY <1>2, <2>1
  <2> QED BY <1>2, <2>2 DEF S
<1>3. CASE x \in LoadInst
  BY <1>3 DEF LoadInst
<1> QED BY <1>1, <1>2, <1>3 DEF Item

(* No value that replaces a load is a load.                                *)
LEMMA FinalsAreNotLoads ==
  \A x \in Finals : \A b, k : x # Load(b, k)
<1> SUFFICES ASSUME NEW x \in Finals, NEW b, NEW k, x = <<"load", b, k>> PROVE FALSE
  BY DEF Load
<1>1. CASE x \in {"new"} \X Block \X Nat
  BY <1>1
<1>2. CASE x \in {"phi"} \X Var \X Block
  BY <1>2
<1>3. CASE x = Garbage
  BY <1>3 DEF Garbage
<1> QED BY <1>1, <1>2, <1>3 DEF Finals

(* The phis of a block are counted by where the head ends.                 *)
PhiCount(c) == Cardinality({k \in 1..Len(c) : c[k].op = "phi"})

LEMMA HeadCounts ==
  ASSUME NEW c, Len(c) \in Nat, NEW n, PhiHead(c, n)
  PROVE  n \in Nat /\ n <= Len(c) /\ PhiCount(c) = n
<1>1. n \in Nat /\ n <= Len(c)
  BY DEF PhiHead
<1>2. {k \in 1..Len(c) : c[k].op = "phi"} = 1..n
  BY <1>1 DEF PhiHead
<1>3. Cardinality(1..n) = n
  <2>1. Cardinality(1..n) = IF 1 > n THEN 0 ELSE n - 1 + 1
    BY <1>1, FS_Interval
  <2> QED BY <1>1, <2>1
<1> QED BY <1>1, <1>2, <1>3 DEF PhiCount

LEMMA CountOfPhis == \A b : PhisIn(b) = PhiCount(insts[b])
  BY DEF PhisIn, PhiCount

-----------------------------------------------------------------------------
(* A list that differs from c only in the values of stores and in the      *)
(* arguments of phis.                                                      *)
SameSkeleton(c, e) ==
    /\ Len(e) = Len(c)
    /\ \A k \in 1..Len(c) : e[k].op = c[k].op /\ e[k].var = c[k].var

LEMMA SkeletonHead ==
  ASSUME NEW c, Len(c) \in Nat, NEW e, SameSkeleton(c, e), NEW n, PhiHead(c, n)
  PROVE  PhiHead(e, n)
<1>1. Len(e) = Len(c) /\ \A k \in 1..Len(c) : e[k].op = c[k].op /\ e[k].var = c[k].var
  BY DEF SameSkeleton
<1>2. n \in 0..Len(c)
  BY DEF PhiHead
<1> DEFINE l == Len(c)
<1>3. Len(e) = l /\ n \in 0..l
  BY <1>1, <1>2
<1>4. \A k \in 1..l : e[k].op = "phi" <=> k <= n
  BY <1>1 DEF PhiHead
<1>5. \A k \in 1..n : k \in 1..Len(c)
  BY <1>2
<1> QED BY <1>1, <1>3, <1>4, <1>5 DEF PhiHead

(* Replacing a load by a value that is final, in one list.                 *)
IsLoad(x) == x \in {"load"} \X Block \X Nat

Rewritten(c, e, old, new) ==
    /\ e \in Seq(Item) /\ Len(e) = Len(c)
    /\ \A k \in 1..Len(c) :
          e[k] = IF c[k].op = "store" /\ c[k].val = old THEN [c[k] EXCEPT !.val = new] ELSE c[k]

LEMMA ReplaceRewrites ==
  ASSUME NEW c \in Seq(Item), NEW old, IsLoad(old), NEW new \in Finals
  PROVE  Rewritten(c, ReplaceUses(c, old, new), old, new)
<1> DEFINE e == ReplaceUses(c, old, new)
           l == Len(c)
           Entry1(k) == IF c[k].op = "store" /\ c[k].val = old
                        THEN [c[k] EXCEPT !.val = new] ELSE c[k]
<1>1. l \in Nat /\ \A k \in 1..l : c[k] \in Item
  OBVIOUS
<1>2. ASSUME NEW k \in 1..l
      PROVE  (CASE c[k].op = "store" ->
               IF c[k].val = old THEN [c[k] EXCEPT !.val = new] ELSE c[k]
          [] c[k].op = "phi" ->
               [c[k] EXCEPT !.args = [a \in 1..Len(c[k].args) |->
                   IF c[k].args[a][1] = old THEN <<new, c[k].args[a][2]>>
                                               ELSE c[k].args[a]]]
          [] c[k].op = "load" -> c[k]) = Entry1(k)
  <2> DEFINE x == c[k]
  <2>1. x \in Item
    BY <1>1
  <2> HIDE DEF x
  <2>2. CASE x.op = "store"
    BY <2>2 DEF x
  <2>3. CASE x.op = "load"
    BY <2>3 DEF x
  <2>4. CASE x.op = "phi"
    <3>1. x \in PhiType /\ x.args \in Seq(Finals \X Block)
      BY <2>1, <2>4, ItemFields
    <3> DEFINE s == x.args
               t == [a \in 1..Len(s) |-> IF s[a][1] = old THEN <<new, s[a][2]>> ELSE s[a]]
    <3>2. \A a \in 1..Len(s) : s[a][1] # old
      <4>1. \A a \in 1..Len(s) : s[a] \in Finals \X Block
        BY <3>1
      <4>2. \A y \in Finals \X Block : y[1] \in Finals
        OBVIOUS
      <4>3. \A y \in Finals : y # old
        BY FinalsAreNotLoads DEF IsLoad, Load
      <4> QED BY <4>1, <4>2, <4>3
    <3>3. t = s
      <4> HIDE DEF s
      <4>1. t = [a \in 1..Len(s) |-> s[a]]
        BY <3>2
      <4>2. s \in Seq(Finals \X Block)
        BY <3>1 DEF s
      <4>3. s = [a \in 1..Len(s) |-> s[a]]
        <5> DEFINE T == Finals \X Block
        <5>1. s \in Seq(T)
          BY <4>2
        <5> HIDE DEF T
        <5> QED BY <5>1
      <4> QED BY <4>1, <4>3
    <3>4. [x EXCEPT !.args = s] = x
      BY <3>1 DEF PhiType
    <3> HIDE DEF t, s
    <3>5. [x EXCEPT !.args = t] = x
      BY <3>3, <3>4
    <3> QED BY <2>4, <3>5 DEF x, t, s
  <2> QED BY <2>1, <2>2, <2>3, <2>4, ItemFields
<1>3. e = [k \in 1..l |-> Entry1(k)]
  <2>1. e = [k \in 1..l |->
            (CASE c[k].op = "store" ->
               IF c[k].val = old THEN [c[k] EXCEPT !.val = new] ELSE c[k]
          [] c[k].op = "phi" ->
               [c[k] EXCEPT !.args = [a \in 1..Len(c[k].args) |->
                   IF c[k].args[a][1] = old THEN <<new, c[k].args[a][2]>>
                                               ELSE c[k].args[a]]]
          [] c[k].op = "load" -> c[k])]
    BY DEF ReplaceUses
  <2> HIDE DEF Entry1, l
  <2> QED BY <1>2, <2>1, Zenon
<1>4. ASSUME NEW k \in 1..l PROVE Entry1(k) \in Item
  <2> DEFINE x == c[k]
  <2>1. x \in Item
    BY <1>1
  <2> HIDE DEF x
  <2>2. CASE x.op = "store" /\ x.val = old
    <3> DEFINE S == Finals \cup ({"load"} \X Block \X Nat)
    <3>1. x \in [op : {"store"}, var : Var, val : S]
      BY <2>1, <2>2, ItemFields DEF StoreNow
    <3>2. new \in S
      OBVIOUS
    <3> HIDE DEF S
    <3>3. [x EXCEPT !.val = new] \in [op : {"store"}, var : Var, val : S]
      BY <3>1, <3>2
    <3> QED BY <2>2, <3>3 DEF x, S, Item, StoreNow
  <2>3. CASE ~(x.op = "store" /\ x.val = old)
    BY <2>1, <2>3 DEF x
  <2> QED BY <2>2, <2>3
<1> HIDE DEF Entry1, e
<1>5. e \in Seq(Item) /\ Len(e) = l /\ \A k \in 1..l : e[k] = Entry1(k)
  <2> HIDE DEF l
  <2> QED BY <1>1, <1>3, <1>4
<1> QED BY <1>5 DEF Entry1, Rewritten, e

-----------------------------------------------------------------------------
(* Replacing a load turns a block that the replacements so far arrange     *)
(* into one that they and the new one arrange.                             *)
Entering == StoreInst \cup LoadInst

LEMMA EnteringFields ==
  ASSUME NEW x \in Entering
  PROVE  /\ x \in Item /\ x.op \in {"store", "load"} /\ x.op # "phi" /\ x.var \in Var
         /\ x.op = "store" => x \in StoreInst
<1>1. CASE x \in StoreInst
  <2> DEFINE V == {"new", "load"} \X Block \X Nat
             S == Finals \cup ({"load"} \X Block \X Nat)
  <2>1. x \in [op : {"store"}, var : Var, val : V]
    BY <1>1 DEF StoreInst
  <2>2. V \subseteq S
    BY DEF Finals
  <2>3. x \in [op : {"store"}, var : Var, val : S]
    <3> HIDE DEF V, S
    <3> QED BY <2>1, <2>2
  <2>4. x.op = "store" /\ x.var \in Var
    <3> HIDE DEF V
    <3> QED BY <2>1
  <2> QED BY <1>1, <2>3, <2>4 DEF Item, StoreNow
<1>2. CASE x \in LoadInst
  BY <1>2 DEF LoadInst, Item
<1> QED BY <1>1, <1>2 DEF Entering

LEMMA RewriteSkeleton ==
  ASSUME NEW c \in Seq(Item), NEW e, NEW old, NEW new, Rewritten(c, e, old, new)
  PROVE  SameSkeleton(c, e) /\ \A k \in 1..Len(c) : c[k].op # "store" => e[k] = c[k]
<1>1. ASSUME NEW k \in 1..Len(c) PROVE e[k].op = c[k].op /\ e[k].var = c[k].var
  <2> DEFINE x == c[k]
  <2>1. x \in Item
    OBVIOUS
  <2>2. e[k] = IF x.op = "store" /\ x.val = old THEN [x EXCEPT !.val = new] ELSE x
    BY DEF Rewritten
  <2> HIDE DEF x
  <2>3. CASE x.op = "store"
    <3> DEFINE S == Finals \cup ({"load"} \X Block \X Nat)
    <3>1. x \in [op : {"store"}, var : Var, val : S]
      BY <2>1, <2>3, ItemFields DEF StoreNow
    <3> HIDE DEF S
    <3>2. [x EXCEPT !.val = new].op = x.op /\ [x EXCEPT !.val = new].var = x.var
      BY <3>1
    <3> QED BY <2>2, <3>2 DEF x
  <2>4. CASE x.op # "store"
    BY <2>2, <2>4 DEF x
  <2> QED BY <2>3, <2>4
<1> QED BY <1>1 DEF Rewritten, SameSkeleton

FinalValues(r) == \A l \in DOMAIN r : r[l] \in Finals

With(r, old, new) == [l \in DOMAIN r \cup {old} |-> IF l = old THEN new ELSE r[l]]

Renewed(y, old, new) == IF y.op = "store" /\ y.val = old THEN [y EXCEPT !.val = new] ELSE y

LEMMA NowRewritten ==
  ASSUME NEW x \in Entering, NEW r, NEW old, IsLoad(old), old \notin DOMAIN r,
         FinalValues(r), NEW new \in Finals, NEW q, q = With(r, old, new), NEW y, y = Now(x, r)
  PROVE  Now(x, q) = Renewed(y, old, new)
<1>1. /\ DOMAIN q = DOMAIN r \cup {old} /\ q[old] = new
      /\ \A l \in DOMAIN r : q[l] = r[l] /\ r[l] # old
  <2>1. \A z \in Finals : z # old
    BY FinalsAreNotLoads DEF IsLoad, Load
  <2> QED BY <2>1 DEF FinalValues, With
<1>2. CASE x.op = "load"
  <2>1. x.op # "store"
    BY <1>2
  <2> QED BY <2>1 DEF Now, Renewed
<1>3. CASE x.op = "store"
  <2>1. x \in StoreInst
    BY <1>3, EnteringFields
  <2> DEFINE V == {"new", "load"} \X Block \X Nat
  <2>2. x \in [op : {"store"}, var : Var, val : V]
    BY <2>1 DEF StoreInst
  <2> HIDE DEF V
  <2>3. ASSUME NEW z
        PROVE  /\ [x EXCEPT !.val = z].op = "store" /\ [x EXCEPT !.val = z].val = z
    BY <2>2
  <2>4. CASE x.val \in DOMAIN r
    <3>1. y = [x EXCEPT !.val = r[x.val]] /\ y.val = r[x.val] /\ y.val # old
      BY <1>1, <1>3, <2>3, <2>4 DEF Now
    <3>2. Now(x, q) = [x EXCEPT !.val = q[x.val]]
      BY <1>1, <1>3, <2>4 DEF Now
    <3> QED BY <1>1, <2>4, <3>1, <3>2 DEF Renewed
  <2>5. CASE x.val \notin DOMAIN r
    <3>1. y = x
      BY <2>5 DEF Now
    <3>2. CASE x.val = old
      <4>1. Now(x, q) = [x EXCEPT !.val = new]
        BY <1>1, <1>3, <3>2 DEF Now
      <4> QED BY <1>3, <3>1, <3>2, <4>1 DEF Renewed
    <3>3. CASE x.val # old
      <4>1. Now(x, q) = x
        BY <1>1, <2>5, <3>3 DEF Now
      <4> QED BY <3>1, <3>3, <4>1 DEF Renewed
    <3> QED BY <3>2, <3>3
  <2> QED BY <2>4, <2>5
<1> QED BY <1>2, <1>3, EnteringFields

LEMMA RewriteArranges ==
  ASSUME NEW c \in Seq(Item), NEW code \in Seq(Entering), NEW r, NEW n, Arranged(c, code, r, n),
         NEW old, IsLoad(old), old \notin DOMAIN r, FinalValues(r), NEW new \in Finals,
         NEW e, Rewritten(c, e, old, new), NEW q, q = With(r, old, new)
  PROVE  Arranged(e, code, q, n)
<1> DEFINE z == Len(c)
           d == Len(code)
<1>1. z \in Nat /\ d \in Nat /\ n \in Nat /\ z = n + d /\ PhiHead(c, n) /\ Len(e) = z
  BY DEF Arranged, PhiHead, Rewritten
<1>2. PhiHead(e, n)
  BY <1>1, RewriteSkeleton, SkeletonHead
<1>3. ASSUME NEW m \in 1..d PROVE e[n + m] = Now(code[m], q)
  <2> DEFINE x == code[m]
             y == c[n + m]
  <2>1. n + m \in 1..z
    <3> HIDE DEF d, z
    <3> QED BY <1>1
  <2>2. x \in Entering /\ y = Now(x, r)
    BY DEF Arranged
  <2>3. e[n + m] = Renewed(y, old, new)
    BY <2>1 DEF Rewritten, Renewed
  <2> HIDE DEF x, y
  <2>4. Now(x, q) = Renewed(y, old, new)
    BY <2>2, NowRewritten
  <2> QED BY <2>3, <2>4 DEF x
<1> QED BY <1>1, <1>2, <1>3 DEF Arranged

(* Every step of rename before it leaves a block keeps its skeleton.       *)
LEMMA SkeletonBare ==
  ASSUME NEW c, Len(c) \in Nat, NEW e, SameSkeleton(c, e), NEW n, Bare(c, n)
  PROVE  Bare(e, n)
<1>1. PhiHead(e, n)
  BY SkeletonHead DEF Bare
<1> QED BY <1>1 DEF Bare, SameSkeleton

SamePhisApart(c, e) == SameSkeleton(c, e) /\ \A k \in 1..Len(c) : c[k].op # "phi" => e[k] = c[k]

LEMMA SkeletonArranges ==
  ASSUME NEW c \in Seq(Item), NEW code \in Seq(Entering), NEW r, NEW n, Arranged(c, code, r, n),
         NEW e, SamePhisApart(c, e)
  PROVE  Arranged(e, code, r, n)
<1> DEFINE z == Len(c)
           d == Len(code)
<1>1. z \in Nat /\ d \in Nat /\ n \in Nat /\ z = n + d /\ PhiHead(c, n) /\ Len(e) = z
  BY DEF Arranged, PhiHead, SamePhisApart, SameSkeleton
<1>2. PhiHead(e, n)
  BY <1>1, SkeletonHead DEF SamePhisApart
<1>3. ASSUME NEW m \in 1..d PROVE e[n + m] = c[n + m]
  <2>1. n + m \in 1..z /\ ~(n + m <= n)
    <3> HIDE DEF d, z
    <3> QED BY <1>1
  <2>2. c[n + m].op # "phi"
    BY <1>1, <2>1 DEF PhiHead
  <2> QED BY <2>1, <2>2 DEF SamePhisApart
<1> QED BY <1>1, <1>2, <1>3 DEF Arranged

-----------------------------------------------------------------------------
(* What a predecessor does to the phis of a block.                         *)
Given(x, s, b) == Append(x.args, <<TopOf(s), b>>)

FillOf(x, y, b) ==
    /\ y \in Item /\ y.op = x.op /\ y.var = x.var
    /\ x.op # "phi" => y = x
    /\ x.op = "phi" => y.args = IF stk[x.var] = << >> THEN x.args ELSE Given(x, stk[x.var], b)

LEMMA TopIsFinal ==
  ASSUME NEW s \in Seq(Finals)
  PROVE  TopOf(s) \in Finals
<1>1. s # << >> => Len(s) \in 1..Len(s)
  OBVIOUS
<1>2. Garbage \in Finals
  BY DEF Finals
<1> QED BY <1>1, <1>2 DEF TopOf

LEMMA FillOne ==
  ASSUME stk \in [Var -> Seq(Finals)], NEW b \in Block, NEW x \in Item, NEW y, y = FillPhi(x, b)
  PROVE  FillOf(x, y, b)
<1>1. CASE x.op = "phi" /\ stk[x.var] # << >>
  <2>1. x \in PhiType /\ x.args \in Seq(Finals \X Block) /\ x.var \in Var
    BY <1>1, ItemFields
  <2>2. TopOf(stk[x.var]) \in Finals
    BY <2>1, TopIsFinal
  <2> DEFINE S == Seq(Finals \X Block)
             t == Given(x, stk[x.var], b)
  <2>3. t \in S
    <3> DEFINE T == Finals \X Block
               z == <<TopOf(stk[x.var]), b>>
    <3>1. x.args \in Seq(T) /\ z \in T
      BY <2>1, <2>2
    <3> HIDE DEF T, z
    <3>2. Append(x.args, z) \in Seq(T)
      BY <3>1
    <3> QED BY <3>2 DEF Given, T, z
  <2>4. y = [x EXCEPT !.args = t]
    BY <1>1 DEF FillPhi, Given
  <2>5. x \in [op : {"phi"}, var : Var, args : S]
    BY <2>1 DEF PhiType
  <2> HIDE DEF S, t
  <2>6. y \in [op : {"phi"}, var : Var, args : S] /\ y.op = x.op /\ y.var = x.var /\ y.args = t
    BY <2>3, <2>4, <2>5
  <2>7. y \in Item
    BY <2>6 DEF S, Item, PhiType
  <2> QED BY <1>1, <2>6, <2>7 DEF FillOf, t
<1>2. CASE ~(x.op = "phi" /\ stk[x.var] # << >>)
  BY <1>2 DEF FillPhi, FillOf
<1> QED BY <1>1, <1>2

LEMMA FillKeeps ==
  ASSUME stk \in [Var -> Seq(Finals)], NEW b \in Block, NEW c \in Seq(Item),
         NEW e, e = [k \in 1..Len(c) |-> FillPhi(c[k], b)]
  PROVE  /\ e \in Seq(Item) /\ SamePhisApart(c, e)
         /\ \A k \in 1..Len(c) : FillOf(c[k], e[k], b)
<1> DEFINE l == Len(c)
<1>1. l \in Nat /\ \A k \in 1..l : c[k] \in Item /\ e[k] = FillPhi(c[k], b)
  OBVIOUS
<1>2. \A k \in 1..l : FillOf(c[k], e[k], b)
  BY <1>1, FillOne
<1>3. e \in Seq(Item) /\ Len(e) = l
  <2>1. \A k \in 1..l : e[k] \in Item
    BY <1>2 DEF FillOf
  <2>2. e = [k \in 1..l |-> FillPhi(c[k], b)]
    OBVIOUS
  <2> HIDE DEF l
  <2>3. DOMAIN e = 1..l
    BY <2>2
  <2>4. e = [k \in 1..l |-> e[k]]
    BY <2>2, <2>3
  <2>5. e \in [1..l -> Item]
    BY <2>1, <2>4
  <2>6. l \in Nat
    BY <1>1
  <2> HIDE DEF l
  <2>7. e \in Seq(Item) /\ Len(e) = l
    BY <2>3, <2>5, <2>6
  <2> QED BY <2>7
<1> QED BY <1>2, <1>3 DEF FillOf, SamePhisApart, SameSkeleton

-----------------------------------------------------------------------------
(* A block as it enters the pass, with one more phi, and without stores.   *)
LEMMA BodyArranged ==
  ASSUME NEW c \in Seq(Entering), NEW r, r = << >>
  PROVE  c \in Seq(Item) /\ Arranged(c, c, r, 0)
<1> DEFINE l == Len(c)
<1>1. l \in Nat /\ \A k \in 1..l : c[k] \in Entering
  OBVIOUS
<1>2. \A k \in 1..l : c[k] \in Item /\ c[k].op # "phi"
  BY <1>1, EnteringFields
<1>3. c \in Seq(Item)
  BY <1>2
<1>4. DOMAIN r = {}
  OBVIOUS
<1>5. PhiHead(c, 0)
  BY <1>1, <1>2 DEF PhiHead
<1>6. \A m \in 1..l : c[0 + m] = Now(c[m], r)
  BY <1>1, <1>4 DEF Now
<1> QED BY <1>1, <1>3, <1>5, <1>6 DEF Arranged

LEMMA PhiInstItem ==
  ASSUME NEW v \in Var, NEW x, x = PhiInst(v)
  PROVE  x \in Item /\ x.op = "phi" /\ x.var = v /\ x.args = << >>
<1>1. x = [op |-> "phi", var |-> v, args |-> << >>]
  BY DEF PhiInst
<1>2. x \in PhiType
  <2> DEFINE T == Finals \X Block
             e == << >>
  <2>1. e \in Seq(T)
    OBVIOUS
  <2>2. x = [op |-> "phi", var |-> v, args |-> e]
    BY <1>1
  <2> HIDE DEF T, e
  <2>3. x \in [op : {"phi"}, var : Var, args : Seq(T)]
    BY <2>1, <2>2
  <2> QED BY <2>3 DEF PhiType, T
<1> QED BY <1>1, <1>2 DEF Item

Headed(x, s, t) == /\ t \in Seq(Item) /\ Len(t) = Len(s) + 1 /\ t[1] = x
                   /\ \A k \in 1..Len(s) : t[k + 1] = s[k]

LEMMA PrependArranges ==
  ASSUME NEW c \in Seq(Item), NEW code \in Seq(Entering), NEW r, NEW n, Arranged(c, code, r, n),
         NEW v \in Var, \A k \in 1..n : c[k].var # v, NEW x, x = PhiInst(v), NEW e, Headed(x, c, e)
  PROVE  Arranged(e, code, r, n + 1)
<1> DEFINE z == Len(c)
           d == Len(code)
           h == n + 1
<1>1. /\ z \in Nat /\ d \in Nat /\ n \in Nat /\ z = n + d /\ Len(e) = z + 1 /\ e[1] = x
      /\ \A k \in 1..z : e[k + 1] = c[k]
      /\ \A k \in 1..z : c[k].op = "phi" <=> k <= n
      /\ \A j, k \in 1..n : c[j].var = c[k].var => j = k
      /\ \A m \in 1..d : c[n + m] = Now(code[m], r)
  BY DEF Arranged, PhiHead, Headed
<1>2. x.op = "phi" /\ x.var = v
  BY PhiInstItem
<1> HIDE DEF z, d
<1>3. \A k \in 1..(z + 1) : k # 1 => k - 1 \in 1..z /\ (k - 1) + 1 = k
  BY <1>1
<1>4. \A k \in 1..(z + 1) : k # 1 => e[k] = c[k - 1]
  BY <1>1, <1>3
<1>5. \A k \in 1..(z + 1) : e[k].op = "phi" <=> k <= n + 1
  <2> SUFFICES ASSUME NEW k \in 1..(z + 1) PROVE e[k].op = "phi" <=> k <= n + 1
    OBVIOUS
  <2>1. CASE k = 1
    BY <1>1, <1>2, <2>1
  <2>2. CASE k # 1
    <3>1. e[k] = c[k - 1] /\ k - 1 \in 1..z
      BY <1>3, <1>4, <2>2
    <3>2. c[k - 1].op = "phi" <=> k - 1 <= n
      BY <1>1, <3>1
    <3> QED BY <1>1, <3>1, <3>2
  <2> QED BY <2>1, <2>2
<1>6. ASSUME NEW j \in 1..(n + 1), NEW k \in 1..(n + 1), e[j].var = e[k].var PROVE j = k
  <2>1. j \in 1..(z + 1) /\ k \in 1..(z + 1)
    BY <1>1
  <2>2. ASSUME NEW i \in 1..(n + 1), i # 1 PROVE i - 1 \in 1..n /\ e[i].var = c[i - 1].var /\ e[i].var # v
    <3>1. i \in 1..(z + 1) /\ i - 1 \in 1..n
      BY <1>1, <2>2
    <3> QED BY <1>4, <2>2, <3>1
  <2>3. e[1].var = v
    BY <1>1, <1>2
  <2>4. CASE j = 1 \/ k = 1
    BY <1>6, <2>2, <2>3, <2>4
  <2>5. CASE j # 1 /\ k # 1
    <3>1. j - 1 = k - 1
      BY <1>1, <1>6, <2>2, <2>5
    <3> QED BY <3>1
  <2> QED BY <2>4, <2>5
<1>7. ASSUME NEW m \in 1..d PROVE e[(n + 1) + m] = Now(code[m], r)
  <2>0. n \in Nat /\ z \in Nat /\ d \in Nat /\ z = n + d
    BY <1>1
  <2>1. n + m \in 1..z /\ (n + m) + 1 = (n + 1) + m
    BY <2>0
  <2>2. e[(n + m) + 1] = c[n + m]
    BY <1>1, <2>1
  <2> QED BY <1>1, <2>1, <2>2
<1>8. h \in 0..(z + 1) /\ h \in Nat /\ z + 1 = h + d
  BY <1>1
<1>9. /\ \A k \in 1..(z + 1) : e[k].op = "phi" <=> k <= h
      /\ \A j, k \in 1..h : e[j].var = e[k].var => j = k
      /\ \A m \in 1..d : e[h + m] = Now(code[m], r)
  BY <1>5, <1>6, <1>7
<1> HIDE DEF h
<1>10. Arranged(e, code, r, h)
  BY <1>1, <1>8, <1>9 DEF Arranged, PhiHead, d
<1> QED BY <1>10 DEF h

LEMMA PrependHeads ==
  ASSUME NEW x \in Item, NEW s \in Seq(Item), NEW t, t = <<x>> \o s
  PROVE  Headed(x, s, t)
<1> DEFINE y == <<x>>
<1>1. y \in Seq(Item) /\ Len(y) = 1 /\ y[1] = x
  OBVIOUS
<1> HIDE DEF y
<1>2. t = y \o s
  BY DEF y
<1>3. /\ Len(s) \in Nat /\ t \in Seq(Item) /\ Len(t) = 1 + Len(s)
      /\ \A i \in 1..(1 + Len(s)) : t[i] = IF i <= 1 THEN y[i] ELSE s[i - 1]
  BY <1>1, <1>2, ConcatElements
<1> DEFINE l == Len(s)
<1>4. t[1] = x /\ Len(t) = l + 1 /\ \A k \in 1..l : t[k + 1] = s[k]
  <2> HIDE DEF l
  <2>1. l \in Nat /\ Len(t) = 1 + l /\ \A i \in 1..(1 + l) : t[i] = IF i <= 1 THEN y[i] ELSE s[i - 1]
    BY <1>3 DEF l
  <2> QED BY <1>1, <2>1
<1> QED BY <1>3, <1>4 DEF Headed

NotStore(c) == {i \in Members(c) : i.op # "store"}

LEMMA KeepBare ==
  ASSUME NEW c \in Seq(Item), NEW n, PhiHead(c, n), NEW e, e = Kept(c, NotStore(c))
  PROVE  /\ e \in Seq(Item) /\ Bare(e, n)
         /\ n \in Nat /\ n <= Len(c) /\ n <= Len(e) /\ \A k \in 1..n : e[k] = c[k]
<1> DEFINE z == Len(c)
           S == NotStore(c)
           l == Len(e)
<1>1. /\ z \in Nat /\ n \in Nat /\ n <= z /\ n \in 0..z
      /\ \A k \in 1..z : c[k].op = "phi" <=> k <= n
      /\ \A j, k \in 1..n : c[j].var = c[k].var => j = k
      /\ \A k \in 1..z : c[k] \in Item
  BY DEF PhiHead
<1>2. \A k \in 1..n : c[k] \in S
  BY <1>1 DEF NotStore, Members
<1>3. e \in Seq(Item) /\ n <= l /\ KeptFrom(c, S, n, e)
  BY <1>1, <1>2, KeptMembers, KeptPrefix
<1>4. l \in Nat
  BY <1>3
<1>5. \A k \in 1..n : k \in 1..l /\ k \in 1..z /\ e[k] = c[k]
  <2>1. \A k \in 1..l : k <= n => e[k] = c[k]
    BY <1>3 DEF KeptFrom
  <2> HIDE DEF l, z
  <2> QED BY <1>1, <1>3, <1>4, <2>1
<1>6. ASSUME NEW k \in 1..l, ~(k <= n) PROVE e[k].op = "load"
  <2>1. PICK j \in 1..z : n < j /\ c[j] \in S /\ e[k] = c[j]
    BY <1>3, <1>6 DEF KeptFrom
  <2>2. c[j].op # "store" /\ c[j].op # "phi"
    BY <1>1, <2>1 DEF NotStore
  <2> QED BY <1>1, <2>1, <2>2, ItemFields
<1>7. \A k \in 1..l : e[k].op = "phi" <=> k <= n
  <2>1. ASSUME NEW k \in 1..l, k <= n PROVE e[k].op = "phi"
    <3>1. k \in 1..n
      BY <1>1, <2>1
    <3> QED BY <1>1, <1>5, <3>1
  <2> QED BY <1>6, <2>1
<1>8. \A j, k \in 1..n : e[j].var = e[k].var => j = k
  BY <1>1, <1>5
<1>9. PhiHead(e, n)
  BY <1>1, <1>3, <1>4, <1>7, <1>8 DEF PhiHead
<1>10. \A k \in 1..l : n < k => e[k].op = "load"
  BY <1>1, <1>4, <1>6
<1> QED BY <1>1, <1>3, <1>5, <1>9, <1>10 DEF Bare

-----------------------------------------------------------------------------
(* The calls of rename that are open form a path in the dominator tree,    *)
(* and every subtree still to visit hangs from one of them.                *)
Kids(f, b) == {c \in Reachable(f) : IsIdom(Dominance(f), b, c)}

FrameType(f) == [bb : Reachable(f), k : Nat \ {0}, children : SUBSET Block, filled : BOOLEAN]

OpenIn(s) == {s[j].bb : j \in 1..Len(s)}
AheadIn(f, s) == {b \in Reachable(f) :
                    \E j \in 1..Len(s) : \E c \in s[j].children : Dominates(f, c, b)}

Calls(f, s) ==
    /\ s \in Seq(FrameType(f)) /\ s # << >>
    /\ s[1].bb = Entry(f)
    /\ \A j \in 1..Len(s) : s[j].children \subseteq Kids(f, s[j].bb)
    /\ \A j \in 1..(Len(s) - 1) : s[j].filled
    /\ \A j, k \in 1..Len(s) : j < k => StrictlyDominates(f, s[j].bb, s[k].bb)
    /\ \A j \in 1..Len(s) : \A d : Dominates(f, d, s[j].bb) => \E i \in 1..j : d = s[i].bb
    /\ OpenIn(s) \cap AheadIn(f, s) = {}

LEMMA StrictThrough ==
  ASSUME NEW f, Graph(f), NEW x, NEW y, NEW z, Dominates(f, x, y), Dominates(f, y, z)
  PROVE  /\ StrictlyDominates(f, x, y) => StrictlyDominates(f, x, z)
         /\ StrictlyDominates(f, y, z) => StrictlyDominates(f, x, z)
<1>1. Dominates(f, x, z)
  BY DominatesThrough
<1>2. x = z => x = y
  BY DominatesOneWay
<1> QED BY <1>1, <1>2 DEF StrictlyDominates

LEMMA KidIs ==
  ASSUME NEW f, Graph(f), NEW x, NEW c \in Kids(f, x)
  PROVE  /\ StrictlyDominates(f, x, c) /\ Dominates(f, x, c) /\ c \in Reachable(f)
         /\ \A d : StrictlyDominates(f, d, c) => Dominates(f, d, x)
<1>1. IsIdom(Dominance(f), x, c) /\ c \in Reachable(f)
  BY DEF Kids
<1> QED BY <1>1, IdomIs DEF StrictlyDominates

LEMMA KidTowards ==
  ASSUME NEW f, Graph(f), NEW x, NEW y, StrictlyDominates(f, x, y)
  PROVE  \E c \in Kids(f, x) : Dominates(f, c, y)
<1>1. PICK c : IsIdom(Dominance(f), x, c) /\ Dominates(f, c, y)
  BY ChildTowards
<1>2. c \in Reachable(f)
  BY <1>1 DEF Dominates
<1> QED BY <1>1, <1>2 DEF Kids

LEMMA KidOnce ==
  ASSUME NEW f, Graph(f), NEW x, NEW y, NEW c, c \in Kids(f, x), c \in Kids(f, y)
  PROVE  x = y
<1>1. /\ StrictlyDominates(f, x, c)
      /\ \A d : StrictlyDominates(f, d, c) => Dominates(f, d, x)
  BY KidIs
<1>2. /\ StrictlyDominates(f, y, c)
      /\ \A d : StrictlyDominates(f, d, c) => Dominates(f, d, y)
  BY KidIs
<1>3. Dominates(f, x, y) /\ Dominates(f, y, x)
  BY <1>1, <1>2
<1> QED BY <1>3, DominatesOneWay

-----------------------------------------------------------------------------
(* The first call.                                                         *)
CallOf(f, b) == [bb |-> b, k |-> 1, children |-> Kids(f, b), filled |-> FALSE]

LEMMA CallFrame ==
  ASSUME NEW f, FlowGraph(f), NEW b \in Reachable(f), NEW x, x = CallOf(f, b)
  PROVE  /\ x \in FrameType(f)
         /\ x.bb = b /\ x.k = 1 /\ x.children = Kids(f, b) /\ ~x.filled
<1>1. Graph(f)
  BY DEF FlowGraph, Graph, Members
<1>2. Reachable(f) \subseteq Block
  <2>1. Reachable(f) \subseteq Members(f.blocks)
    <3> DEFINE cut == {}
    <3>1. ReachAvoiding(f, cut) \subseteq Members(f.blocks) \ cut
      <4> HIDE DEF cut
      <4> QED BY <1>1, ReachByWalk
    <3> QED BY <3>1 DEF Reachable
  <2>2. Members(f.blocks) \subseteq Block
    BY MembersOfSeq DEF FlowGraph
  <2> QED BY <2>1, <2>2
<1>3. Kids(f, b) \subseteq Block
  BY <1>2 DEF Kids
<1> QED BY <1>3 DEF CallOf, FrameType

LEMMA GraphOf == ASSUME NEW f, FlowGraph(f) PROVE Graph(f)
  BY SeqOfMembers DEF FlowGraph, Graph

LEMMA EntryReached ==
  ASSUME NEW f, Graph(f)
  PROVE  Entry(f) \in Reachable(f)
<1> DEFINE cut == {}
<1>1. Entry(f) \notin cut
  OBVIOUS
<1> HIDE DEF cut
<1>2. Entry(f) \in ReachAvoiding(f, cut)
  BY <1>1, ReachClosed
<1> QED BY <1>2 DEF cut, Reachable

LEMMA CallsStart ==
  ASSUME NEW f, FlowGraph(f), NEW x, x = CallOf(f, Entry(f)), NEW s, s = <<x>>
  PROVE  /\ Calls(f, s) /\ OpenIn(s) = {Entry(f)}
         /\ AheadIn(f, s) = Reachable(f) \ {Entry(f)}
<1>1. Graph(f)
  BY GraphOf
<1> DEFINE b == Entry(f)
<1>2. b \in Reachable(f)
  BY <1>1, EntryReached
<1>3. x \in FrameType(f) /\ x.bb = b /\ x.children = Kids(f, b)
  <2>1. x = CallOf(f, b)
    OBVIOUS
  <2> HIDE DEF b
  <2> QED BY <1>2, <2>1, CallFrame
<1>4. Len(s) = 1 /\ s[1] = x /\ s \in Seq(FrameType(f)) /\ s # << >>
  <2> DEFINE T == FrameType(f)
  <2>1. x \in T
    BY <1>3
  <2> HIDE DEF T
  <2>2. Len(s) = 1 /\ s[1] = x /\ s \in Seq(T) /\ s # << >>
    BY <2>1
  <2> QED BY <2>2 DEF T
<1>5. \A j \in 1..Len(s) : j = 1
  BY <1>4
<1>6. OpenIn(s) = {b}
  <2>1. 1 \in 1..Len(s)
    BY <1>4
  <2> QED BY <1>3, <1>4, <1>5, <2>1 DEF OpenIn
<1>7. AheadIn(f, s) = Reachable(f) \ {b}
  <2>1. ASSUME NEW y \in AheadIn(f, s) PROVE y \in Reachable(f) /\ y # b
    <3>1. y \in Reachable(f) /\ \E c \in Kids(f, b) : Dominates(f, c, y)
      BY <1>3, <1>4, <1>5 DEF AheadIn
    <3>2. PICK c \in Kids(f, b) : Dominates(f, c, y)
      BY <3>1
    <3>3. StrictlyDominates(f, b, y)
      BY <1>1, <3>2, KidIs, StrictThrough
    <3> QED BY <3>1, <3>3 DEF StrictlyDominates
  <2>2. ASSUME NEW y \in Reachable(f), y # b PROVE y \in AheadIn(f, s)
    <3>1. StrictlyDominates(f, b, y)
      BY <1>1, <2>2, EntryDominates DEF StrictlyDominates
    <3>2. \E c \in Kids(f, b) : Dominates(f, c, y)
      BY <1>1, <3>1, KidTowards
    <3>3. 1 \in 1..Len(s)
      BY <1>4
    <3> QED BY <1>3, <1>4, <3>2, <3>3 DEF AheadIn
  <2> QED BY <2>1, <2>2
<1>8. \A d : Dominates(f, d, b) => d = b
  <2> SUFFICES ASSUME NEW d, Dominates(f, d, b) PROVE d = b
    OBVIOUS
  <2>1. Dominates(f, b, d)
    BY <1>1, EntryDominates DEF Dominates
  <2> QED BY <1>1, <2>1, DominatesOneWay
<1>9. \A j \in 1..Len(s) : \A d : Dominates(f, d, s[j].bb) => \E i \in 1..j : d = s[i].bb
  <2> SUFFICES ASSUME NEW j \in 1..Len(s), NEW d, Dominates(f, d, s[j].bb) PROVE \E i \in 1..j : d = s[i].bb
    OBVIOUS
  <2>1. j = 1 /\ d = s[1].bb /\ 1 \in 1..j
    BY <1>3, <1>4, <1>5, <1>8
  <2> QED BY <2>1
<1>10. \A j \in 1..(Len(s) - 1) : FALSE
  BY <1>4
<1>11. \A j, k \in 1..Len(s) : ~(j < k)
  BY <1>4
<1> QED BY <1>3, <1>4, <1>5, <1>6, <1>7, <1>9, <1>10, <1>11 DEF Calls

(* A step inside the call on top.                                          *)
SamePlaces(s, t) ==
    /\ Len(t) = Len(s)
    /\ \A j \in 1..Len(s) : t[j].bb = s[j].bb /\ t[j].children = s[j].children
    /\ \A j \in 1..(Len(s) - 1) : t[j].filled = s[j].filled

LEMMA CallsSame ==
  ASSUME NEW f, NEW s, Calls(f, s), NEW t \in Seq(FrameType(f)), SamePlaces(s, t)
  PROVE  Calls(f, t) /\ OpenIn(t) = OpenIn(s) /\ AheadIn(f, t) = AheadIn(f, s)
<1> DEFINE n == Len(s)
<1>1. /\ n \in Nat \ {0} /\ Len(t) = n /\ t # << >>
      /\ \A j \in 1..n : t[j].bb = s[j].bb /\ t[j].children = s[j].children
      /\ \A j \in 1..(n - 1) : t[j].filled = s[j].filled
  BY DEF Calls, SamePlaces
<1>2. OpenIn(t) = OpenIn(s) /\ AheadIn(f, t) = AheadIn(f, s)
  <2> HIDE DEF n
  <2> QED BY <1>1 DEF OpenIn, AheadIn, n
<1>3. 1 \in 1..n
  BY <1>1
<1>4. /\ s[1].bb = Entry(f)
      /\ \A j \in 1..n : s[j].children \subseteq Kids(f, s[j].bb)
      /\ \A j \in 1..(n - 1) : s[j].filled
      /\ \A j, k \in 1..n : j < k => StrictlyDominates(f, s[j].bb, s[k].bb)
      /\ \A j \in 1..n : \A d : Dominates(f, d, s[j].bb) => \E i \in 1..j : d = s[i].bb
      /\ OpenIn(s) \cap AheadIn(f, s) = {}
  BY DEF Calls
<1> HIDE DEF n
<1>5. \A j \in 1..n : \A i \in 1..j : i \in 1..n
  BY <1>1
<1>6. /\ t[1].bb = Entry(f)
      /\ \A j \in 1..n : t[j].children \subseteq Kids(f, t[j].bb)
      /\ \A j \in 1..(n - 1) : t[j].filled
      /\ \A j, k \in 1..n : j < k => StrictlyDominates(f, t[j].bb, t[k].bb)
  BY <1>1, <1>3, <1>4, <1>5
<1>7. ASSUME NEW j \in 1..n, NEW d, Dominates(f, d, t[j].bb) PROVE \E i \in 1..j : d = t[i].bb
  <2>1. PICK i \in 1..j : d = s[i].bb
    BY <1>1, <1>4, <1>7
  <2>2. t[i].bb = s[i].bb
    BY <1>1, <1>5
  <2> QED BY <2>1, <2>2
<1> QED BY <1>1, <1>2, <1>4, <1>6, <1>7 DEF Calls

-----------------------------------------------------------------------------
(* A call of a child: its subtree is visited from now on.                  *)
Entered(f, s, t, c) ==
    /\ t \in Seq(FrameType(f)) /\ Len(t) = Len(s) + 1
    /\ \A j \in 1..Len(s) : t[j].bb = s[j].bb /\ t[j].filled = s[j].filled
    /\ \A j \in 1..(Len(s) - 1) : t[j].children = s[j].children
    /\ t[Len(s)].children = s[Len(s)].children \ {c}
    /\ t[Len(s) + 1].bb = c /\ t[Len(s) + 1].children = Kids(f, c)
    /\ \A j \in 1..Len(s) : t[j].k = s[j].k
    /\ t[Len(s) + 1].k = 1 /\ ~t[Len(s) + 1].filled

LEMMA OpenEntered ==
  ASSUME NEW f, FlowGraph(f), NEW s, Calls(f, s), NEW c \in s[Len(s)].children,
         NEW t, Entered(f, s, t, c)
  PROVE  /\ OpenIn(t) = OpenIn(s) \cup {c} /\ AheadIn(f, t) = AheadIn(f, s) \ {c}
         /\ c \in AheadIn(f, s) /\ c \in Kids(f, s[Len(s)].bb)
<1>g. Graph(f)
  BY GraphOf
<1> DEFINE n == Len(s)
           x == s[n].bb
<1>1. /\ n \in Nat \ {0} /\ Len(t) = n + 1
      /\ \A j \in 1..n : t[j].bb = s[j].bb
      /\ \A j \in 1..(n - 1) : t[j].children = s[j].children
      /\ t[n].children = s[n].children \ {c}
      /\ t[n + 1].bb = c /\ t[n + 1].children = Kids(f, c)
      /\ \A j \in 1..n : s[j].children \subseteq Kids(f, s[j].bb)
      /\ \A j, k \in 1..n : j < k => StrictlyDominates(f, s[j].bb, s[k].bb)
      /\ OpenIn(s) \cap AheadIn(f, s) = {}
      /\ c \in s[n].children
  BY DEF Calls, Entered
<1>2. n \in 1..n /\ c \in Kids(f, x)
  BY <1>1
<1>3. c \in AheadIn(f, s)
  <2>1. c \in Reachable(f) /\ Dominates(f, c, c)
    BY <1>g, <1>2, DominatesItself DEF Kids
  <2> QED BY <1>1, <1>2, <2>1 DEF AheadIn
<1>4. OpenIn(t) = OpenIn(s) \cup {c}
  <2>0. OpenIn(t) = {t[j].bb : j \in 1..(n + 1)} /\ OpenIn(s) = {s[j].bb : j \in 1..n}
    BY <1>1 DEF OpenIn
  <2> HIDE DEF n
  <2>1. \A j \in 1..(n + 1) : j \in 1..n \/ j = n + 1
    BY <1>1
  <2>2. n + 1 \in 1..(n + 1) /\ \A j \in 1..n : j \in 1..(n + 1)
    BY <1>1
  <2> QED BY <1>1, <2>0, <2>1, <2>2
<1>5. ASSUME NEW y \in AheadIn(f, t) PROVE y \in AheadIn(f, s) /\ y # c
  <2>1. y \in Reachable(f)
    BY DEF AheadIn
  <2>2. PICK j \in 1..(n + 1) : \E d \in t[j].children : Dominates(f, d, y)
    BY <1>1 DEF AheadIn
  <2>9. PICK d \in t[j].children : Dominates(f, d, y)
    BY <2>2
  <2>3. CASE j \in 1..(n - 1)
    <3>1. d \in s[j].children /\ j \in 1..n /\ j < n
      BY <1>1, <2>9, <2>3
    <3>2. y \in AheadIn(f, s)
      BY <2>1, <2>9, <3>1 DEF AheadIn
    <3>3. ASSUME y = c PROVE FALSE
      <4>1. CASE d = c
        <5>1. c \in Kids(f, s[j].bb)
          BY <1>1, <3>1, <4>1
        <5>2. s[j].bb = x
          BY <1>g, <1>2, <5>1, KidOnce
        <5> QED BY <1>1, <1>2, <3>1, <5>2 DEF StrictlyDominates
      <4>2. CASE d # c
        <5>1. StrictlyDominates(f, d, c)
          BY <2>9, <3>3, <4>2 DEF StrictlyDominates
        <5>2. Dominates(f, d, x)
          BY <1>g, <1>2, <5>1, KidIs
        <5>3. x \in AheadIn(f, s)
          BY <3>1, <5>2 DEF AheadIn, Dominates
        <5>4. x \in OpenIn(s)
          BY <1>2 DEF OpenIn
        <5> QED BY <1>1, <5>3, <5>4
      <4> QED BY <4>1, <4>2
    <3> QED BY <3>2, <3>3
  <2>4. CASE j = n
    <3>1. d \in s[n].children /\ d # c
      BY <1>1, <2>9, <2>4
    <3>2. y \in AheadIn(f, s)
      BY <1>2, <2>1, <2>9, <3>1 DEF AheadIn
    <3>3. ASSUME y = c PROVE FALSE
      <4>1. d \in Kids(f, x) /\ Dominates(f, d, c) /\ Dominates(f, c, c)
        BY <1>1, <1>2, <1>g, <2>1, <2>9, <3>1, <3>3, DominatesItself
      <4>2. IsIdom(Dominance(f), x, c) /\ IsIdom(Dominance(f), x, d)
        BY <1>2, <4>1 DEF Kids
      <4> QED BY <1>g, <3>1, <4>1, <4>2, OneChild
    <3> QED BY <3>2, <3>3
  <2>5. CASE j = n + 1
    <3>1. d \in Kids(f, c)
      BY <1>1, <2>9, <2>5
    <3>2. StrictlyDominates(f, c, y)
      BY <1>g, <2>9, <3>1, KidIs, StrictThrough
    <3>3. y \in AheadIn(f, s)
      BY <1>1, <1>2, <2>1, <3>2 DEF AheadIn, StrictlyDominates
    <3> QED BY <3>2, <3>3 DEF StrictlyDominates
  <2>6. j \in 1..(n - 1) \/ j = n \/ j = n + 1
    <3> HIDE DEF n
    <3> QED BY <1>1
  <2> QED BY <2>3, <2>4, <2>5, <2>6
<1>6. ASSUME NEW y \in AheadIn(f, s), y # c PROVE y \in AheadIn(f, t)
  <2>1. y \in Reachable(f)
    BY DEF AheadIn
  <2>2. PICK j \in 1..n : \E d \in s[j].children : Dominates(f, d, y)
    BY DEF AheadIn
  <2>9. PICK d \in s[j].children : Dominates(f, d, y)
    BY <2>2
  <2>3. CASE d = c
    <3>1. StrictlyDominates(f, c, y)
      BY <1>6, <2>9, <2>3 DEF StrictlyDominates
    <3>2. PICK e \in Kids(f, c) : Dominates(f, e, y)
      BY <1>g, <3>1, KidTowards
    <3>3. n + 1 \in 1..Len(t)
      <4> HIDE DEF n
      <4> QED BY <1>1
    <3> QED BY <1>1, <2>1, <3>2, <3>3 DEF AheadIn
  <2>4. CASE d # c
    <3>1. j \in 1..Len(t) /\ (j \in 1..(n - 1) \/ j = n)
      <4> HIDE DEF n
      <4> QED BY <1>1
    <3>2. d \in t[j].children
      <4>1. CASE j = n
        BY <1>1, <2>9, <2>4, <4>1
      <4>2. CASE j \in 1..(n - 1)
        BY <1>1, <2>9, <4>2
      <4> QED BY <3>1, <4>1, <4>2
    <3> QED BY <2>1, <2>9, <3>1, <3>2 DEF AheadIn
  <2> QED BY <2>3, <2>4
<1> QED BY <1>2, <1>3, <1>4, <1>5, <1>6

LEMMA CallsEntered ==
  ASSUME NEW f, FlowGraph(f), NEW s, Calls(f, s), s[Len(s)].filled,
         NEW c \in s[Len(s)].children, NEW t, Entered(f, s, t, c)
  PROVE  Calls(f, t)
<1>g. Graph(f)
  BY GraphOf
<1> DEFINE n == Len(s)
           x == s[n].bb
<1>1. /\ n \in Nat \ {0} /\ Len(t) = n + 1 /\ t \in Seq(FrameType(f))
      /\ \A j \in 1..n : t[j].bb = s[j].bb /\ t[j].filled = s[j].filled
      /\ \A j \in 1..(n - 1) : t[j].children = s[j].children
      /\ t[n].children = s[n].children \ {c}
      /\ t[n + 1].bb = c /\ t[n + 1].children = Kids(f, c)
      /\ \A j \in 1..n : s[j].children \subseteq Kids(f, s[j].bb)
      /\ \A j, k \in 1..n : j < k => StrictlyDominates(f, s[j].bb, s[k].bb)
      /\ OpenIn(s) \cap AheadIn(f, s) = {}
      /\ \A j \in 1..(n - 1) : s[j].filled
      /\ s[n].filled
  BY DEF Calls, Entered
<1>2. c \in Kids(f, x) /\ OpenIn(t) \cap AheadIn(f, t) = {}
  BY <1>1, OpenEntered
<1>3. t # << >> /\ t[1].bb = Entry(f)
  <2>1. 1 \in 1..n /\ s[1].bb = Entry(f)
    BY <1>1 DEF Calls
  <2>2. Len(t) # 0
    <3> HIDE DEF n
    <3> QED BY <1>1
  <2>3. t # << >>
    BY <2>2
  <2> QED BY <1>1, <2>1, <2>3
<1>4. \A j \in 1..(n + 1) : j \in 1..(n - 1) \/ j = n \/ j = n + 1
  <2> HIDE DEF n
  <2> QED BY <1>1
<1>4a. \A j \in 1..(n - 1) : j \in 1..n
  <2> HIDE DEF n
  <2> QED BY <1>1
<1>5. ASSUME NEW j \in 1..(n + 1) PROVE t[j].children \subseteq Kids(f, t[j].bb)
  <2>1. CASE j \in 1..(n - 1)
    BY <1>1, <1>4a, <2>1
  <2>2. CASE j = n
    <3>1. n \in 1..n
      BY <1>1
    <3> QED BY <1>1, <2>2, <3>1
  <2>3. CASE j = n + 1
    BY <1>1, <2>3
  <2> QED BY <1>4, <2>1, <2>2, <2>3
<1>6. ASSUME NEW j \in 1..n PROVE t[j].filled
  <2>1. CASE j \in 1..(n - 1)
    BY <1>1, <2>1
  <2>2. CASE j = n
    BY <1>1, <2>2
  <2> QED BY <1>1, <2>1, <2>2
<1>7. ASSUME NEW j \in 1..n PROVE StrictlyDominates(f, s[j].bb, c)
  <2>1. StrictlyDominates(f, x, c) /\ Dominates(f, x, c)
    BY <1>g, <1>2, KidIs
  <2>2. n \in 1..n /\ (j = n \/ j < n)
    <3> HIDE DEF n
    <3> QED BY <1>1
  <2>3. CASE j < n
    <3>1. StrictlyDominates(f, s[j].bb, x)
      BY <1>1, <2>2, <2>3
    <3>2. Dominates(f, s[j].bb, x)
      BY <3>1 DEF StrictlyDominates
    <3> QED BY <1>g, <2>1, <3>1, <3>2, StrictThrough
  <2> QED BY <2>1, <2>2, <2>3
<1>8. ASSUME NEW j \in 1..(n + 1), NEW k \in 1..(n + 1), j < k
      PROVE  StrictlyDominates(f, t[j].bb, t[k].bb)
  <2>1. j \in 1..n /\ (k \in 1..n \/ k = n + 1)
    <3> HIDE DEF n
    <3> QED BY <1>1, <1>8
  <2>2. CASE k \in 1..n
    BY <1>1, <1>8, <2>1, <2>2
  <2>3. CASE k = n + 1
    BY <1>1, <1>7, <2>1, <2>3
  <2> QED BY <2>1, <2>2, <2>3
<1>9. ASSUME NEW j \in 1..(n + 1), NEW d, Dominates(f, d, t[j].bb)
      PROVE  \E i \in 1..j : d = t[i].bb
  <2>1. ASSUME NEW a \in 1..n, Dominates(f, d, s[a].bb) PROVE \E i \in 1..a : d = t[i].bb
    <3>1. PICK i \in 1..a : d = s[i].bb
      BY <2>1 DEF Calls
    <3>2. i \in 1..n
      <4> HIDE DEF n
      <4> QED BY <1>1
    <3> QED BY <1>1, <3>1, <3>2
  <2>2. CASE j \in 1..n
    BY <1>1, <1>9, <2>1, <2>2
  <2>3. CASE j = n + 1
    <3>1. Dominates(f, d, c) /\ t[j].bb = c
      BY <1>1, <1>9, <2>3
    <3>2. CASE d = c
      <4>1. j \in 1..j
        BY <1>1, <2>3
      <4> QED BY <3>1, <3>2, <4>1
    <3>3. CASE d # c
      <4>1. Dominates(f, d, x) /\ n \in 1..n
        BY <1>1, <1>2, <1>g, <3>1, <3>3, KidIs DEF StrictlyDominates
      <4>2. PICK i \in 1..n : d = t[i].bb
        BY <2>1, <4>1
      <4>3. i \in 1..j
        <5> HIDE DEF n
        <5> QED BY <1>1, <2>3
      <4> QED BY <4>2, <4>3
    <3> QED BY <3>2, <3>3
  <2>4. j \in 1..n \/ j = n + 1
    <3> HIDE DEF n
    <3> QED BY <1>1
  <2> QED BY <2>2, <2>3, <2>4
<1>10. (n + 1) - 1 = n
  <2> HIDE DEF n
  <2> QED BY <1>1
<1> QED BY <1>1, <1>2, <1>3, <1>5, <1>6, <1>8, <1>9, <1>10 DEF Calls

(* The call on top returns.                                                *)
Returned(s, t) == Len(t) = Len(s) - 1 /\ \A j \in 1..(Len(s) - 1) : t[j] = s[j]

LEMMA CallsReturned ==
  ASSUME NEW f, NEW s, Calls(f, s), s[Len(s)].children = {},
         NEW t \in Seq(FrameType(f)), Returned(s, t)
  PROVE  /\ t # << >> => Calls(f, t)
         /\ OpenIn(t) = OpenIn(s) \ {s[Len(s)].bb} /\ AheadIn(f, t) = AheadIn(f, s)
         /\ Len(s) = 1 => AheadIn(f, s) = {} /\ OpenIn(s) = {Entry(f)} /\ s[Len(s)].bb = Entry(f)
<1> DEFINE n == Len(s)
           x == s[n].bb
<1>1. /\ n \in Nat \ {0} /\ Len(t) = n - 1
      /\ \A j \in 1..(n - 1) : t[j] = s[j]
      /\ s[n].children = {}
      /\ \A j \in 1..n : s[j].children \subseteq Kids(f, s[j].bb)
      /\ \A j, k \in 1..n : j < k => StrictlyDominates(f, s[j].bb, s[k].bb)
      /\ OpenIn(s) \cap AheadIn(f, s) = {}
      /\ \A j \in 1..(n - 1) : s[j].filled
      /\ s[1].bb = Entry(f)
  BY DEF Calls, Returned
<1>2. OpenIn(t) = OpenIn(s) \ {x}
  <2>0. OpenIn(t) = {t[j].bb : j \in 1..(n - 1)} /\ OpenIn(s) = {s[j].bb : j \in 1..n}
    BY <1>1 DEF OpenIn
  <2> HIDE DEF n
  <2>1. \A j \in 1..n : j \in 1..(n - 1) \/ j = n
    BY <1>1
  <2>2. n \in 1..n /\ \A j \in 1..(n - 1) : j \in 1..n /\ j < n
    BY <1>1
  <2>3. \A j \in 1..(n - 1) : t[j].bb = s[j].bb /\ s[j].bb # x
    BY <1>1, <2>2 DEF StrictlyDominates
  <2> QED BY <1>1, <2>0, <2>1, <2>2, <2>3
<1>3. AheadIn(f, t) = AheadIn(f, s)
  <2>0. /\ AheadIn(f, t) = {b \in Reachable(f) : \E j \in 1..(n - 1) : \E c \in t[j].children : Dominates(f, c, b)}
        /\ AheadIn(f, s) = {b \in Reachable(f) : \E j \in 1..n : \E c \in s[j].children : Dominates(f, c, b)}
    BY <1>1 DEF AheadIn
  <2> HIDE DEF n
  <2>1. \A j \in 1..n : j \in 1..(n - 1) \/ j = n
    BY <1>1
  <2>2. \A j \in 1..(n - 1) : j \in 1..n
    BY <1>1
  <2> QED BY <1>1, <2>0, <2>1, <2>2
<1>4. ASSUME t # << >> PROVE Calls(f, t)
  <2>0. n - 1 \in Nat \ {0}
    <3>1. Len(t) \in Nat /\ Len(t) # 0
      BY <1>4
    <3> HIDE DEF n
    <3> QED BY <1>1, <3>1
  <2>1. OpenIn(t) \cap AheadIn(f, t) = {}
    BY <1>1, <1>2, <1>3
  <2>2. \A d : \A j \in 1..n : Dominates(f, d, s[j].bb) => \E i \in 1..j : d = s[i].bb
    BY DEF Calls
  <2> HIDE DEF n
  <2>3. \A j \in 1..(n - 1) : j \in 1..n /\ \A i \in 1..j : i \in 1..(n - 1)
    BY <1>1
  <2>4. ASSUME NEW j \in 1..(n - 1), NEW d, Dominates(f, d, t[j].bb) PROVE \E i \in 1..j : d = t[i].bb
    <3>1. PICK i \in 1..j : d = s[i].bb
      BY <1>1, <2>2, <2>3, <2>4
    <3> QED BY <1>1, <2>3, <3>1
  <2>5. 1 \in 1..(n - 1) /\ \A j \in 1..((n - 1) - 1) : j \in 1..(n - 1)
    <3>1. n \in Nat
      BY <1>1
    <3> QED BY <2>0, <3>1
  <2>6. t[1].bb = Entry(f)
    BY <1>1, <2>5
  <2>7. \A j \in 1..(n - 1) : t[j].children \subseteq Kids(f, t[j].bb)
    BY <1>1, <2>3
  <2>8. \A j \in 1..((n - 1) - 1) : t[j].filled
    BY <1>1, <2>5
  <2>9. \A j, k \in 1..(n - 1) : j < k => StrictlyDominates(f, t[j].bb, t[k].bb)
    BY <1>1, <2>3
  <2> QED BY <1>1, <1>4, <2>1, <2>4, <2>6, <2>7, <2>8, <2>9 DEF Calls
<1>5. ASSUME n = 1 PROVE AheadIn(f, s) = {} /\ OpenIn(s) = {Entry(f)} /\ x = Entry(f)
  <2>1. \A j \in 1..n : j = 1
    BY <1>5
  <2>2. AheadIn(f, s) = {}
    BY <1>1, <1>5, <2>1 DEF AheadIn
  <2>3. OpenIn(s) = {Entry(f)}
    BY <1>1, <1>5, <2>1 DEF OpenIn
  <2> QED BY <1>1, <1>5, <2>2, <2>3
<1> QED BY <1>2, <1>3, <1>4, <1>5

-----------------------------------------------------------------------------
(* What rename has passed, and the blocks that have told their successors. *)
PassedIn(past, s, b, x) == b \in past \/ \E j \in 1..Len(s) : s[j].bb = b /\ x < s[j].k

FilledIn(past, s) == past \cup {b \in OpenIn(s) : \E j \in 1..Len(s) : s[j].bb = b /\ s[j].filled}

LEMMA FrameFields ==
  ASSUME NEW f, NEW x \in FrameType(f)
  PROVE  x.bb \in Reachable(f) /\ x.k \in Nat \ {0} /\ x.children \subseteq Block
  BY DEF FrameType

LEMMA FramesOf ==
  ASSUME NEW f, NEW s \in Seq(FrameType(f)), s # << >>
  PROVE  /\ Len(s) \in Nat \ {0} /\ Len(s) \in 1..Len(s)
         /\ \A j \in 1..Len(s) : s[j] \in FrameType(f)
<1> DEFINE T == FrameType(f)
<1>1. s \in Seq(T)
  OBVIOUS
<1> HIDE DEF T
<1>2. Len(s) \in Nat \ {0} /\ \A j \in 1..Len(s) : s[j] \in T
  BY <1>1
<1> QED BY <1>2 DEF T

(* The call on top changes from x to y.                                    *)
TopChanged(f, s, t, y) ==
    /\ t \in Seq(FrameType(f)) /\ Len(t) = Len(s) /\ t[Len(s)] = y
    /\ \A j \in 1..(Len(s) - 1) : t[j] = s[j]

LEMMA ChangeTop ==
  ASSUME NEW f, NEW s \in Seq(FrameType(f)), s # << >>, NEW y \in FrameType(f),
         NEW t, t = [s EXCEPT ![Len(s)] = y]
  PROVE  TopChanged(f, s, t, y)
<1> DEFINE T == FrameType(f)
           n == Len(s)
<1>1. s \in Seq(T) /\ n \in Nat \ {0} /\ n \in 1..n /\ \A j \in 1..(n - 1) : j \in 1..n /\ j # n
  BY FramesOf
<1> HIDE DEF T
<1>2. t \in Seq(T) /\ Len(t) = n
  BY <1>1 DEF T
<1> HIDE DEF n
<1>3. t[n] = y /\ \A j \in 1..(n - 1) : t[j] = s[j]
  BY <1>1 DEF n
<1> QED BY <1>2, <1>3 DEF T, n, TopChanged

LEMMA TopPlaces ==
  ASSUME NEW f, NEW s \in Seq(FrameType(f)), s # << >>, NEW y, NEW t, TopChanged(f, s, t, y),
         y.bb = s[Len(s)].bb, y.children = s[Len(s)].children
  PROVE  t \in Seq(FrameType(f)) /\ SamePlaces(s, t)
<1> DEFINE n == Len(s)
<1>1. n \in Nat \ {0}
  BY FramesOf
<1>2. t[n] = y /\ \A j \in 1..(n - 1) : t[j] = s[j]
  BY DEF TopChanged
<1>3. \A j \in 1..n : j = n \/ j \in 1..(n - 1)
  <2> HIDE DEF n
  <2> QED BY <1>1
<1> QED BY <1>2, <1>3 DEF TopChanged, SamePlaces

LEMMA AdvancedTop ==
  ASSUME NEW f, NEW s \in Seq(FrameType(f)), s # << >>, NEW t,
         t = [s EXCEPT ![Len(s)].k = @ + 1]
  PROVE  \E y \in FrameType(f) :
           /\ TopChanged(f, s, t, y)
           /\ y.bb = s[Len(s)].bb /\ y.k = s[Len(s)].k + 1
           /\ y.children = s[Len(s)].children /\ y.filled = s[Len(s)].filled
<1> DEFINE x == s[Len(s)]
           z == x.k + 1
           y == [x EXCEPT !.k = z]
<1>1. x \in FrameType(f)
  BY FramesOf
<1>2. /\ y \in FrameType(f) /\ y.bb = x.bb /\ y.k = z
      /\ y.children = x.children /\ y.filled = x.filled
  <2> HIDE DEF x
  <2>1. z \in Nat \ {0}
    BY <1>1, FrameFields
  <2> DEFINE N == Nat \ {0}
             R == Reachable(f)
             P == SUBSET Block
  <2>2. x \in [bb : R, k : N, children : P, filled : BOOLEAN] /\ z \in N
    BY <1>1, <2>1 DEF FrameType
  <2> HIDE DEF z, N, R, P
  <2>3. /\ y \in [bb : R, k : N, children : P, filled : BOOLEAN]
        /\ y.bb = x.bb /\ y.k = z /\ y.children = x.children /\ y.filled = x.filled
    BY <2>2
  <2> QED BY <2>3 DEF FrameType, N, R, P
<1>3. t = [s EXCEPT ![Len(s)] = y]
  OBVIOUS
<1> HIDE DEF y
<1>4. TopChanged(f, s, t, y)
  BY <1>2, <1>3, ChangeTop
<1> QED BY <1>2, <1>4

LEMMA FilledTop ==
  ASSUME NEW f, NEW s \in Seq(FrameType(f)), s # << >>, NEW t,
         t = [s EXCEPT ![Len(s)].filled = TRUE]
  PROVE  \E y \in FrameType(f) :
           /\ TopChanged(f, s, t, y)
           /\ y.bb = s[Len(s)].bb /\ y.k = s[Len(s)].k
           /\ y.children = s[Len(s)].children /\ y.filled
<1> DEFINE x == s[Len(s)]
           y == [x EXCEPT !.filled = TRUE]
<1>1. x \in FrameType(f)
  BY FramesOf
<1>2. /\ y \in FrameType(f) /\ y.bb = x.bb /\ y.k = x.k
      /\ y.children = x.children /\ y.filled
  <2> HIDE DEF x
  <2> QED BY <1>1 DEF FrameType
<1>3. t = [s EXCEPT ![Len(s)] = y]
  OBVIOUS
<1> HIDE DEF y
<1>4. TopChanged(f, s, t, y)
  BY <1>2, <1>3, ChangeTop
<1> QED BY <1>2, <1>4

(* What a change of the call on top makes of the two.                      *)
LEMMA PassedByTop ==
  ASSUME NEW f, NEW s \in Seq(FrameType(f)), s # << >>, NEW y \in FrameType(f), NEW t,
         TopChanged(f, s, t, y), y.bb = s[Len(s)].bb, NEW past, NEW b, NEW x \in Nat
  PROVE  /\ y.k = s[Len(s)].k =>
              (PassedIn(past, t, b, x) <=> PassedIn(past, s, b, x))
         /\ y.k = s[Len(s)].k + 1 =>
              (PassedIn(past, t, b, x)
                 <=> PassedIn(past, s, b, x) \/ (b = s[Len(s)].bb /\ x = s[Len(s)].k))
<1> DEFINE n == Len(s)
           k == s[n].k
           l == y.k
<1>1. n \in Nat \ {0} /\ n \in 1..n /\ s[n] \in FrameType(f)
  BY FramesOf
<1>2. k \in Nat /\ l \in Nat
  <2> HIDE DEF n
  <2> QED BY <1>1, FrameFields
<1>3. Len(t) = n /\ t[n] = y /\ \A j \in 1..(n - 1) : t[j] = s[j]
  BY DEF TopChanged
<1>4. \A j \in 1..n : j = n \/ j \in 1..(n - 1)
  <2> HIDE DEF n
  <2> QED BY <1>1
<1>4a. \A j \in 1..(n - 1) : j \in 1..n
  <2> HIDE DEF n
  <2> QED BY <1>1
<1>5. PassedIn(past, t, b, x) <=>
        b \in past \/ (b = s[n].bb /\ x < l) \/ \E j \in 1..(n - 1) : s[j].bb = b /\ x < s[j].k
  <2> HIDE DEF n
  <2> QED BY <1>1, <1>3, <1>4, <1>4a DEF PassedIn, n
<1>6. PassedIn(past, s, b, x) <=>
        b \in past \/ (b = s[n].bb /\ x < k) \/ \E j \in 1..(n - 1) : s[j].bb = b /\ x < s[j].k
  <2> HIDE DEF n
  <2> QED BY <1>1, <1>3, <1>4, <1>4a DEF PassedIn, n
<1> HIDE DEF k, l
<1>7. x \in Nat /\ (l = k + 1 => (x < l <=> x < k \/ x = k))
  BY <1>2
<1> QED BY <1>5, <1>6, <1>7 DEF k, l

LEMMA FilledByTop ==
  ASSUME NEW f, NEW s \in Seq(FrameType(f)), s # << >>, NEW y \in FrameType(f), NEW t,
         TopChanged(f, s, t, y), y.bb = s[Len(s)].bb, NEW past
  PROVE  /\ y.filled = s[Len(s)].filled => FilledIn(past, t) = FilledIn(past, s)
         /\ y.filled => FilledIn(past, t) = FilledIn(past, s) \cup {s[Len(s)].bb}
<1> DEFINE n == Len(s)
           Rest == {b \in OpenIn(s) : \E j \in 1..(n - 1) : s[j].bb = b /\ s[j].filled}
<1>1. n \in Nat \ {0} /\ n \in 1..n
  BY FramesOf
<1>3. Len(t) = n /\ t[n] = y /\ \A j \in 1..(n - 1) : t[j] = s[j]
  BY DEF TopChanged
<1>4. \A j \in 1..n : j = n \/ j \in 1..(n - 1)
  <2> HIDE DEF n
  <2> QED BY <1>1
<1>4a. \A j \in 1..(n - 1) : j \in 1..n
  <2> HIDE DEF n
  <2> QED BY <1>1
<1>5. OpenIn(t) = OpenIn(s)
  <2>1. \A j \in 1..n : t[j].bb = s[j].bb
    BY <1>3, <1>4
  <2> QED BY <1>3, <2>1 DEF OpenIn
<1>6. s[n].bb \in OpenIn(s)
  BY <1>1 DEF OpenIn
<1>7. FilledIn(past, t) = past \cup Rest \cup {b \in {s[n].bb} : y.filled}
  <2> HIDE DEF n
  <2> QED BY <1>1, <1>3, <1>4, <1>4a, <1>5, <1>6 DEF FilledIn, n
<1>8. FilledIn(past, s) = past \cup Rest \cup {b \in {s[n].bb} : s[n].filled}
  <2> HIDE DEF n
  <2> QED BY <1>1, <1>4, <1>4a, <1>6 DEF FilledIn, n
<1> QED BY <1>7, <1>8

-----------------------------------------------------------------------------
Longer(u, w, t) == t = Append(u, w)

AppendOf(S, u, w, t) ==
    /\ t \in Seq(S) /\ Len(t) = Len(u) + 1 /\ t[Len(u) + 1] = w
    /\ \A j \in 1..Len(u) : t[j] = u[j]

LEMMA AppendIs ==
  ASSUME NEW S, NEW u \in Seq(S), NEW w \in S, NEW t, Longer(u, w, t)
  PROVE  AppendOf(S, u, w, t)
<1>1. t = Append(u, w)
  BY DEF Longer
<1>2. /\ t \in Seq(S) /\ Len(t) = Len(u) + 1 /\ t[Len(u) + 1] = w
      /\ \A j \in 1..Len(u) : t[j] = u[j]
  BY <1>1
<1> QED BY <1>2 DEF AppendOf

Shorter(s, t) == t = SubSeq(s, 1, Len(s) - 1)

PrefixOf(S, s, t) ==
    t \in Seq(S) /\ Len(t) = Len(s) - 1 /\ \A j \in 1..(Len(s) - 1) : t[j] = s[j]

LEMMA ShortenIs ==
  ASSUME NEW S, NEW s \in Seq(S), s # << >>, NEW t, Shorter(s, t)
  PROVE  PrefixOf(S, s, t)
<1>1. Len(s) \in Nat \ {0}
  OBVIOUS
<1> DEFINE n == Len(s) - 1
<1>2. n \in Nat /\ \A j \in 1..n : j \in 1..Len(s)
  BY <1>1
<1>3. t = [j \in 1..n |-> s[j]]
  BY <1>1 DEF Shorter
<1> HIDE DEF n
<1>4. t \in Seq(S) /\ Len(t) = n /\ \A j \in 1..n : t[j] = s[j]
  BY <1>2, <1>3
<1> QED BY <1>4 DEF n, PrefixOf

LEMMA EnteredTop ==
  ASSUME NEW f, FlowGraph(f), NEW s \in Seq(FrameType(f)), s # << >>, NEW c \in Reachable(f),
         NEW t, t = Append([s EXCEPT ![Len(s)].children = @ \ {c}], CallOf(f, c))
  PROVE  Entered(f, s, t, c)
<1> DEFINE T == FrameType(f)
           n == Len(s)
           x == s[n]
           z == x.children \ {c}
           y == [x EXCEPT !.children = z]
           u == [s EXCEPT ![n] = y]
           w == CallOf(f, c)
<1>1. n \in Nat \ {0} /\ x \in T
  BY FramesOf
<1>2. y \in T /\ y.bb = x.bb /\ y.k = x.k /\ y.filled = x.filled /\ y.children = z
  <2>1. z \in SUBSET Block
    BY <1>1, FrameFields
  <2> DEFINE N == Nat \ {0}
             R == Reachable(f)
             P == SUBSET Block
  <2>2. x \in [bb : R, k : N, children : P, filled : BOOLEAN] /\ z \in P
    BY <1>1, <2>1 DEF FrameType
  <2> HIDE DEF x, z, N, R, P
  <2>3. /\ y \in [bb : R, k : N, children : P, filled : BOOLEAN]
        /\ y.bb = x.bb /\ y.k = x.k /\ y.filled = x.filled /\ y.children = z
    BY <2>2
  <2> QED BY <2>3 DEF FrameType, N, R, P
<1>3. u = [s EXCEPT ![n].children = @ \ {c}]
  OBVIOUS
<1>4. w \in T /\ w.bb = c /\ w.k = 1 /\ w.children = Kids(f, c) /\ ~w.filled
  <2> HIDE DEF w
  <2> QED BY CallFrame DEF w
<1> HIDE DEF y
<1>5. TopChanged(f, s, u, y)
  <2> HIDE DEF u
  <2> QED BY <1>2, ChangeTop DEF u
<1> HIDE DEF u, w
<1>6. t = Append(u, w)
  BY <1>3 DEF w
<1>7. /\ u \in Seq(T) /\ Len(u) = n /\ u[n] = y
      /\ \A j \in 1..(n - 1) : u[j] = s[j]
  BY <1>5 DEF TopChanged
<1> HIDE DEF T
<1>8. t \in Seq(T) /\ Len(t) = n + 1 /\ t[n + 1] = w /\ \A j \in 1..n : t[j] = u[j]
  <2>0. Longer(u, w, t)
    BY <1>6 DEF Longer
  <2>1. AppendOf(T, u, w, t)
    BY <1>4, <1>7, <2>0, AppendIs
  <2> HIDE DEF n
  <2> QED BY <1>7, <2>1 DEF AppendOf
<1>9. \A j \in 1..n : (j = n \/ j \in 1..(n - 1)) /\ (j \in 1..(n - 1) => j # n)
  <2> HIDE DEF n
  <2> QED BY <1>1
<1>10. \A j \in 1..n : u[j].bb = s[j].bb /\ u[j].filled = s[j].filled /\ u[j].k = s[j].k
  BY <1>2, <1>7, <1>9
<1>11. n \in 1..n /\ \A j \in 1..(n - 1) : j \in 1..n
  <2> HIDE DEF n
  <2> QED BY <1>1
<1> QED BY <1>2, <1>4, <1>7, <1>8, <1>10, <1>11 DEF Entered, T

LEMMA PassedByChild ==
  ASSUME NEW f, NEW s \in Seq(FrameType(f)), s # << >>, NEW c, NEW t, Entered(f, s, t, c),
         NEW past
  PROVE  /\ \A b : \A x \in Nat \ {0} : PassedIn(past, t, b, x) <=> PassedIn(past, s, b, x)
         /\ FilledIn(past, t) = FilledIn(past, s)
<1> DEFINE n == Len(s)
<1>1. n \in Nat \ {0}
  BY FramesOf
<1>2. /\ Len(t) = n + 1
      /\ \A j \in 1..n : t[j].bb = s[j].bb /\ t[j].filled = s[j].filled /\ t[j].k = s[j].k
      /\ t[n + 1].k = 1 /\ ~t[n + 1].filled
  BY DEF Entered
<1>3. /\ \A j \in 1..(n + 1) : j \in 1..n \/ j = n + 1
      /\ \A j \in 1..n : j \in 1..(n + 1)
  <2> HIDE DEF n
  <2> QED BY <1>1
<1> HIDE DEF n
<1>4. ASSUME NEW b, NEW x \in Nat \ {0} PROVE PassedIn(past, t, b, x) <=> PassedIn(past, s, b, x)
  <2>1. ~(x < 1)
    OBVIOUS
  <2> QED BY <1>2, <1>3, <2>1 DEF PassedIn, n
<1>5. FilledIn(past, t) = FilledIn(past, s)
  BY <1>2, <1>3 DEF FilledIn, OpenIn, n
<1> QED BY <1>4, <1>5

CallsLeft(f, s, t) ==
    /\ t \in Seq(FrameType(f)) /\ Returned(s, t)
    /\ Len(s) = 1 => t = << >>
    /\ Len(s) # 1 => t # << >>

LEMMA ReturnedTop ==
  ASSUME NEW f, NEW s \in Seq(FrameType(f)), s # << >>, NEW t, Shorter(s, t)
  PROVE  CallsLeft(f, s, t)
<1> DEFINE T == FrameType(f)
           n == Len(s)
<1>1. s \in Seq(T) /\ n \in Nat \ {0}
  BY FramesOf
<1> HIDE DEF T
<1>2. t \in Seq(T) /\ Len(t) = n - 1 /\ \A j \in 1..(n - 1) : t[j] = s[j]
  <2>1. PrefixOf(T, s, t)
    BY <1>1, ShortenIs
  <2> QED BY <2>1 DEF PrefixOf
<1>3. n = 1 => t = << >>
  BY <1>1, <1>2
<1>4. n # 1 => t # << >>
  <2>1. n # 1 => Len(t) # 0
    <3> HIDE DEF n
    <3> QED BY <1>1, <1>2
  <2> QED BY <2>1
<1> QED BY <1>2, <1>3, <1>4 DEF CallsLeft, Returned, T

LEMMA PassedByReturn ==
  ASSUME NEW f, NEW s, Calls(f, s), NEW t, Returned(s, t), s[Len(s)].filled, NEW past
  PROVE  /\ \A b, x : PassedIn(past \cup {s[Len(s)].bb}, t, b, x)
                        <=> PassedIn(past, s, b, x) \/ b = s[Len(s)].bb
         /\ FilledIn(past \cup {s[Len(s)].bb}, t) = FilledIn(past, s)
<1> DEFINE n == Len(s)
<1>1. n \in Nat \ {0} /\ s[n].filled
  BY DEF Calls
<1>2. Len(t) = n - 1 /\ \A j \in 1..(n - 1) : t[j] = s[j]
  BY DEF Returned
<1>3. /\ \A j \in 1..n : j \in 1..(n - 1) \/ j = n
      /\ \A j \in 1..(n - 1) : j \in 1..n
      /\ n \in 1..n
  <2> HIDE DEF n
  <2> QED BY <1>1
<1> HIDE DEF n
<1>4. ASSUME NEW b, NEW x
      PROVE  PassedIn(past \cup {s[n].bb}, t, b, x) <=> PassedIn(past, s, b, x) \/ b = s[n].bb
  BY <1>2, <1>3 DEF PassedIn, n
<1>5. FilledIn(past \cup {s[n].bb}, t) = FilledIn(past, s)
  BY <1>1, <1>2, <1>3 DEF FilledIn, OpenIn, n
<1> QED BY <1>4, <1>5 DEF n

LEMMA PassedAtStart ==
  ASSUME NEW f, FlowGraph(f), NEW x, x = CallOf(f, Entry(f)), NEW s, s = <<x>>
  PROVE  /\ \A b : \A k \in Nat \ {0} : ~PassedIn({}, s, b, k)
         /\ FilledIn({}, s) = {}
<1>1. Graph(f)
  BY GraphOf
<1> DEFINE e == Entry(f)
<1>2. e \in Reachable(f)
  BY <1>1, EntryReached
<1>3. x.k = 1 /\ ~x.filled
  <2> HIDE DEF e
  <2> QED BY <1>2, CallFrame DEF e
<1>4. Len(s) = 1 /\ s[1] = x
  OBVIOUS
<1>5. \A j \in 1..Len(s) : s[j].k = 1 /\ ~s[j].filled
  BY <1>3, <1>4
<1> QED BY <1>5 DEF PassedIn, FilledIn

-----------------------------------------------------------------------------
(* The inductive invariant of the pass.                                    *)
PastIn(f, ph, s) ==
    CASE ph = "rename" -> Reachable(f) \ (OpenIn(s) \cup AheadIn(f, s))
      [] ph \in {"ready", "run"} -> Reachable(f)
      [] OTHER -> {}

Past == PastIn(fn, phase, frames)
Passed(b, m) == PassedIn(Past, frames, b, PhisIn(b) + m)
Filled == FilledIn(Past, frames)

GraphInv ==
    /\ \E f \in Functions : fn = f.cfg /\ body = f.body
    /\ df = [b \in Block |-> IF b \in Reachable(fn) THEN FrontierOf(fn, Dominance(fn), b) ELSE {}]
    /\ tree = [b \in Block |-> Kids(fn, b)]

SetsInv ==
    /\ defset \in [Var -> SUBSET Block] /\ active \subseteq Var /\ var \in Var
    /\ queue \subseteq Block /\ frontiers \subseteq Block

PhaseInv ==
    /\ phase \in {"collect", "pick", "place", "rename", "ready", "run"}
    /\ stk \in [Var -> Seq(Finals)]
    /\ phase \in {"collect", "pick", "place"} =>
         /\ repl = << >> /\ stk = [v \in Var |-> << >>]
         /\ \A b \in Block : \A k \in 1..Len(insts[b]) :
              insts[b][k].op = "phi" => insts[b][k].args = << >>

InBounds(s, code) ==
    \A j \in 1..Len(s) :
      /\ s[j].k <= Len(code[s[j].bb]) + 1
      /\ s[j].filled => s[j].k = Len(code[s[j].bb]) + 1

CallsInv ==
    /\ phase # "rename" => frames = << >>
    /\ phase = "rename" => Calls(fn, frames)
    /\ InBounds(frames, insts)

ShapeOf(b) == IF b \in Past THEN Bare(insts[b], PhisIn(b))
                            ELSE Arranged(insts[b], body[b], repl, PhisIn(b))

ShapeInv == insts \in [Block -> Seq(Item)] /\ \A b \in Block : ShapeOf(b)

IsReplaced(l) ==
    \E b \in Reachable(fn) : \E m \in 1..Len(body[b]) :
        l = Load(b, m) /\ body[b][m].op = "load" /\ Passed(b, m)

ReplInv == FinalValues(repl) /\ \A l : l \in DOMAIN repl <=> IsReplaced(l)

ArgsFrom(f, filled, b, args) ==
    /\ \A a \in 1..Len(args) : args[a][2] \in filled /\ Step(f, args[a][2], b)
    /\ \A a, c \in 1..Len(args) : args[a][2] = args[c][2] => a = c

ArgsInv ==
    \A b \in Reachable(fn) : \A k \in 1..Len(insts[b]) :
        insts[b][k].op = "phi" => ArgsFrom(fn, Filled, b, insts[b][k].args)

PassInv == GraphInv /\ SetsInv /\ PhaseInv /\ CallsInv /\ ShapeInv /\ ReplInv /\ ArgsInv

-----------------------------------------------------------------------------
LEMMA ReachableBlocks ==
  ASSUME NEW f, FlowGraph(f)
  PROVE  Graph(f) /\ Reachable(f) \subseteq Members(f.blocks) /\ Members(f.blocks) \subseteq Block
<1>1. Graph(f)
  BY GraphOf
<1> DEFINE cut == {}
<1>2. ReachAvoiding(f, cut) \subseteq Members(f.blocks) \ cut
  <2> HIDE DEF cut
  <2> QED BY <1>1, ReachByWalk
<1>3. Reachable(f) \subseteq Members(f.blocks)
  BY <1>2 DEF Reachable
<1>4. Members(f.blocks) \subseteq Block
  BY MembersOfSeq DEF FlowGraph
<1> QED BY <1>1, <1>3, <1>4

LEMMA GraphFacts ==
  ASSUME GraphInv
  PROVE  /\ FlowGraph(fn) /\ Graph(fn) /\ body \in [Block -> Seq(Entering)]
         /\ Reachable(fn) \subseteq Block /\ Reachable(fn) \subseteq Blocks /\ Blocks \subseteq Block
         /\ \A b \in Block : df[b] \subseteq Reachable(fn) /\ tree[b] = Kids(fn, b)
<1>1. PICK f \in Functions : fn = f.cfg /\ body = f.body
  BY DEF GraphInv
<1>2. FlowGraph(fn) /\ body \in [Block -> Seq(Entering)]
  BY <1>1, FunctionsAssumption DEF Entering
<1>3. Graph(fn) /\ Reachable(fn) \subseteq Members(fn.blocks) /\ Members(fn.blocks) \subseteq Block
  BY <1>2, ReachableBlocks
<1>4. \A b \in Block : df[b] \subseteq Reachable(fn)
  BY DEF GraphInv, FrontierOf
<1>5. \A b \in Block : tree[b] = Kids(fn, b)
  BY DEF GraphInv
<1> QED BY <1>2, <1>3, <1>4, <1>5 DEF Blocks

LEMMA ShapeFacts ==
  ASSUME GraphInv, ShapeInv, NEW b \in Block
  PROVE  /\ insts[b] \in Seq(Item) /\ Len(insts[b]) \in Nat
         /\ PhiHead(insts[b], PhisIn(b)) /\ PhisIn(b) \in Nat /\ PhisIn(b) <= Len(insts[b])
         /\ body[b] \in Seq(Entering) /\ Len(body[b]) \in Nat
         /\ b \notin Past => /\ Arranged(insts[b], body[b], repl, PhisIn(b))
                             /\ Len(insts[b]) = PhisIn(b) + Len(body[b])
<1>1. insts[b] \in Seq(Item) /\ Len(insts[b]) \in Nat
  BY DEF ShapeInv
<1>2. body[b] \in Seq(Entering) /\ Len(body[b]) \in Nat
  BY GraphFacts
<1>3. PhiHead(insts[b], PhisIn(b))
  BY DEF ShapeInv, ShapeOf, Bare, Arranged
<1>4. PhisIn(b) \in Nat /\ PhisIn(b) <= Len(insts[b])
  BY <1>1, <1>3, HeadCounts
<1>5. b \notin Past => Arranged(insts[b], body[b], repl, PhisIn(b))
  BY DEF ShapeInv, ShapeOf
<1> QED BY <1>1, <1>2, <1>3, <1>4, <1>5 DEF Arranged

(* The call on top.                                                        *)
LEMMA OnTop ==
  ASSUME GraphInv, CallsInv, ShapeInv, phase = "rename"
  PROVE  /\ Calls(fn, frames) /\ frames \in Seq(FrameType(fn)) /\ frames # << >>
         /\ Len(frames) \in Nat \ {0} /\ Len(frames) \in 1..Len(frames)
         /\ Frame \in FrameType(fn) /\ BB \in Reachable(fn) /\ BB \in Block
         /\ Frame.k \in Nat \ {0} /\ Frame.k <= Len(insts[BB]) + 1
         /\ Frame.filled => Frame.k = Len(insts[BB]) + 1
         /\ BB \in OpenIn(frames) /\ BB \notin Past
         /\ \A j \in 1..Len(frames) : frames[j].bb = BB => j = Len(frames)
<1>1. Calls(fn, frames)
  BY DEF CallsInv
<1>2. frames \in Seq(FrameType(fn)) /\ frames # << >>
  BY <1>1 DEF Calls
<1> DEFINE n == Len(frames)
<1>3. n \in Nat \ {0} /\ n \in 1..n /\ Frame \in FrameType(fn)
  BY <1>2, FramesOf DEF Frame
<1>4. BB \in Reachable(fn) /\ BB \in Block /\ Frame.k \in Nat \ {0}
  BY <1>3, FrameFields, GraphFacts DEF BB
<1>5. Frame.k <= Len(insts[BB]) + 1 /\ (Frame.filled => Frame.k = Len(insts[BB]) + 1)
  BY <1>3 DEF CallsInv, InBounds, Frame, BB
<1>6. BB \in OpenIn(frames)
  BY <1>3 DEF OpenIn, Frame, BB
<1>7. BB \notin Past
  BY <1>6 DEF Past, PastIn
<1>8. ASSUME NEW j \in 1..n, frames[j].bb = BB PROVE j = n
  <2>1. j < n => StrictlyDominates(fn, frames[j].bb, BB)
    BY <1>1, <1>3 DEF Calls, Frame, BB
  <2>2. j < n \/ j = n
    <3> HIDE DEF n
    <3> QED BY <1>3
  <2> QED BY <1>8, <2>1, <2>2 DEF StrictlyDominates
<1> QED BY <1>1, <1>2, <1>3, <1>4, <1>5, <1>6, <1>7, <1>8

(* A step that keeps the skeleton of every block keeps the phis' places.   *)
LEMMA SkeletonStep ==
  ASSUME GraphInv, ShapeInv, \A b \in Block : SameSkeleton(insts[b], insts'[b])
  PROVE  \A b \in Block : PhisIn(b)' = PhisIn(b) /\ Len(insts'[b]) = Len(insts[b])
<1> SUFFICES ASSUME NEW b \in Block
             PROVE  PhisIn(b)' = PhisIn(b) /\ Len(insts'[b]) = Len(insts[b])
  OBVIOUS
<1> DEFINE c == insts[b]
           e == insts'[b]
           n == PhisIn(b)
<1>1. Len(c) \in Nat /\ PhiHead(c, n) /\ SameSkeleton(c, e)
  BY ShapeFacts
<1>2. PhisIn(b)' = PhiCount(e)
  BY DEF PhisIn, PhiCount
<1> HIDE DEF c, e, n
<1>3. PhiHead(e, n) /\ Len(e) = Len(c)
  BY <1>1, SkeletonHead DEF SameSkeleton
<1>4. PhiCount(e) = n
  BY <1>1, <1>3, HeadCounts
<1> QED BY <1>2, <1>3, <1>4 DEF c, e, n

LEMMA InBoundsSame ==
  ASSUME NEW s \in Seq(FrameType(fn)), NEW c, NEW e, \A j \in 1..Len(s) : Len(e[s[j].bb]) = Len(c[s[j].bb]),
         InBounds(s, c)
  PROVE  InBounds(s, e)
  BY DEF InBounds

LEMMA InBoundsTop ==
  ASSUME NEW f, NEW s \in Seq(FrameType(f)), s # << >>, NEW c, InBounds(s, c), NEW y, NEW t,
         TopChanged(f, s, t, y), y.k <= Len(c[y.bb]) + 1,
         y.filled => y.k = Len(c[y.bb]) + 1
  PROVE  InBounds(t, c)
<1> DEFINE n == Len(s)
<1>1. n \in Nat \ {0}
  BY FramesOf
<1>2. Len(t) = n /\ t[n] = y /\ \A j \in 1..(n - 1) : t[j] = s[j]
  BY DEF TopChanged
<1>3. \A j \in 1..n : j = n \/ j \in 1..(n - 1)
  <2> HIDE DEF n
  <2> QED BY <1>1
<1> QED BY <1>2, <1>3 DEF InBounds

(* What a step of rename at an instruction leaves as it was.               *)
LEMMA AdvanceStep ==
  ASSUME PassInv, InBody, Advance, UNCHANGED <<graph, phase, placing>>,
         \A b \in Block : SameSkeleton(insts[b], insts'[b])
  PROVE  /\ GraphInv' /\ SetsInv' /\ CallsInv' /\ Past' = Past /\ Filled' = Filled
         /\ \A b \in Block : PhisIn(b)' = PhisIn(b) /\ Len(insts'[b]) = Len(insts[b])
         /\ \A b \in Block : \A m \in Nat :
              Passed(b, m)' <=> Passed(b, m) \/ (b = BB /\ PhisIn(BB) + m = Frame.k)
<1>1. GraphInv /\ SetsInv /\ CallsInv /\ ShapeInv /\ phase = "rename" /\ phase' = "rename"
      /\ Frame.k <= Len(insts[BB])
  BY DEF PassInv, InBody
<1>2. UNCHANGED <<fn, body, df, tree, defset, active, var, queue, frontiers>>
  BY DEF graph, placing
<1>3. GraphInv' /\ SetsInv'
  BY <1>1, <1>2 DEF GraphInv, SetsInv
<1>4. \A b \in Block : PhisIn(b)' = PhisIn(b) /\ Len(insts'[b]) = Len(insts[b])
  BY <1>1, SkeletonStep
<1>5. /\ Calls(fn, frames) /\ frames \in Seq(FrameType(fn)) /\ frames # << >>
      /\ Frame.k \in Nat \ {0} /\ BB \in Block
      /\ (Frame.filled => Frame.k = Len(insts[BB]) + 1)
  BY <1>1, OnTop
<1> DEFINE s == frames
           t == frames'
           f == fn
<1>6. PICK y \in FrameType(f) :
           /\ TopChanged(f, s, t, y)
           /\ y.bb = s[Len(s)].bb /\ y.k = s[Len(s)].k + 1
           /\ y.children = s[Len(s)].children /\ y.filled = s[Len(s)].filled
  <2>1. t = [s EXCEPT ![Len(s)].k = @ + 1] /\ s \in Seq(FrameType(f)) /\ s # << >>
    BY <1>5 DEF Advance
  <2> HIDE DEF s, t, f
  <2> QED BY <2>1, AdvancedTop
<1>7. y.bb = BB /\ y.k = Frame.k + 1 /\ y.filled = Frame.filled
  BY <1>6 DEF BB, Frame
<1>8. Calls(f, t) /\ OpenIn(t) = OpenIn(s) /\ AheadIn(f, t) = AheadIn(f, s)
  <2>1. Calls(f, s) /\ s \in Seq(FrameType(f)) /\ s # << >>
    BY <1>5
  <2> HIDE DEF s, t, f
  <2>2. t \in Seq(FrameType(f)) /\ SamePlaces(s, t)
    BY <1>6, <2>1, TopPlaces
  <2> QED BY <2>1, <2>2, CallsSame
<1>9. Past' = Past
  BY <1>1, <1>2, <1>8 DEF Past, PastIn
<1>10. Filled' = Filled
  <2>1. s \in Seq(FrameType(f)) /\ s # << >>
    BY <1>5
  <2> DEFINE past == Past
  <2>2. Filled' = FilledIn(past, t) /\ Filled = FilledIn(past, s)
    BY <1>9 DEF Filled
  <2> HIDE DEF s, t, f, past
  <2> QED BY <1>6, <2>1, <2>2, FilledByTop
<1>11. InBounds(t, insts')
  <2> DEFINE c == insts
             e == insts'
  <2>1. InBounds(s, c) /\ s \in Seq(FrameType(f)) /\ s # << >>
    BY <1>1, <1>5 DEF CallsInv
  <2>2. y.k <= Len(c[y.bb]) + 1 /\ (y.filled => y.k = Len(c[y.bb]) + 1)
    <3>1. Len(insts[BB]) \in Nat
      BY <1>1, <1>5, ShapeFacts
    <3>2. Frame.k # Len(insts[BB]) + 1
      BY <1>1, <1>5, <3>1
    <3>3. ~Frame.filled /\ Frame.k + 1 <= Len(insts[BB]) + 1
      BY <1>1, <1>5, <3>1, <3>2
    <3> QED BY <1>7, <3>3
  <2>3. t \in Seq(FrameType(f)) /\ f = fn
    BY <1>6 DEF TopChanged
  <2>4. \A j \in 1..Len(t) : Len(e[t[j].bb]) = Len(c[t[j].bb])
    <3>1. \A j \in 1..Len(t) : t[j].bb \in Block
      <4>1. \A j \in 1..Len(t) : t[j] \in FrameType(f)
        BY <2>3
      <4> QED BY <1>1, <4>1, FrameFields, GraphFacts
    <3> QED BY <1>4, <3>1
  <2> HIDE DEF s, t, c, e
  <2>5. InBounds(t, c)
    <3> HIDE DEF f
    <3> QED BY <1>6, <2>1, <2>2, InBoundsTop
  <2> QED BY <2>3, <2>4, <2>5, InBoundsSame DEF c, e
<1>12. CallsInv'
  BY <1>1, <1>2, <1>8, <1>11 DEF CallsInv
<1>13. ASSUME NEW b \in Block, NEW m \in Nat
       PROVE  Passed(b, m)' <=> Passed(b, m) \/ (b = BB /\ PhisIn(BB) + m = Frame.k)
  <2> DEFINE x == PhisIn(b) + m
             past == Past
  <2>1. x \in Nat
    BY <1>1, ShapeFacts
  <2>2. Passed(b, m)' <=> PassedIn(past, t, b, x)
    BY <1>4, <1>9 DEF Passed
  <2>3. Passed(b, m) <=> PassedIn(past, s, b, x)
    BY DEF Passed
  <2>4. s \in Seq(FrameType(f)) /\ s # << >> /\ BB = s[Len(s)].bb /\ Frame.k = s[Len(s)].k
    BY <1>5 DEF BB, Frame
  <2> HIDE DEF x, past, s, t, f
  <2>5. PassedIn(past, t, b, x) <=> PassedIn(past, s, b, x) \/ (b = s[Len(s)].bb /\ x = s[Len(s)].k)
    BY <1>6, <2>1, <2>4, PassedByTop
  <2> QED BY <2>2, <2>3, <2>4, <2>5 DEF x
<1> QED BY <1>3, <1>4, <1>9, <1>10, <1>12, <1>13

-----------------------------------------------------------------------------
LEMMA NowFields ==
  ASSUME NEW x \in Entering, NEW r, NEW y, y = Now(x, r)
  PROVE  /\ y.op = x.op /\ y.var = x.var
         /\ x.op = "store" /\ x.val \in DOMAIN r => y.val = r[x.val]
         /\ ~(x.op = "store" /\ x.val \in DOMAIN r) => y = x
<1>1. CASE x.op = "store" /\ x.val \in DOMAIN r
  <2> DEFINE V == {"new", "load"} \X Block \X Nat
             z == r[x.val]
  <2>1. x \in [op : {"store"}, var : Var, val : V]
    BY <1>1, EnteringFields DEF StoreInst
  <2>2. y = [x EXCEPT !.val = z]
    BY <1>1 DEF Now
  <2> HIDE DEF V, z
  <2>3. y.op = x.op /\ y.var = x.var /\ y.val = z
    BY <2>1, <2>2
  <2> QED BY <1>1, <2>3 DEF z
<1>2. CASE ~(x.op = "store" /\ x.val \in DOMAIN r)
  BY <1>2 DEF Now
<1> QED BY <1>1, <1>2

(* The instruction rename looks at, and the one it was on entry.           *)
Position == Frame.k - PhisIn(BB)

LEMMA AtInstr ==
  ASSUME PassInv, InBody
  PROVE  /\ Instr \in Item /\ Instr.var \in Var /\ Frame.k \in 1..Len(insts[BB])
         /\ Instr.op = "phi" <=> Frame.k <= PhisIn(BB)
         /\ Instr.op # "phi" =>
              /\ Position \in 1..Len(body[BB]) /\ PhisIn(BB) + Position = Frame.k
              /\ body[BB][Position] \in Entering
              /\ Instr = Now(body[BB][Position], repl)
              /\ body[BB][Position].op = Instr.op /\ body[BB][Position].var = Instr.var
<1>1. GraphInv /\ CallsInv /\ ShapeInv /\ phase = "rename" /\ Frame.k <= Len(insts[BB])
  BY DEF PassInv, InBody
<1>2. BB \in Block /\ BB \notin Past /\ Frame.k \in Nat \ {0}
  BY <1>1, OnTop
<1> DEFINE k == Frame.k
           n == PhisIn(BB)
           c == insts[BB]
           d == body[BB]
           m == Position
<1>3. /\ c \in Seq(Item) /\ Len(c) \in Nat /\ n \in Nat /\ d \in Seq(Entering) /\ Len(d) \in Nat
      /\ PhiHead(c, n) /\ Arranged(c, d, repl, n) /\ Len(c) = n + Len(d)
  BY <1>1, <1>2, ShapeFacts
<1>4. k \in 1..Len(c) /\ Instr = c[k]
  BY <1>1, <1>2, <1>3 DEF Instr
<1>5. Instr \in Item /\ Instr.var \in Var
  BY <1>3, <1>4, ItemFields
<1>6. Instr.op = "phi" <=> k <= n
  BY <1>3, <1>4 DEF PhiHead
<1>7. ASSUME Instr.op # "phi"
      PROVE  /\ m \in 1..Len(d) /\ n + m = k /\ d[m] \in Entering /\ Instr = Now(d[m], repl)
             /\ d[m].op = Instr.op /\ d[m].var = Instr.var
  <2>1. ~(k <= n) /\ m = k - n
    BY <1>6, <1>7 DEF Position
  <2>2. m \in 1..Len(d) /\ n + m = k
    <3> DEFINE z == Len(c)
               q == Len(d)
    <3>1. k \in 1..z /\ z \in Nat /\ q \in Nat /\ n \in Nat /\ z = n + q
      BY <1>3, <1>4
    <3> HIDE DEF k, n, z, m, q
    <3>2. m \in 1..q /\ n + m = k
      BY <2>1, <3>1
    <3> QED BY <3>2 DEF q
  <2>3. d[m] \in Entering
    BY <1>3, <2>2
  <2>4. Instr = Now(d[m], repl)
    BY <1>3, <1>4, <2>2 DEF Arranged
  <2> QED BY <2>2, <2>3, <2>4, NowFields
<1> QED BY <1>4, <1>5, <1>6, <1>7

LEMMA ArgsKept ==
  ASSUME GraphInv, ArgsInv, fn' = fn, Filled \subseteq Filled',
         \A b \in Block : /\ Len(insts'[b]) = Len(insts[b])
                          /\ \A k \in 1..Len(insts[b]) : insts'[b][k].op = "phi" =>
                               insts[b][k].op = "phi" /\ insts'[b][k].args = insts[b][k].args
  PROVE  ArgsInv'
<1> SUFFICES ASSUME NEW b \in Reachable(fn), NEW k \in 1..Len(insts'[b]), insts'[b][k].op = "phi"
             PROVE  ArgsFrom(fn, Filled', b, insts'[b][k].args)
  BY DEF ArgsInv
<1>1. b \in Block
  BY GraphFacts
<1>2. k \in 1..Len(insts[b]) /\ insts[b][k].op = "phi" /\ insts'[b][k].args = insts[b][k].args
  BY <1>1
<1>3. ArgsFrom(fn, Filled, b, insts[b][k].args)
  BY <1>2 DEF ArgsInv
<1> QED BY <1>2, <1>3 DEF ArgsFrom

(* A phi.                                                                  *)
LEMMA SkeletonSelf == \A c : SameSkeleton(c, c)
  BY DEF SameSkeleton

LEMMA PushStep ==
  ASSUME PassInv, NEW op, NEW v \in Var, NEW val \in Finals, Push(op, v, val, insts[BB]), op # "load"
  PROVE  PassInv'
<1>1. /\ InBody /\ Instr.op = op /\ Advance /\ UNCHANGED <<graph, phase, placing, repl>>
      /\ insts' = [insts EXCEPT ![BB] = insts[BB]]
      /\ stk' = [stk EXCEPT ![v] = Append(@, val)]
  BY DEF Push
<1>i. GraphInv /\ SetsInv /\ PhaseInv /\ CallsInv /\ ShapeInv /\ ReplInv /\ ArgsInv
  BY DEF PassInv
<1>2. insts' = insts
  <2>1. insts \in [Block -> Seq(Item)]
    BY <1>i DEF ShapeInv
  <2> QED BY <1>1, <2>1
<1>3. \A b \in Block : SameSkeleton(insts[b], insts'[b])
  BY <1>2, SkeletonSelf
<1>4. /\ GraphInv' /\ SetsInv' /\ CallsInv' /\ Past' = Past /\ Filled' = Filled
      /\ \A b \in Block : PhisIn(b)' = PhisIn(b) /\ Len(insts'[b]) = Len(insts[b])
      /\ \A b \in Block : \A m \in Nat :
           Passed(b, m)' <=> Passed(b, m) \/ (b = BB /\ PhisIn(BB) + m = Frame.k)
  BY <1>1, <1>3, AdvanceStep
<1>5. phase = "rename" /\ phase' = "rename" /\ fn' = fn /\ body' = body /\ repl' = repl
  BY <1>1 DEF InBody, graph
<1>6. PhaseInv'
  <2>1. stk \in [Var -> Seq(Finals)]
    BY <1>i DEF PhaseInv
  <2>2. stk' \in [Var -> Seq(Finals)]
    <3> DEFINE S == Finals
    <3>1. stk \in [Var -> Seq(S)] /\ val \in S
      BY <2>1
    <3> HIDE DEF S
    <3>2. Append(stk[v], val) \in Seq(S)
      BY <3>1
    <3>3. stk' \in [Var -> Seq(S)]
      BY <1>1, <3>1, <3>2
    <3> QED BY <3>3 DEF S
  <2> QED BY <1>5, <2>2 DEF PhaseInv
<1>7. ShapeInv'
  <2>1. ASSUME NEW b \in Block PROVE ShapeOf(b)'
    BY <1>i, <1>2, <1>4, <1>5, <2>1 DEF ShapeInv, ShapeOf
  <2> QED BY <1>i, <1>2, <2>1 DEF ShapeInv
<1>8. ASSUME NEW b \in Reachable(fn), NEW m \in 1..Len(body[b]), body[b][m].op = "load"
      PROVE  Passed(b, m)' <=> Passed(b, m)
  <2>1. b \in Block /\ m \in Nat /\ m # 0
    BY <1>i, GraphFacts
  <2>2. ~(b = BB /\ PhisIn(BB) + m = Frame.k)
    <3> SUFFICES ASSUME b = BB, PhisIn(BB) + m = Frame.k PROVE FALSE
      OBVIOUS
    <3>1. PhisIn(BB) \in Nat
      BY <1>i, <2>1, ShapeFacts
    <3>2. ~(Frame.k <= PhisIn(BB)) /\ Position = m
      BY <2>1, <3>1 DEF Position
    <3>3. Instr.op # "phi"
      BY <1>1, <3>2, AtInstr
    <3>4. body[BB][Position].op = Instr.op /\ Instr \in Item
      BY <1>1, <3>3, AtInstr
    <3> QED BY <1>1, <1>8, <3>2, <3>4
  <2> QED BY <1>4, <2>1, <2>2
<1>9. ReplInv'
  <2>1. \A l : IsReplaced(l)' <=> IsReplaced(l)
    BY <1>5, <1>8 DEF IsReplaced
  <2> QED BY <1>i, <1>5, <2>1 DEF ReplInv
<1>10. ArgsInv'
  BY <1>i, <1>2, <1>4, <1>5, ArgsKept
<1> QED BY <1>4, <1>6, <1>7, <1>9, <1>10 DEF PassInv

LEMMA RenamePhiStep == ASSUME PassInv, RenamePhi PROVE PassInv'
<1>1. Push("phi", Instr.var, Phi(Instr.var, BB), insts[BB]) /\ InBody
  BY DEF RenamePhi, Push
<1>2. Instr.var \in Var
  BY <1>1, AtInstr
<1>3. BB \in Block
  BY <1>1, OnTop DEF PassInv, InBody
<1>4. Phi(Instr.var, BB) \in Finals
  BY <1>2, <1>3 DEF Phi, Finals
<1> QED BY <1>1, <1>2, <1>4, PushStep

(* A store: the load whose result it keeps was passed before.              *)
LEMMA PassedBefore ==
  ASSUME PassInv, InBody, Instr.op # "phi", NEW b \in Block, NEW m \in 1..Len(body[b]),
         (b = BB /\ m < Position) \/ (b # BB /\ Dominates(fn, b, BB))
  PROVE  Passed(b, m)
<1>i. GraphInv /\ CallsInv /\ ShapeInv /\ phase = "rename"
  BY DEF PassInv, InBody
<1>t. /\ Calls(fn, frames) /\ frames \in Seq(FrameType(fn)) /\ frames # << >>
      /\ Len(frames) \in 1..Len(frames) /\ Len(frames) \in Nat
      /\ BB \in Block /\ Frame.k \in Nat
  BY <1>i, OnTop
<1>1. CASE b = BB
  <2>1. m < Position
    BY <1>1
  <2>2. PhisIn(BB) \in Nat /\ m \in Nat
    BY <1>i, <1>t, ShapeFacts
  <2>3. PhisIn(b) + m < Frame.k
    BY <1>1, <1>t, <2>1, <2>2 DEF Position
  <2>4. Frame = frames[Len(frames)] /\ BB = Frame.bb
    BY DEF Frame, BB
  <2>5. \E j \in 1..Len(frames) : frames[j].bb = b /\ PhisIn(b) + m < frames[j].k
    BY <1>1, <1>t, <2>3, <2>4
  <2> QED BY <2>5 DEF Passed, PassedIn
<1>2. CASE b # BB
  <2>0. Dominates(fn, b, frames[Len(frames)].bb) /\ BB = frames[Len(frames)].bb
    BY <1>2 DEF BB, Frame
  <2>1. PICK i \in 1..Len(frames) : b = frames[i].bb
    BY <1>t, <2>0 DEF Calls
  <2>2. i \in 1..(Len(frames) - 1)
    <3>1. i # Len(frames)
      BY <1>2, <2>0, <2>1
    <3> DEFINE n == Len(frames)
    <3>2. n \in Nat /\ i \in 1..n /\ i # n
      BY <1>t, <3>1
    <3> HIDE DEF n
    <3>3. i \in 1..(n - 1)
      BY <3>2
    <3> QED BY <3>3 DEF n
  <2>3. frames[i].filled
    BY <1>t, <2>2 DEF Calls
  <2>4. frames[i].k = Len(insts[b]) + 1
    BY <1>i, <2>1, <2>3 DEF CallsInv, InBounds
  <2>5. b \notin Past
    <3>1. b \in OpenIn(frames)
      BY <2>1 DEF OpenIn
    <3> QED BY <1>i, <3>1 DEF Past, PastIn
  <2>6. Len(insts[b]) = PhisIn(b) + Len(body[b]) /\ PhisIn(b) \in Nat /\ Len(body[b]) \in Nat
    BY <1>i, <2>5, ShapeFacts
  <2>7. PhisIn(b) + m < frames[i].k
    BY <2>4, <2>6
  <2> QED BY <2>1, <2>7 DEF Passed, PassedIn
<1> QED BY <1>1, <1>2

LEMMA StoreIsFinal ==
  ASSUME PassInv, InBody, Instr.op = "store"
  PROVE  Instr.val \in Finals
<1>i. GraphInv /\ CallsInv /\ ShapeInv /\ ReplInv /\ phase = "rename"
  BY DEF PassInv, InBody
<1> DEFINE x == body[BB][Position]
<1>1. /\ Instr.op # "phi" /\ Position \in 1..Len(body[BB]) /\ x \in Entering
      /\ Instr = Now(x, repl) /\ x.op = "store"
  BY AtInstr
<1>2. BB \in Reachable(fn) /\ BB \in Block
  BY <1>i, OnTop
<1>3. PICK f \in Functions : fn = f.cfg /\ body = f.body
  BY <1>i DEF GraphInv
<1>4. Available(f, x.val, BB, Position)
  BY <1>1, <1>2, <1>3, FunctionsAssumption
<1>5. x \in StoreInst
  BY <1>1, EnteringFields
<1>6. x.val \in {"new", "load"} \X Block \X Nat
  <2> DEFINE V == {"new", "load"} \X Block \X Nat
  <2>1. x \in [op : {"store"}, var : Var, val : V]
    BY <1>5 DEF StoreInst
  <2> HIDE DEF V, x
  <2>2. x.val \in V
    BY <2>1
  <2> QED BY <2>2 DEF V
<1> DEFINE val == x.val
<1>7. CASE val[1] = "new"
  <2>1. val = <<"new", BB, Position>>
    BY <1>4, <1>7 DEF Available
  <2>2. val \in Finals
    BY <1>6, <1>7 DEF Finals
  <2>3. val \notin DOMAIN repl
    <3>1. \A b, m : val # Load(b, m)
      BY <1>7 DEF Load
    <3> QED BY <1>i, <3>1 DEF ReplInv, IsReplaced
  <2>4. Instr = x
    <3> HIDE DEF x
    <3> QED BY <1>1, <2>3, NowFields DEF val
  <2> QED BY <2>2, <2>4
<1>8. CASE val[1] # "new"
  <2> DEFINE b == val[2]
             m == val[3]
  <2>1. val = Load(b, m) /\ b \in Block /\ m \in Nat
    BY <1>6, <1>8 DEF Load
  <2>2. /\ m \in 1..Len(body[b]) /\ body[b][m].op = "load"
        /\ IF b = BB THEN m < Position ELSE <<b, BB>> \in Dominance(fn)
    BY <1>3, <1>4, <1>8 DEF Available
  <2> HIDE DEF b, m, x
  <2>3. b # BB => Dominates(fn, b, BB)
    BY <1>i, <2>2, GraphFacts, DominancePairs
  <2>4. Passed(b, m)
    BY <1>1, <2>1, <2>2, <2>3, PassedBefore
  <2>5. b \in Reachable(fn)
    BY <1>2, <2>3 DEF Dominates
  <2>6. val \in DOMAIN repl
    BY <1>i, <2>1, <2>2, <2>4, <2>5 DEF ReplInv, IsReplaced
  <2>7. Instr.val = repl[val]
    BY <1>1, <2>6, NowFields
  <2> QED BY <1>i, <2>6, <2>7 DEF ReplInv, FinalValues
<1> QED BY <1>7, <1>8

LEMMA RenameStoreStep == ASSUME PassInv, RenameStore PROVE PassInv'
<1>1. Push("store", Instr.var, Instr.val, insts[BB]) /\ InBody /\ Instr.op = "store"
  BY DEF RenameStore, Push
<1>2. Instr.var \in Var
  BY <1>1, AtInstr
<1>3. Instr.val \in Finals
  BY <1>1, StoreIsFinal
<1> QED BY <1>1, <1>2, <1>3, PushStep

-----------------------------------------------------------------------------
(* A load: its uses are replaced everywhere.                               *)
LEMMA NotPassedYet ==
  ASSUME PassInv, phase = "rename"
  PROVE  \A x : x >= Frame.k /\ x \in Nat => ~PassedIn(Past, frames, BB, x)
<1>i. GraphInv /\ CallsInv /\ ShapeInv
  BY DEF PassInv
<1>1. /\ BB \notin Past /\ Frame.k \in Nat
      /\ \A j \in 1..Len(frames) : frames[j].bb = BB => j = Len(frames)
  BY <1>i, OnTop
<1>2. Frame = frames[Len(frames)]
  BY DEF Frame
<1> SUFFICES ASSUME NEW x \in Nat, x >= Frame.k, PassedIn(Past, frames, BB, x) PROVE FALSE
  OBVIOUS
<1>3. PICK j \in 1..Len(frames) : frames[j].bb = BB /\ x < frames[j].k
  BY <1>1 DEF PassedIn
<1>4. x < Frame.k
  BY <1>1, <1>2, <1>3
<1> QED BY <1>1, <1>4

ReplacedIn(old, new) ==
    /\ insts' = [b \in Block |-> ReplaceUses(insts[b], old, new)]
    /\ repl' = With(repl, old, new)

LEMMA ReplacedItems ==
  ASSUME PassInv, NEW new \in Finals, NEW old, IsLoad(old), ReplacedIn(old, new), NEW b \in Block
  PROVE  /\ Rewritten(insts[b], insts'[b], old, new) /\ insts'[b] \in Seq(Item)
         /\ SameSkeleton(insts[b], insts'[b])
         /\ \A k \in 1..Len(insts[b]) : insts[b][k].op # "store" => insts'[b][k] = insts[b][k]
<1>1. insts[b] \in Seq(Item) /\ insts'[b] = ReplaceUses(insts[b], old, new)
  BY DEF PassInv, ShapeInv, ReplacedIn
<1>2. Rewritten(insts[b], insts'[b], old, new)
  BY <1>1, ReplaceRewrites
<1>3. insts'[b] \in Seq(Item)
  BY <1>2 DEF Rewritten
<1> DEFINE c == insts[b]
           e == insts'[b]
<1> HIDE DEF c, e
<1>4. SameSkeleton(c, e) /\ \A k \in 1..Len(c) : c[k].op # "store" => e[k] = c[k]
  BY <1>1, <1>2, RewriteSkeleton DEF c, e
<1> QED BY <1>2, <1>3, <1>4 DEF c, e

LEMMA ReplaceStep ==
  ASSUME PassInv, InBody, Instr.op = "load", Advance, UNCHANGED <<graph, phase, placing, stk>>,
         NEW new \in Finals, NEW old, old = Load(BB, Position), ReplacedIn(old, new)
  PROVE  PassInv'
<1>i. GraphInv /\ SetsInv /\ PhaseInv /\ CallsInv /\ ShapeInv /\ ReplInv /\ ArgsInv
      /\ phase = "rename"
  BY DEF PassInv, InBody
<1>1. /\ Position \in 1..Len(body[BB]) /\ PhisIn(BB) + Position = Frame.k
      /\ body[BB][Position].op = "load" /\ BB \in Reachable(fn) /\ BB \in Block
  BY <1>i, AtInstr, OnTop
<1>2. IsLoad(old)
  <2>1. Position \in Nat
    BY <1>i, <1>1, ShapeFacts
  <2> QED BY <1>1, <2>1 DEF IsLoad, Load
<1>3. old \notin DOMAIN repl
  <2> SUFFICES ASSUME IsReplaced(old) PROVE FALSE
    BY <1>i DEF ReplInv
  <2>0. PICK b \in Reachable(fn) : \E m \in 1..Len(body[b]) : old = Load(b, m) /\ Passed(b, m)
    BY DEF IsReplaced
  <2>1. PICK m \in 1..Len(body[b]) : old = Load(b, m) /\ Passed(b, m)
    BY <2>0
  <2>2. b = BB /\ m = Position
    BY <2>1 DEF Load
  <2>3. PassedIn(Past, frames, BB, Frame.k)
    BY <1>1, <2>1, <2>2 DEF Passed
  <2>4. Frame.k \in Nat /\ Frame.k >= Frame.k
    BY <1>i, OnTop
  <2> QED BY <1>i, <2>3, <2>4, NotPassedYet
<1>4. ASSUME NEW b \in Block
      PROVE  /\ Rewritten(insts[b], insts'[b], old, new) /\ insts'[b] \in Seq(Item)
             /\ SameSkeleton(insts[b], insts'[b])
             /\ \A k \in 1..Len(insts[b]) : insts[b][k].op # "store" => insts'[b][k] = insts[b][k]
  BY <1>2, ReplacedItems
<1>5. /\ GraphInv' /\ SetsInv' /\ CallsInv' /\ Past' = Past /\ Filled' = Filled
      /\ \A b \in Block : PhisIn(b)' = PhisIn(b) /\ Len(insts'[b]) = Len(insts[b])
      /\ \A b \in Block : \A m \in Nat :
           Passed(b, m)' <=> Passed(b, m) \/ (b = BB /\ PhisIn(BB) + m = Frame.k)
  BY <1>4, AdvanceStep
<1>6. phase' = "rename" /\ fn' = fn /\ body' = body /\ stk' = stk
  BY <1>i DEF graph
<1>7. PhaseInv'
  BY <1>i, <1>6 DEF PhaseInv
<1>8. ShapeInv'
  <2>1. ASSUME NEW b \in Block PROVE ShapeOf(b)'
    <3> DEFINE c == insts[b]
               e == insts'[b]
               n == PhisIn(b)
               r == repl
               q == repl'
    <3>1. c \in Seq(Item) /\ Len(c) \in Nat /\ Rewritten(c, e, old, new) /\ SameSkeleton(c, e)
          /\ body[b] \in Seq(Entering)
      BY <1>i, <1>4, ShapeFacts
    <3>2. CASE b \in Past
      <4>1. Bare(c, n)
        BY <1>i, <3>2 DEF ShapeInv, ShapeOf
      <4> HIDE DEF c, e, n
      <4>2. Bare(e, n)
        BY <3>1, <4>1, SkeletonBare
      <4> QED BY <1>5, <1>6, <3>2, <4>2 DEF ShapeOf, e, n
    <3>3. CASE b \notin Past
      <4>1. Arranged(c, body[b], r, n) /\ FinalValues(r) /\ old \notin DOMAIN r /\ q = With(r, old, new)
        BY <1>i, <1>3, <3>3 DEF ShapeInv, ShapeOf, ReplInv, ReplacedIn
      <4> HIDE DEF c, e, n, r, q
      <4>2. Arranged(e, body[b], q, n)
        BY <1>2, <3>1, <4>1, RewriteArranges
      <4> QED BY <1>5, <1>6, <3>3, <4>2 DEF ShapeOf, e, n, q
    <3> QED BY <3>2, <3>3
  <2>2. insts' \in [Block -> Seq(Item)]
    BY <1>4 DEF ReplacedIn
  <2> QED BY <2>1, <2>2 DEF ShapeInv
<1>9. ReplInv'
  <2>1. DOMAIN repl' = DOMAIN repl \cup {old}
    BY DEF ReplacedIn, With
  <2>2. FinalValues(repl')
    BY <1>i DEF ReplacedIn, With, FinalValues, ReplInv
  <2>3. ASSUME NEW l PROVE IsReplaced(l)' <=> IsReplaced(l) \/ l = old
    <3>1. ASSUME NEW b \in Reachable(fn), NEW m \in 1..Len(body[b])
          PROVE  /\ Passed(b, m)' <=> Passed(b, m) \/ (b = BB /\ m = Position)
                 /\ b \in Block
      <4>1. b \in Block /\ m \in Nat
        BY <1>i, GraphFacts
      <4>2. b = BB => (PhisIn(BB) + m = Frame.k <=> m = Position)
        <5>1. PhisIn(BB) \in Nat /\ Frame.k \in Nat
          BY <1>i, <1>1, ShapeFacts, OnTop
        <5> QED BY <4>1, <5>1 DEF Position
      <4> QED BY <1>5, <4>1, <4>2
    <3>2. ASSUME IsReplaced(l)' PROVE IsReplaced(l) \/ l = old
      <4>1. PICK b \in Reachable(fn) : \E m \in 1..Len(body[b]) :
                l = Load(b, m) /\ body[b][m].op = "load" /\ Passed(b, m)'
        BY <1>6, <3>2 DEF IsReplaced
      <4>2. PICK m \in 1..Len(body[b]) :
                l = Load(b, m) /\ body[b][m].op = "load" /\ Passed(b, m)'
        BY <4>1
      <4> QED BY <3>1, <4>2 DEF IsReplaced
    <3>3. ASSUME IsReplaced(l) PROVE IsReplaced(l)'
      BY <1>6, <3>1, <3>3 DEF IsReplaced
    <3>4. ASSUME l = old PROVE IsReplaced(l)'
      BY <1>1, <1>6, <3>1, <3>4 DEF IsReplaced
    <3> QED BY <3>2, <3>3, <3>4
  <2> QED BY <1>i, <2>1, <2>2, <2>3 DEF ReplInv
<1>10. ArgsInv'
  <2>1. ASSUME NEW b \in Block, NEW k \in 1..Len(insts[b]), insts'[b][k].op = "phi"
        PROVE  insts[b][k].op = "phi" /\ insts'[b][k].args = insts[b][k].args
    <3>1. insts'[b][k].op = insts[b][k].op
      BY <1>4 DEF SameSkeleton
    <3> QED BY <1>4, <2>1, <3>1
  <2> QED BY <1>i, <1>5, <1>6, <2>1, ArgsKept
<1> QED BY <1>5, <1>7, <1>8, <1>9, <1>10 DEF PassInv

LEMMA RenameLoadStep == ASSUME PassInv, RenameLoad PROVE PassInv'
<1> DEFINE old == Load(BB, Position)
           new == TopOf(stk[Instr.var])
<1>1. /\ InBody /\ Instr.op = "load" /\ Advance /\ UNCHANGED <<graph, phase, placing, stk>>
      /\ ReplacedIn(old, new)
  BY DEF RenameLoad, ReplacedIn, Position, With
<1>2. new \in Finals
  <2>1. Instr.var \in Var
    BY <1>1, AtInstr
  <2>2. stk[Instr.var] \in Seq(Finals)
    BY <2>1 DEF PassInv, PhaseInv
  <2> QED BY <2>2, TopIsFinal
<1> QED BY <1>1, <1>2, ReplaceStep

-----------------------------------------------------------------------------
(* The successors learn their arguments.                                   *)
LEMMA ArgsAppended ==
  ASSUME NEW f, NEW filled, NEW b, NEW args \in Seq(Finals \X Block), ArgsFrom(f, filled, b, args),
         NEW x \in Finals \X Block, NEW p, x[2] = p, p \notin filled, Step(f, p, b),
         NEW t, Longer(args, x, t), NEW all, all = filled \cup {p}
  PROVE  ArgsFrom(f, all, b, t)
<1> DEFINE T == Finals \X Block
           l == Len(args)
<1>1. AppendOf(T, args, x, t)
  <2>1. args \in Seq(T) /\ x \in T
    OBVIOUS
  <2> HIDE DEF T
  <2> QED BY <2>1, AppendIs
<1>2. Len(t) = l + 1 /\ t[l + 1] = x /\ \A j \in 1..l : t[j] = args[j]
  BY <1>1 DEF AppendOf
<1>3. l \in Nat
  OBVIOUS
<1>4. /\ \A a \in 1..l : args[a][2] \in filled /\ Step(f, args[a][2], b)
      /\ \A a, c \in 1..l : args[a][2] = args[c][2] => a = c
  BY DEF ArgsFrom
<1> HIDE DEF l
<1>5. \A a \in 1..(l + 1) : a \in 1..l \/ a = l + 1
  BY <1>3
<1>6. \A a \in 1..(l + 1) : IF a \in 1..l THEN t[a][2] = args[a][2] /\ t[a][2] # p ELSE t[a][2] = p
  <2> SUFFICES ASSUME NEW a \in 1..(l + 1)
               PROVE  IF a \in 1..l THEN t[a][2] = args[a][2] /\ t[a][2] # p ELSE t[a][2] = p
    OBVIOUS
  <2>1. CASE a \in 1..l
    BY <1>2, <1>4, <2>1
  <2>2. CASE a \notin 1..l
    BY <1>2, <1>5, <2>2
  <2> QED BY <2>1, <2>2
<1>7. \A a \in 1..(l + 1) : t[a][2] \in all /\ Step(f, t[a][2], b)
  BY <1>4, <1>6
<1>8. ASSUME NEW a \in 1..(l + 1), NEW c \in 1..(l + 1), t[a][2] = t[c][2] PROVE a = c
  <2>1. CASE a \in 1..l
    <3>1. c \in 1..l
      BY <1>6, <1>8, <2>1
    <3> QED BY <1>4, <1>6, <1>8, <2>1, <3>1
  <2>2. CASE a \notin 1..l
    <3>1. c \notin 1..l
      BY <1>6, <1>8, <2>2
    <3> QED BY <1>5, <2>2, <3>1
  <2> QED BY <2>1, <2>2
<1> QED BY <1>2, <1>7, <1>8 DEF ArgsFrom

FilledSuccessors ==
    insts' = [s \in Block |->
          IF s \in Members(fn.succ[BB])
          THEN [k \in 1..Len(insts[s]) |-> FillPhi(insts[s][k], BB)]
          ELSE insts[s]]

LEMMA FilledItems ==
  ASSUME PassInv, phase = "rename", FilledSuccessors, NEW b \in Block
  PROVE  /\ insts'[b] \in Seq(Item) /\ SamePhisApart(insts[b], insts'[b])
         /\ SameSkeleton(insts[b], insts'[b])
         /\ \A k \in 1..Len(insts[b]) :
              IF b \in Members(fn.succ[BB]) THEN FillOf(insts[b][k], insts'[b][k], BB)
                                            ELSE insts'[b][k] = insts[b][k]
<1>1. insts[b] \in Seq(Item) /\ stk \in [Var -> Seq(Finals)]
  BY DEF PassInv, ShapeInv, PhaseInv
<1>2. BB \in Block
  BY OnTop DEF PassInv
<1> DEFINE c == insts[b]
           e == insts'[b]
<1>3. CASE b \in Members(fn.succ[BB])
  <2>1. e = [k \in 1..Len(c) |-> FillPhi(c[k], BB)] /\ c \in Seq(Item)
    BY <1>1, <1>3 DEF FilledSuccessors
  <2> HIDE DEF c, e
  <2>2. /\ e \in Seq(Item) /\ SamePhisApart(c, e)
        /\ \A k \in 1..Len(c) : FillOf(c[k], e[k], BB)
    BY <1>1, <1>2, <2>1, FillKeeps
  <2> QED BY <1>3, <2>2 DEF c, e, SamePhisApart
<1>4. CASE b \notin Members(fn.succ[BB])
  <2>1. e = c
    BY <1>4 DEF FilledSuccessors
  <2> QED BY <1>1, <1>4, <2>1, SkeletonSelf DEF SamePhisApart
<1> QED BY <1>3, <1>4

LEMMA FillPlaces ==
  ASSUME PassInv, Leaving, ~Frame.filled, UNCHANGED <<graph, phase, placing>>,
         frames' = [frames EXCEPT ![Len(frames)].filled = TRUE],
         \A b \in Block : SameSkeleton(insts[b], insts'[b])
  PROVE  /\ GraphInv' /\ SetsInv' /\ CallsInv' /\ Past' = Past
         /\ Filled' = Filled \cup {BB} /\ BB \notin Filled
         /\ \A b \in Block : PhisIn(b)' = PhisIn(b) /\ Len(insts'[b]) = Len(insts[b])
         /\ \A b \in Block : \A m \in Nat : Passed(b, m)' <=> Passed(b, m)
<1>1. GraphInv /\ SetsInv /\ CallsInv /\ ShapeInv /\ phase = "rename" /\ phase' = "rename"
      /\ Frame.k > Len(insts[BB])
  BY DEF PassInv, Leaving
<1>2. UNCHANGED <<fn, body, df, tree, defset, active, var, queue, frontiers>>
  BY DEF graph, placing
<1>3. GraphInv' /\ SetsInv'
  BY <1>1, <1>2 DEF GraphInv, SetsInv
<1>4. \A b \in Block : PhisIn(b)' = PhisIn(b) /\ Len(insts'[b]) = Len(insts[b])
  BY <1>1, SkeletonStep
<1>5. /\ Calls(fn, frames) /\ frames \in Seq(FrameType(fn)) /\ frames # << >>
      /\ Frame.k \in Nat \ {0} /\ BB \in Block /\ Frame.k <= Len(insts[BB]) + 1
      /\ BB \notin Past /\ Len(frames) \in 1..Len(frames)
      /\ \A j \in 1..Len(frames) : frames[j].bb = BB => j = Len(frames)
  BY <1>1, OnTop
<1>5a. Frame.k = Len(insts[BB]) + 1
  <2>1. Len(insts[BB]) \in Nat
    BY <1>1, <1>5, ShapeFacts
  <2> QED BY <1>1, <1>5, <2>1
<1> DEFINE s == frames
           t == frames'
           f == fn
<1>6. PICK y \in FrameType(f) :
           /\ TopChanged(f, s, t, y)
           /\ y.bb = s[Len(s)].bb /\ y.k = s[Len(s)].k
           /\ y.children = s[Len(s)].children /\ y.filled
  <2>1. t = [s EXCEPT ![Len(s)].filled = TRUE] /\ s \in Seq(FrameType(f)) /\ s # << >>
    BY <1>5
  <2> HIDE DEF s, t, f
  <2> QED BY <2>1, FilledTop
<1>7. y.bb = BB /\ y.k = Frame.k
  BY <1>6 DEF BB, Frame
<1>8. Calls(f, t) /\ OpenIn(t) = OpenIn(s) /\ AheadIn(f, t) = AheadIn(f, s)
  <2>1. Calls(f, s) /\ s \in Seq(FrameType(f)) /\ s # << >>
    BY <1>5
  <2> HIDE DEF s, t, f
  <2>2. t \in Seq(FrameType(f)) /\ SamePlaces(s, t)
    BY <1>6, <2>1, TopPlaces
  <2> QED BY <2>1, <2>2, CallsSame
<1>9. Past' = Past
  BY <1>1, <1>2, <1>8 DEF Past, PastIn
<1>10. Filled' = Filled \cup {BB}
  <2>1. s \in Seq(FrameType(f)) /\ s # << >> /\ BB = s[Len(s)].bb
    BY <1>5 DEF BB, Frame
  <2> DEFINE past == Past
  <2>2. Filled' = FilledIn(past, t) /\ Filled = FilledIn(past, s)
    BY <1>9 DEF Filled
  <2> HIDE DEF s, t, f, past
  <2>3. FilledIn(past, t) = FilledIn(past, s) \cup {s[Len(s)].bb}
    BY <1>6, <2>1, FilledByTop
  <2> QED BY <2>1, <2>2, <2>3
<1>10a. BB \notin Filled
  <2>1. ~frames[Len(frames)].filled
    BY DEF Frame
  <2> QED BY <1>5, <2>1 DEF Filled, FilledIn
<1>11. InBounds(t, insts')
  <2> DEFINE c == insts
             e == insts'
  <2>1. InBounds(s, c) /\ s \in Seq(FrameType(f)) /\ s # << >>
    BY <1>1, <1>5 DEF CallsInv
  <2>2. y.k <= Len(c[y.bb]) + 1 /\ (y.filled => y.k = Len(c[y.bb]) + 1)
    BY <1>5, <1>5a, <1>7
  <2>3. t \in Seq(FrameType(f)) /\ f = fn
    BY <1>6 DEF TopChanged
  <2>4. \A j \in 1..Len(t) : Len(e[t[j].bb]) = Len(c[t[j].bb])
    <3>1. \A j \in 1..Len(t) : t[j].bb \in Block
      <4>1. \A j \in 1..Len(t) : t[j] \in FrameType(f)
        BY <2>3
      <4> QED BY <1>1, <4>1, FrameFields, GraphFacts
    <3> QED BY <1>4, <3>1
  <2> HIDE DEF s, t, c, e
  <2>5. InBounds(t, c)
    <3> HIDE DEF f
    <3> QED BY <1>6, <2>1, <2>2, InBoundsTop
  <2> QED BY <2>3, <2>4, <2>5, InBoundsSame DEF c, e
<1>12. CallsInv'
  BY <1>1, <1>2, <1>8, <1>11 DEF CallsInv
<1>13. ASSUME NEW b \in Block, NEW m \in Nat PROVE Passed(b, m)' <=> Passed(b, m)
  <2> DEFINE x == PhisIn(b) + m
             past == Past
  <2>1. x \in Nat
    BY <1>1, ShapeFacts
  <2>2. Passed(b, m)' <=> PassedIn(past, t, b, x)
    BY <1>4, <1>9 DEF Passed
  <2>3. Passed(b, m) <=> PassedIn(past, s, b, x)
    BY DEF Passed
  <2>4. s \in Seq(FrameType(f)) /\ s # << >>
    BY <1>5
  <2> HIDE DEF x, past, s, t, f
  <2>5. PassedIn(past, t, b, x) <=> PassedIn(past, s, b, x)
    BY <1>6, <2>1, <2>4, PassedByTop
  <2> QED BY <2>2, <2>3, <2>5
<1> QED BY <1>3, <1>4, <1>9, <1>10, <1>10a, <1>12, <1>13

(* What the replacements say is kept by a step that passes no load.        *)
LEMMA ReplKept ==
  ASSUME GraphInv, ReplInv, UNCHANGED <<fn, body, repl>>,
         \A b \in Reachable(fn) : \A m \in 1..Len(body[b]) :
             body[b][m].op = "load" => (Passed(b, m)' <=> Passed(b, m))
  PROVE  ReplInv'
<1>1. \A l : IsReplaced(l)' <=> IsReplaced(l)
  BY DEF IsReplaced
<1> QED BY <1>1 DEF ReplInv

LEMMA BodyPositions ==
  ASSUME GraphInv, NEW b \in Reachable(fn), NEW m \in 1..Len(body[b])
  PROVE  b \in Block /\ m \in Nat \ {0}
  BY GraphFacts

LEMMA FillSuccessorsStep == ASSUME PassInv, FillSuccessors PROVE PassInv'
<1>i. GraphInv /\ SetsInv /\ PhaseInv /\ CallsInv /\ ShapeInv /\ ReplInv /\ ArgsInv
  BY DEF PassInv
<1>1. /\ Leaving /\ ~Frame.filled /\ FilledSuccessors
      /\ frames' = [frames EXCEPT ![Len(frames)].filled = TRUE]
      /\ UNCHANGED <<graph, phase, placing, stk, repl>>
  BY DEF FillSuccessors, FilledSuccessors
<1>2. phase = "rename" /\ phase' = "rename" /\ UNCHANGED <<fn, body, repl, stk>>
  BY <1>1 DEF Leaving, graph
<1>3. ASSUME NEW b \in Block
      PROVE  /\ insts'[b] \in Seq(Item) /\ SamePhisApart(insts[b], insts'[b])
             /\ SameSkeleton(insts[b], insts'[b])
             /\ \A k \in 1..Len(insts[b]) :
                  IF b \in Members(fn.succ[BB]) THEN FillOf(insts[b][k], insts'[b][k], BB)
                                                ELSE insts'[b][k] = insts[b][k]
  BY <1>1, <1>2, FilledItems
<1>4. /\ GraphInv' /\ SetsInv' /\ CallsInv' /\ Past' = Past
      /\ Filled' = Filled \cup {BB} /\ BB \notin Filled
      /\ \A b \in Block : PhisIn(b)' = PhisIn(b) /\ Len(insts'[b]) = Len(insts[b])
      /\ \A b \in Block : \A m \in Nat : Passed(b, m)' <=> Passed(b, m)
  BY <1>1, <1>3, FillPlaces
<1>5. PhaseInv'
  BY <1>i, <1>2 DEF PhaseInv
<1>6. ShapeInv'
  <2>1. ASSUME NEW b \in Block PROVE ShapeOf(b)'
    <3> DEFINE c == insts[b]
               e == insts'[b]
               n == PhisIn(b)
    <3>1. c \in Seq(Item) /\ Len(c) \in Nat /\ SamePhisApart(c, e) /\ SameSkeleton(c, e)
          /\ body[b] \in Seq(Entering)
      BY <1>i, <1>3, ShapeFacts
    <3>2. CASE b \in Past
      <4>1. Bare(c, n)
        BY <1>i, <3>2 DEF ShapeInv, ShapeOf
      <4> HIDE DEF c, e, n
      <4>2. Bare(e, n)
        BY <3>1, <4>1, SkeletonBare
      <4> QED BY <1>2, <1>4, <3>2, <4>2 DEF ShapeOf, e, n
    <3>3. CASE b \notin Past
      <4>1. Arranged(c, body[b], repl, n)
        BY <1>i, <3>3 DEF ShapeInv, ShapeOf
      <4> HIDE DEF c, e, n
      <4>2. Arranged(e, body[b], repl, n)
        BY <3>1, <4>1, SkeletonArranges
      <4> QED BY <1>2, <1>4, <3>3, <4>2 DEF ShapeOf, e, n
    <3> QED BY <3>2, <3>3
  <2>2. insts' \in [Block -> Seq(Item)]
    BY <1>1, <1>3 DEF FilledSuccessors
  <2> QED BY <2>1, <2>2 DEF ShapeInv
<1>7. ReplInv'
  <2>1. \A b \in Reachable(fn) : \A m \in 1..Len(body[b]) : Passed(b, m)' <=> Passed(b, m)
    BY <1>i, <1>4, BodyPositions
  <2> QED BY <1>i, <1>2, <2>1, ReplKept
<1>8. ArgsInv'
  <2> SUFFICES ASSUME NEW b \in Reachable(fn), NEW k \in 1..Len(insts'[b]), insts'[b][k].op = "phi"
               PROVE  ArgsFrom(fn, Filled', b, insts'[b][k].args)
    BY <1>2 DEF ArgsInv
  <2>1. b \in Block /\ k \in 1..Len(insts[b])
    BY <1>i, <1>4, GraphFacts
  <2> DEFINE x == insts[b][k]
             y == insts'[b][k]
  <2>2. x \in Item /\ x.op = "phi"
    BY <1>3, <1>i, <2>1, ShapeFacts DEF SameSkeleton
  <2>3. ArgsFrom(fn, Filled, b, x.args)
    BY <1>i, <2>1, <2>2 DEF ArgsInv
  <2>4. CASE y.args = x.args
    BY <1>4, <2>3, <2>4 DEF ArgsFrom
  <2>5. CASE y.args # x.args
    <3>1. b \in Members(fn.succ[BB]) /\ FillOf(x, y, BB)
      BY <1>3, <2>1, <2>5
    <3>2. y.args = Given(x, stk[x.var], BB)
      BY <2>2, <2>5, <3>1 DEF FillOf
    <3> DEFINE args == x.args
               z == <<TopOf(stk[x.var]), BB>>
               t == y.args
               all == Filled'
               p == BB
    <3>3. args \in Seq(Finals \X Block) /\ z \in Finals \X Block /\ z[2] = BB
      <4>1. x.var \in Var /\ args \in Seq(Finals \X Block)
        BY <2>2, ItemFields
      <4>2. stk[x.var] \in Seq(Finals)
        BY <1>i, <4>1 DEF PhaseInv
      <4>3. TopOf(stk[x.var]) \in Finals /\ BB \in Block
        BY <1>i, <1>2, <4>2, TopIsFinal, OnTop
      <4> QED BY <4>1, <4>3
    <3>4. Longer(args, z, t) /\ Step(fn, p, b) /\ p \notin Filled /\ all = Filled \cup {p}
          /\ z[2] = p
      BY <1>4, <3>1, <3>2, <3>3 DEF Longer, Given, Step
    <3>5. ArgsFrom(fn, Filled, b, args)
      BY <2>3
    <3> HIDE DEF args, z, t, all, p, x, y
    <3>6. ArgsFrom(fn, all, b, t)
      BY <3>3, <3>4, <3>5, ArgsAppended
    <3> QED BY <3>6 DEF all, t, y
  <2> QED BY <2>4, <2>5
<1> QED BY <1>4, <1>5, <1>6, <1>7, <1>8 DEF PassInv

-----------------------------------------------------------------------------
(* The call of a child.                                                    *)
LEMMA RenameChildStep == ASSUME PassInv, RenameChild PROVE PassInv' /\ Filled' = Filled
<1>i. GraphInv /\ SetsInv /\ PhaseInv /\ CallsInv /\ ShapeInv /\ ReplInv /\ ArgsInv
  BY DEF PassInv
<1>1. PICK c \in Frame.children :
         frames' = Append([frames EXCEPT ![Len(frames)].children = @ \ {c}], Call(c))
  BY DEF RenameChild
<1>2. /\ phase = "rename" /\ phase' = "rename" /\ Frame.filled
      /\ UNCHANGED <<fn, body, df, tree, insts, defset, active, var, queue, frontiers, stk, repl>>
  BY DEF RenameChild, Leaving, graph, placing
<1>3. FlowGraph(fn) /\ Calls(fn, frames) /\ frames \in Seq(FrameType(fn)) /\ frames # << >>
      /\ Frame = frames[Len(frames)]
  BY <1>i, <1>2, OnTop, GraphFacts DEF Frame
<1> DEFINE s == frames
           t == frames'
           f == fn
<1>4. c \in Reachable(f) /\ c \in Block
  <2>1. c \in s[Len(s)].children /\ Len(s) \in 1..Len(s)
    BY <1>i, <1>2, <1>3, OnTop
  <2>2. c \in Kids(f, s[Len(s)].bb)
    BY <1>3, <2>1 DEF Calls
  <2> QED BY <1>i, <2>2, GraphFacts DEF Kids
<1>5. Call(c) = CallOf(f, c)
  <2>1. tree[c] = Kids(fn, c)
    BY <1>i, <1>4, GraphFacts
  <2> QED BY <2>1 DEF Call, CallOf
<1>6. Entered(f, s, t, c) /\ c \in s[Len(s)].children /\ s[Len(s)].filled
      /\ FlowGraph(f) /\ Calls(f, s) /\ s \in Seq(FrameType(f)) /\ s # << >>
  <2>1. t = Append([s EXCEPT ![Len(s)].children = @ \ {c}], CallOf(f, c))
    BY <1>1, <1>5
  <2>2. FlowGraph(f) /\ Calls(f, s) /\ s \in Seq(FrameType(f)) /\ s # << >>
        /\ c \in s[Len(s)].children /\ s[Len(s)].filled
    BY <1>2, <1>3
  <2> HIDE DEF s, t, f
  <2>3. Entered(f, s, t, c)
    BY <1>4, <2>1, <2>2, EnteredTop
  <2> QED BY <2>2, <2>3
<1>7. /\ OpenIn(t) = OpenIn(s) \cup {c} /\ AheadIn(f, t) = AheadIn(f, s) \ {c}
      /\ c \in AheadIn(f, s) /\ Calls(f, t)
  <2> HIDE DEF s, t, f
  <2> QED BY <1>6, OpenEntered, CallsEntered
<1>8. Past' = Past
  BY <1>2, <1>7 DEF Past, PastIn
<1> DEFINE past == Past
<1>9. /\ \A b : \A x \in Nat \ {0} : PassedIn(past, t, b, x) <=> PassedIn(past, s, b, x)
      /\ FilledIn(past, t) = FilledIn(past, s)
  <2> HIDE DEF s, t, f, past
  <2> QED BY <1>6, PassedByChild
<1>10. Filled' = Filled
  BY <1>8, <1>9 DEF Filled
<1>11. \A b \in Block : PhisIn(b)' = PhisIn(b)
  BY <1>2 DEF PhisIn
<1>12. GraphInv' /\ SetsInv' /\ PhaseInv'
  BY <1>i, <1>2 DEF GraphInv, SetsInv, PhaseInv
<1>13. CallsInv'
  <2>1. InBounds(t, insts)
    <3> DEFINE n == Len(s)
    <3>1. n \in Nat \ {0}
      BY <1>3, FramesOf
    <3>2. /\ Len(t) = n + 1 /\ t[n + 1].k = 1 /\ ~t[n + 1].filled /\ t[n + 1].bb = c
          /\ \A j \in 1..n : t[j].bb = s[j].bb /\ t[j].filled = s[j].filled /\ t[j].k = s[j].k
      BY <1>6 DEF Entered
    <3>3. \A j \in 1..(n + 1) : j \in 1..n \/ j = n + 1
      <4> HIDE DEF n
      <4> QED BY <3>1
    <3>4. 1 <= Len(insts[c]) + 1
      <4>1. Len(insts[c]) \in Nat
        BY <1>i, <1>4, ShapeFacts
      <4> QED BY <4>1
    <3>5. InBounds(s, insts)
      BY <1>i DEF CallsInv
    <3> QED BY <3>2, <3>3, <3>4, <3>5 DEF InBounds
  <2> QED BY <1>2, <1>7, <2>1 DEF CallsInv
<1>14. ShapeInv'
  <2>1. ASSUME NEW b \in Block PROVE ShapeOf(b)'
    BY <1>i, <1>2, <1>8, <1>11, <2>1 DEF ShapeInv, ShapeOf
  <2> QED BY <1>i, <1>2, <2>1 DEF ShapeInv
<1>15. ReplInv'
  <2>1. ASSUME NEW b \in Reachable(fn), NEW m \in 1..Len(body[b])
        PROVE  Passed(b, m)' <=> Passed(b, m)
    <3>1. b \in Block /\ m \in Nat \ {0} /\ PhisIn(b) \in Nat
      BY <1>i, BodyPositions, ShapeFacts
    <3> DEFINE x == PhisIn(b) + m
    <3>2. x \in Nat \ {0}
      BY <3>1
    <3>3. Passed(b, m)' <=> PassedIn(past, t, b, x)
      BY <1>8, <1>11, <3>1 DEF Passed
    <3> HIDE DEF x, t
    <3> QED BY <1>9, <3>2, <3>3 DEF Passed, x
  <2> QED BY <1>i, <1>2, <2>1, ReplKept
<1>16. ArgsInv'
  BY <1>i, <1>2, <1>10, ArgsKept
<1> QED BY <1>10, <1>12, <1>13, <1>14, <1>15, <1>16 DEF PassInv

-----------------------------------------------------------------------------
(* The return from a block.                                                *)
LEMMA PrefixType ==
  ASSUME NEW S, NEW s \in Seq(S), NEW m \in Nat, NEW t, t = SubSeq(s, 1, Len(s) - m)
  PROVE  t \in Seq(S)
<1>1. Len(s) \in Nat
  OBVIOUS
<1> DEFINE n == Len(s) - m
<1>2. n \in Int /\ \A j \in 1..n : j \in 1..Len(s)
  BY <1>1
<1>3. t = [j \in 1..n |-> s[j]]
  BY <1>1
<1> HIDE DEF n
<1>4. CASE n \in Nat
  BY <1>2, <1>3, <1>4
<1>5. CASE n \notin Nat
  <2>1. 1..n = {}
    BY <1>2, <1>5
  <2>2. 1..n = 1..0
    BY <2>1
  <2>3. t = [j \in 1..0 |-> s[j]]
    BY <1>3, <2>2
  <2>4. \A j \in 1..0 : s[j] \in S
    OBVIOUS
  <2> QED BY <2>3, <2>4
<1> QED BY <1>4, <1>5

LEMMA PushedCounts ==
  ASSUME PassInv, phase = "rename", NEW v
  PROVE  Pushed(v) \in Nat
<1>1. BB \in Block
  BY OnTop DEF PassInv
<1> DEFINE A == {k \in 1..Len(insts[BB]) :
                insts[BB][k].op \in {"phi", "store"} /\ insts[BB][k].var = v}
<1>2. Len(insts[BB]) \in Nat
  BY <1>1, ShapeFacts DEF PassInv
<1>3. IsFiniteSet(1..Len(insts[BB]))
  BY <1>2, FS_Interval
<1>4. IsFiniteSet(A)
  <2>1. A \subseteq 1..Len(insts[BB])
    OBVIOUS
  <2> HIDE DEF A
  <2> QED BY <1>3, <2>1, FS_Subset
<1> HIDE DEF A
<1>5. Cardinality(A) \in Nat
  BY <1>4, FS_CardinalityType
<1> QED BY <1>5 DEF A, Pushed

LEMMA LeaveBlockStep == ASSUME PassInv, LeaveBlock PROVE PassInv' /\ Filled' = Filled
<1>i. GraphInv /\ SetsInv /\ PhaseInv /\ CallsInv /\ ShapeInv /\ ReplInv /\ ArgsInv
  BY DEF PassInv
<1>1. /\ Leaving /\ Frame.filled /\ Frame.children = {}
      /\ stk' = [v \in Var |-> SubSeq(stk[v], 1, Len(stk[v]) - Pushed(v))]
      /\ insts' = [insts EXCEPT ![BB] = Kept(insts[BB], NotStore(insts[BB]))]
      /\ frames' = SubSeq(frames, 1, Len(frames) - 1)
      /\ phase' = IF Len(frames) = 1 THEN "ready" ELSE "rename"
      /\ UNCHANGED <<graph, placing, repl>>
  BY DEF LeaveBlock, Leave, NotStore
<1>2. phase = "rename" /\ UNCHANGED <<fn, body, df, tree, defset, active, var, queue, frontiers, repl>>
  BY <1>1 DEF Leaving, graph, placing
<1>3. /\ Calls(fn, frames) /\ frames \in Seq(FrameType(fn)) /\ frames # << >>
      /\ Frame = frames[Len(frames)] /\ BB = frames[Len(frames)].bb
      /\ BB \in Block /\ BB \in Reachable(fn) /\ BB \notin Past /\ BB \in OpenIn(frames)
      /\ Frame.k = Len(insts[BB]) + 1
      /\ \A j \in 1..Len(frames) : frames[j].bb = BB => j = Len(frames)
  BY <1>i, <1>1, <1>2, OnTop DEF Frame, BB
<1> DEFINE s == frames
           t == frames'
           f == fn
           c == insts[BB]
           e == insts'[BB]
           n == PhisIn(BB)
           past == Past
<1>4. t \in Seq(FrameType(f)) /\ Returned(s, t) /\ (Len(s) = 1 => t = << >>) /\ (Len(s) # 1 => t # << >>)
  <2>1. s \in Seq(FrameType(f)) /\ s # << >>
    BY <1>3
  <2>2. Shorter(s, t)
    BY <1>1 DEF Shorter
  <2> HIDE DEF s, t, f
  <2>3. CallsLeft(f, s, t)
    BY <2>1, <2>2, ReturnedTop
  <2> QED BY <2>3 DEF CallsLeft
<1>5. /\ t # << >> => Calls(f, t)
      /\ OpenIn(t) = OpenIn(s) \ {BB} /\ AheadIn(f, t) = AheadIn(f, s)
      /\ Len(s) = 1 => AheadIn(f, s) = {} /\ OpenIn(s) = {Entry(f)} /\ BB = Entry(f)
  <2>1. Calls(f, s) /\ s[Len(s)].children = {} /\ BB = s[Len(s)].bb
    BY <1>1, <1>3
  <2> HIDE DEF s, t, f
  <2> QED BY <1>4, <2>1, CallsReturned
<1>6. Past' = Past \cup {BB}
  <2>1. BB \notin AheadIn(f, s)
    BY <1>3 DEF Calls
  <2>2. CASE Len(s) = 1
    <3>1. phase' = "ready"
      BY <1>1, <2>2
    <3>2. Past' = Reachable(f)
      BY <1>2, <3>1 DEF Past, PastIn
    <3>3. Past = Reachable(f) \ {BB}
      BY <1>2, <1>5, <2>2 DEF Past, PastIn
    <3> QED BY <1>3, <3>2, <3>3
  <2>3. CASE Len(s) # 1
    <3>1. phase' = "rename"
      BY <1>1, <2>3
    <3> QED BY <1>2, <1>3, <1>5, <2>1, <3>1 DEF Past, PastIn
  <2> QED BY <2>2, <2>3
<1>7. /\ \A b, x : PassedIn(past \cup {BB}, t, b, x) <=> PassedIn(past, s, b, x) \/ b = BB
      /\ FilledIn(past \cup {BB}, t) = FilledIn(past, s)
  <2>1. Calls(f, s) /\ s[Len(s)].filled /\ BB = s[Len(s)].bb
    BY <1>1, <1>3
  <2> HIDE DEF s, t, f, past
  <2> QED BY <1>4, <2>1, PassedByReturn
<1>8. Filled' = Filled
  BY <1>6, <1>7 DEF Filled
<1>9. /\ e = Kept(c, NotStore(c)) /\ c \in Seq(Item) /\ PhiHead(c, n) /\ Len(c) \in Nat
      /\ \A b \in Block : b # BB => insts'[b] = insts[b]
      /\ insts' = [b \in Block |-> IF b = BB THEN e ELSE insts[b]]
  <2>1. insts \in [Block -> Seq(Item)]
    BY <1>i DEF ShapeInv
  <2> QED BY <1>i, <1>1, <1>3, <2>1, ShapeFacts
<1>10. /\ e \in Seq(Item) /\ Bare(e, n) /\ n \in Nat /\ n <= Len(c) /\ n <= Len(e)
       /\ \A k \in 1..n : e[k] = c[k]
  <2> HIDE DEF c, e, n
  <2> QED BY <1>9, KeepBare
<1>11. \A b \in Block : PhisIn(b)' = PhisIn(b)
  <2>2. PhiCount(e) = n
    <3>1. Len(e) \in Nat /\ PhiHead(e, n)
      BY <1>10 DEF Bare
    <3> HIDE DEF e, n
    <3> QED BY <3>1, HeadCounts
  <2>3. ASSUME NEW b \in Block PROVE PhisIn(b)' = PhisIn(b)
    <3>1. PhisIn(b)' = PhiCount(insts'[b])
      BY DEF PhisIn, PhiCount
    <3>2. CASE b = BB
      BY <2>2, <3>1, <3>2
    <3>3. CASE b # BB
      BY <1>9, <3>1, <3>3 DEF PhisIn, PhiCount
    <3> QED BY <3>2, <3>3
  <2> QED BY <2>3
<1>12. GraphInv' /\ SetsInv'
  BY <1>i, <1>2 DEF GraphInv, SetsInv
<1>13. PhaseInv'
  <2>1. phase' \in {"ready", "rename"}
    BY <1>1
  <2>2. stk' \in [Var -> Seq(Finals)]
    <3>1. ASSUME NEW v \in Var PROVE SubSeq(stk[v], 1, Len(stk[v]) - Pushed(v)) \in Seq(Finals)
      <4>1. stk[v] \in Seq(Finals) /\ Pushed(v) \in Nat
        BY <1>2, <1>i, PushedCounts DEF PhaseInv
      <4> DEFINE S == Finals
                 u == SubSeq(stk[v], 1, Len(stk[v]) - Pushed(v))
                 m == Pushed(v)
      <4>2. stk[v] \in Seq(S) /\ m \in Nat /\ u = SubSeq(stk[v], 1, Len(stk[v]) - m)
        BY <4>1
      <4> HIDE DEF S, u, m
      <4>3. u \in Seq(S)
        BY <4>2, PrefixType
      <4> QED BY <4>3 DEF S, u
    <3> QED BY <1>1, <3>1
  <2> QED BY <2>1, <2>2 DEF PhaseInv
<1>14. CallsInv'
  <2>1. InBounds(t, insts')
    <3> DEFINE l == Len(s)
    <3>1. l \in Nat \ {0}
      BY <1>3, FramesOf
    <3>2. Len(t) = l - 1 /\ \A j \in 1..(l - 1) : t[j] = s[j]
      BY <1>4 DEF Returned
    <3>3. \A j \in 1..(l - 1) : j \in 1..l /\ j # l
      <4> HIDE DEF l
      <4> QED BY <3>1
    <3>4. \A j \in 1..l : s[j].bb \in Block
      <4>1. \A j \in 1..l : s[j] \in FrameType(fn)
        BY <1>3
      <4> QED BY <1>i, <4>1, FrameFields, GraphFacts
    <3>5. \A j \in 1..(l - 1) : insts'[s[j].bb] = insts[s[j].bb]
      BY <1>3, <1>9, <3>3, <3>4
    <3>6. InBounds(s, insts)
      BY <1>i DEF CallsInv
    <3> QED BY <3>2, <3>3, <3>5, <3>6 DEF InBounds
  <2>2. phase' # "rename" => t = << >>
    BY <1>1, <1>4
  <2>3. phase' = "rename" => Calls(f, t)
    BY <1>1, <1>4, <1>5
  <2> QED BY <1>2, <2>1, <2>2, <2>3 DEF CallsInv
<1>15. ShapeInv'
  <2>1. ASSUME NEW b \in Block PROVE ShapeOf(b)'
    <3>1. CASE b = BB
      BY <1>6, <1>10, <1>11, <3>1 DEF ShapeOf
    <3>2. CASE b # BB
      <4>1. b \in Past' <=> b \in Past
        BY <1>6, <3>2
      <4>2. ShapeOf(b)
        BY <1>i DEF ShapeInv
      <4> QED BY <1>2, <1>9, <1>11, <3>2, <4>1, <4>2 DEF ShapeOf
    <3> QED BY <3>1, <3>2
  <2>2. insts' \in [Block -> Seq(Item)]
    <3>1. \A b \in Block : insts[b] \in Seq(Item)
      BY <1>i DEF ShapeInv
    <3> HIDE DEF e
    <3> QED BY <1>9, <1>10, <3>1
  <2> QED BY <2>1, <2>2 DEF ShapeInv
<1>16. ReplInv'
  <2>1. ASSUME NEW b \in Reachable(fn), NEW m \in 1..Len(body[b])
        PROVE  Passed(b, m)' <=> Passed(b, m)
    <3>1. b \in Block /\ m \in Nat \ {0}
      BY <1>i, BodyPositions
    <3>2. Passed(b, m)' <=> Passed(b, m) \/ b = BB
      BY <1>6, <1>7, <1>11, <3>1 DEF Passed
    <3>3. ASSUME b = BB PROVE Passed(b, m)
      <4>1. Len(insts[BB]) = PhisIn(BB) + Len(body[BB]) /\ PhisIn(BB) \in Nat /\ Len(body[BB]) \in Nat
        BY <1>i, <1>3, ShapeFacts
      <4>2. PhisIn(b) + m < Frame.k
        BY <1>3, <3>1, <3>3, <4>1
      <4>3. Len(frames) \in 1..Len(frames)
        BY <1>3, FramesOf
      <4> QED BY <1>3, <3>3, <4>2, <4>3 DEF Passed, PassedIn
    <3> QED BY <3>2, <3>3
  <2> QED BY <1>i, <1>2, <2>1, ReplKept
<1>17. ArgsInv'
  <2> SUFFICES ASSUME NEW b \in Reachable(fn), NEW k \in 1..Len(insts'[b]), insts'[b][k].op = "phi"
               PROVE  ArgsFrom(fn, Filled, b, insts'[b][k].args)
    BY <1>2, <1>8 DEF ArgsInv
  <2>1. b \in Block
    BY <1>i, GraphFacts
  <2>2. CASE b # BB
    BY <1>9, <1>i, <2>1, <2>2 DEF ArgsInv
  <2>3. CASE b = BB
    <3>1. k <= n
      BY <1>10, <2>3 DEF Bare, PhiHead
    <3>2. k \in 1..n /\ k \in 1..Len(c)
      <4> DEFINE z == Len(c)
                 y == Len(e)
      <4>1. k \in 1..y /\ y \in Nat /\ z \in Nat /\ n \in Nat /\ n <= z
        BY <1>9, <1>10, <2>3
      <4> HIDE DEF z, y, n
      <4>2. k \in 1..n /\ k \in 1..z
        BY <3>1, <4>1
      <4> QED BY <4>2 DEF z
    <3>3. e[k] = c[k]
      BY <1>10, <3>2
    <3> QED BY <1>i, <2>3, <3>2, <3>3 DEF ArgsInv
  <2> QED BY <2>2, <2>3
<1> QED BY <1>8, <1>12, <1>13, <1>14, <1>15, <1>16, <1>17 DEF PassInv

-----------------------------------------------------------------------------
(* Before rename, and after it, only the phase and what generate_phi or    *)
(* the execution keeps changes.                                            *)
Early == {"collect", "pick", "place"}

LEMMA NoCalls ==
  ASSUME NEW s, s = << >>
  PROVE  (\A b, x : ~PassedIn({}, s, b, x)) /\ FilledIn({}, s) = {}
  BY DEF PassedIn, FilledIn, OpenIn

LEMMA QuietStep ==
  ASSUME PassInv, UNCHANGED <<fn, body, df, tree, insts, stk, frames, repl>>, Past' = Past, SetsInv',
         phase' \in {"collect", "pick", "place", "rename", "ready", "run"},
         phase' = "rename" <=> phase = "rename", phase' \in Early => phase \in Early
  PROVE  PassInv'
<1>1. GraphInv' /\ PhaseInv' /\ CallsInv'
  BY DEF PassInv, GraphInv, PhaseInv, CallsInv, Early
<1>2. \A b : PhisIn(b)' = PhisIn(b)
  BY DEF PhisIn
<1>3. \A b : ShapeOf(b)' <=> ShapeOf(b)
  BY <1>2 DEF ShapeOf
<1>4. ShapeInv'
  BY <1>3 DEF PassInv, ShapeInv
<1>5. Filled' = Filled /\ \A b, m : Passed(b, m)' <=> Passed(b, m)
  BY <1>2 DEF Filled, Passed
<1>6. \A l : IsReplaced(l)' <=> IsReplaced(l)
  BY <1>5 DEF IsReplaced
<1>7. ReplInv' /\ ArgsInv'
  BY <1>5, <1>6 DEF PassInv, ReplInv, ArgsInv
<1> QED BY <1>1, <1>4, <1>7 DEF PassInv

LEMMA InitPass == ASSUME Init PROVE PassInv
<1>1. PICK f \in Functions : fn = f.cfg /\ body = f.body
  BY DEF Init
<1>2. /\ insts = body /\ phase = "collect" /\ frames = << >> /\ repl = << >>
      /\ defset = [v \in Var |-> {}] /\ active = {} /\ queue = {} /\ frontiers = {}
      /\ stk = [v \in Var |-> << >>] /\ var \in Var
  BY VarAssumption DEF Init
<1>3. GraphInv
  BY <1>1 DEF Init, GraphInv, Kids
<1>4. SetsInv
  BY <1>2 DEF SetsInv
<1>5. ASSUME NEW b \in Block
      PROVE  /\ insts[b] \in Seq(Item) /\ Arranged(insts[b], body[b], repl, PhisIn(b))
             /\ PhisIn(b) = 0
  <2> DEFINE c == body[b]
  <2>1. c \in Seq(Entering) /\ insts[b] = c /\ repl = << >> /\ Len(c) \in Nat
    BY <1>2, <1>3, GraphFacts
  <2>2. PhisIn(b) = PhiCount(c)
    BY <2>1 DEF PhisIn, PhiCount
  <2> DEFINE z == 0
  <2> HIDE DEF c
  <2>3. c \in Seq(Item) /\ Arranged(c, c, repl, z)
    BY <2>1, BodyArranged
  <2>4. PhiHead(c, z)
    BY <2>3 DEF Arranged
  <2>5. PhiCount(c) = z
    <3> HIDE DEF z
    <3> QED BY <2>1, <2>4, HeadCounts
  <2> QED BY <2>1, <2>2, <2>3, <2>5 DEF c
<1>6. \A b \in Block : \A k \in 1..Len(insts[b]) : insts[b][k].op # "phi"
  BY <1>5 DEF Arranged, PhiHead
<1>7. PhaseInv
  <2>1. << >> \in Seq(Finals)
    OBVIOUS
  <2> QED BY <1>2, <1>6, <2>1 DEF PhaseInv
<1>8. CallsInv
  BY <1>2 DEF CallsInv, InBounds
<1>9. Past = {}
  BY <1>2 DEF Past, PastIn
<1>10. ShapeInv
  <2>1. insts = [b \in Block |-> insts[b]]
    BY <1>2, <1>3, GraphFacts
  <2>2. insts \in [Block -> Seq(Item)]
    BY <1>5, <2>1
  <2> QED BY <1>5, <1>9, <2>2 DEF ShapeInv, ShapeOf
<1>11. \A b, m : ~Passed(b, m)
  BY <1>2, <1>9, NoCalls DEF Passed
<1>12. ReplInv
  BY <1>2, <1>11 DEF ReplInv, FinalValues, IsReplaced
<1>13. ArgsInv
  BY <1>3, <1>6, GraphFacts DEF ArgsInv
<1> QED BY <1>3, <1>4, <1>7, <1>8, <1>10, <1>12, <1>13 DEF PassInv

-----------------------------------------------------------------------------
(* generate_phi.                                                           *)
LEMMA EarlyFacts ==
  ASSUME PassInv, phase \in Early
  PROVE  /\ frames = << >> /\ repl = << >> /\ Past = {} /\ Filled = {}
         /\ \A b \in Block : \A k \in 1..Len(insts[b]) :
              insts[b][k].op = "phi" => insts[b][k].args = << >>
         /\ \A b \in Block : Arranged(insts[b], body[b], repl, PhisIn(b))
<1>1. frames = << >> /\ repl = << >>
  BY DEF PassInv, CallsInv, PhaseInv, Early
<1>2. Past = {}
  BY DEF Past, PastIn, Early
<1>3. Filled = {}
  BY <1>1, <1>2, NoCalls DEF Filled
<1>4. \A b \in Block : \A k \in 1..Len(insts[b]) :
              insts[b][k].op = "phi" => insts[b][k].args = << >>
  BY DEF PassInv, PhaseInv, Early
<1>5. \A b \in Block : Arranged(insts[b], body[b], repl, PhisIn(b))
  BY <1>2 DEF PassInv, ShapeInv, ShapeOf
<1> QED BY <1>1, <1>2, <1>3, <1>4, <1>5

LEMMA CollectDefsStep == ASSUME PassInv, CollectDefs PROVE PassInv'
<1>1. /\ phase = "collect" /\ phase' = "pick"
      /\ defset' = [v \in Var |-> DefBlocks(v)] /\ active' = {v \in Var : DefBlocks(v) # {}}
      /\ UNCHANGED <<fn, body, df, tree, insts, var, queue, frontiers, stk, frames, repl>>
  BY DEF CollectDefs, graph, renaming
<1>2. \A v \in Var : DefBlocks(v) \subseteq Block
  BY GraphFacts DEF PassInv, DefBlocks
<1>3. SetsInv'
  BY <1>1, <1>2 DEF PassInv, SetsInv
<1>4. Past' = Past
  BY <1>1 DEF Past, PastIn
<1> QED BY <1>1, <1>3, <1>4, QuietStep DEF Early

LEMMA PickVariableStep == ASSUME PassInv, PickVariable PROVE PassInv'
<1>1. PICK v \in active :
        /\ var' = v /\ active' = active \ {v}
        /\ IF PrunedVariable(v) THEN phase' = "pick" /\ UNCHANGED queue
                                ELSE phase' = "place" /\ queue' = defset[v]
  BY DEF PickVariable
<1>2. /\ phase = "pick" /\ frontiers' = {}
      /\ UNCHANGED <<fn, body, df, tree, insts, defset, stk, frames, repl>>
  BY DEF PickVariable, graph, renaming
<1>3. phase' \in {"pick", "place"}
  BY <1>1
<1>4. SetsInv'
  BY <1>1, <1>2 DEF PassInv, SetsInv
<1>5. Past' = Past
  BY <1>2, <1>3 DEF Past, PastIn
<1> QED BY <1>2, <1>3, <1>4, <1>5, QuietStep DEF Early

LEMMA VariablePlacedStep == ASSUME PassInv, VariablePlaced PROVE PassInv'
<1>1. /\ phase = "place" /\ phase' = "pick"
      /\ UNCHANGED <<fn, body, df, tree, insts, defset, active, var, queue, frontiers, stk, frames, repl>>
  BY DEF VariablePlaced, graph, placing, renaming
<1>2. SetsInv'
  BY <1>1 DEF PassInv, SetsInv
<1>3. Past' = Past
  BY <1>1 DEF Past, PastIn
<1> QED BY <1>1, <1>2, <1>3, QuietStep DEF Early

LEMMA PlacePhisStep == ASSUME PassInv, PlacementInv, PlacePhis PROVE PassInv'
<1>i. GraphInv /\ SetsInv /\ PhaseInv /\ ShapeInv
  BY DEF PassInv
<1>1. PICK bb \in queue :
         /\ frontiers' = frontiers \cup (df[bb] \ frontiers)
         /\ insts' = [b \in Block |-> IF b \in df[bb] \ frontiers
                                      THEN <<PhiInst(var)>> \o insts[b] ELSE insts[b]]
         /\ queue' = (queue \ {bb}) \cup ((df[bb] \ frontiers) \ defset[var])
         /\ defset' = [defset EXCEPT ![var] = @ \cup (df[bb] \ frontiers)]
  BY DEF PlacePhis, Place, NewPhis, Joining
<1>2. /\ phase = "place" /\ phase' = "place" /\ phase \in Early
      /\ UNCHANGED <<fn, body, df, tree, active, var, stk, frames, repl>>
  BY DEF PlacePhis, Place, graph, renaming, Early
<1>3. /\ frames = << >> /\ repl = << >> /\ Past = {} /\ var \in Var
      /\ \A b \in Block : Arranged(insts[b], body[b], repl, PhisIn(b))
  BY <1>i, <1>2, EarlyFacts DEF SetsInv
<1> DEFINE new == df[bb] \ frontiers
           x == PhiInst(var)
<1>4. new \subseteq Block
  BY <1>i, GraphFacts DEF SetsInv
<1>5. x \in Item /\ x.op = "phi" /\ x.var = var /\ x.args = << >>
  BY <1>3, PhiInstItem
<1>6. ASSUME NEW b \in new
      PROVE  /\ b \in Block /\ Headed(x, insts[b], insts'[b])
             /\ Arranged(insts'[b], body[b], repl, PhisIn(b) + 1)
  <2> DEFINE c == insts[b]
             e == insts'[b]
             n == PhisIn(b)
             code == body[b]
  <2>1. b \in Block /\ c \in Seq(Item) /\ code \in Seq(Entering) /\ Arranged(c, code, repl, n) /\ Len(c) \in Nat
        /\ n \in Nat /\ n <= Len(c)
    BY <1>i, <1>3, <1>4, ShapeFacts
  <2>2. e = <<x>> \o c
    BY <1>1, <2>1
  <2>3. Headed(x, c, e)
    <3> HIDE DEF x, c, e
    <3> QED BY <1>5, <2>1, <2>2, PrependHeads
  <2>4. \A k \in 1..n : c[k].var # var
    <3>1. PhisOf(var, b) = {}
      BY <1>2, <2>1 DEF PlacementInv, QueueInv, OnePhiEach
    <3>2. \A k \in 1..n : k \in 1..Len(c)
      BY <2>1
    <3>3. \A k \in 1..n : c[k].op = "phi"
      BY <2>1, <3>2 DEF Arranged, PhiHead
    <3> QED BY <3>1, <3>2, <3>3 DEF PhisOf
  <2>5. Arranged(e, code, repl, n + 1)
    <3>1. x = PhiInst(var)
      OBVIOUS
    <3> HIDE DEF x, c, e, n, code
    <3> QED BY <1>3, <2>1, <2>3, <2>4, <3>1, PrependArranges
  <2> QED BY <2>1, <2>3, <2>5
<1>7. \A b \in Block : b \notin new => insts'[b] = insts[b]
  BY <1>1
<1>8. ASSUME NEW b \in Block
      PROVE  insts'[b] \in Seq(Item) /\ Arranged(insts'[b], body[b], repl, PhisIn(b)')
  <2>1. CASE b \in new
    <3> DEFINE e == insts'[b]
               n == PhisIn(b) + 1
    <3>1. e \in Seq(Item) /\ Arranged(e, body[b], repl, n)
      BY <1>6, <2>1 DEF Headed
    <3>2. PhisIn(b)' = PhiCount(e)
      BY DEF PhisIn, PhiCount
    <3> HIDE DEF e, n
    <3>3. PhiHead(e, n) /\ Len(e) \in Nat
      BY <3>1 DEF Arranged
    <3>4. PhiCount(e) = n
      BY <3>3, HeadCounts
    <3> QED BY <3>1, <3>2, <3>4 DEF e
  <2>2. CASE b \notin new
    <3>1. PhisIn(b)' = PhisIn(b)
      BY <1>7, <2>2 DEF PhisIn
    <3> QED BY <1>i, <1>3, <1>7, <2>2, <3>1, ShapeFacts
  <2> QED BY <2>1, <2>2
<1>9. ASSUME NEW b \in Block, NEW k \in 1..Len(insts'[b]), insts'[b][k].op = "phi"
      PROVE  insts'[b][k].args = << >>
  <2>1. \A j \in 1..Len(insts[b]) : insts[b][j].op = "phi" => insts[b][j].args = << >>
    BY <1>2, EarlyFacts
  <2>2. CASE b \in new
    <3> DEFINE c == insts[b]
               e == insts'[b]
               l == Len(c)
    <3>1. l \in Nat /\ Len(e) = l + 1 /\ e[1] = x /\ \A j \in 1..l : e[j + 1] = c[j]
      BY <1>i, <1>6, <2>2, ShapeFacts DEF Headed
    <3>2. CASE k = 1
      BY <1>5, <3>1, <3>2
    <3>3. CASE k # 1
      <4> DEFINE j == k - 1
      <4>1. k \in 1..(l + 1)
        BY <3>1
      <4>2. j \in 1..l /\ j + 1 = k
        <5> HIDE DEF l
        <5> QED BY <3>1, <3>3, <4>1
      <4>3. e[k] = c[j]
        <5> HIDE DEF j, c, e, l
        <5> QED BY <3>1, <4>2
      <4> QED BY <1>9, <2>1, <4>2, <4>3
    <3> QED BY <3>2, <3>3
  <2>3. CASE b \notin new
    BY <1>7, <1>9, <2>1, <2>3
  <2> QED BY <2>2, <2>3
<1>10. GraphInv' /\ CallsInv'
  BY <1>i, <1>2, <1>3 DEF GraphInv, CallsInv, InBounds
<1>11. SetsInv'
  BY <1>i, <1>1, <1>2, <1>4 DEF SetsInv
<1>12. PhaseInv'
  BY <1>i, <1>2, <1>9 DEF PhaseInv
<1>13. Past' = {}
  BY <1>2 DEF Past, PastIn
<1>14. ShapeInv'
  <2>1. insts' = [b \in Block |-> insts'[b]]
    BY <1>1
  <2>2. insts' \in [Block -> Seq(Item)]
    BY <1>8, <2>1
  <2> QED BY <1>2, <1>8, <1>13, <2>2 DEF ShapeInv, ShapeOf
<1>15. \A b, m : ~Passed(b, m)'
  BY <1>2, <1>3, <1>13, NoCalls DEF Passed
<1>16. ReplInv'
  BY <1>2, <1>3, <1>15 DEF ReplInv, FinalValues, IsReplaced
<1>17. ArgsInv'
  <2>1. Reachable(fn) \subseteq Block
    BY <1>i, GraphFacts
  <2> QED BY <1>2, <1>9, <2>1 DEF ArgsInv, ArgsFrom
<1> QED BY <1>10, <1>11, <1>12, <1>14, <1>16, <1>17 DEF PassInv

-----------------------------------------------------------------------------
(* The first call of rename.                                               *)
LEMMA BeginRenameStep == ASSUME PassInv, BeginRename PROVE PassInv' /\ Filled' = Filled
<1>i. GraphInv /\ SetsInv /\ PhaseInv /\ ShapeInv /\ ArgsInv
  BY DEF PassInv
<1>1. /\ phase = "pick" /\ phase' = "rename" /\ phase \in Early /\ frames' = <<Call(Entry(fn))>>
      /\ UNCHANGED <<fn, body, df, tree, insts, defset, active, var, queue, frontiers, stk, repl>>
  BY DEF BeginRename, graph, placing, Early
<1>2. FlowGraph(fn) /\ Graph(fn) /\ Entry(fn) \in Block /\ Entry(fn) \in Reachable(fn)
  BY <1>i, GraphFacts, EntryReached
<1> DEFINE f == fn
           x == CallOf(f, Entry(f))
           t == frames'
<1>3. FlowGraph(f) /\ t = <<x>>
  BY <1>i, <1>1, <1>2, GraphFacts DEF Call, CallOf
<1>4. /\ Calls(f, t) /\ OpenIn(t) = {Entry(f)} /\ AheadIn(f, t) = Reachable(f) \ {Entry(f)}
      /\ \A b : \A k \in Nat \ {0} : ~PassedIn({}, t, b, k)
      /\ FilledIn({}, t) = {}
  <2>1. x = CallOf(f, Entry(f))
    OBVIOUS
  <2> HIDE DEF x, t, f
  <2> QED BY <1>3, <2>1, CallsStart, PassedAtStart
<1>5. Past' = {}
  BY <1>1, <1>2, <1>4 DEF Past, PastIn
<1>6. Filled' = {}
  BY <1>4, <1>5 DEF Filled
<1>7. repl = << >> /\ Past = {} /\ Filled = {}
  BY <1>1, EarlyFacts
<1>8. \A b : PhisIn(b)' = PhisIn(b)
  BY <1>1 DEF PhisIn
<1>9. GraphInv' /\ SetsInv' /\ PhaseInv'
  BY <1>i, <1>1 DEF GraphInv, SetsInv, PhaseInv, Early
<1>10. CallsInv'
  <2>1. Len(t) = 1 /\ t[1] = x /\ x.bb = Entry(f) /\ x.k = 1 /\ ~x.filled
    <3>1. x.bb = Entry(f) /\ x.k = 1 /\ ~x.filled
      BY DEF CallOf
    <3> HIDE DEF x
    <3> QED BY <1>3, <3>1
  <2>2. Len(insts[Entry(f)]) \in Nat
    BY <1>i, <1>2, ShapeFacts
  <2>3. InBounds(t, insts')
    <3> DEFINE l == Len(insts[Entry(f)])
    <3>1. l \in Nat /\ 1 <= l + 1
      BY <2>2
    <3> HIDE DEF x
    <3> QED BY <1>1, <2>1, <3>1 DEF InBounds
  <2> QED BY <1>1, <1>4, <2>3 DEF CallsInv
<1>11. ShapeInv'
  <2>1. \A b : ShapeOf(b)' <=> ShapeOf(b)
    BY <1>1, <1>5, <1>7, <1>8 DEF ShapeOf
  <2> QED BY <1>i, <1>1, <2>1 DEF ShapeInv
<1>12. ReplInv'
  <2>1. ASSUME NEW b \in Reachable(fn), NEW m \in 1..Len(body[b]) PROVE ~Passed(b, m)'
    <3>1. b \in Block /\ m \in Nat \ {0}
      BY <1>i, BodyPositions
    <3> DEFINE k == PhisIn(b) + m
    <3>2. k \in Nat \ {0}
      BY <1>i, <3>1, ShapeFacts
    <3>3. ~PassedIn({}, t, b, k)
      <4> HIDE DEF k, t
      <4> QED BY <1>4, <3>2
    <3> QED BY <1>5, <1>8, <3>3 DEF Passed
  <2>2. \A l : ~IsReplaced(l)'
    BY <1>1, <2>1 DEF IsReplaced
  <2> QED BY <1>1, <1>7, <2>2 DEF ReplInv, FinalValues
<1>13. ArgsInv'
  BY <1>i, <1>1, <1>6, <1>7 DEF ArgsInv
<1> QED BY <1>6, <1>7, <1>9, <1>10, <1>11, <1>12, <1>13 DEF PassInv

-----------------------------------------------------------------------------
(* The execution changes nothing the pass left.                            *)
LEMMA ExecutionStep ==
  ASSUME PassInv, Start \/ ExecuteStore \/ ExecuteLoad \/ Jump
  PROVE  PassInv'
<1>1. /\ phase \in {"ready", "run"} /\ phase' = "run"
      /\ UNCHANGED <<fn, body, df, tree, insts, defset, active, var, queue, frontiers, stk, frames, repl>>
  BY DEF Start, ExecuteStore, ExecuteLoad, Jump, Running, graph, placing, renaming
<1>2. SetsInv'
  BY <1>1 DEF PassInv, SetsInv
<1>3. Past' = Past
  BY <1>1 DEF Past, PastIn
<1> QED BY <1>1, <1>2, <1>3, QuietStep DEF Early

LEMMA NextPass == PassInv /\ PlacementInv /\ [Next]_vars => PassInv'
<1> SUFFICES ASSUME PassInv, PlacementInv, [Next]_vars PROVE PassInv'
  OBVIOUS
<1>1. CASE CollectDefs
  BY <1>1, CollectDefsStep
<1>2. CASE PickVariable
  BY <1>2, PickVariableStep
<1>3. CASE PlacePhis
  BY <1>3, PlacePhisStep
<1>4. CASE VariablePlaced
  BY <1>4, VariablePlacedStep
<1>5. CASE BeginRename
  BY <1>5, BeginRenameStep
<1>6. CASE RenamePhi
  BY <1>6, RenamePhiStep
<1>7. CASE RenameStore
  BY <1>7, RenameStoreStep
<1>8. CASE RenameLoad
  BY <1>8, RenameLoadStep
<1>9. CASE FillSuccessors
  BY <1>9, FillSuccessorsStep
<1>10. CASE RenameChild
  BY <1>10, RenameChildStep
<1>11. CASE LeaveBlock
  BY <1>11, LeaveBlockStep
<1>12. CASE Start \/ ExecuteStore \/ ExecuteLoad \/ Jump
  BY <1>12, ExecutionStep
<1>13. CASE UNCHANGED vars
  <2>1. UNCHANGED <<fn, body, df, tree, insts, phase, defset, active, var, queue, frontiers, stk, frames, repl>>
    BY <1>13 DEF vars
  <2>2. SetsInv' /\ Past' = Past
    BY <2>1 DEF PassInv, SetsInv, Past
  <2>3. phase \in {"collect", "pick", "place", "rename", "ready", "run"}
    BY DEF PassInv, PhaseInv
  <2> QED BY <2>1, <2>2, <2>3, QuietStep
<1> QED BY <1>1, <1>2, <1>3, <1>4, <1>5, <1>6, <1>7, <1>8, <1>9, <1>10, <1>11, <1>12, <1>13
        DEF Next, PassNext

LEMMA PassInductive == Spec => [](PassInv /\ PlacementInv)
<1>1. Init => PassInv /\ PlacementInv
  BY InitPass, InitPlacement
<1>2. PassInv /\ PlacementInv /\ [Next]_vars => (PassInv /\ PlacementInv)'
  BY NextPass, NextPlacement
<1> QED BY <1>1, <1>2, PTL DEF Spec

(* What is where in every state of the pass and of the execution: phases,  *)
(* variables and queues, the instructions of every block, and for every    *)
(* open call of rename a position that is in its block or just behind it.  *)
THEOREM PassTyped == Spec => []TypeOK
<1>1. PassInv => TypeOK
  <2> SUFFICES ASSUME PassInv PROVE TypeOK
    OBVIOUS
  <2>i. GraphInv /\ SetsInv /\ PhaseInv /\ CallsInv /\ ShapeInv
    BY DEF PassInv
  <2>1. ASSUME NEW b \in Block, NEW k \in 1..Len(insts[b])
        PROVE  insts[b][k].op \in {"store", "load", "phi"} /\ insts[b][k].var \in Var
    <3>1. insts[b][k] \in Item
      BY <2>i, ShapeFacts
    <3> QED BY <3>1, ItemFields
  <2>2. ASSUME NEW j \in 1..Len(frames)
        PROVE  /\ frames[j].bb \in Blocks /\ frames[j].children \subseteq Blocks
               /\ frames[j].k \in 1..(Len(insts[frames[j].bb]) + 1)
    <3>1. phase = "rename"
      BY <2>i DEF CallsInv
    <3>2. Calls(fn, frames) /\ frames \in Seq(FrameType(fn)) /\ frames # << >>
      BY <2>i, <3>1, OnTop
    <3>3. frames[j] \in FrameType(fn)
      BY <3>2, FramesOf
    <3>4. frames[j].bb \in Reachable(fn) /\ frames[j].k \in Nat \ {0}
      BY <3>3, FrameFields
    <3>5. frames[j].children \subseteq Kids(fn, frames[j].bb)
      BY <3>2 DEF Calls
    <3>6. frames[j].bb \in Block /\ frames[j].bb \in Blocks /\ Reachable(fn) \subseteq Blocks
      BY <2>i, <3>4, GraphFacts
    <3>7. frames[j].k <= Len(insts[frames[j].bb]) + 1
      BY <2>i DEF CallsInv, InBounds
    <3>8. Len(insts[frames[j].bb]) \in Nat
      BY <2>i, <3>6, ShapeFacts
    <3>9. frames[j].k \in 1..(Len(insts[frames[j].bb]) + 1)
      BY <3>4, <3>7, <3>8
    <3> QED BY <3>5, <3>6, <3>9 DEF Kids
  <2> QED BY <2>i, <2>1, <2>2 DEF TypeOK, SetsInv, PhaseInv
<1> QED BY <1>1, PassInductive, PTL

(* When the pass is over, rename has visited every block that control      *)
(* reaches: no store is left there, every load that entered the pass was   *)
(* replaced, and a phi has operands from predecessors of its block only,   *)
(* one from each at most.                                                  *)
THEOREM PassLeavesNothingBehind == Spec => []NothingLeftBehind
<1>1. PassInv => NothingLeftBehind
  <2> SUFFICES ASSUME PassInv, phase \in {"ready", "run"}, NEW b \in Reachable(fn)
               PROVE  /\ \A k \in 1..Len(body[b]) : body[b][k].op = "load" => Load(b, k) \in DOMAIN repl
                      /\ \A k \in 1..Len(insts[b]) :
                           /\ insts[b][k].op # "store"
                           /\ insts[b][k].op = "phi" =>
                                LET args == insts[b][k].args IN
                                /\ \A a \in 1..Len(args) : args[a][2] \in Members(fn.pre[b])
                                /\ \A a, c \in 1..Len(args) : args[a][2] = args[c][2] => a = c
    BY DEF NothingLeftBehind
  <2>i. GraphInv /\ ShapeInv /\ ReplInv /\ ArgsInv
    BY DEF PassInv
  <2>1. Past = Reachable(fn)
    BY DEF Past, PastIn
  <2>2. b \in Block /\ b \in Blocks /\ FlowGraph(fn) /\ Graph(fn)
    BY <2>i, GraphFacts
  <2>3. ASSUME NEW k \in 1..Len(body[b]), body[b][k].op = "load" PROVE Load(b, k) \in DOMAIN repl
    <3>1. Passed(b, k)
      BY <2>1 DEF Passed, PassedIn
    <3> QED BY <2>i, <2>3, <3>1 DEF ReplInv, IsReplaced
  <2>4. ASSUME NEW k \in 1..Len(insts[b]) PROVE insts[b][k].op # "store"
    <3>1. Bare(insts[b], PhisIn(b)) /\ PhisIn(b) \in Nat
      BY <2>i, <2>1, <2>2, ShapeFacts DEF ShapeInv, ShapeOf
    <3>2. Len(insts[b]) \in Nat
      BY <2>i, <2>2, ShapeFacts
    <3>3. k <= PhisIn(b) \/ PhisIn(b) < k
      BY <3>1, <3>2
    <3> QED BY <3>1, <3>3 DEF Bare, PhiHead
  <2>5. ASSUME NEW k \in 1..Len(insts[b]), insts[b][k].op = "phi",
               NEW args, args = insts[b][k].args
        PROVE  /\ \A a \in 1..Len(args) : args[a][2] \in Members(fn.pre[b])
               /\ \A a, c \in 1..Len(args) : args[a][2] = args[c][2] => a = c
    <3>1. ArgsFrom(fn, Filled, b, args)
      BY <2>i, <2>5 DEF ArgsInv
    <3>2. ASSUME NEW a \in 1..Len(args) PROVE args[a][2] \in Members(fn.pre[b])
      <4>1. Step(fn, args[a][2], b) /\ args[a][2] \in Filled
        BY <3>1 DEF ArgsFrom
      <4>2. frames = << >>
        BY DEF PassInv, CallsInv
      <4>3. args[a][2] \in Blocks
        BY <2>i, <2>1, <4>1, <4>2, GraphFacts DEF Filled, FilledIn, OpenIn
      <4>4. b \in Members(fn.succ[args[a][2]]) /\ args[a][2] \in Members(fn.blocks)
        BY <4>1, <4>3 DEF Step, Blocks
      <4> QED BY <2>2, <4>4 DEF FlowGraph, Blocks
    <3> QED BY <3>1, <3>2 DEF ArgsFrom
  <2> QED BY <2>3, <2>4, <2>5
<1> QED BY <1>1, PassInductive, PTL

-----------------------------------------------------------------------------
(* The places of a stack: a pair is a call and a position in its block,    *)
(* and its place is the number of pairs up to it.                          *)
UpTo(q, p) == q[1] < p[1] \/ (q[1] = p[1] /\ q[2] <= p[2])
Rank(S, p) == Cardinality({q \in S : UpTo(q, p)})

LEMMA UpToOrders ==
  ASSUME NEW p \in Nat \X Nat, NEW q \in Nat \X Nat
  PROVE  /\ UpTo(p, p)
         /\ UpTo(p, q) \/ UpTo(q, p)
         /\ UpTo(p, q) /\ UpTo(q, p) => p = q
         /\ \A r \in Nat \X Nat : UpTo(r, p) /\ UpTo(p, q) => UpTo(r, q)
<1> DEFINE a == p[1]
           b == p[2]
           c == q[1]
           d == q[2]
<1>1. a \in Nat /\ b \in Nat /\ c \in Nat /\ d \in Nat /\ p = <<a, b>> /\ q = <<c, d>>
  OBVIOUS
<1> HIDE DEF a, b, c, d
<1>2. (UpTo(p, q) <=> a < c \/ (a = c /\ b <= d)) /\ (UpTo(q, p) <=> c < a \/ (c = a /\ d <= b))
      /\ (UpTo(p, p) <=> a < a \/ (a = a /\ b <= b))
  BY DEF UpTo, a, b, c, d
<1>3. ASSUME NEW r \in Nat \X Nat, UpTo(r, p), UpTo(p, q) PROVE UpTo(r, q)
  <2> DEFINE x == r[1]
             y == r[2]
  <2>1. x \in Nat /\ y \in Nat
    OBVIOUS
  <2>2. x < a \/ (x = a /\ y <= b)
    BY <1>3 DEF UpTo, a, b
  <2>3. (x < c \/ (x = c /\ y <= d)) => UpTo(r, q)
    BY DEF UpTo, c, d
  <2> HIDE DEF x, y
  <2> QED BY <1>1, <1>2, <1>3, <2>1, <2>2, <2>3
<1>4. UpTo(p, p) /\ (UpTo(p, q) \/ UpTo(q, p)) /\ (UpTo(p, q) /\ UpTo(q, p) => a = c /\ b = d)
  BY <1>1, <1>2
<1> QED BY <1>1, <1>3, <1>4

LEMMA RankIn ==
  ASSUME NEW S, S \subseteq Nat \X Nat, IsFiniteSet(S), NEW p \in S
  PROVE  /\ Cardinality(S) \in Nat /\ Rank(S, p) \in 1..Cardinality(S)
         /\ (\A q \in S : UpTo(q, p)) => Rank(S, p) = Cardinality(S)
<1> DEFINE T == {q \in S : UpTo(q, p)}
<1>1. T \subseteq S /\ p \in T
  BY UpToOrders
<1>2. (\A q \in S : UpTo(q, p)) => T = S
  OBVIOUS
<1>3. Rank(S, p) = Cardinality(T)
  BY DEF Rank
<1> HIDE DEF T
<1>4. IsFiniteSet(T) /\ Cardinality(T) <= Cardinality(S)
  BY <1>1, FS_Subset
<1>5. Cardinality(T) \in Nat /\ Cardinality(S) \in Nat
  BY <1>4, FS_CardinalityType
<1>6. Cardinality(T) # 0
  BY <1>1, <1>4, FS_EmptySet
<1> DEFINE x == Cardinality(T)
           y == Cardinality(S)
<1>7. x \in 1..y
  <2>1. x \in Nat /\ y \in Nat /\ x <= y /\ x # 0
    BY <1>4, <1>5, <1>6
  <2> HIDE DEF x, y
  <2> QED BY <2>1
<1> QED BY <1>2, <1>3, <1>5, <1>7

LEMMA RankGrows ==
  ASSUME NEW S, S \subseteq Nat \X Nat, IsFiniteSet(S), NEW p \in S, NEW q \in S, ~UpTo(q, p)
  PROVE  Rank(S, p) < Rank(S, q)
<1> DEFINE T == {r \in S : UpTo(r, p)}
           U == {r \in S : UpTo(r, q)}
<1>1. p \in Nat \X Nat /\ q \in Nat \X Nat /\ UpTo(p, q)
  BY UpToOrders
<1>2. T \subseteq U /\ q \in U /\ q \notin T /\ U \subseteq S
  BY <1>1, UpToOrders
<1>3. Rank(S, p) = Cardinality(T) /\ Rank(S, q) = Cardinality(U)
  BY DEF Rank
<1> HIDE DEF T, U
<1>4. IsFiniteSet(U)
  BY <1>2, FS_Subset
<1>5. IsFiniteSet(T) /\ Cardinality(T) <= Cardinality(U) /\ (Cardinality(U) = Cardinality(T) => U = T)
  BY <1>2, <1>4, FS_Subset
<1>6. Cardinality(T) \in Nat /\ Cardinality(U) \in Nat
  BY <1>4, <1>5, FS_CardinalityType
<1>7. Cardinality(T) # Cardinality(U)
  BY <1>2, <1>5
<1> QED BY <1>3, <1>5, <1>6, <1>7

LEMMA LastExists ==
  ASSUME NEW S, S \subseteq Nat \X Nat, IsFiniteSet(S), S # {}
  PROVE  \E p \in S : (\A q \in S : UpTo(q, p)) /\ Rank(S, p) = Cardinality(S)
<1> DEFINE n == Cardinality(S)
           T == {m \in Nat : \E p \in S : m = n - Rank(S, p)}
<1>1. n \in Nat /\ \A p \in S : Rank(S, p) \in 1..n
  BY RankIn
<1>2. ASSUME NEW p \in S PROVE n - Rank(S, p) \in T
  <2> DEFINE r == Rank(S, p)
  <2>1. n \in Nat /\ r \in 1..n
    BY <1>1
  <2>2. n - r \in Nat
    <3> HIDE DEF n, r
    <3> QED BY <2>1
  <2> QED BY <2>2
<1>3. T # {} /\ T \subseteq Nat
  BY <1>2
<1> HIDE DEF T
<1>4. PICK m \in T : \A k \in T : m <= k
  BY <1>3, LeastElement
<1>5. PICK p \in S : m = n - Rank(S, p)
  BY <1>4 DEF T
<1>6. ASSUME NEW q \in S, ~UpTo(q, p) PROVE FALSE
  <2> DEFINE r == Rank(S, p)
             t == Rank(S, q)
  <2>1. r < t
    BY <1>6, RankGrows
  <2>2. n - r <= n - t
    BY <1>2, <1>4, <1>5
  <2>3. n \in Nat /\ r \in 1..n /\ t \in 1..n
    BY <1>1
  <2> HIDE DEF n, r, t
  <2> QED BY <2>1, <2>2, <2>3
<1> QED BY <1>6, RankIn

(* One more pair, behind all others.                                       *)
Behind(S, p) == p \in Nat \X Nat /\ p \notin S /\ \A q \in S : UpTo(q, p)

RanksAdded(S, T, p) ==
    /\ T \subseteq Nat \X Nat /\ IsFiniteSet(T) /\ Cardinality(T) = Cardinality(S) + 1
    /\ Rank(T, p) = Cardinality(S) + 1
    /\ \A q \in S : Rank(T, q) = Rank(S, q)

LEMMA RankAdds ==
  ASSUME NEW S, S \subseteq Nat \X Nat, IsFiniteSet(S), NEW p, Behind(S, p), NEW T, T = S \cup {p}
  PROVE  RanksAdded(S, T, p)
<1>0. p \in Nat \X Nat /\ p \notin S /\ \A q \in S : UpTo(q, p)
  BY DEF Behind
<1>1. IsFiniteSet(T) /\ Cardinality(T) = Cardinality(S) + 1 /\ T \subseteq Nat \X Nat
  BY <1>0, FS_AddElement
<1>2. Rank(T, p) = Cardinality(T)
  BY <1>0, <1>1, UpToOrders, RankIn
<1>3. ASSUME NEW q \in S PROVE Rank(T, q) = Rank(S, q)
  <2>1. ~UpTo(p, q)
    BY <1>0, UpToOrders
  <2>2. {r \in T : UpTo(r, q)} = {r \in S : UpTo(r, q)}
    BY <2>1
  <2> QED BY <2>2 DEF Rank
<1> QED BY <1>1, <1>2, <1>3 DEF RanksAdded

(* The pairs from a point on go.                                           *)
LEMMA RankKept ==
  ASSUME NEW S, S \subseteq Nat \X Nat, IsFiniteSet(S), NEW T, T \subseteq S,
         \A p \in T : \A q \in S : UpTo(q, p) => q \in T
  PROVE  /\ IsFiniteSet(T) /\ T \subseteq Nat \X Nat
         /\ \A p \in T : Rank(T, p) = Rank(S, p) /\ Rank(S, p) <= Cardinality(T)
<1>1. IsFiniteSet(T) /\ T \subseteq Nat \X Nat
  BY FS_Subset
<1>2. ASSUME NEW p \in T PROVE Rank(T, p) = Rank(S, p) /\ Rank(S, p) <= Cardinality(T)
  <2>1. {q \in T : UpTo(q, p)} = {q \in S : UpTo(q, p)}
    OBVIOUS
  <2>2. Rank(T, p) = Rank(S, p)
    BY <2>1 DEF Rank
  <2>3. Rank(T, p) \in 1..Cardinality(T) /\ Cardinality(T) \in Nat
    BY <1>1, RankIn
  <2> QED BY <2>2, <2>3
<1> QED BY <1>1, <1>2

-----------------------------------------------------------------------------
(* What the open calls pushed of a variable: a call and a position in its  *)
(* block each; and the value pushed there.                                 *)
IsPush(x, v) == x.op \in {"phi", "store"} /\ x.var = v

PushAt(s, code, v, j, k) ==
    /\ j \in 1..Len(s) /\ k \in 1..Len(code[s[j].bb]) /\ k < s[j].k
    /\ IsPush(code[s[j].bb][k], v)

PushesIn(s, code, v) == {p \in Nat \X Nat : PushAt(s, code, v, p[1], p[2])}

ValueAt(code, b, k) == IF code[b][k].op = "phi" THEN Phi(code[b][k].var, b) ELSE code[b][k].val

Holds(s, code, S, st) == \A p \in S : st[Rank(S, p)] = ValueAt(code, s[p[1]].bb, p[2])

StackIs(s, code, v, st) ==
    /\ IsFiniteSet(PushesIn(s, code, v)) /\ Len(st) = Cardinality(PushesIn(s, code, v))
    /\ Holds(s, code, PushesIn(s, code, v), st)

LEMMA PushPairs ==
  ASSUME NEW s, NEW code, NEW v, NEW j \in Nat, NEW k \in Nat, NEW p, p = <<j, k>>
  PROVE  p \in PushesIn(s, code, v) <=> PushAt(s, code, v, j, k)
  BY DEF PushesIn

(* The call on top changes only in the place it has reached, ...           *)
LEMMA TopStops ==
  ASSUME NEW f, NEW s \in Seq(FrameType(f)), s # << >>, NEW y, NEW t, TopChanged(f, s, t, y),
         y.bb = s[Len(s)].bb
  PROVE  /\ Len(t) = Len(s)
         /\ \A j \in 1..Len(s) : t[j].bb = s[j].bb
         /\ \A j \in 1..Len(s) : j # Len(s) => t[j].k = s[j].k
         /\ t[Len(s)].k = y.k
<1> DEFINE n == Len(s)
<1>1. n \in Nat \ {0}
  BY FramesOf
<1>2. Len(t) = n /\ t[n] = y /\ \A j \in 1..(n - 1) : t[j] = s[j]
  BY DEF TopChanged
<1>3. \A j \in 1..n : j # n => j \in 1..(n - 1)
  <2> HIDE DEF n
  <2> QED BY <1>1
<1> HIDE DEF n
<1>4. \A j \in 1..n : t[j].bb = s[j].bb
  <2>1. ASSUME NEW j \in 1..n PROVE t[j].bb = s[j].bb
    BY <1>2, <1>3 DEF n
  <2> QED BY <2>1
<1>5. \A j \in 1..n : j # n => t[j].k = s[j].k
  BY <1>2, <1>3
<1> QED BY <1>2, <1>4, <1>5 DEF n

(* ... so that there is one push more when it has passed one.              *)
Advanced(s, t, code, n, k) ==
    /\ n \in Nat \ {0} /\ n = Len(s) /\ Len(t) = n
    /\ \A j \in 1..n : t[j].bb = s[j].bb
    /\ \A j \in 1..n : s[j].k \in Nat
    /\ \A j \in 1..n : j # n => t[j].k = s[j].k
    /\ t[n].k = k + 1 /\ k = s[n].k /\ k \in 1..Len(code[s[n].bb])

PushedThere(s, t, code, v, n, k, p) ==
    /\ IsPush(code[s[n].bb][k], v) => PushesIn(t, code, v) = PushesIn(s, code, v) \cup {p}
    /\ ~IsPush(code[s[n].bb][k], v) => PushesIn(t, code, v) = PushesIn(s, code, v)
    /\ Behind(PushesIn(s, code, v), p)

LEMMA PushesAdvance ==
  ASSUME NEW s, NEW t, NEW code, NEW n, NEW k, Advanced(s, t, code, n, k), NEW v, NEW p, p = <<n, k>>
  PROVE  PushedThere(s, t, code, v, n, k, p)
<1> USE DEF Advanced
<1>0. n \in 1..n /\ k \in Nat
  OBVIOUS
<1>1. ASSUME NEW j \in Nat, NEW m \in Nat
      PROVE  PushAt(t, code, v, j, m)
               <=> PushAt(s, code, v, j, m) \/ (j = n /\ m = k /\ IsPush(code[s[n].bb][k], v))
  <2>1. CASE j \notin 1..n
    BY <1>0, <2>1 DEF PushAt
  <2>2. CASE j \in 1..n /\ j # n
    BY <2>2 DEF PushAt
  <2>3. CASE j = n
    <3>1. t[n].bb = s[n].bb /\ t[n].k = k + 1
      BY <1>0
    <3>2. m < k + 1 <=> m < k \/ m = k
      BY <1>0
    <3> QED BY <1>0, <2>3, <3>1, <3>2 DEF PushAt
  <2> QED BY <2>1, <2>2, <2>3
<1>2. p \in Nat \X Nat /\ p[1] = n /\ p[2] = k
  BY <1>0
<1>3. ~PushAt(s, code, v, n, k)
  BY <1>0 DEF PushAt
<1>4. p \notin PushesIn(s, code, v)
  BY <1>2, <1>3 DEF PushesIn
<1>5. ASSUME NEW q \in PushesIn(s, code, v) PROVE UpTo(q, p)
  <2> DEFINE x == q[1]
             y == q[2]
  <2>1. x \in Nat /\ y \in Nat /\ x \in 1..n /\ y < s[x].k
    BY DEF PushesIn, PushAt
  <2> HIDE DEF x, y
  <2>2. x < n \/ (x = n /\ y <= k)
    <3>1. x = n => y < k
      BY <2>1
    <3> QED BY <1>0, <2>1, <3>1
  <2> QED BY <1>2, <2>2 DEF UpTo, x, y
<1>6. ASSUME NEW q \in Nat \X Nat
      PROVE  q \in PushesIn(t, code, v)
               <=> q \in PushesIn(s, code, v) \/ (q = p /\ IsPush(code[s[n].bb][k], v))
  <2>1. q = p <=> q[1] = n /\ q[2] = k
    OBVIOUS
  <2>2. q[1] \in Nat /\ q[2] \in Nat
    OBVIOUS
  <2>3. q \in PushesIn(t, code, v) <=> PushAt(t, code, v, q[1], q[2])
    BY DEF PushesIn
  <2>4. q \in PushesIn(s, code, v) <=> PushAt(s, code, v, q[1], q[2])
    BY DEF PushesIn
  <2> QED BY <1>1, <2>1, <2>2, <2>3, <2>4
<1>7. PushesIn(t, code, v) \subseteq Nat \X Nat /\ PushesIn(s, code, v) \subseteq Nat \X Nat
  BY DEF PushesIn
<1> QED BY <1>2, <1>4, <1>5, <1>6, <1>7 DEF Behind, PushedThere

(* A call that has not begun pushed nothing.                               *)
LEMMA PushesSame ==
  ASSUME NEW s, NEW t, NEW code, NEW c, NEW v,
         \A j \in Nat, k \in Nat : PushAt(t, c, v, j, k) <=> PushAt(s, code, v, j, k)
  PROVE  PushesIn(t, c, v) = PushesIn(s, code, v)
<1>1. ASSUME NEW q \in Nat \X Nat PROVE q \in PushesIn(t, c, v) <=> q \in PushesIn(s, code, v)
  BY DEF PushesIn
<1>2. PushesIn(t, c, v) \subseteq Nat \X Nat /\ PushesIn(s, code, v) \subseteq Nat \X Nat
  BY DEF PushesIn
<1> QED BY <1>1, <1>2

LEMMA PushesEntered ==
  ASSUME NEW f, NEW s, NEW n \in Nat \ {0}, n = Len(s), NEW t, NEW b, Entered(f, s, t, b), NEW code, NEW v
  PROVE  PushesIn(t, code, v) = PushesIn(s, code, v)
<1>1. /\ Len(t) = n + 1 /\ \A j \in 1..n : t[j].bb = s[j].bb /\ t[j].k = s[j].k
      /\ t[n + 1].k = 1
  BY DEF Entered
<1>2. \A j \in 1..(n + 1) : j \in 1..n \/ j = n + 1
  OBVIOUS
<1>2a. \A j \in 1..n : j \in 1..(n + 1)
  OBVIOUS
<1>3. ASSUME NEW j \in Nat, NEW k \in Nat
      PROVE  PushAt(t, code, v, j, k) <=> PushAt(s, code, v, j, k)
  <2>1. CASE j \in 1..n
    BY <1>1, <1>2a, <2>1 DEF PushAt
  <2>2. CASE j = n + 1
    <3>1. \A x : k \in 1..x => ~(k < 1)
      OBVIOUS
    <3>2. ~PushAt(t, code, v, j, k)
      BY <1>1, <2>2, <3>1 DEF PushAt
    <3>3. j \notin 1..n
      BY <2>2
    <3> QED BY <3>2, <3>3 DEF PushAt
  <2>3. CASE j \notin 1..(n + 1)
    <3>1. j \notin 1..n
      BY <1>2a, <2>3
    <3> QED BY <1>1, <2>3, <3>1 DEF PushAt
  <2> QED BY <1>2, <2>1, <2>2, <2>3
<1> QED BY <1>3, PushesSame

(* Lists that differ only in values and arguments have the same pushes.    *)
LEMMA PushesSkeleton ==
  ASSUME NEW s, NEW code, NEW c, NEW v,
         \A j \in 1..Len(s) : SameSkeleton(code[s[j].bb], c[s[j].bb])
  PROVE  PushesIn(s, c, v) = PushesIn(s, code, v)
<1>1. ASSUME NEW j \in Nat, NEW k \in Nat
      PROVE  PushAt(s, c, v, j, k) <=> PushAt(s, code, v, j, k)
  <2>1. CASE j \in 1..Len(s)
    <3>1. SameSkeleton(code[s[j].bb], c[s[j].bb])
      BY <2>1
    <3> QED BY <3>1 DEF PushAt, SameSkeleton, IsPush
  <2>2. CASE j \notin 1..Len(s)
    BY <2>2 DEF PushAt
  <2> QED BY <2>1, <2>2
<1> QED BY <1>1, PushesSame

-----------------------------------------------------------------------------
(* A value more, and the values of the call that returns fewer.            *)
LEMMA StackSame ==
  ASSUME NEW s, NEW code, NEW v, NEW st, StackIs(s, code, v, st), NEW t, NEW c,
         PushesIn(t, c, v) = PushesIn(s, code, v),
         \A p \in PushesIn(s, code, v) :
            ValueAt(c, t[p[1]].bb, p[2]) = ValueAt(code, s[p[1]].bb, p[2])
  PROVE  StackIs(t, c, v, st)
  BY DEF StackIs, Holds

LEMMA StackGrows ==
  ASSUME NEW s, NEW code, NEW v, NEW st \in Seq(Finals), StackIs(s, code, v, st),
         NEW p, Behind(PushesIn(s, code, v), p), NEW t,
         PushesIn(t, code, v) = PushesIn(s, code, v) \cup {p},
         \A q \in PushesIn(s, code, v) : t[q[1]].bb = s[q[1]].bb,
         NEW x \in Finals, x = ValueAt(code, t[p[1]].bb, p[2]), NEW u, Longer(st, x, u)
  PROVE  StackIs(t, code, v, u)
<1> DEFINE S == PushesIn(s, code, v)
           T == PushesIn(t, code, v)
           F == Finals
<1>1. S \subseteq Nat \X Nat /\ IsFiniteSet(S) /\ Len(st) = Cardinality(S) /\ Holds(s, code, S, st)
  BY DEF StackIs, PushesIn
<1>2. T = S \cup {p} /\ Behind(S, p)
  OBVIOUS
<1>3. AppendOf(F, st, x, u)
  BY AppendIs
<1>4. Len(u) = Len(st) + 1 /\ u[Len(st) + 1] = x /\ \A j \in 1..Len(st) : u[j] = st[j]
  BY <1>3 DEF AppendOf
<1> HIDE DEF S, T, F
<1>5. /\ T \subseteq Nat \X Nat /\ IsFiniteSet(T) /\ Cardinality(T) = Cardinality(S) + 1
      /\ Rank(T, p) = Cardinality(S) + 1
      /\ \A q \in S : Rank(T, q) = Rank(S, q)
  <2>1. RanksAdded(S, T, p)
    BY <1>1, <1>2, RankAdds
  <2> QED BY <2>1 DEF RanksAdded
<1>6. Len(u) = Cardinality(T)
  BY <1>1, <1>4, <1>5
<1>7. ASSUME NEW q \in T PROVE u[Rank(T, q)] = ValueAt(code, t[q[1]].bb, q[2])
  <2>1. CASE q = p
    BY <1>1, <1>4, <1>5, <2>1
  <2>2. CASE q \in S
    <3>1. Rank(S, q) \in 1..Len(st)
      BY <1>1, <2>2, RankIn
    <3>2. st[Rank(S, q)] = ValueAt(code, s[q[1]].bb, q[2])
      BY <1>1, <2>2 DEF Holds
    <3>3. u[Rank(T, q)] = st[Rank(S, q)]
      BY <1>4, <1>5, <2>2, <3>1
    <3> QED BY <2>2, <3>2, <3>3 DEF S
  <2> QED BY <1>2, <2>1, <2>2
<1> QED BY <1>5, <1>6, <1>7 DEF StackIs, Holds, T

Cut(st, m, u) == u = SubSeq(st, 1, Len(st) - m)
CutAt(st, n, m) == n \in Nat /\ m \in Nat /\ Len(st) = n + m
CutOf(st, n, u) == Len(u) = n /\ \A j \in 1..n : u[j] = st[j]

LEMMA CutIs ==
  ASSUME NEW S, NEW st \in Seq(S), NEW n, NEW m, CutAt(st, n, m), NEW u, Cut(st, m, u)
  PROVE  CutOf(st, n, u)
<1>0. n \in Nat /\ m \in Nat /\ Len(st) = n + m
  BY DEF CutAt
<1>1. Len(st) - m = n
  BY <1>0
<1>2. \A j \in 1..n : j \in 1..Len(st)
  BY <1>0
<1>3. u = [j \in 1..n |-> st[j]]
  BY <1>0, <1>1, <1>2 DEF Cut
<1> QED BY <1>0, <1>3 DEF CutOf

LEMMA StackShrinks ==
  ASSUME NEW s, NEW code, NEW v, NEW st \in Seq(Finals), StackIs(s, code, v, st), NEW t, NEW c,
         PushesIn(t, c, v) \subseteq PushesIn(s, code, v),
         \A p \in PushesIn(t, c, v) : \A q \in PushesIn(s, code, v) : UpTo(q, p) => q \in PushesIn(t, c, v),
         \A p \in PushesIn(t, c, v) :
            ValueAt(c, t[p[1]].bb, p[2]) = ValueAt(code, s[p[1]].bb, p[2]),
         NEW m \in Nat, m = Cardinality(PushesIn(s, code, v) \ PushesIn(t, c, v)), NEW u, Cut(st, m, u)
  PROVE  StackIs(t, c, v, u)
<1> DEFINE S == PushesIn(s, code, v)
           T == PushesIn(t, c, v)
<1>1. S \subseteq Nat \X Nat /\ IsFiniteSet(S) /\ Len(st) = Cardinality(S) /\ Holds(s, code, S, st)
  BY DEF StackIs, PushesIn
<1>2. T \subseteq S /\ \A p \in T : \A q \in S : UpTo(q, p) => q \in T
  OBVIOUS
<1>3. m = Cardinality(S \ T)
  OBVIOUS
<1> HIDE DEF S, T
<1>4. /\ IsFiniteSet(T) /\ T \subseteq Nat \X Nat
      /\ \A p \in T : Rank(T, p) = Rank(S, p) /\ Rank(S, p) <= Cardinality(T)
  BY <1>1, <1>2, RankKept
<1>5. Cardinality(S) = Cardinality(T) + m
  <2>1. S \cap T = T
    BY <1>2
  <2>2. Cardinality(S \ T) = Cardinality(S) - Cardinality(S \cap T)
    BY <1>1, FS_Difference
  <2>3. Cardinality(S) \in Nat /\ Cardinality(T) \in Nat
    BY <1>1, <1>4, FS_CardinalityType
  <2> DEFINE a == Cardinality(S)
             b == Cardinality(T)
  <2>4. m = a - b /\ a \in Nat /\ b \in Nat
    BY <1>3, <2>1, <2>2, <2>3
  <2>5. a = b + m
    <3> HIDE DEF a, b
    <3> QED BY <2>4
  <2> QED BY <2>5
<1> DEFINE n == Cardinality(T)
<1>6. n \in Nat /\ Len(st) = n + m
  BY <1>1, <1>4, <1>5, FS_CardinalityType
<1>7. Len(u) = n /\ \A j \in 1..n : u[j] = st[j]
  <2> DEFINE F == Finals
  <2>1. st \in Seq(F)
    OBVIOUS
  <2> HIDE DEF n, F
  <2>2. CutAt(st, n, m)
    BY <1>6 DEF CutAt
  <2> QED BY <2>1, <2>2, CutIs DEF CutOf
<1>8. ASSUME NEW p \in T PROVE u[Rank(T, p)] = ValueAt(c, t[p[1]].bb, p[2])
  <2>1. Rank(T, p) \in 1..n
    BY <1>4, RankIn
  <2>2. st[Rank(S, p)] = ValueAt(code, s[p[1]].bb, p[2])
    BY <1>1, <1>2 DEF Holds
  <2>3. ValueAt(c, t[p[1]].bb, p[2]) = ValueAt(code, s[p[1]].bb, p[2])
    BY DEF T
  <2> QED BY <1>4, <1>7, <2>1, <2>2, <2>3
<1> QED BY <1>4, <1>7, <1>8 DEF StackIs, Holds, T

(* What a call pushed, counted in its block.                               *)
LEMMA PushesOfCall ==
  ASSUME NEW n \in Nat, NEW K, K \subseteq Nat, IsFiniteSet(K), NEW D, D = {p \in Nat \X Nat : p[1] = n /\ p[2] \in K}
  PROVE  Cardinality(D) = Cardinality(K) /\ Cardinality(K) \in Nat
<1> DEFINE g == [k \in K |-> <<n, k>>]
<1>1. g \in Bijection(K, D)
  <2>1. g \in [K -> D]
    OBVIOUS
  <2>2. \A i, j \in K : g[i] = g[j] => i = j
    OBVIOUS
  <2>3. \A d \in D : \E i \in K : g[i] = d
    <3> SUFFICES ASSUME NEW d \in D PROVE \E i \in K : g[i] = d
      OBVIOUS
    <3>1. d[2] \in K /\ d = <<n, d[2]>>
      OBVIOUS
    <3>2. g[d[2]] = <<n, d[2]>>
      BY <3>1
    <3> QED BY <3>1, <3>2
  <2> HIDE DEF g
  <2> QED BY <2>1, <2>2, <2>3, Fun_IsBij
<1>2. ExistsBijection(K, D)
  <2> HIDE DEF g
  <2> QED BY <1>1 DEF ExistsBijection
<1> QED BY <1>2, FS_Bijection, FS_CardinalityType

-----------------------------------------------------------------------------
(* The stacks hold what the open calls pushed, each value in its place.    *)
StacksInv == \A v \in Var : StackIs(frames, insts, v, stk[v])

LEMMA AdvancedStops ==
  ASSUME PassInv, InBody, Advance, NEW v, NEW p, p = <<Len(frames), Frame.k>>
  PROVE  /\ Len(frames') = Len(frames) /\ Len(frames) \in Nat \ {0}
         /\ \A j \in 1..Len(frames) : frames'[j].bb = frames[j].bb
         /\ BB = frames[Len(frames)].bb /\ Frame.k \in 1..Len(insts[BB])
         /\ IsPush(Instr, v) => PushesIn(frames', insts, v) = PushesIn(frames, insts, v) \cup {p}
         /\ ~IsPush(Instr, v) => PushesIn(frames', insts, v) = PushesIn(frames, insts, v)
         /\ Behind(PushesIn(frames, insts, v), p)
<1>1. /\ frames \in Seq(FrameType(fn)) /\ frames # << >> /\ Frame.k \in 1..Len(insts[BB])
      /\ Frame = frames[Len(frames)] /\ BB = frames[Len(frames)].bb
  BY OnTop, AtInstr DEF PassInv, InBody, Frame, BB
<1> DEFINE s == frames
           t == frames'
           f == fn
           n == Len(s)
           code == insts
           k == s[n].k
<1>2. n \in Nat \ {0} /\ \A j \in 1..n : s[j].k \in Nat
  BY <1>1, FramesOf, FrameFields
<1>3. PICK y \in FrameType(f) :
           /\ TopChanged(f, s, t, y)
           /\ y.bb = s[Len(s)].bb /\ y.k = s[Len(s)].k + 1
  <2>1. t = [s EXCEPT ![Len(s)].k = @ + 1] /\ s \in Seq(FrameType(f)) /\ s # << >>
    BY <1>1 DEF Advance
  <2> HIDE DEF s, t, f
  <2> QED BY <2>1, AdvancedTop
<1>4. /\ Len(t) = n /\ \A j \in 1..n : t[j].bb = s[j].bb
      /\ \A j \in 1..n : j # n => t[j].k = s[j].k
      /\ t[n].k = k + 1
  <2>1. s \in Seq(FrameType(f)) /\ s # << >>
    BY <1>1
  <2> HIDE DEF s, t, f
  <2>2. /\ Len(t) = Len(s)
        /\ \A j \in 1..Len(s) : t[j].bb = s[j].bb
        /\ \A j \in 1..Len(s) : j # Len(s) => t[j].k = s[j].k
        /\ t[Len(s)].k = y.k
    BY <1>3, <2>1, TopStops
  <2> QED BY <1>3, <2>2
<1>5. k \in 1..Len(code[s[n].bb]) /\ Instr = code[s[n].bb][k] /\ k = Frame.k
  BY <1>1 DEF Instr
<1>6. p = <<n, k>>
  BY <1>1
<1>7. /\ IsPush(code[s[n].bb][k], v) => PushesIn(t, code, v) = PushesIn(s, code, v) \cup {p}
      /\ ~IsPush(code[s[n].bb][k], v) => PushesIn(t, code, v) = PushesIn(s, code, v)
      /\ Behind(PushesIn(s, code, v), p)
  <2>1. n = Len(s) /\ k = s[n].k
    OBVIOUS
  <2> HIDE DEF s, t, f, n, code, k
  <2>2. Advanced(s, t, code, n, k)
    BY <1>2, <1>4, <1>5, <2>1 DEF Advanced
  <2>3. PushedThere(s, t, code, v, n, k, p)
    BY <1>6, <2>2, PushesAdvance
  <2> QED BY <2>3 DEF PushedThere
<1> QED BY <1>1, <1>2, <1>4, <1>5, <1>7

(* A phi or a store.                                                       *)
LEMMA PushStacks ==
  ASSUME PassInv, StacksInv, NEW op \in {"phi", "store"}, NEW v \in Var, NEW val \in Finals,
         Push(op, v, val, insts[BB]), Instr.var = v, val = ValueAt(insts, BB, Frame.k)
  PROVE  StacksInv'
<1>1. /\ InBody /\ Instr.op = op /\ Advance
      /\ insts' = [insts EXCEPT ![BB] = insts[BB]]
      /\ stk' = [stk EXCEPT ![v] = Append(@, val)]
  BY DEF Push
<1>2. insts' = insts
  <2>1. insts \in [Block -> Seq(Item)]
    BY DEF PassInv, ShapeInv
  <2> QED BY <1>1, <2>1
<1>3. stk \in [Var -> Seq(Finals)]
  BY DEF PassInv, PhaseInv
<1> DEFINE s == frames
           t == frames'
           code == insts
           p == <<Len(s), Frame.k>>
<1>4. ASSUME NEW w \in Var
      PROVE  /\ \A j \in 1..Len(s) : t[j].bb = s[j].bb
             /\ BB = s[Len(s)].bb /\ Len(s) \in 1..Len(s)
             /\ w = v => PushesIn(t, code, w) = PushesIn(s, code, w) \cup {p}
             /\ w # v => PushesIn(t, code, w) = PushesIn(s, code, w)
             /\ Behind(PushesIn(s, code, w), p)
             /\ \A q \in PushesIn(s, code, w) : t[q[1]].bb = s[q[1]].bb
  <2>1. p = <<Len(frames), Frame.k>>
    OBVIOUS
  <2> HIDE DEF p
  <2>2. /\ Len(frames') = Len(frames) /\ Len(frames) \in Nat \ {0}
        /\ \A j \in 1..Len(frames) : frames'[j].bb = frames[j].bb
        /\ BB = frames[Len(frames)].bb
        /\ IsPush(Instr, w) => PushesIn(frames', insts, w) = PushesIn(frames, insts, w) \cup {p}
        /\ ~IsPush(Instr, w) => PushesIn(frames', insts, w) = PushesIn(frames, insts, w)
        /\ Behind(PushesIn(frames, insts, w), p)
    BY <1>1, <2>1, AdvancedStops
  <2>3. IsPush(Instr, w) <=> w = v
    BY <1>1 DEF IsPush
  <2>4. \A q \in PushesIn(s, code, w) : t[q[1]].bb = s[q[1]].bb
    BY <2>2 DEF PushesIn, PushAt
  <2> QED BY <2>2, <2>3, <2>4
<1>5. ASSUME NEW w \in Var, w # v PROVE StackIs(t, code, w, stk'[w])
  <2>1. StackIs(s, code, w, stk[w]) /\ stk'[w] = stk[w]
    BY <1>1, <1>3, <1>5 DEF StacksInv
  <2>2. PushesIn(t, code, w) = PushesIn(s, code, w)
    BY <1>4, <1>5
  <2>3. \A q \in PushesIn(s, code, w) : ValueAt(code, t[q[1]].bb, q[2]) = ValueAt(code, s[q[1]].bb, q[2])
    BY <1>4
  <2> HIDE DEF s, t, code
  <2> QED BY <2>1, <2>2, <2>3, StackSame
<1>6. StackIs(t, code, v, stk'[v])
  <2> DEFINE st == stk[v]
             u == stk'[v]
  <2>1. StackIs(s, code, v, st) /\ Longer(st, val, u) /\ st \in Seq(Finals)
    BY <1>1, <1>3 DEF StacksInv, Longer
  <2>2. PushesIn(t, code, v) = PushesIn(s, code, v) \cup {p} /\ Behind(PushesIn(s, code, v), p)
        /\ \A q \in PushesIn(s, code, v) : t[q[1]].bb = s[q[1]].bb
    BY <1>4
  <2>3. val = ValueAt(code, t[p[1]].bb, p[2])
    BY <1>4
  <2> HIDE DEF s, t, code, p, st, u
  <2>4. StackIs(t, code, v, u)
    BY <2>1, <2>2, <2>3, StackGrows
  <2> QED BY <2>4 DEF u
<1> QED BY <1>2, <1>5, <1>6 DEF StacksInv

LEMMA RenamePhiStacks == ASSUME PassInv, StacksInv, RenamePhi PROVE StacksInv'
<1>1. Push("phi", Instr.var, Phi(Instr.var, BB), insts[BB]) /\ InBody /\ Instr.op = "phi"
  BY DEF RenamePhi, Push
<1>2. Instr.var \in Var
  BY <1>1, AtInstr
<1>3. BB \in Block
  BY <1>1, OnTop DEF PassInv, InBody
<1>4. Phi(Instr.var, BB) \in Finals
  BY <1>2, <1>3 DEF Phi, Finals
<1>5. Phi(Instr.var, BB) = ValueAt(insts, BB, Frame.k)
  BY <1>1 DEF ValueAt, Instr
<1> QED BY <1>1, <1>2, <1>4, <1>5, PushStacks

LEMMA RenameStoreStacks == ASSUME PassInv, StacksInv, RenameStore PROVE StacksInv'
<1>1. Push("store", Instr.var, Instr.val, insts[BB]) /\ InBody /\ Instr.op = "store"
  BY DEF RenameStore, Push
<1>2. Instr.var \in Var
  BY <1>1, AtInstr
<1>3. Instr.val \in Finals
  BY <1>1, StoreIsFinal
<1>4. Instr.val = ValueAt(insts, BB, Frame.k)
  BY <1>1 DEF ValueAt, Instr
<1> QED BY <1>1, <1>2, <1>3, <1>4, PushStacks

-----------------------------------------------------------------------------
(* Values that no stack holds may be rewritten, and the arguments of phis. *)
SameValues(s, code, c) ==
    \A j \in 1..Len(s) :
      /\ SameSkeleton(code[s[j].bb], c[s[j].bb])
      /\ \A k \in 1..Len(code[s[j].bb]) :
           LET x == code[s[j].bb][k] IN
           x.op = "store" => c[s[j].bb][k].val = x.val \/ x.val \notin Finals

LEMMA StackRewritten ==
  ASSUME NEW s, NEW code, NEW v, NEW st \in Seq(Finals), StackIs(s, code, v, st),
         NEW c, SameValues(s, code, c)
  PROVE  StackIs(s, c, v, st)
<1> DEFINE S == PushesIn(s, code, v)
<1>1. PushesIn(s, c, v) = S
  BY PushesSkeleton DEF SameValues
<1>2. S \subseteq Nat \X Nat /\ IsFiniteSet(S) /\ Len(st) = Cardinality(S) /\ Holds(s, code, S, st)
  BY DEF StackIs, PushesIn
<1>3. ASSUME NEW p \in S
      PROVE  ValueAt(c, s[p[1]].bb, p[2]) = ValueAt(code, s[p[1]].bb, p[2])
  <2> DEFINE b == s[p[1]].bb
             k == p[2]
  <2>1. p[1] \in 1..Len(s) /\ k \in 1..Len(code[b]) /\ code[b][k].op \in {"phi", "store"}
    BY DEF PushesIn, PushAt, IsPush
  <2>2. c[b][k].op = code[b][k].op /\ c[b][k].var = code[b][k].var
    BY <2>1 DEF SameValues, SameSkeleton
  <2>3. ValueAt(code, b, k) \in Finals
    <3>1. Rank(S, p) \in 1..Len(st)
      <4> HIDE DEF S
      <4> QED BY <1>2, RankIn
    <3>2. st[Rank(S, p)] = ValueAt(code, b, k)
      BY <1>2 DEF Holds
    <3> QED BY <3>1, <3>2
  <2>4. code[b][k].op = "store" => c[b][k].val = code[b][k].val \/ code[b][k].val \notin Finals
    BY <2>1 DEF SameValues
  <2> QED BY <2>1, <2>2, <2>3, <2>4 DEF ValueAt
<1> QED BY <1>1, <1>3, StackSame

LEMMA ValuesElsewhere ==
  ASSUME NEW s, NEW code, NEW c, SameValues(s, code, c), NEW t, Len(t) = Len(s),
         \A j \in 1..Len(s) : t[j].bb = s[j].bb
  PROVE  SameValues(t, code, c)
<1>1. ASSUME NEW j \in 1..Len(s)
      PROVE  /\ SameSkeleton(code[t[j].bb], c[t[j].bb])
             /\ \A k \in 1..Len(code[t[j].bb]) : code[t[j].bb][k].op = "store" =>
                   c[t[j].bb][k].val = code[t[j].bb][k].val \/ code[t[j].bb][k].val \notin Finals
  <2>1. t[j].bb = s[j].bb
    OBVIOUS
  <2> QED BY <2>1 DEF SameValues
<1>2. 1..Len(t) = 1..Len(s)
  OBVIOUS
<1> QED BY <1>1, <1>2 DEF SameValues

LEMMA StackTyped ==
  ASSUME PassInv, StacksInv, NEW v \in Var
  PROVE  stk[v] \in Seq(Finals) /\ StackIs(frames, insts, v, stk[v])
  BY DEF PassInv, PhaseInv, StacksInv

LEMMA OpenBlocks ==
  ASSUME PassInv, NEW j \in 1..Len(frames)
  PROVE  /\ frames[j].bb \in Block /\ frames[j].bb \in Reachable(fn)
         /\ insts[frames[j].bb] \in Seq(Item) /\ frames[j] \in FrameType(fn)
<1>1. phase = "rename"
  BY DEF PassInv, CallsInv
<1>2. frames \in Seq(FrameType(fn)) /\ frames # << >>
  BY <1>1, OnTop DEF PassInv
<1>3. frames[j] \in FrameType(fn)
  BY <1>2, FramesOf
<1>4. frames[j].bb \in Reachable(fn)
  BY <1>3, FrameFields
<1> QED BY <1>3, <1>4, GraphFacts, ShapeFacts DEF PassInv

-----------------------------------------------------------------------------
(* A load pushes nothing.                                                  *)
LEMMA LoadReplaced ==
  ASSUME PassInv, InBody, Instr.op = "load"
  PROVE  TopOf(stk[Instr.var]) \in Finals /\ IsLoad(Load(BB, Position))
<1>1. TopOf(stk[Instr.var]) \in Finals
  <2>1. Instr.var \in Var
    BY AtInstr
  <2>2. stk[Instr.var] \in Seq(Finals)
    BY <2>1 DEF PassInv, PhaseInv
  <2> QED BY <2>2, TopIsFinal
<1>2. IsLoad(Load(BB, Position))
  <2>1. Position \in 1..Len(body[BB]) /\ BB \in Block /\ BB \in Reachable(fn)
    BY AtInstr, OnTop DEF PassInv, InBody
  <2>2. Position \in Nat
    BY <2>1, BodyPositions DEF PassInv
  <2> QED BY <2>1, <2>2 DEF IsLoad, Load
<1> QED BY <1>1, <1>2

LEMMA RenameLoadStacks == ASSUME PassInv, StacksInv, RenameLoad PROVE StacksInv'
<1> DEFINE old == Load(BB, Position)
           new == TopOf(stk[Instr.var])
           s == frames
           t == frames'
           code == insts
           c == insts'
<1>1. InBody /\ Instr.op = "load" /\ Advance /\ ReplacedIn(old, new) /\ stk' = stk
  BY DEF RenameLoad, ReplacedIn, Position, With
<1>2. new \in Finals
  BY <1>1, LoadReplaced
<1>3. IsLoad(old)
  BY <1>1, LoadReplaced
<1>4. ASSUME NEW v \in Var PROVE StackIs(t, c, v, stk'[v])
  <2> DEFINE st == stk[v]
             p == <<Len(s), Frame.k>>
  <2>1. st \in Seq(Finals) /\ StackIs(s, code, v, st)
    BY StackTyped
  <2>2. /\ PushesIn(t, code, v) = PushesIn(s, code, v) /\ Len(t) = Len(s)
        /\ \A j \in 1..Len(s) : t[j].bb = s[j].bb
    <3>1. ~IsPush(Instr, v)
      BY <1>1 DEF IsPush
    <3>2. p = <<Len(frames), Frame.k>>
      OBVIOUS
    <3> HIDE DEF p
    <3>3. /\ Len(frames') = Len(frames) /\ \A j \in 1..Len(frames) : frames'[j].bb = frames[j].bb
          /\ ~IsPush(Instr, v) => PushesIn(frames', insts, v) = PushesIn(frames, insts, v)
      BY <1>1, <3>2, AdvancedStops
    <3> QED BY <3>1, <3>3
  <2>3. SameValues(s, code, c)
    <3> SUFFICES ASSUME NEW j \in 1..Len(s)
                 PROVE  /\ SameSkeleton(code[s[j].bb], c[s[j].bb])
                        /\ \A k \in 1..Len(code[s[j].bb]) : code[s[j].bb][k].op = "store" =>
                              c[s[j].bb][k].val = code[s[j].bb][k].val \/ code[s[j].bb][k].val \notin Finals
      BY DEF SameValues
    <3> DEFINE b == s[j].bb
    <3>1. b \in Block
      BY OpenBlocks
    <3> HIDE DEF b, old, new
    <3>2. Rewritten(insts[b], insts'[b], old, new) /\ SameSkeleton(insts[b], insts'[b])
      BY <1>1, <1>2, <1>3, <3>1, ReplacedItems
    <3>3. old \notin Finals
      BY <1>3, FinalsAreNotLoads DEF IsLoad, Load
    <3>4. ASSUME NEW k \in 1..Len(insts[b]), insts[b][k].op = "store"
          PROVE  insts'[b][k].val = insts[b][k].val \/ insts[b][k].val \notin Finals
      <4>1. insts[b][k].val # old => insts'[b][k] = insts[b][k]
        BY <3>2 DEF Rewritten
      <4> QED BY <3>3, <4>1
    <3> QED BY <3>2, <3>4 DEF b
  <2>4. \A q \in PushesIn(s, code, v) : t[q[1]].bb = s[q[1]].bb
    BY <2>2 DEF PushesIn, PushAt
  <2>5. StackIs(t, code, v, st)
    <3> HIDE DEF s, t, code, st
    <3>1. \A q \in PushesIn(s, code, v) :
             ValueAt(code, t[q[1]].bb, q[2]) = ValueAt(code, s[q[1]].bb, q[2])
      BY <2>4
    <3> QED BY <2>1, <2>2, <3>1, StackSame
  <2>6. StackIs(t, c, v, st)
    <3> HIDE DEF s, t, code, c, st
    <3>1. SameValues(t, code, c)
      BY <2>2, <2>3, ValuesElsewhere
    <3> QED BY <2>1, <2>5, <3>1, StackRewritten
  <2> QED BY <1>1, <2>6
<1> QED BY <1>4 DEF StacksInv

-----------------------------------------------------------------------------
(* The phis of the successors.                                             *)
LEMMA FillSuccessorsStacks == ASSUME PassInv, StacksInv, FillSuccessors PROVE StacksInv'
<1> DEFINE s == frames
           t == frames'
           code == insts
           c == insts'
           f == fn
<1>1. /\ phase = "rename" /\ FilledSuccessors /\ stk' = stk
      /\ t = [s EXCEPT ![Len(s)].filled = TRUE]
      /\ s \in Seq(FrameType(f)) /\ s # << >>
  BY OnTop DEF FillSuccessors, FilledSuccessors, Leaving, PassInv
<1>2. /\ Len(t) = Len(s) /\ Len(s) \in Nat
      /\ \A j \in 1..Len(s) : t[j].bb = s[j].bb /\ t[j].k = s[j].k
  <2> HIDE DEF s, t, f
  <2>1. PICK y \in FrameType(f) :
           TopChanged(f, s, t, y) /\ y.bb = s[Len(s)].bb /\ y.k = s[Len(s)].k
    BY <1>1, FilledTop
  <2>2. /\ Len(t) = Len(s)
        /\ \A j \in 1..Len(s) : t[j].bb = s[j].bb
        /\ \A j \in 1..Len(s) : j # Len(s) => t[j].k = s[j].k
        /\ t[Len(s)].k = y.k
    BY <1>1, <2>1, TopStops
  <2>3. Len(s) \in Nat
    BY <1>1, FramesOf
  <2> QED BY <2>1, <2>2, <2>3
<1>3. ASSUME NEW v \in Var PROVE StackIs(t, c, v, stk'[v])
  <2> DEFINE st == stk[v]
  <2>1. st \in Seq(Finals) /\ StackIs(s, code, v, st)
    BY StackTyped
  <2>2. SameValues(s, code, c)
    <3> SUFFICES ASSUME NEW j \in 1..Len(s)
                 PROVE  /\ SameSkeleton(code[s[j].bb], c[s[j].bb])
                        /\ \A k \in 1..Len(code[s[j].bb]) : code[s[j].bb][k].op = "store" =>
                              c[s[j].bb][k].val = code[s[j].bb][k].val \/ code[s[j].bb][k].val \notin Finals
      BY DEF SameValues
    <3> DEFINE b == s[j].bb
    <3>1. b \in Block
      BY OpenBlocks
    <3> HIDE DEF b
    <3>2. SamePhisApart(insts[b], insts'[b]) /\ SameSkeleton(insts[b], insts'[b])
      BY <1>1, <3>1, FilledItems
    <3> QED BY <3>2 DEF SamePhisApart, b
  <2>3. StackIs(s, c, v, st)
    <3> HIDE DEF s, code, c, st
    <3> QED BY <2>1, <2>2, StackRewritten
  <2>4. PushesIn(t, c, v) = PushesIn(s, c, v)
    <3>1. ASSUME NEW j \in Nat, NEW k \in Nat PROVE PushAt(t, c, v, j, k) <=> PushAt(s, c, v, j, k)
      <4> HIDE DEF s, t, c
      <4> QED BY <1>2 DEF PushAt
    <3> HIDE DEF s, t, c
    <3> QED BY <3>1, PushesSame
  <2>5. \A q \in PushesIn(s, c, v) : ValueAt(c, t[q[1]].bb, q[2]) = ValueAt(c, s[q[1]].bb, q[2])
    <3> HIDE DEF s, t, c
    <3> QED BY <1>2 DEF PushesIn, PushAt
  <2> HIDE DEF s, t, c, st
  <2>6. StackIs(t, c, v, st)
    BY <2>3, <2>4, <2>5, StackSame
  <2> QED BY <1>1, <2>6 DEF st
<1> QED BY <1>3 DEF StacksInv

(* A call that begins.                                                     *)
LEMMA RenameChildStacks == ASSUME PassInv, StacksInv, RenameChild PROVE StacksInv'
<1> DEFINE s == frames
           t == frames'
           f == fn
<1>1. phase = "rename" /\ stk' = stk /\ insts' = insts
  BY DEF RenameChild, Leaving
<1>2. /\ Calls(f, s) /\ s \in Seq(FrameType(f)) /\ s # << >> /\ FlowGraph(f)
      /\ Frame = s[Len(s)] /\ tree \in [Block -> SUBSET Block]
      /\ \A b \in Block : tree[b] = Kids(f, b)
  <2>1. GraphInv /\ CallsInv /\ ShapeInv
    BY DEF PassInv
  <2>2. tree = [b \in Block |-> Kids(fn, b)] /\ \A b \in Block : Kids(fn, b) \subseteq Block
    BY <2>1, GraphFacts DEF GraphInv, Kids
  <2> QED BY <1>1, <2>1, <2>2, OnTop, GraphFacts DEF Frame
<1>3. PICK c \in Frame.children :
         t = Append([s EXCEPT ![Len(s)].children = @ \ {c}], Call(c))
  BY DEF RenameChild
<1>4. c \in Kids(f, s[Len(s)].bb) /\ c \in Reachable(f) /\ c \in Block /\ Len(s) \in Nat \ {0}
  <2>1. Len(s) \in 1..Len(s) /\ Len(s) \in Nat \ {0}
    BY <1>2, FramesOf
  <2>2. c \in Kids(f, s[Len(s)].bb)
    BY <1>2, <1>3, <2>1 DEF Calls
  <2>3. c \in Reachable(f)
    BY <2>2 DEF Kids
  <2> QED BY <2>1, <2>2, <2>3, GraphFacts DEF PassInv
<1>5. Entered(f, s, t, c)
  <2>1. Call(c) = CallOf(f, c)
    BY <1>2, <1>4 DEF Call, CallOf
  <2>2. t = Append([s EXCEPT ![Len(s)].children = @ \ {c}], CallOf(f, c))
    BY <1>3, <2>1
  <2> HIDE DEF s, t, f
  <2> QED BY <1>2, <1>4, <2>2, EnteredTop
<1>6. ASSUME NEW v \in Var PROVE StackIs(t, insts, v, stk[v])
  <2> DEFINE code == insts
             st == stk[v]
             n == Len(s)
  <2>1. StackIs(s, code, v, st)
    BY StackTyped
  <2>2. n \in Nat \ {0} /\ n = Len(s)
    BY <1>4
  <2>3. \A j \in 1..Len(s) : t[j].bb = s[j].bb
    BY <1>5 DEF Entered
  <2> HIDE DEF s, t, f, code, st, n
  <2>4. PushesIn(t, code, v) = PushesIn(s, code, v)
    BY <1>5, <2>2, PushesEntered
  <2>5. \A q \in PushesIn(s, code, v) :
           ValueAt(code, t[q[1]].bb, q[2]) = ValueAt(code, s[q[1]].bb, q[2])
    BY <2>3 DEF PushesIn, PushAt
  <2>6. StackIs(t, code, v, st)
    BY <2>1, <2>4, <2>5, StackSame
  <2> QED BY <2>6 DEF code, st
<1> QED BY <1>1, <1>6 DEF StacksInv

-----------------------------------------------------------------------------
(* A call that returns takes what it pushed.                               *)
PushPositions(c, v) == {k \in 1..Len(c) : c[k].op \in {"phi", "store"} /\ c[k].var = v}

Returning(s, n, t, code, e) ==
    /\ n \in Nat \ {0} /\ n = Len(s) /\ Len(t) = n - 1 /\ \A j \in 1..(n - 1) : t[j] = s[j]
    /\ s[n].k = Len(code[s[n].bb]) + 1 /\ Len(code[s[n].bb]) \in Nat
    /\ \A j \in 1..(n - 1) : e[s[j].bb] = code[s[j].bb]

OfCall(n, K) == {p \in Nat \X Nat : p[1] = n /\ p[2] \in K}

LEMMA PushesReturned ==
  ASSUME NEW s, NEW n, NEW t, NEW code, NEW e, NEW v, Returning(s, n, t, code, e)
  PROVE  /\ PushesIn(t, e, v) = {p \in PushesIn(s, code, v) : p[1] # n}
         /\ PushesIn(s, code, v) \ PushesIn(t, e, v)
              = OfCall(n, PushPositions(code[s[n].bb], v))
<1> USE DEF Returning
<1>1. Len(t) = n - 1 /\ \A j \in 1..(n - 1) : t[j] = s[j]
  OBVIOUS
<1>2. \A j \in Nat : j \in 1..(n - 1) <=> j \in 1..n /\ j # n
  OBVIOUS
<1>3. ASSUME NEW j \in Nat, NEW k \in Nat
      PROVE  PushAt(t, e, v, j, k) <=> PushAt(s, code, v, j, k) /\ j # n
  <2>1. CASE j \in 1..(n - 1)
    BY <1>1, <1>2, <2>1 DEF PushAt
  <2>2. CASE j \notin 1..(n - 1)
    <3>1. ~PushAt(t, e, v, j, k)
      BY <1>1, <2>2 DEF PushAt
    <3> QED BY <1>2, <2>2, <3>1 DEF PushAt
  <2> QED BY <2>1, <2>2
<1>4. ASSUME NEW k \in Nat
      PROVE  PushAt(s, code, v, n, k) <=> k \in PushPositions(code[s[n].bb], v)
  <2> DEFINE l == Len(code[s[n].bb])
  <2>1. k \in 1..l => k < l + 1
    <3>1. l \in Nat
      OBVIOUS
    <3> HIDE DEF l
    <3> QED BY <3>1
  <2>2. n \in 1..n
    OBVIOUS
  <2> QED BY <2>1, <2>2 DEF PushAt, PushPositions, IsPush
<1>5. ASSUME NEW q \in Nat \X Nat
      PROVE  /\ q \in PushesIn(t, e, v) <=> q \in PushesIn(s, code, v) /\ q[1] # n
             /\ q[1] = n => (q \in PushesIn(s, code, v) <=> q[2] \in PushPositions(code[s[n].bb], v))
  <2>1. q[1] \in Nat /\ q[2] \in Nat
    OBVIOUS
  <2>2. q \in PushesIn(t, e, v) <=> PushAt(t, e, v, q[1], q[2])
    BY DEF PushesIn
  <2>3. q \in PushesIn(s, code, v) <=> PushAt(s, code, v, q[1], q[2])
    BY DEF PushesIn
  <2> QED BY <1>3, <1>4, <2>1, <2>2, <2>3
<1>6. PushesIn(t, e, v) \subseteq Nat \X Nat /\ PushesIn(s, code, v) \subseteq Nat \X Nat
  BY DEF PushesIn
<1>7. \A q : q \in OfCall(n, PushPositions(code[s[n].bb], v))
               <=> q \in Nat \X Nat /\ q[1] = n /\ q[2] \in PushPositions(code[s[n].bb], v)
  BY DEF OfCall
<1> QED BY <1>5, <1>6, <1>7

LEMMA StackReturned ==
  ASSUME NEW s, NEW n, NEW t, NEW code, NEW e, NEW v, Returning(s, n, t, code, e),
         NEW st \in Seq(Finals), StackIs(s, code, v, st),
         NEW m, m = Cardinality(PushPositions(code[s[n].bb], v)), NEW u, Cut(st, m, u)
  PROVE  StackIs(t, e, v, u)
<1> DEFINE S == PushesIn(s, code, v)
           T == PushesIn(t, e, v)
           K == PushPositions(code[s[n].bb], v)
           D == OfCall(n, K)
<1>1. T = {p \in S : p[1] # n} /\ S \ T = D
  BY PushesReturned
<1>2. \A p \in S : p[1] \in Nat /\ p[1] \in 1..n
  BY DEF PushesIn, PushAt, Returning
<1>3. n \in Nat \ {0} /\ \A j \in 1..(n - 1) : t[j] = s[j] /\ e[s[j].bb] = code[s[j].bb]
  BY DEF Returning
<1>4. \A j \in 1..n : j # n => j \in 1..(n - 1)
  BY <1>3
<1>5. \A p \in T : \A q \in S : UpTo(q, p) => q \in T
  <2> SUFFICES ASSUME NEW p \in T, NEW q \in S, UpTo(q, p) PROVE q[1] # n
    BY <1>1
  <2> DEFINE a == p[1]
             b == q[1]
  <2>1. a \in 1..n /\ a # n /\ b \in 1..n /\ (b < a \/ b = a)
    BY <1>1, <1>2 DEF UpTo
  <2> HIDE DEF a, b
  <2>2. b # n
    BY <2>1
  <2> QED BY <2>2 DEF b
<1>6. \A p \in T : ValueAt(e, t[p[1]].bb, p[2]) = ValueAt(code, s[p[1]].bb, p[2])
  <2> SUFFICES ASSUME NEW p \in T
               PROVE  ValueAt(e, t[p[1]].bb, p[2]) = ValueAt(code, s[p[1]].bb, p[2])
    OBVIOUS
  <2>1. p[1] \in 1..(n - 1)
    BY <1>1, <1>2, <1>4
  <2> QED BY <1>3, <2>1 DEF ValueAt
<1>7. K \subseteq Nat /\ IsFiniteSet(K)
  <2> DEFINE l == Len(code[s[n].bb])
  <2>0. l \in Nat
    BY DEF Returning
  <2>2. K \subseteq 1..l
    BY DEF PushPositions
  <2> HIDE DEF K, l
  <2>1. IsFiniteSet(1..l)
    BY <2>0, FS_Interval
  <2>3. IsFiniteSet(K)
    BY <2>1, <2>2, FS_Subset
  <2>4. 1..l \subseteq Nat
    BY <2>0
  <2> QED BY <2>2, <2>3, <2>4
<1>8. m \in Nat /\ m = Cardinality(S \ T)
  <2>1. D = {p \in Nat \X Nat : p[1] = n /\ p[2] \in K} /\ n \in Nat
    BY <1>3 DEF OfCall
  <2> HIDE DEF D, K
  <2>2. Cardinality(D) = Cardinality(K) /\ Cardinality(K) \in Nat
    BY <1>7, <2>1, PushesOfCall
  <2> QED BY <1>1, <2>2 DEF K
<1>9. T \subseteq S
  BY <1>1
<1> QED BY <1>5, <1>6, <1>8, <1>9, StackShrinks

LEMMA LeaveBlockStacks == ASSUME PassInv, StacksInv, LeaveBlock PROVE StacksInv'
<1> DEFINE s == frames
           t == frames'
           code == insts
           e == insts'
           n == Len(s)
<1>1. /\ Leaving /\ Frame.filled /\ phase = "rename"
      /\ stk' = [v \in Var |-> SubSeq(stk[v], 1, Len(stk[v]) - Pushed(v))]
      /\ insts' = [insts EXCEPT ![BB] = Kept(insts[BB], NotStore(insts[BB]))]
      /\ Shorter(s, t)
  BY DEF LeaveBlock, Leave, NotStore, Leaving, Shorter
<1>2. /\ s \in Seq(FrameType(fn)) /\ s # << >> /\ n \in Nat \ {0} /\ n \in 1..n
      /\ BB = s[n].bb /\ BB \in Block /\ s[n].k = Len(code[BB]) + 1 /\ Len(code[BB]) \in Nat
      /\ \A j \in 1..n : s[j].bb = BB => j = n
  <2>1. GraphInv /\ CallsInv /\ ShapeInv
    BY DEF PassInv
  <2>2. Len(code[BB]) \in Nat
    BY <1>1, <2>1, OnTop, ShapeFacts
  <2> QED BY <1>1, <2>1, <2>2, OnTop DEF Frame, BB
<1>3. Returned(s, t)
  <2> DEFINE f == fn
  <2>1. s \in Seq(FrameType(f)) /\ s # << >>
    BY <1>2
  <2> HIDE DEF s, t, f
  <2>2. CallsLeft(f, s, t)
    BY <1>1, <2>1, ReturnedTop
  <2> QED BY <2>2 DEF CallsLeft
<1>4. \A j \in 1..(n - 1) : e[s[j].bb] = code[s[j].bb]
  <2> SUFFICES ASSUME NEW j \in 1..(n - 1) PROVE e[s[j].bb] = code[s[j].bb]
    OBVIOUS
  <2>1. j \in 1..n /\ j # n
    <3> HIDE DEF n
    <3> QED BY <1>2
  <2>2. s[j].bb \in Block /\ s[j].bb # BB
    BY <1>2, <2>1, OpenBlocks
  <2>3. insts \in [Block -> Seq(Item)]
    BY DEF PassInv, ShapeInv
  <2> QED BY <1>1, <2>2, <2>3
<1>5. ASSUME NEW v \in Var PROVE StackIs(t, e, v, stk'[v])
  <2> DEFINE st == stk[v]
             u == stk'[v]
             m == Pushed(v)
  <2>1. st \in Seq(Finals) /\ StackIs(s, code, v, st)
    BY StackTyped
  <2>2. Cut(st, m, u)
    BY <1>1 DEF Cut
  <2>3. m = Cardinality(PushPositions(code[s[n].bb], v))
    BY <1>2 DEF Pushed, PushPositions
  <2>4. s[n].k = Len(code[s[n].bb]) + 1 /\ Len(code[s[n].bb]) \in Nat
    BY <1>2
  <2>5. Returning(s, n, t, code, e)
    BY <1>2, <1>3, <1>4, <2>4 DEF Returning, Returned
  <2> HIDE DEF s, t, code, e, n, st, u, m
  <2> QED BY <2>1, <2>2, <2>3, <2>5, StackReturned DEF u
<1> QED BY <1>5 DEF StacksInv

-----------------------------------------------------------------------------
(* No other step touches a stack, and no call is open while phis are       *)
(* placed.                                                                 *)
LEMMA NoPushes ==
  ASSUME NEW s, NEW code, NEW v, \A j \in 1..Len(s) : s[j].k = 1, NEW st, st = << >>
  PROVE  StackIs(s, code, v, st)
<1>1. PushesIn(s, code, v) = {}
  <2> SUFFICES ASSUME NEW j \in Nat, NEW k \in Nat PROVE ~PushAt(s, code, v, j, k)
    BY DEF PushesIn
  <2>1. \A x : k \in 1..x => ~(k < 1)
    OBVIOUS
  <2> QED BY <2>1 DEF PushAt
<1> QED BY <1>1, FS_EmptySet DEF StackIs, Holds

LEMMA QuietStacks ==
  ASSUME StacksInv, UNCHANGED <<insts, stk, frames>>
  PROVE  StacksInv'
  BY DEF StacksInv

LEMMA EarlyStacks ==
  ASSUME PassInv, phase \in Early, stk' = stk, \A j \in 1..Len(frames') : frames'[j].k = 1
  PROVE  StacksInv'
<1>1. stk = [v \in Var |-> << >>]
  BY DEF PassInv, PhaseInv, Early
<1> QED BY <1>1, NoPushes DEF StacksInv

LEMMA InitStacks == ASSUME Init PROVE StacksInv
<1>1. frames = << >> /\ stk = [v \in Var |-> << >>]
  BY DEF Init
<1>2. \A j \in 1..Len(frames) : frames[j].k = 1
  BY <1>1
<1> QED BY <1>1, <1>2, NoPushes DEF StacksInv

LEMMA NextStacks == PassInv /\ StacksInv /\ [Next]_vars => StacksInv'
<1> SUFFICES ASSUME PassInv, StacksInv, [Next]_vars PROVE StacksInv'
  OBVIOUS
<1>1. CASE CollectDefs \/ PickVariable \/ VariablePlaced
  BY <1>1, QuietStacks DEF CollectDefs, PickVariable, VariablePlaced, renaming
<1>2. CASE PlacePhis
  <2>1. phase \in Early /\ stk' = stk /\ frames' = frames
    BY <1>2 DEF PlacePhis, Place, renaming, Early
  <2>2. frames = << >>
    BY <2>1, EarlyFacts
  <2> QED BY <2>1, <2>2, EarlyStacks
<1>3. CASE BeginRename
  <2>1. phase \in Early /\ stk' = stk /\ frames' = <<Call(Entry(fn))>>
    BY <1>3 DEF BeginRename, Early
  <2>2. \A j \in 1..Len(frames') : frames'[j].k = 1
    <3> DEFINE x == Call(Entry(fn))
    <3>1. x.k = 1
      BY DEF Call
    <3>2. frames' = <<x>>
      BY <2>1
    <3> HIDE DEF x
    <3> QED BY <3>1, <3>2
  <2> QED BY <2>1, <2>2, EarlyStacks
<1>4. CASE RenamePhi
  BY <1>4, RenamePhiStacks
<1>5. CASE RenameStore
  BY <1>5, RenameStoreStacks
<1>6. CASE RenameLoad
  BY <1>6, RenameLoadStacks
<1>7. CASE FillSuccessors
  BY <1>7, FillSuccessorsStacks
<1>8. CASE RenameChild
  BY <1>8, RenameChildStacks
<1>9. CASE LeaveBlock
  BY <1>9, LeaveBlockStacks
<1>10. CASE Start \/ ExecuteStore \/ ExecuteLoad \/ Jump
  BY <1>10, QuietStacks DEF Start, ExecuteStore, ExecuteLoad, Jump, renaming
<1>11. CASE UNCHANGED vars
  BY <1>11, QuietStacks DEF vars
<1> QED BY <1>1, <1>2, <1>3, <1>4, <1>5, <1>6, <1>7, <1>8, <1>9, <1>10, <1>11
        DEF Next, PassNext

-----------------------------------------------------------------------------
(* The points of a function: a block and a position in it, 0 for its head, *)
(* in the order of dominance.                                              *)
Point(f) == Reachable(f) \X Nat

Before(f, p, q) == (p[1] = q[1] /\ p[2] < q[2]) \/ StrictlyDominates(f, p[1], q[1])

Nearest(f, P, p, q) ==
    /\ p \in P /\ Before(f, p, q)
    /\ \A o \in P : Before(f, o, q) => o = p \/ Before(f, o, p)

NoneBefore(f, P, q) == \A o \in P : ~Before(f, o, q)

LEMMA BeforeDominates ==
  ASSUME NEW f, Graph(f), NEW p \in Point(f), NEW q \in Point(f), Before(f, p, q)
  PROVE  Dominates(f, p[1], q[1])
<1>1. p[1] \in Reachable(f)
  BY DEF Point
<1> QED BY <1>1, DominatesItself DEF Before, StrictlyDominates

LEMMA BeforeIrreflexive ==
  ASSUME NEW f, NEW p \in Point(f)
  PROVE  ~Before(f, p, p)
<1> DEFINE a == p[2]
<1>1. a \in Nat
  BY DEF Point
<1> HIDE DEF a
<1>2. ~(a < a)
  BY <1>1
<1> QED BY <1>2 DEF Before, StrictlyDominates, a

LEMMA StrictlyOneWay ==
  ASSUME NEW f, Graph(f), NEW x, NEW y, StrictlyDominates(f, x, y)
  PROVE  ~Dominates(f, y, x)
  BY DominatesOneWay DEF StrictlyDominates

LEMMA BeforeTransitive ==
  ASSUME NEW f, Graph(f), NEW p \in Point(f), NEW q \in Point(f), NEW r \in Point(f),
         Before(f, p, q), Before(f, q, r)
  PROVE  Before(f, p, r)
<1>1. Dominates(f, p[1], q[1]) /\ Dominates(f, q[1], r[1])
  BY BeforeDominates
<1>2. CASE StrictlyDominates(f, p[1], q[1]) \/ StrictlyDominates(f, q[1], r[1])
  <2>1. StrictlyDominates(f, p[1], r[1])
    BY <1>1, <1>2, StrictThrough
  <2> QED BY <2>1 DEF Before
<1>3. CASE ~StrictlyDominates(f, p[1], q[1]) /\ ~StrictlyDominates(f, q[1], r[1])
  <2> DEFINE a == p[2]
             b == q[2]
             c == r[2]
  <2>1. a \in Nat /\ b \in Nat /\ c \in Nat
    BY DEF Point
  <2>2. a < b /\ b < c /\ p[1] = r[1]
    BY <1>3 DEF Before
  <2> HIDE DEF a, b, c
  <2>3. a < c
    BY <2>1, <2>2
  <2> QED BY <2>2, <2>3 DEF Before, a, c
<1> QED BY <1>2, <1>3

LEMMA BeforeInLine ==
  ASSUME NEW f, Graph(f), NEW o \in Point(f), NEW p \in Point(f), NEW q \in Point(f),
         Before(f, o, q), Before(f, p, q)
  PROVE  o = p \/ Before(f, o, p) \/ Before(f, p, o)
<1>1. Dominates(f, o[1], p[1]) \/ Dominates(f, p[1], o[1])
  <2>1. Dominates(f, o[1], q[1]) /\ Dominates(f, p[1], q[1])
    BY BeforeDominates
  <2> QED BY <2>1, DominatesInLine
<1>2. CASE o[1] # p[1]
  BY <1>1, <1>2 DEF Before, StrictlyDominates
<1>3. CASE o[1] = p[1]
  <2> DEFINE a == o[2]
             b == p[2]
  <2>1. a \in Nat /\ b \in Nat /\ o = <<o[1], a>> /\ p = <<p[1], b>>
    BY DEF Point
  <2>2. a < b => Before(f, o, p)
    BY <1>3 DEF Before
  <2>3. b < a => Before(f, p, o)
    BY <1>3 DEF Before
  <2>4. a = b => o = p
    BY <1>3, <2>1
  <2> HIDE DEF a, b
  <2>5. a < b \/ b < a \/ a = b
    BY <2>1
  <2> QED BY <2>2, <2>3, <2>4, <2>5
<1> QED BY <1>2, <1>3

LEMMA NearestOnce ==
  ASSUME NEW f, Graph(f), NEW P, P \subseteq Point(f), NEW q \in Point(f),
         NEW p, Nearest(f, P, p, q), NEW o, Nearest(f, P, o, q)
  PROVE  o = p
<1>1. o = p \/ (Before(f, o, p) /\ Before(f, p, o))
  BY DEF Nearest
<1>2. o \in Point(f) /\ p \in Point(f)
  BY DEF Nearest
<1> QED BY <1>1, <1>2, BeforeTransitive, BeforeIrreflexive

(* Between two points that the same definitions come before.               *)
LEMMA NearestSame ==
  ASSUME NEW f, NEW P, NEW q, NEW r, \A o \in P : Before(f, o, q) <=> Before(f, o, r)
  PROVE  /\ \A p : Nearest(f, P, p, q) <=> Nearest(f, P, p, r)
         /\ NoneBefore(f, P, q) <=> NoneBefore(f, P, r)
  BY DEF Nearest, NoneBefore

-----------------------------------------------------------------------------
(* What comes before the first instruction of a block comes before the end *)
(* of its predecessors.                                                    *)
LEMMA BeforeBlock ==
  ASSUME NEW f, Graph(f), NEW a \in Reachable(f), NEW c \in Reachable(f), Step(f, a, c),
         NEW p \in Point(f), StrictlyDominates(f, p[1], c), NEW m \in Nat, p[2] < m \/ p[1] # a
  PROVE  Before(f, p, <<a, m>>)
<1>1. Dominates(f, p[1], a)
  BY DominatesPredecessor
<1> QED BY <1>1 DEF Before, StrictlyDominates

(* Every path to a block that a definition does not dominate in spite of   *)
(* dominating a predecessor: the block is in the frontier.                 *)
LEMMA OutsideIsFrontier ==
  ASSUME NEW f, FlowGraph(f), NEW a \in Reachable(f), NEW c \in Reachable(f), Step(f, a, c),
         NEW s, Dominates(f, s, a), ~StrictlyDominates(f, s, c)
  PROVE  c \in FrontierOf(f, Dominance(f), s)
<1>1. Graph(f) /\ Reachable(f) \subseteq Members(f.blocks)
  BY ReachableBlocks
<1>2. a \in Members(f.pre[c])
  BY <1>1 DEF FlowGraph, Step
<1> QED BY <1>1, <1>2, FrontierIs

LEMMA StepReaches ==
  ASSUME NEW f, Graph(f), NEW a \in Reachable(f), NEW c, Step(f, a, c)
  PROVE  c \in Reachable(f)
<1>1. Members(f.succ[a]) \subseteq ReachAvoiding(f, {}) \cup {}
  BY ReachClosed DEF Reachable
<1> QED BY <1>1 DEF Step, Reachable

LEMMA ReachedFrom ==
  ASSUME NEW f, FlowGraph(f), NEW b \in Reachable(f), b # Entry(f), NEW cut,
         Entry(f) \notin cut, b \in cut => cut = {b}, cut # {b} => b \in ReachAvoiding(f, cut)
  PROVE  \E a \in Members(f.pre[b]) : a \in ReachAvoiding(f, cut)
<1>1. Graph(f) /\ Reachable(f) \subseteq Members(f.blocks)
  BY ReachableBlocks
<1>2. Len(f.blocks) \in Nat
  BY DEF FlowGraph
<1> SUFFICES ASSUME \A a \in Members(f.pre[b]) : a \notin ReachAvoiding(f, cut) PROVE FALSE
  OBVIOUS
<1> DEFINE S == ReachAvoiding(f, cut) \ {b}
<1>3. ReachAvoiding(f, cut) \subseteq Members(f.blocks)
  BY <1>1, ReachByWalk
<1>4. ASSUME NEW a \in S PROVE Members(f.succ[a]) \subseteq S \cup cut
  <2>1. Members(f.succ[a]) \subseteq ReachAvoiding(f, cut) \cup cut
    BY <1>1, ReachClosed
  <2>2. b \in Members(f.succ[a]) => a \in Members(f.pre[b])
    BY <1>1, <1>3 DEF FlowGraph
  <2> QED BY <2>1, <2>2
<1>5. Entry(f) \in S
  BY <1>1, ReachClosed
<1>6. ReachAvoiding(f, cut) \subseteq S
  <2> HIDE DEF S
  <2> QED BY <1>2, <1>4, <1>5, ReachIsLeast
<1>7. cut = {b}
  BY <1>6
<1>8. ReachAvoiding(f, {}) \subseteq S
  <2>1. ASSUME NEW a \in S PROVE Members(f.succ[a]) \subseteq S \cup {}
    <3>1. b \notin Members(f.succ[a])
      BY <1>1, <1>3 DEF FlowGraph
    <3> QED BY <1>4, <1>7, <3>1
  <2> HIDE DEF S
  <2> QED BY <1>2, <1>5, <2>1, ReachIsLeast
<1> QED BY <1>8 DEF Reachable

-----------------------------------------------------------------------------
(* Where every path to a block passes a definition first, one of them      *)
(* comes before it.                                                        *)
ClosedPoints(f, P) ==
    \A p \in P : \A c \in FrontierOf(f, Dominance(f), p[1]) : <<c, 0>> \in P

Covers(f, P, storing) == \A c \in storing : c \in Reachable(f) => \E p \in P : p[1] = c

LEMMA UnreachedCut ==
  ASSUME NEW f, Graph(f), NEW s, s \notin Reachable(f)
  PROVE  Reachable(f) \subseteq ReachAvoiding(f, {s})
<1> SUFFICES ASSUME NEW b \in Reachable(f) PROVE b \in ReachAvoiding(f, {s})
  OBVIOUS
<1>1. PICK w : Leads(f, w, {}, b)
  BY SomeWalk
<1>2. \A k \in 1..Len(w) : w[k] # s
  BY <1>1, WalkTo DEF Leads, Reachable
<1>3. Walk(f, w, {s})
  BY <1>1, <1>2 DEF Leads, Walk, Members
<1> QED BY <1>1, <1>3, WalkReaches DEF Leads

LEMMA DefinedWhenClosed ==
  ASSUME NEW f, FlowGraph(f), NEW P, P \subseteq Point(f), ClosedPoints(f, P),
         NEW storing, Covers(f, P, storing), NEW b \in Reachable(f), b # Entry(f),
         Members(f.pre[b]) \cap ReachAvoiding(f, storing) = {}, NEW m \in Nat \ {0},
         NEW q, q = <<b, m>>
  PROVE  \E p \in P : Before(f, p, q)
<1>1. Graph(f) /\ Reachable(f) \subseteq Members(f.blocks)
  BY ReachableBlocks
<1> DEFINE U == {c \in Reachable(f) : \E p \in P : Dominates(f, p[1], c)}
           S == {c \in Reachable(f) : c \in U \/ c \in ReachAvoiding(f, storing)}
<1>2. ASSUME NEW a \in U, NEW c, Step(f, a, c)
      PROVE  \E p \in P : StrictlyDominates(f, p[1], c) \/ p = <<c, 0>>
  <2>1. PICK p \in P : Dominates(f, p[1], a)
    OBVIOUS
  <2>2. c \in Reachable(f)
    BY <1>1, <1>2, StepReaches
  <2>3. CASE StrictlyDominates(f, p[1], c)
    BY <2>3
  <2>4. CASE ~StrictlyDominates(f, p[1], c)
    <3>1. c \in FrontierOf(f, Dominance(f), p[1])
      BY <1>2, <2>1, <2>2, <2>4, OutsideIsFrontier
    <3> QED BY <3>1 DEF ClosedPoints
  <2> QED BY <2>3, <2>4
<1>3. ASSUME NEW c \in Reachable(f), NEW p \in P, StrictlyDominates(f, p[1], c) \/ p = <<c, 0>>
      PROVE  c \in U
  BY <1>1, <1>3, DominatesItself DEF StrictlyDominates
<1>4. ASSUME NEW c \in Reachable(f), c \in storing PROVE c \in U
  <2>1. PICK p \in P : p[1] = c
    BY <1>4 DEF Covers
  <2> QED BY <1>1, <2>1, DominatesItself
<1>5. Entry(f) \in S
  BY <1>1, <1>4, ReachClosed, EntryReached
<1>6. ASSUME NEW a \in S PROVE Members(f.succ[a]) \subseteq S \cup {}
  <2> SUFFICES ASSUME NEW c \in Members(f.succ[a]) PROVE c \in S
    OBVIOUS
  <2>1. Step(f, a, c)
    BY DEF Step
  <2>2. c \in Reachable(f)
    BY <1>1, <2>1, StepReaches
  <2>3. CASE a \in U
    BY <1>2, <1>3, <2>1, <2>2, <2>3
  <2>4. CASE a \in ReachAvoiding(f, storing)
    <3>1. c \in ReachAvoiding(f, storing) \/ c \in storing
      BY <1>1, <2>4, ReachClosed
    <3> QED BY <1>4, <2>2, <3>1
  <2> QED BY <2>3, <2>4
<1>7. ReachAvoiding(f, {}) \subseteq S
  <2>1. Len(f.blocks) \in Nat
    BY DEF FlowGraph
  <2> HIDE DEF S
  <2> QED BY <1>5, <1>6, <2>1, ReachIsLeast
<1>8. PICK a \in Members(f.pre[b]) : a \in ReachAvoiding(f, {})
  <2>1. b \in ReachAvoiding(f, {})
    BY DEF Reachable
  <2> QED BY <2>1, ReachedFrom
<1>9. a \in U
  BY <1>7, <1>8
<1>10. Step(f, a, b)
  BY <1>1, <1>9 DEF FlowGraph, Step
<1>11. PICK p \in P : StrictlyDominates(f, p[1], b) \/ p = <<b, 0>>
  BY <1>2, <1>9, <1>10
<1>12. 0 < m
  OBVIOUS
<1> QED BY <1>11, <1>12 DEF Before

LEMMA DefinedWhenSingle ==
  ASSUME NEW f, FlowGraph(f), NEW P, P \subseteq Point(f),
         NEW storing, Covers(f, P, storing), NEW s, storing = {s},
         NEW b \in Reachable(f), b # Entry(f),
         Members(f.pre[b]) \cap ReachAvoiding(f, storing) = {}, NEW q, q[1] = b
  PROVE  \E p \in P : Before(f, p, q)
<1>1. Graph(f)
  BY ReachableBlocks
<1>2. ~(s # Entry(f) /\ (s = b \/ b \in ReachAvoiding(f, {s})))
  BY ReachedFrom
<1>3. s \in Reachable(f) /\ s # b
  BY <1>1, <1>2, UnreachedCut, EntryReached
<1>4. StrictlyDominates(f, s, b)
  BY <1>1, <1>2, <1>3, EntryDominates DEF StrictlyDominates, Dominates
<1>5. PICK p \in P : p[1] = s
  BY <1>3 DEF Covers
<1> QED BY <1>4, <1>5 DEF Before

-----------------------------------------------------------------------------
(* What generate_phi leaves of a variable: phis at the frontiers of all    *)
(* its definitions, or one definition and no phi.                          *)
HasPhi(v, b) == PhisOf(v, b) # {}
PhiBlocks(v) == {b \in Block : HasPhi(v, b)}

Handled(v) ==
    \/ ClosedUnderFrontiers(v, PhiBlocks(v))
    \/ PhiBlocks(v) = {} /\ \E s : DefBlocks(v) = {s}

HandledInv ==
    /\ phase \notin {"collect", "pick", "place"} => active = {}
    /\ \A v \in Var :
          v \notin active /\ phase # "collect" /\ (phase = "place" => v # var) => Handled(v)

SamePhis(v) == \A b \in Block : PhisOf(v, b)' = {} <=> PhisOf(v, b) = {}

LEMMA HandledSame ==
  ASSUME UNCHANGED <<fn, body, df>>, NEW v, SamePhis(v), Handled(v)
  PROVE  Handled(v)'
<1>1. PhiBlocks(v)' = PhiBlocks(v)
  BY DEF PhiBlocks, HasPhi, SamePhis
<1>2. DefBlocks(v)' = DefBlocks(v)
  BY DEF DefBlocks, Blocks
<1> QED BY <1>1, <1>2 DEF Handled, ClosedUnderFrontiers

LEMMA NoPhis ==
  ASSUME NEW v, \A b \in Block : PhisOf(v, b) = {}
  PROVE  PhiBlocks(v) = {}
  BY DEF PhiBlocks, HasPhi

(* The instructions of the blocks, but for values and arguments, are the   *)
(* same after every step of rename; when a block is left, its phis stay.   *)
LEMMA SkeletonPhis ==
  ASSUME \A b \in Block : SameSkeleton(insts[b], insts'[b])
  PROVE  \A b \in Block : \A v : PhisOf(v, b)' = PhisOf(v, b)
<1> SUFFICES ASSUME NEW b \in Block, NEW v PROVE PhisOf(v, b)' = PhisOf(v, b)
  OBVIOUS
<1>1. SameSkeleton(insts[b], insts'[b])
  OBVIOUS
<1> QED BY <1>1 DEF PhisOf, SameSkeleton

PhisWithin(c, v) == {k \in 1..Len(c) : c[k].op = "phi" /\ c[k].var = v}

LEMMA HeadPhis ==
  ASSUME NEW c, NEW e, NEW n \in Nat, Len(c) \in Nat, Len(e) \in Nat, PhiHead(c, n), PhiHead(e, n),
         \A k \in 1..n : e[k] = c[k], NEW v
  PROVE  PhisWithin(e, v) = PhisWithin(c, v)
<1> DEFINE l == Len(c)
           m == Len(e)
<1>1. l \in Nat /\ m \in Nat /\ n <= l /\ n <= m
  BY DEF PhiHead
<1>2. ASSUME NEW k \in Nat
      PROVE  /\ k \in 1..l /\ c[k].op = "phi" <=> k \in 1..n
             /\ k \in 1..m /\ e[k].op = "phi" <=> k \in 1..n
  <2>1. k \in 1..l => (c[k].op = "phi" <=> k <= n)
    BY DEF PhiHead
  <2>2. k \in 1..m => (e[k].op = "phi" <=> k <= n)
    BY DEF PhiHead
  <2> HIDE DEF l, m
  <2>3. (k \in 1..n => k \in 1..l /\ k \in 1..m) /\ (k \in 1..l /\ k <= n => k \in 1..n)
        /\ (k \in 1..m /\ k <= n => k \in 1..n) /\ (k \in 1..n => k <= n)
    BY <1>1
  <2> QED BY <2>1, <2>2, <2>3
<1>3. 1..l \subseteq Nat /\ 1..m \subseteq Nat
  BY <1>1
<1> HIDE DEF l, m
<1>4. {k \in 1..m : e[k].op = "phi" /\ e[k].var = v} = {k \in 1..l : c[k].op = "phi" /\ c[k].var = v}
  BY <1>2, <1>3
<1> QED BY <1>4 DEF l, m, PhisWithin

LEMMA LeftBlock ==
  ASSUME PassInv, LeaveBlock
  PROVE  /\ \A b \in Block : b # BB => insts'[b] = insts[b]
         /\ Bare(insts'[BB], PhisIn(BB))
         /\ \A k \in 1..PhisIn(BB) : insts'[BB][k] = insts[BB][k]
         /\ \A b \in Block : \A v : PhisOf(v, b)' = PhisOf(v, b)
<1> DEFINE c == insts[BB]
           e == insts'[BB]
           n == PhisIn(BB)
<1>i. GraphInv /\ CallsInv /\ ShapeInv /\ phase = "rename"
  BY DEF PassInv, LeaveBlock, Leave, Leaving
<1>1. insts' = [insts EXCEPT ![BB] = Kept(insts[BB], NotStore(insts[BB]))]
  BY DEF LeaveBlock, Leave, NotStore
<1>2. BB \in Block /\ insts \in [Block -> Seq(Item)]
  BY <1>i, OnTop DEF ShapeInv
<1>3. /\ e = Kept(c, NotStore(c)) /\ c \in Seq(Item) /\ PhiHead(c, n) /\ Len(c) \in Nat
      /\ \A b \in Block : b # BB => insts'[b] = insts[b]
  BY <1>i, <1>1, <1>2, ShapeFacts
<1>4. /\ e \in Seq(Item) /\ Bare(e, n) /\ n \in Nat
      /\ \A k \in 1..n : e[k] = c[k]
  <2> HIDE DEF c, e, n
  <2> QED BY <1>3, KeepBare
<1>5. ASSUME NEW b \in Block, NEW v PROVE PhisOf(v, b)' = PhisOf(v, b)
  <2>1. CASE b = BB
    <3>1. Len(e) \in Nat /\ PhiHead(e, n)
      BY <1>4 DEF Bare
    <3> HIDE DEF c, e, n
    <3>2. PhisWithin(e, v) = PhisWithin(c, v)
      BY <1>3, <1>4, <3>1, HeadPhis
    <3> QED BY <2>1, <3>2 DEF PhisOf, PhisWithin, c, e
  <2>2. CASE b # BB
    BY <1>3, <2>2 DEF PhisOf
  <2> QED BY <2>1, <2>2
<1> QED BY <1>3, <1>4, <1>5

(* Every step but the placement of phis.                                   *)
LEMMA PhisStay ==
  ASSUME PassInv, [Next]_vars, ~PlacePhis
  PROVE  \A b \in Block : \A v : PhisOf(v, b)' = PhisOf(v, b)
<1>1. CASE insts' = insts
  BY <1>1 DEF PhisOf
<1>2. CASE RenamePhi
  <2>1. insts' = [insts EXCEPT ![BB] = insts[BB]] /\ insts \in [Block -> Seq(Item)]
    BY <1>2 DEF RenamePhi, Push, PassInv, ShapeInv
  <2> QED BY <1>1, <2>1
<1>3. CASE RenameStore
  <2>1. insts' = [insts EXCEPT ![BB] = insts[BB]] /\ insts \in [Block -> Seq(Item)]
    BY <1>3 DEF RenameStore, Push, PassInv, ShapeInv
  <2> QED BY <1>1, <2>1
<1>4. CASE RenameLoad
  <2> DEFINE old == Load(BB, Position)
             new == TopOf(stk[Instr.var])
  <2>1. InBody /\ Instr.op = "load" /\ ReplacedIn(old, new)
    BY <1>4 DEF RenameLoad, ReplacedIn, Position, With
  <2>2. new \in Finals /\ IsLoad(old)
    BY <2>1, LoadReplaced
  <2> HIDE DEF old, new
  <2>3. \A b \in Block : SameSkeleton(insts[b], insts'[b])
    BY <2>1, <2>2, ReplacedItems
  <2> QED BY <2>3, SkeletonPhis
<1>5. CASE FillSuccessors
  <2>1. phase = "rename" /\ FilledSuccessors
    BY <1>5 DEF FillSuccessors, FilledSuccessors, Leaving
  <2>2. \A b \in Block : SameSkeleton(insts[b], insts'[b])
    BY <2>1, FilledItems
  <2> QED BY <2>2, SkeletonPhis
<1>6. CASE LeaveBlock
  BY <1>6, LeftBlock
<1> QED BY <1>1, <1>2, <1>3, <1>4, <1>5, <1>6
        DEF Next, PassNext, CollectDefs, PickVariable, VariablePlaced, BeginRename, RenameChild,
            Start, ExecuteStore, ExecuteLoad, Jump, vars

-----------------------------------------------------------------------------
LEMMA InitHandled == ASSUME Init PROVE HandledInv
  BY DEF Init, HandledInv

LEMMA CollectDefsHandled ==
  ASSUME PlacementInv, CollectDefs
  PROVE  HandledInv'
<1>1. /\ insts = body /\ body \in [Block -> Seq(StoreInst \cup LoadInst)]
      /\ UNCHANGED <<fn, body, df, insts>> /\ phase' = "pick"
      /\ active' = {v \in Var : DefBlocks(v) # {}}
  BY DEF CollectDefs, PlacementInv, TypingInv, WaitingInv, graph
<1>2. ASSUME NEW v \in Var, v \notin active' PROVE Handled(v)'
  <2>1. \A b \in Block : PhisOf(v, b) = {}
    BY <1>1, NoPhiInBody
  <2>2. PhiBlocks(v) = {} /\ DefBlocks(v) = {}
    BY <1>1, <1>2, <2>1, NoPhis
  <2>3. Handled(v)
    BY <2>2 DEF Handled, ClosedUnderFrontiers
  <2>4. SamePhis(v)
    BY <1>1 DEF SamePhis, PhisOf
  <2> QED BY <1>1, <2>3, <2>4, HandledSame
<1> QED BY <1>1, <1>2 DEF HandledInv

LEMMA DefBlocksFinite == ASSUME GraphInv, NEW v PROVE IsFiniteSet(DefBlocks(v))
<1>1. fn.blocks \in Seq(Block)
  BY GraphFacts DEF FlowGraph
<1>2. IsFiniteSet(Members(fn.blocks))
  BY <1>1, MembersAtMost
<1>3. DefBlocks(v) \subseteq Members(fn.blocks)
  BY DEF DefBlocks, Blocks
<1> QED BY <1>2, <1>3, FS_Subset

LEMMA PickVariableHandled ==
  ASSUME PassInv, PlacementInv, HandledInv, PickVariable
  PROVE  HandledInv'
<1>0. PICK v \in active :
         /\ active' = active \ {v} /\ var' = v
         /\ IF PrunedVariable(v) THEN phase' = "pick" ELSE phase' = "place"
  BY DEF PickVariable
<1>1. /\ phase = "pick" /\ UNCHANGED <<fn, body, df, insts>> /\ phase' \in {"pick", "place"}
  BY <1>0 DEF PickVariable, graph
<1>2. \A w \in Var : SamePhis(w)
  BY <1>1 DEF SamePhis, PhisOf
<1>3. ASSUME NEW w \in Var, w \notin active', phase' = "place" => w # var' PROVE Handled(w)'
  <2>1. CASE w # v
    <3>1. Handled(w)
      BY <1>0, <1>1, <1>3, <2>1 DEF HandledInv
    <3> QED BY <1>1, <1>2, <3>1, HandledSame
  <2>2. CASE w = v
    <3>1. PrunedVariable(v)
      BY <1>0, <1>3, <2>2
    <3>2. defset[v] = DefBlocks(v) /\ \A b \in Block : PhisOf(v, b) = {}
      BY <1>1 DEF PlacementInv, WaitingInv
    <3>3. PICK s : DefBlocks(v) = {s}
      <4>1. Cardinality(DefBlocks(v)) = 1
        BY <3>1, <3>2 DEF PrunedVariable
      <4>2. IsFiniteSet(DefBlocks(v))
        BY DefBlocksFinite DEF PassInv
      <4> QED BY <4>1, <4>2, FS_Singleton
    <3>4. Handled(v)
      BY <3>2, <3>3, NoPhis DEF Handled
    <3> QED BY <1>1, <1>2, <2>2, <3>4, HandledSame
  <2> QED BY <2>1, <2>2
<1> QED BY <1>1, <1>3 DEF HandledInv

LEMMA PhisOfOthersStay ==
  ASSUME insts \in [Block -> Seq(Placed)], var \in Var, NEW new,
         insts' = [b \in Block |-> IF b \in new THEN <<PhiInst(var)>> \o insts[b]
                                                ELSE insts[b]],
         NEW v \in Var, NEW b \in Block, PhisOf(v, b) # {}
  PROVE  PhisOf(v, b)' # {}
<1>1. CASE b \notin new
  BY <1>1 DEF PhisOf
<1>2. CASE b \in new
  <2>1. PhiInst(var) \in Placed
    BY DEF Placed
  <2>2. insts[b] \in Seq(Placed) /\ insts'[b] = <<PhiInst(var)>> \o insts[b]
    BY <1>2
  <2>3. /\ Len(insts'[b]) = Len(insts[b]) + 1
        /\ \A k \in 1..Len(insts[b]) : insts'[b][k + 1] = insts[b][k]
    BY <2>1, <2>2, Prepend
  <2>4. PICK k \in 1..Len(insts[b]) : insts[b][k].op = "phi" /\ insts[b][k].var = v
    BY DEF PhisOf
  <2>5. k + 1 \in 1..Len(insts'[b])
    BY <2>2, <2>3
  <2>6. k + 1 \in PhisOf(v, b)'
    BY <2>3, <2>4, <2>5 DEF PhisOf
  <2> QED BY <2>6
<1> QED BY <1>1, <1>2

LEMMA PlacePhisHandled ==
  ASSUME PlacementInv, HandledInv, PlacePhis
  PROVE  HandledInv'
<1>1. phase = "place" /\ UNCHANGED <<fn, body, df, active, var, phase>>
  BY DEF PlacePhis, Place, graph
<1>2. PICK new : insts' = [b \in Block |-> IF b \in new THEN <<PhiInst(var)>> \o insts[b] ELSE insts[b]]
  BY DEF PlacePhis, Place
<1>3. insts \in [Block -> Seq(Placed)] /\ var \in Var
  BY <1>1 DEF PlacementInv, TypingInv, PlacingPhis
<1>4. ASSUME NEW v \in Var, v # var PROVE SamePhis(v)
  <2>1. ASSUME NEW b \in Block PROVE PhisOf(v, b)' = {} <=> PhisOf(v, b) = {}
    BY <1>2, <1>3, <1>4, PhisOfOthers, PhisOfOthersStay
  <2> QED BY <2>1 DEF SamePhis
<1>5. ASSUME NEW v \in Var, v \notin active, v # var PROVE Handled(v)'
  <2>1. Handled(v)
    BY <1>1, <1>5 DEF HandledInv
  <2> QED BY <1>1, <1>4, <1>5, <2>1, HandledSame
<1> QED BY <1>1, <1>5 DEF HandledInv

LEMMA VariablePlacedHandled ==
  ASSUME PlacementInv, HandledInv, PassInv, VariablePlaced
  PROVE  HandledInv'
<1>1. /\ phase = "place" /\ queue = {} /\ phase' = "pick"
      /\ UNCHANGED <<fn, body, df, insts, active, var>>
  BY DEF VariablePlaced, graph, placing
<1>2. \A w \in Var : SamePhis(w)
  BY <1>1 DEF SamePhis, PhisOf
<1>3. Handled(var)
  <2>1. /\ defset[var] = DefBlocks(var) \cup frontiers
        /\ \A b \in defset[var] : df[b] \subseteq frontiers
        /\ OnePhiEach
    BY <1>1 DEF PlacementInv, QueueInv
  <2>2. frontiers \subseteq Block
    BY DEF PassInv, SetsInv
  <2>3. PhiBlocks(var) = frontiers
    BY <2>1, <2>2 DEF OnePhiEach, PhiBlocks, HasPhi
  <2> QED BY <2>1, <2>3 DEF Handled, ClosedUnderFrontiers
<1>4. ASSUME NEW w \in Var, w \notin active PROVE Handled(w)'
  <2>1. Handled(w)
    BY <1>1, <1>3, <1>4 DEF HandledInv
  <2> QED BY <1>1, <1>2, <2>1, HandledSame
<1> QED BY <1>1, <1>4 DEF HandledInv

LEMMA NextHandled == PassInv /\ PlacementInv /\ HandledInv /\ [Next]_vars => HandledInv'
<1> SUFFICES ASSUME PassInv, PlacementInv, HandledInv, [Next]_vars PROVE HandledInv'
  OBVIOUS
<1>1. CASE CollectDefs
  BY <1>1, CollectDefsHandled
<1>2. CASE PickVariable
  BY <1>2, PickVariableHandled
<1>3. CASE PlacePhis
  BY <1>3, PlacePhisHandled
<1>4. CASE VariablePlaced
  BY <1>4, VariablePlacedHandled
<1>5. CASE ~(CollectDefs \/ PickVariable \/ PlacePhis \/ VariablePlaced)
  <2>1. UNCHANGED <<fn, body, df, active, var>>
    BY <1>5 DEF Next, PassNext, BeginRename, RenamePhi, RenameStore, RenameLoad, Push,
         FillSuccessors, RenameChild, LeaveBlock, Leave, Start, ExecuteStore, ExecuteLoad, Jump,
         vars, graph, placing
  <2>2. \A v \in Var : SamePhis(v)
    BY <1>5, PhisStay DEF SamePhis
  <2>3. \/ phase' = phase
        \/ phase = "pick" /\ active = {} /\ phase' = "rename"
        \/ phase \notin {"collect", "pick", "place"} /\ phase' \notin {"collect", "pick", "place"}
    BY <1>5 DEF Next, PassNext, BeginRename, RenamePhi, RenameStore, RenameLoad, Push, InBody, Leaving,
         FillSuccessors, RenameChild, LeaveBlock, Leave, Start, ExecuteStore, ExecuteLoad, Jump, Running,
         vars, graph, placing
  <2>4. ASSUME NEW v \in Var, v \notin active', phase' # "collect", phase' = "place" => v # var'
        PROVE  Handled(v)'
    <3>1. Handled(v)
      BY <2>1, <2>3, <2>4 DEF HandledInv
    <3> QED BY <2>1, <2>2, <3>1, HandledSame
  <2>5. phase' \notin {"collect", "pick", "place"} => active' = {}
    BY <2>1, <2>3 DEF HandledInv
  <2> QED BY <2>4, <2>5 DEF HandledInv
<1> QED BY <1>1, <1>2, <1>3, <1>4, <1>5

-----------------------------------------------------------------------------
(* The points at which a variable is defined, and the value each gives it. *)
Points(v) ==
    {p \in Point(fn) : IF p[2] = 0 THEN HasPhi(v, p[1]) ELSE p[2] \in StoresOf(v, body[p[1]])}

Name(v, p) == IF p[2] = 0 THEN Phi(v, p[1]) ELSE Now(body[p[1]][p[2]], repl).val

PointOf(b, k) == <<b, IF k <= PhisIn(b) THEN 0 ELSE k - PhisIn(b)>>

InstrsOf(b) ==
    /\ \A k \in 1..Len(insts[b]) :
         /\ insts[b][k].op = "phi" <=> k <= PhisIn(b)
         /\ ~(k <= PhisIn(b)) =>
              /\ k - PhisIn(b) \in 1..Len(body[b])
              /\ insts[b][k] = Now(body[b][k - PhisIn(b)], repl)
              /\ body[b][k - PhisIn(b)].op = insts[b][k].op
              /\ body[b][k - PhisIn(b)].var = insts[b][k].var
    /\ \A m \in 1..Len(body[b]) :
         /\ PhisIn(b) + m \in 1..Len(insts[b]) /\ ~(PhisIn(b) + m <= PhisIn(b))
         /\ (PhisIn(b) + m) - PhisIn(b) = m

LEMMA InstrsAre ==
  ASSUME PassInv, NEW b \in Block, b \notin Past
  PROVE  InstrsOf(b)
<1> DEFINE n == PhisIn(b)
           l == Len(insts[b])
           z == Len(body[b])
<1>1. /\ insts[b] \in Seq(Item) /\ l \in Nat /\ n \in Nat /\ n <= l
      /\ PhiHead(insts[b], n) /\ Arranged(insts[b], body[b], repl, n)
      /\ body[b] \in Seq(Entering) /\ z \in Nat /\ l = n + z
  BY ShapeFacts DEF PassInv
<1>2. \A k \in 1..l : insts[b][k].op = "phi" <=> k <= n
  BY <1>1 DEF PhiHead
<1>3. \A m \in 1..z : insts[b][n + m] = Now(body[b][m], repl)
  BY <1>1 DEF Arranged
<1>4. ASSUME NEW k \in 1..l, ~(k <= n)
      PROVE  /\ k - n \in 1..z
             /\ insts[b][k] = Now(body[b][k - n], repl)
             /\ body[b][k - n].op = insts[b][k].op /\ body[b][k - n].var = insts[b][k].var
  <2> DEFINE m == k - n
  <2>1. m \in 1..z /\ n + m = k
    <3> HIDE DEF n, l, z
    <3> QED BY <1>1, <1>4
  <2> HIDE DEF m
  <2>2. insts[b][k] = Now(body[b][m], repl)
    BY <1>3, <2>1
  <2>3. body[b][m] \in Entering
    BY <1>1, <2>1
  <2>4. insts[b][k].op = body[b][m].op /\ insts[b][k].var = body[b][m].var
    BY <2>2, <2>3, NowFields
  <2> QED BY <2>1, <2>2, <2>4 DEF m
<1>5. ASSUME NEW m \in 1..z
      PROVE  n + m \in 1..l /\ ~(n + m <= n) /\ (n + m) - n = m
  <2> HIDE DEF n, l, z
  <2> QED BY <1>1
<1> QED BY <1>2, <1>4, <1>5 DEF InstrsOf

LEMMA OpenCalls ==
  ASSUME PassInv, phase = "rename"
  PROVE  /\ Len(frames) \in Nat \ {0} /\ Len(frames) \in 1..Len(frames)
         /\ BB = frames[Len(frames)].bb /\ Frame = frames[Len(frames)]
         /\ \A j \in 1..Len(frames) :
              /\ frames[j].bb \in Block /\ frames[j].bb \in Reachable(fn) /\ frames[j].bb \notin Past
              /\ j # Len(frames) => frames[j].k = Len(insts[frames[j].bb]) + 1
              /\ j # Len(frames) => StrictlyDominates(fn, frames[j].bb, BB)
         /\ \A i, j \in 1..Len(frames) : i < j => StrictlyDominates(fn, frames[i].bb, frames[j].bb)
         /\ \A d : Dominates(fn, d, BB) => \E i \in 1..Len(frames) : d = frames[i].bb
<1>1. /\ Calls(fn, frames) /\ frames \in Seq(FrameType(fn)) /\ frames # << >>
      /\ Len(frames) \in Nat \ {0} /\ Len(frames) \in 1..Len(frames)
  BY OnTop DEF PassInv
<1>2. BB = frames[Len(frames)].bb /\ Frame = frames[Len(frames)]
  BY DEF BB, Frame
<1>3. InBounds(frames, insts)
  BY DEF PassInv, CallsInv
<1> DEFINE n == Len(frames)
<1>4. \A j \in 1..n : j # n => j \in 1..(n - 1) /\ j < n
  <2>1. n \in Nat \ {0}
    BY <1>1
  <2> HIDE DEF n
  <2> QED BY <2>1
<1>5. ASSUME NEW j \in 1..n
      PROVE  /\ frames[j].bb \in Block /\ frames[j].bb \in Reachable(fn) /\ frames[j].bb \notin Past
             /\ j # n => frames[j].k = Len(insts[frames[j].bb]) + 1
             /\ j # n => StrictlyDominates(fn, frames[j].bb, BB)
  <2>1. frames[j].bb \in Block /\ frames[j].bb \in Reachable(fn)
    BY OpenBlocks
  <2>2. frames[j].bb \notin Past
    BY DEF Past, PastIn, OpenIn
  <2>3. j # n => frames[j].filled /\ StrictlyDominates(fn, frames[j].bb, frames[n].bb)
    BY <1>1, <1>4 DEF Calls
  <2> QED BY <1>2, <1>3, <2>1, <2>2, <2>3 DEF InBounds
<1> QED BY <1>1, <1>2, <1>5 DEF Calls

-----------------------------------------------------------------------------
(* Behind the phis of the block on top, what the open calls pushed are the *)
(* definitions before the next instruction, in order.                      *)
LEMMA PushedPoint ==
  ASSUME PassInv, phase = "rename", Frame.k > PhisIn(BB), NEW v \in Var,
         NEW p \in PushesIn(frames, insts, v), NEW b, b = frames[p[1]].bb, NEW k, k = p[2]
  PROVE  /\ PointOf(b, k) \in Points(v) /\ Before(fn, PointOf(b, k), <<BB, Position>>)
         /\ ValueAt(insts, b, k) = Name(v, PointOf(b, k))
         /\ k \in Nat /\ PhisIn(b) \in Nat /\ b \in Block
<1> DEFINE j == p[1]
           n == PhisIn(b)
           m == k - n
           x == insts[b][k]
<1>1. /\ j \in 1..Len(frames) /\ k \in 1..Len(insts[b]) /\ k < frames[j].k /\ k \in Nat
      /\ x.op \in {"phi", "store"} /\ x.var = v
  BY DEF PushesIn, PushAt, IsPush
<1>2. b \in Block /\ b \in Reachable(fn) /\ b \notin Past
  BY <1>1, OpenCalls
<1>3. InstrsOf(b) /\ n \in Nat
  BY <1>2, InstrsAre, ShapeFacts DEF PassInv
<1>4. CASE k <= n
  <2>1. PointOf(b, k) = <<b, 0>> /\ x.op = "phi"
    BY <1>1, <1>3, <1>4 DEF PointOf, InstrsOf
  <2>2. HasPhi(v, b)
    BY <1>1, <2>1 DEF HasPhi, PhisOf
  <2>3. <<b, 0>> \in Points(v)
    BY <1>2, <2>2 DEF Points, Point
  <2>4. ValueAt(insts, b, k) = Name(v, <<b, 0>>)
    BY <1>1, <2>1 DEF ValueAt, Name
  <2>5. Before(fn, <<b, 0>>, <<BB, Position>>)
    <3>1. CASE j = Len(frames)
      <4>1. b = BB
        BY <3>1, OpenCalls
      <4>2. 0 < Position
        <5>1. Frame.k \in Nat
          BY OnTop DEF PassInv
        <5>2. PhisIn(BB) \in Nat
          BY <1>3, <4>1
        <5> QED BY <5>1, <5>2 DEF Position
      <4> QED BY <4>1, <4>2 DEF Before
    <3>2. CASE j # Len(frames)
      BY <1>1, <3>2, OpenCalls DEF Before
    <3> QED BY <3>1, <3>2
  <2> QED BY <1>1, <1>2, <1>3, <2>1, <2>3, <2>4, <2>5
<1>5. CASE ~(k <= n)
  <2>1. PointOf(b, k) = <<b, m>>
    BY <1>5 DEF PointOf
  <2>2. /\ x.op = "store" /\ m \in 1..Len(body[b])
        /\ x = Now(body[b][m], repl) /\ body[b][m].op = "store" /\ body[b][m].var = v
    BY <1>1, <1>3, <1>5 DEF InstrsOf
  <2>3. m \in Nat /\ m # 0
    BY <1>1, <1>3, <1>5
  <2>4. <<b, m>> \in Points(v)
    <3> HIDE DEF m
    <3> QED BY <1>2, <2>2, <2>3 DEF Points, Point, StoresOf
  <2>5. ValueAt(insts, b, k) = Name(v, <<b, m>>)
    <3> HIDE DEF m
    <3> QED BY <2>2, <2>3 DEF ValueAt, Name
  <2>6. Before(fn, <<b, m>>, <<BB, Position>>)
    <3>1. CASE j = Len(frames)
      <4>1. b = BB /\ frames[j] = Frame
        BY <3>1, OpenCalls
      <4>2. m < Position
        <5>1. Frame.k \in Nat
          BY OnTop DEF PassInv
        <5>2. k < Frame.k
          BY <1>1, <4>1
        <5> QED BY <1>1, <1>3, <4>1, <5>1, <5>2 DEF Position
      <4> HIDE DEF m
      <4> QED BY <4>1, <4>2 DEF Before
    <3>2. CASE j # Len(frames)
      BY <1>1, <3>2, OpenCalls DEF Before
    <3> QED BY <3>1, <3>2
  <2> QED BY <1>1, <1>2, <1>3, <2>1, <2>4, <2>5, <2>6
<1> QED BY <1>4, <1>5

-----------------------------------------------------------------------------
LEMMA PointPushed ==
  ASSUME PassInv, phase = "rename", Frame.k > PhisIn(BB), NEW v \in Var,
         NEW o \in Points(v), Before(fn, o, <<BB, Position>>)
  PROVE  \E p \in PushesIn(frames, insts, v) : PointOf(frames[p[1]].bb, p[2]) = o
<1> DEFINE b == o[1]
           m == o[2]
           q == <<BB, Position>>
<1>1. b \in Reachable(fn) /\ m \in Nat /\ o = <<b, m>>
  BY DEF Points, Point
<1>2. b \in Block /\ Graph(fn)
  BY <1>1, GraphFacts DEF PassInv
<1>3. (b = BB /\ m < Position) \/ StrictlyDominates(fn, b, BB)
  BY DEF Before
<1>4. Dominates(fn, b, BB)
  BY <1>1, <1>2, <1>3, DominatesItself DEF StrictlyDominates
<1>5. PICK j \in 1..Len(frames) : b = frames[j].bb
  BY <1>4, OpenCalls
<1> DEFINE n == PhisIn(b)
<1>6. /\ b \notin Past /\ InstrsOf(b) /\ n \in Nat /\ Len(insts[b]) \in Nat /\ Frame.k \in Nat
      /\ n <= Len(insts[b]) /\ PhiHead(insts[b], n)
  BY <1>2, <1>5, OpenCalls, InstrsAre, ShapeFacts, OnTop DEF PassInv
<1>7. j = Len(frames) => b = BB /\ frames[j].k = Frame.k
  BY <1>5, OpenCalls
<1>8. j # Len(frames) => frames[j].k = Len(insts[b]) + 1
  BY <1>5, OpenCalls
<1>9. SUFFICES ASSUME NEW k \in 1..Len(insts[b]), k < frames[j].k, IsPush(insts[b][k], v),
                     PointOf(b, k) = o
              PROVE  \E p \in PushesIn(frames, insts, v) : PointOf(frames[p[1]].bb, p[2]) = o
  <2>1. \E k \in 1..Len(insts[b]) : k < frames[j].k /\ IsPush(insts[b][k], v) /\ PointOf(b, k) = o
    <3>1. CASE m = 0
      <4>1. PICK k \in 1..Len(insts[b]) : insts[b][k].op = "phi" /\ insts[b][k].var = v
        BY <1>1, <3>1 DEF Points, HasPhi, PhisOf
      <4>2. k <= n
        BY <1>6, <4>1 DEF InstrsOf
      <4>3. PointOf(b, k) = o
        BY <1>1, <3>1, <4>2 DEF PointOf
      <4>4. k < frames[j].k
        <5>1. CASE j = Len(frames)
          <6>1. Frame.k > n /\ frames[j].k = Frame.k
            BY <1>7, <5>1
          <6> DEFINE x == Frame.k
          <6>2. k <= n /\ n < x /\ x \in Nat /\ k \in Nat /\ n \in Nat
            BY <1>6, <4>2, <6>1
          <6> HIDE DEF x, n
          <6>3. k < x
            BY <6>2
          <6> QED BY <6>1, <6>3 DEF x
        <5>2. CASE j # Len(frames)
          <6> DEFINE x == Len(insts[b])
          <6>1. x \in Nat /\ k \in 1..x
            BY <1>6
          <6> HIDE DEF x
          <6>2. k < x + 1
            BY <6>1
          <6> QED BY <1>8, <5>2, <6>2 DEF x
        <5> QED BY <5>1, <5>2
      <4> QED BY <4>1, <4>3, <4>4 DEF IsPush
    <3>2. CASE m # 0
      <4>1. m \in 1..Len(body[b]) /\ body[b][m].op = "store" /\ body[b][m].var = v
        BY <1>1, <3>2 DEF Points, StoresOf
      <4> DEFINE k == n + m
      <4>2. k \in 1..Len(insts[b]) /\ ~(k <= n) /\ k - n = m
        BY <1>6, <4>1 DEF InstrsOf
      <4>3. insts[b][k].op = "store" /\ insts[b][k].var = v
        <5>1. body[b][k - n].op = insts[b][k].op /\ body[b][k - n].var = insts[b][k].var
          BY <1>6, <4>2 DEF InstrsOf
        <5> QED BY <4>1, <4>2, <5>1
      <4>4. PointOf(b, k) = o
        BY <1>1, <4>2 DEF PointOf
      <4>5. k < frames[j].k
        <5>1. CASE j = Len(frames)
          <6>1. ~StrictlyDominates(fn, b, BB)
            BY <1>7, <5>1 DEF StrictlyDominates
          <6>2. m < Frame.k - n /\ frames[j].k = Frame.k
            BY <1>3, <1>7, <5>1, <6>1 DEF Position
          <6> DEFINE x == Frame.k
          <6>3. m < x - n /\ x \in Nat /\ m \in Nat /\ n \in Nat
            BY <1>1, <1>6, <6>2
          <6> HIDE DEF x, m, n
          <6>4. n + m < x
            BY <6>3
          <6> QED BY <6>2, <6>4 DEF x
        <5>2. CASE j # Len(frames)
          <6> DEFINE x == Len(insts[b])
          <6>1. x \in Nat /\ k \in 1..x
            BY <1>6, <4>2
          <6> HIDE DEF x, k
          <6>2. k < x + 1
            BY <6>1
          <6> QED BY <1>8, <5>2, <6>2 DEF x
        <5> QED BY <5>1, <5>2
      <4> HIDE DEF k
      <4> QED BY <4>2, <4>3, <4>4, <4>5 DEF IsPush
    <3> QED BY <3>1, <3>2
  <2> QED BY <2>1
<1> DEFINE p == <<j, k>>
<1>10. j \in Nat /\ k \in Nat
  BY <1>6, OpenCalls
<1>11. PushAt(frames, insts, v, j, k)
  BY <1>5, <1>9 DEF PushAt
<1>12. p \in PushesIn(frames, insts, v)
  BY <1>10, <1>11 DEF PushesIn
<1> QED BY <1>5, <1>9, <1>12

LEMMA PointsInOrder ==
  ASSUME NEW b, PhisIn(b) \in Nat, NEW j \in Nat, NEW k \in Nat, j <= k
  PROVE  PointOf(b, j) = PointOf(b, k) \/ Before(fn, PointOf(b, j), PointOf(b, k))
<1> DEFINE n == PhisIn(b)
           x == IF j <= n THEN 0 ELSE j - n
           y == IF k <= n THEN 0 ELSE k - n
<1>1. x = y \/ x < y
  <2>1. n \in Nat
    OBVIOUS
  <2> HIDE DEF n
  <2>2. CASE k <= n
    <3>1. j <= n
      BY <2>1, <2>2
    <3> QED BY <2>2, <3>1
  <2>3. CASE ~(k <= n) /\ j <= n
    <3>1. 0 < k - n
      BY <2>1, <2>3
    <3> QED BY <2>3, <3>1
  <2>4. CASE ~(k <= n) /\ ~(j <= n)
    <3>1. j - n = k - n \/ j - n < k - n
      BY <2>1
    <3> QED BY <2>4, <3>1
  <2> QED BY <2>2, <2>3, <2>4
<1>2. PointOf(b, j) = <<b, x>> /\ PointOf(b, k) = <<b, y>>
  BY DEF PointOf
<1> HIDE DEF x, y
<1> QED BY <1>1, <1>2 DEF Before

LEMMA PushOrder ==
  ASSUME PassInv, phase = "rename", Frame.k > PhisIn(BB), NEW v \in Var,
         NEW p \in PushesIn(frames, insts, v), NEW r \in PushesIn(frames, insts, v), UpTo(r, p),
         NEW x, x = PointOf(frames[p[1]].bb, p[2]), NEW y, y = PointOf(frames[r[1]].bb, r[2])
  PROVE  y = x \/ Before(fn, y, x)
<1>1. p[1] \in 1..Len(frames) /\ r[1] \in 1..Len(frames)
  BY DEF PushesIn, PushAt
<1>2. p[2] \in Nat /\ r[2] \in Nat /\ PhisIn(frames[p[1]].bb) \in Nat
  BY PushedPoint
<1>3. CASE r[1] < p[1]
  <2>1. StrictlyDominates(fn, frames[r[1]].bb, frames[p[1]].bb)
    BY <1>1, <1>3, OpenCalls
  <2>2. x[1] = frames[p[1]].bb /\ y[1] = frames[r[1]].bb
    BY DEF PointOf
  <2> QED BY <2>1, <2>2 DEF Before
<1>4. CASE r[1] = p[1] /\ r[2] <= p[2]
  BY <1>2, <1>4, PointsInOrder
<1> QED BY <1>3, <1>4 DEF UpTo

(* So the top of the stack is what the nearest definition gives, and a     *)
(* variable without one has an empty stack.                                *)
LEMMA SeesTop ==
  ASSUME PassInv, StacksInv, phase = "rename", Frame.k > PhisIn(BB), NEW v \in Var,
         NEW q, q = <<BB, Position>>
  PROVE  /\ stk[v] = << >> => NoneBefore(fn, Points(v), q)
         /\ stk[v] # << >> => \E o : Nearest(fn, Points(v), o, q) /\ TopOf(stk[v]) = Name(v, o)
<1> DEFINE S == PushesIn(frames, insts, v)
           st == stk[v]
<1>1. st \in Seq(Finals) /\ S \subseteq Nat \X Nat /\ IsFiniteSet(S)
      /\ Len(st) = Cardinality(S) /\ Holds(frames, insts, S, st)
  BY StackTyped DEF StackIs, PushesIn
<1>2. CASE st = << >>
  <2>1. S = {}
    <3>1. Cardinality(S) = 0
      BY <1>1, <1>2
    <3> HIDE DEF S
    <3> QED BY <1>1, <3>1, FS_EmptySet
  <2> QED BY <1>2, <2>1, PointPushed DEF NoneBefore
<1>3. CASE st # << >>
  <2>1. S # {}
    <3>1. Len(st) # 0
      BY <1>1, <1>3
    <3> HIDE DEF S
    <3> QED BY <1>1, <3>1, FS_EmptySet
  <2>2. PICK p \in S : (\A r \in S : UpTo(r, p)) /\ Rank(S, p) = Cardinality(S)
    <3> HIDE DEF S
    <3> QED BY <1>1, <2>1, LastExists
  <2> DEFINE o == PointOf(frames[p[1]].bb, p[2])
  <2>3. o \in Points(v) /\ Before(fn, o, q) /\ ValueAt(insts, frames[p[1]].bb, p[2]) = Name(v, o)
    BY PushedPoint
  <2>4. TopOf(st) = ValueAt(insts, frames[p[1]].bb, p[2])
    <3>1. st[Rank(S, p)] = ValueAt(insts, frames[p[1]].bb, p[2])
      BY <1>1 DEF Holds
    <3> HIDE DEF S
    <3> QED BY <1>1, <1>3, <2>2, <3>1 DEF TopOf
  <2>5. ASSUME NEW y \in Points(v), Before(fn, y, q) PROVE y = o \/ Before(fn, y, o)
    <3>1. PICK r \in S : PointOf(frames[r[1]].bb, r[2]) = y
      BY <2>5, PointPushed
    <3>2. UpTo(r, p)
      BY <2>2
    <3> QED BY <3>1, <3>2, PushOrder
  <2>6. Nearest(fn, Points(v), o, q)
    <3> HIDE DEF o
    <3> QED BY <2>3, <2>5 DEF Nearest
  <2> QED BY <1>3, <2>3, <2>4, <2>6
<1> QED BY <1>2, <1>3

-----------------------------------------------------------------------------
(* x is what the point q sees of the variable v.                           *)
Sees(v, q, x) == \E o : Nearest(fn, Points(v), o, q) /\ x = Name(v, o)

(* Where a value comes from.                                               *)
Origin(x) == IF x[1] = "phi" THEN <<x[3], 0>> ELSE <<x[2], x[3]>>

From(x, q) == x # Garbage /\ Origin(x) \in Point(fn) /\ Before(fn, Origin(x), q)

End(b) == <<b, Len(body[b]) + 1>>

ReplacedInv ==
    \A b \in Reachable(fn) : \A m \in 1..Len(body[b]) :
      Load(b, m) \in DOMAIN repl =>
        /\ Sees(body[b][m].var, <<b, m>>, repl[Load(b, m)])
        /\ From(repl[Load(b, m)], <<b, m>>)

ArgsSee(v, args, filled, b) ==
    /\ \A a \in 1..Len(args) : Sees(v, End(args[a][2]), args[a][1])
    /\ \A p \in filled : Step(fn, p, b) =>
          NoneBefore(fn, Points(v), End(p)) \/ \E a \in 1..Len(args) : args[a][2] = p

ReachingInv ==
    \A b \in Reachable(fn) : \A k \in 1..Len(insts[b]) :
      insts[b][k].op = "phi" => ArgsSee(insts[b][k].var, insts[b][k].args, Filled, b)

SsaInv == ReplacedInv /\ ReachingInv

(* A step that replaces more loads changes no final value a point sees.    *)
MoreReplaced == \A l \in DOMAIN repl : l \in DOMAIN repl' /\ repl'[l] = repl[l]

LEMMA PointIsStore ==
  ASSUME GraphInv, NEW v, NEW o \in Points(v), o[2] # 0
  PROVE  /\ o[1] \in Reachable(fn) /\ o[2] \in 1..Len(body[o[1]]) /\ o[2] \in Nat
         /\ body[o[1]][o[2]] \in Entering
         /\ body[o[1]][o[2]].op = "store" /\ body[o[1]][o[2]].var = v
         /\ body[o[1]][o[2]].val \in {"new", "load"} \X Block \X Nat
         /\ o = <<o[1], o[2]>>
<1>1. o \in Point(fn) /\ o[2] \in StoresOf(v, body[o[1]])
  BY DEF Points
<1>2. o[1] \in Reachable(fn) /\ o[2] \in Nat /\ o = <<o[1], o[2]>>
  BY <1>1 DEF Point
<1>3. o[2] \in 1..Len(body[o[1]]) /\ body[o[1]][o[2]].op = "store" /\ body[o[1]][o[2]].var = v
  BY <1>1 DEF StoresOf
<1>4. body[o[1]] \in Seq(Entering)
  BY <1>2, GraphFacts
<1>5. body[o[1]][o[2]] \in Entering
  BY <1>3, <1>4
<1>6. body[o[1]][o[2]] \in StoreInst
  BY <1>3, <1>5, EnteringFields
<1>7. body[o[1]][o[2]].val \in {"new", "load"} \X Block \X Nat
  BY <1>6 DEF StoreInst
<1> QED BY <1>2, <1>3, <1>5, <1>7

LEMMA PointTypes == ASSUME NEW v PROVE Points(v) \subseteq Point(fn)
  BY DEF Points

LEMMA NameIs ==
  ASSUME GraphInv, NEW v, NEW o \in Points(v)
  PROVE  /\ o[2] = 0 => Name(v, o) = Phi(v, o[1])
         /\ o[2] # 0 => LET val == body[o[1]][o[2]].val IN
               Name(v, o) = IF val \in DOMAIN repl THEN repl[val] ELSE val
<1>1. CASE o[2] = 0
  BY <1>1 DEF Name
<1>2. CASE o[2] # 0
  <2> DEFINE x == body[o[1]][o[2]]
             y == Now(x, repl)
  <2>1. x \in Entering /\ x.op = "store"
    BY <1>2, PointIsStore
  <2>2. /\ x.op = "store" /\ x.val \in DOMAIN repl => y.val = repl[x.val]
        /\ ~(x.op = "store" /\ x.val \in DOMAIN repl) => y = x
    BY <2>1, NowFields
  <2>3. Name(v, o) = y.val
    BY <1>2 DEF Name
  <2> QED BY <1>2, <2>1, <2>2, <2>3
<1> QED BY <1>1, <1>2

LEMMA LoadNames == ASSUME ReplInv, NEW l \in DOMAIN repl PROVE \E b, m : l = Load(b, m)
  BY DEF ReplInv, IsReplaced

LEMMA NameStays ==
  ASSUME GraphInv, ReplInv', MoreReplaced, UNCHANGED <<fn, body>>, NEW v, NEW o \in Points(v),
         Name(v, o) \in Finals
  PROVE  Name(v, o)' = Name(v, o)
<1>1. CASE o[2] = 0
  BY <1>1 DEF Name, Phi
<1>2. CASE o[2] # 0
  <2> DEFINE x == body[o[1]][o[2]]
             y == Now(x, repl)
             z == Now(x, repl')
  <2>1. x \in Entering /\ x.op = "store"
    BY <1>2, PointIsStore
  <2>2. z.val = IF x.val \in DOMAIN repl' THEN repl'[x.val] ELSE x.val
    BY <2>1, NowFields
  <2>3. Name(v, o)' = z.val
    BY <1>2 DEF Name
  <2>4. Name(v, o) = IF x.val \in DOMAIN repl THEN repl[x.val] ELSE x.val
    BY <1>2, NameIs
  <2>5. CASE x.val \in DOMAIN repl
    BY <2>2, <2>3, <2>4, <2>5 DEF MoreReplaced
  <2>6. CASE x.val \notin DOMAIN repl
    <3>1. x.val \in Finals
      BY <2>4, <2>6
    <3>2. x.val \notin DOMAIN repl'
      BY <3>1, FinalsAreNotLoads DEF ReplInv, IsReplaced
    <3> QED BY <2>2, <2>3, <2>4, <2>6, <3>2
  <2> QED BY <2>5, <2>6
<1> QED BY <1>1, <1>2

LEMMA PointsStay ==
  ASSUME UNCHANGED <<fn, body>>, NEW v, SamePhis(v), Reachable(fn) \subseteq Block
  PROVE  Points(v)' = Points(v)
<1>1. ASSUME NEW p \in Point(fn)
      PROVE  (HasPhi(v, p[1])' <=> HasPhi(v, p[1])) /\ Point(fn)' = Point(fn)
  <2>1. p[1] \in Block
    BY DEF Point
  <2> QED BY <2>1 DEF SamePhis, HasPhi, Point
<1> QED BY <1>1 DEF Points, Point

LEMMA SeesStays ==
  ASSUME GraphInv, ReplInv', MoreReplaced, UNCHANGED <<fn, body>>, NEW v, SamePhis(v),
         NEW q, NEW x \in Finals, Sees(v, q, x)
  PROVE  Sees(v, q, x)'
<1>1. PICK o : Nearest(fn, Points(v), o, q) /\ x = Name(v, o)
  BY DEF Sees
<1>2. Points(v)' = Points(v)
  BY PointsStay, GraphFacts
<1>3. o \in Points(v)
  BY <1>1 DEF Nearest
<1>4. Name(v, o)' = x
  BY <1>1, <1>3, NameStays
<1>5. Nearest(fn, Points(v), o, q)'
  BY <1>1, <1>2 DEF Nearest, Before
<1> QED BY <1>4, <1>5 DEF Sees

LEMMA ReplacedStays ==
  ASSUME GraphInv, ReplInv, ReplInv', MoreReplaced, UNCHANGED <<fn, body>>,
         \A v \in Var : SamePhis(v), ReplacedInv,
         NEW b \in Reachable(fn), NEW m \in 1..Len(body[b]), Load(b, m) \in DOMAIN repl,
         NEW v, v = body[b][m].var, NEW x, x = repl[Load(b, m)], NEW q, q = <<b, m>>
  PROVE  repl'[Load(b, m)] = x /\ Sees(v, q, x)' /\ From(x, q)'
<1>1. x \in Finals /\ repl'[Load(b, m)] = x /\ Sees(v, q, x) /\ From(x, q)
  BY DEF ReplInv, FinalValues, MoreReplaced, ReplacedInv
<1>2. v \in Var
  <2>1. body[b] \in Seq(Entering)
    BY GraphFacts
  <2>2. body[b][m] \in Entering
    BY <2>1
  <2> QED BY <2>2, EnteringFields
<1>3. From(x, q)'
  BY <1>1 DEF From, Point, Before, Origin
<1>4. Sees(v, q, x)'
  BY <1>1, <1>2, SeesStays
<1> QED BY <1>1, <1>3, <1>4

LEMMA ReplacedAll ==
  ASSUME UNCHANGED <<fn, body>>,
         ASSUME NEW b \in Reachable(fn), NEW m \in 1..Len(body[b]), Load(b, m) \in DOMAIN repl',
                NEW v, v = body[b][m].var, NEW x, x = repl'[Load(b, m)], NEW q, q = <<b, m>>
         PROVE  Sees(v, q, x)' /\ From(x, q)'
  PROVE  ReplacedInv'
<1> SUFFICES ASSUME NEW b \in Reachable(fn)', NEW m \in 1..Len(body[b])', Load(b, m)' \in DOMAIN repl'
             PROVE  Sees(body[b][m].var, <<b, m>>, repl[Load(b, m)])' /\ From(repl[Load(b, m)], <<b, m>>)'
  BY DEF ReplacedInv
<1>1. b \in Reachable(fn) /\ m \in 1..Len(body[b]) /\ Load(b, m) \in DOMAIN repl' /\ body' = body
  BY DEF Load
<1>2. ASSUME NEW v, v = body[b][m].var, NEW x, x = repl'[Load(b, m)], NEW q, q = <<b, m>>
      PROVE  Sees(v, q, x)' /\ From(x, q)'
  BY <1>1, <1>2
<1>3. PICK v : v = body[b][m].var
  OBVIOUS
<1>4. PICK x : x = repl'[Load(b, m)]
  OBVIOUS
<1>5. PICK q : q = <<b, m>>
  OBVIOUS
<1>6. Sees(v, q, x)' /\ From(x, q)'
  BY <1>2, <1>3, <1>4, <1>5
<1>7. v = (body[b][m].var)' /\ x = (repl[Load(b, m)])' /\ q = <<b, m>>
  BY <1>1, <1>3, <1>4, <1>5 DEF Load
<1> QED BY <1>6, <1>7

LEMMA ReplacedKept ==
  ASSUME GraphInv, ReplInv, ReplInv', UNCHANGED <<fn, body, repl>>,
         \A v \in Var : SamePhis(v), ReplacedInv
  PROVE  ReplacedInv'
<1>1. MoreReplaced
  BY DEF MoreReplaced
<1>2. ASSUME NEW b \in Reachable(fn), NEW m \in 1..Len(body[b]), Load(b, m) \in DOMAIN repl',
             NEW v, v = body[b][m].var, NEW x, x = repl'[Load(b, m)], NEW q, q = <<b, m>>
      PROVE  Sees(v, q, x)' /\ From(x, q)'
  BY <1>1, <1>2, ReplacedStays
<1> QED BY <1>2, ReplacedAll

-----------------------------------------------------------------------------
(* Where every path to a load passes a store, a definition comes before    *)
(* the load.                                                               *)
Definite == \A f \in Functions : StoredFirst(f)

LoadAt(v, b, m) ==
    /\ b \in Reachable(fn) /\ m \in 1..Len(body[b])
    /\ body[b][m].op = "load" /\ body[b][m].var = v

LEMMA LoadsAre ==
  ASSUME GraphInv, NEW v, NEW b, NEW m, LoadAt(v, b, m)
  PROVE  /\ b \in Block /\ b \in Blocks /\ m \in Nat \ {0} /\ v \in Var
         /\ body[b][m] = [op |-> "load", var |-> v] /\ <<b, m>> \in Point(fn)
<1>1. b \in Block /\ b \in Blocks /\ m \in Nat \ {0} /\ body[b] \in Seq(Entering)
  BY GraphFacts, BodyPositions DEF LoadAt
<1>2. body[b][m] \in Entering
  BY <1>1 DEF LoadAt
<1>3. body[b][m] \in LoadInst /\ v \in Var
  BY <1>2, EnteringFields, ItemFields DEF LoadAt
<1>4. body[b][m] = [op |-> "load", var |-> v]
  BY <1>3 DEF LoadAt, LoadInst
<1> QED BY <1>1, <1>3, <1>4 DEF Point, LoadAt

StoreBefore(v, b, m) == \E k \in 1..(m - 1) : body[b][k].op = "store" /\ body[b][k].var = v

LEMMA StoredOnTheWay ==
  ASSUME GraphInv, Definite, NEW v, NEW b, NEW m, LoadAt(v, b, m), ~StoreBefore(v, b, m)
  PROVE  b # Entry(fn) /\ Members(fn.pre[b]) \cap ReachAvoiding(fn, DefBlocks(v)) = {}
<1>1. PICK f \in Functions : fn = f.cfg /\ body = f.body
  BY DEF GraphInv
<1>2. StoredFirst(f)
  BY DEF Definite
<1>3. /\ b \in Members(f.cfg.blocks) /\ m \in 1..Len(f.body[b]) /\ v \in Var
      /\ f.body[b][m] = [op |-> "load", var |-> v]
  BY <1>1, LoadsAre DEF Blocks, LoadAt
<1>4. ~ \E k \in 1..(m - 1) : f.body[b][k].op = "store" /\ f.body[b][k].var = v
  BY <1>1 DEF StoreBefore
<1> DEFINE storing == {c \in Members(f.cfg.blocks) :
                         \E k \in 1..Len(f.body[c]) : f.body[c][k].op = "store" /\ f.body[c][k].var = v}
<1>5. b # Entry(f.cfg) /\ Members(f.cfg.pre[b]) \cap ReachAvoiding(f.cfg, storing) = {}
  BY <1>2, <1>3, <1>4 DEF StoredFirst
<1>6. DefBlocks(v) = storing
  BY <1>1 DEF DefBlocks, StoresOf, Blocks
<1> QED BY <1>1, <1>5, <1>6

LEMMA StorePoint ==
  ASSUME GraphInv, NEW v, NEW b \in Reachable(fn), NEW k \in StoresOf(v, body[b])
  PROVE  <<b, k>> \in Points(v) /\ k \in Nat \ {0}
<1>1. k \in 1..Len(body[b])
  BY DEF StoresOf
<1>2. k \in Nat \ {0}
  BY <1>1, BodyPositions
<1> QED BY <1>2 DEF Points, Point

LEMMA PointsCover ==
  ASSUME GraphInv, NEW v
  PROVE  Covers(fn, Points(v), DefBlocks(v))
<1> SUFFICES ASSUME NEW c \in DefBlocks(v), c \in Reachable(fn) PROVE \E p \in Points(v) : p[1] = c
  BY DEF Covers
<1>1. PICK k : k \in StoresOf(v, body[c])
  BY DEF DefBlocks
<1>2. <<c, k>> \in Points(v)
  BY <1>1, StorePoint
<1> QED BY <1>2

LEMMA PointsClosed ==
  ASSUME GraphInv, NEW v, ClosedUnderFrontiers(v, PhiBlocks(v))
  PROVE  ClosedPoints(fn, Points(v))
<1> SUFFICES ASSUME NEW p \in Points(v), NEW c \in FrontierOf(fn, Dominance(fn), p[1])
             PROVE  <<c, 0>> \in Points(v)
  BY DEF ClosedPoints
<1>1. p[1] \in Reachable(fn) /\ p[1] \in Block /\ p[1] \in Blocks
  BY GraphFacts DEF Points, Point
<1>2. c \in df[p[1]] /\ c \in Reachable(fn)
  BY <1>1, GraphFacts DEF GraphInv
<1>3. p[1] \in DefBlocks(v) \cup PhiBlocks(v)
  BY <1>1 DEF Points, PhiBlocks, DefBlocks
<1>4. HasPhi(v, c)
  BY <1>2, <1>3 DEF ClosedUnderFrontiers, PhiBlocks
<1> QED BY <1>2, <1>4 DEF Points, Point

LEMMA LoadDefined ==
  ASSUME GraphInv, Definite, NEW v, Handled(v), NEW b, NEW m, LoadAt(v, b, m), NEW q, q = <<b, m>>
  PROVE  ~NoneBefore(fn, Points(v), q)
<1>1. b \in Reachable(fn) /\ m \in Nat \ {0} /\ FlowGraph(fn) /\ body[b] \in Seq(Entering)
  BY LoadsAre, GraphFacts DEF LoadAt
<1>2. CASE StoreBefore(v, b, m)
  <2>1. PICK k \in 1..(m - 1) : body[b][k].op = "store" /\ body[b][k].var = v
    BY <1>2 DEF StoreBefore
  <2>2. k < m /\ k \in 1..Len(body[b])
    <3> DEFINE l == Len(body[b])
    <3>1. l \in Nat /\ m \in 1..l
      BY <1>1 DEF LoadAt
    <3> HIDE DEF l
    <3>2. k < m /\ k \in 1..l
      BY <1>1, <3>1
    <3> QED BY <3>2 DEF l
  <2>3. <<b, k>> \in Points(v)
    BY <1>1, <2>1, <2>2, StorePoint DEF StoresOf
  <2> QED BY <2>2, <2>3 DEF NoneBefore, Before
<1>3. CASE ~StoreBefore(v, b, m)
  <2>1. b # Entry(fn) /\ Members(fn.pre[b]) \cap ReachAvoiding(fn, DefBlocks(v)) = {}
    BY <1>3, StoredOnTheWay
  <2>2. Points(v) \subseteq Point(fn) /\ Covers(fn, Points(v), DefBlocks(v))
    BY PointTypes, PointsCover
  <2>3. CASE ClosedUnderFrontiers(v, PhiBlocks(v))
    BY <1>1, <2>1, <2>2, <2>3, PointsClosed, DefinedWhenClosed DEF NoneBefore
  <2>4. CASE \E s : DefBlocks(v) = {s}
    <3>1. PICK s : DefBlocks(v) = {s}
      BY <2>4
    <3>2. q[1] = b
      OBVIOUS
    <3> QED BY <1>1, <2>1, <2>2, <3>1, <3>2, DefinedWhenSingle DEF NoneBefore
  <2> QED BY <2>3, <2>4 DEF Handled
<1> QED BY <1>2, <1>3

-----------------------------------------------------------------------------
(* What a store stores was computed before it.                             *)
LEMMA StoredValue ==
  ASSUME GraphInv, NEW v, NEW o \in Points(v), o[2] # 0, NEW val, val = body[o[1]][o[2]].val
  PROVE  /\ val[1] = "new" => val = <<"new", o[1], o[2]>>
         /\ val[1] # "new" =>
              /\ val[1] = "load" /\ val = Load(val[2], val[3])
              /\ val[3] \in 1..Len(body[val[2]]) /\ val[3] \in Nat \ {0}
              /\ body[val[2]][val[3]].op = "load" /\ val[2] \in Reachable(fn)
              /\ Before(fn, <<val[2], val[3]>>, o)
<1>1. /\ o[1] \in Reachable(fn) /\ o[2] \in 1..Len(body[o[1]])
      /\ body[o[1]][o[2]].op = "store" /\ val \in {"new", "load"} \X Block \X Nat
      /\ o = <<o[1], o[2]>>
  BY PointIsStore
<1>2. PICK f \in Functions : fn = f.cfg /\ body = f.body
  BY DEF GraphInv
<1>3. Available(f, val, o[1], o[2])
  BY <1>1, <1>2, FunctionsAssumption
<1>4. CASE val[1] = "new"
  BY <1>3, <1>4 DEF Available
<1>5. CASE val[1] # "new"
  <2>1. val[1] = "load" /\ val = Load(val[2], val[3]) /\ val[3] \in Nat
    BY <1>1, <1>5 DEF Load
  <2>2. /\ val[3] \in 1..Len(body[val[2]]) /\ body[val[2]][val[3]].op = "load"
        /\ IF val[2] = o[1] THEN val[3] < o[2] ELSE <<val[2], o[1]>> \in Dominance(fn)
    BY <1>2, <1>3, <1>5 DEF Available
  <2>3. CASE val[2] = o[1]
    BY <1>1, <2>1, <2>2, <2>3, BodyPositions DEF Before
  <2>4. CASE val[2] # o[1]
    <3>1. Dominates(fn, val[2], o[1])
      <4>1. Graph(fn)
        BY GraphFacts
      <4>2. PICK x, y, pair : x = val[2] /\ y = o[1] /\ pair = <<x, y>>
        OBVIOUS
      <4>3. pair \in Dominance(fn)
        BY <2>2, <2>4, <4>2
      <4>4. PICK w, z : pair = <<w, z>> /\ Dominates(fn, w, z)
        BY <4>1, <4>3, DominancePairs
      <4>5. w = x /\ z = y
        BY <4>2, <4>4
      <4> QED BY <4>2, <4>4, <4>5
    <3>2. val[2] \in Reachable(fn)
      BY <3>1 DEF Dominates
    <3> QED BY <2>1, <2>2, <2>4, <3>1, <3>2, BodyPositions DEF Before, StrictlyDominates
  <2> QED BY <1>5, <2>1, <2>2, <2>3, <2>4
<1> QED BY <1>4, <1>5

(* So the value a definition gives comes from a point before everything    *)
(* the definition comes before.                                            *)
LEMMA NamesFrom ==
  ASSUME GraphInv, ReplInv, ReplacedInv, NEW v, NEW o \in Points(v), Name(v, o) \in Finals
  PROVE  \A q \in Point(fn) : Before(fn, o, q) => From(Name(v, o), q)
<1> SUFFICES ASSUME NEW q \in Point(fn), Before(fn, o, q) PROVE From(Name(v, o), q)
  OBVIOUS
<1> DEFINE x == Name(v, o)
<1>1. o \in Point(fn) /\ Graph(fn) /\ o = <<o[1], o[2]>>
  BY PointTypes, GraphFacts DEF Point
<1>2. CASE o[2] = 0
  <2>1. x = <<"phi", v, o[1]>>
    BY <1>2 DEF Name, Phi
  <2>2. Origin(x) = o
    BY <1>1, <1>2, <2>1 DEF Origin
  <2>3. x # Garbage
    <3>1. x[1] = "phi" /\ Garbage[1] = "garbage"
      BY <2>1 DEF Garbage
    <3> QED BY <3>1
  <2> QED BY <1>1, <2>2, <2>3 DEF From
<1>3. CASE o[2] # 0
  <2> DEFINE val == body[o[1]][o[2]].val
  <2>1. x = IF val \in DOMAIN repl THEN repl[val] ELSE val
    BY <1>3, NameIs
  <2>2. CASE val[1] = "new"
    <3>1. val = <<"new", o[1], o[2]>>
      BY <1>3, <2>2, StoredValue
    <3>2. val \notin DOMAIN repl
      <4>1. \A b, m : val # Load(b, m)
        BY <3>1 DEF Load
      <4> QED BY <4>1, LoadNames
    <3>3. x = <<"new", o[1], o[2]>>
      BY <2>1, <3>1, <3>2
    <3>4. Origin(x) = o
      BY <1>1, <3>3 DEF Origin
    <3>5. x # Garbage
      <4>1. x[1] = "new" /\ Garbage[1] = "garbage"
        BY <3>3 DEF Garbage
      <4> QED BY <4>1
    <3> QED BY <1>1, <3>4, <3>5 DEF From
  <2>3. CASE val[1] # "new"
    <3> DEFINE b == val[2]
               m == val[3]
               p == <<b, m>>
    <3>1. /\ val = Load(b, m) /\ m \in 1..Len(body[b]) /\ m \in Nat
          /\ b \in Reachable(fn) /\ Before(fn, p, o)
      BY <1>3, <2>3, StoredValue
    <3>2. val \in DOMAIN repl
      <4>1. CASE val \notin DOMAIN repl
        <5>1. x = val
          BY <2>1, <4>1
        <5>2. \A y \in Finals : y # Load(b, m)
          BY FinalsAreNotLoads
        <5> QED BY <3>1, <5>1, <5>2
      <4> QED BY <4>1
    <3>3. x = repl[Load(b, m)] /\ Load(b, m) \in DOMAIN repl
      BY <2>1, <3>1, <3>2
    <3>4. From(x, p)
      BY <3>1, <3>3 DEF ReplacedInv
    <3>5. p \in Point(fn) /\ Origin(x) \in Point(fn) /\ x # Garbage /\ Before(fn, Origin(x), p)
      BY <3>1, <3>4 DEF Point, From
    <3>6. Before(fn, p, q)
      BY <1>1, <3>1, <3>5, BeforeTransitive
    <3>7. Before(fn, Origin(x), q)
      BY <1>1, <3>5, <3>6, BeforeTransitive
    <3> QED BY <3>5, <3>7 DEF From
  <2> QED BY <2>2, <2>3
<1> QED BY <1>2, <1>3

-----------------------------------------------------------------------------
(* A load is replaced by what it sees.                                     *)
LEMMA LoadSees ==
  ASSUME PassInv, StacksInv, SsaInv, HandledInv, Definite, InBody, Instr.op = "load",
         NEW v, v = Instr.var, NEW q, q = <<BB, Position>>, NEW x, x = TopOf(stk[v])
  PROVE  Sees(v, q, x) /\ From(x, q) /\ x \in Finals
<1>1. GraphInv /\ ReplInv /\ ReplacedInv /\ phase = "rename" /\ active = {}
  BY DEF PassInv, SsaInv, InBody, HandledInv
<1>2. /\ v \in Var /\ Position \in 1..Len(body[BB]) /\ body[BB][Position].op = "load"
      /\ body[BB][Position].var = v /\ PhisIn(BB) + Position = Frame.k
  BY AtInstr
<1>3. BB \in Reachable(fn) /\ BB \in Block /\ Frame.k \in Nat /\ PhisIn(BB) \in Nat
  BY <1>1, OnTop, ShapeFacts DEF PassInv
<1>4. LoadAt(v, BB, Position)
  BY <1>2, <1>3 DEF LoadAt
<1>5. Handled(v)
  BY <1>1, <1>2 DEF HandledInv
<1>6. ~NoneBefore(fn, Points(v), q)
  BY <1>1, <1>4, <1>5, LoadDefined
<1>7. Position \in Nat \ {0} /\ q \in Point(fn)
  BY <1>1, <1>4, LoadsAre
<1>8. Frame.k > PhisIn(BB)
  <2> DEFINE n == PhisIn(BB)
             m == Position
             k == Frame.k
  <2>1. n \in Nat /\ m \in Nat \ {0} /\ n + m = k
    BY <1>2, <1>3, <1>7
  <2> HIDE DEF n, m, k
  <2>2. k > n
    BY <2>1
  <2> QED BY <2>2 DEF n, k
<1>9. PICK o : Nearest(fn, Points(v), o, q) /\ x = Name(v, o)
  BY <1>1, <1>2, <1>6, <1>8, SeesTop
<1>10. x \in Finals
  BY <1>1, <1>2, TopIsFinal DEF PassInv, PhaseInv
<1>11. o \in Points(v) /\ Before(fn, o, q)
  BY <1>9 DEF Nearest
<1>12. From(x, q)
  BY <1>1, <1>7, <1>9, <1>10, <1>11, NamesFrom
<1> QED BY <1>9, <1>10, <1>12 DEF Sees

-----------------------------------------------------------------------------
(* What the arguments of the phis see stays what they see.                 *)
LEMMA ArgsSeeStays ==
  ASSUME GraphInv, ReplInv', MoreReplaced, UNCHANGED <<fn, body>>, NEW v, SamePhis(v),
         NEW args \in Seq(Finals \X Block), NEW filled, NEW b, ArgsSee(v, args, filled, b)
  PROVE  ArgsSee(v, args, filled, b)'
<1>1. ASSUME NEW a \in 1..Len(args)
      PROVE  Sees(v, End(args[a][2]), args[a][1])'
  <2>1. PICK q : q = End(args[a][2])
    OBVIOUS
  <2>2. PICK x : x = args[a][1]
    OBVIOUS
  <2>3. Sees(v, q, x)
    BY <2>1, <2>2 DEF ArgsSee
  <2>4. x \in Finals
    <3>1. args[a] \in Finals \X Block
      OBVIOUS
    <3> QED BY <2>2, <3>1
  <2>5. Sees(v, q, x)'
    BY <2>3, <2>4, SeesStays
  <2>6. q = End(args[a][2])'
    BY <2>1 DEF End
  <2> QED BY <2>2, <2>5, <2>6
<1>2. Points(v)' = Points(v)
  BY PointsStay, GraphFacts
<1>3. ASSUME NEW p \in filled, Step(fn, p, b)
      PROVE  NoneBefore(fn, Points(v), End(p))' \/ \E a \in 1..Len(args) : args[a][2] = p
  <2>1. NoneBefore(fn, Points(v), End(p)) \/ \E a \in 1..Len(args) : args[a][2] = p
    BY <1>3 DEF ArgsSee
  <2>2. NoneBefore(fn, Points(v), End(p)) => NoneBefore(fn, Points(v), End(p))'
    BY <1>2 DEF NoneBefore, Before, End
  <2> QED BY <2>1, <2>2
<1> QED BY <1>1, <1>3 DEF ArgsSee

LEMMA ReachingAll ==
  ASSUME UNCHANGED <<fn, body>>,
         ASSUME NEW b \in Reachable(fn), NEW k \in 1..Len(insts'[b]), insts'[b][k].op = "phi",
                NEW v, v = insts'[b][k].var, NEW args, args = insts'[b][k].args,
                NEW filled, filled = Filled'
         PROVE  ArgsSee(v, args, filled, b)'
  PROVE  ReachingInv'
<1> SUFFICES ASSUME NEW b \in Reachable(fn)', NEW k \in 1..Len(insts[b])', (insts[b][k].op = "phi")'
             PROVE  ArgsSee(insts[b][k].var, insts[b][k].args, Filled, b)'
  BY DEF ReachingInv
<1>1. b \in Reachable(fn) /\ k \in 1..Len(insts'[b]) /\ insts'[b][k].op = "phi"
  OBVIOUS
<1>3. PICK v : v = insts'[b][k].var
  OBVIOUS
<1>4. PICK args : args = insts'[b][k].args
  OBVIOUS
<1>5. PICK filled : filled = Filled'
  OBVIOUS
<1>6. ArgsSee(v, args, filled, b)'
  BY <1>1, <1>3, <1>4, <1>5
<1>7. v = (insts[b][k].var)' /\ args = (insts[b][k].args)'
  BY <1>3, <1>4
<1> QED BY <1>5, <1>6, <1>7

PhiEntry(b, k, v, args) ==
    k \in 1..Len(insts[b]) /\ insts[b][k].op = "phi" /\ insts[b][k].var = v /\ insts[b][k].args = args

LEMMA PhiEntryType ==
  ASSUME GraphInv, ShapeInv, NEW b \in Reachable(fn), NEW k, NEW v, NEW args, PhiEntry(b, k, v, args)
  PROVE  v \in Var /\ args \in Seq(Finals \X Block)
<1>1. b \in Block
  BY GraphFacts
<1>2. insts[b] \in Seq(Item) /\ k \in 1..Len(insts[b])
  BY <1>1, ShapeFacts DEF PhiEntry
<1>3. insts[b][k] \in Item
  BY <1>2
<1> QED BY <1>3, ItemFields DEF PhiEntry

LEMMA ReachingKept ==
  ASSUME GraphInv, ShapeInv, ReplInv', MoreReplaced, UNCHANGED <<fn, body>>, ReachingInv,
         \A v \in Var : SamePhis(v), Filled' = Filled,
         \A b \in Reachable(fn) : \A k \in 1..Len(insts'[b]) : insts'[b][k].op = "phi" =>
            \E j : PhiEntry(b, j, insts'[b][k].var, insts'[b][k].args)
  PROVE  ReachingInv'
<1>1. ASSUME NEW b \in Reachable(fn), NEW k \in 1..Len(insts'[b]), insts'[b][k].op = "phi",
             NEW v, v = insts'[b][k].var, NEW args, args = insts'[b][k].args,
             NEW filled, filled = Filled'
      PROVE  ArgsSee(v, args, filled, b)'
  <2>1. PICK j : PhiEntry(b, j, v, args)
    BY <1>1
  <2>2. v \in Var /\ args \in Seq(Finals \X Block)
    BY <2>1, PhiEntryType
  <2>3. ArgsSee(v, args, filled, b)
    BY <1>1, <2>1 DEF PhiEntry, ReachingInv
  <2> QED BY <2>2, <2>3, ArgsSeeStays
<1> QED BY <1>1, ReachingAll

LEMMA AllSamePhis ==
  ASSUME PassInv, [Next]_vars, ~PlacePhis
  PROVE  \A v \in Var : SamePhis(v)
  BY PhisStay DEF SamePhis

LEMMA RenameLoadSsa ==
  ASSUME PassInv, StacksInv, SsaInv, HandledInv, Definite, RenameLoad
  PROVE  SsaInv'
<1> DEFINE old == Load(BB, Position)
           v == Instr.var
           new == TopOf(stk[v])
           q == <<BB, Position>>
<1>1. /\ InBody /\ Instr.op = "load" /\ Advance /\ UNCHANGED <<graph, phase, placing, stk>>
      /\ ReplacedIn(old, new) /\ UNCHANGED <<fn, body>>
  BY DEF RenameLoad, ReplacedIn, Position, With, graph
<1>2. new \in Finals /\ IsLoad(old)
  BY <1>1, LoadReplaced
<1>3. GraphInv /\ ReplInv /\ ShapeInv /\ CallsInv /\ ReplacedInv /\ ReachingInv /\ phase = "rename"
  BY <1>1 DEF PassInv, SsaInv, InBody
<1>4. PassInv' /\ ReplInv'
  BY RenameLoadStep DEF PassInv
<1>5. \A w \in Var : SamePhis(w)
  <2>1. ~PlacePhis
    BY <1>3 DEF PlacePhis, Place
  <2>2. Next
    BY DEF Next, PassNext
  <2> QED BY <2>1, <2>2, AllSamePhis
<1>6. ASSUME NEW b \in Block
      PROVE  /\ SameSkeleton(insts[b], insts'[b])
             /\ \A k \in 1..Len(insts[b]) : insts[b][k].op # "store" => insts'[b][k] = insts[b][k]
  <2> HIDE DEF old, new
  <2> QED BY <1>1, <1>2, ReplacedItems
<1>7. Filled' = Filled
  BY <1>1, <1>6, AdvanceStep
<1>8. Sees(v, q, new) /\ From(new, q) /\ v \in Var
  <2>1. v \in Var
    BY <1>1, AtInstr
  <2> QED BY <1>1, <2>1, LoadSees
<1>9. old \notin DOMAIN repl
  <2>1. SUFFICES ASSUME old \in DOMAIN repl PROVE FALSE
    OBVIOUS
  <2>2. PICK b, m : old = Load(b, m) /\ Passed(b, m)
    BY <1>3, <2>1 DEF ReplInv, IsReplaced
  <2>3. Passed(BB, Position)
    BY <2>2 DEF Load
  <2>4. PhisIn(BB) + Position = Frame.k /\ Frame.k \in Nat
    BY <1>1, <1>3, AtInstr, OnTop
  <2>5. Frame.k >= Frame.k
    BY <2>4
  <2> QED BY <1>3, <2>3, <2>4, <2>5, NotPassedYet DEF Passed
<1>10. /\ \A l \in DOMAIN repl : l \in DOMAIN repl' /\ repl'[l] = repl[l]
       /\ old \in DOMAIN repl' /\ repl'[old] = new
       /\ \A l \in DOMAIN repl' : l = old \/ l \in DOMAIN repl
  <2> HIDE DEF old, new
  <2> QED BY <1>1, <1>9 DEF ReplacedIn, With
<1>11. MoreReplaced
  BY <1>10 DEF MoreReplaced
<1>12. ReplacedInv'
  <2>1. ASSUME NEW b \in Reachable(fn), NEW m \in 1..Len(body[b]), Load(b, m) \in DOMAIN repl',
               NEW w, w = body[b][m].var, NEW x, x = repl'[Load(b, m)], NEW p, p = <<b, m>>
        PROVE  Sees(w, p, x)' /\ From(x, p)'
    <3>1. CASE Load(b, m) \in DOMAIN repl
      <4>1. PICK z : z = repl[Load(b, m)]
        OBVIOUS
      <4>2. repl'[Load(b, m)] = z /\ Sees(w, p, z)' /\ From(z, p)'
        BY <1>1, <1>3, <1>4, <1>5, <1>11, <2>1, <3>1, <4>1, ReplacedStays
      <4> QED BY <2>1, <4>2
    <3>2. CASE Load(b, m) \notin DOMAIN repl
      <4>1. Load(b, m) = old
        BY <1>10, <2>1, <3>2
      <4>2. b = BB /\ m = Position
        BY <4>1 DEF Load
      <4>3. x = new /\ p = q
        BY <1>10, <2>1, <4>1, <4>2
      <4>4. w = v
        BY <1>1, <2>1, <4>2, AtInstr
      <4>5. Sees(w, p, x) /\ From(x, p) /\ w \in Var /\ x \in Finals
        BY <1>2, <1>8, <4>3, <4>4
      <4>6. Sees(w, p, x)'
        BY <1>1, <1>3, <1>4, <1>5, <1>11, <4>5, SeesStays
      <4>7. From(x, p)'
        BY <1>1, <4>5 DEF From, Point, Before, Origin
      <4> QED BY <4>6, <4>7
    <3> QED BY <3>1, <3>2
  <2> QED BY <1>1, <2>1, ReplacedAll
<1>13. ReachingInv'
  <2>1. ASSUME NEW b \in Reachable(fn), NEW k \in 1..Len(insts'[b]), insts'[b][k].op = "phi"
        PROVE  PhiEntry(b, k, insts'[b][k].var, insts'[b][k].args)
    <3>1. b \in Block
      BY <1>3, GraphFacts
    <3>2. k \in 1..Len(insts[b]) /\ insts[b][k].op = "phi"
      BY <1>6, <2>1, <3>1 DEF SameSkeleton
    <3>3. insts'[b][k] = insts[b][k]
      BY <1>6, <3>1, <3>2
    <3> QED BY <3>2, <3>3 DEF PhiEntry
  <2> QED BY <1>1, <1>3, <1>4, <1>5, <1>7, <1>11, <2>1, ReachingKept
<1> QED BY <1>12, <1>13 DEF SsaInv

-----------------------------------------------------------------------------
(* A block tells its successors what it sees at its end.                   *)
Unseen(v, p, b) == NoneBefore(fn, Points(v), End(p)) \/ ~Step(fn, p, b)

LEMMA ArgsSeeMore ==
  ASSUME NEW v, NEW args, NEW filled, NEW b, ArgsSee(v, args, filled, b), NEW p, Unseen(v, p, b),
         NEW all, all = filled \cup {p}
  PROVE  ArgsSee(v, args, all, b)
  BY DEF ArgsSee, Unseen

LEMMA ArgsSeeAppended ==
  ASSUME NEW v, NEW args \in Seq(Finals \X Block), NEW filled, NEW b, ArgsSee(v, args, filled, b),
         NEW x \in Finals \X Block, NEW p, x[2] = p, Sees(v, End(p), x[1]),
         NEW t, Longer(args, x, t), NEW all, all = filled \cup {p}
  PROVE  ArgsSee(v, t, all, b)
<1> DEFINE l == Len(args)
           S == Finals \X Block
<1>1. /\ l \in Nat /\ Len(t) = l + 1 /\ t[l + 1] = x /\ \A a \in 1..l : t[a] = args[a]
  <2>1. AppendOf(S, args, x, t)
    <3> HIDE DEF S
    <3> QED BY AppendIs DEF S
  <2> HIDE DEF S
  <2> QED BY <2>1 DEF AppendOf, S
<1>2. /\ \A a \in 1..l : Sees(v, End(args[a][2]), args[a][1])
      /\ \A r \in filled : Step(fn, r, b) =>
            NoneBefore(fn, Points(v), End(r)) \/ \E a \in 1..l : args[a][2] = r
  BY DEF ArgsSee
<1> DEFINE z == Len(t)
<1>3. l \in Nat /\ z = l + 1
  BY <1>1
<1> HIDE DEF l, z
<1>4. \A a : a \in 1..z <=> a \in 1..l \/ a = l + 1
  BY <1>3
<1>5. ASSUME NEW a \in 1..z
      PROVE  Sees(v, End(t[a][2]), t[a][1])
  <2>1. CASE a \in 1..l
    BY <1>1, <1>2, <2>1
  <2>2. CASE a = l + 1
    BY <1>1, <2>2
  <2> QED BY <1>4, <2>1, <2>2
<1>6. ASSUME NEW r \in all, Step(fn, r, b)
      PROVE  NoneBefore(fn, Points(v), End(r)) \/ \E a \in 1..z : t[a][2] = r
  <2>1. CASE r = p
    BY <1>1, <1>4, <2>1
  <2>2. CASE r \in filled
    BY <1>1, <1>2, <1>4, <1>6, <2>2
  <2> QED BY <2>1, <2>2
<1> QED BY <1>5, <1>6 DEF ArgsSee, z

(* At the end of a block rename sees what the end of the block sees.       *)
LEMMA AtTheEnd ==
  ASSUME PassInv, Leaving
  PROVE  <<BB, Position>> = End(BB) /\ Frame.k > PhisIn(BB)
<1>1. GraphInv /\ CallsInv /\ ShapeInv /\ phase = "rename"
  BY DEF PassInv, Leaving
<1>2. /\ Frame.k \in Nat /\ Frame.k <= Len(insts[BB]) + 1 /\ Frame.k > Len(insts[BB])
      /\ BB \in Block /\ BB \notin Past
  BY <1>1, OnTop DEF Leaving
<1>3. /\ Len(insts[BB]) \in Nat /\ PhisIn(BB) \in Nat /\ Len(body[BB]) \in Nat
      /\ Len(insts[BB]) = PhisIn(BB) + Len(body[BB])
  BY <1>1, <1>2, ShapeFacts
<1> DEFINE k == Frame.k
           n == PhisIn(BB)
           l == Len(insts[BB])
           d == Len(body[BB])
<1>4. k - n = d + 1 /\ k > n
  <2>1. k \in Nat /\ k <= l + 1 /\ k > l /\ l \in Nat /\ n \in Nat /\ d \in Nat /\ l = n + d
    BY <1>2, <1>3
  <2> HIDE DEF k, n, l, d
  <2> QED BY <2>1
<1> QED BY <1>4 DEF Position, End

LEMMA FillSuccessorsSsa ==
  ASSUME PassInv, StacksInv, SsaInv, FillSuccessors
  PROVE  SsaInv'
<1>1. /\ Leaving /\ ~Frame.filled /\ UNCHANGED <<graph, phase, placing, stk, repl>>
      /\ frames' = [frames EXCEPT ![Len(frames)].filled = TRUE]
      /\ FilledSuccessors /\ phase = "rename" /\ UNCHANGED <<fn, body, repl>>
  BY DEF FillSuccessors, FilledSuccessors, Leaving, graph
<1>2. /\ GraphInv /\ ReplInv /\ ShapeInv /\ CallsInv /\ ReplacedInv /\ ReachingInv
      /\ stk \in [Var -> Seq(Finals)]
  BY DEF PassInv, SsaInv, PhaseInv
<1>3. PassInv' /\ ReplInv'
  BY FillSuccessorsStep DEF PassInv
<1>4. \A w \in Var : SamePhis(w)
  <2>1. ~PlacePhis
    BY <1>1 DEF PlacePhis, Place
  <2>2. Next
    BY DEF Next, PassNext
  <2> QED BY <2>1, <2>2, AllSamePhis
<1>5. ReplacedInv'
  BY <1>1, <1>2, <1>3, <1>4, ReplacedKept
<1>6. MoreReplaced
  BY <1>1 DEF MoreReplaced
<1>7. ASSUME NEW b \in Block
      PROVE  /\ SameSkeleton(insts[b], insts'[b])
             /\ \A k \in 1..Len(insts[b]) :
                  IF b \in Members(fn.succ[BB]) THEN FillOf(insts[b][k], insts'[b][k], BB)
                                                ELSE insts'[b][k] = insts[b][k]
  BY <1>1, FilledItems
<1>8. Filled' = Filled \cup {BB} /\ BB \in Block
  BY <1>1, <1>2, <1>7, FillPlaces, OnTop
<1>9. <<BB, Position>> = End(BB) /\ Frame.k > PhisIn(BB)
  BY <1>1, AtTheEnd
<1>10. ASSUME NEW b \in Reachable(fn), NEW k \in 1..Len(insts'[b]), insts'[b][k].op = "phi",
              NEW v, v = insts'[b][k].var, NEW args, args = insts'[b][k].args,
              NEW filled, filled = Filled'
       PROVE  ArgsSee(v, args, filled, b)'
  <2> DEFINE x == insts[b][k]
             old == x.args
  <2>1. b \in Block
    BY <1>2, GraphFacts
  <2>2. k \in 1..Len(insts[b]) /\ x.op = "phi" /\ x.var = v
    BY <1>7, <1>10, <2>1 DEF SameSkeleton
  <2>3. v \in Var /\ old \in Seq(Finals \X Block)
    BY <1>2, <2>2, PhiEntryType DEF PhiEntry
  <2>4. ArgsSee(v, old, Filled, b)
    BY <1>2, <2>2 DEF ReachingInv
  <2>5. filled = Filled \cup {BB}
    BY <1>8, <1>10
  <2>6. /\ stk[v] = << >> => NoneBefore(fn, Points(v), End(BB))
        /\ stk[v] # << >> => \E o : Nearest(fn, Points(v), o, End(BB)) /\ TopOf(stk[v]) = Name(v, o)
    BY <1>1, <1>9, <2>3, SeesTop
  <2>7. CASE args = old /\ Unseen(v, BB, b)
    <3>1. ArgsSee(v, args, filled, b)
      BY <2>4, <2>5, <2>7, ArgsSeeMore
    <3> QED BY <1>1, <1>2, <1>3, <1>4, <1>6, <2>3, <2>7, <3>1, ArgsSeeStays
  <2>8. CASE b \in Members(fn.succ[BB]) /\ stk[v] # << >>
    <3> DEFINE z == <<TopOf(stk[v]), BB>>
    <3>1. FillOf(x, insts'[b][k], BB)
      BY <1>7, <2>1, <2>2, <2>8
    <3>2. args = Append(old, z)
      BY <1>10, <2>2, <2>8, <3>1 DEF FillOf, Given
    <3>3. TopOf(stk[v]) \in Finals
      BY <1>2, <2>3, TopIsFinal
    <3>4. z \in Finals \X Block /\ z[2] = BB /\ z[1] = TopOf(stk[v])
      BY <1>8, <3>3
    <3>5. Sees(v, End(BB), z[1])
      BY <2>6, <2>8, <3>4 DEF Sees
    <3>6. ArgsSee(v, args, filled, b)
      <4>1. Longer(old, z, args)
        BY <3>2 DEF Longer
      <4> HIDE DEF z, old
      <4> QED BY <2>3, <2>4, <2>5, <3>4, <3>5, <4>1, ArgsSeeAppended
    <3>7. args \in Seq(Finals \X Block)
      BY <2>3, <3>2, <3>4
    <3> QED BY <1>1, <1>2, <1>3, <1>4, <1>6, <2>3, <3>6, <3>7, ArgsSeeStays
  <2>9. CASE b \in Members(fn.succ[BB]) /\ stk[v] = << >>
    <3>1. FillOf(x, insts'[b][k], BB)
      BY <1>7, <2>1, <2>2, <2>9
    <3>2. args = old
      BY <1>10, <2>2, <2>9, <3>1 DEF FillOf
    <3> QED BY <2>6, <2>7, <2>9, <3>2 DEF Unseen
  <2>10. CASE b \notin Members(fn.succ[BB])
    <3>1. args = old
      BY <1>7, <1>10, <2>1, <2>2, <2>10
    <3>2. ~Step(fn, BB, b)
      BY <2>10 DEF Step
    <3> QED BY <2>7, <3>1, <3>2 DEF Unseen
  <2> QED BY <2>8, <2>9, <2>10
<1>11. ReachingInv'
  BY <1>1, <1>10, ReachingAll
<1> QED BY <1>5, <1>11 DEF SsaInv

-----------------------------------------------------------------------------
(* A step of the pass that replaces no load and fills no phi.              *)
LEMMA SsaKept ==
  ASSUME PassInv, PassInv', SsaInv, [Next]_vars, ~PlacePhis, UNCHANGED <<fn, body, repl>>,
         Filled' = Filled,
         \A b \in Reachable(fn) : \A k \in 1..Len(insts'[b]) : insts'[b][k].op = "phi" =>
            \E j : PhiEntry(b, j, insts'[b][k].var, insts'[b][k].args)
  PROVE  SsaInv'
<1>1. GraphInv /\ ShapeInv /\ ReplInv /\ ReplInv' /\ ReplacedInv /\ ReachingInv
  BY DEF PassInv, SsaInv
<1>2. \A v \in Var : SamePhis(v)
  BY AllSamePhis
<1>3. ReplacedInv'
  BY <1>1, <1>2, ReplacedKept
<1>4. MoreReplaced
  BY DEF MoreReplaced
<1>5. ReachingInv'
  BY <1>1, <1>2, <1>4, ReachingKept
<1> QED BY <1>3, <1>5 DEF SsaInv

LEMMA SameInstsEntries ==
  ASSUME insts' = insts
  PROVE  \A b \in Reachable(fn) : \A k \in 1..Len(insts'[b]) : insts'[b][k].op = "phi" =>
            \E j : PhiEntry(b, j, insts'[b][k].var, insts'[b][k].args)
  BY DEF PhiEntry

(* Before rename, no load is replaced and no phi has arguments.            *)
LEMMA EarlySsa == PassInv /\ phase \in Early => SsaInv
<1> SUFFICES ASSUME PassInv, phase \in Early PROVE SsaInv
  OBVIOUS
<1>1. repl = << >> /\ Filled = {}
  BY EarlyFacts
<1>2. ReplacedInv
  <2>1. DOMAIN << >> = {}
    OBVIOUS
  <2> QED BY <1>1, <2>1 DEF ReplacedInv
<1>3. ASSUME NEW b \in Reachable(fn), NEW k \in 1..Len(insts[b]), insts[b][k].op = "phi"
      PROVE  ArgsSee(insts[b][k].var, insts[b][k].args, Filled, b)
  <2>1. b \in Block
    BY GraphFacts DEF PassInv
  <2>2. insts[b][k].args = << >>
    BY <1>3, <2>1, EarlyFacts
  <2> QED BY <1>1, <2>2 DEF ArgsSee
<1> QED BY <1>2, <1>3 DEF SsaInv, ReachingInv

LEMMA EarlySsaNext ==
  ASSUME PassInv', phase' \in Early
  PROVE  SsaInv'
<1>1. (PassInv /\ phase \in Early => SsaInv)'
  BY EarlySsa, PTL
<1> QED BY <1>1 DEF Early

(* A push.                                                                 *)
LEMMA PushFilled ==
  ASSUME PassInv, NEW op, NEW v, NEW val, Push(op, v, val, insts[BB])
  PROVE  Filled' = Filled /\ UNCHANGED <<fn, body, repl, insts>>
<1>1. /\ InBody /\ Advance /\ UNCHANGED <<graph, phase, placing, repl>>
      /\ insts' = [insts EXCEPT ![BB] = insts[BB]]
  BY DEF Push
<1>2. insts' = insts
  BY <1>1 DEF PassInv, ShapeInv
<1>3. \A b \in Block : SameSkeleton(insts[b], insts'[b])
  BY <1>2, SkeletonSelf
<1> QED BY <1>1, <1>2, <1>3, AdvanceStep DEF graph

LEMMA LeftEntries ==
  ASSUME PassInv, LeaveBlock
  PROVE  \A b \in Reachable(fn) : \A k \in 1..Len(insts'[b]) : insts'[b][k].op = "phi" =>
            \E j : PhiEntry(b, j, insts'[b][k].var, insts'[b][k].args)
<1> SUFFICES ASSUME NEW b \in Reachable(fn), NEW k \in 1..Len(insts'[b]), insts'[b][k].op = "phi"
             PROVE  PhiEntry(b, k, insts'[b][k].var, insts'[b][k].args)
  OBVIOUS
<1>1. GraphInv /\ ShapeInv /\ b \in Block /\ phase = "rename"
  BY GraphFacts DEF PassInv, LeaveBlock, Leave, Leaving
<1>2. CASE b # BB
  <2>1. insts'[b] = insts[b]
    BY <1>1, <1>2, LeftBlock
  <2> QED BY <2>1 DEF PhiEntry
<1>3. CASE b = BB
  <2> DEFINE n == PhisIn(BB)
             c == insts[BB]
             e == insts'[BB]
  <2>1. Bare(e, n) /\ \A i \in 1..n : e[i] = c[i]
    BY LeftBlock
  <2>2. PhiHead(c, n) /\ n \in Nat /\ Len(c) \in Nat /\ n <= Len(c)
    BY <1>1, <1>3, ShapeFacts
  <2>3. k <= n
    BY <1>3, <2>1 DEF Bare, PhiHead
  <2>4. Len(e) \in Nat
    <3>1. PassInv'
      BY LeaveBlockStep
    <3>2. insts' \in [Block -> Seq(Item)]
      BY <3>1 DEF PassInv, ShapeInv
    <3> QED BY <1>1, <1>3, <3>2
  <2>5. k \in 1..n /\ k \in 1..Len(c)
    <3> DEFINE l == Len(c)
               m == Len(e)
    <3>1. k \in 1..m /\ m \in Nat /\ l \in Nat /\ n \in Nat /\ k <= n /\ n <= l
      BY <1>3, <2>2, <2>3, <2>4
    <3> HIDE DEF l, m, n
    <3>2. k \in 1..n /\ k \in 1..l
      BY <3>1
    <3> QED BY <3>2 DEF l
  <2>6. e[k] = c[k]
    BY <2>1, <2>5
  <2> QED BY <1>3, <2>5, <2>6 DEF PhiEntry
<1> QED BY <1>2, <1>3

-----------------------------------------------------------------------------
LEMMA InitSsa == ASSUME Init PROVE SsaInv
<1>1. PassInv /\ phase \in Early
  BY InitPass DEF Init, Early
<1> QED BY <1>1, EarlySsa

LEMMA NextSsa ==
  ASSUME Definite
  PROVE  PassInv /\ PlacementInv /\ StacksInv /\ HandledInv /\ SsaInv /\ [Next]_vars => SsaInv'
<1> SUFFICES ASSUME PassInv, PlacementInv, StacksInv, HandledInv, SsaInv, [Next]_vars
             PROVE  SsaInv'
  OBVIOUS
<1>1. PassInv'
  BY NextPass
<1>2. CASE CollectDefs \/ PickVariable \/ VariablePlaced \/ PlacePhis
  <2>1. phase' \in Early
    BY <1>2 DEF CollectDefs, PickVariable, VariablePlaced, PlacePhis, Place, Early
  <2> QED BY <1>1, <2>1, EarlySsaNext
<1>3. CASE BeginRename
  <2>1. UNCHANGED <<fn, body, repl, insts>> /\ ~PlacePhis
    BY <1>3 DEF BeginRename, PlacePhis, Place, graph
  <2> QED BY <1>1, <1>3, <2>1, BeginRenameStep, SameInstsEntries, SsaKept
<1>4. CASE RenamePhi
  <2>1. UNCHANGED <<fn, body, repl, insts>> /\ Filled' = Filled
    BY <1>4, PushFilled DEF RenamePhi
  <2>2. ~PlacePhis
    BY <1>4 DEF RenamePhi, Push, InBody, PlacePhis, Place
  <2> QED BY <1>1, <2>1, <2>2, SameInstsEntries, SsaKept
<1>5. CASE RenameStore
  <2>1. UNCHANGED <<fn, body, repl, insts>> /\ Filled' = Filled
    BY <1>5, PushFilled DEF RenameStore
  <2>2. ~PlacePhis
    BY <1>5 DEF RenameStore, Push, InBody, PlacePhis, Place
  <2> QED BY <1>1, <2>1, <2>2, SameInstsEntries, SsaKept
<1>6. CASE RenameLoad
  BY <1>6, RenameLoadSsa
<1>7. CASE FillSuccessors
  BY <1>7, FillSuccessorsSsa
<1>8. CASE RenameChild
  <2>1. UNCHANGED <<fn, body, repl, insts>> /\ ~PlacePhis
    BY <1>8 DEF RenameChild, Leaving, PlacePhis, Place, graph
  <2> QED BY <1>1, <1>8, <2>1, RenameChildStep, SameInstsEntries, SsaKept
<1>9. CASE LeaveBlock
  <2>1. UNCHANGED <<fn, body, repl>> /\ ~PlacePhis
    BY <1>9 DEF LeaveBlock, Leave, Leaving, PlacePhis, Place, graph
  <2> QED BY <1>1, <1>9, <2>1, LeaveBlockStep, LeftEntries, SsaKept
<1>10. CASE Start \/ ExecuteStore \/ ExecuteLoad \/ Jump
  <2>1. /\ phase \in {"ready", "run"} /\ phase' = "run"
        /\ UNCHANGED <<fn, body, repl, insts, frames>>
    BY <1>10 DEF Start, ExecuteStore, ExecuteLoad, Jump, Running, graph, renaming
  <2>2. ~PlacePhis
    BY <2>1 DEF PlacePhis, Place
  <2>3. Filled' = Filled
    BY <2>1 DEF Filled, Past, PastIn
  <2> QED BY <1>1, <2>1, <2>2, <2>3, SameInstsEntries, SsaKept
<1>11. CASE UNCHANGED vars
  <2>1. UNCHANGED <<fn, body, repl, insts, frames, phase>>
    BY <1>11 DEF vars
  <2>2. Filled' = Filled
    BY <2>1 DEF Filled, Past, PastIn
  <2>3. CASE phase \in Early
    BY <1>1, <2>1, <2>3, EarlySsaNext
  <2>4. CASE phase \notin Early
    <3>1. ~PlacePhis
      BY <2>4 DEF PlacePhis, Place, Early
    <3> QED BY <1>1, <2>1, <2>2, <3>1, SameInstsEntries, SsaKept
  <2> QED BY <2>3, <2>4
<1> QED BY <1>2, <1>3, <1>4, <1>5, <1>6, <1>7, <1>8, <1>9, <1>10, <1>11 DEF Next, PassNext

SsaAll == PassInv /\ PlacementInv /\ StacksInv /\ HandledInv /\ SsaInv

LEMMA SsaInductive ==
  ASSUME Definite
  PROVE  Spec => []SsaAll
<1>1. Init => SsaAll
  BY InitPass, InitPlacement, InitStacks, InitHandled, InitSsa DEF SsaAll
<1>2. SsaAll /\ [Next]_vars => SsaAll'
  BY NextPass, NextPlacement, NextStacks, NextHandled, NextSsa DEF SsaAll
<1> QED BY <1>1, <1>2, PTL DEF Spec

-----------------------------------------------------------------------------
LEMMA PushesAre ==
  ASSUME PassInv, phase = "rename", NEW v \in Var
  PROVE  UNION {PushedBy(j, v) : j \in 1..Len(frames)} = PushesIn(frames, insts, v)
<1>1. ASSUME NEW j \in 1..Len(frames), NEW k \in 1..Len(insts[frames[j].bb])
      PROVE  j \in Nat /\ k \in Nat
  <2>1. frames[j].bb \in Block /\ Len(frames) \in Nat
    BY OpenCalls
  <2>2. Len(insts[frames[j].bb]) \in Nat
    BY <2>1, ShapeFacts DEF PassInv
  <2> QED BY <2>1, <2>2
<1>2. ASSUME NEW p, p \in PushesIn(frames, insts, v)
      PROVE  p \in UNION {PushedBy(j, v) : j \in 1..Len(frames)}
  <2>1. p[1] \in 1..Len(frames) /\ p = <<p[1], p[2]>> /\ PushAt(frames, insts, v, p[1], p[2])
    BY <1>2 DEF PushesIn, PushAt
  <2>2. p \in PushedBy(p[1], v)
    BY <2>1 DEF PushAt, IsPush, PushedBy
  <2> QED BY <2>1, <2>2
<1>3. ASSUME NEW j \in 1..Len(frames), NEW p \in PushedBy(j, v)
      PROVE  p \in PushesIn(frames, insts, v)
  <2>1. PICK k \in 1..Len(insts[frames[j].bb]) :
          /\ p = <<j, k>> /\ k < frames[j].k
          /\ insts[frames[j].bb][k].var = v /\ insts[frames[j].bb][k].op \in {"phi", "store"}
    BY DEF PushedBy
  <2>2. p \in Nat \X Nat /\ p[1] = j /\ p[2] = k
    BY <1>1, <2>1
  <2> QED BY <2>1, <2>2 DEF PushesIn, PushAt, IsPush
<1> QED BY <1>2, <1>3

-----------------------------------------------------------------------------
(* Every place of a stack is the rank of a push.                           *)
LEMMA RankOnto ==
  ASSUME NEW S, S \subseteq Nat \X Nat, IsFiniteSet(S), NEW n \in 1..Cardinality(S)
  PROVE  \E p \in S : Rank(S, p) = n
<1> DEFINE m == Cardinality(S)
           T == 1..m
           f == [p \in S |-> Rank(S, p)]
<1>1. m \in Nat
  BY FS_CardinalityType
<1>2. IsFiniteSet(T) /\ Cardinality(T) = m
  <2> HIDE DEF m
  <2>1. IsFiniteSet(1..m) /\ Cardinality(1..m) = IF 1 > m THEN 0 ELSE m - 1 + 1
    BY <1>1, FS_Interval
  <2> QED BY <1>1, <2>1
<1>3. f \in [S -> T]
  BY RankIn
<1>4. \A p, q \in S : f[p] = f[q] => p = q
  <2> SUFFICES ASSUME NEW p \in S, NEW q \in S, Rank(S, p) = Rank(S, q) PROVE p = q
    OBVIOUS
  <2>1. Rank(S, p) \in Nat
    <3> HIDE DEF m
    <3>1. Rank(S, p) \in 1..Cardinality(S) /\ Cardinality(S) \in Nat
      BY RankIn
    <3> QED BY <3>1
  <2>2. UpTo(p, q) /\ UpTo(q, p)
    BY <2>1, RankGrows
  <2> QED BY <2>2, UpToOrders
<1>5. f \in Injection(S, T)
  BY <1>3, <1>4 DEF Injection, IsInjective
<1>6. f \in Surjection(S, T)
  <2> HIDE DEF f, T
  <2> QED BY <1>2, <1>5, FS_Injection DEF m
<1>7. \E p \in S : f[p] = n
  <2> HIDE DEF f
  <2> QED BY <1>6 DEF Surjection
<1> QED BY <1>7

(* What rename pushes is a value: a phi, a new value, or what replaced a   *)
(* load.                                                                   *)
LEMMA PushesValues ==
  ASSUME PassInv, ReplacedInv, phase = "rename", NEW v \in Var, NEW p \in PushesIn(frames, insts, v)
  PROVE  ValueAt(insts, frames[p[1]].bb, p[2]) # Garbage
<1> DEFINE b == frames[p[1]].bb
           k == p[2]
           x == insts[b][k]
<1>1. p[1] \in 1..Len(frames) /\ k \in 1..Len(insts[b]) /\ x.op \in {"phi", "store"} /\ x.var = v
  BY DEF PushesIn, PushAt, IsPush
<1>2. b \in Block /\ b \in Reachable(fn) /\ b \notin Past
  BY <1>1, OpenCalls
<1>3. InstrsOf(b)
  BY <1>2, InstrsAre
<1>4. CASE k <= PhisIn(b)
  <2>1. ValueAt(insts, b, k) = <<"phi", x.var, b>>
    BY <1>1, <1>3, <1>4 DEF InstrsOf, ValueAt, Phi
  <2>2. ValueAt(insts, b, k)[1] = "phi" /\ Garbage[1] = "garbage"
    BY <2>1 DEF Garbage
  <2> QED BY <2>2
<1>5. CASE ~(k <= PhisIn(b))
  <2> DEFINE m == k - PhisIn(b)
             y == body[b][m]
             val == y.val
  <2>1. /\ x.op = "store" /\ m \in 1..Len(body[b]) /\ x = Now(y, repl)
        /\ y.op = "store" /\ y.var = v
    BY <1>1, <1>3, <1>5 DEF InstrsOf
  <2>2. GraphInv /\ ReplInv
    BY DEF PassInv
  <2>3. m # 0
    <3>1. body[b] \in Seq(Entering)
      BY <1>2, <2>2, GraphFacts
    <3>2. m \in Nat \ {0}
      BY <1>2, <2>1, <2>2, BodyPositions
    <3> QED BY <3>2
  <2>4. <<b, m>> \in Points(v)
    BY <1>2, <2>1, <2>2, StorePoint DEF StoresOf
  <2>5. ValueAt(insts, b, k) = x.val
    BY <2>1 DEF ValueAt
  <2>6. x.val = Name(v, <<b, m>>)
    BY <2>1, <2>3 DEF Name
  <2>7. x.val = IF val \in DOMAIN repl THEN repl[val] ELSE val
    <3> DEFINE o == <<b, m>>
    <3>1. o[1] = b /\ o[2] = m
      OBVIOUS
    <3>2. o \in Points(v)
      BY <2>4
    <3>3. o[2] # 0 => Name(v, o) = IF body[o[1]][o[2]].val \in DOMAIN repl
                                    THEN repl[body[o[1]][o[2]].val] ELSE body[o[1]][o[2]].val
      <4> HIDE DEF o, m, val, y
      <4> QED BY <2>2, <3>2, NameIs
    <3>4. x.val = Name(v, o)
      BY <2>6
    <3> HIDE DEF o, m
    <3> QED BY <2>3, <3>1, <3>3, <3>4
  <2>8. CASE val \in DOMAIN repl
    <3>1. PICK c, i : c \in Reachable(fn) /\ i \in 1..Len(body[c]) /\ val = Load(c, i)
      BY <2>2, <2>8 DEF ReplInv, IsReplaced
    <3>2. From(repl[val], <<c, i>>)
      BY <2>8, <3>1 DEF ReplacedInv
    <3> QED BY <2>5, <2>7, <2>8, <3>2 DEF From
  <2>9. CASE val \notin DOMAIN repl
    <3>1. val \in {"new", "load"} \X Block \X Nat
      <4> DEFINE o == <<b, m>>
      <4>1. o[1] = b /\ o[2] = m
        OBVIOUS
      <4> HIDE DEF o, m
      <4> QED BY <2>2, <2>3, <2>4, <4>1, PointIsStore DEF o
    <3>2. val[1] \in {"new", "load"} /\ Garbage[1] = "garbage"
      BY <3>1 DEF Garbage
    <3> QED BY <2>5, <2>7, <2>9, <3>2
  <2> QED BY <2>8, <2>9
<1> QED BY <1>4, <1>5

(* The stacks are the open calls (StacksMatchFrames): for every function   *)
(* whose loads every path stores first, each stack of rename holds one     *)
(* value for each phi and store of its variable that the open calls have   *)
(* passed, none of them Garbage, and none is left when rename returns.     *)
THEOREM StacksAreTheCalls ==
  ASSUME \A f \in Functions : StoredFirst(f)
  PROVE  Spec => []StacksMatchFrames
<1>1. SsaAll => StacksMatchFrames
  <2> SUFFICES ASSUME SsaAll, NEW v \in Var
               PROVE  /\ Len(stk[v]) = Cardinality(UNION {PushedBy(j, v) : j \in 1..Len(frames)})
                      /\ \A n \in 1..Len(stk[v]) : stk[v][n] # Garbage
    BY DEF StacksMatchFrames
  <2> DEFINE S == PushesIn(frames, insts, v)
             st == stk[v]
  <2>1. PassInv /\ StacksInv /\ ReplacedInv
    BY DEF SsaAll, SsaInv
  <2>2. /\ IsFiniteSet(S) /\ S \subseteq Nat \X Nat /\ Len(st) = Cardinality(S)
        /\ Holds(frames, insts, S, st)
    BY <2>1, StackTyped DEF StackIs, PushesIn
  <2>3. CASE phase = "rename"
    <3>1. Len(st) = Cardinality(UNION {PushedBy(j, v) : j \in 1..Len(frames)})
      BY <2>1, <2>2, <2>3, PushesAre
    <3>2. ASSUME NEW n \in 1..Len(st) PROVE st[n] # Garbage
      <4>1. PICK p \in S : Rank(S, p) = n
        <5> HIDE DEF S
        <5> QED BY <2>2, RankOnto
      <4>2. st[n] = ValueAt(insts, frames[p[1]].bb, p[2])
        BY <2>2, <4>1 DEF Holds
      <4> QED BY <2>1, <2>3, <4>2, PushesValues
    <3> QED BY <3>1, <3>2
  <2>4. CASE phase # "rename"
    <3>1. frames = << >>
      BY <2>1, <2>4 DEF PassInv, CallsInv
    <3>2. 1..Len(frames) = {}
      BY <3>1
    <3>3. S = {} /\ UNION {PushedBy(j, v) : j \in 1..Len(frames)} = {}
      BY <3>2 DEF PushesIn, PushAt
    <3>4. Len(st) = Cardinality(UNION {PushedBy(j, v) : j \in 1..Len(frames)}) /\ Len(st) = 0
      BY <2>2, <3>3, FS_EmptySet
    <3>5. 1..Len(st) = {}
      <4> DEFINE l == Len(st)
      <4>1. l = 0
        BY <3>4
      <4> HIDE DEF l
      <4>2. 1..l = {}
        BY <4>1
      <4> QED BY <4>2 DEF l
    <3> QED BY <3>4, <3>5
  <2> QED BY <2>3, <2>4
<1>2. Definite
  BY DEF Definite
<1>3. Spec => []SsaAll
  BY <1>2, SsaInductive
<1> QED BY <1>1, <1>3, PTL

-----------------------------------------------------------------------------
(* While both functions are executed: what memory holds is what the value  *)
(* that the point sees holds, and a load that every path to the point has  *)
(* passed still holds what the value that replaced it holds.               *)
ClosedPhis(v) == ClosedUnderFrontiers(v, PhiBlocks(v))

MemAt(v, q, mem, env) ==
    mem[v] # 0 =>
      /\ \A p : Nearest(fn, Points(v), p, q) => ValueOf(env, Name(v, p)) = mem[v]
      /\ ClosedPhis(v) => ~NoneBefore(fn, Points(v), q)

ResultAt(b, m, env) ==
    /\ Load(b, m) \in DOMAIN env
    /\ env[Load(b, m)] # 0 => ValueOf(env, repl[Load(b, m)]) = env[Load(b, m)]

EnvAt(q, env) ==
    \A b \in Reachable(fn) : \A m \in 1..Len(body[b]) :
      body[b][m].op = "load" /\ Before(fn, <<b, m>>, q) => ResultAt(b, m, env)

RunsAt(q, mem, env) == (\A v \in Var : MemAt(v, q, mem, env)) /\ EnvAt(q, env)

IsExec(x) ==
    /\ x = [at |-> x.at, k |-> x.k, from |-> x.from, visits |-> x.visits, tick |-> x.tick,
            mem |-> x.mem, env |-> x.env, expected |-> x.expected, actual |-> x.actual]
    /\ x.mem = [v \in Var |-> x.mem[v]]

Here == <<exec.at, exec.k>>

IsHere(q) == q[1] \in Reachable(fn) /\ q[2] \in Nat \ {0} /\ q[2] <= Len(body[q[1]]) + 1

ExecInv ==
    /\ exec.expected # 0 => exec.actual = exec.expected
    /\ phase # "run" => exec = NotRun
    /\ phase = "run" => IsExec(exec) /\ IsHere(Here) /\ RunsAt(Here, exec.mem, exec.env)

(* The functions do not change while they run.                             *)
Frozen == UNCHANGED <<fn, body, insts, df, repl>>

LEMMA FrozenNames ==
  ASSUME Frozen
  PROVE  \A v : /\ Points(v)' = Points(v) /\ \A p : Name(v, p)' = Name(v, p)
                /\ ClosedPhis(v)' <=> ClosedPhis(v)
<1> SUFFICES ASSUME NEW v
             PROVE  /\ Points(v)' = Points(v) /\ \A p : Name(v, p)' = Name(v, p)
                    /\ ClosedPhis(v)' <=> ClosedPhis(v)
  OBVIOUS
<1>1. \A b : HasPhi(v, b)' <=> HasPhi(v, b)
  BY DEF HasPhi, PhisOf, Frozen
<1>2. Points(v)' = Points(v)
  BY <1>1 DEF Points, Point, Frozen
<1>3. \A p : Name(v, p)' = Name(v, p)
  BY DEF Name, Now, Phi, Frozen
<1>4. PhiBlocks(v)' = PhiBlocks(v) /\ DefBlocks(v)' = DefBlocks(v)
  BY <1>1 DEF PhiBlocks, DefBlocks, Blocks, Frozen
<1>5. ClosedPhis(v)' <=> ClosedPhis(v)
  BY <1>4 DEF ClosedPhis, ClosedUnderFrontiers, Frozen
<1> QED BY <1>2, <1>3, <1>5

LEMMA RunsStays ==
  ASSUME Frozen, NEW q, NEW mem, NEW env, RunsAt(q, mem, env)
  PROVE  RunsAt(q, mem, env)'
<1>1. ASSUME NEW v \in Var PROVE MemAt(v, q, mem, env)'
  <2>1. MemAt(v, q, mem, env)
    BY DEF RunsAt
  <2>2. Points(v)' = Points(v) /\ (\A p : Name(v, p)' = Name(v, p)) /\ (ClosedPhis(v)' <=> ClosedPhis(v))
    BY FrozenNames
  <2>3. \A p : Nearest(fn, Points(v), p, q)' <=> Nearest(fn, Points(v), p, q)
    BY <2>2 DEF Nearest, Before, Frozen
  <2>4. NoneBefore(fn, Points(v), q)' <=> NoneBefore(fn, Points(v), q)
    BY <2>2 DEF NoneBefore, Before, Frozen
  <2> QED BY <2>1, <2>2, <2>3, <2>4 DEF MemAt
<1>2. EnvAt(q, env)'
  <2>1. EnvAt(q, env)
    BY DEF RunsAt
  <2> QED BY <2>1 DEF EnvAt, ResultAt, Before, Load, Frozen
<1> QED BY <1>1, <1>2 DEF RunsAt

LEMMA RunsNext ==
  ASSUME Frozen, phase' = "run", IsExec(exec'), exec'.expected # 0 => exec'.actual = exec'.expected,
         NEW q, q = <<exec'.at, exec'.k>>, IsHere(q), RunsAt(q, exec'.mem, exec'.env)
  PROVE  ExecInv'
<1>1. PICK mem : mem = exec'.mem
  OBVIOUS
<1>2. PICK env : env = exec'.env
  OBVIOUS
<1>3. RunsAt(q, mem, env)'
  BY <1>1, <1>2, RunsStays
<1>4. IsHere(q)'
  BY DEF IsHere, Frozen
<1>5. IsExec(exec)' /\ (exec.expected # 0 => exec.actual = exec.expected)'
  BY DEF IsExec
<1>6. q = Here' /\ mem = (exec.mem)' /\ env = (exec.env)'
  BY <1>1, <1>2 DEF Here
<1> QED BY <1>3, <1>4, <1>5, <1>6 DEF ExecInv

-----------------------------------------------------------------------------
(* When the pass is over, every load of a reachable block was replaced and *)
(* every reachable block has told its successors.                          *)
LEMMA Finished ==
  ASSUME PassInv, phase \in {"ready", "run"}
  PROVE  /\ Reachable(fn) \subseteq Filled
         /\ \A b \in Reachable(fn) : \A m \in 1..Len(body[b]) : body[b][m].op = "load" =>
               Load(b, m) \in DOMAIN repl /\ repl[Load(b, m)] \in Finals
<1>1. Past = Reachable(fn)
  BY DEF Past, PastIn
<1>2. ReplInv
  BY DEF PassInv
<1>3. ASSUME NEW b \in Reachable(fn), NEW m \in 1..Len(body[b]), body[b][m].op = "load"
      PROVE  Load(b, m) \in DOMAIN repl /\ repl[Load(b, m)] \in Finals
  <2>1. Passed(b, m)
    BY <1>1 DEF Passed, PassedIn
  <2>2. Load(b, m) \in DOMAIN repl
    BY <1>2, <1>3, <2>1 DEF ReplInv, IsReplaced
  <2> QED BY <1>2, <2>2 DEF ReplInv, FinalValues
<1> QED BY <1>1, <1>3 DEF Filled, FilledIn

LEMMA FinalNames ==
  ASSUME PassInv, phase \in {"ready", "run"}, NEW v \in Var, NEW o \in Points(v)
  PROVE  Name(v, o) \in Finals
<1>1. GraphInv /\ ReplInv /\ o[1] \in Block /\ o[1] \in Reachable(fn)
  BY GraphFacts DEF PassInv, Points, Point
<1>2. CASE o[2] = 0
  BY <1>1, <1>2 DEF Name, Phi, Finals
<1>3. CASE o[2] # 0
  <2> DEFINE val == body[o[1]][o[2]].val
  <2>1. Name(v, o) = IF val \in DOMAIN repl THEN repl[val] ELSE val
    BY <1>1, <1>3, NameIs
  <2>2. val \in {"new", "load"} \X Block \X Nat
    BY <1>1, <1>3, PointIsStore
  <2>3. CASE val \in DOMAIN repl
    BY <1>1, <2>1, <2>3 DEF ReplInv, FinalValues
  <2>4. CASE val \notin DOMAIN repl
    <3>1. val[1] = "new"
      <4>1. SUFFICES ASSUME val[1] # "new" PROVE FALSE
        OBVIOUS
      <4>2. /\ val = Load(val[2], val[3]) /\ val[2] \in Reachable(fn)
            /\ val[3] \in 1..Len(body[val[2]]) /\ body[val[2]][val[3]].op = "load"
        BY <1>1, <1>3, <4>1, StoredValue
      <4>3. Load(val[2], val[3]) \in DOMAIN repl
        BY <4>2, Finished
      <4> QED BY <2>4, <4>2, <4>3
    <3>2. val \in {"new"} \X Block \X Nat
      <4> HIDE DEF val
      <4> QED BY <2>2, <3>1
    <3> QED BY <2>1, <2>4, <3>2 DEF Finals
  <2> QED BY <2>3, <2>4
<1> QED BY <1>2, <1>3

-----------------------------------------------------------------------------
(* A step of the execution that gives a result to one instruction, and no  *)
(* other value to anything else.                                           *)
KeepsValue(env, e, x) == (x \in DOMAIN e <=> x \in DOMAIN env) /\ (x \in DOMAIN env => e[x] = env[x])

LEMMA KeepsValueOf ==
  ASSUME NEW env, NEW e, NEW x, KeepsValue(env, e, x)
  PROVE  ValueOf(e, x) = ValueOf(env, x)
BY DEF KeepsValue, ValueOf

LEMMA SetKeeps ==
  ASSUME NEW env, NEW y, NEW n, NEW e, e = Set(env, y, n)
  PROVE  /\ y \in DOMAIN e /\ e[y] = n
         /\ \A x : x # y => KeepsValue(env, e, x)
         /\ y \in DOMAIN env /\ n = env[y] => \A x : KeepsValue(env, e, x)
         /\ y[1] = "load" => \A x : ValueOf(e, x) = ValueOf(env, x)
<1>1. DOMAIN e = DOMAIN env \cup {y} /\ \A x \in DOMAIN e : e[x] = IF x = y THEN n ELSE env[x]
  BY DEF Set
<1>2. y \in DOMAIN e /\ e[y] = n
  BY <1>1
<1>3. \A x : x # y => KeepsValue(env, e, x)
  BY <1>1 DEF KeepsValue
<1>4. y \in DOMAIN env /\ n = env[y] => \A x : KeepsValue(env, e, x)
  BY <1>1 DEF KeepsValue
<1>5. ASSUME y[1] = "load", NEW x PROVE ValueOf(e, x) = ValueOf(env, x)
  <2>1. CASE x = y
    BY <1>5, <2>1 DEF ValueOf
  <2>2. CASE x # y
    BY <1>3, <2>2, KeepsValueOf
  <2> QED BY <2>1, <2>2
<1> QED BY <1>2, <1>3, <1>4, <1>5

Runnable == PassInv /\ HandledInv /\ SsaInv /\ phase = "run"

LEMMA RunFacts ==
  ASSUME Runnable
  PROVE  /\ GraphInv /\ ReplInv /\ ShapeInv /\ ArgsInv /\ ReplacedInv /\ ReachingInv
         /\ phase \in {"ready", "run"} /\ phase # "collect" /\ phase # "place"
         /\ active = {} /\ \A v \in Var : Handled(v)
         /\ Graph(fn) /\ FlowGraph(fn) /\ Reachable(fn) \subseteq Block
<1>1. GraphInv /\ ReplInv /\ ShapeInv /\ ArgsInv /\ ReplacedInv /\ ReachingInv /\ phase = "run"
  BY DEF Runnable, PassInv, SsaInv
<1>2. active = {} /\ \A v \in Var : Handled(v)
  BY <1>1 DEF Runnable, HandledInv
<1>3. Graph(fn) /\ FlowGraph(fn) /\ Reachable(fn) \subseteq Block
  BY <1>1, GraphFacts
<1> QED BY <1>1, <1>2, <1>3

(* The nearest definition of a variable is before the point, and so is     *)
(* what its name comes from.                                               *)
LEMMA NamesAhead ==
  ASSUME Runnable, NEW v \in Var, NEW q \in Point(fn), NEW p \in Points(v), Before(fn, p, q)
  PROVE  From(Name(v, p), q) /\ Name(v, p) \in Finals
<1>1. Name(v, p) \in Finals
  BY RunFacts, FinalNames DEF Runnable
<1> QED BY <1>1, RunFacts, NamesFrom

LEMMA NotHere ==
  ASSUME NEW x, NEW q \in Point(fn), From(x, q)
  PROVE  Origin(x) # q
BY BeforeIrreflexive DEF From

(* A load that the point has passed, and what replaced it.                 *)
LEMMA ReplacedAhead ==
  ASSUME Runnable, NEW q \in Point(fn), NEW b \in Reachable(fn), NEW m \in 1..Len(body[b]),
         body[b][m].op = "load", Before(fn, <<b, m>>, q)
  PROVE  From(repl[Load(b, m)], q) /\ repl[Load(b, m)] \in Finals
<1>1. Load(b, m) \in DOMAIN repl /\ repl[Load(b, m)] \in Finals
  BY RunFacts, Finished DEF Runnable
<1> DEFINE x == repl[Load(b, m)]
<1>2. PICK p : p = <<b, m>>
  OBVIOUS
<1>3. From(x, p)
  BY <1>1, <1>2, RunFacts DEF ReplacedInv
<1>4. p \in Point(fn)
  <2>1. m \in Nat
    BY RunFacts, LoadsAre DEF LoadAt, Point
  <2> QED BY <1>2, <2>1 DEF Point
<1>5. Origin(x) \in Point(fn) /\ Before(fn, Origin(x), p) /\ Before(fn, p, q)
  BY <1>2, <1>3 DEF From
<1>6. Before(fn, Origin(x), q)
  BY <1>4, <1>5, RunFacts, BeforeTransitive
<1> QED BY <1>1, <1>3, <1>5, <1>6 DEF From

-----------------------------------------------------------------------------
(* The execution passes the instruction at b, k.                           *)
Passes(b, k, q, r) ==
    /\ b \in Reachable(fn) /\ k \in 1..Len(body[b]) /\ k \in Nat \ {0}
    /\ q = <<b, k>> /\ r = <<b, k + 1>>

LEMMA PassesOne ==
  ASSUME NEW b, NEW k, NEW q, NEW r, Passes(b, k, q, r), NEW o \in Point(fn)
  PROVE  Before(fn, o, r) <=> o = q \/ Before(fn, o, q)
<1>1. PICK c \in Reachable(fn), n \in Nat : o = <<c, n>>
  BY DEF Point
<1>2. n < k + 1 <=> n = k \/ n < k
  BY DEF Passes
<1> QED BY <1>1, <1>2 DEF Before, Passes, StrictlyDominates

LEMMA PassesPoints ==
  ASSUME NEW b, NEW k, NEW q, NEW r, Passes(b, k, q, r)
  PROVE  q \in Point(fn) /\ r \in Point(fn) /\ Before(fn, q, r)
<1>1. q \in Point(fn) /\ r \in Point(fn)
  BY DEF Passes, Point
<1> QED BY <1>1, PassesOne

LEMMA OthersSame ==
  ASSUME NEW b, NEW k, NEW q, NEW r, Passes(b, k, q, r), NEW v, q \notin Points(v)
  PROVE  /\ \A p : Nearest(fn, Points(v), p, q) <=> Nearest(fn, Points(v), p, r)
         /\ NoneBefore(fn, Points(v), q) <=> NoneBefore(fn, Points(v), r)
<1>1. \A o \in Points(v) : Before(fn, o, q) <=> Before(fn, o, r)
  BY PassesOne, PointTypes
<1> QED BY <1>1, NearestSame

LEMMA OnlyStores ==
  ASSUME GraphInv, NEW b, NEW k, NEW q, NEW r, Passes(b, k, q, r), NEW v
  PROVE  q \in Points(v) <=> body[b][k].op = "store" /\ body[b][k].var = v
<1>1. q[1] = b /\ q[2] = k /\ k # 0
  BY DEF Passes
<1>2. ASSUME q \in Points(v) PROVE body[b][k].op = "store" /\ body[b][k].var = v
  BY <1>1, <1>2, PointIsStore
<1>3. ASSUME body[b][k].op = "store" /\ body[b][k].var = v PROVE q \in Points(v)
  <2>1. k \in StoresOf(v, body[b])
    BY <1>3 DEF StoresOf, Passes
  <2> QED BY <2>1, StorePoint DEF Passes
<1> QED BY <1>2, <1>3

(* Memory as the next point sees it, of a variable that the instruction    *)
(* does not store, when no value in use changes.                           *)
LEMMA MemOn ==
  ASSUME Runnable, NEW b, NEW k, NEW q, NEW r, Passes(b, k, q, r),
         NEW v \in Var, q \notin Points(v), NEW mem, NEW env, MemAt(v, q, mem, env),
         NEW m2, m2[v] = mem[v], NEW e,
         \A x : From(x, q) /\ x \in Finals => ValueOf(e, x) = ValueOf(env, x)
  PROVE  MemAt(v, r, m2, e)
<1> SUFFICES ASSUME m2[v] # 0
             PROVE  /\ \A p : Nearest(fn, Points(v), p, r) => ValueOf(e, Name(v, p)) = m2[v]
                    /\ ClosedPhis(v) => ~NoneBefore(fn, Points(v), r)
  BY DEF MemAt
<1>1. /\ \A p : Nearest(fn, Points(v), p, q) => ValueOf(env, Name(v, p)) = mem[v]
      /\ ClosedPhis(v) => ~NoneBefore(fn, Points(v), q)
  BY DEF MemAt
<1>2. /\ \A p : Nearest(fn, Points(v), p, q) <=> Nearest(fn, Points(v), p, r)
      /\ NoneBefore(fn, Points(v), q) <=> NoneBefore(fn, Points(v), r)
  BY OthersSame
<1>3. ASSUME NEW p, Nearest(fn, Points(v), p, r) PROVE ValueOf(e, Name(v, p)) = m2[v]
  <2>1. Nearest(fn, Points(v), p, q)
    BY <1>2, <1>3
  <2>2. p \in Points(v) /\ Before(fn, p, q)
    BY <2>1 DEF Nearest
  <2>3. From(Name(v, p), q) /\ Name(v, p) \in Finals
    BY <2>2, PassesPoints, NamesAhead
  <2> QED BY <1>1, <2>1, <2>3
<1> QED BY <1>1, <1>2, <1>3

(* The loads that the next point has passed are those that this point has  *)
(* passed, and the instruction itself.                                     *)
LEMMA EnvOn ==
  ASSUME Runnable, NEW b, NEW k, NEW q, NEW r, Passes(b, k, q, r), NEW env, EnvAt(q, env), NEW e,
         \A x : From(x, q) /\ x \in Finals => ValueOf(e, x) = ValueOf(env, x),
         \A c, m : Before(fn, <<c, m>>, q) => KeepsValue(env, e, Load(c, m)),
         body[b][k].op = "load" => ResultAt(b, k, e)
  PROVE  EnvAt(r, e)
<1> SUFFICES ASSUME NEW c \in Reachable(fn), NEW m \in 1..Len(body[c]), body[c][m].op = "load",
                    Before(fn, <<c, m>>, r)
             PROVE  ResultAt(c, m, e)
  BY DEF EnvAt
<1>1. PICK o : o = <<c, m>>
  OBVIOUS
<1>2. o \in Point(fn)
  BY <1>1, RunFacts, LoadsAre DEF LoadAt
<1>3. CASE o = q
  BY <1>1, <1>3 DEF Passes
<1>4. CASE o # q
  <2>1. Before(fn, <<c, m>>, q)
    BY <1>1, <1>2, <1>4, PassesOne
  <2>2. From(repl[Load(c, m)], q) /\ repl[Load(c, m)] \in Finals
    BY <2>1, ReplacedAhead, PassesPoints
  <2>3. ResultAt(c, m, env)
    BY <2>1 DEF EnvAt
  <2> QED BY <2>1, <2>2, <2>3 DEF ResultAt, KeepsValue
<1> QED BY <1>3, <1>4

-----------------------------------------------------------------------------
(* A store: what it stores is computed there, or the result of a load that *)
(* every path to it has passed.                                            *)
Stores(b, k, v, val) == body[b][k].op = "store" /\ body[b][k].var = v /\ body[b][k].val = val

Stored(val, n, env) == val[1] # "new" => n = env[val]

StoredIn(mem, v, n, m2) == m2[v] = n /\ \A w \in Var : w # v => m2[w] = mem[w]

LEMMA StoreIs ==
  ASSUME Runnable, NEW b, NEW k, NEW q, NEW r, Passes(b, k, q, r), NEW v, NEW val, Stores(b, k, v, val),
         NEW env, EnvAt(q, env)
  PROVE  /\ q \in Points(v) /\ val \in {"new", "load"} \X Block \X Nat
         /\ val[1] = "new" => Origin(val) = q /\ Name(v, q) = val
         /\ val[1] # "new" => val[1] = "load" /\ val \in DOMAIN env /\ Name(v, q) = repl[val]
                /\ (env[val] # 0 => ValueOf(env, repl[val]) = env[val])
<1>1. q \in Points(v) /\ q[1] = b /\ q[2] = k /\ q[2] # 0
  BY OnlyStores, RunFacts DEF Stores, Passes
<1>2. val \in {"new", "load"} \X Block \X Nat
  BY <1>1, PointIsStore, RunFacts DEF Stores
<1>3. Name(v, q) = IF val \in DOMAIN repl THEN repl[val] ELSE val
  BY <1>1, NameIs, RunFacts DEF Stores
<1>4. ASSUME val[1] = "new" PROVE Origin(val) = q /\ Name(v, q) = val
  <2>1. val = <<"new", b, k>>
    BY <1>1, <1>4, StoredValue, RunFacts DEF Stores
  <2>2. val \notin DOMAIN repl
    BY <2>1, LoadNames, RunFacts DEF Load
  <2> QED BY <1>3, <2>1, <2>2 DEF Origin, Passes
<1>5. ASSUME val[1] # "new"
      PROVE  /\ val[1] = "load" /\ val \in DOMAIN env /\ Name(v, q) = repl[val]
             /\ env[val] # 0 => ValueOf(env, repl[val]) = env[val]
  <2>1. /\ val[1] = "load" /\ val = Load(val[2], val[3])
        /\ val[3] \in 1..Len(body[val[2]])
        /\ body[val[2]][val[3]].op = "load" /\ val[2] \in Reachable(fn)
        /\ Before(fn, <<val[2], val[3]>>, q)
    BY <1>1, <1>5, StoredValue, RunFacts DEF Stores
  <2>2. ResultAt(val[2], val[3], env)
    BY <2>1 DEF EnvAt
  <2>3. val \in DOMAIN repl
    BY <2>1, RunFacts, Finished DEF Runnable
  <2> QED BY <1>3, <2>1, <2>2, <2>3 DEF ResultAt
<1> QED BY <1>1, <1>2, <1>4, <1>5

LEMMA StoreKeeps ==
  ASSUME Runnable, NEW b, NEW k, NEW q, NEW r, Passes(b, k, q, r), NEW v, NEW val, Stores(b, k, v, val),
         NEW env, EnvAt(q, env), NEW n, Stored(val, n, env), NEW e, e = Set(env, val, n)
  PROVE  /\ \A x : From(x, q) /\ x \in Finals => ValueOf(e, x) = ValueOf(env, x)
         /\ \A c, m : Before(fn, <<c, m>>, q) => KeepsValue(env, e, Load(c, m))
<1>a. /\ val[1] = "new" => Origin(val) = q
      /\ val[1] # "new" => val \in DOMAIN env
  BY StoreIs
<1>b. /\ \A x : x # val => KeepsValue(env, e, x)
      /\ val \in DOMAIN env /\ n = env[val] => \A x : KeepsValue(env, e, x)
  BY SetKeeps
<1>1. CASE val[1] = "new"
  <2>1. Origin(val) = q /\ \A x : x # val => KeepsValue(env, e, x)
    BY <1>1, <1>a, <1>b
  <2>2. ASSUME NEW x, From(x, q) PROVE ValueOf(e, x) = ValueOf(env, x)
    <3>1. x # val
      BY <2>1, <2>2, NotHere, PassesPoints
    <3> QED BY <2>1, <3>1, KeepsValueOf
  <2>3. \A c, m : Load(c, m) # val
    BY <1>1 DEF Load
  <2> QED BY <2>1, <2>2, <2>3
<1>2. CASE val[1] # "new"
  <2>1. \A x : KeepsValue(env, e, x)
    BY <1>2, <1>a, <1>b DEF Stored
  <2>2. \A x : ValueOf(e, x) = ValueOf(env, x)
    BY <2>1, KeepsValueOf
  <2> QED BY <2>1, <2>2
<1> QED BY <1>1, <1>2

LEMMA StoreRuns ==
  ASSUME Runnable, NEW b, NEW k, NEW q, NEW r, Passes(b, k, q, r), NEW v \in Var, NEW val, Stores(b, k, v, val),
         NEW mem, NEW env, RunsAt(q, mem, env), NEW n, Stored(val, n, env),
         NEW e, e = Set(env, val, n), NEW m2, StoredIn(mem, v, n, m2)
  PROVE  RunsAt(r, m2, e)
<1>1. EnvAt(q, env) /\ \A w \in Var : MemAt(w, q, mem, env)
  BY DEF RunsAt
<1>2. /\ \A x : From(x, q) /\ x \in Finals => ValueOf(e, x) = ValueOf(env, x)
      /\ \A c, m : Before(fn, <<c, m>>, q) => KeepsValue(env, e, Load(c, m))
  BY <1>1, StoreKeeps
<1>3. EnvAt(r, e)
  <2>1. body[b][k].op # "load"
    BY DEF Stores
  <2> QED BY <1>1, <1>2, <2>1, EnvOn
<1>4. ASSUME NEW w \in Var, w # v PROVE MemAt(w, r, m2, e)
  <2>1. q \notin Points(w) /\ m2[w] = mem[w]
    BY <1>4, OnlyStores, RunFacts DEF Stores, StoredIn
  <2> QED BY <1>1, <1>2, <2>1, MemOn
<1>5. MemAt(v, r, m2, e)
  <2>1. q \in Points(v) /\ Before(fn, q, r) /\ q \in Point(fn) /\ r \in Point(fn)
    BY <1>1, StoreIs, PassesPoints
  <2>2. ~NoneBefore(fn, Points(v), r)
    BY <2>1 DEF NoneBefore
  <2>3. Nearest(fn, Points(v), q, r)
    BY <2>1, PassesOne, PointTypes DEF Nearest
  <2>4. \A p : Nearest(fn, Points(v), p, r) => p = q
    BY <2>1, <2>3, NearestOnce, PointTypes, RunFacts
  <2>5. ASSUME n # 0 PROVE ValueOf(e, Name(v, q)) = n
    <3>1. e[val] = n /\ val \in DOMAIN e
      BY SetKeeps
    <3>2. CASE val[1] = "new"
      <4>1. Name(v, q) = val
        BY <1>1, <3>2, StoreIs
      <4> QED BY <3>1, <3>2, <4>1 DEF ValueOf
    <3>3. CASE val[1] # "new"
      <4>1. val \in DOMAIN env /\ n = env[val] /\ Name(v, q) = repl[val] /\ ValueOf(env, repl[val]) = env[val]
        BY <1>1, <2>5, <3>3, StoreIs DEF Stored
      <4>2. \A x : KeepsValue(env, e, x)
        BY <4>1, SetKeeps
      <4>3. \A x : ValueOf(e, x) = ValueOf(env, x)
        BY <4>2, KeepsValueOf
      <4> QED BY <4>1, <4>3
    <3> QED BY <3>2, <3>3
  <2> QED BY <2>2, <2>4, <2>5 DEF MemAt, StoredIn
<1> QED BY <1>3, <1>4, <1>5 DEF RunsAt

-----------------------------------------------------------------------------
(* A load reads what memory holds, and so does the value that replaced it. *)
LEMMA LoadRuns ==
  ASSUME Runnable, NEW b, NEW k, NEW q, NEW r, Passes(b, k, q, r),
         body[b][k].op = "load", NEW v \in Var, body[b][k].var = v,
         NEW mem, NEW env, RunsAt(q, mem, env), NEW e, e = Set(env, Load(b, k), mem[v])
  PROVE  /\ RunsAt(r, mem, e)
         /\ mem[v] # 0 => ValueOf(env, repl[Load(b, k)]) = mem[v]
<1>1. EnvAt(q, env) /\ \A w \in Var : MemAt(w, q, mem, env)
  BY DEF RunsAt
<1>2. PICK y : y = Load(b, k)
  OBVIOUS
<1>3. y \in DOMAIN repl /\ q = <<b, k>> /\ b \in Reachable(fn) /\ k \in 1..Len(body[b])
  BY <1>2, RunFacts, Finished DEF Passes, Runnable
<1>4. Sees(v, q, repl[y])
  BY <1>2, <1>3, RunFacts DEF ReplacedInv
<1>5. mem[v] # 0 => ValueOf(env, repl[y]) = mem[v]
  BY <1>1, <1>4 DEF Sees, MemAt
<1>6. /\ y \in DOMAIN e /\ e[y] = mem[v]
      /\ \A x : x # y => KeepsValue(env, e, x)
      /\ \A x : ValueOf(e, x) = ValueOf(env, x)
  <2>1. y[1] = "load" /\ e = Set(env, y, mem[v])
    BY <1>2 DEF Load
  <2>2. PICK n : n = mem[v]
    OBVIOUS
  <2>3. e = Set(env, y, n)
    BY <2>1, <2>2
  <2>4. /\ y \in DOMAIN e /\ e[y] = n
        /\ \A x : x # y => KeepsValue(env, e, x)
        /\ \A x : ValueOf(e, x) = ValueOf(env, x)
    BY <2>1, <2>3, SetKeeps
  <2> QED BY <2>2, <2>4
<1>7. ASSUME NEW w \in Var PROVE MemAt(w, r, mem, e)
  <2>1. q \notin Points(w)
    BY OnlyStores, RunFacts
  <2> QED BY <1>1, <1>6, <2>1, MemOn
<1>8. EnvAt(r, e)
  <2>1. ResultAt(b, k, e)
    BY <1>2, <1>5, <1>6 DEF ResultAt
  <2>2. ASSUME NEW c, NEW m, Before(fn, <<c, m>>, q) PROVE Load(c, m) # y
    <3>1. <<c, m>> # q
      <4>1. ~Before(fn, q, q)
        BY PassesPoints, BeforeIrreflexive
      <4> QED BY <2>2, <4>1
    <3> QED BY <1>2, <1>3, <3>1 DEF Load
  <2>3. \A c, m : Before(fn, <<c, m>>, q) => KeepsValue(env, e, Load(c, m))
    BY <1>6, <2>2
  <2> QED BY <1>1, <1>6, <2>1, <2>3, EnvOn
<1> QED BY <1>2, <1>5, <1>7, <1>8 DEF RunsAt

-----------------------------------------------------------------------------
(* The execution leaves block a for its successor c: the phis of c take    *)
(* their values, and no other value changes.                               *)
Jumps(a, c, q, r) ==
    /\ a \in Reachable(fn) /\ c \in Reachable(fn) /\ Step(fn, a, c)
    /\ q = <<a, Len(body[a]) + 1>> /\ r = <<c, 1>>

LEMMA EnterIs ==
  ASSUME NEW env, NEW b, NEW from, NEW e, e = EnterBlock(env, b, from)
  PROVE  /\ \A x : (\A w : HasPhi(w, b) => x # Phi(w, b)) => KeepsValue(env, e, x)
         /\ \A v : HasPhi(v, b) => \E k \in PhisOf(v, b) :
               Phi(v, b) \in DOMAIN e /\ e[Phi(v, b)] = PhiValue(env, insts[b][k], from)
<1> DEFINE phis == {k \in 1..Len(insts[b]) : insts[b][k].op = "phi"}
           phi(v) == insts[b][CHOOSE k \in phis : insts[b][k].var = v]
           results == {Phi(insts[b][k].var, b) : k \in phis}
<1>1. /\ DOMAIN e = DOMAIN env \cup results
      /\ \A x \in DOMAIN e : e[x] = IF x \in results THEN PhiValue(env, phi(x[2]), from) ELSE env[x]
  BY DEF EnterBlock
<1>2. \A x : x \in results <=> \E w : HasPhi(w, b) /\ x = Phi(w, b)
  BY DEF HasPhi, PhisOf
<1>3. ASSUME NEW v, HasPhi(v, b)
      PROVE  \E k \in PhisOf(v, b) :
                Phi(v, b) \in DOMAIN e /\ e[Phi(v, b)] = PhiValue(env, insts[b][k], from)
  <2>1. Phi(v, b) \in results
    BY <1>2, <1>3
  <2>2. Phi(v, b) \in DOMAIN e /\ e[Phi(v, b)] = PhiValue(env, phi(v), from)
    <3>1. Phi(v, b)[2] = v
      BY DEF Phi
    <3> HIDE DEF phi, results
    <3> QED BY <1>1, <2>1, <3>1
  <2>3. (CHOOSE k \in phis : insts[b][k].var = v) \in PhisOf(v, b)
    BY <1>3 DEF HasPhi, PhisOf
  <2> QED BY <2>2, <2>3
<1>4. ASSUME NEW x, \A w : HasPhi(w, b) => x # Phi(w, b) PROVE KeepsValue(env, e, x)
  <2>1. x \notin results
    BY <1>2, <1>4
  <2> HIDE DEF phi, results
  <2> QED BY <1>1, <2>1 DEF KeepsValue
<1> QED BY <1>3, <1>4

LEMMA JumpPoints ==
  ASSUME Runnable, NEW a, NEW c, NEW q, NEW r, Jumps(a, c, q, r)
  PROVE  /\ q \in Point(fn) /\ r \in Point(fn) /\ End(a) = q /\ Len(body[a]) \in Nat
         /\ \A o \in Point(fn) : Before(fn, o, r) => o = <<c, 0>> \/ StrictlyDominates(fn, o[1], c)
         /\ \A o \in Point(fn) : StrictlyDominates(fn, o[1], c) => Before(fn, o, r)
         /\ \A o \in Point(fn) : StrictlyDominates(fn, o[1], c) /\ o[2] <= Len(body[o[1]]) => Before(fn, o, q)
<1>1. Graph(fn) /\ body \in [Block -> Seq(Entering)] /\ Reachable(fn) \subseteq Block
  BY RunFacts, GraphFacts
<1>2. Len(body[a]) \in Nat /\ a \in Reachable(fn) /\ c \in Reachable(fn) /\ Step(fn, a, c)
  BY <1>1 DEF Jumps
<1>3. q \in Point(fn) /\ r \in Point(fn) /\ End(a) = q
  BY <1>2 DEF Jumps, Point, End
<1>4. \A o \in Point(fn) : Before(fn, o, r) => o = <<c, 0>> \/ StrictlyDominates(fn, o[1], c)
  <2> SUFFICES ASSUME NEW o \in Point(fn), Before(fn, o, r), ~StrictlyDominates(fn, o[1], c) PROVE o = <<c, 0>>
    OBVIOUS
  <2>1. PICK b \in Reachable(fn), n \in Nat : o = <<b, n>>
    BY DEF Point
  <2>2. b = c /\ n < 1
    BY <2>1 DEF Before, Jumps
  <2> QED BY <2>1, <2>2
<1>5. \A o \in Point(fn) : StrictlyDominates(fn, o[1], c) => Before(fn, o, r)
  BY DEF Before, Jumps
<1>6. \A o \in Point(fn) : StrictlyDominates(fn, o[1], c) /\ o[2] <= Len(body[o[1]]) => Before(fn, o, q)
  <2> SUFFICES ASSUME NEW o \in Point(fn), StrictlyDominates(fn, o[1], c), o[2] <= Len(body[o[1]])
               PROVE  Before(fn, o, q)
    OBVIOUS
  <2>1. PICK m : m = Len(body[a]) + 1
    OBVIOUS
  <2>2. m \in Nat /\ (o[2] < m \/ o[1] # a)
    <3>1. o[2] \in Nat
      BY DEF Point
    <3> QED BY <1>2, <2>1, <3>1
  <2>3. Before(fn, o, <<a, m>>)
    BY <1>1, <1>2, <2>2, BeforeBlock
  <2> QED BY <2>1, <2>3 DEF Jumps
<1> QED BY <1>2, <1>3, <1>4, <1>5, <1>6

(* What comes from before a block that strictly dominates c is no phi of c.*)
LEMMA NotEntered ==
  ASSUME Graph(fn), NEW c \in Reachable(fn), NEW s \in Point(fn), StrictlyDominates(fn, s[1], c),
         NEW x, From(x, s)
  PROVE  \A w : x # Phi(w, c)
<1> SUFFICES ASSUME NEW w, x = Phi(w, c) PROVE FALSE
  OBVIOUS
<1>1. PICK o : o = <<c, 0>>
  OBVIOUS
<1>2. Origin(x) = o /\ o[1] = c
  BY <1>1 DEF Origin, Phi
<1>3. o \in Point(fn) /\ Before(fn, o, s)
  BY <1>2 DEF From
<1>4. Dominates(fn, c, s[1])
  BY <1>2, <1>3, BeforeDominates
<1> QED BY <1>4, StrictlyOneWay

LEMMA JumpKeepsEnv ==
  ASSUME Runnable, NEW a, NEW c, NEW q, NEW r, Jumps(a, c, q, r), NEW env, EnvAt(q, env),
         NEW e, e = EnterBlock(env, c, a)
  PROVE  EnvAt(r, e)
<1> SUFFICES ASSUME NEW b \in Reachable(fn), NEW m \in 1..Len(body[b]), body[b][m].op = "load",
                    Before(fn, <<b, m>>, r)
             PROVE  ResultAt(b, m, e)
  BY DEF EnvAt
<1>1. PICK o : o = <<b, m>>
  OBVIOUS
<1>2. o \in Point(fn) /\ m \in Nat \ {0} /\ b \in Block
  BY <1>1, RunFacts, LoadsAre DEF LoadAt
<1>3. o # <<c, 0>> /\ o[1] = b /\ o[2] = m
  BY <1>1, <1>2
<1>4. StrictlyDominates(fn, b, c)
  BY <1>1, <1>2, <1>3, JumpPoints
<1>5. Before(fn, o, q)
  <2>1. m <= Len(body[b])
    <3>1. Len(body[b]) \in Nat
      BY <1>2, RunFacts, GraphFacts
    <3> QED BY <3>1
  <2> QED BY <1>2, <1>3, <1>4, <2>1, JumpPoints
<1>6. ResultAt(b, m, env)
  BY <1>1, <1>5 DEF EnvAt
<1>7. KeepsValue(env, e, Load(b, m))
  <2>1. \A w : Load(b, m) # Phi(w, c)
    BY DEF Load, Phi
  <2> QED BY <2>1, EnterIs
<1>8. ValueOf(e, repl[Load(b, m)]) = ValueOf(env, repl[Load(b, m)])
  <2> DEFINE x == repl[Load(b, m)]
  <2>1. From(x, o)
    BY <1>1, RunFacts, Finished DEF Runnable, ReplacedInv
  <2>2. \A w : x # Phi(w, c)
    <3>1. c \in Reachable(fn)
      BY DEF Jumps
    <3> HIDE DEF x
    <3> QED BY <1>2, <1>3, <1>4, <2>1, <3>1, RunFacts, NotEntered
  <2> HIDE DEF x
  <2>3. KeepsValue(env, e, x)
    BY <2>2, EnterIs
  <2>4. ValueOf(e, x) = ValueOf(env, x)
    BY <2>3, KeepsValueOf
  <2> QED BY <2>4 DEF x
<1> QED BY <1>6, <1>7, <1>8 DEF ResultAt, KeepsValue

-----------------------------------------------------------------------------
(* A phi of c takes, for the predecessor a, the value that the end of a    *)
(* sees.                                                                   *)
LEMMA PhiTakes ==
  ASSUME Runnable, NEW a, NEW c, NEW q, NEW r, Jumps(a, c, q, r), NEW v \in Var, NEW k \in PhisOf(v, c),
         NEW mem, NEW env, MemAt(v, q, mem, env), mem[v] # 0
  PROVE  PhiValue(env, insts[c][k], a) = mem[v]
<1>1. c \in Block /\ c \in Reachable(fn) /\ a \in Reachable(fn) /\ Step(fn, a, c) /\ End(a) = q
  BY RunFacts, JumpPoints DEF Jumps
<1>2. k \in 1..Len(insts[c]) /\ insts[c][k].op = "phi" /\ insts[c][k].var = v
  BY DEF PhisOf
<1> DEFINE args == insts[c][k].args
<1>3. ArgsSee(v, args, Filled, c)
  BY <1>1, <1>2, RunFacts DEF ReachingInv
<1>4. \A n \in 1..Len(args) : args[n][2] = a => ValueOf(env, args[n][1]) = mem[v]
  <2>1. \A n \in 1..Len(args) : Sees(v, End(args[n][2]), args[n][1])
    BY <1>3 DEF ArgsSee
  <2> HIDE DEF args
  <2> SUFFICES ASSUME NEW n \in 1..Len(args), args[n][2] = a PROVE ValueOf(env, args[n][1]) = mem[v]
    OBVIOUS
  <2>2. Sees(v, q, args[n][1])
    BY <1>1, <2>1
  <2> QED BY <2>2 DEF Sees, MemAt
<1>5. \E n \in 1..Len(args) : args[n][2] = a
  <2>1. ClosedPhis(v)
    <3>1. PhiBlocks(v) # {}
      BY <1>1 DEF PhiBlocks, HasPhi
    <3> QED BY <3>1, RunFacts DEF Handled, ClosedPhis
  <2>2. ~NoneBefore(fn, Points(v), q)
    BY <2>1 DEF MemAt
  <2>3. a \in Filled
    BY <1>1, RunFacts, Finished DEF Runnable
  <2> QED BY <1>1, <1>3, <2>2, <2>3 DEF ArgsSee
<1> HIDE DEF args
<1> DEFINE S == {n \in 1..Len(args) : args[n][2] = a}
           vals == {ValueOf(env, args[n][1]) : n \in S}
<1>6. vals = {mem[v]}
  <2>1. mem[v] \in vals
    BY <1>4, <1>5
  <2>2. vals \subseteq {mem[v]}
    BY <1>4
  <2> QED BY <2>1, <2>2
<1>7. PhiValue(env, insts[c][k], a) = IF vals = {} THEN -1 ELSE CHOOSE x \in vals : TRUE
  BY DEF PhiValue, args
<1> HIDE DEF vals
<1> QED BY <1>6, <1>7

(* The point after the jump sees a definition that is not at its own head  *)
(* only if the end of the predecessor saw it.                              *)
LEMMA PointsWithoutPhi ==
  ASSUME Runnable, NEW a, NEW c, NEW q, NEW r, Jumps(a, c, q, r), NEW v \in Var, ~HasPhi(v, c),
         NEW o \in Points(v)
  PROVE  /\ Before(fn, o, r) => Before(fn, o, q) /\ StrictlyDominates(fn, o[1], c)
         /\ StrictlyDominates(fn, o[1], c) => Before(fn, o, r) /\ Before(fn, o, q)
<1>1. o \in Point(fn) /\ c \in Block
  BY RunFacts, PointTypes DEF Jumps
<1>2. o[2] <= Len(body[o[1]])
  <2>1. o[1] \in Block
    BY <1>1, RunFacts DEF Point
  <2>2. Len(body[o[1]]) \in Nat
    BY <2>1, RunFacts, GraphFacts
  <2>3. CASE o[2] = 0
    BY <2>2, <2>3
  <2>4. CASE o[2] # 0
    BY <2>2, <2>4, RunFacts, PointIsStore
  <2> QED BY <2>3, <2>4
<1>3. o # <<c, 0>>
  <2> SUFFICES ASSUME o = <<c, 0>> PROVE FALSE
    OBVIOUS
  <2>1. o[1] = c /\ o[2] = 0
    OBVIOUS
  <2> QED BY <2>1 DEF Points, HasPhi, StoresOf
<1> QED BY <1>1, <1>2, <1>3, JumpPoints

LEMMA ClosedPointsSame ==
  ASSUME Runnable, NEW a, NEW c, NEW q, NEW r, Jumps(a, c, q, r), NEW v \in Var, ~HasPhi(v, c),
         ClosedPhis(v)
  PROVE  /\ \A p : Nearest(fn, Points(v), p, q) <=> Nearest(fn, Points(v), p, r)
         /\ NoneBefore(fn, Points(v), q) <=> NoneBefore(fn, Points(v), r)
<1>1. ASSUME NEW o \in Points(v), Before(fn, o, q) PROVE Before(fn, o, r)
  <2>1. o \in Point(fn) /\ q \in Point(fn) /\ q[1] = a /\ c \in Reachable(fn) /\ a \in Reachable(fn) /\ Step(fn, a, c)
    BY PointTypes, JumpPoints DEF Jumps
  <2>2. Dominates(fn, o[1], a)
    BY <1>1, <2>1, RunFacts, BeforeDominates
  <2>3. CASE StrictlyDominates(fn, o[1], c)
    BY <2>3, PointsWithoutPhi
  <2>4. CASE ~StrictlyDominates(fn, o[1], c)
    <3>1. c \in FrontierOf(fn, Dominance(fn), o[1])
      BY <2>1, <2>2, <2>4, RunFacts, OutsideIsFrontier
    <3>2. <<c, 0>> \in Points(v)
      BY <3>1, RunFacts, PointsClosed DEF ClosedPhis, ClosedPoints
    <3>3. HasPhi(v, c)
      <4>1. PICK p : p = <<c, 0>>
        OBVIOUS
      <4>2. p \in Points(v) /\ p[2] = 0 /\ p[1] = c
        BY <3>2, <4>1
      <4>3. 0 \notin StoresOf(v, body[c])
        <5>1. Len(body[c]) \in Nat
          BY <2>1, RunFacts, GraphFacts
        <5> QED BY <5>1 DEF StoresOf
      <4> QED BY <4>2, <4>3 DEF Points
    <3> QED BY <3>3
  <2> QED BY <2>3, <2>4
<1>2. \A o \in Points(v) : Before(fn, o, q) <=> Before(fn, o, r)
  BY <1>1, PointsWithoutPhi
<1> QED BY <1>2, NearestSame

-----------------------------------------------------------------------------
(* A variable that one block stores and that has no phi is defined in that *)
(* block alone.                                                            *)
LEMMA SinglePoints ==
  ASSUME Runnable, NEW v \in Var, ~ClosedPhis(v)
  PROVE  \E s : \A o \in Points(v) : o[1] = s
<1>1. PhiBlocks(v) = {} /\ \E s : DefBlocks(v) = {s}
  BY RunFacts DEF Handled, ClosedPhis
<1>2. PICK s : DefBlocks(v) = {s}
  BY <1>1
<1>3. ASSUME NEW o \in Points(v) PROVE o[1] = s
  <2>1. o \in Point(fn) /\ o[1] \in Reachable(fn) /\ o[1] \in Block /\ o[1] \in Blocks
    <3>1. Reachable(fn) \subseteq Block /\ Reachable(fn) \subseteq Blocks
      BY RunFacts, GraphFacts
    <3>2. o \in Point(fn)
      BY PointTypes
    <3> QED BY <3>1, <3>2 DEF Point
  <2>2. o[2] # 0
    BY <1>1, <2>1 DEF Points, PhiBlocks
  <2>3. StoresOf(v, body[o[1]]) # {}
    BY <2>2 DEF Points
  <2> QED BY <1>2, <2>1, <2>3 DEF DefBlocks
<1> QED BY <1>3

LEMMA NearestCarries ==
  ASSUME Runnable, NEW a, NEW c, NEW q, NEW r, Jumps(a, c, q, r), NEW v \in Var, ~HasPhi(v, c),
         NEW p, Nearest(fn, Points(v), p, r)
  PROVE  Nearest(fn, Points(v), p, q) /\ StrictlyDominates(fn, p[1], c)
<1>1. p \in Points(v) /\ Before(fn, p, r) /\ \A o \in Points(v) : Before(fn, o, r) => o = p \/ Before(fn, o, p)
  BY DEF Nearest
<1>2. Before(fn, p, q) /\ StrictlyDominates(fn, p[1], c)
  BY <1>1, PointsWithoutPhi
<1>3. CASE ClosedPhis(v)
  BY <1>2, <1>3, ClosedPointsSame
<1>4. CASE ~ClosedPhis(v)
  <2>1. PICK s : \A o \in Points(v) : o[1] = s
    BY <1>4, SinglePoints
  <2>2. \A o \in Points(v) : Before(fn, o, r)
    BY <1>1, <1>2, <2>1, PointsWithoutPhi
  <2> QED BY <1>1, <1>2, <2>2 DEF Nearest
<1> QED BY <1>3, <1>4

LEMMA PhiNearest ==
  ASSUME Runnable, NEW a, NEW c, NEW q, NEW r, Jumps(a, c, q, r), NEW v \in Var, HasPhi(v, c),
         NEW o, o = <<c, 0>>
  PROVE  /\ ~NoneBefore(fn, Points(v), r) /\ Name(v, o) = Phi(v, c)
         /\ \A p : Nearest(fn, Points(v), p, r) => p = o
<1>1. o \in Point(fn) /\ o[1] = c /\ o[2] = 0 /\ o \in Points(v)
  BY DEF Jumps, Point, Points
<1>2. Before(fn, o, r)
  BY DEF Before, Jumps
<1>3. Name(v, o) = Phi(v, c)
  BY <1>1 DEF Name
<1>4. ASSUME NEW p, Nearest(fn, Points(v), p, r) PROVE p = o
  <2>1. p \in Points(v) /\ p \in Point(fn) /\ Before(fn, p, r) /\ (o = p \/ Before(fn, o, p))
    BY <1>1, <1>2, <1>4, PointTypes DEF Nearest
  <2>2. CASE StrictlyDominates(fn, p[1], c)
    <3> SUFFICES ASSUME Before(fn, o, p) PROVE FALSE
      BY <2>1
    <3>1. Dominates(fn, c, p[1])
      BY <1>1, <2>1, RunFacts, BeforeDominates
    <3> QED BY <2>2, <3>1, RunFacts, StrictlyOneWay
  <2>3. CASE p = <<c, 0>>
    BY <2>3
  <2> QED BY <2>1, <2>2, <2>3, JumpPoints
<1> QED BY <1>1, <1>2, <1>3, <1>4 DEF NoneBefore

LEMMA JumpKeepsMem ==
  ASSUME Runnable, NEW a, NEW c, NEW q, NEW r, Jumps(a, c, q, r), NEW v \in Var,
         NEW mem, NEW env, MemAt(v, q, mem, env), NEW e, e = EnterBlock(env, c, a)
  PROVE  MemAt(v, r, mem, e)
<1> SUFFICES ASSUME mem[v] # 0
             PROVE  /\ \A p : Nearest(fn, Points(v), p, r) => ValueOf(e, Name(v, p)) = mem[v]
                    /\ ClosedPhis(v) => ~NoneBefore(fn, Points(v), r)
  BY DEF MemAt
<1>1. /\ \A p : Nearest(fn, Points(v), p, q) => ValueOf(env, Name(v, p)) = mem[v]
      /\ ClosedPhis(v) => ~NoneBefore(fn, Points(v), q)
  BY DEF MemAt
<1>2. CASE HasPhi(v, c)
  <2>1. PICK k \in PhisOf(v, c) : Phi(v, c) \in DOMAIN e /\ e[Phi(v, c)] = PhiValue(env, insts[c][k], a)
    BY <1>2, EnterIs
  <2>2. PhiValue(env, insts[c][k], a) = mem[v]
    BY PhiTakes
  <2>3. ValueOf(e, Phi(v, c)) = mem[v]
    BY <2>1, <2>2 DEF ValueOf, Phi
  <2>4. PICK o : o = <<c, 0>>
    OBVIOUS
  <2>5. /\ ~NoneBefore(fn, Points(v), r) /\ Name(v, o) = Phi(v, c)
        /\ \A p : Nearest(fn, Points(v), p, r) => p = o
    BY <1>2, <2>4, PhiNearest
  <2> QED BY <2>3, <2>5
<1>3. CASE ~HasPhi(v, c)
  <2>1. ASSUME NEW p, Nearest(fn, Points(v), p, r) PROVE ValueOf(e, Name(v, p)) = mem[v]
    <3>1. Nearest(fn, Points(v), p, q) /\ StrictlyDominates(fn, p[1], c) /\ p \in Points(v)
      BY <1>3, <2>1, NearestCarries DEF Nearest
    <3>2. PICK x : x = Name(v, p)
      OBVIOUS
    <3>3. PICK s : s = <<p[1], p[2] + 1>>
      OBVIOUS
    <3>4. s \in Point(fn) /\ Before(fn, p, s) /\ s[1] = p[1]
      <4>1. p \in Point(fn)
        BY <3>1, PointTypes
      <4> QED BY <3>3, <4>1 DEF Point, Before
    <3>5. From(x, s)
      BY <3>1, <3>2, <3>4, NamesAhead
    <3>6. \A w : x # Phi(w, c)
      <4>1. c \in Reachable(fn)
        BY DEF Jumps
      <4> QED BY <3>1, <3>4, <3>5, <4>1, RunFacts, NotEntered
    <3>7. KeepsValue(env, e, x)
      BY <3>6, EnterIs
    <3> QED BY <1>1, <3>1, <3>2, <3>7, KeepsValueOf
  <2>2. ClosedPhis(v) => ~NoneBefore(fn, Points(v), r)
    BY <1>1, <1>3, ClosedPointsSame
  <2> QED BY <2>1, <2>2
<1> QED BY <1>2, <1>3

LEMMA JumpRuns ==
  ASSUME Runnable, NEW a, NEW c, NEW q, NEW r, Jumps(a, c, q, r),
         NEW mem, NEW env, RunsAt(q, mem, env), NEW e, e = EnterBlock(env, c, a)
  PROVE  RunsAt(r, mem, e)
<1>1. EnvAt(q, env) /\ \A v \in Var : MemAt(v, q, mem, env)
  BY DEF RunsAt
<1>2. EnvAt(r, e)
  BY <1>1, JumpKeepsEnv
<1>3. ASSUME NEW v \in Var PROVE MemAt(v, r, mem, e)
  BY <1>1, JumpKeepsMem
<1> QED BY <1>2, <1>3 DEF RunsAt

-----------------------------------------------------------------------------
(* The steps of the execution, field by field.                             *)
StoreStep(x, y, v, val, n) ==
    y = [x EXCEPT !.k = @ + 1, !.mem[v] = n,
                  !.tick = IF val[1] = "new" THEN @ + 1 ELSE @,
                  !.env = Set(@, val, n)]

LEMMA StoreFields ==
  ASSUME NEW x, IsExec(x), NEW v \in Var, NEW val, NEW n, NEW y, StoreStep(x, y, v, val, n)
  PROVE  /\ IsExec(y) /\ y.at = x.at /\ y.k = x.k + 1 /\ y.expected = x.expected /\ y.actual = x.actual
         /\ y.env = Set(x.env, val, n) /\ StoredIn(x.mem, v, n, y.mem)
<1>1. PICK tick : tick = IF val[1] = "new" THEN x.tick + 1 ELSE x.tick
  OBVIOUS
<1>2. PICK env : env = Set(x.env, val, n)
  OBVIOUS
<1>3. PICK mem : mem = [x.mem EXCEPT ![v] = n]
  OBVIOUS
<1>4. y = [at |-> x.at, k |-> x.k + 1, from |-> x.from, visits |-> x.visits, tick |-> tick,
           mem |-> mem, env |-> env, expected |-> x.expected, actual |-> x.actual]
  BY <1>1, <1>2, <1>3 DEF StoreStep, IsExec
<1>5. mem[v] = n /\ (\A w \in Var : w # v => mem[w] = x.mem[w]) /\ mem = [w \in Var |-> mem[w]]
  BY <1>3 DEF IsExec
<1> QED BY <1>2, <1>4, <1>5 DEF IsExec, StoredIn

LoadStep(x, y, load, n, got) ==
    y = [x EXCEPT !.k = @ + 1, !.env = Set(@, load, n), !.expected = n, !.actual = got]

LEMMA LoadFields ==
  ASSUME NEW x, IsExec(x), NEW load, NEW n, NEW got, NEW y, LoadStep(x, y, load, n, got)
  PROVE  /\ IsExec(y) /\ y.at = x.at /\ y.k = x.k + 1 /\ y.expected = n /\ y.actual = got
         /\ y.env = Set(x.env, load, n) /\ y.mem = x.mem
<1>1. PICK env : env = Set(x.env, load, n)
  OBVIOUS
<1>2. y = [at |-> x.at, k |-> x.k + 1, from |-> x.from, visits |-> x.visits, tick |-> x.tick,
           mem |-> x.mem, env |-> env, expected |-> n, actual |-> got]
  BY <1>1 DEF LoadStep, IsExec
<1> QED BY <1>1, <1>2 DEF IsExec

JumpStep(x, y, b) ==
    y = [x EXCEPT !.at = b, !.k = 1, !.from = x.at, !.visits = @ + 1,
                  !.env = EnterBlock(@, b, x.at)]

LEMMA JumpFields ==
  ASSUME NEW x, IsExec(x), NEW b, NEW y, JumpStep(x, y, b)
  PROVE  /\ IsExec(y) /\ y.at = b /\ y.k = 1 /\ y.expected = x.expected /\ y.actual = x.actual
         /\ y.env = EnterBlock(x.env, b, x.at) /\ y.mem = x.mem
<1>1. PICK env : env = EnterBlock(x.env, b, x.at)
  OBVIOUS
<1>2. y = [at |-> b, k |-> 1, from |-> x.at, visits |-> x.visits + 1, tick |-> x.tick,
           mem |-> x.mem, env |-> env, expected |-> x.expected, actual |-> x.actual]
  BY <1>1 DEF JumpStep, IsExec
<1> QED BY <1>1, <1>2 DEF IsExec

StartsAt(b) == [NotRun EXCEPT !.at = b, !.visits = 1]

LEMMA StartFields ==
  ASSUME NEW b, NEW y, y = StartsAt(b)
  PROVE  /\ IsExec(y) /\ y.at = b /\ y.k = 1 /\ y.expected = 0
         /\ y.env = << >> /\ \A v \in Var : y.mem[v] = 0
BY DEF NotRun, IsExec, StartsAt

-----------------------------------------------------------------------------
LEMMA HereFacts ==
  ASSUME SsaAll, ExecInv, phase = "run", NEW x, x = exec, NEW b, b = x.at, NEW k, k = x.k
  PROVE  /\ Runnable /\ IsExec(x) /\ b \in Reachable(fn) /\ b \in Block
         /\ k \in Nat \ {0} /\ k <= Len(body[b]) + 1 /\ Len(body[b]) \in Nat
         /\ k <= Len(body[b]) => Passes(b, k, <<b, k>>, <<b, k + 1>>) /\ body[b][k].var \in Var
         /\ x.expected # 0 => x.actual = x.expected
         /\ RunsAt(<<b, k>>, x.mem, x.env)
<1>1. Runnable
  BY DEF Runnable, SsaAll
<1>2. IsExec(x) /\ IsHere(Here) /\ RunsAt(Here, x.mem, x.env) /\ Here = <<b, k>>
  BY DEF ExecInv, Here
<1>3. b \in Reachable(fn) /\ k \in Nat \ {0} /\ k <= Len(body[b]) + 1
  BY <1>2 DEF IsHere
<1>4. b \in Block /\ body[b] \in Seq(Entering)
  BY <1>1, <1>3, RunFacts, GraphFacts
<1>5. Len(body[b]) \in Nat
  BY <1>4
<1>6. ASSUME k <= Len(body[b]) PROVE Passes(b, k, <<b, k>>, <<b, k + 1>>) /\ body[b][k].var \in Var
  <2>1. k \in 1..Len(body[b])
    BY <1>3, <1>5, <1>6
  <2>2. body[b][k] \in Entering
    BY <1>4, <2>1
  <2>3. body[b][k].var \in Var
    BY <2>2, EnteringFields
  <2> QED BY <1>3, <2>1, <2>3 DEF Passes
<1>7. x.expected # 0 => x.actual = x.expected
  BY DEF ExecInv
<1>8. RunsAt(<<b, k>>, x.mem, x.env)
  BY <1>2
<1>9. k <= Len(body[b]) => Passes(b, k, <<b, k>>, <<b, k + 1>>) /\ body[b][k].var \in Var
  BY <1>6
<1>10. IsExec(x) /\ b \in Reachable(fn) /\ k \in Nat \ {0} /\ k <= Len(body[b]) + 1
  BY <1>2, <1>3
<1> QED BY <1>1, <1>4, <1>5, <1>7, <1>8, <1>9, <1>10

LEMMA StartRuns == ASSUME SsaAll, ExecInv, Start PROVE ExecInv'
<1>1. Frozen /\ phase' = "run" /\ exec' = StartsAt(Entry(fn))
  BY DEF Start, Frozen, graph, renaming, StartsAt
<1>2. PICK b : b = Entry(fn)
  OBVIOUS
<1>3. PICK y : y = exec'
  OBVIOUS
<1>4. /\ IsExec(y) /\ y.at = b /\ y.k = 1 /\ y.expected = 0
      /\ y.env = << >> /\ \A v \in Var : y.mem[v] = 0
  BY <1>1, <1>2, <1>3, StartFields
<1>5. PICK q : q = <<b, 1>>
  OBVIOUS
<1>6. Graph(fn) /\ b \in Reachable(fn) /\ body[b] \in Seq(Entering)
  <2>1. GraphInv
    BY DEF SsaAll, PassInv
  <2>2. Graph(fn) /\ body \in [Block -> Seq(Entering)] /\ Reachable(fn) \subseteq Block
    BY <2>1, GraphFacts
  <2>3. b \in Reachable(fn)
    BY <1>2, <2>2, ReachClosed DEF Reachable
  <2> QED BY <2>2, <2>3
<1>7. RunsAt(q, y.mem, y.env)
  <2>1. \A v \in Var : MemAt(v, q, y.mem, y.env)
    BY <1>4 DEF MemAt
  <2>2. EnvAt(q, y.env)
    <3> SUFFICES ASSUME NEW c \in Reachable(fn), NEW m \in 1..Len(body[c]), Before(fn, <<c, m>>, q) PROVE FALSE
      BY DEF EnvAt
    <3>1. m >= 1
      OBVIOUS
    <3>2. StrictlyDominates(fn, c, b)
      BY <1>5, <3>1 DEF Before
    <3>3. Dominates(fn, b, c)
      BY <1>2, <1>6, EntryDominates
    <3> QED BY <1>6, <3>2, <3>3, StrictlyOneWay
  <2> QED BY <2>1, <2>2 DEF RunsAt
<1>8. IsHere(q)
  <2>1. q[1] = b /\ q[2] = 1
    BY <1>5
  <2>2. Len(body[b]) \in Nat
    BY <1>6
  <2> QED BY <1>6, <2>1, <2>2 DEF IsHere
<1> QED BY <1>1, <1>3, <1>4, <1>5, <1>7, <1>8, RunsNext

LEMMA ExecuteStoreRuns == ASSUME SsaAll, ExecInv, ExecuteStore PROVE ExecInv'
<1>1. PICK x : x = exec
  OBVIOUS
<1>2. PICK y : y = exec'
  OBVIOUS
<1>3. PICK b, k : b = x.at /\ k = x.k
  OBVIOUS
<1>4. PICK v, val : v = body[b][k].var /\ val = body[b][k].val
  OBVIOUS
<1>5. PICK n : n = IF val[1] = "new" THEN x.tick + 1 ELSE x.env[val]
  OBVIOUS
<1>6. /\ Frozen /\ phase = "run" /\ phase' = "run"
      /\ k <= Len(body[b]) /\ body[b][k].op = "store" /\ StoreStep(x, y, v, val, n)
  BY <1>1, <1>2, <1>3, <1>4, <1>5 DEF ExecuteStore, Running, Frozen, graph, renaming, StoreStep
<1>7. PICK q, r : q = <<b, k>> /\ r = <<b, k + 1>>
  OBVIOUS
<1>8. /\ Runnable /\ IsExec(x) /\ b \in Reachable(fn) /\ k \in Nat \ {0} /\ Len(body[b]) \in Nat
      /\ Passes(b, k, q, r) /\ v \in Var /\ RunsAt(q, x.mem, x.env)
      /\ x.expected # 0 => x.actual = x.expected
  BY <1>1, <1>3, <1>4, <1>6, <1>7, HereFacts
<1>9. /\ IsExec(y) /\ y.at = b /\ y.k = k + 1 /\ y.expected = x.expected /\ y.actual = x.actual
      /\ y.env = Set(x.env, val, n) /\ StoredIn(x.mem, v, n, y.mem)
  BY <1>3, <1>6, <1>8, StoreFields
<1>10. RunsAt(r, y.mem, y.env)
  <2>1. Stores(b, k, v, val) /\ Stored(val, n, x.env)
    BY <1>4, <1>5, <1>6 DEF Stores, Stored
  <2> QED BY <1>8, <1>9, <2>1, StoreRuns
<1>11. IsHere(r)
  <2>1. r[1] = b /\ r[2] = k + 1
    BY <1>7
  <2> QED BY <1>6, <1>8, <2>1 DEF IsHere
<1> QED BY <1>2, <1>6, <1>7, <1>8, <1>9, <1>10, <1>11, RunsNext

LEMMA ExecuteLoadRuns == ASSUME SsaAll, ExecInv, ExecuteLoad PROVE ExecInv'
<1>1. PICK x : x = exec
  OBVIOUS
<1>2. PICK y : y = exec'
  OBVIOUS
<1>3. PICK b, k : b = x.at /\ k = x.k
  OBVIOUS
<1>4. PICK v : v = body[b][k].var
  OBVIOUS
<1>5. PICK n, got : n = x.mem[v] /\ got = ValueOf(x.env, repl[Load(b, k)])
  OBVIOUS
<1>6. /\ Frozen /\ phase = "run" /\ phase' = "run"
      /\ k <= Len(body[b]) /\ body[b][k].op = "load" /\ LoadStep(x, y, Load(b, k), n, got)
  BY <1>1, <1>2, <1>3, <1>4, <1>5 DEF ExecuteLoad, Running, Frozen, graph, renaming, LoadStep
<1>7. PICK q, r : q = <<b, k>> /\ r = <<b, k + 1>>
  OBVIOUS
<1>8. /\ Runnable /\ IsExec(x) /\ b \in Reachable(fn) /\ k \in Nat \ {0} /\ Len(body[b]) \in Nat
      /\ Passes(b, k, q, r) /\ v \in Var /\ RunsAt(q, x.mem, x.env)
  BY <1>1, <1>3, <1>4, <1>6, <1>7, HereFacts
<1>9. /\ IsExec(y) /\ y.at = b /\ y.k = k + 1 /\ y.expected = n /\ y.actual = got
      /\ y.env = Set(x.env, Load(b, k), n) /\ y.mem = x.mem
  BY <1>3, <1>6, <1>8, LoadFields
<1>10. RunsAt(r, y.mem, y.env) /\ (n # 0 => got = n)
  BY <1>4, <1>5, <1>6, <1>8, <1>9, LoadRuns
<1>11. IsHere(r)
  <2>1. r[1] = b /\ r[2] = k + 1
    BY <1>7
  <2> QED BY <1>6, <1>8, <2>1 DEF IsHere
<1> QED BY <1>2, <1>6, <1>7, <1>9, <1>10, <1>11, RunsNext

LEMMA JumpRunsOn == ASSUME SsaAll, ExecInv, Jump PROVE ExecInv'
<1>1. PICK x : x = exec
  OBVIOUS
<1>2. PICK y : y = exec'
  OBVIOUS
<1>3. PICK a, k : a = x.at /\ k = x.k
  OBVIOUS
<1>4. PICK c \in Members(fn.succ[a]) : JumpStep(x, y, c)
  BY <1>1, <1>2, <1>3 DEF Jump, JumpStep
<1>5. Frozen /\ phase = "run" /\ phase' = "run" /\ k > Len(body[a])
  BY <1>1, <1>3 DEF Jump, Frozen, graph, renaming
<1>6. PICK q, r : q = <<a, k>> /\ r = <<c, 1>>
  OBVIOUS
<1>7. /\ Runnable /\ IsExec(x) /\ a \in Reachable(fn) /\ k \in Nat \ {0} /\ Len(body[a]) \in Nat
      /\ k <= Len(body[a]) + 1 /\ RunsAt(q, x.mem, x.env)
      /\ x.expected # 0 => x.actual = x.expected
  BY <1>1, <1>3, <1>5, <1>6, HereFacts
<1>8. /\ IsExec(y) /\ y.at = c /\ y.k = 1 /\ y.expected = x.expected /\ y.actual = x.actual
      /\ y.env = EnterBlock(x.env, c, a) /\ y.mem = x.mem
  BY <1>3, <1>4, <1>7, JumpFields
<1>9. Step(fn, a, c) /\ c \in Reachable(fn)
  BY <1>4, <1>7, RunFacts, StepReaches DEF Step
<1>10. Jumps(a, c, q, r)
  <2>1. k = Len(body[a]) + 1
    BY <1>5, <1>7
  <2> QED BY <1>6, <1>7, <1>9, <2>1 DEF Jumps
<1>11. RunsAt(r, y.mem, y.env)
  BY <1>7, <1>8, <1>10, JumpRuns
<1>12. IsHere(r)
  <2>1. r[1] = c /\ r[2] = 1
    BY <1>6
  <2>2. Len(body[c]) \in Nat
    BY <1>7, <1>9, RunFacts, GraphFacts
  <2> QED BY <1>9, <2>1, <2>2 DEF IsHere
<1> QED BY <1>2, <1>5, <1>6, <1>7, <1>8, <1>11, <1>12, RunsNext

-----------------------------------------------------------------------------
LEMMA NotRunning ==
  ASSUME ExecInv, phase # "run", phase' # "run", exec' = exec
  PROVE  ExecInv'
<1>1. exec = NotRun /\ exec' = NotRun /\ NotRun' = NotRun
  BY DEF ExecInv, NotRun
<1>2. exec'.expected = 0
  BY <1>1 DEF NotRun
<1> QED BY <1>1, <1>2 DEF ExecInv

LEMMA PassSteps ==
  ASSUME PassNext
  PROVE  phase # "run" /\ phase' # "run" /\ exec' = exec
<1>1. ASSUME CollectDefs PROVE phase # "run" /\ phase' # "run" /\ exec' = exec
  BY <1>1 DEF CollectDefs
<1>2. ASSUME PickVariable PROVE phase # "run" /\ phase' # "run" /\ exec' = exec
  BY <1>2 DEF PickVariable
<1>3. ASSUME PlacePhis PROVE phase # "run" /\ phase' # "run" /\ exec' = exec
  BY <1>3 DEF PlacePhis, Place
<1>4. ASSUME VariablePlaced PROVE phase # "run" /\ phase' # "run" /\ exec' = exec
  BY <1>4 DEF VariablePlaced
<1>5. ASSUME BeginRename PROVE phase # "run" /\ phase' # "run" /\ exec' = exec
  BY <1>5 DEF BeginRename
<1>6. ASSUME RenamePhi PROVE phase # "run" /\ phase' # "run" /\ exec' = exec
  BY <1>6 DEF RenamePhi, Push, InBody
<1>7. ASSUME RenameStore PROVE phase # "run" /\ phase' # "run" /\ exec' = exec
  BY <1>7 DEF RenameStore, Push, InBody
<1>8. ASSUME RenameLoad PROVE phase # "run" /\ phase' # "run" /\ exec' = exec
  BY <1>8 DEF RenameLoad, InBody
<1>9. ASSUME FillSuccessors PROVE phase # "run" /\ phase' # "run" /\ exec' = exec
  BY <1>9 DEF FillSuccessors, Leaving
<1>10. ASSUME RenameChild PROVE phase # "run" /\ phase' # "run" /\ exec' = exec
  BY <1>10 DEF RenameChild, Leaving
<1>11. ASSUME LeaveBlock PROVE phase # "run" /\ phase' # "run" /\ exec' = exec
  BY <1>11 DEF LeaveBlock, Leave, Leaving
<1> QED BY <1>1, <1>2, <1>3, <1>4, <1>5, <1>6, <1>7, <1>8, <1>9, <1>10, <1>11 DEF PassNext

LEMMA StandsStill ==
  ASSUME ExecInv, UNCHANGED vars
  PROVE  ExecInv'
<1>1. Frozen /\ phase' = phase /\ exec' = exec
  BY DEF vars, Frozen
<1>2. CASE phase # "run"
  BY <1>1, <1>2, NotRunning
<1>3. CASE phase = "run"
  <2>1. PICK y : y = exec'
    OBVIOUS
  <2>2. PICK q : q = Here
    OBVIOUS
  <2>3. /\ IsExec(y) /\ IsHere(q) /\ RunsAt(q, y.mem, y.env) /\ q = <<y.at, y.k>>
        /\ y.expected # 0 => y.actual = y.expected
    BY <1>1, <1>3, <2>1, <2>2 DEF ExecInv, Here
  <2> QED BY <1>1, <1>3, <2>1, <2>3, RunsNext
<1> QED BY <1>2, <1>3

LEMMA NextRuns == SsaAll /\ ExecInv /\ [Next]_vars => ExecInv'
<1> SUFFICES ASSUME SsaAll, ExecInv, [Next]_vars PROVE ExecInv'
  OBVIOUS
<1>1. CASE PassNext
  BY <1>1, PassSteps, NotRunning
<1>2. CASE Start
  BY <1>2, StartRuns
<1>3. CASE ExecuteStore
  BY <1>3, ExecuteStoreRuns
<1>4. CASE ExecuteLoad
  BY <1>4, ExecuteLoadRuns
<1>5. CASE Jump
  BY <1>5, JumpRunsOn
<1>6. CASE UNCHANGED vars
  BY <1>6, StandsStill
<1> QED BY <1>1, <1>2, <1>3, <1>4, <1>5, <1>6 DEF Next

(* The meaning of the pass (LoadsKeepTheirValue): for every function whose *)
(* loads every path stores first, whatever the order in which variables,   *)
(* blocks and children are taken, along every path of the execution and in *)
(* every iteration of its loops, the value that replaced a load is the one *)
(* the load would have read from memory.                                   *)
THEOREM PromotionKeepsMeaning ==
  ASSUME \A f \in Functions : StoredFirst(f)
  PROVE  Spec => []LoadsKeepTheirValue
<1>1. Definite
  BY DEF Definite
<1>2. Spec => []SsaAll
  BY <1>1, SsaInductive
<1>3. Init => ExecInv
  BY DEF Init, ExecInv, NotRun
<1>4. SsaAll /\ ExecInv /\ [Next]_vars => ExecInv'
  BY NextRuns
<1>5. ExecInv => LoadsKeepTheirValue
  BY DEF ExecInv, LoadsKeepTheirValue
<1> QED BY <1>2, <1>3, <1>4, <1>5, PTL DEF Spec
=============================================================================
