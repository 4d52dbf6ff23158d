----------------------------- MODULE Dominators -----------------------------
(***************************************************************************)
(* The dominance analysis of one function (passes/Dominators.cpp): number  *)
(* the blocks in postorder by a depth-first search, iterate to the         *)
(* immediate dominators with the two-finger intersection of Cooper, Harvey *)
(* and Kennedy, and derive the dominance frontiers and the dominator tree. *)
(*                                                                         *)
(* Numbers are those of the code: postorder numbers start at 0 and -1 is   *)
(* "undefined".  A read of doms outside its bounds is undefined behaviour: *)
(* it returns any number of the range and is recorded in `outside`.        *)
(***************************************************************************)
EXTENDS CFG

CONSTANT NULL               \* nullptr, which is no block

VARIABLES
    fn,                     \* the function, as in CFG; no step changes it
    pc,                     \* the phase of run, see below
    stack,                  \* the frames of dfs: a block and its next successor
    visited, dfn,           \* the visited blocks and the postorder
    postorder,              \* the number of each block, 0 where there is none
    doms, changed,          \* create_idom: the idom of each number, the flag
    i, p, new_idom,         \* ... the number in hand, its next predecessor
    b1, b2,                 \* the fingers of intersect
    outside,                \* doms was read outside its bounds
    idom, dom_frontier, dom_tree_succ,   \* the results
    bi, q, runner           \* create_dominance_frontier: positions, runner

dvars == <<pc, stack, visited, dfn, postorder, doms, changed, i, p, new_idom,
           b1, b2, outside, idom, dom_frontier, dom_tree_succ, bi, q, runner>>

search == <<stack, visited, dfn, postorder>>
fixpoint == <<doms, changed, i, p, new_idom, b1, b2, outside>>
result == <<idom, dom_frontier, dom_tree_succ>>
walk == <<bi, q, runner>>

BlockOrNull == Block \cup {NULL}

(* The maps of the pass when run reaches the function.                     *)
DInit ==
    /\ pc = "start"
    /\ stack = << >> /\ visited = {} /\ dfn = << >>
    /\ postorder = [b \in Block |-> 0]
    /\ doms = << >> /\ changed = FALSE
    /\ i = 0 /\ p = 1 /\ new_idom = -1 /\ b1 = 0 /\ b2 = 0 /\ outside = FALSE
    /\ idom = [b \in BlockOrNull |-> NULL]
    /\ dom_frontier = [b \in BlockOrNull |-> {}]
    /\ dom_tree_succ = [b \in BlockOrNull |-> {}]
    /\ bi = 1 /\ q = 0 /\ runner = NULL

-----------------------------------------------------------------------------
(* dfs: a frame is a call, `next` the iterator of its loop.                *)
Frame(b) == [bb |-> b, next |-> 1]

BeginSearch ==
    /\ pc = "start"
    /\ pc' = "dfs"
    /\ stack' = <<Frame(Entry(fn))>> /\ visited' = {Entry(fn)}
    /\ UNCHANGED <<fn, dfn, postorder, fixpoint, result, walk>>

Top == stack[Len(stack)]
Pop == SubSeq(stack, 1, Len(stack) - 1)

VisitSuccessor ==
    /\ pc = "dfs" /\ stack # << >> /\ Top.next <= Len(fn.succ[Top.bb])
    /\ LET s == fn.succ[Top.bb][Top.next]
           advanced == [stack EXCEPT ![Len(stack)].next = @ + 1]
       IN  IF s \in visited
           THEN stack' = advanced /\ UNCHANGED visited
           ELSE stack' = Append(advanced, Frame(s)) /\ visited' = visited \cup {s}
    /\ UNCHANGED <<fn, pc, dfn, postorder, fixpoint, result, walk>>

Finish(order) ==
    /\ pc = "dfs" /\ stack # << >> /\ Top.next > Len(fn.succ[Top.bb])
    /\ dfn' = order
    /\ stack' = Pop
    /\ UNCHANGED <<fn, pc, visited, postorder, fixpoint, result, walk>>

FinishBlockReversed == Finish(<<Top.bb>> \o dfn)       \* a mutant: the order is reversed

FinishBlock == Finish(Append(dfn, Top.bb))

-----------------------------------------------------------------------------
(* create_idom.                                                            *)
BbNum == Len(dfn)
Numbers == 0..(BbNum - 1)
Numbered(n) == dfn[n + 1]

NumberBlocks ==
    /\ pc = "dfs" /\ stack = << >>
    /\ postorder' = [b \in Block |->
          IF b \in Members(dfn) THEN CHOOSE n \in Numbers : Numbered(n) = b ELSE 0]
    /\ doms' = [n \in Numbers |-> IF n = BbNum - 1 THEN n ELSE -1]
    /\ pc' = "round"
    /\ UNCHANGED <<fn, stack, visited, dfn, changed, i, p, new_idom, b1, b2,
                   outside, result, walk>>

(* The head of the do-while loop, and of its for loop.                     *)
BeginBlock(n) == i' = n /\ p' = 1 /\ new_idom' = -1

BeginRound ==
    /\ pc = "round"
    /\ changed' = FALSE
    /\ BeginBlock(BbNum - 2)
    /\ pc' = "preds"
    /\ UNCHANGED <<fn, search, doms, b1, b2, outside, result, walk>>

Preds == fn.pre[Numbered(i)]
PredNum == postorder[Preds[p]]

(* One predecessor that needs no intersection: the first, or one whose     *)
(* dominator is undefined.                                                 *)
TakePredecessor ==
    /\ pc = "preds" /\ i >= 0 /\ p <= Len(Preds)
    /\ \/ new_idom = -1 /\ new_idom' = PredNum
       \/ new_idom # -1 /\ doms[PredNum] = -1 /\ UNCHANGED new_idom
    /\ p' = p + 1
    /\ UNCHANGED <<fn, pc, search, doms, changed, i, b1, b2, outside, result, walk>>

(* Any other predecessor.                                                  *)
Intersect(defined) ==
    /\ pc = "preds" /\ i >= 0 /\ p <= Len(Preds) /\ new_idom # -1 /\ defined
    /\ b1' = PredNum /\ b2' = new_idom
    /\ pc' = "intersect"
    /\ UNCHANGED <<fn, search, doms, changed, i, p, new_idom, outside, result, walk>>

BeginIntersectUnchecked == Intersect(TRUE)     \* a mutant: an undefined dominator is not skipped

BeginIntersect == Intersect(doms[PredNum] # -1)

(* What doms[n] may read.                                                  *)
Reads(n) == IF n \in Numbers THEN {doms[n]} ELSE -1..(BbNum - 1)

MoveFinger ==
    /\ pc = "intersect" /\ b1 # b2
    /\ \/ b1 < b2 /\ b1' \in Reads(b1) /\ b2' = b2 /\ outside' = (outside \/ b1 \notin Numbers)
       \/ b2 < b1 /\ b2' \in Reads(b2) /\ b1' = b1 /\ outside' = (outside \/ b2 \notin Numbers)
    /\ UNCHANGED <<fn, pc, search, doms, changed, i, p, new_idom, result, walk>>

Meet(n) ==
    /\ pc = "intersect" /\ b1 = b2
    /\ new_idom' = n /\ p' = p + 1
    /\ pc' = "preds"
    /\ UNCHANGED <<fn, search, doms, changed, i, b1, b2, outside, result, walk>>

FingersOvershoot == Meet(doms[b1])        \* a mutant: the dominator of the meeting point
LastPredecessorWins == Meet(PredNum)      \* a mutant: the fingers are ignored

FingersMeet == Meet(b1)

SetDoms ==
    /\ pc = "preds" /\ i >= 0 /\ p > Len(Preds)
    /\ doms' = [doms EXCEPT ![i] = new_idom]
    /\ changed' = (changed \/ doms[i] # new_idom)
    /\ BeginBlock(i - 1)
    /\ UNCHANGED <<fn, pc, search, b1, b2, outside, result, walk>>

AnotherRound ==
    /\ pc = "preds" /\ i < 0 /\ changed
    /\ pc' = "round"
    /\ UNCHANGED <<fn, search, fixpoint, result, walk>>

(* The last loop: idom_[dfn[i]] = dfn[doms[i]].                            *)
StoreIdom ==
    /\ pc = "preds" /\ i < 0 /\ ~changed
    /\ \E wild \in IF \A n \in Numbers : doms[n] # -1 THEN {NULL} ELSE BlockOrNull :
         idom' = [b \in BlockOrNull |->
            IF b \notin Members(dfn) THEN idom[b]
            ELSE LET d == doms[postorder[b]] IN IF d = -1 THEN wild ELSE Numbered(d)]
    /\ outside' = (outside \/ \E n \in Numbers : doms[n] = -1)
    /\ pc' = "frontier"
    /\ UNCHANGED <<fn, search, doms, changed, i, p, new_idom, b1, b2,
                   dom_frontier, dom_tree_succ, walk>>

-----------------------------------------------------------------------------
(* create_dominance_frontier: bi is the position of the block in the list  *)
(* of the function, q that of the predecessor its runner started from.     *)
FrontierBlock == fn.blocks[bi]
IsWideJoin == Len(fn.pre[FrontierBlock]) > 2    \* a mutant: off by one

IsJoin == Len(fn.pre[FrontierBlock]) >= 2

NextBlock ==
    /\ pc = "frontier" /\ bi <= Len(fn.blocks)
    /\ IsJoin => q = Len(fn.pre[FrontierBlock])
    /\ bi' = bi + 1 /\ q' = 0
    /\ UNCHANGED <<fn, pc, search, fixpoint, result, runner>>

StartRunner ==
    /\ pc = "frontier" /\ bi <= Len(fn.blocks)
    /\ IsJoin /\ q < Len(fn.pre[FrontierBlock])
    /\ q' = q + 1 /\ runner' = fn.pre[FrontierBlock][q + 1]
    /\ pc' = "runner"
    /\ UNCHANGED <<fn, search, fixpoint, result, bi>>

(* idom_ is a map: idom_[nullptr] reads, and keeps, a null pointer.        *)
Climb(next) ==
    /\ pc = "runner" /\ runner # idom[FrontierBlock]
    /\ dom_frontier' = [dom_frontier EXCEPT ![runner] = @ \cup {FrontierBlock}]
    /\ runner' = next
    /\ UNCHANGED <<fn, pc, search, fixpoint, idom, dom_tree_succ, bi, q>>

RunnerStays == Climb(runner)              \* a mutant: the runner stays where it is

ClimbRunner == Climb(idom[runner])

RunnerMeets ==
    /\ pc = "runner" /\ runner = idom[FrontierBlock]
    /\ pc' = "frontier"
    /\ UNCHANGED <<fn, search, fixpoint, result, walk>>

(* create_dom_tree_succ.                                                   *)
Tree(members) ==
    /\ pc = "frontier" /\ bi > Len(fn.blocks)
    /\ dom_tree_succ' = [d \in BlockOrNull |-> {b \in members : idom[b] # NULL /\ idom[b] = d}]
    /\ pc' = "done"
    /\ UNCHANGED <<fn, search, fixpoint, idom, dom_frontier, walk>>

BuildTreeWithLoop == Tree(Members(fn.blocks))     \* a mutant: the entry is not left out

BuildTree == Tree(Members(fn.blocks) \ {Entry(fn)})

DNext ==
    \/ BeginSearch \/ VisitSuccessor \/ FinishBlock
    \/ NumberBlocks \/ BeginRound \/ TakePredecessor \/ BeginIntersect
    \/ MoveFinger \/ FingersMeet \/ SetDoms \/ AnotherRound \/ StoreIdom
    \/ NextBlock \/ StartRunner \/ ClimbRunner \/ RunnerMeets \/ BuildTree

-----------------------------------------------------------------------------
(* The type invariant of the analysis.                                     *)
DTypeOK ==
    /\ pc \in {"start", "dfs", "round", "preds", "intersect", "frontier",
               "runner", "done"}
    /\ \A j \in 1..Len(stack) : stack[j].bb \in Block /\ stack[j].next \in Nat
    /\ visited \subseteq Block /\ Members(dfn) \subseteq Block
    /\ postorder \in [Block -> Nat]
    /\ \A n \in DOMAIN doms : doms[n] \in -1..(BbNum - 1)
    /\ {i, new_idom, b1, b2} \subseteq -1..MaxBlocks
    /\ idom \in [BlockOrNull -> BlockOrNull]
    /\ dom_frontier \in [BlockOrNull -> SUBSET Block]
    /\ dom_tree_succ \in [BlockOrNull -> SUBSET Block]
    /\ runner \in BlockOrNull

(* The search numbers exactly the reachable blocks, once each, and every   *)
(* block before the blocks that dominate it.                               *)
PostorderSound ==
    pc = "round" =>
      /\ Members(dfn) = Reachable(fn)
      /\ Len(dfn) = Cardinality(Reachable(fn))
      /\ \A d \in Strict(Dominance(fn)) : postorder[d[2]] < postorder[d[1]]

(* The iteration never reads an undefined dominator: the comment of        *)
(* create_idom, "if doms[pred_num] is not undefined", holds of every       *)
(* number that intersect follows.                                          *)
NoUndefinedRead == ~outside

(* While the rounds go on, a dominator that is defined is a larger number, *)
(* and no finger has climbed past a common dominator: what is stored is at *)
(* or below every block that really dominates.                             *)
NeverAboveTheIdom ==
    pc = "preds" /\ p = 1 =>
      /\ \A n \in Numbers : n < BbNum - 1 /\ doms[n] # -1 => doms[n] > n
      /\ \A d \in Strict(Dominance(fn)) : doms[postorder[d[2]]] <= postorder[d[1]]

(* A dominator once found only moves up the tree, which is why the loop    *)
(* ends.                                                                   *)
DomsOnlyRise ==
    [][pc = "preds" => \A n \in Numbers : doms'[n] >= doms[n]]_<<pc, doms>>

(* create_idom computes the immediate dominators of Lab4.md, and leaves    *)
(* the blocks that the entry does not reach without one.                   *)
IdomCorrect ==
    pc = "done" =>
      LET D == Dominance(fn) IN
      \A b \in Members(fn.blocks) \ {Entry(fn)} :
        IF b \in Reachable(fn) THEN IsIdom(D, idom[b], b) ELSE idom[b] = NULL

(* create_dominance_frontier computes the frontiers of Lab4.md for the     *)
(* blocks that the entry reaches.                                          *)
FrontierCorrect ==
    pc = "done" =>
      LET D == Dominance(fn) IN
      \A x \in Reachable(fn) : dom_frontier[x] = FrontierOf(fn, D, x)

(* The tree that Mem2Reg::rename recurses on: from the entry it reaches    *)
(* every reachable block, each along one path, and nothing else.           *)
TreeSpansReachable ==
    pc = "done" =>
      LET R == Reachable(fn)
          below[n \in 0..Cardinality(R)] ==
            IF n = 0 THEN {Entry(fn)} ELSE UNION {dom_tree_succ[b] : b \in below[n - 1]}
      IN  /\ UNION {below[n] : n \in DOMAIN below} = R
          /\ \A b \in R : Cardinality({d \in R : b \in dom_tree_succ[d]}) =
                            IF b = Entry(fn) THEN 0 ELSE 1
=============================================================================
