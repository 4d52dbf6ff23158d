-------------------------------- MODULE Flow --------------------------------
(***************************************************************************)
(* Reachability and dominance in a flow graph, by definition (Lab4.md,     *)
(* "Dominance").  A graph is a record with the list `blocks`, the entry    *)
(* first, and the lists `pre` and `succ` of every block, as in CFG.        *)
(***************************************************************************)
EXTENDS Lists

Entry(f) == f.blocks[1]

(* The blocks a path from the entry reaches when it may not enter `cut`.   *)
ReachAvoiding(f, cut) ==
    LET ends[n \in 0..Len(f.blocks)] ==     \* of the paths of n edges
            IF n = 0 THEN {Entry(f)} \ cut
            ELSE (UNION {Members(f.succ[b]) : b \in ends[n - 1]}) \ cut
    IN  UNION {ends[n] : n \in 0..Len(f.blocks)}

Reachable(f) == ReachAvoiding(f, {})

(* The pairs <<x, y>> of reachable blocks in which x dominates y.          *)
Dominance(f) ==
    LET R == Reachable(f) IN
    {<<x, x>> : x \in R} \cup
    UNION {{<<x, y>> : y \in R \ ReachAvoiding(f, {x})} : x \in R}

Strict(D) == {d \in D : d[1] # d[2]}

(* The strict dominator of y that every other strict dominator dominates.  *)
IsIdom(D, x, y) ==
    /\ <<x, y>> \in Strict(D)
    /\ \A d \in Strict(D) : d[2] = y => <<d[1], x>> \in D

(* x dominates a predecessor of y, and does not strictly dominate y.       *)
FrontierOf(f, D, x) ==
    {y \in Reachable(f) :
        /\ \E pred \in Members(f.pre[y]) : <<x, pred>> \in D
        /\ <<x, y>> \notin Strict(D)}

(* No block that control can reach has a predecessor it cannot reach.      *)
LivePredecessors(f) ==
    LET R == Reachable(f) IN \A b \in R : Members(f.pre[b]) \subseteq R
=============================================================================
