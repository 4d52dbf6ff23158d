----------------------------- MODULE MCMem2Reg -----------------------------
(***************************************************************************)
(* Small functions for Mem2Reg: the graphs the builder makes of an if with *)
(* two branches, of a loop, and of a loop around an if, each with every    *)
(* combination of a few stores, loads and copies of two variables.         *)
(***************************************************************************)
EXTENDS Mem2Reg

CONSTANT Assigned     \* TRUE: only functions that store before they load

(* A graph from its branches, in the order the builder creates them.       *)
FromBranches(blocks, branches) ==
    LET preds(b) == SelectSeq([n \in 1..Len(branches) |->
                        IF b \in Members(branches[n][2]) THEN branches[n][1] ELSE 0],
                        LAMBDA x : x # 0)
        succs(b) == LET N == {n \in 1..Len(branches) : branches[n][1] = b} IN
                    IF N = {} THEN << >> ELSE branches[CHOOSE n \in N : TRUE][2]
    IN  [EmptyFunction EXCEPT !.blocks = blocks,
            !.pre = [b \in Block |-> preds(b)], !.succ = [b \in Block |-> succs(b)]]

IfElse == FromBranches(<<1, 2, 3, 4>>, << <<1, <<2, 3>>>>, <<2, <<4>>>>, <<3, <<4>>>> >>)

Loop == FromBranches(<<1, 2, 3, 4>>, << <<1, <<2>>>>, <<2, <<3, 4>>>>, <<3, <<2>>>> >>)

LoopIf == FromBranches(<<1, 2, 3, 4, 5, 6>>,
                       << <<1, <<2>>>>, <<2, <<3, 4>>>>, <<3, <<5, 6>>>>, <<5, <<6>>>>,
                          <<6, <<2>>>> >>)

Store(v, b, k) == [op |-> "store", var |-> v, val |-> <<"new", b, k>>]
Read(v) == [op |-> "load", var |-> v]
Copy(w, v, b) == <<Read(w), [op |-> "store", var |-> v, val |-> Load(b, 1)]>>

Code(kind, b) ==
    CASE kind = "none"  -> << >>
      [] kind = "x="    -> <<Store("x", b, 1)>>
      [] kind = "x=y="  -> <<Store("x", b, 1), Store("y", b, 2)>>
      [] kind = "=x"    -> <<Read("x")>>
      [] kind = "x=x"   -> <<Read("x"), Store("x", b, 2)>>
      [] kind = "y=x"   -> Copy("x", "y", b)
      [] kind = "x=y"   -> Copy("y", "x", b)
      [] kind = "swap"  -> <<Read("x"), Read("y"),
                             [op |-> "store", var |-> "x", val |-> Load(b, 2)],
                             [op |-> "store", var |-> "y", val |-> Load(b, 1)]>>

(* What each block may hold: the entry stores or not; the branches, the    *)
(* body of the loop and the blocks after them do all the rest.             *)
None == {"none"}
First == {"none", "x=", "x=y="}
Some == {"none", "x=", "=x", "x=x", "y=x", "swap"}

Kinds(cfg) ==
    IF cfg = LoopIf THEN First \X None \X {"none", "y=x"} \X {"=x"} \X Some \X Some
                    ELSE First \X Some \X Some \X Some

Bodies(cfg) ==
    {[b \in Block |-> IF b \in DOMAIN kinds THEN Code(kinds[b], b) ELSE << >>] :
        kinds \in Kinds(cfg)}

MCFunctions ==
    {f \in UNION {{[cfg |-> cfg, body |-> code] : code \in Bodies(cfg)} :
                   cfg \in {IfElse, Loop, LoopIf}} :
        Assigned => StoredFirst(f)}
=============================================================================
