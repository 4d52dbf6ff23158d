------------------------------ MODULE Analysis ------------------------------
(***************************************************************************)
(* CminusfBuilder and Dominators together: a function is built, then       *)
(* Mem2Reg has it analysed (cminusfc/cminusfc.cpp, passes/Mem2Reg.cpp).    *)
(* What the analysis sees is therefore exactly what the builder can emit.  *)
(*                                                                         *)
(* The builder also emits functions in which an unreachable block jumps to *)
(* a reachable one, as after an if whose two branches return, at the end   *)
(* of a loop body.  DeadJumps lets these through or keeps them out.        *)
(***************************************************************************)
EXTENDS CfgBuilder

CONSTANTS NULL, DeadJumps

ASSUME NullAssumption == NULL \notin Block
ASSUME DeadJumpsAssumption == DeadJumps \in BOOLEAN

VARIABLES pc, stack, visited, dfn, postorder, doms, changed, i, p, new_idom,
          b1, b2, outside, idom, dom_frontier, dom_tree_succ, bi, q, runner

dvars == <<pc, stack, visited, dfn, postorder, doms, changed, i, p, new_idom,
           b1, b2, outside, idom, dom_frontier, dom_tree_succ, bi, q, runner>>

Dom == INSTANCE Dominators

Init == BInit /\ Dom!DInit

Build == BNext /\ UNCHANGED dvars

Analysed == DeadJumps \/ LivePredecessors(fn)

Analyse ==
    /\ Built /\ (pc = "start" => Analysed)
    /\ Dom!DNext
    /\ UNCHANGED <<todo, control, index, depth>>

Next == Build \/ Analyse

vars == <<bvars, dvars>>

Spec == Init /\ [][Next]_vars

(* The compiler is sequential and keeps going while it has work.           *)
FairSpec == Spec /\ WF_vars(Next)

-----------------------------------------------------------------------------
TypeOK == BTypeOK /\ Dom!DTypeOK
PostorderSound == Dom!PostorderSound
NoUndefinedRead == Dom!NoUndefinedRead
NeverAboveTheIdom == Dom!NeverAboveTheIdom
DomsOnlyRise == Dom!DomsOnlyRise
IdomCorrect == Dom!IdomCorrect
FrontierCorrect == Dom!FrontierCorrect
TreeSpansReachable == Dom!TreeSpansReachable

(* Lab4.md says that blocks the entry does not reach are simply ignored,   *)
(* so the analysis of every function ends.                                 *)
Terminates == <>(Built /\ (pc = "done" \/ (pc = "start" /\ ~Analysed)))
=============================================================================
