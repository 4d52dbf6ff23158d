----------------------------- MODULE CfgBuilder -----------------------------
(***************************************************************************)
(* How CminusfBuilder lays out the blocks of one function                  *)
(* (cminusfc/cminusf_builder.cpp): the visitors of the declaration of the  *)
(* function, of the statements, and of an array access, which splits the   *)
(* block it is compiled in.                                                *)
(*                                                                         *)
(* The visitors are recursive; `todo` is their continuation: what is still *)
(* to do, innermost first.  The program is revealed as it is visited: each *)
(* visit chooses what it finds, within the bounds MaxControl and MaxIndex. *)
(* Values are left out: an instruction is the kind of CFG.                 *)
(***************************************************************************)
EXTENDS CFG

CONSTANTS
    MaxControl,   \* bound: if, while and further statements of a list
    MaxIndex      \* bound: array accesses

ASSUME BoundAssumption ==
    /\ MaxControl \in Nat /\ MaxIndex \in Nat /\ MaxBlocks \in Nat
    /\ MaxBlocks >= 1 + 3 * MaxControl + 2 * MaxIndex

VARIABLES
    fn,           \* the function being built, as in CFG
    todo,         \* the continuation of the visitors
    control, index,   \* what is left of the two bounds
    depth         \* the scopes entered and not left, the global one included

bvars == <<fn, todo, control, index, depth>>

(* The items of a continuation.  "stmt": visit a statement.  "list": take  *)
(* the next statement of a compound, "check": the test after one.  "expr": *)
(* visit an expression with n array accesses.  "ret": the rest of a return *)
(* after its expression.  "branch", "then" and "else" are the rest of an   *)
(* if after its condition, its first and its second statement; "loop" and  *)
(* "body" the rest of a while after its condition and its statement; "end" *)
(* the rest of the function after its body.                                *)
Do(what) == <<[do |-> what]>>
Expr(n) == <<[do |-> "expr", n |-> n]>>

Doing(what) == todo # << >> /\ Head(todo).do = what

Continue(items) == todo' = items \o Tail(todo)

Spend(c, n) == control >= c /\ control' = control - c /\ index >= n /\ index' = index - n

BInit ==
    /\ fn = EmptyFunction /\ todo = Do("function")
    /\ control = MaxControl /\ index = MaxIndex
    /\ depth = 1

-----------------------------------------------------------------------------
(* visit(ASTFunDeclaration): the entry block, and the parameters' allocas. *)
VisitFunDeclaration ==
    /\ Doing("function")
    /\ fn' = add_instruction(
                 set_insert_point(CreateBlocks(fn, 1), NewBlock(fn, 1)), "op")
    /\ depth' = depth + 1
    /\ Continue(Do("compound") \o Do("end"))
    /\ UNCHANGED <<control, index>>

(* ... and, after the body, the return that may be missing.                *)
CloseFunction(f) ==
    /\ Doing("end")
    /\ fn' = f
    /\ depth' = depth - 1
    /\ Continue(<< >>)
    /\ control' = 0 /\ index' = 0

FinishFunctionOpen == CloseFunction(fn)           \* a mutant: no return is added

FinishFunction == CloseFunction(IF InsertTerminated(fn) THEN fn ELSE create_ret(fn))

(* visit(ASTCompoundStmt): a scope, the declarations, the statements.      *)
VisitCompoundStmt ==
    /\ Doing("compound")
    /\ fn' = add_instruction(fn, "op")
    /\ depth' = depth + 1
    /\ Continue(Do("list"))
    /\ UNCHANGED <<control, index>>

NextStatement ==
    /\ Doing("list")
    /\ Spend(1, 0)
    /\ Continue(Do("stmt") \o Do("check"))
    /\ UNCHANGED <<fn, depth>>

(* The statements end, or the last one left the insert block terminated.   *)
EndOfStatements == Doing("list") \/ (Doing("check") /\ InsertTerminated(fn))

LeaveScope(outer) ==
    /\ EndOfStatements
    /\ depth' = outer
    /\ Continue(<< >>)
    /\ UNCHANGED <<fn, control, index>>

(* A mutant: the early exit skips scope.exit.                              *)
LeaveWithoutExit == LeaveScope(IF Doing("list") THEN depth - 1 ELSE depth)

LeaveCompoundStmt == LeaveScope(depth - 1)

StatementsGoOn ==
    /\ Doing("check") /\ ~InsertTerminated(fn)
    /\ Continue(Do("list"))
    /\ UNCHANGED <<fn, control, index, depth>>

(* The statement to visit is a compound.                                   *)
StatementIsCompound ==
    /\ Doing("stmt") /\ Spend(1, 0)
    /\ Continue(Do("compound"))
    /\ UNCHANGED <<fn, depth>>

(* visit(ASTExpressionStmt), with or without an expression.                *)
VisitExpressionStmt ==
    /\ Doing("stmt")
    /\ \/ Continue(<< >>) /\ UNCHANGED <<control, index>>
       \/ \E n \in 0..MaxIndex : Spend(0, n) /\ Continue(Expr(n))
    /\ UNCHANGED <<fn, depth>>

(* visit(ASTReturnStmt).                                                   *)
VisitReturnVoid ==
    /\ Doing("stmt")
    /\ fn' = create_ret(fn)
    /\ Continue(<< >>)
    /\ UNCHANGED <<control, index, depth>>

VisitReturnValue ==
    /\ Doing("stmt")
    /\ \E n \in 0..MaxIndex : Spend(0, n) /\ Continue(Expr(n) \o Do("ret"))
    /\ UNCHANGED <<fn, depth>>

FinishReturn ==
    /\ Doing("ret")
    /\ fn' = create_ret(fn)
    /\ Continue(<< >>)
    /\ UNCHANGED <<control, index, depth>>

(* visit(ASTVar) with a subscript: the check for a negative subscript ends *)
(* the insert block; the access goes on in the first of the two new blocks,*)
(* the second calls neg_idx_except and returns.                            *)
SplitForIndex(f) ==
    LET condBB == NewBlock(f, 1)
        exceptBB == NewBlock(f, 2)
        g == create_cond_br(add_instruction(CreateBlocks(f, 2), "op"), exceptBB, condBB)
        h == create_ret(add_instruction(set_insert_point(g, exceptBB), "op"))
    IN  add_instruction(set_insert_point(h, condBB), "op")

VisitIndexedVar ==
    /\ Doing("expr") /\ Head(todo).n > 0
    /\ fn' = SplitForIndex(fn)
    /\ Continue(Expr(Head(todo).n - 1))
    /\ UNCHANGED <<control, index, depth>>

(* The rest of an expression: more instructions.                           *)
FinishExpression ==
    /\ Doing("expr") /\ Head(todo).n = 0
    /\ fn' = add_instruction(fn, "op")
    /\ Continue(<< >>)
    /\ UNCHANGED <<control, index, depth>>

(* visit(ASTSelectionStmt).                                                *)
VisitSelectionStmt ==
    /\ Doing("stmt")
    /\ \E else \in BOOLEAN, n \in 0..MaxIndex :
         /\ Spend(1, n)
         /\ Continue(Expr(n) \o <<[do |-> "branch", else |-> else]>>)
    /\ UNCHANGED <<fn, depth>>

BranchIf ==
    /\ Doing("branch")
    /\ LET trueBB == NewBlock(fn, 1)
           falseBB == NewBlock(fn, 2)
           endBB == NewBlock(fn, 3)
           else == Head(todo).else
           f == add_instruction(CreateBlocks(fn, 3), "op")
       IN  /\ fn' = set_insert_point(
                       create_cond_br(f, trueBB, IF else THEN falseBB ELSE endBB), trueBB)
           /\ Continue(Do("stmt") \o <<[do |-> "then", else |-> else,
                                         falseBB |-> falseBB, endBB |-> endBB]>>)
    /\ UNCHANGED <<control, index, depth>>

(* A mutant: the jump to the end block is always emitted.                  *)
JumpAlways(f, target) == create_br(f, target)

JumpUnlessTerminated(f, target) == IF InsertTerminated(f) THEN f ELSE create_br(f, target)

FinishThen ==
    /\ Doing("then")
    /\ LET item == Head(todo)
           f == JumpUnlessTerminated(fn, item.endBB)
       IN  IF item.else
           THEN /\ fn' = set_insert_point(f, item.falseBB)
                /\ Continue(Do("stmt") \o <<[do |-> "else", endBB |-> item.endBB]>>)
           ELSE /\ fn' = set_insert_point(remove(f, item.falseBB), item.endBB)
                /\ Continue(<< >>)
    /\ UNCHANGED <<control, index, depth>>

FinishElse ==
    /\ Doing("else")
    /\ LET endBB == Head(todo).endBB IN
         fn' = set_insert_point(JumpUnlessTerminated(fn, endBB), endBB)
    /\ Continue(<< >>)
    /\ UNCHANGED <<control, index, depth>>

(* visit(ASTIterationStmt).                                                *)
VisitIterationStmt ==
    /\ Doing("stmt")
    /\ LET judgeBB == NewBlock(fn, 1)
           stmtBB == NewBlock(fn, 2)
           endBB == NewBlock(fn, 3)
           f == JumpUnlessTerminated(CreateBlocks(fn, 3), judgeBB)
       IN  /\ fn' = set_insert_point(f, judgeBB)
           /\ \E n \in 0..MaxIndex :
                /\ Spend(1, n)
                /\ Continue(Expr(n) \o <<[do |-> "loop", judgeBB |-> judgeBB,
                                           stmtBB |-> stmtBB, endBB |-> endBB]>>)
    /\ UNCHANGED depth

BranchLoop ==
    /\ Doing("loop")
    /\ LET item == Head(todo)
           f == create_cond_br(add_instruction(fn, "op"), item.stmtBB, item.endBB)
       IN  /\ fn' = set_insert_point(f, item.stmtBB)
           /\ Continue(Do("stmt") \o <<[item EXCEPT !.do = "body"]>>)
    /\ UNCHANGED <<control, index, depth>>

FinishBody ==
    /\ Doing("body")
    /\ LET item == Head(todo) IN
         fn' = set_insert_point(JumpUnlessTerminated(fn, item.judgeBB), item.endBB)
    /\ Continue(<< >>)
    /\ UNCHANGED <<control, index, depth>>

BNext ==
    \/ VisitFunDeclaration \/ FinishFunction
    \/ VisitCompoundStmt \/ NextStatement \/ LeaveCompoundStmt \/ StatementsGoOn
    \/ StatementIsCompound \/ VisitExpressionStmt
    \/ VisitReturnVoid \/ VisitReturnValue \/ FinishReturn
    \/ VisitIndexedVar \/ FinishExpression
    \/ VisitSelectionStmt \/ BranchIf \/ FinishThen \/ FinishElse
    \/ VisitIterationStmt \/ BranchLoop \/ FinishBody

BSpec == BInit /\ [][BNext]_bvars

Built == todo = << >>

-----------------------------------------------------------------------------
(* The type invariant of the function under construction.                  *)
BTypeOK ==
    /\ fn.next \in 1..(MaxBlocks + 1)
    /\ Members(fn.blocks) \subseteq 1..(fn.next - 1)
    /\ fn.insert \in 0..(fn.next - 1)
    /\ \A b \in Block : /\ Members(fn.pre[b]) \subseteq Block
                        /\ Members(fn.succ[b]) \subseteq Block
                        /\ Members(fn.code[b]) \subseteq {"op", "br", "ret"}
    /\ control \in 0..MaxControl /\ index \in 0..MaxIndex
    /\ depth \in Nat

(* The two edge lists tell the same story as the branches: a jumps to b as *)
(* often as b lists a, only a block that ends in a branch has successors,  *)
(* and blocks that were removed are in nobody's list.                      *)
EdgesMirrored ==
    \A a \in Block :
        /\ \A b \in Members(fn.succ[a]) :
             /\ Occurrences(fn.succ[a], b) = Occurrences(fn.pre[b], a)
             /\ fn.code[a][Len(fn.code[a])] = "br"
             /\ {a, b} \subseteq Members(fn.blocks)
        /\ \A c \in Members(fn.pre[a]) : a \in Members(fn.succ[c])

(* BasicBlock::add_instruction's assertion, "Inserting instruction to      *)
(* terminated bb", never fails: nothing follows the first branch or return *)
(* of a block.                                                             *)
NothingAfterTerminator ==
    \A b \in Block : \A i \in 1..Len(fn.code[b]) :
        fn.code[b][i] \in {"br", "ret"} => i = Len(fn.code[b])

(* The finished function is one LLVM and CodeGen accept: every block is    *)
(* terminated, whatever returns sit in the branches, and nothing jumps to  *)
(* the entry.                                                              *)
WellFormedWhenBuilt ==
    Built => /\ \A b \in Members(fn.blocks) : is_terminated(fn, b)
             /\ fn.pre[Entry(fn)] = << >>

(* Every scope that was entered was left, on the early exit from a list    *)
(* too, and the scope of the function is never left before its end.        *)
ScopesBalanced == IF Built \/ Doing("function") THEN depth = 1 ELSE depth > 1
=============================================================================
