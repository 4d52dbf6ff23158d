------------------------------ MODULE Visitors ------------------------------
(***************************************************************************)
(* CminusfBuilder (cminusfc/cminusf_builder.cpp): the visitors of the      *)
(* abstract syntax, each an action, with the values and types that         *)
(* CfgBuilder leaves out.                                                  *)
(*                                                                         *)
(* The visitors are recursive; `todo` is their continuation, innermost     *)
(* first, and an item of it holds the locals its visitor still needs.      *)
(* What one visitor leaves in the context, val and is_lval, is what the    *)
(* next one finds there, whoever that is.                                  *)
(***************************************************************************)
EXTENDS Syntax, IR

VARIABLES
    todo,      \* the continuation
    m,         \* the module and the insert point, as in IR
    inner,     \* Scope::inner: a stack of maps from names to values
    ctx        \* context: val, is_lval and func

vvars == <<todo, m, inner, ctx>>

-----------------------------------------------------------------------------
(* Scope.                                                                  *)
enter == Append(inner, << >>)
exit == Front(inner)
in_global == Len(inner) = 1

(* insert() leaves a name alone that is there.                             *)
push(scopes, name, val) ==
    LET top == Last(scopes) IN
    IF name \in DOMAIN top THEN scopes
    ELSE [scopes EXCEPT ![Len(scopes)] =
            [x \in DOMAIN top \cup {name} |-> IF x = name THEN val ELSE top[x]]]

OutermostFirst(S) == CHOOSE n \in S : \A k \in S : n <= k   \* a mutant: find from the global scope

InnermostFirst(S) == CHOOSE n \in S : \A k \in S : k <= n

find(name) == inner[InnermostFirst({n \in 1..Len(inner) : name \in DOMAIN inner[n]})][name]

-----------------------------------------------------------------------------
(* The continuation.                                                       *)
Accept(ast) == <<[do |-> "accept", node |-> ast]>>

Doing(what) == todo # << >> /\ Head(todo).do = what
Visiting(class) == Doing("accept") /\ Head(todo).node.is = class
Node == Head(todo).node
Item == Head(todo)

Then(items) == todo' = items \o Tail(todo)

Yields(val) == ctx' = [ctx EXCEPT !.val = val]

(* The constructor and visit(ASTProgram).                                  *)
VInit(program) ==
    /\ todo = FlattenSeq([n \in 1..Len(program) |-> Accept(program[n])])
    /\ m = EmptyModule
    /\ inner = <<[f \in DOMAIN EmptyModule.funcs |-> Func(f)]>>
    /\ ctx = [val |-> null, is_lval |-> FALSE, func |-> ""]

-----------------------------------------------------------------------------
(* Declarations.                                                           *)
ScalarType(ty) == IF ty = "TYPE_INT" THEN I32 ELSE Float

VisitVarDeclaration ==
    /\ Visiting("ASTVarDeclaration")
    /\ LET ty == IF Node.num = null THEN ScalarType(Node.type) ELSE Array(ScalarType(Node.type))
           n == IF in_global THEN m ELSE create_alloca(m, ty)
       IN  /\ m' = n
           /\ inner' = push(inner, Node.id, IF in_global THEN Global(ty, Node.id) ELSE It(n))
    /\ Then(<< >>)
    /\ UNCHANGED ctx

ParamType(p) == IF p.isarray THEN Pointer(ScalarType(p.type)) ELSE ScalarType(p.type)

(* The alloca and the store of each parameter, and its name.               *)
StoreParam(s, p) ==
    LET ty == ParamType(p)
        a == create_alloca(s.m, ty)
    IN  [m |-> create_store(a, Argument(ty, s.n), It(a)),
         inner |-> push(s.inner, p.id, It(a)), n |-> s.n + 1]

VisitFunDeclaration ==
    /\ Visiting("ASTFunDeclaration")
    /\ LET ret == IF Node.type = "TYPE_VOID" THEN Void ELSE ScalarType(Node.type)
           f == CreateFunction(m, Node.id, ret,
                               [n \in 1..Len(Node.params) |-> ParamType(Node.params[n])])
           s == FoldLeft(StoreParam,
                    [m |-> set_insert_point(CreateBlocks(f, Node.id, 1), NewBlock(m, 1)),
                     inner |-> Append(push(inner, Node.id, Func(Node.id)), << >>), n |-> 1],
                    Node.params)
       IN  m' = s.m /\ inner' = s.inner
    /\ ctx' = [ctx EXCEPT !.func = Node.id]
    /\ Then(Accept(Node.compound_stmt) \o <<[do |-> "close"]>>)

CurRet(n) == n.funcs[ctx.func].ret

(* The return that a function without one, or a failed access, gets.       *)
DefaultRet(n) == IF CurRet(n) = Void THEN create_void_ret(n) ELSE create_ret(n, Zero(CurRet(n)))

FinishFunDeclaration ==
    /\ Doing("close")
    /\ m' = IF is_terminated(m) THEN m ELSE DefaultRet(m)
    /\ inner' = exit
    /\ Then(<< >>)
    /\ UNCHANGED ctx

-----------------------------------------------------------------------------
(* Statements.                                                             *)
VisitCompoundStmt ==
    /\ Visiting("ASTCompoundStmt")
    /\ inner' = enter
    /\ Then(FlattenSeq([n \in 1..Len(Node.local_declarations) |->
                           Accept(Node.local_declarations[n])])
            \o <<[do |-> "statements", first |-> TRUE, list |-> Node.statement_list]>>)
    /\ UNCHANGED <<m, ctx>>

StatementsDone == Item.list = << >> \/ (~Item.first /\ is_terminated(m))

NextStatement ==
    /\ Doing("statements") /\ ~StatementsDone
    /\ Then(Accept(Head(Item.list))
            \o <<[do |-> "statements", first |-> FALSE, list |-> Tail(Item.list)]>>)
    /\ UNCHANGED <<m, inner, ctx>>

LeaveCompoundStmt ==
    /\ Doing("statements") /\ StatementsDone
    /\ inner' = exit
    /\ Then(<< >>)
    /\ UNCHANGED <<m, ctx>>

VisitExpressionStmt ==
    /\ Visiting("ASTExpressionStmt")
    /\ Then(IF Node.expression = null THEN << >> ELSE Accept(Node.expression))
    /\ UNCHANGED <<m, inner, ctx>>

(* The test of a condition, and the branch on it.                          *)
BranchOn(n, val, t, f) ==
    LET c == create_cmp(n, "!=", Ty(val) # Float, val, Zero(IF Ty(val) = Float THEN Float ELSE I32))
    IN  create_cond_br(c, It(c), t, f)

JumpUnlessTerminated(n, b) == IF is_terminated(n) THEN n ELSE create_br(n, b)

VisitSelectionStmt ==
    /\ Visiting("ASTSelectionStmt")
    /\ Then(Accept(Node.expression) \o <<[do |-> "branch", node |-> Node]>>)
    /\ UNCHANGED <<m, inner, ctx>>

BranchIf ==
    /\ Doing("branch")
    /\ LET trueBB == NewBlock(m, 1)
           falseBB == NewBlock(m, 2)
           endBB == NewBlock(m, 3)
           n == BranchOn(CreateBlocks(m, ctx.func, 3), ctx.val, trueBB,
                         IF Node.else_statement # null THEN falseBB ELSE endBB)
       IN  /\ m' = set_insert_point(n, trueBB)
           /\ Then(Accept(Node.if_statement)
                   \o <<[do |-> "then", node |-> Node, falseBB |-> falseBB, endBB |-> endBB]>>)
    /\ UNCHANGED <<inner, ctx>>

FinishThen ==
    /\ Doing("then")
    /\ LET n == JumpUnlessTerminated(m, Item.endBB) IN
         IF Node.else_statement # null
         THEN /\ m' = set_insert_point(n, Item.falseBB)
              /\ Then(Accept(Node.else_statement) \o <<[do |-> "else", endBB |-> Item.endBB]>>)
         ELSE /\ m' = set_insert_point(erase_from_parent(n, Item.falseBB), Item.endBB)
              /\ Then(<< >>)
    /\ UNCHANGED <<inner, ctx>>

FinishElse ==
    /\ Doing("else")
    /\ m' = set_insert_point(JumpUnlessTerminated(m, Item.endBB), Item.endBB)
    /\ Then(<< >>)
    /\ UNCHANGED <<inner, ctx>>

VisitIterationStmt ==
    /\ Visiting("ASTIterationStmt")
    /\ LET judgeBB == NewBlock(m, 1) IN
         /\ m' = set_insert_point(
                     JumpUnlessTerminated(CreateBlocks(m, ctx.func, 3), judgeBB), judgeBB)
         /\ Then(Accept(Node.expression)
                 \o <<[do |-> "loop", node |-> Node, judgeBB |-> judgeBB]>>)
    /\ UNCHANGED <<inner, ctx>>

BranchLoop ==
    /\ Doing("loop")
    /\ LET stmtBB == Item.judgeBB + 1
           endBB == Item.judgeBB + 2
       IN  m' = set_insert_point(BranchOn(m, ctx.val, stmtBB, endBB), stmtBB)
    /\ Then(Accept(Node.statement) \o <<[Item EXCEPT !.do = "body"]>>)
    /\ UNCHANGED <<inner, ctx>>

FinishBody ==
    /\ Doing("body")
    /\ m' = set_insert_point(JumpUnlessTerminated(m, Item.judgeBB), Item.judgeBB + 2)
    /\ Then(<< >>)
    /\ UNCHANGED <<inner, ctx>>

VisitReturnStmt ==
    /\ Visiting("ASTReturnStmt")
    /\ IF Node.expression = null
       THEN m' = create_void_ret(m) /\ Then(<< >>)
       ELSE UNCHANGED m /\ Then(Accept(Node.expression) \o <<[do |-> "return"]>>)
    /\ UNCHANGED <<inner, ctx>>

FinishReturn ==
    /\ Doing("return")
    /\ LET n == IF Ty(ctx.val) = CurRet(m) THEN m
                ELSE IF IsInteger(CurRet(m)) THEN create_fptosi(m, ctx.val)
                ELSE create_sitofp(m, ctx.val)
       IN  m' = create_ret(n, IF n = m THEN ctx.val ELSE It(n))
    /\ Then(<< >>)
    /\ UNCHANGED <<inner, ctx>>

-----------------------------------------------------------------------------
(* Conversions: the module in which a value has been converted to the      *)
(* other of the two types when its own is not the wanted one, and what it  *)
(* is there.                                                               *)
Unconverted(n, val, ty) == n                              \* a mutant: no conversion

Convert(n, val, ty) ==
    IF Ty(val) = ty THEN n ELSE IF Ty(val) = I32 THEN create_sitofp(n, val) ELSE create_fptosi(n, val)

Converted(before, n, val) == IF n = before THEN val ELSE It(n)

-----------------------------------------------------------------------------
(* Expressions.                                                            *)
VisitNum ==
    /\ Visiting("ASTNum")
    /\ Yields(Const(ScalarType(Node.type), Node.val))
    /\ Then(<< >>)
    /\ UNCHANGED <<m, inner>>

FlagConsumed == [ctx EXCEPT !.is_lval = FALSE]

(* visit(ASTVar) without a subscript: the address, or the value, which for *)
(* an array is the address of its first element.                           *)
VisitVar ==
    /\ Visiting("ASTVar") /\ Node.expression = null
    /\ LET var == find(Node.id)
           n == IF ctx.is_lval THEN m
                ELSE IF IsArray(ElementType(Ty(var)))
                     THEN create_gep(m, var, <<Zero(I32), Zero(I32)>>)
                     ELSE create_load(m, var)
       IN  /\ m' = n
           /\ ctx' = [FlagConsumed EXCEPT !.val = IF ctx.is_lval THEN var ELSE It(n)]
    /\ Then(<< >>)
    /\ UNCHANGED inner

VisitIndexedVar ==
    /\ Visiting("ASTVar") /\ Node.expression # null
    /\ ctx' = FlagConsumed
    /\ Then(Accept(Node.expression)
            \o <<[do |-> "index", var |-> find(Node.id), is_lval |-> ctx.is_lval, index |-> null]>>)
    /\ UNCHANGED <<m, inner>>

(* A mutant: the exception block only returns.                             *)
ExceptedSilently(n, condBB) == set_insert_point(DefaultRet(n), condBB)

(* ... the subscript as an integer, and the test whether it is negative,   *)
(* which splits the block: the exception is raised in a block of its own.  *)
Excepted(n, condBB) ==
    set_insert_point(DefaultRet(create_call(n, find("neg_idx_except"), << >>)), condBB)

CheckIndex ==
    /\ Doing("index")
    /\ LET n == IF Ty(ctx.val) = Float THEN create_fptosi(m, ctx.val) ELSE m
           val == Converted(m, n, ctx.val)
           condBB == NewBlock(m, 1)
           exceptBB == NewBlock(m, 2)
           c == create_cmp(CreateBlocks(n, ctx.func, 2), "<", TRUE, val, Zero(I32))
           e == set_insert_point(create_cond_br(c, It(c), exceptBB, condBB), exceptBB)
       IN  /\ m' = Excepted(e, condBB)
           /\ Then(<<[Item EXCEPT !.do = "element", !.index = val]>>)
    /\ UNCHANGED <<inner, ctx>>

(* ... and the access: of the array a pointer points to, of the variable.  *)
Address(var, val) ==
    LET ty == ElementType(Ty(var))
        p == create_load(m, var)
    IN  IF IsPointer(ty) THEN create_gep(p, It(p), <<val>>)
        ELSE create_gep(m, var, IF IsArray(ty) THEN <<Zero(I32), val>> ELSE <<val>>)

FinishIndexedVar ==
    /\ Doing("element")
    /\ LET p == Address(Item.var, Item.index) IN
         /\ m' = IF Item.is_lval THEN p ELSE create_load(p, It(p))
         /\ ctx' = [ctx EXCEPT !.val = It(m'), !.is_lval = IF Item.is_lval THEN FALSE ELSE @]
    /\ Then(<< >>)
    /\ UNCHANGED inner

VisitAssignExpression ==
    /\ Visiting("ASTAssignExpression")
    /\ Then(Accept(Node.expression) \o <<[do |-> "target", var |-> Node.var]>>)
    /\ UNCHANGED <<m, inner, ctx>>

VisitTarget ==
    /\ Doing("target")
    /\ ctx' = [ctx EXCEPT !.is_lval = TRUE]
    /\ Then(Accept(Item.var) \o <<[do |-> "assign", value |-> ctx.val]>>)
    /\ UNCHANGED <<m, inner>>

FinishAssignExpression ==
    /\ Doing("assign")
    /\ LET n == Convert(m, Item.value, ElementType(Ty(ctx.val)))
           value == Converted(m, n, Item.value)
       IN  m' = create_store(n, value, ctx.val) /\ Yields(value)
    /\ Then(<< >>)
    /\ UNCHANGED inner

(* A binary operator: its left operand, its right operand, and then ...    *)
VisitOperands(left, op, right, finish) ==
    /\ Then(IF left = null THEN Accept(right)
            ELSE IF right = null THEN Accept(left)
            ELSE Accept(left) \o <<[do |-> "left", op |-> op, right |-> right, finish |-> finish]>>)
    /\ UNCHANGED <<m, inner, ctx>>

VisitRight ==
    /\ Doing("left")
    /\ Then(Accept(Item.right) \o <<[do |-> Item.finish, op |-> Item.op, lvalue |-> ctx.val]>>)
    /\ UNCHANGED <<m, inner, ctx>>

(* ... both as floats, unless their types agree.                           *)
Promoted ==
    LET lvalue == Item.lvalue
        rvalue == ctx.val
        mixed == Ty(lvalue) # Ty(rvalue)
        a == IF mixed /\ IsInteger(Ty(lvalue)) THEN create_sitofp(m, lvalue) ELSE m
        b == IF mixed /\ IsInteger(Ty(rvalue)) THEN create_sitofp(a, rvalue) ELSE a
    IN  [m |-> b, l |-> Converted(m, a, lvalue), r |-> Converted(a, b, rvalue),
         is_int |-> ~mixed /\ IsInteger(Ty(rvalue))]

VisitSimpleExpression ==
    /\ Visiting("ASTSimpleExpression")
    /\ VisitOperands(Node.additive_expression_l, Node.op, Node.additive_expression_r, "compare")

FinishSimpleExpression ==
    /\ Doing("compare")
    /\ LET p == Promoted
           flag == create_cmp(p.m, Item.op, p.is_int, p.l, p.r)
       IN  m' = create_zext(flag, It(flag)) /\ Yields(It(m'))
    /\ Then(<< >>)
    /\ UNCHANGED inner

OpOf(ast) == IF "op" \in DOMAIN ast THEN ast.op ELSE ""

VisitAdditiveExpression ==
    /\ Visiting("ASTAdditiveExpression")
    /\ VisitOperands(Node.additive_expression, OpOf(Node), Node.term, "compute")

VisitTerm ==
    /\ Visiting("ASTTerm")
    /\ VisitOperands(Node.term, OpOf(Node), Node.factor, "compute")

FinishArithmetic ==
    /\ Doing("compute")
    /\ LET p == Promoted IN
         m' = create_binary(p.m, Item.op, p.is_int, p.l, p.r) /\ Yields(It(m'))
    /\ Then(<< >>)
    /\ UNCHANGED inner

(* visit(ASTCall): the arguments one after the other, then the call.       *)
Arguments(func, left, args) ==
    (IF left = << >> THEN << >> ELSE Accept(Head(left)))
    \o <<[do |-> "call", func |-> func, left |-> left, args |-> args]>>

VisitCall ==
    /\ Visiting("ASTCall")
    /\ Then(Arguments(find(Node.id), Node.args, << >>))
    /\ UNCHANGED <<m, inner, ctx>>

FinishArgument ==
    /\ Doing("call") /\ Item.left # << >>
    /\ LET param == m.funcs[Item.func[3]].params[Len(Item.args) + 1]
           n == IF IsPointer(Ty(ctx.val)) THEN m ELSE Convert(m, ctx.val, param)
       IN  /\ m' = n
           /\ Then(Arguments(Item.func, Tail(Item.left),
                             Append(Item.args, Converted(m, n, ctx.val))))
    /\ UNCHANGED <<inner, ctx>>

FinishCall ==
    /\ Doing("call") /\ Item.left = << >>
    /\ LET n == create_call(m, Item.func, Item.args) IN m' = n /\ Yields(It(n))
    /\ Then(<< >>)
    /\ UNCHANGED inner

Visit ==
    \/ VisitVarDeclaration \/ VisitFunDeclaration \/ FinishFunDeclaration
    \/ VisitCompoundStmt \/ NextStatement \/ LeaveCompoundStmt \/ VisitExpressionStmt
    \/ VisitSelectionStmt \/ BranchIf \/ FinishThen \/ FinishElse
    \/ VisitIterationStmt \/ BranchLoop \/ FinishBody
    \/ VisitReturnStmt \/ FinishReturn
    \/ VisitNum \/ VisitVar \/ VisitIndexedVar \/ CheckIndex \/ FinishIndexedVar
    \/ VisitAssignExpression \/ VisitTarget \/ FinishAssignExpression
    \/ VisitRight \/ VisitSimpleExpression \/ FinishSimpleExpression
    \/ VisitAdditiveExpression \/ VisitTerm \/ FinishArithmetic
    \/ VisitCall \/ FinishArgument \/ FinishCall
=============================================================================
