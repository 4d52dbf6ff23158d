------------------------------- MODULE Syntax -------------------------------
(***************************************************************************)
(* From a source program to its abstract syntax: the tree that the rules   *)
(* of parser/syntax_analyzer.y build, and AST::transform_node_iter         *)
(* (common/ast.cpp).                                                       *)
(*                                                                         *)
(* A source program is given by its structure, tuples as in MCFrontEnd:    *)
(* <<"fun", type, id, params, block>>, <<"while", expression, statement>>, *)
(* <<"+", left, right>>, <<"set", var, expression>>.  The derivation is    *)
(* the one its text has: with parentheses where the precedence needs them. *)
(***************************************************************************)
EXTENDS Integers, Sequences, SequencesExt

Relops == {"<", "<=", ">", ">=", "==", "!="}
Addops == {"+", "-"}
Mulops == {"*", "/"}

(* node() of the grammar: an empty right-hand side has one child, epsilon. *)
Lexeme(x) == [name |-> x, kids |-> << >>]
node(name, kids) == [name |-> name, kids |-> IF kids = << >> THEN <<Lexeme("epsilon")>> ELSE kids]

TypeSpecifier(ty) == node("type-specifier", <<Lexeme(ty)>>)

(* The lists are left recursive: start, then one more item at a time.      *)
List(name, start, separator, items) ==
    FoldLeft(LAMBDA l, item : node(name, <<l>> \o separator \o <<item>>), start, items)
EmptyOrMore(name, items) == List(name, node(name, << >>), << >>, items)
OneOrMore(name, separator, items) ==
    List(name, node(name, <<Head(items)>>), separator, Tail(items))

-----------------------------------------------------------------------------
(* The rules for expressions.                                              *)
RECURSIVE Expression(_), Additive(_), Term(_)

Var(e) ==
    node("var", IF e[1] = "var" THEN <<Lexeme(e[2])>>
                ELSE <<Lexeme(e[2]), Lexeme("["), Expression(e[3]), Lexeme("]")>>)

Call(e) ==
    LET args == [n \in 1..Len(e[3]) |-> Expression(e[3][n])] IN
    node("call", <<Lexeme(e[2]), Lexeme("("),
        node("args", IF args = << >> THEN << >>
                     ELSE <<OneOrMore("arg-list", <<Lexeme(",")>>, args)>>), Lexeme(")")>>)

Factor(e) ==
    node("factor", CASE e[1] \in {"integer", "float"} -> <<node(e[1], <<Lexeme(e[2])>>)>>
                     [] e[1] \in {"var", "at"} -> <<Var(e)>>
                     [] e[1] = "call" -> <<Call(e)>>
                     [] OTHER -> <<Lexeme("("), Expression(e), Lexeme(")")>>)

Term(e) ==
    node("term", IF e[1] \in Mulops
                 THEN <<Term(e[2]), node("mulop", <<Lexeme(e[1])>>), Factor(e[3])>>
                 ELSE <<Factor(e)>>)

Additive(e) ==
    node("additive-expression",
         IF e[1] \in Addops
         THEN <<Additive(e[2]), node("addop", <<Lexeme(e[1])>>), Term(e[3])>>
         ELSE <<Term(e)>>)

SimpleExpression(e) ==
    node("simple-expression",
         IF e[1] \in Relops
         THEN <<Additive(e[2]), node("relop", <<Lexeme(e[1])>>), Additive(e[3])>>
         ELSE <<Additive(e)>>)

Expression(e) ==
    node("expression", IF e[1] = "set" THEN <<Var(e[2]), Lexeme("="), Expression(e[3])>>
                                       ELSE <<SimpleExpression(e)>>)

-----------------------------------------------------------------------------
(* The rules for statements and declarations.                              *)
RECURSIVE Statement(_)

VarDeclaration(d) ==
    node("var-declaration", <<TypeSpecifier(d[2]), Lexeme(d[3])>> \o
        (IF d[1] = "array" THEN <<Lexeme("["), Lexeme(d[4]), Lexeme("]")>> ELSE << >>)
        \o <<Lexeme(";")>>)

CompoundStmt(s) ==
    node("compound-stmt", <<Lexeme("{"),
        EmptyOrMore("local-declarations", [n \in 1..Len(s[2]) |-> VarDeclaration(s[2][n])]),
        EmptyOrMore("statement-list", [n \in 1..Len(s[3]) |-> Statement(s[3][n])]),
        Lexeme("}")>>)

Condition(word, s) ==
    <<Lexeme(word), Lexeme("("), Expression(s[2]), Lexeme(")"), Statement(s[3])>>

Statement(s) ==
    node("statement", <<
        CASE s[1] = "empty" -> node("expression-stmt", <<Lexeme(";")>>)
          [] s[1] = "do" -> node("expression-stmt", <<Expression(s[2]), Lexeme(";")>>)
          [] s[1] = "block" -> CompoundStmt(s)
          [] s[1] = "if" -> node("selection-stmt", Condition("if", s))
          [] s[1] = "ifelse" -> node("selection-stmt", Condition("if", s) \o
                                     <<Lexeme("else"), Statement(s[4])>>)
          [] s[1] = "while" -> node("iteration-stmt", Condition("while", s))
          [] s = <<"return">> -> node("return-stmt", <<Lexeme("return"), Lexeme(";")>>)
          [] OTHER -> node("return-stmt", <<Lexeme("return"), Expression(s[2]), Lexeme(";")>>)
        >>)

Param(p) ==
    node("param", <<TypeSpecifier(p[1]), Lexeme(p[2])>> \o
                  (IF Len(p) = 3 THEN <<Lexeme("["), Lexeme("]")>> ELSE << >>))

FunDeclaration(d) ==
    LET params == [n \in 1..Len(d[4]) |-> Param(d[4][n])] IN
    node("fun-declaration", <<TypeSpecifier(d[2]), Lexeme(d[3]), Lexeme("("),
        node("params", <<IF params = << >> THEN Lexeme("void")
                         ELSE OneOrMore("param-list", <<Lexeme(",")>>, params)>>),
        Lexeme(")"), CompoundStmt(d[5])>>)

Parse(program) ==
    node("program", <<OneOrMore("declaration-list", << >>, [n \in 1..Len(program) |->
        node("declaration", <<IF program[n][1] = "fun" THEN FunDeclaration(program[n])
                              ELSE VarDeclaration(program[n])>>)])>>)

-----------------------------------------------------------------------------
(* transform_node_iter.                                                    *)
RECURSIVE Transform(_)

null == [is |-> "null"]

(* The loops over the lists: push the item of each level, from the last,   *)
(* and go on with the rest; then pop and transform.                        *)
RECURSIVE Pushed(_, _), Rest(_, _)
Pushed(l, width) ==
    IF Len(l.kids) = width THEN <<l.kids[width]>> \o Pushed(l.kids[1], width) ELSE << >>
Rest(l, width) == IF Len(l.kids) = width THEN Rest(l.kids[1], width) ELSE l

Popped(stack) == [n \in 1..Len(stack) |-> Transform(Reverse(stack)[n])]

FlattenOneOrMore(l, width) == Popped(Pushed(l, width) \o <<Rest(l, width).kids[1]>>)
FlattenEmptyOrMore(l) == Popped(Pushed(l, 2))

TypeOf(n, others) ==
    CASE n.kids[1].kids[1].name = "int" -> "TYPE_INT"
      [] n.kids[1].kids[1].name = "float" -> "TYPE_FLOAT"
      [] OTHER -> others

Num(ty, val) == [is |-> "ASTNum", type |-> ty, val |-> val]

ASTVarDeclaration(n) ==
    [is |-> "ASTVarDeclaration", type |-> TypeOf(n, "TYPE_FLOAT"), id |-> n.kids[2].name,
     num |-> IF Len(n.kids) = 6 THEN Num("TYPE_INT", n.kids[4].name) ELSE null]

ASTFunDeclaration(n) ==
    LET list == n.kids[4].kids[1] IN
    [is |-> "ASTFunDeclaration", type |-> TypeOf(n, "TYPE_VOID"), id |-> n.kids[2].name,
     params |-> IF Len(list.kids) = 0 THEN << >> ELSE FlattenOneOrMore(list, 3),
     compound_stmt |-> Transform(n.kids[6])]

ASTParam(n) ==
    [is |-> "ASTParam", type |-> TypeOf(n, "TYPE_FLOAT"), id |-> n.kids[2].name,
     isarray |-> Len(n.kids) > 2]

ASTCompoundStmt(n) ==
    [is |-> "ASTCompoundStmt", local_declarations |-> FlattenEmptyOrMore(n.kids[2]),
     statement_list |-> FlattenEmptyOrMore(n.kids[3])]

ASTExpressionStmt(n) ==
    [is |-> "ASTExpressionStmt",
     expression |-> IF Len(n.kids) = 2 THEN Transform(n.kids[1]) ELSE null]

ASTSelectionStmt(n) ==
    [is |-> "ASTSelectionStmt", expression |-> Transform(n.kids[3]),
     if_statement |-> Transform(n.kids[5]),
     else_statement |-> IF Len(n.kids) = 7 THEN Transform(n.kids[7]) ELSE null]

ASTIterationStmt(n) ==
    [is |-> "ASTIterationStmt", expression |-> Transform(n.kids[3]),
     statement |-> Transform(n.kids[5])]

ASTReturnStmt(n) ==
    [is |-> "ASTReturnStmt",
     expression |-> IF Len(n.kids) = 3 THEN Transform(n.kids[2]) ELSE null]

ASTAssignExpression(n) ==
    [is |-> "ASTAssignExpression", var |-> Transform(n.kids[1]),
     expression |-> Transform(n.kids[3])]

ASTVar(n) ==
    [is |-> "ASTVar", id |-> n.kids[1].name,
     expression |-> IF Len(n.kids) = 4 THEN Transform(n.kids[3]) ELSE null]

(* The nodes of binary operators: with three children or with one.         *)
OpName(n) == n.kids[2].kids[1].name

ASTSimpleExpression(n) ==
    [is |-> "ASTSimpleExpression", additive_expression_l |-> Transform(n.kids[1]),
     op |-> IF Len(n.kids) = 3 THEN OpName(n) ELSE "",
     additive_expression_r |-> IF Len(n.kids) = 3 THEN Transform(n.kids[3]) ELSE null]

ASTAdditiveExpression(n) ==
    IF Len(n.kids) = 3
    THEN [is |-> "ASTAdditiveExpression", additive_expression |-> Transform(n.kids[1]),
          op |-> OpName(n), term |-> Transform(n.kids[3])]
    ELSE [is |-> "ASTAdditiveExpression", additive_expression |-> null, term |-> Transform(n.kids[1])]

ASTTerm(n) ==
    IF Len(n.kids) = 3
    THEN [is |-> "ASTTerm", term |-> Transform(n.kids[1]), op |-> OpName(n),
          factor |-> Transform(n.kids[3])]
    ELSE [is |-> "ASTTerm", term |-> null, factor |-> Transform(n.kids[1])]

FactorOf(n) ==
    LET kid == IF Len(n.kids) = 3 THEN n.kids[2] ELSE n.kids[1] IN
    CASE kid.name = "integer" -> Num("TYPE_INT", kid.kids[1].name)
      [] kid.name = "float" -> Num("TYPE_FLOAT", kid.kids[1].name)
      [] OTHER -> Transform(kid)

ASTCall(n) ==
    LET list == n.kids[3].kids[1] IN
    [is |-> "ASTCall", id |-> n.kids[1].name,
     args |-> IF list.name = "arg-list" THEN FlattenOneOrMore(list, 3) ELSE << >>]

Transform(n) ==
    CASE n.name = "program" -> FlattenOneOrMore(n.kids[1], 2)
      [] n.name \in {"declaration", "statement"} -> Transform(n.kids[1])
      [] n.name = "var-declaration" -> ASTVarDeclaration(n)
      [] n.name = "fun-declaration" -> ASTFunDeclaration(n)
      [] n.name = "param" -> ASTParam(n)
      [] n.name = "compound-stmt" -> ASTCompoundStmt(n)
      [] n.name = "expression-stmt" -> ASTExpressionStmt(n)
      [] n.name = "selection-stmt" -> ASTSelectionStmt(n)
      [] n.name = "iteration-stmt" -> ASTIterationStmt(n)
      [] n.name = "return-stmt" -> ASTReturnStmt(n)
      [] n.name = "expression" -> IF Len(n.kids) = 1 THEN Transform(n.kids[1])
                                  ELSE ASTAssignExpression(n)
      [] n.name = "var" -> ASTVar(n)
      [] n.name = "simple-expression" -> ASTSimpleExpression(n)
      [] n.name = "additive-expression" -> ASTAdditiveExpression(n)
      [] n.name = "term" -> ASTTerm(n)
      [] n.name = "factor" -> FactorOf(n)
      [] n.name = "call" -> ASTCall(n)
=============================================================================
