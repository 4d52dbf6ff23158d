------------------------------ MODULE Meaning -------------------------------
(***************************************************************************)
(* What a source program prints, defined on its structure and not through  *)
(* its translation.  Integers are unbounded; a float is a number of        *)
(* quarters, so that the two divisions differ.  The right side of an       *)
(* assignment is evaluated before the subscript on its left.               *)
(***************************************************************************)
EXTENDS Integers, Sequences, SequencesExt

Quotient(x, y) ==
    LET size(z) == IF z < 0 THEN -z ELSE z
        q == size(x) \div size(y)
    IN  IF (x < 0) = (y < 0) THEN q ELSE -q

Truth(b) == IF b THEN 1 ELSE 0

Calculate(op, float, x, y) ==
    CASE op = "+" -> x + y
      [] op = "-" -> x - y
      [] op = "*" -> IF float THEN Quotient(x * y, 4) ELSE x * y
      [] op = "/" -> IF float THEN Quotient(4 * x, y) ELSE Quotient(x, y)
      [] op = "<" -> Truth(x < y)
      [] op = "<=" -> Truth(x <= y)
      [] op = ">" -> Truth(x > y)
      [] op = ">=" -> Truth(x >= y)
      [] op = "==" -> Truth(x = y)
      [] op = "!=" -> Truth(x # y)

ToFloat(x) == 4 * x
ToInt(x) == Quotient(x, 4)

(* What input() answers when it is called for the n-th time.               *)
Input(n) == 5 - 2 * n

-----------------------------------------------------------------------------
(* A state: the bindings of the names, scope by scope; the cells; what has *)
(* been printed and read; the functions; the value of the last expression; *)
(* and how control goes on: "on", "return" or "stop".  A value or a        *)
(* binding is <<type, number or cell>> or <<"array", type, first cell>>.   *)
Go(s) == s.how = "on"
With(s, val) == [s EXCEPT !.val = val]

As(ty, val) ==
    IF val[1] = ty THEN val
    ELSE IF ty = "float" THEN <<ty, ToFloat(val[2])>> ELSE <<ty, ToInt(val[2])>>

Binding(s, id) ==
    LET scopes == {n \in 1..Len(s.names) : id \in DOMAIN s.names[n]} IN
    s.names[CHOOSE n \in scopes : \A k \in scopes : k <= n][id]

Bind(s, id, b) == [s EXCEPT !.names[Len(s.names)] = (id :> b) @@ @]

Declare(s, d) ==
    LET cells == IF d[1] = "array" THEN d[4] ELSE 1
        first == Len(s.cells) + 1
        t == [s EXCEPT !.cells = @ \o [n \in 1..cells |-> 0]]
    IN  Bind(t, d[3], IF d[1] = "array" THEN <<"array", d[2], first>> ELSE <<d[2], first>>)

Say(s, what) == [s EXCEPT !.out = Append(@, what)]

RECURSIVE Value(_, _), Perform(_, _)

(* The cell of a variable or an element, as <<type, cell>>.                *)
Place(e, s) ==
    IF e[1] = "var" THEN With(s, Binding(s, e[2]))
    ELSE LET i == Value(e[3], s)
             n == As("int", i.val)[2]
             b == Binding(s, e[2])
         IN  IF ~Go(i) THEN i
             ELSE IF n < 0 THEN [Say(i, <<"negative index exception">>) EXCEPT !.how = "stop"]
             ELSE With(i, <<b[2], b[3] + n>>)

Operate(e, s) ==
    LET l == Value(e[2], s)
        r == Value(e[3], l)
        ty == IF "float" \in {l.val[1], r.val[1]} THEN "float" ELSE "int"
        x == Calculate(e[1], ty = "float", As(ty, l.val)[2], As(ty, r.val)[2])
    IN  IF ~Go(r) THEN r ELSE With(r, <<IF e[1] \in {"+", "-", "*", "/"} THEN ty ELSE "int", x>>)

Assign(e, s) ==
    LET r == Value(e[3], s)
        p == Place(e[2], r)
        val == As(p.val[1], r.val)
    IN  IF ~Go(p) THEN p ELSE [p EXCEPT !.cells[p.val[2]] = val[2], !.val = val]

(* The body of a function, with its parameters bound to the values.        *)
Enter(d, vals, s) ==
    LET param(t, n) ==
            LET p == d[4][n] IN
            IF Len(p) = 3 THEN Bind(t, p[2], vals[n])
            ELSE LET u == Declare(t, <<"var", p[1], p[2]>>) IN
                 [u EXCEPT !.cells[Len(u.cells)] = As(p[1], vals[n])[2]]
        bound == FoldLeft(param, [s EXCEPT !.names = <<s.names[1], <<>>>>], [n \in 1..Len(vals) |-> n])
        done == Perform(d[5], bound)
    IN  IF done.how = "stop" THEN done
        ELSE [done EXCEPT !.names = s.names, !.how = "on",
                !.val = IF d[2] = "void" THEN <<"int", 0>>
                        ELSE IF done.how = "return" THEN As(d[2], done.val) ELSE <<d[2], 0>>]

Apply(e, s) ==
    LET arg(t, a) == LET v == Value(a, t.s) IN [s |-> v, vals |-> Append(t.vals, v.val)]
        given == FoldLeft(arg, [s |-> s, vals |-> << >>], e[3])
        t == given.s
    IN  CASE ~Go(t) -> t
          [] e[2] = "input" -> With([t EXCEPT !.reads = @ + 1], <<"int", Input(t.reads + 1)>>)
          [] e[2] = "output" -> Say(t, As("int", given.vals[1]))
          [] e[2] = "outputFloat" -> Say(t, As("float", given.vals[1]))
          [] OTHER -> Enter(t.functions[e[2]], given.vals, t)

Value(e, s) ==
    IF ~Go(s) THEN s
    ELSE CASE e[1] = "integer" -> With(s, <<"int", e[2]>>)
           [] e[1] = "float" -> With(s, <<"float", e[2]>>)
           [] e[1] \in {"var", "at"} ->
                LET p == Place(e, s) IN
                IF ~Go(p) \/ p.val[1] = "array" THEN p
                ELSE With(p, <<p.val[1], p.cells[p.val[2]]>>)
           [] e[1] = "set" -> Assign(e, s)
           [] e[1] = "call" -> Apply(e, s)
           [] OTHER -> Operate(e, s)

Block(b, s) ==
    LET inside == FoldLeft(Declare, [s EXCEPT !.names = Append(@, <<>>)], b[2])
        done == FoldLeft(LAMBDA t, st : Perform(st, t), inside, b[3])
    IN  [done EXCEPT !.names = s.names]

Perform(st, s) ==
    IF ~Go(s) THEN s
    ELSE LET c == Value(st[2], s)
             holds == c.val[2] # 0
         IN  CASE st[1] = "empty" -> s
               [] st[1] = "do" -> c
               [] st[1] = "block" -> Block(st, s)
               [] st[1] = "return" -> IF Len(st) = 1 THEN [s EXCEPT !.how = "return"]
                                      ELSE IF Go(c) THEN [c EXCEPT !.how = "return"] ELSE c
               [] ~Go(c) -> c
               [] st[1] = "if" -> IF holds THEN Perform(st[3], c) ELSE c
               [] st[1] = "ifelse" -> Perform(IF holds THEN st[3] ELSE st[4], c)
               [] st[1] = "while" -> IF holds THEN Perform(st, Perform(st[3], c)) ELSE c

(* The output of a program.                                                *)
Meaning(program) ==
    LET main == program[Len(program)]
        vars == SelectSeq(program, LAMBDA d : d[1] # "fun")
        ids == {program[n][3] : n \in {n \in 1..Len(program) : program[n][1] = "fun"}}
        functions == [id \in ids |-> program[CHOOSE n \in 1..Len(program) : program[n][3] = id]]
        start == [names |-> << <<>> >>, cells |-> << >>, out |-> << >>, reads |-> 0,
                  functions |-> functions, val |-> <<"int", 0>>, how |-> "on"]
    IN  Enter(main, << >>, FoldLeft(Declare, start, vars)).out
=============================================================================
