----------------------------- MODULE MCFrontEnd -----------------------------
(***************************************************************************)
(* The programs for FrontEnd: every nesting of two operators over integers *)
(* and floats, assignments to every kind of variable and element, calls    *)
(* with every mixture of types and with arrays, and sequences of control   *)
(* statements with returns in them and scopes that hide names.  All are    *)
(* well typed, divide by no zero, read no local variable they have not     *)
(* assigned, and use no element past the end of its array.                 *)
(***************************************************************************)
EXTENDS FrontEnd

N(x) == <<"integer", x>>
F(quarters) == <<"float", quarters>>
V(id) == <<"var", id>>
At(id, e) == <<"at", id, e>>
Is(place, e) == <<"set", place, e>>
Do(e) == <<"do", e>>
CallTo(f, args) == <<"call", f, args>>
Show(e) == Do(CallTo("output", <<e>>))
ShowFloat(e) == Do(CallTo("outputFloat", <<e>>))
Input == CallTo("input", << >>)

I == V("i")
R == V("r")
IntI == <<"var", "int", "i">>
FloatR == <<"var", "float", "r">>
IntArray == <<"array", "int", "a", 3>>
FloatArray == <<"array", "float", "x", 3>>
Body(decls, stmts) == <<"block", decls, stmts>>
Main(decls, stmts) == <<"fun", "void", "main", << >>, Body(decls, stmts)>>

(* i is 3 and r is 1.25.                                                   *)
Given == <<Do(Is(I, Input)), Do(Is(R, F(5)))>>

-----------------------------------------------------------------------------
Leaves == {I, R, N(7)}

Single == {<<op, x, y>> : op \in Relops \cup Addops \cup Mulops, x \in {I, R}, y \in Leaves \cup {Input}}

Nested == {<<op, <<in, x, y>>, z>> : op, in \in {"-", "/", "<"}, x, y, z \in Leaves}
     \cup {<<op, x, <<in, y, z>>>> : op \in {"-", "*", ">="}, in \in {"-", "/", "=="}, x, y, z \in Leaves}
     \cup {<<"/", x, <<"*", y, z>>>> : x, y, z \in Leaves}

Expressions == {<<Main(<<IntI, FloatR>>, Given \o <<ShowFloat(e)>>)>> : e \in Single \cup Nested}
        \cup {<<Main(<<IntI, FloatR>>, Given \o <<Show(e)>>)>> : e \in Single}

-----------------------------------------------------------------------------
Subscripts == {N(1), R, At("a", N(2)), Is(I, N(0)), <<"-", N(0), I>>}

Places == {I, R} \cup {At(id, e) : id \in {"a", "x"}, e \in Subscripts}

Sides == {F(10), Input} \cup {Is(p, e) : p \in Places, e \in {N(2), F(10)}}
         \cup {At("x", Is(I, N(1))), <<"+", At("a", <<"-", I, N(1)>>), Is(I, N(2))>>}

Assignments ==
    {<<IntArray, FloatArray, FloatR, Main(<<IntI>>, Given \o
        <<Do(Is(p, e)), Show(I), ShowFloat(R), Show(At("a", N(1))), ShowFloat(At("x", N(1)))>>)>> :
     p \in Places, e \in Sides}

-----------------------------------------------------------------------------
Fun(ret, f, params, e) == <<"fun", ret, f, params, Body(<< >>, <<<<"return", e>>>>)>>
P == V("p")
Q == V("q")

Functions2 == {Fun(ret, "f", <<<<"int", "p">>, <<"float", "q">>>>, e) :
                 ret \in {"int", "float"}, e \in {P, Q, <<"*", P, Q>>, <<"<", Q, P>>}}
Given2 == {N(2), F(9), I, R, Is(R, I), CallTo("f", <<F(6), Input>>)}

ScalarCalls ==
    {<<f, Main(<<IntI, FloatR>>, Given \o <<ShowFloat(CallTo("f", <<x, y>>)), ShowFloat(R)>>)>> :
     f \in Functions2, x, y \in Given2}

(* An array goes through two functions, which read and write it.           *)
ArrayCall(ty, outer, sub) ==
    LET write == Do(Is(At("b", N(1)), <<"+", At("b", P), F(6)>>))
        params == <<<<ty, "b", "[]">>, <<"int", "p">>>>
        array == <<"array", ty, "b", 3>>
    IN  <<array, <<"fun", "void", "g", params, Body(<< >>, <<write>>)>>,
          <<"fun", "int", "h", params, Body(<< >>, <<Do(CallTo("g", <<V("b"), P>>)), write>>)>>,
          Main(IF outer THEN << >> ELSE <<array>>,
               <<Do(Is(At("b", N(0)), N(1))), Do(Is(At("b", N(2)), N(4))), Do(CallTo("h", <<V("b"), sub>>)),
                 ShowFloat(At("b", N(1)))>>)>>

(* n * (n - 1) * ... and a function that forgets to return.                *)
Recursion ==
    LET again == <<"*", V("n"), CallTo("f", <<<<"-", V("n"), N(1)>>>>)>>
        f(s) == <<"fun", "int", "f", <<<<"int", "n">>>>, Body(<< >>, s)>>
        test == <<"<", V("n"), N(2)>>
    IN  {<<f(s), Main(<< >>, <<Show(CallTo("f", <<Input>>))>>)>> : s \in
           {<<<<"ifelse", test, <<"return", N(1)>>, <<"return", again>>>>>>,
            <<<<"if", test, <<"return", F(5)>>>>, <<"return", again>>>>,
            <<<<"if", test, Body(<< >>, <<<<"return", N(1)>>, Show(N(9))>>)>>, Do(again)>>}}

(* A parameter, or a local variable, that hides a global one.              *)
Hidden(decls) ==
    LET f == <<"fun", "int", "f", <<<<"float", "i">>>>,
               Body(decls, <<Do(Is(I, <<"+", Input, F(2)>>)), ShowFloat(I), <<"return", I>>>>)>>
    IN  <<IntI, f, Main(<< >>, <<Do(Is(I, Input)), Show(CallTo("f", <<I>>)), Show(I)>>)>>

Calls == ScalarCalls \cup Recursion \cup {Hidden(<< >>), Hidden(<<IntI>>)}
         \cup {ArrayCall(ty, outer, i) : ty \in {"int", "float"}, outer \in BOOLEAN, i \in {N(0), F(2), <<"-", N(0), N(1)>>}}

-----------------------------------------------------------------------------
Less == Do(Is(I, <<"-", I, N(1)>>))
Hiding(s) == Body(<<<<"var", "float", "i">>>>, <<Do(Is(I, F(3)))>> \o s \o <<ShowFloat(I)>>)
Conditions == {I, R, <<"<", I, N(3)>>, <<"-", R, F(5)>>}

Simple == {Less, <<"empty">>, <<"return">>, Show(I), Hiding(<< >>), Body(<< >>, <<Less, <<"return">>, Show(I)>>)}

Loops == {<<"while", <<"<", N(1), I>>, Body(<< >>, <<Less, s>>)>> : s \in Simple}

Statements == Simple \cup Loops \cup {Hiding(<<s>>) : s \in Simple}
    \cup {<<"if", c, s>> : c \in Conditions, s \in Simple}
    \cup {<<"ifelse", c, s, t>> : c \in {I, <<"-", R, F(5)>>}, s, t \in Simple}
    \cup {<<"while", I, Body(<< >>, <<Less, <<"if", <<"==", I, N(1)>>, s>>>>)>> : s \in Simple}

Control ==
    {<<Main(<<IntI, FloatR>>, Given \o <<s, t, Show(I)>>)>> : s \in Statements, t \in {Less, <<"return">>}}

MCPrograms == Expressions \cup Assignments \cup Calls \cup Control
=============================================================================
