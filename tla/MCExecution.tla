---------------------------- MODULE MCExecution ----------------------------
(***************************************************************************)
(* Small functions for the code generator, on a machine with 12-bit words: *)
(* an immediate has 7 bits, so a frame of more than 64 bytes takes the     *)
(* long way that a frame of more than 2048 bytes takes on the real one.    *)
(***************************************************************************)
EXTENDS Execution

CONSTANT Hazards     \* the kinds of functions CodeGen translates wrongly to include

C(n) == <<"c", n, "i32">>
F(n) == <<"c", n, "float">>
V(id) == <<"v", id>>
G(g) == <<"g", g>>
B(b) == <<"b", b>>

I(id, op, ty, ops, aux) == [id |-> id, op |-> op, ty |-> ty, ops |-> ops, aux |-> aux]
Op(id, op, ty, ops) == I(id, op, ty, ops, 0)
Ret(x) == Op("ret", "ret", "void", <<x>>)
RetVoid == Op("ret", "ret", "void", << >>)
Go(id, b) == Op(id, "br", "void", <<B(b)>>)
If(id, c, t, f) == Op(id, "br", "void", <<V(c), B(t), B(f)>>)
Alloca(id, size) == I(id, "alloca", "ptr", << >>, size)
Load(id, ty, p) == Op(id, "load", ty, <<V(p)>>)
Store(id, x, p) == Op(id, "store", "void", <<x, p>>)
Gep(id, p, n) == I(id, "getelementptr", "ptr", <<p, C(0), n>>, "i32")
Call(id, f, ty, ops) == I(id, "call", ty, ops, f)

(* A function from its arguments, <<name, type, inputs>>, and its blocks.  *)
Holds(s) == {s[n] : n \in 1..Len(s)}

Product(sets) == IF sets = << >> THEN {<< >>}
                 ELSE IF Len(sets) = 1 THEN {<<x>> : x \in sets[1]}
                 ELSE {<<x, y>> : x \in sets[1], y \in sets[2]}

Fn(args, names, code) ==
    LET insts == UNION {Holds(code[n]) : n \in 1..Len(code)}
        named == {i.id : i \in insts}
        argNames == {args[n][1] : n \in 1..Len(args)}
    IN  [args |-> [n \in 1..Len(args) |-> args[n][1]],
         blocks |-> names,
         insts |-> [b \in Holds(names) |-> code[CHOOSE n \in 1..Len(names) : names[n] = b]],
         type |-> [x \in named \cup argNames |->
             IF x \in named THEN (CHOOSE i \in insts : i.id = x).ty
             ELSE args[CHOOSE n \in 1..Len(args) : args[n][1] = x][2]],
         inputs |-> Product([n \in 1..Len(args) |-> args[n][3]])]

x == <<"x", "i32", {-2, 0, 3}>>
y == <<"y", "i32", {-1, 3}>>
p == <<"p", "ptr", {<<"g", 4>>}>>
u == <<"u", "float", {1, 2}>>
w == <<"w", "float", {2, -3}>>

(* Every computation of two integers, and of two floats.                   *)
Sums == {Fn(<<x, y>>, <<"entry">>, << <<Op("r", op, "i32", <<V("x"), V("y")>>), Ret(V("r"))>> >>) :
            op \in {"add", "sub", "mul", "sdiv"}}

FloatSums ==
    {Fn(<<u, w>>, <<"entry">>,
        << <<Op("r", op, "float", <<V("u"), V("w")>>), Op("s", "fadd", "float", <<V("r"), F(2)>>),
             Ret(V("s"))>> >>) :
        op \in {"fadd", "fsub", "fmul", "fdiv"}}

Comparisons ==
    {Fn(<<x, y>>, <<"entry">>,
        << <<Op("c", op, "i1", <<V("x"), V("y")>>), Op("d", op, "i1", <<V("y"), C(-2)>>),
             Op("r", "zext", "i32", <<V("c")>>), Op("s", "zext", "i32", <<V("d")>>),
             Op("t", "sub", "i32", <<V("r"), V("s")>>), Ret(V("t"))>> >>) :
        op \in {"eq", "ne", "gt", "ge", "lt", "le"}}

FloatComparisons ==
    {Fn(<<u, w>>, <<"entry">>,
        << <<Op("c", op, "i1", <<V("u"), V("w")>>), Op("d", op, "i1", <<F(2), V("u")>>),
             Op("r", "zext", "i32", <<V("c")>>), Op("s", "zext", "i32", <<V("d")>>),
             Op("t", "sub", "i32", <<V("r"), V("s")>>), Ret(V("t"))>> >>) :
        op \in {"feq", "fne", "fgt", "fge", "flt", "fle"}}

Conversions ==
    {Fn(<<x, u>>, <<"entry">>,
        << <<Op("f", "sitofp", "float", <<V("x")>>), Op("h", "fmul", "float", <<V("f"), V("u")>>),
             Op("r", "fptosi", "i32", <<V("h")>>), Ret(V("r"))>> >>)}

(* Memory: an array, a pointer kept in memory, the globals.                *)
Arrays ==
    {Fn(<<x, p>>, <<"entry">>,
        << <<Alloca("a", 8), Alloca("pp", 8), Gep("a0", V("a"), C(0)), Gep("a1", V("a"), C(1)),
             Store("s1", V("x"), V("a0")), Store("s2", C(100), V("a1")),
             Store("s3", V("p"), V("pp")), Load("q", "ptr", "pp"),
             I("q1", "getelementptr", "ptr", <<V("q"), C(-1)>>, "i32"),
             Load("v", "i32", "a0"), Store("s4", V("v"), V("q1")), Store("s5", V("x"), V("q")),
             Load("r", "i32", "a1"), Gep("h1", G("h"), C(1)), Store("s6", V("r"), V("h1")),
             Ret(V("v"))>> >>)}

(* Calls: arguments of both kinds in turn, results of every kind, values   *)
(* that live across a call.                                                *)
Calls ==
    {Fn(<<u, x>>, <<"entry">>,
        << <<Call("r", "mix", "i32", <<V("x"), V("u"), G("g"), F(3)>>),
             Call("f", "flo", "float", <<V("r")>>), Call("n", "put", "void", <<V("x")>>),
             Call("s", "mix", "i32", <<V("r"), V("f"), G("h"), V("u")>>),
             Op("t", "add", "i32", <<V("r"), V("s")>>), Ret(V("t"))>> >>),
     Fn(<< >>, <<"entry">>, << <<Call("n", "put", "void", <<C(200)>>), RetVoid>> >>)}

(* Frames on both sides of the boundaries: n sums in a row.                *)
Id(n) == <<"a", "b", "c", "d", "e", "f", "h", "i", "j", "k", "l", "m", "n", "o">>[n]

Chain(n) ==
    Fn(<<x>>, <<"entry">>,
       <<[k \in 1..n |-> Op(Id(k), "add", "i32", <<IF k = 1 THEN V("x") ELSE V(Id(k - 1)), V("x")>>)]
         \o <<Call("r", "mix", "i32", <<V(Id(n)), F(1), G("g"), F(1)>>), Ret(V(Id(n)))>> >>)

FloatChain(n) ==
    Fn(<<u>>, <<"entry">>,
       <<[k \in 1..n |-> Op(Id(k), "fadd", "float", <<IF k = 1 THEN V("u") ELSE V(Id(k - 1)), V("u")>>)]
         \o <<Alloca("z", 4), Op("cc", "flt", "i1", <<V("u"), V(Id(n))>>), Op("r", "zext", "i32", <<V("cc")>>),
              Ret(V(Id(n)))>> >>)

(* Six leave a frame of 48 bytes, thirteen one of 80; with nine it has 64,  *)
(* and an alloca after fourteen lies farther than an immediate reaches.    *)
Frames == {Chain(6), Chain(13)}
          \cup (IF "immediates" \in Hazards THEN {Chain(9), FloatChain(14)} ELSE {})

(* Control: branches that join in a phi, a loop, a branch that skips.      *)
Join(k) ==
    Fn(<<x, y>>, <<"entry", "then", "else", "end">>,
       << <<Op("c", "lt", "i1", <<V("x"), V("y")>>), If("b1", "c", "then", "else")>>,
          <<Op("s", "add", "i32", <<V("x"), C(1)>>), Go("b2", "end")>>,
          <<Go("b3", "end")>>,
          <<Op("r", "phi", "i32", <<V("s"), B("then"), C(k), B("else")>>), Ret(V("r"))>> >>)

(* i counts; a and b follow it, each taking another's value of the round   *)
(* before.                                                                 *)
Loop(first, second) ==
    Fn(<<x>>, <<"entry", "judge", "body", "end">>,
       << <<Go("b1", "judge")>>,
          <<Op("i", "phi", "i32", <<C(0), B("entry"), V("i2"), B("body")>>),
            Op("a", "phi", "i32", <<V("x"), B("entry"), V(first), B("body")>>),
            Op("b", "phi", "i32", <<C(1), B("entry"), V(second), B("body")>>),
            Op("c", "lt", "i1", <<V("i"), C(2)>>), If("b2", "c", "body", "end")>>,
          <<Op("i2", "add", "i32", <<V("i"), C(1)>>), Go("b3", "judge")>>,
          <<Op("r", "sub", "i32", <<V("a"), V("b")>>), Ret(V("r"))>> >>)

FloatSkip ==
    Fn(<<x, u>>, <<"entry", "then", "end">>,
       << <<Op("c", "lt", "i1", <<V("x"), C(1)>>), If("b1", "c", "then", "end")>>,
          <<Op("s", "fadd", "float", <<V("u"), F(1)>>), Go("b2", "end")>>,
          <<Op("r", "phi", "float", <<V("u"), B("entry"), V("s"), B("then")>>), Ret(V("r"))>> >>)

Skip ==
    Fn(<<x, y>>, <<"entry", "then", "end">>,
       << <<Op("c", "lt", "i1", <<V("x"), V("y")>>), If("b1", "c", "then", "end")>>,
          <<Op("s", "add", "i32", <<V("x"), C(1)>>), Go("b2", "end")>>,
          <<Op("r", "phi", "i32", <<V("y"), B("entry"), V("s"), B("then")>>), Ret(V("r"))>> >>)

Branches == {Join(7), Join(500), Loop("b", "i2"), Loop("a", "a"), FloatSkip}
            \cup (IF "branch" \in Hazards THEN {Skip} ELSE {})
            \cup (IF "copies" \in Hazards THEN {Loop("b", "a"), Loop("i2", "a")} ELSE {})

MCFunctions == Sums \cup FloatSums \cup Comparisons \cup FloatComparisons \cup Conversions
               \cup Arrays \cup Calls \cup Frames \cup Branches

MCSignature ==
    [mix |-> [params |-> <<"i32", "float", "ptr", "float">>, result |-> "i32"],
     flo |-> [params |-> <<"i32">>, result |-> "float"],
     put |-> [params |-> <<"i32">>, result |-> "void"]]

MCAddress == [g |-> 1024, h |-> 1040]
MCLayouts == {LayoutOf(f) : f \in MCFunctions}
MCValue == UNION {{l[n].id : n \in 1..Len(l)} : l \in MCLayouts}
=============================================================================
