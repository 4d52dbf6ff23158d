----------------------------- MODULE MCDeadCode -----------------------------
(***************************************************************************)
(* Small programs for the purity analysis and dead code elimination: main, *)
(* two functions that may call themselves and what is declared before them *)
(* (C-minus has no prototypes), and one external function.  main holds a   *)
(* possible cycle of phis; the functions touch local or global memory.     *)
(***************************************************************************)
EXTENDS DeadCode

MCFunc == {"out", "f", "g", "main"}
MCOrder == <<"out", "f", "g", "main">>
MCInst == 1..7

(* The address chains the builder emits: a variable's alloca, an element   *)
(* of a local array, a global, an element of an array parameter (its       *)
(* pointer is loaded from the parameter's alloca).                         *)
Chains == {<<"alloca">>, <<"gep", "alloca">>, <<"gep", "global">>, <<"gep", "load">>}

Prog(main1, main3, loop, f1, f2, chain, g1) ==
    [declared |-> {"out"}, main |-> "main",
     arrays |-> IF chain = <<"gep", "load">> THEN {"f"} ELSE {},
     code |-> [f \in MCFunc |-> CASE f = "main" -> <<1, 2, 3, 4>>
                                  [] f = "f" -> <<5, 6>>
                                  [] f = "g" -> <<7>>
                                  [] f = "out" -> << >>],
     op |-> <<"call", "phi", main3, "ret", "call", f2, g1[1]>>,
     operands |-> << << >>, <<1, 3>>, loop, IF main3 = "store" THEN << >> ELSE main1[2],
                     << >>, <<5>>, << >> >>,
     addr |-> [i \in MCInst |-> IF i = 3 THEN <<"alloca">> ELSE chain],
     callee |-> <<main1[1], "out", "out", "out", f1, "out", g1[2]>>]

MCPrograms ==
    {Prog(main1, main3, loop, f1, f2, chain, g1) :
        main1 \in {"f", "g"} \X {<< >>, <<2>>},
        main3 \in {"phi", "store"},
        loop \in {<<2>>, <<2, 1>>},
        f1 \in {"f", "out"},
        f2 \in {"load", "store"},
        chain \in Chains,
        g1 \in {<<"call", "f">>, <<"call", "g">>, <<"call", "out">>, <<"other", "out">>}}
=============================================================================
