----------------------------- MODULE MCFuncInfo -----------------------------
(***************************************************************************)
(* Every call graph of an external function, three functions and main: a   *)
(* function calls itself and what is declared before it, as C-minus has no *)
(* prototypes.  The functions touch local or global memory.                *)
(***************************************************************************)
EXTENDS FuncInfo

MCFunc == {"out", "f", "g", "h", "main"}
MCOrder == <<"out", "f", "g", "h", "main">>

(* A use list is in the order the calls were built; f calls everything     *)
(* twice, so that a caller may appear two times.                           *)
Built == <<"f", "f", "g", "h", "main">>

ListOf(callers) == SelectSeq(Built, LAMBDA f : f \in callers)

(* What a function does with memory.                                       *)
Local == {[op |-> "store", addr |-> <<"alloca">>], [op |-> "load", addr |-> <<"gep", "alloca">>]}
ReadsGlobal == Local \cup {[op |-> "load", addr |-> <<"gep", "global">>]}
WritesGlobal == Local \cup {[op |-> "store", addr |-> <<"global">>]}
ReadsArray == Local \cup {[op |-> "load", addr |-> <<"gep", "load">>]}

Module(out, f, g, h, does, arrays) ==
    [declared |-> {"out"}, main |-> "main", arrays |-> arrays,
     accesses |-> [x \in MCFunc |-> IF x \in {"out", "main"} THEN {} ELSE does[x]],
     uses |-> [x \in MCFunc |-> CASE x = "out" -> ListOf(out)
                                   [] x = "f" -> ListOf(f)
                                   [] x = "g" -> ListOf(g)
                                   [] x = "h" -> ListOf(h)
                                   [] x = "main" -> << >>]]

MCModules ==
    {Module(out, f, g, h, does, {}) :
        out \in SUBSET {"f", "g", "h"}, f \in SUBSET {"f", "g", "h"},
        g \in SUBSET {"g", "h"}, h \in {{"main"}, {"h", "main"}},
        does \in [{"f", "g", "h"} -> {Local, WritesGlobal}] \cup
                 {[x \in {"f", "g", "h"} |-> IF x = "g" THEN ReadsGlobal ELSE Local]}}
    \cup
    {Module({}, f, g, {"main"}, [x \in {"f", "g", "h"} |-> IF x = y THEN ReadsArray ELSE Local], {y}) :
        f \in SUBSET {"g", "h"}, g \in SUBSET {"h"}, y \in {"f", "g"}}
=============================================================================
