------------------------------- MODULE Lists -------------------------------
(***************************************************************************)
(* The lists of the passes (std::vector, std::list, std::deque) as         *)
(* sequences: what a list holds, how often it holds it, and what is left   *)
(* of it when elements are erased.                                         *)
(***************************************************************************)
EXTENDS Integers, Sequences, FiniteSets

Members(s) == {s[i] : i \in 1..Len(s)}

Occurrences(s, x) == Cardinality({i \in 1..Len(s) : s[i] = x})

(* The elements of s that are in S, in their order: SelectSeq for a set,   *)
(* with the recursion in sight of the proofs of FlowProofs.                *)
Kept(s, S) ==
    LET upto[n \in 0..Len(s)] ==
            IF n = 0 THEN << >>
            ELSE IF s[n] \in S THEN Append(upto[n - 1], s[n]) ELSE upto[n - 1]
    IN  upto[Len(s)]
=============================================================================
