--------------------------- MODULE SequenceFilter ---------------------------
(***************************************************************************)
(* What a list comprehension with a condition keeps of a list: SelectSeq   *)
(* for a set instead of a test, and without a recursion, so that one can   *)
(* reason about it.                                                        *)
(***************************************************************************)
EXTENDS Naturals, Sequences, FiniteSets

PlacesIn(s, S) == {i \in DOMAIN s : s[i] \in S}

\* The elements of s that are in S, in their order: the n-th is the one that
\* has n places up to its own.
KeepIn(s, S) ==
    LET rank(i) == Cardinality(PlacesIn(s, S) \cap 1 .. i)
    IN  [n \in 1 .. Cardinality(PlacesIn(s, S)) |->
            s[CHOOSE i \in PlacesIn(s, S) : rank(i) = n]]
=============================================================================
