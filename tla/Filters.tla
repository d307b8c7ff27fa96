------------------------------- MODULE Filters -------------------------------
(***************************************************************************)
(* The loops that go through an array and keep some of its elements, or    *)
(* their places, with what they keep given as a set.                       *)
(***************************************************************************)
EXTENDS Sequences, SequencesExt

\* The elements of s that are in S, in their order.
Kept(s, S) ==
    FoldLeft(LAMBDA kept, x : IF x \in S THEN Append(kept, x) ELSE kept, <<>>, s)

\* The places of an array of n elements.
Positions(n) == [k \in 1..n |-> k]
=============================================================================
