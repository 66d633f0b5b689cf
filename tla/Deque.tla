------------------------------- MODULE Deque -------------------------------
(***************************************************************************)
(* The two operations the SDK performs on a std::deque that the standard   *)
(* module Sequences does not name: the elements it holds, and the          *)
(* subsequence of the elements of a set, in their order (std::remove_if    *)
(* with erase, and the filtering loops).  Keep is SelectSeq with a set for *)
(* its predicate; it is written as a recursive function so that            *)
(* DirectiveProcessorProofs can prove what it returns.                     *)
(***************************************************************************)
EXTENDS Naturals, Sequences

Elements(q) == {q[i] : i \in DOMAIN q}

\* The elements of q that are in D, in the order q has them.
Keep(q, D) ==
  LET prefix[i \in 0 .. Len(q)] ==
        IF i = 0 THEN << >>
        ELSE IF q[i] \in D THEN Append(prefix[i - 1], q[i]) ELSE prefix[i - 1]
  IN  prefix[Len(q)]

\* q without the elements of D.
Without(q, D) == Keep(q, Elements(q) \ D)
=============================================================================
