------------------------------ MODULE Ordering ------------------------------
(***************************************************************************)
(* Array.prototype.sort and filter as the queries use them: the same       *)
(* elements, each before those it is to come before.  (SetToSortSeq rests  *)
(* on TLC's SortSeq, which the provers do not know.)                       *)
(***************************************************************************)
EXTENDS Integers, SequencesExt

\* The members of S one after the other, each before those that before relates it to.
InOrder(S, before) ==
    CHOOSE s \in SetToSeqs(S) : \A i, j \in DOMAIN s : i < j => <<s[i], s[j]>> \in before

\* The order of numbers.
Ascending(S) == {p \in S \X S : p[1] < p[2]}
=============================================================================
