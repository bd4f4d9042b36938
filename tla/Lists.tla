------------------------------- MODULE Lists --------------------------------
(***************************************************************************)
(* The two library calls that most of the selection code is built of, sort  *)
(* and filter over a list, by position: the element at place k is the one   *)
(* that k - 1 others stand before.                                          *)
(***************************************************************************)
EXTENDS Integers, FiniteSets, SequencesExt, FiniteSetsExt

\* A list is a function on the positions from 1 to its length.
IsList(s) == Len(s) \in Nat /\ s = [k \in 1 .. Len(s) |-> s[k]]

\* slice::sort_by: the elements of S, of which before[x] go in front of x.
Sorted(S, before) ==
    [k \in 1 .. Cardinality(S) |-> CHOOSE x \in S : Cardinality(before[x]) = k - 1]

\* slice::sort of a set of numbers.
InOrder(S) == Sorted(S, [x \in S |-> {y \in S : y < x}])

\* Iterator::filter: what list s has at the positions K, in its order.
Keep(s, K) ==
    LET order == InOrder(K)
    IN  [k \in 1 .. Cardinality(K) |-> s[order[k]]]

=============================================================================
