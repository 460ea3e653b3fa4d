-------------------------------- MODULE Listing --------------------------------
(***************************************************************************)
(* Numbers in ascending order, and the elements of a sequence at some of    *)
(* its places in their order.                                               *)
(***************************************************************************)
EXTENDS Integers, Sequences, FiniteSets

Ascending(S) ==
    [n \in 1..Cardinality(S) |-> CHOOSE x \in S : Cardinality({y \in S : y < x}) = n - 1]

Taken(seq, order) == [n \in DOMAIN order |-> seq[order[n]]]

At(seq, places) == Taken(seq, Ascending(places))

\* The elements that pass a test.
Keep(seq, Test(_)) == At(seq, {n \in DOMAIN seq : Test(seq[n])})
=============================================================================
