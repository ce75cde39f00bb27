------------------------------- MODULE Sorted -------------------------------
(***************************************************************************)
(* The elements of a set of positions, in the order of a list: what is     *)
(* left of a list after some of its entries were filtered out.             *)
(***************************************************************************)
EXTENDS Integers, FiniteSets

\* The i-th element is the one that has i - 1 smaller ones.
InOrder(ps) ==
    [i \in 1..Cardinality(ps) |->
        CHOOSE p \in ps : Cardinality({q \in ps : q < p}) = i - 1]
=============================================================================
