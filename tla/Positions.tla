------------------------------ MODULE Positions ------------------------------
(***************************************************************************)
(* What a loop that passes over some elements collects of a sequence.      *)
(***************************************************************************)
EXTENDS Integers, FiniteSets, Sequences

\* The elements of a sequence at these positions, in their order.
At(s, positions) ==
    [k \in 1..Cardinality(positions) |->
        s[CHOOSE p \in positions : Cardinality({q \in positions : q < p}) = k - 1]]

\* The values of a function of whole numbers, in the order of its arguments.
InOrder(f) == At(f, DOMAIN f)
=============================================================================
