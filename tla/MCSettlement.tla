---------------------------- MODULE MCSettlement ----------------------------
(***************************************************************************)
(* A small instance of Settlement: powers of two instead of powers of ten, *)
(* two "18" decimals, tokens with fewer, as many and more decimals, and a  *)
(* word small enough for overflow and saturation to happen.                *)
(***************************************************************************)
EXTENDS Settlement

MCScale == [k \in 0..MaxDecimals |-> 2^k]

MCAmounts == {0, 1, 2, 5, MaxUint}

MCOutputMaxes == {0, 1, 3, 8, MaxUint}

MCRatios == {0, 1, 3, 4, 6, 8}

MCDecimals == {0, 1, 2, 3}

=============================================================================
