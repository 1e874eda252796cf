--------------------------- MODULE MCWeightedAlgo ---------------------------
(***************************************************************************)
(* WeightedAlgo for TLC: up to three records, weights with common divisors *)
(* and without, zero and negative ones (atoi takes a sign) among them.     *)
(***************************************************************************)
EXTENDS WeightedAlgo

MCWeights == (-4)..8
MCDivisors == (-9)..9
=============================================================================
