----------------------------- MODULE MCLimiter -----------------------------
(***************************************************************************)
(* An instance of Limiter for TLC: three addresses compete for two         *)
(* buckets.                                                                *)
(***************************************************************************)
EXTENDS Limiter, TLC

Symmetry == Permutations(Addresses)
=============================================================================
