------------------------------- MODULE MCTotp -------------------------------
(***************************************************************************)
(* Instances of Totp for TLC: one user (the entries of different users are *)
(* independent), and documents that hold the user's seed, replace it, or   *)
(* no longer define the user.                                              *)
(***************************************************************************)
EXTENDS Totp, TLC

CONSTANTS u1

MCUsers == {u1}
Seeds12 == {1, 2}
Original == u1 :> 1
Rotated == u1 :> 2
Removed == [u \in {} |-> 0]
MCDocs == {Original, Rotated, Removed}
Symmetry == Permutations(Requests)
=============================================================================
