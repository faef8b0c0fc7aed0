------------------------------ MODULE MCServe ------------------------------
(***************************************************************************)
(* An instance of Serve for TLC.                                           *)
(***************************************************************************)
EXTENDS Serve
=============================================================================
