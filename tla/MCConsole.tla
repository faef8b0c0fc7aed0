----------------------------- MODULE MCConsole -----------------------------
(***************************************************************************)
(* Instances of Console for TLC: two tabs of one browser and two views, of *)
(* which one has buttons.                                                  *)
(***************************************************************************)
EXTENDS Console
=============================================================================
