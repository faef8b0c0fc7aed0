------------------------------ MODULE MCPager ------------------------------
(***************************************************************************)
(* An instance of Pager for TLC: two collections of up to three items, two *)
(* values to change an item to and back.                                   *)
(***************************************************************************)
EXTENDS Pager

MCIDs == 1 .. 3
=============================================================================
