------------------------------ MODULE MCLapses ------------------------------
(* Lapses on the small instances of MCListener. *)
EXTENDS MCListener, Lapses
=============================================================================
