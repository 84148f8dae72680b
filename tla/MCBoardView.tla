----------------------------- MODULE MCBoardView -----------------------------
(* BoardView on a small instance. *)
EXTENDS BoardView
=============================================================================
