------------------------------ MODULE MCWakeup ------------------------------
(* Wakeup on a small instance. *)
EXTENDS Wakeup
=============================================================================
