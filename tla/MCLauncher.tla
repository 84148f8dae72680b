----------------------------- MODULE MCLauncher -----------------------------
(* Launcher for two numbered agents. *)
EXTENDS Launcher
=============================================================================
