--------------------------- MODULE MCTunnelKeeper ---------------------------
(* TunnelKeeper with the keepers of a few workspaces. *)
EXTENDS TunnelKeeper
=============================================================================
