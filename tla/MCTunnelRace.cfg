\* Two workspaces started at the same time.
CONSTANTS
    Keeper = {k1, k2}
    NoPid = NoPid
    MaxLosses = 0
SPECIFICATION TunnelSpec
INVARIANT OnlyOneWorks
CHECK_DEADLOCK FALSE
