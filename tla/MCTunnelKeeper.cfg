\* Two workspaces on one machine.
CONSTANTS
    Keeper = {k1, k2}
    NoPid = NoPid
    MaxLosses = 2
SPECIFICATION TunnelFairSpec
INVARIANTS TunnelTypeOK OneWorksUnlessRaced
PROPERTIES OrderLasts SettlesOnOne SomeoneWorks ComesUp
CHECK_DEADLOCK FALSE
