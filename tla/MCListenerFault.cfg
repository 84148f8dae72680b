\* A /clear, and one database failure.
CONSTANTS
    w1 = w1  me = me  peer = peer  s1 = s1  s2 = s2
    None = None
    Workspace = {w1}
    Name = {me, peer}
    Topic = {}
    Thread = {}
    DefaultDepth = 2
    ExpiresIn <- Always
    ReplyWithin <- Always
    Backfills = {}
    Registered <- Team
    Subscribed <- Nobody
    MaxMessages = 2
    MaxTime = 0
    Me <- MyKey
    Sweeper = {s1, s2}
    Keeps <- Lost
    Budget <- FaultyClear
    Kinds = 7
SPECIFICATION ListenerSpec
INVARIANTS HandedBack
SYMMETRY Threads
CHECK_DEADLOCK FALSE
