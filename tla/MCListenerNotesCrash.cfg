\* Requests with a deadline; the listener dies once.
CONSTANTS
    w1 = w1  me = me  peer = peer  s1 = s1  s2 = s2
    None = None
    Workspace = {w1}
    Name = {me, peer}
    Topic = {}
    Thread = {}
    DefaultDepth = 2
    ExpiresIn <- Always
    ReplyWithin <- AtOne
    Backfills = {}
    Registered <- Team
    Subscribed <- Nobody
    MaxMessages = 2
    MaxTime = 1
    Me <- MyKey
    Sweeper = {s1, s2}
    Keeps <- Lost
    Budget <- Crashing
    Kinds = 7
SPECIFICATION ListenerSpec
INVARIANTS Told
SYMMETRY Threads
CHECK_DEADLOCK FALSE
