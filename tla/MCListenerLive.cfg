\* Any two kinds of mishap, once each; a hop budget of one; one sweep thread.
CONSTANTS
    w1 = w1  me = me  peer = peer  s1 = s1  s2 = s2
    None = None
    Workspace = {w1}
    Name = {me, peer}
    Topic = {}
    Thread = {}
    DefaultDepth = 1
    ExpiresIn <- Always
    ReplyWithin <- AtOne
    Backfills = {}
    Registered <- Team
    Subscribed <- Nobody
    MaxMessages = 2
    MaxTime = 1
    Me <- MyKey
    Sweeper = {s1}
    Keeps <- Lost
    Budget <- Anything
    Kinds = 2
SPECIFICATION FairSpec
PROPERTIES EverythingHandedIn HopBudget
CHECK_DEADLOCK FALSE
