\* Any two kinds of mishap, once each, and requests with a deadline.
CONSTANTS
    w1 = w1  me = me  peer = peer  s1 = s1  s2 = s2
    None = None
    Workspace = {w1}
    Name = {me, peer}
    Topic = {}
    Thread = {}
    DefaultDepth = 2
    ExpiresIn <- Always
    ReplyWithin <- AtOne
    Backfills = {}
    Registered <- Team
    Subscribed <- Nobody
    MaxMessages = 2
    MaxTime = 1
    Me <- MyKey
    Sweeper = {s1, s2}
    Keeps <- EitherWay
    Budget <- Anything
    Kinds = 2
SPECIFICATION LapsesSpec
INVARIANTS ListenerTypeOK NoStranded NoteKept ToldOnce AnsweredOrToldInBudget
PROPERTIES NeverTypesMidTurn NoRepeat
SYMMETRY Threads
CHECK_DEADLOCK FALSE
