\* Two workspaces, every operation of the board and hand-written INSERTs.
CONSTANTS
    w1 = w1  w2 = w2  n1 = n1  n2 = n2  t1 = t1
    None = None
    Workspace = {w1, w2}
    Name = {n1, n2}
    Topic = {t1}
    Thread = {}
    DefaultDepth = 1
    ExpiresIn <- AtOne
    ReplyWithin <- Always
    Backfills <- Backfilled
    Registered <- Everybody
    Subscribed <- Nobody
    MaxMessages = 2
    MaxTime = 1
SPECIFICATION SpecSQL
INVARIANTS TypeOK NoEcho WorkspaceIsolation
PROPERTIES OnlyAckConsumes NeverRevived ImplementsMailbox
CHECK_DEADLOCK FALSE
SYMMETRY Swaps
