\* Requests with a deadline deep in a chain of replies.
CONSTANTS
    w1 = w1  w2 = w2  n1 = n1  n2 = n2  t1 = t1
    None = None
    Workspace = {w1}
    Name = {n1, n2}
    Topic = {}
    Thread = {}
    DefaultDepth = 2
    ExpiresIn <- Always
    ReplyWithin <- ByOne
    Backfills <- Never
    Registered <- OneTeam
    Subscribed <- Nobody
    MaxMessages = 3
    MaxTime = 1
SPECIFICATION Spec
INVARIANTS AnsweredOrTold
VIEW Deadlines
