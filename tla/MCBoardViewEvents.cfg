\* Two posts, two stamps, and no connection lost.
CONSTANTS
    History = 1
    MaxPosts = 2
    MaxStamps = 2
    MaxTime = 6
    MaxLosses = 0
SPECIFICATION ViewSpec
INVARIANTS EveryEventShown
CHECK_DEADLOCK FALSE
