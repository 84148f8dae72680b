\* Two posts that may overlap, two stamps, a connection lost.
CONSTANTS
    History = 1
    MaxPosts = 2
    MaxStamps = 2
    MaxTime = 6
    MaxLosses = 1
SPECIFICATION ViewSpec
CHECK_DEADLOCK FALSE
INVARIANTS ViewTypeOK PrintedOnceInOrder EventsOnce NoMessageSkipped NoEventSkipped
