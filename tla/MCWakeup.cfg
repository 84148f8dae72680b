\* Two messages, three changes of topology, two failures.
CONSTANTS
    Topic = {"t1", "t2"}
    MaxPosts = 2
    MaxChanges = 3
    MaxFailures = 2
SPECIFICATION WakeupFairSpec
INVARIANTS WakeupTypeOK NeverNeither FollowsTopics
PROPERTY SweptOnNotice
