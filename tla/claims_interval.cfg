CONSTANTS
    Members = {m1, m2}
    Partitions = {p1}
    CommitMode = "AUTO_COMMIT_INTERVAL"
    InitialOffset = "newest"
    CrashesHappen = TRUE
    MaxMessages = 2
    MaxGeneration = 3
SPECIFICATION FairSpec
INVARIANTS OwedIsHeld
PROPERTIES ImplementsAtLeastOnce EveryMessageSettled
CHECK_DEADLOCK FALSE
