CONSTANTS
    Members = {m1, m2}
    Partitions = {p1, p2}
    CommitMode = "AUTO_COMMIT_IMMEDIATELY"
    InitialOffset = "oldest"
    CrashesHappen = TRUE
    MaxMessages = 2
    MaxGeneration = 2
SPECIFICATION Spec
SYMMETRY Symmetry
INVARIANTS TypeOK CommittedWasHandled ClaimCoversItsPast ReplayWindow OwedIsHeld SettledInOrder OwnerIsAhead
CHECK_DEADLOCK FALSE
