CONSTANTS
    Members = {m1}
    Partitions = {p1}
    CommitMode = "AUTO_COMMIT_IMMEDIATELY"
    InitialOffset = "oldest"
    CrashesHappen = FALSE
    MaxMessages = 2
    MaxGeneration = 2
SPECIFICATION Spec
PROPERTIES SessionEndIsGraceful
CHECK_DEADLOCK FALSE
