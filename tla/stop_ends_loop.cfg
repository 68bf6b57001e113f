CONSTANT Consumers = {c1}
SPECIFICATION FairSpec
PROPERTIES LoopEndsAfterStop
CHECK_DEADLOCK FALSE
