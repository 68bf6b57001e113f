CONSTANT Consumers = {c1}
SPECIFICATION FairSpec
PROPERTIES StopReturns LoopEndsOnceReady StartProgress
CHECK_DEADLOCK FALSE
