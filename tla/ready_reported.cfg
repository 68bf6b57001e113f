CONSTANT Consumers = {c1}
SPECIFICATION FairSpec
PROPERTIES ReadinessIsReported
CHECK_DEADLOCK FALSE
