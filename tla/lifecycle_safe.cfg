CONSTANT Consumers = {c1, c2}
SPECIFICATION Spec
SYMMETRY Symmetry
INVARIANTS TypeOK SetupNeverPanics ReadyMeansEverySetUp NoCallAfterClose
PROPERTIES ImplementsConsumerService EachConsumerAlone
CHECK_DEADLOCK FALSE
