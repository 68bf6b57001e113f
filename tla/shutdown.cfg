CONSTANTS Consumers = {c1} SyncMessages = {m1} AsyncMessages = {m2, m3}
  Orders <- MCOrders Bus = Bus
SPECIFICATION FairSpec
INVARIANTS TypeOK ProducersOutliveHandlers ClientOutlivesMessages RunsOnlyWhenReady StopIsNeverStuck
PROPERTIES EveryMessageAnswered StopCompletes
CHECK_DEADLOCK FALSE
