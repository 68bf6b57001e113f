CONSTANTS
    Events = {e1, e2} Pointers = {}
    orderEvent = orderEvent unnamed = unnamed
    Names <- MCNames EventName <- MCEventName TypeName <- MCTypeName
    Topics = {orders, audit}
    NoTopic = NoTopic
SPECIFICATION Spec
INVARIANTS PublishedWhereAsked
CHECK_DEADLOCK FALSE
