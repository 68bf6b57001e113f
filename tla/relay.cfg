CONSTANTS
    Events = {e1, e2, e3} Pointers = {e3}
    orderEvent = orderEvent unnamed = unnamed
    Names <- MCNames EventName <- MCEventName TypeName <- MCTypeName
    Topics = {orders, audit}
    NoTopic = NoTopic
SPECIFICATION Spec
SYMMETRY Symmetry
INVARIANTS TypeOK TopicHasAReason SupportedIsRoutable SoleTopicIsServed DisabledUnlessAsked
CHECK_DEADLOCK FALSE
