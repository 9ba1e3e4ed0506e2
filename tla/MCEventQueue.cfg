\* Two slots and five notifications: the channel fills with three forwarders waiting.
SPECIFICATION MCSpec
CONSTANTS
    Event = {e1, e2, e3, e4, e5}
    EventQueueCapacity = 2
INVARIANT NoneLost
PROPERTY DeliversAtMostOnce
PROPERTY EveryEventLeaves
PROPERTY ForwardersEnd
CHECK_DEADLOCK FALSE
