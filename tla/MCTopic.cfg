CONSTANTS
    Cap = 2
    MaxSeq = 3
    MaxCall = 3
SPECIFICATION Spec
INVARIANTS
    TypeOK
    BufferIsTail
    ExactFeed
    NothingWithheld
    CallbackOwned
PROPERTIES
    Retention
    FeedSpec
\* every counter is bounded and the last connection may be dropped
CHECK_DEADLOCK FALSE
