CONSTANT Window = 2
SPECIFICATION Spec
INVARIANTS
    TypeOK
    Conversation
PROPERTIES
    CallsEnd
    NeedsNoDeadline
\* a call ends
CHECK_DEADLOCK FALSE
