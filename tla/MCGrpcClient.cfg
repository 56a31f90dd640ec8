CONSTANTS
    MaxThreads = 3
    Width = 2
    MaxCalls = 5
SPECIFICATION Spec
INVARIANTS
    TypeOK
    NothingDropped
    Balanced
PROPERTIES
    ClientIsDrain
    StopReturns
\* a process that has died makes no step
CHECK_DEADLOCK FALSE
