CONSTANTS
    c1 = c1
    c2 = c2
    n1 = n1
    n2 = n2
    Callers = {c1, c2}
    Names = {n1, n2}
    Cap = 1
    MaxMsg = 3
    MaxCrash = 2
SPECIFICATION Spec
SYMMETRY Symmetry
INVARIANTS
    TypeOK
    OneTopic
    NumberNamesOneMessage
    DeliveredIsDurable
    BufferIsJournalTail
\* the messages and the crashes are bounded
CHECK_DEADLOCK FALSE
