CONSTANTS
    c1 = c1
    c2 = c2
    c3 = c3
    notice = notice
    order = order
    thread_count = 2
    Kinds = {notice, order}
    Calls = {c1, c2, c3}
    MaxStart = 2
SPECIFICATION Spec
INVARIANTS
    TypeOK
    CleanRestart
PROPERTIES
    StopIsDrain
    StopNeedsNoClient
\* attempts and calls are bounded, and an aborted process is not restarted
CHECK_DEADLOCK FALSE
