CONSTANTS
    x1 = x1
    x2 = x2
    Calls = {x1, x2}
    Messages = 2
    thread_count = 2
    MaxStart = 1
SPECIFICATION Spec
INVARIANTS
    NextMessageSent
\* calls are bounded and the server is not started again
CHECK_DEADLOCK FALSE
