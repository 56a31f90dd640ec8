CONSTANTS
    s1 = s1
    s2 = s2
    Streams = {s1}
    ChanCap = 1
    MaxRequest = 2
    Cap = 1
    MaxSeq = 2
    MaxCall = 2
SPECIFICATION Spec
PROPERTIES
    StopSuffices
\* after stop() and the end of the streams there is nothing left to do
CHECK_DEADLOCK FALSE
