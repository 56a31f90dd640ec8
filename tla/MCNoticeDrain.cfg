CONSTANTS
    s1 = s1
    s2 = s2
    Streams = {s1, s2}
    ChanCap = 1
    MaxRequest = 1
    Cap = 1
    MaxSeq = 0
    MaxCall = 2
SPECIFICATION Spec
PROPERTIES
    DrainTerminates
\* after stop() and the end of the streams there is nothing left to do
CHECK_DEADLOCK FALSE
