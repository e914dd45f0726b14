\* A stream whose window is larger than the session's token bucket, with one of:
\* its window is changed, its reader closes it early, its writer times out.
\* The counters may be about to wrap.  When the stream is closed nothing is left to do.
CONSTANTS
    Streams = {a}
    Total = 5
    MaxFrameSize = 2
    MaxStreamBuffer = 4
    MaxReceiveBuffer = 2
    initialPeerWindow = 2
    Divisor = 2
    Mod = 16
    Carried = {0, 14}
    Windows = {3, 4}
    MaxEvents = 1
    ConnSize = 1
SPECIFICATION FairSpec
INVARIANTS EOFMeansAll WindowKept TokensConserved RecvLoopWoken
PROPERTY Completes
CHECK_DEADLOCK FALSE
