\* Two control connections at a time, one fault: a cut, a reload of either end or
\* a dial that fails.  The grace period is held for at most two windows;
\* a second restart of the client may be asked for before the first has run.
CONSTANTS
    Conns = {1, 2}
    None = None
    MaxHold = 2
    MaxRequests = 1
    MaxCRequests = 2
    MaxFaults = 1
SPECIFICATION FairSpec
INVARIANTS ClaimExcludesControl LossIsWatched NothingTwice
PROPERTIES LateLossIsHarmless GraceEnds
