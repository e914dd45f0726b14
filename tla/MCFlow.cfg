\* A flow that is moved, perhaps at one end only, or resumed after its session has
\* died.  Under fairness:
\* a swap that stalls shows.
CONSTANTS
    RingLimit = 1
    MaxTunnels = 3
    Scenarios <- Orderlies
SPECIFICATION FairSpec
INVARIANTS Integrity CleanEnd NothingCutShort
PROPERTY Completes
