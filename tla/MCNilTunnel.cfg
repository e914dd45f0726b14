\* A session dies while the flow is being moved off it; the resumed flow is
\* moved again.
CONSTANTS
    RingLimit = 1
    MaxTunnels = 4
    Scenarios <- Interrupted
SPECIFICATION Spec
INVARIANTS NextIsPublished
