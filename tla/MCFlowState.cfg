\* The ring: the code's sizes in units of the first allocation, scaled down: one
\* read of the app is two units, the limit starts at four and doubles once, an
\* emptied buffer above four is freed.
\* The tables: three sessions, a mover with one attempt besides driveResume, three
\* streams after the flow's first.
CONSTANTS
    MinCap = 1
    ReleaseAt = 4
    StartLimit = 4
    FlowMax = 8
    MaxWrite = 2
    MaxBytes = 12
    Carriers = {1, 2, 3}
    Movers = {m1}
    Attempts = 1
    MaxStreams = 4
    Ages <- HeldUpOrRetired
SPECIFICATION KeptSpec
INVARIANTS ReadAtOK NoLostWakeup StartedOnce CarrierOnRecord NotLeftBehind
PROPERTY ImplementsRetainedBytes
\* A flow that is over, with every session closed, has nothing left to do.
CHECK_DEADLOCK FALSE
