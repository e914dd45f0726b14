\* Moves and resumes that time out, a session that dies, an app that fails, a
\* resume window that runs out, a flow that is given up on.  Nothing may get
\* stuck.
CONSTANTS
    RingLimit = 1
    MaxTunnels = 3
    Scenarios <- Disrupted
SPECIFICATION Spec
INVARIANTS PumpsAreWoken NoForgottenAck Undisturbed
