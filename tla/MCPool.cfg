\* One pool session and its rotations, with three slots: a session that waits for
\* its replacement, the replacement, and one more.  Under fairness.
CONSTANTS
  Sessions = {1, 2, 3}
  NoSession = NoSession
  PoolSize = 1
  MaxSize = 2
  MaxDials = 1
  PerTick = 4
  ChannelSize = 1
  MaxSignals = 1
  MaxTokens = 1
  MaxFaults = 1
SPECIFICATION FairSpec
INVARIANT EachReplacementPaysOnce
PROPERTY RotationProceeds
