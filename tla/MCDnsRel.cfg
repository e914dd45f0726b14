CONSTANTS
  M = 8
  ISN = 6
  MaxBytes = 3
  Sizes = {1, 2}
  MaxInflight = 3
  RecvBuf = 3
  MaxNet = 2
  MaxFaults = 1
SPECIFICATION RelFairSpec
INVARIANTS InOrder SackedIsHeld
PROPERTY Delivered
CHECK_DEADLOCK FALSE
