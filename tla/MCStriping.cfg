\* Three chunks over two legs with room for one and a budget of one: the watchdog
\* sends a chunk again, CloseWrite comes at any time, next to a Write too, and a leg
\* is cut, the flush runs out of time or the source breaks off.
CONSTANTS
  Legs = {l1, l2}
  MaxChunks = 3
  QueueCap = 1
  WireCap = 1
  ChCap = 1
  Limit = 1
  MaxResends = 1
  Faults = {"abort", "slow", "cut"}
SPECIFICATION Spec
INVARIANTS BudgetConserved LosslessOrLoud CloseIsLossless NeverStarved
SYMMETRY Symmetry
CONSTRAINT Reading
