CONSTANTS
  l1 = l1
  l2 = l2
  a1 = a1
  a2 = a2
  a3 = a3
  t1 = t1
  t2 = t2
  Offered <- Few
  Modes = {"ws"}
  Conns = {c1, c2}
  Loops = {h1}
  Locals = {l1}
  Sessions = {x1}
  MuxCon = 1
  MaxDials = 1
  Addrs = {}
  Ents = {}
  Tuns = {}
  None = None
  ChannelSize = 1
  Floor = 1
  MaxFaults = 0
SPECIFICATION FairSpec
PROPERTY SetupIsBounded
CHECK_DEADLOCK FALSE
