\* One of the four transports, with queues of one, a pool of one and one fault.
CONSTANTS
    l1 = l1
    l2 = l2
    a1 = a1
    a2 = a2
    a3 = a3
    t1 = t1
    t2 = t2
    Offered <- Few
    Modes = {"ws", "tcp", "tcpmux", "udp"}
    Conns = {c1, c2}
    Loops = {h1}
    Locals = {l1, l2}
    Sessions = {x1, x2}
    MuxCon = 1
    MaxDials = 1
    Addrs = {a1, a2, a3}
    Ents = {e1, e2}
    Tuns = {t1, t2}
    None = None
    ChannelSize = 1
    Floor = 1
    MaxFaults = 1
SPECIFICATION Spec
INVARIANTS CountersTrue NoSendOnClosed SuccessorKept
PROPERTIES HandedOverForGood Reconnects
\* Nothing has to happen once no connection comes from outside.
CHECK_DEADLOCK FALSE
