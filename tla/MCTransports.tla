---------------------------- MODULE MCTransports ----------------------------
EXTENDS Transports

CONSTANTS l1, l2, a1, a2, a3, t1, t2

\* Two local connections, sources or tunnels where a queue of one must be found full;
\* three sources where a session ends besides.
Few == [ws     |-> {{l1, "load"}},
        tcp    |-> {{l1, a1}, {a1, a2}},
        tcpmux |-> {{l1, l2, "load"}},
        udp    |-> {{a1, a2, a3, t1}, {a1, t1, t2}}]
=============================================================================
