---------------------------- MODULE StreamTunnels ----------------------------
(***************************************************************************)
(* The tcp, tcpmux and udp transports: a control channel that is made      *)
(* again by restarting both ends, and tunnel connections the client dials  *)
(* ahead (the datagrams of udp are in UdpSessions).                        *)
(* Over tcp each one is given to one local connection (tcp.go); over       *)
(* tcpmux each one is a session that carries up to MuxCon of them          *)
(* (tcpmux.go).                                                            *)
(*                                                                         *)
(* Restart cancels the context, closes the control channel, sleeps for two *)
(* seconds and publishes new channels.  It is assumed that the workers     *)
(* that can run have returned by then: that is the guard of the publishing *)
(* step.  Connections that nobody reads or closes stay as they are.        *)
(***************************************************************************)
EXTENDS TunnelCommon

CONSTANTS Sessions,     \* slots for tcpmux sessions
          MuxCon,       \* mux_con
          MaxDials      \* bound on tunnel dials in flight

ASSUME StreamAssumption == None \notin Sessions /\ MuxCon \in Nat \ {0} /\ MaxDials \in Nat /\ MaxDials >= Floor

VARIABLES
    sUp, cUp, \* the end runs, or its Restart is asleep
    sLink,    \* server's control channel: "none", "up", "dead"
    cLink,    \* client's: "none", "asked" (the token was sent), "up", "dead"
    arrived,  \* tunnelChannel (tcp), or the handshake (tcpmux): "ctl", "tun", "gone"
    dials,    \* tunnel dials in flight
    hold,     \* the local connection handleLoop holds (tcp)
    sess,     \* Sessions -> [at, live, used, local] (tcpmux)
    owner,    \* Locals -> the session that carries it
    streams, sessions \* streamCounter, sessionCounter

streamCtl == <<sUp, cUp, sLink, cLink>>
streamPool == <<dials, extra, tokens>>
streamData == <<localQ, local, hold, sess, owner, streams, sessions>>
streamVars == <<streamCtl, arrived, streamPool, streamData, sigVars, faults>>

NoSess == [at |-> "none", live |-> FALSE, used |-> 0, local |-> None]

StreamInit ==
    /\ sUp = TRUE /\ cUp = TRUE /\ sLink = "none" /\ cLink = "none"
    /\ arrived = <<>> /\ dials = 0 /\ hold = None
    /\ sess = [x \in Sessions |-> NoSess] /\ owner = [l \in Locals |-> None]
    /\ streams = 0 /\ sessions = 0

StreamTypeOK ==
    /\ CommonTypeOK
    /\ {sUp, cUp} \subseteq BOOLEAN
    /\ sLink \in {"none", "up", "dead"} /\ cLink \in {"none", "asked", "up", "dead"}
    /\ Len(arrived) <= ChannelSize /\ \A i \in 1..Len(arrived) : arrived[i] \in {"ctl", "tun", "gone"}
    /\ dials \in 0..MaxDials /\ hold \in Locals \cup {None}
    /\ \A x \in Sessions : /\ sess[x].at \in {"none", "queued", "slot", "take", "open", "send", "over"}
                           /\ sess[x].used \in 0..MuxCon /\ sess[x].local \in Locals \cup {None}
    /\ streams \in Int /\ sessions \in Int

\* A slot that no session uses, or only one that returned and carries nothing.
FreeSlots == {x \in Sessions : sess[x].at = "none" \/ (sess[x].at = "over" /\ \A l \in Locals : owner[l] # x)}

AddSession(isLive) ==
    /\ FreeSlots # {}
    /\ sess' = [sess EXCEPT ![Fresh(FreeSlots)] = [NoSess EXCEPT !.at = "queued", !.live = isLive]]

\* A new session is queued, or closed when tunnelChannel is full.
QueueSession(isLive) ==
    IF Cardinality({x \in Sessions : sess[x].at = "queued"}) < ChannelSize
    THEN AddSession(isLive) ELSE UNCHANGED sess

-----------------------------------------------------------------------------
(* The control channel. *)

\* acceptTunnelConn: tunnelChannel takes what fits; over tcpmux and
\* udp the handshake takes one connection at a time, until it has its channel.
Room == IF mode = "tcp" THEN Len(arrived) < ChannelSize ELSE sLink = "none" /\ arrived = <<>>

\* channelDialer: the token is sent and the answer awaited.
DialControl ==
    /\ cUp /\ cLink = "none" /\ sUp /\ Room
    /\ arrived' = Append(arrived, "ctl")
    /\ cLink' = "asked"
    /\ UNCHANGED <<sUp, cUp, sLink, streamPool, streamData, sigVars, faults>>

\* Over tcpmux a server that still has its old control channel takes the dial for
\* a tunnel: it queues a session that the client has given up.
DialWasted ==
    /\ mode = "tcpmux" /\ cUp /\ cLink = "none" /\ sUp /\ sLink # "none"
    /\ QueueSession(FALSE)
    /\ UNCHANGED <<streamCtl, arrived, streamPool, localQ, local, hold, owner, streams, sessions, sigVars, faults>>

Replaced(s, a, b) == [i \in 1..Len(s) |-> IF s[i] = a THEN b ELSE s[i]]

\* No answer within two seconds: the dial is closed, and made again.
DialTimesOut ==
    /\ cLink = "asked"
    /\ cLink' = "none"
    /\ arrived' = Replaced(arrived, "ctl", "gone")
    /\ UNCHANGED <<sUp, cUp, sLink, streamPool, streamData, sigVars, faults>>

\* channelHandshake: a connection that sends the token becomes the control
\* channel, and the client fills its pool; any other one is closed.  A dial that
\* was given up meanwhile may still be answered: the channel is dead at once.
ChannelHandshake ==
    /\ sUp /\ sLink = "none" /\ arrived # <<>>
    /\ arrived' = Tail(arrived)
    /\ \/ Head(arrived) = "ctl" /\ sLink' = "up" /\ cLink' = "up" /\ dials' = Floor
       \/ Head(arrived) = "gone" /\ sLink' = "dead" /\ UNCHANGED <<cLink, dials>>
       \/ Head(arrived) \in {"tun", "gone"} /\ UNCHANGED <<sLink, cLink, dials>>
    /\ UNCHANGED <<sUp, cUp, extra, tokens, streamData, sigVars, faults>>

\* A seeded fault: a heartbeat that fails goes unnoticed.
NoticeNothing == FALSE /\ UNCHANGED streamVars

\* channelHandler (server): a read, a heartbeat or a request fails, or SG_Closed
\* came: Restart cancels the context and closes the control channel.
ServerRestarts ==
    /\ sUp /\ sLink = "dead"
    /\ sUp' = FALSE
    /\ UNCHANGED <<cUp, sLink, cLink, arrived, streamPool, streamData, sigVars, faults>>

\* Restart, after its sleep: the channels are made anew, and what they held is
\* dropped without being closed.
ServerPublishes ==
    /\ ~sUp /\ hold = None /\ \A x \in Sessions : sess[x].at \in {"none", "queued", "slot", "over"}
    /\ \A l \in Locals : local[l] # "flow"
    /\ sUp' = TRUE /\ sLink' = "none" /\ arrived' = <<>> /\ reqs' = 0
    /\ localQ' = <<>> /\ local' = [l \in Locals |-> IF local[l] = "queued" THEN "closed" ELSE local[l]]
    /\ sess' = [x \in Sessions |-> NoSess] /\ streams' = 0 /\ sessions' = 0
    /\ UNCHANGED <<cUp, cLink, streamPool, hold, owner, signals, faults>>

\* channelHandler (client): the same, and the server's end is closed with it.
ClientRestarts ==
    /\ cUp /\ cLink = "dead"
    /\ cUp' = FALSE
    /\ sLink' = IF sLink = "up" THEN "dead" ELSE sLink
    /\ UNCHANGED <<sUp, cLink, arrived, streamPool, streamData, sigVars, faults>>

ClientComesBack ==
    /\ ~cUp
    /\ cUp' = TRUE /\ cLink' = "none" /\ extra' = 0 /\ tokens' = 0 /\ signals' = 0
    /\ UNCHANGED <<sUp, sLink, arrived, dials, streamData, reqs, faults>>

\* The client sees that the server closed the control channel.
ClientLoses ==
    /\ cLink = "up" /\ sLink # "up"
    /\ cLink' = "dead"
    /\ UNCHANGED <<sUp, cUp, sLink, arrived, streamPool, streamData, sigVars, faults>>

\* channelHandler (server): a request is signalled.
SignalChan ==
    /\ sUp /\ sLink = "up" /\ reqs > 0 /\ signals < ChannelSize
    /\ reqs' = reqs - 1 /\ signals' = signals + 1
    /\ UNCHANGED <<streamCtl, arrived, streamPool, streamData, faults>>

\* channelHandler (client) on SG_Chan: a token swallows it, whatever its age.
OnChan ==
    /\ cUp /\ cLink = "up" /\ signals > 0
    /\ signals' = signals - 1
    /\ IF tokens > 0 THEN tokens' = tokens - 1 /\ UNCHANGED dials
       ELSE dials < MaxDials /\ dials' = dials + 1 /\ UNCHANGED tokens
    /\ UNCHANGED <<streamCtl, arrived, extra, streamData, reqs, faults>>

\* poolMaintainer's load tick, with the load for its input.
PoolGrows ==
    /\ "load" \in offer /\ cUp /\ cLink = "up" /\ extra = 0 /\ dials < MaxDials
    /\ extra' = 1 /\ dials' = dials + 1
    /\ UNCHANGED <<streamCtl, arrived, tokens, streamData, sigVars, faults>>

PoolShrinks ==
    /\ cUp /\ extra = 1
    /\ extra' = 0 /\ tokens' = 1
    /\ UNCHANGED <<streamCtl, arrived, dials, streamData, sigVars, faults>>

\* The network (external): the control channel is cut, and one end notices first.
ControlCut ==
    /\ faults < MaxFaults /\ sLink = "up" /\ cLink = "up"
    /\ faults' = faults + 1 /\ signals' = 0
    /\ \/ sLink' = "dead" /\ UNCHANGED cLink
       \/ cLink' = "dead" /\ UNCHANGED sLink
    /\ UNCHANGED <<sUp, cUp, arrived, streamPool, streamData, reqs>>

-----------------------------------------------------------------------------
(* Tunnel connections. *)

\* tunnelDialer over tcp: queued for a handle loop, or refused.
TcpTunnel ==
    /\ mode = "tcp" /\ dials > 0
    /\ dials' = dials - 1
    /\ arrived' = IF sUp /\ Room THEN Append(arrived, "tun") ELSE arrived
    /\ UNCHANGED <<streamCtl, extra, tokens, streamData, sigVars, faults>>

\* tunnelDialer over tcpmux: with a control channel the connection is made a
\* session and queued; without one it is taken for a control channel, or refused.
MuxTunnel ==
    /\ mode = "tcpmux" /\ dials > 0
    /\ dials' = dials - 1
    /\ \/ /\ sUp /\ sLink # "none"
          /\ QueueSession(TRUE)
          /\ UNCHANGED arrived
       \/ /\ ~sUp \/ sLink = "none"
          /\ arrived' = IF sUp /\ Room THEN Append(arrived, "tun") ELSE arrived
          /\ UNCHANGED sess
    /\ UNCHANGED <<streamCtl, extra, tokens, localQ, local, hold, owner, streams, sessions, sigVars, faults>>

-----------------------------------------------------------------------------
(* Local connections. *)

Listening == sUp /\ sLink # "none"

\* acceptLocalConn over tcp: every local connection asks for a tunnel.
TcpAccept(l) ==
    /\ mode = "tcp" /\ Listening /\ Accept(l) /\ AskIf(local'[l] = "queued")
    /\ UNCHANGED <<streamCtl, arrived, streamPool, hold, sess, owner, streams, sessions, signals, faults>>

\* acceptLocalConn over tcpmux: only when the sessions have no room for it.
MuxAccept(l) ==
    /\ mode = "tcpmux" /\ Listening /\ Accept(l)
    /\ streams' = IF local'[l] = "queued" THEN streams + 1 ELSE streams
    /\ AskIf(local'[l] = "queued" /\ streams' >= sessions * MuxCon)
    /\ UNCHANGED <<streamCtl, arrived, streamPool, hold, sess, owner, sessions, signals, faults>>

\* handleLoop: a local connection in hand, or closed if older than three seconds.
TcpTakes ==
    /\ mode = "tcp" /\ Listening /\ hold = None /\ localQ # <<>>
    /\ localQ' = Tail(localQ)
    /\ \/ hold' = Head(localQ) /\ local' = [local EXCEPT ![Head(localQ)] = "held"]
       \/ local' = [local EXCEPT ![Head(localQ)] = "closed"] /\ UNCHANGED hold
    /\ UNCHANGED <<streamCtl, arrived, streamPool, sess, owner, streams, sessions, sigVars, faults>>

\* handleLoop: a tunnel connection is given the destination.  One that is gone
\* may be noticed, and the age is looked at again; a control channel that was
\* dialled meanwhile is given it too, and the client drops it.
TcpHandsOver ==
    /\ sUp /\ hold # None /\ arrived # <<>>
    /\ arrived' = Tail(arrived)
    /\ cLink' = IF Head(arrived) = "ctl" THEN "none" ELSE cLink
    /\ \/ local' = [local EXCEPT ![hold] = "flow"] /\ hold' = None
       \/ Head(arrived) = "gone" /\ local' = [local EXCEPT ![hold] = "closed"] /\ hold' = None
       \/ Head(arrived) = "gone" /\ UNCHANGED <<local, hold>>
    /\ UNCHANGED <<sUp, cUp, sLink, streamPool, localQ, sess, owner, streams, sessions, sigVars, faults>>

\* handleLoop returns with the context: what it holds is dropped.
TcpReturns ==
    /\ ~sUp /\ hold # None
    /\ local' = [local EXCEPT ![hold] = "closed"] /\ hold' = None
    /\ UNCHANGED <<streamCtl, arrived, streamPool, localQ, sess, owner, streams, sessions, sigVars, faults>>

\* TCPConnectionHandler ends.
TcpFlowEnds(l) ==
    /\ mode = "tcp" /\ local[l] = "flow"
    /\ local' = [local EXCEPT ![l] = "closed"]
    /\ UNCHANGED <<streamCtl, arrived, streamPool, localQ, hold, sess, owner, streams, sessions, sigVars, faults>>

-----------------------------------------------------------------------------
(* Sessions of tcpmux. *)

muxRest == <<streamCtl, arrived, streamPool, hold, signals, faults>>
At(x, place) == sess' = [sess EXCEPT ![x].at = place]

\* handleLoop: a queued session is counted and gets its handleSession.
SessionStarts(x) ==
    /\ Listening /\ sess[x].at = "queued"
    /\ At(x, "slot") /\ sessions' = sessions + 1
    /\ UNCHANGED <<muxRest, localQ, local, owner, streams, reqs>>

\* handleSession: a slot is waited for, whatever becomes of the session.
TakeSlot(x) ==
    /\ sess[x].at = "slot" /\ sess[x].used < MuxCon
    /\ sess' = [sess EXCEPT ![x].at = "take", ![x].used = @ + 1]
    /\ UNCHANGED <<muxRest, localQ, local, owner, streams, sessions, reqs>>

\* A local connection older than three seconds is closed, and its slot returned.
TakeLocal(x) ==
    /\ sess[x].at = "take" /\ sUp /\ localQ # <<>>
    /\ localQ' = Tail(localQ)
    /\ \/ /\ sess' = [sess EXCEPT ![x].at = "open", ![x].local = Head(localQ)]
          /\ local' = [local EXCEPT ![Head(localQ)] = "held"] /\ UNCHANGED streams
       \/ /\ sess' = [sess EXCEPT ![x].at = "slot", ![x].used = @ - 1]
          /\ local' = [local EXCEPT ![Head(localQ)] = "closed"] /\ streams' = streams - 1
    /\ UNCHANGED <<muxRest, owner, sessions, reqs>>

\* A seeded fault: a connection that finds no room is closed, and stays counted.
RequeueUncounted(l) ==
    IF Len(localQ) < ChannelSize
    THEN localQ' = Append(localQ, l) /\ local' = [local EXCEPT ![l] = "queued"] /\ UNCHANGED streams
    ELSE local' = [local EXCEPT ![l] = "closed"] /\ UNCHANGED <<localQ, streams>>

\* The local connection goes back to localChannel, or is closed if that is full.
Requeue(l) ==
    IF Len(localQ) < ChannelSize
    THEN localQ' = Append(localQ, l) /\ local' = [local EXCEPT ![l] = "queued"] /\ UNCHANGED streams
    ELSE local' = [local EXCEPT ![l] = "closed"] /\ streams' = streams - 1 /\ UNCHANGED localQ

OpenStream(x) ==
    /\ sess[x].at = "open" /\ sess[x].live
    /\ At(x, "send")
    /\ UNCHANGED <<muxRest, localQ, local, owner, streams, sessions, reqs>>

\* handleSessionError: the session is dead; another one is asked for.
HandleSessionError(x) ==
    /\ sess[x].at = "open" /\ ~sess[x].live
    /\ sess' = [sess EXCEPT ![x].at = "over", ![x].local = None]
    /\ sessions' = sessions - 1 /\ Requeue(sess[x].local) /\ Ask
    /\ UNCHANGED <<muxRest, owner>>

SendAddress(x) ==
    /\ sess[x].at = "send" /\ sess[x].live
    /\ sess' = [sess EXCEPT ![x].at = "slot", ![x].local = None]
    /\ local' = [local EXCEPT ![sess[x].local] = "flow"]
    /\ owner' = [owner EXCEPT ![sess[x].local] = x]
    /\ UNCHANGED <<muxRest, localQ, streams, sessions, reqs>>

SendFails(x) ==
    /\ sess[x].at = "send" /\ ~sess[x].live
    /\ sess' = [sess EXCEPT ![x].at = "slot", ![x].local = None, ![x].used = @ - 1]
    /\ Requeue(sess[x].local)
    /\ UNCHANGED <<muxRest, owner, sessions, reqs>>

MuxFlowEnds(l) ==
    /\ mode = "tcpmux" /\ local[l] = "flow"
    /\ local' = [local EXCEPT ![l] = "closed"] /\ owner' = [owner EXCEPT ![l] = None]
    /\ sess' = [sess EXCEPT ![owner[l]].used = @ - 1]
    /\ streams' = streams - 1
    /\ UNCHANGED <<muxRest, localQ, sessions, reqs>>

\* handleSession returns with the context.
SessionReturns(x) ==
    /\ ~sUp /\ sess[x].at = "take"
    /\ At(x, "over")
    /\ UNCHANGED <<muxRest, localQ, local, owner, streams, sessions, reqs>>

\* The network or the client (external) ends a session.
SessionCut(x) ==
    /\ sess[x].live /\ faults < MaxFaults
    /\ faults' = faults + 1 /\ sess' = [sess EXCEPT ![x].live = FALSE]
    /\ UNCHANGED <<streamCtl, arrived, streamPool, hold, localQ, local, owner, streams, sessions, sigVars>>

StreamStep ==
    \/ DialControl \/ DialTimesOut \/ DialWasted \/ ChannelHandshake \/ ServerRestarts
    \/ ClientRestarts \/ ClientComesBack \/ ClientLoses \/ SignalChan \/ OnChan
    \/ PoolGrows \/ PoolShrinks \/ ControlCut \/ TcpTunnel \/ MuxTunnel
    \/ TcpTakes \/ TcpHandsOver \/ TcpReturns
    \/ \E l \in Locals : TcpAccept(l) \/ MuxAccept(l) \/ TcpFlowEnds(l) \/ MuxFlowEnds(l)
    \/ \E x \in Sessions : \/ SessionStarts(x) \/ TakeSlot(x) \/ TakeLocal(x) \/ OpenStream(x)
                          \/ HandleSessionError(x) \/ SendAddress(x) \/ SendFails(x)
                          \/ SessionReturns(x) \/ SessionCut(x)

-----------------------------------------------------------------------------
(* Properties. *)

\* streamCounter and the slots of a session are what they count, whichever way a
\* local connection leaves: else a session ends up refusing work, or the server
\* stops asking for sessions.
StreamsCounted ==
    mode = "tcpmux" =>
       /\ streams = Cardinality({l \in Locals : local[l] \in {"queued", "held", "flow"}})
       /\ \A x \in Sessions :
             sess[x].used = Cardinality({l \in Locals : owner[l] = x})
                             + (IF sess[x].at \in {"take", "open", "send", "over"} THEN 1 ELSE 0)

\* Whatever was cut, refused or answered too late, both ends come to share a
\* control channel again and keep it.
Reconnects == mode \in {"tcp", "tcpmux", "udp"} => <>[](sLink = "up" /\ cLink = "up")
=============================================================================
