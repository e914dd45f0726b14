----------------------------- MODULE Transports -----------------------------
(***************************************************************************)
(* The transports without resumable flows, one of which Start runs         *)
(* (internal/server/server.go, internal/client/client.go).                 *)
(***************************************************************************)
EXTENDS WsTunnels, UdpSessions

vars == <<mode, offer, wsVars, streamVars, udpVars>>
wsOnly == <<ctlVars, queue, loop, srv, named, pinged, spoiled, lock, ka, carries, cli, pool, pending, owed, open>>
streamOnly == <<streamCtl, arrived, dials, hold, sess, owner, streams, sessions>>

Init == CommonInit /\ WsInit /\ StreamInit /\ UdpInit

\* One of the transports of StreamTunnels runs.
Streaming == mode # "ws"

Next ==
    \/ mode = "ws" /\ WsNext /\ UNCHANGED <<mode, offer, streamOnly, udpVars>>
    \/ Streaming /\ StreamStep /\ UNCHANGED <<mode, offer, wsOnly, udpVars>>
    \/ Streaming /\ ServerPublishes /\ UdpForgotten /\ UNCHANGED <<mode, offer, wsOnly>>
    \/ Streaming /\ UdpStep /\ UNCHANGED <<mode, offer, wsOnly>>

TypeOK == WsTypeOK /\ StreamTypeOK /\ UdpTypeOK

\* Both ends notice a dead channel, sleep, come back and dial; what waits is read;
\* and a dial that is made for ever is once answered before its two seconds end.
StreamFairness ==
    /\ WF_streamVars(Streaming /\ DialControl) /\ WF_streamVars(Streaming /\ ChannelHandshake)
    /\ SF_streamVars(Streaming /\ ChannelHandshake /\ Head(arrived) = "ctl")
    /\ WF_streamVars(Streaming /\ DialTimesOut)
    /\ WF_streamVars(Streaming /\ ServerRestarts)
    /\ WF_streamVars(Streaming /\ ServerPublishes /\ UdpForgotten)
    /\ WF_streamVars(Streaming /\ ClientRestarts)
    /\ WF_streamVars(Streaming /\ ClientComesBack)
    /\ WF_streamVars(Streaming /\ ClientLoses)
    /\ WF_streamVars(Streaming /\ TcpReturns) /\ WF_udpVars(Streaming /\ UdpReturns)
    /\ \A l \in Locals : WF_streamVars(Streaming /\ ~sUp /\ (TcpFlowEnds(l) \/ MuxFlowEnds(l)))
    /\ \A x \in Sessions : /\ WF_streamVars(Streaming /\ SessionReturns(x))
                           /\ WF_streamVars(Streaming /\ OpenStream(x))
                           /\ WF_streamVars(Streaming /\ SendAddress(x))
                           /\ WF_streamVars(Streaming /\ SendFails(x))
                           /\ WF_streamVars(Streaming /\ HandleSessionError(x))

FairSpec == Init /\ [][Next]_vars /\ WsFairness /\ StreamFairness
Spec == Init /\ [][Next]_vars /\ StreamFairness

\* The counters that decide on dials and on admission are what they count, across
\* restarts, failed dials and writes, requeued connections and sessions that die:
\* the client's poolConnections and pendingDials (ws), the server's streamCounter
\* and the slots of each session (tcpmux).
CountersTrue == PoolCounted /\ StreamsCounted
=============================================================================
