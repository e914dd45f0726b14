----------------------------- MODULE UdpSessions -----------------------------
(***************************************************************************)
(* Datagrams: the sessions a server keeps per source address, over tcp     *)
(* tunnels when accept_udp is set (accept_udp.go) and over udp ones        *)
(* (udp.go), and the udp tunnels that the client dials.                    *)
(*                                                                         *)
(* A session is a slot of Ents, a udp tunnel (a source address of the      *)
(* client) a slot of Tuns.  Payloads are left out: what matters is whether *)
(* the channel that a datagram is sent on is still open, since a send on a *)
(* closed one ends the process.                                            *)
(***************************************************************************)
EXTENDS StreamTunnels

CONSTANTS Addrs, Ents, Tuns

ASSUME UdpAssumption == None \notin Addrs \cup Ents \cup Tuns

VARIABLES
    active,   \* activeConnections of the local listener
    ent,      \* Ents -> [at, addr, cong, open, tun]
    entQ,     \* udpChan
    uHold,    \* the session that handleLoop holds
    tmap, topen, \* activeConnections of the tunnel listener; open payloads
    tunQ,     \* tunnelChannel (udp)
    tcli      \* Tuns -> tunnelDialer: "none", "sent", "idle", "flow"

udpLocal == <<active, ent, entQ, uHold>>
udpTun == <<tmap, topen, tunQ, tcli>>
udpVars == <<udpLocal, udpTun>>

NoEnt == [at |-> "none", addr |-> None, cong |-> FALSE, open |-> FALSE, tun |-> None]

UdpInit ==
    /\ active = [a \in Addrs |-> None] /\ ent = [e \in Ents |-> NoEnt]
    /\ entQ = <<>> /\ uHold = None
    /\ tmap = {} /\ topen = {} /\ tunQ = <<>> /\ tcli = [t \in Tuns |-> "none"]

UdpTypeOK ==
    /\ active \in [Addrs -> Ents \cup {None}]
    /\ \A e \in Ents : ent[e].at \in {"none", "queued", "held", "flow", "orphan", "over"}
    /\ uHold \in Ents \cup {None} /\ {Len(entQ), Len(tunQ)} \subseteq 0..ChannelSize
    /\ tmap \subseteq Tuns /\ topen \subseteq Tuns /\ tcli \in [Tuns -> {"none", "sent", "idle", "flow"}]

FreeEnts == {e \in Ents : ent[e].at \in {"none", "over"} /\ \A a \in Addrs : active[a] # e}
EntAt(e, place) == ent' = [ent EXCEPT ![e].at = place]

-----------------------------------------------------------------------------
(* The local listener. *)

\* A datagram of an address without a session, or with one that is congested.
Opens(a) ==
    /\ mode \in {"tcp", "udp"} /\ a \in offer /\ Listening
    /\ active[a] # None => ent[active[a]].cong

\* udpListener, localListener: it starts a session.  When udpChan is full,
\* accept_udp leaves the session in the map; udp.go closes and deletes it.
StartsSession(a) ==
    LET e == Fresh(FreeEnts)
        new(place) == [ent EXCEPT ![e] = [NoEnt EXCEPT !.at = place, !.addr = a, !.open = TRUE]] IN
    /\ Opens(a) /\ FreeEnts # {}
    /\ \/ /\ Len(entQ) < ChannelSize
          /\ active' = [active EXCEPT ![a] = e] /\ ent' = new("queued")
          /\ entQ' = Append(entQ, e) /\ Ask
       \/ /\ Len(entQ) = ChannelSize /\ mode = "tcp"
          /\ active' = [active EXCEPT ![a] = e] /\ ent' = new("orphan")
          /\ UNCHANGED <<entQ, reqs>>
    /\ UNCHANGED <<streamCtl, arrived, streamPool, streamData, signals, faults, uHold, udpTun>>

\* localListener: the delete does not hold the mutex.  If a session that ends
\* deletes its entry at the same time the runtime may end the process, and what
\* supervises it (external) starts it again.
Throws(a) ==
    /\ Opens(a) /\ mode = "udp" /\ Len(entQ) = ChannelSize
    /\ \E e \in Ents : ent[e].at = "flow"
    /\ faults < MaxFaults /\ faults' = faults + 1
    /\ sUp' = FALSE /\ sLink' = "dead"
    /\ uHold' = None /\ ent' = [e \in Ents |-> NoEnt] /\ active' = [d \in Addrs |-> None]
    /\ UNCHANGED <<cUp, cLink, arrived, streamPool, streamData, sigVars, entQ, udpTun>>

-----------------------------------------------------------------------------
(* handleUDPLoop, handleLoop *)

\* A session in hand; over udp one older than three seconds is passed over, and
\* stays in the map.
UdpTakes ==
    /\ Listening /\ uHold = None /\ entQ # <<>>
    /\ entQ' = Tail(entQ)
    /\ \/ uHold' = Head(entQ) /\ EntAt(Head(entQ), "held")
       \/ mode = "udp" /\ EntAt(Head(entQ), "orphan") /\ UNCHANGED uHold
    /\ UNCHANGED <<streamVars, active, udpTun>>

\* Over tcp: the destination is sent on a tunnel connection, or on a dial for a
\* control channel; a write to one that is gone may fail, and the next is awaited.
UdpOverTcp ==
    /\ mode = "tcp" /\ sUp /\ uHold # None /\ arrived # <<>>
    /\ arrived' = Tail(arrived)
    /\ cLink' = IF Head(arrived) = "ctl" THEN "none" ELSE cLink
    /\ \/ EntAt(uHold, "flow") /\ uHold' = None
       \/ Head(arrived) = "gone" /\ UNCHANGED <<ent, uHold>>
    /\ UNCHANGED <<sUp, cUp, sLink, streamPool, streamData, sigVars, faults, active, entQ, udpTun>>

\* Over udp: the destination is sent to the tunnel's address; after a failed write
\* the tunnel is let go of, and stays in the map.
UdpOverUdp ==
    /\ mode = "udp" /\ sUp /\ uHold # None /\ tunQ # <<>>
    /\ tunQ' = Tail(tunQ)
    /\ \/ ent' = [ent EXCEPT ![uHold].at = "flow", ![uHold].tun = Head(tunQ)] /\ uHold' = None
       \/ faults < MaxFaults /\ UNCHANGED <<ent, uHold>>
    /\ faults' = IF uHold' = None THEN faults ELSE faults + 1
    /\ UNCHANGED <<streamCtl, arrived, streamPool, streamData, sigVars, active, entQ, tmap, topen, tcli>>

\* The loop returns with the context.
UdpReturns ==
    /\ ~sUp /\ uHold # None
    /\ EntAt(uHold, "orphan") /\ uHold' = None
    /\ UNCHANGED <<streamVars, active, entQ, udpTun>>

-----------------------------------------------------------------------------
(* UDPConnectionHandler, udpCopy *)

\* tcpToUDP: an answer took more than three round trips.
Congested(e) ==
    /\ mode = "tcp" /\ ent[e].at = "flow" /\ ~ent[e].cong
    /\ ent' = [ent EXCEPT ![e].cong = TRUE]
    /\ UNCHANGED <<streamVars, active, entQ, uHold, udpTun>>

\* A seeded fault: a congested session also deletes the entry of its address.
EndDeletes(e) == active' = [active EXCEPT ![ent[e].addr] = None]

\* A seeded fault: the entry outlives its payload channel.
EndKeepsEntry(e) == UNCHANGED active

\* The entry goes with the session, unless a congested one was replaced.
EndForgets(e) ==
    active' = IF ent[e].cong THEN active ELSE [active EXCEPT ![ent[e].addr] = None]

\* Both directions ended: over tcp, payload and entry go under the mutex.
HandlerEnds(e) ==
    /\ mode = "tcp" /\ ent[e].at = "flow"
    /\ ent' = [ent EXCEPT ![e].at = "over", ![e].open = FALSE]
    /\ EndForgets(e)
    /\ UNCHANGED <<streamVars, entQ, uHold, udpTun>>

\* Over udp, the tunnel and its entry follow, under the other mutex.
CopyEnds(e) ==
    /\ mode = "udp" /\ ent[e].at = "flow"
    /\ ent' = [ent EXCEPT ![e].at = "over", ![e].open = FALSE]
    /\ EndForgets(e)
    /\ tmap' = tmap \ {ent[e].tun} /\ topen' = topen \ {ent[e].tun}
    /\ UNCHANGED <<streamVars, entQ, uHold, tunQ, tcli>>

-----------------------------------------------------------------------------
(* Tunnels over udp. *)

InUse(t) == t \in tmap \/ \E e \in Ents : ent[e].tun = t /\ ent[e].at \in {"flow"}

\* tunnelDialer, handleTunnelConn: the token is sent, and the pool counts it.
SendsToken ==
    LET unused == {t \in Tuns \cap offer : tcli[t] = "none" /\ ~InUse(t)} IN
    /\ mode = "udp" /\ dials > 0 /\ cUp /\ unused # {}
    /\ dials' = dials - 1 /\ tcli' = [tcli EXCEPT ![Fresh(unused)] = "sent"]
    /\ UNCHANGED <<streamCtl, arrived, extra, tokens, streamData, sigVars, faults, udpLocal, tmap, topen, tunQ>>

\* acceptTunnelConn: the tunnel is queued, or closed and deleted for want of room.
TokenArrives(t) ==
    /\ tcli[t] = "sent" /\ Listening
    /\ tcli' = [tcli EXCEPT ![t] = "idle"]
    /\ IF Len(tunQ) < ChannelSize
       THEN tunQ' = Append(tunQ, t) /\ tmap' = tmap \cup {t} /\ topen' = topen \cup {t}
       ELSE UNCHANGED <<tunQ, tmap, topen>>
    /\ UNCHANGED <<streamVars, udpLocal>>

\* The network (external) loses the token: the client waits all the same.
TokenLost(t) ==
    /\ tcli[t] = "sent" /\ (faults < MaxFaults \/ ~Listening)
    /\ faults' = IF Listening THEN faults + 1 ELSE faults
    /\ tcli' = [tcli EXCEPT ![t] = "idle"]
    /\ UNCHANGED <<streamCtl, arrived, streamPool, streamData, sigVars, udpLocal, tmap, topen, tunQ>>

\* handleTunnelConn: the destination arrives, or what is taken for one.
Addressed(t) ==
    /\ tcli[t] = "idle" /\ \E e \in Ents : ent[e].at = "flow" /\ ent[e].tun = t
    /\ \E next \in {"flow", "none"} : tcli' = [tcli EXCEPT ![t] = next]
    /\ UNCHANGED <<streamVars, udpLocal, tmap, topen, tunQ>>

\* localDialer's copies end by their deadlines, or everything with the context.
TunnelEnds(t) ==
    /\ tcli[t] = "flow" \/ (~cUp /\ tcli[t] # "none")
    /\ tcli' = [tcli EXCEPT ![t] = "none"]
    /\ UNCHANGED <<streamVars, udpLocal, tmap, topen, tunQ>>

\* Restart: new maps and channels; the flows of before run on with the listener's map
\* of their own.  What is left to them of the new tunnel map is to delete their own
\* tunnel's address from it, which no new tunnel has: each is a socket of its own.
UdpForgotten ==
    /\ uHold = None
    /\ active' = [a \in Addrs |-> None] /\ entQ' = <<>>
    /\ ent' = [e \in Ents |-> NoEnt]
    /\ tmap' = {} /\ topen' = {} /\ tunQ' = <<>>
    /\ UNCHANGED <<uHold, tcli>>

UdpStep ==
    \/ \E a \in Addrs : StartsSession(a) \/ Throws(a)
    \/ UdpTakes \/ UdpOverTcp \/ UdpOverUdp \/ UdpReturns \/ SendsToken
    \/ \E e \in Ents : Congested(e) \/ HandlerEnds(e) \/ CopyEnds(e)
    \/ \E t \in Tuns : \/ TokenArrives(t) \/ TokenLost(t)
                       \/ Addressed(t) \/ TunnelEnds(t)

-----------------------------------------------------------------------------
(* Properties. *)

\* A listener never sends on a closed channel, which would end the process: the
\* sessions it would send to are open whenever it may look, and so are the tunnels.
NoSendOnClosed ==
    /\ \A a \in Addrs : (active[a] # None /\ ~ent[active[a]].cong) => ent[active[a]].open
    /\ tmap \subseteq topen

\* A congested session that was replaced leaves the entry of its successor alone:
\* a session that carries datagrams and may not be congested is in the map.
SuccessorKept ==
    \A e \in Ents : (ent[e].at \in {"queued", "held", "flow"} /\ ~ent[e].cong) => active[ent[e].addr] = e
=============================================================================
