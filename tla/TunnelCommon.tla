---------------------------- MODULE TunnelCommon ----------------------------
(***************************************************************************)
(* What the transports without resumable flows have in common: the local   *)
(* connections a server accepts, the requests for tunnel connections that  *)
(* reqNewConnChan holds and the SG_Chan signals that carry them to the     *)
(* client, and the shrink tokens of the client's pool.                     *)
(***************************************************************************)
EXTENDS Naturals, Integers, Sequences, FiniteSets, FiniteSetsExt

CONSTANTS Modes,        \* the transports: "ws", "tcp", "tcpmux", "udp"
          Locals, None,
          Offered,      \* per transport, sets of what may come from outside: local
                        \* connections, datagram sources, udp tunnels, "load" on the pool (a bound)
          ChannelSize,  \* channel_size: capacity of every server channel
          Floor,        \* connection_pool
          MaxFaults     \* bound on cuts and failed dials

ASSUME TunnelAssumption ==
    /\ Modes \subseteq {"ws", "tcp", "tcpmux", "udp"}
    /\ Modes \subseteq DOMAIN Offered
    /\ None \notin Locals /\ IsFiniteSet(Locals)
    /\ {ChannelSize, Floor} \subseteq Nat \ {0} /\ MaxFaults \in Nat

VARIABLES
    mode,       \* the configured transport
    offer,      \* what comes from outside
    reqs,       \* requests in reqNewConnChan
    signals,    \* SG_Chan on the way to the client
    localQ,     \* localChannel
    local,      \* Locals -> "new", "queued", "held", "flow", "closed"
    extra,      \* newPoolSize beyond the floor
    tokens,     \* controlFlow
    faults

sigVars == <<reqs, signals>>

\* Start (server.go, client.go): the configuration picks the transport.
CommonInit ==
    /\ mode \in Modes /\ offer \in Offered[mode]
    /\ reqs = 0 /\ signals = 0 /\ localQ = <<>>
    /\ local = [l \in Locals |-> IF l \in offer THEN "new" ELSE "closed"]
    /\ extra = 0 /\ tokens = 0 /\ faults = 0

CommonTypeOK ==
    /\ mode \in Modes
    /\ reqs \in 0..ChannelSize /\ signals \in 0..ChannelSize
    /\ local \in [Locals -> {"new", "queued", "held", "flow", "closed"}]
    /\ Len(localQ) <= ChannelSize
    /\ extra \in 0..1 /\ tokens \in 0..1 /\ faults \in 0..MaxFaults

\* A slot for what is created next: which one it gets does not matter.
Fresh(S) == CHOOSE x \in S : TRUE

\* A request for a tunnel connection, dropped when the channel is full.
AskIf(needed) == reqs' = IF needed /\ reqs < ChannelSize THEN reqs + 1 ELSE reqs
Ask == AskIf(TRUE)

\* acceptLocalConn: a local connection is queued, or refused for want of room.
Accept(l) ==
    /\ local[l] = "new"
    /\ IF Len(localQ) < ChannelSize
       THEN localQ' = Append(localQ, l) /\ local' = [local EXCEPT ![l] = "queued"]
       ELSE local' = [local EXCEPT ![l] = "closed"] /\ UNCHANGED localQ
=============================================================================
