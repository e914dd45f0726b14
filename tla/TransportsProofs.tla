--------------------------- MODULE TransportsProofs ---------------------------
(***************************************************************************)
(* The transports without resumable flows, for any number of connections,   *)
(* sessions, sources and tunnels: the counters are what they count, a tunnel *)
(* that was handed over is left alone, no listener sends on a closed         *)
(* channel, and a replaced session does not take its successor's entry.      *)
(***************************************************************************)
EXTENDS Transports, FiniteSetTheorems, TLAPS

-----------------------------------------------------------------------------
(* ws: the client's pool. *)

PoolShape ==
    /\ cli \in [Conns -> {"none", "dialing", "idle", "flow"}]
    /\ DOMAIN ka = Conns /\ DOMAIN lock = Conns

PoolInv == PoolShape /\ PoolCounted

-----------------------------------------------------------------------------
(* tcpmux: the streams and the slots of the sessions. *)

Session == [at : {"none", "queued", "slot", "take", "open", "send", "over"}, live : BOOLEAN,
            used : Int, local : Locals \cup {None}]

MuxShape ==
    /\ local \in [Locals -> {"new", "queued", "held", "flow", "closed"}]
    /\ localQ \in Seq(Locals) /\ sess \in [Sessions -> Session]
    /\ owner \in [Locals -> Sessions \cup {None}] /\ streams \in Int

\* What is in localChannel is queued, and in it once.
QueuedMeans ==
    /\ \A k \in 1..Len(localQ) : local[localQ[k]] = "queued"
    /\ \A k, m \in 1..Len(localQ) : localQ[k] = localQ[m] => k = m

\* A handler holds one local connection, and no other handler that one.
Holds(x, l) == sess[x].at \in {"open", "send"} /\ sess[x].local = l
HeldMeans ==
    /\ \A x \in Sessions : sess[x].at \in {"open", "send"} => sess[x].local \in Locals /\ local[sess[x].local] = "held"
    /\ \A x, y \in Sessions, l \in Locals : Holds(x, l) /\ Holds(y, l) => x = y
    /\ \A l \in Locals : local[l] = "held" => \E x \in Sessions : Holds(x, l)

\* A flow is carried by a session that has started.
FlowMeans ==
    /\ \A l \in Locals : local[l] = "flow" <=> owner[l] # None
    /\ \A l \in Locals : owner[l] # None => sess[owner[l]].at \notin {"none", "queued"}

MuxInv ==
    mode = "tcpmux" => MuxShape /\ hold = None /\ QueuedMeans /\ HeldMeans /\ FlowMeans /\ StreamsCounted

-----------------------------------------------------------------------------
(* Datagrams. *)

Entry == [at : {"none", "queued", "held", "flow", "orphan", "over"}, addr : Addrs \cup {None},
          cong : BOOLEAN, open : BOOLEAN, tun : Tuns \cup {None}]

UdpShape ==
    /\ active \in [Addrs -> Ents \cup {None}] /\ ent \in [Ents -> Entry]
    /\ entQ \in Seq(Ents) /\ uHold \in Ents \cup {None} /\ tunQ \in Seq(Tuns)
    /\ \A e \in Ents : ent[e].at \in {"queued", "held", "flow"} => ent[e].addr \in Addrs

\* The entry of an address is a session of that address.
EntryMeans == \A a \in Addrs : active[a] # None => ent[active[a]].addr = a

\* A session waits once, and only while the server runs is the queue read.
WaitingMeans ==
    /\ sUp => \A k \in 1..Len(entQ) : ent[entQ[k]].at = "queued"
    /\ \A k, m \in 1..Len(entQ) : entQ[k] = entQ[m] => k = m
    /\ uHold # None => ent[uHold].at = "held"

UdpInv == UdpShape /\ EntryMeans /\ WaitingMeans /\ NoSendOnClosed /\ SuccessorKept

-----------------------------------------------------------------------------
(* Counting. *)

\* The members of T that f puts in state v.
In(f, v, T) == {c \in T : f[c] = v}

LEMMA InType ==
    ASSUME NEW T, IsFiniteSet(T), NEW f, NEW v
    PROVE  IsFiniteSet(In(f, v, T)) /\ Cardinality(In(f, v, T)) \in Nat
<1>1. In(f, v, T) \subseteq T
  BY DEF In
<1> QED
  BY <1>1, FS_Subset, FS_CardinalityType

\* One member that may come or go changes a count by that.
Bit(S, c) == IF c \in S THEN 1 ELSE 0

LEMMA CountMoves ==
    ASSUME NEW S, IsFiniteSet(S), NEW R, NEW c, R \ {c} = S \ {c}
    PROVE  IsFiniteSet(R) /\ Cardinality(R) = Cardinality(S) + Bit(R, c) - Bit(S, c)
<1>1. Cardinality(S) \in Nat
  BY FS_CardinalityType
<1>2. CASE c \in R
  <2>1. R = S \cup {c}
    BY <1>2
  <2>2. IsFiniteSet(R) /\ Cardinality(R) = IF c \in S THEN Cardinality(S) ELSE Cardinality(S) + 1
    BY <2>1, FS_AddElement
  <2> QED
    BY <1>1, <1>2, <2>2 DEF Bit
<1>3. CASE c \notin R
  <2>1. R = S \ {c}
    BY <1>3
  <2>2. IsFiniteSet(R) /\ Cardinality(R) = IF c \in S THEN Cardinality(S) - 1 ELSE Cardinality(S)
    BY <2>1, FS_RemoveElement
  <2> QED
    BY <1>1, <1>3, <2>2 DEF Bit
<1> QED
  BY <1>2, <1>3

\* The elements of a queue after a step.
LEMMA TailIs ==
    ASSUME NEW S, NEW q \in Seq(S), q # <<>>
    PROVE  /\ Tail(q) \in Seq(S) /\ Head(q) \in S /\ Head(q) = q[1] /\ 1 \in 1..Len(q)
           /\ Len(Tail(q)) = Len(q) - 1
           /\ \A k \in 1..Len(Tail(q)) : k + 1 \in 1..Len(q) /\ Tail(q)[k] = q[k + 1] /\ k + 1 # 1
OBVIOUS

LEMMA AppendIs ==
    ASSUME NEW S, NEW q \in Seq(S), NEW e \in S
    PROVE  /\ Append(q, e) \in Seq(S) /\ Len(q) \in Nat /\ Len(Append(q, e)) = Len(q) + 1
           /\ \A k \in 1..Len(Append(q, e)) : \/ k \in 1..Len(q) /\ Append(q, e)[k] = q[k]
                                              \/ k = Len(q) + 1 /\ Append(q, e)[k] = e
OBVIOUS

-----------------------------------------------------------------------------
(* ws: the client's pool. *)

LEMMA ConnsFinite == IsFiniteSet(Conns)
BY WsAssumption

LEMMA PoolIs ==
    PoolCounted <=> pool = Cardinality(In(cli, "idle", Conns)) /\ pending = Cardinality(In(cli, "dialing", Conns))
BY DEF PoolCounted, In

LEMMA PoolIsNext ==
    PoolCounted' <=> pool' = Cardinality(In(cli', "idle", Conns)) /\ pending' = Cardinality(In(cli', "dialing", Conns))
BY DEF PoolCounted, In

\* Dials that start are pending, every one of them.
LEMMA DialsStart ==
    ASSUME PoolShape, PoolCounted, NEW D \in SUBSET Conns, StartDials(D), pool' = pool
    PROVE  PoolCounted' /\ cli' \in [Conns -> {"none", "dialing", "idle", "flow"}]
<1>1. /\ \A c \in Conns : cli'[c] = IF c \in D THEN "dialing" ELSE cli[c]
      /\ \A c \in D : cli[c] = "none"
      /\ pending' = pending + Cardinality(D)
  BY DEF StartDials
<1>2. In(cli', "idle", Conns) = In(cli, "idle", Conns)
  BY <1>1 DEF In
<1>3. In(cli', "dialing", Conns) = In(cli, "dialing", Conns) \cup D /\ In(cli, "dialing", Conns) \cap D = {}
  BY <1>1 DEF In
<1>4. IsFiniteSet(D) /\ Cardinality(D) \in Nat
  BY ConnsFinite, FS_Subset, FS_CardinalityType
<1>5. IsFiniteSet(In(cli, "dialing", Conns)) /\ Cardinality(In(cli, "dialing", Conns)) \in Nat
  BY ConnsFinite, InType
<1>6. Cardinality(In(cli', "dialing", Conns))
        = Cardinality(In(cli, "dialing", Conns)) + Cardinality(D) - Cardinality(In(cli, "dialing", Conns) \cap D)
  BY <1>3, <1>4, <1>5, FS_Union
<1>7. Cardinality(In(cli, "dialing", Conns) \cap D) = 0
  BY <1>3, FS_EmptySet
<1>8. Cardinality(In(cli', "dialing", Conns)) = Cardinality(In(cli, "dialing", Conns)) + Cardinality(D)
  BY <1>4, <1>5, <1>6, <1>7
<1>9. cli' \in [Conns -> {"none", "dialing", "idle", "flow"}]
  BY DEF StartDials, PoolShape
<1> QED
  BY <1>1, <1>2, <1>8, <1>9, PoolIs, PoolIsNext

\* One connection changes its state.
LEMMA PoolMoves ==
    ASSUME PoolShape, PoolCounted, NEW c \in Conns, NEW v \in {"none", "dialing", "idle", "flow"},
           cli' = [cli EXCEPT ![c] = v],
           pool' = pool + (IF v = "idle" THEN 1 ELSE 0) - (IF cli[c] = "idle" THEN 1 ELSE 0),
           pending' = pending + (IF v = "dialing" THEN 1 ELSE 0) - (IF cli[c] = "dialing" THEN 1 ELSE 0)
    PROVE  PoolCounted' /\ cli' \in [Conns -> {"none", "dialing", "idle", "flow"}]
<1>1. cli'[c] = v /\ \A d \in Conns : d # c => cli'[d] = cli[d]
  BY DEF PoolShape
<1>2. /\ Cardinality(In(cli', "idle", Conns))
           = Cardinality(In(cli, "idle", Conns)) + (IF v = "idle" THEN 1 ELSE 0) - (IF cli[c] = "idle" THEN 1 ELSE 0)
      /\ Cardinality(In(cli', "dialing", Conns))
           = Cardinality(In(cli, "dialing", Conns)) + (IF v = "dialing" THEN 1 ELSE 0) - (IF cli[c] = "dialing" THEN 1 ELSE 0)
  <2>1. ASSUME NEW w
        PROVE  Cardinality(In(cli', w, Conns))
                 = Cardinality(In(cli, w, Conns)) + (IF v = w THEN 1 ELSE 0) - (IF cli[c] = w THEN 1 ELSE 0)
    <3>1. In(cli', w, Conns) \ {c} = In(cli, w, Conns) \ {c}
      BY <1>1 DEF In
    <3>2. IsFiniteSet(In(cli, w, Conns))
      BY ConnsFinite, InType
    <3>3. Cardinality(In(cli', w, Conns))
            = Cardinality(In(cli, w, Conns)) + Bit(In(cli', w, Conns), c) - Bit(In(cli, w, Conns), c)
      BY <3>1, <3>2, CountMoves
    <3>4. (c \in In(cli', w, Conns) <=> v = w) /\ (c \in In(cli, w, Conns) <=> cli[c] = w)
      BY <1>1 DEF In
    <3> QED
      BY <3>3, <3>4 DEF Bit
  <2> QED
    BY <2>1
<1>3. PoolCounted'
  BY <1>2, PoolIs, PoolIsNext
<1> QED
  BY <1>3 DEF PoolShape

LEMMA PoolCounts ==
    ASSUME PoolShape, PoolCounted
    PROVE  pool \in Nat /\ pending \in Nat
BY ConnsFinite, InType, PoolIs

LEMMA PoolWsStep ==
    ASSUME PoolInv, WsNext PROVE PoolInv'
<1> USE DEF PoolInv
<1>1. DOMAIN ka' = Conns /\ DOMAIN lock' = Conns
  BY DEF PoolShape, WsNext, ChannelDialer, ReconnectControl, OnControlLost, SendChan, RecvChan, RefillOwed, Grow, Shrink,
         RestartStops, RestartPublishes, ClientStops, ClientPublishes, Cut, AcceptLocal, LoopTakes, LoopExpires, LoopTunnel,
         LoopThrowsAway, LoopLocks, LoopHandsOver, LoopRetries, LoopReturns, DialSucceeds, DialFails, IdleDies, Assigned,
         ClientFlowEnds, FlowEnds, KaPing, KaWrote, KaWriteFails, KaCloses, KaTold, KaStops, RetireIdleTunnel, CloseIdleTunnel,
         KaMoves, srvVars
<1>2. CASE ChannelDialer \/ RecvChan \/ RefillOwed \/ Grow
  <2>1. pool' = pool
    BY <1>2 DEF ChannelDialer, RecvChan, RefillOwed, Grow
  <2>2. (\E D \in SUBSET Conns : StartDials(D)) \/ UNCHANGED <<cli, pending>>
    BY <1>2 DEF ChannelDialer, RecvChan, RefillOwed, Grow, kSubset
  <2>3. CASE UNCHANGED <<cli, pending>>
    BY <1>1, <2>1, <2>3 DEF PoolShape, PoolCounted
  <2> QED
    BY <1>1, <2>1, <2>2, <2>3, DialsStart DEF PoolShape
<1>3. CASE ClientPublishes
  <2>1. cli' = cli /\ pool' = 0 /\ pending' = 0 /\ In(cli, "idle", Conns) = {} /\ In(cli, "dialing", Conns) = {}
    BY <1>3 DEF ClientPublishes, In
  <2> QED
    BY <1>1, <2>1, FS_EmptySet, PoolIsNext DEF PoolShape
<1>4. ASSUME NEW c \in Conns, DialSucceeds(c) \/ DialFails(c) \/ IdleDies(c) \/ Assigned(c) \/ ClientFlowEnds(c) PROVE PoolInv'
  <2>1. pool \in Int /\ pending \in Int
    BY PoolCounts
  <2>2. CASE DialSucceeds(c)
    <3>1. \/ cli' = [cli EXCEPT ![c] = "none"] /\ pool' = pool
          \/ cli' = [cli EXCEPT ![c] = "idle"] /\ pool' = pool + 1
      BY <2>2 DEF DialSucceeds
    <3>2. cli[c] = "dialing" /\ pending' = pending - 1
      BY <2>2 DEF DialSucceeds
    <3> QED
      BY <1>1, <2>1, <3>1, <3>2, PoolMoves DEF PoolShape
  <2>3. CASE DialFails(c)
    <3>1. cli[c] = "dialing" /\ cli' = [cli EXCEPT ![c] = "none"] /\ pool' = pool /\ pending' = pending - 1
      BY <2>3 DEF DialFails
    <3>2. /\ pool' = pool + (IF "none" = "idle" THEN 1 ELSE 0) - (IF cli[c] = "idle" THEN 1 ELSE 0)
          /\ pending' = pending + (IF "none" = "dialing" THEN 1 ELSE 0) - (IF cli[c] = "dialing" THEN 1 ELSE 0)
      BY <2>1, <3>1
    <3> QED
      BY <1>1, <3>1, <3>2, PoolMoves DEF PoolShape
  <2>4. CASE IdleDies(c) \/ Assigned(c)
    BY <1>1, <2>1, <2>4, PoolMoves DEF IdleDies, Assigned, PoolShape
  <2>5. CASE ClientFlowEnds(c)
    <3>1. cli[c] = "flow" /\ cli' = [cli EXCEPT ![c] = "none"] /\ pool' = pool /\ pending' = pending
      BY <2>5 DEF ClientFlowEnds
    <3>2. /\ pool' = pool + (IF "none" = "idle" THEN 1 ELSE 0) - (IF cli[c] = "idle" THEN 1 ELSE 0)
          /\ pending' = pending + (IF "none" = "dialing" THEN 1 ELSE 0) - (IF cli[c] = "dialing" THEN 1 ELSE 0)
      BY <2>1, <3>1
    <3> QED
      BY <1>1, <3>1, <3>2, PoolMoves DEF PoolShape
  <2> QED
    BY <1>4, <2>2, <2>3, <2>4, <2>5
<1>5. ASSUME UNCHANGED <<cli, pool, pending>> PROVE PoolInv'
  BY <1>1, <1>5 DEF PoolShape, PoolCounted
<1>6. CASE ReconnectControl \/ OnControlLost \/ SendChan \/ Shrink \/ RestartStops \/ RestartPublishes \/ ClientStops \/ Cut
  <2>1. UNCHANGED <<cli, pool, pending>>
    BY <1>6 DEF ReconnectControl, OnControlLost, SendChan, Shrink, RestartStops, RestartPublishes, ClientStops, Cut, cliVars
  <2> QED
    BY <1>5, <2>1
<1>7. ASSUME NEW h \in Loops, LoopTakes(h) \/ LoopExpires(h) \/ LoopTunnel(h) \/ LoopThrowsAway(h) \/ LoopLocks(h)
                              \/ LoopHandsOver(h) \/ LoopRetries(h) \/ LoopReturns(h)
      PROVE  PoolInv'
  <2>1. UNCHANGED <<cli, pool, pending>>
    BY <1>7 DEF LoopTakes, LoopExpires, LoopTunnel, LoopThrowsAway, LoopLocks, LoopHandsOver, LoopRetries, LoopReturns, cliVars
  <2> QED
    BY <1>5, <2>1
<1>8. ASSUME NEW c \in Conns, FlowEnds(c) \/ KaPing(c) \/ KaWrote(c) \/ KaWriteFails(c) \/ KaCloses(c) \/ KaTold(c)
                              \/ KaStops(c) \/ RetireIdleTunnel(c) \/ CloseIdleTunnel(c)
      PROVE  PoolInv'
  <2>1. UNCHANGED <<cli, pool, pending>>
    BY <1>8 DEF FlowEnds, KaPing, KaWrote, KaWriteFails, KaCloses, KaTold, KaStops, RetireIdleTunnel, CloseIdleTunnel, cliVars
  <2> QED
    BY <1>5, <2>1
<1>9. ASSUME NEW l \in Locals, AcceptLocal(l) PROVE PoolInv'
  <2>1. UNCHANGED <<cli, pool, pending>>
    BY <1>9 DEF AcceptLocal, cliVars
  <2> QED
    BY <1>5, <2>1
<1> QED
  BY <1>2, <1>3, <1>4, <1>6, <1>7, <1>8, <1>9 DEF WsNext

LEMMA PoolStep ==
    ASSUME PoolInv, [Next]_vars PROVE PoolInv'
<1>1. CASE UNCHANGED wsOnly
  BY <1>1 DEF wsOnly, PoolInv, PoolShape, PoolCounted
<1>2. CASE UNCHANGED vars
  BY <1>2 DEF vars, wsVars, cliVars, srvVars, PoolInv, PoolShape, PoolCounted
<1> QED
  BY <1>1, <1>2, PoolWsStep DEF Next


LEMMA PoolStarts ==
    ASSUME Init PROVE PoolInv
<1>1. /\ cli = [c \in Conns |-> "none"] /\ DOMAIN ka = Conns /\ DOMAIN lock = Conns
      /\ pool = 0 /\ pending = 0
  BY DEF Init, WsInit
<1>2. In(cli, "idle", Conns) = {} /\ In(cli, "dialing", Conns) = {}
  BY <1>1 DEF In
<1> QED
  BY <1>1, <1>2, FS_EmptySet, PoolIs DEF PoolInv, PoolShape

LEMMA PoolHolds == Spec => []PoolInv
<1>1. Init => PoolInv
  BY PoolStarts
<1>2. PoolInv /\ [Next]_vars => PoolInv'
  BY PoolStep
<1> QED
  BY <1>1, <1>2, PTL DEF Spec

-----------------------------------------------------------------------------
(* ws: the hand-over of a connection. *)

\* A loop that waits has no connection; one that has taken one is the only one that
\* has, and holds the lock once it writes.
Has(h, c) == loop[h].at \in {"lock", "write"} /\ loop[h].conn = c
LoopMeans ==
    /\ DOMAIN loop = Loops /\ \A h \in Loops : DOMAIN loop[h] = {"at", "local", "conn"}
    /\ \A h \in Loops : loop[h].at = "wait" => loop[h].conn = None
    /\ \A h \in Loops : loop[h].at \in {"lock", "write"} => loop[h].conn \in Conns /\ srv[loop[h].conn] = "taken"
    /\ \A h, g \in Loops, c \in Conns : Has(h, c) /\ Has(g, c) => h = g
    /\ \A h \in Loops : loop[h].at = "write" => lock[loop[h].conn] = "loop"

\* What is in tunnelChannel is queued, and in it once.
WaitsOnce ==
    /\ queue \in Seq(Conns)
    /\ \A k \in 1..Len(queue) : srv[queue[k]] = "queued"
    /\ \A k, m \in 1..Len(queue) : queue[k] = queue[m] => k = m

\* A ping is written under the lock, and a flow's connection is locked by its loop
\* and has had no failed write; a slot is dialled when nothing refers to it.
LockMeans ==
    \A c \in Conns :
        /\ ka[c] = "write" => lock[c] = "ka"
        /\ ka[c] = "failed" => c \in spoiled
        /\ srv[c] = "flow" => lock[c] = "loop" /\ c \notin spoiled
        /\ cli[c] = "dialing" => srv[c] = "none" /\ ka[c] = "none"

HandShape == DOMAIN ka = Conns /\ DOMAIN lock = Conns /\ DOMAIN srv = Conns /\ DOMAIN cli = Conns

HandInv == HandShape /\ LoopMeans /\ WaitsOnce /\ LockMeans

LEMMA NoneIsNoConn == None \notin Conns
BY WsAssumption

LEMMA HandSame ==
    ASSUME HandInv, UNCHANGED <<loop, queue, srv, lock, ka, cli, spoiled>> PROVE HandInv'
BY DEF HandInv, HandShape, LoopMeans, Has, WaitsOnce, LockMeans

\* A dial begins on slots that nothing refers to.
LEMMA HandDials ==
    ASSUME HandInv, NEW D \in SUBSET Conns, StartDials(D), UNCHANGED <<queue, srv, lock, ka, spoiled>>,
           loop' = loop \/ (DOMAIN loop' = Loops /\ \A h \in Loops : loop'[h] = [AtRest EXCEPT !.at = "idle"])
    PROVE  HandInv'
<1>1. HandShape'
  BY DEF HandInv, HandShape, StartDials
<1>2. LoopMeans'
  BY DEF HandInv, LoopMeans, Has, AtRest
<1>3. WaitsOnce'
  BY DEF HandInv, WaitsOnce
<1>4. LockMeans'
  BY DEF HandInv, HandShape, LockMeans, StartDials
<1> QED
  BY <1>1, <1>2, <1>3, <1>4 DEF HandInv

\* A connection comes to the server.
LEMMA HandArrives ==
    ASSUME HandInv, NEW c \in Conns, DialSucceeds(c) PROVE HandInv'
<1> USE DEF HandInv
<1>1. /\ cli[c] = "dialing" /\ srv[c] = "none" /\ ka[c] = "none" /\ loop' = loop
      /\ lock' = [lock EXCEPT ![c] = "free"] /\ spoiled' = spoiled \ {c}
      /\ cli' = [cli EXCEPT ![c] = IF cOn THEN "idle" ELSE "none"]
      /\ \/ queue' = Append(queue, c) /\ srv' = [srv EXCEPT ![c] = "queued"] /\ ka' = [ka EXCEPT ![c] = "idle"]
         \/ UNCHANGED <<queue, srv, ka>>
  BY DEF DialSucceeds, LockMeans
<1>2. HandShape'
  BY <1>1 DEF HandShape
<1>3. LoopMeans'
  BY <1>1 DEF HandShape, LoopMeans, Has
<1>4. WaitsOnce'
  <2>1. CASE queue' = Append(queue, c) /\ srv' = [srv EXCEPT ![c] = "queued"]
    <3>1. queue' \in Seq(Conns) /\ Len(queue') = Len(queue) + 1 /\ Len(queue) \in Nat
      BY <2>1, AppendIs DEF WaitsOnce
    <3>2. \A k \in 1..Len(queue') : queue'[k] = IF k \in 1..Len(queue) THEN queue[k] ELSE c
      BY <2>1, AppendIs DEF WaitsOnce
    <3>3. \A k \in 1..Len(queue) : queue[k] \in Conns /\ queue[k] # c
      BY <1>1 DEF WaitsOnce
    <3> QED
      BY <2>1, <3>1, <3>2, <3>3 DEF WaitsOnce, HandShape
  <2> QED
    BY <1>1, <2>1 DEF WaitsOnce
<1>5. LockMeans'
  BY <1>1 DEF HandShape, LockMeans
<1> QED
  BY <1>2, <1>3, <1>4, <1>5

\* The head of tunnelChannel goes to a loop, or is thrown away.
LEMMA HandTaken ==
    ASSUME HandInv, NEW h \in Loops, LoopTunnel(h) \/ LoopThrowsAway(h) PROVE HandInv'
<1> DEFINE c == Head(queue)
<1> USE DEF HandInv
<1>0. queue \in Seq(Conns) /\ queue # <<>> /\ queue' = Tail(queue)
  BY DEF LoopTunnel, LoopThrowsAway, WaitsOnce
<1>1. /\ c = queue[1] /\ c \in Conns /\ srv[c] = "queued" /\ queue' \in Seq(Conns)
      /\ \A k \in 1..Len(queue') : k + 1 \in 1..Len(queue) /\ queue'[k] = queue[k + 1] /\ queue'[k] # c
  BY <1>0, TailIs DEF WaitsOnce
<1>2. /\ UNCHANGED <<lock, ka, cli, spoiled>>
      /\ \E v \in {"taken", "none"} : /\ srv' = [srv EXCEPT ![c] = v]
                                      /\ \/ v = "taken" /\ loop' = [loop EXCEPT ![h].at = "lock", ![h].conn = c]
                                         \/ \E a \in {"idle", "off"} : loop' = [loop EXCEPT ![h] = [AtRest EXCEPT !.at = a]]
  BY DEF LoopTunnel, LoopThrowsAway, cliVars
<1> HIDE DEF c
<1>3. /\ DOMAIN loop' = Loops /\ (\A g \in Loops : g # h => loop'[g] = loop[g]) /\ DOMAIN loop'[h] = {"at", "local", "conn"}
      /\ \/ loop'[h].at = "lock" /\ loop'[h].conn = c /\ srv'[c] = "taken"
         \/ loop'[h].at \in {"idle", "off"}
      /\ DOMAIN srv' = Conns /\ \A d \in Conns : d # c => srv'[d] = srv[d]
      /\ srv'[c] \in {"taken", "none"}
  BY <1>1, <1>2 DEF LoopMeans, HandShape, AtRest
<1>4. HandShape'
  BY <1>2, <1>3 DEF HandShape
<1>5. LoopMeans'
  BY <1>1, <1>2, <1>3 DEF LoopMeans, Has
<1>6. WaitsOnce'
  BY <1>0, <1>1, <1>3 DEF WaitsOnce
<1>7. LockMeans'
  BY <1>1, <1>2, <1>3 DEF LockMeans
<1> QED
  BY <1>4, <1>5, <1>6, <1>7

\* A loop moves on with the connection it has, or without one.
LEMMA HandLoops ==
    ASSUME HandInv, NEW h \in Loops,
           LoopTakes(h) \/ LoopExpires(h) \/ LoopLocks(h) \/ LoopHandsOver(h) \/ LoopRetries(h) \/ LoopReturns(h)
    PROVE  HandInv'
<1> USE DEF HandInv
<1>1. CASE LoopTakes(h) \/ LoopReturns(h)
  <2>1. /\ UNCHANGED <<queue, srv, lock, ka, cli, spoiled>>
        /\ \/ loop' = [loop EXCEPT ![h] = [at |-> "wait", local |-> Head(localQ), conn |-> None]]
           \/ loop' = [loop EXCEPT ![h] = AtRest] \/ loop' = loop
    BY <1>1 DEF LoopTakes, LoopReturns, cliVars
  <2>2. /\ DOMAIN loop' = Loops /\ (\A g \in Loops : g # h => loop'[g] = loop[g]) /\ DOMAIN loop'[h] = {"at", "local", "conn"}
        /\ loop' = loop \/ (loop'[h].at \in {"wait", "off"} /\ loop'[h].conn = None)
    BY <2>1 DEF LoopMeans, AtRest
  <2>3. LoopMeans'
    BY <2>1, <2>2 DEF LoopMeans, Has
  <2> QED
    BY <2>1, <2>3 DEF HandShape, WaitsOnce, LockMeans
<1>2. CASE LoopLocks(h)
  <2> DEFINE c == loop[h].conn
  <2>1. /\ loop[h].at = "lock" /\ lock[c] = "free" /\ lock' = [lock EXCEPT ![c] = "loop"]
        /\ loop' = [loop EXCEPT ![h].at = "write"] /\ UNCHANGED <<queue, srv, ka, cli, spoiled>>
    BY <1>2 DEF LoopLocks, cliVars
  <2>2. c \in Conns /\ srv[c] = "taken"
    BY <2>1 DEF LoopMeans
  <2>3. /\ DOMAIN loop' = Loops /\ (\A g \in Loops : g # h => loop'[g] = loop[g]) /\ DOMAIN loop'[h] = {"at", "local", "conn"}
        /\ loop'[h].at = "write" /\ loop'[h].conn = c
        /\ DOMAIN lock' = Conns /\ lock'[c] = "loop" /\ \A d \in Conns : d # c => lock'[d] = lock[d]
    BY <2>1, <2>2 DEF LoopMeans, HandShape
  <2> HIDE DEF c
  <2>4. LoopMeans'
    BY <2>1, <2>2, <2>3 DEF LoopMeans, Has
  <2>5. LockMeans'
    BY <2>1, <2>2, <2>3 DEF LockMeans
  <2> QED
    BY <2>1, <2>3, <2>4, <2>5 DEF HandShape, WaitsOnce
<1>3. CASE LoopExpires(h) /\ loop[h].at = "wait"
  <2>1. loop[h].conn = None
    BY <1>3 DEF LoopMeans
  <2>2. /\ UNCHANGED <<queue, lock, ka, cli, spoiled>>
        /\ DOMAIN srv' = Conns /\ \A d \in Conns : srv'[d] = srv[d]
        /\ \E a \in {"idle", "off"} : loop' = [loop EXCEPT ![h] = [AtRest EXCEPT !.at = a]]
    BY <1>3, <2>1, NoneIsNoConn DEF LoopExpires, LoopDrops, cliVars
  <2>3. /\ DOMAIN loop' = Loops /\ (\A g \in Loops : g # h => loop'[g] = loop[g]) /\ DOMAIN loop'[h] = {"at", "local", "conn"}
        /\ loop'[h].at \in {"idle", "off"}
    BY <2>2 DEF LoopMeans, AtRest
  <2>4. LoopMeans'
    BY <2>2, <2>3 DEF LoopMeans, Has
  <2>5. WaitsOnce' /\ LockMeans'
    BY <2>2 DEF WaitsOnce, LockMeans
  <2> QED
    BY <2>2, <2>4, <2>5 DEF HandShape
<1>4. CASE (LoopExpires(h) /\ loop[h].at # "wait") \/ LoopHandsOver(h) \/ LoopRetries(h)
  <2> DEFINE c == loop[h].conn
  <2>1. loop[h].at = "write" /\ c \in Conns /\ srv[c] = "taken" /\ lock[c] = "loop"
    BY <1>4 DEF LoopExpires, LoopHandsOver, LoopRetries, LoopMeans
  <2>2. /\ UNCHANGED <<queue, lock, ka, cli, spoiled>>
        /\ DOMAIN srv' = Conns /\ (\A d \in Conns : d # c => srv'[d] = srv[d])
        /\ srv'[c] = "none" \/ (srv'[c] = "flow" /\ c \notin spoiled)
    BY <1>4, <2>1 DEF LoopExpires, LoopDrops, LoopHandsOver, LoopRetries, cliVars, HandShape
  <2>3. \/ \E a \in {"idle", "off"} : loop' = [loop EXCEPT ![h] = [AtRest EXCEPT !.at = a]]
        \/ loop' = [loop EXCEPT ![h].at = "wait", ![h].conn = None]
    BY <1>4 DEF LoopExpires, LoopDrops, LoopHandsOver, LoopRetries
  <2>4. /\ DOMAIN loop' = Loops /\ (\A g \in Loops : g # h => loop'[g] = loop[g]) /\ DOMAIN loop'[h] = {"at", "local", "conn"}
        /\ loop'[h].at \in {"idle", "off", "wait"} /\ (loop'[h].at = "wait" => loop'[h].conn = None)
    BY <2>3 DEF LoopMeans, AtRest
  <2>5. \A g \in Loops : g # h => ~Has(g, c)
    BY <2>1 DEF LoopMeans, Has
  <2> HIDE DEF c
  <2>6. LoopMeans'
    BY <2>1, <2>2, <2>4, <2>5 DEF LoopMeans, Has
  <2>7. WaitsOnce'
    BY <2>1, <2>2 DEF WaitsOnce
  <2>8. LockMeans'
    BY <2>1, <2>2 DEF LockMeans
  <2> QED
    BY <2>2, <2>6, <2>7, <2>8 DEF HandShape
<1> QED
  BY <1>1, <1>2, <1>3, <1>4

\* keepAlive's steps.
LEMMA HandPings ==
    ASSUME HandInv, NEW c \in Conns, KaPing(c) \/ KaWrote(c) \/ KaWriteFails(c) \/ KaCloses(c) \/ KaTold(c) \/ KaStops(c)
                                     \/ RetireIdleTunnel(c) \/ CloseIdleTunnel(c)
    PROVE  HandInv'
<1> USE DEF HandInv
<1>1. UNCHANGED <<queue, loop, srv, cli>> /\ ka[c] # "none"
  BY DEF KaPing, KaWrote, KaWriteFails, KaCloses, KaTold, KaStops, RetireIdleTunnel, CloseIdleTunnel, KaMoves, cliVars
<1>2. /\ DOMAIN ka' = Conns /\ DOMAIN lock' = Conns
      /\ \A d \in Conns : d # c => ka'[d] = ka[d] /\ lock'[d] = lock[d] /\ (d \in spoiled' <=> d \in spoiled)
  BY DEF KaPing, KaWrote, KaWriteFails, KaCloses, KaTold, KaStops, RetireIdleTunnel, CloseIdleTunnel, KaMoves, HandShape
<1>3. \/ lock[c] = "free" /\ lock'[c] = "ka" /\ ka'[c] = "write" /\ spoiled' = spoiled
      \/ lock[c] = "ka" /\ lock'[c] = "free" /\ ka'[c] = "idle" /\ spoiled' = spoiled
      \/ lock[c] = "ka" /\ lock'[c] = "free" /\ ka'[c] = "failed" /\ c \in spoiled'
      \/ lock' = lock /\ ka'[c] \in {"none", "retire"} /\ spoiled' = spoiled
      \/ lock[c] = "free" /\ lock'[c] = "retired" /\ ka'[c] = "none" /\ spoiled' = spoiled
  <2>1. CASE KaPing(c) \/ KaWrote(c) \/ KaWriteFails(c)
    BY <2>1 DEF KaPing, KaWrote, KaWriteFails, KaMoves, HandShape, LockMeans
  <2>2. CASE KaCloses(c) \/ KaTold(c) \/ KaStops(c) \/ RetireIdleTunnel(c) \/ CloseIdleTunnel(c)
    BY <2>2 DEF KaCloses, KaTold, KaStops, RetireIdleTunnel, CloseIdleTunnel, KaMoves, HandShape
  <2> QED
    BY <2>1, <2>2
<1>4. LoopMeans'
  BY <1>1, <1>2, <1>3 DEF LoopMeans, Has
<1>5. LockMeans'
  BY <1>1, <1>2, <1>3 DEF LockMeans
<1> QED
  BY <1>1, <1>2, <1>4, <1>5 DEF HandShape, WaitsOnce

LEMMA HandWsStep ==
    ASSUME HandInv, WsNext PROVE HandInv'
<1>1. CASE ChannelDialer \/ ReconnectControl \/ RecvChan \/ RefillOwed \/ Grow
  <2>1. UNCHANGED <<queue, srv, lock, ka, spoiled>>
    BY <1>1 DEF ChannelDialer, ReconnectControl, RecvChan, RefillOwed, Grow, srvVars
  <2>2. loop' = loop \/ (DOMAIN loop' = Loops /\ \A h \in Loops : loop'[h] = [AtRest EXCEPT !.at = "idle"])
    <3>1. loop' = loop \/ Adopt
      BY <1>1 DEF ChannelDialer, ReconnectControl, RecvChan, RefillOwed, Grow, srvVars
    <3>2. loop' = loop \/ loop' = [h \in Loops |-> [AtRest EXCEPT !.at = "idle"]]
      BY <3>1, Zenon DEF Adopt
    <3> QED
      BY <3>2
  <2>3. (\E D \in SUBSET Conns : StartDials(D)) \/ cli' = cli
    BY <1>1 DEF ChannelDialer, ReconnectControl, RecvChan, RefillOwed, Grow, kSubset, cliVars
  <2>4. CASE cli' = cli
    <3>1. LoopMeans'
      BY <2>1, <2>2 DEF HandInv, LoopMeans, Has, AtRest
    <3> QED
      BY <2>1, <2>4, <3>1 DEF HandInv, HandShape, WaitsOnce, LockMeans
  <2> QED
    BY <2>1, <2>2, <2>3, <2>4, HandDials
<1>2. CASE OnControlLost \/ SendChan \/ Shrink \/ RestartStops \/ ClientStops \/ ClientPublishes \/ Cut \/ \E l \in Locals : AcceptLocal(l)
  <2>1. UNCHANGED <<loop, queue, srv, lock, ka, cli, spoiled>>
    BY <1>2 DEF OnControlLost, SendChan, Shrink, RestartStops, ClientStops, ClientPublishes, Cut, AcceptLocal, srvVars, cliVars
  <2> QED
    BY <2>1, HandSame
<1>3. CASE RestartPublishes
  <2>1. /\ UNCHANGED <<loop, lock, ka, cli, spoiled>> /\ queue' = <<>> /\ srv' = [c \in Conns |-> "none"]
        /\ \A h \in Loops : loop[h].at = "off"
    BY <1>3 DEF RestartPublishes, cliVars
  <2>2. LoopMeans' /\ LockMeans' /\ HandShape'
    BY <2>1 DEF HandInv, HandShape, LoopMeans, Has, LockMeans
  <2>3. WaitsOnce'
    BY <2>1 DEF WaitsOnce
  <2> QED
    BY <2>2, <2>3 DEF HandInv
<1>4. ASSUME NEW c \in Conns, DialFails(c) \/ IdleDies(c) \/ Assigned(c) \/ ClientFlowEnds(c) PROVE HandInv'
  <2>1. /\ UNCHANGED <<loop, queue, srv, lock, ka, spoiled>>
        /\ \E v \in {"none", "flow"} : cli' = [cli EXCEPT ![c] = v]
    BY <1>4 DEF DialFails, IdleDies, Assigned, ClientFlowEnds, srvVars
  <2>2. HandShape' /\ LockMeans'
    BY <2>1 DEF HandInv, HandShape, LockMeans
  <2> QED
    BY <2>1, <2>2 DEF HandInv, LoopMeans, Has, WaitsOnce
<1>5. ASSUME NEW c \in Conns, FlowEnds(c) PROVE HandInv'
  <2>1. /\ UNCHANGED <<loop, queue, lock, ka, cli, spoiled>> /\ srv[c] = "flow" /\ srv' = [srv EXCEPT ![c] = "none"]
    BY <1>5 DEF FlowEnds, cliVars
  <2>2. HandShape' /\ LockMeans'
    BY <2>1 DEF HandInv, HandShape, LockMeans
  <2>3. LoopMeans' /\ WaitsOnce'
    BY <2>1 DEF HandInv, HandShape, LoopMeans, Has, WaitsOnce
  <2> QED
    BY <2>2, <2>3 DEF HandInv
<1> QED
  BY <1>1, <1>2, <1>3, <1>4, <1>5, HandArrives, HandTaken, HandLoops, HandPings DEF WsNext

LEMMA HandHolds == Spec => []HandInv
<1>1. Init => HandInv
  <2> SUFFICES ASSUME Init PROVE HandInv
    OBVIOUS
  <2>1. HandShape /\ LoopMeans
    BY DEF Init, WsInit, HandShape, LoopMeans, Has, AtRest
  <2>2. WaitsOnce /\ LockMeans
    BY DEF Init, WsInit, WaitsOnce, LockMeans
  <2> QED
    BY <2>1, <2>2 DEF HandInv
<1>2. HandInv /\ [Next]_vars => HandInv'
  <2> SUFFICES ASSUME HandInv, [Next]_vars PROVE HandInv'
    OBVIOUS
  <2>1. CASE UNCHANGED wsOnly
    BY <2>1, HandSame DEF wsOnly
  <2>2. CASE UNCHANGED vars
    BY <2>2, HandSame DEF vars, wsVars, cliVars, srvVars
  <2> QED
    BY <2>1, <2>2, HandWsStep DEF Next
<1> QED
  BY <1>1, <1>2, PTL DEF Spec

LEMMA KeepAliveStep ==
    ASSUME HandInv, WsNext, NEW c \in Conns, sOn, ka'[c] # ka[c]
    PROVE  /\ lock[c] = "loop" => ka'[c] # "write"
           /\ srv[c] = "flow" /\ c \in open => c \in open'
<1>1. DOMAIN ka = Conns
  BY DEF HandInv, HandShape
<1>2. ASSUME UNCHANGED ka PROVE FALSE
  BY <1>2
<1>3. ASSUME NEW d \in Conns, DialSucceeds(d)
      PROVE  ka'[c] # "write" /\ (c \in open => c \in open')
  <2>1. ka' = [ka EXCEPT ![d] = "idle"] /\ (open' = open \cup {d} \/ open' = open)
    BY <1>2, <1>3 DEF DialSucceeds
  <2> QED
    BY <1>1, <2>1
<1>4. ASSUME NEW d \in Conns, KaPing(d) PROVE open' = open /\ (lock[c] = "loop" => ka'[c] # "write")
  BY <1>1, <1>4 DEF KaPing, KaMoves
<1>5. ASSUME NEW d \in Conns, KaWrote(d) \/ KaWriteFails(d) \/ KaTold(d) \/ RetireIdleTunnel(d)
      PROVE  open' = open /\ ka'[c] # "write"
  BY <1>1, <1>5 DEF KaWrote, KaWriteFails, KaTold, RetireIdleTunnel, KaMoves
<1>6. ASSUME NEW d \in Conns, KaCloses(d)
      PROVE  ka'[c] # "write" /\ (srv[c] = "flow" /\ c \in open => c \in open')
  <2>1. ka[d] = "failed" /\ ka' = [ka EXCEPT ![d] = "none"] /\ open' = open \ {d}
    BY <1>6 DEF KaCloses, KaMoves
  <2> QED
    BY <1>1, <2>1 DEF HandInv, LockMeans
<1>7. ASSUME NEW d \in Conns, CloseIdleTunnel(d)
      PROVE  ka'[c] # "write" /\ (srv[c] = "flow" /\ c \in open => c \in open')
  <2>1. ka' = [ka EXCEPT ![d] = "none"] /\ (open' = open \/ (lock[d] = "free" /\ open' = open \ {d}))
    BY <1>7 DEF CloseIdleTunnel, KaMoves
  <2> QED
    BY <1>1, <2>1 DEF HandInv, LockMeans
<1>8. ASSUME NEW d \in Conns, KaStops(d) PROVE FALSE
  BY <1>8 DEF KaStops
<1>9. CASE ChannelDialer \/ ReconnectControl \/ OnControlLost \/ SendChan \/ RecvChan \/ RefillOwed \/ Grow \/ Shrink
  BY <1>2, <1>9 DEF ChannelDialer, ReconnectControl, OnControlLost, SendChan, RecvChan, RefillOwed, Grow, Shrink, srvVars
<1>10. CASE RestartStops \/ RestartPublishes \/ ClientStops \/ ClientPublishes \/ Cut \/ \E l \in Locals : AcceptLocal(l)
  BY <1>2, <1>10 DEF RestartStops, RestartPublishes, ClientStops, ClientPublishes, Cut, AcceptLocal, srvVars
<1>11. ASSUME NEW h \in Loops, LoopTakes(h) \/ LoopExpires(h) \/ LoopTunnel(h) \/ LoopThrowsAway(h) \/ LoopLocks(h)
                               \/ LoopHandsOver(h) \/ LoopRetries(h) \/ LoopReturns(h)
       PROVE  UNCHANGED ka
  BY <1>11 DEF LoopTakes, LoopExpires, LoopTunnel, LoopThrowsAway, LoopLocks, LoopHandsOver, LoopRetries, LoopReturns
<1>12. ASSUME NEW d \in Conns, DialFails(d) \/ IdleDies(d) \/ Assigned(d) \/ ClientFlowEnds(d) \/ FlowEnds(d)
       PROVE  UNCHANGED ka
  BY <1>12 DEF DialFails, IdleDies, Assigned, ClientFlowEnds, FlowEnds, srvVars
<1> QED
  BY <1>2, <1>3, <1>4, <1>5, <1>6, <1>7, <1>8, <1>9, <1>10, <1>11, <1>12 DEF WsNext

\* In whatever order loops, keepAlive workers, restarts and cuts come: no ping is
\* written to a connection that its loop has locked, and none that carries a flow is
\* closed by its keepAlive worker, be it at its rotation age (closeIdleTunnel) or
\* after a ping that failed while the loop waited for the lock.
THEOREM HandedOverStays == Spec => HandedOverForGood
<1>1. ASSUME HandInv, [Next]_vars
      PROVE  [\A c \in Conns : (sOn /\ ka'[c] # ka[c])
                                 => /\ lock[c] = "loop" => ka'[c] # "write"
                                    /\ srv[c] = "flow" /\ c \in open => c \in open']_wsVars
  <2>1. CASE UNCHANGED vars
    BY <2>1 DEF vars
  <2>2. CASE UNCHANGED wsOnly
    BY <2>2 DEF wsOnly
  <2>3. CASE WsNext
    BY <1>1, <2>3, KeepAliveStep
  <2> QED
    BY <1>1, <2>1, <2>2, <2>3 DEF Next
<1> QED
  BY <1>1, HandHolds, PTL DEF Spec, HandedOverForGood

-----------------------------------------------------------------------------
(* Datagrams. *)

\* One field of a session changes.
LEMMA EntAtMoves ==
    ASSUME UdpShape, NEW e \in Ents, NEW v \in {"none", "queued", "held", "flow", "orphan", "over"}, EntAt(e, v)
    PROVE  /\ ent' \in [Ents -> Entry]
           /\ ent'[e].at = v /\ ent'[e].addr = ent[e].addr /\ ent'[e].cong = ent[e].cong /\ ent'[e].open = ent[e].open
           /\ \A f \in Ents : f # e => ent'[f] = ent[f]
BY DEF UdpShape, EntAt, Entry

\* What a step that leaves the sessions alone may do.
LEMMA UdpStays ==
    ASSUME UdpInv, UNCHANGED udpLocal, tunQ' \in Seq(Tuns), tmap' \subseteq topen', sUp' => sUp PROVE UdpInv'
<1>1. UdpShape'
  BY DEF UdpInv, UdpShape, udpLocal
<1>2. EntryMeans' /\ SuccessorKept'
  BY DEF UdpInv, EntryMeans, SuccessorKept, udpLocal
<1>3. WaitingMeans'
  BY DEF UdpInv, WaitingMeans, udpLocal
<1>4. NoSendOnClosed'
  BY DEF UdpInv, NoSendOnClosed, udpLocal
<1> QED
  BY <1>1, <1>2, <1>3, <1>4 DEF UdpInv

LEMMA FreshIn ==
    ASSUME NEW S, S # {} PROVE Fresh(S) \in S
BY DEF Fresh

LEMMA UdpStarts ==
    ASSUME UdpInv, NEW a \in Addrs, StartsSession(a) PROVE UdpInv'
<1> DEFINE e == Fresh(FreeEnts)
<1>1. e \in FreeEnts
  BY FreshIn DEF StartsSession
<1>2. e \in Ents /\ ent[e].at \in {"none", "over"} /\ \A b \in Addrs : active[b] # e
  BY <1>1 DEF FreeEnts
<1> HIDE DEF e
<1>3. /\ active' = [active EXCEPT ![a] = e] /\ UNCHANGED <<uHold, udpTun, sUp>>
      /\ \E v \in {"queued", "orphan"} : ent' = [ent EXCEPT ![e] = [NoEnt EXCEPT !.at = v, !.addr = a, !.open = TRUE]]
      /\ (active[a] # None => ent[active[a]].cong) /\ sUp
      /\ (entQ' = Append(entQ, e) /\ ent'[e].at = "queued") \/ entQ' = entQ
  <2>1. UdpShape
    BY DEF UdpInv
  <2>2. CASE Len(entQ) < ChannelSize /\ entQ' = Append(entQ, e)
             /\ ent' = [ent EXCEPT ![e] = [NoEnt EXCEPT !.at = "queued", !.addr = a, !.open = TRUE]]
             /\ active' = [active EXCEPT ![a] = e]
    BY <1>2, <2>1, <2>2 DEF StartsSession, Opens, Listening, UdpShape, NoEnt, streamCtl
  <2>3. CASE entQ' = entQ
             /\ ent' = [ent EXCEPT ![e] = [NoEnt EXCEPT !.at = "orphan", !.addr = a, !.open = TRUE]]
             /\ active' = [active EXCEPT ![a] = e]
    BY <1>2, <2>1, <2>3 DEF StartsSession, Opens, Listening, streamCtl
  <2> QED
    BY <2>2, <2>3 DEF StartsSession, e
<1>4. /\ ent' \in [Ents -> Entry]
      /\ ent'[e].at \in {"queued", "orphan"} /\ ent'[e].addr = a /\ ent'[e].cong = FALSE /\ ent'[e].open = TRUE
      /\ \A f \in Ents : f # e => ent'[f] = ent[f]
  <2>1. PICK v \in {"queued", "orphan"} : ent' = [ent EXCEPT ![e] = [NoEnt EXCEPT !.at = v, !.addr = a, !.open = TRUE]]
    BY <1>3
  <2> DEFINE r == [NoEnt EXCEPT !.at = v, !.addr = a, !.open = TRUE]
  <2>2. r \in Entry /\ r.at = v /\ r.addr = a /\ r.cong = FALSE /\ r.open = TRUE
    BY DEF NoEnt, Entry
  <2>3. ent' = [ent EXCEPT ![e] = r] /\ ent \in [Ents -> Entry]
    BY <2>1 DEF UdpInv, UdpShape
  <2> HIDE DEF r
  <2>4. ent' \in [Ents -> Entry] /\ ent'[e] = r /\ \A f \in Ents : f # e => ent'[f] = ent[f]
    BY <1>2, <2>2, <2>3
  <2> QED
    BY <2>2, <2>4
<1>5. active' \in [Addrs -> Ents \cup {None}] /\ active'[a] = e /\ \A b \in Addrs : b # a => active'[b] = active[b]
  BY <1>2, <1>3 DEF UdpInv, UdpShape
<1>6. \A k \in 1..Len(entQ) : entQ[k] \in Ents /\ entQ[k] # e /\ ent[entQ[k]].at = "queued"
  BY <1>2, <1>3 DEF UdpInv, UdpShape, WaitingMeans
<1>7. entQ \in Seq(Ents) /\ Len(entQ) \in Nat
  BY DEF UdpInv, UdpShape
<1>8. /\ entQ' \in Seq(Ents)
      /\ \A k \in 1..Len(entQ') : \/ k \in 1..Len(entQ) /\ entQ'[k] = entQ[k]
                                  \/ k = Len(entQ) + 1 /\ entQ'[k] = e /\ ent'[e].at = "queued"
  <2>1. CASE entQ' = entQ
    BY <1>7, <2>1
  <2>2. CASE entQ' = Append(entQ, e) /\ ent'[e].at = "queued"
    BY <1>2, <1>7, <2>2, AppendIs
  <2> QED
    BY <1>3, <2>1, <2>2
<1>9. UdpShape'
  BY <1>3, <1>4, <1>5, <1>8 DEF UdpInv, UdpShape, udpTun
<1>10. EntryMeans'
  BY <1>2, <1>4, <1>5 DEF UdpInv, EntryMeans, UdpShape
<1>11. WaitingMeans'
  <2>1. \A k \in 1..Len(entQ') : ent'[entQ'[k]].at = "queued"
    BY <1>4, <1>6, <1>8
  <2>2. \A k, m \in 1..Len(entQ') : entQ'[k] = entQ'[m] => k = m
    BY <1>6, <1>8 DEF UdpInv, WaitingMeans
  <2>3. uHold' # None => ent'[uHold'].at = "held"
    BY <1>2, <1>3, <1>4 DEF UdpInv, UdpShape, WaitingMeans
  <2> QED
    BY <2>1, <2>2, <2>3 DEF WaitingMeans
<1>12. NoSendOnClosed'
  BY <1>2, <1>3, <1>4, <1>5 DEF UdpInv, NoSendOnClosed, UdpShape, udpTun
<1>13. SuccessorKept'
  <2> SUFFICES ASSUME NEW f \in Ents, ent'[f].at \in {"queued", "held", "flow"}, ~ent'[f].cong
               PROVE  active'[ent'[f].addr] = f
    BY DEF SuccessorKept
  <2>1. CASE f = e
    BY <1>4, <1>5, <2>1
  <2>2. CASE f # e
    <3>1. ent'[f] = ent[f] /\ ent[f].addr \in Addrs /\ active[ent[f].addr] = f /\ f # None
      BY <1>4, <2>2, UdpAssumption DEF UdpInv, UdpShape, SuccessorKept
    <3>2. ent[f].addr # a
      BY <1>3, <1>4, <2>2, <3>1
    <3> QED
      BY <1>5, <3>1, <3>2
  <2> QED
    BY <2>1, <2>2
<1> QED
  BY <1>9, <1>10, <1>11, <1>12, <1>13 DEF UdpInv


LEMMA UdpThrows ==
    ASSUME UdpInv, NEW a \in Addrs, Throws(a) PROVE UdpInv'
<1>1. /\ sUp' = FALSE /\ uHold' = None /\ ent' = [e \in Ents |-> NoEnt] /\ active' = [d \in Addrs |-> None]
      /\ UNCHANGED <<entQ, udpTun>>
  BY DEF Throws
<1>2. NoEnt \in Entry /\ NoEnt.at = "none"
  BY DEF NoEnt, Entry
<1>3. UdpShape'
  BY <1>1, <1>2 DEF UdpInv, UdpShape, udpTun
<1>4. EntryMeans' /\ SuccessorKept'
  BY <1>1, <1>2 DEF EntryMeans, SuccessorKept
<1>5. WaitingMeans'
  BY <1>1 DEF UdpInv, WaitingMeans
<1>6. NoSendOnClosed'
  BY <1>1 DEF UdpInv, NoSendOnClosed, udpTun
<1> QED
  BY <1>3, <1>4, <1>5, <1>6 DEF UdpInv

\* One session, in hand or with a tunnel, goes on.
LEMMA UdpGoesOn ==
    ASSUME UdpInv, NEW e \in Ents, ent[e].at \in {"held", "flow"},
           ent' \in [Ents -> Entry], \A f \in Ents : f # e => ent'[f] = ent[f],
           ent'[e].at \in {"flow", "orphan"}, ent'[e].addr = ent[e].addr, ent'[e].open = ent[e].open,
           ent[e].cong => ent'[e].cong,
           UNCHANGED <<active, entQ, sUp, tmap, topen>>, tunQ' \in Seq(Tuns),
           uHold' = IF uHold = e THEN None ELSE uHold
    PROVE  UdpInv'
<1>1. UdpShape'
  BY DEF UdpInv, UdpShape
<1>2. EntryMeans'
  BY DEF UdpInv, UdpShape, EntryMeans
<1>3. WaitingMeans'
  <2>1. sUp' => \A k \in 1..Len(entQ') : ent'[entQ'[k]].at = "queued"
    BY DEF UdpInv, UdpShape, WaitingMeans
  <2>2. \A k, m \in 1..Len(entQ') : entQ'[k] = entQ'[m] => k = m
    BY DEF UdpInv, WaitingMeans
  <2>3. uHold' # None => ent'[uHold'].at = "held"
    BY DEF UdpInv, UdpShape, WaitingMeans
  <2> QED
    BY <2>1, <2>2, <2>3 DEF WaitingMeans
<1>4. NoSendOnClosed'
  BY DEF UdpInv, UdpShape, NoSendOnClosed
<1>5. SuccessorKept'
  BY DEF UdpInv, UdpShape, SuccessorKept
<1> QED
  BY <1>1, <1>2, <1>3, <1>4, <1>5 DEF UdpInv

LEMMA UdpTaken ==
    ASSUME UdpInv, UdpTakes PROVE UdpInv'
<1>1. entQ \in Seq(Ents) /\ entQ # <<>> /\ entQ' = Tail(entQ) /\ sUp /\ uHold = None
  BY DEF UdpInv, UdpShape, UdpTakes, Listening
<1>2. UNCHANGED <<active, udpTun, sUp>>
  BY DEF UdpTakes, streamVars, streamCtl
<1> DEFINE e == Head(entQ)
<1>3. e \in Ents /\ ent[e].at = "queued"
  BY <1>1, TailIs DEF UdpInv, WaitingMeans
<1>4. /\ ent' \in [Ents -> Entry]
      /\ ent'[e].addr = ent[e].addr /\ ent'[e].cong = ent[e].cong /\ ent'[e].open = ent[e].open
      /\ \A f \in Ents : f # e => ent'[f] = ent[f]
      /\ \/ ent'[e].at = "held" /\ uHold' = e
         \/ ent'[e].at = "orphan" /\ uHold' = None
  <2>1. (EntAt(e, "held") /\ uHold' = e) \/ (EntAt(e, "orphan") /\ uHold' = uHold)
    BY DEF UdpTakes
  <2>2. UdpShape
    BY DEF UdpInv
  <2> HIDE DEF e
  <2>3. CASE EntAt(e, "held") /\ uHold' = e
    BY <1>3, <2>2, <2>3, EntAtMoves
  <2>4. CASE EntAt(e, "orphan") /\ uHold' = uHold
    BY <1>1, <1>3, <2>2, <2>4, EntAtMoves
  <2> QED
    BY <2>1, <2>3, <2>4
<1>5. \A k \in 1..Len(entQ') : /\ k + 1 \in 1..Len(entQ) /\ k \in Int /\ entQ'[k] = entQ[k + 1]
                               /\ entQ[k + 1] # e /\ entQ[k + 1] \in Ents
  BY <1>1, TailIs DEF UdpInv, WaitingMeans
<1>6. entQ' \in Seq(Ents)
  BY <1>1, TailIs
<1> HIDE DEF e
<1>7. UdpShape'
  BY <1>2, <1>3, <1>4, <1>6 DEF UdpInv, UdpShape, udpTun
<1>8. EntryMeans'
  BY <1>2, <1>3, <1>4 DEF UdpInv, UdpShape, EntryMeans
<1>9. WaitingMeans'
  <2>1. sUp' => \A k \in 1..Len(entQ') : ent'[entQ'[k]].at = "queued"
    BY <1>1, <1>4, <1>5 DEF UdpInv, WaitingMeans
  <2>2. \A k, m \in 1..Len(entQ') : entQ'[k] = entQ'[m] => k = m
    <3> SUFFICES ASSUME NEW k \in 1..Len(entQ'), NEW m \in 1..Len(entQ'), entQ'[k] = entQ'[m] PROVE k = m
      OBVIOUS
    <3>1. k + 1 = m + 1
      BY <1>5 DEF UdpInv, WaitingMeans
    <3> QED
      BY <1>5, <3>1
  <2>3. uHold' # None => ent'[uHold'].at = "held"
    BY <1>4
  <2> QED
    BY <2>1, <2>2, <2>3 DEF WaitingMeans
<1>10. NoSendOnClosed'
  BY <1>2, <1>3, <1>4 DEF UdpInv, UdpShape, NoSendOnClosed, udpTun
<1>11. SuccessorKept'
  BY <1>2, <1>3, <1>4 DEF UdpInv, UdpShape, SuccessorKept
<1> QED
  BY <1>7, <1>8, <1>9, <1>10, <1>11 DEF UdpInv

LEMMA UdpLoops ==
    ASSUME UdpInv, UdpOverTcp \/ UdpOverUdp \/ UdpReturns PROVE UdpInv'
<1>1. UdpShape /\ uHold \in Ents /\ ent[uHold].at = "held" /\ tunQ \in Seq(Tuns)
  BY DEF UdpInv, UdpShape, WaitingMeans, UdpOverTcp, UdpOverUdp, UdpReturns
<1>2. CASE UdpOverTcp /\ EntAt(uHold, "flow") /\ uHold' = None
  <2>1. UNCHANGED <<active, entQ, sUp, udpTun>>
    BY <1>2 DEF UdpOverTcp
  <2> QED
    BY <1>1, <1>2, <2>1, EntAtMoves, UdpGoesOn DEF udpTun
<1>3. CASE UdpReturns
  <2>1. UNCHANGED <<active, entQ, sUp, udpTun>> /\ EntAt(uHold, "orphan") /\ uHold' = None
    BY <1>3 DEF UdpReturns, streamVars, streamCtl
  <2> QED
    BY <1>1, <2>1, EntAtMoves, UdpGoesOn DEF udpTun
<1>4. CASE UdpOverTcp /\ UNCHANGED <<ent, uHold>>
  <2>1. UNCHANGED <<active, ent, entQ, uHold, sUp, udpTun>>
    BY <1>4 DEF UdpOverTcp
  <2> QED
    BY <1>1, <2>1, UdpStays DEF udpTun, udpLocal, UdpInv, NoSendOnClosed
<1>5. CASE UdpOverUdp /\ UNCHANGED <<ent, uHold>>
  <2>1. UNCHANGED <<active, ent, entQ, uHold, sUp, tmap, topen>> /\ tunQ' \in Seq(Tuns)
    BY <1>1, <1>5, TailIs DEF UdpOverUdp, streamCtl
  <2> QED
    BY <2>1, UdpStays DEF udpLocal, UdpInv, NoSendOnClosed
<1>6. CASE UdpOverUdp /\ ent' = [ent EXCEPT ![uHold].at = "flow", ![uHold].tun = Head(tunQ)] /\ uHold' = None
  <2>1. UNCHANGED <<active, entQ, sUp, tmap, topen>> /\ tunQ' \in Seq(Tuns) /\ Head(tunQ) \in Tuns
    BY <1>1, <1>6, TailIs DEF UdpOverUdp, streamCtl
  <2>2. /\ ent' \in [Ents -> Entry]
        /\ ent'[uHold].at = "flow" /\ ent'[uHold].addr = ent[uHold].addr
        /\ ent'[uHold].cong = ent[uHold].cong /\ ent'[uHold].open = ent[uHold].open
        /\ \A f \in Ents : f # uHold => ent'[f] = ent[f]
    BY <1>1, <1>6, <2>1 DEF UdpShape, Entry
  <2> QED
    BY <1>1, <1>6, <2>1, <2>2, UdpGoesOn
<1> QED
  BY <1>2, <1>3, <1>4, <1>5, <1>6 DEF UdpOverTcp, UdpOverUdp


LEMMA UdpCongested ==
    ASSUME UdpInv, NEW e \in Ents, Congested(e) PROVE UdpInv'
<1>1. /\ ent[e].at = "flow" /\ ent' = [ent EXCEPT ![e].cong = TRUE] /\ ent \in [Ents -> Entry]
      /\ UNCHANGED <<active, entQ, uHold, sUp, udpTun>>
  BY DEF Congested, UdpInv, UdpShape, streamVars, streamCtl
<1>2. /\ ent' \in [Ents -> Entry] /\ \A f \in Ents : f # e => ent'[f] = ent[f]
      /\ ent'[e].at = "flow" /\ ent'[e].addr = ent[e].addr /\ ent'[e].open = ent[e].open /\ ent'[e].cong = TRUE
  BY <1>1 DEF Entry
<1>3. tunQ' \in Seq(Tuns) /\ uHold # e
  BY <1>1, UdpAssumption DEF UdpInv, UdpShape, udpTun, WaitingMeans
<1> QED
  BY <1>1, <1>2, <1>3, UdpGoesOn DEF udpTun

\* The entry of a session that was not congested goes with it, and is its own.
LEMMA UdpEnds ==
    ASSUME UdpInv, NEW e \in Ents, HandlerEnds(e) \/ CopyEnds(e) PROVE UdpInv'
<1>1. /\ ent[e].at = "flow" /\ ent' = [ent EXCEPT ![e].at = "over", ![e].open = FALSE]
      /\ EndForgets(e) /\ UNCHANGED <<entQ, uHold, sUp, tunQ>>
      /\ ent \in [Ents -> Entry] /\ active \in [Addrs -> Ents \cup {None}] /\ ent[e].addr \in Addrs
  BY DEF HandlerEnds, CopyEnds, UdpInv, UdpShape, streamVars, streamCtl, udpTun
<1>2. /\ ent' \in [Ents -> Entry] /\ \A f \in Ents : f # e => ent'[f] = ent[f]
      /\ ent'[e].at = "over" /\ ent'[e].addr = ent[e].addr /\ ent'[e].open = FALSE /\ ent'[e].cong = ent[e].cong
  BY <1>1 DEF Entry
<1>3. /\ active' \in [Addrs -> Ents \cup {None}] /\ \A a \in Addrs : a # ent[e].addr => active'[a] = active[a]
      /\ ent[e].cong => active' = active
      /\ ~ent[e].cong => active'[ent[e].addr] = None /\ active[ent[e].addr] = e
  <2>1. CASE ent[e].cong
    BY <1>1, <2>1 DEF EndForgets
  <2>2. CASE ~ent[e].cong
    <3>1. active[ent[e].addr] = e
      BY <1>1, <2>2 DEF UdpInv, SuccessorKept
    <3>2. active' = [active EXCEPT ![ent[e].addr] = None]
      BY <1>1, <2>2 DEF EndForgets
    <3> QED
      BY <1>1, <2>2, <3>1, <3>2
  <2> QED
    BY <2>1, <2>2
<1>4. tmap' \subseteq topen'
  BY DEF HandlerEnds, CopyEnds, UdpInv, NoSendOnClosed, udpTun
<1>5. UdpShape'
  BY <1>1, <1>2, <1>3 DEF UdpInv, UdpShape
<1>6. EntryMeans'
  <2> SUFFICES ASSUME NEW a \in Addrs, active'[a] # None PROVE ent'[active'[a]].addr = a
    BY DEF EntryMeans
  <2>1. active'[a] = active[a]
    BY <1>3
  <2>2. active[a] \in Ents /\ ent[active[a]].addr = a
    BY <1>1, <2>1 DEF UdpInv, EntryMeans
  <2> QED
    BY <1>2, <2>1, <2>2
<1>7. WaitingMeans'
  <2>1. sUp' => \A k \in 1..Len(entQ') : ent'[entQ'[k]].at = "queued"
    BY <1>1, <1>2 DEF UdpInv, UdpShape, WaitingMeans
  <2>2. \A k, m \in 1..Len(entQ') : entQ'[k] = entQ'[m] => k = m
    BY <1>1 DEF UdpInv, WaitingMeans
  <2>3. uHold' # None => ent'[uHold'].at = "held"
    BY <1>1, <1>2 DEF UdpInv, UdpShape, WaitingMeans
  <2> QED
    BY <2>1, <2>2, <2>3 DEF WaitingMeans
<1>8. NoSendOnClosed'
  <2> SUFFICES ASSUME NEW a \in Addrs, active'[a] # None, ~ent'[active'[a]].cong PROVE ent'[active'[a]].open
    BY <1>4 DEF NoSendOnClosed
  <2>1. active'[a] = active[a] /\ active[a] \in Ents /\ ent[active[a]].addr = a
    BY <1>1, <1>3 DEF UdpInv, EntryMeans
  <2>2. active[a] # e
    BY <1>2, <1>3, <2>1
  <2>3. ent'[active'[a]] = ent[active[a]]
    BY <1>2, <2>1, <2>2
  <2> QED
    BY <2>1, <2>3 DEF UdpInv, NoSendOnClosed
<1>9. SuccessorKept'
  <2> SUFFICES ASSUME NEW f \in Ents, ent'[f].at \in {"queued", "held", "flow"}, ~ent'[f].cong
               PROVE  active'[ent'[f].addr] = f
    BY DEF SuccessorKept
  <2>1. f # e /\ ent'[f] = ent[f]
    BY <1>2
  <2>2. active[ent[f].addr] = f /\ ent[f].addr \in Addrs
    BY <2>1 DEF UdpInv, UdpShape, SuccessorKept
  <2> QED
    BY <1>3, <2>1, <2>2
<1> QED
  BY <1>5, <1>6, <1>7, <1>8, <1>9 DEF UdpInv

LEMMA UdpTunnels ==
    ASSUME UdpInv, SendsToken \/ \E t \in Tuns : TokenArrives(t) \/ TokenLost(t) \/ Addressed(t) \/ TunnelEnds(t)
    PROVE  UdpInv'
<1>1. tunQ \in Seq(Tuns) /\ tmap \subseteq topen
  BY DEF UdpInv, UdpShape, NoSendOnClosed
<1>2. UNCHANGED <<udpLocal, sUp>>
  BY DEF SendsToken, TokenArrives, TokenLost, Addressed, TunnelEnds, streamVars, streamCtl
<1>3. CASE UNCHANGED <<tunQ, tmap, topen>>
  BY <1>1, <1>2, <1>3, UdpStays
<1>4. ASSUME NEW t \in Tuns, TokenArrives(t) PROVE UdpInv'
  <2>1. CASE tunQ' = Append(tunQ, t) /\ tmap' = tmap \cup {t} /\ topen' = topen \cup {t}
    BY <1>1, <1>2, <2>1, AppendIs, UdpStays
  <2> QED
    BY <1>3, <1>4, <2>1 DEF TokenArrives
<1> QED
  BY <1>3, <1>4 DEF SendsToken, TokenLost, Addressed, TunnelEnds

\* A restart forgets every session.
LEMMA UdpRestart ==
    ASSUME UdpForgotten PROVE UdpInv'
<1>1. /\ uHold' = None /\ active' = [a \in Addrs |-> None] /\ entQ' = <<>> /\ ent' = [e \in Ents |-> NoEnt]
      /\ tmap' = {} /\ tunQ' = <<>>
  BY DEF UdpForgotten
<1>2. NoEnt \in Entry /\ NoEnt.at = "none"
  BY DEF NoEnt, Entry
<1>3. UdpShape'
  BY <1>1, <1>2 DEF UdpShape
<1>4. EntryMeans' /\ SuccessorKept'
  BY <1>1, <1>2 DEF EntryMeans, SuccessorKept
<1>5. WaitingMeans'
  BY <1>1 DEF WaitingMeans
<1>6. NoSendOnClosed'
  BY <1>1 DEF NoSendOnClosed
<1> QED
  BY <1>3, <1>4, <1>5, <1>6 DEF UdpInv

\* A server that was stopped comes back only by publishing.
LEMMA StreamStops ==
    ASSUME StreamStep, sUp' PROVE sUp
<1>1. CASE DialControl \/ DialTimesOut \/ DialWasted \/ ChannelHandshake \/ ServerRestarts
           \/ ClientRestarts \/ ClientComesBack \/ ClientLoses \/ SignalChan \/ OnChan
  BY <1>1 DEF DialControl, DialTimesOut, DialWasted, ChannelHandshake, ServerRestarts, ClientRestarts, ClientComesBack,
              ClientLoses, SignalChan, OnChan, streamCtl
<1>2. CASE PoolGrows \/ PoolShrinks \/ ControlCut \/ TcpTunnel \/ MuxTunnel \/ TcpTakes \/ TcpHandsOver \/ TcpReturns
  BY <1>2 DEF PoolGrows, PoolShrinks, ControlCut, TcpTunnel, MuxTunnel, TcpTakes, TcpHandsOver, TcpReturns, streamCtl
<1>3. CASE \E l \in Locals : TcpAccept(l) \/ MuxAccept(l) \/ TcpFlowEnds(l) \/ MuxFlowEnds(l)
  BY <1>3 DEF TcpAccept, MuxAccept, TcpFlowEnds, MuxFlowEnds, muxRest, streamCtl
<1>4. CASE \E x \in Sessions : \/ SessionStarts(x) \/ TakeSlot(x) \/ TakeLocal(x) \/ OpenStream(x)
                               \/ HandleSessionError(x) \/ SendAddress(x) \/ SendFails(x)
                               \/ SessionReturns(x) \/ SessionCut(x)
  BY <1>4 DEF SessionStarts, TakeSlot, TakeLocal, OpenStream, HandleSessionError, SendAddress, SendFails,
              SessionReturns, SessionCut, muxRest, streamCtl
<1> QED
  BY <1>1, <1>2, <1>3, <1>4 DEF StreamStep

LEMMA UdpInvStep ==
    ASSUME UdpInv, [Next]_vars PROVE UdpInv'
<1>1. ASSUME UNCHANGED udpVars, sUp' => sUp PROVE UdpInv'
  <2>1. UNCHANGED udpLocal /\ UNCHANGED <<tunQ, tmap, topen>>
    BY <1>1 DEF udpVars, udpTun
  <2> QED
    BY <1>1, <2>1, UdpStays DEF UdpInv, UdpShape, NoSendOnClosed
<1>2. CASE UNCHANGED vars
  BY <1>1, <1>2 DEF vars, streamVars, streamCtl
<1>3. CASE WsNext /\ UNCHANGED <<mode, offer, streamOnly, udpVars>>
  BY <1>1, <1>3 DEF streamOnly, streamCtl
<1>4. CASE StreamStep /\ UNCHANGED udpVars
  BY <1>1, <1>4, StreamStops
<1>5. CASE UdpForgotten
  BY <1>5, UdpRestart
<1>6. CASE UdpStep
  BY <1>6, UdpStarts, UdpThrows, UdpTaken, UdpLoops, UdpCongested, UdpEnds, UdpTunnels DEF UdpStep
<1> QED
  BY <1>2, <1>3, <1>4, <1>5, <1>6 DEF Next

LEMMA UdpHolds == Spec => []UdpInv
<1>1. ASSUME Init PROVE UdpInv
  <2>1. /\ active = [a \in Addrs |-> None] /\ ent = [e \in Ents |-> NoEnt] /\ entQ = <<>> /\ uHold = None
        /\ tmap = {} /\ tunQ = <<>>
    BY <1>1 DEF Init, UdpInit
  <2>2. NoEnt \in Entry /\ NoEnt.at = "none"
    BY DEF NoEnt, Entry
  <2>3. UdpShape
    BY <2>1, <2>2 DEF UdpShape
  <2>4. EntryMeans /\ SuccessorKept /\ WaitingMeans /\ NoSendOnClosed
    BY <2>1, <2>2 DEF EntryMeans, SuccessorKept, WaitingMeans, NoSendOnClosed
  <2> QED
    BY <2>3, <2>4 DEF UdpInv
<1>2. UdpInv /\ [Next]_vars => UdpInv'
  BY UdpInvStep
<1> QED
  BY <1>1, <1>2, PTL DEF Spec

\* The listeners of accept_udp.go and udp.go send a datagram on the channel of the
\* entry they find: that channel is open, for any number of sources, sessions and
\* tunnels, across congestion, sessions that end, restarts and full queues.
THEOREM NeverSentOnClosed == Spec => []NoSendOnClosed
<1>1. UdpInv => NoSendOnClosed
  BY DEF UdpInv
<1> QED
  BY <1>1, UdpHolds, PTL

\* UDPConnectionHandler's end of a congested session that was replaced leaves the
\* entry of the session that took its place.
THEOREM SuccessorStays == Spec => []SuccessorKept
<1>1. UdpInv => SuccessorKept
  BY DEF UdpInv
<1> QED
  BY <1>1, UdpHolds, PTL


-----------------------------------------------------------------------------
(* tcpmux: the pieces of the invariant, and what each kind of change does to them. *)

Busy == {"open", "send"}

LiveOnes == {l \in Locals : local[l] \in {"queued", "held", "flow"}}
CarriedBy(x) == {l \in Locals : owner[l] = x}
Slot(x) == IF sess[x].at \in {"take", "open", "send", "over"} THEN 1 ELSE 0

LiveCounted == streams = Cardinality(LiveOnes)
SlotsCounted == \A x \in Sessions : sess[x].used = Cardinality(CarriedBy(x)) + Slot(x)

MuxBody == MuxShape /\ QueuedMeans /\ HeldMeans /\ FlowMeans /\ LiveCounted /\ SlotsCounted

LEMMA MuxIs ==
    ASSUME mode = "tcpmux" PROVE MuxInv <=> hold = None /\ MuxBody
BY DEF MuxInv, MuxBody, StreamsCounted, LiveCounted, SlotsCounted, LiveOnes, CarriedBy, Slot

LEMMA MuxIsNext ==
    ASSUME mode' = "tcpmux" PROVE MuxInv' <=> hold' = None /\ MuxBody'
BY DEF MuxInv, MuxBody, StreamsCounted, LiveCounted, SlotsCounted, LiveOnes, CarriedBy, Slot

LEMMA LocalsFinite == IsFiniteSet(Locals) /\ None \notin Locals
BY TunnelAssumption

LEMMA CarriedFinite ==
    ASSUME NEW x
    PROVE  IsFiniteSet(CarriedBy(x)) /\ Cardinality(CarriedBy(x)) \in Nat
<1>1. CarriedBy(x) \subseteq Locals
  BY DEF CarriedBy
<1> QED
  BY <1>1, LocalsFinite, FS_Subset, FS_CardinalityType

LEMMA LiveFinite == IsFiniteSet(LiveOnes) /\ Cardinality(LiveOnes) \in Nat
<1>1. LiveOnes \subseteq Locals
  BY DEF LiveOnes
<1> QED
  BY <1>1, LocalsFinite, FS_Subset, FS_CardinalityType

\* The states of one local connection, and of one session, change.
LocalMoves(l, v) == local'[l] = v /\ \A m \in Locals : m # l => local'[m] = local[m]
SessionMoves(x) == sess' \in [Sessions -> Session] /\ \A y \in Sessions : y # x => sess'[y] = sess[y]

IsLive(v) == IF v \in {"queued", "held", "flow"} THEN 1 ELSE 0

LEMMA LiveMoves ==
    ASSUME LiveCounted, NEW l \in Locals, NEW v, LocalMoves(l, v), streams' = streams + IsLive(v) - IsLive(local[l])
    PROVE  LiveCounted'
<1>1. LiveOnes' \ {l} = LiveOnes \ {l}
  BY DEF LiveOnes, LocalMoves
<1>2. Cardinality(LiveOnes') = Cardinality(LiveOnes) + Bit(LiveOnes', l) - Bit(LiveOnes, l)
  BY <1>1, LiveFinite, CountMoves
<1>3. Bit(LiveOnes', l) = IsLive(v) /\ Bit(LiveOnes, l) = IsLive(local[l])
  BY DEF Bit, LiveOnes, IsLive, LocalMoves
<1> QED
  BY <1>2, <1>3 DEF LiveCounted

\* A session takes or gives back a slot of its own.
LEMMA SlotMoves ==
    ASSUME SlotsCounted, NEW x \in Sessions, SessionMoves(x), owner' = owner,
           sess'[x].used = sess[x].used + Slot(x)' - Slot(x)
    PROVE  SlotsCounted'
<1> SUFFICES ASSUME NEW y \in Sessions PROVE sess'[y].used = Cardinality(CarriedBy(y)') + Slot(y)'
  BY DEF SlotsCounted
<1>1. CarriedBy(y)' = CarriedBy(y) /\ Cardinality(CarriedBy(y)) \in Nat
  BY CarriedFinite DEF CarriedBy
<1>2. sess[y].used = Cardinality(CarriedBy(y)) + Slot(y)
  BY DEF SlotsCounted
<1>3. CASE y = x
  <2>1. Slot(x) \in {0, 1} /\ Slot(x)' \in {0, 1}
    BY DEF Slot
  <2> QED
    BY <1>1, <1>2, <1>3, <2>1
<1>4. CASE y # x
  BY <1>1, <1>2, <1>4 DEF SessionMoves, Slot
<1> QED
  BY <1>3, <1>4

\* Who holds what does not change.
LEMMA HeldSame ==
    ASSUME HeldMeans,
           \A y \in Sessions : /\ sess'[y].at \in Busy <=> sess[y].at \in Busy
                               /\ sess[y].at \in Busy => sess'[y].local = sess[y].local,
           \A l \in Locals : local'[l] = "held" <=> local[l] = "held"
    PROVE  HeldMeans'
<1>1. \A x \in Sessions, l \in Locals : Holds(x, l)' <=> Holds(x, l)
  BY DEF Holds, Busy
<1>2. \A x \in Sessions : sess'[x].at \in Busy => sess'[x].local \in Locals /\ local'[sess'[x].local] = "held"
  BY DEF HeldMeans, Busy
<1> QED
  BY <1>1, <1>2 DEF HeldMeans, Busy

\* A session lets go of what it holds.
LEMMA HeldLetsGo ==
    ASSUME HeldMeans, NEW x \in Sessions, SessionMoves(x), sess[x].at \in Busy, sess'[x].at \notin Busy,
           NEW v, v # "held", LocalMoves(sess[x].local, v)
    PROVE  HeldMeans'
<1> DEFINE l == sess[x].local
<1>1. l \in Locals /\ Holds(x, l)
  BY DEF HeldMeans, Holds, Busy
<1>2. \A y \in Sessions, m \in Locals : Holds(y, m)' <=> y # x /\ Holds(y, m)
  BY DEF Holds, Busy, SessionMoves
<1>3. \A y \in Sessions, m \in Locals : Holds(y, m)' => m # l
  BY <1>1, <1>2 DEF HeldMeans
<1>4. \A m \in Locals : local'[m] = "held" => m # l /\ local[m] = "held"
  BY DEF LocalMoves
<1>5. ASSUME NEW y \in Sessions, sess'[y].at \in {"open", "send"}
      PROVE  sess'[y].local \in Locals /\ local'[sess'[y].local] = "held"
  <2>1. y # x /\ sess'[y] = sess[y]
    BY <1>5 DEF Busy, SessionMoves
  <2>2. sess[y].local \in Locals /\ local[sess[y].local] = "held" /\ Holds(y, sess[y].local)
    BY <1>5, <2>1 DEF HeldMeans, Holds
  <2>3. sess[y].local # l
    BY <1>1, <2>1, <2>2 DEF HeldMeans
  <2> QED
    BY <2>1, <2>2, <2>3 DEF LocalMoves
<1>6. \A y, z \in Sessions, m \in Locals : Holds(y, m)' /\ Holds(z, m)' => y = z
  BY <1>2 DEF HeldMeans
<1>7. \A m \in Locals : local'[m] = "held" => \E y \in Sessions : Holds(y, m)'
  <2> SUFFICES ASSUME NEW m \in Locals, local'[m] = "held" PROVE \E y \in Sessions : Holds(y, m)'
    OBVIOUS
  <2>1. m # l /\ local[m] = "held"
    BY <1>4
  <2>2. PICK y \in Sessions : Holds(y, m)
    BY <2>1 DEF HeldMeans
  <2>3. y # x
    BY <2>1, <2>2 DEF Holds
  <2> QED
    BY <1>2, <2>2, <2>3
<1> QED
  BY <1>5, <1>6, <1>7 DEF HeldMeans

\* A session takes one that nobody holds.
LEMMA HeldTakes ==
    ASSUME HeldMeans, NEW x \in Sessions, SessionMoves(x), sess[x].at \notin Busy, sess'[x].at \in Busy,
           NEW l \in Locals, sess'[x].local = l, local[l] # "held", LocalMoves(l, "held")
    PROVE  HeldMeans'
<1>1. \A y \in Sessions : y # x /\ sess[y].at \in Busy => sess[y].local # l
  BY DEF HeldMeans, Busy
<1>2. \A y \in Sessions, m \in Locals : Holds(y, m)' <=> IF y = x THEN m = l ELSE Holds(y, m)
  BY DEF Holds, Busy, SessionMoves
<1>3. \A y \in Sessions : sess'[y].at \in {"open", "send"} => sess'[y].local \in Locals /\ local'[sess'[y].local] = "held"
  BY <1>1 DEF HeldMeans, SessionMoves, LocalMoves, Busy
<1>4. \A y, z \in Sessions, m \in Locals : Holds(y, m)' /\ Holds(z, m)' => y = z
  BY <1>1, <1>2 DEF HeldMeans, Holds, Busy
<1>5. \A m \in Locals : local'[m] = "held" => \E y \in Sessions : Holds(y, m)'
  <2> SUFFICES ASSUME NEW m \in Locals, local'[m] = "held" PROVE \E y \in Sessions : Holds(y, m)'
    OBVIOUS
  <2>1. CASE m = l
    BY <1>2, <2>1
  <2>2. CASE m # l
    <3>1. PICK y \in Sessions : Holds(y, m)
      BY <2>2 DEF HeldMeans, LocalMoves
    <3>2. y # x
      BY <3>1 DEF Holds, Busy
    <3> QED
      BY <1>2, <3>1, <3>2
  <2> QED
    BY <2>1, <2>2
<1> QED
  BY <1>3, <1>4, <1>5 DEF HeldMeans


LEMMA QueueSame ==
    ASSUME QueuedMeans, localQ \in Seq(Locals), localQ' = localQ, \A l \in Locals : local[l] = "queued" => local'[l] = "queued"
    PROVE  QueuedMeans'
BY DEF QueuedMeans

LEMMA QueueAdds ==
    ASSUME QueuedMeans, localQ \in Seq(Locals), NEW l \in Locals, localQ' = Append(localQ, l),
           local[l] # "queued", LocalMoves(l, "queued")
    PROVE  QueuedMeans' /\ localQ' \in Seq(Locals)
<1>1. /\ localQ' \in Seq(Locals) /\ Len(localQ) \in Nat
      /\ \A k \in 1..Len(localQ') : \/ k \in 1..Len(localQ) /\ localQ'[k] = localQ[k]
                                    \/ k = Len(localQ) + 1 /\ localQ'[k] = l
  BY AppendIs
<1>2. \A k \in 1..Len(localQ) : localQ[k] \in Locals /\ local[localQ[k]] = "queued" /\ localQ[k] # l
  BY DEF QueuedMeans
<1>3. \A k \in 1..Len(localQ') : local'[localQ'[k]] = "queued"
  BY <1>1, <1>2 DEF LocalMoves
<1>4. \A k, m \in 1..Len(localQ') : localQ'[k] = localQ'[m] => k = m
  BY <1>1, <1>2 DEF QueuedMeans
<1> QED
  BY <1>1, <1>3, <1>4 DEF QueuedMeans

LEMMA QueueTakes ==
    ASSUME QueuedMeans, localQ \in Seq(Locals), localQ # <<>>, localQ' = Tail(localQ), NEW v, LocalMoves(Head(localQ), v)
    PROVE  QueuedMeans' /\ localQ' \in Seq(Locals) /\ Head(localQ) \in Locals /\ local[Head(localQ)] = "queued"
<1> DEFINE h == Head(localQ)
<1>1. /\ localQ' \in Seq(Locals) /\ h \in Locals /\ local[h] = "queued"
      /\ \A k \in 1..Len(localQ') : /\ k + 1 \in 1..Len(localQ) /\ k \in Int /\ localQ'[k] = localQ[k + 1]
                                    /\ localQ[k + 1] \in Locals /\ localQ[k + 1] # h
  BY TailIs DEF QueuedMeans
<1> HIDE DEF h
<1>2. \A k \in 1..Len(localQ') : local'[localQ'[k]] = "queued"
  BY <1>1 DEF QueuedMeans, LocalMoves, h
<1>3. \A k, m \in 1..Len(localQ') : localQ'[k] = localQ'[m] => k = m
  <2> SUFFICES ASSUME NEW k \in 1..Len(localQ'), NEW m \in 1..Len(localQ'), localQ'[k] = localQ'[m] PROVE k = m
    OBVIOUS
  <2>1. k + 1 = m + 1
    BY <1>1 DEF QueuedMeans
  <2> QED
    BY <1>1, <2>1
<1> QED
  BY <1>1, <1>2, <1>3 DEF QueuedMeans, h

\* The flows stay where they are.
LEMMA FlowSame ==
    ASSUME FlowMeans, owner \in [Locals -> Sessions \cup {None}], owner' = owner,
           \A l \in Locals : local'[l] = "flow" <=> local[l] = "flow",
           \A y \in Sessions : sess[y].at \notin {"none", "queued"} => \/ sess'[y].at \notin {"none", "queued"}
                                                                       \/ \A l \in Locals : owner[l] # y
    PROVE  FlowMeans'
BY DEF FlowMeans

\* A connection that goes back to localChannel is queued, or closed and not counted.
LEMMA Requeues ==
    ASSUME MuxShape, QueuedMeans, LiveCounted, NEW l \in Locals, local[l] = "held", Requeue(l)
    PROVE  /\ local' \in [Locals -> {"new", "queued", "held", "flow", "closed"}] /\ localQ' \in Seq(Locals) /\ streams' \in Int
           /\ QueuedMeans' /\ LiveCounted'
           /\ \E v \in {"queued", "closed"} : LocalMoves(l, v)
<1>1. localQ \in Seq(Locals) /\ streams \in Int /\ local \in [Locals -> {"new", "queued", "held", "flow", "closed"}]
  BY DEF MuxShape
<1>2. CASE localQ' = Append(localQ, l) /\ local' = [local EXCEPT ![l] = "queued"] /\ UNCHANGED streams
  <2>1. LocalMoves(l, "queued")
    BY <1>1, <1>2 DEF LocalMoves
  <2>2. streams' = streams + IsLive("queued") - IsLive(local[l])
    BY <1>1, <1>2 DEF IsLive
  <2> QED
    BY <1>1, <1>2, <2>1, <2>2, QueueAdds, LiveMoves
<1>3. CASE local' = [local EXCEPT ![l] = "closed"] /\ streams' = streams - 1 /\ UNCHANGED localQ
  <2>1. LocalMoves(l, "closed")
    BY <1>1, <1>3 DEF LocalMoves
  <2>2. streams' = streams + IsLive("closed") - IsLive(local[l])
    BY <1>1, <1>3 DEF IsLive
  <2>3. LiveCounted'
    BY <2>1, <2>2, LiveMoves
  <2>4. QueuedMeans'
    BY <1>1, <1>3, <2>1, QueueSame DEF LocalMoves
  <2> QED
    BY <1>1, <1>3, <2>1, <2>3, <2>4
<1> QED
  BY <1>2, <1>3 DEF Requeue

-----------------------------------------------------------------------------
(* tcpmux: the steps. *)

LEMMA MuxQueues ==
    ASSUME MuxBody, NEW b \in BOOLEAN, AddSession(b), UNCHANGED <<localQ, local, owner, streams>>
    PROVE  MuxBody'
<1> DEFINE x == Fresh(FreeSlots)
           r == [NoSess EXCEPT !.at = "queued", !.live = b]
<1>1. x \in FreeSlots
  BY FreshIn DEF AddSession
<1>2. x \in Sessions /\ sess[x].at \in {"none", "over"} /\ (sess[x].at = "over" => \A l \in Locals : owner[l] # x)
  BY <1>1 DEF FreeSlots
<1>3. r \in Session /\ r.at = "queued" /\ r.used = 0
  <2>1. NoSess \in Session
    BY DEF NoSess, Session
  <2>2. \A s \in Session : [s EXCEPT !.at = "queued", !.live = b] \in Session
    BY DEF Session
  <2>3. r.at = "queued" /\ r.used = 0
    BY DEF NoSess
  <2> QED
    BY <2>1, <2>2, <2>3
<1>4. sess' = [sess EXCEPT ![x] = r] /\ sess \in [Sessions -> Session]
  BY DEF AddSession, MuxBody, MuxShape
<1> HIDE DEF x, r
<1>5. SessionMoves(x) /\ sess'[x].at = "queued" /\ sess'[x].used = 0
  BY <1>2, <1>3, <1>4 DEF SessionMoves
<1>6. \A l \in Locals : owner[l] # x
  BY <1>2, StreamAssumption DEF MuxBody, FlowMeans
<1>7. MuxShape'
  BY <1>5 DEF MuxBody, MuxShape, SessionMoves
<1>8. QueuedMeans' /\ LiveCounted'
  BY DEF MuxBody, QueuedMeans, LiveCounted, LiveOnes
<1>9. HeldMeans'
  BY <1>2, <1>5, HeldSame DEF MuxBody, SessionMoves, Busy
<1>10. FlowMeans'
  BY <1>5, <1>6, FlowSame DEF MuxBody, MuxShape, SessionMoves
<1>11. SlotsCounted'
  <2> SUFFICES ASSUME NEW y \in Sessions PROVE sess'[y].used = Cardinality(CarriedBy(y)') + Slot(y)'
    BY DEF SlotsCounted
  <2>1. CarriedBy(y)' = CarriedBy(y)
    BY DEF CarriedBy
  <2>2. CASE y = x
    <3>1. CarriedBy(x) = {}
      BY <1>6 DEF CarriedBy
    <3> QED
      BY <1>5, <2>1, <2>2, <3>1, FS_EmptySet DEF Slot
  <2>3. CASE y # x
    BY <1>5, <2>1, <2>3 DEF MuxBody, SlotsCounted, SessionMoves, Slot
  <2> QED
    BY <2>2, <2>3
<1> QED
  BY <1>7, <1>8, <1>9, <1>10, <1>11 DEF MuxBody

LEMMA MuxAccepts ==
    ASSUME MuxBody, NEW l \in Locals, Accept(l), UNCHANGED <<sess, owner>>,
           streams' = IF local'[l] = "queued" THEN streams + 1 ELSE streams
    PROVE  MuxBody'
<1>1. /\ localQ \in Seq(Locals) /\ streams \in Int /\ local \in [Locals -> {"new", "queued", "held", "flow", "closed"}]
      /\ local[l] = "new" /\ QueuedMeans /\ LiveCounted
  BY DEF MuxBody, MuxShape, Accept
<1>2. /\ local' \in [Locals -> {"new", "queued", "held", "flow", "closed"}] /\ localQ' \in Seq(Locals) /\ streams' \in Int
      /\ QueuedMeans' /\ LiveCounted'
      /\ \E v \in {"queued", "closed"} : LocalMoves(l, v)
  <2>1. CASE localQ' = Append(localQ, l) /\ local' = [local EXCEPT ![l] = "queued"]
    <3>1. LocalMoves(l, "queued")
      BY <1>1, <2>1 DEF LocalMoves
    <3>2. streams' = streams + IsLive("queued") - IsLive(local[l])
      BY <1>1, <3>1 DEF IsLive, LocalMoves
    <3> QED
      BY <1>1, <2>1, <3>1, <3>2, QueueAdds, LiveMoves
  <2>2. CASE local' = [local EXCEPT ![l] = "closed"] /\ UNCHANGED localQ
    <3>1. LocalMoves(l, "closed")
      BY <1>1, <2>2 DEF LocalMoves
    <3>2. streams' = streams + IsLive("closed") - IsLive(local[l])
      BY <1>1, <3>1 DEF IsLive, LocalMoves
    <3>3. LiveCounted'
      BY <1>1, <3>1, <3>2, LiveMoves
    <3>4. QueuedMeans'
      BY <1>1, <2>2, <3>1, QueueSame DEF LocalMoves
    <3> QED
      BY <1>1, <2>2, <3>1, <3>3, <3>4
  <2> QED
    BY <2>1, <2>2 DEF Accept
<1>3. PICK v \in {"queued", "closed"} : LocalMoves(l, v)
  BY <1>2
<1>4. MuxShape'
  BY <1>2 DEF MuxBody, MuxShape
<1>5. HeldMeans'
  BY <1>1, <1>3, HeldSame DEF MuxBody, LocalMoves
<1>6. FlowMeans'
  BY <1>1, <1>3, FlowSame DEF MuxBody, MuxShape, LocalMoves
<1>7. SlotsCounted'
  BY DEF MuxBody, SlotsCounted, CarriedBy, Slot
<1> QED
  BY <1>2, <1>4, <1>5, <1>6, <1>7 DEF MuxBody


\* A session that holds nothing goes from one state to another.
LEMMA MuxTurns ==
    ASSUME MuxBody, NEW x \in Sessions, SessionMoves(x), UNCHANGED <<localQ, local, owner, streams>>,
           sess'[x].at \in Busy <=> sess[x].at \in Busy, sess'[x].local = sess[x].local,
           sess[x].at \notin {"none", "queued"} => sess'[x].at \notin {"none", "queued"},
           sess'[x].used = sess[x].used + Slot(x)' - Slot(x)
    PROVE  MuxBody'
<1>1. MuxShape'
  BY DEF MuxBody, MuxShape, SessionMoves
<1>2. QueuedMeans' /\ LiveCounted'
  BY DEF MuxBody, QueuedMeans, LiveCounted, LiveOnes
<1>3. HeldMeans'
  BY HeldSame DEF MuxBody, SessionMoves
<1>4. FlowMeans'
  BY FlowSame DEF MuxBody, MuxShape, SessionMoves
<1>5. SlotsCounted'
  BY SlotMoves DEF MuxBody
<1> QED
  BY <1>1, <1>2, <1>3, <1>4, <1>5 DEF MuxBody

LEMMA SessionIs ==
    ASSUME MuxBody, NEW x \in Sessions
    PROVE  /\ sess \in [Sessions -> Session] /\ sess[x] \in Session /\ sess[x].used \in Int
           /\ sess[x].local \in Locals \cup {None}
BY DEF MuxBody, MuxShape, Session

LEMMA MuxTurnsHere ==
    ASSUME MuxBody, NEW x \in Sessions,
           SessionStarts(x) \/ TakeSlot(x) \/ OpenStream(x) \/ SessionReturns(x) \/ SessionCut(x)
    PROVE  MuxBody'
<1>1. sess \in [Sessions -> Session] /\ sess[x].used \in Int
  BY SessionIs
<1>2. UNCHANGED <<localQ, local, owner, streams>>
  BY DEF SessionStarts, TakeSlot, OpenStream, SessionReturns, SessionCut
<1>3. ASSUME NEW v \in {"slot", "send", "over"}, At(x, v)
      PROVE  SessionMoves(x) /\ sess'[x].at = v /\ sess'[x].local = sess[x].local /\ sess'[x].used = sess[x].used
  BY <1>1, <1>3 DEF At, Session, SessionMoves
<1>4. CASE SessionStarts(x)
  <2>1. sess[x].at = "queued" /\ At(x, "slot")
    BY <1>4 DEF SessionStarts
  <2>2. SessionMoves(x) /\ sess'[x].at = "slot" /\ sess'[x].local = sess[x].local /\ sess'[x].used = sess[x].used
    BY <1>3, <2>1
  <2>3. Slot(x) = 0 /\ Slot(x)' = 0
    BY <2>1, <2>2 DEF Slot
  <2>4. sess'[x].used = sess[x].used + Slot(x)' - Slot(x)
    BY <1>1, <2>2, <2>3
  <2> QED
    BY <1>2, <2>1, <2>2, <2>4, MuxTurns DEF Busy
<1>5. CASE TakeSlot(x)
  <2>1. sess[x].at = "slot" /\ sess' = [sess EXCEPT ![x].at = "take", ![x].used = @ + 1]
    BY <1>5 DEF TakeSlot
  <2>2. SessionMoves(x) /\ sess'[x].at = "take" /\ sess'[x].local = sess[x].local /\ sess'[x].used = sess[x].used + 1
    BY <1>1, <2>1 DEF Session, SessionMoves
  <2>3. Slot(x) = 0 /\ Slot(x)' = 1
    BY <2>1, <2>2 DEF Slot
  <2>4. sess'[x].used = sess[x].used + Slot(x)' - Slot(x)
    BY <1>1, <2>2, <2>3
  <2> QED
    BY <1>2, <2>1, <2>2, <2>4, MuxTurns DEF Busy
<1>6. CASE OpenStream(x)
  <2>1. sess[x].at = "open" /\ At(x, "send")
    BY <1>6 DEF OpenStream
  <2>2. SessionMoves(x) /\ sess'[x].at = "send" /\ sess'[x].local = sess[x].local /\ sess'[x].used = sess[x].used
    BY <1>3, <2>1
  <2>3. Slot(x) = 1 /\ Slot(x)' = 1
    BY <2>1, <2>2 DEF Slot
  <2>4. sess'[x].used = sess[x].used + Slot(x)' - Slot(x)
    BY <1>1, <2>2, <2>3
  <2> QED
    BY <1>2, <2>1, <2>2, <2>4, MuxTurns DEF Busy
<1>7. CASE SessionReturns(x)
  <2>1. sess[x].at = "take" /\ At(x, "over")
    BY <1>7 DEF SessionReturns
  <2>2. SessionMoves(x) /\ sess'[x].at = "over" /\ sess'[x].local = sess[x].local /\ sess'[x].used = sess[x].used
    BY <1>3, <2>1
  <2>3. Slot(x) = 1 /\ Slot(x)' = 1
    BY <2>1, <2>2 DEF Slot
  <2>4. sess'[x].used = sess[x].used + Slot(x)' - Slot(x)
    BY <1>1, <2>2, <2>3
  <2> QED
    BY <1>2, <2>1, <2>2, <2>4, MuxTurns DEF Busy
<1>8. CASE SessionCut(x)
  <2>1. sess' = [sess EXCEPT ![x].live = FALSE]
    BY <1>8 DEF SessionCut
  <2>2. SessionMoves(x) /\ sess'[x].at = sess[x].at /\ sess'[x].local = sess[x].local /\ sess'[x].used = sess[x].used
    BY <1>1, <2>1 DEF Session, SessionMoves
  <2>3. Slot(x)' = Slot(x) /\ Slot(x) \in {0, 1}
    BY <2>2 DEF Slot
  <2>4. sess'[x].used = sess[x].used + Slot(x)' - Slot(x)
    BY <1>1, <2>2, <2>3
  <2> QED
    BY <1>2, <2>2, <2>4, MuxTurns
<1> QED
  BY <1>4, <1>5, <1>6, <1>7, <1>8

LEMMA MuxTakesLocal ==
    ASSUME MuxBody, NEW x \in Sessions, TakeLocal(x) PROVE MuxBody'
<1> DEFINE h == Head(localQ)
<1>1. /\ sess \in [Sessions -> Session] /\ sess[x].used \in Int /\ sess[x].at = "take"
      /\ localQ \in Seq(Locals) /\ localQ # <<>> /\ localQ' = Tail(localQ) /\ owner' = owner
      /\ streams \in Int /\ local \in [Locals -> {"new", "queued", "held", "flow", "closed"}]
      /\ QueuedMeans /\ LiveCounted /\ SlotsCounted /\ HeldMeans /\ FlowMeans
  BY SessionIs DEF TakeLocal, MuxBody, MuxShape
<1>2. h \in Locals /\ local[h] = "queued"
  BY <1>1, TailIs DEF QueuedMeans
<1>3. /\ \/ sess' = [sess EXCEPT ![x].at = "open", ![x].local = h] /\ local' = [local EXCEPT ![h] = "held"] /\ streams' = streams
         \/ sess' = [sess EXCEPT ![x].at = "slot", ![x].used = @ - 1] /\ local' = [local EXCEPT ![h] = "closed"] /\ streams' = streams - 1
  BY DEF TakeLocal
<1> HIDE DEF h
<1>4. CASE sess' = [sess EXCEPT ![x].at = "open", ![x].local = h] /\ local' = [local EXCEPT ![h] = "held"] /\ streams' = streams
  <2>1. SessionMoves(x) /\ sess'[x].at = "open" /\ sess'[x].local = h /\ sess'[x].used = sess[x].used
    BY <1>1, <1>2, <1>4 DEF Session, SessionMoves
  <2>2. LocalMoves(h, "held") /\ local' \in [Locals -> {"new", "queued", "held", "flow", "closed"}]
    BY <1>1, <1>2, <1>4 DEF LocalMoves
  <2>3. QueuedMeans' /\ localQ' \in Seq(Locals)
    BY <1>1, <2>2, QueueTakes DEF h
  <2>4. streams' = streams + IsLive("held") - IsLive(local[h])
    BY <1>1, <1>2, <1>4 DEF IsLive
  <2>5. LiveCounted'
    BY <1>1, <1>2, <2>2, <2>4, LiveMoves
  <2>6. HeldMeans'
    BY <1>1, <1>2, <2>1, <2>2, HeldTakes DEF Busy
  <2>7. FlowMeans'
    BY <1>1, <1>2, <2>1, <2>2, FlowSame DEF MuxBody, MuxShape, SessionMoves, LocalMoves
  <2>8. Slot(x) = 1 /\ Slot(x)' = 1
    BY <1>1, <2>1 DEF Slot
  <2>9. SlotsCounted'
    <3>1. sess'[x].used = sess[x].used + Slot(x)' - Slot(x)
      BY <1>1, <2>1, <2>8
    <3> QED
      BY <1>1, <2>1, <3>1, SlotMoves
  <2>10. MuxShape'
    BY <1>1, <1>4, <2>1, <2>2, <2>3 DEF MuxBody, MuxShape, SessionMoves
  <2> QED
    BY <2>3, <2>5, <2>6, <2>7, <2>9, <2>10 DEF MuxBody
<1>5. CASE /\ sess' = [sess EXCEPT ![x].at = "slot", ![x].used = @ - 1] /\ local' = [local EXCEPT ![h] = "closed"]
           /\ streams' = streams - 1
  <2>1. SessionMoves(x) /\ sess'[x].at = "slot" /\ sess'[x].local = sess[x].local /\ sess'[x].used = sess[x].used - 1
    <3>1. sess' \in [Sessions -> Session]
      BY <1>1, <1>5 DEF Session
    <3>2. sess'[x].at = "slot" /\ sess'[x].local = sess[x].local /\ sess'[x].used = sess[x].used - 1
      BY <1>1, <1>5 DEF Session
    <3> QED
      BY <1>1, <1>5, <3>1, <3>2 DEF SessionMoves
  <2>2. LocalMoves(h, "closed") /\ local' \in [Locals -> {"new", "queued", "held", "flow", "closed"}]
    BY <1>1, <1>2, <1>5 DEF LocalMoves
  <2>3. QueuedMeans' /\ localQ' \in Seq(Locals)
    BY <1>1, <2>2, QueueTakes DEF h
  <2>4. streams' = streams + IsLive("closed") - IsLive(local[h])
    BY <1>1, <1>2, <1>5 DEF IsLive
  <2>5. LiveCounted'
    BY <1>1, <1>2, <2>2, <2>4, LiveMoves
  <2>6. HeldMeans'
    BY <1>1, <1>2, <2>1, <2>2, HeldSame DEF Busy, SessionMoves, LocalMoves
  <2>7. FlowMeans'
    BY <1>1, <1>2, <2>1, <2>2, FlowSame DEF MuxBody, MuxShape, SessionMoves, LocalMoves
  <2>8. Slot(x) = 1 /\ Slot(x)' = 0
    BY <1>1, <2>1 DEF Slot
  <2>9. SlotsCounted'
    <3>1. sess'[x].used = sess[x].used + Slot(x)' - Slot(x)
      BY <1>1, <2>1, <2>8
    <3> QED
      BY <1>1, <2>1, <3>1, SlotMoves
  <2>10. MuxShape'
    BY <1>1, <1>5, <2>1, <2>2, <2>3 DEF MuxBody, MuxShape, SessionMoves
  <2> QED
    BY <2>3, <2>5, <2>6, <2>7, <2>9, <2>10 DEF MuxBody
<1> QED
  BY <1>3, <1>4, <1>5


\* A stream that could not be opened or named: what the session held is queued again.
LEMMA MuxGivesBack ==
    ASSUME MuxBody, NEW x \in Sessions, HandleSessionError(x) \/ SendFails(x) PROVE MuxBody'
<1> DEFINE l == sess[x].local
<1>1. /\ sess \in [Sessions -> Session] /\ sess[x].used \in Int /\ sess[x].at \in Busy
      /\ owner' = owner /\ Requeue(l)
      /\ MuxShape /\ QueuedMeans /\ LiveCounted /\ SlotsCounted /\ HeldMeans /\ FlowMeans
  BY SessionIs DEF HandleSessionError, SendFails, MuxBody, Busy
<1>2. l \in Locals /\ local[l] = "held"
  BY <1>1 DEF HeldMeans, Busy
<1>3. /\ SessionMoves(x) /\ sess'[x].at \notin Busy /\ sess'[x].at \notin {"none", "queued"}
      /\ sess'[x].used = sess[x].used + Slot(x)' - Slot(x)
  <2>1. CASE HandleSessionError(x)
    <3>1. sess[x].at = "open" /\ sess' = [sess EXCEPT ![x].at = "over", ![x].local = None]
      BY <2>1 DEF HandleSessionError
    <3>2. sess'[x].at = "over" /\ sess'[x].used = sess[x].used
      BY <1>1, <3>1 DEF Session
    <3>3. Slot(x) = 1 /\ Slot(x)' = 1
      BY <3>1, <3>2 DEF Slot
    <3>4. SessionMoves(x)
      BY <1>1, <3>1 DEF Session, SessionMoves
    <3> QED
      BY <1>1, <3>2, <3>3, <3>4 DEF Busy
  <2>2. CASE SendFails(x)
    <3>1. sess[x].at = "send" /\ sess' = [sess EXCEPT ![x].at = "slot", ![x].local = None, ![x].used = @ - 1]
      BY <2>2 DEF SendFails
    <3>2. sess'[x].at = "slot" /\ sess'[x].used = sess[x].used - 1
      BY <1>1, <3>1 DEF Session
    <3>3. Slot(x) = 1 /\ Slot(x)' = 0
      BY <3>1, <3>2 DEF Slot
    <3>4. sess' \in [Sessions -> Session]
      BY <1>1, <3>1 DEF Session
    <3>5. SessionMoves(x)
      BY <1>1, <3>1, <3>4 DEF SessionMoves
    <3> QED
      BY <1>1, <3>2, <3>3, <3>5 DEF Busy
  <2> QED
    BY <2>1, <2>2
<1>4. /\ local' \in [Locals -> {"new", "queued", "held", "flow", "closed"}] /\ localQ' \in Seq(Locals) /\ streams' \in Int
      /\ QueuedMeans' /\ LiveCounted'
      /\ \E v \in {"queued", "closed"} : LocalMoves(l, v)
  <2> HIDE DEF l
  <2> QED
    BY <1>1, <1>2, Requeues
<1>5. PICK v \in {"queued", "closed"} : LocalMoves(l, v)
  BY <1>4
<1>6. HeldMeans'
  BY <1>1, <1>3, <1>5, HeldLetsGo
<1>7. FlowMeans'
  BY <1>1, <1>2, <1>3, <1>5, FlowSame DEF MuxShape, SessionMoves, LocalMoves
<1>8. SlotsCounted'
  BY <1>1, <1>3, SlotMoves
<1>9. MuxShape'
  BY <1>1, <1>3, <1>4 DEF MuxShape, SessionMoves
<1> QED
  BY <1>4, <1>6, <1>7, <1>8, <1>9 DEF MuxBody

\* The slot of the handler becomes the slot of the flow.
LEMMA MuxCarries ==
    ASSUME MuxBody, NEW x \in Sessions, SendAddress(x) PROVE MuxBody'
<1> DEFINE l == sess[x].local
<1>1. /\ sess \in [Sessions -> Session] /\ sess[x].used \in Int /\ sess[x].at = "send"
      /\ sess' = [sess EXCEPT ![x].at = "slot", ![x].local = None] /\ localQ' = localQ /\ streams' = streams
      /\ owner \in [Locals -> Sessions \cup {None}] /\ streams \in Int /\ localQ \in Seq(Locals)
      /\ local \in [Locals -> {"new", "queued", "held", "flow", "closed"}]
      /\ MuxShape /\ QueuedMeans /\ LiveCounted /\ SlotsCounted /\ HeldMeans /\ FlowMeans
  BY SessionIs DEF SendAddress, MuxBody, MuxShape
<1>2. local' = [local EXCEPT ![l] = "flow"] /\ owner' = [owner EXCEPT ![l] = x]
  BY DEF SendAddress
<1>3. l \in Locals /\ local[l] = "held" /\ owner[l] = None
  BY <1>1 DEF HeldMeans, FlowMeans
<1>4. SessionMoves(x) /\ sess'[x].at = "slot" /\ sess'[x].used = sess[x].used
  BY <1>1 DEF Session, SessionMoves
<1>5. LocalMoves(l, "flow") /\ local' \in [Locals -> {"new", "queued", "held", "flow", "closed"}]
  BY <1>1, <1>2, <1>3 DEF LocalMoves
<1>6. /\ owner' \in [Locals -> Sessions \cup {None}] /\ owner'[l] = x
      /\ \A m \in Locals : m # l => owner'[m] = owner[m]
  BY <1>1, <1>2, <1>3
<1>7. HeldMeans'
  <2>1. sess[x].at \in Busy /\ sess'[x].at \notin Busy
    BY <1>1, <1>4 DEF Busy
  <2> QED
    BY <1>1, <1>4, <1>5, <2>1, HeldLetsGo
<1> HIDE DEF l
<1>8. QueuedMeans'
  BY <1>1, <1>3, <1>5, QueueSame DEF LocalMoves
<1>9. LiveCounted'
  <2>1. streams' = streams + IsLive("flow") - IsLive(local[l])
    BY <1>1, <1>3 DEF IsLive
  <2> QED
    BY <1>1, <1>3, <1>5, <2>1, LiveMoves
<1>10. FlowMeans'
  <2>1. \A m \in Locals : local'[m] = "flow" <=> owner'[m] # None
    BY <1>1, <1>3, <1>5, <1>6, StreamAssumption DEF FlowMeans, LocalMoves
  <2>2. \A m \in Locals : owner'[m] # None => sess'[owner'[m]].at \notin {"none", "queued"}
    BY <1>1, <1>4, <1>6 DEF FlowMeans, SessionMoves
  <2> QED
    BY <2>1, <2>2 DEF FlowMeans
<1>11. SlotsCounted'
  <2> SUFFICES ASSUME NEW y \in Sessions PROVE sess'[y].used = Cardinality(CarriedBy(y)') + Slot(y)'
    BY DEF SlotsCounted
  <2>1. sess[y].used = Cardinality(CarriedBy(y)) + Slot(y) /\ Cardinality(CarriedBy(y)) \in Nat /\ IsFiniteSet(CarriedBy(y))
    BY <1>1, CarriedFinite DEF SlotsCounted
  <2>2. CASE y = x
    <3>1. CarriedBy(x)' = CarriedBy(x) \cup {l} /\ l \notin CarriedBy(x)
      BY <1>3, <1>6, StreamAssumption DEF CarriedBy
    <3>2. Cardinality(CarriedBy(x)') = Cardinality(CarriedBy(x)) + 1
      BY <2>1, <2>2, <3>1, FS_AddElement
    <3>3. Slot(x) = 1 /\ Slot(x)' = 0
      BY <1>1, <1>4 DEF Slot
    <3> QED
      BY <1>4, <2>1, <2>2, <3>2, <3>3
  <2>3. CASE y # x
    <3>1. CarriedBy(y)' = CarriedBy(y)
      BY <1>3, <1>6, <2>3, StreamAssumption DEF CarriedBy
    <3> QED
      BY <1>4, <2>1, <2>3, <3>1 DEF SessionMoves, Slot
  <2> QED
    BY <2>2, <2>3
<1>12. MuxShape'
  BY <1>1, <1>4, <1>5, <1>6 DEF MuxShape, SessionMoves
<1> QED
  BY <1>7, <1>8, <1>9, <1>10, <1>11, <1>12 DEF MuxBody

LEMMA MuxEnds ==
    ASSUME MuxBody, NEW l \in Locals, MuxFlowEnds(l) PROVE MuxBody'
<1>1. /\ sess \in [Sessions -> Session] /\ localQ' = localQ /\ streams' = streams - 1 /\ local[l] = "flow"
      /\ owner \in [Locals -> Sessions \cup {None}] /\ streams \in Int /\ localQ \in Seq(Locals)
      /\ local \in [Locals -> {"new", "queued", "held", "flow", "closed"}]
      /\ local' = [local EXCEPT ![l] = "closed"] /\ owner' = [owner EXCEPT ![l] = None]
      /\ MuxShape /\ QueuedMeans /\ LiveCounted /\ SlotsCounted /\ HeldMeans /\ FlowMeans
  BY DEF MuxFlowEnds, MuxBody, MuxShape
<1>2. PICK x \in Sessions : owner[l] = x /\ x # None /\ sess[x].used \in Int
  BY <1>1 DEF FlowMeans, Session
<1>3. sess' = [sess EXCEPT ![x].used = @ - 1]
  BY <1>2 DEF MuxFlowEnds
<1>4. /\ sess'[x].at = sess[x].at /\ sess'[x].local = sess[x].local /\ sess'[x].used = sess[x].used - 1
  BY <1>1, <1>2, <1>3 DEF Session
<1>5. SessionMoves(x)
  <2>1. sess' \in [Sessions -> Session]
    <3>1. \A s \in Session, n \in Int : [s EXCEPT !.used = n] \in Session
      BY DEF Session
    <3>2. sess' = [sess EXCEPT ![x] = [sess[x] EXCEPT !.used = sess[x].used - 1]] /\ sess[x].used - 1 \in Int
      BY <1>1, <1>2, <1>3
    <3> QED
      BY <1>1, <3>1, <3>2
  <2> QED
    BY <1>1, <1>3, <2>1 DEF SessionMoves
<1>6. LocalMoves(l, "closed") /\ local' \in [Locals -> {"new", "queued", "held", "flow", "closed"}]
  BY <1>1 DEF LocalMoves
<1>7. /\ owner' \in [Locals -> Sessions \cup {None}] /\ owner'[l] = None
      /\ \A m \in Locals : m # l => owner'[m] = owner[m]
  BY <1>1
<1>9. HeldMeans'
  BY <1>1, <1>4, <1>5, <1>6, HeldSame DEF SessionMoves, LocalMoves
<1>10. QueuedMeans'
  BY <1>1, <1>6, QueueSame DEF LocalMoves
<1>11. LiveCounted'
  <2>1. streams' = streams + IsLive("closed") - IsLive(local[l])
    BY <1>1 DEF IsLive
  <2> QED
    BY <1>1, <1>6, <2>1, LiveMoves
<1>12. FlowMeans'
  <2>1. \A m \in Locals : local'[m] = "flow" <=> owner'[m] # None
    BY <1>1, <1>6, <1>7 DEF FlowMeans, LocalMoves
  <2>2. \A y \in Sessions : sess'[y].at = sess[y].at
    BY <1>4, <1>5 DEF SessionMoves
  <2>3. \A m \in Locals : owner'[m] # None => sess'[owner'[m]].at \notin {"none", "queued"}
    BY <1>1, <1>7, <2>2 DEF FlowMeans
  <2> QED
    BY <2>1, <2>3 DEF FlowMeans
<1>13. SlotsCounted'
  <2> SUFFICES ASSUME NEW y \in Sessions PROVE sess'[y].used = Cardinality(CarriedBy(y)') + Slot(y)'
    BY DEF SlotsCounted
  <2>1. sess[y].used = Cardinality(CarriedBy(y)) + Slot(y) /\ Cardinality(CarriedBy(y)) \in Nat /\ IsFiniteSet(CarriedBy(y))
    BY <1>1, CarriedFinite DEF SlotsCounted
  <2>2. CASE y = x
    <3>1. CarriedBy(x)' = CarriedBy(x) \ {l} /\ l \in CarriedBy(x)
      BY <1>2, <1>7 DEF CarriedBy
    <3>2. Cardinality(CarriedBy(x)') = Cardinality(CarriedBy(x)) - 1
      BY <2>1, <2>2, <3>1, FS_RemoveElement
    <3>3. Slot(x)' = Slot(x) /\ Slot(x) \in {0, 1}
      BY <1>4 DEF Slot
    <3> QED
      BY <1>4, <2>1, <2>2, <3>2, <3>3
  <2>3. CASE y # x
    <3>1. CarriedBy(y)' = CarriedBy(y)
      BY <1>7, <1>2, <2>3, StreamAssumption DEF CarriedBy
    <3> QED
      BY <1>5, <2>1, <2>3, <3>1 DEF SessionMoves, Slot
  <2> QED
    BY <2>2, <2>3
<1>14. MuxShape'
  BY <1>1, <1>5, <1>6, <1>7 DEF MuxShape, SessionMoves
<1> QED
  BY <1>9, <1>10, <1>11, <1>12, <1>13, <1>14 DEF MuxBody


\* A restart finds nothing in hand and no flow, and counts nothing.
LEMMA MuxRestart ==
    ASSUME MuxBody, ServerPublishes PROVE MuxBody'
<1>1. /\ \A x \in Sessions : sess[x].at \in {"none", "queued", "slot", "over"}
      /\ \A l \in Locals : local[l] # "flow"
      /\ localQ' = <<>> /\ local' = [l \in Locals |-> IF local[l] = "queued" THEN "closed" ELSE local[l]]
      /\ sess' = [x \in Sessions |-> NoSess] /\ streams' = 0 /\ owner' = owner
  BY DEF ServerPublishes
<1>2. \A l \in Locals : local[l] # "held" /\ owner[l] = None
  BY <1>1 DEF MuxBody, HeldMeans, FlowMeans, Holds
<1>3. \A l \in Locals : local'[l] \in {"new", "closed"}
  BY <1>1, <1>2 DEF MuxBody, MuxShape
<1>4. NoSess \in Session /\ NoSess.at = "none" /\ NoSess.used = 0
  BY DEF NoSess, Session
<1>5. MuxShape'
  BY <1>1, <1>3, <1>4 DEF MuxBody, MuxShape
<1>6. QueuedMeans'
  BY <1>1 DEF QueuedMeans
<1>7. HeldMeans'
  BY <1>1, <1>3, <1>4 DEF HeldMeans, Holds
<1>8. FlowMeans'
  BY <1>1, <1>2, <1>3 DEF FlowMeans
<1>9. LiveCounted'
  <2>1. LiveOnes' = {}
    BY <1>3 DEF LiveOnes
  <2> QED
    BY <1>1, <2>1, FS_EmptySet DEF LiveCounted
<1>10. SlotsCounted'
  <2> SUFFICES ASSUME NEW x \in Sessions PROVE sess'[x].used = Cardinality(CarriedBy(x)') + Slot(x)'
    BY DEF SlotsCounted
  <2>1. CarriedBy(x)' = {}
    BY <1>1, <1>2, StreamAssumption DEF CarriedBy
  <2>2. sess'[x].used = 0 /\ Slot(x)' = 0
    BY <1>1, <1>4 DEF Slot
  <2> QED
    BY <2>1, <2>2, FS_EmptySet
<1> QED
  BY <1>5, <1>6, <1>7, <1>8, <1>9, <1>10 DEF MuxBody

LEMMA MuxStays ==
    ASSUME MuxBody, UNCHANGED <<localQ, local, sess, owner, streams>> PROVE MuxBody'
<1>1. MuxShape' /\ QueuedMeans'
  BY DEF MuxBody, MuxShape, QueuedMeans
<1>2. HeldMeans' /\ FlowMeans'
  BY DEF MuxBody, HeldMeans, Holds, FlowMeans
<1>3. LiveCounted' /\ SlotsCounted'
  BY DEF MuxBody, LiveCounted, LiveOnes, SlotsCounted, CarriedBy, Slot
<1> QED
  BY <1>1, <1>2, <1>3 DEF MuxBody

LEMMA MuxStreamStep ==
    ASSUME mode = "tcpmux", hold = None, MuxBody, StreamStep PROVE hold' = None /\ MuxBody'
<1>1. ASSUME UNCHANGED streamData PROVE hold' = None /\ MuxBody'
  BY <1>1, MuxStays DEF streamData
<1>2. CASE DialControl \/ DialTimesOut \/ ChannelHandshake \/ ServerRestarts
           \/ ClientRestarts \/ ClientComesBack \/ ClientLoses \/ SignalChan \/ OnChan
  BY <1>1, <1>2 DEF DialControl, DialTimesOut, ChannelHandshake, ServerRestarts, ClientRestarts, ClientComesBack,
                    ClientLoses, SignalChan, OnChan
<1>3. CASE PoolGrows \/ PoolShrinks \/ ControlCut
  BY <1>1, <1>3 DEF PoolGrows, PoolShrinks, ControlCut
<1>4. CASE TcpTunnel \/ TcpTakes \/ TcpHandsOver \/ TcpReturns
  BY <1>4 DEF TcpTunnel, TcpTakes, TcpHandsOver, TcpReturns
<1>5. CASE DialWasted
  <2>1. (AddSession(FALSE) \/ UNCHANGED sess) /\ UNCHANGED <<localQ, local, owner, streams, hold>>
    BY <1>5 DEF DialWasted, QueueSession
  <2> QED
    BY <2>1, MuxQueues, MuxStays
<1>6. CASE MuxTunnel
  <2>1. UNCHANGED <<localQ, local, owner, streams, hold>> /\ (AddSession(TRUE) \/ UNCHANGED sess)
    BY <1>6 DEF MuxTunnel, QueueSession
  <2>2. CASE AddSession(TRUE)
    BY <2>1, <2>2, MuxQueues
  <2>3. CASE UNCHANGED sess
    BY <2>1, <2>3, MuxStays
  <2> QED
    BY <2>1, <2>2, <2>3
<1>7. ASSUME NEW l \in Locals, TcpAccept(l) \/ TcpFlowEnds(l) PROVE FALSE
  BY <1>7 DEF TcpAccept, TcpFlowEnds
<1>8. ASSUME NEW l \in Locals, MuxAccept(l) PROVE hold' = None /\ MuxBody'
  <2>1. /\ Accept(l) /\ UNCHANGED <<sess, owner, hold>>
        /\ streams' = IF local'[l] = "queued" THEN streams + 1 ELSE streams
    BY <1>8 DEF MuxAccept
  <2> QED
    BY <2>1, MuxAccepts
<1>9. ASSUME NEW l \in Locals, MuxFlowEnds(l) PROVE hold' = None /\ MuxBody'
  BY <1>9, MuxEnds DEF MuxFlowEnds, muxRest
<1>10. ASSUME NEW x \in Sessions, SessionStarts(x) \/ TakeSlot(x) \/ OpenStream(x) \/ SessionReturns(x) \/ SessionCut(x)
       PROVE  hold' = None /\ MuxBody'
  BY <1>10, MuxTurnsHere DEF SessionStarts, TakeSlot, OpenStream, SessionReturns, SessionCut, muxRest
<1>11. ASSUME NEW x \in Sessions, TakeLocal(x) \/ HandleSessionError(x) \/ SendAddress(x) \/ SendFails(x)
       PROVE  hold' = None /\ MuxBody'
  <2>1. hold' = None
    BY <1>11 DEF TakeLocal, HandleSessionError, SendAddress, SendFails, muxRest
  <2> QED
    BY <1>11, <2>1, MuxTakesLocal, MuxGivesBack, MuxCarries
<1> QED
  BY <1>2, <1>3, <1>4, <1>5, <1>6, <1>7, <1>8, <1>9, <1>10, <1>11 DEF StreamStep

LEMMA UdpLeavesStreams ==
    ASSUME UdpStep PROVE UNCHANGED streamData
BY DEF UdpStep, StartsSession, Throws, UdpTakes, UdpOverTcp, UdpOverUdp, UdpReturns, SendsToken, Congested,
       HandlerEnds, CopyEnds, TokenArrives, TokenLost, Addressed, TunnelEnds, streamVars

LEMMA MuxStep ==
    ASSUME MuxInv, [Next]_vars PROVE MuxInv'
<1>1. mode' = mode
  BY DEF Next, vars
<1>2. CASE mode # "tcpmux"
  BY <1>1, <1>2 DEF MuxInv
<1>3. CASE mode = "tcpmux"
  <2>1. hold = None /\ MuxBody
    BY <1>3, MuxIs
  <2>2. CASE UNCHANGED streamData
    BY <2>1, <2>2, MuxStays, <1>1, <1>3, MuxIsNext DEF streamData
  <2>3. CASE StreamStep
    BY <1>1, <1>3, <2>1, <2>3, MuxStreamStep, MuxIsNext
  <2>4. CASE ServerPublishes
    <3>1. hold' = hold
      BY <2>4 DEF ServerPublishes
    <3> QED
      BY <1>1, <1>3, <2>1, <2>4, <3>1, MuxRestart, MuxIsNext
  <2>5. CASE UdpStep
    BY <2>2, <2>5, UdpLeavesStreams
  <2>6. CASE UNCHANGED vars
    BY <2>2, <2>6 DEF vars, streamVars
  <2> QED
    BY <1>3, <2>3, <2>4, <2>5, <2>6 DEF Next
<1> QED
  BY <1>2, <1>3

LEMMA MuxStarts ==
    ASSUME Init PROVE MuxInv
<1>1. /\ localQ = <<>> /\ hold = None /\ sess = [x \in Sessions |-> NoSess] /\ owner = [l \in Locals |-> None]
      /\ streams = 0 /\ local = [l \in Locals |-> IF l \in offer THEN "new" ELSE "closed"]
  BY DEF Init, CommonInit, StreamInit
<1>2. NoSess \in Session /\ NoSess.at = "none" /\ NoSess.used = 0
  BY DEF NoSess, Session
<1>3. MuxShape
  BY <1>1, <1>2 DEF MuxShape
<1>4. QueuedMeans /\ HeldMeans /\ FlowMeans
  BY <1>1, <1>2 DEF QueuedMeans, HeldMeans, Holds, FlowMeans
<1>5. LiveCounted
  <2>1. LiveOnes = {}
    BY <1>1 DEF LiveOnes
  <2> QED
    BY <1>1, <2>1, FS_EmptySet DEF LiveCounted
<1>6. SlotsCounted
  <2> SUFFICES ASSUME NEW x \in Sessions PROVE sess[x].used = Cardinality(CarriedBy(x)) + Slot(x)
    BY DEF SlotsCounted
  <2>1. CarriedBy(x) = {}
    BY <1>1, StreamAssumption DEF CarriedBy
  <2>2. sess[x].used = 0 /\ Slot(x) = 0
    BY <1>1, <1>2 DEF Slot
  <2> QED
    BY <2>1, <2>2, FS_EmptySet
<1>7. hold = None /\ MuxBody
  BY <1>1, <1>3, <1>4, <1>5, <1>6 DEF MuxBody
<1>8. CASE mode = "tcpmux"
  BY <1>7, <1>8, MuxIs
<1> QED
  BY <1>8 DEF MuxInv

\* The counters that decide on dials and on admission are what they count, in
\* every run of every transport: poolConnections and pendingDials of the ws client,
\* streamCounter and the slots of each session of the tcpmux server.
THEOREM CountersAreTrue == Spec => []CountersTrue
<1>1. Init => PoolInv /\ MuxInv
  BY PoolStarts, MuxStarts
<1>2. PoolInv /\ MuxInv /\ [Next]_vars => PoolInv' /\ MuxInv'
  BY PoolStep, MuxStep
<1>3. PoolInv /\ MuxInv => CountersTrue
  BY DEF PoolInv, MuxInv, CountersTrue, StreamsCounted
<1> QED
  BY <1>1, <1>2, <1>3, PTL DEF Spec
===============================================================================
