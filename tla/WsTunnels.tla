------------------------------ MODULE WsTunnels ------------------------------
(***************************************************************************)
(* The ws/wss transport: idle tunnel connections that the client keeps     *)
(* dialled (client ws.go), the handle loops that give each one to a local  *)
(* connection, the keepAlive worker that pings and rotates it until then   *)
(* (server ws.go), and the restarts of either end.                         *)
(*                                                                         *)
(* A connection is a slot of Conns, used again once nothing refers to it.  *)
(* Timers are choices.  The grace of a lost control channel is the subject *)
(* of ControlPlane; here it is the guard of the server's restart.          *)
(***************************************************************************)
EXTENDS TunnelCommon

CONSTANTS Conns, Loops

ASSUME WsAssumption == IsFiniteSet(Conns) /\ None \notin Conns /\ Cardinality(Conns) >= Floor

VARIABLES
    sOn, cOn,   \* the generations: on, or stopped and joining its workers
    sCtl, cCtl, \* control channel at each end: "none", "live", "dead", "told" (SG_Closed)
    bye,        \* the server's handler has read SG_Closed
    started,    \* handlersStarted
    queue,      \* tunnelChannel
    loop,       \* Loops -> [at, local, conn]
    cli,        \* Conns -> tunnelDialer: "none", "dialing", "idle", "flow"
    srv,        \* Conns -> "none", "queued", "taken", "flow"
    open,       \* connections that neither end nor the network has closed
    named,      \* connections whose destination was written to them
    pinged,     \* connections whose ping channel is closed
    spoiled,    \* connections on which a write failed
    lock,       \* Conns -> holder of the hand-over lock
    ka,         \* Conns -> keepAlive: "none", "idle", "write", "failed", "retire"
    carries,    \* Conns -> the local connection of its flow
    pool, pending, owed  \* poolConnections, pendingDials, owedConns

ctlVars == <<sOn, cOn, sCtl, cCtl, bye, started>>
srvVars == <<queue, localQ, loop, local, srv, named, pinged, spoiled, lock, ka, carries>>
cliVars == <<cli, pool, pending, owed, extra, tokens>>
wsVars == <<ctlVars, sigVars, srvVars, cliVars, open, faults>>

WsTypeOK ==
    /\ CommonTypeOK
    /\ {sOn, cOn, started, bye} \subseteq BOOLEAN
    /\ sCtl \in {"none", "live", "dead"} /\ cCtl \in {"none", "live", "dead", "told"}
    /\ cli \in [Conns -> {"none", "dialing", "idle", "flow"}]
    /\ srv \in [Conns -> {"none", "queued", "taken", "flow"}]
    /\ lock \in [Conns -> {"free", "ka", "loop", "retired"}]
    /\ ka \in [Conns -> {"none", "idle", "write", "failed", "retire"}]
    /\ {pool, pending} \subseteq 0..Cardinality(Conns) /\ owed \in 0..Floor

AtRest == [at |-> "off", local |-> None, conn |-> None]

WsInit ==
    /\ sOn = TRUE /\ cOn = TRUE /\ sCtl = "none" /\ cCtl = "none" /\ started = FALSE /\ bye = FALSE
    /\ queue = <<>> /\ loop = [h \in Loops |-> AtRest]
    /\ cli = [c \in Conns |-> "none"] /\ srv = [c \in Conns |-> "none"]
    /\ open = {} /\ named = {} /\ pinged = {} /\ spoiled = {}
    /\ lock = [c \in Conns |-> "free"] /\ ka = [c \in Conns |-> "none"]
    /\ carries = [c \in Conns |-> None]
    /\ pool = 0 /\ pending = 0 /\ owed = 0

-----------------------------------------------------------------------------
(* The control channel. *)

\* tunnelDialer is started for the slots D.
StartDials(D) ==
    /\ \A c \in D : cli[c] = "none" /\ srv[c] = "none" /\ ka[c] = "none"
    /\ cli' = [c \in Conns |-> IF c \in D THEN "dialing" ELSE cli[c]]
    /\ pending' = pending + Cardinality(D)

\* channelDialer: a generation's first control channel, and the initial filling.
\* The server adopts it, and on its own first one starts its handle loops.
Adopt ==
    /\ sCtl' = "live" /\ cCtl' = "live" /\ started' = TRUE
    /\ loop' = IF started THEN loop ELSE [h \in Loops |-> [AtRest EXCEPT !.at = "idle"]]

ChannelDialer ==
    /\ cOn /\ sOn /\ cCtl = "none" /\ pending = 0 /\ pool = 0
    /\ Adopt
    /\ \E D \in kSubset(Floor, Conns) : StartDials(D)
    /\ UNCHANGED <<sOn, cOn, bye, sigVars, queue, localQ, local, srv, named, pinged, spoiled, lock, ka, carries,
                   pool, owed, extra, tokens, open, faults>>

\* reconnectControl: the control channel alone, whatever the server noticed.
ReconnectControl ==
    /\ cOn /\ sOn /\ cCtl = "dead"
    /\ Adopt
    /\ UNCHANGED <<sOn, cOn, bye, sigVars, queue, localQ, local, srv, named, pinged, spoiled, lock, ka, carries,
                   cliVars, open, faults>>

\* onControlLost: the channel alone is dropped.
OnControlLost ==
    /\ sCtl = "dead"
    /\ sCtl' = "none"
    /\ UNCHANGED <<sOn, cOn, cCtl, bye, started, sigVars, srvVars, cliVars, open, faults>>

\* channelHandler at the server: a request is signalled, or lost on a dead channel.
SendChan ==
    /\ reqs > 0 /\ sCtl \in {"live", "dead"} /\ sOn /\ signals < ChannelSize
    /\ reqs' = reqs - 1
    /\ signals' = IF sCtl = "live" THEN signals + 1 ELSE signals
    /\ UNCHANGED <<ctlVars, srvVars, cliVars, open, faults>>

\* channelHandler at the client on SG_Chan: a shrink's token may swallow it.
RecvChan ==
    /\ signals > 0 /\ cCtl = "live" /\ cOn
    /\ signals' = signals - 1
    /\ \/ tokens > 0 /\ tokens' = tokens - 1 /\ UNCHANGED <<cli, pending>>
       \/ tokens' = 0 /\ \E c \in Conns : StartDials({c})
    /\ UNCHANGED <<ctlVars, reqs, srvVars, pool, owed, extra, open, faults>>

-----------------------------------------------------------------------------
(* The client's pool. *)

\* owe: one connection to replace, never more than the floor.
Owe == owed' = IF cOn /\ owed < Floor THEN owed + 1 ELSE owed

\* tunnelDialer: the dial succeeds; the server queues the connection and starts
\* its keepAlive, or closes it when tunnelChannel is full.  If the client's
\* generation was stopped meanwhile its new socket is closed (own).
DialSucceeds(c) ==
    /\ cli[c] = "dialing" /\ sOn
    /\ cli' = [cli EXCEPT ![c] = IF cOn THEN "idle" ELSE "none"]
    /\ pool' = (IF cOn THEN pool + 1 ELSE pool) /\ pending' = pending - 1
    /\ named' = named \ {c} /\ pinged' = pinged \ {c} /\ spoiled' = spoiled \ {c}
    /\ lock' = [lock EXCEPT ![c] = "free"]
    /\ IF Len(queue) < ChannelSize
       THEN /\ queue' = Append(queue, c) /\ open' = IF cOn THEN open \cup {c} ELSE open
            /\ srv' = [srv EXCEPT ![c] = "queued"] /\ ka' = [ka EXCEPT ![c] = "idle"]
       ELSE UNCHANGED <<queue, open, srv, ka>>
    /\ UNCHANGED <<ctlVars, sigVars, localQ, loop, local, carries, owed, extra, tokens, faults>>

DialFails(c) ==
    /\ cli[c] = "dialing" /\ (~sOn \/ ~cOn \/ faults < MaxFaults)
    /\ faults' = IF sOn /\ cOn THEN faults + 1 ELSE faults
    /\ cli' = [cli EXCEPT ![c] = "none"]
    /\ pending' = pending - 1
    /\ Owe
    /\ UNCHANGED <<ctlVars, sigVars, srvVars, pool, extra, tokens, open>>

\* tunnelDialer: the idle read fails, and the connection is owed.
IdleDies(c) ==
    /\ cli[c] = "idle" /\ c \notin open
    /\ cli' = [cli EXCEPT ![c] = "none"]
    /\ pool' = pool - 1
    /\ Owe
    /\ UNCHANGED <<ctlVars, sigVars, srvVars, pending, extra, tokens, open, faults>>

\* tunnelDialer: the destination arrives, and the connection leaves the pool.
Assigned(c) ==
    /\ cli[c] = "idle" /\ c \in open /\ c \in named
    /\ cli' = [cli EXCEPT ![c] = "flow"]
    /\ pool' = pool - 1
    /\ UNCHANGED <<ctlVars, sigVars, srvVars, pending, owed, extra, tokens, open, faults>>

\* localDialer and the flow at the client end, with the connection.
ClientFlowEnds(c) ==
    /\ cli[c] = "flow" /\ c \notin open
    /\ cli' = [cli EXCEPT ![c] = "none"]
    /\ UNCHANGED <<ctlVars, sigVars, srvVars, pool, pending, owed, extra, tokens, open, faults>>

Deficit == IF pool + pending < Floor THEN Floor - pool - pending ELSE 0

\* refillOwed: the debt is paid up to the deficit, and forgiven without one.
RefillOwed ==
    /\ cOn /\ cCtl # "none" /\ owed > 0
    /\ LET n == IF owed < Deficit THEN owed ELSE Deficit IN
       /\ \E D \in kSubset(n, Conns) : StartDials(D)
       /\ owed' = IF Deficit = 0 THEN 0 ELSE owed - n
    /\ UNCHANGED <<ctlVars, sigVars, srvVars, pool, extra, tokens, open, faults>>

\* poolMaintainer's load tick, with the load for its input: an empty pool grows.
Grow ==
    /\ "load" \in offer /\ cOn /\ cCtl # "none" /\ extra < 1
    /\ extra' = extra + 1
    /\ \E c \in Conns : StartDials({c})
    /\ UNCHANGED <<ctlVars, sigVars, srvVars, pool, owed, tokens, open, faults>>

Shrink ==
    /\ cOn /\ extra > 0
    /\ extra' = extra - 1 /\ tokens' = 1
    /\ UNCHANGED <<ctlVars, sigVars, srvVars, cli, pool, pending, owed, open, faults>>

-----------------------------------------------------------------------------
(* The server: local connections and the handle loops. *)

\* acceptLocalConn: a connection that is queued asks for another one.
AcceptLocal(l) ==
    /\ sOn /\ started /\ Accept(l) /\ AskIf(local'[l] = "queued")
    /\ UNCHANGED <<ctlVars, signals, queue, loop, srv, named, pinged, spoiled, lock, ka, carries, cliVars, open, faults>>

\* handleLoop takes a local connection; one older than the setup budget is closed.
LoopTakes(h) ==
    /\ loop[h].at = "idle" /\ localQ # <<>>
    /\ localQ' = Tail(localQ)
    /\ \/ /\ loop' = [loop EXCEPT ![h] = [at |-> "wait", local |-> Head(localQ), conn |-> None]]
          /\ local' = [local EXCEPT ![Head(localQ)] = "held"]
       \/ local' = [local EXCEPT ![Head(localQ)] = "closed"] /\ UNCHANGED loop
    /\ UNCHANGED <<ctlVars, sigVars, queue, srv, named, pinged, spoiled, lock, ka, carries, cliVars, open, faults>>

\* The loop is done with its local connection, which is closed; a connection it
\* had taken is closed with it.  A stopped loop returns.
LoopDrops(h) ==
    /\ local' = [local EXCEPT ![loop[h].local] = "closed"]
    /\ loop' = [loop EXCEPT ![h] = [AtRest EXCEPT !.at = IF sOn THEN "idle" ELSE "off"]]
    /\ open' = open \ {loop[h].conn}
    /\ srv' = [c \in Conns |-> IF c = loop[h].conn THEN "none" ELSE srv[c]]

\* The setup timer, or the generation's end, while the loop waits for a
\* connection or has just locked one; never while it waits for the lock.
LoopExpires(h) ==
    /\ loop[h].at \in {"wait", "write"}
    /\ LoopDrops(h)
    /\ UNCHANGED <<ctlVars, sigVars, queue, localQ, named, pinged, spoiled, lock, ka, carries, cliVars, faults>>

\* A connection off tunnelChannel: its keepAlive is told.
LoopTunnel(h) ==
    /\ loop[h].at = "wait" /\ sOn /\ queue # <<>>
    /\ queue' = Tail(queue)
    /\ pinged' = pinged \cup {Head(queue)}
    /\ srv' = [srv EXCEPT ![Head(queue)] = "taken"]
    /\ loop' = [loop EXCEPT ![h].at = "lock", ![h].conn = Head(queue)]
    /\ UNCHANGED <<ctlVars, sigVars, localQ, local, named, spoiled, lock, ka, carries, cliVars, open, faults>>

\* A connection came off tunnelChannel when the timer had fired or the generation
\* had ended: it is closed, and its keepAlive is not told.
LoopThrowsAway(h) ==
    LET c == Head(queue) IN
    /\ loop[h].at = "wait" /\ queue # <<>>
    /\ queue' = Tail(queue) /\ open' = open \ {c} /\ srv' = [srv EXCEPT ![c] = "none"]
    /\ local' = [local EXCEPT ![loop[h].local] = "closed"]
    /\ loop' = [loop EXCEPT ![h] = [AtRest EXCEPT !.at = IF sOn THEN "idle" ELSE "off"]]
    /\ UNCHANGED <<ctlVars, sigVars, localQ, named, pinged, spoiled, lock, ka, carries, cliVars, faults>>

\* The hand-over lock, taken and never released.
LoopLocks(h) ==
    /\ loop[h].at = "lock" /\ lock[loop[h].conn] = "free"
    /\ lock' = [lock EXCEPT ![loop[h].conn] = "loop"]
    /\ loop' = [loop EXCEPT ![h].at = "write"]
    /\ UNCHANGED <<ctlVars, sigVars, queue, localQ, local, srv, named, pinged, spoiled, ka, carries, cliVars, open, faults>>

\* The destination is written and the flow starts; on a connection that is dead
\* the write may succeed all the same, but not on one where a write has failed.
LoopHandsOver(h) ==
    LET c == loop[h].conn  l == loop[h].local IN
    /\ loop[h].at = "write" /\ sOn /\ c \notin spoiled
    /\ named' = named \cup {c}
    /\ srv' = [srv EXCEPT ![c] = "flow"] /\ carries' = [carries EXCEPT ![c] = l]
    /\ local' = [local EXCEPT ![l] = "flow"]
    /\ loop' = [loop EXCEPT ![h] = [AtRest EXCEPT !.at = "idle"]]
    /\ UNCHANGED <<ctlVars, sigVars, queue, localQ, pinged, spoiled, lock, ka, cliVars, open, faults>>

\* The write fails: the connection is closed and the loop goes on to the next.
LoopRetries(h) ==
    LET c == loop[h].conn IN
    /\ loop[h].at = "write" /\ sOn /\ (c \notin open \/ c \in spoiled)
    /\ srv' = [srv EXCEPT ![c] = "none"] /\ open' = open \ {c}
    /\ loop' = [loop EXCEPT ![h].at = "wait", ![h].conn = None]
    /\ UNCHANGED <<ctlVars, sigVars, queue, localQ, local, named, pinged, spoiled, lock, ka, carries, cliVars, faults>>

\* handleLoop returns when the generation ends.
LoopReturns(h) ==
    /\ loop[h].at = "idle" /\ ~sOn
    /\ loop' = [loop EXCEPT ![h] = AtRest]
    /\ UNCHANGED <<ctlVars, sigVars, queue, localQ, local, srv, named, pinged, spoiled, lock, ka, carries, cliVars, open, faults>>

\* WSConnectionHandler ends, and both connections with it.
FlowEnds(c) ==
    /\ srv[c] = "flow"
    /\ srv' = [srv EXCEPT ![c] = "none"] /\ open' = open \ {c}
    /\ local' = [local EXCEPT ![carries[c]] = "closed"]
    /\ carries' = [carries EXCEPT ![c] = None]
    /\ UNCHANGED <<ctlVars, sigVars, queue, localQ, loop, named, pinged, spoiled, lock, ka, cliVars, faults>>

-----------------------------------------------------------------------------
(* The server: keepAlive. *)

\* A worker that ends leaves the slot once the queue has let go of it.
KaMoves(c, from, to) == ka[c] = from /\ ka' = [ka EXCEPT ![c] = to]

\* A ping begins under the lock; if the lock is taken the worker ends.
KaPing(c) ==
    /\ ka[c] = "idle" /\ lock[c] \in {"free", "loop"}
    /\ IF lock[c] = "free"
       THEN KaMoves(c, "idle", "write") /\ lock' = [lock EXCEPT ![c] = "ka"]
       ELSE KaMoves(c, "idle", "none") /\ UNCHANGED lock
    /\ UNCHANGED <<ctlVars, sigVars, queue, localQ, loop, local, srv, named, pinged, spoiled, carries, cliVars, open, faults>>

\* The ping is written, on a dead connection perhaps, and the lock released.
KaWrote(c) ==
    /\ KaMoves(c, "write", "idle")
    /\ lock' = [lock EXCEPT ![c] = "free"]
    /\ UNCHANGED <<ctlVars, sigVars, queue, localQ, loop, local, srv, named, pinged, spoiled, carries, cliVars, open, faults>>

\* The write fails, on a connection that is dead or past the deadline that a loop
\* sets before it waits for the lock: the lock is released first,
KaWriteFails(c) ==
    /\ KaMoves(c, "write", "failed") /\ (c \notin open \/ c \in pinged)
    /\ spoiled' = spoiled \cup {c}
    /\ lock' = [lock EXCEPT ![c] = "free"]
    /\ UNCHANGED <<ctlVars, sigVars, queue, localQ, loop, local, srv, named, pinged, carries, cliVars, open, faults>>

\* and then the connection is closed.
KaCloses(c) ==
    /\ KaMoves(c, "failed", "none")
    /\ open' = open \ {c}
    /\ UNCHANGED <<ctlVars, sigVars, queue, localQ, loop, local, srv, named, pinged, spoiled, lock, carries, cliVars, faults>>

\* The ping channel is closed: the connection was handed over.
KaTold(c) ==
    /\ ka[c] \in {"idle", "retire"} /\ c \in pinged
    /\ ka' = [ka EXCEPT ![c] = "none"]
    /\ UNCHANGED <<ctlVars, sigVars, queue, localQ, loop, local, srv, named, pinged, spoiled, lock, carries, cliVars, open, faults>>

KaStops(c) ==
    /\ ka[c] \in {"idle", "retire"} /\ ~sOn
    /\ ka' = [ka EXCEPT ![c] = "none"] /\ open' = open \ {c}
    /\ UNCHANGED <<ctlVars, sigVars, queue, localQ, loop, local, srv, named, pinged, spoiled, lock, carries, cliVars, faults>>

\* retireIdleTunnel: at its rotation age a replacement is asked for.
RetireIdleTunnel(c) ==
    /\ sOn /\ KaMoves(c, "idle", "retire") /\ Ask
    /\ UNCHANGED <<ctlVars, signals, queue, localQ, loop, local, srv, named, pinged, spoiled, lock, carries, cliVars, open, faults>>

\* A seeded fault: closed without a look at the lock.
CloseAnyTunnel(c) ==
    /\ KaMoves(c, "retire", "none")
    /\ open' = open \ {c}
    /\ UNCHANGED <<ctlVars, sigVars, queue, localQ, loop, local, srv, named, pinged, spoiled, lock, carries, cliVars, faults>>

\* closeIdleTunnel, when the pool has grown or the wait is over: a flow that holds
\* the lock keeps the connection; else the lock is taken for good, and closed.
CloseIdleTunnel(c) ==
    /\ KaMoves(c, "retire", "none")
    /\ IF lock[c] = "free"
       THEN lock' = [lock EXCEPT ![c] = "retired"] /\ open' = open \ {c}
       ELSE UNCHANGED <<lock, open>>
    /\ UNCHANGED <<ctlVars, sigVars, queue, localQ, loop, local, srv, named, pinged, spoiled, carries, cliVars, faults>>

-----------------------------------------------------------------------------
(* Restarts: a generation is stopped, its workers joined, the next published. *)

\* The server's: nothing came back in the grace, which is longer while flows run, or
\* the client said goodbye.  SG_Closed is sent on a control channel that lives, and
\* may not get out.
RestartStops ==
    /\ sOn
    /\ bye \/ (sCtl = "none" /\ started)
    /\ sOn' = FALSE /\ sCtl' = "none" /\ bye' = FALSE
    /\ cCtl' \in IF sCtl = "live" THEN {"told", "dead"} ELSE {cCtl}
    /\ open' = {c \in open : srv[c] = "none"}
    /\ UNCHANGED <<cOn, started, sigVars, srvVars, cliVars, faults>>

\* join has returned: what the workers left queued is closed (drainQueues).
RestartPublishes ==
    /\ ~sOn /\ \A h \in Loops : loop[h].at = "off"
    /\ \A c \in Conns : ka[c] = "none" /\ srv[c] # "flow"
    /\ sOn' = TRUE /\ started' = FALSE /\ reqs' = 0
    /\ queue' = <<>> /\ localQ' = <<>>
    /\ local' = [l \in Locals |-> IF local[l] = "queued" THEN "closed" ELSE local[l]]
    /\ srv' = [c \in Conns |-> "none"]
    /\ UNCHANGED <<cOn, sCtl, cCtl, bye, signals, loop, named, pinged, spoiled, lock, ka, carries, cliVars, open, faults>>

\* The client's: on SG_Closed, or when the control channel cannot be re-dialled.
ClientStops ==
    /\ cOn /\ cCtl \in {"told", "dead"}
    /\ cOn' = FALSE /\ cCtl' = "none"
    /\ sCtl' = IF sCtl = "live" THEN "dead" ELSE sCtl
    /\ bye' \in IF sCtl = "live" THEN {TRUE, bye} ELSE {bye}
    /\ open' = {c \in open : cli[c] = "none"}
    /\ UNCHANGED <<sOn, started, sigVars, srvVars, cliVars, faults>>

ClientPublishes ==
    /\ ~cOn /\ \A c \in Conns : cli[c] = "none"
    /\ cOn' = TRUE /\ pool' = 0 /\ pending' = 0 /\ owed' = 0 /\ extra' = 0 /\ tokens' = 0 /\ signals' = 0
    /\ UNCHANGED <<sOn, sCtl, cCtl, bye, started, reqs, srvVars, cli, open, faults>>

\* The network (external): the control channel or a connection is cut.
Cut ==
    /\ faults < MaxFaults /\ faults' = faults + 1
    /\ \/ /\ sCtl = "live" /\ cCtl = "live" /\ signals' = 0
          /\ sCtl' = "dead" /\ cCtl' = "dead" /\ UNCHANGED open
       \/ /\ \E c \in open : open' = open \ {c}
          /\ UNCHANGED <<sCtl, cCtl, signals>>
    /\ UNCHANGED <<sOn, cOn, bye, started, reqs, srvVars, cliVars>>

WsNext ==
    \/ ChannelDialer \/ ReconnectControl \/ OnControlLost \/ SendChan \/ RecvChan
    \/ RefillOwed \/ Grow \/ Shrink
    \/ RestartStops \/ RestartPublishes \/ ClientStops \/ ClientPublishes \/ Cut
    \/ \E l \in Locals : AcceptLocal(l)
    \/ \E h \in Loops : \/ LoopTakes(h) \/ LoopExpires(h) \/ LoopTunnel(h) \/ LoopThrowsAway(h) \/ LoopLocks(h)
                        \/ LoopHandsOver(h) \/ LoopRetries(h) \/ LoopReturns(h)
    \/ \E c \in Conns : \/ DialSucceeds(c) \/ DialFails(c) \/ IdleDies(c) \/ Assigned(c)
                        \/ ClientFlowEnds(c) \/ FlowEnds(c)
                        \/ KaPing(c) \/ KaWrote(c) \/ KaWriteFails(c) \/ KaCloses(c) \/ KaTold(c) \/ KaStops(c)
                        \/ RetireIdleTunnel(c) \/ CloseIdleTunnel(c)

\* Workers run, timers fire, and an end that wrote or dialled is heard.  A worker
\* that waits for a lock, a closed channel or a timer besides other work gets it.
WsFairness ==
    /\ \A h \in Loops : /\ WF_wsVars(LoopTakes(h)) /\ SF_wsVars(LoopExpires(h)) /\ SF_wsVars(LoopLocks(h))
                        /\ WF_wsVars(LoopReturns(h))
    /\ \A c \in Conns : /\ WF_wsVars(KaWrote(c) \/ KaWriteFails(c)) /\ WF_wsVars(KaCloses(c))
                        /\ SF_wsVars(KaTold(c)) /\ SF_wsVars(KaStops(c)) /\ WF_wsVars(CloseIdleTunnel(c))
                        /\ WF_wsVars(FlowEnds(c) /\ (c \notin open \/ ~sOn))
    /\ WF_wsVars(RestartPublishes)

-----------------------------------------------------------------------------
(* Properties. *)

\* A connection that was handed over is the flow's alone.  Once the loop has the
\* lock keepAlive writes no ping into the stream, and once the flow runs no worker
\* closes the connection under it: not the rotation, and not a ping that failed and
\* released the lock before it closes (unless the generation ends).
HandedOverForGood ==
    [][\A c \in Conns : (sOn /\ ka'[c] # ka[c])
                           => /\ lock[c] = "loop" => ka'[c] # "write"
                              /\ srv[c] = "flow" /\ c \in open => c \in open']_wsVars

\* The client's counters are the connections they count, across restarts, dials
\* that fail or end late, and connections that die or become flows.
PoolCounted ==
    /\ pool = Cardinality({c \in Conns : cli[c] = "idle"})
    /\ pending = Cardinality({c \in Conns : cli[c] = "dialing"})

\* A local connection that a handle loop holds is handed over or closed.
SetupIsBounded == \A l \in Locals : local[l] = "held" ~> local[l] # "held"
=============================================================================
