----------------------------- MODULE SessionPool -----------------------------
(***************************************************************************)
(* The pool of smux sessions between the wsmux client and server: its      *)
(* admission and registry (server wsmux.go, wsmux_pool.go), the rotation   *)
(* that retires an ageing session only against a replacement of its own    *)
(* (wsmux_session.go), the requests for connections that travel over the   *)
(* control channel, and the client that dials: poolMaintainer,             *)
(* tunnelDialer, handleSession and the shrink gate (client wsmux.go,       *)
(* shrink_gate.go).                                                        *)
(*                                                                         *)
(* A session is a slot of Sessions, used again once nothing refers to the  *)
(* session that had it.  One generation of each end is modelled; restarts  *)
(* are the subject of ControlPlane.                                        *)
(***************************************************************************)
EXTENDS Naturals, FiniteSets

CONSTANTS Sessions,     \* slots for pool sessions
          NoSession,
          PoolSize,     \* connection_pool, the floor the client keeps
          MaxSize,      \* bound on newPoolSize
          MaxDials,     \* bound on dials in flight
          PerTick,      \* poolRefillPerTick
          ChannelSize,  \* capacity of reqNewConnChan and tunnelChannel
          MaxSignals,   \* bound on SG_Chan signals in flight
          MaxTokens,    \* bound on the tokens in controlFlow
          MaxFaults     \* bound on dials and connections that fail

ASSUME PoolAssumption ==
    /\ IsFiniteSet(Sessions) /\ NoSession \notin Sessions
    /\ PoolSize \in Nat \ {0} /\ MaxSize \in Nat /\ MaxSize >= PoolSize
    /\ MaxDials \in Nat /\ MaxDials >= PoolSize
    /\ PerTick \in Nat \ {0} /\ ChannelSize \in Nat \ {0}
    /\ MaxSignals \in Nat \ {0} /\ MaxTokens \in Nat \ {0} /\ MaxFaults \in Nat

VARIABLES
    place,    \* Sessions -> where the server has it: "none", "queued", "pool", "retired"
    open,     \* sessions whose smux session is not closed
    rotation, \* Sessions -> state of its rotation worker
    gate,     \* the session whose rotation holds the decision gate
    seen,     \* the pool as that rotation saw it
    paid,     \* Sessions -> retirements this session has been the successor of
    asked,    \* requests waiting in reqNewConnChan
    control,  \* the control channel: "up" or "dead"
    signals,  \* SG_Chan signals on their way to the client
    dialing,  \* client dials in flight (pendingDials)
    size,     \* newPoolSize
    tokens,   \* shrink tokens in controlFlow
    faults    \* failed dials and connections so far

serverVars == <<place, rotation, gate, seen, paid>>
signalVars == <<asked, control, signals>>
clientVars == <<dialing, size, tokens>>
vars == <<serverVars, open, signalVars, clientVars, faults>>

TypeOK ==
    /\ place \in [Sessions -> {"none", "queued", "pool", "retired"}]
    /\ open \subseteq Sessions
    /\ rotation \in [Sessions -> {"none", "young", "gate", "wait", "drain"}]
    /\ gate \in Sessions \cup {NoSession}
    /\ seen \subseteq Sessions
    /\ paid \in [Sessions -> 0..2]
    /\ asked \in 0..ChannelSize
    /\ control \in {"up", "dead"}
    /\ signals \in 0..MaxSignals
    /\ dialing \in 0..MaxDials
    /\ size \in PoolSize..MaxSize
    /\ tokens \in 0..MaxTokens
    /\ faults \in 0..MaxFaults

\* poolMaintainer has started its initial filling.
Init ==
    /\ place = [x \in Sessions |-> "none"]
    /\ open = {}
    /\ rotation = [x \in Sessions |-> "none"]
    /\ gate = NoSession /\ seen = {}
    /\ paid = [x \in Sessions |-> 0]
    /\ asked = 0 /\ control = "up" /\ signals = 0
    /\ dialing = PoolSize /\ size = PoolSize
    /\ tokens = 0 /\ faults = 0

Eligible == {x \in Sessions : place[x] = "pool"}

\* requestReplacement (and requeue): dropped when the channel is full.
Ask == asked' = IF asked < ChannelSize THEN asked + 1 ELSE asked

-----------------------------------------------------------------------------
(* The server: admission and the registry. *)

\* handleLoop takes a session off tunnelChannel, registers it, and starts its
\* close watcher and its rotation.
Admit(x) ==
    /\ place[x] = "queued"
    /\ place' = [place EXCEPT ![x] = "pool"]
    /\ rotation' = [rotation EXCEPT ![x] = "young"]
    /\ UNCHANGED <<open, gate, seen, paid, signalVars, clientVars, faults>>

\* The close watcher: the registry entry and the counter are settled, once.
Settle(x) ==
    /\ place[x] \in {"pool", "retired"} /\ x \notin open
    /\ place' = [place EXCEPT ![x] = "none"]
    /\ UNCHANGED <<open, rotation, gate, seen, paid, signalVars, clientVars, faults>>

-----------------------------------------------------------------------------
(* The server: rotation. *)

\* The rotation timer of a session fires.
RotateAge(x) ==
    /\ rotation[x] = "young" /\ x \in open
    /\ rotation' = [rotation EXCEPT ![x] = "gate"]
    /\ UNCHANGED <<place, open, gate, seen, paid, signalVars, clientVars, faults>>

\* awaitReplacement begins: the pool is snapshotted, then a replacement asked for.
DecideWhen(x, free) ==
    /\ rotation[x] = "gate" /\ x \in open
    /\ free
    /\ gate' = x
    /\ rotation' = [rotation EXCEPT ![x] = "wait"]
    /\ seen' = Eligible
    /\ Ask
    /\ UNCHANGED <<place, open, paid, control, signals, clientVars, faults>>

\* A seeded fault: rotations decide side by side.
DecideWithoutGate(x) == DecideWhen(x, TRUE)

\* acquireRotate: one decision at a time.
AwaitReplacement(x) == DecideWhen(x, gate = NoSession)

\* A seeded fault: the one request is never repeated.
NeverReask(x) == FALSE /\ UNCHANGED vars /\ rotation[x] = "wait"

\* The re-ask ticker: the client abandons a failed dial for good.
Reask(x) ==
    /\ rotation[x] = "wait"
    /\ Ask
    /\ UNCHANGED <<serverVars, open, control, signals, clientVars, faults>>

\* retireIfReplaced, for a successor y; the gate is released as it returns.
RetireFor(x, y) ==
    /\ rotation[x] = "wait"
    /\ y \in Eligible \ {x}
    /\ place' = [place EXCEPT ![x] = IF @ = "pool" THEN "retired" ELSE @]
    /\ rotation' = [rotation EXCEPT ![x] = "drain"]
    /\ gate' = NoSession
    /\ seen' = {}
    /\ paid' = [paid EXCEPT ![y] = IF @ < 2 THEN @ + 1 ELSE @]
    /\ UNCHANGED <<open, signalVars, clientVars, faults>>

\* The successor was not in the snapshot, and is alive.
RetireIfReplaced(x, y) == y \in open /\ y \notin seen /\ RetireFor(x, y)

\* migrateFlowsOff and retireSessionWithin have ended: the session is closed.
Drained(x) ==
    /\ rotation[x] = "drain"
    /\ rotation' = [rotation EXCEPT ![x] = "none"]
    /\ open' = open \ {x}
    /\ UNCHANGED <<place, gate, seen, paid, signalVars, clientVars, faults>>

EndRotation(x, letGo) ==
    /\ rotation[x] \in {"young", "gate", "wait"} /\ x \notin open
    /\ rotation' = [rotation EXCEPT ![x] = "none"]
    /\ gate' = IF letGo THEN NoSession ELSE gate
    /\ seen' = IF letGo THEN {} ELSE seen
    /\ UNCHANGED <<place, open, paid, signalVars, clientVars, faults>>

\* The session died before its rotation was decided; a gate it held is released.
RotationOver(x) == EndRotation(x, gate = x)

-----------------------------------------------------------------------------
(* Requests over the control channel. *)

\* channelHandler takes a request and signals it.  On a connection that has died
\* the write is lost, or it fails and the request is put back: no change.
TakeRequest ==
    /\ asked > 0
    /\ signals < MaxSignals
    /\ asked' = asked - 1
    /\ signals' = IF control = "up" THEN signals + 1 ELSE signals
    /\ UNCHANGED <<serverVars, open, control, clientVars, faults>>

\* The control connection is cut, with what was on it.
ControlDies ==
    /\ control = "up" /\ faults < MaxFaults
    /\ control' = "dead" /\ signals' = 0
    /\ faults' = faults + 1
    /\ UNCHANGED <<serverVars, open, asked, clientVars>>

\* The loss is noticed and the client's next control channel is adopted.
ControlReturns ==
    /\ control = "dead"
    /\ control' = "up"
    /\ UNCHANGED <<serverVars, open, asked, signals, clientVars, faults>>

-----------------------------------------------------------------------------
(* The client. *)

StartDial(n) == dialing + n <= MaxDials /\ dialing' = dialing + n

\* channelHandler on SG_Chan (swallowChanSignal): swallowed by a shrink's token
\* if the last shrink is recent, else tokens are discarded and a dial started.
OnChanSignal ==
    /\ signals > 0
    /\ signals' = signals - 1
    /\ \/ tokens > 0 /\ tokens' = tokens - 1 /\ UNCHANGED dialing
       \/ tokens' = 0 /\ StartDial(1)
    /\ UNCHANGED <<serverVars, open, asked, control, size, faults>>

Deficit == IF PoolSize > Cardinality(open) + dialing
           THEN PoolSize - Cardinality(open) - dialing ELSE 0

\* poolRefillCount
RefillCount == IF Deficit < PerTick THEN Deficit ELSE PerTick

\* poolMaintainer's tick.
Refill ==
    /\ RefillCount > 0
    /\ StartDial(RefillCount)
    /\ UNCHANGED <<serverVars, open, signalVars, size, tokens, faults>>

\* poolMaintainer's load tick, with the load for its input.
Grow ==
    /\ size < MaxSize
    /\ size' = size + 1
    /\ StartDial(1)
    /\ UNCHANGED <<serverVars, open, signalVars, tokens, faults>>

Shrink ==
    /\ size > PoolSize /\ tokens < MaxTokens
    /\ size' = size - 1
    /\ tokens' = tokens + 1
    /\ UNCHANGED <<serverVars, open, signalVars, dialing, faults>>

\* Nothing refers to the session that had the slot.
Free(x) ==
    /\ place[x] = "none" /\ rotation[x] = "none"
    /\ x \notin open

Queued == {x \in Sessions : place[x] = "queued"}

\* tunnelDialer succeeds: the client serves the session for as long as it is open
\* (handleSession); the server queues it, or discards it if tunnelChannel is full.
DialSucceeds(x) ==
    /\ dialing > 0
    /\ Free(x) /\ x = CHOOSE y \in Sessions : Free(y)
    /\ dialing' = dialing - 1
    /\ paid' = [paid EXCEPT ![x] = 0]
    /\ seen' = seen \ {x}
    /\ IF Cardinality(Queued) < ChannelSize
       THEN place' = [place EXCEPT ![x] = "queued"] /\ open' = open \cup {x}
       ELSE UNCHANGED <<place, open>>
    /\ UNCHANGED <<rotation, gate, signalVars, size, tokens, faults>>

\* Every entry point fails: the dial is given up.
DialFails ==
    /\ dialing > 0 /\ faults < MaxFaults
    /\ dialing' = dialing - 1
    /\ faults' = faults + 1
    /\ UNCHANGED <<serverVars, open, signalVars, size, tokens>>

\* The network (external): a pool connection dies.
SessionDies(x) ==
    /\ x \in open /\ faults < MaxFaults
    /\ open' = open \ {x}
    /\ faults' = faults + 1
    /\ UNCHANGED <<serverVars, signalVars, clientVars>>

Next ==
    \/ \E x \in Sessions : \/ Admit(x) \/ Settle(x)
                           \/ RotateAge(x) \/ AwaitReplacement(x) \/ Reask(x)
                           \/ \E y \in Sessions : RetireIfReplaced(x, y)
                           \/ Drained(x) \/ RotationOver(x)
                           \/ DialSucceeds(x) \/ SessionDies(x)
    \/ TakeRequest \/ ControlDies \/ ControlReturns
    \/ OnChanSignal \/ Refill \/ Grow \/ Shrink \/ DialFails

Spec == Init /\ [][Next]_vars

-----------------------------------------------------------------------------
(* Properties. *)

\* No session is the replacement of two retirements: rotations that decide at
\* the same time cannot both retire against one new connection.
EachReplacementPaysOnce == \A y \in Sessions : paid[y] <= 1

\* The gate is held by the one rotation that is deciding, and free otherwise:
\* a session that dies while it waits does not leave the others queued for ever.
GateHeldByTheWaiting ==
    \A x \in Sessions : rotation[x] = "wait" <=> gate = x

Fairness ==
    /\ \A x \in Sessions : WF_vars(Admit(x)) /\ WF_vars(Settle(x)) /\ WF_vars(DialSucceeds(x))
                           /\ WF_vars(Reask(x)) /\ WF_vars(RotationOver(x))
                           /\ WF_vars(Drained(x))
                           /\ WF_vars(\E y \in Sessions : RetireIfReplaced(x, y))
    /\ WF_vars(TakeRequest) /\ WF_vars(ControlReturns)
    /\ WF_vars(OnChanSignal) /\ WF_vars(Refill)

FairSpec == Spec /\ Fairness

\* A rotation that waits for its replacement gets one, or its session dies (or
\* the slots, the bound of the model, are all taken): a request that was lost,
\* swallowed or made to a client that could not dial is made again.
RotationProceeds ==
    \A x \in Sessions : rotation[x] = "wait" ~> (rotation[x] # "wait" \/ ~\E y \in Sessions : Free(y))
=============================================================================
