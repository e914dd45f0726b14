--------------------------- MODULE ServerControl ---------------------------
(***************************************************************************)
(* The control channel of the wsmux server: its generations of workers     *)
(* (internal/server/transport/wsmux.go), the admission of control          *)
(* connections, the handler that drives one, and the grace period that     *)
(* holds the pool while there is none (wsmux_grace.go).                    *)
(*                                                                         *)
(* A control connection is an element of Conns.  It is used again once     *)
(* neither end holds any reference to it, so a connection is never the     *)
(* bound of a behaviour.  The two ends share link (is the connection up),  *)
(* and toS, toC: the SG_Closed signal written on a connection and not yet  *)
(* acted upon.  Heartbeats carry no state; what matters is that writing    *)
(* one to a dead connection fails.                                         *)
(***************************************************************************)
EXTENDS Naturals, FiniteSets

CONSTANTS Conns,        \* control connections
          None,         \* no connection
          MaxHold,      \* grace windows after which the pool is given up
          MaxRequests   \* bound on restart requests waiting to run

ASSUME ControlAssumption ==
    /\ None \notin Conns
    /\ MaxHold \in Nat \ {0}
    /\ MaxRequests \in Nat \ {0}

VARIABLES
    link,     \* Conns -> BOOLEAN: the connection is up
    toS,      \* connections with SG_Closed on its way to the server
    toC,      \* connections with SG_Closed on its way to the client
    upgrade,  \* Conns -> state of the HTTP request that brought the connection
    handler,  \* connections whose channelHandler is running
    reader,   \* Conns -> "none", "run", or "lost": the handler's reader
    lost,     \* connections with a call of onControlLost in flight
    control,  \* s.controlChannel
    started,  \* s.handlersStarted
    loops,    \* sets of handle loops and port listeners of this generation
    timers,   \* grace timers armed and callbacks running
    claimed,  \* s.restartClaim is this generation
    phase,    \* "run", "joining" (in Restart) or "stuck" (join timed out)
    restarts, \* calls of Restart that have not taken restartMutex yet
    live      \* a registered pool session is open (liveSessionCount > 0)

linkVars == <<link, toS, toC>>
connVars == <<upgrade, handler, reader, lost>>
graceVars == <<control, started, timers, claimed>>
genVars == <<loops, phase, restarts, live>>
serverVars == <<connVars, graceVars, genVars>>

Running == phase = "run"

TimerStates ==
    [armed : BOOLEAN, window : 1..MaxHold, live : BOOLEAN, current : BOOLEAN]

ServerTypeOK ==
    /\ link \in [Conns -> BOOLEAN]
    /\ toS \in SUBSET Conns /\ toC \in SUBSET Conns
    /\ upgrade \in [Conns -> {"none", "entered", "first", "again"}]
    /\ handler \in SUBSET Conns /\ lost \in SUBSET Conns
    /\ reader \in [Conns -> {"none", "run", "lost"}]
    /\ control \in Conns \cup {None}
    /\ started \in BOOLEAN /\ claimed \in BOOLEAN /\ live \in BOOLEAN
    /\ loops \in 0..2
    /\ timers \subseteq TimerStates
    /\ phase \in {"run", "joining", "stuck"}
    /\ restarts \in 0..MaxRequests

ServerInit ==
    /\ upgrade = [c \in Conns |-> "none"]
    /\ handler = {} /\ lost = {}
    /\ reader = [c \in Conns |-> "none"]
    /\ control = None
    /\ started = FALSE /\ claimed = FALSE /\ live = FALSE
    /\ loops = 0 /\ restarts = 0
    /\ timers = {}
    /\ phase = "run"

-----------------------------------------------------------------------------
(* Helpers. *)

\* requestRestart, and every other call of Restart: a goroutine of its own.
\* Calls beyond MaxRequests are not told apart: one of them is enough.
RequestRestart == restarts' = IF restarts < MaxRequests THEN restarts + 1 ELSE restarts

\* invalidateGraceLocked: an armed timer is stopped; a callback that is already
\* running stays, and finds its epoch gone.
Invalidated == {[t EXCEPT !.current = FALSE] : t \in {u \in timers : ~u.armed}}

\* armControlGrace
Armed(w) == [armed |-> TRUE, window |-> w, live |-> FALSE, current |-> TRUE]

\* graceCurrentLocked
GraceCurrent(t) == t.current /\ control = None /\ Running

\* graceShouldHold: the pool is alive, and the hold is within its cap.
GraceShouldHold(t) == t.live /\ t.window < MaxHold

Close(C) == link' = [c \in Conns |-> link[c] /\ c \notin C]

\* The server holds no reference to c.
ServerForgot(c) ==
    /\ upgrade[c] = "none" /\ reader[c] = "none"
    /\ c \notin handler \cup lost \cup {control}

\* wsGeneration.enter, for the request that brings a connection: refused once
\* the generation is stopped.  The token, framing and half-close checks before
\* it pass: both ends are configured alike.
Enter(c) == Running /\ upgrade' = [upgrade EXCEPT ![c] = "entered"]

-----------------------------------------------------------------------------
(* Admission of a control connection. *)

\* adoptControl, with own before it and the closing of the stale connection
\* after it, when refuse says whether the connection is turned away.
AdoptUnless(c, refuse) ==
    /\ upgrade[c] = "entered"
    /\ IF refuse
       THEN /\ upgrade' = [upgrade EXCEPT ![c] = "none"]
            /\ Close({c})
            /\ UNCHANGED graceVars
       ELSE /\ upgrade' = [upgrade EXCEPT ![c] = IF started THEN "again" ELSE "first"]
            /\ Close({control})
            /\ control' = c
            /\ started' = TRUE
            /\ timers' = Invalidated
            /\ UNCHANGED claimed
    /\ UNCHANGED <<toS, toC, handler, reader, lost, genVars>>

\* A seeded fault: the restart claim is not looked at.
AdoptIgnoringClaim(c) == AdoptUnless(c, ~Running)

\* Either the adoption lands first and ends the loss epoch, or the restart claim
\* did and the connection is refused.
Adopt(c) == AdoptUnless(c, claimed \/ ~Running)

\* The rest of the request: the handler is started and, by the first channel of a
\* generation, the port listeners and the handle loops.
Serve(c) ==
    /\ upgrade[c] \in {"first", "again"}
    /\ upgrade' = [upgrade EXCEPT ![c] = "none"]
    /\ IF Running
       THEN /\ handler' = handler \cup {c}
            /\ reader' = [reader EXCEPT ![c] = "run"]
            /\ loops' = IF upgrade[c] = "first" /\ loops < 2 THEN loops + 1 ELSE loops
       ELSE UNCHANGED <<handler, reader, loops>>
    /\ UNCHANGED <<linkVars, lost, graceVars, phase, restarts, live>>

-----------------------------------------------------------------------------
(* channelHandler and its reader. *)

\* The reader's ReadMessage fails.  A stopped generation closed the socket
\* itself and there is nothing to hold.
ReadFails(c) ==
    /\ reader[c] = "run" /\ ~link[c]
    /\ IF Running
       THEN /\ lost' = lost \cup {c}
            /\ reader' = [reader EXCEPT ![c] = IF c \in handler THEN "lost" ELSE "none"]
       ELSE /\ reader' = [reader EXCEPT ![c] = "none"]
            /\ UNCHANGED lost
    /\ UNCHANGED <<linkVars, upgrade, handler, graceVars, genVars>>

\* The handler finds the connection lost, or its context done.
HandlerEnds(c) ==
    /\ c \in handler
    /\ ~Running \/ reader[c] = "lost"
    /\ handler' = handler \ {c}
    /\ reader' = [reader EXCEPT ![c] = IF @ = "lost" THEN "none" ELSE @]
    /\ UNCHANGED <<linkVars, upgrade, lost, graceVars, genVars>>

\* A heartbeat or a request for a connection cannot be written.
WriteFails(c) ==
    /\ c \in handler /\ ~link[c]
    /\ handler' = handler \ {c}
    /\ reader' = [reader EXCEPT ![c] = IF @ = "lost" THEN "none" ELSE @]
    /\ lost' = lost \cup {c}
    /\ UNCHANGED <<linkVars, upgrade, graceVars, genVars>>

\* The client says that it is going away: SG_Closed.
ClosedByClient(c) ==
    /\ c \in handler /\ c \in toS
    /\ toS' = toS \ {c}
    /\ handler' = handler \ {c}
    /\ reader' = [reader EXCEPT ![c] = IF @ = "lost" THEN "none" ELSE @]
    /\ RequestRestart
    /\ UNCHANGED <<link, toC, upgrade, lost, graceVars, loops, phase, live>>

-----------------------------------------------------------------------------
(* The grace period. *)

\* onControlLost for c, where drop says whether the registered channel is dropped
\* and armed are the timers a new loss epoch begins with.
LoseIf(c, drop, armed) ==
    /\ c \in lost
    /\ lost' = lost \ {c}
    /\ IF drop
       THEN control' = None /\ timers' = Invalidated \cup armed
       ELSE UNCHANGED <<control, timers>>
    /\ Close({c})
    /\ UNCHANGED <<toS, toC, upgrade, handler, reader, started, claimed, genVars>>

\* Seeded faults: a late call for a replaced connection drops its successor; no
\* timer is armed for the loss.
LoseAnyControl(c) == LoseIf(c, TRUE, IF Running THEN {Armed(1)} ELSE {})
LoseWithoutTimer(c) == LoseIf(c, control = c, {})

\* Nothing for a connection that is no longer the registered one; otherwise a
\* new loss epoch begins, with its timer.
OnControlLost(c) == LoseIf(c, control = c, IF Running THEN {Armed(1)} ELSE {})

\* onControlGraceExpired, up to the second time it takes controlMu: the timer is
\* still the current one, and the open sessions are counted without the lock.
GraceExpires(t) ==
    /\ t \in timers /\ t.armed
    /\ timers' = (timers \ {t}) \cup
                 (IF GraceCurrent(t) THEN {[t EXCEPT !.armed = FALSE, !.live = live]} ELSE {})
    /\ UNCHANGED <<linkVars, connVars, control, started, claimed, genVars>>

\* Its end: revalidate, then hold until window or claim the restart.
DecideHolding(t, window) ==
    /\ t \in timers /\ ~t.armed
    /\ \/ /\ ~GraceCurrent(t)
          /\ timers' = timers \ {t}
          /\ UNCHANGED <<claimed, restarts>>
       \/ /\ GraceCurrent(t) /\ GraceShouldHold(t)
          /\ timers' = (timers \ {t}) \cup {Armed(window)}
          /\ UNCHANGED <<claimed, restarts>>
       \/ /\ GraceCurrent(t) /\ ~GraceShouldHold(t)
          /\ claimed' = TRUE
          /\ timers' = Invalidated \ {[t EXCEPT !.current = FALSE]}
          /\ RequestRestart
    /\ UNCHANGED <<linkVars, connVars, control, started, loops, phase, live>>

\* A seeded fault: the hold is counted anew in every window.
DecideForgettingStart(t) == DecideHolding(t, t.window)

\* The total hold counts from the loss, across windows.
GraceDecides(t) == DecideHolding(t, t.window + 1)

-----------------------------------------------------------------------------
(* Restart. *)

\* TryLock; then wsGeneration.stop, which closes every owned socket, and the end
\* of the loss epoch.  A handler may get its SG_Closed out before its socket is
\* closed: told is the set of those that did.
RestartStops(told) ==
    /\ restarts > 0
    /\ restarts' = restarts - 1
    /\ IF phase = "joining"
       THEN told = {} /\ UNCHANGED <<link, toC, phase, timers>>
       ELSE /\ told \subseteq {c \in handler : link[c]}
            /\ toC' = toC \cup told
            /\ Close({control} \cup handler \cup {c \in Conns : reader[c] # "none"}
                               \cup {c \in Conns : upgrade[c] \in {"first", "again"}})
            /\ phase' = "joining"
            /\ timers' = Invalidated
    /\ UNCHANGED <<toS, connVars, control, started, claimed, loops, live>>

Workers == {c \in Conns : upgrade[c] # "none" \/ c \in handler \/ reader[c] # "none"}

\* join gives up after restartJoinTimeout; the attempt is made again.
JoinTimesOut ==
    /\ phase = "joining" /\ Workers # {}
    /\ phase' = "stuck"
    /\ RequestRestart
    /\ UNCHANGED <<linkVars, connVars, graceVars, loops, live>>

\* Every worker has returned: a fresh generation is published and started.
RestartPublishes ==
    /\ phase = "joining" /\ Workers = {}
    /\ phase' = "run"
    /\ Close({control})
    /\ control' = None
    /\ started' = FALSE /\ claimed' = FALSE
    /\ timers' = Invalidated
    /\ loops' = 0 /\ live' = FALSE
    /\ UNCHANGED <<toS, toC, connVars, restarts>>

\* Pool sessions join and die on their own (handleLoop, liveSessionCount); they
\* are admitted only while the handle loops run.
PoolChanges ==
    /\ Running
    /\ live \/ loops > 0
    /\ live' = ~live
    /\ UNCHANGED <<linkVars, connVars, graceVars, loops, phase, restarts>>

ServerNext ==
    \/ \E c \in Conns : \/ Adopt(c) \/ Serve(c)
                        \/ ReadFails(c) \/ HandlerEnds(c) \/ WriteFails(c)
                        \/ ClosedByClient(c) \/ OnControlLost(c)
    \/ \E t \in timers : GraceExpires(t) \/ GraceDecides(t)
    \/ \E told \in SUBSET handler : RestartStops(told)
    \/ JoinTimesOut \/ RestartPublishes \/ PoolChanges
=============================================================================
