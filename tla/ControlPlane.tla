---------------------------- MODULE ControlPlane ----------------------------
(***************************************************************************)
(* The control channel between the wsmux client and server: the client's   *)
(* generation, channelDialer, channelHandler, reconnectControl and Restart *)
(* (internal/client/transport/wsmux.go), composed with ServerControl over  *)
(* a network that may cut a connection or make a dial fail, MaxFaults      *)
(* times in all.                                                           *)
(***************************************************************************)
EXTENDS ServerControl

CONSTANTS MaxFaults,
          MaxCRequests  \* as MaxRequests, of the client

ASSUME FaultAssumption == MaxFaults \in Nat /\ MaxCRequests \in Nat \ {0}

VARIABLES
    cDialer,      \* channelDialer is running
    cHandler,     \* connections whose client channelHandler is running
    cReader,      \* Conns -> "none", "run" or "lost": its reader
    reconnect,    \* Conns -> state of the reconnectControl called for it
    cControl,     \* c.controlChannel
    maintainers,  \* poolMaintainers of this generation
    cPhase,       \* as phase, of the client
    cRestarts,    \* as restarts, of the client
    faults        \* faults so far

clientVars == <<cDialer, cHandler, cReader, reconnect, cControl,
                maintainers, cPhase, cRestarts>>
vars == <<linkVars, serverVars, clientVars, faults>>

CRunning == cPhase = "run"

TypeOK ==
    /\ ServerTypeOK
    /\ cDialer \in BOOLEAN
    /\ cHandler \in SUBSET Conns
    /\ cReader \in [Conns -> {"none", "run", "lost"}]
    /\ reconnect \in [Conns -> {"none", "called", "wait", "dial"}]
    /\ cControl \in Conns \cup {None}
    /\ maintainers \in 0..2
    /\ cPhase \in {"run", "joining", "stuck"}
    /\ cRestarts \in 0..MaxCRequests
    /\ faults \in 0..MaxFaults

ClientInit ==
    /\ cDialer = TRUE
    /\ cHandler = {}
    /\ cReader = [c \in Conns |-> "none"]
    /\ reconnect = [c \in Conns |-> "none"]
    /\ cControl = None
    /\ maintainers = 0 /\ cRestarts = 0
    /\ cPhase = "run"

Init ==
    /\ link = [c \in Conns |-> FALSE]
    /\ toS = {} /\ toC = {}
    /\ ServerInit
    /\ ClientInit
    /\ faults = 0

-----------------------------------------------------------------------------
(* The client. *)

CRequestRestart ==
    cRestarts' = IF cRestarts < MaxCRequests THEN cRestarts + 1 ELSE cRestarts

\* A connection that neither end refers to stands for the next one dialled.
Fresh(c) ==
    /\ ServerForgot(c)
    /\ reconnect[c] = "none" /\ cReader[c] = "none"
    /\ c \notin cHandler \cup {cControl}

\* WebSocketDialer reaches the server, which has entered the request.  own then
\* takes the connection for this generation, or closes it if that is stopped.
Dial(c) ==
    /\ Fresh(c) /\ c = CHOOSE d \in Conns : Fresh(d)
    /\ Enter(c)
    /\ link' = [link EXCEPT ![c] = CRunning]
    /\ toS' = toS \ {c} /\ toC' = toC \ {c}
    /\ UNCHANGED <<handler, reader, lost, graceVars, genVars>>

StartHandler(c) ==
    IF CRunning
    THEN /\ cControl' = c
         /\ cHandler' = cHandler \cup {c}
         /\ cReader' = [cReader EXCEPT ![c] = "run"]
    ELSE UNCHANGED <<cControl, cHandler, cReader>>

\* channelDialer, which retries until it succeeds or the generation ends; it
\* starts the one poolMaintainer of the generation.
ChannelDialer(c) ==
    /\ cDialer
    /\ Dial(c) /\ StartHandler(c)
    /\ cDialer' = FALSE
    /\ maintainers' = IF CRunning /\ maintainers < 2 THEN maintainers + 1 ELSE maintainers
    /\ UNCHANGED <<reconnect, cPhase, cRestarts, faults>>

DialerEnds ==
    /\ cDialer /\ ~CRunning
    /\ cDialer' = FALSE
    /\ UNCHANGED <<linkVars, serverVars, cHandler, cReader, reconnect, cControl,
                   maintainers, cPhase, cRestarts, faults>>

\* The client's ReadMessage fails.  If the handler has returned, or the
\* generation is stopped, the reconnect is somebody else's decision.
CReadFails(c) ==
    /\ cReader[c] = "run"
    /\ ~link[c] \/ c \notin cHandler
    /\ IF c \in cHandler /\ CRunning
       THEN /\ cReader' = [cReader EXCEPT ![c] = "lost"]
            /\ reconnect' = [reconnect EXCEPT ![c] = IF @ = "none" THEN "called" ELSE @]
       ELSE /\ cReader' = [cReader EXCEPT ![c] = IF c \in cHandler THEN "lost" ELSE "none"]
            /\ UNCHANGED reconnect
    /\ UNCHANGED <<linkVars, serverVars, cDialer, cHandler, cControl,
                   maintainers, cPhase, cRestarts, faults>>

\* The handler leaves c: it is off cHandler, and a reader that has ended is
\* joined (handlerDone is closed once both are gone).
CLeaves(c) ==
    /\ cHandler' = cHandler \ {c}
    /\ cReader' = [cReader EXCEPT ![c] = IF @ = "lost" THEN "none" ELSE @]

CHandlerEnds(c) ==
    /\ c \in cHandler
    /\ ~CRunning \/ cReader[c] = "lost"
    /\ CLeaves(c)
    /\ UNCHANGED <<linkVars, serverVars, cDialer, reconnect, cControl,
                   maintainers, cPhase, cRestarts, faults>>

\* A heartbeat cannot be answered: the handler asks for the reconnect itself.
CWriteFails(c) ==
    /\ c \in cHandler /\ ~link[c]
    /\ CLeaves(c)
    /\ reconnect' = [reconnect EXCEPT ![c] = IF CRunning /\ @ = "none" THEN "called" ELSE @]
    /\ UNCHANGED <<linkVars, serverVars, cDialer, cControl,
                   maintainers, cPhase, cRestarts, faults>>

\* The server says that it is going away: SG_Closed.
ClosedByServer(c) ==
    /\ c \in cHandler /\ c \in toC
    /\ toC' = toC \ {c}
    /\ CLeaves(c)
    /\ CRequestRestart
    /\ UNCHANGED <<link, toS, serverVars, cDialer, reconnect, cControl,
                   maintainers, cPhase, faults>>

\* reconnectControl up to its wait for the old handler: only for the registered
\* connection, which it drops and closes.
ReconnectBegins(c) ==
    /\ reconnect[c] = "called"
    /\ IF cControl = c
       THEN /\ cControl' = None
            /\ Close({c})
            /\ reconnect' = [reconnect EXCEPT ![c] = "wait"]
       ELSE /\ reconnect' = [reconnect EXCEPT ![c] = "none"]
            /\ UNCHANGED <<link, cControl>>
    /\ UNCHANGED <<toS, toC, serverVars, cDialer, cHandler, cReader,
                   maintainers, cPhase, cRestarts, faults>>

\* The old handler and its reader are gone (done), or the generation ends.
ReconnectWhen(c, done) ==
    /\ reconnect[c] = "wait"
    /\ ~CRunning \/ done
    /\ reconnect' = [reconnect EXCEPT ![c] = IF CRunning THEN "dial" ELSE "none"]
    /\ UNCHANGED <<linkVars, serverVars, cDialer, cHandler, cReader, cControl,
                   maintainers, cPhase, cRestarts, faults>>

\* A seeded fault: the replacement is dialled beside the old handler.
ReconnectAtOnce(c) == ReconnectWhen(c, TRUE)

ReconnectWaits(c) == ReconnectWhen(c, c \notin cHandler /\ cReader[c] = "none")

ReconnectDials(c, d) ==
    /\ reconnect[c] = "dial"
    /\ Dial(d) /\ StartHandler(d)
    /\ reconnect' = [reconnect EXCEPT ![c] = "none"]
    /\ UNCHANGED <<cDialer, maintainers, cPhase, cRestarts, faults>>

\* The last dial of the window fails: for a server that is itself restarting, or
\* for a fault of the network.  Earlier failures change nothing.
ReconnectGivesUp(c) ==
    /\ reconnect[c] = "dial"
    /\ reconnect' = [reconnect EXCEPT ![c] = "none"]
    /\ \/ ~CRunning /\ UNCHANGED <<cRestarts, faults>>
       \/ CRunning /\ ~Running /\ CRequestRestart /\ UNCHANGED faults
       \/ CRunning /\ faults < MaxFaults /\ faults' = faults + 1 /\ CRequestRestart
    /\ UNCHANGED <<linkVars, serverVars, cDialer, cHandler, cReader, cControl,
                   maintainers, cPhase>>

\* Restart of the client: stop, join, publish.
CRestartStops(told) ==
    /\ cRestarts > 0
    /\ cRestarts' = cRestarts - 1
    /\ IF cPhase = "joining"
       THEN told = {} /\ UNCHANGED <<link, toS, cPhase>>
       ELSE /\ told \subseteq {c \in cHandler : link[c]}
            /\ toS' = toS \cup told
            /\ Close({cControl} \cup cHandler \cup {c \in Conns : cReader[c] # "none"})
            /\ cPhase' = "joining"
    /\ UNCHANGED <<toC, serverVars, cDialer, cHandler, cReader, reconnect, cControl,
                   maintainers, faults>>

CWorkers == {c \in Conns : c \in cHandler \/ cReader[c] # "none" \/ reconnect[c] # "none"}

CJoinTimesOut ==
    /\ cPhase = "joining" /\ (cDialer \/ CWorkers # {})
    /\ cPhase' = "stuck"
    /\ CRequestRestart
    /\ UNCHANGED <<linkVars, serverVars, cDialer, cHandler, cReader, reconnect, cControl,
                   maintainers, faults>>

CRestartPublishes ==
    /\ cPhase = "joining" /\ ~cDialer /\ CWorkers = {}
    /\ cPhase' = "run"
    /\ Close({cControl})
    /\ cControl' = None
    /\ maintainers' = 0
    /\ cDialer' = TRUE
    /\ UNCHANGED <<toS, toC, serverVars, cHandler, cReader, reconnect, cRestarts, faults>>

ClientNext ==
    \/ \E c \in Conns : \/ ChannelDialer(c)
                        \/ CReadFails(c) \/ CHandlerEnds(c) \/ CWriteFails(c)
                        \/ ClosedByServer(c)
                        \/ ReconnectBegins(c) \/ ReconnectWaits(c) \/ ReconnectGivesUp(c)
                        \/ \E d \in Conns : ReconnectDials(c, d)
    \/ \E told \in SUBSET cHandler : CRestartStops(told)
    \/ DialerEnds \/ CJoinTimesOut \/ CRestartPublishes

-----------------------------------------------------------------------------
\* The network (external): a connection is cut, with or without the SG_Closed
\* that was on its way.
Cut(c) ==
    /\ link[c] /\ faults < MaxFaults
    /\ faults' = faults + 1
    /\ Close({c})
    /\ toS' \in {toS, toS \ {c}} /\ toC' \in {toC, toC \ {c}}
    /\ UNCHANGED <<serverVars, clientVars>>

\* hotReload, or a new process: the instance is stopped, with the same farewell
\* as in a restart, and a fresh one is started in its place.
ClientReloads(told) ==
    /\ faults < MaxFaults
    /\ faults' = faults + 1
    /\ told \subseteq {c \in cHandler : link[c]}
    /\ toS' = toS \cup told
    /\ Close(Conns)
    /\ cDialer' = TRUE
    /\ cHandler' = {} /\ cControl' = None
    /\ cReader' = [c \in Conns |-> "none"]
    /\ reconnect' = [c \in Conns |-> "none"]
    /\ maintainers' = 0 /\ cRestarts' = 0
    /\ cPhase' = "run"
    /\ UNCHANGED <<toC, serverVars>>

ServerReloads(told) ==
    /\ faults < MaxFaults
    /\ faults' = faults + 1
    /\ told \subseteq {c \in handler : link[c]}
    /\ toC' = toC \cup told
    /\ Close(Conns)
    /\ upgrade' = [c \in Conns |-> "none"]
    /\ reader' = [c \in Conns |-> "none"]
    /\ handler' = {} /\ lost' = {} /\ control' = None
    /\ started' = FALSE /\ claimed' = FALSE /\ live' = FALSE
    /\ loops' = 0 /\ restarts' = 0
    /\ timers' = {}
    /\ phase' = "run"
    /\ UNCHANGED <<toS, clientVars>>

Next ==
    \/ ServerNext /\ UNCHANGED <<clientVars, faults>>
    \/ ClientNext
    \/ \E c \in Conns : Cut(c)
    \/ \E told \in SUBSET cHandler : ClientReloads(told)
    \/ \E told \in SUBSET handler : ServerReloads(told)

Spec == Init /\ [][Next]_vars

-----------------------------------------------------------------------------
(* Properties. *)

\* A generation whose restart the grace callback has claimed never has a
\* control channel: adoption and claim exclude each other (adoptControl against
\* onControlGraceExpired), so no client is attached to a server about to die.
ClaimExcludesControl == claimed /\ Running => control = None

\* While the server has lost its control channel something is there to end the
\* wait: the timer of this loss, or the restart that was claimed (a claim refuses
\* every control channel: a lost one would refuse them for ever).
LossIsWatched ==
    Running /\ started /\ control = None =>
        (claimed /\ restarts > 0) \/ \E t \in timers : t.current

\* However often the control channel is replaced, a generation of the server
\* runs one set of listeners and handle loops, one of the client one pool
\* maintainer and one control handler: reconnectControl waits for the old one.
NothingTwice ==
    /\ loops <= 1 /\ maintainers <= 1
    /\ \A c, d \in cHandler \cup {c \in Conns : cReader[c] # "none"} : c = d

\* A call of onControlLost for a connection that is not registered leaves the
\* registered one alone, and so does every step but its own loss, an adoption
\* and a restart or reload of the server.
LateLossIsHarmless ==
    [][\A c \in Conns : control = c /\ control' = None =>
           c \in lost \/ phase = "joining" \/ faults' # faults]_vars

\* The runtime fires an armed timer, and runs the callback to its end.
GraceTimer == \E t \in timers : (GraceExpires(t) \/ GraceDecides(t)) /\ UNCHANGED <<clientVars, faults>>

FairSpec == Spec /\ WF_vars(GraceTimer)

\* The grace period is bounded: a server without its control channel gets one,
\* or restarts, even if the pool looks alive whenever it is counted.
GraceEnds == (Running /\ started /\ control = None) ~> (control # None \/ ~Running \/ restarts > 0)
=============================================================================
