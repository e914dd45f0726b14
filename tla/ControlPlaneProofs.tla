-------------------------- MODULE ControlPlaneProofs --------------------------
(***************************************************************************)
(* The control channel of wsmux for any number of connections, grace       *)
(* windows, waiting restart requests and faults: the invariants of         *)
(* ControlPlane and LateLossIsHarmless.                                    *)
(***************************************************************************)
EXTENDS ControlPlane, TLAPS

-----------------------------------------------------------------------------
(* The inductive invariant. *)

\* A claim is made without a control channel, and its restart is still to come.
ClaimHeld == claimed /\ Running => control = None /\ restarts > 0

\* A loss has its timer until the claim.
LossTimed ==
    Running /\ started /\ control = None => claimed \/ \E t \in timers : t.current

\* One connection at most is the first of its generation, and until it has been
\* served the loops are not running.
FirstIsOne ==
    /\ loops <= 1
    /\ ~started => loops = 0
    /\ \A c \in Conns : upgrade[c] = "first" => started /\ loops = 0
    /\ \A c, d \in Conns : upgrade[c] = "first" /\ upgrade[d] = "first" => c = d

\* The connections a goroutine of the client still works on.
CBusy == cHandler \cup {c \in Conns : cReader[c] # "none"}

Dialing(c) == reconnect[c] \in {"wait", "dial"}

\* The dialer of a generation starts its one maintainer.
DialerFirst ==
    /\ maintainers <= 1
    /\ cDialer => maintainers = 0

\* Who may dial is alone: the dialer before any handler, or the one
\* reconnectControl that took the registered connection off.
OneDials ==
    /\ \A c, d \in CBusy : c = d
    /\ CRunning =>
        /\ cDialer => CBusy = {} /\ cControl = None /\ \A c \in Conns : reconnect[c] = "none"
        /\ cControl # None => CBusy \subseteq {cControl} /\ \A c \in Conns : ~Dialing(c)
        /\ \A c, d \in Conns : Dialing(c) /\ Dialing(d) => c = d
        /\ \A c \in Conns : reconnect[c] = "wait" => CBusy \subseteq {c}
        /\ \A c \in Conns : reconnect[c] = "dial" => CBusy = {}

-----------------------------------------------------------------------------
(* Types. *)

\* A timer that is moved on or stopped is still a timer.
LEMMA TimersTyped ==
    ASSUME timers \subseteq TimerStates, NEW t \in timers, NEW b \in BOOLEAN
    PROVE  /\ Invalidated \subseteq TimerStates
           /\ [t EXCEPT !.armed = FALSE, !.live = b] \in TimerStates
           /\ GraceShouldHold(t) => Armed(t.window + 1) \in TimerStates
<1>1. Invalidated \subseteq TimerStates
  BY DEF TimerStates, Invalidated
<1>2. [t EXCEPT !.armed = FALSE, !.live = b] \in TimerStates
  BY DEF TimerStates
<1>3. ASSUME GraceShouldHold(t)
      PROVE  Armed(t.window + 1) \in TimerStates
  <2>1. t.window \in 1..MaxHold /\ t.window < MaxHold
    BY <1>3 DEF TimerStates, GraceShouldHold
  <2>2. t.window + 1 \in 1..MaxHold
    BY <2>1, ControlAssumption
  <2> QED BY <2>2 DEF TimerStates, Armed
<1> QED BY <1>1, <1>2, <1>3

LEMMA InvalidatedTyped ==
    ASSUME timers \subseteq TimerStates
    PROVE  Invalidated \subseteq TimerStates
BY DEF TimerStates, Invalidated

LEMMA CloseTyped ==
    ASSUME NEW C, Close(C)
    PROVE  link' \in [Conns -> BOOLEAN]
BY DEF Close

LEMMA FirstWindowTyped == Armed(1) \in TimerStates
BY ControlAssumption DEF TimerStates, Armed

\* What a dial that succeeds changes, at both ends.
LEMMA DialTyped ==
    ASSUME TypeOK, NEW d \in Conns, Dial(d), StartHandler(d)
    PROVE  /\ ServerTypeOK'
           /\ cHandler' \in SUBSET Conns
           /\ cReader' \in [Conns -> {"none", "run", "lost"}]
           /\ cControl' \in Conns \cup {None}
<1> USE DEF TypeOK, ServerTypeOK
<1>1. link' \in [Conns -> BOOLEAN]
  BY DEF Dial, CRunning
<1>2. UNCHANGED <<handler, reader, lost, graceVars, genVars>> /\ Enter(d)
      /\ toS' = toS \ {d} /\ toC' = toC \ {d}
  BY DEF Dial
<1>3. ServerTypeOK'
  BY <1>1, <1>2 DEF Enter, graceVars, genVars
<1> QED BY <1>3 DEF StartHandler

\* Type correctness of both ends; the windows of a hold stay within its cap.
THEOREM ControlTyped == Spec => []TypeOK
<1>1. Init => TypeOK
  <2> SUFFICES ASSUME Init
               PROVE  TypeOK
    OBVIOUS
  <2> USE DEF Init, ServerInit, ClientInit
  <2>1. started \in BOOLEAN /\ claimed \in BOOLEAN /\ live \in BOOLEAN /\ cDialer \in BOOLEAN
    OBVIOUS
  <2>2. link \in [Conns -> BOOLEAN]
    OBVIOUS
  <2>3. ServerTypeOK
    BY <2>1, <2>2, ControlAssumption DEF ServerTypeOK
  <2> QED BY <2>1, <2>3, FaultAssumption DEF TypeOK
<1>2. TypeOK /\ [Next]_vars => TypeOK'
  <2> SUFFICES ASSUME TypeOK, [Next]_vars
               PROVE  TypeOK'
    OBVIOUS
  <2> USE ControlAssumption, FaultAssumption DEF TypeOK, ServerTypeOK
  <2> USE DEF linkVars, connVars, graceVars, genVars, serverVars, clientVars
  <2>1. ASSUME NEW c \in Conns, Adopt(c), UNCHANGED <<clientVars, faults>>
        PROVE  TypeOK'
    BY <2>1, InvalidatedTyped, CloseTyped DEF Adopt, AdoptUnless
  <2>2. ASSUME NEW c \in Conns, UNCHANGED <<clientVars, faults>>,
               Serve(c) \/ ReadFails(c) \/ HandlerEnds(c) \/ WriteFails(c) \/ ClosedByClient(c)
        PROVE  TypeOK'
    <3>1. CASE Serve(c)
      BY <2>2, <3>1 DEF Serve
    <3>2. CASE ReadFails(c)
      BY <2>2, <3>2 DEF ReadFails
    <3>3. CASE HandlerEnds(c)
      BY <2>2, <3>3 DEF HandlerEnds
    <3>4. CASE WriteFails(c)
      BY <2>2, <3>4 DEF WriteFails
    <3>5. CASE ClosedByClient(c)
      BY <2>2, <3>5 DEF ClosedByClient, RequestRestart
    <3> QED BY <2>2, <3>1, <3>2, <3>3, <3>4, <3>5
  <2>3. ASSUME NEW c \in Conns, OnControlLost(c), UNCHANGED <<clientVars, faults>>
        PROVE  TypeOK'
    BY <2>3, InvalidatedTyped, CloseTyped, FirstWindowTyped DEF OnControlLost, LoseIf
  <2>4. ASSUME NEW t \in timers, GraceExpires(t), UNCHANGED <<clientVars, faults>>
        PROVE  TypeOK'
    BY <2>4, TimersTyped DEF GraceExpires
  <2>5. ASSUME NEW t \in timers, GraceDecides(t), UNCHANGED <<clientVars, faults>>
        PROVE  TypeOK'
    <3>1. claimed' \in BOOLEAN
      BY <2>5 DEF GraceDecides, DecideHolding
    <3>2. restarts' \in 0..MaxRequests
      BY <2>5 DEF GraceDecides, DecideHolding, RequestRestart
    <3>3. timers' \subseteq TimerStates
      <4>1. /\ Invalidated \subseteq TimerStates
            /\ GraceShouldHold(t) => Armed(t.window + 1) \in TimerStates
        BY TimersTyped
      <4> QED BY <2>5, <4>1 DEF GraceDecides, DecideHolding
    <3> QED BY <2>5, <3>1, <3>2, <3>3 DEF GraceDecides, DecideHolding
  <2>6. ASSUME NEW told \in SUBSET handler, RestartStops(told), UNCHANGED <<clientVars, faults>>
        PROVE  TypeOK'
    BY <2>6, InvalidatedTyped, CloseTyped DEF RestartStops
  <2>7. CASE (JoinTimesOut \/ RestartPublishes \/ PoolChanges) /\ UNCHANGED <<clientVars, faults>>
    <3>1. CASE JoinTimesOut
      BY <2>7, <3>1 DEF JoinTimesOut, RequestRestart
    <3>2. CASE RestartPublishes
      <4>1. started' \in BOOLEAN /\ claimed' \in BOOLEAN /\ live' \in BOOLEAN
        BY <3>2 DEF RestartPublishes
      <4> QED BY <2>7, <3>2, <4>1, InvalidatedTyped, CloseTyped DEF RestartPublishes
    <3>3. CASE PoolChanges
      BY <2>7, <3>3 DEF PoolChanges
    <3> QED BY <2>7, <3>1, <3>2, <3>3
  <2>8. ASSUME NEW c \in Conns, ChannelDialer(c)
        PROVE  TypeOK'
    <3>1. cDialer' \in BOOLEAN
      BY <2>8 DEF ChannelDialer
    <3>2. Dial(c) /\ StartHandler(c) /\ maintainers' \in 0..2
          /\ UNCHANGED <<reconnect, cPhase, cRestarts, faults>>
      BY <2>8 DEF ChannelDialer
    <3> QED BY <3>1, <3>2, DialTyped
  <2>9. ASSUME NEW c \in Conns,
               CReadFails(c) \/ CHandlerEnds(c) \/ CWriteFails(c) \/ ClosedByServer(c)
        PROVE  TypeOK'
    <3>1. CASE CReadFails(c)
      BY <3>1 DEF CReadFails
    <3>2. CASE CHandlerEnds(c)
      BY <3>2 DEF CHandlerEnds, CLeaves
    <3>3. CASE CWriteFails(c)
      BY <3>3 DEF CWriteFails, CLeaves
    <3>4. CASE ClosedByServer(c)
      BY <3>4 DEF ClosedByServer, CLeaves, CRequestRestart
    <3> QED BY <2>9, <3>1, <3>2, <3>3, <3>4
  <2>10. ASSUME NEW c \in Conns, ReconnectBegins(c) \/ ReconnectWaits(c) \/ ReconnectGivesUp(c)
         PROVE  TypeOK'
    <3>1. CASE ReconnectBegins(c)
      BY <3>1, CloseTyped DEF ReconnectBegins
    <3>2. CASE ReconnectWaits(c)
      BY <3>2 DEF ReconnectWaits, ReconnectWhen
    <3>3. CASE ReconnectGivesUp(c)
      BY <3>3 DEF ReconnectGivesUp, CRequestRestart
    <3> QED BY <2>10, <3>1, <3>2, <3>3
  <2>11. ASSUME NEW c \in Conns, NEW d \in Conns, ReconnectDials(c, d)
         PROVE  TypeOK'
    <3>1. Dial(d) /\ StartHandler(d) /\ reconnect' \in [Conns -> {"none", "called", "wait", "dial"}]
          /\ UNCHANGED <<cDialer, maintainers, cPhase, cRestarts, faults>>
      BY <2>11 DEF ReconnectDials
    <3> QED BY <3>1, DialTyped
  <2>12. ASSUME NEW told \in SUBSET cHandler, CRestartStops(told)
         PROVE  TypeOK'
    BY <2>12, CloseTyped DEF CRestartStops
  <2>13. CASE DialerEnds \/ CJoinTimesOut \/ CRestartPublishes
    <3>1. cDialer' \in BOOLEAN
      BY <2>13 DEF DialerEnds, CJoinTimesOut, CRestartPublishes
    <3> QED
      BY <2>13, <3>1, CloseTyped
      DEF DialerEnds, CJoinTimesOut, CRestartPublishes, CRequestRestart
  <2>14. ASSUME NEW c \in Conns, Cut(c)
         PROVE  TypeOK'
    BY <2>14, CloseTyped DEF Cut
  <2>15. ASSUME NEW told \in SUBSET cHandler, ClientReloads(told)
         PROVE  TypeOK'
    BY <2>15, CloseTyped DEF ClientReloads
  <2>16. ASSUME NEW told \in SUBSET handler, ServerReloads(told)
         PROVE  TypeOK'
    <3>1. started' \in BOOLEAN /\ claimed' \in BOOLEAN /\ live' \in BOOLEAN
      BY <2>16 DEF ServerReloads
    <3> QED BY <2>16, <3>1, CloseTyped DEF ServerReloads
  <2>17. CASE UNCHANGED vars
    BY <2>17 DEF vars
  <2> QED
    BY <2>1, <2>2, <2>3, <2>4, <2>5, <2>6, <2>7, <2>8, <2>9, <2>10, <2>11, <2>12,
       <2>13, <2>14, <2>15, <2>16, <2>17
    DEF Next, ServerNext, ClientNext
<1> QED BY <1>1, <1>2, PTL DEF Spec

-----------------------------------------------------------------------------
(* The server. *)

ServerInv == ClaimHeld /\ LossTimed /\ FirstIsOne

serverState == <<upgrade, control, started, timers, claimed, loops, phase, restarts>>

\* A step that leaves the generation, its channel and its timers alone.
LEMMA ServerAside ==
    ASSUME ServerInv, UNCHANGED serverState
    PROVE  ServerInv'
BY DEF serverState, ServerInv, ClaimHeld, LossTimed, FirstIsOne, Running

\* The client reaches the server only through the request that brings a
\* connection.
LEMMA ClientReachesServer ==
    ASSUME ClientNext
    PROVE  /\ UNCHANGED <<control, started, timers, claimed, loops, phase, restarts>>
           /\ upgrade' = upgrade \/ \E d \in Conns : Running /\ upgrade' = [upgrade EXCEPT ![d] = "entered"]
<1> USE DEF serverVars, connVars, graceVars, genVars
<1>1. ASSUME NEW c \in Conns, ChannelDialer(c)
      PROVE  /\ UNCHANGED <<control, started, timers, claimed, loops, phase, restarts>>
             /\ Running /\ upgrade' = [upgrade EXCEPT ![c] = "entered"]
  BY <1>1 DEF ChannelDialer, Dial, Enter
<1>2. ASSUME NEW c \in Conns, NEW d \in Conns, ReconnectDials(c, d)
      PROVE  /\ UNCHANGED <<control, started, timers, claimed, loops, phase, restarts>>
             /\ Running /\ upgrade' = [upgrade EXCEPT ![d] = "entered"]
  BY <1>2 DEF ReconnectDials, Dial, Enter
<1>3. ASSUME NEW c \in Conns,
             \/ CReadFails(c) \/ CHandlerEnds(c) \/ CWriteFails(c) \/ ClosedByServer(c)
             \/ ReconnectBegins(c) \/ ReconnectWaits(c) \/ ReconnectGivesUp(c)
      PROVE  UNCHANGED serverVars
  BY <1>3 DEF CReadFails, CHandlerEnds, CWriteFails, ClosedByServer, ReconnectBegins,
              ReconnectWaits, ReconnectWhen, ReconnectGivesUp
<1>4. ASSUME NEW told \in SUBSET cHandler, CRestartStops(told)
      PROVE  UNCHANGED serverVars
  BY <1>4 DEF CRestartStops
<1>5. ASSUME DialerEnds \/ CJoinTimesOut \/ CRestartPublishes
      PROVE  UNCHANGED serverVars
  BY <1>5 DEF DialerEnds, CJoinTimesOut, CRestartPublishes
<1> QED BY <1>1, <1>2, <1>3, <1>4, <1>5 DEF ClientNext

\* Each step of the server, the client and the network keeps the claim, the
\* timer of a loss and the one first connection.
LEMMA ServerStep ==
    ASSUME TypeOK, ServerInv, [Next]_vars
    PROVE  ServerInv'
<1> USE ControlAssumption DEF ServerInv
<1>1. ASSUME NEW c \in Conns, Adopt(c)
      PROVE  ServerInv'
  <2>1. CASE claimed \/ ~Running
    <3>1. upgrade' = [upgrade EXCEPT ![c] = "none"]
          /\ UNCHANGED <<control, started, timers, claimed, loops, phase, restarts>>
      BY <1>1, <2>1 DEF Adopt, AdoptUnless, graceVars, genVars
    <3> QED BY <3>1 DEF TypeOK, ServerTypeOK, ClaimHeld, LossTimed, FirstIsOne, Running
  <2>2. CASE ~claimed /\ Running
    <3>1. upgrade' = [upgrade EXCEPT ![c] = IF started THEN "again" ELSE "first"]
          /\ control' = c /\ started' = TRUE
          /\ UNCHANGED <<claimed, loops, phase, restarts>>
      BY <1>1, <2>2 DEF Adopt, AdoptUnless, genVars
    <3>2. ClaimHeld' /\ LossTimed'
      BY <2>2, <3>1 DEF ClaimHeld, LossTimed, Running
    <3>3. FirstIsOne'
      BY <3>1 DEF TypeOK, ServerTypeOK, FirstIsOne
    <3> QED BY <3>2, <3>3
  <2> QED BY <2>1, <2>2
<1>2. ASSUME NEW c \in Conns, Serve(c)
      PROVE  ServerInv'
  <2>1. UNCHANGED <<control, started, timers, claimed, phase, restarts>>
        /\ upgrade' = [upgrade EXCEPT ![c] = "none"]
        /\ \/ loops' = loops
           \/ upgrade[c] = "first" /\ loops' = loops + 1
    BY <1>2 DEF Serve, graceVars
  <2>2. ClaimHeld' /\ LossTimed'
    BY <2>1 DEF ClaimHeld, LossTimed, Running
  <2>3. FirstIsOne'
    BY <2>1 DEF TypeOK, ServerTypeOK, FirstIsOne
  <2> QED BY <2>2, <2>3
<1>3. ASSUME NEW c \in Conns, ReadFails(c) \/ HandlerEnds(c) \/ WriteFails(c)
      PROVE  ServerInv'
  <2>1. UNCHANGED serverState
    BY <1>3 DEF ReadFails, HandlerEnds, WriteFails, graceVars, genVars, serverState
  <2> QED BY <2>1, ServerAside
<1>4. ASSUME NEW c \in Conns, ClosedByClient(c)
      PROVE  ServerInv'
  <2>1. UNCHANGED <<upgrade, control, started, timers, claimed, loops, phase>>
        /\ (restarts > 0 => restarts' > 0)
    BY <1>4 DEF ClosedByClient, RequestRestart, graceVars, TypeOK, ServerTypeOK
  <2> QED BY <2>1 DEF ClaimHeld, LossTimed, FirstIsOne, Running
<1>5. ASSUME NEW c \in Conns, OnControlLost(c)
      PROVE  ServerInv'
  <2>1. UNCHANGED <<upgrade, started, claimed, loops, phase, restarts>>
    BY <1>5 DEF OnControlLost, LoseIf, genVars
  <2>2. CASE control = c
    <3>1. control' = None /\ (Running => Armed(1) \in timers')
      BY <1>5, <2>2 DEF OnControlLost, LoseIf
    <3>2. Running => \E t \in timers' : t.current
      BY <3>1 DEF Armed
    <3> QED BY <2>1, <3>1, <3>2 DEF ClaimHeld, LossTimed, FirstIsOne, Running
  <2>3. CASE control # c
    <3>1. UNCHANGED <<control, timers>>
      BY <1>5, <2>3 DEF OnControlLost, LoseIf
    <3> QED BY <2>1, <3>1, ServerAside DEF serverState
  <2> QED BY <2>2, <2>3
<1>6. ASSUME NEW t \in timers, GraceExpires(t)
      PROVE  ServerInv'
  <2>1. UNCHANGED <<upgrade, control, started, claimed, loops, phase, restarts>>
    BY <1>6 DEF GraceExpires, connVars, genVars
  <2>2. LossTimed'
    <3>1. CASE GraceCurrent(t)
      <4>1. [t EXCEPT !.armed = FALSE, !.live = live] \in timers'
        BY <1>6, <3>1 DEF GraceExpires
      <4>2. [t EXCEPT !.armed = FALSE, !.live = live].current
        BY <3>1 DEF GraceCurrent, TypeOK, ServerTypeOK, TimerStates
      <4> QED BY <4>1, <4>2 DEF LossTimed
    <3>2. CASE ~GraceCurrent(t)
      <4>1. timers' = timers \ {t}
        BY <1>6, <3>2 DEF GraceExpires
      <4> QED BY <2>1, <3>2, <4>1 DEF LossTimed, GraceCurrent, Running
    <3> QED BY <3>1, <3>2
  <2> QED BY <2>1, <2>2 DEF ClaimHeld, FirstIsOne, Running
<1>7. ASSUME NEW t \in timers, GraceDecides(t)
      PROVE  ServerInv'
  <2>1. UNCHANGED <<upgrade, control, started, loops, phase>>
    BY <1>7 DEF GraceDecides, DecideHolding, connVars
  <2>2. FirstIsOne'
    BY <2>1 DEF FirstIsOne
  <2>3. CASE ~GraceCurrent(t) /\ timers' = timers \ {t} /\ UNCHANGED <<claimed, restarts>>
    BY <2>1, <2>2, <2>3 DEF ClaimHeld, LossTimed, GraceCurrent, Running
  <2>4. CASE GraceCurrent(t) /\ Armed(t.window + 1) \in timers' /\ UNCHANGED <<claimed, restarts>>
    <3>1. \E u \in timers' : u.current
      BY <2>4 DEF Armed
    <3> QED BY <2>1, <2>2, <2>4, <3>1 DEF ClaimHeld, LossTimed, Running
  <2>5. CASE GraceCurrent(t) /\ claimed' /\ RequestRestart
    <3>1. restarts' > 0
      BY <2>5 DEF RequestRestart, TypeOK, ServerTypeOK
    <3> QED BY <2>1, <2>2, <2>5, <3>1 DEF ClaimHeld, LossTimed, GraceCurrent
  <2> QED BY <1>7, <2>3, <2>4, <2>5 DEF GraceDecides, DecideHolding
<1>8. ASSUME NEW told \in SUBSET handler, RestartStops(told)
      PROVE  ServerInv'
  <2>1. UNCHANGED <<upgrade, control, started, claimed, loops>> /\ phase' = "joining"
    BY <1>8 DEF RestartStops, connVars
  <2> QED BY <2>1 DEF ClaimHeld, LossTimed, FirstIsOne, Running
<1>9. CASE JoinTimesOut
  <2>1. UNCHANGED <<upgrade, control, started, claimed, loops>> /\ phase' = "stuck"
    BY <1>9 DEF JoinTimesOut, connVars, graceVars
  <2> QED BY <2>1 DEF ClaimHeld, LossTimed, FirstIsOne, Running
<1>10. CASE RestartPublishes
  <2>1. /\ started' = FALSE /\ claimed' = FALSE /\ loops' = 0 /\ upgrade' = upgrade
        /\ \A c \in Conns : upgrade[c] = "none"
    BY <1>10 DEF RestartPublishes, Workers, connVars
  <2> QED BY <2>1 DEF ClaimHeld, LossTimed, FirstIsOne
<1>11. CASE PoolChanges
  <2>1. UNCHANGED serverState
    BY <1>11 DEF PoolChanges, connVars, graceVars, serverState
  <2> QED BY <2>1, ServerAside
<1>12. CASE ClientNext
  <2>1. CASE upgrade' = upgrade
    BY <1>12, <2>1, ClientReachesServer, ServerAside DEF serverState
  <2>2. ASSUME NEW d \in Conns, upgrade' = [upgrade EXCEPT ![d] = "entered"]
        PROVE  ServerInv'
    BY <1>12, <2>2, ClientReachesServer
    DEF TypeOK, ServerTypeOK, ClaimHeld, LossTimed, FirstIsOne, Running
  <2> QED BY <1>12, <2>1, <2>2, ClientReachesServer
<1>13. ASSUME NEW c \in Conns, Cut(c)
       PROVE  ServerInv'
  BY <1>13, ServerAside DEF Cut, serverVars, connVars, graceVars, genVars, serverState
<1>14. ASSUME NEW told \in SUBSET cHandler, ClientReloads(told)
       PROVE  ServerInv'
  BY <1>14, ServerAside DEF ClientReloads, serverVars, connVars, graceVars, genVars, serverState
<1>15. ASSUME NEW told \in SUBSET handler, ServerReloads(told)
       PROVE  ServerInv'
  <2>1. /\ started' = FALSE /\ claimed' = FALSE /\ loops' = 0
        /\ upgrade' = [c \in Conns |-> "none"]
    BY <1>15 DEF ServerReloads
  <2> QED BY <2>1 DEF ClaimHeld, LossTimed, FirstIsOne
<1>16. CASE UNCHANGED vars
  BY <1>16, ServerAside DEF vars, serverVars, connVars, graceVars, genVars, serverState
<1> QED
  BY <1>1, <1>2, <1>3, <1>4, <1>5, <1>6, <1>7, <1>8, <1>9, <1>10, <1>11, <1>12,
     <1>13, <1>14, <1>15, <1>16
  DEF Next, ServerNext

LEMMA ServerHolds == Spec => [](ClaimExcludesControl /\ LossIsWatched)
<1>1. Init => ServerInv
  BY DEF Init, ServerInit, ServerInv, ClaimHeld, LossTimed, FirstIsOne
<1>2. TypeOK /\ ServerInv /\ [Next]_vars => ServerInv'
  BY ServerStep
<1>3. ServerInv => ClaimExcludesControl /\ LossIsWatched
  BY DEF ServerInv, ClaimHeld, LossTimed, ClaimExcludesControl, LossIsWatched
<1> QED BY <1>1, <1>2, <1>3, ControlTyped, PTL DEF Spec

\* A restart that onControlGraceExpired claimed is never overtaken by a control
\* channel that comes back: adoptControl refuses it until the restart is over.
THEOREM ClaimsExclude == Spec => []ClaimExcludesControl
BY ServerHolds, PTL

\* A server that lost its control channel is always watched: by the grace timer of
\* that loss (armControlGrace), or by the restart that was claimed.
THEOREM LossesAreWatched == Spec => []LossIsWatched
BY ServerHolds, PTL

-----------------------------------------------------------------------------
(* The client. *)

ClientInv == DialerFirst /\ OneDials

clientState == <<cDialer, cHandler, cReader, reconnect, cControl, maintainers, cPhase>>

\* A step that leaves the client alone, but for its waiting restarts.
LEMMA ClientAside ==
    ASSUME ClientInv, UNCHANGED clientState
    PROVE  ClientInv'
<1>1. CBusy' = CBusy /\ UNCHANGED <<cDialer, reconnect, cControl, maintainers, cPhase>>
  BY DEF clientState, CBusy
<1>2. \A c : Dialing(c)' <=> Dialing(c)
  BY <1>1 DEF Dialing
<1> QED BY <1>1, <1>2 DEF ClientInv, DialerFirst, OneDials, CRunning

\* Handlers and readers that end, with or without a call of reconnectControl.
LEMMA BusyShrinks ==
    ASSUME TypeOK, OneDials, NEW c \in Conns,
           CBusy' \subseteq CBusy,
           UNCHANGED <<cDialer, cControl, cPhase>>,
           \/ reconnect' = reconnect
           \/ c \in CBusy /\ reconnect' = [reconnect EXCEPT ![c] = IF @ = "none" THEN "called" ELSE @]
    PROVE  OneDials'
<1>1. \A d \in Conns : /\ reconnect'[d] = "wait" <=> reconnect[d] = "wait"
                       /\ reconnect'[d] = "dial" <=> reconnect[d] = "dial"
  BY DEF TypeOK
<1>2. \A d \in Conns : Dialing(d)' <=> Dialing(d)
  BY <1>1 DEF Dialing
<1>3. CRunning /\ cDialer => \A d \in Conns : reconnect'[d] = "none"
  BY DEF OneDials, TypeOK
<1> QED BY <1>1, <1>2, <1>3 DEF OneDials, CRunning

\* A dial by whoever may dial leaves one handler, registered, and nobody dialling.
LEMMA DialStarts ==
    ASSUME TypeOK, OneDials, NEW d \in Conns, StartHandler(d), cPhase' = cPhase,
           cDialer' = FALSE,
           CRunning => CBusy = {} /\ \A c \in Conns : ~Dialing(c)'
    PROVE  OneDials'
<1>1. CASE CRunning
  <2>1. CBusy' = {d} /\ cControl' = d
    BY <1>1 DEF StartHandler, CBusy, TypeOK
  <2>2. d # None
    BY ControlAssumption
  <2> QED BY <1>1, <2>1, <2>2 DEF OneDials, Dialing
<1>2. CASE ~CRunning
  <2>1. CBusy' = CBusy
    BY <1>2 DEF StartHandler, CBusy
  <2> QED BY <1>2, <2>1 DEF OneDials, CRunning
<1> QED BY <1>1, <1>2

\* Each step of the client and of its environment leaves one that may dial.
LEMMA ClientStep ==
    ASSUME TypeOK, ClientInv, [Next]_vars
    PROVE  ClientInv'
<1> USE ControlAssumption DEF ClientInv
<1>1. ASSUME NEW c \in Conns, ChannelDialer(c)
      PROVE  ClientInv'
  <2>1. cDialer /\ cDialer' = FALSE /\ StartHandler(c) /\ UNCHANGED <<reconnect, cPhase>>
        /\ maintainers' <= 1
    BY <1>1 DEF ChannelDialer, DialerFirst, TypeOK
  <2>2. CRunning => CBusy = {} /\ \A d \in Conns : ~Dialing(d)'
    BY <2>1 DEF OneDials, Dialing
  <2>3. OneDials'
    BY <2>1, <2>2, DialStarts
  <2> QED BY <2>1, <2>3 DEF DialerFirst
<1>2. ASSUME NEW c \in Conns, NEW d \in Conns, ReconnectDials(c, d)
      PROVE  ClientInv'
  <2>1. /\ reconnect[c] = "dial" /\ reconnect' = [reconnect EXCEPT ![c] = "none"]
        /\ StartHandler(d) /\ UNCHANGED <<cDialer, maintainers, cPhase>>
    BY <1>2 DEF ReconnectDials
  <2>2. CRunning => CBusy = {} /\ \A e \in Conns : ~Dialing(e)'
    BY <2>1 DEF OneDials, Dialing, TypeOK
  <2>3. CASE CRunning
    <3>1. cDialer' = FALSE
      BY <2>1, <2>3 DEF OneDials, TypeOK
    <3> QED BY <2>1, <2>2, <3>1, DialStarts DEF DialerFirst
  <2>4. CASE ~CRunning
    <3>1. CBusy' = CBusy /\ cPhase' = cPhase
      BY <2>1, <2>4 DEF StartHandler, CBusy
    <3> QED BY <2>1, <2>4, <3>1 DEF OneDials, DialerFirst, CRunning
  <2> QED BY <2>3, <2>4
<1>3. ASSUME NEW c \in Conns,
             CReadFails(c) \/ CHandlerEnds(c) \/ CWriteFails(c) \/ ClosedByServer(c)
      PROVE  ClientInv'
  <2>1. UNCHANGED <<cDialer, cControl, maintainers, cPhase>>
    BY <1>3 DEF CReadFails, CHandlerEnds, CWriteFails, ClosedByServer
  <2>2. CBusy' \subseteq CBusy
    BY <1>3 DEF CReadFails, CHandlerEnds, CWriteFails, ClosedByServer, CLeaves, CBusy, TypeOK
  <2>3. \/ reconnect' = reconnect
        \/ c \in CBusy /\ reconnect' = [reconnect EXCEPT ![c] = IF @ = "none" THEN "called" ELSE @]
    <3>1. CASE CReadFails(c)
      BY <3>1 DEF CReadFails, CBusy
    <3>2. CASE CWriteFails(c)
      BY <3>2 DEF CWriteFails, CBusy, TypeOK
    <3>3. CASE CHandlerEnds(c) \/ ClosedByServer(c)
      BY <3>3 DEF CHandlerEnds, ClosedByServer
    <3> QED BY <1>3, <3>1, <3>2, <3>3
  <2>4. OneDials'
    BY <2>1, <2>2, <2>3, BusyShrinks
  <2> QED BY <2>1, <2>4 DEF DialerFirst
<1>4. ASSUME NEW c \in Conns, ReconnectBegins(c)
      PROVE  ClientInv'
  \* the registered connection is the only one with a handler
  <2>1. CBusy' = CBusy /\ UNCHANGED <<cDialer, maintainers, cPhase>>
    BY <1>4 DEF ReconnectBegins, CBusy
  <2>2. CASE cControl = c
    <3>1. cControl' = None /\ reconnect' = [reconnect EXCEPT ![c] = "wait"]
      BY <1>4, <2>2 DEF ReconnectBegins
    <3>2. CRunning => ~cDialer /\ CBusy \subseteq {c} /\ \A d \in Conns : d # c => ~Dialing(d)
      BY <2>2 DEF OneDials
    <3>3. CRunning => \A d \in Conns : Dialing(d)' => d = c
      BY <3>1, <3>2 DEF Dialing, TypeOK
    <3>4. \A d \in Conns : CRunning => (reconnect'[d] = "wait" => d = c) /\ reconnect'[d] # "dial"
      BY <3>1, <3>2 DEF Dialing, TypeOK
    <3> QED BY <2>1, <3>1, <3>2, <3>3, <3>4 DEF OneDials, DialerFirst, CRunning
  <2>3. CASE cControl # c
    <3>1. cControl' = cControl /\ reconnect' = [reconnect EXCEPT ![c] = "none"]
      BY <1>4, <2>3 DEF ReconnectBegins
    <3> QED BY <2>1, <3>1 DEF OneDials, DialerFirst, CRunning, Dialing, TypeOK
  <2> QED BY <2>2, <2>3
<1>5. ASSUME NEW c \in Conns, ReconnectWaits(c)
      PROVE  ClientInv'
  <2>1. /\ CBusy' = CBusy /\ UNCHANGED <<cDialer, cControl, maintainers, cPhase>>
        /\ reconnect[c] = "wait"
    BY <1>5 DEF ReconnectWaits, ReconnectWhen, CBusy
  <2>2. CASE CRunning
    <3>1. reconnect' = [reconnect EXCEPT ![c] = "dial"] /\ c \notin CBusy
      BY <1>5, <2>2 DEF ReconnectWaits, ReconnectWhen, CBusy
    <3>2. CBusy = {}
      BY <2>1, <2>2, <3>1 DEF OneDials
    <3>3. \A d \in Conns : Dialing(d)' <=> Dialing(d)
      BY <2>1, <3>1 DEF Dialing, TypeOK
    <3> QED BY <2>1, <2>2, <3>1, <3>2, <3>3 DEF OneDials, DialerFirst, CRunning, TypeOK
  <2>3. CASE ~CRunning
    BY <2>1, <2>3 DEF OneDials, DialerFirst, CRunning
  <2> QED BY <2>2, <2>3
<1>6. ASSUME NEW c \in Conns, ReconnectGivesUp(c)
      PROVE  ClientInv'
  <2>1. /\ CBusy' = CBusy /\ UNCHANGED <<cDialer, cControl, maintainers, cPhase>>
        /\ reconnect' = [reconnect EXCEPT ![c] = "none"]
    BY <1>6 DEF ReconnectGivesUp, CBusy
  <2> QED BY <2>1 DEF OneDials, DialerFirst, CRunning, Dialing, TypeOK
<1>7. ASSUME NEW told \in SUBSET cHandler, CRestartStops(told)
      PROVE  ClientInv'
  <2>1. CBusy' = CBusy /\ UNCHANGED <<cDialer, maintainers>> /\ cPhase' = "joining"
    BY <1>7 DEF CRestartStops, CBusy
  <2> QED BY <2>1 DEF OneDials, DialerFirst, CRunning
<1>8. CASE DialerEnds
  <2>1. CBusy' = CBusy /\ UNCHANGED <<reconnect, cControl, maintainers, cPhase>>
        /\ cDialer' = FALSE /\ ~CRunning
    BY <1>8 DEF DialerEnds, CBusy
  <2> QED BY <2>1 DEF OneDials, DialerFirst, CRunning
<1>9. CASE CJoinTimesOut
  <2>1. CBusy' = CBusy /\ UNCHANGED <<cDialer, maintainers>> /\ cPhase' = "stuck"
    BY <1>9 DEF CJoinTimesOut, CBusy
  <2> QED BY <2>1 DEF OneDials, DialerFirst, CRunning
<1>10. CASE CRestartPublishes
  <2>1. CBusy' = {} /\ cControl' = None /\ maintainers' = 0
        /\ \A c \in Conns : reconnect'[c] = "none"
    BY <1>10 DEF CRestartPublishes, CWorkers, CBusy, TypeOK
  <2> QED BY <2>1 DEF OneDials, DialerFirst, Dialing
<1>11. ASSUME NEW told \in SUBSET cHandler, ClientReloads(told)
       PROVE  ClientInv'
  <2>1. CBusy' = {} /\ cControl' = None /\ maintainers' = 0
        /\ \A c \in Conns : reconnect'[c] = "none"
    BY <1>11 DEF ClientReloads, CBusy
  <2> QED BY <2>1 DEF OneDials, DialerFirst, Dialing
<1>12. CASE ServerNext /\ UNCHANGED <<clientVars, faults>>
  BY <1>12, ClientAside DEF clientVars, clientState
<1>13. ASSUME NEW c \in Conns, Cut(c)
       PROVE  ClientInv'
  BY <1>13, ClientAside DEF Cut, clientVars, clientState
<1>14. ASSUME NEW told \in SUBSET handler, ServerReloads(told)
       PROVE  ClientInv'
  BY <1>14, ClientAside DEF ServerReloads, clientVars, clientState
<1>15. CASE UNCHANGED vars
  BY <1>15, ClientAside DEF vars, clientVars, clientState
<1> QED
  BY <1>1, <1>2, <1>3, <1>4, <1>5, <1>6, <1>7, <1>8, <1>9, <1>10, <1>11, <1>12,
     <1>13, <1>14, <1>15
  DEF Next, ClientNext

\* However often the control channel is replaced: one set of listeners and handle
\* loops, one pool maintainer, one control handler.
THEOREM OneOfEach == Spec => []NothingTwice
<1>1. Init => ServerInv /\ ClientInv
  BY DEF Init, ServerInit, ClientInit, ServerInv, ClaimHeld, LossTimed, FirstIsOne,
         ClientInv, DialerFirst, OneDials, CBusy, Dialing
<1>2. TypeOK /\ ServerInv /\ ClientInv /\ [Next]_vars => ServerInv' /\ ClientInv'
  BY ServerStep, ClientStep
<1>3. ServerInv /\ ClientInv => NothingTwice
  BY DEF ServerInv, FirstIsOne, ClientInv, DialerFirst, OneDials, CBusy, NothingTwice
<1> QED BY <1>1, <1>2, <1>3, ControlTyped, PTL DEF Spec

-----------------------------------------------------------------------------
(* What a step may not do. *)

\* The registered control channel is taken away only by its own loss, by a
\* restart or by a reload: a late call of onControlLost for a connection that
\* was replaced leaves the successor alone.
THEOREM LateLossKeepsSuccessor == Spec => LateLossIsHarmless
<1> DEFINE Step == \A c \in Conns : control = c /\ control' = None =>
                       c \in lost \/ phase = "joining" \/ faults' # faults
<1>1. TypeOK /\ [Next]_vars => Step
  <2> SUFFICES ASSUME TypeOK, [Next]_vars, NEW c \in Conns, control = c, control' = None
               PROVE  c \in lost \/ phase = "joining" \/ faults' # faults
    OBVIOUS
  <2> USE ControlAssumption
  <2>1. control' # control
    OBVIOUS
  <2>2. ASSUME NEW d \in Conns, Adopt(d)
        PROVE  FALSE
    BY <2>1, <2>2 DEF Adopt, AdoptUnless, graceVars
  <2>3. ASSUME NEW d \in Conns,
               Serve(d) \/ ReadFails(d) \/ HandlerEnds(d) \/ WriteFails(d) \/ ClosedByClient(d)
        PROVE  FALSE
    BY <2>1, <2>3 DEF Serve, ReadFails, HandlerEnds, WriteFails, ClosedByClient, graceVars
  <2>4. ASSUME NEW d \in Conns, OnControlLost(d)
        PROVE  c \in lost
    BY <2>1, <2>4 DEF OnControlLost, LoseIf
  <2>5. ASSUME NEW t \in timers, GraceExpires(t) \/ GraceDecides(t)
        PROVE  FALSE
    BY <2>1, <2>5 DEF GraceExpires, GraceDecides, DecideHolding
  <2>6. ASSUME NEW told \in SUBSET handler, RestartStops(told)
        PROVE  FALSE
    BY <2>1, <2>6 DEF RestartStops
  <2>7. CASE JoinTimesOut \/ RestartPublishes \/ PoolChanges
    BY <2>1, <2>7 DEF JoinTimesOut, RestartPublishes, PoolChanges, graceVars
  <2>8. CASE ClientNext
    BY <2>1, <2>8, ClientReachesServer
  <2>9. ASSUME NEW d \in Conns, Cut(d)
        PROVE  FALSE
    BY <2>1, <2>9 DEF Cut, serverVars, graceVars
  <2>10. ASSUME NEW told \in SUBSET cHandler, ClientReloads(told)
         PROVE  FALSE
    BY <2>1, <2>10 DEF ClientReloads, serverVars, graceVars
  <2>11. ASSUME NEW told \in SUBSET handler, ServerReloads(told)
         PROVE  faults' # faults
    BY <2>11 DEF ServerReloads, TypeOK
  <2>12. CASE UNCHANGED vars
    BY <2>1, <2>12 DEF vars, serverVars, graceVars
  <2> QED
    BY <2>2, <2>3, <2>4, <2>5, <2>6, <2>7, <2>8, <2>9, <2>10, <2>11, <2>12
    DEF Next, ServerNext
<1>2. TypeOK /\ [Next]_vars => [Step]_vars
  BY <1>1
<1> QED BY <1>2, ControlTyped, PTL DEF Spec, LateLossIsHarmless
===============================================================================
