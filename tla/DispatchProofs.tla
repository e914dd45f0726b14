---------------------------- MODULE DispatchProofs ----------------------------
(***************************************************************************)
(* The way from an accepted connection to an active flow, for any number   *)
(* of connections, sessions, legs, permits and tries: the guard of a setup *)
(* never closes a connection that was handed off, and every slot, permit,  *)
(* reservation and count that an attempt takes is given back exactly once. *)
(***************************************************************************)
EXTENDS Dispatch, FiniteSetTheorems, TLAPS

-----------------------------------------------------------------------------
(* Shapes. *)

Places == {"none", "accepted", "queued", "active", "over"} \cup InSetup

WorkerShape ==
    /\ conn \in [Conns -> Places] /\ sock \subseteq Conns /\ uncounted \subseteq Conns
    /\ guard \in [Conns -> {"none", "armed", "fired", "claimed"}]
    /\ queue \in Seq(Conns) /\ dispatcher \in {"idle", "permit", "ended"}

LegShape ==
    /\ at \in [Conns -> Sessions \cup {NoSession}]
    /\ todo \in [Conns -> SUBSET Sessions] /\ tried \in [Conns -> SUBSET Sessions]
    /\ legs \in [Conns -> SUBSET Sessions] /\ promotion \in [Conns -> SUBSET Sessions]
    /\ pool \subseteq Sessions

\* What the counters are before it is known what they count.
CountShape ==
    /\ permits \in Int /\ setupsActive \in Int /\ streams \in Int
    /\ plainFlows \in Int /\ stripedFlows \in Int
    /\ pending \in [Sessions -> Int]

Shape == WorkerShape /\ LegShape /\ CountShape

-----------------------------------------------------------------------------
(* What a place on the way means. *)

\* A session is reserved exactly while a plain leg is being opened on it.
ReservedWhileOpening ==
    \A c \in Conns : at[c] # NoSession <=> conn[c] = "open" /\ c \notin striped

\* The guard is armed for the setup only, and an armed guard guards an open socket.
GuardMeans ==
    \A c \in Conns :
        /\ conn[c] \in {"none", "over"} => c \notin sock
        /\ conn[c] \in {"none", "accepted", "queued"} => guard[c] = "none"
        /\ conn[c] \in {"accepted", "queued"} => c \in sock
        /\ conn[c] \in InSetup => guard[c] = "fired" \/ (guard[c] = "armed" /\ c \in sock)
        /\ conn[c] = "active" => c \in sock /\ guard[c] = "claimed"

\* Streams are held from the first leg opened.
LegsMeanFor(c) ==
    legs[c] # {} => conn[c] \in {"header", "handoff", "active"} \/ (conn[c] = "open" /\ c \in striped)

LegsMean == \A c \in Conns : LegsMeanFor(c)

\* The queue holds the queued connections, each once.
QueueMeans ==
    /\ \A i \in 1..Len(queue) : conn[queue[i]] = "queued"
    /\ \A i, k \in 1..Len(queue) : queue[i] = queue[k] => i = k
    /\ \A c \in Conns : conn[c] = "queued" => \E i \in 1..Len(queue) : queue[i] = c

\* One acceptor, which counts a connection before it accepts the next.
OneAcceptor ==
    /\ \A c, d \in Conns : conn[c] = "accepted" /\ conn[d] = "accepted" => c = d
    /\ (\E c \in Conns : conn[c] = "accepted") => uncounted = {}
    /\ uncounted = {} \/ \E c \in Conns : uncounted = {c}

\* A promoter is started with its flow.  It has legs open only while it is at work,
\* or left its opener behind, and a try left while it is not done.
Stages == {"off", "watch", "open", "ask", "late", "ended"}
PromoterMeansFor(c) ==
    /\ conn[c] \notin {"active", "over"} => promoter[c] = "off"
    /\ promoter[c] = "off" => promotion[c] = {} /\ tries[c] = 0
    /\ promoter[c] \in {"watch", "ended"} => promotion[c] = {}
    /\ promoter[c] \in {"watch", "open", "ask"} => tries[c] < MaxTries

PromoterMeans ==
    /\ promoter \in [Conns -> Stages] /\ tries \in [Conns -> 0..MaxTries]
    /\ \A c \in Conns : PromoterMeansFor(c)

WayInv == ReservedWhileOpening /\ GuardMeans /\ LegsMean /\ QueueMeans /\ OneAcceptor /\ PromoterMeans

-----------------------------------------------------------------------------
(* Steps keep the shapes. *)

LEMMA SelectedAreSessions ==
    ASSUME NEW L \in SelectLegs(pool), pool \subseteq Sessions
    PROVE  L \in SUBSET Sessions
BY DEF SelectLegs, kSubset

\* A promoter moves only its own things, and the legs of a flow that is active.
LEMMA PromoterSteps ==
    ASSUME NEW c \in Conns, Promote(c)
    PROVE  /\ UNCHANGED <<conn, sock, guard, expired, queue, uncounted, dispatcher, permits, streams, plainFlows>>
           /\ UNCHANGED <<stripedFlows, setupsActive, at, todo, tried, pending, striped, pool, stopped>>
           /\ legs' = legs \/ (conn[c] = "active" /\ legs' = [legs EXCEPT ![c] = promotion[c]])
<1>1. CASE WatchEnds(c) \/ PromoteBegins(c) \/ PromoteAsks(c) \/ PromoteFails(c) \/ PromoteLeaves(c) \/ OpenerCloses(c)
  BY <1>1 DEF WatchEnds, PromoteBegins, PromoteAsks, PromoteFails, PromoteLeaves, OpenerCloses,
              workers, intake, counters, legVars
<1>2. CASE PromoteSwaps(c)
  BY <1>2 DEF PromoteSwaps, workers, intake, counters
<1> QED
  BY <1>1, <1>2 DEF Promote

LEMMA WorkerShapeStep ==
    ASSUME WorkerShape, [Next]_vars
    PROVE  WorkerShape'
<1> USE DEF Places, InSetup
<1>1. CASE UNCHANGED vars
  BY <1>1 DEF WorkerShape, vars, workers, intake
<1>2. ASSUME NEW c \in Conns, Accept(c) \/ Enqueue(c) \/ Expire(c) \/ GuardFires(c)
      PROVE  WorkerShape'
  BY <1>2 DEF WorkerShape, intake, Accept, Enqueue, Expire, GuardFires
<1>3. ASSUME NEW c \in Conns, GiveUp(c) \/ AcquireSlot(c) \/ Again(c)
      PROVE  WorkerShape'
  BY <1>3 DEF WorkerShape, intake, GiveUp, Drop, AcquireSlot, Again
<1>4. ASSUME NEW c \in Conns, \/ \E x \in Sessions : ReservePlain(c, x)
                              \/ ReserveStriped(c) \/ NoLeg(c)
      PROVE  WorkerShape'
  BY <1>4 DEF WorkerShape, intake, ReservePlain, ReserveStriped, NoLeg, Failed
<1>5. ASSUME NEW c \in Conns, OpenPlain(c)
      PROVE  WorkerShape'
  BY <1>5 DEF WorkerShape, intake, OpenPlain, Opened, Drop
<1>6. ASSUME NEW c \in Conns, OpenStriped(c)
      PROVE  WorkerShape'
  BY <1>6 DEF WorkerShape, intake, OpenStriped, StripedFails, Failed, Opened, Drop
<1>7. ASSUME NEW c \in Conns, SendHeader(c) \/ Handoff(c)
      PROVE  WorkerShape'
  BY <1>7 DEF WorkerShape, intake, SendHeader, Failed, Handoff, Drop
<1>8. ASSUME NEW c \in Conns, FlowEnds(c) \/ Promote(c)
      PROVE  WorkerShape'
  BY <1>8, PromoterSteps DEF WorkerShape, intake, FlowEnds
<1>9. CASE Count \/ TakePermit
  BY <1>9 DEF WorkerShape, workers, Count, TakePermit
<1>10. CASE TakeConn
  BY <1>10 DEF WorkerShape, TakeConn
<1>11. CASE DispatcherStops \/ DrainQueues
  <2>1. CloseQueued(queue) /\ UNCHANGED <<guard, uncounted>> /\ dispatcher' \in {dispatcher, "ended"}
    BY <1>11 DEF DispatcherStops, DrainQueues
  <2>2. conn' \in [Conns -> Places] /\ queue' = <<>>
    BY <2>1 DEF WorkerShape, CloseQueued
  <2>3. sock' \subseteq Conns
    BY <2>1 DEF WorkerShape, CloseQueued
  <2> QED
    BY <2>1, <2>2, <2>3 DEF WorkerShape
<1>12. CASE (\E x \in Sessions : SessionDies(x) \/ SessionJoins(x)) \/ Stop
  BY <1>12 DEF WorkerShape, workers, intake, SessionDies, SessionJoins, Stop
<1> QED
  BY <1>1, <1>2, <1>3, <1>4, <1>5, <1>6, <1>7, <1>8, <1>9, <1>10, <1>11, <1>12 DEF Next, Work


LEMMA LegShapeStep ==
    ASSUME LegShape, ReservedWhileOpening, [Next]_vars
    PROVE  LegShape'
<1> USE DEF LegShape
<1>1. CASE UNCHANGED vars
  BY <1>1 DEF vars, legVars, promoVars
<1>2. ASSUME NEW c \in Conns, Accept(c) \/ Enqueue(c) \/ Expire(c) \/ GuardFires(c)
      PROVE  LegShape'
  BY <1>2 DEF legVars, promoVars, Accept, Enqueue, Expire, GuardFires
<1>3. ASSUME NEW c \in Conns, GiveUp(c) \/ AcquireSlot(c) \/ Again(c)
      PROVE  LegShape'
  BY <1>3 DEF legVars, promoVars, GiveUp, AcquireSlot, Again
<1>4. ASSUME NEW c \in Conns, \/ \E x \in Sessions : ReservePlain(c, x)
                              \/ ReserveStriped(c) \/ NoLeg(c)
      PROVE  LegShape'
  BY <1>4, SelectedAreSessions DEF promoVars, ReservePlain, ReserveStriped, NoLeg, Failed
<1>5. ASSUME NEW c \in Conns, OpenPlain(c)
      PROVE  LegShape'
  <2>1. at[c] \in Sessions
    BY <1>5 DEF OpenPlain, ReservedWhileOpening
  <2> QED
    BY <1>5, <2>1 DEF promoVars, OpenPlain, Opened
<1>6. ASSUME NEW c \in Conns, OpenStriped(c)
      PROVE  LegShape'
  BY <1>6 DEF promoVars, OpenStriped, StripedFails, Failed, Opened
<1>7. ASSUME NEW c \in Conns, SendHeader(c) \/ Handoff(c)
      PROVE  LegShape'
  BY <1>7 DEF promoVars, SendHeader, Failed, Handoff
<1>8. ASSUME NEW c \in Conns, FlowEnds(c) \/ Promote(c)
      PROVE  LegShape'
  <2>1. CASE FlowEnds(c)
    BY <2>1 DEF promoVars, FlowEnds
  <2>2. CASE Promote(c)
    <3>1. promotion' \in [Conns -> SUBSET Sessions]
      <4>1. promotion' = promotion \/ (\E L \in SUBSET Sessions : promotion' = [promotion EXCEPT ![c] = L])
        BY <2>2, SelectedAreSessions DEF Promote, WatchEnds, PromoteBegins, PromoteAsks, PromoteFails, PromoteLeaves,
                                         OpenerCloses, PromoteSwaps
      <4> QED
        BY <4>1
    <3>2. legs' \in [Conns -> SUBSET Sessions]
      BY <2>2, PromoterSteps
    <3> QED
      BY <2>2, <3>1, <3>2, PromoterSteps
  <2> QED
    BY <1>8, <2>1, <2>2
<1>9. CASE Count \/ TakePermit \/ TakeConn \/ DispatcherStops \/ DrainQueues
  BY <1>9 DEF promoVars, legVars, Count, TakePermit, TakeConn, DispatcherStops, DrainQueues
<1>10. CASE (\E x \in Sessions : SessionDies(x) \/ SessionJoins(x)) \/ Stop
  BY <1>10 DEF promoVars, legVars, SessionDies, SessionJoins, Stop
<1> QED
  BY <1>1, <1>2, <1>3, <1>4, <1>5, <1>6, <1>7, <1>8, <1>9, <1>10 DEF Next, Work

LEMMA CountShapeStep ==
    ASSUME CountShape, LegShape, WorkerShape, ReservedWhileOpening, [Next]_vars
    PROVE  CountShape'
<1> USE DEF CountShape
<1>1. CASE UNCHANGED vars
  BY <1>1 DEF vars, legVars, counters
<1>2. ASSUME NEW c \in Conns, Accept(c) \/ Enqueue(c) \/ Expire(c) \/ GuardFires(c)
      PROVE  CountShape'
  BY <1>2 DEF legVars, counters, Accept, Enqueue, Expire, GuardFires
<1>3. ASSUME NEW c \in Conns, GiveUp(c) \/ AcquireSlot(c) \/ Again(c)
      PROVE  CountShape'
  BY <1>3 DEF legVars, counters, GiveUp, Drop, AcquireSlot, Slots, Again
<1>4. ASSUME NEW c \in Conns, \/ \E x \in Sessions : ReservePlain(c, x)
                              \/ ReserveStriped(c) \/ NoLeg(c)
      PROVE  CountShape'
  BY <1>4 DEF counters, ReservePlain, ReserveStriped, NoLeg, Failed, Slots
<1>5. ASSUME NEW c \in Conns, OpenPlain(c)
      PROVE  CountShape'
  <2>1. at[c] \in Sessions
    BY <1>5 DEF OpenPlain, ReservedWhileOpening, LegShape
  <2>2. pending' \in [Sessions -> Int]
    BY <1>5, <2>1 DEF OpenPlain
  <2> QED
    BY <1>5, <2>2 DEF counters, OpenPlain, Opened, Drop, Slots
<1>6. ASSUME NEW c \in Conns, OpenStriped(c)
      PROVE  CountShape'
  BY <1>6 DEF counters, OpenStriped, StripedFails, Failed, Opened, Drop, Slots
<1>7. ASSUME NEW c \in Conns, SendHeader(c) \/ Handoff(c)
      PROVE  CountShape'
  BY <1>7 DEF counters, SendHeader, Failed, Handoff, Drop, Slots
<1>8. ASSUME NEW c \in Conns, FlowEnds(c) \/ Promote(c)
      PROVE  CountShape'
  BY <1>8, PromoterSteps DEF FlowEnds, Slots
<1>9. CASE Count \/ TakePermit \/ TakeConn \/ DispatcherStops \/ DrainQueues
  BY <1>9 DEF WorkerShape, legVars, Count, TakePermit, TakeConn, DispatcherStops, DrainQueues
<1>10. CASE (\E x \in Sessions : SessionDies(x) \/ SessionJoins(x)) \/ Stop
  BY <1>10 DEF counters, legVars, SessionDies, SessionJoins, Stop
<1> QED
  BY <1>1, <1>2, <1>3, <1>4, <1>5, <1>6, <1>7, <1>8, <1>9, <1>10 DEF Next, Work


-----------------------------------------------------------------------------
(* Steps keep what the places mean. *)

LEMMA ReservedStep ==
    ASSUME WorkerShape, LegShape, ReservedWhileOpening, QueueMeans, [Next]_vars
    PROVE  ReservedWhileOpening'
<1> USE DispatchAssumption DEF ReservedWhileOpening, WorkerShape, LegShape, Places, InSetup
<1>1. CASE UNCHANGED vars
  BY <1>1 DEF vars, workers, legVars, promoVars
<1>2. ASSUME NEW c \in Conns, Accept(c) \/ Enqueue(c) \/ Expire(c) \/ GuardFires(c)
      PROVE  ReservedWhileOpening'
  BY <1>2 DEF legVars, promoVars, Accept, Enqueue, Expire, GuardFires
<1>3. ASSUME NEW c \in Conns, GiveUp(c) \/ AcquireSlot(c) \/ Again(c)
      PROVE  ReservedWhileOpening'
  BY <1>3 DEF legVars, promoVars, GiveUp, Drop, AcquireSlot, Again
<1>4. ASSUME NEW c \in Conns, \/ \E x \in Sessions : ReservePlain(c, x)
                              \/ ReserveStriped(c) \/ NoLeg(c)
      PROVE  ReservedWhileOpening'
  BY <1>4 DEF promoVars, ReservePlain, ReserveStriped, NoLeg, Failed
<1>5. ASSUME NEW c \in Conns, OpenPlain(c)
      PROVE  ReservedWhileOpening'
  BY <1>5 DEF promoVars, OpenPlain, Opened, Drop
<1>6. ASSUME NEW c \in Conns, OpenStriped(c)
      PROVE  ReservedWhileOpening'
  BY <1>6 DEF promoVars, OpenStriped, StripedFails, Failed, Opened, Drop
<1>7. ASSUME NEW c \in Conns, SendHeader(c) \/ Handoff(c)
      PROVE  ReservedWhileOpening'
  BY <1>7 DEF promoVars, SendHeader, Failed, Handoff, Drop
<1>8. ASSUME NEW c \in Conns, FlowEnds(c) \/ Promote(c)
      PROVE  ReservedWhileOpening'
  BY <1>8, PromoterSteps DEF promoVars, FlowEnds
<1>9. CASE Count \/ TakePermit
  BY <1>9 DEF workers, promoVars, legVars, Count, TakePermit
<1>10. CASE TakeConn
  <2>1. queue[1] \in Conns /\ conn[queue[1]] = "queued" /\ Head(queue) = queue[1]
    BY <1>10 DEF TakeConn, QueueMeans
  <2> QED
    BY <1>10, <2>1 DEF TakeConn, promoVars, legVars
<1>11. CASE DispatcherStops \/ DrainQueues
  BY <1>11 DEF promoVars, legVars, DispatcherStops, DrainQueues, CloseQueued, QueueMeans
<1>12. CASE (\E x \in Sessions : SessionDies(x) \/ SessionJoins(x)) \/ Stop
  BY <1>12 DEF workers, promoVars, legVars, SessionDies, SessionJoins, Stop
<1> QED
  BY <1>1, <1>2, <1>3, <1>4, <1>5, <1>6, <1>7, <1>8, <1>9, <1>10, <1>11, <1>12 DEF Next, Work

LEMMA GuardMeansStep ==
    ASSUME WorkerShape, GuardMeans, QueueMeans, [Next]_vars
    PROVE  GuardMeans'
<1> USE DEF GuardMeans, WorkerShape, Places, InSetup
<1>1. CASE UNCHANGED vars
  BY <1>1 DEF vars, workers
<1>2. ASSUME NEW c \in Conns, Accept(c) \/ Enqueue(c) \/ Expire(c) \/ GuardFires(c)
      PROVE  GuardMeans'
  <2>1. CASE Accept(c)
    BY <2>1 DEF Accept
  <2>2. CASE Enqueue(c)
    BY <2>2 DEF Enqueue
  <2>3. CASE Expire(c) \/ GuardFires(c)
    BY <2>3 DEF Expire, GuardFires
  <2> QED
    BY <1>2, <2>1, <2>2, <2>3
<1>3. ASSUME NEW c \in Conns, GiveUp(c) \/ AcquireSlot(c) \/ Again(c)
      PROVE  GuardMeans'
  BY <1>3 DEF GiveUp, Drop, AcquireSlot, Again
<1>4. ASSUME NEW c \in Conns, \/ \E x \in Sessions : ReservePlain(c, x)
                              \/ ReserveStriped(c) \/ NoLeg(c)
      PROVE  GuardMeans'
  BY <1>4 DEF ReservePlain, ReserveStriped, NoLeg, Failed
<1>5. ASSUME NEW c \in Conns, OpenPlain(c)
      PROVE  GuardMeans'
  BY <1>5 DEF OpenPlain, Opened, Drop
<1>6. ASSUME NEW c \in Conns, OpenStriped(c)
      PROVE  GuardMeans'
  BY <1>6 DEF OpenStriped, StripedFails, Failed, Opened, Drop
<1>7. ASSUME NEW c \in Conns, SendHeader(c) \/ Handoff(c)
      PROVE  GuardMeans'
  BY <1>7 DEF SendHeader, Failed, Handoff, Settled, Drop
<1>8. ASSUME NEW c \in Conns, FlowEnds(c) \/ Promote(c)
      PROVE  GuardMeans'
  BY <1>8, PromoterSteps DEF FlowEnds
<1>9. CASE Count \/ TakePermit
  BY <1>9 DEF workers, Count, TakePermit
<1>10. CASE TakeConn
  <2>1. queue[1] \in Conns /\ conn[queue[1]] = "queued" /\ Head(queue) = queue[1]
    BY <1>10 DEF TakeConn, QueueMeans
  <2> QED
    BY <1>10, <2>1 DEF TakeConn
<1>11. CASE DispatcherStops \/ DrainQueues
  BY <1>11 DEF DispatcherStops, DrainQueues, CloseQueued, QueueMeans
<1>12. CASE (\E x \in Sessions : SessionDies(x) \/ SessionJoins(x)) \/ Stop
  BY <1>12 DEF workers, SessionDies, SessionJoins, Stop
<1> QED
  BY <1>1, <1>2, <1>3, <1>4, <1>5, <1>6, <1>7, <1>8, <1>9, <1>10, <1>11, <1>12 DEF Next, Work

LEMMA LegsMeanStep ==
    ASSUME WorkerShape, LegShape, LegsMean, QueueMeans, [Next]_vars
    PROVE  LegsMean'
<1> USE DEF LegsMean, LegsMeanFor, WorkerShape, LegShape, Places, InSetup
<1>1. CASE UNCHANGED vars
  BY <1>1 DEF vars, workers, legVars, promoVars
<1>2. ASSUME NEW c \in Conns, Accept(c) \/ Enqueue(c) \/ Expire(c) \/ GuardFires(c)
      PROVE  LegsMean'
  BY <1>2 DEF legVars, promoVars, Accept, Enqueue, Expire, GuardFires
<1>3. ASSUME NEW c \in Conns, GiveUp(c) \/ AcquireSlot(c) \/ Again(c)
      PROVE  LegsMean'
  BY <1>3 DEF legVars, promoVars, GiveUp, Drop, AcquireSlot, Again
<1>4. ASSUME NEW c \in Conns, \/ \E x \in Sessions : ReservePlain(c, x)
                              \/ ReserveStriped(c) \/ NoLeg(c)
      PROVE  LegsMean'
  BY <1>4 DEF promoVars, ReservePlain, ReserveStriped, NoLeg, Failed
<1>5. ASSUME NEW c \in Conns, OpenPlain(c)
      PROVE  LegsMean'
  BY <1>5 DEF promoVars, OpenPlain, Opened, Drop
<1>6. ASSUME NEW c \in Conns, OpenStriped(c)
      PROVE  LegsMean'
  BY <1>6 DEF promoVars, OpenStriped, StripedFails, Failed, Opened, Drop
<1>7. ASSUME NEW c \in Conns, SendHeader(c) \/ Handoff(c)
      PROVE  LegsMean'
  BY <1>7 DEF promoVars, SendHeader, Failed, Handoff, Drop
<1>8. ASSUME NEW c \in Conns, FlowEnds(c) \/ Promote(c)
      PROVE  LegsMean'
  <2>1. CASE FlowEnds(c)
    BY <2>1 DEF promoVars, FlowEnds
  <2>2. CASE Promote(c)
    BY <2>2, PromoterSteps
  <2> QED
    BY <1>8, <2>1, <2>2
<1>9. CASE Count \/ TakePermit
  BY <1>9 DEF workers, promoVars, legVars, Count, TakePermit
<1>10. CASE TakeConn
  <2>1. queue[1] \in Conns /\ conn[queue[1]] = "queued" /\ Head(queue) = queue[1]
    BY <1>10 DEF TakeConn, QueueMeans
  <2> QED
    BY <1>10, <2>1 DEF TakeConn, promoVars, legVars
<1>11. CASE DispatcherStops \/ DrainQueues
  BY <1>11 DEF promoVars, legVars, DispatcherStops, DrainQueues, CloseQueued, QueueMeans
<1>12. CASE (\E x \in Sessions : SessionDies(x) \/ SessionJoins(x)) \/ Stop
  BY <1>12 DEF workers, promoVars, legVars, SessionDies, SessionJoins, Stop
<1> QED
  BY <1>1, <1>2, <1>3, <1>4, <1>5, <1>6, <1>7, <1>8, <1>9, <1>10, <1>11, <1>12 DEF Next, Work


\* A flow stays a flow until it is over, and stays over.
LEMMA FlowsStay ==
    ASSUME WorkerShape, QueueMeans, [Next]_vars, NEW d \in Conns, conn[d] \in {"active", "over"}
    PROVE  conn'[d] \in {"active", "over"}
<1> USE DEF WorkerShape, InSetup
<1>1. CASE UNCHANGED vars
  BY <1>1 DEF vars, workers
<1>2. ASSUME NEW c \in Conns, Accept(c) \/ Enqueue(c) \/ Expire(c) \/ GuardFires(c) \/ GiveUp(c) \/ AcquireSlot(c) \/ Again(c)
      PROVE  conn'[d] \in {"active", "over"}
  BY <1>2 DEF Accept, Enqueue, Expire, GuardFires, GiveUp, Drop, AcquireSlot, Again
<1>3. ASSUME NEW c \in Conns, \/ \E x \in Sessions : ReservePlain(c, x)
                              \/ ReserveStriped(c) \/ NoLeg(c) \/ OpenPlain(c) \/ OpenStriped(c)
      PROVE  conn'[d] \in {"active", "over"}
  BY <1>3 DEF ReservePlain, ReserveStriped, NoLeg, OpenPlain, OpenStriped, StripedFails, Failed, Opened, Drop
<1>4. ASSUME NEW c \in Conns, SendHeader(c) \/ Handoff(c) \/ FlowEnds(c) \/ Promote(c)
      PROVE  conn'[d] \in {"active", "over"}
  BY <1>4, PromoterSteps DEF SendHeader, Failed, Handoff, Drop, FlowEnds
<1>5. CASE TakeConn
  <2>1. conn[Head(queue)] = "queued"
    BY <1>5 DEF TakeConn, QueueMeans
  <2> QED
    BY <1>5, <2>1 DEF TakeConn
<1>6. CASE Count \/ TakePermit \/ DispatcherStops \/ DrainQueues \/ Stop \/ \E x \in Sessions : SessionDies(x) \/ SessionJoins(x)
  BY <1>6 DEF workers, Count, TakePermit, DispatcherStops, DrainQueues, CloseQueued, SessionDies, SessionJoins, Stop
<1> QED
  BY <1>1, <1>2, <1>3, <1>4, <1>5, <1>6 DEF Next, Work

\* What the promoter of one connection does is no one else's.
LEMMA PromoterMeansStep ==
    ASSUME WorkerShape, LegShape, QueueMeans, PromoterMeans, [Next]_vars
    PROVE  PromoterMeans'
<1> USE DispatchAssumption DEF PromoterMeans
<1>1. \A d \in Conns : conn[d] \in {"active", "over"} => conn'[d] \in {"active", "over"}
  BY FlowsStay
<1>2. ASSUME UNCHANGED <<promoter, promotion, tries>>
      PROVE  PromoterMeans'
  BY <1>1, <1>2 DEF PromoterMeansFor
<1>3. ASSUME NEW c \in Conns, NEW p \in Stages, NEW L \in SUBSET Sessions, NEW n \in 0..MaxTries,
             promoter' = [promoter EXCEPT ![c] = p], promotion' = [promotion EXCEPT ![c] = L],
             tries' = [tries EXCEPT ![c] = n],
             conn'[c] \notin {"active", "over"} => p = "off", p = "off" => L = {} /\ n = 0,
             p \in {"watch", "ended"} => L = {}, p \in {"watch", "open", "ask"} => n < MaxTries
      PROVE  PromoterMeans'
  <2>1. promoter' \in [Conns -> Stages] /\ tries' \in [Conns -> 0..MaxTries]
    BY <1>3
  <2>2. PromoterMeansFor(c)'
    BY <1>3 DEF PromoterMeansFor, LegShape
  <2>3. ASSUME NEW d \in Conns, d # c PROVE PromoterMeansFor(d)'
    <3>1. promoter'[d] = promoter[d] /\ promotion'[d] = promotion[d] /\ tries'[d] = tries[d]
      BY <1>3, <2>3 DEF LegShape
    <3> QED
      BY <1>1, <3>1 DEF PromoterMeansFor
  <2> QED
    BY <2>1, <2>2, <2>3
<1>4. ASSUME NEW c \in Conns, Handoff(c)
      PROVE  PromoterMeans'
  <2>1. promoter[c] = "off" /\ promotion[c] = {} /\ tries[c] = 0 /\ UNCHANGED <<promotion, tries>>
    BY <1>4 DEF Handoff, PromoterMeansFor
  <2>2. conn'[c] \in {"active", "over"} /\ (promoter' = promoter \/ promoter' = [promoter EXCEPT ![c] = "watch"])
    BY <1>4, <2>1 DEF Handoff, Drop, Watched, WorkerShape
  <2>3. CASE promoter' = promoter
    BY <1>2, <2>1, <2>3
  <2>4. CASE promoter' = [promoter EXCEPT ![c] = "watch"]
    <3>1. promotion' = [promotion EXCEPT ![c] = {}] /\ tries' = [tries EXCEPT ![c] = 0]
      BY <2>1 DEF LegShape
    <3>2. "watch" \in Stages /\ {} \in SUBSET Sessions /\ 0 \in 0..MaxTries /\ 0 < MaxTries
      BY DEF Stages
    <3> HIDE DEF PromoterMeans
    <3> QED
      BY <1>3, <2>2, <2>4, <3>1, <3>2
  <2> QED
    BY <2>2, <2>3, <2>4
<1>5. ASSUME NEW c \in Conns, Promote(c)
      PROVE  PromoterMeans'
  <2> DEFINE Goes(p, L, n) == /\ promoter' = [promoter EXCEPT ![c] = p] /\ promotion' = [promotion EXCEPT ![c] = L]
                              /\ tries' = [tries EXCEPT ![c] = n]
  <2>0. conn' = conn /\ promotion[c] \in SUBSET Sessions /\ tries[c] \in 0..MaxTries /\ PromoterMeansFor(c)
        /\ promotion = [promotion EXCEPT ![c] = promotion[c]] /\ tries = [tries EXCEPT ![c] = tries[c]]
    BY <1>5, PromoterSteps DEF LegShape
  <2>1. promoter[c] # "off"
    BY <1>5 DEF Promote, WatchEnds, PromoteBegins, PromoteAsks, PromoteFails, PromoteLeaves, OpenerCloses, PromoteSwaps, Promotes
  <2>2. conn'[c] \in {"active", "over"}
    BY <2>0, <2>1 DEF PromoterMeansFor
  <2>3. ASSUME NEW p \in Stages \ {"off"}, NEW L \in SUBSET Sessions, NEW n \in 0..MaxTries, Goes(p, L, n),
               p \in {"watch", "ended"} => L = {}, p \in {"watch", "open", "ask"} => n < MaxTries
        PROVE  PromoterMeans'
    BY <1>3, <2>2, <2>3
  <2>4. CASE WatchEnds(c)
    <3>1. Goes("ended", {}, tries[c])
      BY <2>0, <2>4 DEF WatchEnds, Promotes, PromoterMeansFor
    <3> QED
      BY <2>0, <2>3, <3>1 DEF Stages
  <2>5. CASE PromoteBegins(c)
    <3>1. tries[c] < MaxTries /\ \E L \in SUBSET Sessions : Goes("open", L, tries[c])
      BY <2>0, <2>5, SelectedAreSessions DEF PromoteBegins, Promotes, PromoterMeansFor, LegShape
    <3> QED
      BY <2>0, <2>3, <3>1 DEF Stages
  <2>6. CASE PromoteAsks(c) \/ PromoteLeaves(c)
    <3>1. tries[c] < MaxTries /\ \E p \in {"ask", "late"} : Goes(p, promotion[c], tries[c])
      BY <2>0, <2>6 DEF PromoteAsks, PromoteLeaves, Promotes, PromoterMeansFor
    <3> QED
      BY <2>0, <2>3, <3>1 DEF Stages
  <2>7. CASE PromoteFails(c)
    <3>1. tries[c] < MaxTries /\ Goes(IF tries[c] + 1 = MaxTries THEN "ended" ELSE "watch", {}, tries[c] + 1)
      BY <2>0, <2>7 DEF PromoteFails, PromoterMeansFor
    <3>2. tries[c] + 1 \in 0..MaxTries /\ (tries[c] + 1 # MaxTries => tries[c] + 1 < MaxTries)
      BY <2>0, <3>1
    <3>3. CASE tries[c] + 1 = MaxTries
      <4>1. Goes("ended", {}, tries[c] + 1)
        BY <3>1, <3>3
      <4> QED
        BY <2>3, <3>2, <4>1 DEF Stages
    <3>4. CASE tries[c] + 1 # MaxTries
      <4>1. Goes("watch", {}, tries[c] + 1)
        BY <3>1, <3>4
      <4> QED
        BY <2>3, <3>2, <3>4, <4>1 DEF Stages
    <3> QED
      BY <3>3, <3>4
  <2>8. CASE OpenerCloses(c) \/ PromoteSwaps(c)
    <3>1. Goes("ended", {}, tries[c])
      BY <2>0, <2>8 DEF OpenerCloses, PromoteSwaps, Promotes
    <3> QED
      BY <2>0, <2>3, <3>1 DEF Stages
  <2> QED
    BY <1>5, <2>4, <2>5, <2>6, <2>7, <2>8 DEF Promote
<1>6. ASSUME NEW c \in Conns, \/ Accept(c) \/ Enqueue(c) \/ Expire(c) \/ GuardFires(c) \/ GiveUp(c)
                              \/ AcquireSlot(c) \/ Again(c) \/ ReserveStriped(c) \/ NoLeg(c)
                              \/ OpenPlain(c) \/ OpenStriped(c) \/ SendHeader(c) \/ FlowEnds(c)
                              \/ \E x \in Sessions : ReservePlain(c, x)
      PROVE  UNCHANGED <<promoter, promotion, tries>>
  BY <1>6 DEF Accept, Enqueue, Expire, GuardFires, GiveUp, AcquireSlot, Again, ReserveStriped, NoLeg, OpenPlain,
              OpenStriped, SendHeader, FlowEnds, ReservePlain, promoVars
<1>7. ASSUME \/ Count \/ TakePermit \/ TakeConn \/ DispatcherStops \/ DrainQueues \/ Stop
             \/ \E x \in Sessions : SessionDies(x) \/ SessionJoins(x)
             \/ UNCHANGED vars
      PROVE  UNCHANGED <<promoter, promotion, tries>>
  BY <1>7 DEF Count, TakePermit, TakeConn, DispatcherStops, DrainQueues, SessionDies, SessionJoins, Stop, vars, promoVars
<1> QED
  BY <1>2, <1>4, <1>5, <1>6, <1>7 DEF Next, Work

-----------------------------------------------------------------------------
(* Counting the connections at a place. *)

Bit(p) == IF p THEN 1 ELSE 0

\* How many of the connections of T are at a place of S.
Tally(f, S, T) == Cardinality({d \in T : f[d] \in S})

LEMMA TallyType ==
    ASSUME NEW f, NEW S, NEW T \in SUBSET Conns
    PROVE  IsFiniteSet({d \in T : f[d] \in S}) /\ Tally(f, S, T) \in Nat
<1>1. {d \in T : f[d] \in S} \in SUBSET Conns
  OBVIOUS
<1>2. IsFiniteSet({d \in T : f[d] \in S})
  BY <1>1, FS_Subset, DispatchAssumption
<1> QED
  BY <1>2, FS_CardinalityType DEF Tally

\* What one connection adds to a tally.
Share(f, c, S, T) == IF c \in T /\ f[c] \in S THEN 1 ELSE 0

\* A connection that moves changes a tally by its coming and its going.
LEMMA TallyMoves ==
    ASSUME NEW f, NEW g, NEW c \in Conns, \A d \in Conns \ {c} : g[d] = f[d],
           NEW S, NEW T \in SUBSET Conns
    PROVE  Tally(g, S, T)
             = Tally(f, S, T) + Share(g, c, S, T) - Share(f, c, S, T)
<1> DEFINE F == {d \in T : f[d] \in S}
           G == {d \in T : g[d] \in S}
<1>1. IsFiniteSet(F) /\ Cardinality(F) \in Nat
  BY TallyType DEF Tally
<1>3. CASE c \notin T
  <2>1. G = F
    BY <1>3
  <2>2. Share(g, c, S, T) = 0 /\ Share(f, c, S, T) = 0
    BY <1>3 DEF Share
  <2>3. Tally(g, S, T) = Tally(f, S, T)
    BY <2>1 DEF Tally
  <2> QED
    BY <1>1, <2>2, <2>3, TallyType
<1>4. CASE c \in T /\ g[c] \in S
  <2>1. G = F \cup {c}
    BY <1>4
  <2>2. Cardinality(G) = IF c \in F THEN Cardinality(F) ELSE Cardinality(F) + 1
    BY <1>1, <2>1, FS_AddElement
  <2>3. c \in F <=> f[c] \in S
    BY <1>4
  <2>4. Share(g, c, S, T) = 1 /\ Share(f, c, S, T) = IF c \in F THEN 1 ELSE 0
    BY <1>4, <2>3 DEF Share
  <2> QED
    BY <1>1, <2>2, <2>4 DEF Tally
<1>5. CASE c \in T /\ g[c] \notin S
  <2>1. G = F \ {c}
    BY <1>5
  <2>2. Cardinality(G) = IF c \in F THEN Cardinality(F) - 1 ELSE Cardinality(F)
    BY <1>1, <2>1, FS_RemoveElement
  <2>3. c \in F <=> f[c] \in S
    BY <1>5
  <2>4. Share(g, c, S, T) = 0 /\ Share(f, c, S, T) = IF c \in F THEN 1 ELSE 0
    BY <1>5, <2>3 DEF Share
  <2> QED
    BY <1>1, <2>2, <2>4 DEF Tally
<1> QED
  BY <1>3, <1>4, <1>5


-----------------------------------------------------------------------------
(* Steps of one worker. *)

Counted == {"queued", "active"} \cup InSetup

\* The counters follow a connection that is in setup or active and goes to v.
WorkStep(c, v) ==
    /\ conn[c] \in InSetup \cup {"active"} /\ v \in InSetup \cup {"active", "over"}
    /\ v \in InSetup => conn[c] \in InSetup
    /\ conn' = [conn EXCEPT ![c] = v]
    /\ UNCHANGED <<queue, uncounted, dispatcher, striped>>
    /\ plainFlows' = plainFlows + Bit(c \notin striped /\ v \in HoldsSlot)
                                - Bit(c \notin striped /\ conn[c] \in HoldsSlot)
    /\ stripedFlows' = stripedFlows + Bit(c \in striped /\ v \in HoldsSlot)
                                    - Bit(c \in striped /\ conn[c] \in HoldsSlot)
    /\ setupsActive' = setupsActive + Bit(v \in InSetup) - Bit(conn[c] \in InSetup)
    /\ permits' = permits + Bit(v \in InSetup) - Bit(conn[c] \in InSetup)
    /\ streams' = streams - Bit(v = "over")

\* Nobody moves and nothing is counted.
IdleStep == UNCHANGED <<conn, queue, uncounted, dispatcher, striped, counters>>

LEMMA WorkIsWorkStep ==
    ASSUME WorkerShape, CountShape, NEW c \in Conns, Work(c) \/ FlowEnds(c)
    PROVE  \E v \in Places : WorkStep(c, v)
<1> USE DEF WorkerShape, CountShape, Bit, InSetup, HoldsSlot, Places, WorkStep, intake, promoVars
<1>1. CASE GiveUp(c)
  BY <1>1 DEF GiveUp, Drop
<1>2. CASE AcquireSlot(c)
  BY <1>2 DEF AcquireSlot, Slots
<1>3. CASE Again(c)
  BY <1>3 DEF Again, counters
<1>4. CASE \E x \in Sessions : ReservePlain(c, x)
  BY <1>4 DEF ReservePlain, counters
<1>5. CASE ReserveStriped(c)
  BY <1>5 DEF ReserveStriped, counters
<1>6. CASE NoLeg(c)
  BY <1>6 DEF NoLeg, Failed, Slots
<1>7. CASE OpenPlain(c)
  BY <1>7 DEF OpenPlain, Opened, Drop, Slots, counters
<1>8. CASE OpenStriped(c)
  BY <1>8 DEF OpenStriped, StripedFails, Failed, Opened, Drop, Slots, counters
<1>9. CASE SendHeader(c)
  BY <1>9 DEF SendHeader, Failed, Slots, counters
<1>10. CASE Handoff(c)
  BY <1>10 DEF Handoff, Drop, Slots
<1>11. CASE FlowEnds(c)
  BY <1>11 DEF FlowEnds, Slots
<1> QED
  BY <1>1, <1>2, <1>3, <1>4, <1>5, <1>6, <1>7, <1>8, <1>9, <1>10, <1>11 DEF Work

\* Every step is one of these.
LEMMA KindsOfStep ==
    ASSUME WorkerShape, CountShape, [Next]_vars
    PROVE  \/ IdleStep
           \/ \E c \in Conns : Accept(c) \/ Enqueue(c) \/ \E v \in Places : WorkStep(c, v)
           \/ Count \/ TakePermit \/ TakeConn \/ DispatcherStops \/ DrainQueues
<1>1. CASE UNCHANGED vars
  BY <1>1 DEF IdleStep, vars, workers, intake, promoVars
<1>2. ASSUME NEW c \in Conns, Expire(c) \/ GuardFires(c)
      PROVE  IdleStep
  BY <1>2 DEF IdleStep, Expire, GuardFires, intake, promoVars
<1>3. ASSUME NEW c \in Conns, Promote(c)
      PROVE  IdleStep
  BY <1>3, PromoterSteps DEF IdleStep, counters
<1>4. ASSUME (\E x \in Sessions : SessionDies(x) \/ SessionJoins(x)) \/ Stop
      PROVE  IdleStep
  BY <1>4 DEF IdleStep, SessionDies, SessionJoins, Stop, workers, intake, promoVars
<1> QED
  BY <1>1, <1>2, <1>3, <1>4, WorkIsWorkStep DEF Next


-----------------------------------------------------------------------------
(* The queue and the acceptor. *)

LEMMA QueueMeansStep ==
    ASSUME WorkerShape, CountShape, QueueMeans, [Next]_vars
    PROVE  QueueMeans'
<1>1. ASSUME queue' = queue, \A c \in Conns : conn'[c] = "queued" <=> conn[c] = "queued"
      PROVE  QueueMeans'
  BY <1>1 DEF QueueMeans, WorkerShape
<1>2. CASE IdleStep
  BY <1>1, <1>2 DEF IdleStep
<1>3. ASSUME NEW c \in Conns, NEW v \in Places, WorkStep(c, v)
      PROVE  QueueMeans'
  BY <1>1, <1>3 DEF WorkStep, WorkerShape, InSetup
<1>4. ASSUME NEW c \in Conns, Accept(c)
      PROVE  QueueMeans'
  BY <1>1, <1>4 DEF Accept, intake, WorkerShape
<1>5. ASSUME NEW c \in Conns, Enqueue(c)
      PROVE  QueueMeans'
  <2>1. CASE Len(queue) < QueueSize
    <3>1. conn' = [conn EXCEPT ![c] = "queued"] /\ queue' = Append(queue, c) /\ conn[c] = "accepted"
      BY <1>5, <2>1 DEF Enqueue
    <3>2. Len(queue') = Len(queue) + 1 /\ queue'[Len(queue) + 1] = c
          /\ \A i \in 1..Len(queue) : queue'[i] = queue[i] /\ queue[i] # c
      BY <3>1 DEF WorkerShape, QueueMeans
    <3>3. \A d \in Conns \ {c} : conn'[d] = conn[d]
      BY <3>1 DEF WorkerShape
    <3>4. conn'[c] = "queued"
      BY <3>1 DEF WorkerShape
    <3>5. \A i \in 1..Len(queue') : conn'[queue'[i]] = "queued"
      BY <3>2, <3>3, <3>4 DEF WorkerShape, QueueMeans
    <3>6. \A i, k \in 1..Len(queue') : queue'[i] = queue'[k] => i = k
      BY <3>2 DEF WorkerShape, QueueMeans
    <3>7. \A d \in Conns : conn'[d] = "queued" => \E i \in 1..Len(queue') : queue'[i] = d
      BY <3>2, <3>3 DEF WorkerShape, QueueMeans
    <3> QED
      BY <3>5, <3>6, <3>7 DEF QueueMeans
  <2>2. CASE ~(Len(queue) < QueueSize)
    BY <1>1, <1>5, <2>2 DEF Enqueue, WorkerShape
  <2> QED
    BY <2>1, <2>2
<1>6. CASE Count \/ TakePermit
  BY <1>1, <1>6 DEF Count, TakePermit, workers
<1>7. CASE TakeConn
  <2> DEFINE c == queue[1]
  <2>1. /\ c \in Conns /\ Head(queue) = c /\ queue' = Tail(queue)
        /\ Len(queue') = Len(queue) - 1 /\ Len(queue) \in Nat \ {0}
        /\ \A i \in 1..Len(queue') : queue'[i] = queue[i + 1]
    BY <1>7 DEF TakeConn, WorkerShape
  <2>2. conn' = [conn EXCEPT ![c] = "over"] \/ conn' = [conn EXCEPT ![c] = "begin"]
    BY <1>7, <2>1 DEF TakeConn
  <2>3. conn'[c] # "queued" /\ \A d \in Conns \ {c} : conn'[d] = conn[d]
    BY <2>1, <2>2 DEF WorkerShape
  <2>4. \A i \in 1..Len(queue') : queue'[i] \in Conns \ {c} /\ conn[queue'[i]] = "queued"
    BY <2>1 DEF QueueMeans, WorkerShape
  <2>5. \A i \in 1..Len(queue') : conn'[queue'[i]] = "queued"
    BY <2>3, <2>4
  <2>6. \A i, k \in 1..Len(queue') : queue'[i] = queue'[k] => i = k
    BY <2>1 DEF QueueMeans
  <2>7. ASSUME NEW d \in Conns, conn'[d] = "queued"
        PROVE  \E i \in 1..Len(queue') : queue'[i] = d
    <3>1. PICK i \in 1..Len(queue) : queue[i] = d
      BY <2>3, <2>7 DEF QueueMeans
    <3>2. i # 1
      BY <3>1, <2>3, <2>7
    <3>3. i - 1 \in 1..Len(queue') /\ queue'[i - 1] = d
      BY <3>1, <3>2, <2>1
    <3> QED
      BY <3>3
  <2> QED
    BY <2>5, <2>6, <2>7 DEF QueueMeans
<1>8. CASE DispatcherStops \/ DrainQueues
  <2>1. queue' = <<>> /\ \A c \in Conns : conn'[c] # "queued"
    BY <1>8 DEF DispatcherStops, DrainQueues, CloseQueued, QueueMeans
  <2> QED
    BY <2>1 DEF QueueMeans
<1> QED
  BY <1>2, <1>3, <1>4, <1>5, <1>6, <1>7, <1>8, KindsOfStep

LEMMA OneAcceptorStep ==
    ASSUME WorkerShape, CountShape, QueueMeans, OneAcceptor, [Next]_vars
    PROVE  OneAcceptor'
<1>1. ASSUME uncounted' \in {uncounted, {}},
             \A c \in Conns : conn'[c] = "accepted" <=> conn[c] = "accepted"
      PROVE  OneAcceptor'
  BY <1>1 DEF OneAcceptor
<1>2. CASE IdleStep
  BY <1>1, <1>2 DEF IdleStep
<1>3. ASSUME NEW c \in Conns, NEW v \in Places, WorkStep(c, v)
      PROVE  OneAcceptor'
  BY <1>1, <1>3 DEF WorkStep, WorkerShape, InSetup
<1>4. ASSUME NEW c \in Conns, Accept(c)
      PROVE  OneAcceptor'
  BY <1>4 DEF Accept, intake, WorkerShape, OneAcceptor
<1>5. ASSUME NEW c \in Conns, Enqueue(c)
      PROVE  OneAcceptor'
  <2>1. \A d \in Conns : conn'[d] # "accepted"
    BY <1>5 DEF Enqueue, WorkerShape, OneAcceptor
  <2>2. uncounted' \in {uncounted, {c}}
    BY <1>5 DEF Enqueue
  <2> QED
    BY <2>1, <2>2 DEF OneAcceptor
<1>6. CASE Count \/ TakePermit
  BY <1>1, <1>6 DEF Count, TakePermit, workers
<1>7. CASE TakeConn
  <2>1. Head(queue) \in Conns /\ conn[Head(queue)] = "queued"
    <3>1. Head(queue) = queue[1] /\ 1 \in 1..Len(queue)
      BY <1>7 DEF TakeConn, WorkerShape
    <3> QED
      BY <3>1 DEF WorkerShape, QueueMeans
  <2> QED
    BY <1>1, <1>7, <2>1 DEF TakeConn, WorkerShape
<1>8. CASE DispatcherStops \/ DrainQueues
  BY <1>1, <1>8 DEF DispatcherStops, DrainQueues, CloseQueued, QueueMeans
<1> QED
  BY <1>2, <1>3, <1>4, <1>5, <1>6, <1>7, <1>8, KindsOfStep


-----------------------------------------------------------------------------
(* The books. *)

\* BooksBalance in terms of tallies, with the length of the queue.
Tallies ==
    /\ plainFlows = Tally(conn, HoldsSlot, Conns \ striped)
    /\ stripedFlows = Tally(conn, HoldsSlot, Conns \cap striped)
    /\ setupsActive = Tally(conn, InSetup, Conns)
    /\ permits = setupsActive + Bit(dispatcher = "permit")
    /\ streams + Cardinality(uncounted) = Tally(conn, Counted, Conns)
    /\ Len(queue) = Tally(conn, {"queued"}, Conns)

Reservations == \A x \in Sessions : pending[x] = Tally(at, {x}, Conns)

LEMMA TalliesAreNumbers ==
    /\ Tally(conn, HoldsSlot, Conns \ striped) \in Nat
    /\ Tally(conn, HoldsSlot, Conns \cap striped) \in Nat
    /\ Tally(conn, InSetup, Conns) \in Nat
    /\ Tally(conn, Counted, Conns) \in Nat
    /\ Tally(conn, {"queued"}, Conns) \in Nat
BY TallyType

\* What becomes of the tallies when c goes to v.
LEMMA TalliesMove ==
    ASSUME WorkerShape, NEW c \in Conns, NEW v \in Places,
           conn' = [conn EXCEPT ![c] = v], striped' = striped
    PROVE  /\ Tally(conn, HoldsSlot, Conns \ striped)'
                = Tally(conn, HoldsSlot, Conns \ striped) + Bit(c \notin striped /\ v \in HoldsSlot)
                                                          - Bit(c \notin striped /\ conn[c] \in HoldsSlot)
           /\ Tally(conn, HoldsSlot, Conns \cap striped)'
                = Tally(conn, HoldsSlot, Conns \cap striped) + Bit(c \in striped /\ v \in HoldsSlot)
                                                             - Bit(c \in striped /\ conn[c] \in HoldsSlot)
           /\ Tally(conn, InSetup, Conns)'
                = Tally(conn, InSetup, Conns) + Bit(v \in InSetup) - Bit(conn[c] \in InSetup)
           /\ Tally(conn, Counted, Conns)'
                = Tally(conn, Counted, Conns) + Bit(v \in Counted) - Bit(conn[c] \in Counted)
           /\ Tally(conn, {"queued"}, Conns)'
                = Tally(conn, {"queued"}, Conns) + Bit(v = "queued") - Bit(conn[c] = "queued")
<1>1. conn'[c] = v /\ \A d \in Conns \ {c} : conn'[d] = conn[d]
  BY DEF WorkerShape
<1>2. ASSUME NEW S, NEW T \in SUBSET Conns
      PROVE  Tally(conn', S, T) = Tally(conn, S, T) + Bit(c \in T /\ v \in S) - Bit(c \in T /\ conn[c] \in S)
  <2>1. Tally(conn', S, T) = Tally(conn, S, T) + Share(conn', c, S, T) - Share(conn, c, S, T)
    <3>1. PICK g : g = conn'
      OBVIOUS
    <3>2. Tally(g, S, T) = Tally(conn, S, T) + Share(g, c, S, T) - Share(conn, c, S, T)
      <4>1. \A d \in Conns \ {c} : g[d] = conn[d]
        BY <1>1, <3>1
      <4> QED
        BY <4>1, TallyMoves
    <3> QED
      BY <3>1, <3>2
  <2> QED
    BY <1>1, <2>1 DEF Bit, Share
<1>3. Tally(conn, HoldsSlot, Conns \ striped)' = Tally(conn', HoldsSlot, Conns \ striped)
      /\ Tally(conn, HoldsSlot, Conns \cap striped)' = Tally(conn', HoldsSlot, Conns \cap striped)
  BY DEF Tally
<1>4. Tally(conn, InSetup, Conns)' = Tally(conn', InSetup, Conns)
      /\ Tally(conn, Counted, Conns)' = Tally(conn', Counted, Conns)
      /\ Tally(conn, {"queued"}, Conns)' = Tally(conn', {"queued"}, Conns)
  BY DEF Tally
<1>5. Tally(conn, HoldsSlot, Conns \ striped)'
        = Tally(conn, HoldsSlot, Conns \ striped) + Bit(c \notin striped /\ v \in HoldsSlot)
                                                  - Bit(c \notin striped /\ conn[c] \in HoldsSlot)
  <2>1. Conns \ striped \in SUBSET Conns /\ (c \in Conns \ striped <=> c \notin striped)
    OBVIOUS
  <2>2. Tally(conn', HoldsSlot, Conns \ striped)
          = Tally(conn, HoldsSlot, Conns \ striped) + Bit(c \in Conns \ striped /\ v \in HoldsSlot)
                                                    - Bit(c \in Conns \ striped /\ conn[c] \in HoldsSlot)
    BY <1>2, <2>1
  <2> QED
    BY <1>3, <2>1, <2>2 DEF Bit
<1>6. Tally(conn, HoldsSlot, Conns \cap striped)'
        = Tally(conn, HoldsSlot, Conns \cap striped) + Bit(c \in striped /\ v \in HoldsSlot)
                                                     - Bit(c \in striped /\ conn[c] \in HoldsSlot)
  <2>1. Conns \cap striped \in SUBSET Conns /\ (c \in Conns \cap striped <=> c \in striped)
    OBVIOUS
  <2>2. Tally(conn', HoldsSlot, Conns \cap striped)
          = Tally(conn, HoldsSlot, Conns \cap striped) + Bit(c \in Conns \cap striped /\ v \in HoldsSlot)
                                                       - Bit(c \in Conns \cap striped /\ conn[c] \in HoldsSlot)
    BY <1>2, <2>1
  <2> QED
    BY <1>3, <2>1, <2>2 DEF Bit
<1>7. Conns \in SUBSET Conns
  OBVIOUS
<1>8. Tally(conn', InSetup, Conns) = Tally(conn, InSetup, Conns) + Bit(c \in Conns /\ v \in InSetup) - Bit(c \in Conns /\ conn[c] \in InSetup)
  BY <1>2, <1>7
<1>9. Tally(conn', Counted, Conns) = Tally(conn, Counted, Conns) + Bit(c \in Conns /\ v \in Counted) - Bit(c \in Conns /\ conn[c] \in Counted)
  BY <1>2, <1>7
<1>10. Tally(conn', {"queued"}, Conns)
         = Tally(conn, {"queued"}, Conns) + Bit(c \in Conns /\ v \in {"queued"}) - Bit(c \in Conns /\ conn[c] \in {"queued"})
  BY <1>2, <1>7
<1>11. (v \in {"queued"} <=> v = "queued") /\ (conn[c] \in {"queued"} <=> conn[c] = "queued")
  OBVIOUS
<1> QED
  BY <1>4, <1>5, <1>6, <1>8, <1>9, <1>10, <1>11 DEF Bit


\* Closing the queue takes its length from the count, and nothing from the rest.
LEMMA TalliesClose ==
    ASSUME WorkerShape, QueueMeans, CloseQueued(queue), striped' = striped
    PROVE  /\ Tally(conn, HoldsSlot, Conns \ striped)' = Tally(conn, HoldsSlot, Conns \ striped)
           /\ Tally(conn, HoldsSlot, Conns \cap striped)' = Tally(conn, HoldsSlot, Conns \cap striped)
           /\ Tally(conn, InSetup, Conns)' = Tally(conn, InSetup, Conns)
           /\ Tally(conn, Counted, Conns)' = Tally(conn, Counted, Conns) - Tally(conn, {"queued"}, Conns)
           /\ Tally(conn, {"queued"}, Conns)' = 0
<1>1. \A c \in Conns : conn'[c] = IF conn[c] = "queued" THEN "over" ELSE conn[c]
  BY DEF WorkerShape, CloseQueued, QueueMeans
<1>2. ASSUME NEW S, "queued" \notin S, "over" \notin S, NEW T \in SUBSET Conns
      PROVE  Tally(conn', S, T) = Tally(conn, S, T)
  <2>1. {d \in T : conn'[d] \in S} = {d \in T : conn[d] \in S}
    BY <1>1, <1>2
  <2> QED
    BY <2>1 DEF Tally
<1>3. Tally(conn, HoldsSlot, Conns \ striped)' = Tally(conn, HoldsSlot, Conns \ striped)
      /\ Tally(conn, HoldsSlot, Conns \cap striped)' = Tally(conn, HoldsSlot, Conns \cap striped)
  <2>1. Tally(conn, HoldsSlot, Conns \ striped)' = Tally(conn', HoldsSlot, Conns \ striped)
        /\ Tally(conn, HoldsSlot, Conns \cap striped)' = Tally(conn', HoldsSlot, Conns \cap striped)
    BY DEF Tally
  <2>2. "queued" \notin HoldsSlot /\ "over" \notin HoldsSlot
    BY DEF HoldsSlot
  <2>3. Conns \ striped \in SUBSET Conns /\ Conns \cap striped \in SUBSET Conns
    OBVIOUS
  <2> QED
    BY <1>2, <2>1, <2>2, <2>3
<1>4. Tally(conn, InSetup, Conns)' = Tally(conn, InSetup, Conns)
  <2>1. Tally(conn, InSetup, Conns)' = Tally(conn', InSetup, Conns)
    BY DEF Tally
  <2>2. "queued" \notin InSetup /\ "over" \notin InSetup
    BY DEF InSetup
  <2> QED
    BY <1>2, <2>1, <2>2
<1> DEFINE All == {d \in Conns : conn[d] \in Counted}
           Waiting == {d \in Conns : conn[d] \in {"queued"}}
           Rest == {d \in Conns : conn'[d] \in Counted}
<1>5. Cardinality(Rest) = Cardinality(All) - Cardinality(Waiting)
  <2>1. Rest \cup Waiting = All
    BY <1>1 DEF Counted, InSetup
  <2>2. Rest \cap Waiting = {}
    BY <1>1 DEF Counted, InSetup
  <2>3. Rest \in SUBSET Conns /\ Waiting \in SUBSET Conns
    OBVIOUS
  <2>4. IsFiniteSet(Rest) /\ IsFiniteSet(Waiting)
    BY <2>3, FS_Subset, DispatchAssumption
  <2>5. Cardinality(Rest \cup Waiting) = Cardinality(Rest) + Cardinality(Waiting) - Cardinality(Rest \cap Waiting)
    BY <2>4, FS_Union
  <2>6. Cardinality(Rest) \in Nat /\ Cardinality(Waiting) \in Nat
    BY <2>4, FS_CardinalityType
  <2>7. Cardinality(Rest \cap Waiting) = 0
    BY <2>2, FS_EmptySet
  <2>8. Cardinality(All) = Cardinality(Rest) + Cardinality(Waiting) - 0
    BY <2>1, <2>5, <2>7
  <2> HIDE DEF All, Rest, Waiting
  <2> QED
    BY <2>6, <2>8
<1>6. Tally(conn, Counted, Conns)' = Tally(conn, Counted, Conns) - Tally(conn, {"queued"}, Conns)
  BY <1>5 DEF Tally
<1>7. Tally(conn, {"queued"}, Conns)' = 0
  <2>1. {d \in Conns : conn'[d] \in {"queued"}} = {}
    BY <1>1
  <2> QED
    BY <2>1, FS_EmptySet DEF Tally
<1> QED
  BY <1>3, <1>4, <1>6, <1>7

\* If the counters follow c to v, the books still balance.
LEMMA MoveBalances ==
    ASSUME WorkerShape, Tallies, NEW c \in Conns, NEW v \in Places,
           conn' = [conn EXCEPT ![c] = v], striped' = striped,
           plainFlows' = plainFlows + Bit(c \notin striped /\ v \in HoldsSlot)
                                    - Bit(c \notin striped /\ conn[c] \in HoldsSlot),
           stripedFlows' = stripedFlows + Bit(c \in striped /\ v \in HoldsSlot)
                                        - Bit(c \in striped /\ conn[c] \in HoldsSlot),
           setupsActive' = setupsActive + Bit(v \in InSetup) - Bit(conn[c] \in InSetup),
           permits' = setupsActive' + Bit(dispatcher' = "permit"),
           streams' + Cardinality(uncounted')
             = streams + Cardinality(uncounted) + Bit(v \in Counted) - Bit(conn[c] \in Counted),
           Len(queue') = Len(queue) + Bit(v = "queued") - Bit(conn[c] = "queued")
    PROVE  Tallies'
<1>1. plainFlows' = Tally(conn, HoldsSlot, Conns \ striped)'
      /\ stripedFlows' = Tally(conn, HoldsSlot, Conns \cap striped)'
  BY TalliesMove DEF Tallies, Bit
<1>2. setupsActive' = Tally(conn, InSetup, Conns)'
  BY TalliesMove DEF Tallies, Bit
<1>3. streams' + Cardinality(uncounted') = Tally(conn, Counted, Conns)'
  BY TalliesMove DEF Tallies, Bit
<1>4. Len(queue') = Tally(conn, {"queued"}, Conns)'
  BY TalliesMove DEF Tallies, Bit
<1> QED
  BY <1>1, <1>2, <1>3, <1>4 DEF Tallies

\* Coming and being turned away leave the books alone.
LEMMA StandsStill ==
    ASSUME WorkerShape, CountShape, Tallies, NEW c \in Conns, NEW v \in Places,
           conn' = [conn EXCEPT ![c] = v], conn[c] \in {"none", "accepted"}, v \in {"accepted", "over"},
           UNCHANGED <<queue, uncounted, dispatcher, counters, striped>>
    PROVE  Tallies'
<1>1. Cardinality(uncounted) \in Nat /\ Len(queue) \in Nat
  BY FS_Subset, FS_CardinalityType, DispatchAssumption DEF WorkerShape
<1>2. v \notin HoldsSlot /\ v \notin InSetup /\ v \notin Counted /\ v # "queued"
  BY DEF HoldsSlot, InSetup, Counted
<1>3. conn[c] \notin HoldsSlot /\ conn[c] \notin InSetup /\ conn[c] \notin Counted /\ conn[c] # "queued"
  BY DEF HoldsSlot, InSetup, Counted
<1>4. plainFlows' = plainFlows + Bit(c \notin striped /\ v \in HoldsSlot)
                               - Bit(c \notin striped /\ conn[c] \in HoldsSlot)
      /\ stripedFlows' = stripedFlows + Bit(c \in striped /\ v \in HoldsSlot)
                                      - Bit(c \in striped /\ conn[c] \in HoldsSlot)
  BY <1>2, <1>3 DEF counters, CountShape, Bit
<1>5. setupsActive' = setupsActive + Bit(v \in InSetup) - Bit(conn[c] \in InSetup)
      /\ permits' = setupsActive' + Bit(dispatcher' = "permit")
  BY <1>2, <1>3 DEF counters, CountShape, Tallies, Bit
<1>6. streams' + Cardinality(uncounted')
        = streams + Cardinality(uncounted) + Bit(v \in Counted) - Bit(conn[c] \in Counted)
      /\ Len(queue') = Len(queue) + Bit(v = "queued") - Bit(conn[c] = "queued")
  BY <1>1, <1>2, <1>3 DEF counters, CountShape, Bit
<1> QED
  BY <1>4, <1>5, <1>6, MoveBalances

LEMMA TalliesStep ==
    ASSUME WorkerShape, CountShape, QueueMeans, OneAcceptor, Tallies, [Next]_vars
    PROVE  Tallies'
<1> USE DEF Tallies, CountShape
<1>1. CASE IdleStep
  <2>1. UNCHANGED <<conn, striped>>
    BY <1>1 DEF IdleStep
  <2>2. /\ UNCHANGED <<Tally(conn, HoldsSlot, Conns \ striped), Tally(conn, HoldsSlot, Conns \cap striped)>>
        /\ UNCHANGED <<Tally(conn, InSetup, Conns), Tally(conn, Counted, Conns), Tally(conn, {"queued"}, Conns)>>
    BY <2>1 DEF Tally
  <2> QED
    BY <1>1, <2>2 DEF IdleStep, counters
<1>2. ASSUME NEW c \in Conns, NEW v \in Places, WorkStep(c, v)
      PROVE  Tallies'
  <2>1. conn[c] \in Counted /\ (v \in Counted <=> v # "over") /\ v # "queued" /\ conn[c] # "queued"
    BY <1>2 DEF WorkStep, Counted, InSetup
  <2>2. UNCHANGED <<uncounted, queue, dispatcher>>
    BY <1>2 DEF WorkStep
  <2>3. Cardinality(uncounted) \in Nat /\ Len(queue) \in Nat
    BY FS_Subset, FS_CardinalityType, DispatchAssumption DEF WorkerShape
  <2>4. streams' + Cardinality(uncounted')
          = streams + Cardinality(uncounted) + Bit(v \in Counted) - Bit(conn[c] \in Counted)
    <3>1. streams' = IF v = "over" THEN streams - 1 ELSE streams
      BY <1>2 DEF WorkStep, Bit
    <3> QED
      BY <2>1, <2>2, <2>3, <3>1 DEF Bit
  <2>5. Len(queue') = Len(queue) + Bit(v = "queued") - Bit(conn[c] = "queued")
    BY <2>1, <2>2, <2>3 DEF Bit
  <2>6. permits' = setupsActive' + Bit(dispatcher' = "permit")
    <3>1. CASE dispatcher = "permit"
      BY <1>2, <2>2, <3>1 DEF WorkStep, Bit
    <3>2. CASE dispatcher # "permit"
      BY <1>2, <2>2, <3>2 DEF WorkStep, Bit
    <3> QED
      BY <3>1, <3>2
  <2> QED
    BY <1>2, <2>4, <2>5, <2>6, MoveBalances DEF WorkStep
<1>3. ASSUME NEW c \in Conns, Accept(c)
      PROVE  Tallies'
  <2>1. conn' = [conn EXCEPT ![c] = "accepted"] /\ conn[c] = "none"
        /\ UNCHANGED <<queue, uncounted, dispatcher, counters, striped>> /\ "accepted" \in Places
    BY <1>3 DEF Accept, intake, promoVars, Places
  <2> QED
    BY <2>1, StandsStill
<1>4. ASSUME NEW c \in Conns, Enqueue(c)
      PROVE  Tallies'
  <2>1. conn[c] = "accepted" /\ uncounted = {} /\ UNCHANGED <<dispatcher, counters, striped>>
    BY <1>4 DEF Enqueue, OneAcceptor, promoVars
  <2>2. CASE Len(queue) < QueueSize
    <3>1. conn' = [conn EXCEPT ![c] = "queued"] /\ queue' = Append(queue, c) /\ uncounted' = {c} /\ "queued" \in Places
      BY <1>4, <2>2 DEF Enqueue, Places
    <3>2. Cardinality(uncounted) = 0 /\ Cardinality(uncounted') = 1
      BY <2>1, <3>1, FS_EmptySet, FS_Singleton
    <3>3. Len(queue) \in Nat /\ Len(queue') = Len(queue) + 1
      BY <3>1 DEF WorkerShape
    <3>4. streams' + Cardinality(uncounted')
            = streams + Cardinality(uncounted) + Bit("queued" \in Counted) - Bit(conn[c] \in Counted)
      BY <2>1, <3>2 DEF counters, Counted, InSetup, Bit
    <3>5. Len(queue') = Len(queue) + Bit("queued" = "queued") - Bit(conn[c] = "queued")
      BY <2>1, <3>3 DEF Bit
    <3>6. plainFlows' = plainFlows + Bit(c \notin striped /\ "queued" \in HoldsSlot)
                                   - Bit(c \notin striped /\ conn[c] \in HoldsSlot)
          /\ stripedFlows' = stripedFlows + Bit(c \in striped /\ "queued" \in HoldsSlot)
                                          - Bit(c \in striped /\ conn[c] \in HoldsSlot)
      BY <2>1 DEF counters, HoldsSlot, Bit
    <3>7. setupsActive' = setupsActive + Bit("queued" \in InSetup) - Bit(conn[c] \in InSetup)
      BY <2>1 DEF counters, InSetup, Bit
    <3>8. permits' = setupsActive' + Bit(dispatcher' = "permit")
      BY <2>1 DEF counters
    <3> QED
      BY <2>1, <3>1, <3>4, <3>5, <3>6, <3>7, <3>8, MoveBalances
  <2>3. CASE ~(Len(queue) < QueueSize)
    <3>1. conn' = [conn EXCEPT ![c] = "over"] /\ UNCHANGED <<queue, uncounted>> /\ "over" \in Places
      BY <1>4, <2>3 DEF Enqueue, Places
    <3> QED
      BY <2>1, <3>1, StandsStill
  <2> QED
    BY <2>2, <2>3
<1>5. CASE Count \/ TakePermit
  <2>1. UNCHANGED <<conn, striped, queue, plainFlows, stripedFlows, setupsActive>>
    BY <1>5 DEF Count, TakePermit, workers, promoVars
  <2>2. /\ UNCHANGED <<Tally(conn, HoldsSlot, Conns \ striped), Tally(conn, HoldsSlot, Conns \cap striped)>>
        /\ UNCHANGED <<Tally(conn, InSetup, Conns), Tally(conn, Counted, Conns), Tally(conn, {"queued"}, Conns)>>
    BY <2>1 DEF Tally
  <2>3. streams' + Cardinality(uncounted') = streams + Cardinality(uncounted)
    <3>1. CASE Count
      <4>1. Cardinality(uncounted) = 1 /\ Cardinality(uncounted') = 0 /\ streams' = streams + 1
        BY <3>1, FS_EmptySet, FS_Singleton DEF Count, OneAcceptor
      <4> QED
        BY <4>1
    <3>2. CASE TakePermit
      BY <3>2 DEF TakePermit
    <3> QED
      BY <1>5, <3>1, <3>2
  <2>4. permits' = setupsActive' + Bit(dispatcher' = "permit")
    BY <1>5, <2>1 DEF Count, TakePermit, Bit
  <2> QED
    BY <2>1, <2>2, <2>3, <2>4
<1>6. CASE TakeConn
  <2> DEFINE c == Head(queue)
  <2>1. c \in Conns /\ conn[c] = "queued" /\ queue' = Tail(queue) /\ Len(queue') = Len(queue) - 1
    <3>1. c = queue[1] /\ 1 \in 1..Len(queue) /\ queue' = Tail(queue) /\ Len(queue') = Len(queue) - 1
      BY <1>6 DEF TakeConn, WorkerShape
    <3> QED
      BY <3>1 DEF WorkerShape, QueueMeans
  <2>2. UNCHANGED <<uncounted, striped, plainFlows, stripedFlows>> /\ "over" \in Places /\ "begin" \in Places
        /\ dispatcher = "permit" /\ dispatcher' = "idle"
    BY <1>6 DEF TakeConn, promoVars, Places, InSetup
  <2>3. Cardinality(uncounted) \in Nat /\ Len(queue) \in Nat
    BY FS_Subset, FS_CardinalityType, DispatchAssumption DEF WorkerShape
  <2>4. conn[c] \notin HoldsSlot /\ conn[c] \notin InSetup /\ conn[c] \in Counted
        /\ "over" \notin HoldsSlot \cup InSetup \cup Counted
        /\ "begin" \notin HoldsSlot /\ "begin" \in InSetup \cap Counted
    BY <2>1 DEF HoldsSlot, InSetup, Counted
  <2>5. CASE stopped
    <3>1. conn' = [conn EXCEPT ![c] = "over"] /\ permits' = permits - 1 /\ streams' = streams - 1
          /\ setupsActive' = setupsActive
      BY <1>6, <2>5 DEF TakeConn
    <3>2. plainFlows' = plainFlows + Bit(c \notin striped /\ "over" \in HoldsSlot)
                                   - Bit(c \notin striped /\ conn[c] \in HoldsSlot)
          /\ stripedFlows' = stripedFlows + Bit(c \in striped /\ "over" \in HoldsSlot)
                                          - Bit(c \in striped /\ conn[c] \in HoldsSlot)
      BY <2>2, <2>4 DEF Bit
    <3>3. setupsActive' = setupsActive + Bit("over" \in InSetup) - Bit(conn[c] \in InSetup)
          /\ permits' = setupsActive' + Bit(dispatcher' = "permit")
      BY <2>2, <2>4, <3>1 DEF Bit
    <3>4. streams' + Cardinality(uncounted')
            = streams + Cardinality(uncounted) + Bit("over" \in Counted) - Bit(conn[c] \in Counted)
      BY <2>2, <2>3, <2>4, <3>1 DEF Bit
    <3>5. Len(queue') = Len(queue) + Bit("over" = "queued") - Bit(conn[c] = "queued")
      BY <2>1, <2>3 DEF Bit
    <3> QED
      BY <2>1, <2>2, <3>1, <3>2, <3>3, <3>4, <3>5, MoveBalances
  <2>6. CASE ~stopped
    <3>1. conn' = [conn EXCEPT ![c] = "begin"] /\ permits' = permits /\ streams' = streams
          /\ setupsActive' = setupsActive + 1
      BY <1>6, <2>6 DEF TakeConn
    <3>2. plainFlows' = plainFlows + Bit(c \notin striped /\ "begin" \in HoldsSlot)
                                   - Bit(c \notin striped /\ conn[c] \in HoldsSlot)
          /\ stripedFlows' = stripedFlows + Bit(c \in striped /\ "begin" \in HoldsSlot)
                                          - Bit(c \in striped /\ conn[c] \in HoldsSlot)
      BY <2>2, <2>4 DEF Bit
    <3>3. setupsActive' = setupsActive + Bit("begin" \in InSetup) - Bit(conn[c] \in InSetup)
          /\ permits' = setupsActive' + Bit(dispatcher' = "permit")
      BY <2>2, <2>4, <3>1 DEF Bit
    <3>4. streams' + Cardinality(uncounted')
            = streams + Cardinality(uncounted) + Bit("begin" \in Counted) - Bit(conn[c] \in Counted)
      BY <2>2, <2>3, <2>4, <3>1 DEF Bit
    <3>5. Len(queue') = Len(queue) + Bit("begin" = "queued") - Bit(conn[c] = "queued")
      BY <2>1, <2>3 DEF Bit
    <3> QED
      BY <2>1, <2>2, <3>1, <3>2, <3>3, <3>4, <3>5, MoveBalances
  <2> QED
    BY <2>5, <2>6
<1>7. CASE DispatcherStops
  <2>1. CloseQueued(queue) /\ UNCHANGED <<striped, uncounted, plainFlows, stripedFlows, setupsActive>>
        /\ streams' = streams - Len(queue) /\ Len(queue') = 0
    BY <1>7 DEF DispatcherStops, promoVars, CloseQueued
  <2>2. permits' = setupsActive' + Bit(dispatcher' = "permit")
    BY <1>7, <2>1 DEF DispatcherStops, Bit
  <2>3. Cardinality(uncounted) \in Nat /\ Len(queue) \in Nat
    BY FS_Subset, FS_CardinalityType, DispatchAssumption DEF WorkerShape
  <2>4. streams' + Cardinality(uncounted') = Tally(conn, Counted, Conns)'
    BY <2>1, <2>3, TalliesClose
  <2> QED
    BY <2>1, <2>2, <2>4, TalliesClose
<1>8. CASE DrainQueues
  <2>1. CloseQueued(queue) /\ UNCHANGED <<striped, uncounted, plainFlows, stripedFlows, setupsActive, permits, dispatcher>>
        /\ streams' = 0 /\ Len(queue') = 0 /\ uncounted = {}
    BY <1>8 DEF DrainQueues, WorkersEnded, promoVars, CloseQueued
  <2>2. Tally(conn, Counted, Conns) = Tally(conn, {"queued"}, Conns)
    <3>1. {d \in Conns : conn[d] \in Counted} = {d \in Conns : conn[d] \in {"queued"}}
      BY <1>8 DEF DrainQueues, WorkersEnded, Counted, InSetup
    <3> QED
      BY <3>1 DEF Tally
  <2>3. streams' + Cardinality(uncounted') = Tally(conn, Counted, Conns)'
    BY <2>1, <2>2, TalliesClose, TalliesAreNumbers, FS_EmptySet
  <2> QED
    BY <2>1, <2>3, TalliesClose
<1> QED
  BY <1>1, <1>2, <1>3, <1>4, <1>5, <1>6, <1>7, <1>8, KindsOfStep


\* A reservation is made and given up by the one that opens a plain leg.
LEMMA ReservationsStep ==
    ASSUME WorkerShape, LegShape, CountShape, ReservedWhileOpening, Reservations, [Next]_vars
    PROVE  Reservations'
<1>1. ASSUME UNCHANGED <<at, pending>>
      PROVE  Reservations'
  BY <1>1 DEF Reservations, Tally
<1>2. ASSUME NEW c \in Conns, NEW x \in Sessions, ReservePlain(c, x)
      PROVE  Reservations'
  <2>1. at[c] = NoSession /\ at' = [at EXCEPT ![c] = x] /\ pending' = [pending EXCEPT ![x] = @ + 1]
    BY <1>2 DEF ReservePlain, ReservedWhileOpening
  <2>2. at'[c] = x /\ \A d \in Conns \ {c} : at'[d] = at[d]
    BY <2>1 DEF LegShape
  <2>3. ASSUME NEW y \in Sessions
        PROVE  pending'[y] = Tally(at', {y}, Conns)
    <3>1. Tally(at', {y}, Conns) = Tally(at, {y}, Conns) + Share(at', c, {y}, Conns) - Share(at, c, {y}, Conns)
      BY <2>2, TallyMoves
    <3>2. Share(at, c, {y}, Conns) = 0 /\ Share(at', c, {y}, Conns) = IF y = x THEN 1 ELSE 0
      BY <2>1, <2>2, DispatchAssumption DEF Share
    <3>3. pending'[y] = IF y = x THEN pending[y] + 1 ELSE pending[y]
      BY <2>1 DEF CountShape
    <3>4. pending[y] = Tally(at, {y}, Conns) /\ pending[y] \in Int
      BY DEF Reservations, CountShape
    <3> QED
      BY <3>1, <3>2, <3>3, <3>4
  <2> QED
    BY <2>3 DEF Reservations, Tally
<1>3. ASSUME NEW c \in Conns, OpenPlain(c)
      PROVE  Reservations'
  <2>1. at[c] \in Sessions /\ at' = [at EXCEPT ![c] = NoSession] /\ pending' = [pending EXCEPT ![at[c]] = @ - 1]
    BY <1>3 DEF OpenPlain, ReservedWhileOpening, LegShape
  <2>2. at'[c] = NoSession /\ \A d \in Conns \ {c} : at'[d] = at[d]
    BY <2>1 DEF LegShape
  <2>3. ASSUME NEW y \in Sessions
        PROVE  pending'[y] = Tally(at', {y}, Conns)
    <3>1. Tally(at', {y}, Conns) = Tally(at, {y}, Conns) + Share(at', c, {y}, Conns) - Share(at, c, {y}, Conns)
      <4>1. \A d \in Conns \ {c} : at'[d] = at[d]
        BY <2>2
      <4> QED
        BY <4>1, TallyMoves
    <3>2. Share(at', c, {y}, Conns) = 0 /\ Share(at, c, {y}, Conns) = IF y = at[c] THEN 1 ELSE 0
      BY <2>1, <2>2, DispatchAssumption DEF Share
    <3>3. pending'[y] = IF y = at[c] THEN pending[y] - 1 ELSE pending[y]
      BY <2>1 DEF CountShape
    <3>4. pending[y] = Tally(at, {y}, Conns) /\ pending[y] \in Int
      BY DEF Reservations, CountShape
    <3> QED
      BY <3>1, <3>2, <3>3, <3>4
  <2> QED
    BY <2>3 DEF Reservations, Tally
<1>4. ASSUME NEW c \in Conns, \/ Accept(c) \/ Enqueue(c) \/ Expire(c) \/ GuardFires(c) \/ GiveUp(c)
                              \/ AcquireSlot(c) \/ Again(c) \/ ReserveStriped(c) \/ NoLeg(c)
                              \/ OpenStriped(c) \/ SendHeader(c) \/ Handoff(c)
      PROVE  UNCHANGED <<at, pending>>
  BY <1>4 DEF legVars, Accept, Enqueue, Expire, GuardFires, GiveUp, AcquireSlot, Again, ReserveStriped,
              NoLeg, OpenStriped, SendHeader, Handoff
<1>5. ASSUME NEW c \in Conns, FlowEnds(c) \/ Promote(c)
      PROVE  UNCHANGED <<at, pending>>
  BY <1>5, PromoterSteps DEF FlowEnds
<1>6. ASSUME \/ Count \/ TakePermit \/ TakeConn \/ DispatcherStops \/ DrainQueues \/ Stop
             \/ \E x \in Sessions : SessionDies(x) \/ SessionJoins(x)
             \/ UNCHANGED vars
      PROVE  UNCHANGED <<at, pending>>
  BY <1>6 DEF legVars, vars, Count, TakePermit, TakeConn, DispatcherStops, DrainQueues, Stop,
              SessionDies, SessionJoins
<1> QED
  BY <1>1, <1>2, <1>3, <1>4, <1>5, <1>6 DEF Next, Work

-----------------------------------------------------------------------------
(* The theorems. *)

DispatchInv == Shape /\ WayInv /\ Tallies /\ Reservations

LEMMA InitHolds == Init => DispatchInv
<1> SUFFICES ASSUME Init PROVE DispatchInv
  OBVIOUS
<1>1. WorkerShape /\ LegShape /\ CountShape
  BY DEF Init, WorkerShape, LegShape, CountShape, Places
<1>2. WayInv
  BY DispatchAssumption DEF Init, WayInv, PromoterMeans, PromoterMeansFor, Stages, ReservedWhileOpening, GuardMeans, LegsMean, LegsMeanFor, QueueMeans, OneAcceptor, InSetup
<1>3. ASSUME NEW S, NEW T \in SUBSET Conns, "none" \notin S
      PROVE  Tally(conn, S, T) = 0
  <2>1. {d \in T : conn[d] \in S} = {}
    BY <1>3 DEF Init
  <2> QED
    BY <2>1, FS_EmptySet DEF Tally
<1>4. "none" \notin HoldsSlot /\ "none" \notin InSetup /\ "none" \notin Counted /\ "none" \notin {"queued"}
  BY DEF HoldsSlot, InSetup, Counted
<1>5. /\ Tally(conn, HoldsSlot, Conns \ striped) = 0 /\ Tally(conn, HoldsSlot, Conns \cap striped) = 0
      /\ Tally(conn, InSetup, Conns) = 0 /\ Tally(conn, Counted, Conns) = 0 /\ Tally(conn, {"queued"}, Conns) = 0
  BY <1>3, <1>4
<1>6. Tallies
  BY <1>5, FS_EmptySet DEF Init, Tallies, Bit
<1>7. ASSUME NEW x \in Sessions
      PROVE  pending[x] = Tally(at, {x}, Conns)
  <2>1. {d \in Conns : at[d] \in {x}} = {}
    BY DispatchAssumption DEF Init
  <2> QED
    BY <2>1, FS_EmptySet DEF Init, Tally
<1> QED
  BY <1>1, <1>2, <1>6, <1>7 DEF DispatchInv, Shape, Reservations

LEMMA StepHolds == DispatchInv /\ [Next]_vars => DispatchInv'
<1> SUFFICES ASSUME DispatchInv, [Next]_vars PROVE DispatchInv'
  OBVIOUS
<1>1. /\ WorkerShape /\ LegShape /\ CountShape /\ ReservedWhileOpening /\ GuardMeans /\ LegsMean
      /\ QueueMeans /\ OneAcceptor /\ PromoterMeans /\ Tallies /\ Reservations
  BY DEF DispatchInv, Shape, WayInv
<1>2. WorkerShape' /\ LegShape' /\ CountShape'
  BY <1>1, WorkerShapeStep, LegShapeStep, CountShapeStep
<1>3. ReservedWhileOpening' /\ GuardMeans' /\ LegsMean' /\ PromoterMeans'
  BY <1>1, ReservedStep, GuardMeansStep, LegsMeanStep, PromoterMeansStep
<1>4. QueueMeans' /\ OneAcceptor' /\ Tallies' /\ Reservations'
  BY <1>1, QueueMeansStep, OneAcceptorStep, TalliesStep, ReservationsStep
<1> QED
  BY <1>2, <1>3, <1>4 DEF DispatchInv, Shape, WayInv

\* The inductive invariant of the way from an accepted connection to a flow
\* (acceptLocalConn, dispatchLoop, runSetup, drop, handoff).
THEOREM DispatchInvariant == Spec => []DispatchInv
BY InitHolds, StepHolds, PTL DEF Spec

\* A connection that became a flow belongs to the flow: neither the timer of its
\* setup nor the context's closes it (settle, handoff); one that is over has left no
\* socket and no stream behind, whichever way it ended and wherever its promoter was
\* (Install); and a promoter has legs open only while it is at work, or while the
\* opener that it left behind is (promoteFlow).
THEOREM HandedOff == Spec => []HandedOffOrClosed
<1>1. DispatchInv => HandedOffOrClosed
  BY DEF DispatchInv, WayInv, GuardMeans, LegsMean, LegsMeanFor, PromoterMeans, PromoterMeansFor, HandedOffOrClosed
<1> QED
  BY <1>1, DispatchInvariant, PTL

\* Whatever fails on the way, and in whatever order: plainFlows, stripedFlows,
\* setupsActive, the permits, the reservations and streamCounter are the number of
\* connections that hold one (drop, handoff, releasing a slot, closeQueuedLocal).
THEOREM BooksAreBalanced == Spec => []BooksBalance
<1>1. ASSUME DispatchInv
      PROVE  BooksBalance
  <2>1. In(HoldsSlot) \ striped = {d \in Conns \ striped : conn[d] \in HoldsSlot}
        /\ In(HoldsSlot) \cap striped = {d \in Conns \cap striped : conn[d] \in HoldsSlot}
    BY DEF In
  <2>2. \A x \in Sessions : {c \in Conns : at[c] = x} = {c \in Conns : at[c] \in {x}}
    OBVIOUS
  <2>3. SlotsHeld
    BY <1>1, <2>1, <2>2 DEF DispatchInv, Tallies, Reservations, Tally, SlotsHeld
  <2>4. PermitsHeld
    BY <1>1 DEF DispatchInv, Tallies, Tally, Bit, PermitsHeld, In
  <2>5. StreamsCounted
    BY <1>1 DEF DispatchInv, Tallies, Tally, Counted, StreamsCounted, In
  <2> QED
    BY <2>3, <2>4, <2>5 DEF BooksBalance
<1> QED
  BY <1>1, DispatchInvariant, PTL


-----------------------------------------------------------------------------
(* The limits. *)

\* The queue and the permits stay within their bounds.
Limits ==
    /\ Len(queue) <= QueueSize /\ permits <= Permits
    /\ expired \subseteq Conns /\ stopped \in BOOLEAN /\ striped \in Kinds

LEMMA LimitsStep ==
    ASSUME DispatchInv, Limits, [Next]_vars
    PROVE  Limits'
<1>1. WorkerShape /\ LegShape /\ CountShape
  BY DEF DispatchInv, Shape
<1>2. Len(queue') <= QueueSize /\ permits' <= Permits
  <2> USE <1>1, DispatchAssumption DEF Limits, CountShape
  <2>1. CASE IdleStep
    BY <2>1 DEF IdleStep, counters
  <2>2. ASSUME NEW c \in Conns, NEW v \in Places, WorkStep(c, v)
        PROVE  Len(queue') <= QueueSize /\ permits' <= Permits
    BY <2>2 DEF WorkStep, Bit
  <2>3. ASSUME NEW c \in Conns, Accept(c) \/ Enqueue(c)
        PROVE  Len(queue') <= QueueSize /\ permits' <= Permits
    BY <2>3 DEF WorkerShape, Accept, Enqueue, intake, counters
  <2>4. CASE Count \/ TakePermit
    BY <2>4 DEF Count, TakePermit
  <2>5. CASE TakeConn
    BY <2>5 DEF WorkerShape, TakeConn
  <2>6. CASE DispatcherStops \/ DrainQueues
    BY <2>6 DEF DispatcherStops, DrainQueues, CloseQueued
  <2> QED
    BY <2>1, <2>2, <2>3, <2>4, <2>5, <2>6, KindsOfStep
<1>3. expired' \subseteq Conns /\ stopped' \in BOOLEAN /\ striped' = striped
  <2> USE DEF Limits
  <2>1. ASSUME NEW c \in Conns, \/ Accept(c) \/ Enqueue(c) \/ GuardFires(c) \/ GiveUp(c)
                                \/ AcquireSlot(c) \/ Again(c) \/ ReserveStriped(c) \/ NoLeg(c)
                                \/ OpenPlain(c) \/ OpenStriped(c) \/ SendHeader(c) \/ Handoff(c) \/ FlowEnds(c)
                                \/ \E x \in Sessions : ReservePlain(c, x)
        PROVE  UNCHANGED <<expired, stopped, striped>>
    BY <2>1 DEF Accept, Enqueue, GuardFires, GiveUp, AcquireSlot, Again, ReserveStriped, NoLeg, OpenPlain,
                OpenStriped, SendHeader, Handoff, FlowEnds, ReservePlain, promoVars
  <2>2. ASSUME NEW c \in Conns, Expire(c)
        PROVE  expired' = expired \cup {c} /\ UNCHANGED <<stopped, striped>>
    BY <2>2 DEF Expire, promoVars
  <2>3. ASSUME NEW c \in Conns, Promote(c)
        PROVE  UNCHANGED <<expired, stopped, striped>>
    BY <2>3, PromoterSteps
  <2>4. ASSUME \/ Count \/ TakePermit \/ TakeConn \/ DispatcherStops \/ DrainQueues
               \/ \E x \in Sessions : SessionDies(x) \/ SessionJoins(x)
               \/ UNCHANGED vars
        PROVE  UNCHANGED <<expired, stopped, striped>>
    BY <2>4 DEF Count, TakePermit, TakeConn, DispatcherStops, DrainQueues, SessionDies, SessionJoins,
                vars, workers, promoVars
  <2>5. ASSUME Stop
        PROVE  stopped' = TRUE /\ UNCHANGED <<expired, striped>>
    BY <2>5 DEF Stop, workers, promoVars
  <2> QED
    BY <2>1, <2>2, <2>3, <2>4, <2>5 DEF Next, Work
<1> QED
  BY <1>2, <1>3 DEF Limits

\* Every variable keeps its type; in particular localChannel never holds more than
\* its capacity, and no more setups run than there are permits in setupSlots.
THEOREM DispatchTyped == Spec => []TypeOK
<1>1. ASSUME Init
      PROVE  Limits
  <2>1. striped \in Kinds
    BY <1>1 DEF Init
  <2>2. Len(queue) <= QueueSize /\ permits <= Permits /\ expired \subseteq Conns
    BY <1>1, DispatchAssumption DEF Init
  <2>3. stopped \in BOOLEAN
    BY <1>1 DEF Init
  <2> QED
    BY <2>1, <2>2, <2>3, DispatchAssumption DEF Limits
<1>2. ASSUME DispatchInv, Limits
      PROVE  TypeOK
  <2>1. permits \in 0..Permits /\ setupsActive \in 0..Permits
    <3>1. setupsActive \in Nat
      BY <1>2, TalliesAreNumbers DEF DispatchInv, Tallies
    <3>2. permits = setupsActive + (IF dispatcher = "permit" THEN 1 ELSE 0) /\ permits <= Permits
      BY <1>2 DEF DispatchInv, Tallies, Limits, Bit
    <3> QED
      BY <3>1, <3>2, DispatchAssumption
  <2>2. pending \in [Sessions -> Nat]
    <3>1. \A x \in Sessions : Tally(at, {x}, Conns) \in Nat
      BY TallyType
    <3> QED
      BY <1>2, <3>1 DEF DispatchInv, Shape, CountShape, Reservations
  <2>3. {streams, plainFlows, stripedFlows} \subseteq Int
    BY <1>2 DEF DispatchInv, Shape, CountShape
  <2>4. {todo, tried, legs, promotion} \subseteq [Conns -> SUBSET Sessions]
    BY <1>2 DEF DispatchInv, Shape, LegShape
  <2> QED
    BY <1>2, <2>1, <2>2, <2>3, <2>4 DEF DispatchInv, Shape, WorkerShape, LegShape, WayInv, PromoterMeans, Stages, Limits,
                                        TypeOK, Places
<1>3. Limits /\ DispatchInv /\ [Next]_vars => Limits'
  BY LimitsStep
<1> QED
  BY <1>1, <1>2, <1>3, DispatchInvariant, PTL DEF Spec
===============================================================================
