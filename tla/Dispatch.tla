------------------------------- MODULE Dispatch -------------------------------
(***************************************************************************)
(* The wsmux server's way from an accepted local connection to an active   *)
(* flow (wsmux_dispatch.go, dispatchLoop of wsmux.go, the leg selection of *)
(* wsmux_pool.go): the queue and the setup permits, the setup attempt with *)
(* its guard, admission by slot, opening the legs, the header, the hand-off*)
(* and, for a heavy plain flow, promotion to striped legs.                 *)
(*                                                                         *)
(* One generation is modelled.  Its context may be stopped at any time;    *)
(* pool sessions come and go by themselves (SessionPool says how).         *)
(***************************************************************************)
EXTENDS Integers, Sequences, FiniteSets, FiniteSetsExt

CONSTANTS Conns,        \* local connections
          Kinds,        \* the sets of them whose port may be striped (shouldStripe)
          Sessions,     \* pool sessions
          CDN,          \* Sessions -> the edge a session runs over
          NoSession,
          Legs,         \* legsPerFlow
          MuxCon,       \* mux_con, flows per session
          QueueSize,    \* capacity of localChannel
          Permits,      \* capacity of setupSlots
          MaxTries      \* promoteTries

ASSUME DispatchAssumption ==
    /\ IsFiniteSet(Conns) /\ Kinds \subseteq SUBSET Conns
    /\ NoSession \notin Sessions
    /\ Legs \in Nat \ {0} /\ MuxCon \in Nat \ {0}
    /\ QueueSize \in Nat \ {0} /\ Permits \in Nat \ {0} /\ MaxTries \in Nat \ {0}

VARIABLES
    striped,     \* the connections whose port is striped
    conn,        \* Conns -> where its worker is
    sock,        \* local connections whose socket is open
    guard,       \* Conns -> "none", "armed", "fired", "claimed"
    expired,     \* connections whose setup budget is used up
    queue,       \* localChannel
    uncounted,   \* queued by the acceptor and not counted yet
    dispatcher,  \* "idle", "permit" (holds one, waits for a connection), "ended"
    permits,     \* permits taken from setupSlots
    streams,     \* streamCounter
    plainFlows, stripedFlows, setupsActive,
    at,          \* Conns -> the session a leg is being opened on
    todo,        \* Conns -> sessions chosen for the legs still to open
    tried,       \* Conns -> sessions that failed this attempt to open a plain leg
    legs,        \* Conns -> sessions on which the connection has a stream
    promoter,    \* Conns -> watchPromotion: "off", "watch", "open" (the legs), "ask" (the
                 \*   peer), "late" (only the opener of the legs is left), "ended"
    promotion,   \* Conns -> streams opened for its promotion
    tries,       \* Conns -> promotions that failed
    pending,     \* Sessions -> pendingOpens
    pool,        \* live sessions of the registry
    stopped      \* the generation's context is done

workers == <<conn, sock, guard, expired>>
intake == <<queue, uncounted, dispatcher>>
counters == <<permits, streams, plainFlows, stripedFlows, setupsActive>>
legVars == <<at, todo, tried, legs, pending>>
promoVars == <<promoter, promotion, tries, striped>>
vars == <<workers, intake, counters, legVars, promoVars, pool, stopped>>

InSetup == {"begin", "poll", "reserve", "open", "header", "handoff"}
HoldsSlot == {"reserve", "open", "header", "handoff", "active"}

TypeOK ==
    /\ conn \in [Conns -> {"none", "accepted", "queued", "active", "over"} \cup InSetup]
    /\ sock \subseteq Conns /\ expired \subseteq Conns /\ uncounted \subseteq Conns
    /\ guard \in [Conns -> {"none", "armed", "fired", "claimed"}]
    /\ queue \in Seq(Conns) /\ Len(queue) <= QueueSize
    /\ dispatcher \in {"idle", "permit", "ended"}
    /\ permits \in 0..Permits /\ setupsActive \in 0..Permits
    /\ {streams, plainFlows, stripedFlows} \subseteq Int
    /\ at \in [Conns -> Sessions \cup {NoSession}]
    /\ {todo, tried, legs, promotion} \subseteq [Conns -> SUBSET Sessions]
    /\ promoter \in [Conns -> {"off", "watch", "open", "ask", "late", "ended"}]
    /\ tries \in [Conns -> 0..MaxTries] /\ pending \in [Sessions -> Nat]
    /\ pool \subseteq Sessions /\ stopped \in BOOLEAN /\ striped \in Kinds

Init ==
    /\ conn = [c \in Conns |-> "none"] /\ sock = {} /\ expired = {}
    /\ guard = [c \in Conns |-> "none"]
    /\ queue = <<>> /\ uncounted = {} /\ dispatcher = "idle"
    /\ permits = 0 /\ streams = 0 /\ plainFlows = 0 /\ stripedFlows = 0 /\ setupsActive = 0
    /\ at = [c \in Conns |-> NoSession]
    /\ todo = [c \in Conns |-> {}] /\ tried = todo /\ legs = todo /\ promotion = todo
    /\ promoter = [c \in Conns |-> "off"] /\ tries = [c \in Conns |-> 0]
    /\ pending = [x \in Sessions |-> 0]
    /\ pool = Sessions /\ stopped = FALSE /\ striped \in Kinds

-----------------------------------------------------------------------------
(* The acceptor and the dispatcher. *)

\* acceptLocalConn has a connection and finds the context alive.  One acceptor.
Accept(c) ==
    /\ conn[c] = "none" /\ ~stopped
    /\ uncounted = {} /\ \A d \in Conns : conn[d] # "accepted"
    /\ conn' = [conn EXCEPT ![c] = "accepted"]
    /\ sock' = sock \cup {c}
    /\ UNCHANGED <<guard, expired, intake, counters, legVars, promoVars, pool, stopped>>

\* It is queued, or closed if the queue is full.
Enqueue(c) ==
    /\ conn[c] = "accepted"
    /\ IF Len(queue) < QueueSize
       THEN /\ conn' = [conn EXCEPT ![c] = "queued"]
            /\ queue' = Append(queue, c)
            /\ uncounted' = {c} /\ UNCHANGED sock
       ELSE /\ conn' = [conn EXCEPT ![c] = "over"]
            /\ sock' = sock \ {c} /\ UNCHANGED <<queue, uncounted>>
    /\ UNCHANGED <<guard, expired, dispatcher, counters, legVars, promoVars, pool, stopped>>

\* Only then is it counted (and a session asked for if the pool is full).
Count ==
    /\ uncounted # {}
    /\ uncounted' = {}
    /\ streams' = streams + 1
    /\ UNCHANGED <<workers, queue, dispatcher, permits, plainFlows, stripedFlows, setupsActive,
                   legVars, promoVars, pool, stopped>>

\* dispatchLoop takes a permit before it dequeues.
TakePermit ==
    /\ dispatcher = "idle" /\ permits < Permits
    /\ dispatcher' = "permit" /\ permits' = permits + 1
    /\ UNCHANGED <<workers, queue, uncounted, streams, plainFlows, stripedFlows, setupsActive,
                   legVars, promoVars, pool, stopped>>

\* A worker is started (newSetupAttempt), or refused because the generation stopped.
TakeConn ==
    /\ dispatcher = "permit" /\ queue # <<>>
    /\ dispatcher' = "idle" /\ queue' = Tail(queue)
    /\ LET c == Head(queue) IN
       IF stopped
       THEN /\ conn' = [conn EXCEPT ![c] = "over"] /\ sock' = sock \ {c}
            /\ permits' = permits - 1 /\ streams' = streams - 1
            /\ UNCHANGED <<guard, setupsActive>>
       ELSE /\ conn' = [conn EXCEPT ![c] = "begin"]
            /\ guard' = [guard EXCEPT ![c] = "armed"]
            /\ setupsActive' = setupsActive + 1
            /\ UNCHANGED <<sock, permits, streams>>
    /\ UNCHANGED <<expired, uncounted, plainFlows, stripedFlows, legVars, promoVars, pool, stopped>>

\* closeQueuedLocal
CloseQueued(q) ==
    /\ queue' = <<>>
    /\ sock' = sock \ {q[i] : i \in 1..Len(q)}
    /\ conn' = [c \in Conns |-> IF \E i \in 1..Len(q) : q[i] = c THEN "over" ELSE conn[c]]

\* The generation stopped: dispatchLoop returns its permit and closes the queue.
DispatcherStops ==
    /\ stopped /\ dispatcher # "ended"
    /\ dispatcher' = "ended"
    /\ permits' = IF dispatcher = "permit" THEN permits - 1 ELSE permits
    /\ CloseQueued(queue) /\ streams' = streams - Len(queue)
    /\ UNCHANGED <<guard, expired, uncounted, plainFlows, stripedFlows, setupsActive, legVars,
                   promoVars, pool, stopped>>

\* Every worker has ended, the promoters too: Restart drains what was queued behind
\* the dispatcher and sets the counters to zero.
WorkersEnded ==
    /\ stopped /\ dispatcher = "ended" /\ uncounted = {}
    /\ \A c \in Conns : conn[c] \in {"none", "queued", "over"} /\ promoter[c] \in {"off", "late", "ended"}

DrainQueues ==
    /\ WorkersEnded /\ queue # <<>>
    /\ CloseQueued(queue) /\ streams' = 0
    /\ UNCHANGED <<guard, expired, uncounted, dispatcher, permits, plainFlows, stripedFlows,
                   setupsActive, legVars, promoVars, pool, stopped>>

-----------------------------------------------------------------------------
(* The setup attempt. *)

\* A seeded fault: a worker that waits only watches the context.
DoneByContext(c) == c \in Conns /\ stopped

\* done: the guard fired, the context is done, or the budget is used up.
Done(c) == guard[c] = "fired" \/ stopped \/ c \in expired

\* setupTimeout runs from the time the connection was accepted.
Expire(c) ==
    /\ conn[c] \in {"queued"} \cup InSetup /\ c \notin expired
    /\ expired' = expired \cup {c}
    /\ UNCHANGED <<conn, sock, guard, intake, counters, legVars, promoVars, pool, stopped>>

\* The guard's timer, or the context's, closes the socket unless it was claimed.
GuardFires(c) ==
    /\ guard[c] = "armed" /\ (c \in expired \/ stopped)
    /\ guard' = [guard EXCEPT ![c] = "fired"]
    /\ sock' = sock \ {c}
    /\ UNCHANGED <<conn, expired, intake, counters, legVars, promoVars, pool, stopped>>

\* The slot counters, changed by n for a connection of c's kind.
Slots(c, n) ==
    /\ plainFlows' = IF c \in striped THEN plainFlows ELSE plainFlows + n
    /\ stripedFlows' = IF c \in striped THEN stripedFlows + n ELSE stripedFlows

\* settle, close, uncount (drop), and the permit as the worker returns.
Drop(c) ==
    /\ conn' = [conn EXCEPT ![c] = "over"]
    /\ guard' = [guard EXCEPT ![c] = IF @ = "armed" THEN "claimed" ELSE @]
    /\ sock' = sock \ {c}
    /\ streams' = streams - 1
    /\ permits' = permits - 1 /\ setupsActive' = setupsActive - 1

\* done, and the wait that ended because of it.
GiveUp(c) ==
    /\ conn[c] \in {"begin", "poll"} /\ Done(c)
    /\ Drop(c)
    /\ tried' = [tried EXCEPT ![c] = {}]
    /\ UNCHANGED <<expired, intake, plainFlows, stripedFlows, at, todo, legs, pending, promoVars, pool, stopped>>

Largest(a, b) == IF a >= b THEN a ELSE b

\* acquirePlainSlot and acquireStripedSlot: within the pool's capacity, and at
\* least one flow while the pool warms up.
HasRoom(c) ==
    IF c \in striped
    THEN (stripedFlows + 1) * Legs <= Largest(Cardinality(pool) * MuxCon, Legs)
    ELSE plainFlows + 1 <= Largest(Cardinality(pool) * MuxCon, 1)

AcquireSlot(c) ==
    /\ conn[c] = "begin" /\ ~Done(c)
    /\ IF HasRoom(c)
       THEN conn' = [conn EXCEPT ![c] = "reserve"] /\ Slots(c, 1)
       ELSE conn' = [conn EXCEPT ![c] = "poll"] /\ UNCHANGED <<plainFlows, stripedFlows>>
    /\ tried' = [tried EXCEPT ![c] = {}]
    /\ UNCHANGED <<sock, guard, expired, intake, permits, streams, setupsActive, at, todo, legs,
                   pending, promoVars, pool, stopped>>

\* wait returned with the attempt still alive: poll for room, or try again.
Again(c) ==
    /\ conn[c] = "poll" /\ ~Done(c)
    /\ conn' = [conn EXCEPT ![c] = "begin"]
    /\ UNCHANGED <<sock, guard, expired, intake, counters, legVars, promoVars, pool, stopped>>

\* An attempt failed with a slot held: legs closed, slot released, back to wait.
Failed(c) ==
    /\ conn' = [conn EXCEPT ![c] = "poll"]
    /\ legs' = [legs EXCEPT ![c] = {}]
    /\ todo' = [todo EXCEPT ![c] = {}]
    /\ Slots(c, -1)
    /\ UNCHANGED <<sock, guard, permits, streams, setupsActive>>

-----------------------------------------------------------------------------
(* Opening the legs. *)

\* reservePlainLeg: the best live session that has not failed this attempt.
ReservePlain(c, x) ==
    /\ conn[c] = "reserve" /\ c \notin striped
    /\ x \in pool \ tried[c]
    /\ conn' = [conn EXCEPT ![c] = "open"]
    /\ at' = [at EXCEPT ![c] = x]
    /\ pending' = [pending EXCEPT ![x] = @ + 1]
    /\ UNCHANGED <<sock, guard, expired, intake, counters, todo, tried, legs, promoVars, pool, stopped>>

\* selectLegs: n sessions over as many edges as there are.
Spread(L) == Cardinality({CDN[x] : x \in L})
SelectLegs(avail) ==
    {L \in kSubset(Legs, avail) : \A M \in kSubset(Legs, avail) : Spread(M) <= Spread(L)}

\* openStripedLegsOn takes its snapshot of the registry.
ReserveStriped(c) ==
    /\ conn[c] = "reserve" /\ c \in striped
    /\ \E L \in SelectLegs(pool) : todo' = [todo EXCEPT ![c] = L]
    /\ conn' = [conn EXCEPT ![c] = "open"]
    /\ UNCHANGED <<sock, guard, expired, intake, counters, at, tried, legs, pending, promoVars, pool, stopped>>

\* Too few sessions, or each one failed.
NoLeg(c) ==
    /\ conn[c] = "reserve"
    /\ IF c \in striped THEN Cardinality(pool) < Legs ELSE pool \ tried[c] = {}
    /\ Failed(c)
    /\ UNCHANGED <<expired, intake, at, tried, pending, promoVars, pool, stopped>>

\* The legs are open: a header is sent, unless the attempt is over by now.
Opened(c, L) ==
    IF Done(c)
    THEN Drop(c) /\ Slots(c, -1) /\ legs' = [legs EXCEPT ![c] = {}]
    ELSE /\ conn' = [conn EXCEPT ![c] = "header"]
         /\ legs' = [legs EXCEPT ![c] = L]
         /\ UNCHANGED <<sock, guard, counters>>

\* OpenStreamWithin on the reserved session returns.
OpenPlain(c) ==
    /\ conn[c] = "open" /\ c \notin striped
    /\ at' = [at EXCEPT ![c] = NoSession]
    /\ pending' = [pending EXCEPT ![at[c]] = @ - 1]
    /\ \/ at[c] \in pool /\ Opened(c, {at[c]}) /\ UNCHANGED tried
       \/ /\ conn' = [conn EXCEPT ![c] = "reserve"]
          /\ tried' = [tried EXCEPT ![c] = @ \cup {at[c]}]
          /\ UNCHANGED <<sock, guard, counters, legs>>
    /\ UNCHANGED <<expired, intake, todo, promoVars, pool, stopped>>

\* A seeded fault: the slot stays taken when a leg cannot be opened.
StripedFailsKeepingSlot(c) ==
    /\ conn' = [conn EXCEPT ![c] = "poll"]
    /\ legs' = [legs EXCEPT ![c] = {}]
    /\ todo' = [todo EXCEPT ![c] = {}]
    /\ UNCHANGED <<sock, guard, counters>>

\* A leg fails to open: those opened before it are closed.
StripedFails(c) == Failed(c)

\* OpenStream for one leg.
OpenStriped(c) ==
    /\ conn[c] = "open" /\ c \in striped
    /\ \E x \in todo[c] :
         \/ /\ x \in pool
            /\ todo' = [todo EXCEPT ![c] = @ \ {x}]
            /\ IF todo[c] = {x}
               THEN Opened(c, legs[c] \cup {x})
               ELSE /\ legs' = [legs EXCEPT ![c] = @ \cup {x}]
                    /\ UNCHANGED <<conn, sock, guard, counters>>
         \/ x \notin pool /\ StripedFails(c)
    /\ UNCHANGED <<expired, intake, at, tried, pending, promoVars, pool, stopped>>

\* The header is written to every leg, or the write fails (a session died, or
\* the write deadline, the attempt's expiry, passed).
SendHeader(c) ==
    /\ conn[c] = "header"
    /\ \/ legs[c] \subseteq pool
          /\ conn' = [conn EXCEPT ![c] = "handoff"]
          /\ UNCHANGED <<sock, guard, counters, todo, legs>>
       \/ (~(legs[c] \subseteq pool) \/ c \in expired) /\ Failed(c)
    /\ UNCHANGED <<expired, intake, at, tried, pending, promoVars, pool, stopped>>

\* settle says whether the guard fired; if not it is claimed, and never fires.
Settled(c) == guard[c] # "fired"

\* dispatchPromotable starts a promoter next to the flow.
Watched(c) == [promoter EXCEPT ![c] = IF c \notin striped /\ Legs > 1 THEN "watch" ELSE @]

\* handoff: the flow becomes active and its permit is released, or all is undone.
Handoff(c) ==
    /\ conn[c] = "handoff"
    /\ IF Settled(c)
       THEN /\ conn' = [conn EXCEPT ![c] = "active"]
            /\ guard' = [guard EXCEPT ![c] = "claimed"]
            /\ permits' = permits - 1 /\ setupsActive' = setupsActive - 1
            /\ promoter' = Watched(c)
            /\ UNCHANGED <<sock, streams, plainFlows, stripedFlows, legs>>
       ELSE Drop(c) /\ Slots(c, -1) /\ legs' = [legs EXCEPT ![c] = {}] /\ UNCHANGED promoter
    /\ UNCHANGED <<expired, intake, at, todo, tried, pending, promotion, tries, striped, pool, stopped>>

\* The flow ends, wherever its promoter is: an application closes, its session dies,
\* a swap failed after the freeze, the context is done.
FlowEnds(c) ==
    /\ conn[c] = "active"
    /\ conn' = [conn EXCEPT ![c] = "over"]
    /\ sock' = sock \ {c}
    /\ legs' = [legs EXCEPT ![c] = {}]
    /\ streams' = streams - 1
    /\ Slots(c, -1)
    /\ UNCHANGED <<guard, expired, intake, permits, setupsActive, at, todo, tried, pending,
                   promoVars, pool, stopped>>

-----------------------------------------------------------------------------
(* Promotion of a heavy plain flow.  The promoter is a worker of its own: the  *)
(* flow may end, and the generation stop, at any point of it.                  *)

\* shouldPromote: there are enough edges for every plain flow to have its legs.
ShouldPromote == plainFlows <= Largest(Spread(pool) \div Legs, 1)

Promotes(c, from, to) == promoter[c] = from /\ promoter' = [promoter EXCEPT ![c] = to]

\* watchPromotion returns: the context or the flow is done, or the pool is busy.
WatchEnds(c) ==
    /\ Promotes(c, "watch", "ended")
    /\ stopped \/ conn[c] = "over" \/ ~ShouldPromote
    /\ UNCHANGED <<workers, intake, counters, legVars, promotion, tries, striped, pool, stopped>>

\* promoteFlow starts to open the legs; with too few sessions there are none.
PromoteBegins(c) ==
    /\ Promotes(c, "watch", "open")
    /\ conn[c] = "active" /\ ShouldPromote
    /\ \/ \E L \in SelectLegs(pool) : promotion' = [promotion EXCEPT ![c] = L]
       \/ Cardinality(pool) < Legs /\ UNCHANGED promotion
    /\ UNCHANGED <<workers, intake, counters, legVars, tries, striped, pool, stopped>>

\* The legs are open and their headers sent; the peer's count is awaited.
PromoteAsks(c) ==
    /\ Promotes(c, "open", "ask")
    /\ promotion[c] # {} /\ promotion[c] \subseteq pool
    /\ UNCHANGED <<workers, intake, counters, legVars, promotion, tries, striped, pool, stopped>>

\* A leg, a header or the handshake fails, or the flow is not to be frozen any more:
\* the legs are closed and the flow, if there still is one, stays where it is.
PromoteFails(c) ==
    /\ promoter[c] \in {"open", "ask"}
    /\ promoter' = [promoter EXCEPT ![c] = IF tries[c] + 1 = MaxTries THEN "ended" ELSE "watch"]
    /\ promotion' = [promotion EXCEPT ![c] = {}]
    /\ tries' = [tries EXCEPT ![c] = @ + 1]
    /\ UNCHANGED <<workers, intake, counters, legVars, striped, pool, stopped>>

\* The context is done while the legs are being opened: the promoter returns, and
\* leaves the opener behind,
PromoteLeaves(c) ==
    /\ Promotes(c, "open", "late") /\ stopped
    /\ UNCHANGED <<workers, intake, counters, legVars, promotion, tries, striped, pool, stopped>>

\* which closes what it opened.
OpenerCloses(c) ==
    /\ Promotes(c, "late", "ended")
    /\ promotion' = [promotion EXCEPT ![c] = {}]
    /\ UNCHANGED <<workers, intake, counters, legVars, tries, striped, pool, stopped>>

\* A seeded fault: Install does not ask whether the flow is over.
InstallsAnyway(c) ==
    /\ Promotes(c, "ask", "ended")
    /\ promotion[c] \subseteq pool
    /\ legs' = [legs EXCEPT ![c] = promotion[c]]
    /\ promotion' = [promotion EXCEPT ![c] = {}]
    /\ UNCHANGED <<workers, intake, counters, at, todo, tried, pending, tries, striped, pool, stopped>>

\* The swap: Install refuses a flow that is over; the plain leg is let go.
PromoteSwaps(c) ==
    /\ Promotes(c, "ask", "ended")
    /\ conn[c] = "active" /\ promotion[c] \subseteq pool
    /\ legs' = [legs EXCEPT ![c] = promotion[c]]
    /\ promotion' = [promotion EXCEPT ![c] = {}]
    /\ UNCHANGED <<workers, intake, counters, at, todo, tried, pending, tries, striped, pool, stopped>>

Promote(c) ==
    \/ WatchEnds(c) \/ PromoteBegins(c) \/ PromoteAsks(c) \/ PromoteFails(c)
    \/ PromoteLeaves(c) \/ OpenerCloses(c) \/ PromoteSwaps(c)

-----------------------------------------------------------------------------
(* The environment. *)

SessionDies(x) ==
    /\ x \in pool
    /\ pool' = pool \ {x}
    /\ UNCHANGED <<workers, intake, counters, legVars, promoVars, stopped>>

\* A new session takes the place of one that nothing refers to.
SessionJoins(x) ==
    /\ x \notin pool
    /\ \A c \in Conns : x \notin legs[c] \cup todo[c] \cup tried[c] \cup promotion[c] \cup {at[c]}
    /\ pool' = pool \cup {x}
    /\ UNCHANGED <<workers, intake, counters, legVars, promoVars, stopped>>

Stop ==
    /\ ~stopped
    /\ stopped' = TRUE
    /\ UNCHANGED <<workers, intake, counters, legVars, promoVars, pool>>

Work(c) ==
    \/ GiveUp(c) \/ AcquireSlot(c) \/ Again(c)
    \/ (\E x \in Sessions : ReservePlain(c, x)) \/ ReserveStriped(c) \/ NoLeg(c)
    \/ OpenPlain(c) \/ OpenStriped(c) \/ SendHeader(c) \/ Handoff(c)

Next ==
    \/ \E c \in Conns : \/ Accept(c) \/ Enqueue(c) \/ Expire(c) \/ GuardFires(c)
                        \/ Work(c) \/ FlowEnds(c) \/ Promote(c)
    \/ Count \/ TakePermit \/ TakeConn \/ DispatcherStops \/ DrainQueues
    \/ (\E x \in Sessions : SessionDies(x) \/ SessionJoins(x)) \/ Stop

Spec == Init /\ [][Next]_vars

\* Workers, promoters, the dispatcher and the timers run, and flows end once the context is
\* done; nothing is assumed of the sessions or of the applications.
Fairness ==
    /\ \A c \in Conns : WF_vars(Work(c)) /\ WF_vars(Expire(c)) /\ WF_vars(Enqueue(c))
                        /\ WF_vars(Promote(c)) /\ WF_vars(stopped /\ FlowEnds(c))
    /\ WF_vars(Count) /\ WF_vars(TakePermit) /\ WF_vars(TakeConn)
    /\ WF_vars(DispatcherStops) /\ WF_vars(DrainQueues)

FairSpec == Spec /\ Fairness

-----------------------------------------------------------------------------
(* Properties. *)

In(S) == {c \in Conns : conn[c] \in S}

\* Slots and reservations: each is held by the connection that took it, and
\* every early return gives it back.
SlotsHeld ==
    /\ plainFlows = Cardinality(In(HoldsSlot) \ striped)
    /\ stripedFlows = Cardinality(In(HoldsSlot) \cap striped)
    /\ \A x \in Sessions : pending[x] = Cardinality({c \in Conns : at[c] = x})

\* Permits: one per worker in setup and one in the dispatcher's hand.
PermitsHeld ==
    /\ setupsActive = Cardinality(In(InSetup))
    /\ permits = setupsActive + IF dispatcher = "permit" THEN 1 ELSE 0

\* streamCounter counts the connections that are queued, in setup or active; it
\* runs behind by the one that is queued and not yet counted.
StreamsCounted ==
    streams + Cardinality(uncounted) = Cardinality(In({"queued", "active"} \cup InSetup))

\* Whatever fails on the way, in whatever order, what a connection took is given
\* back, once.
BooksBalance == SlotsHeld /\ PermitsHeld /\ StreamsCounted

\* A connection that was handed off is never closed by the guard of its setup; one
\* that is over leaves neither a socket nor a stream behind, even if a promoter is
\* about to swap its legs; and a promoter that is not at work has no legs open.
HandedOffOrClosed ==
    \A c \in Conns :
        /\ conn[c] = "active" => c \in sock /\ guard[c] = "claimed"
        /\ conn[c] = "over" => c \notin sock /\ legs[c] = {}
        /\ promoter[c] \in {"off", "watch", "ended"} => promotion[c] = {}

\* A connection that is queued is in service or closed in the end, whatever
\* becomes of the sessions: nobody holds a permit for ever.
SetupEnds == \A c \in Conns : conn[c] = "queued" ~> conn[c] \in {"active", "over"}
=============================================================================
