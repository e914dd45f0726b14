------------------------------ MODULE PumpSwapper ------------------------------
(***************************************************************************)
(* The two ends of one flow and the tunnels between them: PumpSwapper and   *)
(* its pumps (internal/utils/handlers/promotable_pump.go and                *)
(* promotable_pump_resume.go) over half-close envelopes (halfclose_conn.go).*)
(* At each end the upload pump copies the app to the tunnel and the         *)
(* download pump copies the tunnel to the app.  A swap moves both onto a    *)
(* new tunnel at a write boundary; with replay, a tunnel that fails         *)
(* suspends the flow and a resume replays what the peer has not delivered.  *)
(* The handshakes that run swaps and resumes are module ResumableFlow.      *)
(*                                                                          *)
(* Payload byte number b of a direction is the number b, read and recorded  *)
(* one at a time.  A step is a critical section of the swapper's mutex or   *)
(* one blocking operation of a goroutine.  The replay ring is its two       *)
(* offsets: module ReplayRing shows it holds the bytes between them.        *)
(***************************************************************************)
EXTENDS Integers, Sequences

CONSTANTS RingLimit,   \* the most bytes the replay ring retains
          MaxTunnels,  \* bound: tunnels opened, the first one included
          Scenarios    \* what a behaviour is about, see Scenario below

Ends    == {"server", "client"}
Peer(e) == IF e = "server" THEN "client" ELSE "server"
Tunnels == 1..MaxTunnels

\* "app":     the socket of an app that does not close fails, or the generation ends
\* "timeout": a handshake step times out
\* "window":  the resume window (or the linger for ACKs) runs out
\* "linger":  ReleaseLinger runs out
\* "retire":  a session is closed once the server has no stream on it
\* "giveup":  the server suspends a flow it could not move (once)
\* "outlive": a handshake is still running when a later resume finishes
FaultKinds == {"app", "timeout", "window", "linger", "retire", "giveup", "outlive"}

\* One behaviour: what the apps send and which of them then close, whether
\* EnableReplay was called (at both ends), the bounds on the tunnels opened,
\* the moves the server tries and the tunnels that are cut or given up on,
\* and what else may go wrong.
Scenario(lens) == [len : lens, closers : SUBSET Ends, replay : BOOLEAN,
             tunnels : 1..MaxTunnels, moves : Nat, cuts : Nat, faults : SUBSET FaultKinds]

ASSUME SwapperAssumption ==
    /\ RingLimit \in Nat \ {0} /\ MaxTunnels \in Nat \ {0}
    /\ \A s \in Scenarios : \A e \in Ends : s.len[e] \in Nat
    /\ Scenarios \subseteq Scenario({s.len : s \in Scenarios})

VARIABLES flow,  \* [Ends -> the PumpSwapper, its goroutines, its app and its handshakes]
          tun,   \* [Tunnels -> [Ends -> that end's side of the stream and envelope]]
          cut,   \* the tunnels whose session died
          used,  \* tunnels opened so far
          moves, \* moves tried so far
          cuts,  \* tunnels cut or given up on so far
          sc     \* the scenario, which does not change

vars == <<flow, tun, cut, used, moves, cuts, sc>>

AppLen == sc.len
Replay == sc.replay

NoAttempt == [pc |-> "none", mode |-> "none", own |-> 0]

Init ==
    /\ flow = [e \in Ends |->
         [cur |-> 1, next |-> 0, upDst |-> 1,
          freezeReq |-> FALSE, frozen |-> FALSE, installed |-> FALSE,
          upSwitched |-> FALSE, dlSwitched |-> FALSE, upLimit |-> 0, dlLimit |-> 0,
          upEnded |-> FALSE, dlEnded |-> FALSE, aborted |-> "no", done |-> FALSE,
          suspended |-> FALSE, upParked |-> FALSE, dlParked |-> FALSE,
          resumeConn |-> 0, resumeFrom |-> 0,
          upBytes |-> 0,
          base |-> 0, end |-> 0,                 \* the replay ring's offsets
          readDl |-> FALSE, writeDl |-> FALSE,   \* deadlines armed on the app's socket
          rel |-> {},                            \* old tunnels that are to be released
          up  |-> [pc |-> "run", dst |-> 1, pend |-> 0],
          dl  |-> [pc |-> "read", src |-> 1, err |-> "none"],
          ack |-> [pc |-> "idle", kick |-> FALSE, sent |-> 0, endSent |-> FALSE, endAcked |-> FALSE,
                   fresh |-> FALSE, c |-> 0, dl |-> 0, ended |-> FALSE],
          att |-> [t \in Tunnels |-> NoAttempt],
          read |-> 0, got |-> << >>, st |-> "open"]]   \* the app: sent, received, its view
    /\ tun = [t \in Tunnels |-> [e \in Ends |->
                [in |-> << >>, open |-> t = 1, ended |-> FALSE, rended |-> FALSE,
                 served |-> FALSE, wake |-> FALSE]]]
    /\ cut = {} /\ used = 1 /\ moves = 0 /\ cuts = 0
    /\ sc \in Scenarios

-------------------------------------------------------------------------------
(* Tunnels: a smux stream with the half-close envelope on top.              *)

\* What end e's write of records ms to t leaves: they reach the peer unless
\* the session is dead or the peer has closed its side.
Written(tn, t, e, ms) ==
    IF t \in cut \/ ~tn[t][Peer(e)].open THEN tn
    ELSE [tn EXCEPT ![t][Peer(e)].in = @ \o ms]

\* A write succeeds on a side that is open; it may fail once the session is
\* dead or the peer has closed, and does on a side that is closed.
WriteMay(t, e, ok) ==
    IF ok THEN tun[t][e].open /\ t \notin cut
    ELSE ~tun[t][e].open \/ t \in cut \/ ~tun[t][Peer(e)].open

Has(t, e)   == tun[t][e].open /\ tun[t][e].in # << >>
Head1(t, e) == Head(tun[t][e].in)
Popped(t, e) == [tun EXCEPT ![t][e].in = Tail(@)]

\* The stream has ended under its reader: closed here, or by the peer, or cut.
Ended(t, e) ==
    \/ ~tun[t][e].open
    \/ Has(t, e) /\ Head1(t, e)[1] = "fin"
    \/ tun[t][e].in = << >> /\ t \in cut

\* End e closes its side: the peer reads what was sent, then the end of the
\* stream.  Close is loud while this end may still send: an ABORT goes first.
Closed(tn, t, e, loud) ==
    IF t = 0 \/ ~tn[t][e].open THEN tn
    ELSE LET a == IF loud /\ ~tn[t][e].ended THEN <<<<"abort", 0>>>> ELSE << >>
         IN  [Written(tn, t, e, a \o <<<<"fin", 0>>>>)
                EXCEPT ![t][e].open = FALSE, ![t][e].in = << >>, ![t][e].wake = FALSE]

Dropped(tn, t, e) == Closed(tn, t, e, FALSE)

\* Without ACKs the stream is closed when both directions have ended; with
\* them its owner closes it.
BothEnded(tn, t, e) ==
    IF ~Replay /\ tn[t][e].ended /\ tn[t][e].rended THEN Dropped(tn, t, e) ELSE tn

\* CloseWrite: END, once.
EndWritten(tn, t, e) ==
    IF tn[t][e].ended THEN tn
    ELSE BothEnded([Written(tn, t, e, <<<<"end", 0>>>>) EXCEPT ![t][e].ended = TRUE], t, e)

-------------------------------------------------------------------------------
(* Changes of one end's state.                                              *)

dlBytes(f)  == Len(f.got)
Running(f)  == f.aborted = "no" /\ ~f.done
settled(f)  == f.base = f.end /\ f.ack.endAcked /\ f.ack.endSent
Parked(f)   == f.suspended /\ (f.upEnded \/ f.upParked) /\ (f.dlEnded \/ f.dlParked)
Swapping(f) == f.installed /\ ~f.dlSwitched

Swappable(f) ==
    Running(f) /\ ~f.suspended /\ ~f.freezeReq /\ ~(f.upEnded /\ f.dlEnded)

CanSuspend(f) == Replay /\ Running(f) /\ ~(f.upEnded /\ f.dlEnded /\ settled(f))

\* The pumps that wait for the outcome of a swap are released when it is known.
Released(f) ==
    [f EXCEPT !.up.pc = IF @ = "frozen" THEN "wake" ELSE @,
              !.dl.pc = IF @ = "wait" THEN "decide" ELSE @]

\* Suspend(), where it may: a swap in progress dies with the tunnel, blocked
\* app reads and writes are woken and a FreezeUp still waiting for its boundary
\* fails.  The tunnels are dropped; that a goroutine does it, for as long as
\* it takes, shows at the far end only, as a FIN that is long on its way.
Suspended(f) ==
    IF f.suspended THEN f
    ELSE [Released(f) EXCEPT
            !.suspended = TRUE,
            !.freezeReq = FALSE, !.frozen = FALSE, !.installed = FALSE,
            !.upSwitched = FALSE, !.dlSwitched = FALSE, !.next = 0,
            !.upParked = FALSE, !.dlParked = FALSE,
            !.readDl = TRUE, !.writeDl = TRUE,
            !.att = [t \in Tunnels |-> IF @[t].pc = "freezing"
                                       THEN [@[t] EXCEPT !.pc = "fail"] ELSE @[t]]]

SuspendTun(tn, f, e) ==
    IF f.suspended THEN tn ELSE Dropped(Dropped(tn, f.cur, e), f.next, e)

\* Abort(): app and tunnels are closed, the far end told with ABORT if that
\* gets through, every goroutine that waits is released.
Aborted(f, why) ==
    IF ~Running(f) THEN f
    ELSE [f EXCEPT !.aborted = why, !.up.pc = "done", !.dl.pc = "done",
                   !.ack.kick = FALSE, !.ack.pc = "idle",
                   !.st = IF @ = "open" THEN "closed" ELSE @,
                   !.att = [t \in Tunnels |-> IF @[t].pc \in {"freezing", "begin"}
                                              THEN [@[t] EXCEPT !.pc = "fail"] ELSE @[t]]]

AbortTun(tn, f, e, loud) ==
    IF ~Running(f) THEN tn ELSE Closed(Closed(tn, f.cur, e, loud), f.next, e, loud)

Step(e, f, tn) == flow' = [flow EXCEPT ![e] = f] /\ tun' = tn /\ UNCHANGED <<cut, used, moves, cuts, sc>>

Abort(e, f, tn, why) ==
    \E loud \in BOOLEAN : Step(e, Aborted(f, why), AbortTun(tn, f, e, loud))

SuspendOrAbort(e, f, tn, why) ==
    IF CanSuspend(f) THEN Step(e, Suspended(f), SuspendTun(tn, f, e)) ELSE Abort(e, f, tn, why)

\* resetAcked() and kickAck(): the new tunnel has heard no acknowledgement.
Unacked(f) == Replay /\ (dlBytes(f) > f.ack.sent \/ (f.dlEnded /\ ~f.ack.endSent))

\* Mutant: nothing is said on the new tunnel until more is delivered.
ResetAckedSilently(f) ==
    [f EXCEPT !.ack.fresh = FALSE, !.ack.sent = 0, !.ack.endSent = FALSE]

ResetAcked(f) ==
    LET r == [f EXCEPT !.ack.fresh = FALSE, !.ack.sent = 0, !.ack.endSent = FALSE]
    IN  [r EXCEPT !.ack.kick = @ \/ Unacked(r)]

\* switched(): the second direction completes the swap; the old tunnel is
\* released by a goroutine.
Switched(f, dir) ==
    LET s == [f EXCEPT !.upSwitched = @ \/ dir = "up", !.dlSwitched = @ \/ dir = "dl"]
    IN  IF ~(s.upSwitched /\ s.dlSwitched) THEN s
        ELSE ResetAcked([s EXCEPT !.cur = s.next, !.next = 0, !.rel = @ \cup {s.cur},
                                  !.freezeReq = FALSE, !.frozen = FALSE, !.installed = FALSE,
                                  !.upSwitched = FALSE, !.dlSwitched = FALSE])

-------------------------------------------------------------------------------
(* The upload pump (pumpAppToTunnel).                                       *)

\* parkUp: the pump sleeps until ResumeFinish, then replays to the new tunnel.
UpParked(f) == [f EXCEPT !.readDl = FALSE, !.upParked = TRUE, !.up.pc = "parked"]

\* The boundary after a send or a woken read: a suspension parks the pump, a
\* freeze makes UpBytes final and answers the FreezeUp that waits for it.
freeze(f) == f.freezeReq /\ ~f.frozen

AfterFreeze(e) == IF e = "server" THEN "count" ELSE "accept"

Frozen(e, f) ==
    [f EXCEPT !.frozen = TRUE, !.upLimit = f.upBytes,
              !.att = [t \in Tunnels |-> IF @[t].pc = "freezing"
                        THEN [@[t] EXCEPT !.own = f.upBytes, !.pc = AfterFreeze(e)] ELSE @[t]]]

UpBoundary(e) ==
    LET f == flow[e]
    IN  /\ f.up.pc = "run"
        /\ \/ f.suspended /\ Step(e, UpParked(f), tun)
           \/ /\ ~f.suspended /\ freeze(f)
              /\ Step(e, [Frozen(e, f) EXCEPT !.readDl = FALSE, !.up.pc = "frozen"], tun)

\* Past the boundary: what was held back, or the app's next byte if no freeze
\* or suspension has armed the deadline of its read.
PastBoundary(f) == f.up.pc = "run" /\ ~f.suspended /\ ~freeze(f)
HasByte(e, f)   == f.up.pend # 0 \/ (f.read < AppLen[e] /\ ~f.readDl)
WithByte(f)     == IF f.up.pend # 0 THEN f ELSE [f EXCEPT !.read = @ + 1, !.up.pend = f.read + 1]
Room(f)         == Replay => f.end - f.base < RingLimit

\* Retain the byte (append), then write it to dst.
UpSend(e) ==
    LET f == WithByte(flow[e])
        kept == [f EXCEPT !.up.pend = 0, !.up.pc = "run", !.end = IF Replay THEN @ + 1 ELSE @]
    IN  /\ \/ PastBoundary(flow[e]) /\ HasByte(e, flow[e])
           \/ flow[e].up.pc = "full" /\ ~flow[e].suspended
        /\ Room(f)
        /\ \/ /\ WriteMay(f.up.dst, e, TRUE)
              /\ Step(e, [kept EXCEPT !.upBytes = @ + 1],
                      Written(tun, f.up.dst, e, <<<<"data", f.up.pend>>>>))
           \/ /\ WriteMay(f.up.dst, e, FALSE)
              /\ SuspendOrAbort(e, kept, tun, "tunnel")

\* waitReplayRoom on a full ring, and its interruption: the byte is held back
\* until the flow is on another tunnel, where the ACKs it needs arrive.
UpFull(e) ==
    LET f == flow[e]
    IN  \/ /\ PastBoundary(f) /\ HasByte(e, f) /\ ~Room(f)
           /\ Step(e, [WithByte(f) EXCEPT !.up.pc = "full"], tun)
        \/ /\ f.up.pc = "full" /\ (f.suspended \/ (freeze(f) /\ ~Room(f)))
           /\ Step(e, [f EXCEPT !.up.pc = "run"], tun)

\* The app's EOF.
UpEOF(e) ==
    LET f == flow[e]
    IN  /\ PastBoundary(f) /\ f.up.pend = 0 /\ ~f.readDl
        /\ e \in sc.closers /\ f.read = AppLen[e]
        /\ Step(e, [f EXCEPT !.upEnded = TRUE, !.up.pc = "end"], tun)

\* The upload's EOF goes to dst.  A failure that is not a swap's own doing
\* suspends the flow, and the resume sends the end again.
UpEnd(e) ==
    LET f    == flow[e]
        over == [f EXCEPT !.up.pc = "done"]
    IN  /\ f.up.pc = "end"
        /\ \/ WriteMay(f.up.dst, e, TRUE) /\ Step(e, over, EndWritten(tun, f.up.dst, e))
           \/ /\ WriteMay(f.up.dst, e, FALSE)
              /\ IF ~f.freezeReq /\ f.cur = f.up.dst /\ CanSuspend(f)
                 THEN Step(e, Suspended(over), SuspendTun(tun, f, e))
                 ELSE Step(e, over, tun)

\* Frozen no longer: the new tunnel is installed, or the flow was suspended.
\* switched(true) is a critical section of its own.
UpWake(e) ==
    LET f == flow[e]
    IN  /\ f.up.pc = "wake"
        /\ IF f.suspended THEN Step(e, UpParked(f), tun)
           ELSE IF f.next = 0 THEN Abort(e, f, tun, "crash")
           ELSE Step(e, [f EXCEPT !.up.dst = f.next, !.upDst = f.next, !.up.pc = "switching"], tun)

UpSwitched(e) ==
    /\ flow[e].up.pc = "switching"
    /\ Step(e, [Switched(flow[e], "up") EXCEPT !.up.pc = "run"], tun)

\* The retained bytes from flow offset from on, as the records replayTo writes.
Retained(f, from) == [i \in 1..(f.end - from) |-> <<"data", from + i>>]

UpReplay(e) ==
    LET f == flow[e]
        t == f.resumeConn
    IN  /\ f.up.pc = "replay"
        /\ \/ /\ f.resumeFrom = f.end \/ (WriteMay(t, e, TRUE) /\ f.resumeFrom >= f.base)
              /\ Step(e, [f EXCEPT !.upBytes = f.end, !.up.dst = t, !.up.pc = "run"],
                      Written(tun, t, e, Retained(f, f.resumeFrom)))
           \/ /\ f.resumeFrom < f.end /\ (WriteMay(t, e, FALSE) \/ f.resumeFrom < f.base)
              /\ IF CanSuspend(f) THEN Step(e, UpParked(Suspended(f)), SuspendTun(tun, f, e))
                 ELSE Abort(e, f, tun, "tunnel")

-------------------------------------------------------------------------------
(* The download pump (pumpTunnelToApp).                                     *)

\* Mutants: the old tunnel is left one byte early, or read past the count.
LookedEarly(f) ==
    [f EXCEPT !.dl.pc = IF Swapping(f) /\ dlBytes(f) + 1 >= f.dlLimit THEN "switch" ELSE "read"]

LookedLate(f) ==
    [f EXCEPT !.dl.pc = IF Swapping(f) /\ dlBytes(f) > f.dlLimit THEN "switch" ELSE "read"]

\* Before a read: the promised count must not have been passed already, and
\* ends this tunnel's part when it is reached.
Looked(f) ==
    [f EXCEPT !.dl.pc = IF ~Swapping(f) \/ dlBytes(f) < f.dlLimit THEN "read"
                        ELSE IF dlBytes(f) = f.dlLimit THEN "switch" ELSE "overrun"]

DlOverrun(e) == flow[e].dl.pc = "overrun" /\ Abort(e, flow[e], tun, "overrun")

\* parkDl: the pump sleeps until ResumeFinish and goes on with the new tunnel.
DlParked(f) == [f EXCEPT !.writeDl = FALSE, !.dlParked = TRUE, !.dl.pc = "parked"]

\* A data byte goes to the app, which it reaches unless a suspension has armed
\* the write deadline: then it is dropped, and not counted.
DlData(e) ==
    LET f == flow[e]
        t == f.dl.src
    IN  /\ f.dl.pc = "read" /\ Has(t, e) /\ Head1(t, e)[1] = "data"
        /\ IF f.writeDl /\ f.suspended THEN Step(e, DlParked(f), Popped(t, e))
           ELSE IF f.writeDl THEN Abort(e, f, Popped(t, e), "app")
           ELSE Step(e, Looked([f EXCEPT !.got = Append(@, Head1(t, e)[2]), !.ack.kick = Replay]),
                     Popped(t, e))

\* An ACK record: ackTo, and whether the peer has our END.
AckedBy(f, m) ==
    [f EXCEPT !.base = IF m[2] > @ /\ m[2] <= f.end THEN m[2] ELSE @,
              !.ack.endAcked = @ \/ m[1] = "ackend"]

DlAck(e) ==
    LET f == flow[e]
        t == f.dl.src
    IN  /\ f.dl.pc = "read" /\ Has(t, e) /\ Head1(t, e)[1] \in {"ack", "ackend"}
        /\ Step(e, AckedBy(f, Head1(t, e)), Popped(t, e))

\* The deadline Install arms on the old tunnel: look again.
DlWake(e) ==
    LET t == flow[e].dl.src
    IN  /\ flow[e].dl.pc = "read" /\ tun[t][e].wake /\ tun[t][e].in = << >>
        /\ Step(e, Looked(flow[e]), [tun EXCEPT ![t][e].wake = FALSE])

\* The stream ended (END: with ACKs somebody else parses it from here on), was
\* aborted by the peer, or failed.  With our upload frozen this may be the
\* peer releasing its old tunnel, so the outcome of the swap is waited for.
DlEndOrFail(e) ==
    LET f == flow[e]
        t == f.dl.src
        failed(err) == [f EXCEPT !.dl.err = err,
                                 !.dl.pc = IF ~f.installed /\ f.frozen THEN "wait" ELSE "decide"]
    IN  /\ f.dl.pc = "read"
        /\ \/ /\ Has(t, e) /\ Head1(t, e)[1] = "end"
              /\ Step(e, failed("eof"),
                      BothEnded([Popped(t, e) EXCEPT ![t][e].rended = TRUE,
                                                     ![t][e].served = Replay], t, e))
           \/ /\ Has(t, e) /\ Head1(t, e)[1] = "abort"
              /\ Step(e, failed("abort"), Dropped(tun, t, e))
           \/ /\ Ended(t, e)
              /\ Step(e, failed("broken"), Dropped(tun, t, e))

DlDecide(e) ==
    LET f == flow[e]
        g == [f EXCEPT !.dl.err = "none"]
    IN  /\ f.dl.pc = "decide"
        /\ IF Swapping(f) /\ dlBytes(f) >= f.dlLimit
           THEN Step(e, [g EXCEPT !.dl.pc = "switch"], tun)
           ELSE IF ~Swapping(f) /\ f.dl.err = "eof"
           THEN Step(e, [g EXCEPT !.dlEnded = TRUE, !.ack.kick = Replay, !.st = "eof",
                                  !.dl.pc = "done"], tun)
           ELSE IF f.dl.err # "abort" /\ CanSuspend(f)
           THEN Step(e, DlParked(Suspended(g)), SuspendTun(tun, f, e))
           ELSE Abort(e, g, tun, IF f.dl.err = "abort" THEN "peer" ELSE "tunnel")

DlSwitch(e) ==
    LET f == flow[e]
    IN  /\ f.dl.pc = "switch"
        /\ IF f.suspended THEN Step(e, DlParked(f), tun)
           ELSE IF f.next = 0 THEN Abort(e, f, tun, "crash")
           ELSE Step(e, [f EXCEPT !.dl.src = f.next, !.dl.pc = "switching"], tun)

DlSwitched(e) ==
    /\ flow[e].dl.pc = "switching"
    /\ Step(e, Looked(Switched(flow[e], "dl")), tun)

-------------------------------------------------------------------------------
(* Acknowledging what was delivered (kickAck, flushAck).                    *)

\* flushAck picks what to say and the tunnel to say it on, or has nothing to say.
Picked(f) ==
    [f EXCEPT !.ack.pc    = IF Unacked(f) THEN "send" ELSE "idle",
              !.ack.fresh = Unacked(f),
              !.ack.c     = IF Unacked(f) THEN f.upDst ELSE 0,
              !.ack.dl    = IF Unacked(f) THEN dlBytes(f) ELSE 0,
              !.ack.ended = Unacked(f) /\ f.dlEnded]

\* A kick, from the ackDelay timer or at once, starts flushAck; while one is
\* running it is dropped.
KickAck(e) ==
    LET f == [flow[e] EXCEPT !.ack.kick = FALSE]
    IN  flow[e].ack.kick /\ Step(e, IF f.ack.pc = "idle" THEN Picked(f) ELSE f, tun)

Idle(f) == [f EXCEPT !.ack.pc = "idle", !.ack.c = 0, !.ack.dl = 0, !.ack.ended = FALSE,
                     !.ack.fresh = FALSE]

\* SendAck went through: noteAcked, unless a swap or resume reset the
\* bookkeeping meanwhile; what is left gets a timer or is sent at once.
Noted(f) ==
    LET g == IF f.ack.fresh
             THEN [f EXCEPT !.ack.sent = f.ack.dl, !.ack.endSent = @ \/ f.ack.ended]
             ELSE f
    IN  IF g.dlEnded /\ ~g.ack.endSent THEN Picked(g)
        ELSE [Idle(g) EXCEPT !.ack.kick = @ \/ Unacked(g)]

FlushAck(e) ==
    LET f == flow[e]
        m == <<IF f.ack.ended THEN "ackend" ELSE "ack", f.ack.dl>>
    IN  /\ f.ack.pc = "send"
        /\ \/ /\ WriteMay(f.ack.c, e, TRUE)
              /\ Step(e, Noted(f), Written(tun, f.ack.c, e, <<m>>))
           \/ /\ WriteMay(f.ack.c, e, FALSE)
              /\ Step(e, IF f.ack.fresh THEN Idle(f) ELSE Picked(f), tun)

\* serve: the parser of a tunnel whose download direction is over.
ServeAcks(e, t) ==
    LET f == flow[e]
    IN  /\ tun[t][e].served /\ Has(t, e) /\ Head1(t, e)[1] # "fin"
        /\ Step(e, IF Head1(t, e)[1] \in {"ack", "ackend"} THEN AckedBy(f, Head1(t, e)) ELSE f,
                IF Head1(t, e)[1] \in {"ack", "ackend", "end"} THEN Popped(t, e)
                ELSE Dropped(tun, t, e))

-------------------------------------------------------------------------------
(* The goroutines that let go of tunnels and end the flow.                  *)

\* Mutant: the server closes the old tunnel at once.
ReleaseAtOnce(e, t) ==
    /\ t \in flow[e].rel
    /\ \E loud \in BOOLEAN :
          Step(e, [flow[e] EXCEPT !.rel = @ \ {t}], Closed(tun, t, e, loud))

\* release: the server keeps a tunnel it was moved off until the client has
\* closed it, so that retiring its session cuts nothing off.
Release(e, t) ==
    LET f == flow[e]
    IN  /\ t \in f.rel
        /\ e = "server" => \/ ~tun[t]["client"].open \/ t \in cut
                           \/ ~Running(f) \/ "linger" \in sc.faults
        /\ \E loud \in BOOLEAN :
              Step(e, [f EXCEPT !.rel = @ \ {t}], Closed(tun, t, e, loud))

\* Both pumps have finished: after lingerForAcks the flow is done and its
\* tunnels are closed.
Finish(e) ==
    LET f == flow[e]
        over == [f EXCEPT !.done = TRUE, !.ack.pc = "idle", !.ack.kick = FALSE]
    IN  /\ Running(f) /\ f.up.pc = "done" /\ f.dl.pc = "done"
        /\ Replay => settled(f) \/ "window" \in sc.faults
        /\ \E loud \in BOOLEAN : Step(e, over, AbortTun(tun, f, e, loud))

\* The resume window of a suspended flow has run out.
WindowExpires(e) ==
    /\ "window" \in sc.faults /\ flow[e].suspended /\ Running(flow[e])
    /\ Abort(e, flow[e], tun, "window")

\* The socket of an app that does not close its side fails instead.
AppFails(e) ==
    /\ "app" \in sc.faults /\ e \notin sc.closers /\ Running(flow[e])
    /\ Abort(e, flow[e], tun, "app")

\* The pumps of one end.
Upload(e) ==
    \/ UpBoundary(e) \/ UpSend(e) \/ UpFull(e) \/ UpEOF(e) \/ UpEnd(e)
    \/ UpWake(e) \/ UpSwitched(e) \/ UpReplay(e)

Download(e) ==
    \/ DlOverrun(e) \/ DlData(e) \/ DlAck(e) \/ DlWake(e) \/ DlEndOrFail(e) \/ DlDecide(e)
    \/ DlSwitch(e) \/ DlSwitched(e)
===============================================================================
