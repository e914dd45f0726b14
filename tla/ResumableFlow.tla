---------------------------- MODULE ResumableFlow ----------------------------
(***************************************************************************)
(* Moving one flow between pool sessions: the handshakes between the server *)
(* (migrateFlow, resumeOnce and driveResume in wsmux_resume.go) and the     *)
(* client (handleAttachStream and handleResumeAttach in wsmux.go) that run  *)
(* PumpSwapper's FreezeUp, Thaw, Install, ResumeBegin and ResumeFinish,     *)
(* composed with the two ends of the flow and with sessions that fail.      *)
(*                                                                          *)
(* Every tunnel is a fresh stream, and at each end one handshake is run on  *)
(* it: flow[e].att[t].  Its pc is "verdict" (server: the attach is sent),   *)
(* "freezing" (in FreezeUp), "accept" (client: about to answer), "begin"    *)
(* (in ResumeBegin), "count" and "readcount" (exchangeCounts, and what      *)
(* follows it: Install or ResumeFinish), "replay" (ResumeFinish, for an     *)
(* upload that has ended), or "fail" (about to close the leg).              *)
(***************************************************************************)
EXTENDS PumpSwapper

Offsets == 0..(IF AppLen["server"] > AppLen["client"] THEN AppLen["server"] ELSE AppLen["client"])

At(e, t) == flow[e].att[t]
With(f, t, a) == [f EXCEPT !.att[t] = a]
Goes(f, t, pc) == [f EXCEPT !.att[t].pc = pc]
Over(f, t) == With(f, t, NoAttempt)

\* The handshake gives up before anything froze (or while the flow stays
\* suspended): the leg is closed and nothing else happens.
CloseLeg(e, f, t) == Step(e, Over(f, t), Dropped(tun, t, e))

-------------------------------------------------------------------------------
(* The server opens a stream on another session and asks.                   *)

Open(t, m, f) ==
    /\ t = used + 1 /\ t <= sc.tunnels /\ used' = t
    /\ flow' = [flow EXCEPT !["server"] = With(f, t, [NoAttempt EXCEPT !.pc = "verdict", !.mode = m])]
    /\ tun' = [tun EXCEPT ![t] = [e \in Ends |-> [@[e] EXCEPT !.open = TRUE,
                                   !.in = IF e = "client" THEN <<<<m, 0>>>> ELSE << >>]]]
    /\ UNCHANGED <<cut, cuts, sc>>

\* migrateFlow, for a flow that looks swappable.
OpenMove(t) ==
    /\ Swappable(flow["server"]) /\ moves < sc.moves /\ moves' = moves + 1
    /\ Open(t, "move", flow["server"])

\* resumeOnce: driveResume makes one attempt at a time.
OpenResume(t) ==
    /\ flow["server"].suspended /\ Running(flow["server"])
    /\ \A u \in Tunnels : At("server", u).mode # "resume"
    /\ Open(t, "resume", flow["server"]) /\ UNCHANGED moves

\* Mutant: the upload pump is left asleep in app.Read.
ReservedAsleep(e, f, t) ==
    IF f.upEnded
    THEN Frozen(e, [Goes(f, t, "freezing") EXCEPT !.freezeReq = TRUE])
    ELSE [Goes(f, t, "freezing") EXCEPT !.freezeReq = TRUE]

\* FreezeUp, once it is not refused: it reserves the flow and waits for the
\* upload's boundary, unless the upload has ended and there is none.
Reserved(e, f, t) ==
    IF f.upEnded
    THEN Frozen(e, [Goes(f, t, "freezing") EXCEPT !.freezeReq = TRUE])
    ELSE [Goes(f, t, "freezing") EXCEPT !.freezeReq = TRUE, !.readDl = TRUE]

\* The verdict, or the end of the leg.  Accepted, a move goes on with FreezeUp,
\* which may still refuse; a client that does not know the flow has ended it,
\* and a resume then gives the flow up.
ReadVerdict(t) ==
    LET f == flow["server"]
        m == At("server", t).mode
        heard(v) == Has(t, "server") /\ Head1(t, "server")[1] = v
    IN  /\ At("server", t).pc = "verdict"
        /\ \/ /\ heard("accept") /\ (m = "resume" \/ Swappable(f))
              /\ Step("server", IF m = "resume" THEN Goes(f, t, "begin") ELSE Reserved("server", f, t),
                      Popped(t, "server"))
           \/ /\ \/ heard("accept") /\ m = "move" /\ ~Swappable(f)
                 \/ heard("busy") \/ (heard("unknown") /\ m = "move") \/ Ended(t, "server")
              /\ CloseLeg("server", f, t)
           \/ /\ heard("unknown") /\ m = "resume"
              /\ Abort("server", Over(f, t), Dropped(tun, t, "server"), "gone")

-------------------------------------------------------------------------------
(* The client answers.                                                      *)

Reject(f, t, why) ==
    Step("client", Over(f, t), Dropped(Written(tun, t, "client", <<<<why, 0>>>>), t, "client"))

ReadAttach(t) ==
    LET f == flow["client"]
        m == Head1(t, "client")[1]
        g == With(f, t, [NoAttempt EXCEPT !.mode = m])
        taken(h) == Step("client", h, Popped(t, "client"))
    IN  /\ t <= used /\ At("client", t).pc = "none" /\ Has(t, "client")
        /\ \/ /\ m = "move" /\ f.done /\ Reject(f, t, "unknown")
           \/ /\ m = "move" /\ ~f.done /\ ~Swappable(f) /\ Reject(f, t, "busy")
           \/ /\ m = "move" /\ Swappable(f) /\ taken(Reserved("client", g, t))
           \/ /\ m = "resume" /\ ~CanSuspend(f) /\ Reject(f, t, "unknown")
           \/ /\ m = "resume" /\ CanSuspend(f) /\ Step("client", Goes(Suspended(g), t, "accept"), SuspendTun(Popped(t, "client"), f, "client"))

\* Thaw: the swap is called off and the flow carries on where it is.
CanThaw(f) == Running(f) /\ ~f.suspended /\ f.frozen /\ ~f.installed

Thawed(f) ==
    [f EXCEPT !.freezeReq = FALSE, !.frozen = FALSE,
              !.up.pc = IF @ = "frozen" THEN "run" ELSE @,
              !.dl.pc = IF @ = "wait" THEN "decide" ELSE @]

WriteAccept(t) ==
    LET f == flow["client"]
        a == At("client", t)
        g == Over(f, t)
    IN  /\ a.pc = "accept"
        /\ \/ /\ WriteMay(t, "client", TRUE)
              /\ Step("client", Goes(f, t, IF a.mode = "move" THEN "count" ELSE "begin"),
                      Written(tun, t, "client", <<<<"accept", 0>>>>))
           \/ /\ WriteMay(t, "client", FALSE)
              /\ IF a.mode = "resume" THEN CloseLeg("client", f, t)
                 ELSE IF CanThaw(f) THEN Step("client", Thawed(g), Dropped(tun, t, "client"))
                 ELSE Abort("client", g, Dropped(tun, t, "client"), "verdict")

-------------------------------------------------------------------------------
(* Both ends: freeze (Promote) or wait until the pumps have parked          *)
(* (ResumeBegin), exchange counts, put the flow on the tunnel.              *)

ResumeBegin(e, t) ==
    LET f == flow[e]
    IN  /\ At(e, t).pc = "begin"
        /\ IF Running(f) /\ f.suspended
           THEN /\ Parked(f)
                /\ Step(e, With(f, t, [At(e, t) EXCEPT !.own = dlBytes(f), !.pc = "count"]), tun)
           ELSE CloseLeg(e, f, t)

\* The counts were not settled (finishFrozen): neither end has been told to
\* switch, so a frozen flow thaws; a suspended one stays suspended.
CountFailed(e, t) ==
    LET f == Over(flow[e], t)
        tn == Dropped(tun, t, e)
    IN  IF At(e, t).mode = "resume" THEN Step(e, f, tn)
        ELSE IF CanThaw(f) THEN Step(e, Thawed(f), tn)
        ELSE SuspendOrAbort(e, f, tn, "swap")

WriteCount(e, t) ==
    /\ At(e, t).pc = "count"
    /\ \/ /\ WriteMay(t, e, TRUE)
          /\ Step(e, Goes(flow[e], t, "readcount"), Written(tun, t, e, <<<<"count", At(e, t).own>>>>))
       \/ WriteMay(t, e, FALSE) /\ CountFailed(e, t)

\* The peer's count n is here.
Counted(e, t, n) ==
    At(e, t).pc = "readcount" /\ Has(t, e) /\ Head1(t, e) = <<"count", n>>

NoCount(e, t) == At(e, t).pc = "readcount" /\ Ended(t, e) /\ CountFailed(e, t)

\* A tunnel whose download direction is over has its ACKs served.
Served(tn, f, e, t) == [tn EXCEPT ![t][e].served = Replay /\ f.dlEnded]

\* Install: what the peer has committed is final, and known; a direction that
\* has ended needs no switch, and its end is sent again.  A download read that
\* sits at the boundary is woken.
Installed(f, t, limit) ==
    [Released(f) EXCEPT !.next = t, !.dlLimit = limit, !.installed = TRUE,
                        !.upSwitched = @ \/ f.upEnded, !.dlSwitched = @ \/ f.dlEnded,
                        !.upDst = IF f.upEnded THEN t ELSE @]

Install(e, t, n) ==
    LET f  == flow[e]
        sv == Served(Popped(t, e), f, e, t)
        wk == IF f.dlEnded \/ ~sv[f.cur][e].open THEN sv ELSE [sv EXCEPT ![f.cur][e].wake = TRUE]
    IN  /\ Counted(e, t, n) /\ At(e, t).mode = "move"
        /\ IF Running(f) /\ f.frozen /\ ~f.installed /\ ~(f.upEnded /\ f.dlEnded)
           THEN Step(e, Over(Installed(f, t, n), t), IF f.upEnded THEN EndWritten(wk, t, e) ELSE wk)
           ELSE \E loud \in BOOLEAN :
                  SuspendOrAbort(e, Over(f, t), Closed(tun, t, e, loud), "swap")

\* The suspended flow goes on on t, its upload from offset from.
OnTunnel(f, t, from) ==
    ResetAcked([f EXCEPT
        !.cur = t, !.upDst = t, !.resumeConn = t, !.resumeFrom = from,
        !.suspended = FALSE, !.upParked = FALSE, !.dlParked = FALSE,
        !.up.pc = IF @ = "parked" THEN "replay" ELSE @,
        !.dl.src = IF f.dl.pc = "parked" THEN t ELSE @,
        !.dl.pc = IF @ = "parked" THEN "read" ELSE @])

\* Mutants: the replay starts where sending stopped, or nothing is retained
\* any more once the flow is resumed.
ResumedFromSent(f, t, n) == OnTunnel(AckedBy(f, <<"ack", n>>), t, f.upBytes)
ResumedForgets(f, t, n)  == OnTunnel([f EXCEPT !.base = f.end], t, n)

\* ResumeFinish: the peer has delivered n bytes of this side's upload.
Resumed(f, t, n) == OnTunnel(AckedBy(f, <<"ack", n>>), t, n)

\* Timing: unless they may outlive it, the other handshakes of this end have
\* ended (they are bounded by their timeouts) before a resume finishes.
Prompt(e, t) ==
    "outlive" \in sc.faults \/ \A u \in Tunnels \ {t} : At(e, u).pc = "none"

ResumeFinish(e, t, n) ==
    LET f == flow[e]
    IN  /\ Counted(e, t, n) /\ At(e, t).mode = "resume" /\ Prompt(e, t)
        /\ IF ~Running(f) \/ ~f.suspended THEN CloseLeg(e, f, t)
           ELSE IF n > f.end \/ n < f.base THEN Abort(e, Over(f, t), Dropped(tun, t, e), "counts")
           ELSE Step(e, IF f.upEnded THEN Goes(Resumed(f, t, n), t, "replay")
                        ELSE Over(Resumed(f, t, n), t),
                     Served(Popped(t, e), f, e, t))

\* No upload pump is left: ResumeFinish itself replays and ends the upload.
ReplayEnded(e, t) ==
    LET f == flow[e]
        n == f.resumeFrom
    IN  /\ At(e, t).pc = "replay"
        /\ \/ /\ WriteMay(t, e, TRUE) /\ n >= f.base
              /\ Step(e, [Over(f, t) EXCEPT !.upBytes = f.end],
                      EndWritten(Written(tun, t, e, Retained(f, n)), t, e))
           \/ /\ WriteMay(t, e, FALSE) \/ n < f.base
              /\ SuspendOrAbort(e, Over(f, t), Dropped(tun, t, e), "tunnel")

FailLeg(e, t) ==
    /\ At(e, t).pc = "fail"
    /\ IF e = "client" /\ At(e, t).mode = "move" THEN Reject(flow[e], t, "busy")
       ELSE CloseLeg(e, flow[e], t)

\* A step of the handshake runs out of time; FreezeUp withdraws its request.
HandshakeTimeout(e, t) ==
    LET f == flow[e]
        a == At(e, t)
    IN  /\ "timeout" \in sc.faults
        /\ \/ a.pc \in {"verdict", "begin"} /\ CloseLeg(e, f, t)
           \/ /\ a.pc = "freezing"
              /\ Step(e, [Goes(f, t, "fail") EXCEPT !.freezeReq = FALSE, !.readDl = FALSE], tun)
           \/ a.pc = "readcount" /\ CountFailed(e, t)

Handshake(e, t) ==
    \/ ResumeBegin(e, t) \/ WriteCount(e, t) \/ NoCount(e, t)
    \/ \E n \in Offsets : Install(e, t, n) \/ ResumeFinish(e, t, n)
    \/ ReplayEnded(e, t) \/ FailLeg(e, t)

-------------------------------------------------------------------------------
(* Sessions and the environment.                                            *)

\* A session dies: what each end has not read yet is lost from some record on.
Lose(t) ==
    /\ t \in 1..used \ cut
    /\ \E s \in 0..Len(tun[t]["server"].in), c \in 0..Len(tun[t]["client"].in) :
          tun' = [tun EXCEPT ![t]["server"].in = SubSeq(@, 1, s), ![t]["client"].in = SubSeq(@, 1, c)]
    /\ cut' = cut \cup {t}
    /\ UNCHANGED <<flow, used, moves, sc>>

Cut(t) == cuts < sc.cuts /\ cuts' = cuts + 1 /\ Lose(t)

\* retireSession: a session the flow was moved off is closed once the server has
\* no stream on it.
Retire(t) ==
    /\ "retire" \in sc.faults /\ flow["server"].cur # t
    /\ ~tun[t]["server"].open /\ tun[t]["client"].open
    /\ Lose(t) /\ UNCHANGED cuts

\* driveResume watches the session the flow is on.
SessionLost ==
    LET f == flow["server"]
    IN  /\ f.cur \in cut /\ ~f.suspended /\ CanSuspend(f)
        /\ Step("server", Suspended(f), SuspendTun(tun, f, "server"))

\* moveFlowsOff gives up on an orderly move: the flow is suspended although
\* its tunnel works, to be resumed elsewhere.
GiveUpMove ==
    LET f == flow["server"]
    IN  /\ "giveup" \in sc.faults /\ cuts = 0 /\ cuts' = 1 /\ used > 1
        /\ ~f.suspended /\ CanSuspend(f)
        /\ flow' = [flow EXCEPT !["server"] = Suspended(f)]
        /\ tun' = SuspendTun(tun, f, "server")
        /\ UNCHANGED <<cut, used, moves, sc>>

\* The flow is over at both ends, or idle: everything is delivered and an app
\* keeps its side open, or an end waits for its resume window to run out, which
\* this scenario does not let happen.
Finished ==
    /\ \/ \A e \in Ends : ~Running(flow[e])
       \/ cuts > 0 /\ "window" \notin sc.faults
       \/ sc.closers # Ends /\ \A e \in Ends : dlBytes(flow[e]) = AppLen[Peer(e)]
    /\ UNCHANGED vars

Next ==
    \/ \E e \in Ends : \/ Upload(e) \/ Download(e) \/ KickAck(e) \/ FlushAck(e) \/ Finish(e)
                      \/ WindowExpires(e) \/ AppFails(e)
    \/ \E e \in Ends, t \in Tunnels :
          \/ ServeAcks(e, t) \/ Release(e, t)
          \/ Handshake(e, t) \/ HandshakeTimeout(e, t)
    \/ \E t \in Tunnels : \/ OpenMove(t) \/ OpenResume(t) \/ ReadVerdict(t) \/ ReadAttach(t)
                          \/ WriteAccept(t) \/ Cut(t) \/ Retire(t)
    \/ SessionLost \/ GiveUpMove \/ Finished

Spec == Init /\ [][Next]_vars

\* Every goroutine that can take its next step takes it in the end; what may
\* go wrong (and a move of the flow) need not happen.  A resume is retried
\* for as long as there is a session for it.
Fairness ==
    /\ \A e \in Ends : /\ WF_vars(Upload(e)) /\ WF_vars(Download(e)) /\ WF_vars(KickAck(e))
                      /\ WF_vars(FlushAck(e)) /\ WF_vars(Finish(e))
    /\ \A e \in Ends, t \in Tunnels :
          WF_vars(ServeAcks(e, t)) /\ WF_vars(Release(e, t))
          /\ WF_vars(Handshake(e, t))
    /\ \A t \in Tunnels : /\ WF_vars(OpenResume(t)) /\ WF_vars(ReadVerdict(t))
                          /\ WF_vars(ReadAttach(t)) /\ WF_vars(WriteAccept(t))
    /\ WF_vars(SessionLost)

FairSpec == Spec /\ Fairness

-------------------------------------------------------------------------------
Places   == {0} \cup Tunnels
Records  == {"data", "end", "abort", "ack", "ackend", "fin", "move", "resume", "accept",
             "busy", "unknown", "count"} \X Offsets

TypeOK ==
    /\ \A e \in Ends : LET f == flow[e] IN
        /\ {f.upDst, f.up.dst, f.dl.src} \subseteq Tunnels
        /\ {f.cur, f.next, f.resumeConn, f.ack.c} \subseteq Places
        /\ {f.upLimit, f.dlLimit, f.resumeFrom, f.upBytes, f.base, f.end,
            f.up.pend, f.ack.sent, f.ack.dl, f.read} \subseteq Offsets
        /\ {f.freezeReq, f.frozen, f.installed, f.upSwitched, f.dlSwitched, f.upEnded, f.dlEnded,
            f.done, f.suspended, f.upParked, f.dlParked, f.readDl, f.writeDl, f.ack.kick,
            f.ack.endSent, f.ack.endAcked, f.ack.fresh, f.ack.ended} \subseteq BOOLEAN
        /\ f.rel \subseteq Tunnels
        /\ f.up.pc \in {"run", "full", "parked", "replay", "frozen", "wake", "switching",
                        "end", "done"}
        /\ f.dl.pc \in {"read", "overrun", "wait", "decide", "switch", "switching", "parked", "done"}
        /\ f.ack.pc \in {"idle", "send"}
        /\ \A t \in Tunnels : f.att[t].pc \in {"none", "verdict", "freezing", "accept",
                        "begin", "count", "readcount", "replay", "fail"}
        /\ \A t \in Tunnels : \A i \in 1..Len(tun[t][e].in) : tun[t][e].in[i] \in Records

\* What an app has received is the start of what the other app sent: nothing
\* lost, repeated or out of order, whatever swaps, cuts and resumes happened
\* (PumpSwapper: "without dropping or duplicating a byte").
Integrity ==
    \A e \in Ends : /\ \A i \in 1..dlBytes(flow[e]) : flow[e].got[i] = i
                    /\ dlBytes(flow[e]) <= flow[Peer(e)].read

\* An app is told the other one finished (closeWrite) only when it has been
\* given everything: no truncation passes for a clean end, however the END,
\* a swap's count and a tunnel's failure arrive.
CleanEnd ==
    \A e \in Ends : flow[e].st = "eof" =>
        /\ flow[Peer(e)].upEnded
        /\ dlBytes(flow[e]) = AppLen[Peer(e)]

\* An upload pump that a freeze or a suspension needs at its boundary does not
\* sleep in app.Read: the read deadline is armed.
UploadIsWoken(f) ==
    (f.suspended \/ (f.freezeReq /\ ~f.frozen)) /\ f.up.pc = "run" => f.readDl

\* A download pump at the boundary of the old tunnel does not sleep in its read.
DownloadIsWoken(e, f) ==
    Swapping(f) /\ dlBytes(f) = f.dlLimit /\ f.dl.pc = "read" =>
        tun[f.dl.src][e].wake \/ Ended(f.dl.src, e) \/ Has(f.dl.src, e)

\* Nobody waits for a pump that sleeps: wherever a freeze, a suspension or the
\* installation of a tunnel finds it, it is or will be woken (readDl, SetReadDeadline).
PumpsAreWoken == \A e \in Ends : UploadIsWoken(flow[e]) /\ DownloadIsWoken(e, flow[e])

\* Delivered bytes are acknowledged in the end: while the tunnel works and no
\* swap is in progress, a flush is running or a kick is pending for what the
\* peer has not been told on it.
NoForgottenAck ==
    \A e \in Ends : LET f == flow[e] IN
        Replay /\ Running(f) /\ ~f.suspended /\ ~f.freezeReq /\ Unacked(f) =>
            \/ f.ack.kick \/ f.ack.pc # "idle"
            \/ f.upDst \in cut \/ ~tun[f.upDst][e].open \/ ~tun[f.upDst][Peer(e)].open

\* A pump that is released to switch tunnels finds the new one: p.next is
\* "published by Install before installCh was closed" and kept until both
\* directions have taken it.
NextIsPublished ==
    \A e \in Ends : LET f == flow[e] IN
        Running(f) /\ ~f.suspended /\ (f.up.pc = "wake" \/ f.dl.pc = "switch") => f.next # 0

Delivered == \A e \in Ends : dlBytes(flow[e]) = AppLen[Peer(e)]

\* A tunnel's failure costs a flow with replay nothing: as long as there is a
\* session to resume on, an end gives the flow up (Abort) only once both apps
\* have been given everything.  (No swap is under way: a session that dies
\* during one can end the flow, see the README.)
NothingCutShort ==
    sc.moves = 0 /\ sc.faults = {} /\ (\E e \in Ends : flow[e].aborted # "no") => Delivered

\* Moving a flow off a session that is then retired, the loss of that session
\* included, is not noticed: the flow is neither suspended nor given up.
Undisturbed ==
    sc.cuts = 0 /\ sc.faults \subseteq {"retire"} =>
        \A e \in Ends : ~flow[e].suspended /\ flow[e].aborted = "no"

\* The flow is either moved or resumed.
Orderly == (sc.moves = 0 \/ sc.cuts = 0) /\ sc.faults \subseteq {"linger"}

\* Both apps are given everything and then told that it is over, if the other one
\* closes its side, whatever swaps or resumes happen meanwhile: none leaves a pump,
\* an ACK or a handshake waiting for ever.
Completes ==
    Orderly => <>[](Delivered /\ \A e \in Ends : Peer(e) \in sc.closers => flow[e].st # "open")
==============================================================================
