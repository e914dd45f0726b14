------------------------------ MODULE FlowTable ------------------------------
(***************************************************************************)
(* Who knows a resumable flow, and where it is thought to be: the server's *)
(* registry of the sessions that carry it, with everybody who moves it     *)
(* (driveResume, moveFlowsOff: wsmux_resume.go; moveOffStalled:            *)
(* wsmux_stall.go), and the client's tables of the flows it runs, has      *)
(* finished or expects to be opened again (wsmux_gone.go, wsmux.go).       *)
(*                                                                         *)
(* One flow with replay state is modelled.  A stream is a number, in the   *)
(* order of opening, on a session that may stop getting through for a      *)
(* while.  How the two ends of a swap agree on their bytes is the subject  *)
(* of ResumableFlow; here a swap is prepared, built, installed and         *)
(* reported, or fails.                                                     *)
(***************************************************************************)
EXTENDS Naturals, Sequences, FiniteSets

CONSTANTS Carriers,    \* pool sessions
          Movers,      \* slots for the goroutines of moveFlowsOff
          Attempts,    \* migrateAttempts
          MaxStreams,  \* bound on the streams opened for the flow
          Ages         \* the flows to start with: [seen, rotations, stalls], whether the
                       \* client runs it and how many sessions are retired, or stall or are cut

ASSUME FlowAssumption ==
    /\ IsFiniteSet(Carriers) /\ Carriers # {}
    /\ Movers # {} /\ Movers \cap {"drive", "none", "no", "switching"} = {}
    /\ Attempts \in Nat \ {0} /\ MaxStreams \in Nat \ {0}
    /\ \A g \in Ages : g.seen \in BOOLEAN /\ {g.rotations, g.stalls} \subseteq Nat

VARIABLES
    (* sessions and streams *)
    registry,  \* sessions in the pool's registry
    line,      \* Carriers -> "ok", "stuck" (nothing gets through) or "closed"
    unlooked,  \* retired sessions whose rotation has not looked for flows yet
    may,       \* an element of Ages, its counts those that are left
    on,        \* sequence: the session of each stream
    header,    \* Streams -> what the client has still to read or act on
    verdict,   \* Streams -> the client's answer
    (* the server's flow *)
    flow,      \* "run", "suspended" or "over"
    frozen,    \* who has frozen the upload, "switching", or "no"
    tunnel,    \* the stream the swapper runs on
    heard,     \* HeardFromPeer
    entry,     \* resumableFlow: [sess, at, swaps]
    actor,     \* driveResume and the movers: [pc, old, st, seq, left]
    leftOn,    \* sessions whose movers gave up
    (* the client *)
    known,     \* promotableFlows: "no", "dial" (nil entry) or "run"
    gone,      \* goneFlows: [kept, reopen]
    client,    \* the stream the client's flow runs on
    refused,   \* openings the client closed
    started    \* times the target was dialled for the flow

sessionVars == <<registry, line, unlooked, may>>
streamVars == <<on, header, verdict>>
swapVars == <<flow, frozen, tunnel, heard>>
clientVars == <<known, gone, client, refused, started>>
flowVars == <<sessionVars, streamVars, swapVars, entry, actor, leftOn, clientVars>>

Streams == 1..MaxStreams
Actors == Movers \cup {"drive"}

\* A goroutine that is not running (a mover), or waits for a loss (driveResume).
Idle(old) == [pc |-> "idle", old |-> old, st |-> 0, seq |-> 0, left |-> 0]

FlowTypeOK ==
    /\ registry \subseteq Carriers /\ unlooked \subseteq Carriers /\ leftOn \subseteq Carriers
    /\ line \in [Carriers -> {"ok", "stuck", "closed"}]
    /\ may.rotations \in Nat /\ may.stalls \in Nat
    /\ on \in Seq(Carriers) /\ Len(on) <= MaxStreams
    /\ header \in [Streams -> {"none", "open", "resume", "reopen", "unseen", "drained"}]
    /\ verdict \in [Streams -> {"none", "accept", "busy", "unknown", "never"}]
    /\ flow \in {"run", "suspended", "over"} /\ frozen \in Movers \cup {"no", "switching"}
    /\ tunnel \in Streams /\ heard \in BOOLEAN
    /\ entry \in [sess : Carriers, at : 0..MaxStreams, swaps : 0..MaxStreams]
    /\ actor \in [Actors -> [pc : {"idle", "try", "ask", "swap", "built", "report", "check"},
                             old : Carriers, st : 0..MaxStreams, seq : 0..MaxStreams, left : 0..Attempts]]
    /\ known \in {"no", "dial", "run"} /\ client \in Streams
    /\ gone \in [kept : {"no", "short", "long"}, reopen : BOOLEAN]
    /\ refused \subseteq Streams /\ started \in 0..MaxStreams

\* dispatchResumable: the flow is registered on the session of its first stream,
\* whose header was written; driveResume watches that session.  The client has
\* not read the header yet, or runs the flow already.
FlowInit ==
    /\ may \in Ages
    /\ registry = Carriers /\ line = [x \in Carriers |-> "ok"] /\ unlooked = {}
    /\ LET x == CHOOSE y \in Carriers : TRUE
       IN  /\ on = <<x>> /\ entry = [sess |-> x, at |-> 0, swaps |-> 0]
           /\ actor = [a \in Actors |-> Idle(x)]
    /\ header = [n \in Streams |-> IF n = 1 /\ ~may.seen THEN "open" ELSE "none"]
    /\ verdict = [n \in Streams |-> "none"]
    /\ flow = "run" /\ frozen = "no" /\ tunnel = 1 /\ heard = may.seen /\ leftOn = {}
    /\ known = (IF may.seen THEN "run" ELSE "no") /\ gone = [kept |-> "no", reopen |-> FALSE]
    /\ client = 1 /\ refused = {} /\ started = IF may.seen THEN 1 ELSE 0

-----------------------------------------------------------------------------
(* The registry entry of the flow. *)

\* A swap onto the actor's stream is on record (moves).
Recorded(a) == actor[a].pc \in {"swap", "built", "report"}

OnSession(x) == entry.sess = x \/ \E a \in Actors : Recorded(a) /\ on[actor[a].st] = x

Moves(a, pc) == actor' = [actor EXCEPT ![a].pc = pc]

\* Mutant: a swap that is reported late takes the flow back.
MovedInAnyOrder(a) == entry' = [entry EXCEPT !.sess = on[actor[a].st], !.at = actor[a].seq]

\* moved: the entry of the latest tunnel that was built is kept.
Moved(a) ==
    entry' = IF actor[a].seq > entry.at
             THEN [entry EXCEPT !.sess = on[actor[a].st], !.at = actor[a].seq] ELSE entry

-----------------------------------------------------------------------------
(* Streams. *)

\* A session that is picked: registered and not closed.
Eligible == {x \in registry : line[x] # "closed"}

\* The actor writes header h on a new stream of session x and goes on to pc.
OpenStream(a, x, h, pc) ==
    LET n == Len(on) + 1
    IN  /\ n <= MaxStreams
        /\ on' = Append(on, x) /\ header' = [header EXCEPT ![n] = h]
        /\ actor' = [actor EXCEPT ![a].pc = pc, ![a].st = n]
        /\ UNCHANGED verdict

\* Suspend: a swap in progress dies with the tunnel.
Suspended == flow' = "suspended" /\ frozen' = "no" /\ UNCHANGED <<tunnel, heard>>

\* The pumps find their stream failing, or closed by the client.
TunnelFails ==
    /\ flow = "run"
    /\ \/ line[on[tunnel]] = "closed" \/ tunnel \in refused
       \/ tunnel = client /\ known = "no" /\ started > 0
    /\ Suspended
    /\ UNCHANGED <<sessionVars, streamVars, entry, actor, leftOn, clientVars>>

\* moveOffStalled: the flow is on record on a session that does not get through,
\* and there is one that does.
MoveOffStalled ==
    /\ flow = "run" /\ entry.sess \in registry /\ line[entry.sess] = "stuck"
    /\ \E x \in registry : line[x] = "ok"
    /\ Suspended
    /\ UNCHANGED <<sessionVars, streamVars, entry, actor, leftOn, clientVars>>

\* Both pumps have taken the new tunnel.
Switched ==
    /\ flow = "run" /\ frozen = "switching" /\ frozen' = "no"
    /\ UNCHANGED <<sessionVars, streamVars, flow, tunnel, heard, entry, actor, leftOn, clientVars>>

\* Payload or an acknowledgement comes back.
Hear ==
    /\ flow = "run" /\ ~heard /\ tunnel = client /\ known = "run" /\ line[on[tunnel]] = "ok"
    /\ heard' = TRUE
    /\ UNCHANGED <<sessionVars, streamVars, flow, frozen, tunnel, entry, actor, leftOn, clientVars>>

\* The flow ends: so do its driver and its movers, and the entry is deleted.
Ends ==
    /\ flow' = "over" /\ frozen' = "no" /\ leftOn' = {}
    /\ actor' = [a \in Actors |-> Idle(entry.sess)] /\ entry' = [entry EXCEPT !.at = 0, !.swaps = 0]

\* The server's app has ended, or the resume window.
FlowOver ==
    /\ flow # "over" /\ Ends
    /\ UNCHANGED <<sessionVars, streamVars, tunnel, heard, clientVars>>

-----------------------------------------------------------------------------
(* driveResume. *)

\* It is told of a suspension, or that the session it watches (old) has closed:
\* the flow may have been moved off that one meanwhile.
DriveWakes ==
    LET w == actor["drive"].old
    IN  /\ actor["drive"].pc = "idle"
        /\ \/ flow = "suspended" /\ Moves("drive", "try") /\ UNCHANGED swapVars
           \/ /\ flow = "run" /\ line[w] = "closed" /\ entry.sess # w
              /\ actor' = [actor EXCEPT !["drive"].old = entry.sess] /\ UNCHANGED swapVars
           \/ flow = "run" /\ line[w] = "closed" /\ entry.sess = w /\ Moves("drive", "try") /\ Suspended
        /\ UNCHANGED <<sessionVars, streamVars, entry, leftOn, clientVars>>

\* resumeOnce: a client that has not been heard of, and can say so (reopenCap),
\* is asked whether it has ever seen the flow.
ResumeOnce(x) ==
    /\ flow = "suspended" /\ actor["drive"].pc = "try" /\ x \in Eligible
    /\ \E h \in {"resume"} \cup (IF heard THEN {} ELSE {"reopen"}) : OpenStream("drive", x, h, "ask")
    /\ UNCHANGED <<sessionVars, swapVars, entry, leftOn, clientVars>>

\* The client's verdict: resume, open the flow again on the same session (the
\* header of reopenFlow), give the flow up, or try again.
ResumeVerdict ==
    LET n == actor["drive"].st
    IN  /\ flow = "suspended" /\ actor["drive"].pc = "ask" /\ line[on[n]] = "ok"
        /\ \/ verdict[n] = "accept" /\ Moves("drive", "swap") /\ UNCHANGED <<streamVars, flow, frozen, entry, leftOn>>
           \/ verdict[n] = "never" /\ OpenStream("drive", on[n], "open", "swap") /\ UNCHANGED <<flow, frozen, entry, leftOn>>
           \/ verdict[n] = "unknown" /\ Ends /\ UNCHANGED streamVars
           \/ verdict[n] = "busy" /\ Moves("drive", "try") /\ UNCHANGED <<streamVars, flow, frozen, entry, leftOn>>
        /\ UNCHANGED <<sessionVars, tunnel, heard, clientVars>>

\* No answer in time, or the handshake fails (stayed): the next attempt.
ResumeFails ==
    /\ flow = "suspended" /\ actor["drive"].pc \in {"ask", "swap", "built"} /\ Moves("drive", "try")
    /\ UNCHANGED <<sessionVars, streamVars, swapVars, entry, leftOn, clientVars>>

-----------------------------------------------------------------------------
(* moveFlowsOff. *)

\* A mover is started for the flow on session x, in place of actor a or in a free slot.
StartMover(a, x) ==
    \E m \in {b \in Movers : b = a \/ actor[b].pc = "idle"} :
        actor' = [b \in Actors |->
                     IF b = m THEN [Idle(x) EXCEPT !.pc = "try", !.left = Attempts]
                     ELSE IF b = a THEN Idle(entry.sess) ELSE actor[b]]

Swappable == flow = "run" /\ frozen = "no"

\* An attempt that failed (a frozen upload is let go; a swap that lost its freeze
\* cuts the flow wherever it is by now): it is made again, or the flow is taken off
\* the session the way a cut would (Suspend), or is left there.
TriesAgain(m, elsewhere, cut) ==
    LET last   == actor[m].left = 1
        taken  == flow = "run" /\ (cut \/ (last /\ elsewhere /\ entry.sess = actor[m].old))
    IN  /\ actor' = [actor EXCEPT ![m] = IF last THEN Idle(actor[m].old)
                              ELSE [actor[m] EXCEPT !.pc = "try", !.left = actor[m].left - 1]]
        /\ flow' = IF taken THEN "suspended" ELSE flow
        /\ frozen' = IF taken \/ frozen = m THEN "no" ELSE frozen
        /\ leftOn' = IF last /\ ~taken THEN leftOn \cup {actor[m].old} ELSE leftOn

\* migrateFlow finds that the flow has been taken off already.
MovedAlready(m) ==
    /\ flow # "over" /\ actor[m].pc = "try" /\ ~OnSession(actor[m].old)
    /\ actor' = [actor EXCEPT ![m] = Idle(actor[m].old)]
    /\ UNCHANGED <<sessionVars, streamVars, swapVars, entry, leftOn, clientVars>>

\* migrateFlow asks the client on a stream of another session.
MigrateFlow(m, x) ==
    /\ actor[m].pc = "try" /\ Swappable /\ OnSession(actor[m].old)
    /\ x \in Eligible /\ ~OnSession(x)
    /\ OpenStream(m, x, "drained", "ask")
    /\ UNCHANGED <<sessionVars, swapVars, entry, leftOn, clientVars>>

\* It cannot begin: the flow is suspended or being swapped, or there is no other session.
MigrateFails(m) ==
    /\ flow # "over" /\ actor[m].pc = "try" /\ OnSession(actor[m].old)
    /\ \/ ~Swappable /\ TriesAgain(m, TRUE, FALSE)
       \/ Swappable /\ (Eligible = {} \/ \E x \in Eligible : OnSession(x)) /\ TriesAgain(m, FALSE, FALSE)
    /\ UNCHANGED <<sessionVars, streamVars, tunnel, heard, entry, clientVars>>

\* The client accepts; the swap is recorded (moving) and the upload is frozen.
MigrateVerdict(m) ==
    LET n == actor[m].st
    IN  /\ flow # "over" /\ actor[m].pc = "ask" /\ line[on[n]] = "ok" /\ verdict[n] = "accept"
        /\ Moves(m, "swap")
        /\ UNCHANGED <<sessionVars, streamVars, swapVars, entry, leftOn, clientVars>>

Freeze(m) ==
    /\ actor[m].pc = "swap" /\ Swappable /\ frozen' = m
    /\ UNCHANGED <<sessionVars, streamVars, flow, tunnel, heard, entry, actor, leftOn, clientVars>>

\* Refused, no answer in time, or the swap failed before anything moved: Thaw, or
\* nothing was frozen yet (stayed).  With the freeze lost to a suspension meanwhile,
\* Thaw and Install fail, and finishFrozen suspends the flow.
MigrateGivesUp(m) ==
    /\ flow # "over"
    /\ \/ actor[m].pc \in {"ask", "swap"} /\ TriesAgain(m, TRUE, FALSE)
       \/ actor[m].pc \in {"swap", "built"} /\ frozen # m /\ TriesAgain(m, TRUE, TRUE)
    /\ UNCHANGED <<sessionVars, streamVars, tunnel, heard, entry, clientVars>>

-----------------------------------------------------------------------------
(* What a resume, a reopening and a move have in common. *)

\* The swapper is in this actor's hands.
Holds(a) == IF a = "drive" THEN flow = "suspended" ELSE flow = "run" /\ frozen = a

\* took: the tunnel is built.
Took(a) ==
    /\ flow # "over" /\ actor[a].pc = "swap" /\ Holds(a)
    /\ entry' = [entry EXCEPT !.swaps = @ + 1]
    /\ actor' = [actor EXCEPT ![a].pc = "built", ![a].seq = entry.swaps + 1]
    /\ UNCHANGED <<sessionVars, streamVars, swapVars, leftOn, clientVars>>

\* Install, ResumeFinish: the flow runs on the new stream; so does the client's,
\* unless that stream is to open it.
Installed(a) ==
    /\ actor[a].pc = "built" /\ Holds(a)
    /\ flow' = "run" /\ frozen' = IF a = "drive" THEN "no" ELSE "switching"
    /\ tunnel' = actor[a].st
    /\ client' = IF verdict[actor[a].st] = "accept" /\ known = "run" THEN actor[a].st ELSE client
    /\ Moves(a, "report")
    /\ UNCHANGED <<sessionVars, streamVars, heard, entry, leftOn, known, gone, refused, started>>

Report(a) ==
    /\ flow # "over" /\ actor[a].pc = "report" /\ Moved(a) /\ Moves(a, "check")
    /\ UNCHANGED <<sessionVars, streamVars, swapVars, leftOn, clientVars>>

\* The actor is done with a swap; driveResume watches the session on record.
Rests(a) == actor' = [actor EXCEPT ![a] = Idle(entry.sess)]

\* Mutant: nobody looks whether the session was retired meanwhile.
NeverLooks(a) ==
    /\ flow # "over" /\ actor[a].pc = "check" /\ Rests(a)
    /\ UNCHANGED <<sessionVars, streamVars, swapVars, entry, leftOn, clientVars>>

\* moveOffRetired: the session that was picked may have been retired before the
\* move was on record.
MoveOffRetired(a) ==
    LET x == on[actor[a].st]
    IN  /\ flow # "over" /\ actor[a].pc = "check"
        /\ IF line[x] # "closed" /\ x \notin registry THEN StartMover(a, x) ELSE Rests(a)
        /\ UNCHANGED <<sessionVars, streamVars, swapVars, entry, leftOn, clientVars>>

-----------------------------------------------------------------------------
(* Sessions. *)

\* awaitReplacement: an ageing session leaves the registry; its rotation then
\* looks for flows on it (migrateFlowsOff).
Retire(x) ==
    /\ flow # "over" /\ x \in Eligible /\ Eligible # {x}
    /\ may.rotations > 0 /\ may' = [may EXCEPT !.rotations = @ - 1]
    /\ registry' = registry \ {x} /\ unlooked' = unlooked \cup {x}
    /\ UNCHANGED <<line, streamVars, swapVars, entry, actor, leftOn, clientVars>>

MigrateFlowsOff(x) ==
    /\ flow # "over" /\ x \in unlooked /\ unlooked' = unlooked \ {x}
    /\ IF OnSession(x) THEN StartMover("none", x) ELSE UNCHANGED actor
    /\ UNCHANGED <<registry, line, may, streamVars, swapVars, entry, leftOn, clientVars>>

\* A retired session is closed once its flows were looked for, drained or at the end
\* of its drain budget; any other may be cut.
SessionCloses(x) ==
    /\ line[x] # "closed"
    /\ IF x \in registry \cup unlooked THEN may.stalls > 0 /\ may' = [may EXCEPT !.stalls = @ - 1] ELSE UNCHANGED may
    /\ line' = [line EXCEPT ![x] = "closed"] /\ registry' = registry \ {x}
    /\ UNCHANGED <<unlooked, streamVars, swapVars, entry, actor, leftOn, clientVars>>

\* The network (external): a session stops getting through, and does again.
Stalls(x) ==
    /\ line[x] = "ok" /\ may.stalls > 0 /\ may' = [may EXCEPT !.stalls = @ - 1]
    /\ line' = [line EXCEPT ![x] = "stuck"]
    /\ UNCHANGED <<registry, unlooked, streamVars, swapVars, entry, actor, leftOn, clientVars>>

GetsThrough(x) ==
    /\ line[x] = "stuck" /\ line' = [line EXCEPT ![x] = "ok"]
    /\ UNCHANGED <<registry, unlooked, may, streamVars, swapVars, entry, actor, leftOn, clientVars>>

-----------------------------------------------------------------------------
(* The client. *)

serverVars == <<sessionVars, on, swapVars, entry, actor, leftOn>>

\* A header that has reached the client and is acted upon.
Arrived(n, h) == n <= Len(on) /\ header[n] = h /\ line[on[n]] = "ok"

Read(n) == header' = [header EXCEPT ![n] = "none"]
Answer(n, v) == Read(n) /\ verdict' = [verdict EXCEPT ![n] = v]

\* Mutant: a new record has the lifetime of its own, however long the old one had.
PutForgetful(keep, again) == gone' = [kept |-> keep, reopen |-> again]

\* put: what was remembered for longer stays remembered for as long.
Put(keep, again) ==
    gone' = [kept |-> IF gone.kept = "long" THEN "long" ELSE keep, reopen |-> again]

\* admit: an opening of a flow that is not known, or that is expected.
Admit == known = "no" /\ (gone.kept = "no" \/ gone.reopen)

\* localDialerResumable: the flow is known from here on, and its target dialled.
Opened(n) ==
    /\ Arrived(n, "open") /\ Admit
    /\ known' = "dial" /\ client' = n /\ started' = started + 1
    /\ IF gone.reopen THEN Put("long", FALSE) ELSE UNCHANGED gone
    /\ Read(n) /\ UNCHANGED <<serverVars, verdict, refused>>

\* A second opening is dropped.
Dropped(n) ==
    /\ Arrived(n, "open") /\ ~Admit
    /\ refused' = refused \cup {n} /\ Read(n)
    /\ UNCHANGED <<serverVars, verdict, known, gone, client, started>>

Dialled ==
    /\ known = "dial" /\ known' = "run"
    /\ UNCHANGED <<serverVars, header, verdict, gone, client, refused, started>>

\* forget: the dial failed, or the flow has ended here.
Forget ==
    /\ known # "no" /\ known' = "no" /\ Put("short", FALSE)
    /\ UNCHANGED <<serverVars, header, verdict, client, refused, started>>

\* handleAttachStream looks the flow up: one that runs may be over already, or be
\* swapping.  Whether it was ever seen (neverSeen) is asked in another critical
\* section.
Attached(n) ==
    /\ \/ /\ Arrived(n, "drained")
          /\ \E v \in (IF known = "run" THEN {"accept", "busy"} ELSE {"unknown"}) : Answer(n, v)
       \/ /\ Arrived(n, "resume") \/ Arrived(n, "reopen")
          /\ CASE known = "dial" -> Answer(n, "busy")
               [] known = "run"  -> \E v \in {"accept", "unknown"} : Answer(n, v)
               [] header[n] = "resume" -> Answer(n, "unknown")
               [] OTHER -> header' = [header EXCEPT ![n] = "unseen"] /\ UNCHANGED verdict
    /\ UNCHANGED <<serverVars, clientVars>>

NeverSeen(n) ==
    /\ Arrived(n, "unseen")
    /\ IF gone.kept = "no" \/ gone.reopen
       THEN Answer(n, "never") /\ Put("long", TRUE)
       ELSE Answer(n, "unknown") /\ UNCHANGED gone
    /\ UNCHANGED <<serverVars, known, client, refused, started>>

\* Records expire: a finished flow's (goneFor) when the server has long stopped
\* asking, one the server was told about (reopenedFor) when no connection is as
\* old as the openings that may be on it.
Expires ==
    /\ gone.kept # "no" /\ gone' = [kept |-> "no", reopen |-> FALSE]
    /\ flow = "over"
    /\ gone.kept = "long" => \A n \in {k \in Streams : header[k] = "open"} : line[on[n]] = "closed"
    /\ UNCHANGED <<serverVars, header, verdict, known, client, refused, started>>

-----------------------------------------------------------------------------

FlowNext ==
    \/ TunnelFails \/ MoveOffStalled \/ Switched \/ Hear \/ FlowOver
    \/ DriveWakes \/ ResumeVerdict \/ ResumeFails
    \/ \E x \in Carriers : \/ ResumeOnce(x) \/ Retire(x) \/ MigrateFlowsOff(x)
                           \/ SessionCloses(x) \/ Stalls(x) \/ GetsThrough(x)
    \/ \E m \in Movers : \/ MovedAlready(m) \/ MigrateFails(m) \/ MigrateVerdict(m)
                         \/ Freeze(m) \/ MigrateGivesUp(m)
                         \/ \E x \in Carriers : MigrateFlow(m, x)
    \/ \E a \in Actors : Took(a) \/ Installed(a) \/ Report(a) \/ MoveOffRetired(a)
    \/ \E n \in Streams : Opened(n) \/ Dropped(n) \/ Attached(n) \/ NeverSeen(n)
    \/ Dialled \/ Forget \/ Expires

FlowSpec == FlowInit /\ [][FlowNext]_flowVars

-----------------------------------------------------------------------------
(* Properties. *)

\* The target of a flow is dialled once, however many openings of it were sent and
\* whenever they get through: before, while or after the flow has run (goneFlows:
\* "its request would reach the target twice").
StartedOnce == started <= 1

\* The registry knows the session that carries the flow, in whatever order those
\* who moved it come to report: its retirement does not pass over the flow.
CarrierOnRecord == flow = "run" => OnSession(on[tunnel])

\* A flow on a session that was retired has somebody to take it off, or all
\* attempts have failed: also if the session was picked, retired and looked at
\* before the move to it was on record.
NotLeftBehind ==
    LET x == on[tunnel]
    IN  flow = "run" /\ line[x] # "closed" /\ x \notin registry =>
            \/ x \in unlooked \cup leftOn
            \/ \E m \in Movers : actor[m].pc # "idle" /\ actor[m].old = x
            \/ \E a \in Actors : actor[a].pc \in {"report", "check"} /\ on[actor[a].st] = x
=============================================================================
