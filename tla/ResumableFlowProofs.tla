------------------------- MODULE ResumableFlowProofs -------------------------
(***************************************************************************)
(* One flow, its two ends and the tunnels it is moved over (PumpSwapper and *)
(* ResumableFlow), for any number of bytes, tunnels, moves, losses and      *)
(* faults.  Two hypotheses stand where the code is known to need them:      *)
(* Prompted, that no handshake outlives a later resume, and Untorn, that no *)
(* suspension comes between a pump's move to the new tunnel and the         *)
(* switched() that records it (the run nil_tunnel shows what happens then). *)
(* Flows that are never moved (Still) are untorn, and of those it is also   *)
(* proved that nothing is lost, repeated or cut short.                      *)
(***************************************************************************)
EXTENDS ResumableFlow, TLAPS

Prompted == "outlive" \notin sc.faults
Untorn ==
    \A e \in Ends : flow[e].suspended => flow[e].up.pc # "switching" /\ flow[e].dl.pc # "switching"

-----------------------------------------------------------------------------
(* What the state is made of.                                               *)

flowFields == {"cur", "next", "upDst", "freezeReq", "frozen", "installed", "upSwitched", "dlSwitched",
               "upLimit", "dlLimit", "upEnded", "dlEnded", "aborted", "done", "suspended", "upParked",
               "dlParked", "resumeConn", "resumeFrom", "upBytes", "base", "end", "readDl", "writeDl",
               "rel", "up", "dl", "ack", "att", "read", "got", "st"}
upFields   == {"pc", "dst", "pend"}
dlFields   == {"pc", "src", "err"}
ackFields  == {"pc", "kick", "sent", "endSent", "endAcked", "fresh", "c", "dl", "ended"}
attFields  == {"pc", "mode", "own"}
sideFields == {"in", "open", "ended", "rended", "served", "wake"}

\* g is f but for some fields.
Same(f, g, S) == DOMAIN g = DOMAIN f /\ \A x \in DOMAIN f : x \notin S => g[x] = f[x]

Atts(a) == DOMAIN a = Tunnels /\ \A t \in Tunnels : DOMAIN a[t] = attFields /\ a[t].own \in Nat
Made(f) ==
    /\ DOMAIN f = flowFields /\ DOMAIN f.up = upFields /\ DOMAIN f.dl = dlFields /\ DOMAIN f.ack = ackFields
    /\ Atts(f.att)

\* The numbers of one end.
Counts(f) ==
    /\ f.got \in Seq(Nat) /\ f.upLimit \in Nat /\ f.dlLimit \in Nat /\ f.upBytes \in Nat /\ f.base \in Nat
    /\ f.end \in Nat /\ f.read \in Nat /\ f.up.pend \in Nat /\ f.ack.sent \in Nat /\ f.ack.dl \in Nat
    /\ f.resumeFrom \in Nat /\ f.resumeFrom <= f.end

\* Where one end is: on tunnels that have been opened, 1..u.
Located(f, u) ==
    /\ f.cur \in 0..u /\ f.next \in 0..u /\ f.upDst \in 1..u /\ f.resumeConn \in 0..u
    /\ f.up.dst \in 1..u /\ f.dl.src \in 1..u /\ f.ack.c \in 0..u
    /\ f.ack.pc # "idle" => f.ack.c # 0
    /\ f.up.pc = "replay" => f.resumeConn # 0
    /\ \A t \in Tunnels : f.att[t].pc # "none" => t \in 1..u

-----------------------------------------------------------------------------
(* How the goroutines of one end stand to each other.                       *)

\* FreezeUp reserves the flow for one handshake, a suspension takes it away.
Freezing(f, t) == f.att[t].pc = "freezing"
Reserving(f) ==
    /\ \A t \in Tunnels : Freezing(f, t) => f.freezeReq /\ ~f.frozen /\ ~f.suspended /\ f.att[t].mode # "resume"
    /\ \A t, u \in Tunnels : Freezing(f, t) /\ Freezing(f, u) => t = u
    /\ f.suspended => ~f.freezeReq
    /\ f.frozen => f.freezeReq
    /\ f.installed => f.frozen
    /\ f.upSwitched \/ f.dlSwitched => f.installed

\* An upload pump that is waited for is awake.
UpWoken(f) == f.suspended \/ freeze(f) => f.readDl \/ f.up.pc \in {"parked", "end", "done"}

ParkedIs(f) ==
    /\ f.upParked => f.up.pc = "parked"
    /\ f.dlParked => f.dl.pc = "parked"
    /\ f.upEnded => f.up.pc \in {"end", "done"}
    /\ f.dlEnded => f.dl.pc = "done"

\* A resume that exchanges counts has the pumps parked.
Settles(f, t) == f.att[t].mode = "resume" /\ f.att[t].pc \in {"count", "readcount"}
Settling(f) == \A t \in Tunnels : Settles(f, t) => Parked(f)

\* Where a swap finds the pumps.
UpPlace(f) ==
    /\ f.up.pc = "frozen" => f.frozen /\ ~f.installed
    /\ f.up.pc \in {"wake", "switching"} /\ ~f.suspended => f.installed /\ ~f.upSwitched
DlPlace(f) ==
    /\ f.dl.pc \in {"switch", "switching"} /\ ~f.suspended => f.installed /\ ~f.dlSwitched
    /\ f.dl.pc = "switching" /\ ~f.suspended => f.dl.src = f.next
    /\ f.dl.pc \in {"read", "wait", "decide", "overrun", "switch"} /\ ~f.suspended =>
          f.dl.src = IF f.installed /\ f.dlSwitched THEN f.next ELSE f.cur
    /\ ~f.suspended => f.cur # 0
    /\ f.installed => f.next # 0

\* With W the tunnels this end will not sleep on and D those that are dead.
DlWoken(f, W) == Swapping(f) /\ f.dl.pc = "read" => f.dl.src \in W \/ dlBytes(f) < f.dlLimit
AckOK(f, D) ==
    /\ Replay /\ ~f.suspended /\ ~f.installed /\ Unacked(f) => f.ack.kick \/ f.ack.pc # "idle" \/ f.upDst \in D
    /\ ~f.suspended /\ ~f.installed /\ f.ack.pc = "send" /\ f.ack.fresh => f.ack.c = f.upDst

Ctl(f, D, W) ==
    /\ Reserving(f) /\ UpWoken(f) /\ ParkedIs(f) /\ Settling(f) /\ UpPlace(f) /\ DlPlace(f)
    /\ DlWoken(f, W) /\ AckOK(f, D)

Stopped(f) == f.up.pc = "done" /\ f.dl.pc = "done"

EndInv(f, D, W, u) ==
    /\ Made(f) /\ Counts(f) /\ Located(f, u)
    /\ IF Running(f) THEN Ctl(f, D, W) ELSE Stopped(f)

-----------------------------------------------------------------------------
(* What each change of one end keeps.                                       *)

\* The handshakes move on: none freezes or settles that did not, unless the
\* pumps are parked.
LEMMA AttsKeep ==
    ASSUME NEW D, NEW W, NEW u, NEW f, EndInv(f, D, W, u), NEW g, Same(f, g, {"att"}), Atts(g.att),
           \A t \in Tunnels : /\ Freezing(g, t) => Freezing(f, t) /\ g.att[t].mode = f.att[t].mode
                              /\ Settles(g, t) => Settles(f, t) \/ Parked(f)
                              /\ g.att[t].pc # "none" => t \in 1..u
    PROVE  EndInv(g, D, W, u)
<1>1. \A x \in flowFields : x # "att" => g[x] = f[x]
  BY DEF EndInv, Made, Same
<1>2. /\ g.cur = f.cur /\ g.next = f.next /\ g.upDst = f.upDst /\ g.freezeReq = f.freezeReq
      /\ g.frozen = f.frozen /\ g.installed = f.installed /\ g.upSwitched = f.upSwitched
      /\ g.dlSwitched = f.dlSwitched /\ g.upLimit = f.upLimit /\ g.dlLimit = f.dlLimit /\ g.upEnded = f.upEnded
      /\ g.dlEnded = f.dlEnded /\ g.aborted = f.aborted /\ g.done = f.done /\ g.suspended = f.suspended
      /\ g.upParked = f.upParked /\ g.dlParked = f.dlParked /\ g.resumeConn = f.resumeConn
      /\ g.resumeFrom = f.resumeFrom /\ g.upBytes = f.upBytes /\ g.base = f.base /\ g.end = f.end
      /\ g.readDl = f.readDl /\ g.writeDl = f.writeDl /\ g.rel = f.rel /\ g.up = f.up /\ g.dl = f.dl
      /\ g.ack = f.ack /\ g.read = f.read /\ g.got = f.got /\ g.st = f.st
  BY <1>1 DEF flowFields
<1>3. Made(g)
  BY <1>2 DEF EndInv, Made, Same
<1>4. Counts(g) /\ Located(g, u)
  BY <1>2 DEF EndInv, Counts, Located
<1>5. CASE Running(f)
  <2>1. Reserving(g)
    BY <1>2, <1>5 DEF EndInv, Ctl, Reserving, Freezing
  <2>2. Settling(g) /\ Parked(g) = Parked(f)
    BY <1>2, <1>5 DEF EndInv, Ctl, Settling, Parked
  <2>3. UpWoken(g) /\ ParkedIs(g) /\ UpPlace(g) /\ DlPlace(g)
    BY <1>2, <1>5 DEF EndInv, Ctl, UpWoken, freeze, ParkedIs, UpPlace, DlPlace
  <2>4. DlWoken(g, W) /\ AckOK(g, D)
    BY <1>2, <1>5 DEF EndInv, Ctl, DlWoken, Swapping, dlBytes, AckOK, Unacked
  <2> QED BY <1>2, <1>3, <1>4, <1>5, <2>1, <2>2, <2>3, <2>4 DEF EndInv, Ctl, Running
<1>6. CASE ~Running(f)
  BY <1>2, <1>3, <1>4, <1>6 DEF EndInv, Stopped, Running
<1> QED BY <1>5, <1>6


\* FreezeUp is followed by the count (server) or by the answer (client).
LEMMA AfterFreezeIs == \A e \in Ends : AfterFreeze(e) \in {"count", "accept"}
BY DEF AfterFreeze


\* parkUp.
LEMMA UpParkedKeeps ==
    ASSUME NEW D, NEW W, NEW u \in Nat, NEW f, EndInv(f, D, W, u), Running(f), f.suspended, f.up.pc \notin {"end", "done"}
    PROVE  EndInv(UpParked(f), D, W, u)
<1>1. PICK g : g = UpParked(f)
  OBVIOUS
<1>2. Same(f, g, {"readDl", "upParked", "up"})
  BY <1>1 DEF EndInv, Made, Same, UpParked
<1>3. g.readDl = FALSE /\ g.upParked = TRUE /\ DOMAIN g.up = upFields /\ g.up.pc = "parked" /\ g.up.dst = f.up.dst /\ g.up.pend = f.up.pend
  BY <1>1 DEF EndInv, Made, flowFields, upFields, UpParked
<1>4. \A x \in flowFields : x \notin {"readDl", "upParked", "up"} => g[x] = f[x]
  BY <1>2 DEF EndInv, Made, Same
<1>5. /\ g.cur = f.cur /\ g.next = f.next /\ g.upDst = f.upDst /\ g.freezeReq = f.freezeReq
      /\ g.frozen = f.frozen /\ g.installed = f.installed /\ g.upSwitched = f.upSwitched
      /\ g.dlSwitched = f.dlSwitched /\ g.upLimit = f.upLimit /\ g.dlLimit = f.dlLimit /\ g.upEnded = f.upEnded
      /\ g.dlEnded = f.dlEnded /\ g.aborted = f.aborted /\ g.done = f.done /\ g.suspended = f.suspended
      /\ g.dlParked = f.dlParked /\ g.resumeConn = f.resumeConn /\ g.resumeFrom = f.resumeFrom
      /\ g.upBytes = f.upBytes /\ g.base = f.base /\ g.end = f.end /\ g.writeDl = f.writeDl /\ g.rel = f.rel
      /\ g.dl = f.dl /\ g.ack = f.ack /\ g.att = f.att /\ g.read = f.read /\ g.got = f.got /\ g.st = f.st
  BY <1>4 DEF flowFields
<1>6. Made(g)
  BY <1>2, <1>3, <1>5 DEF EndInv, Made, Same
<1>7. Counts(g)
  BY <1>3, <1>5 DEF EndInv, Counts
<1>8. Located(g, u)
  BY <1>3, <1>5 DEF EndInv, Located
<1>9. Ctl(g, D, W)
  BY <1>3, <1>5 DEF EndInv, Ctl, Reserving, Freezing, UpWoken, freeze, ParkedIs, Settling, Settles, Parked, UpPlace, DlPlace,
         DlWoken, Swapping, dlBytes, AckOK, Unacked
<1> QED BY <1>1, <1>3, <1>5, <1>6, <1>7, <1>8, <1>9 DEF EndInv, Running

\* Suspend, of a flow that is not suspended yet.
LEMMA SuspendedKeeps ==
    ASSUME NEW D, NEW W, NEW u \in Nat, NEW f, EndInv(f, D, W, u), Running(f), ~f.suspended
    PROVE  EndInv(Suspended(f), D, W, u)
<1>1. PICK g : g = Suspended(f)
  OBVIOUS
<1>2. Same(f, g, {"suspended", "freezeReq", "frozen", "installed", "upSwitched", "dlSwitched", "next", "upParked", "dlParked", "readDl", "writeDl", "att", "up", "dl"})
  BY <1>1 DEF EndInv, Made, Same, Suspended, Released
<1>3. /\ g.suspended = TRUE /\ g.freezeReq = FALSE /\ g.frozen = FALSE /\ g.installed = FALSE
      /\ g.upSwitched = FALSE /\ g.dlSwitched = FALSE /\ g.next = 0 /\ g.upParked = FALSE /\ g.dlParked = FALSE
      /\ g.readDl = TRUE /\ g.writeDl = TRUE
      /\ DOMAIN g.up = upFields /\ g.up.pc = (IF f.up.pc = "frozen" THEN "wake" ELSE f.up.pc) /\ g.up.dst = f.up.dst /\ g.up.pend = f.up.pend
      /\ DOMAIN g.dl = dlFields /\ g.dl.pc = (IF f.dl.pc = "wait" THEN "decide" ELSE f.dl.pc) /\ g.dl.src = f.dl.src
      /\ g.att = [t \in Tunnels |-> IF f.att[t].pc = "freezing" THEN [f.att[t] EXCEPT !.pc = "fail"] ELSE f.att[t]]
  BY <1>1 DEF EndInv, Made, flowFields, attFields, upFields, dlFields, Suspended, Released
<1>4. \A x \in flowFields : x \notin {"suspended", "freezeReq", "frozen", "installed", "upSwitched", "dlSwitched", "next", "upParked", "dlParked", "readDl", "writeDl", "att", "up", "dl"} => g[x] = f[x]
  BY <1>2 DEF EndInv, Made, Same
<1>5. /\ g.cur = f.cur /\ g.upDst = f.upDst /\ g.upLimit = f.upLimit /\ g.dlLimit = f.dlLimit
      /\ g.upEnded = f.upEnded /\ g.dlEnded = f.dlEnded /\ g.aborted = f.aborted /\ g.done = f.done
      /\ g.resumeConn = f.resumeConn /\ g.resumeFrom = f.resumeFrom /\ g.upBytes = f.upBytes /\ g.base = f.base
      /\ g.end = f.end /\ g.rel = f.rel /\ g.ack = f.ack /\ g.read = f.read /\ g.got = f.got /\ g.st = f.st
  BY <1>4 DEF flowFields
<1>a. \A t \in Tunnels : DOMAIN g.att[t] = attFields /\ g.att[t].mode = f.att[t].mode /\ g.att[t].own = f.att[t].own /\ g.att[t].pc = (IF f.att[t].pc = "freezing" THEN "fail" ELSE f.att[t].pc)
  BY <1>3 DEF EndInv, Made, Atts, attFields
<1>6. Made(g)
  BY <1>2, <1>3, <1>5, <1>a DEF EndInv, Made, Same, Atts
<1>7. Counts(g)
  BY <1>3, <1>5 DEF EndInv, Counts
<1>8. Located(g, u)
  BY <1>3, <1>5, <1>a DEF EndInv, Located
<1>9. Ctl(g, D, W)
  BY <1>3, <1>5, <1>a DEF EndInv, Ctl, Reserving, Freezing, UpWoken, freeze, ParkedIs, Settling, Settles, Parked, UpPlace, DlPlace,
         DlWoken, Swapping, dlBytes, AckOK, Unacked
<1> QED BY <1>1, <1>3, <1>5, <1>6, <1>7, <1>8, <1>9 DEF EndInv, Running

\* Abort, of a flow that runs.
LEMMA AbortedKeeps ==
    ASSUME NEW D, NEW W, NEW u \in Nat, NEW f, EndInv(f, D, W, u), Running(f), NEW why, why # "no"
    PROVE  EndInv(Aborted(f, why), D, W, u)
<1>1. PICK g : g = Aborted(f, why)
  OBVIOUS
<1>2. Same(f, g, {"aborted", "up", "dl", "ack", "st", "att"})
  BY <1>1 DEF EndInv, Made, Same, Aborted
<1>3. /\ g.aborted = why /\ DOMAIN g.up = upFields /\ g.up.pc = "done" /\ g.up.dst = f.up.dst /\ g.up.pend = f.up.pend
      /\ DOMAIN g.dl = dlFields /\ g.dl.pc = "done" /\ g.dl.src = f.dl.src
      /\ DOMAIN g.ack = ackFields /\ g.ack.pc = "idle" /\ g.ack.sent = f.ack.sent /\ g.ack.dl = f.ack.dl /\ g.ack.c = f.ack.c
      /\ g.att = [t \in Tunnels |-> IF f.att[t].pc \in {"freezing", "begin"} THEN [f.att[t] EXCEPT !.pc = "fail"] ELSE f.att[t]]
  BY <1>1 DEF EndInv, Made, flowFields, upFields, dlFields, ackFields, attFields, Aborted
<1>4. \A x \in flowFields : x \notin {"aborted", "up", "dl", "ack", "st", "att"} => g[x] = f[x]
  BY <1>2 DEF EndInv, Made, Same
<1>5. /\ g.cur = f.cur /\ g.next = f.next /\ g.upDst = f.upDst /\ g.freezeReq = f.freezeReq
      /\ g.frozen = f.frozen /\ g.installed = f.installed /\ g.upSwitched = f.upSwitched
      /\ g.dlSwitched = f.dlSwitched /\ g.upLimit = f.upLimit /\ g.dlLimit = f.dlLimit /\ g.upEnded = f.upEnded
      /\ g.dlEnded = f.dlEnded /\ g.done = f.done /\ g.suspended = f.suspended /\ g.upParked = f.upParked
      /\ g.dlParked = f.dlParked /\ g.resumeConn = f.resumeConn /\ g.resumeFrom = f.resumeFrom
      /\ g.upBytes = f.upBytes /\ g.base = f.base /\ g.end = f.end /\ g.readDl = f.readDl
      /\ g.writeDl = f.writeDl /\ g.rel = f.rel /\ g.read = f.read /\ g.got = f.got
  BY <1>4 DEF flowFields
<1>a. \A t \in Tunnels : DOMAIN g.att[t] = attFields /\ g.att[t].mode = f.att[t].mode /\ g.att[t].own = f.att[t].own /\ g.att[t].pc = (IF f.att[t].pc \in {"freezing", "begin"} THEN "fail" ELSE f.att[t].pc)
  BY <1>3 DEF EndInv, Made, Atts, attFields
<1>6. Made(g)
  BY <1>2, <1>3, <1>5, <1>a DEF EndInv, Made, Same, Atts
<1>7. Counts(g)
  BY <1>3, <1>5 DEF EndInv, Counts
<1>8. Located(g, u)
  BY <1>3, <1>5, <1>a DEF EndInv, Located
<1>9. ~Running(g) /\ Stopped(g)
  BY <1>3, <1>5 DEF Running, Stopped
<1> QED BY <1>1, <1>6, <1>7, <1>8, <1>9 DEF EndInv

\* The upload pump at its boundary, a freeze waiting for it.
LEMMA BoundaryKeeps ==
    ASSUME NEW D, NEW W, NEW u \in Nat, NEW f, EndInv(f, D, W, u), Running(f), ~f.suspended, freeze(f), f.up.pc = "run",
           NEW e \in Ends
    PROVE  EndInv([Frozen(e, f) EXCEPT !.readDl = FALSE, !.up.pc = "frozen"], D, W, u)
<1>1. PICK g : g = [Frozen(e, f) EXCEPT !.readDl = FALSE, !.up.pc = "frozen"]
  OBVIOUS
<1>2. Same(f, g, {"frozen", "upLimit", "att", "readDl", "up"})
  BY <1>1 DEF EndInv, Made, Same, Frozen
<1>3. /\ g.frozen = TRUE /\ g.upLimit = f.upBytes /\ g.readDl = FALSE
      /\ DOMAIN g.up = upFields /\ g.up.pc = "frozen" /\ g.up.dst = f.up.dst /\ g.up.pend = f.up.pend
      /\ g.att = [t \in Tunnels |-> IF f.att[t].pc = "freezing"
                   THEN [f.att[t] EXCEPT !.own = f.upBytes, !.pc = AfterFreeze(e)] ELSE f.att[t]]
  BY <1>1 DEF EndInv, Made, flowFields, upFields, attFields, Frozen
<1>4. \A x \in flowFields : x \notin {"frozen", "upLimit", "att", "readDl", "up"} => g[x] = f[x]
  BY <1>2 DEF EndInv, Made, Same
<1>5. /\ g.cur = f.cur /\ g.next = f.next /\ g.upDst = f.upDst /\ g.freezeReq = f.freezeReq
      /\ g.installed = f.installed /\ g.upSwitched = f.upSwitched /\ g.dlSwitched = f.dlSwitched
      /\ g.dlLimit = f.dlLimit /\ g.upEnded = f.upEnded /\ g.dlEnded = f.dlEnded /\ g.aborted = f.aborted
      /\ g.done = f.done /\ g.suspended = f.suspended /\ g.upParked = f.upParked /\ g.dlParked = f.dlParked
      /\ g.resumeConn = f.resumeConn /\ g.resumeFrom = f.resumeFrom /\ g.upBytes = f.upBytes /\ g.base = f.base
      /\ g.end = f.end /\ g.writeDl = f.writeDl /\ g.rel = f.rel /\ g.dl = f.dl /\ g.ack = f.ack
      /\ g.read = f.read /\ g.got = f.got /\ g.st = f.st
  BY <1>4 DEF flowFields
<1>6. PICK x \in {"count", "accept"} : x = AfterFreeze(e)
  BY AfterFreezeIs
<1>7. Atts(f.att) /\ f.upBytes \in Nat
  BY DEF EndInv, Made, Counts
<1>8. ASSUME NEW t \in Tunnels
      PROVE  /\ DOMAIN g.att[t] = attFields /\ g.att[t].mode = f.att[t].mode /\ g.att[t].own \in Nat
             /\ g.att[t].pc = IF f.att[t].pc = "freezing" THEN x ELSE f.att[t].pc
  <2>1. PICK b : b = f.att[t]
    OBVIOUS
  <2>2. g.att[t] = IF b.pc = "freezing" THEN [b EXCEPT !.own = f.upBytes, !.pc = x] ELSE b
    BY <1>3, <1>6, <2>1
  <2>3. DOMAIN b = attFields /\ b.own \in Nat
    BY <1>7, <2>1 DEF Atts
  <2>4. CASE b.pc = "freezing"
    BY <1>7, <2>1, <2>2, <2>3, <2>4 DEF attFields
  <2> QED BY <2>1, <2>2, <2>3, <2>4
<1>9. Made(g)
  BY <1>2, <1>3, <1>5, <1>8 DEF EndInv, Made, Same, Atts
<1>10. Counts(g) /\ Located(g, u)
  <2>1. Counts(g)
    BY <1>3, <1>5 DEF EndInv, Counts
  <2> QED BY <1>3, <1>5, <1>8, <2>1 DEF EndInv, Located
<1>11. Ctl(g, D, W)
  <2>1. Reserving(g)
    BY <1>3, <1>5, <1>8 DEF EndInv, Ctl, Reserving, Freezing, UpPlace, freeze
  <2>2. Settling(g)
    <3>1. \A t \in Tunnels : Settles(g, t) => Settles(f, t)
      BY <1>8 DEF Settles, Reserving, Freezing, EndInv, Ctl
    <3> QED BY <1>3, <1>5, <3>1 DEF EndInv, Ctl, Settling, Parked
  <2> QED BY <1>3, <1>5, <2>1, <2>2 DEF EndInv, Ctl, UpWoken, freeze, ParkedIs, UpPlace, DlPlace, DlWoken,
             Swapping, dlBytes, AckOK, Unacked, Reserving
<1> QED BY <1>1, <1>5, <1>9, <1>10, <1>11 DEF EndInv, Running

\* The app's next byte is read.
LEMMA WithByteKeeps ==
    ASSUME NEW D, NEW W, NEW u \in Nat, NEW f, EndInv(f, D, W, u), Running(f)
    PROVE  EndInv(WithByte(f), D, W, u)
<1>1. PICK g : g = WithByte(f)
  OBVIOUS
<1>2. Same(f, g, {"read", "up"})
  BY <1>1 DEF EndInv, Made, Same, WithByte
<1>3. /\ DOMAIN g.up = upFields /\ g.up.pc = f.up.pc /\ g.up.dst = f.up.dst /\ g.up.pend = (IF f.up.pend # 0 THEN f.up.pend ELSE f.read + 1)
      /\ g.read = IF f.up.pend # 0 THEN f.read ELSE f.read + 1
  BY <1>1 DEF EndInv, Made, flowFields, upFields, WithByte
<1>4. \A x \in flowFields : x \notin {"read", "up"} => g[x] = f[x]
  BY <1>2 DEF EndInv, Made, Same
<1>5. /\ g.cur = f.cur /\ g.next = f.next /\ g.upDst = f.upDst /\ g.freezeReq = f.freezeReq
      /\ g.frozen = f.frozen /\ g.installed = f.installed /\ g.upSwitched = f.upSwitched
      /\ g.dlSwitched = f.dlSwitched /\ g.upLimit = f.upLimit /\ g.dlLimit = f.dlLimit /\ g.upEnded = f.upEnded
      /\ g.dlEnded = f.dlEnded /\ g.aborted = f.aborted /\ g.done = f.done /\ g.suspended = f.suspended
      /\ g.upParked = f.upParked /\ g.dlParked = f.dlParked /\ g.resumeConn = f.resumeConn
      /\ g.resumeFrom = f.resumeFrom /\ g.upBytes = f.upBytes /\ g.base = f.base /\ g.end = f.end
      /\ g.readDl = f.readDl /\ g.writeDl = f.writeDl /\ g.rel = f.rel /\ g.dl = f.dl /\ g.ack = f.ack
      /\ g.att = f.att /\ g.got = f.got /\ g.st = f.st
  BY <1>4 DEF flowFields
<1>6. Made(g)
  BY <1>2, <1>3, <1>5 DEF EndInv, Made, Same
<1>7. Counts(g)
  BY <1>3, <1>5 DEF EndInv, Counts
<1>8. Located(g, u)
  BY <1>3, <1>5 DEF EndInv, Located
<1>9. Ctl(g, D, W)
  BY <1>3, <1>5 DEF EndInv, Ctl, Reserving, Freezing, UpWoken, freeze, ParkedIs, Settling, Settles, Parked, UpPlace, DlPlace,
         DlWoken, Swapping, dlBytes, AckOK, Unacked
<1> QED BY <1>1, <1>3, <1>5, <1>6, <1>7, <1>8, <1>9 DEF EndInv, Running

\* The byte is retained.
LEMMA RetainedKeeps ==
    ASSUME NEW D, NEW W, NEW u \in Nat, NEW f, EndInv(f, D, W, u), Running(f), f.up.pc \in {"run", "full"}, NEW n \in Nat, n >= f.end
    PROVE  EndInv([f EXCEPT !.up.pend = 0, !.up.pc = "run", !.end = n], D, W, u)
<1>1. PICK g : g = [f EXCEPT !.up.pend = 0, !.up.pc = "run", !.end = n]
  OBVIOUS
<1>2. Same(f, g, {"up", "end"})
  BY <1>1 DEF EndInv, Made, Same, Same
<1>3. DOMAIN g.up = upFields /\ g.up.pc = "run" /\ g.up.dst = f.up.dst /\ g.up.pend = 0 /\ g.end = n
  BY <1>1 DEF EndInv, Made, flowFields, upFields, Same
<1>4. \A x \in flowFields : x \notin {"up", "end"} => g[x] = f[x]
  BY <1>2 DEF EndInv, Made, Same
<1>5. /\ g.cur = f.cur /\ g.next = f.next /\ g.upDst = f.upDst /\ g.freezeReq = f.freezeReq
      /\ g.frozen = f.frozen /\ g.installed = f.installed /\ g.upSwitched = f.upSwitched
      /\ g.dlSwitched = f.dlSwitched /\ g.upLimit = f.upLimit /\ g.dlLimit = f.dlLimit /\ g.upEnded = f.upEnded
      /\ g.dlEnded = f.dlEnded /\ g.aborted = f.aborted /\ g.done = f.done /\ g.suspended = f.suspended
      /\ g.upParked = f.upParked /\ g.dlParked = f.dlParked /\ g.resumeConn = f.resumeConn
      /\ g.resumeFrom = f.resumeFrom /\ g.upBytes = f.upBytes /\ g.base = f.base /\ g.readDl = f.readDl
      /\ g.writeDl = f.writeDl /\ g.rel = f.rel /\ g.dl = f.dl /\ g.ack = f.ack /\ g.att = f.att
      /\ g.read = f.read /\ g.got = f.got /\ g.st = f.st
  BY <1>4 DEF flowFields
<1>6. Made(g)
  BY <1>2, <1>3, <1>5 DEF EndInv, Made, Same
<1>7. Counts(g)
  BY <1>3, <1>5 DEF EndInv, Counts
<1>8. Located(g, u)
  BY <1>3, <1>5 DEF EndInv, Located
<1>9. Ctl(g, D, W)
  BY <1>3, <1>5 DEF EndInv, Ctl, Reserving, Freezing, UpWoken, freeze, ParkedIs, Settling, Settles, Parked, UpPlace, DlPlace,
         DlWoken, Swapping, dlBytes, AckOK, Unacked
<1> QED BY <1>1, <1>3, <1>5, <1>6, <1>7, <1>8, <1>9 DEF EndInv, Running

\* The upload pump waits for room, or no longer.
LEMMA UpMovesKeep ==
    ASSUME NEW D, NEW W, NEW u \in Nat, NEW f, EndInv(f, D, W, u), Running(f), f.up.pc \in {"run", "full"}, NEW pc \in {"run", "full"}
    PROVE  EndInv([f EXCEPT !.up.pc = pc], D, W, u)
<1>1. PICK g : g = [f EXCEPT !.up.pc = pc]
  OBVIOUS
<1>2. Same(f, g, {"up"})
  BY <1>1 DEF EndInv, Made, Same, Same
<1>3. DOMAIN g.up = upFields /\ g.up.pc = pc /\ g.up.dst = f.up.dst /\ g.up.pend = f.up.pend
  BY <1>1 DEF EndInv, Made, flowFields, upFields, Same
<1>4. \A x \in flowFields : x \notin {"up"} => g[x] = f[x]
  BY <1>2 DEF EndInv, Made, Same
<1>5. /\ g.cur = f.cur /\ g.next = f.next /\ g.upDst = f.upDst /\ g.freezeReq = f.freezeReq
      /\ g.frozen = f.frozen /\ g.installed = f.installed /\ g.upSwitched = f.upSwitched
      /\ g.dlSwitched = f.dlSwitched /\ g.upLimit = f.upLimit /\ g.dlLimit = f.dlLimit /\ g.upEnded = f.upEnded
      /\ g.dlEnded = f.dlEnded /\ g.aborted = f.aborted /\ g.done = f.done /\ g.suspended = f.suspended
      /\ g.upParked = f.upParked /\ g.dlParked = f.dlParked /\ g.resumeConn = f.resumeConn
      /\ g.resumeFrom = f.resumeFrom /\ g.upBytes = f.upBytes /\ g.base = f.base /\ g.end = f.end
      /\ g.readDl = f.readDl /\ g.writeDl = f.writeDl /\ g.rel = f.rel /\ g.dl = f.dl /\ g.ack = f.ack
      /\ g.att = f.att /\ g.read = f.read /\ g.got = f.got /\ g.st = f.st
  BY <1>4 DEF flowFields
<1>6. Made(g)
  BY <1>2, <1>3, <1>5 DEF EndInv, Made, Same
<1>7. Counts(g)
  BY <1>3, <1>5 DEF EndInv, Counts
<1>8. Located(g, u)
  BY <1>3, <1>5 DEF EndInv, Located
<1>9. Ctl(g, D, W)
  BY <1>3, <1>5 DEF EndInv, Ctl, Reserving, Freezing, UpWoken, freeze, ParkedIs, Settling, Settles, Parked, UpPlace, DlPlace,
         DlWoken, Swapping, dlBytes, AckOK, Unacked
<1> QED BY <1>1, <1>3, <1>5, <1>6, <1>7, <1>8, <1>9 DEF EndInv, Running

\* The app's EOF.
LEMMA EOFKeeps ==
    ASSUME NEW D, NEW W, NEW u \in Nat, NEW f, EndInv(f, D, W, u), Running(f), f.up.pc = "run"
    PROVE  EndInv([f EXCEPT !.upEnded = TRUE, !.up.pc = "end"], D, W, u)
<1>1. PICK g : g = [f EXCEPT !.upEnded = TRUE, !.up.pc = "end"]
  OBVIOUS
<1>2. Same(f, g, {"upEnded", "up"})
  BY <1>1 DEF EndInv, Made, Same, Same
<1>3. g.upEnded = TRUE /\ DOMAIN g.up = upFields /\ g.up.pc = "end" /\ g.up.dst = f.up.dst /\ g.up.pend = f.up.pend
  BY <1>1 DEF EndInv, Made, flowFields, upFields, Same
<1>4. \A x \in flowFields : x \notin {"upEnded", "up"} => g[x] = f[x]
  BY <1>2 DEF EndInv, Made, Same
<1>5. /\ g.cur = f.cur /\ g.next = f.next /\ g.upDst = f.upDst /\ g.freezeReq = f.freezeReq
      /\ g.frozen = f.frozen /\ g.installed = f.installed /\ g.upSwitched = f.upSwitched
      /\ g.dlSwitched = f.dlSwitched /\ g.upLimit = f.upLimit /\ g.dlLimit = f.dlLimit /\ g.dlEnded = f.dlEnded
      /\ g.aborted = f.aborted /\ g.done = f.done /\ g.suspended = f.suspended /\ g.upParked = f.upParked
      /\ g.dlParked = f.dlParked /\ g.resumeConn = f.resumeConn /\ g.resumeFrom = f.resumeFrom
      /\ g.upBytes = f.upBytes /\ g.base = f.base /\ g.end = f.end /\ g.readDl = f.readDl
      /\ g.writeDl = f.writeDl /\ g.rel = f.rel /\ g.dl = f.dl /\ g.ack = f.ack /\ g.att = f.att
      /\ g.read = f.read /\ g.got = f.got /\ g.st = f.st
  BY <1>4 DEF flowFields
<1>6. Made(g)
  BY <1>2, <1>3, <1>5 DEF EndInv, Made, Same
<1>7. Counts(g)
  BY <1>3, <1>5 DEF EndInv, Counts
<1>8. Located(g, u)
  BY <1>3, <1>5 DEF EndInv, Located
<1>9. Ctl(g, D, W)
  BY <1>3, <1>5 DEF EndInv, Ctl, Reserving, Freezing, UpWoken, freeze, ParkedIs, Settling, Settles, Parked, UpPlace, DlPlace,
         DlWoken, Swapping, dlBytes, AckOK, Unacked
<1> QED BY <1>1, <1>3, <1>5, <1>6, <1>7, <1>8, <1>9 DEF EndInv, Running

\* The upload is over.
LEMMA OverKeeps ==
    ASSUME NEW D, NEW W, NEW u \in Nat, NEW f, EndInv(f, D, W, u), Running(f), f.up.pc = "end"
    PROVE  EndInv([f EXCEPT !.up.pc = "done"], D, W, u)
<1>1. PICK g : g = [f EXCEPT !.up.pc = "done"]
  OBVIOUS
<1>2. Same(f, g, {"up"})
  BY <1>1 DEF EndInv, Made, Same, Same
<1>3. DOMAIN g.up = upFields /\ g.up.pc = "done" /\ g.up.dst = f.up.dst /\ g.up.pend = f.up.pend
  BY <1>1 DEF EndInv, Made, flowFields, upFields, Same
<1>4. \A x \in flowFields : x \notin {"up"} => g[x] = f[x]
  BY <1>2 DEF EndInv, Made, Same
<1>5. /\ g.cur = f.cur /\ g.next = f.next /\ g.upDst = f.upDst /\ g.freezeReq = f.freezeReq
      /\ g.frozen = f.frozen /\ g.installed = f.installed /\ g.upSwitched = f.upSwitched
      /\ g.dlSwitched = f.dlSwitched /\ g.upLimit = f.upLimit /\ g.dlLimit = f.dlLimit /\ g.upEnded = f.upEnded
      /\ g.dlEnded = f.dlEnded /\ g.aborted = f.aborted /\ g.done = f.done /\ g.suspended = f.suspended
      /\ g.upParked = f.upParked /\ g.dlParked = f.dlParked /\ g.resumeConn = f.resumeConn
      /\ g.resumeFrom = f.resumeFrom /\ g.upBytes = f.upBytes /\ g.base = f.base /\ g.end = f.end
      /\ g.readDl = f.readDl /\ g.writeDl = f.writeDl /\ g.rel = f.rel /\ g.dl = f.dl /\ g.ack = f.ack
      /\ g.att = f.att /\ g.read = f.read /\ g.got = f.got /\ g.st = f.st
  BY <1>4 DEF flowFields
<1>6. Made(g)
  BY <1>2, <1>3, <1>5 DEF EndInv, Made, Same
<1>7. Counts(g)
  BY <1>3, <1>5 DEF EndInv, Counts
<1>8. Located(g, u)
  BY <1>3, <1>5 DEF EndInv, Located
<1>9. Ctl(g, D, W)
  BY <1>3, <1>5 DEF EndInv, Ctl, Reserving, Freezing, UpWoken, freeze, ParkedIs, Settling, Settles, Parked, UpPlace, DlPlace,
         DlWoken, Swapping, dlBytes, AckOK, Unacked
<1> QED BY <1>1, <1>3, <1>5, <1>6, <1>7, <1>8, <1>9 DEF EndInv, Running

\* The upload pump takes the new tunnel.
LEMMA ToNextKeeps ==
    ASSUME NEW D, NEW W, NEW u \in Nat, NEW f, EndInv(f, D, W, u), Running(f), f.up.pc = "wake", ~f.suspended, f.next # 0
    PROVE  EndInv([f EXCEPT !.up.dst = f.next, !.upDst = f.next, !.up.pc = "switching"], D, W, u)
<1>1. PICK g : g = [f EXCEPT !.up.dst = f.next, !.upDst = f.next, !.up.pc = "switching"]
  OBVIOUS
<1>2. Same(f, g, {"up", "upDst"})
  BY <1>1 DEF EndInv, Made, Same, Same
<1>3. g.upDst = f.next /\ DOMAIN g.up = upFields /\ g.up.pc = "switching" /\ g.up.dst = f.next /\ g.up.pend = f.up.pend
  BY <1>1 DEF EndInv, Made, flowFields, upFields, Same
<1>4. \A x \in flowFields : x \notin {"up", "upDst"} => g[x] = f[x]
  BY <1>2 DEF EndInv, Made, Same
<1>5. /\ g.cur = f.cur /\ g.next = f.next /\ g.freezeReq = f.freezeReq /\ g.frozen = f.frozen
      /\ g.installed = f.installed /\ g.upSwitched = f.upSwitched /\ g.dlSwitched = f.dlSwitched
      /\ g.upLimit = f.upLimit /\ g.dlLimit = f.dlLimit /\ g.upEnded = f.upEnded /\ g.dlEnded = f.dlEnded
      /\ g.aborted = f.aborted /\ g.done = f.done /\ g.suspended = f.suspended /\ g.upParked = f.upParked
      /\ g.dlParked = f.dlParked /\ g.resumeConn = f.resumeConn /\ g.resumeFrom = f.resumeFrom
      /\ g.upBytes = f.upBytes /\ g.base = f.base /\ g.end = f.end /\ g.readDl = f.readDl
      /\ g.writeDl = f.writeDl /\ g.rel = f.rel /\ g.dl = f.dl /\ g.ack = f.ack /\ g.att = f.att
      /\ g.read = f.read /\ g.got = f.got /\ g.st = f.st
  BY <1>4 DEF flowFields
<1>6. Made(g)
  BY <1>2, <1>3, <1>5 DEF EndInv, Made, Same
<1>7. Counts(g)
  BY <1>3, <1>5 DEF EndInv, Counts
<1>8. Located(g, u)
  BY <1>3, <1>5 DEF EndInv, Located
<1>9. Ctl(g, D, W)
  BY <1>3, <1>5 DEF EndInv, Ctl, Reserving, Freezing, UpWoken, freeze, ParkedIs, Settling, Settles, Parked, UpPlace, DlPlace,
         DlWoken, Swapping, dlBytes, AckOK, Unacked
<1> QED BY <1>1, <1>3, <1>5, <1>6, <1>7, <1>8, <1>9 DEF EndInv, Running

\* The upload pump has replayed what the peer had not delivered.
LEMMA ReplayedKeeps ==
    ASSUME NEW D, NEW W, NEW u \in Nat, NEW f, EndInv(f, D, W, u), Running(f), f.up.pc = "replay"
    PROVE  EndInv([f EXCEPT !.upBytes = f.end, !.up.dst = f.resumeConn, !.up.pc = "run"], D, W, u)
<1>1. PICK g : g = [f EXCEPT !.upBytes = f.end, !.up.dst = f.resumeConn, !.up.pc = "run"]
  OBVIOUS
<1>2. Same(f, g, {"upBytes", "up"})
  BY <1>1 DEF EndInv, Made, Same, Same
<1>3. g.upBytes = f.end /\ DOMAIN g.up = upFields /\ g.up.pc = "run" /\ g.up.dst = f.resumeConn /\ g.up.pend = f.up.pend
  BY <1>1 DEF EndInv, Made, flowFields, upFields, Same
<1>4. \A x \in flowFields : x \notin {"upBytes", "up"} => g[x] = f[x]
  BY <1>2 DEF EndInv, Made, Same
<1>5. /\ g.cur = f.cur /\ g.next = f.next /\ g.upDst = f.upDst /\ g.freezeReq = f.freezeReq
      /\ g.frozen = f.frozen /\ g.installed = f.installed /\ g.upSwitched = f.upSwitched
      /\ g.dlSwitched = f.dlSwitched /\ g.upLimit = f.upLimit /\ g.dlLimit = f.dlLimit /\ g.upEnded = f.upEnded
      /\ g.dlEnded = f.dlEnded /\ g.aborted = f.aborted /\ g.done = f.done /\ g.suspended = f.suspended
      /\ g.upParked = f.upParked /\ g.dlParked = f.dlParked /\ g.resumeConn = f.resumeConn
      /\ g.resumeFrom = f.resumeFrom /\ g.base = f.base /\ g.end = f.end /\ g.readDl = f.readDl
      /\ g.writeDl = f.writeDl /\ g.rel = f.rel /\ g.dl = f.dl /\ g.ack = f.ack /\ g.att = f.att
      /\ g.read = f.read /\ g.got = f.got /\ g.st = f.st
  BY <1>4 DEF flowFields
<1>6. Made(g)
  BY <1>2, <1>3, <1>5 DEF EndInv, Made, Same
<1>7. Counts(g)
  BY <1>3, <1>5 DEF EndInv, Counts
<1>8. Located(g, u)
  BY <1>3, <1>5 DEF EndInv, Located
<1>9. Ctl(g, D, W)
  BY <1>3, <1>5 DEF EndInv, Ctl, Reserving, Freezing, UpWoken, freeze, ParkedIs, Settling, Settles, Parked, UpPlace, DlPlace,
         DlWoken, Swapping, dlBytes, AckOK, Unacked
<1> QED BY <1>1, <1>3, <1>5, <1>6, <1>7, <1>8, <1>9 DEF EndInv, Running

\* An old tunnel has been released.
LEMMA ReleasedKeeps ==
    ASSUME NEW D, NEW W, NEW u \in Nat, NEW f, EndInv(f, D, W, u), NEW r
    PROVE  EndInv([f EXCEPT !.rel = r], D, W, u)
<1>1. PICK g : g = [f EXCEPT !.rel = r]
  OBVIOUS
<1>2. Same(f, g, {"rel"})
  BY <1>1 DEF EndInv, Made, Same, Same
<1>3. g.rel = r
  BY <1>1 DEF EndInv, Made, flowFields, Same
<1>4. \A x \in flowFields : x \notin {"rel"} => g[x] = f[x]
  BY <1>2 DEF EndInv, Made, Same
<1>5. /\ g.cur = f.cur /\ g.next = f.next /\ g.upDst = f.upDst /\ g.freezeReq = f.freezeReq
      /\ g.frozen = f.frozen /\ g.installed = f.installed /\ g.upSwitched = f.upSwitched
      /\ g.dlSwitched = f.dlSwitched /\ g.upLimit = f.upLimit /\ g.dlLimit = f.dlLimit /\ g.upEnded = f.upEnded
      /\ g.dlEnded = f.dlEnded /\ g.aborted = f.aborted /\ g.done = f.done /\ g.suspended = f.suspended
      /\ g.upParked = f.upParked /\ g.dlParked = f.dlParked /\ g.resumeConn = f.resumeConn
      /\ g.resumeFrom = f.resumeFrom /\ g.upBytes = f.upBytes /\ g.base = f.base /\ g.end = f.end
      /\ g.readDl = f.readDl /\ g.writeDl = f.writeDl /\ g.up = f.up /\ g.dl = f.dl /\ g.ack = f.ack
      /\ g.att = f.att /\ g.read = f.read /\ g.got = f.got /\ g.st = f.st
  BY <1>4 DEF flowFields
<1>6. Made(g)
  BY <1>2, <1>3, <1>5 DEF EndInv, Made, Same
<1>7. Counts(g)
  BY <1>3, <1>5 DEF EndInv, Counts
<1>8. Located(g, u)
  BY <1>3, <1>5 DEF EndInv, Located
<1>9. CASE Running(f)
  <2>1. Ctl(g, D, W)
    BY <1>3, <1>5, <1>9 DEF EndInv, Ctl, Reserving, Freezing, UpWoken, freeze, ParkedIs, Settling, Settles, Parked, UpPlace, DlPlace,
         DlWoken, Swapping, dlBytes, AckOK, Unacked
  <2> QED BY <1>1, <1>5, <1>6, <1>7, <1>8, <1>9, <2>1 DEF EndInv, Running
<1>10. CASE ~Running(f)
  BY <1>1, <1>3, <1>5, <1>6, <1>7, <1>8, <1>10 DEF EndInv, Running, Stopped
<1> QED BY <1>9, <1>10

\* More bytes are on their way.
LEMMA SentKeeps ==
    ASSUME NEW D, NEW W, NEW u \in Nat, NEW f, EndInv(f, D, W, u), NEW n \in Nat
    PROVE  EndInv([f EXCEPT !.upBytes = n], D, W, u)
<1>1. PICK g : g = [f EXCEPT !.upBytes = n]
  OBVIOUS
<1>2. Same(f, g, {"upBytes"})
  BY <1>1 DEF EndInv, Made, Same, Same
<1>3. g.upBytes = n
  BY <1>1 DEF EndInv, Made, flowFields, Same
<1>4. \A x \in flowFields : x \notin {"upBytes"} => g[x] = f[x]
  BY <1>2 DEF EndInv, Made, Same
<1>5. /\ g.cur = f.cur /\ g.next = f.next /\ g.upDst = f.upDst /\ g.freezeReq = f.freezeReq
      /\ g.frozen = f.frozen /\ g.installed = f.installed /\ g.upSwitched = f.upSwitched
      /\ g.dlSwitched = f.dlSwitched /\ g.upLimit = f.upLimit /\ g.dlLimit = f.dlLimit /\ g.upEnded = f.upEnded
      /\ g.dlEnded = f.dlEnded /\ g.aborted = f.aborted /\ g.done = f.done /\ g.suspended = f.suspended
      /\ g.upParked = f.upParked /\ g.dlParked = f.dlParked /\ g.resumeConn = f.resumeConn
      /\ g.resumeFrom = f.resumeFrom /\ g.base = f.base /\ g.end = f.end /\ g.readDl = f.readDl
      /\ g.writeDl = f.writeDl /\ g.rel = f.rel /\ g.up = f.up /\ g.dl = f.dl /\ g.ack = f.ack /\ g.att = f.att
      /\ g.read = f.read /\ g.got = f.got /\ g.st = f.st
  BY <1>4 DEF flowFields
<1>6. Made(g)
  BY <1>2, <1>3, <1>5 DEF EndInv, Made, Same
<1>7. Counts(g)
  BY <1>3, <1>5 DEF EndInv, Counts
<1>8. Located(g, u)
  BY <1>3, <1>5 DEF EndInv, Located
<1>9. CASE Running(f)
  <2>1. Ctl(g, D, W)
    BY <1>3, <1>5, <1>9 DEF EndInv, Ctl, Reserving, Freezing, UpWoken, freeze, ParkedIs, Settling, Settles, Parked, UpPlace, DlPlace,
         DlWoken, Swapping, dlBytes, AckOK, Unacked
  <2> QED BY <1>1, <1>5, <1>6, <1>7, <1>8, <1>9, <2>1 DEF EndInv, Running
<1>10. CASE ~Running(f)
  BY <1>1, <1>3, <1>5, <1>6, <1>7, <1>8, <1>10 DEF EndInv, Running, Stopped
<1> QED BY <1>9, <1>10

\* Before a read: whatever the pump slept on, it looks at the promised count.
LEMMA LookedKeeps ==
    ASSUME NEW D, NEW W, NEW u \in Nat, NEW f, NEW V, EndInv(f, D, V, u), Running(f), f.dl.pc = "read"
    PROVE  EndInv(Looked(f), D, W, u)
<1>1. PICK g : g = Looked(f)
  OBVIOUS
<1>2. Same(f, g, {"dl"})
  BY <1>1 DEF EndInv, Made, Same, Looked
<1>3. DOMAIN g.dl = dlFields /\ g.dl.pc = (IF ~Swapping(f) \/ dlBytes(f) < f.dlLimit THEN "read" ELSE IF dlBytes(f) = f.dlLimit THEN "switch" ELSE "overrun") /\ g.dl.src = f.dl.src
  BY <1>1 DEF EndInv, Made, flowFields, dlFields, Looked
<1>4. \A x \in flowFields : x \notin {"dl"} => g[x] = f[x]
  BY <1>2 DEF EndInv, Made, Same
<1>5. /\ g.cur = f.cur /\ g.next = f.next /\ g.upDst = f.upDst /\ g.freezeReq = f.freezeReq
      /\ g.frozen = f.frozen /\ g.installed = f.installed /\ g.upSwitched = f.upSwitched
      /\ g.dlSwitched = f.dlSwitched /\ g.upLimit = f.upLimit /\ g.dlLimit = f.dlLimit /\ g.upEnded = f.upEnded
      /\ g.dlEnded = f.dlEnded /\ g.aborted = f.aborted /\ g.done = f.done /\ g.suspended = f.suspended
      /\ g.upParked = f.upParked /\ g.dlParked = f.dlParked /\ g.resumeConn = f.resumeConn
      /\ g.resumeFrom = f.resumeFrom /\ g.upBytes = f.upBytes /\ g.base = f.base /\ g.end = f.end
      /\ g.readDl = f.readDl /\ g.writeDl = f.writeDl /\ g.rel = f.rel /\ g.up = f.up /\ g.ack = f.ack
      /\ g.att = f.att /\ g.read = f.read /\ g.got = f.got /\ g.st = f.st
  BY <1>4 DEF flowFields
<1>6. Made(g)
  BY <1>2, <1>3, <1>5 DEF EndInv, Made, Same
<1>7. Counts(g)
  BY <1>3, <1>5 DEF EndInv, Counts
<1>8. Located(g, u)
  BY <1>3, <1>5 DEF EndInv, Located
<1>9. Ctl(g, D, W)
  BY <1>3, <1>5 DEF EndInv, Ctl, Reserving, Freezing, UpWoken, freeze, ParkedIs, Settling, Settles, Parked, UpPlace, DlPlace,
         DlWoken, Swapping, dlBytes, AckOK, Unacked
<1> QED BY <1>1, <1>3, <1>5, <1>6, <1>7, <1>8, <1>9 DEF EndInv, Running

\* A byte reaches the app: the pump has to look next.
LEMMA DeliveredKeeps ==
    ASSUME NEW D, NEW W, NEW u \in Nat, NEW f, EndInv(f, D, W, u), Running(f), NEW b \in Nat, f.dl.pc = "read"
    PROVE  EndInv([f EXCEPT !.got = Append(@, b), !.ack.kick = Replay], D, W \cup {f.dl.src}, u)
<1>1. PICK g : g = [f EXCEPT !.got = Append(@, b), !.ack.kick = Replay]
  OBVIOUS
<1>2. Same(f, g, {"got", "ack"})
  BY <1>1 DEF EndInv, Made, Same, Same
<1>3. g.got = Append(f.got, b) /\ DOMAIN g.ack = ackFields /\ g.ack.pc = f.ack.pc /\ g.ack.kick = Replay /\ g.ack.sent = f.ack.sent /\ g.ack.endSent = f.ack.endSent /\ g.ack.endAcked = f.ack.endAcked /\ g.ack.fresh = f.ack.fresh /\ g.ack.c = f.ack.c /\ g.ack.dl = f.ack.dl /\ g.ack.ended = f.ack.ended
  BY <1>1 DEF EndInv, Made, flowFields, ackFields, Same
<1>4. \A x \in flowFields : x \notin {"got", "ack"} => g[x] = f[x]
  BY <1>2 DEF EndInv, Made, Same
<1>5. /\ g.cur = f.cur /\ g.next = f.next /\ g.upDst = f.upDst /\ g.freezeReq = f.freezeReq
      /\ g.frozen = f.frozen /\ g.installed = f.installed /\ g.upSwitched = f.upSwitched
      /\ g.dlSwitched = f.dlSwitched /\ g.upLimit = f.upLimit /\ g.dlLimit = f.dlLimit /\ g.upEnded = f.upEnded
      /\ g.dlEnded = f.dlEnded /\ g.aborted = f.aborted /\ g.done = f.done /\ g.suspended = f.suspended
      /\ g.upParked = f.upParked /\ g.dlParked = f.dlParked /\ g.resumeConn = f.resumeConn
      /\ g.resumeFrom = f.resumeFrom /\ g.upBytes = f.upBytes /\ g.base = f.base /\ g.end = f.end
      /\ g.readDl = f.readDl /\ g.writeDl = f.writeDl /\ g.rel = f.rel /\ g.up = f.up /\ g.dl = f.dl
      /\ g.att = f.att /\ g.read = f.read /\ g.st = f.st
  BY <1>4 DEF flowFields
<1>6. Made(g)
  BY <1>2, <1>3, <1>5 DEF EndInv, Made, Same
<1>7. Counts(g)
  BY <1>3, <1>5 DEF EndInv, Counts
<1>8. Located(g, u)
  BY <1>3, <1>5 DEF EndInv, Located
<1>9. Ctl(g, D, W \cup {f.dl.src})
  BY <1>3, <1>5 DEF EndInv, Ctl, Reserving, Freezing, UpWoken, freeze, ParkedIs, Settling, Settles, Parked, UpPlace, DlPlace,
         DlWoken, Swapping, dlBytes, AckOK, Unacked
<1> QED BY <1>1, <1>3, <1>5, <1>6, <1>7, <1>8, <1>9 DEF EndInv, Running

\* parkDl.
LEMMA DlParkedKeeps ==
    ASSUME NEW D, NEW W, NEW u \in Nat, NEW f, EndInv(f, D, W, u), Running(f), f.suspended, f.dl.pc # "done"
    PROVE  EndInv(DlParked(f), D, W, u)
<1>1. PICK g : g = DlParked(f)
  OBVIOUS
<1>2. Same(f, g, {"writeDl", "dlParked", "dl"})
  BY <1>1 DEF EndInv, Made, Same, DlParked
<1>3. g.writeDl = FALSE /\ g.dlParked = TRUE /\ DOMAIN g.dl = dlFields /\ g.dl.pc = "parked" /\ g.dl.src = f.dl.src
  BY <1>1 DEF EndInv, Made, flowFields, dlFields, DlParked
<1>4. \A x \in flowFields : x \notin {"writeDl", "dlParked", "dl"} => g[x] = f[x]
  BY <1>2 DEF EndInv, Made, Same
<1>5. /\ g.cur = f.cur /\ g.next = f.next /\ g.upDst = f.upDst /\ g.freezeReq = f.freezeReq
      /\ g.frozen = f.frozen /\ g.installed = f.installed /\ g.upSwitched = f.upSwitched
      /\ g.dlSwitched = f.dlSwitched /\ g.upLimit = f.upLimit /\ g.dlLimit = f.dlLimit /\ g.upEnded = f.upEnded
      /\ g.dlEnded = f.dlEnded /\ g.aborted = f.aborted /\ g.done = f.done /\ g.suspended = f.suspended
      /\ g.upParked = f.upParked /\ g.resumeConn = f.resumeConn /\ g.resumeFrom = f.resumeFrom
      /\ g.upBytes = f.upBytes /\ g.base = f.base /\ g.end = f.end /\ g.readDl = f.readDl /\ g.rel = f.rel
      /\ g.up = f.up /\ g.ack = f.ack /\ g.att = f.att /\ g.read = f.read /\ g.got = f.got /\ g.st = f.st
  BY <1>4 DEF flowFields
<1>6. Made(g)
  BY <1>2, <1>3, <1>5 DEF EndInv, Made, Same
<1>7. Counts(g)
  BY <1>3, <1>5 DEF EndInv, Counts
<1>8. Located(g, u)
  BY <1>3, <1>5 DEF EndInv, Located
<1>9. Ctl(g, D, W)
  BY <1>3, <1>5 DEF EndInv, Ctl, Reserving, Freezing, UpWoken, freeze, ParkedIs, Settling, Settles, Parked, UpPlace, DlPlace,
         DlWoken, Swapping, dlBytes, AckOK, Unacked
<1> QED BY <1>1, <1>3, <1>5, <1>6, <1>7, <1>8, <1>9 DEF EndInv, Running

\* An acknowledgement arrives.
LEMMA AckedByKeeps ==
    ASSUME NEW D, NEW W, NEW u \in Nat, NEW f, EndInv(f, D, W, u), NEW m, m[2] \in Nat
    PROVE  EndInv(AckedBy(f, m), D, W, u)
<1>1. PICK g : g = AckedBy(f, m)
  OBVIOUS
<1>2. Same(f, g, {"base", "ack"})
  BY <1>1 DEF EndInv, Made, Same, AckedBy
<1>3. g.base = (IF m[2] > f.base /\ m[2] <= f.end THEN m[2] ELSE f.base) /\ DOMAIN g.ack = ackFields /\ g.ack.pc = f.ack.pc /\ g.ack.kick = f.ack.kick /\ g.ack.sent = f.ack.sent /\ g.ack.endSent = f.ack.endSent /\ g.ack.endAcked = (f.ack.endAcked \/ m[1] = "ackend") /\ g.ack.fresh = f.ack.fresh /\ g.ack.c = f.ack.c /\ g.ack.dl = f.ack.dl /\ g.ack.ended = f.ack.ended
  BY <1>1 DEF EndInv, Made, flowFields, ackFields, AckedBy
<1>4. \A x \in flowFields : x \notin {"base", "ack"} => g[x] = f[x]
  BY <1>2 DEF EndInv, Made, Same
<1>5. /\ g.cur = f.cur /\ g.next = f.next /\ g.upDst = f.upDst /\ g.freezeReq = f.freezeReq
      /\ g.frozen = f.frozen /\ g.installed = f.installed /\ g.upSwitched = f.upSwitched
      /\ g.dlSwitched = f.dlSwitched /\ g.upLimit = f.upLimit /\ g.dlLimit = f.dlLimit /\ g.upEnded = f.upEnded
      /\ g.dlEnded = f.dlEnded /\ g.aborted = f.aborted /\ g.done = f.done /\ g.suspended = f.suspended
      /\ g.upParked = f.upParked /\ g.dlParked = f.dlParked /\ g.resumeConn = f.resumeConn
      /\ g.resumeFrom = f.resumeFrom /\ g.upBytes = f.upBytes /\ g.end = f.end /\ g.readDl = f.readDl
      /\ g.writeDl = f.writeDl /\ g.rel = f.rel /\ g.up = f.up /\ g.dl = f.dl /\ g.att = f.att
      /\ g.read = f.read /\ g.got = f.got /\ g.st = f.st
  BY <1>4 DEF flowFields
<1>6. Made(g)
  BY <1>2, <1>3, <1>5 DEF EndInv, Made, Same
<1>7. Counts(g)
  BY <1>3, <1>5 DEF EndInv, Counts
<1>8. Located(g, u)
  BY <1>3, <1>5 DEF EndInv, Located
<1>9. CASE Running(f)
  <2>1. Ctl(g, D, W)
    BY <1>3, <1>5, <1>9 DEF EndInv, Ctl, Reserving, Freezing, UpWoken, freeze, ParkedIs, Settling, Settles, Parked, UpPlace, DlPlace,
         DlWoken, Swapping, dlBytes, AckOK, Unacked
  <2> QED BY <1>1, <1>5, <1>6, <1>7, <1>8, <1>9, <2>1 DEF EndInv, Running
<1>10. CASE ~Running(f)
  BY <1>1, <1>3, <1>5, <1>6, <1>7, <1>8, <1>10 DEF EndInv, Running, Stopped
<1> QED BY <1>9, <1>10

\* The stream the download pump reads has ended.
LEMMA FailedKeeps ==
    ASSUME NEW D, NEW W, NEW u \in Nat, NEW f, EndInv(f, D, W, u), Running(f), NEW err, NEW pc \in {"wait", "decide"}, f.dl.pc = "read"
    PROVE  EndInv([f EXCEPT !.dl.err = err, !.dl.pc = pc], D, W, u)
<1>1. PICK g : g = [f EXCEPT !.dl.err = err, !.dl.pc = pc]
  OBVIOUS
<1>2. Same(f, g, {"dl"})
  BY <1>1 DEF EndInv, Made, Same, Same
<1>3. DOMAIN g.dl = dlFields /\ g.dl.pc = pc /\ g.dl.src = f.dl.src
  BY <1>1 DEF EndInv, Made, flowFields, dlFields, Same
<1>4. \A x \in flowFields : x \notin {"dl"} => g[x] = f[x]
  BY <1>2 DEF EndInv, Made, Same
<1>5. /\ g.cur = f.cur /\ g.next = f.next /\ g.upDst = f.upDst /\ g.freezeReq = f.freezeReq
      /\ g.frozen = f.frozen /\ g.installed = f.installed /\ g.upSwitched = f.upSwitched
      /\ g.dlSwitched = f.dlSwitched /\ g.upLimit = f.upLimit /\ g.dlLimit = f.dlLimit /\ g.upEnded = f.upEnded
      /\ g.dlEnded = f.dlEnded /\ g.aborted = f.aborted /\ g.done = f.done /\ g.suspended = f.suspended
      /\ g.upParked = f.upParked /\ g.dlParked = f.dlParked /\ g.resumeConn = f.resumeConn
      /\ g.resumeFrom = f.resumeFrom /\ g.upBytes = f.upBytes /\ g.base = f.base /\ g.end = f.end
      /\ g.readDl = f.readDl /\ g.writeDl = f.writeDl /\ g.rel = f.rel /\ g.up = f.up /\ g.ack = f.ack
      /\ g.att = f.att /\ g.read = f.read /\ g.got = f.got /\ g.st = f.st
  BY <1>4 DEF flowFields
<1>6. Made(g)
  BY <1>2, <1>3, <1>5 DEF EndInv, Made, Same
<1>7. Counts(g)
  BY <1>3, <1>5 DEF EndInv, Counts
<1>8. Located(g, u)
  BY <1>3, <1>5 DEF EndInv, Located
<1>9. Ctl(g, D, W)
  BY <1>3, <1>5 DEF EndInv, Ctl, Reserving, Freezing, UpWoken, freeze, ParkedIs, Settling, Settles, Parked, UpPlace, DlPlace,
         DlWoken, Swapping, dlBytes, AckOK, Unacked
<1> QED BY <1>1, <1>3, <1>5, <1>6, <1>7, <1>8, <1>9 DEF EndInv, Running

\* The error has been dealt with.
LEMMA DecidedKeeps ==
    ASSUME NEW D, NEW W, NEW u \in Nat, NEW f, EndInv(f, D, W, u), Running(f), NEW err
    PROVE  EndInv([f EXCEPT !.dl.err = err], D, W, u)
<1>1. PICK g : g = [f EXCEPT !.dl.err = err]
  OBVIOUS
<1>2. Same(f, g, {"dl"})
  BY <1>1 DEF EndInv, Made, Same, Same
<1>3. DOMAIN g.dl = dlFields /\ g.dl.pc = f.dl.pc /\ g.dl.src = f.dl.src
  BY <1>1 DEF EndInv, Made, flowFields, dlFields, Same
<1>4. \A x \in flowFields : x \notin {"dl"} => g[x] = f[x]
  BY <1>2 DEF EndInv, Made, Same
<1>5. /\ g.cur = f.cur /\ g.next = f.next /\ g.upDst = f.upDst /\ g.freezeReq = f.freezeReq
      /\ g.frozen = f.frozen /\ g.installed = f.installed /\ g.upSwitched = f.upSwitched
      /\ g.dlSwitched = f.dlSwitched /\ g.upLimit = f.upLimit /\ g.dlLimit = f.dlLimit /\ g.upEnded = f.upEnded
      /\ g.dlEnded = f.dlEnded /\ g.aborted = f.aborted /\ g.done = f.done /\ g.suspended = f.suspended
      /\ g.upParked = f.upParked /\ g.dlParked = f.dlParked /\ g.resumeConn = f.resumeConn
      /\ g.resumeFrom = f.resumeFrom /\ g.upBytes = f.upBytes /\ g.base = f.base /\ g.end = f.end
      /\ g.readDl = f.readDl /\ g.writeDl = f.writeDl /\ g.rel = f.rel /\ g.up = f.up /\ g.ack = f.ack
      /\ g.att = f.att /\ g.read = f.read /\ g.got = f.got /\ g.st = f.st
  BY <1>4 DEF flowFields
<1>6. Made(g)
  BY <1>2, <1>3, <1>5 DEF EndInv, Made, Same
<1>7. Counts(g)
  BY <1>3, <1>5 DEF EndInv, Counts
<1>8. Located(g, u)
  BY <1>3, <1>5 DEF EndInv, Located
<1>9. Ctl(g, D, W)
  BY <1>3, <1>5 DEF EndInv, Ctl, Reserving, Freezing, UpWoken, freeze, ParkedIs, Settling, Settles, Parked, UpPlace, DlPlace,
         DlWoken, Swapping, dlBytes, AckOK, Unacked
<1> QED BY <1>1, <1>3, <1>5, <1>6, <1>7, <1>8, <1>9 DEF EndInv, Running

\* The promised count is reached at the end of the old tunnel.
LEMMA ToSwitchKeeps ==
    ASSUME NEW D, NEW W, NEW u \in Nat, NEW f, EndInv(f, D, W, u), Running(f), f.dl.pc = "decide", Swapping(f)
    PROVE  EndInv([f EXCEPT !.dl.pc = "switch"], D, W, u)
<1>1. PICK g : g = [f EXCEPT !.dl.pc = "switch"]
  OBVIOUS
<1>2. Same(f, g, {"dl"})
  BY <1>1 DEF EndInv, Made, Same, Same
<1>3. DOMAIN g.dl = dlFields /\ g.dl.pc = "switch" /\ g.dl.src = f.dl.src
  BY <1>1 DEF EndInv, Made, flowFields, dlFields, Same
<1>4. \A x \in flowFields : x \notin {"dl"} => g[x] = f[x]
  BY <1>2 DEF EndInv, Made, Same
<1>5. /\ g.cur = f.cur /\ g.next = f.next /\ g.upDst = f.upDst /\ g.freezeReq = f.freezeReq
      /\ g.frozen = f.frozen /\ g.installed = f.installed /\ g.upSwitched = f.upSwitched
      /\ g.dlSwitched = f.dlSwitched /\ g.upLimit = f.upLimit /\ g.dlLimit = f.dlLimit /\ g.upEnded = f.upEnded
      /\ g.dlEnded = f.dlEnded /\ g.aborted = f.aborted /\ g.done = f.done /\ g.suspended = f.suspended
      /\ g.upParked = f.upParked /\ g.dlParked = f.dlParked /\ g.resumeConn = f.resumeConn
      /\ g.resumeFrom = f.resumeFrom /\ g.upBytes = f.upBytes /\ g.base = f.base /\ g.end = f.end
      /\ g.readDl = f.readDl /\ g.writeDl = f.writeDl /\ g.rel = f.rel /\ g.up = f.up /\ g.ack = f.ack
      /\ g.att = f.att /\ g.read = f.read /\ g.got = f.got /\ g.st = f.st
  BY <1>4 DEF flowFields
<1>6. Made(g)
  BY <1>2, <1>3, <1>5 DEF EndInv, Made, Same
<1>7. Counts(g)
  BY <1>3, <1>5 DEF EndInv, Counts
<1>8. Located(g, u)
  BY <1>3, <1>5 DEF EndInv, Located
<1>9. Ctl(g, D, W)
  BY <1>3, <1>5 DEF EndInv, Ctl, Reserving, Freezing, UpWoken, freeze, ParkedIs, Settling, Settles, Parked, UpPlace, DlPlace,
         DlWoken, Swapping, dlBytes, AckOK, Unacked
<1> QED BY <1>1, <1>3, <1>5, <1>6, <1>7, <1>8, <1>9 DEF EndInv, Running

\* The download is over.
LEMMA DlOverKeeps ==
    ASSUME NEW D, NEW W, NEW u \in Nat, NEW f, EndInv(f, D, W, u), Running(f), f.dl.pc = "decide"
    PROVE  EndInv([f EXCEPT !.dlEnded = TRUE, !.ack.kick = Replay, !.st = "eof", !.dl.pc = "done"], D, W, u)
<1>1. PICK g : g = [f EXCEPT !.dlEnded = TRUE, !.ack.kick = Replay, !.st = "eof", !.dl.pc = "done"]
  OBVIOUS
<1>2. Same(f, g, {"dlEnded", "ack", "st", "dl"})
  BY <1>1 DEF EndInv, Made, Same, Same
<1>3. g.dlEnded = TRUE /\ g.st = "eof" /\ DOMAIN g.dl = dlFields /\ g.dl.pc = "done" /\ g.dl.src = f.dl.src
      /\ DOMAIN g.ack = ackFields /\ g.ack.pc = f.ack.pc /\ g.ack.kick = Replay /\ g.ack.sent = f.ack.sent /\ g.ack.endSent = f.ack.endSent /\ g.ack.endAcked = f.ack.endAcked /\ g.ack.fresh = f.ack.fresh /\ g.ack.c = f.ack.c /\ g.ack.dl = f.ack.dl /\ g.ack.ended = f.ack.ended
  BY <1>1 DEF EndInv, Made, flowFields, ackFields, dlFields, Same
<1>4. \A x \in flowFields : x \notin {"dlEnded", "ack", "st", "dl"} => g[x] = f[x]
  BY <1>2 DEF EndInv, Made, Same
<1>5. /\ g.cur = f.cur /\ g.next = f.next /\ g.upDst = f.upDst /\ g.freezeReq = f.freezeReq
      /\ g.frozen = f.frozen /\ g.installed = f.installed /\ g.upSwitched = f.upSwitched
      /\ g.dlSwitched = f.dlSwitched /\ g.upLimit = f.upLimit /\ g.dlLimit = f.dlLimit /\ g.upEnded = f.upEnded
      /\ g.aborted = f.aborted /\ g.done = f.done /\ g.suspended = f.suspended /\ g.upParked = f.upParked
      /\ g.dlParked = f.dlParked /\ g.resumeConn = f.resumeConn /\ g.resumeFrom = f.resumeFrom
      /\ g.upBytes = f.upBytes /\ g.base = f.base /\ g.end = f.end /\ g.readDl = f.readDl
      /\ g.writeDl = f.writeDl /\ g.rel = f.rel /\ g.up = f.up /\ g.att = f.att /\ g.read = f.read
      /\ g.got = f.got
  BY <1>4 DEF flowFields
<1>6. Made(g)
  BY <1>2, <1>3, <1>5 DEF EndInv, Made, Same
<1>7. Counts(g)
  BY <1>3, <1>5 DEF EndInv, Counts
<1>8. Located(g, u)
  BY <1>3, <1>5 DEF EndInv, Located
<1>9. Ctl(g, D, W)
  BY <1>3, <1>5 DEF EndInv, Ctl, Reserving, Freezing, UpWoken, freeze, ParkedIs, Settling, Settles, Parked, UpPlace, DlPlace,
         DlWoken, Swapping, dlBytes, AckOK, Unacked
<1> QED BY <1>1, <1>3, <1>5, <1>6, <1>7, <1>8, <1>9 DEF EndInv, Running

\* The download pump takes the new tunnel.
LEMMA DlToNextKeeps ==
    ASSUME NEW D, NEW W, NEW u \in Nat, NEW f, EndInv(f, D, W, u), Running(f), f.dl.pc = "switch", ~f.suspended, f.next # 0
    PROVE  EndInv([f EXCEPT !.dl.src = f.next, !.dl.pc = "switching"], D, W, u)
<1>1. PICK g : g = [f EXCEPT !.dl.src = f.next, !.dl.pc = "switching"]
  OBVIOUS
<1>2. Same(f, g, {"dl"})
  BY <1>1 DEF EndInv, Made, Same, Same
<1>3. DOMAIN g.dl = dlFields /\ g.dl.pc = "switching" /\ g.dl.src = f.next
  BY <1>1 DEF EndInv, Made, flowFields, dlFields, Same
<1>4. \A x \in flowFields : x \notin {"dl"} => g[x] = f[x]
  BY <1>2 DEF EndInv, Made, Same
<1>5. /\ g.cur = f.cur /\ g.next = f.next /\ g.upDst = f.upDst /\ g.freezeReq = f.freezeReq
      /\ g.frozen = f.frozen /\ g.installed = f.installed /\ g.upSwitched = f.upSwitched
      /\ g.dlSwitched = f.dlSwitched /\ g.upLimit = f.upLimit /\ g.dlLimit = f.dlLimit /\ g.upEnded = f.upEnded
      /\ g.dlEnded = f.dlEnded /\ g.aborted = f.aborted /\ g.done = f.done /\ g.suspended = f.suspended
      /\ g.upParked = f.upParked /\ g.dlParked = f.dlParked /\ g.resumeConn = f.resumeConn
      /\ g.resumeFrom = f.resumeFrom /\ g.upBytes = f.upBytes /\ g.base = f.base /\ g.end = f.end
      /\ g.readDl = f.readDl /\ g.writeDl = f.writeDl /\ g.rel = f.rel /\ g.up = f.up /\ g.ack = f.ack
      /\ g.att = f.att /\ g.read = f.read /\ g.got = f.got /\ g.st = f.st
  BY <1>4 DEF flowFields
<1>6. Made(g)
  BY <1>2, <1>3, <1>5 DEF EndInv, Made, Same
<1>7. Counts(g)
  BY <1>3, <1>5 DEF EndInv, Counts
<1>8. Located(g, u)
  BY <1>3, <1>5 DEF EndInv, Located
<1>9. Ctl(g, D, W)
  BY <1>3, <1>5 DEF EndInv, Ctl, Reserving, Freezing, UpWoken, freeze, ParkedIs, Settling, Settles, Parked, UpPlace, DlPlace,
         DlWoken, Swapping, dlBytes, AckOK, Unacked
<1> QED BY <1>1, <1>3, <1>5, <1>6, <1>7, <1>8, <1>9 DEF EndInv, Running

\* A kick is taken: a flush that runs will look again.
LEMMA UnkickedKeeps ==
    ASSUME NEW D, NEW W, NEW u \in Nat, NEW f, EndInv(f, D, W, u)
    PROVE  EndInv([f EXCEPT !.ack.kick = FALSE], (IF f.ack.pc = "idle" THEN D \cup {f.upDst} ELSE D), W, u)
<1>1. PICK g : g = [f EXCEPT !.ack.kick = FALSE]
  OBVIOUS
<1>2. Same(f, g, {"ack"})
  BY <1>1 DEF EndInv, Made, Same, Same
<1>3. DOMAIN g.ack = ackFields /\ g.ack.pc = f.ack.pc /\ g.ack.kick = FALSE /\ g.ack.sent = f.ack.sent /\ g.ack.endSent = f.ack.endSent /\ g.ack.endAcked = f.ack.endAcked /\ g.ack.fresh = f.ack.fresh /\ g.ack.c = f.ack.c /\ g.ack.dl = f.ack.dl /\ g.ack.ended = f.ack.ended
  BY <1>1 DEF EndInv, Made, flowFields, ackFields, Same
<1>4. \A x \in flowFields : x \notin {"ack"} => g[x] = f[x]
  BY <1>2 DEF EndInv, Made, Same
<1>5. /\ g.cur = f.cur /\ g.next = f.next /\ g.upDst = f.upDst /\ g.freezeReq = f.freezeReq
      /\ g.frozen = f.frozen /\ g.installed = f.installed /\ g.upSwitched = f.upSwitched
      /\ g.dlSwitched = f.dlSwitched /\ g.upLimit = f.upLimit /\ g.dlLimit = f.dlLimit /\ g.upEnded = f.upEnded
      /\ g.dlEnded = f.dlEnded /\ g.aborted = f.aborted /\ g.done = f.done /\ g.suspended = f.suspended
      /\ g.upParked = f.upParked /\ g.dlParked = f.dlParked /\ g.resumeConn = f.resumeConn
      /\ g.resumeFrom = f.resumeFrom /\ g.upBytes = f.upBytes /\ g.base = f.base /\ g.end = f.end
      /\ g.readDl = f.readDl /\ g.writeDl = f.writeDl /\ g.rel = f.rel /\ g.up = f.up /\ g.dl = f.dl
      /\ g.att = f.att /\ g.read = f.read /\ g.got = f.got /\ g.st = f.st
  BY <1>4 DEF flowFields
<1>6. Made(g)
  BY <1>2, <1>3, <1>5 DEF EndInv, Made, Same
<1>7. Counts(g)
  BY <1>3, <1>5 DEF EndInv, Counts
<1>8. Located(g, u)
  BY <1>3, <1>5 DEF EndInv, Located
<1>9. CASE Running(f)
  <2>1. Ctl(g, (IF f.ack.pc = "idle" THEN D \cup {f.upDst} ELSE D), W)
    BY <1>3, <1>5, <1>9 DEF EndInv, Ctl, Reserving, Freezing, UpWoken, freeze, ParkedIs, Settling, Settles, Parked, UpPlace, DlPlace,
         DlWoken, Swapping, dlBytes, AckOK, Unacked
  <2> QED BY <1>1, <1>5, <1>6, <1>7, <1>8, <1>9, <2>1 DEF EndInv, Running
<1>10. CASE ~Running(f)
  BY <1>1, <1>3, <1>5, <1>6, <1>7, <1>8, <1>10 DEF EndInv, Running, Stopped
<1> QED BY <1>9, <1>10

\* flushAck picks what there is to say, whether or not the tunnel was dead.
LEMMA PickedKeeps ==
    ASSUME NEW D, NEW W, NEW u \in Nat, NEW f, NEW E, EndInv(f, E, W, u)
    PROVE  EndInv(Picked(f), D, W, u)
<1>1. PICK g : g = Picked(f)
  OBVIOUS
<1>2. Same(f, g, {"ack"})
  BY <1>1 DEF EndInv, Made, Same, Picked
<1>3. DOMAIN g.ack = ackFields /\ g.ack.pc = (IF Unacked(f) THEN "send" ELSE "idle") /\ g.ack.kick = f.ack.kick /\ g.ack.sent = f.ack.sent /\ g.ack.endSent = f.ack.endSent /\ g.ack.endAcked = f.ack.endAcked /\ g.ack.fresh = Unacked(f) /\ g.ack.c = (IF Unacked(f) THEN f.upDst ELSE 0) /\ g.ack.dl = (IF Unacked(f) THEN dlBytes(f) ELSE 0) /\ g.ack.ended = (Unacked(f) /\ f.dlEnded)
  BY <1>1 DEF EndInv, Made, flowFields, ackFields, Picked
<1>4. \A x \in flowFields : x \notin {"ack"} => g[x] = f[x]
  BY <1>2 DEF EndInv, Made, Same
<1>5. /\ g.cur = f.cur /\ g.next = f.next /\ g.upDst = f.upDst /\ g.freezeReq = f.freezeReq
      /\ g.frozen = f.frozen /\ g.installed = f.installed /\ g.upSwitched = f.upSwitched
      /\ g.dlSwitched = f.dlSwitched /\ g.upLimit = f.upLimit /\ g.dlLimit = f.dlLimit /\ g.upEnded = f.upEnded
      /\ g.dlEnded = f.dlEnded /\ g.aborted = f.aborted /\ g.done = f.done /\ g.suspended = f.suspended
      /\ g.upParked = f.upParked /\ g.dlParked = f.dlParked /\ g.resumeConn = f.resumeConn
      /\ g.resumeFrom = f.resumeFrom /\ g.upBytes = f.upBytes /\ g.base = f.base /\ g.end = f.end
      /\ g.readDl = f.readDl /\ g.writeDl = f.writeDl /\ g.rel = f.rel /\ g.up = f.up /\ g.dl = f.dl
      /\ g.att = f.att /\ g.read = f.read /\ g.got = f.got /\ g.st = f.st
  BY <1>4 DEF flowFields
<1>6. Made(g)
  BY <1>2, <1>3, <1>5 DEF EndInv, Made, Same
<1>7. Counts(g)
  BY <1>3, <1>5 DEF EndInv, Counts, dlBytes
<1>8. Located(g, u)
  BY <1>3, <1>5 DEF EndInv, Located
<1>9. CASE Running(f)
  <2>1. Ctl(g, D, W)
    BY <1>3, <1>5, <1>9 DEF EndInv, Ctl, Reserving, Freezing, UpWoken, freeze, ParkedIs, Settling, Settles, Parked, UpPlace, DlPlace,
         DlWoken, Swapping, dlBytes, AckOK, Unacked
  <2> QED BY <1>1, <1>5, <1>6, <1>7, <1>8, <1>9, <2>1 DEF EndInv, Running
<1>10. CASE ~Running(f)
  BY <1>1, <1>3, <1>5, <1>6, <1>7, <1>8, <1>10 DEF EndInv, Running, Stopped
<1> QED BY <1>9, <1>10

\* noteAcked.
LEMMA NotedAckKeeps ==
    ASSUME NEW D, NEW W, NEW u \in Nat, NEW f, EndInv(f, D, W, u), NEW n \in Nat, NEW b
    PROVE  EndInv([f EXCEPT !.ack.sent = n, !.ack.endSent = b], D \cup {f.upDst}, W, u)
<1>1. PICK g : g = [f EXCEPT !.ack.sent = n, !.ack.endSent = b]
  OBVIOUS
<1>2. Same(f, g, {"ack"})
  BY <1>1 DEF EndInv, Made, Same, Same
<1>3. DOMAIN g.ack = ackFields /\ g.ack.pc = f.ack.pc /\ g.ack.kick = f.ack.kick /\ g.ack.sent = n /\ g.ack.endSent = b /\ g.ack.endAcked = f.ack.endAcked /\ g.ack.fresh = f.ack.fresh /\ g.ack.c = f.ack.c /\ g.ack.dl = f.ack.dl /\ g.ack.ended = f.ack.ended
  BY <1>1 DEF EndInv, Made, flowFields, ackFields, Same
<1>4. \A x \in flowFields : x \notin {"ack"} => g[x] = f[x]
  BY <1>2 DEF EndInv, Made, Same
<1>5. /\ g.cur = f.cur /\ g.next = f.next /\ g.upDst = f.upDst /\ g.freezeReq = f.freezeReq
      /\ g.frozen = f.frozen /\ g.installed = f.installed /\ g.upSwitched = f.upSwitched
      /\ g.dlSwitched = f.dlSwitched /\ g.upLimit = f.upLimit /\ g.dlLimit = f.dlLimit /\ g.upEnded = f.upEnded
      /\ g.dlEnded = f.dlEnded /\ g.aborted = f.aborted /\ g.done = f.done /\ g.suspended = f.suspended
      /\ g.upParked = f.upParked /\ g.dlParked = f.dlParked /\ g.resumeConn = f.resumeConn
      /\ g.resumeFrom = f.resumeFrom /\ g.upBytes = f.upBytes /\ g.base = f.base /\ g.end = f.end
      /\ g.readDl = f.readDl /\ g.writeDl = f.writeDl /\ g.rel = f.rel /\ g.up = f.up /\ g.dl = f.dl
      /\ g.att = f.att /\ g.read = f.read /\ g.got = f.got /\ g.st = f.st
  BY <1>4 DEF flowFields
<1>6. Made(g)
  BY <1>2, <1>3, <1>5 DEF EndInv, Made, Same
<1>7. Counts(g)
  BY <1>3, <1>5 DEF EndInv, Counts
<1>8. Located(g, u)
  BY <1>3, <1>5 DEF EndInv, Located
<1>9. CASE Running(f)
  <2>1. Ctl(g, D \cup {f.upDst}, W)
    BY <1>3, <1>5, <1>9 DEF EndInv, Ctl, Reserving, Freezing, UpWoken, freeze, ParkedIs, Settling, Settles, Parked, UpPlace, DlPlace,
         DlWoken, Swapping, dlBytes, AckOK, Unacked
  <2> QED BY <1>1, <1>5, <1>6, <1>7, <1>8, <1>9, <2>1 DEF EndInv, Running
<1>10. CASE ~Running(f)
  BY <1>1, <1>3, <1>5, <1>6, <1>7, <1>8, <1>10 DEF EndInv, Running, Stopped
<1> QED BY <1>9, <1>10

\* The flush ends; what is left has a kick.
LEMMA IdleKeeps ==
    ASSUME NEW D, NEW W, NEW u \in Nat, NEW f, NEW E, EndInv(f, E, W, u), NEW k, Unacked(f) => k
    PROVE  EndInv([Idle(f) EXCEPT !.ack.kick = k], D, W, u)
<1>1. PICK g : g = [Idle(f) EXCEPT !.ack.kick = k]
  OBVIOUS
<1>2. Same(f, g, {"ack"})
  BY <1>1 DEF EndInv, Made, Same, Idle
<1>3. DOMAIN g.ack = ackFields /\ g.ack.pc = "idle" /\ g.ack.kick = k /\ g.ack.sent = f.ack.sent /\ g.ack.endSent = f.ack.endSent /\ g.ack.endAcked = f.ack.endAcked /\ g.ack.fresh = FALSE /\ g.ack.c = 0 /\ g.ack.dl = 0 /\ g.ack.ended = FALSE
  BY <1>1 DEF EndInv, Made, flowFields, ackFields, Idle
<1>4. \A x \in flowFields : x \notin {"ack"} => g[x] = f[x]
  BY <1>2 DEF EndInv, Made, Same
<1>5. /\ g.cur = f.cur /\ g.next = f.next /\ g.upDst = f.upDst /\ g.freezeReq = f.freezeReq
      /\ g.frozen = f.frozen /\ g.installed = f.installed /\ g.upSwitched = f.upSwitched
      /\ g.dlSwitched = f.dlSwitched /\ g.upLimit = f.upLimit /\ g.dlLimit = f.dlLimit /\ g.upEnded = f.upEnded
      /\ g.dlEnded = f.dlEnded /\ g.aborted = f.aborted /\ g.done = f.done /\ g.suspended = f.suspended
      /\ g.upParked = f.upParked /\ g.dlParked = f.dlParked /\ g.resumeConn = f.resumeConn
      /\ g.resumeFrom = f.resumeFrom /\ g.upBytes = f.upBytes /\ g.base = f.base /\ g.end = f.end
      /\ g.readDl = f.readDl /\ g.writeDl = f.writeDl /\ g.rel = f.rel /\ g.up = f.up /\ g.dl = f.dl
      /\ g.att = f.att /\ g.read = f.read /\ g.got = f.got /\ g.st = f.st
  BY <1>4 DEF flowFields
<1>6. Made(g)
  BY <1>2, <1>3, <1>5 DEF EndInv, Made, Same
<1>7. Counts(g)
  BY <1>3, <1>5 DEF EndInv, Counts
<1>8. Located(g, u)
  BY <1>3, <1>5 DEF EndInv, Located
<1>9. CASE Running(f)
  <2>1. Ctl(g, D, W)
    BY <1>3, <1>5, <1>9 DEF EndInv, Ctl, Reserving, Freezing, UpWoken, freeze, ParkedIs, Settling, Settles, Parked, UpPlace, DlPlace,
         DlWoken, Swapping, dlBytes, AckOK, Unacked
  <2> QED BY <1>1, <1>5, <1>6, <1>7, <1>8, <1>9, <2>1 DEF EndInv, Running
<1>10. CASE ~Running(f)
  BY <1>1, <1>3, <1>5, <1>6, <1>7, <1>8, <1>10 DEF EndInv, Running, Stopped
<1> QED BY <1>9, <1>10

\* The flush fails on the tunnel it was for.
LEMMA FailedFlushKeeps ==
    ASSUME NEW D, NEW W, NEW u \in Nat, NEW f, EndInv(f, D, W, u), f.ack.pc = "send", f.ack.fresh, f.ack.c \in D
    PROVE  EndInv(Idle(f), D, W, u)
<1>1. PICK g : g = Idle(f)
  OBVIOUS
<1>2. Same(f, g, {"ack"})
  BY <1>1 DEF EndInv, Made, Same, Idle
<1>3. DOMAIN g.ack = ackFields /\ g.ack.pc = "idle" /\ g.ack.kick = f.ack.kick /\ g.ack.sent = f.ack.sent /\ g.ack.endSent = f.ack.endSent /\ g.ack.endAcked = f.ack.endAcked /\ g.ack.fresh = FALSE /\ g.ack.c = 0 /\ g.ack.dl = 0 /\ g.ack.ended = FALSE
  BY <1>1 DEF EndInv, Made, flowFields, ackFields, Idle
<1>4. \A x \in flowFields : x \notin {"ack"} => g[x] = f[x]
  BY <1>2 DEF EndInv, Made, Same
<1>5. /\ g.cur = f.cur /\ g.next = f.next /\ g.upDst = f.upDst /\ g.freezeReq = f.freezeReq
      /\ g.frozen = f.frozen /\ g.installed = f.installed /\ g.upSwitched = f.upSwitched
      /\ g.dlSwitched = f.dlSwitched /\ g.upLimit = f.upLimit /\ g.dlLimit = f.dlLimit /\ g.upEnded = f.upEnded
      /\ g.dlEnded = f.dlEnded /\ g.aborted = f.aborted /\ g.done = f.done /\ g.suspended = f.suspended
      /\ g.upParked = f.upParked /\ g.dlParked = f.dlParked /\ g.resumeConn = f.resumeConn
      /\ g.resumeFrom = f.resumeFrom /\ g.upBytes = f.upBytes /\ g.base = f.base /\ g.end = f.end
      /\ g.readDl = f.readDl /\ g.writeDl = f.writeDl /\ g.rel = f.rel /\ g.up = f.up /\ g.dl = f.dl
      /\ g.att = f.att /\ g.read = f.read /\ g.got = f.got /\ g.st = f.st
  BY <1>4 DEF flowFields
<1>6. Made(g)
  BY <1>2, <1>3, <1>5 DEF EndInv, Made, Same
<1>7. Counts(g)
  BY <1>3, <1>5 DEF EndInv, Counts
<1>8. Located(g, u)
  BY <1>3, <1>5 DEF EndInv, Located
<1>9. CASE Running(f)
  <2>1. Ctl(g, D, W)
    BY <1>3, <1>5, <1>9 DEF EndInv, Ctl, Reserving, Freezing, UpWoken, freeze, ParkedIs, Settling, Settles, Parked, UpPlace, DlPlace,
         DlWoken, Swapping, dlBytes, AckOK, Unacked
  <2> QED BY <1>1, <1>5, <1>6, <1>7, <1>8, <1>9, <2>1 DEF EndInv, Running
<1>10. CASE ~Running(f)
  BY <1>1, <1>3, <1>5, <1>6, <1>7, <1>8, <1>10 DEF EndInv, Running, Stopped
<1> QED BY <1>9, <1>10

\* Thaw.
LEMMA ThawedKeeps ==
    ASSUME NEW D, NEW W, NEW u \in Nat, NEW f, EndInv(f, D, W, u), Running(f), CanThaw(f)
    PROVE  EndInv(Thawed(f), D, W, u)
<1>1. PICK g : g = Thawed(f)
  OBVIOUS
<1>2. Same(f, g, {"freezeReq", "frozen", "up", "dl"})
  BY <1>1 DEF EndInv, Made, Same, Thawed
<1>3. /\ g.freezeReq = FALSE /\ g.frozen = FALSE
      /\ DOMAIN g.up = upFields /\ g.up.pc = (IF f.up.pc = "frozen" THEN "run" ELSE f.up.pc) /\ g.up.dst = f.up.dst /\ g.up.pend = f.up.pend
      /\ DOMAIN g.dl = dlFields /\ g.dl.pc = (IF f.dl.pc = "wait" THEN "decide" ELSE f.dl.pc) /\ g.dl.src = f.dl.src
  BY <1>1 DEF EndInv, Made, flowFields, upFields, dlFields, Thawed
<1>4. \A x \in flowFields : x \notin {"freezeReq", "frozen", "up", "dl"} => g[x] = f[x]
  BY <1>2 DEF EndInv, Made, Same
<1>5. /\ g.cur = f.cur /\ g.next = f.next /\ g.upDst = f.upDst /\ g.installed = f.installed
      /\ g.upSwitched = f.upSwitched /\ g.dlSwitched = f.dlSwitched /\ g.upLimit = f.upLimit
      /\ g.dlLimit = f.dlLimit /\ g.upEnded = f.upEnded /\ g.dlEnded = f.dlEnded /\ g.aborted = f.aborted
      /\ g.done = f.done /\ g.suspended = f.suspended /\ g.upParked = f.upParked /\ g.dlParked = f.dlParked
      /\ g.resumeConn = f.resumeConn /\ g.resumeFrom = f.resumeFrom /\ g.upBytes = f.upBytes /\ g.base = f.base
      /\ g.end = f.end /\ g.readDl = f.readDl /\ g.writeDl = f.writeDl /\ g.rel = f.rel /\ g.ack = f.ack
      /\ g.att = f.att /\ g.read = f.read /\ g.got = f.got /\ g.st = f.st
  BY <1>4 DEF flowFields
<1>6. Made(g)
  BY <1>2, <1>3, <1>5 DEF EndInv, Made, Same
<1>7. Counts(g)
  BY <1>3, <1>5 DEF EndInv, Counts
<1>8. Located(g, u)
  BY <1>3, <1>5 DEF EndInv, Located
<1>9. Ctl(g, D, W)
  BY <1>3, <1>5 DEF EndInv, Ctl, Reserving, Freezing, UpWoken, freeze, ParkedIs, Settling, Settles, Parked, UpPlace, DlPlace,
         DlWoken, Swapping, dlBytes, AckOK, Unacked, CanThaw
<1> QED BY <1>1, <1>3, <1>5, <1>6, <1>7, <1>8, <1>9 DEF EndInv, Running

\* Both pumps have finished.
LEMMA FinishedKeeps ==
    ASSUME NEW D, NEW W, NEW u \in Nat, NEW f, EndInv(f, D, W, u), Running(f), f.up.pc = "done", f.dl.pc = "done"
    PROVE  EndInv([f EXCEPT !.done = TRUE, !.ack.pc = "idle", !.ack.kick = FALSE], D, W, u)
<1>1. PICK g : g = [f EXCEPT !.done = TRUE, !.ack.pc = "idle", !.ack.kick = FALSE]
  OBVIOUS
<1>2. Same(f, g, {"done", "ack"})
  BY <1>1 DEF EndInv, Made, Same, Same
<1>3. g.done = TRUE /\ DOMAIN g.ack = ackFields /\ g.ack.pc = "idle" /\ g.ack.kick = FALSE /\ g.ack.sent = f.ack.sent /\ g.ack.endSent = f.ack.endSent /\ g.ack.endAcked = f.ack.endAcked /\ g.ack.fresh = f.ack.fresh /\ g.ack.c = f.ack.c /\ g.ack.dl = f.ack.dl /\ g.ack.ended = f.ack.ended
  BY <1>1 DEF EndInv, Made, flowFields, ackFields, Same
<1>4. \A x \in flowFields : x \notin {"done", "ack"} => g[x] = f[x]
  BY <1>2 DEF EndInv, Made, Same
<1>5. /\ g.cur = f.cur /\ g.next = f.next /\ g.upDst = f.upDst /\ g.freezeReq = f.freezeReq
      /\ g.frozen = f.frozen /\ g.installed = f.installed /\ g.upSwitched = f.upSwitched
      /\ g.dlSwitched = f.dlSwitched /\ g.upLimit = f.upLimit /\ g.dlLimit = f.dlLimit /\ g.upEnded = f.upEnded
      /\ g.dlEnded = f.dlEnded /\ g.aborted = f.aborted /\ g.suspended = f.suspended /\ g.upParked = f.upParked
      /\ g.dlParked = f.dlParked /\ g.resumeConn = f.resumeConn /\ g.resumeFrom = f.resumeFrom
      /\ g.upBytes = f.upBytes /\ g.base = f.base /\ g.end = f.end /\ g.readDl = f.readDl
      /\ g.writeDl = f.writeDl /\ g.rel = f.rel /\ g.up = f.up /\ g.dl = f.dl /\ g.att = f.att
      /\ g.read = f.read /\ g.got = f.got /\ g.st = f.st
  BY <1>4 DEF flowFields
<1>6. Made(g)
  BY <1>2, <1>3, <1>5 DEF EndInv, Made, Same
<1>7. Counts(g)
  BY <1>3, <1>5 DEF EndInv, Counts
<1>8. Located(g, u)
  BY <1>3, <1>5 DEF EndInv, Located
<1>9. ~Running(g) /\ Stopped(g)
  BY <1>3, <1>5 DEF Running, Stopped
<1> QED BY <1>1, <1>6, <1>7, <1>8, <1>9 DEF EndInv

\* FreezeUp reserves the flow, its upload still running.
LEMMA ReservedKeeps ==
    ASSUME NEW D, NEW W, NEW u \in Nat, NEW f, EndInv(f, D, W, u), Running(f), NEW t \in Tunnels, t \in 1..u, Swappable(f), f.att[t].mode # "resume"
    PROVE  EndInv([Goes(f, t, "freezing") EXCEPT !.freezeReq = TRUE, !.readDl = TRUE], D, W, u)
<1>1. PICK g : g = [Goes(f, t, "freezing") EXCEPT !.freezeReq = TRUE, !.readDl = TRUE]
  OBVIOUS
<1>2. Same(f, g, {"freezeReq", "readDl", "att"})
  BY <1>1 DEF EndInv, Made, Same, Goes, Atts
<1>3. g.freezeReq = TRUE /\ g.readDl = TRUE
      /\ DOMAIN g.att[t] = attFields /\ g.att[t].mode = f.att[t].mode /\ g.att[t].own = f.att[t].own /\ g.att[t].pc = "freezing" /\ DOMAIN g.att = Tunnels /\ \A v \in Tunnels : v # t => g.att[v] = f.att[v]
  BY <1>1 DEF EndInv, Made, flowFields, attFields, Goes, Atts
<1>4. \A x \in flowFields : x \notin {"freezeReq", "readDl", "att"} => g[x] = f[x]
  BY <1>2 DEF EndInv, Made, Same
<1>5. /\ g.cur = f.cur /\ g.next = f.next /\ g.upDst = f.upDst /\ g.frozen = f.frozen
      /\ g.installed = f.installed /\ g.upSwitched = f.upSwitched /\ g.dlSwitched = f.dlSwitched
      /\ g.upLimit = f.upLimit /\ g.dlLimit = f.dlLimit /\ g.upEnded = f.upEnded /\ g.dlEnded = f.dlEnded
      /\ g.aborted = f.aborted /\ g.done = f.done /\ g.suspended = f.suspended /\ g.upParked = f.upParked
      /\ g.dlParked = f.dlParked /\ g.resumeConn = f.resumeConn /\ g.resumeFrom = f.resumeFrom
      /\ g.upBytes = f.upBytes /\ g.base = f.base /\ g.end = f.end /\ g.writeDl = f.writeDl /\ g.rel = f.rel
      /\ g.up = f.up /\ g.dl = f.dl /\ g.ack = f.ack /\ g.read = f.read /\ g.got = f.got /\ g.st = f.st
  BY <1>4 DEF flowFields
<1>6. Made(g)
  BY <1>2, <1>3, <1>5 DEF EndInv, Made, Same, Atts, attFields
<1>7. Counts(g)
  BY <1>3, <1>5 DEF EndInv, Counts
<1>8. Located(g, u)
  BY <1>3, <1>5 DEF EndInv, Located
<1>9. Ctl(g, D, W)
  BY <1>3, <1>5 DEF EndInv, Ctl, Reserving, Freezing, UpWoken, freeze, ParkedIs, Settling, Settles, Parked, UpPlace, DlPlace,
         DlWoken, Swapping, dlBytes, AckOK, Unacked, Swappable
<1> QED BY <1>1, <1>3, <1>5, <1>6, <1>7, <1>8, <1>9 DEF EndInv, Running

\* FreezeUp runs out of time and withdraws its request.
LEMMA WithdrawnKeeps ==
    ASSUME NEW D, NEW W, NEW u \in Nat, NEW f, EndInv(f, D, W, u), NEW t \in Tunnels, Freezing(f, t)
    PROVE  EndInv([Goes(f, t, "fail") EXCEPT !.freezeReq = FALSE, !.readDl = FALSE], D, W, u)
<1>1. PICK g : g = [Goes(f, t, "fail") EXCEPT !.freezeReq = FALSE, !.readDl = FALSE]
  OBVIOUS
<1>2. Same(f, g, {"freezeReq", "readDl", "att"})
  BY <1>1 DEF EndInv, Made, Same, Goes, Atts
<1>3. g.freezeReq = FALSE /\ g.readDl = FALSE
      /\ DOMAIN g.att[t] = attFields /\ g.att[t].mode = f.att[t].mode /\ g.att[t].own = f.att[t].own /\ g.att[t].pc = "fail" /\ DOMAIN g.att = Tunnels /\ \A v \in Tunnels : v # t => g.att[v] = f.att[v]
  BY <1>1 DEF EndInv, Made, flowFields, attFields, Goes, Atts
<1>4. \A x \in flowFields : x \notin {"freezeReq", "readDl", "att"} => g[x] = f[x]
  BY <1>2 DEF EndInv, Made, Same
<1>5. /\ g.cur = f.cur /\ g.next = f.next /\ g.upDst = f.upDst /\ g.frozen = f.frozen
      /\ g.installed = f.installed /\ g.upSwitched = f.upSwitched /\ g.dlSwitched = f.dlSwitched
      /\ g.upLimit = f.upLimit /\ g.dlLimit = f.dlLimit /\ g.upEnded = f.upEnded /\ g.dlEnded = f.dlEnded
      /\ g.aborted = f.aborted /\ g.done = f.done /\ g.suspended = f.suspended /\ g.upParked = f.upParked
      /\ g.dlParked = f.dlParked /\ g.resumeConn = f.resumeConn /\ g.resumeFrom = f.resumeFrom
      /\ g.upBytes = f.upBytes /\ g.base = f.base /\ g.end = f.end /\ g.writeDl = f.writeDl /\ g.rel = f.rel
      /\ g.up = f.up /\ g.dl = f.dl /\ g.ack = f.ack /\ g.read = f.read /\ g.got = f.got /\ g.st = f.st
  BY <1>4 DEF flowFields
<1>6. Made(g)
  BY <1>2, <1>3, <1>5 DEF EndInv, Made, Same, Atts, attFields
<1>7. Counts(g)
  BY <1>3, <1>5 DEF EndInv, Counts
<1>8. Located(g, u)
  BY <1>3, <1>5 DEF EndInv, Located, Freezing
<1>9. CASE Running(f)
  <2>1. Ctl(g, D, W)
    BY <1>3, <1>5, <1>9 DEF EndInv, Ctl, Reserving, Freezing, UpWoken, freeze, ParkedIs, Settling, Settles, Parked, UpPlace, DlPlace,
         DlWoken, Swapping, dlBytes, AckOK, Unacked
  <2> QED BY <1>1, <1>5, <1>6, <1>7, <1>8, <1>9, <2>1 DEF EndInv, Running
<1>10. CASE ~Running(f)
  BY <1>1, <1>3, <1>5, <1>6, <1>7, <1>8, <1>10 DEF EndInv, Running, Stopped
<1> QED BY <1>9, <1>10

\* Install: the flags of an earlier swap are gone, and the download is woken.
LEMMA InstalledKeeps ==
    ASSUME NEW D, NEW W, NEW u \in Nat, NEW f, NEW V, EndInv(f, D, W, u), Running(f), NEW t \in Tunnels, t \in 1..u, NEW n \in Nat, f.frozen, ~f.installed,
           ~f.upSwitched, ~f.dlSwitched, f.dlEnded \/ f.cur \in V
    PROVE  EndInv(Installed(f, t, n), D, V, u)
<1>1. PICK g : g = Installed(f, t, n)
  OBVIOUS
<1>2. Same(f, g, {"next", "dlLimit", "installed", "upSwitched", "dlSwitched", "upDst", "up", "dl"})
  BY <1>1 DEF EndInv, Made, Same, Installed, Released
<1>3. /\ g.next = t /\ g.dlLimit = n /\ g.installed = TRUE /\ g.upSwitched = (f.upSwitched \/ f.upEnded)
      /\ g.dlSwitched = (f.dlSwitched \/ f.dlEnded) /\ g.upDst = (IF f.upEnded THEN t ELSE f.upDst)
      /\ DOMAIN g.up = upFields /\ g.up.pc = (IF f.up.pc = "frozen" THEN "wake" ELSE f.up.pc) /\ g.up.dst = f.up.dst /\ g.up.pend = f.up.pend
      /\ DOMAIN g.dl = dlFields /\ g.dl.pc = (IF f.dl.pc = "wait" THEN "decide" ELSE f.dl.pc) /\ g.dl.src = f.dl.src
  BY <1>1 DEF EndInv, Made, flowFields, upFields, dlFields, Installed, Released
<1>4. \A x \in flowFields : x \notin {"next", "dlLimit", "installed", "upSwitched", "dlSwitched", "upDst", "up", "dl"} => g[x] = f[x]
  BY <1>2 DEF EndInv, Made, Same
<1>5. /\ g.cur = f.cur /\ g.freezeReq = f.freezeReq /\ g.frozen = f.frozen /\ g.upLimit = f.upLimit
      /\ g.upEnded = f.upEnded /\ g.dlEnded = f.dlEnded /\ g.aborted = f.aborted /\ g.done = f.done
      /\ g.suspended = f.suspended /\ g.upParked = f.upParked /\ g.dlParked = f.dlParked
      /\ g.resumeConn = f.resumeConn /\ g.resumeFrom = f.resumeFrom /\ g.upBytes = f.upBytes /\ g.base = f.base
      /\ g.end = f.end /\ g.readDl = f.readDl /\ g.writeDl = f.writeDl /\ g.rel = f.rel /\ g.ack = f.ack
      /\ g.att = f.att /\ g.read = f.read /\ g.got = f.got /\ g.st = f.st
  BY <1>4 DEF flowFields
<1>6. Made(g)
  BY <1>2, <1>3, <1>5 DEF EndInv, Made, Same
<1>7. Counts(g)
  BY <1>3, <1>5 DEF EndInv, Counts
<1>8. Located(g, u)
  BY <1>3, <1>5 DEF EndInv, Located
<1>9. Ctl(g, D, V)
  <2>1. Reserving(g) /\ Settling(g)
    BY <1>3, <1>5 DEF EndInv, Ctl, Reserving, Freezing, Settling, Settles, Parked
  <2>2. UpWoken(g) /\ ParkedIs(g) /\ UpPlace(g)
    BY <1>3, <1>5 DEF EndInv, Ctl, UpWoken, freeze, ParkedIs, UpPlace, Reserving
  <2>3. DlPlace(g)
    <3>1. ~f.suspended /\ t # 0
      BY DEF EndInv, Ctl, Reserving
    <3> QED BY <1>3, <1>5, <3>1 DEF EndInv, Ctl, ParkedIs, DlPlace
  <2>4. DlWoken(g, V)
    <3>1. ~f.suspended
      BY DEF EndInv, Ctl, Reserving
    <3>2. ASSUME g.dl.pc = "read" PROVE g.dl.src \in V
      <4>1. f.dl.pc = "read" /\ ~f.dlEnded
        BY <1>3, <3>2 DEF EndInv, Ctl, ParkedIs
      <4> QED BY <1>3, <3>1, <4>1 DEF EndInv, Ctl, DlPlace
    <3> QED BY <3>2 DEF DlWoken
  <2>5. AckOK(g, D)
    BY <1>3 DEF AckOK
  <2> QED BY <2>1, <2>2, <2>3, <2>4, <2>5 DEF Ctl
<1> QED BY <1>1, <1>3, <1>5, <1>6, <1>7, <1>8, <1>9 DEF EndInv, Running

\* resetAcked.
LEMMA ResetAckedIs ==
    ASSUME NEW f, Made(f), NEW g, g = ResetAcked(f)
    PROVE  /\ Same(f, g, {"ack"})
           /\ DOMAIN g.ack = ackFields /\ g.ack.pc = f.ack.pc /\ g.ack.kick = (f.ack.kick \/ (Replay /\ (dlBytes(f) > 0 \/ f.dlEnded))) /\ g.ack.sent = 0 /\ g.ack.endSent = FALSE /\ g.ack.endAcked = f.ack.endAcked /\ g.ack.fresh = FALSE /\ g.ack.c = f.ack.c /\ g.ack.dl = f.ack.dl /\ g.ack.ended = f.ack.ended
<1>1. PICK r : r = [f EXCEPT !.ack.fresh = FALSE, !.ack.sent = 0, !.ack.endSent = FALSE]
  OBVIOUS
<1>2. Same(f, r, {"ack"})
  BY <1>1 DEF Made, Same
<1>3. DOMAIN r.ack = ackFields /\ r.ack.pc = f.ack.pc /\ r.ack.kick = f.ack.kick /\ r.ack.sent = 0 /\ r.ack.endSent = FALSE /\ r.ack.endAcked = f.ack.endAcked /\ r.ack.fresh = FALSE /\ r.ack.c = f.ack.c /\ r.ack.dl = f.ack.dl /\ r.ack.ended = f.ack.ended
  BY <1>1 DEF Made, flowFields, ackFields
<1>4. r.got = f.got /\ r.dlEnded = f.dlEnded
  BY <1>1 DEF Made, flowFields
<1>5. PICK k : k = Unacked(r)
  OBVIOUS
<1>6. k = (Replay /\ (dlBytes(f) > 0 \/ f.dlEnded))
  BY <1>3, <1>4, <1>5 DEF Unacked, dlBytes
<1>7. g = [r EXCEPT !.ack.kick = @ \/ k]
  BY <1>1, <1>5 DEF ResetAcked
<1>8. DOMAIN r = flowFields
  BY <1>2 DEF Made, Same
<1>9. Same(r, g, {"ack"})
  BY <1>7, <1>8 DEF Same
<1>10. g.ack = [r.ack EXCEPT !.kick = @ \/ k]
  BY <1>7, <1>8 DEF flowFields
<1>11. DOMAIN g.ack = ackFields /\ g.ack.pc = f.ack.pc /\ g.ack.kick = (f.ack.kick \/ (Replay /\ (dlBytes(f) > 0 \/ f.dlEnded))) /\ g.ack.sent = 0 /\ g.ack.endSent = FALSE /\ g.ack.endAcked = f.ack.endAcked /\ g.ack.fresh = FALSE /\ g.ack.c = f.ack.c /\ g.ack.dl = f.ack.dl /\ g.ack.ended = f.ack.ended
  BY <1>3, <1>6, <1>10 DEF ackFields
<1> QED BY <1>2, <1>9, <1>11 DEF Same

\* The direction dir is the second to switch.
Second(f, dir) == (f.upSwitched \/ dir = "up") /\ (f.dlSwitched \/ dir = "dl")

\* switched, for the first of the two directions.
LEMMA PartIs ==
    ASSUME NEW f, Made(f), NEW dir, NEW g, g = Switched(f, dir),
           ~Second(f, dir)
    PROVE  g = [f EXCEPT !.upSwitched = @ \/ dir = "up", !.dlSwitched = @ \/ dir = "dl"]
<1>1. PICK s : s = [f EXCEPT !.upSwitched = @ \/ dir = "up", !.dlSwitched = @ \/ dir = "dl"]
  OBVIOUS
<1>2. s.upSwitched = (f.upSwitched \/ dir = "up") /\ s.dlSwitched = (f.dlSwitched \/ dir = "dl")
  BY <1>1 DEF Made, flowFields
<1> QED BY <1>1, <1>2 DEF Switched, Second

\* g is f once the swap is complete.
Whole(f, g) ==
    /\ Same(f, g, {"cur", "next", "rel", "freezeReq", "frozen", "installed", "upSwitched", "dlSwitched", "ack"})
    /\ g.cur = f.next /\ g.next = 0 /\ g.freezeReq = FALSE /\ g.frozen = FALSE /\ g.installed = FALSE
    /\ g.upSwitched = FALSE /\ g.dlSwitched = FALSE /\ g.rel = f.rel \cup {f.cur}
    /\ DOMAIN g.ack = ackFields /\ g.ack.pc = f.ack.pc /\ g.ack.kick = (f.ack.kick \/ (Replay /\ (dlBytes(f) > 0 \/ f.dlEnded))) /\ g.ack.sent = 0 /\ g.ack.endSent = FALSE /\ g.ack.endAcked = f.ack.endAcked /\ g.ack.fresh = FALSE /\ g.ack.c = f.ack.c /\ g.ack.dl = f.ack.dl /\ g.ack.ended = f.ack.ended

\* switched, for the second: the swap is complete.
LEMMA FullIs ==
    ASSUME NEW f, Made(f), NEW dir, NEW g, g = Switched(f, dir),
           Second(f, dir)
    PROVE  Whole(f, g)
<1>1. PICK s : s = [f EXCEPT !.upSwitched = @ \/ dir = "up", !.dlSwitched = @ \/ dir = "dl"]
  OBVIOUS
<1>2. s.upSwitched = (f.upSwitched \/ dir = "up") /\ s.dlSwitched = (f.dlSwitched \/ dir = "dl")
  BY <1>1 DEF Made, flowFields
<1>3. Same(f, s, {"upSwitched", "dlSwitched"})
  BY <1>1 DEF Same
<1>4. PICK h : h = [s EXCEPT !.cur = s.next, !.next = 0, !.rel = @ \cup {s.cur},
                             !.freezeReq = FALSE, !.frozen = FALSE, !.installed = FALSE,
                             !.upSwitched = FALSE, !.dlSwitched = FALSE]
  OBVIOUS
<1>5. g = ResetAcked(h)
  BY <1>1, <1>2, <1>4 DEF Switched, Second
<1>6. Same(s, h, {"cur", "next", "rel", "freezeReq", "frozen", "installed", "upSwitched", "dlSwitched"})
  BY <1>4 DEF Same
<1>7. Same(f, h, {"cur", "next", "rel", "freezeReq", "frozen", "installed", "upSwitched", "dlSwitched"})
  BY <1>3, <1>6 DEF Same
<1>8. s.cur = f.cur /\ s.next = f.next /\ s.rel = f.rel /\ DOMAIN s = flowFields
  BY <1>3 DEF Made, Same, flowFields
<1>9. /\ h.cur = f.next /\ h.next = 0 /\ h.freezeReq = FALSE /\ h.frozen = FALSE /\ h.installed = FALSE
      /\ h.upSwitched = FALSE /\ h.dlSwitched = FALSE /\ h.rel = f.rel \cup {f.cur}
  BY <1>4, <1>8 DEF flowFields
<1>10. h.up = f.up /\ h.dl = f.dl /\ h.ack = f.ack /\ h.att = f.att /\ h.got = f.got /\ h.dlEnded = f.dlEnded
  BY <1>7 DEF Made, Same, flowFields
<1>11. Made(h)
  BY <1>7, <1>10 DEF Made, Same
<1>12. /\ Same(h, g, {"ack"})
       /\ DOMAIN g.ack = ackFields /\ g.ack.pc = h.ack.pc /\ g.ack.kick = (h.ack.kick \/ (Replay /\ (dlBytes(h) > 0 \/ h.dlEnded))) /\ g.ack.sent = 0 /\ g.ack.endSent = FALSE /\ g.ack.endAcked = h.ack.endAcked /\ g.ack.fresh = FALSE /\ g.ack.c = h.ack.c /\ g.ack.dl = h.ack.dl /\ g.ack.ended = h.ack.ended
  BY <1>5, <1>11, ResetAckedIs
<1>13. DOMAIN g.ack = ackFields /\ g.ack.pc = f.ack.pc /\ g.ack.kick = (f.ack.kick \/ (Replay /\ (dlBytes(f) > 0 \/ f.dlEnded))) /\ g.ack.sent = 0 /\ g.ack.endSent = FALSE /\ g.ack.endAcked = f.ack.endAcked /\ g.ack.fresh = FALSE /\ g.ack.c = f.ack.c /\ g.ack.dl = f.ack.dl /\ g.ack.ended = f.ack.ended
  BY <1>10, <1>12 DEF dlBytes
<1>14. Same(f, g, {"cur", "next", "rel", "freezeReq", "frozen", "installed", "upSwitched", "dlSwitched", "ack"})
  BY <1>7, <1>12 DEF Same
<1>15. /\ g.cur = h.cur /\ g.next = h.next /\ g.freezeReq = h.freezeReq /\ g.frozen = h.frozen /\ g.installed = h.installed
       /\ g.upSwitched = h.upSwitched /\ g.dlSwitched = h.dlSwitched /\ g.rel = h.rel
  BY <1>11, <1>12 DEF Made, Same, flowFields
<1> QED BY <1>9, <1>13, <1>14, <1>15 DEF Whole

\* The upload has switched, the download has not.
LEMMA UpSwitchedKeeps ==
    ASSUME NEW D, NEW W, NEW u \in Nat, NEW f, EndInv(f, D, W, u), Running(f), f.up.pc = "switching", ~f.suspended, ~f.dlSwitched
    PROVE  EndInv([Switched(f, "up") EXCEPT !.up.pc = "run"], D, W, u)
<1>0. Made(f)
  BY DEF EndInv
<1>1. PICK s : s = Switched(f, "up")
  OBVIOUS
<1>2. Same(f, s, {"upSwitched", "dlSwitched"}) /\ s.upSwitched = TRUE /\ s.dlSwitched = FALSE
  <2>1. s = [f EXCEPT !.upSwitched = @ \/ "up" = "up", !.dlSwitched = @ \/ "up" = "dl"]
    <3>1. ~Second(f, "up")
      BY DEF Second
    <3> QED BY <1>0, <1>1, <3>1, PartIs
  <2>2. Same(f, s, {"upSwitched", "dlSwitched"})
    BY <2>1 DEF Same
  <2> QED BY <1>0, <2>1, <2>2 DEF Made, flowFields
<1>3. \A x \in flowFields : x \notin {"upSwitched", "dlSwitched"} => s[x] = f[x]
  BY <1>0, <1>2 DEF Made, Same
<1>4. /\ s.cur = f.cur /\ s.next = f.next /\ s.upDst = f.upDst /\ s.freezeReq = f.freezeReq
      /\ s.frozen = f.frozen /\ s.installed = f.installed /\ s.upLimit = f.upLimit /\ s.dlLimit = f.dlLimit
      /\ s.upEnded = f.upEnded /\ s.dlEnded = f.dlEnded /\ s.aborted = f.aborted /\ s.done = f.done
      /\ s.suspended = f.suspended /\ s.upParked = f.upParked /\ s.dlParked = f.dlParked
      /\ s.resumeConn = f.resumeConn /\ s.resumeFrom = f.resumeFrom /\ s.upBytes = f.upBytes /\ s.base = f.base
      /\ s.end = f.end /\ s.readDl = f.readDl /\ s.writeDl = f.writeDl /\ s.rel = f.rel /\ s.up = f.up
      /\ s.dl = f.dl /\ s.ack = f.ack /\ s.att = f.att /\ s.read = f.read /\ s.got = f.got /\ s.st = f.st
  BY <1>3 DEF flowFields
<1>5. Made(s)
  BY <1>0, <1>2, <1>4 DEF Made, Same
<1>6. PICK g : g = [s EXCEPT !.up.pc = "run"]
  OBVIOUS
<1>7. Same(s, g, {"up"})
  BY <1>1, <1>5, <1>6 DEF Made, Same, Looked
<1>8. DOMAIN g.up = upFields /\ g.up.pc = "run" /\ g.up.dst = f.up.dst /\ g.up.pend = f.up.pend
  BY <1>1, <1>2, <1>4, <1>5, <1>6 DEF Made, flowFields, upFields, dlFields, Looked, Swapping
<1>9. \A x \in flowFields : x # "up" => g[x] = s[x]
  BY <1>5, <1>7 DEF Made, Same
<1>10. /\ g.cur = s.cur /\ g.next = s.next /\ g.upDst = s.upDst /\ g.freezeReq = s.freezeReq
       /\ g.frozen = s.frozen /\ g.installed = s.installed /\ g.upSwitched = s.upSwitched
       /\ g.dlSwitched = s.dlSwitched /\ g.upLimit = s.upLimit /\ g.dlLimit = s.dlLimit
       /\ g.upEnded = s.upEnded /\ g.dlEnded = s.dlEnded /\ g.aborted = s.aborted /\ g.done = s.done
       /\ g.suspended = s.suspended /\ g.upParked = s.upParked /\ g.dlParked = s.dlParked
       /\ g.resumeConn = s.resumeConn /\ g.resumeFrom = s.resumeFrom /\ g.upBytes = s.upBytes
       /\ g.base = s.base /\ g.end = s.end /\ g.readDl = s.readDl /\ g.writeDl = s.writeDl /\ g.rel = s.rel
       /\ g.dl = s.dl /\ g.ack = s.ack /\ g.att = s.att /\ g.read = s.read /\ g.got = s.got /\ g.st = s.st
  BY <1>9 DEF flowFields
<1>11. Made(g)
  BY <1>5, <1>7, <1>8, <1>10 DEF Made, Same
<1>12. Counts(g) /\ Located(g, u)
  <2>1. Counts(g)
    BY <1>2, <1>4, <1>8, <1>10 DEF EndInv, Counts
  <2>2. Located(g, u)
    BY <1>2, <1>4, <1>8, <1>10 DEF EndInv, Located
  <2> QED BY <2>1, <2>2
<1>13. Ctl(g, D, W)
  <2>1. f.suspended \/ f.installed
    BY DEF EndInv, Ctl, UpPlace, DlPlace
  <2>2. Reserving(g) /\ Settling(g)
    BY <1>2, <1>4, <1>10, <2>1 DEF EndInv, Ctl, Reserving, Freezing, Settling, Settles, Parked
  <2>3. UpWoken(g) /\ ParkedIs(g)
    BY <1>2, <1>4, <1>8, <1>10, <2>1 DEF EndInv, Ctl, UpWoken, freeze, ParkedIs, Reserving
  <2>4. UpPlace(g)
    BY <1>2, <1>4, <1>8, <1>10, <2>1 DEF EndInv, Ctl, UpPlace, Reserving
  <2>5. DlPlace(g)
    BY <1>2, <1>4, <1>8, <1>10, <2>1 DEF EndInv, Ctl, DlPlace
  <2>6. DlWoken(g, W)
    BY <1>2, <1>4, <1>8, <1>10 DEF EndInv, Ctl, DlWoken, Swapping, dlBytes
  <2>7. AckOK(g, D)
    BY <1>2, <1>4, <1>10, <2>1 DEF AckOK
  <2> QED BY <2>2, <2>3, <2>4, <2>5, <2>6, <2>7 DEF Ctl
<1> QED BY <1>1, <1>4, <1>6, <1>10, <1>11, <1>12, <1>13 DEF EndInv, Running

\* The upload has switched, and so the swap is complete.
LEMMA UpCompletesKeeps ==
    ASSUME NEW D, NEW W, NEW u \in Nat, NEW f, EndInv(f, D, W, u), Running(f), f.up.pc = "switching", ~f.suspended, f.dlSwitched
    PROVE  EndInv([Switched(f, "up") EXCEPT !.up.pc = "run"], D, W, u)
<1>0. Made(f)
  BY DEF EndInv
<1>1. PICK s : s = Switched(f, "up")
  OBVIOUS
<1>2. /\ Same(f, s, {"cur", "next", "rel", "freezeReq", "frozen", "installed", "upSwitched", "dlSwitched", "ack"})
      /\ s.cur = f.next /\ s.next = 0 /\ s.freezeReq = FALSE /\ s.frozen = FALSE /\ s.installed = FALSE
      /\ s.upSwitched = FALSE /\ s.dlSwitched = FALSE
      /\ DOMAIN s.ack = ackFields /\ s.ack.pc = f.ack.pc /\ s.ack.kick = (f.ack.kick \/ (Replay /\ (dlBytes(f) > 0 \/ f.dlEnded))) /\ s.ack.sent = 0 /\ s.ack.endSent = FALSE /\ s.ack.endAcked = f.ack.endAcked /\ s.ack.fresh = FALSE /\ s.ack.c = f.ack.c /\ s.ack.dl = f.ack.dl /\ s.ack.ended = f.ack.ended
  <2>1. Second(f, "up")
    BY DEF Second
  <2>2. Whole(f, s)
    BY <1>0, <1>1, <2>1, FullIs
  <2> QED BY <2>2 DEF Whole
<1>3. \A x \in flowFields : x \notin {"cur", "next", "rel", "freezeReq", "frozen", "installed", "upSwitched", "dlSwitched", "ack"} => s[x] = f[x]
  BY <1>0, <1>2 DEF Made, Same
<1>4. /\ s.upDst = f.upDst /\ s.upLimit = f.upLimit /\ s.dlLimit = f.dlLimit /\ s.upEnded = f.upEnded
      /\ s.dlEnded = f.dlEnded /\ s.aborted = f.aborted /\ s.done = f.done /\ s.suspended = f.suspended
      /\ s.upParked = f.upParked /\ s.dlParked = f.dlParked /\ s.resumeConn = f.resumeConn
      /\ s.resumeFrom = f.resumeFrom /\ s.upBytes = f.upBytes /\ s.base = f.base /\ s.end = f.end
      /\ s.readDl = f.readDl /\ s.writeDl = f.writeDl /\ s.up = f.up /\ s.dl = f.dl /\ s.att = f.att
      /\ s.read = f.read /\ s.got = f.got /\ s.st = f.st
  BY <1>3 DEF flowFields
<1>5. Made(s)
  BY <1>0, <1>2, <1>4 DEF Made, Same
<1>6. PICK g : g = [s EXCEPT !.up.pc = "run"]
  OBVIOUS
<1>7. Same(s, g, {"up"})
  BY <1>1, <1>5, <1>6 DEF Made, Same, Looked
<1>8. DOMAIN g.up = upFields /\ g.up.pc = "run" /\ g.up.dst = f.up.dst /\ g.up.pend = f.up.pend
  BY <1>1, <1>2, <1>4, <1>5, <1>6 DEF Made, flowFields, upFields, dlFields, Looked, Swapping
<1>9. \A x \in flowFields : x # "up" => g[x] = s[x]
  BY <1>5, <1>7 DEF Made, Same
<1>10. /\ g.cur = s.cur /\ g.next = s.next /\ g.upDst = s.upDst /\ g.freezeReq = s.freezeReq
       /\ g.frozen = s.frozen /\ g.installed = s.installed /\ g.upSwitched = s.upSwitched
       /\ g.dlSwitched = s.dlSwitched /\ g.upLimit = s.upLimit /\ g.dlLimit = s.dlLimit
       /\ g.upEnded = s.upEnded /\ g.dlEnded = s.dlEnded /\ g.aborted = s.aborted /\ g.done = s.done
       /\ g.suspended = s.suspended /\ g.upParked = s.upParked /\ g.dlParked = s.dlParked
       /\ g.resumeConn = s.resumeConn /\ g.resumeFrom = s.resumeFrom /\ g.upBytes = s.upBytes
       /\ g.base = s.base /\ g.end = s.end /\ g.readDl = s.readDl /\ g.writeDl = s.writeDl /\ g.rel = s.rel
       /\ g.dl = s.dl /\ g.ack = s.ack /\ g.att = s.att /\ g.read = s.read /\ g.got = s.got /\ g.st = s.st
  BY <1>9 DEF flowFields
<1>11. Made(g)
  BY <1>5, <1>7, <1>8, <1>10 DEF Made, Same
<1>12. Counts(g) /\ Located(g, u)
  <2>1. Counts(g)
    BY <1>2, <1>4, <1>8, <1>10 DEF EndInv, Counts
  <2>2. Located(g, u)
    BY <1>2, <1>4, <1>8, <1>10 DEF EndInv, Located
  <2> QED BY <2>1, <2>2
<1>13. Ctl(g, D, W)
  <2>1. f.suspended \/ f.installed
    BY DEF EndInv, Ctl, UpPlace, DlPlace
  <2>2. Reserving(g) /\ Settling(g)
    BY <1>2, <1>4, <1>10, <2>1 DEF EndInv, Ctl, Reserving, Freezing, Settling, Settles, Parked
  <2>3. UpWoken(g) /\ ParkedIs(g)
    BY <1>2, <1>4, <1>8, <1>10, <2>1 DEF EndInv, Ctl, UpWoken, freeze, ParkedIs, Reserving
  <2>4. UpPlace(g)
    BY <1>2, <1>4, <1>8, <1>10, <2>1 DEF EndInv, Ctl, UpPlace, Reserving
  <2>5. DlPlace(g)
    BY <1>2, <1>4, <1>8, <1>10, <2>1 DEF EndInv, Ctl, DlPlace
  <2>6. DlWoken(g, W)
    BY <1>2, <1>4, <1>8, <1>10 DEF EndInv, Ctl, DlWoken, Swapping, dlBytes
  <2>7. AckOK(g, D)
    <3>1. g.ack = s.ack /\ g.got = f.got /\ g.dlEnded = f.dlEnded
      BY <1>4, <1>10
    <3>2. g.ack.sent = 0 /\ g.ack.fresh = FALSE /\ g.ack.kick = (f.ack.kick \/ (Replay /\ (dlBytes(f) > 0 \/ f.dlEnded)))
      BY <1>2, <3>1
    <3>3. Unacked(g) => g.ack.kick
      BY <3>1, <3>2 DEF Unacked, dlBytes
    <3> QED BY <3>2, <3>3 DEF AckOK
  <2> QED BY <2>2, <2>3, <2>4, <2>5, <2>6, <2>7 DEF Ctl
<1> QED BY <1>1, <1>4, <1>6, <1>10, <1>11, <1>12, <1>13 DEF EndInv, Running

\* The download has switched, the upload has not.
LEMMA DlSwitchedKeeps ==
    ASSUME NEW D, NEW W, NEW u \in Nat, NEW f, EndInv(f, D, W, u), Running(f), f.dl.pc = "switching", ~f.suspended, ~f.upSwitched
    PROVE  EndInv(Looked(Switched(f, "dl")), D, W, u)
<1>0. Made(f)
  BY DEF EndInv
<1>1. PICK s : s = Switched(f, "dl")
  OBVIOUS
<1>2. Same(f, s, {"upSwitched", "dlSwitched"}) /\ s.upSwitched = FALSE /\ s.dlSwitched = TRUE
  <2>1. s = [f EXCEPT !.upSwitched = @ \/ "dl" = "up", !.dlSwitched = @ \/ "dl" = "dl"]
    <3>1. ~Second(f, "dl")
      BY DEF Second
    <3> QED BY <1>0, <1>1, <3>1, PartIs
  <2>2. Same(f, s, {"upSwitched", "dlSwitched"})
    BY <2>1 DEF Same
  <2> QED BY <1>0, <2>1, <2>2 DEF Made, flowFields
<1>3. \A x \in flowFields : x \notin {"upSwitched", "dlSwitched"} => s[x] = f[x]
  BY <1>0, <1>2 DEF Made, Same
<1>4. /\ s.cur = f.cur /\ s.next = f.next /\ s.upDst = f.upDst /\ s.freezeReq = f.freezeReq
      /\ s.frozen = f.frozen /\ s.installed = f.installed /\ s.upLimit = f.upLimit /\ s.dlLimit = f.dlLimit
      /\ s.upEnded = f.upEnded /\ s.dlEnded = f.dlEnded /\ s.aborted = f.aborted /\ s.done = f.done
      /\ s.suspended = f.suspended /\ s.upParked = f.upParked /\ s.dlParked = f.dlParked
      /\ s.resumeConn = f.resumeConn /\ s.resumeFrom = f.resumeFrom /\ s.upBytes = f.upBytes /\ s.base = f.base
      /\ s.end = f.end /\ s.readDl = f.readDl /\ s.writeDl = f.writeDl /\ s.rel = f.rel /\ s.up = f.up
      /\ s.dl = f.dl /\ s.ack = f.ack /\ s.att = f.att /\ s.read = f.read /\ s.got = f.got /\ s.st = f.st
  BY <1>3 DEF flowFields
<1>5. Made(s)
  BY <1>0, <1>2, <1>4 DEF Made, Same
<1>6. PICK g : g = Looked(s)
  OBVIOUS
<1>7. Same(s, g, {"dl"})
  BY <1>1, <1>5, <1>6 DEF Made, Same, Looked
<1>8. DOMAIN g.dl = dlFields /\ g.dl.pc = "read" /\ g.dl.src = f.dl.src
  BY <1>1, <1>2, <1>4, <1>5, <1>6 DEF Made, flowFields, upFields, dlFields, Looked, Swapping
<1>9. \A x \in flowFields : x # "dl" => g[x] = s[x]
  BY <1>5, <1>7 DEF Made, Same
<1>10. /\ g.cur = s.cur /\ g.next = s.next /\ g.upDst = s.upDst /\ g.freezeReq = s.freezeReq
       /\ g.frozen = s.frozen /\ g.installed = s.installed /\ g.upSwitched = s.upSwitched
       /\ g.dlSwitched = s.dlSwitched /\ g.upLimit = s.upLimit /\ g.dlLimit = s.dlLimit
       /\ g.upEnded = s.upEnded /\ g.dlEnded = s.dlEnded /\ g.aborted = s.aborted /\ g.done = s.done
       /\ g.suspended = s.suspended /\ g.upParked = s.upParked /\ g.dlParked = s.dlParked
       /\ g.resumeConn = s.resumeConn /\ g.resumeFrom = s.resumeFrom /\ g.upBytes = s.upBytes
       /\ g.base = s.base /\ g.end = s.end /\ g.readDl = s.readDl /\ g.writeDl = s.writeDl /\ g.rel = s.rel
       /\ g.up = s.up /\ g.ack = s.ack /\ g.att = s.att /\ g.read = s.read /\ g.got = s.got /\ g.st = s.st
  BY <1>9 DEF flowFields
<1>11. Made(g)
  BY <1>5, <1>7, <1>8, <1>10 DEF Made, Same
<1>12. Counts(g) /\ Located(g, u)
  <2>1. Counts(g)
    BY <1>2, <1>4, <1>8, <1>10 DEF EndInv, Counts
  <2>2. Located(g, u)
    BY <1>2, <1>4, <1>8, <1>10 DEF EndInv, Located
  <2> QED BY <2>1, <2>2
<1>13. Ctl(g, D, W)
  <2>1. f.suspended \/ f.installed
    BY DEF EndInv, Ctl, UpPlace, DlPlace
  <2>2. Reserving(g) /\ Settling(g)
    BY <1>2, <1>4, <1>10, <2>1 DEF EndInv, Ctl, Reserving, Freezing, Settling, Settles, Parked
  <2>3. UpWoken(g) /\ ParkedIs(g)
    BY <1>2, <1>4, <1>8, <1>10, <2>1 DEF EndInv, Ctl, UpWoken, freeze, ParkedIs, Reserving
  <2>4. UpPlace(g)
    BY <1>2, <1>4, <1>8, <1>10, <2>1 DEF EndInv, Ctl, UpPlace, Reserving
  <2>5. DlPlace(g)
    BY <1>2, <1>4, <1>8, <1>10, <2>1 DEF EndInv, Ctl, DlPlace
  <2>6. DlWoken(g, W)
    BY <1>2, <1>4, <1>8, <1>10 DEF EndInv, Ctl, DlWoken, Swapping, dlBytes
  <2>7. AckOK(g, D)
    BY <1>2, <1>4, <1>10, <2>1 DEF AckOK
  <2> QED BY <2>2, <2>3, <2>4, <2>5, <2>6, <2>7 DEF Ctl
<1> QED BY <1>1, <1>4, <1>6, <1>10, <1>11, <1>12, <1>13 DEF EndInv, Running

\* The download has switched, and so the swap is complete.
LEMMA DlCompletesKeeps ==
    ASSUME NEW D, NEW W, NEW u \in Nat, NEW f, EndInv(f, D, W, u), Running(f), f.dl.pc = "switching", ~f.suspended, f.upSwitched
    PROVE  EndInv(Looked(Switched(f, "dl")), D, W, u)
<1>0. Made(f)
  BY DEF EndInv
<1>1. PICK s : s = Switched(f, "dl")
  OBVIOUS
<1>2. /\ Same(f, s, {"cur", "next", "rel", "freezeReq", "frozen", "installed", "upSwitched", "dlSwitched", "ack"})
      /\ s.cur = f.next /\ s.next = 0 /\ s.freezeReq = FALSE /\ s.frozen = FALSE /\ s.installed = FALSE
      /\ s.upSwitched = FALSE /\ s.dlSwitched = FALSE
      /\ DOMAIN s.ack = ackFields /\ s.ack.pc = f.ack.pc /\ s.ack.kick = (f.ack.kick \/ (Replay /\ (dlBytes(f) > 0 \/ f.dlEnded))) /\ s.ack.sent = 0 /\ s.ack.endSent = FALSE /\ s.ack.endAcked = f.ack.endAcked /\ s.ack.fresh = FALSE /\ s.ack.c = f.ack.c /\ s.ack.dl = f.ack.dl /\ s.ack.ended = f.ack.ended
  <2>1. Second(f, "dl")
    BY DEF Second
  <2>2. Whole(f, s)
    BY <1>0, <1>1, <2>1, FullIs
  <2> QED BY <2>2 DEF Whole
<1>3. \A x \in flowFields : x \notin {"cur", "next", "rel", "freezeReq", "frozen", "installed", "upSwitched", "dlSwitched", "ack"} => s[x] = f[x]
  BY <1>0, <1>2 DEF Made, Same
<1>4. /\ s.upDst = f.upDst /\ s.upLimit = f.upLimit /\ s.dlLimit = f.dlLimit /\ s.upEnded = f.upEnded
      /\ s.dlEnded = f.dlEnded /\ s.aborted = f.aborted /\ s.done = f.done /\ s.suspended = f.suspended
      /\ s.upParked = f.upParked /\ s.dlParked = f.dlParked /\ s.resumeConn = f.resumeConn
      /\ s.resumeFrom = f.resumeFrom /\ s.upBytes = f.upBytes /\ s.base = f.base /\ s.end = f.end
      /\ s.readDl = f.readDl /\ s.writeDl = f.writeDl /\ s.up = f.up /\ s.dl = f.dl /\ s.att = f.att
      /\ s.read = f.read /\ s.got = f.got /\ s.st = f.st
  BY <1>3 DEF flowFields
<1>5. Made(s)
  BY <1>0, <1>2, <1>4 DEF Made, Same
<1>6. PICK g : g = Looked(s)
  OBVIOUS
<1>7. Same(s, g, {"dl"})
  BY <1>1, <1>5, <1>6 DEF Made, Same, Looked
<1>8. DOMAIN g.dl = dlFields /\ g.dl.pc = "read" /\ g.dl.src = f.dl.src
  BY <1>1, <1>2, <1>4, <1>5, <1>6 DEF Made, flowFields, upFields, dlFields, Looked, Swapping
<1>9. \A x \in flowFields : x # "dl" => g[x] = s[x]
  BY <1>5, <1>7 DEF Made, Same
<1>10. /\ g.cur = s.cur /\ g.next = s.next /\ g.upDst = s.upDst /\ g.freezeReq = s.freezeReq
       /\ g.frozen = s.frozen /\ g.installed = s.installed /\ g.upSwitched = s.upSwitched
       /\ g.dlSwitched = s.dlSwitched /\ g.upLimit = s.upLimit /\ g.dlLimit = s.dlLimit
       /\ g.upEnded = s.upEnded /\ g.dlEnded = s.dlEnded /\ g.aborted = s.aborted /\ g.done = s.done
       /\ g.suspended = s.suspended /\ g.upParked = s.upParked /\ g.dlParked = s.dlParked
       /\ g.resumeConn = s.resumeConn /\ g.resumeFrom = s.resumeFrom /\ g.upBytes = s.upBytes
       /\ g.base = s.base /\ g.end = s.end /\ g.readDl = s.readDl /\ g.writeDl = s.writeDl /\ g.rel = s.rel
       /\ g.up = s.up /\ g.ack = s.ack /\ g.att = s.att /\ g.read = s.read /\ g.got = s.got /\ g.st = s.st
  BY <1>9 DEF flowFields
<1>11. Made(g)
  BY <1>5, <1>7, <1>8, <1>10 DEF Made, Same
<1>12. Counts(g) /\ Located(g, u)
  <2>1. Counts(g)
    BY <1>2, <1>4, <1>8, <1>10 DEF EndInv, Counts
  <2>2. Located(g, u)
    BY <1>2, <1>4, <1>8, <1>10 DEF EndInv, Located
  <2> QED BY <2>1, <2>2
<1>13. Ctl(g, D, W)
  <2>1. f.suspended \/ f.installed
    BY DEF EndInv, Ctl, UpPlace, DlPlace
  <2>2. Reserving(g) /\ Settling(g)
    BY <1>2, <1>4, <1>10, <2>1 DEF EndInv, Ctl, Reserving, Freezing, Settling, Settles, Parked
  <2>3. UpWoken(g) /\ ParkedIs(g)
    BY <1>2, <1>4, <1>8, <1>10, <2>1 DEF EndInv, Ctl, UpWoken, freeze, ParkedIs, Reserving
  <2>4. UpPlace(g)
    BY <1>2, <1>4, <1>8, <1>10, <2>1 DEF EndInv, Ctl, UpPlace, Reserving
  <2>5. DlPlace(g)
    BY <1>2, <1>4, <1>8, <1>10, <2>1 DEF EndInv, Ctl, DlPlace
  <2>6. DlWoken(g, W)
    BY <1>2, <1>4, <1>8, <1>10 DEF EndInv, Ctl, DlWoken, Swapping, dlBytes
  <2>7. AckOK(g, D)
    <3>1. g.ack = s.ack /\ g.got = f.got /\ g.dlEnded = f.dlEnded
      BY <1>4, <1>10
    <3>2. g.ack.sent = 0 /\ g.ack.fresh = FALSE /\ g.ack.kick = (f.ack.kick \/ (Replay /\ (dlBytes(f) > 0 \/ f.dlEnded)))
      BY <1>2, <3>1
    <3>3. Unacked(g) => g.ack.kick
      BY <3>1, <3>2 DEF Unacked, dlBytes
    <3> QED BY <3>2, <3>3 DEF AckOK
  <2> QED BY <2>2, <2>3, <2>4, <2>5, <2>6, <2>7 DEF Ctl
<1> QED BY <1>1, <1>4, <1>6, <1>10, <1>11, <1>12, <1>13 DEF EndInv, Running

\* g is f once it goes on on t, from offset n.
GoesOn(f, g, t, n) ==
    /\ Same(f, g, {"base", "ack", "cur", "upDst", "resumeConn", "resumeFrom", "suspended", "upParked", "dlParked", "up", "dl"})
    /\ g.base = (IF n > f.base /\ n <= f.end THEN n ELSE f.base)
    /\ g.cur = t /\ g.upDst = t /\ g.resumeConn = t /\ g.resumeFrom = n /\ g.suspended = FALSE
    /\ g.upParked = FALSE /\ g.dlParked = FALSE
    /\ DOMAIN g.up = upFields /\ g.up.pc = (IF f.up.pc = "parked" THEN "replay" ELSE f.up.pc)
    /\ g.up.dst = f.up.dst /\ g.up.pend = f.up.pend
    /\ DOMAIN g.dl = dlFields /\ g.dl.pc = (IF f.dl.pc = "parked" THEN "read" ELSE f.dl.pc)
    /\ g.dl.src = (IF f.dl.pc = "parked" THEN t ELSE f.dl.src)
    /\ DOMAIN g.ack = ackFields /\ g.ack.pc = f.ack.pc /\ g.ack.kick = (f.ack.kick \/ (Replay /\ (dlBytes(f) > 0 \/ f.dlEnded))) /\ g.ack.sent = 0 /\ g.ack.endSent = FALSE /\ g.ack.fresh = FALSE /\ g.ack.c = f.ack.c /\ g.ack.dl = f.ack.dl /\ g.ack.ended = f.ack.ended

\* ResumeFinish.
LEMMA ResumedIs ==
    ASSUME NEW f, Made(f), NEW t, NEW n \in Nat, NEW r, r = Resumed(f, t, n)
    PROVE  GoesOn(f, r, t, n)
<1>1. PICK m : m = <<"ack", n>>
  OBVIOUS
<1>2. m[1] = "ack" /\ m[2] = n
  BY <1>1
<1>3. PICK a : a = AckedBy(f, m)
  OBVIOUS
<1>4. Same(f, a, {"base", "ack"})
  BY <1>3 DEF Made, Same, AckedBy
<1>5. /\ a.base = (IF n > f.base /\ n <= f.end THEN n ELSE f.base)
      /\ DOMAIN a.ack = ackFields /\ a.ack.pc = f.ack.pc /\ a.ack.kick = f.ack.kick /\ a.ack.sent = f.ack.sent /\ a.ack.endSent = f.ack.endSent /\ a.ack.endAcked = (f.ack.endAcked \/ m[1] = "ackend") /\ a.ack.fresh = f.ack.fresh /\ a.ack.c = f.ack.c /\ a.ack.dl = f.ack.dl /\ a.ack.ended = f.ack.ended
  BY <1>2, <1>3 DEF Made, flowFields, ackFields, AckedBy
<1>6. \A x \in flowFields : x \notin {"base", "ack"} => a[x] = f[x]
  BY <1>4 DEF Made, Same
<1>7. /\ a.cur = f.cur /\ a.next = f.next /\ a.upDst = f.upDst /\ a.freezeReq = f.freezeReq
      /\ a.frozen = f.frozen /\ a.installed = f.installed /\ a.upSwitched = f.upSwitched
      /\ a.dlSwitched = f.dlSwitched /\ a.upLimit = f.upLimit /\ a.dlLimit = f.dlLimit /\ a.upEnded = f.upEnded
      /\ a.dlEnded = f.dlEnded /\ a.aborted = f.aborted /\ a.done = f.done /\ a.suspended = f.suspended
      /\ a.upParked = f.upParked /\ a.dlParked = f.dlParked /\ a.resumeConn = f.resumeConn
      /\ a.resumeFrom = f.resumeFrom /\ a.upBytes = f.upBytes /\ a.end = f.end /\ a.readDl = f.readDl
      /\ a.writeDl = f.writeDl /\ a.rel = f.rel /\ a.up = f.up /\ a.dl = f.dl /\ a.att = f.att
      /\ a.read = f.read /\ a.got = f.got /\ a.st = f.st
  BY <1>6 DEF flowFields
<1>8. Made(a)
  BY <1>4, <1>5, <1>7 DEF Made, Same
<1>9. PICK h : h = [a EXCEPT
        !.cur = t, !.upDst = t, !.resumeConn = t, !.resumeFrom = n,
        !.suspended = FALSE, !.upParked = FALSE, !.dlParked = FALSE,
        !.up.pc = IF @ = "parked" THEN "replay" ELSE @,
        !.dl.src = IF a.dl.pc = "parked" THEN t ELSE @,
        !.dl.pc = IF @ = "parked" THEN "read" ELSE @]
  OBVIOUS
<1>10. r = ResetAcked(h)
  BY <1>1, <1>3, <1>9 DEF Resumed, OnTunnel
<1>11. Same(a, h, {"cur", "upDst", "resumeConn", "resumeFrom", "suspended", "upParked", "dlParked", "up", "dl"})
  BY <1>8, <1>9 DEF Made, Same
<1>12. /\ h.cur = t /\ h.upDst = t /\ h.resumeConn = t /\ h.resumeFrom = n /\ h.suspended = FALSE
       /\ h.upParked = FALSE /\ h.dlParked = FALSE
       /\ DOMAIN h.up = upFields /\ h.up.pc = (IF a.up.pc = "parked" THEN "replay" ELSE a.up.pc)
       /\ h.up.dst = a.up.dst /\ h.up.pend = a.up.pend
       /\ DOMAIN h.dl = dlFields /\ h.dl.pc = (IF a.dl.pc = "parked" THEN "read" ELSE a.dl.pc)
       /\ h.dl.src = (IF a.dl.pc = "parked" THEN t ELSE a.dl.src)
  BY <1>8, <1>9 DEF Made, flowFields, upFields, dlFields
<1>13. \A x \in flowFields : x \notin {"cur", "upDst", "resumeConn", "resumeFrom", "suspended", "upParked", "dlParked", "up", "dl"} => h[x] = a[x]
  BY <1>8, <1>11 DEF Made, Same
<1>14. /\ h.next = a.next /\ h.freezeReq = a.freezeReq /\ h.frozen = a.frozen /\ h.installed = a.installed
       /\ h.upSwitched = a.upSwitched /\ h.dlSwitched = a.dlSwitched /\ h.upLimit = a.upLimit
       /\ h.dlLimit = a.dlLimit /\ h.upEnded = a.upEnded /\ h.dlEnded = a.dlEnded /\ h.aborted = a.aborted
       /\ h.done = a.done /\ h.upBytes = a.upBytes /\ h.base = a.base /\ h.end = a.end /\ h.readDl = a.readDl
       /\ h.writeDl = a.writeDl /\ h.rel = a.rel /\ h.ack = a.ack /\ h.att = a.att /\ h.read = a.read
       /\ h.got = a.got /\ h.st = a.st
  BY <1>13 DEF flowFields
<1>15. Made(h)
  BY <1>8, <1>11, <1>12, <1>14 DEF Made, Same
<1>16. /\ Same(h, r, {"ack"})
       /\ DOMAIN r.ack = ackFields /\ r.ack.pc = h.ack.pc /\ r.ack.kick = (h.ack.kick \/ (Replay /\ (dlBytes(h) > 0 \/ h.dlEnded))) /\ r.ack.sent = 0 /\ r.ack.endSent = FALSE /\ r.ack.fresh = FALSE /\ r.ack.c = h.ack.c /\ r.ack.dl = h.ack.dl /\ r.ack.ended = h.ack.ended
  BY <1>10, <1>15, ResetAckedIs
<1>17. \A x \in flowFields : x # "ack" => r[x] = h[x]
  BY <1>15, <1>16 DEF Made, Same
<1>18. /\ r.cur = h.cur /\ r.next = h.next /\ r.upDst = h.upDst /\ r.freezeReq = h.freezeReq
       /\ r.frozen = h.frozen /\ r.installed = h.installed /\ r.upSwitched = h.upSwitched
       /\ r.dlSwitched = h.dlSwitched /\ r.upLimit = h.upLimit /\ r.dlLimit = h.dlLimit
       /\ r.upEnded = h.upEnded /\ r.dlEnded = h.dlEnded /\ r.aborted = h.aborted /\ r.done = h.done
       /\ r.suspended = h.suspended /\ r.upParked = h.upParked /\ r.dlParked = h.dlParked
       /\ r.resumeConn = h.resumeConn /\ r.resumeFrom = h.resumeFrom /\ r.upBytes = h.upBytes
       /\ r.base = h.base /\ r.end = h.end /\ r.readDl = h.readDl /\ r.writeDl = h.writeDl /\ r.rel = h.rel
       /\ r.up = h.up /\ r.dl = h.dl /\ r.att = h.att /\ r.read = h.read /\ r.got = h.got /\ r.st = h.st
  BY <1>17 DEF flowFields
<1>19. Same(f, r, {"base", "ack", "cur", "upDst", "resumeConn", "resumeFrom", "suspended", "upParked", "dlParked", "up", "dl"})
  BY <1>4, <1>11, <1>16 DEF Same
<1>20. /\ r.cur = t /\ r.upDst = t /\ r.resumeConn = t /\ r.resumeFrom = n /\ r.suspended = FALSE
       /\ r.upParked = FALSE /\ r.dlParked = FALSE
       /\ DOMAIN r.up = upFields /\ r.up.pc = (IF f.up.pc = "parked" THEN "replay" ELSE f.up.pc)
       /\ r.up.dst = f.up.dst /\ r.up.pend = f.up.pend
       /\ DOMAIN r.dl = dlFields /\ r.dl.pc = (IF f.dl.pc = "parked" THEN "read" ELSE f.dl.pc)
       /\ r.dl.src = (IF f.dl.pc = "parked" THEN t ELSE f.dl.src)
  BY <1>7, <1>12, <1>18
<1>21. DOMAIN r.ack = ackFields /\ r.ack.pc = f.ack.pc /\ r.ack.kick = (f.ack.kick \/ (Replay /\ (dlBytes(f) > 0 \/ f.dlEnded))) /\ r.ack.sent = 0 /\ r.ack.endSent = FALSE /\ r.ack.fresh = FALSE /\ r.ack.c = f.ack.c /\ r.ack.dl = f.ack.dl /\ r.ack.ended = f.ack.ended
  <2>1. h.ack = a.ack /\ h.got = f.got /\ h.dlEnded = f.dlEnded
    BY <1>7, <1>14
  <2>2. r.ack.kick = (f.ack.kick \/ (Replay /\ (dlBytes(f) > 0 \/ f.dlEnded)))
    BY <1>5, <1>16, <2>1 DEF dlBytes
  <2> QED BY <1>2, <1>5, <1>16, <2>1, <2>2
<1>22. r.base = (IF n > f.base /\ n <= f.end THEN n ELSE f.base)
  BY <1>5, <1>14, <1>18
<1> QED BY <1>19, <1>20, <1>21, <1>22 DEF GoesOn

\* The handshake on t settles the counts, and is the only one of its end.
LEMMA ResumedKeeps ==
    ASSUME NEW D, NEW W, NEW u \in Nat, NEW f, EndInv(f, D, W, u), Running(f), f.suspended,
           NEW t \in Tunnels, Settles(f, t), \A v \in Tunnels \ {t} : f.att[v].pc = "none",
           NEW n \in Nat, n <= f.end, NEW g, NEW pc \in {"none", "replay"}, Same(Resumed(f, t, n), g, {"att"}),
           Atts(g.att), \A v \in Tunnels \ {t} : g.att[v] = f.att[v], g.att[t].pc = pc
    PROVE  EndInv(g, D, W, u)
<1>1. PICK r : r = Resumed(f, t, n)
  OBVIOUS
<1>2. Made(f)
  BY DEF EndInv
<1>3. GoesOn(f, r, t, n)
  BY <1>1, <1>2, ResumedIs
<1>4. Same(f, r, {"base", "ack", "cur", "upDst", "resumeConn", "resumeFrom", "suspended", "upParked", "dlParked", "up", "dl"}) /\ Same(r, g, {"att"})
  BY <1>1, <1>3 DEF GoesOn
<1>5. DOMAIN r = flowFields /\ DOMAIN g = flowFields
  BY <1>2, <1>4 DEF Made, Same
<1>6. \A x \in flowFields : x # "att" => g[x] = r[x]
  BY <1>4, <1>5 DEF Same
<1>7. /\ g.cur = r.cur /\ g.next = r.next /\ g.upDst = r.upDst /\ g.freezeReq = r.freezeReq
      /\ g.frozen = r.frozen /\ g.installed = r.installed /\ g.upSwitched = r.upSwitched
      /\ g.dlSwitched = r.dlSwitched /\ g.upLimit = r.upLimit /\ g.dlLimit = r.dlLimit /\ g.upEnded = r.upEnded
      /\ g.dlEnded = r.dlEnded /\ g.aborted = r.aborted /\ g.done = r.done /\ g.suspended = r.suspended
      /\ g.upParked = r.upParked /\ g.dlParked = r.dlParked /\ g.resumeConn = r.resumeConn
      /\ g.resumeFrom = r.resumeFrom /\ g.upBytes = r.upBytes /\ g.base = r.base /\ g.end = r.end
      /\ g.readDl = r.readDl /\ g.writeDl = r.writeDl /\ g.rel = r.rel /\ g.up = r.up /\ g.dl = r.dl
      /\ g.ack = r.ack /\ g.read = r.read /\ g.got = r.got /\ g.st = r.st
  BY <1>6 DEF flowFields
<1>8. \A x \in flowFields : x \notin {"base", "ack", "cur", "upDst", "resumeConn", "resumeFrom", "suspended", "upParked", "dlParked", "up", "dl"} => r[x] = f[x]
  BY <1>2, <1>4 DEF Made, Same
<1>9. /\ r.next = f.next /\ r.freezeReq = f.freezeReq /\ r.frozen = f.frozen /\ r.installed = f.installed
      /\ r.upSwitched = f.upSwitched /\ r.dlSwitched = f.dlSwitched /\ r.upLimit = f.upLimit
      /\ r.dlLimit = f.dlLimit /\ r.upEnded = f.upEnded /\ r.dlEnded = f.dlEnded /\ r.aborted = f.aborted
      /\ r.done = f.done /\ r.upBytes = f.upBytes /\ r.end = f.end /\ r.readDl = f.readDl
      /\ r.writeDl = f.writeDl /\ r.rel = f.rel /\ r.att = f.att /\ r.read = f.read /\ r.got = f.got
      /\ r.st = f.st
  BY <1>8 DEF flowFields
<1>10. /\ r.base = (IF n > f.base /\ n <= f.end THEN n ELSE f.base)
       /\ r.cur = t /\ r.upDst = t /\ r.resumeConn = t /\ r.resumeFrom = n /\ r.suspended = FALSE
       /\ r.upParked = FALSE /\ r.dlParked = FALSE
       /\ DOMAIN r.up = upFields /\ r.up.pc = (IF f.up.pc = "parked" THEN "replay" ELSE f.up.pc)
       /\ r.up.dst = f.up.dst /\ r.up.pend = f.up.pend
       /\ DOMAIN r.dl = dlFields /\ r.dl.pc = (IF f.dl.pc = "parked" THEN "read" ELSE f.dl.pc)
       /\ r.dl.src = (IF f.dl.pc = "parked" THEN t ELSE f.dl.src)
  BY <1>3 DEF GoesOn
<1>11. /\ DOMAIN r.ack = ackFields /\ r.ack.pc = f.ack.pc /\ r.ack.sent = 0 /\ r.ack.endSent = FALSE /\ r.ack.fresh = FALSE
       /\ r.ack.c = f.ack.c /\ r.ack.dl = f.ack.dl
       /\ r.ack.kick = (f.ack.kick \/ (Replay /\ (dlBytes(f) > 0 \/ f.dlEnded)))
  BY <1>3 DEF GoesOn
<1>12. Made(g)
  BY <1>5, <1>7, <1>10, <1>11 DEF Made
<1>13. Counts(g)
  BY <1>7, <1>9, <1>10, <1>11 DEF EndInv, Counts
<1>14. t \in 1..u
  BY DEF EndInv, Located, Settles
<1>15. Located(g, u)
  BY <1>7, <1>9, <1>10, <1>11, <1>14 DEF EndInv, Located
<1>16. /\ Parked(f) /\ ~f.freezeReq /\ ~f.frozen /\ ~f.installed /\ ~f.upSwitched /\ ~f.dlSwitched
       /\ f.up.pc \in {"parked", "end", "done"} /\ f.dl.pc \in {"parked", "done"}
       /\ f.upEnded => f.up.pc \in {"end", "done"}
       /\ f.dlEnded => f.dl.pc = "done"
  <2>1. Parked(f)
    BY DEF EndInv, Ctl, Settling
  <2> QED BY <2>1 DEF EndInv, Ctl, Parked, ParkedIs, Reserving
<1>17. Ctl(g, D, W)
  <2>1. Reserving(g) /\ Settling(g)
    <3>1. \A v \in Tunnels : ~Freezing(g, v) /\ ~Settles(g, v)
      BY DEF Freezing, Settles
    <3> QED BY <1>7, <1>9, <1>10, <1>16, <3>1 DEF Reserving, Settling
  <2>2. UpWoken(g) /\ ParkedIs(g) /\ UpPlace(g)
    BY <1>7, <1>9, <1>10, <1>16 DEF UpWoken, freeze, ParkedIs, UpPlace
  <2>3. DlPlace(g) /\ DlWoken(g, W)
    BY <1>7, <1>9, <1>10, <1>14, <1>16 DEF DlPlace, DlWoken, Swapping
  <2>4. AckOK(g, D)
    <3>1. g.ack = r.ack /\ g.got = f.got /\ g.dlEnded = f.dlEnded
      BY <1>7, <1>9
    <3>2. Unacked(g) => g.ack.kick
      BY <1>11, <3>1 DEF Unacked, dlBytes
    <3> QED BY <1>11, <3>1, <3>2 DEF AckOK
  <2> QED BY <2>1, <2>2, <2>3, <2>4 DEF Ctl
<1> QED BY <1>7, <1>9, <1>12, <1>13, <1>15, <1>17 DEF EndInv, Running

\* FreezeUp, the upload having ended: there is nothing to wait for.
LEMMA ReservedEndedKeeps ==
    ASSUME NEW D, NEW W, NEW u \in Nat, NEW f, EndInv(f, D, W, u), Running(f), NEW e \in Ends,
           NEW t \in Tunnels, t \in 1..u, Swappable(f), f.att[t].mode # "resume", f.upEnded
    PROVE  EndInv(Frozen(e, [Goes(f, t, "freezing") EXCEPT !.freezeReq = TRUE]), D, W, u)
<1>1. PICK h : h = [Goes(f, t, "freezing") EXCEPT !.freezeReq = TRUE]
  OBVIOUS
<1>2. Same(f, h, {"freezeReq", "att"})
  BY <1>1 DEF EndInv, Made, Same, Goes
<1>3. /\ h.freezeReq = TRUE
      /\ DOMAIN h.att = Tunnels /\ \A v \in Tunnels : v # t => h.att[v] = f.att[v]
      /\ DOMAIN h.att[t] = attFields /\ h.att[t].mode = f.att[t].mode /\ h.att[t].own = f.att[t].own
      /\ h.att[t].pc = "freezing"
  BY <1>1 DEF EndInv, Made, Atts, flowFields, attFields, Goes
<1>4. \A x \in flowFields : x \notin {"freezeReq", "att"} => h[x] = f[x]
  BY <1>2 DEF EndInv, Made, Same
<1>5. /\ h.cur = f.cur /\ h.next = f.next /\ h.upDst = f.upDst /\ h.frozen = f.frozen
      /\ h.installed = f.installed /\ h.upSwitched = f.upSwitched /\ h.dlSwitched = f.dlSwitched
      /\ h.upLimit = f.upLimit /\ h.dlLimit = f.dlLimit /\ h.upEnded = f.upEnded /\ h.dlEnded = f.dlEnded
      /\ h.aborted = f.aborted /\ h.done = f.done /\ h.suspended = f.suspended /\ h.upParked = f.upParked
      /\ h.dlParked = f.dlParked /\ h.resumeConn = f.resumeConn /\ h.resumeFrom = f.resumeFrom
      /\ h.upBytes = f.upBytes /\ h.base = f.base /\ h.end = f.end /\ h.readDl = f.readDl
      /\ h.writeDl = f.writeDl /\ h.rel = f.rel /\ h.up = f.up /\ h.dl = f.dl /\ h.ack = f.ack
      /\ h.read = f.read /\ h.got = f.got /\ h.st = f.st
  BY <1>4 DEF flowFields
<1>6. Made(h)
  BY <1>2, <1>3, <1>5 DEF EndInv, Made, Same, Atts
<1>7. \A v \in Tunnels : ~Freezing(f, v)
  BY DEF EndInv, Ctl, Reserving, Swappable
<1>8. PICK g : g = Frozen(e, h)
  OBVIOUS
<1>9. Same(h, g, {"frozen", "upLimit", "att"})
  BY <1>6, <1>8 DEF Made, Same, Frozen
<1>10. PICK x \in {"count", "accept"} : x = AfterFreeze(e)
  BY AfterFreezeIs
<1>11. /\ g.frozen = TRUE /\ g.upLimit = h.upBytes
       /\ g.att = [v \in Tunnels |-> IF h.att[v].pc = "freezing"
                   THEN [h.att[v] EXCEPT !.own = h.upBytes, !.pc = x] ELSE h.att[v]]
  BY <1>6, <1>8, <1>10 DEF Made, flowFields, Frozen
<1>a. \A v \in Tunnels : g.att[v] = IF h.att[v].pc = "freezing" THEN [h.att[v] EXCEPT !.own = h.upBytes, !.pc = x] ELSE h.att[v]
  BY <1>11
<1>12. \A v \in Tunnels : v # t => g.att[v] = f.att[v]
  <2>1. SUFFICES ASSUME NEW v \in Tunnels, v # t PROVE g.att[v] = f.att[v]
    OBVIOUS
  <2>2. h.att[v] = f.att[v] /\ f.att[v].pc # "freezing"
    BY <1>3, <1>7, <2>1 DEF Freezing
  <2> QED BY <1>a, <2>2
<1>13. f.upBytes \in Nat /\ Atts(f.att)
  BY DEF EndInv, Made, Counts
<1>14. DOMAIN g.att[t] = attFields /\ g.att[t].mode = f.att[t].mode /\ g.att[t].own \in Nat /\ g.att[t].pc = x
  <2>1. PICK b : b = h.att[t]
    OBVIOUS
  <2>2. g.att[t] = [b EXCEPT !.own = h.upBytes, !.pc = x]
    BY <1>3, <1>a, <2>1
  <2> QED BY <1>3, <1>5, <1>13, <2>1, <2>2 DEF attFields
<1>15. Atts(g.att)
  BY <1>11, <1>12, <1>13, <1>14 DEF Atts
<1>16. \A y \in flowFields : y \notin {"frozen", "upLimit", "att"} => g[y] = h[y]
  BY <1>6, <1>9 DEF Made, Same
<1>17. /\ g.cur = h.cur /\ g.next = h.next /\ g.upDst = h.upDst /\ g.freezeReq = h.freezeReq
       /\ g.installed = h.installed /\ g.upSwitched = h.upSwitched /\ g.dlSwitched = h.dlSwitched
       /\ g.dlLimit = h.dlLimit /\ g.upEnded = h.upEnded /\ g.dlEnded = h.dlEnded /\ g.aborted = h.aborted
       /\ g.done = h.done /\ g.suspended = h.suspended /\ g.upParked = h.upParked /\ g.dlParked = h.dlParked
       /\ g.resumeConn = h.resumeConn /\ g.resumeFrom = h.resumeFrom /\ g.upBytes = h.upBytes
       /\ g.base = h.base /\ g.end = h.end /\ g.readDl = h.readDl /\ g.writeDl = h.writeDl /\ g.rel = h.rel
       /\ g.up = h.up /\ g.dl = h.dl /\ g.ack = h.ack /\ g.read = h.read /\ g.got = h.got /\ g.st = h.st
  BY <1>16 DEF flowFields
<1>18. Made(g)
  BY <1>6, <1>9, <1>15, <1>17 DEF Made, Same
<1>19. Counts(g)
  <2>1. Counts(f)
    BY DEF EndInv
  <2>2. g.upLimit = f.upBytes
    BY <1>5, <1>11
  <2>3. /\ g.got = f.got /\ g.dlLimit = f.dlLimit /\ g.upBytes = f.upBytes /\ g.base = f.base /\ g.end = f.end
        /\ g.read = f.read /\ g.up = f.up /\ g.ack = f.ack /\ g.resumeFrom = f.resumeFrom
    BY <1>5, <1>17
  <2> QED BY <2>1, <2>2, <2>3 DEF Counts
<1>20. Located(g, u)
  BY <1>5, <1>12, <1>17 DEF EndInv, Located
<1>21. Ctl(g, D, W)
  <2>1. \A v \in Tunnels : ~Freezing(g, v) /\ (Settles(g, v) => Settles(f, v))
    BY <1>7, <1>12, <1>14 DEF Freezing, Settles
  <2>2. Reserving(g)
    BY <1>3, <1>5, <1>11, <1>17, <2>1 DEF EndInv, Ctl, Reserving, Swappable
  <2>3. Settling(g)
    BY <1>5, <1>17, <2>1 DEF EndInv, Ctl, Settling, Parked
  <2>4. UpWoken(g) /\ ParkedIs(g) /\ UpPlace(g)
    <3>1. f.up.pc \in {"end", "done"} /\ ~f.suspended
      BY DEF EndInv, Ctl, ParkedIs, Swappable
    <3>2. ParkedIs(g)
      BY <1>5, <1>17 DEF EndInv, Ctl, ParkedIs
    <3>3. UpWoken(g) /\ UpPlace(g)
      BY <1>5, <1>17, <3>1 DEF UpWoken, UpPlace
    <3> QED BY <3>2, <3>3
  <2>5. DlPlace(g) /\ DlWoken(g, W) /\ AckOK(g, D)
    BY <1>5, <1>17 DEF EndInv, Ctl, DlPlace, DlWoken, Swapping, dlBytes, AckOK, Unacked
  <2> QED BY <2>2, <2>3, <2>4, <2>5 DEF Ctl
<1> QED BY <1>1, <1>5, <1>8, <1>17, <1>18, <1>19, <1>20, <1>21 DEF EndInv, Running

-----------------------------------------------------------------------------
(* Tunnels.                                                                 *)

\* A record on a tunnel, and the sides of all tunnels.
Kinds == {"data", "end", "abort", "ack", "ackend", "fin", "move", "resume", "accept", "busy", "unknown", "count"}
Recs  == Kinds \X Nat
Sides(tn) ==
    /\ DOMAIN tn = Tunnels /\ \A t \in Tunnels : DOMAIN tn[t] = Ends
    /\ \A t \in Tunnels, e \in Ends : DOMAIN tn[t][e] = sideFields /\ tn[t][e].in \in Seq(Recs)

\* A side that is closed stays closed, one whose reader is woken stays so or is closed.
Grows(tn, tm) ==
    /\ Sides(tm)
    /\ \A t \in Tunnels, e \in Ends : /\ tm[t][e].open => tn[t][e].open
                                      /\ tn[t][e].wake => tm[t][e].wake \/ ~tm[t][e].open

LEMMA GrowsTwice ==
    ASSUME NEW tn, NEW tm, NEW to, Grows(tn, tm), Grows(tm, to)
    PROVE  Grows(tn, to)
BY DEF Grows

LEMMA GrowsNot ==
    ASSUME NEW tn, Sides(tn)
    PROVE  Grows(tn, tn)
BY DEF Grows

\* One side of one tunnel changes.
SideSet(tn, tm, t, e, s) ==
    /\ Sides(tm) /\ tm[t][e] = s
    /\ \A u \in Tunnels, x \in Ends : u # t \/ x # e => tm[u][x] = tn[u][x]

LEMMA SideIs ==
    ASSUME NEW tn, Sides(tn), NEW t \in Tunnels, NEW e \in Ends, NEW s, NEW tm, tm = [tn EXCEPT ![t][e] = s],
           DOMAIN s = sideFields, s.in \in Seq(Recs)
    PROVE  SideSet(tn, tm, t, e, s)
<1>1. DOMAIN tm = Tunnels /\ tm[t] = [tn[t] EXCEPT ![e] = s] /\ \A u \in Tunnels : u # t => tm[u] = tn[u]
  BY DEF Sides
<1>2. DOMAIN tm[t] = Ends /\ tm[t][e] = s /\ \A x \in Ends : x # e => tm[t][x] = tn[t][x]
  BY <1>1 DEF Sides
<1>3. \A u \in Tunnels, x \in Ends : u # t \/ x # e => tm[u][x] = tn[u][x]
  BY <1>1, <1>2
<1>4. Sides(tm)
  BY <1>1, <1>2, <1>3 DEF Sides
<1> QED BY <1>2, <1>3, <1>4 DEF SideSet

LEMMA SideGrows ==
    ASSUME NEW tn, NEW tm, NEW t \in Tunnels, NEW e \in Ends, NEW s, SideSet(tn, tm, t, e, s),
           s.open => tn[t][e].open, tn[t][e].wake => s.wake \/ ~s.open
    PROVE  Grows(tn, tm)
BY DEF Grows, SideSet

\* The peer is the other end.
LEMMA PeerIs == \A e \in Ends : Peer(e) \in Ends /\ Peer(e) # e /\ Peer(Peer(e)) = e
BY DEF Ends, Peer

\* Two queues in a row.
LEMMA Joined == ASSUME NEW S, NEW a \in Seq(S), NEW b \in Seq(S) PROVE a \o b \in Seq(S)
OBVIOUS

\* What a write leaves: the peer's side has the records, or nothing changes.
LEMMA WrittenIs ==
    ASSUME NEW tn, Sides(tn), NEW t \in Tunnels, NEW e \in Ends, NEW ms \in Seq(Recs), NEW tm, tm = Written(tn, t, e, ms)
    PROVE  \E s : /\ SideSet(tn, tm, t, Peer(e), s) /\ Same(tn[t][Peer(e)], s, {"in"})
                  /\ s.in = IF t \in cut \/ ~tn[t][Peer(e)].open THEN tn[t][Peer(e)].in
                            ELSE tn[t][Peer(e)].in \o ms
<1>1. PICK p \in Ends : p = Peer(e)
  BY PeerIs
<1>2. CASE t \in cut \/ ~tn[t][p].open
  <2>1. tm = tn
    BY <1>1, <1>2 DEF Written
  <2>2. SideSet(tn, tm, t, p, tn[t][p]) /\ Same(tn[t][p], tn[t][p], {"in"})
    BY <2>1 DEF SideSet, Same
  <2> QED BY <1>1, <1>2, <2>2
<1>3. CASE ~(t \in cut \/ ~tn[t][p].open)
  <2>0. tn[t][p].in \in Seq(Recs) /\ DOMAIN tn[t][p] = sideFields
    BY DEF Sides
  <2>a. tn[t][p].in \o ms \in Seq(Recs)
    BY <2>0, Joined
  <2>1. PICK q \in Seq(Recs) : q = tn[t][p].in \o ms
    BY <2>a
  <2>2. PICK s : s = [tn[t][p] EXCEPT !.in = q]
    OBVIOUS
  <2>3. DOMAIN s = sideFields /\ s.in = q /\ Same(tn[t][p], s, {"in"})
    BY <2>0, <2>2 DEF Same, sideFields
  <2>5. tm = [tn EXCEPT ![t][p] = s]
    BY <1>1, <1>3, <2>1, <2>2 DEF Written, Sides
  <2>6. SideSet(tn, tm, t, p, s)
    BY <2>3, <2>5, SideIs
  <2> QED BY <1>1, <1>3, <2>1, <2>3, <2>6
<1> QED BY <1>1, <1>2, <1>3

LEMMA WrittenGrows ==
    ASSUME NEW tn, Sides(tn), NEW t \in Tunnels, NEW e \in Ends, NEW ms \in Seq(Recs)
    PROVE  /\ Grows(tn, Written(tn, t, e, ms))
           /\ Written(tn, t, e, ms)[t][e] = tn[t][e]
<1>1. PICK tm : tm = Written(tn, t, e, ms)
  OBVIOUS
<1>2. PICK s : SideSet(tn, tm, t, Peer(e), s) /\ Same(tn[t][Peer(e)], s, {"in"})
  BY <1>1, WrittenIs
<1>3. PICK p \in Ends : p = Peer(e) /\ p # e
  BY PeerIs
<1>4. s.open = tn[t][p].open /\ s.wake = tn[t][p].wake
  BY <1>2, <1>3 DEF Same, Sides, sideFields
<1>5. Grows(tn, tm)
  BY <1>2, <1>3, <1>4, SideGrows
<1> QED BY <1>1, <1>2, <1>3, <1>5 DEF SideSet

\* Records.
LEMMA RecIs == ASSUME NEW k \in Kinds, NEW n \in Nat PROVE <<k, n>> \in Recs /\ <<<<k, n>>>> \in Seq(Recs)
<1>1. PICK r \in Recs : r = <<k, n>>
  BY DEF Recs
<1>2. <<r>> \in Seq(Recs)
  OBVIOUS
<1> QED BY <1>1, <1>2

\* What Close leaves of a side that is open: the records of the close at the
\* peer, and a closed side here.
Lets(ms) == ms \in Seq(Recs) /\ \A i \in 1..Len(ms) : ms[i] \in {<<"abort", 0>>, <<"fin", 0>>}
ClosedAt(tn, tm, t, e, ms, tw, s) ==
    /\ Lets(ms) /\ tw = Written(tn, t, e, ms) /\ SideSet(tw, tm, t, e, s) /\ Same(tn[t][e], s, {"open", "in", "wake"})
    /\ s.open = FALSE /\ s.in = << >> /\ s.wake = FALSE

LEMMA ClosedIs ==
    ASSUME NEW tn, Sides(tn), NEW t \in Tunnels, NEW e \in Ends, NEW loud, NEW tm, tm = Closed(tn, t, e, loud),
           tn[t][e].open
    PROVE  \E ms, tw, s : ClosedAt(tn, tm, t, e, ms, tw, s)
<1>1. PICK a : a = IF loud /\ ~tn[t][e].ended THEN <<<<"abort", 0>>>> ELSE << >>
  OBVIOUS
<1>2. PICK ms : ms = a \o <<<<"fin", 0>>>>
  OBVIOUS
<1>a. PICK r1 \in Recs : r1 = <<"abort", 0>>
  <2>1. PICK k \in Kinds : k = "abort"
    BY DEF Kinds
  <2>2. PICK z \in Nat : z = 0
    OBVIOUS
  <2>3. PICK r : r = <<k, z>>
    OBVIOUS
  <2>4. r \in Recs
    BY <2>3, RecIs
  <2> QED BY <2>1, <2>2, <2>3, <2>4
<1>b. PICK r2 \in Recs : r2 = <<"fin", 0>>
  <2>1. PICK k \in Kinds : k = "fin"
    BY DEF Kinds
  <2>2. PICK z \in Nat : z = 0
    OBVIOUS
  <2>3. PICK r : r = <<k, z>>
    OBVIOUS
  <2>4. r \in Recs
    BY <2>3, RecIs
  <2> QED BY <2>1, <2>2, <2>3, <2>4
<1>3. a \in Seq({r1, r2}) /\ <<r2>> \in Seq({r1, r2})
  BY <1>1, <1>a
<1>4. ms \in Seq({r1, r2})
  BY <1>2, <1>3, <1>b, Joined
<1>c. Lets(ms)
  <2>1. ms \in Seq(Recs)
    BY <1>4
  <2>2. \A i \in 1..Len(ms) : ms[i] \in {r1, r2}
    BY <1>4
  <2> QED BY <2>1, <2>2, <1>a, <1>b DEF Lets
<1>5. PICK tw : tw = Written(tn, t, e, ms)
  OBVIOUS
<1>6. Sides(tw) /\ tw[t][e] = tn[t][e]
  BY <1>5, <1>c, WrittenGrows DEF Grows, Lets
<1>7. t # 0
  BY DEF Tunnels
<1>8. tm = [tw EXCEPT ![t][e].open = FALSE, ![t][e].in = << >>, ![t][e].wake = FALSE]
  BY <1>1, <1>2, <1>5, <1>7 DEF Closed
<1>9. PICK s : s = [tw[t][e] EXCEPT !.open = FALSE, !.in = << >>, !.wake = FALSE]
  OBVIOUS
<1>10. DOMAIN tw = Tunnels /\ DOMAIN tw[t] = Ends /\ DOMAIN tw[t][e] = sideFields
  BY <1>6 DEF Sides
<1>11. tm = [tw EXCEPT ![t][e] = s]
  BY <1>8, <1>9, <1>10
<1>12. DOMAIN s = sideFields /\ s.open = FALSE /\ s.in = << >> /\ s.wake = FALSE
  BY <1>9, <1>10 DEF sideFields
<1>13. Same(tn[t][e], s, {"open", "in", "wake"})
  BY <1>6, <1>9, <1>10 DEF Same
<1>14. SideSet(tw, tm, t, e, s)
  <2>1. s.in \in Seq(Recs)
    BY <1>12
  <2> QED BY <1>6, <1>11, <1>12, <2>1, SideIs
<1>15. ClosedAt(tn, tm, t, e, ms, tw, s)
  BY <1>5, <1>c, <1>12, <1>13, <1>14 DEF ClosedAt
<1> QED BY <1>15

LEMMA ClosedGrows ==
    ASSUME NEW tn, Sides(tn), NEW t \in Tunnels \cup {0}, NEW e \in Ends, NEW loud
    PROVE  Grows(tn, Closed(tn, t, e, loud))
<1>1. CASE t = 0 \/ ~tn[t][e].open
  BY <1>1, GrowsNot DEF Closed
<1>2. CASE t \in Tunnels /\ tn[t][e].open
  <2>1. PICK tm : tm = Closed(tn, t, e, loud)
    OBVIOUS
  <2>2. PICK ms, tw, s : ClosedAt(tn, tm, t, e, ms, tw, s)
    BY <1>2, <2>1, ClosedIs
  <2>3. Grows(tn, tw)
    BY <1>2, <2>2, WrittenGrows DEF ClosedAt, Lets
  <2>4. Grows(tw, tm)
    BY <1>2, <2>2, SideGrows DEF ClosedAt
  <2> QED BY <2>1, <2>3, <2>4, GrowsTwice
<1> QED BY <1>1, <1>2

\* A side that changes in no more than what is queued, and what has ended, stays as open as it was.
LEMMA SideKeeps ==
    ASSUME NEW tn, Sides(tn), NEW t \in Tunnels, NEW e \in Ends, NEW s, NEW tm, tm = [tn EXCEPT ![t][e] = s],
           Same(tn[t][e], s, {"in", "ended", "rended", "served"}), s.in \in Seq(Recs)
    PROVE  SideSet(tn, tm, t, e, s) /\ Grows(tn, tm)
<1>1. DOMAIN s = sideFields /\ s.open = tn[t][e].open /\ s.wake = tn[t][e].wake
  BY DEF Same, Sides, sideFields
<1>2. SideSet(tn, tm, t, e, s)
  BY <1>1, SideIs
<1> QED BY <1>1, <1>2, SideGrows

\* A record is taken.
LEMMA PoppedIs ==
    ASSUME Sides(tun), NEW t \in Tunnels, NEW e \in Ends, tun[t][e].in # << >>
    PROVE  /\ Grows(tun, Popped(t, e)) /\ Head1(t, e) \in Recs
           /\ \E s : /\ SideSet(tun, Popped(t, e), t, e, s) /\ Same(tun[t][e], s, {"in"})
                     /\ s.in = Tail(tun[t][e].in)
<1>1. PICK q \in Seq(Recs) : q = tun[t][e].in
  BY DEF Sides
<1>2. Tail(q) \in Seq(Recs) /\ Head(q) \in Recs
  BY <1>1
<1>3. PICK s : s = [tun[t][e] EXCEPT !.in = Tail(q)]
  OBVIOUS
<1>4. DOMAIN tun[t][e] = sideFields
  BY DEF Sides
<1>5. s.in = Tail(q) /\ Same(tun[t][e], s, {"in"})
  BY <1>3, <1>4 DEF Same, sideFields
<1>6. PICK tm : tm = Popped(t, e)
  OBVIOUS
<1>7. tm = [tun EXCEPT ![t][e] = s]
  BY <1>1, <1>3, <1>6 DEF Popped, Sides
<1>8. Same(tun[t][e], s, {"in", "ended", "rended", "served"})
  BY <1>5 DEF Same
<1>9. SideSet(tun, tm, t, e, s) /\ Grows(tun, tm)
  BY <1>2, <1>5, <1>7, <1>8, SideKeeps
<1>10. Head1(t, e) \in Recs
  BY <1>1, <1>2 DEF Head1
<1> QED BY <1>1, <1>5, <1>6, <1>9, <1>10

LEMMA ServedGrows ==
    ASSUME NEW tn, Sides(tn), NEW t \in Tunnels, NEW e \in Ends, NEW f
    PROVE  /\ Grows(tn, Served(tn, f, e, t))
           /\ \E s : SideSet(tn, Served(tn, f, e, t), t, e, s) /\ Same(tn[t][e], s, {"served"})
<1>1. PICK b : b = (Replay /\ f.dlEnded)
  OBVIOUS
<1>2. PICK s : s = [tn[t][e] EXCEPT !.served = b]
  OBVIOUS
<1>3. DOMAIN tn[t][e] = sideFields /\ tn[t][e].in \in Seq(Recs)
  BY DEF Sides
<1>4. Same(tn[t][e], s, {"served"}) /\ s.in = tn[t][e].in
  BY <1>2, <1>3 DEF Same, sideFields
<1>5. PICK tm : tm = Served(tn, f, e, t)
  OBVIOUS
<1>6. tm = [tn EXCEPT ![t][e] = s]
  BY <1>1, <1>2, <1>5 DEF Served, Sides
<1>7. Same(tn[t][e], s, {"in", "ended", "rended", "served"})
  BY <1>4 DEF Same
<1>8. SideSet(tn, tm, t, e, s) /\ Grows(tn, tm)
  BY <1>3, <1>4, <1>6, <1>7, SideKeeps
<1> QED BY <1>4, <1>5, <1>8

LEMMA BothEndedGrows ==
    ASSUME NEW tn, Sides(tn), NEW t \in Tunnels, NEW e \in Ends
    PROVE  Grows(tn, BothEnded(tn, t, e))
<1>1. Grows(tn, Closed(tn, t, e, FALSE))
  BY ClosedGrows
<1> QED BY <1>1, GrowsNot DEF BothEnded, Dropped

\* END is written: the write, the mark, and the close if both directions have ended.
EndedAt(tn, t, e, tw, tm, s) ==
    /\ tw = Written(tn, t, e, <<<<"end", 0>>>>) /\ SideSet(tw, tm, t, e, s) /\ Same(tn[t][e], s, {"ended"})

LEMMA EndWrittenIs ==
    ASSUME NEW tn, Sides(tn), NEW t \in Tunnels, NEW e \in Ends, ~tn[t][e].ended
    PROVE  \E tw, tm, s : /\ EndedAt(tn, t, e, tw, tm, s) /\ Grows(tn, tw) /\ Grows(tn, tm)
                          /\ EndWritten(tn, t, e) = BothEnded(tm, t, e)
<1>1. PICK k \in Kinds : k = "end"
  BY DEF Kinds
<1>2. PICK z \in Nat : z = 0
  OBVIOUS
<1>3. <<<<k, z>>>> \in Seq(Recs)
  BY RecIs
<1>4. PICK ms \in Seq(Recs) : ms = <<<<"end", 0>>>>
  BY <1>1, <1>2, <1>3
<1>5. PICK tw : tw = Written(tn, t, e, ms)
  OBVIOUS
<1>6. Grows(tn, tw) /\ tw[t][e] = tn[t][e]
  BY <1>4, <1>5, WrittenGrows
<1>7. Sides(tw)
  BY <1>6 DEF Grows
<1>8. PICK s : s = [tw[t][e] EXCEPT !.ended = TRUE]
  OBVIOUS
<1>9. DOMAIN tw[t][e] = sideFields /\ tw[t][e].in \in Seq(Recs)
  BY <1>7 DEF Sides
<1>10. Same(tw[t][e], s, {"ended"}) /\ s.in = tw[t][e].in
  BY <1>8, <1>9 DEF Same, sideFields
<1>11. PICK tm : tm = [tw EXCEPT ![t][e] = s]
  OBVIOUS
<1>12. Same(tw[t][e], s, {"in", "ended", "rended", "served"})
  BY <1>10 DEF Same
<1>13. SideSet(tw, tm, t, e, s) /\ Grows(tw, tm)
  BY <1>7, <1>9, <1>10, <1>11, <1>12, SideKeeps
<1>14. Grows(tn, tm)
  BY <1>6, <1>13, GrowsTwice
<1>15. tm = [tw EXCEPT ![t][e].ended = TRUE]
  BY <1>7, <1>8, <1>11 DEF Sides
<1>16. EndWritten(tn, t, e) = BothEnded(tm, t, e)
  BY <1>4, <1>5, <1>15 DEF EndWritten
<1>17. EndedAt(tn, t, e, tw, tm, s)
  BY <1>4, <1>5, <1>6, <1>10, <1>13 DEF EndedAt
<1> QED BY <1>6, <1>14, <1>16, <1>17

LEMMA EndWrittenGrows ==
    ASSUME NEW tn, Sides(tn), NEW t \in Tunnels, NEW e \in Ends
    PROVE  Grows(tn, EndWritten(tn, t, e))
<1>1. CASE tn[t][e].ended
  BY <1>1, GrowsNot DEF EndWritten
<1>2. CASE ~tn[t][e].ended
  <2>1. PICK tw, tm, s : /\ EndedAt(tn, t, e, tw, tm, s) /\ Grows(tn, tw) /\ Grows(tn, tm)
                         /\ EndWritten(tn, t, e) = BothEnded(tm, t, e)
    BY <1>2, EndWrittenIs
  <2>2. Grows(tm, BothEnded(tm, t, e))
    BY <2>1, BothEndedGrows DEF Grows
  <2> QED BY <2>1, <2>2, GrowsTwice
<1> QED BY <1>1, <1>2

\* The tunnels of a flow are let go.
LEMMA SuspendTunGrows ==
    ASSUME NEW tn, Sides(tn), NEW f, f.cur \in Tunnels \cup {0}, f.next \in Tunnels \cup {0}, NEW e \in Ends
    PROVE  Grows(tn, SuspendTun(tn, f, e))
<1>1. PICK tm : tm = Closed(tn, f.cur, e, FALSE)
  OBVIOUS
<1>2. Grows(tn, tm)
  BY <1>1, ClosedGrows
<1>3. Grows(tm, Closed(tm, f.next, e, FALSE))
  <2>1. Sides(tm)
    BY <1>2 DEF Grows
  <2> QED BY <2>1, ClosedGrows
<1>4. Grows(tn, Closed(tm, f.next, e, FALSE))
  BY <1>2, <1>3, GrowsTwice
<1> QED BY <1>1, <1>4, GrowsNot DEF SuspendTun, Dropped

LEMMA AbortTunGrows ==
    ASSUME NEW tn, Sides(tn), NEW f, f.cur \in Tunnels \cup {0}, f.next \in Tunnels \cup {0}, NEW e \in Ends, NEW loud
    PROVE  Grows(tn, AbortTun(tn, f, e, loud))
<1>1. PICK tm : tm = Closed(tn, f.cur, e, loud)
  OBVIOUS
<1>2. Grows(tn, tm)
  BY <1>1, ClosedGrows
<1>3. Grows(tm, Closed(tm, f.next, e, loud))
  <2>1. Sides(tm)
    BY <1>2 DEF Grows
  <2> QED BY <2>1, ClosedGrows
<1>4. Grows(tn, Closed(tm, f.next, e, loud))
  BY <1>2, <1>3, GrowsTwice
<1> QED BY <1>1, <1>4, GrowsNot DEF AbortTun

-----------------------------------------------------------------------------
(* The invariant.                                                           *)

DeadIn(tn, c, e) == {t \in Tunnels : t \in c \/ ~tn[t][e].open \/ ~tn[t][Peer(e)].open}
WokenIn(tn, e)   == {t \in Tunnels : tn[t][e].wake \/ ~tn[t][e].open}

EndOK(e) == EndInv(flow[e], DeadIn(tun, cut, e), WokenIn(tun, e), used)
FlowInv ==
    /\ DOMAIN flow = Ends /\ Sides(tun) /\ used \in Tunnels /\ moves \in Nat
    /\ \A e \in Ends : EndOK(e)

\* More tunnels that are dead or woken change nothing, nor do tunnels opened since.
LEMMA MoreDead ==
    ASSUME NEW f, NEW D, NEW W, NEW u \in Nat, EndInv(f, D, W, u), NEW C, NEW V, NEW v \in Nat, u <= v,
           \A t \in 1..u : (t \in D => t \in C) /\ (t \in W => t \in V)
    PROVE  EndInv(f, C, V, v)
<1>1. Located(f, v)
  BY DEF EndInv, Located
<1>2. f.dl.src \in 1..u /\ f.upDst \in 1..u
  BY DEF EndInv, Located
<1>3. CASE Running(f)
  <2>1. DlWoken(f, V)
    BY <1>2, <1>3 DEF EndInv, Ctl, DlWoken
  <2>2. AckOK(f, C)
    BY <1>2, <1>3 DEF EndInv, Ctl, AckOK
  <2> QED BY <1>1, <1>3, <2>1, <2>2 DEF EndInv, Ctl
<1>4. CASE ~Running(f)
  BY <1>1, <1>4 DEF EndInv
<1> QED BY <1>3, <1>4

\* The scenario does not change: what holds of one end's state holds of it next.
LEMMA NextIs ==
    ASSUME sc' = sc, NEW e \in Ends, NEW g, NEW D, NEW W, NEW u, EndInv(g, D, W, u),
           flow'[e] = g, DeadIn(tun, cut, e)' = D, WokenIn(tun, e)' = W, used' = u
    PROVE  EndOK(e)'
<1>1. Made(flow[e])' /\ Counts(flow[e])' /\ Located(flow[e], used)'
  BY DEF EndInv, Made, Counts, Located, Atts
<1>2. Running(flow[e])' = Running(g)
  BY DEF Running
<1>3. CASE Running(g)
  <2>1. Reserving(flow[e])' /\ UpWoken(flow[e])' /\ ParkedIs(flow[e])' /\ Settling(flow[e])' /\ UpPlace(flow[e])' /\ DlPlace(flow[e])'
    BY <1>3 DEF EndInv, Ctl, Reserving, Freezing, UpWoken, freeze, ParkedIs, Settling, Settles, Parked, UpPlace, DlPlace
  <2>2. DlWoken(flow[e], WokenIn(tun, e))' /\ AckOK(flow[e], DeadIn(tun, cut, e))'
    BY <1>3 DEF EndInv, Ctl, DlWoken, Swapping, dlBytes, AckOK, Unacked, Replay
  <2> QED BY <1>1, <1>2, <1>3, <2>1, <2>2 DEF EndOK, EndInv, Ctl
<1>4. CASE ~Running(g)
  BY <1>1, <1>2, <1>4 DEF EndOK, EndInv, Stopped
<1> QED BY <1>3, <1>4

\* A step of one end: the other is left alone.
Stepped(e, g, tm) ==
    flow' = [flow EXCEPT ![e] = g] /\ tun' = tm /\ cut' = cut /\ used' = used /\ moves' = moves /\ sc' = sc

LEMMA StepKeeps ==
    ASSUME FlowInv, NEW e \in Ends, NEW g, NEW tm, Stepped(e, g, tm), Sides(tm),
           EndInv(g, DeadIn(tm, cut, e), WokenIn(tm, e), used),
           \A t \in Tunnels : /\ tm[t][e].open => tun[t][e].open
                              /\ tm[t][Peer(e)].open => tun[t][Peer(e)].open
                              /\ tun[t][Peer(e)].wake => tm[t][Peer(e)].wake \/ ~tm[t][Peer(e)].open
    PROVE  FlowInv'
<1>1. /\ DOMAIN flow' = Ends /\ flow'[e] = g /\ \A x \in Ends : x # e => flow'[x] = flow[x]
      /\ tun' = tm /\ cut' = cut /\ used' = used /\ moves' = moves /\ sc' = sc
  BY DEF FlowInv, Stepped
<1>2. EndOK(e)'
  BY <1>1, NextIs
<1>3. PICK p \in Ends : p = Peer(e) /\ p # e /\ Peer(p) = e
  BY PeerIs
<1>4. EndInv(flow[p], DeadIn(tun, cut, p), WokenIn(tun, p), used) /\ used \in Nat
  BY DEF FlowInv, EndOK, Tunnels
<1>5. EndInv(flow[p], DeadIn(tm, cut, p), WokenIn(tm, p), used)
  <2>1. \A t \in 1..used : /\ t \in DeadIn(tun, cut, p) => t \in DeadIn(tm, cut, p)
                           /\ t \in WokenIn(tun, p) => t \in WokenIn(tm, p)
    BY <1>3 DEF DeadIn, WokenIn
  <2> QED BY <1>4, <2>1, MoreDead
<1>6. EndOK(p)'
  BY <1>1, <1>3, <1>5, NextIs
<1>7. \A x \in Ends : x = e \/ x = p
  BY <1>3 DEF Ends
<1> QED BY <1>1, <1>2, <1>6, <1>7 DEF FlowInv

\* The usual case: the end keeps its invariant, and sides are only closed.
LEMMA StepGrows ==
    ASSUME FlowInv, NEW e \in Ends, NEW g, NEW tm, Stepped(e, g, tm), Grows(tun, tm),
           EndInv(g, DeadIn(tun, cut, e), WokenIn(tun, e), used)
    PROVE  FlowInv'
<1>1. used \in Nat
  BY DEF FlowInv, Tunnels
<1>2. \A t \in 1..used : /\ t \in DeadIn(tun, cut, e) => t \in DeadIn(tm, cut, e)
                         /\ t \in WokenIn(tun, e) => t \in WokenIn(tm, e)
  BY PeerIs DEF DeadIn, WokenIn, Grows
<1>3. EndInv(g, DeadIn(tm, cut, e), WokenIn(tm, e), used)
  BY <1>1, <1>2, MoreDead
<1> QED BY <1>3, PeerIs, StepKeeps DEF Grows

-----------------------------------------------------------------------------
(* The steps of the pumps, of the acknowledgements and of the goroutines    *)
(* that end a flow.                                                         *)

\* What g would have to satisfy to be the state of end e, the tunnels as they are.
Holds(e, g) == EndInv(g, DeadIn(tun, cut, e), WokenIn(tun, e), used)

\* What the invariant says of one end.
LEMMA EndIs ==
    ASSUME FlowInv, NEW e \in Ends
    PROVE  /\ Holds(e, flow[e]) /\ used \in Nat /\ Sides(tun) /\ Grows(tun, tun) /\ 1..used \subseteq Tunnels
           /\ flow[e].up.dst \in Tunnels /\ flow[e].dl.src \in Tunnels /\ flow[e].upDst \in Tunnels
           /\ (flow[e].up.pc # "done" \/ flow[e].dl.pc # "done" => Running(flow[e]))
<1>1. Holds(e, flow[e]) /\ used \in Nat /\ used <= MaxTunnels /\ Sides(tun)
  BY SwapperAssumption DEF FlowInv, EndOK, Holds, Tunnels
<1>2. 1..used \subseteq Tunnels
  BY <1>1, SwapperAssumption DEF Tunnels
<1>3. flow[e].up.dst \in 1..used /\ flow[e].dl.src \in 1..used /\ flow[e].upDst \in 1..used
  BY <1>1 DEF Holds, EndInv, Located
<1>4. flow[e].up.pc # "done" \/ flow[e].dl.pc # "done" => Running(flow[e])
  BY <1>1 DEF Holds, EndInv, Stopped
<1> QED BY <1>1, <1>2, <1>3, <1>4, GrowsNot

\* The tunnels a flow is on.
LEMMA OnTunnels ==
    ASSUME FlowInv, NEW e \in Ends, NEW g, Holds(e, g)
    PROVE  /\ g.cur \in Tunnels \cup {0} /\ g.next \in Tunnels \cup {0} /\ g.up.dst \in Tunnels
           /\ g.dl.src \in Tunnels /\ g.upDst \in Tunnels /\ g.resumeConn \in Tunnels \cup {0}
           /\ g.ack.c \in Tunnels \cup {0} /\ (g.ack.pc # "idle" => g.ack.c \in Tunnels)
           /\ (g.up.pc = "replay" => g.resumeConn \in Tunnels)
<1>1. 1..used \subseteq Tunnels /\ used \in Nat
  BY EndIs
<1>2. Located(g, used)
  BY DEF Holds, EndInv
<1> QED BY <1>1, <1>2 DEF Located

LEMMA HoldsNow ==
    ASSUME FlowInv, NEW e \in Ends, NEW g, NEW tm, Holds(e, g), Grows(tun, tm), Step(e, g, tm)
    PROVE  FlowInv'
BY StepGrows DEF Holds, Step, Stepped

\* Abort() of a flow, whatever was done before it in the same step.
LEMMA AbortKeeps ==
    ASSUME FlowInv, NEW e \in Ends, NEW g, Holds(e, g), NEW tn, Grows(tun, tn), NEW why, why # "no",
           Abort(e, g, tn, why)
    PROVE  FlowInv'
<1>1. PICK loud \in BOOLEAN : Step(e, Aborted(g, why), AbortTun(tn, g, e, loud))
  BY DEF Abort
<1>2. CASE ~Running(g)
  <2>1. Step(e, g, tn)
    BY <1>1, <1>2 DEF Aborted, AbortTun
  <2> QED BY <2>1, HoldsNow
<1>3. CASE Running(g)
  <2>1. Holds(e, Aborted(g, why))
    BY <1>3, EndIs, AbortedKeeps DEF Holds
  <2>2. Grows(tn, AbortTun(tn, g, e, loud))
    BY OnTunnels, AbortTunGrows DEF Grows
  <2>3. Grows(tun, AbortTun(tn, g, e, loud))
    BY <2>2, GrowsTwice
  <2> QED BY <1>1, <2>1, <2>3, HoldsNow
<1> QED BY <1>2, <1>3

\* Suspend() of a flow that runs.
LEMMA SuspendIs ==
    ASSUME FlowInv, NEW e \in Ends, NEW g, Holds(e, g), Running(g), NEW tn, Grows(tun, tn)
    PROVE  /\ Holds(e, Suspended(g)) /\ Grows(tun, SuspendTun(tn, g, e))
           /\ Running(Suspended(g)) /\ Suspended(g).suspended
<1>1. CASE g.suspended
  BY <1>1 DEF Suspended, SuspendTun
<1>2. CASE ~g.suspended
  <2>1. Holds(e, Suspended(g))
    BY <1>2, EndIs, SuspendedKeeps DEF Holds
  <2>2. Grows(tn, SuspendTun(tn, g, e))
    BY OnTunnels, SuspendTunGrows DEF Grows
  <2>3. Grows(tun, SuspendTun(tn, g, e))
    BY <2>2, GrowsTwice
  <2>4. DOMAIN g = flowFields
    BY DEF Holds, EndInv, Made
  <2>5. Suspended(g).suspended = TRUE /\ Suspended(g).aborted = g.aborted /\ Suspended(g).done = g.done
    BY <1>2, <2>4 DEF Suspended, Released, flowFields
  <2> QED BY <2>1, <2>3, <2>5 DEF Running
<1> QED BY <1>1, <1>2

LEMMA SuspendKeeps ==
    ASSUME FlowInv, NEW e \in Ends, NEW g, Holds(e, g), Running(g), NEW tn, Grows(tun, tn),
           Step(e, Suspended(g), SuspendTun(tn, g, e))
    PROVE  FlowInv'
BY SuspendIs, HoldsNow

LEMMA SuspendOrAbortKeeps ==
    ASSUME FlowInv, NEW e \in Ends, NEW g, Holds(e, g), NEW tn, Grows(tun, tn), NEW why, why # "no",
           SuspendOrAbort(e, g, tn, why)
    PROVE  FlowInv'
<1>1. CASE CanSuspend(g)
  BY <1>1, SuspendKeeps DEF SuspendOrAbort, CanSuspend
<1>2. CASE ~CanSuspend(g)
  BY <1>2, AbortKeeps DEF SuspendOrAbort
<1> QED BY <1>1, <1>2

\* One record of a known kind.
LEMMA RecordsAre == \A k \in Kinds, n \in Nat : <<<<k, n>>>> \in Seq(Recs)
BY RecIs

LEMMA KindsAre ==
    \A n \in Nat : /\ <<<<"data", n>>>> \in Seq(Recs) /\ <<<<"ack", n>>>> \in Seq(Recs) /\ <<<<"ackend", n>>>> \in Seq(Recs)
                   /\ <<<<"accept", n>>>> \in Seq(Recs) /\ <<<<"busy", n>>>> \in Seq(Recs)
                   /\ <<<<"unknown", n>>>> \in Seq(Recs) /\ <<<<"count", n>>>> \in Seq(Recs)
                   /\ <<<<"move", n>>>> \in Seq(Recs) /\ <<<<"resume", n>>>> \in Seq(Recs)
BY RecordsAre DEF Kinds

\* The upload pump at its boundary.
LEMMA UpBoundaryKeeps == ASSUME FlowInv, NEW e \in Ends, UpBoundary(e) PROVE FlowInv'
<1>1. PICK f : f = flow[e]
  OBVIOUS
<1>2. Holds(e, f) /\ Grows(tun, tun) /\ used \in Nat /\ Running(f) /\ f.up.pc = "run"
  BY <1>1, EndIs DEF UpBoundary
<1>3. CASE f.suspended /\ Step(e, UpParked(f), tun)
  <2>1. Holds(e, UpParked(f))
    BY <1>2, <1>3, UpParkedKeeps DEF Holds
  <2> QED BY <1>2, <1>3, <2>1, HoldsNow
<1>4. CASE ~f.suspended /\ freeze(f) /\ Step(e, [Frozen(e, f) EXCEPT !.readDl = FALSE, !.up.pc = "frozen"], tun)
  <2>1. Holds(e, [Frozen(e, f) EXCEPT !.readDl = FALSE, !.up.pc = "frozen"])
    BY <1>2, <1>4, BoundaryKeeps DEF Holds
  <2> QED BY <1>2, <1>4, <2>1, HoldsNow
<1> QED BY <1>1, <1>3, <1>4 DEF UpBoundary

\* The upload pump retains a byte and writes it.
LEMMA UpSendKeeps == ASSUME FlowInv, NEW e \in Ends, UpSend(e) PROVE FlowInv'
<1>1. PICK f : f = flow[e]
  OBVIOUS
<1>2. Holds(e, f) /\ Grows(tun, tun) /\ used \in Nat /\ Running(f) /\ f.up.pc \in {"run", "full"}
  BY <1>1, EndIs DEF UpSend, PastBoundary
<1>3. PICK g : g = WithByte(f)
  OBVIOUS
<1>4. Holds(e, g)
  BY <1>2, <1>3, WithByteKeeps DEF Holds
<1>5. DOMAIN f = flowFields /\ DOMAIN f.up = upFields
  BY <1>2 DEF Holds, EndInv, Made
<1>6. g.up.pc = f.up.pc /\ g.aborted = f.aborted /\ g.done = f.done /\ g.up.dst = f.up.dst
  BY <1>3, <1>5 DEF WithByte, flowFields, upFields
<1>7. Running(g)
  BY <1>2, <1>6 DEF Running
<1>8. PICK n : n = IF Replay THEN g.end + 1 ELSE g.end
  OBVIOUS
<1>9. g.end \in Nat /\ g.upBytes \in Nat /\ g.up.pend \in Nat
  BY <1>4 DEF Holds, EndInv, Counts
<1>10. n \in Nat /\ n >= g.end
  BY <1>8, <1>9
<1>11. PICK k : k = [g EXCEPT !.up.pend = 0, !.up.pc = "run", !.end = n]
  OBVIOUS
<1>12. Holds(e, k)
  BY <1>2, <1>4, <1>6, <1>7, <1>10, <1>11, RetainedKeeps DEF Holds
<1>13. k = [g EXCEPT !.up.pend = 0, !.up.pc = "run", !.end = IF Replay THEN @ + 1 ELSE @]
  BY <1>8, <1>11
<1>14. CASE Step(e, [k EXCEPT !.upBytes = @ + 1], Written(tun, g.up.dst, e, <<<<"data", g.up.pend>>>>))
  <2>1. k.upBytes = g.upBytes /\ DOMAIN k = flowFields
    <3>1. DOMAIN g = flowFields
      BY <1>4 DEF Holds, EndInv, Made
    <3> QED BY <1>11, <3>1 DEF flowFields
  <2>2. k.upBytes + 1 \in Nat
    BY <1>9, <2>1
  <2>3. PICK m \in Nat : m = k.upBytes + 1
    BY <2>2
  <2>4. PICK h : h = [k EXCEPT !.upBytes = m]
    OBVIOUS
  <2>5. Holds(e, h)
    BY <1>2, <1>12, <2>4, SentKeeps DEF Holds
  <2>6. PICK tm : tm = Written(tun, g.up.dst, e, <<<<"data", g.up.pend>>>>)
    OBVIOUS
  <2>7. Grows(tun, tm)
    BY <1>1, <1>6, <1>9, <2>6, EndIs, KindsAre, WrittenGrows
  <2>8. Step(e, h, tm)
    BY <1>14, <2>3, <2>4, <2>6
  <2> QED BY <2>5, <2>7, <2>8, HoldsNow
<1>15. CASE SuspendOrAbort(e, k, tun, "tunnel")
  BY <1>2, <1>12, <1>15, SuspendOrAbortKeeps
<1> QED BY <1>1, <1>3, <1>13, <1>14, <1>15 DEF UpSend

\* The upload pump waits for room in the ring, or no longer.
LEMMA UpFullKeeps == ASSUME FlowInv, NEW e \in Ends, UpFull(e) PROVE FlowInv'
<1>1. PICK f : f = flow[e]
  OBVIOUS
<1>2. Holds(e, f) /\ Grows(tun, tun) /\ used \in Nat /\ Running(f) /\ f.up.pc \in {"run", "full"}
  BY <1>1, EndIs DEF UpFull, PastBoundary
<1>3. CASE Step(e, [WithByte(f) EXCEPT !.up.pc = "full"], tun)
  <2>1. PICK g : g = WithByte(f)
    OBVIOUS
  <2>2. Holds(e, g)
    BY <1>2, <2>1, WithByteKeeps DEF Holds
  <2>3. DOMAIN f = flowFields /\ DOMAIN f.up = upFields
    BY <1>2 DEF Holds, EndInv, Made
  <2>4. g.up.pc = f.up.pc /\ g.aborted = f.aborted /\ g.done = f.done
    BY <2>1, <2>3 DEF WithByte, flowFields, upFields
  <2>5. Holds(e, [g EXCEPT !.up.pc = "full"])
    BY <1>2, <2>2, <2>4, UpMovesKeep DEF Holds, Running
  <2> QED BY <1>2, <1>3, <2>1, <2>5, HoldsNow
<1>4. CASE Step(e, [f EXCEPT !.up.pc = "run"], tun)
  <2>1. Holds(e, [f EXCEPT !.up.pc = "run"])
    BY <1>2, UpMovesKeep DEF Holds
  <2> QED BY <1>2, <1>4, <2>1, HoldsNow
<1> QED BY <1>1, <1>3, <1>4 DEF UpFull

\* The app's EOF.
LEMMA UpEOFKeeps == ASSUME FlowInv, NEW e \in Ends, UpEOF(e) PROVE FlowInv'
<1>1. PICK f : f = flow[e]
  OBVIOUS
<1>2. Holds(e, f) /\ Grows(tun, tun) /\ used \in Nat /\ Running(f) /\ f.up.pc = "run"
  BY <1>1, EndIs DEF UpEOF, PastBoundary
<1>3. Holds(e, [f EXCEPT !.upEnded = TRUE, !.up.pc = "end"])
  BY <1>2, EOFKeeps DEF Holds
<1> QED BY <1>1, <1>2, <1>3, HoldsNow DEF UpEOF

\* The EOF goes to the tunnel.
LEMMA UpEndKeeps == ASSUME FlowInv, NEW e \in Ends, UpEnd(e) PROVE FlowInv'
<1>1. PICK f : f = flow[e]
  OBVIOUS
<1>2. Holds(e, f) /\ Grows(tun, tun) /\ used \in Nat /\ Running(f) /\ f.up.pc = "end"
  BY <1>1, EndIs DEF UpEnd
<1>3. PICK g : g = [f EXCEPT !.up.pc = "done"]
  OBVIOUS
<1>4. Holds(e, g)
  BY <1>2, <1>3, OverKeeps DEF Holds
<1>5. CASE Step(e, g, EndWritten(tun, f.up.dst, e))
  <2>1. Grows(tun, EndWritten(tun, f.up.dst, e))
    BY <1>1, EndIs, EndWrittenGrows
  <2> QED BY <1>4, <1>5, <2>1, HoldsNow
<1>6. CASE Step(e, Suspended(g), SuspendTun(tun, f, e))
  <2>1. DOMAIN f = flowFields
    BY <1>2 DEF Holds, EndInv, Made
  <2>2. g.suspended = f.suspended /\ g.cur = f.cur /\ g.next = f.next /\ g.aborted = f.aborted /\ g.done = f.done
    BY <1>3, <2>1 DEF flowFields
  <2>3. SuspendTun(tun, g, e) = SuspendTun(tun, f, e)
    BY <2>2 DEF SuspendTun
  <2> QED BY <1>2, <1>4, <1>6, <2>2, <2>3, SuspendKeeps DEF Running
<1>7. CASE Step(e, g, tun)
  BY <1>2, <1>4, <1>7, HoldsNow
<1> QED BY <1>1, <1>3, <1>5, <1>6, <1>7 DEF UpEnd

\* The pump leaves its freeze.
LEMMA UpWakeKeeps == ASSUME FlowInv, NEW e \in Ends, UpWake(e) PROVE FlowInv'
<1>1. PICK f : f = flow[e]
  OBVIOUS
<1>2. Holds(e, f) /\ Grows(tun, tun) /\ used \in Nat /\ Running(f) /\ f.up.pc = "wake"
  BY <1>1, EndIs DEF UpWake
<1>3. CASE f.suspended
  <2>1. Holds(e, UpParked(f))
    BY <1>2, <1>3, UpParkedKeeps DEF Holds
  <2> QED BY <1>1, <1>2, <1>3, <2>1, HoldsNow DEF UpWake
<1>4. CASE ~f.suspended /\ f.next = 0
  BY <1>1, <1>2, <1>4, AbortKeeps DEF UpWake
<1>5. CASE ~f.suspended /\ f.next # 0
  <2>1. Holds(e, [f EXCEPT !.up.dst = f.next, !.upDst = f.next, !.up.pc = "switching"])
    BY <1>2, <1>5, ToNextKeeps DEF Holds
  <2> QED BY <1>1, <1>2, <1>5, <2>1, HoldsNow DEF UpWake
<1> QED BY <1>3, <1>4, <1>5

\* The upload has switched.
LEMMA UpSwitchedStep == ASSUME FlowInv, Untorn, NEW e \in Ends, UpSwitched(e) PROVE FlowInv'
<1>1. PICK f : f = flow[e]
  OBVIOUS
<1>2. Holds(e, f) /\ Grows(tun, tun) /\ used \in Nat /\ Running(f) /\ f.up.pc = "switching" /\ ~f.suspended
  BY <1>1, EndIs DEF UpSwitched, Untorn
<1>3. Holds(e, [Switched(f, "up") EXCEPT !.up.pc = "run"])
  BY <1>2, UpSwitchedKeeps, UpCompletesKeeps DEF Holds
<1> QED BY <1>1, <1>2, <1>3, HoldsNow DEF UpSwitched

\* The records replayTo writes.
LEMMA RetainedIs == ASSUME NEW f, f.end \in Nat, NEW n \in Nat, n <= f.end PROVE Retained(f, n) \in Seq(Recs)
<1>1. PICK k \in Nat : k = f.end - n
  OBVIOUS
<1>2. \A i \in 1..k : <<"data", n + i>> \in Recs
  BY RecIs DEF Kinds
<1>3. [i \in 1..k |-> <<"data", n + i>>] \in [1..k -> Recs]
  BY <1>2
<1>4. PICK r \in [1..k -> Recs] : r = [i \in 1..k |-> <<"data", n + i>>]
  BY <1>3
<1>5. r \in Seq(Recs)
  OBVIOUS
<1>6. Retained(f, n) = r
  BY <1>1, <1>4 DEF Retained
<1> QED BY <1>5, <1>6

\* The upload is replayed to the tunnel it was resumed on.
LEMMA UpReplayKeeps == ASSUME FlowInv, NEW e \in Ends, UpReplay(e) PROVE FlowInv'
<1>1. PICK f : f = flow[e]
  OBVIOUS
<1>2. Holds(e, f) /\ Grows(tun, tun) /\ used \in Nat /\ Running(f) /\ f.up.pc = "replay"
  BY <1>1, EndIs DEF UpReplay
<1>3. f.end \in Nat /\ f.resumeFrom \in Nat /\ f.resumeFrom <= f.end
  BY <1>2 DEF Holds, EndInv, Counts
<1>4. CASE Step(e, [f EXCEPT !.upBytes = f.end, !.up.dst = f.resumeConn, !.up.pc = "run"],
                Written(tun, f.resumeConn, e, Retained(f, f.resumeFrom)))
  <2>1. Holds(e, [f EXCEPT !.upBytes = f.end, !.up.dst = f.resumeConn, !.up.pc = "run"])
    BY <1>2, ReplayedKeeps DEF Holds
  <2>2. Grows(tun, Written(tun, f.resumeConn, e, Retained(f, f.resumeFrom)))
    BY <1>2, <1>3, OnTunnels, EndIs, RetainedIs, WrittenGrows
  <2> QED BY <1>4, <2>1, <2>2, HoldsNow
<1>5. CASE Step(e, UpParked(Suspended(f)), SuspendTun(tun, f, e))
  <2>1. PICK g : g = Suspended(f)
    OBVIOUS
  <2>2. Holds(e, g) /\ Running(g) /\ g.suspended /\ Grows(tun, SuspendTun(tun, f, e))
    BY <1>2, <2>1, SuspendIs
  <2>3. DOMAIN f = flowFields /\ DOMAIN f.up = upFields
    BY <1>2 DEF Holds, EndInv, Made
  <2>4. g.up.pc = f.up.pc
    BY <1>2, <2>1, <2>3 DEF Suspended, Released, flowFields, upFields
  <2>5. Holds(e, UpParked(g))
    BY <1>2, <2>2, <2>4, UpParkedKeeps DEF Holds
  <2> QED BY <1>5, <2>1, <2>2, <2>5, HoldsNow
<1>6. CASE Abort(e, f, tun, "tunnel")
  BY <1>2, <1>6, AbortKeeps
<1> QED BY <1>1, <1>4, <1>5, <1>6 DEF UpReplay

LEMMA UploadKeeps == ASSUME FlowInv, Untorn, NEW e \in Ends, Upload(e) PROVE FlowInv'
BY UpBoundaryKeeps, UpSendKeeps, UpFullKeeps, UpEOFKeeps, UpEndKeeps, UpWakeKeeps, UpSwitchedStep, UpReplayKeeps
   DEF Upload

\* The download pump has read past the promised count.
LEMMA DlOverrunKeeps == ASSUME FlowInv, NEW e \in Ends, DlOverrun(e) PROVE FlowInv'
BY EndIs, AbortKeeps DEF DlOverrun

\* A data byte for the app.
LEMMA DlDataKeeps == ASSUME FlowInv, NEW e \in Ends, DlData(e) PROVE FlowInv'
<1>1. PICK f : f = flow[e]
  OBVIOUS
<1>2. Holds(e, f) /\ used \in Nat /\ Running(f) /\ f.dl.pc = "read" /\ f.dl.src \in Tunnels /\ Has(f.dl.src, e)
  BY <1>1, EndIs DEF DlData
<1>3. PICK tm : tm = Popped(f.dl.src, e)
  OBVIOUS
<1>4. Grows(tun, tm) /\ Head1(f.dl.src, e) \in Recs
  BY <1>2, <1>3, EndIs, PoppedIs DEF Has
<1>5. PICK b \in Nat : b = Head1(f.dl.src, e)[2]
  BY <1>4 DEF Recs
<1>6. CASE f.suspended /\ Step(e, DlParked(f), tm)
  <2>1. Holds(e, DlParked(f))
    BY <1>2, <1>6, DlParkedKeeps DEF Holds
  <2> QED BY <1>4, <1>6, <2>1, HoldsNow
<1>7. CASE Abort(e, f, tm, "app")
  BY <1>2, <1>4, <1>7, AbortKeeps
<1>8. CASE Step(e, Looked([f EXCEPT !.got = Append(@, b), !.ack.kick = Replay]), tm)
  <2>1. PICK g : g = [f EXCEPT !.got = Append(@, b), !.ack.kick = Replay]
    OBVIOUS
  <2>2. EndInv(g, DeadIn(tun, cut, e), WokenIn(tun, e) \cup {f.dl.src}, used)
    BY <1>2, <2>1, DeliveredKeeps DEF Holds
  <2>3. DOMAIN f = flowFields
    BY <1>2 DEF Holds, EndInv, Made
  <2>4. g.dl = f.dl /\ g.aborted = f.aborted /\ g.done = f.done
    BY <2>1, <2>3 DEF flowFields
  <2>5. Running(g) /\ g.dl.pc = "read"
    BY <1>2, <2>4 DEF Running
  <2>6. Holds(e, Looked(g))
    BY <1>2, <2>2, <2>5, LookedKeeps DEF Holds
  <2> QED BY <1>4, <1>8, <2>1, <2>6, HoldsNow
<1> QED BY <1>1, <1>3, <1>5, <1>6, <1>7, <1>8 DEF DlData

\* An ACK record.
LEMMA DlAckKeeps == ASSUME FlowInv, NEW e \in Ends, DlAck(e) PROVE FlowInv'
<1>1. PICK f : f = flow[e]
  OBVIOUS
<1>2. Holds(e, f) /\ used \in Nat /\ f.dl.src \in Tunnels /\ Has(f.dl.src, e)
  BY <1>1, EndIs DEF DlAck
<1>3. Grows(tun, Popped(f.dl.src, e)) /\ Head1(f.dl.src, e) \in Recs
  BY <1>2, EndIs, PoppedIs DEF Has
<1>4. PICK m \in Recs : m = Head1(f.dl.src, e)
  BY <1>3
<1>5. Holds(e, AckedBy(f, m))
  BY <1>2, AckedByKeeps DEF Holds, Recs
<1> QED BY <1>1, <1>3, <1>4, <1>5, HoldsNow DEF DlAck

\* The pump is woken on the old tunnel and looks again: it is not to be woken there again.
LEMMA DlWakeKeeps == ASSUME FlowInv, NEW e \in Ends, DlWake(e) PROVE FlowInv'
<1>1. PICK f : f = flow[e]
  OBVIOUS
<1>2. Holds(e, f) /\ used \in Nat /\ Sides(tun) /\ Running(f) /\ f.dl.pc = "read" /\ f.dl.src \in Tunnels
  BY <1>1, EndIs DEF DlWake
<1>3. PICK t \in Tunnels : t = f.dl.src
  BY <1>2
<1>4. PICK s : s = [tun[t][e] EXCEPT !.wake = FALSE]
  OBVIOUS
<1>5. DOMAIN tun[t][e] = sideFields /\ tun[t][e].in \in Seq(Recs)
  BY <1>2 DEF Sides
<1>6. DOMAIN s = sideFields /\ s.in \in Seq(Recs) /\ s.open = tun[t][e].open
  BY <1>4, <1>5 DEF sideFields
<1>7. PICK tm : tm = [tun EXCEPT ![t][e] = s]
  OBVIOUS
<1>8. SideSet(tun, tm, t, e, s)
  BY <1>2, <1>6, <1>7, SideIs
<1>9. PICK g : g = Looked(f)
  OBVIOUS
<1>10. Step(e, g, tm)
  <2>1. tm = [tun EXCEPT ![t][e].wake = FALSE]
    BY <1>2, <1>4, <1>7 DEF Sides
  <2> QED BY <1>1, <1>3, <1>9, <2>1 DEF DlWake
<1>11. EndInv(g, DeadIn(tun, cut, e), WokenIn(tm, e), used)
  BY <1>2, <1>9, LookedKeeps DEF Holds
<1>12. \A v \in Tunnels, x \in Ends : /\ tm[v][x].open = tun[v][x].open
                                      /\ x # e => tm[v][x].wake = tun[v][x].wake
  BY <1>6, <1>8 DEF SideSet
<1>13. DeadIn(tm, cut, e) = DeadIn(tun, cut, e)
  BY <1>12, PeerIs DEF DeadIn
<1>14. Sides(tm)
  BY <1>8 DEF SideSet
<1>15. Stepped(e, g, tm)
  BY <1>10 DEF Step, Stepped
<1> QED BY <1>11, <1>12, <1>13, <1>14, <1>15, PeerIs, StepKeeps

\* The download direction ends or fails.
LEMMA DlEndOrFailKeeps == ASSUME FlowInv, NEW e \in Ends, DlEndOrFail(e) PROVE FlowInv'
<1>1. PICK f : f = flow[e]
  OBVIOUS
<1>2. Holds(e, f) /\ used \in Nat /\ Sides(tun) /\ Running(f) /\ f.dl.pc = "read" /\ f.dl.src \in Tunnels
  BY <1>1, EndIs DEF DlEndOrFail
<1>3. PICK t \in Tunnels : t = f.dl.src
  BY <1>2
<1>4. PICK pc \in {"wait", "decide"} : pc = IF ~f.installed /\ f.frozen THEN "wait" ELSE "decide"
  OBVIOUS
<1>5. \A err : Holds(e, [f EXCEPT !.dl.err = err, !.dl.pc = pc])
  BY <1>2, FailedKeeps DEF Holds
<1>6. CASE \E err : Step(e, [f EXCEPT !.dl.err = err, !.dl.pc = pc], Dropped(tun, t, e))
  BY <1>2, <1>5, <1>6, ClosedGrows, HoldsNow DEF Dropped
<1>7. PICK to : to = [Popped(t, e) EXCEPT ![t][e].rended = TRUE, ![t][e].served = Replay]
  OBVIOUS
<1>8. CASE Has(t, e) /\ Step(e, [f EXCEPT !.dl.err = "eof", !.dl.pc = pc], BothEnded(to, t, e))
  <2>1. PICK tm : tm = Popped(t, e)
    OBVIOUS
  <2>2. Grows(tun, tm)
    BY <1>2, <1>8, <2>1, PoppedIs DEF Has
  <2>3. Sides(tm)
    BY <2>2 DEF Grows
  <2>4. PICK s : s = [tm[t][e] EXCEPT !.rended = TRUE, !.served = Replay]
    OBVIOUS
  <2>5. DOMAIN tm[t][e] = sideFields /\ tm[t][e].in \in Seq(Recs)
    BY <2>3 DEF Sides
  <2>6. s.in = tm[t][e].in /\ Same(tm[t][e], s, {"in", "ended", "rended", "served"})
    BY <2>4, <2>5 DEF Same, sideFields
  <2>7. to = [tm EXCEPT ![t][e] = s]
    BY <1>7, <2>1, <2>3, <2>4 DEF Sides
  <2>8. Grows(tm, to)
    BY <2>3, <2>5, <2>6, <2>7, SideKeeps
  <2>9. Grows(to, BothEnded(to, t, e))
    BY <2>8, BothEndedGrows DEF Grows
  <2>10. Grows(tun, BothEnded(to, t, e))
    BY <2>2, <2>8, <2>9, GrowsTwice
  <2> QED BY <1>5, <1>8, <2>10, HoldsNow
<1> QED BY <1>1, <1>3, <1>4, <1>6, <1>7, <1>8 DEF DlEndOrFail

\* What a failed or ended read means.
LEMMA DlDecideKeeps == ASSUME FlowInv, NEW e \in Ends, DlDecide(e) PROVE FlowInv'
<1>1. PICK f : f = flow[e]
  OBVIOUS
<1>2. Holds(e, f) /\ used \in Nat /\ Grows(tun, tun) /\ Running(f) /\ f.dl.pc = "decide"
  BY <1>1, EndIs DEF DlDecide
<1>3. PICK g : g = [f EXCEPT !.dl.err = "none"]
  OBVIOUS
<1>4. Holds(e, g)
  BY <1>2, <1>3, DecidedKeeps DEF Holds
<1>5. DOMAIN f = flowFields /\ DOMAIN f.dl = dlFields
  BY <1>2 DEF Holds, EndInv, Made
<1>6. /\ g.dl.pc = "decide" /\ g.installed = f.installed /\ g.dlSwitched = f.dlSwitched /\ g.aborted = f.aborted
      /\ g.done = f.done /\ g.suspended = f.suspended /\ g.cur = f.cur /\ g.next = f.next
  BY <1>2, <1>3, <1>5 DEF flowFields, dlFields
<1>7. Running(g) /\ Swapping(g) = Swapping(f)
  BY <1>2, <1>6 DEF Running, Swapping
<1>8. CASE Swapping(f) /\ Step(e, [g EXCEPT !.dl.pc = "switch"], tun)
  <2>1. Holds(e, [g EXCEPT !.dl.pc = "switch"])
    BY <1>2, <1>4, <1>6, <1>7, <1>8, ToSwitchKeeps DEF Holds
  <2> QED BY <1>2, <1>8, <2>1, HoldsNow
<1>9. CASE Step(e, [g EXCEPT !.dlEnded = TRUE, !.ack.kick = Replay, !.st = "eof", !.dl.pc = "done"], tun)
  <2>1. Holds(e, [g EXCEPT !.dlEnded = TRUE, !.ack.kick = Replay, !.st = "eof", !.dl.pc = "done"])
    BY <1>2, <1>4, <1>6, <1>7, DlOverKeeps DEF Holds
  <2> QED BY <1>2, <1>9, <2>1, HoldsNow
<1>10. CASE Step(e, DlParked(Suspended(g)), SuspendTun(tun, f, e))
  <2>1. PICK h : h = Suspended(g)
    OBVIOUS
  <2>2. Holds(e, h) /\ Running(h) /\ h.suspended /\ Grows(tun, SuspendTun(tun, g, e))
    BY <1>2, <1>4, <1>7, <2>1, SuspendIs
  <2>3. SuspendTun(tun, g, e) = SuspendTun(tun, f, e)
    BY <1>6 DEF SuspendTun
  <2>4. DOMAIN g = flowFields /\ DOMAIN g.dl = dlFields
    BY <1>4 DEF Holds, EndInv, Made
  <2>5. h.dl.pc = "decide"
    BY <1>6, <2>1, <2>4 DEF Suspended, Released, flowFields, dlFields
  <2>6. Holds(e, DlParked(h))
    BY <1>2, <2>2, <2>5, DlParkedKeeps DEF Holds
  <2> QED BY <1>10, <2>1, <2>2, <2>3, <2>6, HoldsNow
<1>11. CASE \E why \in {"peer", "tunnel"} : Abort(e, g, tun, why)
  BY <1>2, <1>4, <1>11, AbortKeeps
<1> QED BY <1>1, <1>3, <1>8, <1>9, <1>10, <1>11 DEF DlDecide

\* The download pump leaves the old tunnel.
LEMMA DlSwitchKeeps == ASSUME FlowInv, NEW e \in Ends, DlSwitch(e) PROVE FlowInv'
<1>1. PICK f : f = flow[e]
  OBVIOUS
<1>2. Holds(e, f) /\ Grows(tun, tun) /\ used \in Nat /\ Running(f) /\ f.dl.pc = "switch"
  BY <1>1, EndIs DEF DlSwitch
<1>3. CASE f.suspended
  <2>1. Holds(e, DlParked(f))
    BY <1>2, <1>3, DlParkedKeeps DEF Holds
  <2> QED BY <1>1, <1>2, <1>3, <2>1, HoldsNow DEF DlSwitch
<1>4. CASE ~f.suspended /\ f.next = 0
  BY <1>1, <1>2, <1>4, AbortKeeps DEF DlSwitch
<1>5. CASE ~f.suspended /\ f.next # 0
  <2>1. Holds(e, [f EXCEPT !.dl.src = f.next, !.dl.pc = "switching"])
    BY <1>2, <1>5, DlToNextKeeps DEF Holds
  <2> QED BY <1>1, <1>2, <1>5, <2>1, HoldsNow DEF DlSwitch
<1> QED BY <1>3, <1>4, <1>5

\* The download has switched.
LEMMA DlSwitchedStep == ASSUME FlowInv, Untorn, NEW e \in Ends, DlSwitched(e) PROVE FlowInv'
<1>1. PICK f : f = flow[e]
  OBVIOUS
<1>2. Holds(e, f) /\ Grows(tun, tun) /\ used \in Nat /\ Running(f) /\ f.dl.pc = "switching" /\ ~f.suspended
  BY <1>1, EndIs DEF DlSwitched, Untorn
<1>3. Holds(e, Looked(Switched(f, "dl")))
  BY <1>2, DlSwitchedKeeps, DlCompletesKeeps DEF Holds
<1> QED BY <1>1, <1>2, <1>3, HoldsNow DEF DlSwitched

LEMMA DownloadKeeps == ASSUME FlowInv, Untorn, NEW e \in Ends, Download(e) PROVE FlowInv'
BY DlOverrunKeeps, DlDataKeeps, DlAckKeeps, DlWakeKeeps, DlEndOrFailKeeps, DlDecideKeeps, DlSwitchKeeps, DlSwitchedStep
   DEF Download

\* A kick starts flushAck.
LEMMA KickAckKeeps == ASSUME FlowInv, NEW e \in Ends, KickAck(e) PROVE FlowInv'
<1>1. PICK f : f = flow[e]
  OBVIOUS
<1>2. Holds(e, f) /\ Grows(tun, tun) /\ used \in Nat
  BY <1>1, EndIs
<1>3. PICK g : g = [f EXCEPT !.ack.kick = FALSE]
  OBVIOUS
<1>4. EndInv(g, (IF f.ack.pc = "idle" THEN DeadIn(tun, cut, e) \cup {f.upDst} ELSE DeadIn(tun, cut, e)),
             WokenIn(tun, e), used)
  BY <1>2, <1>3, UnkickedKeeps DEF Holds
<1>5. DOMAIN f = flowFields /\ DOMAIN f.ack = ackFields
  BY <1>2 DEF Holds, EndInv, Made
<1>6. g.ack.pc = f.ack.pc
  BY <1>3, <1>5 DEF flowFields, ackFields
<1>7. CASE g.ack.pc = "idle"
  <2>1. PICK E : E = DeadIn(tun, cut, e) \cup {f.upDst}
    OBVIOUS
  <2>2. EndInv(g, E, WokenIn(tun, e), used)
    BY <1>4, <1>6, <1>7, <2>1
  <2>3. Holds(e, Picked(g))
    BY <1>2, <2>2, PickedKeeps DEF Holds
  <2>4. Step(e, Picked(g), tun)
    BY <1>1, <1>3, <1>7 DEF KickAck
  <2> QED BY <1>2, <2>3, <2>4, HoldsNow
<1>8. CASE g.ack.pc # "idle"
  <2>1. Holds(e, g)
    BY <1>4, <1>6, <1>8 DEF Holds
  <2>2. Step(e, g, tun)
    BY <1>1, <1>3, <1>8 DEF KickAck
  <2> QED BY <1>2, <2>1, <2>2, HoldsNow
<1> QED BY <1>7, <1>8

\* The bookkeeping once an ACK is sent: what is left gets a kick or is sent at once.
LEMMA NotedKeeps == ASSUME FlowInv, NEW e \in Ends, NEW f, Holds(e, f) PROVE Holds(e, Noted(f))
<1>1. PICK g : g = IF f.ack.fresh THEN [f EXCEPT !.ack.sent = f.ack.dl, !.ack.endSent = @ \/ f.ack.ended] ELSE f
  OBVIOUS
<1>2. PICK u \in Nat : u = used
  BY EndIs
<1>a. PICK D : D = DeadIn(tun, cut, e)
  OBVIOUS
<1>b. PICK W : W = WokenIn(tun, e)
  OBVIOUS
<1>3. EndInv(f, D, W, u)
  BY <1>2, <1>a, <1>b DEF Holds
<1>4. \E E : EndInv(g, E, W, u)
  <2>1. CASE f.ack.fresh
    <3>1. PICK b : b = (f.ack.endSent \/ f.ack.ended)
      OBVIOUS
    <3>2. PICK n \in Nat : n = f.ack.dl
      BY <1>3 DEF EndInv, Counts
    <3>3. EndInv([f EXCEPT !.ack.sent = n, !.ack.endSent = b], D \cup {f.upDst}, W, u)
      BY <1>3, NotedAckKeeps
    <3>4. g = [f EXCEPT !.ack.sent = n, !.ack.endSent = b]
      BY <1>1, <2>1, <3>1, <3>2
    <3> QED BY <3>3, <3>4
  <2>2. CASE ~f.ack.fresh
    BY <1>1, <1>3, <2>2
  <2> QED BY <2>1, <2>2
<1>5. PICK E : EndInv(g, E, W, u)
  BY <1>4
<1>6. EndInv(Picked(g), D, W, u)
  BY <1>5, PickedKeeps
<1>7. PICK k : k = (g.ack.kick \/ Unacked(g))
  OBVIOUS
<1>8. EndInv([Idle(g) EXCEPT !.ack.kick = k], D, W, u)
  BY <1>5, <1>7, IdleKeeps
<1>9. DOMAIN g = flowFields /\ DOMAIN g.ack = ackFields
  BY <1>5 DEF EndInv, Made
<1>10. Idle(g).ack.kick = g.ack.kick
  BY <1>9 DEF Idle, flowFields, ackFields
<1>11. [Idle(g) EXCEPT !.ack.kick = @ \/ Unacked(g)] = [Idle(g) EXCEPT !.ack.kick = k]
  BY <1>7, <1>10
<1>12. Noted(f) = IF g.dlEnded /\ ~g.ack.endSent THEN Picked(g) ELSE [Idle(g) EXCEPT !.ack.kick = @ \/ Unacked(g)]
  BY <1>1 DEF Noted
<1> QED BY <1>2, <1>a, <1>b, <1>6, <1>8, <1>11, <1>12 DEF Holds

\* flushAck: the ACK is written, or the write fails.
LEMMA FlushAckKeeps == ASSUME FlowInv, NEW e \in Ends, FlushAck(e) PROVE FlowInv'
<1>1. PICK f : f = flow[e]
  OBVIOUS
<1>2. Holds(e, f) /\ Grows(tun, tun) /\ used \in Nat /\ Sides(tun) /\ f.ack.pc = "send"
  BY <1>1, EndIs DEF FlushAck
<1>3. PICK c \in Tunnels : c = f.ack.c
  BY <1>2, OnTunnels
<1>4. f.ack.dl \in Nat
  BY <1>2 DEF Holds, EndInv, Counts
<1>5. PICK ms \in Seq(Recs) : ms = <<<<IF f.ack.ended THEN "ackend" ELSE "ack", f.ack.dl>>>>
  BY <1>4, KindsAre
<1>6. CASE Step(e, Noted(f), Written(tun, c, e, ms))
  BY <1>2, <1>6, NotedKeeps, WrittenGrows, HoldsNow
<1>7. CASE f.ack.fresh /\ WriteMay(c, e, FALSE) /\ Step(e, Idle(f), tun)
  <2>1. c \in DeadIn(tun, cut, e)
    BY <1>7 DEF WriteMay, DeadIn
  <2>2. Holds(e, Idle(f))
    BY <1>2, <1>3, <1>7, <2>1, FailedFlushKeeps DEF Holds
  <2> QED BY <1>2, <1>7, <2>2, HoldsNow
<1>8. CASE Step(e, Picked(f), tun)
  <2>1. Holds(e, Picked(f))
    BY <1>2, PickedKeeps DEF Holds
  <2> QED BY <1>2, <1>8, <2>1, HoldsNow
<1> QED BY <1>1, <1>3, <1>5, <1>6, <1>7, <1>8 DEF FlushAck

\* The parser of a tunnel whose download direction is over.
LEMMA ServeAcksKeeps == ASSUME FlowInv, NEW e \in Ends, NEW t \in Tunnels, ServeAcks(e, t) PROVE FlowInv'
<1>1. PICK f : f = flow[e]
  OBVIOUS
<1>2. Holds(e, f) /\ Grows(tun, tun) /\ used \in Nat /\ Sides(tun) /\ Has(t, e)
  BY <1>1, EndIs DEF ServeAcks
<1>3. PICK m \in Recs : m = Head1(t, e)
  BY <1>2, PoppedIs DEF Has
<1>4. PICK g : g = IF m[1] \in {"ack", "ackend"} THEN AckedBy(f, m) ELSE f
  OBVIOUS
<1>5. Holds(e, AckedBy(f, m))
  BY <1>2, AckedByKeeps DEF Holds, Recs
<1>6. Holds(e, g)
  BY <1>2, <1>4, <1>5
<1>7. PICK tm : tm = IF m[1] \in {"ack", "ackend", "end"} THEN Popped(t, e) ELSE Dropped(tun, t, e)
  OBVIOUS
<1>8. Grows(tun, tm)
  BY <1>2, <1>7, PoppedIs, ClosedGrows DEF Has, Dropped
<1>9. Step(e, g, tm)
  BY <1>1, <1>3, <1>4, <1>7 DEF ServeAcks
<1> QED BY <1>6, <1>8, <1>9, HoldsNow

\* A tunnel is released.
LEMMA ReleaseKeeps == ASSUME FlowInv, NEW e \in Ends, NEW t \in Tunnels, Release(e, t) PROVE FlowInv'
<1>1. PICK f : f = flow[e]
  OBVIOUS
<1>2. Holds(e, f) /\ used \in Nat /\ Sides(tun)
  BY <1>1, EndIs
<1>3. PICK loud \in BOOLEAN : Step(e, [f EXCEPT !.rel = @ \ {t}], Closed(tun, t, e, loud))
  BY <1>1 DEF Release
<1>4. Holds(e, [f EXCEPT !.rel = f.rel \ {t}])
  BY <1>2, ReleasedKeeps DEF Holds
<1>5. [f EXCEPT !.rel = f.rel \ {t}] = [f EXCEPT !.rel = @ \ {t}]
  OBVIOUS
<1> QED BY <1>2, <1>3, <1>4, <1>5, ClosedGrows, HoldsNow

\* The flow is done.
LEMMA FinishKeeps == ASSUME FlowInv, NEW e \in Ends, Finish(e) PROVE FlowInv'
<1>1. PICK f : f = flow[e]
  OBVIOUS
<1>2. Holds(e, f) /\ used \in Nat /\ Sides(tun) /\ Running(f) /\ f.up.pc = "done" /\ f.dl.pc = "done"
  BY <1>1, EndIs DEF Finish
<1>3. PICK loud \in BOOLEAN : Step(e, [f EXCEPT !.done = TRUE, !.ack.pc = "idle", !.ack.kick = FALSE], AbortTun(tun, f, e, loud))
  BY <1>1 DEF Finish
<1>4. Holds(e, [f EXCEPT !.done = TRUE, !.ack.pc = "idle", !.ack.kick = FALSE])
  BY <1>2, FinishedKeeps DEF Holds
<1>5. Grows(tun, AbortTun(tun, f, e, loud))
  BY <1>2, OnTunnels, AbortTunGrows
<1> QED BY <1>3, <1>4, <1>5, HoldsNow

\* The resume window runs out, or the app's socket fails.
LEMMA GiveUpKeeps == ASSUME FlowInv, NEW e \in Ends, WindowExpires(e) \/ AppFails(e) PROVE FlowInv'
BY EndIs, AbortKeeps DEF WindowExpires, AppFails

-----------------------------------------------------------------------------
(* The steps of the handshakes.                                             *)

\* A handshake moves on: nothing else of the end changes.
LEMMA WithKeeps ==
    ASSUME FlowInv, NEW e \in Ends, NEW f, Holds(e, f), NEW t \in Tunnels, NEW a, DOMAIN a = attFields, a.own \in Nat,
           a.pc # "freezing", a.pc \in {"count", "readcount"} /\ a.mode = "resume" => Settles(f, t) \/ Parked(f),
           a.pc # "none" => t \in 1..used
    PROVE  Holds(e, With(f, t, a)) /\ Same(f, With(f, t, a), {"att"}) /\ With(f, t, a).att = [f.att EXCEPT ![t] = a]
<1>1. PICK g : g = With(f, t, a)
  OBVIOUS
<1>2. DOMAIN f = flowFields /\ Atts(f.att)
  BY DEF Holds, EndInv, Made
<1>3. Same(f, g, {"att"}) /\ g.att = [f.att EXCEPT ![t] = a]
  BY <1>1, <1>2 DEF Same, With, flowFields
<1>4. DOMAIN g.att = Tunnels /\ g.att[t] = a /\ \A v \in Tunnels \ {t} : g.att[v] = f.att[v]
  BY <1>2, <1>3 DEF Atts
<1>5. Atts(g.att)
  BY <1>2, <1>4 DEF Atts
<1>6. \A v \in Tunnels : f.att[v].pc # "none" => v \in 1..used
  BY DEF Holds, EndInv, Located
<1>7. \A v \in Tunnels : /\ Freezing(g, v) => Freezing(f, v) /\ g.att[v].mode = f.att[v].mode
                         /\ Settles(g, v) => Settles(f, v) \/ Parked(f)
                         /\ g.att[v].pc # "none" => v \in 1..used
  BY <1>4, <1>6 DEF Freezing, Settles
<1>8. Holds(e, g)
  BY <1>3, <1>5, <1>7, AttsKeep DEF Holds
<1> QED BY <1>1, <1>3, <1>8

\* The same for its next step alone.
LEMMA GoesKeeps ==
    ASSUME FlowInv, NEW e \in Ends, NEW f, Holds(e, f), NEW t \in Tunnels, NEW pc, pc # "freezing",
           pc \in {"count", "readcount"} /\ f.att[t].mode = "resume" => Settles(f, t) \/ Parked(f), t \in 1..used
    PROVE  Holds(e, Goes(f, t, pc)) /\ Same(f, Goes(f, t, pc), {"att"})
<1>1. PICK a : a = [f.att[t] EXCEPT !.pc = pc]
  OBVIOUS
<1>2. DOMAIN f = flowFields /\ DOMAIN f.att = Tunnels /\ DOMAIN f.att[t] = attFields /\ f.att[t].own \in Nat
  BY DEF Holds, EndInv, Made, Atts
<1>3. DOMAIN a = attFields /\ a.pc = pc /\ a.mode = f.att[t].mode /\ a.own \in Nat
  BY <1>1, <1>2 DEF attFields
<1>4. Goes(f, t, pc) = With(f, t, a)
  BY <1>1, <1>2 DEF Goes, With, flowFields
<1>5. /\ a.pc # "freezing" /\ (a.pc # "none" => t \in 1..used)
      /\ (a.pc \in {"count", "readcount"} /\ a.mode = "resume" => Settles(f, t) \/ Parked(f))
  BY <1>3
<1>6. Holds(e, With(f, t, a)) /\ Same(f, With(f, t, a), {"att"})
  BY <1>3, <1>5, WithKeeps
<1> QED BY <1>4, <1>6

LEMMA LegOver ==
    ASSUME FlowInv, NEW e \in Ends, NEW f, Holds(e, f), NEW t \in Tunnels
    PROVE  Holds(e, Over(f, t)) /\ Same(f, Over(f, t), {"att"})
<1>1. DOMAIN NoAttempt = attFields /\ NoAttempt.own \in Nat /\ NoAttempt.pc = "none"
  BY DEF NoAttempt, attFields
<1> QED BY <1>1, WithKeeps DEF Over

\* What such a change leaves alone.
LEMMA SameIs ==
    ASSUME FlowInv, NEW e \in Ends, NEW f, Holds(e, f), NEW g, Same(f, g, {"att"})
    PROVE  /\ /\ g.cur = f.cur /\ g.next = f.next /\ g.upDst = f.upDst /\ g.freezeReq = f.freezeReq
              /\ g.frozen = f.frozen /\ g.installed = f.installed /\ g.upSwitched = f.upSwitched
              /\ g.dlSwitched = f.dlSwitched /\ g.upLimit = f.upLimit /\ g.dlLimit = f.dlLimit
              /\ g.upEnded = f.upEnded /\ g.dlEnded = f.dlEnded /\ g.aborted = f.aborted /\ g.done = f.done
              /\ g.suspended = f.suspended /\ g.upParked = f.upParked /\ g.dlParked = f.dlParked
              /\ g.resumeConn = f.resumeConn /\ g.resumeFrom = f.resumeFrom /\ g.upBytes = f.upBytes
              /\ g.base = f.base /\ g.end = f.end /\ g.readDl = f.readDl /\ g.writeDl = f.writeDl
              /\ g.rel = f.rel /\ g.up = f.up /\ g.dl = f.dl /\ g.ack = f.ack /\ g.read = f.read
              /\ g.got = f.got /\ g.st = f.st
           /\ Running(g) = Running(f)
<1>1. DOMAIN f = flowFields
  BY DEF Holds, EndInv, Made
<1>2. \A x \in flowFields : x # "att" => g[x] = f[x]
  BY <1>1 DEF Same
<1>3. /\ /\ g.cur = f.cur /\ g.next = f.next /\ g.upDst = f.upDst /\ g.freezeReq = f.freezeReq
         /\ g.frozen = f.frozen /\ g.installed = f.installed /\ g.upSwitched = f.upSwitched
         /\ g.dlSwitched = f.dlSwitched /\ g.upLimit = f.upLimit /\ g.dlLimit = f.dlLimit
         /\ g.upEnded = f.upEnded /\ g.dlEnded = f.dlEnded /\ g.aborted = f.aborted /\ g.done = f.done
         /\ g.suspended = f.suspended /\ g.upParked = f.upParked /\ g.dlParked = f.dlParked
         /\ g.resumeConn = f.resumeConn /\ g.resumeFrom = f.resumeFrom /\ g.upBytes = f.upBytes
         /\ g.base = f.base /\ g.end = f.end /\ g.readDl = f.readDl /\ g.writeDl = f.writeDl /\ g.rel = f.rel
         /\ g.up = f.up /\ g.dl = f.dl /\ g.ack = f.ack /\ g.read = f.read /\ g.got = f.got /\ g.st = f.st
  BY <1>2 DEF flowFields
<1> QED BY <1>3 DEF Running

\* The leg is closed.
LEMMA CloseLegKeeps ==
    ASSUME FlowInv, NEW e \in Ends, NEW f, Holds(e, f), NEW t \in Tunnels, CloseLeg(e, f, t)
    PROVE  FlowInv'
<1>1. Grows(tun, Dropped(tun, t, e))
  BY EndIs, ClosedGrows DEF Dropped
<1> QED BY <1>1, LegOver, HoldsNow DEF CloseLeg

\* A leg whose handshake runs is on a tunnel that has been opened.
LEMMA LegIs ==
    ASSUME FlowInv, NEW e \in Ends, NEW t \in Tunnels, At(e, t).pc # "none"
    PROVE  t \in 1..used
<1>1. Holds(e, flow[e])
  BY EndIs
<1> QED BY <1>1 DEF Holds, EndInv, Located, At

\* FreezeUp.
LEMMA ReservedStays ==
    ASSUME FlowInv, NEW e \in Ends, NEW f, Holds(e, f), NEW t \in Tunnels, t \in 1..used, Swappable(f),
           f.att[t].mode # "resume"
    PROVE  Holds(e, Reserved(e, f, t))
<1>1. used \in Nat /\ Running(f)
  BY EndIs DEF Swappable
<1>2. CASE f.upEnded
  <2>1. Holds(e, Frozen(e, [Goes(f, t, "freezing") EXCEPT !.freezeReq = TRUE]))
    BY <1>1, <1>2, ReservedEndedKeeps DEF Holds
  <2> QED BY <1>2, <2>1 DEF Reserved
<1>3. CASE ~f.upEnded
  <2>1. Holds(e, [Goes(f, t, "freezing") EXCEPT !.freezeReq = TRUE, !.readDl = TRUE])
    BY <1>1, <1>3, ReservedKeeps DEF Holds
  <2> QED BY <1>3, <2>1 DEF Reserved
<1> QED BY <1>2, <1>3

\* The server reads the verdict.
LEMMA ReadVerdictKeeps == ASSUME FlowInv, NEW t \in Tunnels, ReadVerdict(t) PROVE FlowInv'
<1>0. PICK e \in Ends : e = "server"
  BY DEF Ends
<1>1. PICK f : f = flow[e]
  OBVIOUS
<1>2. Holds(e, f) /\ Sides(tun) /\ t \in 1..used
  BY <1>0, <1>1, EndIs, LegIs DEF ReadVerdict
<1>3. CASE Has(t, e) /\ f.att[t].mode = "resume" /\ Step(e, Goes(f, t, "begin"), Popped(t, e))
  BY <1>2, <1>3, GoesKeeps, PoppedIs, HoldsNow DEF Has
<1>4. CASE Has(t, e) /\ f.att[t].mode # "resume" /\ Swappable(f) /\ Step(e, Reserved(e, f, t), Popped(t, e))
  BY <1>2, <1>4, ReservedStays, PoppedIs, HoldsNow DEF Has
<1>5. CASE CloseLeg(e, f, t)
  BY <1>2, <1>5, CloseLegKeeps
<1>6. CASE Abort(e, Over(f, t), Dropped(tun, t, e), "gone")
  <2>1. Grows(tun, Dropped(tun, t, e))
    BY <1>2, ClosedGrows DEF Dropped
  <2> QED BY <1>2, <1>6, <2>1, LegOver, AbortKeeps
<1> QED BY <1>0, <1>1, <1>3, <1>4, <1>5, <1>6 DEF ReadVerdict, At

\* The client refuses.
LEMMA RejectKeeps ==
    ASSUME FlowInv, NEW t \in Tunnels, NEW why \in {"unknown", "busy"}, Reject(flow["client"], t, why)
    PROVE  FlowInv'
<1>1. PICK e \in Ends : e = "client"
  BY DEF Ends
<1>2. <<<<why, 0>>>> \in Seq(Recs)
  BY KindsAre
<1>3. PICK tm : tm = Written(tun, t, e, <<<<why, 0>>>>)
  OBVIOUS
<1>4. Grows(tun, tm)
  BY <1>2, <1>3, EndIs, WrittenGrows
<1>5. Grows(tm, Dropped(tm, t, e))
  BY <1>4, ClosedGrows DEF Dropped, Grows
<1>6. Grows(tun, Dropped(tm, t, e))
  BY <1>4, <1>5, GrowsTwice
<1>7. Step(e, Over(flow[e], t), Dropped(tm, t, e))
  BY <1>1, <1>3 DEF Reject
<1> QED BY <1>6, <1>7, EndIs, LegOver, HoldsNow

\* The client reads what the leg is for.
LEMMA ReadAttachKeeps == ASSUME FlowInv, NEW t \in Tunnels, ReadAttach(t) PROVE FlowInv'
<1>0. PICK e \in Ends : e = "client"
  BY DEF Ends
<1>1. PICK f : f = flow[e]
  OBVIOUS
<1>2. Holds(e, f) /\ Sides(tun) /\ t \in 1..used /\ Has(t, e)
  BY <1>0, <1>1, EndIs DEF ReadAttach, Tunnels
<1>3. PICK m : m = Head1(t, e)[1]
  OBVIOUS
<1>4. PICK g : g = With(f, t, [NoAttempt EXCEPT !.mode = m])
  OBVIOUS
<1>5. PICK a : a = [NoAttempt EXCEPT !.mode = m]
  OBVIOUS
<1>6. DOMAIN a = attFields /\ a.own \in Nat /\ a.pc = "none" /\ a.mode = m
  BY <1>5 DEF NoAttempt, attFields
<1>a. /\ a.pc # "freezing" /\ (a.pc # "none" => t \in 1..used)
      /\ (a.pc \in {"count", "readcount"} /\ a.mode = "resume" => Settles(f, t) \/ Parked(f))
  BY <1>6
<1>b. Holds(e, With(f, t, a)) /\ Same(f, With(f, t, a), {"att"}) /\ With(f, t, a).att = [f.att EXCEPT ![t] = a]
  BY <1>2, <1>6, <1>a, WithKeeps
<1>7. Holds(e, g) /\ Same(f, g, {"att"}) /\ g.att = [f.att EXCEPT ![t] = a]
  BY <1>4, <1>5, <1>b
<1>8. PICK tm : tm = Popped(t, e)
  OBVIOUS
<1>9. Grows(tun, tm)
  BY <1>2, <1>8, PoppedIs DEF Has
<1>10. /\ /\ g.cur = f.cur /\ g.next = f.next /\ g.upDst = f.upDst /\ g.freezeReq = f.freezeReq
          /\ g.frozen = f.frozen /\ g.installed = f.installed /\ g.upSwitched = f.upSwitched
          /\ g.dlSwitched = f.dlSwitched /\ g.upLimit = f.upLimit /\ g.dlLimit = f.dlLimit
          /\ g.upEnded = f.upEnded /\ g.dlEnded = f.dlEnded /\ g.aborted = f.aborted /\ g.done = f.done
          /\ g.suspended = f.suspended /\ g.upParked = f.upParked /\ g.dlParked = f.dlParked
          /\ g.resumeConn = f.resumeConn /\ g.resumeFrom = f.resumeFrom /\ g.upBytes = f.upBytes
          /\ g.base = f.base /\ g.end = f.end /\ g.readDl = f.readDl /\ g.writeDl = f.writeDl /\ g.rel = f.rel
          /\ g.up = f.up /\ g.dl = f.dl /\ g.ack = f.ack /\ g.read = f.read /\ g.got = f.got /\ g.st = f.st
       /\ Running(g) = Running(f)
  BY <1>2, <1>7, SameIs
<1>11. CASE \E why \in {"unknown", "busy"} : Reject(f, t, why)
  BY <1>0, <1>1, <1>11, RejectKeeps
<1>12. CASE m = "move" /\ Swappable(f) /\ Step(e, Reserved(e, g, t), tm)
  <2>1. Swappable(g)
    BY <1>10, <1>12 DEF Swappable
  <2>2. DOMAIN f.att = Tunnels
    BY <1>2 DEF Holds, EndInv, Made, Atts
  <2>3. g.att[t].mode = "move"
    BY <1>6, <1>7, <1>12, <2>2
  <2> QED BY <1>2, <1>7, <1>9, <1>12, <2>1, <2>3, ReservedStays, HoldsNow
<1>13. CASE CanSuspend(f) /\ Step(e, Goes(Suspended(g), t, "accept"), SuspendTun(tm, f, e))
  <2>1. PICK h : h = Suspended(g)
    OBVIOUS
  <2>2. Holds(e, h) /\ Grows(tun, SuspendTun(tm, g, e))
    BY <1>7, <1>9, <1>10, <1>13, <2>1, SuspendIs DEF CanSuspend
  <2>3. SuspendTun(tm, g, e) = SuspendTun(tm, f, e)
    BY <1>10 DEF SuspendTun
  <2>4. Holds(e, Goes(h, t, "accept"))
    BY <1>2, <2>2, GoesKeeps
  <2> QED BY <1>13, <2>1, <2>2, <2>3, <2>4, HoldsNow
<1> QED BY <1>0, <1>1, <1>3, <1>4, <1>8, <1>11, <1>12, <1>13 DEF ReadAttach

\* The swap is called off.
LEMMA ThawKeeps ==
    ASSUME FlowInv, NEW e \in Ends, NEW f, Holds(e, f), CanThaw(f), NEW tm, Grows(tun, tm), Step(e, Thawed(f), tm)
    PROVE  FlowInv'
<1>1. Holds(e, Thawed(f))
  BY EndIs, ThawedKeeps DEF Holds, CanThaw
<1> QED BY <1>1, HoldsNow

LEMMA ThawableIs ==
    ASSUME FlowInv, NEW e \in Ends, NEW f, Holds(e, f), NEW t \in Tunnels
    PROVE  CanThaw(Over(f, t)) <=> CanThaw(f)
<1>1. Same(f, Over(f, t), {"att"})
  BY LegOver
<1> QED BY <1>1, SameIs DEF CanThaw

\* The client answers, or its answer does not get through.
LEMMA WriteAcceptKeeps == ASSUME FlowInv, NEW t \in Tunnels, WriteAccept(t) PROVE FlowInv'
<1>0. PICK e \in Ends : e = "client"
  BY DEF Ends
<1>1. PICK f : f = flow[e]
  OBVIOUS
<1>2. Holds(e, f) /\ Sides(tun) /\ t \in 1..used
  BY <1>0, <1>1, EndIs, LegIs DEF WriteAccept
<1>3. PICK pc : pc = IF f.att[t].mode = "move" THEN "count" ELSE "begin"
  OBVIOUS
<1>4. Grows(tun, Dropped(tun, t, e)) /\ Grows(tun, Written(tun, t, e, <<<<"accept", 0>>>>))
  BY <1>2, ClosedGrows, KindsAre, WrittenGrows DEF Dropped
<1>5. CASE Step(e, Goes(f, t, pc), Written(tun, t, e, <<<<"accept", 0>>>>))
  <2>1. pc # "freezing" /\ (pc \in {"count", "readcount"} /\ f.att[t].mode = "resume" => Settles(f, t) \/ Parked(f))
    BY <1>3
  <2>2. Holds(e, Goes(f, t, pc))
    BY <1>2, <2>1, GoesKeeps
  <2> QED BY <1>4, <1>5, <2>2, HoldsNow
<1>6. CASE CloseLeg(e, f, t)
  BY <1>2, <1>6, CloseLegKeeps
<1>7. CASE CanThaw(f) /\ Step(e, Thawed(Over(f, t)), Dropped(tun, t, e))
  BY <1>2, <1>4, <1>7, LegOver, ThawableIs, ThawKeeps
<1>8. CASE Abort(e, Over(f, t), Dropped(tun, t, e), "verdict")
  BY <1>2, <1>4, <1>8, LegOver, AbortKeeps
<1> QED BY <1>0, <1>1, <1>3, <1>5, <1>6, <1>7, <1>8 DEF WriteAccept, At

\* The pumps have parked: the count of a resume is final.
LEMMA ResumeBeginKeeps == ASSUME FlowInv, NEW e \in Ends, NEW t \in Tunnels, ResumeBegin(e, t) PROVE FlowInv'
<1>1. PICK f : f = flow[e]
  OBVIOUS
<1>2. Holds(e, f) /\ Grows(tun, tun) /\ t \in 1..used
  BY <1>1, EndIs, LegIs DEF ResumeBegin
<1>3. PICK a : a = [f.att[t] EXCEPT !.own = dlBytes(f), !.pc = "count"]
  OBVIOUS
<1>4. CASE Parked(f) /\ Step(e, With(f, t, a), tun)
  <2>1. DOMAIN f.att[t] = attFields /\ f.got \in Seq(Nat)
    BY <1>2 DEF Holds, EndInv, Made, Atts, Counts
  <2>2. dlBytes(f) \in Nat
    BY <2>1 DEF dlBytes
  <2>3. DOMAIN a = attFields /\ a.own \in Nat /\ a.pc = "count"
    BY <1>3, <2>1, <2>2 DEF attFields
  <2>4. /\ a.pc # "freezing" /\ (a.pc # "none" => t \in 1..used)
        /\ (a.pc \in {"count", "readcount"} /\ a.mode = "resume" => Settles(f, t) \/ Parked(f))
    BY <1>2, <1>4, <2>3
  <2>5. Holds(e, With(f, t, a))
    BY <1>2, <2>3, <2>4, WithKeeps
  <2> QED BY <1>2, <1>4, <2>5, HoldsNow
<1>5. CASE CloseLeg(e, f, t)
  BY <1>2, <1>5, CloseLegKeeps
<1> QED BY <1>1, <1>3, <1>4, <1>5 DEF ResumeBegin, At

\* The counts are not settled.
LEMMA CountFailedKeeps == ASSUME FlowInv, NEW e \in Ends, NEW t \in Tunnels, CountFailed(e, t) PROVE FlowInv'
<1>1. PICK f : f = Over(flow[e], t)
  OBVIOUS
<1>2. PICK tm : tm = Dropped(tun, t, e)
  OBVIOUS
<1>3. Holds(e, f)
  BY <1>1, EndIs, LegOver
<1>4. Grows(tun, tm)
  BY <1>2, EndIs, ClosedGrows DEF Dropped
<1>5. CASE Step(e, f, tm)
  BY <1>3, <1>4, <1>5, HoldsNow
<1>6. CASE CanThaw(f) /\ Step(e, Thawed(f), tm)
  BY <1>3, <1>4, <1>6, ThawKeeps
<1>7. CASE SuspendOrAbort(e, f, tm, "swap")
  BY <1>3, <1>4, <1>7, SuspendOrAbortKeeps
<1> QED BY <1>1, <1>2, <1>5, <1>6, <1>7 DEF CountFailed

LEMMA WriteCountKeeps == ASSUME FlowInv, NEW e \in Ends, NEW t \in Tunnels, WriteCount(e, t) PROVE FlowInv'
<1>1. PICK f : f = flow[e]
  OBVIOUS
<1>2. Holds(e, f) /\ Sides(tun) /\ t \in 1..used
  BY <1>1, EndIs, LegIs DEF WriteCount
<1>3. f.att[t].own \in Nat
  BY <1>2 DEF Holds, EndInv, Made, Atts
<1>4. CASE f.att[t].pc = "count" /\ Step(e, Goes(f, t, "readcount"), Written(tun, t, e, <<<<"count", f.att[t].own>>>>))
  <2>1. Holds(e, Goes(f, t, "readcount"))
    BY <1>2, <1>4, GoesKeeps DEF Settles
  <2>2. Grows(tun, Written(tun, t, e, <<<<"count", f.att[t].own>>>>))
    BY <1>2, <1>3, KindsAre, WrittenGrows
  <2> QED BY <1>4, <2>1, <2>2, HoldsNow
<1>5. CASE CountFailed(e, t)
  BY <1>5, CountFailedKeeps
<1> QED BY <1>1, <1>4, <1>5 DEF WriteCount, At

LEMMA NoCountKeeps == ASSUME FlowInv, NEW e \in Ends, NEW t \in Tunnels, NoCount(e, t) PROVE FlowInv'
BY CountFailedKeeps DEF NoCount

\* The new tunnel is installed, and a read that sits at the boundary is woken.
LEMMA InstallKeeps ==
    ASSUME FlowInv, NEW e \in Ends, NEW t \in Tunnels, NEW n \in Nat, Install(e, t, n)
    PROVE  FlowInv'
<1>1. PICK f : f = flow[e]
  OBVIOUS
<1>2. Holds(e, f) /\ Sides(tun) /\ t \in 1..used /\ Has(t, e) /\ used \in Nat
  BY <1>1, EndIs, LegIs DEF Install, Counted
<1>3. PICK tp : tp = Popped(t, e)
  OBVIOUS
<1>4. Grows(tun, tp)
  BY <1>2, <1>3, PoppedIs DEF Has
<1>5. PICK sv : sv = Served(tp, f, e, t)
  OBVIOUS
<1>6. Grows(tp, sv)
  BY <1>4, <1>5, ServedGrows DEF Grows
<1>7. Grows(tun, sv) /\ Sides(sv)
  BY <1>4, <1>6, GrowsTwice DEF Grows
<1>8. PICK wk : wk = IF f.dlEnded \/ ~sv[f.cur][e].open THEN sv ELSE [sv EXCEPT ![f.cur][e].wake = TRUE]
  OBVIOUS
<1>9. PICK tm : tm = IF f.upEnded THEN EndWritten(wk, t, e) ELSE wk
  OBVIOUS
<1>10. CASE /\ Running(f) /\ f.frozen /\ ~f.installed
            /\ Step(e, Over(Installed(f, t, n), t), tm)
  <2>1. f.cur \in 1..used
    BY <1>2, <1>10 DEF Holds, EndInv, Located, Ctl, Reserving, DlPlace
  <2>2. PICK c \in Tunnels : c = f.cur
    BY <2>1, EndIs
  <2>3. Grows(sv, wk) /\ (f.dlEnded \/ c \in WokenIn(wk, e))
    <3>1. CASE f.dlEnded \/ ~sv[c][e].open
      BY <1>7, <1>8, <2>2, <3>1, GrowsNot DEF WokenIn
    <3>2. CASE ~f.dlEnded /\ sv[c][e].open
      <4>1. PICK s : s = [sv[c][e] EXCEPT !.wake = TRUE]
        OBVIOUS
      <4>2. DOMAIN sv[c][e] = sideFields /\ sv[c][e].in \in Seq(Recs)
        BY <1>7 DEF Sides
      <4>3. DOMAIN s = sideFields /\ s.wake = TRUE /\ s.in \in Seq(Recs) /\ s.open = sv[c][e].open
        BY <4>1, <4>2 DEF sideFields
      <4>4. wk = [sv EXCEPT ![c][e] = s]
        BY <1>7, <1>8, <2>2, <3>2, <4>1 DEF Sides
      <4>5. SideSet(sv, wk, c, e, s)
        BY <1>7, <4>3, <4>4, SideIs
      <4>6. Grows(sv, wk)
        BY <4>3, <4>5, SideGrows
      <4> QED BY <4>3, <4>5, <4>6 DEF SideSet, WokenIn
    <3> QED BY <3>1, <3>2
  <2>4. Grows(wk, tm)
    BY <1>9, <2>3, EndWrittenGrows, GrowsNot DEF Grows
  <2>5. Grows(tun, tm)
    BY <1>7, <2>3, <2>4, GrowsTwice
  <2>6. f.dlEnded \/ f.cur \in WokenIn(tm, e)
    BY <2>2, <2>3, <2>4 DEF Grows, WokenIn
  <2>7. ~f.upSwitched /\ ~f.dlSwitched
    BY <1>2, <1>10 DEF Holds, EndInv, Ctl, Reserving
  <2>8. PICK g : g = Installed(f, t, n)
    OBVIOUS
  <2>9. EndInv(g, DeadIn(tun, cut, e), WokenIn(tm, e), used)
    BY <1>2, <1>10, <2>6, <2>7, <2>8, InstalledKeeps DEF Holds
  <2>10. PICK h : h = Over(g, t)
    OBVIOUS
  <2>11. EndInv(h, DeadIn(tun, cut, e), WokenIn(tm, e), used)
    <3>1. DOMAIN g = flowFields /\ Atts(g.att)
      BY <2>9 DEF EndInv, Made
    <3>2. Same(g, h, {"att"}) /\ h.att = [g.att EXCEPT ![t] = NoAttempt]
      BY <2>10, <3>1 DEF Same, Over, With, flowFields
    <3>3. NoAttempt.pc = "none" /\ DOMAIN NoAttempt = attFields /\ NoAttempt.own \in Nat
      BY DEF NoAttempt, attFields
    <3>4. DOMAIN h.att = Tunnels /\ h.att[t] = NoAttempt /\ \A v \in Tunnels \ {t} : h.att[v] = g.att[v]
      BY <3>1, <3>2 DEF Atts
    <3>5. Atts(h.att)
      BY <3>1, <3>3, <3>4 DEF Atts
    <3>6. \A v \in Tunnels : g.att[v].pc # "none" => v \in 1..used
      BY <2>9 DEF EndInv, Located
    <3>7. \A v \in Tunnels : /\ Freezing(h, v) => Freezing(g, v) /\ h.att[v].mode = g.att[v].mode
                             /\ Settles(h, v) => Settles(g, v) \/ Parked(g)
                             /\ h.att[v].pc # "none" => v \in 1..used
      BY <3>3, <3>4, <3>6 DEF Freezing, Settles
    <3> QED BY <2>9, <3>2, <3>5, <3>7, AttsKeep
  <2>12. \A v \in 1..used : /\ v \in DeadIn(tun, cut, e) => v \in DeadIn(tm, cut, e)
                            /\ v \in WokenIn(tm, e) => v \in WokenIn(tm, e)
    BY <2>5, PeerIs DEF DeadIn, Grows
  <2>13. EndInv(h, DeadIn(tm, cut, e), WokenIn(tm, e), used)
    BY <1>2, <2>11, <2>12, MoreDead
  <2>14. Stepped(e, h, tm)
    BY <1>10, <2>8, <2>10 DEF Step, Stepped
  <2> QED BY <2>5, <2>13, <2>14, PeerIs, StepKeeps DEF Grows
<1>11. CASE \E loud \in BOOLEAN : SuspendOrAbort(e, Over(f, t), Closed(tun, t, e, loud), "swap")
  BY <1>2, <1>11, LegOver, ClosedGrows, SuspendOrAbortKeeps
<1> QED BY <1>1, <1>3, <1>5, <1>8, <1>9, <1>10, <1>11 DEF Install

\* The suspended flow goes on, when no other handshake is left.
LEMMA ResumeFinishKeeps ==
    ASSUME FlowInv, Prompted, NEW e \in Ends, NEW t \in Tunnels, NEW n \in Nat, ResumeFinish(e, t, n)
    PROVE  FlowInv'
<1>1. PICK f : f = flow[e]
  OBVIOUS
<1>2. /\ Holds(e, f) /\ Sides(tun) /\ t \in 1..used /\ Has(t, e) /\ used \in Nat /\ Settles(f, t)
      /\ \A v \in Tunnels \ {t} : f.att[v].pc = "none"
  BY <1>1, EndIs, LegIs DEF ResumeFinish, Counted, Prompt, Prompted, Settles, At
<1>3. CASE CloseLeg(e, f, t)
  BY <1>2, <1>3, CloseLegKeeps
<1>4. CASE Abort(e, Over(f, t), Dropped(tun, t, e), "counts")
  <2>1. Grows(tun, Dropped(tun, t, e))
    BY <1>2, ClosedGrows DEF Dropped
  <2> QED BY <1>2, <1>4, <2>1, LegOver, AbortKeeps
<1>5. PICK r : r = Resumed(f, t, n)
  OBVIOUS
<1>6. PICK g : g = IF f.upEnded THEN Goes(r, t, "replay") ELSE Over(r, t)
  OBVIOUS
<1>7. CASE Running(f) /\ f.suspended /\ n <= f.end /\ Step(e, g, Served(Popped(t, e), f, e, t))
  <2>1. Grows(tun, Popped(t, e))
    BY <1>2, PoppedIs DEF Has
  <2>2. Grows(Popped(t, e), Served(Popped(t, e), f, e, t))
    BY <2>1, ServedGrows DEF Grows
  <2>3. Grows(tun, Served(Popped(t, e), f, e, t))
    BY <2>1, <2>2, GrowsTwice
  <2>4. Made(f)
    BY <1>2 DEF Holds, EndInv
  <2>5. GoesOn(f, r, t, n)
    BY <1>5, <2>4, ResumedIs
  <2>6. DOMAIN r = flowFields /\ r.att = f.att
    BY <2>4, <2>5 DEF GoesOn, Same, Made, flowFields
  <2>7. DOMAIN f.att = Tunnels /\ DOMAIN f.att[t] = attFields /\ f.att[t].own \in Nat
    BY <2>4 DEF Made, Atts
  <2>8. PICK a : a = IF f.upEnded THEN [f.att[t] EXCEPT !.pc = "replay"] ELSE NoAttempt
    OBVIOUS
  <2>9. PICK pc \in {"none", "replay"} : pc = IF f.upEnded THEN "replay" ELSE "none"
    OBVIOUS
  <2>10. DOMAIN a = attFields /\ a.own \in Nat /\ a.pc = pc
    BY <2>7, <2>8, <2>9 DEF attFields, NoAttempt
  <2>11. g = [r EXCEPT !.att = [f.att EXCEPT ![t] = a]]
    BY <1>6, <2>6, <2>7, <2>8 DEF Goes, Over, With, flowFields
  <2>12. Same(r, g, {"att"}) /\ g.att = [f.att EXCEPT ![t] = a]
    BY <2>6, <2>11 DEF Same, flowFields
  <2>13. DOMAIN g.att = Tunnels /\ g.att[t] = a /\ \A v \in Tunnels \ {t} : g.att[v] = f.att[v]
    BY <2>7, <2>12
  <2>14. Atts(g.att)
    BY <2>4, <2>10, <2>13 DEF Made, Atts
  <2>15. Holds(e, g)
    BY <1>2, <1>5, <1>7, <2>10, <2>12, <2>13, <2>14, ResumedKeeps DEF Holds
  <2> QED BY <1>7, <2>3, <2>15, HoldsNow
<1>8. f.end \in Nat
  BY <1>2 DEF Holds, EndInv, Counts
<1> QED BY <1>1, <1>3, <1>4, <1>5, <1>6, <1>7, <1>8 DEF ResumeFinish

\* ResumeFinish replays an upload that has ended.
LEMMA ReplayEndedKeeps == ASSUME FlowInv, NEW e \in Ends, NEW t \in Tunnels, ReplayEnded(e, t) PROVE FlowInv'
<1>1. PICK f : f = flow[e]
  OBVIOUS
<1>2. Holds(e, f) /\ Sides(tun) /\ used \in Nat
  BY <1>1, EndIs
<1>3. f.end \in Nat /\ f.resumeFrom \in Nat /\ f.resumeFrom <= f.end
  BY <1>2 DEF Holds, EndInv, Counts
<1>4. PICK tm : tm = Written(tun, t, e, Retained(f, f.resumeFrom))
  OBVIOUS
<1>5. CASE Step(e, [Over(f, t) EXCEPT !.upBytes = f.end], EndWritten(tm, t, e))
  <2>1. PICK g : g = Over(f, t)
    OBVIOUS
  <2>2. Holds(e, g)
    BY <1>2, <2>1, LegOver
  <2>3. Holds(e, [g EXCEPT !.upBytes = f.end])
    BY <1>2, <1>3, <2>2, SentKeeps DEF Holds
  <2>4. Grows(tun, tm)
    BY <1>2, <1>3, <1>4, RetainedIs, WrittenGrows
  <2>5. Grows(tm, EndWritten(tm, t, e))
    BY <2>4, EndWrittenGrows DEF Grows
  <2>6. Grows(tun, EndWritten(tm, t, e))
    BY <2>4, <2>5, GrowsTwice
  <2> QED BY <1>5, <2>1, <2>3, <2>6, HoldsNow
<1>6. CASE SuspendOrAbort(e, Over(f, t), Dropped(tun, t, e), "tunnel")
  <2>1. Grows(tun, Dropped(tun, t, e))
    BY <1>2, ClosedGrows DEF Dropped
  <2> QED BY <1>2, <1>6, <2>1, LegOver, SuspendOrAbortKeeps
<1> QED BY <1>1, <1>4, <1>5, <1>6 DEF ReplayEnded

\* A leg that failed is closed.
LEMMA FailLegKeeps == ASSUME FlowInv, NEW e \in Ends, NEW t \in Tunnels, FailLeg(e, t) PROVE FlowInv'
<1>1. CASE e = "client" /\ Reject(flow["client"], t, "busy")
  BY <1>1, RejectKeeps
<1>2. CASE CloseLeg(e, flow[e], t)
  BY <1>2, EndIs, CloseLegKeeps
<1> QED BY <1>1, <1>2 DEF FailLeg

\* A step of a handshake runs out of time.
LEMMA HandshakeTimeoutKeeps ==
    ASSUME FlowInv, NEW e \in Ends, NEW t \in Tunnels, HandshakeTimeout(e, t)
    PROVE  FlowInv'
<1>1. PICK f : f = flow[e]
  OBVIOUS
<1>2. Holds(e, f) /\ Grows(tun, tun) /\ used \in Nat
  BY <1>1, EndIs
<1>3. CASE CloseLeg(e, f, t)
  BY <1>2, <1>3, CloseLegKeeps
<1>4. CASE f.att[t].pc = "freezing" /\ Step(e, [Goes(f, t, "fail") EXCEPT !.freezeReq = FALSE, !.readDl = FALSE], tun)
  <2>1. Holds(e, [Goes(f, t, "fail") EXCEPT !.freezeReq = FALSE, !.readDl = FALSE])
    BY <1>2, <1>4, WithdrawnKeeps DEF Holds, Freezing
  <2> QED BY <1>2, <1>4, <2>1, HoldsNow
<1>5. CASE CountFailed(e, t)
  BY <1>5, CountFailedKeeps
<1> QED BY <1>1, <1>3, <1>4, <1>5 DEF HandshakeTimeout, At

LEMMA HandshakeKeeps ==
    ASSUME FlowInv, Prompted, NEW e \in Ends, NEW t \in Tunnels, Handshake(e, t)
    PROVE  FlowInv'
<1>1. CASE \E n \in Offsets : Install(e, t, n) \/ ResumeFinish(e, t, n)
  <2>1. PICK n \in Offsets : Install(e, t, n) \/ ResumeFinish(e, t, n)
    BY <1>1
  <2>2. Has(t, e) /\ Head1(t, e) = <<"count", n>>
    BY <2>1 DEF Install, ResumeFinish, Counted
  <2>3. Head1(t, e) \in Recs
    BY <2>2, EndIs, PoppedIs DEF Has
  <2>4. n \in Nat
    BY <2>2, <2>3 DEF Recs
  <2> QED BY <2>1, <2>4, InstallKeeps, ResumeFinishKeeps
<1> QED BY <1>1, ResumeBeginKeeps, WriteCountKeeps, NoCountKeeps, ReplayEndedKeeps, FailLegKeeps DEF Handshake

-----------------------------------------------------------------------------
(* Tunnels that are opened and sessions that fail.                          *)

\* The server opens a tunnel.
LEMMA OpenKeeps ==
    ASSUME FlowInv, NEW t \in Tunnels, NEW m \in {"move", "resume"}, Open(t, m, flow["server"]), moves' \in Nat
    PROVE  FlowInv'
<1>0. PICK e \in Ends : e = "server"
  BY DEF Ends
<1>1. PICK p \in Ends : p = Peer(e) /\ p # e /\ Peer(p) = e /\ \A x \in Ends : x = e \/ x = p
  BY PeerIs DEF Ends
<1>2. PICK f : f = flow[e]
  OBVIOUS
<1>3. Holds(e, f) /\ Holds(p, flow[p]) /\ Sides(tun) /\ used \in Nat /\ t = used + 1 /\ used' = t
  BY <1>2, EndIs DEF Open
<1>4. PICK a : a = [NoAttempt EXCEPT !.pc = "verdict", !.mode = m]
  OBVIOUS
<1>5. DOMAIN a = attFields /\ a.own \in Nat /\ a.pc = "verdict"
  BY <1>4 DEF NoAttempt, attFields
<1>6. PICK g : g = With(f, t, a)
  OBVIOUS
<1>7. DOMAIN flow' = Ends /\ flow'[e] = g /\ flow'[p] = flow[p] /\ sc' = sc /\ cut' = cut
  BY <1>0, <1>1, <1>2, <1>4, <1>6 DEF Open, FlowInv
<1>8. \A v \in 1..used, x \in Ends : tun'[v] = tun[v]
  <2>1. \A v \in 1..used : v # t
    BY <1>3
  <2> QED BY <1>3, <2>1, EndIs DEF Open, Sides
<1>9. Sides(tun')
  <2>1. PICK q : q = [x \in Ends |-> [tun[t][x] EXCEPT !.open = TRUE, !.in = IF x = "client" THEN <<<<m, 0>>>> ELSE << >>]]
    OBVIOUS
  <2>2. tun' = [tun EXCEPT ![t] = q]
    BY <1>3, <2>1 DEF Open, Sides
  <2>3. \A x \in Ends : DOMAIN tun[t][x] = sideFields
    BY <1>3 DEF Sides
  <2>4. PICK i \in Seq(Recs) : i = <<<<m, 0>>>>
    BY KindsAre
  <2>a. << >> \in Seq(Recs)
    OBVIOUS
  <2>5. PICK z \in Seq(Recs) : z = << >>
    BY <2>a
  <2>6. DOMAIN q = Ends /\ \A x \in Ends : DOMAIN q[x] = sideFields /\ q[x].in = IF x = "client" THEN i ELSE z
    BY <2>1, <2>3, <2>4, <2>5 DEF sideFields
  <2>7. DOMAIN tun' = Tunnels /\ tun'[t] = q /\ \A v \in Tunnels \ {t} : tun'[v] = tun[v]
    BY <1>3, <2>2 DEF Sides
  <2>8. \A x \in Ends : DOMAIN tun'[t][x] = sideFields /\ tun'[t][x].in \in Seq(Recs)
    BY <2>6, <2>7
  <2>9. \A v \in Tunnels \ {t} : /\ DOMAIN tun'[v] = Ends
                                /\ \A x \in Ends : DOMAIN tun'[v][x] = sideFields /\ tun'[v][x].in \in Seq(Recs)
    BY <1>3, <2>7 DEF Sides
  <2> QED BY <2>6, <2>7, <2>8, <2>9 DEF Sides
<1>10. \A x \in Ends : \A v \in 1..used : /\ v \in DeadIn(tun, cut, x) => v \in DeadIn(tun', cut, x)
                                          /\ v \in WokenIn(tun, x) => v \in WokenIn(tun', x)
  BY <1>8 DEF DeadIn, WokenIn
<1>11. t \in Nat /\ used <= t
  BY <1>3
<1>12. \A x \in Ends : EndInv(flow[x], DeadIn(tun', cut, x), WokenIn(tun', x), t)
  <2>1. TAKE x \in Ends
  <2>2. EndInv(flow[x], DeadIn(tun, cut, x), WokenIn(tun, x), used)
    BY EndIs DEF Holds
  <2> QED BY <1>3, <1>10, <1>11, <2>2, MoreDead
<1>13. EndInv(g, DeadIn(tun', cut, e), WokenIn(tun', e), t)
  <2>1. EndInv(f, DeadIn(tun', cut, e), WokenIn(tun', e), t)
    BY <1>2, <1>12
  <2>2. DOMAIN f = flowFields /\ Atts(f.att)
    BY <2>1 DEF EndInv, Made
  <2>3. Same(f, g, {"att"}) /\ g.att = [f.att EXCEPT ![t] = a]
    BY <1>6, <2>2 DEF Same, With, flowFields
  <2>4. DOMAIN g.att = Tunnels /\ g.att[t] = a /\ \A v \in Tunnels \ {t} : g.att[v] = f.att[v]
    BY <2>2, <2>3 DEF Atts
  <2>5. Atts(g.att)
    BY <1>5, <2>2, <2>4 DEF Atts
  <2>6. \A v \in Tunnels : f.att[v].pc # "none" => v \in 1..t
    BY <2>1 DEF EndInv, Located
  <2>7. t \in 1..t
    BY <1>3
  <2>8. \A v \in Tunnels : /\ Freezing(g, v) => Freezing(f, v) /\ g.att[v].mode = f.att[v].mode
                           /\ Settles(g, v) => Settles(f, v) \/ Parked(f)
                           /\ g.att[v].pc # "none" => v \in 1..t
    BY <1>5, <2>4, <2>6, <2>7 DEF Freezing, Settles
  <2> QED BY <2>1, <2>3, <2>5, <2>8, AttsKeep
<1>14. \A x \in Ends : DeadIn(tun, cut, x)' = DeadIn(tun', cut, x) /\ WokenIn(tun, x)' = WokenIn(tun', x)
  BY <1>7 DEF DeadIn, WokenIn
<1>15. EndOK(e)'
  BY <1>3, <1>7, <1>13, <1>14, NextIs
<1>16. EndOK(p)'
  BY <1>3, <1>7, <1>12, <1>14, NextIs
<1> QED BY <1>1, <1>3, <1>7, <1>9, <1>15, <1>16 DEF FlowInv

LEMMA OpenMoveKeeps == ASSUME FlowInv, NEW t \in Tunnels, OpenMove(t) \/ OpenResume(t) PROVE FlowInv'
<1>1. moves' \in Nat
  BY DEF FlowInv, OpenMove, OpenResume
<1> QED BY <1>1, OpenKeeps DEF OpenMove, OpenResume

\* No end moves: what is on the tunnels may be lost, and sessions die.
LEMMA SidesLose ==
    ASSUME FlowInv, Sides(tun'), flow' = flow, used' = used, moves' = moves, sc' = sc, cut \subseteq cut',
           \A t \in Tunnels, e \in Ends : tun'[t][e].open = tun[t][e].open /\ tun'[t][e].wake = tun[t][e].wake
    PROVE  FlowInv'
<1>1. \A e \in Ends : EndOK(e)'
  <2>1. TAKE e \in Ends
  <2>2. EndInv(flow[e], DeadIn(tun, cut, e), WokenIn(tun, e), used) /\ used \in Nat /\ 1..used \subseteq Tunnels
    BY EndIs DEF Holds
  <2>3. \A v \in 1..used : /\ v \in DeadIn(tun, cut, e) => v \in DeadIn(tun', cut', e)
                           /\ v \in WokenIn(tun, e) => v \in WokenIn(tun', e)
    BY PeerIs DEF DeadIn, WokenIn
  <2>4. EndInv(flow[e], DeadIn(tun', cut', e), WokenIn(tun', e), used)
    BY <2>2, <2>3, MoreDead
  <2>5. DeadIn(tun, cut, e)' = DeadIn(tun', cut', e) /\ WokenIn(tun, e)' = WokenIn(tun', e)
    BY DEF DeadIn, WokenIn
  <2> QED BY <2>4, <2>5, NextIs
<1> QED BY <1>1 DEF FlowInv

\* A session dies.
LEMMA LoseKeeps == ASSUME FlowInv, NEW t \in Tunnels, Lose(t) PROVE FlowInv'
<1>1. PICK e \in Ends, p \in Ends : e = "server" /\ p = "client" /\ e # p /\ \A x \in Ends : x = e \/ x = p
  BY DEF Ends
<1>2. Sides(tun)
  BY EndIs
<1>3. PICK i \in Seq(Recs), j \in Seq(Recs) : i = tun[t][e].in /\ j = tun[t][p].in
  BY <1>2 DEF Sides
<1>4. PICK s \in 0..Len(i), c \in 0..Len(j) :
        tun' = [tun EXCEPT ![t][e].in = SubSeq(@, 1, s), ![t][p].in = SubSeq(@, 1, c)]
  BY <1>1, <1>3 DEF Lose
<1>5. SubSeq(i, 1, s) \in Seq(Recs) /\ SubSeq(j, 1, c) \in Seq(Recs)
  OBVIOUS
<1>6. PICK k \in Seq(Recs), l \in Seq(Recs) : k = SubSeq(i, 1, s) /\ l = SubSeq(j, 1, c)
  BY <1>5
<1>7. DOMAIN tun = Tunnels /\ DOMAIN tun[t] = Ends /\ DOMAIN tun[t][e] = sideFields /\ DOMAIN tun[t][p] = sideFields
  BY <1>2 DEF Sides
<1>8. PICK a : a = [tun[t][e] EXCEPT !.in = k]
  OBVIOUS
<1>9. PICK b : b = [tun[t][p] EXCEPT !.in = l]
  OBVIOUS
<1>10. DOMAIN a = sideFields /\ a.in = k /\ a.open = tun[t][e].open /\ a.wake = tun[t][e].wake
  BY <1>7, <1>8 DEF sideFields
<1>11. DOMAIN b = sideFields /\ b.in = l /\ b.open = tun[t][p].open /\ b.wake = tun[t][p].wake
  BY <1>7, <1>9 DEF sideFields
<1>12. PICK tm : tm = [tun EXCEPT ![t][e] = a]
  OBVIOUS
<1>13. SideSet(tun, tm, t, e, a)
  BY <1>2, <1>10, <1>12, SideIs
<1>14. PICK to : to = [tm EXCEPT ![t][p] = b]
  OBVIOUS
<1>a. Sides(tm)
  BY <1>13 DEF SideSet
<1>15. SideSet(tm, to, t, p, b)
  BY <1>11, <1>14, <1>a, SideIs
<1>16. tun' = to
  BY <1>1, <1>3, <1>4, <1>6, <1>7, <1>8, <1>9, <1>12, <1>14
<1>17. \A v \in Tunnels, x \in Ends : to[v][x].open = tun[v][x].open /\ to[v][x].wake = tun[v][x].wake
  BY <1>1, <1>10, <1>11, <1>13, <1>15 DEF SideSet
<1>18. Sides(to)
  BY <1>15 DEF SideSet
<1>19. flow' = flow /\ used' = used /\ moves' = moves /\ sc' = sc /\ cut \subseteq cut'
  BY DEF Lose
<1> QED BY <1>16, <1>17, <1>18, <1>19, SidesLose

\* The server notices, or gives up on a move.
LEMMA SessionLostKeeps == ASSUME FlowInv, SessionLost PROVE FlowInv'
<1>1. PICK e \in Ends : e = "server"
  BY DEF Ends
<1> QED BY <1>1, EndIs, SuspendKeeps DEF SessionLost, CanSuspend

LEMMA GiveUpMoveKeeps == ASSUME FlowInv, GiveUpMove PROVE FlowInv'
<1>1. PICK e \in Ends : e = "server"
  BY DEF Ends
<1>2. PICK g : g = Suspended(flow[e])
  OBVIOUS
<1>3. PICK tm : tm = SuspendTun(tun, flow[e], e)
  OBVIOUS
<1>4. Holds(e, g) /\ Grows(tun, tm)
  BY <1>1, <1>2, <1>3, EndIs, SuspendIs DEF GiveUpMove, CanSuspend
<1>5. Stepped(e, g, tm)
  BY <1>1, <1>2, <1>3 DEF GiveUpMove, Stepped
<1> QED BY <1>4, <1>5, StepGrows DEF Holds

LEMMA IdleStep == ASSUME FlowInv, UNCHANGED vars PROVE FlowInv'
<1>1. Sides(tun') /\ flow' = flow /\ used' = used /\ moves' = moves /\ sc' = sc /\ cut' = cut /\ tun' = tun
  BY DEF vars, FlowInv
<1> QED BY <1>1, SidesLose

-----------------------------------------------------------------------------
(* The theorems.                                                            *)

LEMMA FlowInvInit == Init => FlowInv
<1> SUFFICES ASSUME Init PROVE FlowInv
  OBVIOUS
<1>1. 1 \in Tunnels
  BY SwapperAssumption DEF Tunnels
<1>2. Sides(tun) /\ tun[1]["server"].open = TRUE
  <2>1. << >> \in Seq(Recs)
    OBVIOUS
  <2>2. DOMAIN tun = Tunnels /\ \A t \in Tunnels : DOMAIN tun[t] = Ends
    BY DEF Init
  <2>3. \A t \in Tunnels, e \in Ends : DOMAIN tun[t][e] = sideFields /\ tun[t][e].in = << >> /\ tun[t][e].open = (t = 1)
    BY DEF Init, sideFields
  <2> QED BY <1>1, <2>1, <2>2, <2>3 DEF Sides, Ends
<1>3. DOMAIN flow = Ends /\ used = 1 /\ moves = 0
  BY DEF Init
<1>4. ASSUME NEW e \in Ends
      PROVE  EndOK(e)
  <2>1. PICK f : f = flow[e]
    OBVIOUS
  <2>2. DOMAIN f = flowFields /\ DOMAIN f.up = upFields /\ DOMAIN f.dl = dlFields /\ DOMAIN f.ack = ackFields
    BY <2>1 DEF Init, flowFields, upFields, dlFields, ackFields
  <2>3. /\ f.cur = 1 /\ f.next = 0 /\ f.upDst = 1 /\ f.freezeReq = FALSE /\ f.frozen = FALSE /\ f.installed = FALSE
        /\ f.upSwitched = FALSE /\ f.dlSwitched = FALSE /\ f.upLimit = 0 /\ f.dlLimit = 0 /\ f.upEnded = FALSE
        /\ f.dlEnded = FALSE /\ f.aborted = "no" /\ f.done = FALSE /\ f.suspended = FALSE /\ f.upParked = FALSE
        /\ f.dlParked = FALSE /\ f.resumeConn = 0 /\ f.resumeFrom = 0 /\ f.upBytes = 0 /\ f.base = 0 /\ f.end = 0
        /\ f.read = 0 /\ f.got = << >>
    BY <2>1 DEF Init
  <2>4. /\ f.up.pc = "run" /\ f.up.dst = 1 /\ f.up.pend = 0 /\ f.dl.pc = "read" /\ f.dl.src = 1
        /\ f.ack.pc = "idle" /\ f.ack.sent = 0 /\ f.ack.endSent = FALSE /\ f.ack.c = 0 /\ f.ack.dl = 0
        /\ f.att = [t \in Tunnels |-> NoAttempt]
    BY <2>1 DEF Init
  <2>5. NoAttempt.pc = "none" /\ NoAttempt.own = 0 /\ DOMAIN NoAttempt = attFields
    BY DEF NoAttempt, attFields
  <2>6. DOMAIN f.att = Tunnels /\ \A t \in Tunnels : f.att[t] = NoAttempt
    BY <2>4
  <2>7. Made(f)
    BY <2>2, <2>5, <2>6 DEF Made, Atts
  <2>8. f.got \in Seq(Nat) /\ dlBytes(f) = 0
    BY <2>3 DEF dlBytes
  <2>9. Counts(f)
    BY <2>3, <2>4, <2>8 DEF Counts
  <2>10. Located(f, used)
    BY <1>3, <2>3, <2>4, <2>5, <2>6 DEF Located
  <2>11. Running(f)
    BY <2>3 DEF Running
  <2>12. Reserving(f) /\ Settling(f)
    BY <2>3, <2>5, <2>6 DEF Reserving, Freezing, Settling, Settles
  <2>13. UpWoken(f) /\ ParkedIs(f) /\ UpPlace(f) /\ DlPlace(f)
    BY <2>3, <2>4 DEF UpWoken, freeze, ParkedIs, UpPlace, DlPlace
  <2>14. ~Unacked(f)
    BY <2>3, <2>4, <2>8 DEF Unacked
  <2>15. Ctl(f, DeadIn(tun, cut, e), WokenIn(tun, e))
    BY <2>3, <2>4, <2>12, <2>13, <2>14 DEF Ctl, DlWoken, Swapping, AckOK
  <2> QED BY <2>1, <2>7, <2>9, <2>10, <2>11, <2>15 DEF EndOK, EndInv
<1> QED BY <1>1, <1>2, <1>3, <1>4 DEF FlowInv

LEMMA FlowInvNext == FlowInv /\ Prompted /\ Untorn /\ [Next]_vars => FlowInv'
<1> SUFFICES ASSUME FlowInv, Prompted, Untorn, [Next]_vars PROVE FlowInv'
  OBVIOUS
<1>1. CASE UNCHANGED vars
  BY <1>1, IdleStep
<1>2. ASSUME NEW e \in Ends,
             Upload(e) \/ Download(e) \/ KickAck(e) \/ FlushAck(e) \/ Finish(e) \/ WindowExpires(e) \/ AppFails(e)
      PROVE  FlowInv'
  BY <1>2, UploadKeeps, DownloadKeeps, KickAckKeeps, FlushAckKeeps, FinishKeeps, GiveUpKeeps
<1>3. ASSUME NEW e \in Ends, NEW t \in Tunnels,
             ServeAcks(e, t) \/ Release(e, t) \/ Handshake(e, t) \/ HandshakeTimeout(e, t)
      PROVE  FlowInv'
  BY <1>3, ServeAcksKeeps, ReleaseKeeps, HandshakeKeeps, HandshakeTimeoutKeeps
<1>4. ASSUME NEW t \in Tunnels,
             \/ OpenMove(t) \/ OpenResume(t) \/ ReadVerdict(t) \/ ReadAttach(t) \/ WriteAccept(t) \/ Cut(t) \/ Retire(t)
      PROVE  FlowInv'
  BY <1>4, OpenMoveKeeps, ReadVerdictKeeps, ReadAttachKeeps, WriteAcceptKeeps, LoseKeeps DEF Cut, Retire
<1>5. CASE SessionLost \/ GiveUpMove \/ Finished
  BY <1>5, SessionLostKeeps, GiveUpMoveKeeps, IdleStep DEF Finished
<1> QED BY <1>1, <1>2, <1>3, <1>4, <1>5 DEF Next

LEMMA FlowInvHolds == Spec /\ []Prompted /\ []Untorn => []FlowInv
<1>1. FlowInv /\ Prompted /\ Untorn /\ [Next]_vars => FlowInv'
  BY FlowInvNext
<1> QED BY <1>1, FlowInvInit, PTL DEF Spec

LEMMA PumpsFollow == FlowInv => PumpsAreWoken
<1> SUFFICES ASSUME FlowInv, NEW e \in Ends PROVE UploadIsWoken(flow[e]) /\ DownloadIsWoken(e, flow[e])
  BY DEF PumpsAreWoken
<1>1. PICK f : f = flow[e]
  OBVIOUS
<1>2. Holds(e, f)
  BY <1>1, EndIs
<1>3. CASE ~Running(f)
  BY <1>1, <1>2, <1>3 DEF Holds, EndInv, Stopped, UploadIsWoken, DownloadIsWoken
<1>4. CASE Running(f)
  <2>1. UpWoken(f) /\ DlWoken(f, WokenIn(tun, e)) /\ f.got \in Seq(Nat) /\ f.dlLimit \in Nat
    BY <1>2, <1>4 DEF Holds, EndInv, Ctl, Counts
  <2>2. UploadIsWoken(f)
    BY <2>1 DEF UpWoken, UploadIsWoken, freeze
  <2>3. DownloadIsWoken(e, f)
    BY <2>1 DEF DlWoken, DownloadIsWoken, WokenIn, Ended, dlBytes
  <2> QED BY <1>1, <2>2, <2>3
<1> QED BY <1>3, <1>4

LEMMA AcksFollow == FlowInv => NoForgottenAck
<1> SUFFICES ASSUME FlowInv, NEW e \in Ends, Replay, Running(flow[e]), ~flow[e].suspended, ~flow[e].freezeReq,
                    Unacked(flow[e])
             PROVE  \/ flow[e].ack.kick \/ flow[e].ack.pc # "idle"
                    \/ flow[e].upDst \in cut \/ ~tun[flow[e].upDst][e].open \/ ~tun[flow[e].upDst][Peer(e)].open
  BY DEF NoForgottenAck
<1>1. Reserving(flow[e]) /\ AckOK(flow[e], DeadIn(tun, cut, e))
  BY EndIs DEF Holds, EndInv, Ctl
<1>2. ~flow[e].installed
  BY <1>1 DEF Reserving
<1> QED BY <1>1, <1>2 DEF AckOK, DeadIn

LEMMA NextFollows == FlowInv => NextIsPublished
<1> SUFFICES ASSUME FlowInv, NEW e \in Ends, Running(flow[e]), ~flow[e].suspended,
                    flow[e].up.pc = "wake" \/ flow[e].dl.pc = "switch"
             PROVE  flow[e].next # 0
  BY DEF NextIsPublished
<1>1. UpPlace(flow[e]) /\ DlPlace(flow[e])
  BY EndIs DEF Holds, EndInv, Ctl
<1> QED BY <1>1 DEF UpPlace, DlPlace

\* For any lengths, moves, cuts and faults: an upload pump that a freeze or a
\* suspension waits for has its app read's deadline armed, and a download pump
\* that Install finds at the boundary is woken on the old tunnel.
THEOREM PumpsWoken == Spec /\ []Prompted /\ []Untorn => []PumpsAreWoken
<1>1. FlowInv => PumpsAreWoken
  BY PumpsFollow
<1> QED BY <1>1, FlowInvHolds, PTL

\* What an app has been given is acknowledged in the end: kickAck and flushAck
\* leave nothing unsaid on a tunnel that works, whatever swap or resume resets
\* the bookkeeping between two of their steps.
THEOREM AcksNotForgotten == Spec /\ []Prompted /\ []Untorn => []NoForgottenAck
<1>1. FlowInv => NoForgottenAck
  BY AcksFollow
<1> QED BY <1>1, FlowInvHolds, PTL

\* The flags left by a swap that a suspension cut short are the only way to the
\* nil tunnel: where none is left, a pump that is released to switch finds
\* p.next published.
THEOREM NextPublished == Spec /\ []Prompted /\ []Untorn => []NextIsPublished
<1>1. FlowInv => NextIsPublished
  BY NextFollows
<1> QED BY <1>1, FlowInvHolds, PTL

-----------------------------------------------------------------------------
(* The bytes of a flow that is not moved: what is on a tunnel, record by    *)
(* record, and where in the stream it belongs.                              *)

\* The records of q take their reader from byte a to byte b of the stream: data
\* in order, END (if u allows one) behind all L bytes, and nothing beyond byte m.
LineBy(q, a, b, m, L, u, pos) ==
    /\ pos \in [0..Len(q) -> 0..m] /\ pos[0] = a /\ pos[Len(q)] = b
    /\ \A i \in 1..Len(q) :
          IF q[i][1] = "data" THEN pos[i] = pos[i - 1] + 1 /\ q[i][2] = pos[i]
          ELSE pos[i] = pos[i - 1] /\ (q[i][1] = "end" => pos[i] = L /\ u)
Line(q, a, b, m, L, u) == \E pos : LineBy(q, a, b, m, L, u, pos)

Has1(q, k) == \E i \in 1..Len(q) : q[i][1] = k
Bare(q)    == ~Has1(q, "data") /\ ~Has1(q, "end")

\* Without data and END there is nothing to read.
LEMMA LineBare ==
    ASSUME NEW q \in Seq(Recs), Bare(q), NEW m \in Nat, NEW a \in 0..m, NEW L, NEW u
    PROVE  Line(q, a, a, m, L, u)
<1> DEFINE pos == [i \in 0..Len(q) |-> a]
<1>1. Len(q) \in Nat
  OBVIOUS
<1>2. pos \in [0..Len(q) -> 0..m] /\ pos[0] = a /\ pos[Len(q)] = a
  BY <1>1
<1>3. \A i \in 1..Len(q) : pos[i] = a /\ pos[i - 1] = a
  BY <1>1
<1> HIDE DEF pos
<1>4. LineBy(q, a, a, m, L, u, pos)
  BY <1>2, <1>3 DEF LineBy, Bare, Has1
<1> QED BY <1>4 DEF Line

\* The ends of a line are numbers.
LEMMA LineEnds ==
    ASSUME NEW q \in Seq(Recs), NEW a, NEW b, NEW m \in Nat, NEW L, NEW u, Line(q, a, b, m, L, u)
    PROVE  a \in 0..m /\ b \in 0..m
<1>1. Len(q) \in Nat
  OBVIOUS
<1> QED BY <1>1 DEF Line, LineBy

\* More may be written later.
LEMMA LineMore ==
    ASSUME NEW q \in Seq(Recs), NEW a, NEW b, NEW m \in Nat, NEW k \in Nat, m <= k, NEW L, NEW u, NEW v,
           u => v, Line(q, a, b, m, L, u)
    PROVE  Line(q, a, b, k, L, v)
<1>1. PICK pos : LineBy(q, a, b, m, L, u, pos)
  BY DEF Line
<1>2. LineBy(q, a, b, k, L, v, pos)
  BY <1>1 DEF LineBy
<1> QED BY <1>2 DEF Line

\* The first record is read.
LEMMA LineTail ==
    ASSUME NEW q \in Seq(Recs), q # << >>, NEW a, NEW b, NEW m \in Nat, NEW L, NEW u, Line(q, a, b, m, L, u)
    PROVE  /\ Head(q)[1] = "data" => Head(q)[2] = a + 1 /\ a + 1 <= m /\ Line(Tail(q), a + 1, b, m, L, u)
           /\ Head(q)[1] # "data" => Line(Tail(q), a, b, m, L, u)
           /\ Head(q)[1] = "end" => a = L /\ u
<1>1. PICK pos : LineBy(q, a, b, m, L, u, pos)
  BY DEF Line
<1>2. Len(q) \in Nat /\ Len(q) >= 1 /\ Head(q) = q[1]
  OBVIOUS
<1>3. Tail(q) \in Seq(Recs) /\ Len(Tail(q)) = Len(q) - 1 /\ \A i \in 1..(Len(q) - 1) : Tail(q)[i] = q[i + 1]
  BY <1>2
<1> DEFINE nxt == [i \in 0..(Len(q) - 1) |-> pos[i + 1]]
<1>4. pos[1] \in 0..m /\ pos[0] = a /\ pos \in [0..Len(q) -> 0..m] /\ pos[Len(q)] = b
  BY <1>1, <1>2 DEF LineBy
<1>5. nxt \in [0..(Len(q) - 1) -> 0..m] /\ nxt[0] = pos[1] /\ nxt[Len(q) - 1] = b
  BY <1>2, <1>4
<1>6. \A i \in 1..(Len(q) - 1) : nxt[i] = pos[i + 1] /\ nxt[i - 1] = pos[i] /\ i + 1 \in 1..Len(q) /\ (i + 1) - 1 = i
  BY <1>2
<1> HIDE DEF nxt
<1>7. ASSUME NEW i \in 1..(Len(q) - 1)
      PROVE  IF Tail(q)[i][1] = "data" THEN nxt[i] = nxt[i - 1] + 1 /\ Tail(q)[i][2] = nxt[i]
             ELSE nxt[i] = nxt[i - 1] /\ (Tail(q)[i][1] = "end" => nxt[i] = L /\ u)
  <2>1. PICK j \in 1..Len(q) : j = i + 1 /\ j - 1 = i
    BY <1>6
  <2>2. Tail(q)[i] = q[j] /\ nxt[i] = pos[j] /\ nxt[i - 1] = pos[j - 1]
    BY <1>3, <1>6, <2>1
  <2>3. IF q[j][1] = "data" THEN pos[j] = pos[j - 1] + 1 /\ q[j][2] = pos[j]
        ELSE pos[j] = pos[j - 1] /\ (q[j][1] = "end" => pos[j] = L /\ u)
    BY <1>1 DEF LineBy
  <2> QED BY <2>2, <2>3
<1>8. LineBy(Tail(q), pos[1], b, m, L, u, nxt)
  BY <1>3, <1>5, <1>7 DEF LineBy
<1>9. IF q[1][1] = "data" THEN pos[1] = a + 1 /\ q[1][2] = pos[1]
      ELSE pos[1] = a /\ (q[1][1] = "end" => a = L /\ u)
  BY <1>1, <1>2 DEF LineBy
<1> QED BY <1>2, <1>4, <1>8, <1>9 DEF Line

\* The rest of the line is lost.
LEMMA LinePart ==
    ASSUME NEW q \in Seq(Recs), NEW a, NEW b, NEW m \in Nat, NEW L, NEW u, Line(q, a, b, m, L, u),
           NEW k \in 0..Len(q)
    PROVE  \E c \in 0..m : Line(SubSeq(q, 1, k), a, c, m, L, u)
<1>1. PICK pos : LineBy(q, a, b, m, L, u, pos)
  BY DEF Line
<1>2. Len(q) \in Nat /\ k \in Nat /\ k <= Len(q)
  OBVIOUS
<1>a. SubSeq(q, 1, k) \in Seq(Recs)
  OBVIOUS
<1>3. PICK p \in Seq(Recs) : p = SubSeq(q, 1, k)
  BY <1>a
<1>4. Len(p) = k /\ \A i \in 1..k : p[i] = q[i]
  BY <1>2, <1>3
<1> DEFINE prt == [i \in 0..k |-> pos[i]]
<1>5. pos \in [0..Len(q) -> 0..m] /\ pos[0] = a
  BY <1>1 DEF LineBy
<1>6. prt \in [0..k -> 0..m] /\ prt[0] = a /\ prt[k] = pos[k] /\ pos[k] \in 0..m
  BY <1>2, <1>5
<1>7. \A i \in 1..k : prt[i] = pos[i] /\ prt[i - 1] = pos[i - 1] /\ i \in 1..Len(q)
  BY <1>2
<1> HIDE DEF prt
<1>8. \A i \in 1..k : IF p[i][1] = "data" THEN prt[i] = prt[i - 1] + 1 /\ p[i][2] = prt[i]
                      ELSE prt[i] = prt[i - 1] /\ (p[i][1] = "end" => prt[i] = L /\ u)
  BY <1>1, <1>4, <1>7 DEF LineBy
<1>9. LineBy(p, a, pos[k], m, L, u, prt)
  BY <1>4, <1>6, <1>8 DEF LineBy
<1> QED BY <1>3, <1>6, <1>9 DEF Line

\* One line behind another.
LEMMA LineJoined ==
    ASSUME NEW q \in Seq(Recs), NEW r \in Seq(Recs), NEW a, NEW b, NEW c, NEW m \in Nat, NEW L, NEW u,
           Line(q, a, b, m, L, u), Line(r, b, c, m, L, u)
    PROVE  Line(q \o r, a, c, m, L, u)
<1>1. PICK pos : LineBy(q, a, b, m, L, u, pos)
  BY DEF Line
<1>2. PICK nxt : LineBy(r, b, c, m, L, u, nxt)
  BY DEF Line
<1>3. PICK n \in Nat : n = Len(q)
  OBVIOUS
<1>4. PICK k \in Nat : k = Len(r)
  OBVIOUS
<1>5. PICK p \in Seq(Recs) : p = q \o r
  BY Joined
<1>6. Len(p) = n + k /\ \A i \in 1..(n + k) : p[i] = IF i <= n THEN q[i] ELSE r[i - n]
  BY <1>3, <1>4, <1>5
<1> DEFINE all == [i \in 0..(n + k) |-> IF i <= n THEN pos[i] ELSE nxt[i - n]]
<1>7. pos \in [0..n -> 0..m] /\ pos[0] = a /\ pos[n] = b /\ nxt \in [0..k -> 0..m] /\ nxt[0] = b /\ nxt[k] = c
  BY <1>1, <1>2, <1>3, <1>4 DEF LineBy
<1>8. \A i \in 0..(n + k) : all[i] = (IF i <= n THEN pos[i] ELSE nxt[i - n]) /\ all[i] \in 0..m
  <2>1. ASSUME NEW i \in 0..(n + k) PROVE (i <= n => i \in 0..n) /\ (~(i <= n) => i - n \in 0..k)
    OBVIOUS
  <2> QED BY <1>7, <2>1
<1>9. all \in [0..(n + k) -> 0..m] /\ all[0] = a
  BY <1>7, <1>8
<1>10. all[n + k] = c
  <2>1. n + k \in 0..(n + k) /\ (n + k <= n => k = 0 /\ n + k = n) /\ (n + k) - n = k
    OBVIOUS
  <2> QED BY <1>7, <1>8, <2>1
<1> HIDE DEF all
<1>11. ASSUME NEW i \in 1..(n + k)
       PROVE  IF p[i][1] = "data" THEN all[i] = all[i - 1] + 1 /\ p[i][2] = all[i]
              ELSE all[i] = all[i - 1] /\ (p[i][1] = "end" => all[i] = L /\ u)
  <2>1. CASE i <= n
    <3>1. i \in 1..n /\ p[i] = q[i] /\ all[i] = pos[i] /\ all[i - 1] = pos[i - 1]
      <4>1. i \in 0..(n + k) /\ i - 1 \in 0..(n + k) /\ i - 1 <= n /\ i \in 1..n
        BY <2>1
      <4> QED BY <1>6, <1>8, <2>1, <4>1
    <3> QED BY <1>1, <1>3, <3>1 DEF LineBy
  <2>2. CASE i > n
    <3>1. i - n \in 1..k /\ p[i] = r[i - n] /\ all[i] = nxt[i - n]
      <4>1. i \in 0..(n + k) /\ ~(i <= n) /\ i - n \in 1..k /\ i \in 1..(n + k)
        BY <2>2
      <4>2. all[i] = nxt[i - n]
        BY <1>8, <4>1
      <4> QED BY <1>6, <4>1, <4>2
    <3>2. all[i - 1] = nxt[(i - n) - 1]
      <4>1. CASE i = n + 1
        BY <1>7, <1>8, <4>1
      <4>2. CASE i > n + 1
        <5>1. i - 1 \in 0..(n + k) /\ ~(i - 1 <= n) /\ (i - 1) - n = (i - n) - 1
          BY <4>2
        <5> QED BY <1>8, <5>1
      <4> QED BY <2>2, <4>1, <4>2
    <3> QED BY <1>2, <1>4, <3>1, <3>2 DEF LineBy
  <2> QED BY <2>1, <2>2
<1>12. LineBy(p, a, c, m, L, u, all)
  BY <1>6, <1>9, <1>10, <1>11 DEF LineBy
<1> QED BY <1>5, <1>12 DEF Line

\* One byte,
LEMMA LineData ==
    ASSUME NEW m \in Nat, NEW b \in Nat, b + 1 <= m, NEW L, NEW u
    PROVE  Line(<<<<"data", b + 1>>>>, b, b + 1, m, L, u)
<1> DEFINE q   == <<<<"data", b + 1>>>>
           pos == [i \in 0..1 |-> b + i]
<1>1. Len(q) = 1 /\ q[1] = <<"data", b + 1>>
  OBVIOUS
<1>2. pos \in [0..1 -> 0..m] /\ pos[0] = b /\ pos[1] = b + 1
  OBVIOUS
<1> HIDE DEF q, pos
<1>3. LineBy(q, b, b + 1, m, L, u, pos)
  BY <1>1, <1>2 DEF LineBy
<1> QED BY <1>3 DEF Line, q

\* the END,
LEMMA LineEnd ==
    ASSUME NEW m \in Nat, NEW L \in 0..m
    PROVE  Line(<<<<"end", 0>>>>, L, L, m, L, TRUE)
<1> DEFINE q   == <<<<"end", 0>>>>
           pos == [i \in 0..1 |-> L]
<1>1. Len(q) = 1 /\ q[1] = <<"end", 0>>
  OBVIOUS
<1>2. pos \in [0..1 -> 0..m] /\ pos[0] = L /\ pos[1] = L
  OBVIOUS
<1> HIDE DEF q, pos
<1>3. LineBy(q, L, L, m, L, TRUE, pos)
  BY <1>1, <1>2 DEF LineBy
<1> QED BY <1>3 DEF Line, q

\* and what a resume replays.
LEMMA LineRetained ==
    ASSUME NEW f, f.end \in Nat, NEW n \in Nat, n <= f.end, NEW m \in Nat, f.end <= m, NEW L, NEW u
    PROVE  Line(Retained(f, n), n, f.end, m, L, u) /\ ~Has1(Retained(f, n), "count") /\ ~Has1(Retained(f, n), "move")
<1> DEFINE k   == f.end - n
           q   == Retained(f, n)
           pos == [i \in 0..k |-> n + i]
<1>1. k \in Nat /\ n + k = f.end
  OBVIOUS
<1>2. q \in Seq(Recs)
  BY RetainedIs
<1>3. q = [i \in 1..k |-> <<"data", n + i>>]
  BY DEF Retained
<1> HIDE DEF k
<1>4. DOMAIN q = 1..k /\ \A i \in 1..k : q[i] = <<"data", n + i>>
  BY <1>3
<1>5. Len(q) = k
  <2>1. DOMAIN q = 1..Len(q) /\ Len(q) \in Nat
    BY <1>2
  <2> QED BY <1>1, <1>4, <2>1
<1>6. pos \in [0..k -> 0..m] /\ pos[0] = n /\ pos[k] = f.end /\ \A i \in 1..k : pos[i] = n + i /\ pos[i - 1] = n + (i - 1)
  BY <1>1
<1> HIDE DEF q, pos
<1>7. LineBy(q, n, f.end, m, L, u, pos)
  BY <1>4, <1>5, <1>6 DEF LineBy
<1>8. ~Has1(q, "count") /\ ~Has1(q, "move")
  BY <1>4, <1>5 DEF Has1
<1> QED BY <1>7, <1>8 DEF Line, q

-----------------------------------------------------------------------------
(* A flow that is not moved.                                                *)

\* No handshake of a move has touched this end.
Unmoved(f) ==
    /\ f.up.pc \in {"run", "full", "parked", "replay", "end", "done"}
    /\ f.dl.pc \in {"read", "decide", "parked", "done"}
    /\ ~f.freezeReq /\ ~f.frozen /\ ~f.installed /\ ~f.upSwitched /\ ~f.dlSwitched /\ f.next = 0 /\ f.rel = {}
    /\ \A t \in Tunnels : f.att[t].pc # "freezing" /\ (f.att[t].pc # "none" => f.att[t].mode = "resume")

\* The bytes of the app that have been retained or sent: all that were read but one held back.
Taken(f) == IF f.up.pend = 0 THEN f.read ELSE f.read - 1

\* One end by itself, whose app sends L bytes, with replay or without (R): the
\* tunnel its pumps are on, what a suspension finds, and its numbers.
Local(f, L, R) ==
    /\ Unmoved(f)
    /\ f.up.pc \in {"run", "full"} => f.up.dst = f.cur
    /\ f.up.pc = "replay" => f.resumeConn = f.cur /\ R
    /\ f.up.pc = "end" => f.upEnded
    /\ f.up.pc = "full" => f.up.pend # 0
    /\ \A t \in Tunnels : f.att[t].pc = "replay" => f.cur = t /\ R /\ f.upEnded
    /\ f.dl.pc \in {"read", "decide"} => f.dl.src = f.cur
    /\ f.suspended => R /\ (f.dl.pc \in {"read", "decide"} => f.writeDl)
    /\ f.up.pend \in {0, f.read} /\ (R => f.end = Taken(f)) /\ f.read <= L
    /\ f.upEnded => f.read = L /\ f.up.pend = 0 /\ f.up.pc \in {"end", "done"}
    /\ \A t \in Tunnels : Settles(f, t) => f.att[t].own = dlBytes(f)
    /\ \A i \in 1..Len(f.got) : f.got[i] = i
    /\ f.st = "eof" => f.dl.pc = "done"

\* The byte behind which the end writes next to the tunnel t it is on.
Replaying(f, t) == f.up.pc = "replay" \/ f.att[t].pc = "replay"
WritesFrom(f, t) == IF Replaying(f, t) THEN f.resumeFrom ELSE Taken(f)

\* An end f and its peer h, whose app sends L bytes: nothing is received that was
\* not sent, and the end of the stream is behind all of it.
Told(f) == f.st = "eof" \/ (f.dl.pc = "decide" /\ f.dl.err = "eof")
Pair(f, h, L) == dlBytes(f) <= h.read /\ (Told(f) => dlBytes(f) = L /\ h.upEnded)

\* The side s of end f on tunnel t, and the side r of its peer h (dead: the session
\* has died).  A resume's count is on its way once, to an end that is not on
\* the tunnel yet, and says what its sender has delivered; data and END come
\* from an end that is on the tunnel and has had its peer's count.
Counted1(q)   == \A i, j \in 1..Len(q) : q[i][1] = "count" /\ q[j][1] = "count" => i = j
HasSaid(f, t) == f.att[t].pc = "readcount" \/ f.cur = t
Listens(f, t) == f.cur = t \/ Settles(f, t)
Side(f, s, t) ==
    /\ ~s.open => s.in = << >>
    /\ Counted1(s.in) /\ ~Has1(s.in, "move")
    /\ Has1(s.in, "count") => f.cur # t
    /\ s.open /\ f.cur = t => Running(f) /\ ~f.suspended
    /\ s.open /\ f.up.pc = "end" /\ f.up.dst = t => f.cur = t /\ f.att[t].pc # "replay"
Follows(f, h, s, r, t, dead, L) ==
    s.open /\ Listens(f, t) =>
        \E b \in 0..h.read : /\ Line(s.in, dlBytes(f), b, h.read, L, h.upEnded)
                             /\ r.open /\ h.cur = t /\ ~dead => b = WritesFrom(h, t)
Tied(f, h, s, r, t, dead, L) ==
    /\ Side(f, s, t)
    /\ s.open /\ ~HasSaid(f, t) => Bare(s.in) /\ ~Has1(r.in, "count") /\ h.cur # t
    /\ r.open /\ h.cur # t => Bare(s.in)
    /\ s.open => \A i \in 1..Len(r.in) : r.in[i][1] = "count" => r.in[i][2] = dlBytes(f)
    /\ Follows(f, h, s, r, t, dead, L)

Bound(e, f, h, tn) ==
    /\ Pair(f, h, AppLen[Peer(e)]) /\ Pair(h, f, AppLen[e])
    /\ \A t \in Tunnels : /\ Tied(f, h, tn[t][e], tn[t][Peer(e)], t, t \in cut, AppLen[Peer(e)])
                          /\ Tied(h, f, tn[t][Peer(e)], tn[t][e], t, t \in cut, AppLen[e])

\* What is on the tunnels of a flow that is not moved.
Faithful ==
    /\ moves = 0 /\ sc \in Scenarios
    /\ \A e \in Ends : Local(flow[e], AppLen[e], Replay) /\ Bound(e, flow[e], flow[Peer(e)], tun)

-----------------------------------------------------------------------------
(* Steps that put neither data nor END nor a count on a tunnel.             *)

\* r grows by such records only.
Longer(q, p) ==
    /\ Len(q) <= Len(p) /\ \A i \in 1..Len(q) : p[i] = q[i]
    /\ \A i \in 1..Len(p) : i > Len(q) => p[i][1] \notin {"data", "end", "count", "move"}

\* A step of the end that owns s: s is left alone, read or closed.
Drift(s, s2, r, r2) ==
    /\ s.in \in Seq(Recs) /\ r.in \in Seq(Recs) /\ s2.in \in Seq(Recs) /\ r2.in \in Seq(Recs)
    /\ r2.open = r.open /\ Longer(r.in, r2.in) /\ (~r.open => r2.in = r.in)
    /\ s2.open => s.open
    /\ \/ s2.open = s.open /\ s2.in = s.in
       \/ s2.open = s.open /\ s.in # << >> /\ Head(s.in)[1] # "data" /\ s2.in = Tail(s.in)
       \/ ~s2.open /\ s2.in = << >>

\* The end goes from f to g and stays on its tunnel.
Stays(f, g) == g.cur = f.cur /\ g.got = f.got /\ f.read <= g.read /\ (f.upEnded => g.upEnded)
Calm(f, g, t, o) ==
    /\ o => /\ f.att[t].pc = "readcount" => g.att[t].pc = "readcount" \/ g.cur = t
            /\ Settles(g, t) => Settles(f, t) \/ f.cur = t
            /\ g.up.pc = "end" /\ g.up.dst = t => g.cur = t /\ g.att[t].pc # "replay"
    /\ o /\ g.cur = t => Running(g) /\ ~g.suspended /\ WritesFrom(g, t) = WritesFrom(f, t)

LEMMA LongerHas ==
    ASSUME NEW q \in Seq(Recs), NEW p \in Seq(Recs), Longer(q, p)
    PROVE  /\ Has1(p, "data") <=> Has1(q, "data")
           /\ Has1(p, "end") <=> Has1(q, "end")
           /\ Has1(p, "count") <=> Has1(q, "count")
           /\ Has1(p, "move") <=> Has1(q, "move")
           /\ \A i \in 1..Len(p) : p[i][1] = "count" => i \in 1..Len(q) /\ q[i] = p[i]
<1>1. Len(q) \in Nat /\ Len(p) \in Nat /\ Len(q) <= Len(p)
  BY DEF Longer
<1>2. \A i \in 1..Len(q) : i \in 1..Len(p) /\ p[i] = q[i]
  BY <1>1 DEF Longer
<1>3. \A i \in 1..Len(p) : i \in 1..Len(q) \/ p[i][1] \notin {"data", "end", "count", "move"}
  BY <1>1 DEF Longer
<1> QED BY <1>2, <1>3 DEF Has1

LEMMA LongerLine ==
    ASSUME NEW q \in Seq(Recs), NEW p \in Seq(Recs), Longer(q, p), NEW a, NEW b, NEW m \in Nat, NEW L, NEW u,
           Line(q, a, b, m, L, u)
    PROVE  Line(p, a, b, m, L, u)
<1>1. PICK pos : LineBy(q, a, b, m, L, u, pos)
  BY DEF Line
<1>2. PICK n \in Nat : n = Len(q)
  OBVIOUS
<1>3. PICK k \in Nat : k = Len(p) /\ n <= k
  BY <1>2 DEF Longer
<1> DEFINE all == [i \in 0..k |-> IF i <= n THEN pos[i] ELSE b]
<1>4. pos \in [0..n -> 0..m] /\ pos[0] = a /\ pos[n] = b /\ b \in 0..m
  BY <1>1, <1>2 DEF LineBy
<1>5. \A i \in 0..k : all[i] = (IF i <= n THEN pos[i] ELSE b) /\ all[i] \in 0..m
  <2>1. ASSUME NEW i \in 0..k PROVE (i <= n => i \in 0..n)
    OBVIOUS
  <2> QED BY <1>4, <2>1
<1>6. all \in [0..k -> 0..m] /\ all[0] = a /\ all[k] = b
  <2>1. k \in 0..k /\ 0 \in 0..k /\ (k <= n => k = n)
    BY <1>3
  <2> QED BY <1>4, <1>5, <2>1
<1> HIDE DEF all
<1>7. ASSUME NEW i \in 1..k
      PROVE  IF p[i][1] = "data" THEN all[i] = all[i - 1] + 1 /\ p[i][2] = all[i]
             ELSE all[i] = all[i - 1] /\ (p[i][1] = "end" => all[i] = L /\ u)
  <2>0. i \in 0..k /\ i - 1 \in 0..k
    OBVIOUS
  <2>1. CASE i <= n
    <3>1. i \in 1..n /\ i - 1 <= n
      BY <2>1
    <3>2. p[i] = q[i] /\ all[i] = pos[i] /\ all[i - 1] = pos[i - 1]
      BY <1>2, <1>5, <2>0, <2>1, <3>1 DEF Longer
    <3> QED BY <1>1, <1>2, <3>1, <3>2 DEF LineBy
  <2>2. CASE i > n
    <3>1. p[i][1] \notin {"data", "end"}
      BY <1>2, <1>3, <2>2 DEF Longer
    <3>2. all[i] = b
      BY <1>5, <2>0, <2>2
    <3>3. all[i - 1] = b
      <4>1. i - 1 <= n => i - 1 = n
        BY <2>2
      <4> QED BY <1>4, <1>5, <2>0, <4>1
    <3> QED BY <3>1, <3>2, <3>3
  <2> QED BY <2>1, <2>2
<1>8. LineBy(p, a, b, m, L, u, all)
  BY <1>3, <1>6, <1>7 DEF LineBy
<1> QED BY <1>8 DEF Line

\* Reading a record that is no data takes nothing away but a count.
LEMMA TailHas ==
    ASSUME NEW q \in Seq(Recs), q # << >>
    PROVE  /\ \A k : Has1(Tail(q), k) => Has1(q, k)
           /\ Counted1(q) => Counted1(Tail(q)) /\ (Head(q)[1] = "count" => ~Has1(Tail(q), "count"))
           /\ \A i \in 1..Len(Tail(q)) : i + 1 \in 1..Len(q) /\ Tail(q)[i] = q[i + 1]
<1>1. Len(q) \in Nat /\ Len(q) >= 1 /\ Head(q) = q[1]
  OBVIOUS
<1>2. Tail(q) \in Seq(Recs) /\ Len(Tail(q)) = Len(q) - 1 /\ \A i \in 1..(Len(q) - 1) : Tail(q)[i] = q[i + 1]
  BY <1>1
<1>3. \A i \in 1..Len(Tail(q)) : i + 1 \in 1..Len(q) /\ Tail(q)[i] = q[i + 1] /\ i + 1 # 1
  BY <1>1, <1>2
<1>4. \A k : Has1(Tail(q), k) => Has1(q, k)
  BY <1>3 DEF Has1
<1>5. ASSUME Counted1(q) PROVE Counted1(Tail(q))
  <2>1. ASSUME NEW i \in 1..Len(Tail(q)), NEW j \in 1..Len(Tail(q)), Tail(q)[i][1] = "count", Tail(q)[j][1] = "count"
        PROVE  i = j
    <3>1. i + 1 = j + 1
      BY <1>3, <1>5, <2>1 DEF Counted1
    <3> QED BY <1>1, <1>2, <3>1
  <2> QED BY <2>1 DEF Counted1
<1>6. ASSUME Counted1(q), Head(q)[1] = "count" PROVE ~Has1(Tail(q), "count")
  <2>1. 1 \in 1..Len(q)
    BY <1>1
  <2> QED BY <1>1, <1>3, <1>6, <2>1 DEF Counted1, Has1
<1> QED BY <1>3, <1>4, <1>5, <1>6

\* What such a step leaves of the end that takes it,
LEMMA DriftMine ==
    ASSUME NEW f, NEW g, NEW h, NEW s, NEW s2, NEW r, NEW r2, NEW t, NEW dead, NEW L,
           Tied(f, h, s, r, t, dead, L), Drift(s, s2, r, r2), Stays(f, g), Calm(f, g, t, s2.open), h.read \in Nat
    PROVE  Tied(g, h, s2, r2, t, dead, L)
<1>1. g.cur = f.cur /\ dlBytes(g) = dlBytes(f)
  BY DEF Stays, dlBytes
<1>2. s.in \in Seq(Recs) /\ r.in \in Seq(Recs) /\ s2.in \in Seq(Recs) /\ r2.in \in Seq(Recs) /\ Longer(r.in, r2.in)
  BY DEF Drift
<1>3. /\ Has1(r2.in, "count") <=> Has1(r.in, "count")
      /\ \A i \in 1..Len(r2.in) : r2.in[i][1] = "count" => i \in 1..Len(r.in) /\ r.in[i] = r2.in[i]
  BY <1>2, LongerHas
<1>4. CASE ~s2.open
  <2>1. s2.in = << >>
    <3>1. s2.in = s.in /\ s2.open = s.open => s2.in = << >>
      BY <1>4 DEF Tied, Side
    <3>2. s.open = s2.open => s.in = << >>
      BY <1>4 DEF Tied, Side
    <3> QED BY <3>1, <3>2 DEF Drift
  <2>2. \A k : ~Has1(s2.in, k)
    BY <2>1 DEF Has1
  <2>3. Counted1(s2.in)
    BY <2>1 DEF Counted1
  <2> QED BY <1>4, <2>1, <2>2, <2>3 DEF Tied, Side, Bare, Follows
<1>5. CASE s2.open
  <2>1. s.open /\ (s2.in = s.in \/ (s.in # << >> /\ Head(s.in)[1] # "data" /\ s2.in = Tail(s.in)))
    BY <1>5 DEF Drift
  <2>2. (\A k : Has1(s2.in, k) => Has1(s.in, k)) /\ Counted1(s2.in)
    BY <1>2, <2>1, TailHas DEF Tied, Side
  <2>3. Side(g, s2, t)
    BY <1>1, <1>5, <2>1, <2>2 DEF Tied, Side, Calm
  <2>4. HasSaid(f, t) => HasSaid(g, t)
    BY <1>1, <1>5 DEF HasSaid, Calm
  <2>5. Listens(g, t) => Listens(f, t)
    BY <1>1, <1>5 DEF Listens, Calm
  <2>6. r2.open = r.open
    BY DEF Drift
  <2>7. ASSUME NEW b, Line(s.in, dlBytes(f), b, h.read, L, h.upEnded)
        PROVE  Line(s2.in, dlBytes(f), b, h.read, L, h.upEnded)
    <3>1. CASE s2.in = s.in
      BY <2>7, <3>1
    <3>2. CASE s.in # << >> /\ Head(s.in)[1] # "data" /\ s2.in = Tail(s.in)
      BY <1>2, <2>7, <3>2, LineTail
    <3> QED BY <2>1, <3>1, <3>2
  <2>8. Follows(g, h, s2, r2, t, dead, L)
    BY <1>1, <1>5, <2>1, <2>5, <2>6, <2>7 DEF Tied, Follows
  <2>9. s2.open /\ ~HasSaid(g, t) => Bare(s2.in) /\ ~Has1(r2.in, "count") /\ h.cur # t
    BY <1>3, <2>1, <2>2, <2>4 DEF Tied, Bare
  <2>10. r2.open /\ h.cur # t => Bare(s2.in)
    BY <2>2, <2>6 DEF Tied, Bare
  <2>11. \A i \in 1..Len(r2.in) : r2.in[i][1] = "count" => r2.in[i][2] = dlBytes(g)
    BY <1>1, <1>3, <2>1 DEF Tied
  <2> QED BY <2>3, <2>8, <2>9, <2>10, <2>11 DEF Tied
<1> QED BY <1>4, <1>5

\* and of its peer.
LEMMA DriftPeer ==
    ASSUME NEW f, NEW g, NEW h, NEW s, NEW s2, NEW r, NEW r2, NEW t, NEW dead, NEW M,
           Tied(h, f, r, s, t, dead, M), Drift(s, s2, r, r2), Stays(f, g), Calm(f, g, t, s2.open),
           f.read \in Nat, g.read \in Nat
    PROVE  Tied(h, g, r2, s2, t, dead, M)
<1>1. g.cur = f.cur /\ f.read <= g.read /\ (f.upEnded => g.upEnded)
  BY DEF Stays
<1>2. /\ s.in \in Seq(Recs) /\ r.in \in Seq(Recs) /\ s2.in \in Seq(Recs) /\ r2.in \in Seq(Recs) /\ Longer(r.in, r2.in)
      /\ r2.open = r.open /\ (~r.open => r2.in = r.in) /\ (s2.open => s.open)
  BY DEF Drift
<1>3. /\ Has1(r2.in, "data") <=> Has1(r.in, "data")
      /\ Has1(r2.in, "end") <=> Has1(r.in, "end")
      /\ Has1(r2.in, "count") <=> Has1(r.in, "count")
      /\ Has1(r2.in, "move") <=> Has1(r.in, "move")
      /\ \A i \in 1..Len(r2.in) : r2.in[i][1] = "count" => i \in 1..Len(r.in) /\ r.in[i] = r2.in[i]
  BY <1>2, LongerHas
<1>4. Counted1(r2.in)
  BY <1>3 DEF Tied, Side, Counted1
<1>5. Side(h, r2, t)
  BY <1>2, <1>3, <1>4 DEF Tied, Side
<1>6. \A i \in 1..Len(s2.in) : \E j \in 1..Len(s.in) : s2.in[i] = s.in[j]
  <2>1. CASE s2.in = s.in
    BY <2>1
  <2>2. CASE s.in # << >> /\ s2.in = Tail(s.in)
    BY <1>2, <2>2, TailHas
  <2>3. CASE s2.in = << >>
    BY <2>3
  <2> QED BY <2>1, <2>2, <2>3 DEF Drift
<1>7. Has1(s2.in, "count") => Has1(s.in, "count")
  BY <1>6 DEF Has1
<1>8. r2.open /\ ~HasSaid(h, t) => Bare(r2.in) /\ ~Has1(s2.in, "count") /\ g.cur # t
  BY <1>1, <1>2, <1>3, <1>7 DEF Tied, Bare
<1>9. s2.open /\ g.cur # t => Bare(r2.in)
  BY <1>1, <1>2, <1>3 DEF Tied, Bare
<1>10. r2.open => \A i \in 1..Len(s2.in) : s2.in[i][1] = "count" => s2.in[i][2] = dlBytes(h)
  BY <1>2, <1>6 DEF Tied
<1>11. ASSUME r2.open, Listens(h, t)
       PROVE  \E b \in 0..g.read : /\ Line(r2.in, dlBytes(h), b, g.read, M, g.upEnded)
                                   /\ s2.open /\ g.cur = t /\ ~dead => b = WritesFrom(g, t)
  <2>1. PICK b \in 0..f.read : /\ Line(r.in, dlBytes(h), b, f.read, M, f.upEnded)
                               /\ s.open /\ f.cur = t /\ ~dead => b = WritesFrom(f, t)
    BY <1>2, <1>11 DEF Tied, Follows
  <2>2. Line(r2.in, dlBytes(h), b, f.read, M, f.upEnded)
    BY <1>2, <2>1, LongerLine
  <2>3. Line(r2.in, dlBytes(h), b, g.read, M, g.upEnded)
    BY <1>1, <1>2, <2>2, LineMore
  <2>4. s2.open /\ g.cur = t /\ ~dead => b = WritesFrom(g, t)
    BY <1>1, <1>2, <2>1 DEF Calm
  <2> QED BY <1>1, <2>3, <2>4
<1> QED BY <1>5, <1>8, <1>9, <1>10, <1>11 DEF Tied, Follows

\* End e may go from f to g, and the tunnels from tn to tm.
Ready(e, f, g, tn, tm) ==
    /\ Stays(f, g) /\ g.read \in Nat
    /\ \A t \in Tunnels : Drift(tn[t][e], tm[t][e], tn[t][Peer(e)], tm[t][Peer(e)]) /\ Calm(f, g, t, tm[t][e].open)

LEMMA ReadyBound ==
    ASSUME NEW e \in Ends, NEW f, NEW g, NEW h, NEW tn, NEW tm, Bound(e, f, h, tn), Ready(e, f, g, tn, tm),
           f.read \in Nat, h.read \in Nat, h.got \in Seq(Nat), Pair(g, h, AppLen[Peer(e)])
    PROVE  Bound(e, g, h, tm)
<1>2. Pair(h, g, AppLen[e])
  BY DEF Bound, Pair, Ready, Stays, dlBytes
<1>3. ASSUME NEW t \in Tunnels
      PROVE  /\ Tied(g, h, tm[t][e], tm[t][Peer(e)], t, t \in cut, AppLen[Peer(e)])
             /\ Tied(h, g, tm[t][Peer(e)], tm[t][e], t, t \in cut, AppLen[e])
  <2>1. /\ Tied(f, h, tn[t][e], tn[t][Peer(e)], t, t \in cut, AppLen[Peer(e)])
        /\ Tied(h, f, tn[t][Peer(e)], tn[t][e], t, t \in cut, AppLen[e])
    BY DEF Bound
  <2>2. /\ Drift(tn[t][e], tm[t][e], tn[t][Peer(e)], tm[t][Peer(e)]) /\ Calm(f, g, t, tm[t][e].open)
        /\ Stays(f, g) /\ g.read \in Nat
    BY DEF Ready
  <2>3. Tied(g, h, tm[t][e], tm[t][Peer(e)], t, t \in cut, AppLen[Peer(e)])
    BY <2>1, <2>2, DriftMine
  <2>4. Tied(h, g, tm[t][Peer(e)], tm[t][e], t, t \in cut, AppLen[e])
    BY <2>1, <2>2, DriftPeer
  <2> QED BY <2>3, <2>4
<1> QED BY <1>2, <1>3 DEF Bound

\* A step of one end.
Turned(e, g, tm) == flow' = [flow EXCEPT ![e] = g] /\ tun' = tm /\ cut' = cut /\ moves' = moves /\ sc' = sc
LEMMA FaithfulStep ==
    ASSUME FlowInv, Faithful, NEW e \in Ends, NEW g, NEW tm, Turned(e, g, tm), Local(g, AppLen[e], Replay),
           Bound(e, g, flow[Peer(e)], tm)
    PROVE  Faithful'
<1>1. /\ DOMAIN flow' = Ends /\ flow'[e] = g /\ \A x \in Ends : x # e => flow'[x] = flow[x]
      /\ tun' = tm /\ cut' = cut /\ moves' = moves /\ sc' = sc
  BY DEF FlowInv, Turned
<1>2. PICK p \in Ends : p = Peer(e) /\ p # e /\ Peer(p) = e
  BY PeerIs
<1>3. AppLen' = AppLen /\ Replay' = Replay /\ flow'[p] = flow[p]
  BY <1>1, <1>2 DEF AppLen, Replay
<1>4. Local(flow[e], AppLen[e], Replay)'
  <2>1. Local(flow'[e], AppLen[e]', Replay')
    BY <1>1, <1>3
  <2> QED BY <2>1
<1>5. Local(flow[p], AppLen[p], Replay)'
  <2>1. Local(flow'[p], AppLen[p]', Replay')
    BY <1>3 DEF Faithful
  <2> QED BY <2>1
<1>6. Bound(e, flow[e], flow[Peer(e)], tun)'
  BY <1>1, <1>2, <1>3 DEF Bound
<1>7. Bound(p, flow[p], flow[Peer(p)], tun)'
  BY <1>1, <1>2, <1>3 DEF Bound
<1>8. \A x \in Ends : x = e \/ x = p
  BY <1>2 DEF Ends
<1>9. moves' = 0 /\ sc' \in Scenarios
  BY <1>1 DEF Faithful
<1> QED BY <1>4, <1>5, <1>6, <1>7, <1>8, <1>9 DEF Faithful

-----------------------------------------------------------------------------
(* What a step may leave of the tunnels, told by the one who takes it: the  *)
(* sides in X may have been read in any way, as they are about to be closed.*)

Loosely(s, s2, r, r2) ==
    /\ s.in \in Seq(Recs) /\ r.in \in Seq(Recs) /\ s2.in \in Seq(Recs) /\ r2.in \in Seq(Recs)
    /\ r2.open = r.open /\ Longer(r.in, r2.in) /\ (~r.open => r2.in = r.in)
    /\ s2.open => s.open
Drifts(e, tn, tm, X) ==
    /\ Sides(tm)
    /\ \A t \in Tunnels : /\ Loosely(tn[t][e], tm[t][e], tn[t][Peer(e)], tm[t][Peer(e)])
                          /\ t \notin X \/ ~tm[t][e].open =>
                                Drift(tn[t][e], tm[t][e], tn[t][Peer(e)], tm[t][Peer(e)])

\* Records that carry neither bytes nor a count.
Plain(ms) == ms \in Seq(Recs) /\ \A i \in 1..Len(ms) : ms[i][1] \notin {"data", "end", "count", "move"}

LEMMA LongerTwice ==
    ASSUME NEW q \in Seq(Recs), NEW p \in Seq(Recs), NEW o \in Seq(Recs), Longer(q, p), Longer(p, o)
    PROVE  Longer(q, o)
<1>1. PICK a \in Nat : a = Len(q)
  OBVIOUS
<1>2. PICK b \in Nat : b = Len(p)
  OBVIOUS
<1>3. PICK c \in Nat : c = Len(o)
  OBVIOUS
<1>4. a <= b /\ b <= c
  BY <1>1, <1>2, <1>3 DEF Longer
<1>5. \A i \in 1..a : i \in 1..b /\ o[i] = q[i]
  BY <1>1, <1>2, <1>4 DEF Longer
<1>6. ASSUME NEW i \in 1..c, i > a PROVE o[i][1] \notin {"data", "end", "count", "move"}
  <2>1. CASE i > b
    BY <1>2, <1>3, <2>1 DEF Longer
  <2>2. CASE i <= b
    <3>1. i \in 1..b
      BY <2>2
    <3>2. o[i] = p[i] /\ p[i][1] \notin {"data", "end", "count", "move"}
      BY <1>1, <1>2, <1>6, <3>1 DEF Longer
    <3> QED BY <3>2
  <2> QED BY <1>2, <2>1, <2>2
<1> QED BY <1>1, <1>3, <1>4, <1>5, <1>6 DEF Longer

LEMMA LongerSame == ASSUME NEW q \in Seq(Recs) PROVE Longer(q, q)
<1>1. Len(q) \in Nat
  OBVIOUS
<1> QED BY <1>1 DEF Longer

LEMMA LongerBy ==
    ASSUME NEW q \in Seq(Recs), NEW ms, Plain(ms)
    PROVE  Longer(q, q \o ms) /\ q \o ms \in Seq(Recs)
<1>1. ms \in Seq(Recs)
  BY DEF Plain
<1>2. PICK a \in Nat : a = Len(q)
  OBVIOUS
<1>3. PICK b \in Nat : b = Len(ms)
  BY <1>1
<1>4. PICK p \in Seq(Recs) : p = q \o ms
  BY <1>1, Joined
<1>5. Len(p) = a + b /\ \A i \in 1..(a + b) : p[i] = IF i <= a THEN q[i] ELSE ms[i - a]
  BY <1>1, <1>2, <1>3, <1>4
<1>6. ASSUME NEW i \in 1..(a + b), i > a PROVE p[i][1] \notin {"data", "end", "count", "move"}
  <2>1. i - a \in 1..b /\ ~(i <= a)
    BY <1>6
  <2>2. p[i] = ms[i - a]
    BY <1>5, <2>1
  <2> QED BY <1>3, <2>1, <2>2 DEF Plain
<1>7. \A i \in 1..a : i \in 1..(a + b) /\ p[i] = q[i]
  BY <1>5
<1> QED BY <1>2, <1>4, <1>5, <1>6, <1>7 DEF Longer

\* Nothing happens.
LEMMA DriftsNot ==
    ASSUME NEW tn, Sides(tn), NEW e \in Ends
    PROVE  Drifts(e, tn, tn, {})
<1>1. ASSUME NEW t \in Tunnels
      PROVE  /\ Loosely(tn[t][e], tn[t][e], tn[t][Peer(e)], tn[t][Peer(e)])
             /\ Drift(tn[t][e], tn[t][e], tn[t][Peer(e)], tn[t][Peer(e)])
  <2>1. tn[t][e].in \in Seq(Recs) /\ tn[t][Peer(e)].in \in Seq(Recs)
    BY PeerIs DEF Sides
  <2>2. Longer(tn[t][Peer(e)].in, tn[t][Peer(e)].in)
    BY <2>1, LongerSame
  <2> QED BY <2>1, <2>2 DEF Loosely, Drift
<1> QED BY <1>1 DEF Drifts

\* More may be read loosely.
LEMMA DriftsMore ==
    ASSUME NEW e, NEW tn, NEW tm, NEW X, NEW Y, Drifts(e, tn, tm, X), X \subseteq Y
    PROVE  Drifts(e, tn, tm, Y)
BY DEF Drifts

\* The end changes its own side, but neither its queue nor whether it is open.
LEMMA DriftsOwn ==
    ASSUME NEW e \in Ends, NEW tn, NEW tm, NEW X, Drifts(e, tn, tm, X), NEW t \in Tunnels, NEW s, NEW to,
           SideSet(tm, to, t, e, s), s.open = tm[t][e].open, s.in = tm[t][e].in
    PROVE  Drifts(e, tn, to, X)
<1>1. PICK p \in Ends : p = Peer(e) /\ p # e
  BY PeerIs
<1>2. \A u \in Tunnels : to[u][e].open = tm[u][e].open /\ to[u][e].in = tm[u][e].in /\ to[u][p] = tm[u][p]
  BY <1>1 DEF SideSet
<1> QED BY <1>1, <1>2 DEF Drifts, SideSet, Loosely, Drift

\* The end reads a record; it may be data if the tunnel is in X.
LEMMA DriftsPopped ==
    ASSUME Sides(tun), NEW t \in Tunnels, NEW e \in Ends, tun[t][e].in # << >>, NEW X,
           Head1(t, e)[1] # "data" \/ (t \in X /\ tun[t][e].open)
    PROVE  /\ Drifts(e, tun, Popped(t, e), X) /\ Popped(t, e)[t][e].open = tun[t][e].open
           /\ \A u \in Tunnels : u # t => Popped(t, e)[u][e] = tun[u][e]
<1>1. PICK tm : tm = Popped(t, e)
  OBVIOUS
<1>2. PICK s : SideSet(tun, tm, t, e, s) /\ Same(tun[t][e], s, {"in"}) /\ s.in = Tail(tun[t][e].in)
  BY <1>1, PoppedIs
<1>3. PICK p \in Ends : p = Peer(e) /\ p # e
  BY PeerIs
<1>4. s.open = tun[t][e].open
  BY <1>2 DEF Same, Sides, sideFields
<1>5. \A u \in Tunnels : tm[u][p] = tun[u][p] /\ (u # t => tm[u][e] = tun[u][e])
  BY <1>2, <1>3 DEF SideSet
<1>6. tm[t][e] = s /\ Sides(tm)
  BY <1>2 DEF SideSet
<1>7. \A u \in Tunnels : tun[u][e].in \in Seq(Recs) /\ tun[u][p].in \in Seq(Recs) /\ tm[u][e].in \in Seq(Recs)
  BY <1>6 DEF Sides
<1>8. \A u \in Tunnels : Longer(tun[u][p].in, tun[u][p].in)
  BY <1>7, LongerSame
<1>9. \A u \in Tunnels : Loosely(tun[u][e], tm[u][e], tun[u][p], tm[u][p])
  BY <1>4, <1>5, <1>6, <1>7, <1>8 DEF Loosely
<1>10. ASSUME NEW u \in Tunnels, u \notin X \/ ~tm[u][e].open PROVE Drift(tun[u][e], tm[u][e], tun[u][p], tm[u][p])
  <2>1. CASE u # t
    BY <1>5, <1>7, <1>8, <2>1 DEF Drift
  <2>2. CASE u = t
    <3>1. Head(tun[t][e].in)[1] # "data"
      BY <1>4, <1>6, <1>10, <2>2 DEF Head1
    <3> QED BY <1>2, <1>4, <1>5, <1>6, <1>7, <1>8, <2>2, <3>1 DEF Drift
  <2> QED BY <2>1, <2>2
<1> QED BY <1>1, <1>3, <1>4, <1>5, <1>6, <1>9, <1>10 DEF Drifts

\* The end writes.
LEMMA DriftsWritten ==
    ASSUME NEW e \in Ends, NEW tn, NEW tm, NEW X, Drifts(e, tn, tm, X), NEW t \in Tunnels, NEW ms, Plain(ms)
    PROVE  /\ Drifts(e, tn, Written(tm, t, e, ms), X)
           /\ \A u \in Tunnels : Written(tm, t, e, ms)[u][e] = tm[u][e]
<1>1. PICK to : to = Written(tm, t, e, ms)
  OBVIOUS
<1>2. PICK p \in Ends : p = Peer(e) /\ p # e
  BY PeerIs
<1>3. PICK s : /\ SideSet(tm, to, t, p, s) /\ Same(tm[t][p], s, {"in"})
               /\ s.in = IF t \in cut \/ ~tm[t][p].open THEN tm[t][p].in ELSE tm[t][p].in \o ms
  BY <1>1, <1>2, WrittenIs DEF Drifts, Plain
<1>4. s.open = tm[t][p].open
  BY <1>2, <1>3 DEF Same, Drifts, Sides, sideFields
<1>5. tm[t][p].in \in Seq(Recs)
  BY <1>2 DEF Drifts, Sides
<1>6. Longer(tm[t][p].in, s.in) /\ s.in \in Seq(Recs) /\ (~tm[t][p].open => s.in = tm[t][p].in)
  BY <1>3, <1>5, LongerBy, LongerSame
<1>7. \A u \in Tunnels : to[u][e] = tm[u][e] /\ (u # t => to[u][p] = tm[u][p])
  BY <1>2, <1>3 DEF SideSet
<1>8. to[t][p] = s /\ Sides(to)
  BY <1>3 DEF SideSet
<1>9. /\ tn[t][p].in \in Seq(Recs) /\ Longer(tn[t][p].in, tm[t][p].in)
      /\ tm[t][p].open = tn[t][p].open /\ (~tn[t][p].open => tm[t][p].in = tn[t][p].in)
  BY <1>2 DEF Drifts, Loosely
<1>10. Longer(tn[t][p].in, s.in)
  BY <1>5, <1>6, <1>9, LongerTwice
<1>11. s.open = tn[t][p].open /\ (~tn[t][p].open => s.in = tn[t][p].in)
  BY <1>4, <1>6, <1>9
<1>12. ASSUME NEW u \in Tunnels
       PROVE  /\ Loosely(tn[u][e], to[u][e], tn[u][p], to[u][p])
              /\ u \notin X \/ ~to[u][e].open => Drift(tn[u][e], to[u][e], tn[u][p], to[u][p])
  <2>1. CASE u # t
    BY <1>2, <1>7, <2>1 DEF Drifts
  <2>2. CASE u = t
    BY <1>2, <1>6, <1>7, <1>8, <1>9, <1>10, <1>11, <2>2 DEF Drifts, Loosely, Drift
  <2> QED BY <2>1, <2>2
<1> QED BY <1>1, <1>2, <1>7, <1>8, <1>12 DEF Drifts

\* The end closes its side.
LEMMA DriftsClosed ==
    ASSUME NEW e \in Ends, NEW tn, NEW tm, NEW X, Drifts(e, tn, tm, X), NEW t \in Tunnels \cup {0}, NEW loud
    PROVE  /\ Drifts(e, tn, Closed(tm, t, e, loud), X \ {t})
           /\ \A u \in Tunnels : /\ u # t => Closed(tm, t, e, loud)[u][e] = tm[u][e]
                                 /\ u = t => ~Closed(tm, t, e, loud)[u][e].open
<1>1. CASE t = 0 \/ ~tm[t][e].open
  <2>1. Closed(tm, t, e, loud) = tm
    BY <1>1 DEF Closed
  <2>2. \A u \in Tunnels : u \notin X \ {t} => u \notin X \/ ~tm[u][e].open
    <3>1. 0 \notin Tunnels
      BY DEF Tunnels
    <3> QED BY <1>1, <3>1
  <2>3. Drifts(e, tn, tm, X \ {t})
    BY <2>2 DEF Drifts
  <2>4. 0 \notin Tunnels
    BY DEF Tunnels
  <2> QED BY <1>1, <2>1, <2>3, <2>4
<1>2. CASE t \in Tunnels /\ tm[t][e].open
  <2>1. PICK to : to = Closed(tm, t, e, loud)
    OBVIOUS
  <2>2. Sides(tm)
    BY DEF Drifts
  <2>3. PICK ms, tw, s : ClosedAt(tm, to, t, e, ms, tw, s)
    BY <1>2, <2>1, <2>2, ClosedIs
  <2>4. Plain(ms)
    <3>1. \A i \in 1..Len(ms) : ms[i] = <<"abort", 0>> \/ ms[i] = <<"fin", 0>>
      BY <2>3 DEF ClosedAt, Lets
    <3>2. \A i \in 1..Len(ms) : ms[i][1] = "abort" \/ ms[i][1] = "fin"
      BY <3>1
    <3> QED BY <2>3, <3>2 DEF Plain, ClosedAt, Lets
  <2>5. Drifts(e, tn, tw, X) /\ \A u \in Tunnels : tw[u][e] = tm[u][e]
    BY <1>2, <2>3, <2>4, DriftsWritten DEF ClosedAt
  <2>6. PICK p \in Ends : p = Peer(e) /\ p # e
    BY PeerIs
  <2>7. \A u \in Tunnels : to[u][p] = tw[u][p] /\ (u # t => to[u][e] = tw[u][e])
    BY <2>3, <2>6 DEF ClosedAt, SideSet
  <2>8. Sides(to) /\ ~to[t][e].open /\ to[t][e].in = << >>
    BY <2>3 DEF ClosedAt, SideSet
  <2>9. ASSUME NEW u \in Tunnels
        PROVE  /\ Loosely(tn[u][e], to[u][e], tn[u][p], to[u][p])
               /\ u \notin X \ {t} \/ ~to[u][e].open => Drift(tn[u][e], to[u][e], tn[u][p], to[u][p])
    <3>1. CASE u # t
      BY <2>5, <2>6, <2>7, <3>1 DEF Drifts
    <3>2. CASE u = t
      <4>1. Loosely(tn[u][e], tw[u][e], tn[u][p], tw[u][p])
        BY <2>5, <2>6 DEF Drifts
      <4>2. << >> \in Seq(Recs)
        OBVIOUS
      <4>3. Loosely(tn[u][e], to[u][e], tn[u][p], to[u][p])
        BY <2>7, <2>8, <3>2, <4>1, <4>2 DEF Loosely
      <4> QED BY <2>8, <3>2, <4>3 DEF Loosely, Drift
    <3> QED BY <3>1, <3>2
  <2>10. Drifts(e, tn, to, X \ {t})
    BY <2>6, <2>8, <2>9 DEF Drifts
  <2> QED BY <2>1, <2>5, <2>7, <2>8, <2>10
<1> QED BY <1>1, <1>2

\* End e is as g and the tunnels as tm leave it, but for what happened to the
\* tunnels in X, all of it the end's own doing.
Drifting(e, g, tm, X) ==
    /\ Local(g, AppLen[e], Replay) /\ Stays(flow[e], g) /\ (Told(g) => Told(flow[e])) /\ g.read \in Nat
    /\ Drifts(e, tun, tm, X)
    /\ \A t \in Tunnels : t \notin X => Calm(flow[e], g, t, tm[t][e].open)

\* What the invariants say of one end.
LEMMA MineIs ==
    ASSUME FlowInv, Faithful, NEW e \in Ends
    PROVE  /\ Made(flow[e]) /\ Counts(flow[e]) /\ Local(flow[e], AppLen[e], Replay) /\ Unmoved(flow[e])
           /\ \A t \in Tunnels : Side(flow[e], tun[t][e], t)
           /\ Bound(e, flow[e], flow[Peer(e)], tun) /\ Sides(tun) /\ Drifts(e, tun, tun, {})
           /\ flow[e].cur \in Tunnels \cup {0} /\ flow[e].next = 0 /\ AppLen[e] \in Nat
<1>1. Holds(e, flow[e]) /\ Sides(tun)
  BY EndIs
<1>2. Made(flow[e]) /\ Counts(flow[e]) /\ flow[e].cur \in Tunnels \cup {0}
  BY <1>1, OnTunnels DEF Holds, EndInv
<1>3. Local(flow[e], AppLen[e], Replay) /\ Bound(e, flow[e], flow[Peer(e)], tun)
  BY DEF Faithful
<1>4. \A t \in Tunnels : Side(flow[e], tun[t][e], t)
  BY <1>3 DEF Bound, Tied
<1>5. Drifts(e, tun, tun, {})
  BY <1>1, DriftsNot
<1>6. Unmoved(flow[e]) /\ flow[e].next = 0
  BY <1>3 DEF Local, Unmoved
<1>7. AppLen[e] \in Nat
  BY SwapperAssumption DEF Faithful, AppLen
<1> QED BY <1>1, <1>2, <1>3, <1>4, <1>5, <1>6, <1>7

LEMMA DriftingBound ==
    ASSUME FlowInv, Faithful, NEW e \in Ends, NEW g, NEW tm, Drifting(e, g, tm, {})
    PROVE  Bound(e, g, flow[Peer(e)], tm)
<1>1. \A t \in Tunnels : /\ Drift(tun[t][e], tm[t][e], tun[t][Peer(e)], tm[t][Peer(e)])
                         /\ Calm(flow[e], g, t, tm[t][e].open)
  BY DEF Drifting, Drifts
<1>2. Ready(e, flow[e], g, tun, tm)
  BY <1>1 DEF Ready, Drifting
<1>3. Bound(e, flow[e], flow[Peer(e)], tun) /\ Counts(flow[e]) /\ Counts(flow[Peer(e)])
  BY MineIs, PeerIs
<1>4. Pair(g, flow[Peer(e)], AppLen[Peer(e)])
  BY <1>3 DEF Bound, Pair, Drifting, Stays, dlBytes
<1> QED BY <1>2, <1>3, <1>4, ReadyBound DEF Counts

LEMMA DriftingStepped ==
    ASSUME FlowInv, Faithful, NEW e \in Ends, NEW g, NEW tm, Drifting(e, g, tm, {}), Stepped(e, g, tm)
    PROVE  Faithful'
<1>1. Bound(e, g, flow[Peer(e)], tm)
  BY DriftingBound
<1>2. Turned(e, g, tm)
  BY DEF Stepped, Turned
<1> QED BY <1>1, <1>2, FaithfulStep DEF Drifting

LEMMA DriftingFaithful ==
    ASSUME FlowInv, Faithful, NEW e \in Ends, NEW g, NEW tm, Drifting(e, g, tm, {}), Step(e, g, tm)
    PROVE  Faithful'
BY DriftingStepped DEF Step, Stepped

\* There is no tunnel 0.
LEMMA ClosedNone == ASSUME NEW tm, NEW e, NEW loud PROVE Closed(tm, 0, e, loud) = tm
BY DEF Closed

\* Suspend(): the tunnel the end is on is closed.
LEMMA SuspendDrifts ==
    ASSUME FlowInv, Faithful, NEW e \in Ends, NEW g, NEW tm, NEW X, Drifting(e, g, tm, X), Made(g),
           X \subseteq {g.cur}, g.suspended => X = {}, Replay
    PROVE  Drifting(e, Suspended(g), SuspendTun(tm, g, e), {})
<1>1. CASE g.suspended
  BY <1>1 DEF Suspended, SuspendTun
<1>2. CASE ~g.suspended
  <2>1. PICK h : h = Suspended(g)
    OBVIOUS
  <2>0. Unmoved(g) /\ g.cur = flow[e].cur
    BY DEF Drifting, Local, Stays
  <2>2. /\ h.cur = g.cur /\ h.rel = g.rel /\ h.resumeConn = g.resumeConn /\ h.resumeFrom = g.resumeFrom
        /\ h.upEnded = g.upEnded /\ h.aborted = g.aborted /\ h.done = g.done /\ h.end = g.end
        /\ h.read = g.read /\ h.got = g.got /\ h.st = g.st
    BY <1>2, <2>1 DEF Made, flowFields, Suspended, Released
  <2>3. /\ h.suspended = TRUE /\ ~h.freezeReq /\ ~h.frozen /\ ~h.installed /\ ~h.upSwitched /\ ~h.dlSwitched
        /\ h.next = 0 /\ h.writeDl = TRUE
        /\ h.up.pc = (IF g.up.pc = "frozen" THEN "wake" ELSE g.up.pc) /\ h.up.dst = g.up.dst /\ h.up.pend = g.up.pend
        /\ h.dl.pc = (IF g.dl.pc = "wait" THEN "decide" ELSE g.dl.pc) /\ h.dl.src = g.dl.src /\ h.dl.err = g.dl.err
        /\ h.att = [t \in Tunnels |-> IF g.att[t].pc = "freezing" THEN [g.att[t] EXCEPT !.pc = "fail"] ELSE g.att[t]]
    BY <1>2, <2>1 DEF Made, flowFields, upFields, dlFields, Suspended, Released
  <2>4. h.up.pc = g.up.pc /\ h.dl.pc = g.dl.pc /\ \A t \in Tunnels : h.att[t] = g.att[t]
    BY <2>0, <2>3 DEF Unmoved
  <2>5. Local(h, AppLen[e], Replay)
    BY <2>2, <2>3, <2>4 DEF Drifting, Local, Unmoved, Taken, Settles, dlBytes
  <2>6. Stays(flow[e], h) /\ (Told(h) => Told(flow[e])) /\ h.read \in Nat
    BY <2>2, <2>3, <2>4 DEF Drifting, Stays, Told
  <2>7. PICK to : to = Closed(tm, g.cur, e, FALSE)
    OBVIOUS
  <2>8. g.cur \in Tunnels \cup {0}
    BY <2>0, MineIs
  <2>9. /\ Drifts(e, tun, to, X \ {g.cur})
        /\ \A u \in Tunnels : (u # g.cur => to[u][e] = tm[u][e]) /\ (u = g.cur => ~to[u][e].open)
    <3>1. PICK c \in Tunnels \cup {0} : c = g.cur
      BY <2>8
    <3>2. Drifts(e, tun, tm, X)
      BY DEF Drifting
    <3>3. /\ Drifts(e, tun, Closed(tm, c, e, FALSE), X \ {c})
          /\ \A u \in Tunnels : /\ u # c => Closed(tm, c, e, FALSE)[u][e] = tm[u][e]
                                /\ u = c => ~Closed(tm, c, e, FALSE)[u][e].open
      BY <3>2, DriftsClosed
    <3> QED BY <2>7, <3>1, <3>3
  <2>10. X \ {g.cur} = {}
    OBVIOUS
  <2>11. SuspendTun(tm, g, e) = to
    BY <1>2, <2>0, <2>7, ClosedNone DEF SuspendTun, Dropped, Unmoved
  <2>12. ASSUME NEW t \in Tunnels PROVE Calm(flow[e], h, t, to[t][e].open)
    <3>1. CASE t = g.cur
      BY <2>9, <3>1 DEF Calm
    <3>2. CASE t # g.cur
      <4>1. Calm(flow[e], g, t, tm[t][e].open) /\ to[t][e] = tm[t][e]
        BY <2>9, <3>2 DEF Drifting
      <4> QED BY <2>2, <2>3, <2>4, <3>2, <4>1 DEF Calm, Settles
    <3> QED BY <3>1, <3>2
  <2> QED BY <2>1, <2>5, <2>6, <2>9, <2>10, <2>11, <2>12 DEF Drifting
<1> QED BY <1>1, <1>2

\* Abort().
LEMMA AbortDrifts ==
    ASSUME FlowInv, Faithful, NEW e \in Ends, NEW g, NEW tm, NEW X, Drifting(e, g, tm, X), Made(g),
           X \subseteq {g.cur}, ~Running(g) => X = {}, NEW why, NEW loud
    PROVE  Drifting(e, Aborted(g, why), AbortTun(tm, g, e, loud), {})
<1>1. CASE ~Running(g)
  BY <1>1 DEF Aborted, AbortTun
<1>2. CASE Running(g)
  <2>1. PICK h : h = Aborted(g, why)
    OBVIOUS
  <2>0. Unmoved(g) /\ g.cur = flow[e].cur
    BY DEF Drifting, Local, Stays
  <2>2. /\ h.cur = g.cur /\ h.next = g.next /\ h.freezeReq = g.freezeReq /\ h.frozen = g.frozen
        /\ h.installed = g.installed /\ h.upSwitched = g.upSwitched /\ h.dlSwitched = g.dlSwitched
        /\ h.rel = g.rel /\ h.resumeConn = g.resumeConn /\ h.resumeFrom = g.resumeFrom /\ h.upEnded = g.upEnded
        /\ h.done = g.done /\ h.suspended = g.suspended /\ h.writeDl = g.writeDl /\ h.end = g.end
        /\ h.read = g.read /\ h.got = g.got
    BY <1>2, <2>1 DEF Made, flowFields, Aborted
  <2>3. /\ h.up.pc = "done" /\ h.up.dst = g.up.dst /\ h.up.pend = g.up.pend
        /\ h.dl.pc = "done" /\ h.st = (IF g.st = "open" THEN "closed" ELSE g.st)
        /\ h.att = [t \in Tunnels |-> IF g.att[t].pc \in {"freezing", "begin"} THEN [g.att[t] EXCEPT !.pc = "fail"] ELSE g.att[t]]
    BY <1>2, <2>1 DEF Made, flowFields, upFields, dlFields, Aborted
  <2>4. \A t \in Tunnels : /\ h.att[t].mode = g.att[t].mode /\ h.att[t].own = g.att[t].own
                           /\ h.att[t].pc = (IF g.att[t].pc \in {"freezing", "begin"} THEN "fail" ELSE g.att[t].pc)
    BY <2>3 DEF Made, Atts, attFields
  <2>5. Local(h, AppLen[e], Replay)
    BY <2>2, <2>3, <2>4 DEF Drifting, Local, Unmoved, Taken, Settles, dlBytes
  <2>6. Stays(flow[e], h) /\ (Told(h) => Told(flow[e])) /\ h.read \in Nat
    BY <2>2, <2>3 DEF Drifting, Stays, Told
  <2>7. PICK to : to = Closed(tm, g.cur, e, loud)
    OBVIOUS
  <2>8. g.cur \in Tunnels \cup {0}
    BY <2>0, MineIs
  <2>9. /\ Drifts(e, tun, to, X \ {g.cur})
        /\ \A u \in Tunnels : (u # g.cur => to[u][e] = tm[u][e]) /\ (u = g.cur => ~to[u][e].open)
    <3>1. PICK c \in Tunnels \cup {0} : c = g.cur
      BY <2>8
    <3>2. Drifts(e, tun, tm, X)
      BY DEF Drifting
    <3>3. /\ Drifts(e, tun, Closed(tm, c, e, loud), X \ {c})
          /\ \A u \in Tunnels : /\ u # c => Closed(tm, c, e, loud)[u][e] = tm[u][e]
                                /\ u = c => ~Closed(tm, c, e, loud)[u][e].open
      BY <3>2, DriftsClosed
    <3> QED BY <2>7, <3>1, <3>3
  <2>10. X \ {g.cur} = {}
    OBVIOUS
  <2>11. AbortTun(tm, g, e, loud) = to
    BY <1>2, <2>0, <2>7, ClosedNone DEF AbortTun, Unmoved
  <2>12. ASSUME NEW t \in Tunnels PROVE Calm(flow[e], h, t, to[t][e].open)
    <3>1. CASE t = g.cur
      BY <2>9, <3>1 DEF Calm
    <3>2. CASE t # g.cur
      <4>1. Calm(flow[e], g, t, tm[t][e].open) /\ to[t][e] = tm[t][e]
        BY <2>9, <3>2 DEF Drifting
      <4> QED BY <2>2, <2>3, <2>4, <3>2, <4>1 DEF Calm, Settles
    <3> QED BY <3>1, <3>2
  <2> QED BY <2>1, <2>5, <2>6, <2>9, <2>10, <2>11, <2>12 DEF Drifting
<1> QED BY <1>1, <1>2

LEMMA AbortFaithful ==
    ASSUME FlowInv, Faithful, NEW e \in Ends, NEW g, NEW tm, NEW X, Drifting(e, g, tm, X), Made(g),
           X \subseteq {g.cur}, ~Running(g) => X = {}, NEW why, Abort(e, g, tm, why)
    PROVE  Faithful'
<1>1. PICK loud \in BOOLEAN : Step(e, Aborted(g, why), AbortTun(tm, g, e, loud))
  BY DEF Abort
<1>2. Drifting(e, Aborted(g, why), AbortTun(tm, g, e, loud), {})
  BY AbortDrifts
<1> QED BY <1>1, <1>2, DriftingFaithful

LEMMA SuspendOrAbortFaithful ==
    ASSUME FlowInv, Faithful, NEW e \in Ends, NEW g, NEW tm, NEW X, Drifting(e, g, tm, X), Made(g),
           X \subseteq {g.cur}, g.suspended \/ ~Running(g) => X = {}, NEW why, SuspendOrAbort(e, g, tm, why)
    PROVE  Faithful'
<1>1. CASE CanSuspend(g)
  <2>1. Replay /\ Step(e, Suspended(g), SuspendTun(tm, g, e))
    BY <1>1 DEF CanSuspend, SuspendOrAbort
  <2>2. Drifting(e, Suspended(g), SuspendTun(tm, g, e), {})
    BY <2>1, SuspendDrifts
  <2> QED BY <2>1, <2>2, DriftingFaithful
<1>2. CASE ~CanSuspend(g)
  BY <1>2, AbortFaithful DEF SuspendOrAbort
<1> QED BY <1>1, <1>2

-----------------------------------------------------------------------------
(* The steps that put neither data nor END nor a count on a tunnel.         *)

\* The end stays where it is, and so does what it writes next.
LEMMA CalmStays ==
    ASSUME NEW f, NEW g, NEW s, NEW t, NEW o, Side(f, s, t), o => s.open,
           g.cur = f.cur, g.suspended = f.suspended, g.aborted = f.aborted, g.done = f.done,
           g.att[t] = f.att[t], WritesFrom(g, t) = WritesFrom(f, t),
           g.up.pc = "end" /\ g.up.dst = t => \/ f.up.pc = "end" /\ f.up.dst = t
                                              \/ g.cur = t /\ g.att[t].pc # "replay"
    PROVE  Calm(f, g, t, o)
BY DEF Calm, Side, Settles, Running

\* Nothing changes that matters here.
Alike(g, f) ==
    /\ g.cur = f.cur /\ g.next = f.next /\ g.freezeReq = f.freezeReq /\ g.frozen = f.frozen
    /\ g.installed = f.installed /\ g.upSwitched = f.upSwitched /\ g.dlSwitched = f.dlSwitched /\ g.rel = f.rel
    /\ g.resumeConn = f.resumeConn /\ g.resumeFrom = f.resumeFrom /\ g.upEnded = f.upEnded
    /\ g.aborted = f.aborted /\ g.done = f.done /\ g.suspended = f.suspended /\ g.writeDl = f.writeDl
    /\ g.end = f.end /\ g.read = f.read /\ g.got = f.got /\ g.st = f.st /\ g.up = f.up /\ g.dl = f.dl
    /\ g.att = f.att
LEMMA AlikeSame == ASSUME NEW f PROVE Alike(f, f)
BY DEF Alike

LEMMA ViewDrifts ==
    ASSUME FlowInv, Faithful, NEW e \in Ends, NEW f, f = flow[e], NEW g, NEW tm, Drifts(e, tun, tm, {}), Alike(g, f)
    PROVE  Drifting(e, g, tm, {})
<1> USE DEF Alike
<1>1. Local(f, AppLen[e], Replay) /\ f.read \in Nat /\ \A t \in Tunnels : Side(f, tun[t][e], t)
  BY MineIs DEF Counts
<1>2. Local(g, AppLen[e], Replay)
  BY <1>1 DEF Local, Unmoved, Taken, Settles, dlBytes
<1>3. Stays(f, g) /\ (Told(g) => Told(f)) /\ g.read \in Nat
  BY <1>1 DEF Stays, Told
<1>4. ASSUME NEW t \in Tunnels PROVE Calm(f, g, t, tm[t][e].open)
  <2>1. tm[t][e].open => tun[t][e].open
    BY DEF Drifts, Loosely
  <2>2. WritesFrom(g, t) = WritesFrom(f, t)
    BY DEF WritesFrom, Replaying, Taken
  <2> QED BY <1>1, <2>1, <2>2, CalmStays
<1> QED BY <1>2, <1>3, <1>4 DEF Drifting

\* A pump of a suspended flow parks.
LEMMA UpParkedDrifts ==
    ASSUME NEW e \in Ends, NEW g, NEW tm, Drifting(e, g, tm, {}), Made(g), g.suspended,
           g.up.pc \in {"run", "replay"}
    PROVE  Drifting(e, UpParked(g), tm, {})
<1>1. PICK h : h = UpParked(g)
  OBVIOUS
<1>2. /\ h.cur = g.cur /\ h.next = g.next /\ h.freezeReq = g.freezeReq /\ h.frozen = g.frozen
      /\ h.installed = g.installed /\ h.upSwitched = g.upSwitched /\ h.dlSwitched = g.dlSwitched
      /\ h.rel = g.rel /\ h.resumeConn = g.resumeConn /\ h.resumeFrom = g.resumeFrom /\ h.upEnded = g.upEnded
      /\ h.aborted = g.aborted /\ h.done = g.done /\ h.suspended = g.suspended /\ h.writeDl = g.writeDl
      /\ h.end = g.end /\ h.read = g.read /\ h.got = g.got /\ h.st = g.st /\ h.dl = g.dl /\ h.att = g.att
  BY <1>1 DEF Made, flowFields, UpParked
<1>3. h.up.pc = "parked" /\ h.up.dst = g.up.dst /\ h.up.pend = g.up.pend
  BY <1>1 DEF Made, flowFields, upFields, UpParked
<1>4. Local(h, AppLen[e], Replay)
  BY <1>2, <1>3 DEF Drifting, Local, Unmoved, Taken, Settles, dlBytes
<1>5. Stays(flow[e], h) /\ (Told(h) => Told(flow[e])) /\ h.read \in Nat
  BY <1>2 DEF Drifting, Stays, Told
<1>6. \A t \in Tunnels : Calm(flow[e], h, t, tm[t][e].open)
  BY <1>2, <1>3 DEF Drifting, Calm, Settles
<1> QED BY <1>1, <1>4, <1>5, <1>6 DEF Drifting

LEMMA DlParkedDrifts ==
    ASSUME NEW e \in Ends, NEW g, NEW tm, Drifting(e, g, tm, {}), Made(g), g.suspended, g.st # "eof"
    PROVE  Drifting(e, DlParked(g), tm, {})
<1>1. PICK h : h = DlParked(g)
  OBVIOUS
<1>2. /\ h.cur = g.cur /\ h.next = g.next /\ h.freezeReq = g.freezeReq /\ h.frozen = g.frozen
      /\ h.installed = g.installed /\ h.upSwitched = g.upSwitched /\ h.dlSwitched = g.dlSwitched
      /\ h.rel = g.rel /\ h.resumeConn = g.resumeConn /\ h.resumeFrom = g.resumeFrom /\ h.upEnded = g.upEnded
      /\ h.aborted = g.aborted /\ h.done = g.done /\ h.suspended = g.suspended /\ h.end = g.end
      /\ h.read = g.read /\ h.got = g.got /\ h.st = g.st /\ h.up = g.up /\ h.att = g.att
  BY <1>1 DEF Made, flowFields, DlParked
<1>3. h.dl.pc = "parked"
  BY <1>1 DEF Made, flowFields, dlFields, DlParked
<1>4. Local(h, AppLen[e], Replay)
  BY <1>2, <1>3 DEF Drifting, Local, Unmoved, Taken, Settles, dlBytes
<1>5. Stays(flow[e], h) /\ (Told(h) => Told(flow[e])) /\ h.read \in Nat
  BY <1>2, <1>3 DEF Drifting, Stays, Told
<1>6. \A t \in Tunnels : Calm(flow[e], h, t, tm[t][e].open)
  BY <1>2 DEF Drifting, Calm, Settles, Running
<1> QED BY <1>1, <1>4, <1>5, <1>6 DEF Drifting

\* The upload pump.
LEMMA UpBoundaryFaithful == ASSUME FlowInv, Faithful, NEW e \in Ends, UpBoundary(e) PROVE Faithful'
<1>1. PICK f : f = flow[e]
  OBVIOUS
<1>2. Made(f) /\ Unmoved(f) /\ Drifts(e, tun, tun, {})
  BY <1>1, MineIs
<1>3. Drifting(e, f, tun, {})
  BY <1>1, <1>2, AlikeSame, ViewDrifts
<1>4. f.up.pc = "run" /\ f.suspended /\ Step(e, UpParked(f), tun)
  BY <1>1, <1>2 DEF UpBoundary, freeze, Unmoved
<1>5. Drifting(e, UpParked(f), tun, {})
  BY <1>2, <1>3, <1>4, UpParkedDrifts
<1> QED BY <1>4, <1>5, DriftingFaithful

\* A byte of the app is taken, or held back already.
LEMMA WithByteIs ==
    ASSUME NEW f, Made(f), Counts(f), NEW L \in Nat, NEW R, Local(f, L, R), NEW g, g = WithByte(f), f.up.pc \in {"run", "full"},
           f.up.pend # 0 \/ f.read < L
    PROVE  /\ Made(g) /\ Local(g, L, R) /\ Stays(f, g) /\ g.read \in Nat
           /\ /\ g.cur = f.cur /\ g.next = f.next /\ g.freezeReq = f.freezeReq /\ g.frozen = f.frozen
              /\ g.installed = f.installed /\ g.upSwitched = f.upSwitched /\ g.dlSwitched = f.dlSwitched
              /\ g.rel = f.rel /\ g.resumeConn = f.resumeConn /\ g.resumeFrom = f.resumeFrom
              /\ g.upEnded = f.upEnded /\ g.aborted = f.aborted /\ g.done = f.done /\ g.suspended = f.suspended
              /\ g.writeDl = f.writeDl /\ g.end = f.end /\ g.got = f.got /\ g.st = f.st /\ g.dl = f.dl
              /\ g.att = f.att
           /\ g.up.pc = f.up.pc /\ g.up.dst = f.up.dst /\ g.up.pend = g.read /\ g.up.pend # 0 /\ Taken(g) = Taken(f)
           /\ g.upBytes = f.upBytes
<1>1. f.read \in Nat /\ f.up.pend \in {0, f.read} /\ f.read <= L
  BY DEF Counts, Local
<1>2. CASE f.up.pend # 0
  BY <1>1, <1>2 DEF WithByte, Stays
<1>3. CASE f.up.pend = 0
  <2>1. PICK n \in Nat : n = f.read + 1
    BY <1>1
  <2>2. g = [f EXCEPT !.read = n, !.up.pend = n]
    BY <1>3, <2>1 DEF WithByte, Made, flowFields
  <2>3. /\ /\ g.cur = f.cur /\ g.next = f.next /\ g.freezeReq = f.freezeReq /\ g.frozen = f.frozen
           /\ g.installed = f.installed /\ g.upSwitched = f.upSwitched /\ g.dlSwitched = f.dlSwitched
           /\ g.rel = f.rel /\ g.resumeConn = f.resumeConn /\ g.resumeFrom = f.resumeFrom
           /\ g.upEnded = f.upEnded /\ g.aborted = f.aborted /\ g.done = f.done /\ g.suspended = f.suspended
           /\ g.writeDl = f.writeDl /\ g.end = f.end /\ g.got = f.got /\ g.st = f.st /\ g.dl = f.dl
           /\ g.att = f.att
        /\ g.read = n /\ g.up.pc = f.up.pc /\ g.up.dst = f.up.dst /\ g.up.pend = n /\ g.upBytes = f.upBytes
    BY <2>2 DEF Made, flowFields, upFields
  <2>4. Made(g)
    BY <2>2 DEF Made, flowFields, upFields
  <2>5. Taken(g) = f.read /\ Taken(f) = f.read
    BY <1>1, <1>3, <2>1, <2>3 DEF Taken
  <2>6. n <= L /\ n # 0 /\ f.read <= n
    BY <1>1, <1>3, <2>1
  <2>7. Local(g, L, R)
    BY <2>3, <2>5, <2>6 DEF Local, Unmoved, Settles, dlBytes
  <2> QED BY <2>3, <2>4, <2>5, <2>6, <2>7 DEF Stays
<1> QED BY <1>2, <1>3

LEMMA UpFullFaithful == ASSUME FlowInv, Faithful, NEW e \in Ends, UpFull(e) PROVE Faithful'
<1>1. PICK f : f = flow[e]
  OBVIOUS
<1>2. /\ Made(f) /\ Counts(f) /\ Local(f, AppLen[e], Replay) /\ Drifts(e, tun, tun, {}) /\ AppLen[e] \in Nat
      /\ \A t \in Tunnels : Side(f, tun[t][e], t)
  BY <1>1, MineIs
<1>3. PICK k, pc :
         /\ pc \in {"run", "full"} /\ f.up.pc \in {"run", "full"} /\ Step(e, [k EXCEPT !.up.pc = pc], tun)
         /\ (k = f /\ pc = "run") \/ (k = WithByte(f) /\ (f.up.pend # 0 \/ f.read < AppLen[e]))
  <2>1. CASE PastBoundary(f) /\ HasByte(e, f) /\ Step(e, [WithByte(f) EXCEPT !.up.pc = "full"], tun)
    BY <2>1 DEF PastBoundary, HasByte
  <2>2. CASE f.up.pc = "full" /\ Step(e, [f EXCEPT !.up.pc = "run"], tun)
    BY <2>2
  <2> QED BY <1>1, <2>1, <2>2 DEF UpFull
<1>4. /\ f.up.pc \in {"run", "full"} /\ pc \in {"run", "full"}
      /\ (k = f /\ pc = "run") \/ (k = WithByte(f) /\ (f.up.pend # 0 \/ f.read < AppLen[e]))
  BY <1>3
<1>5. /\ Made(k) /\ Local(k, AppLen[e], Replay) /\ Stays(f, k) /\ k.read \in Nat
      /\ /\ k.cur = f.cur /\ k.next = f.next /\ k.freezeReq = f.freezeReq /\ k.frozen = f.frozen
         /\ k.installed = f.installed /\ k.upSwitched = f.upSwitched /\ k.dlSwitched = f.dlSwitched
         /\ k.rel = f.rel /\ k.resumeConn = f.resumeConn /\ k.resumeFrom = f.resumeFrom
         /\ k.upEnded = f.upEnded /\ k.aborted = f.aborted /\ k.done = f.done /\ k.suspended = f.suspended
         /\ k.writeDl = f.writeDl /\ k.end = f.end /\ k.got = f.got /\ k.st = f.st /\ k.dl = f.dl
         /\ k.att = f.att
      /\ k.up.pc = f.up.pc /\ k.up.dst = f.up.dst /\ Taken(k) = Taken(f) /\ (pc = "full" => k.up.pend # 0)
  <2>1. CASE k = f /\ pc = "run"
    BY <1>2, <2>1 DEF Stays, Counts
  <2>2. CASE k = WithByte(f) /\ (f.up.pend # 0 \/ f.read < AppLen[e])
    BY <1>2, <1>4, <2>2, WithByteIs
  <2> QED BY <1>4, <2>1, <2>2
<1>6. PICK g : g = [k EXCEPT !.up.pc = pc]
  OBVIOUS
<1>7. /\ /\ g.cur = k.cur /\ g.next = k.next /\ g.freezeReq = k.freezeReq /\ g.frozen = k.frozen
         /\ g.installed = k.installed /\ g.upSwitched = k.upSwitched /\ g.dlSwitched = k.dlSwitched
         /\ g.rel = k.rel /\ g.resumeConn = k.resumeConn /\ g.resumeFrom = k.resumeFrom
         /\ g.upEnded = k.upEnded /\ g.aborted = k.aborted /\ g.done = k.done /\ g.suspended = k.suspended
         /\ g.writeDl = k.writeDl /\ g.end = k.end /\ g.read = k.read /\ g.got = k.got /\ g.st = k.st
         /\ g.dl = k.dl /\ g.att = k.att
      /\ g.up.pc = pc /\ g.up.dst = k.up.dst /\ g.up.pend = k.up.pend
  BY <1>5, <1>6 DEF Made, flowFields, upFields
<1>8. Local(g, AppLen[e], Replay)
  BY <1>4, <1>5, <1>7 DEF Local, Unmoved, Taken, Settles, dlBytes
<1>9. Stays(f, g) /\ (Told(g) => Told(f)) /\ g.read \in Nat
  BY <1>5, <1>7 DEF Stays, Told
<1>10. ASSUME NEW t \in Tunnels PROVE Calm(f, g, t, tun[t][e].open)
  <2>1. Taken(g) = Taken(f)
    BY <1>5, <1>7 DEF Taken
  <2>2. WritesFrom(g, t) = WritesFrom(f, t)
    BY <1>4, <1>5, <1>7, <2>1 DEF WritesFrom, Replaying
  <2>3. g.cur = f.cur /\ g.suspended = f.suspended /\ g.aborted = f.aborted /\ g.done = f.done /\ g.att[t] = f.att[t]
    BY <1>5, <1>7
  <2>4. Side(f, tun[t][e], t) /\ g.up.pc # "end"
    BY <1>2, <1>4, <1>7
  <2> QED BY <2>2, <2>3, <2>4, CalmStays
<1>11. Drifting(e, g, tun, {})
  BY <1>1, <1>2, <1>8, <1>9, <1>10 DEF Drifting
<1>12. Step(e, g, tun)
  BY <1>3, <1>6
<1> QED BY <1>11, <1>12, DriftingFaithful

LEMMA UpEOFFaithful == ASSUME FlowInv, Faithful, NEW e \in Ends, UpEOF(e) PROVE Faithful'
<1>1. PICK f : f = flow[e]
  OBVIOUS
<1>2. /\ Made(f) /\ Counts(f) /\ Local(f, AppLen[e], Replay) /\ Drifts(e, tun, tun, {})
      /\ \A t \in Tunnels : Side(f, tun[t][e], t)
  BY <1>1, MineIs
<1>3. PICK g : g = [f EXCEPT !.upEnded = TRUE, !.up.pc = "end"]
  OBVIOUS
<1>4. f.up.pc = "run" /\ f.up.pend = 0 /\ f.read = AppLen[e] /\ Step(e, g, tun)
  BY <1>1, <1>3 DEF UpEOF, PastBoundary
<1>5. /\ /\ g.cur = f.cur /\ g.next = f.next /\ g.freezeReq = f.freezeReq /\ g.frozen = f.frozen
         /\ g.installed = f.installed /\ g.upSwitched = f.upSwitched /\ g.dlSwitched = f.dlSwitched
         /\ g.rel = f.rel /\ g.resumeConn = f.resumeConn /\ g.resumeFrom = f.resumeFrom
         /\ g.aborted = f.aborted /\ g.done = f.done /\ g.suspended = f.suspended /\ g.writeDl = f.writeDl
         /\ g.end = f.end /\ g.read = f.read /\ g.got = f.got /\ g.st = f.st /\ g.dl = f.dl /\ g.att = f.att
      /\ g.upEnded = TRUE /\ g.up.pc = "end" /\ g.up.dst = f.up.dst /\ g.up.pend = f.up.pend
  BY <1>2, <1>3 DEF Made, flowFields, upFields
<1>6. ~f.upEnded /\ \A t \in Tunnels : f.att[t].pc # "replay"
  BY <1>2, <1>4 DEF Local
<1>7. Local(g, AppLen[e], Replay)
  BY <1>2, <1>4, <1>5, <1>6 DEF Local, Unmoved, Taken, Settles, dlBytes
<1>8. Stays(f, g) /\ (Told(g) => Told(f)) /\ g.read \in Nat
  BY <1>2, <1>5 DEF Stays, Told, Counts
<1>9. ASSUME NEW t \in Tunnels PROVE Calm(f, g, t, tun[t][e].open)
  <2>1. WritesFrom(g, t) = WritesFrom(f, t)
    BY <1>4, <1>5 DEF WritesFrom, Replaying, Taken
  <2>2. f.up.dst = f.cur
    BY <1>2, <1>4 DEF Local
  <2> QED BY <1>2, <1>5, <1>6, <2>1, <2>2, CalmStays
<1>10. Drifting(e, g, tun, {})
  BY <1>1, <1>2, <1>7, <1>8, <1>9 DEF Drifting
<1> QED BY <1>4, <1>10, DriftingFaithful

\* The upload is over.
LEMMA OverDrifts ==
    ASSUME FlowInv, Faithful, NEW e \in Ends, NEW f, f = flow[e], f.up.pc = "end", NEW g,
           g = [f EXCEPT !.up.pc = "done"]
    PROVE  /\ Drifting(e, g, tun, {}) /\ Made(g)
           /\ /\ g.cur = f.cur /\ g.next = f.next /\ g.freezeReq = f.freezeReq /\ g.frozen = f.frozen
              /\ g.installed = f.installed /\ g.upSwitched = f.upSwitched /\ g.dlSwitched = f.dlSwitched
              /\ g.rel = f.rel /\ g.resumeConn = f.resumeConn /\ g.resumeFrom = f.resumeFrom
              /\ g.upEnded = f.upEnded /\ g.aborted = f.aborted /\ g.done = f.done /\ g.suspended = f.suspended
              /\ g.writeDl = f.writeDl /\ g.end = f.end /\ g.read = f.read /\ g.got = f.got /\ g.st = f.st
              /\ g.dl = f.dl /\ g.att = f.att
           /\ g.up.pc = "done" /\ g.up.dst = f.up.dst /\ g.up.pend = f.up.pend
<1>2. /\ Made(f) /\ Counts(f) /\ Local(f, AppLen[e], Replay) /\ Drifts(e, tun, tun, {})
      /\ \A t \in Tunnels : Side(f, tun[t][e], t)
  BY MineIs
<1>5. /\ /\ g.cur = f.cur /\ g.next = f.next /\ g.freezeReq = f.freezeReq /\ g.frozen = f.frozen
         /\ g.installed = f.installed /\ g.upSwitched = f.upSwitched /\ g.dlSwitched = f.dlSwitched
         /\ g.rel = f.rel /\ g.resumeConn = f.resumeConn /\ g.resumeFrom = f.resumeFrom
         /\ g.upEnded = f.upEnded /\ g.aborted = f.aborted /\ g.done = f.done /\ g.suspended = f.suspended
         /\ g.writeDl = f.writeDl /\ g.end = f.end /\ g.read = f.read /\ g.got = f.got /\ g.st = f.st
         /\ g.dl = f.dl /\ g.att = f.att
      /\ g.up.pc = "done" /\ g.up.dst = f.up.dst /\ g.up.pend = f.up.pend /\ Made(g)
  BY <1>2 DEF Made, flowFields, upFields
<1>7. Local(g, AppLen[e], Replay)
  BY <1>2, <1>5 DEF Local, Unmoved, Taken, Settles, dlBytes
<1>8. Stays(f, g) /\ (Told(g) => Told(f)) /\ g.read \in Nat
  BY <1>2, <1>5 DEF Stays, Told, Counts
<1>9. ASSUME NEW t \in Tunnels PROVE Calm(f, g, t, tun[t][e].open)
  <2>1. WritesFrom(g, t) = WritesFrom(f, t)
    BY <1>5 DEF WritesFrom, Replaying, Taken
  <2>2. Side(f, tun[t][e], t) /\ g.up.pc # "end"
    BY <1>2, <1>5
  <2>3. g.cur = f.cur /\ g.suspended = f.suspended /\ g.aborted = f.aborted /\ g.done = f.done /\ g.att[t] = f.att[t]
    BY <1>5
  <2> QED BY <2>1, <2>2, <2>3, CalmStays
<1> QED BY <1>2, <1>5, <1>7, <1>8, <1>9 DEF Drifting


\* A byte is retained, and is to be written.
Keep(k, n) == [k EXCEPT !.up.pend = 0, !.up.pc = "run", !.end = n]

LEMMA KeepIs ==
    ASSUME NEW k, Made(k), NEW L \in Nat, NEW R, Local(k, L, R), k.read \in Nat, k.up.pend = k.read, k.up.pend # 0,
           k.up.pc \in {"run", "full"}, NEW n, R => n = k.end + 1, NEW m, m = Keep(k, n)
    PROVE  /\ Made(m) /\ Local(m, L, R)
           /\ /\ m.cur = k.cur /\ m.next = k.next /\ m.freezeReq = k.freezeReq /\ m.frozen = k.frozen
              /\ m.installed = k.installed /\ m.upSwitched = k.upSwitched /\ m.dlSwitched = k.dlSwitched
              /\ m.rel = k.rel /\ m.resumeConn = k.resumeConn /\ m.resumeFrom = k.resumeFrom
              /\ m.upEnded = k.upEnded /\ m.aborted = k.aborted /\ m.done = k.done /\ m.suspended = k.suspended
              /\ m.writeDl = k.writeDl /\ m.read = k.read /\ m.got = k.got /\ m.st = k.st /\ m.dl = k.dl
              /\ m.att = k.att
           /\ m.up.pc = "run" /\ m.up.dst = k.up.dst /\ m.up.pend = 0 /\ m.upBytes = k.upBytes
           /\ m.read = Taken(k) + 1 /\ ~k.upEnded /\ k.up.dst = k.cur
<1>1. Made(m)
  BY DEF Keep, Made, flowFields, upFields
<1>2. /\ /\ m.cur = k.cur /\ m.next = k.next /\ m.freezeReq = k.freezeReq /\ m.frozen = k.frozen
         /\ m.installed = k.installed /\ m.upSwitched = k.upSwitched /\ m.dlSwitched = k.dlSwitched
         /\ m.rel = k.rel /\ m.resumeConn = k.resumeConn /\ m.resumeFrom = k.resumeFrom
         /\ m.upEnded = k.upEnded /\ m.aborted = k.aborted /\ m.done = k.done /\ m.suspended = k.suspended
         /\ m.writeDl = k.writeDl /\ m.read = k.read /\ m.got = k.got /\ m.st = k.st /\ m.dl = k.dl
         /\ m.att = k.att
      /\ m.up.pc = "run" /\ m.up.dst = k.up.dst /\ m.up.pend = 0 /\ m.end = n /\ m.upBytes = k.upBytes
  BY DEF Keep, Made, flowFields, upFields
<1>3. Taken(m) = m.read /\ m.read = Taken(k) + 1
  BY <1>2 DEF Taken
<1>4. R => m.end = Taken(m)
  BY <1>2, <1>3 DEF Local
<1>5. ~k.upEnded /\ k.up.dst = k.cur /\ \A t \in Tunnels : k.att[t].pc # "replay"
  BY DEF Local
<1>6. Local(m, L, R)
  BY <1>2, <1>4, <1>5 DEF Local, Unmoved, Settles, dlBytes
<1> QED BY <1>1, <1>2, <1>3, <1>5, <1>6

LEMMA KeptIs ==
    ASSUME FlowInv, Faithful, NEW e \in Ends, NEW f, f = flow[e], UpSend(e), NEW k, k = WithByte(f), NEW n,
           n = (IF Replay THEN k.end + 1 ELSE k.end), NEW m, m = Keep(k, n)
    PROVE  /\ Made(m) /\ Local(m, AppLen[e], Replay) /\ Stays(f, m) /\ m.read \in Nat
           /\ /\ m.cur = f.cur /\ m.next = f.next /\ m.freezeReq = f.freezeReq /\ m.frozen = f.frozen
              /\ m.installed = f.installed /\ m.upSwitched = f.upSwitched /\ m.dlSwitched = f.dlSwitched
              /\ m.rel = f.rel /\ m.resumeConn = f.resumeConn /\ m.resumeFrom = f.resumeFrom
              /\ m.upEnded = f.upEnded /\ m.aborted = f.aborted /\ m.done = f.done /\ m.suspended = f.suspended
              /\ m.writeDl = f.writeDl /\ m.got = f.got /\ m.st = f.st /\ m.dl = f.dl /\ m.att = f.att
           /\ m.up.pc = "run" /\ m.up.dst = f.cur /\ m.up.pend = 0 /\ m.read = Taken(f) + 1 /\ k.up.pend = m.read
           /\ f.up.pc \in {"run", "full"} /\ ~f.suspended /\ Running(f) /\ k.up.dst = f.cur /\ ~f.upEnded
           /\ m.upBytes = f.upBytes
<1>1. /\ Made(f) /\ Counts(f) /\ Local(f, AppLen[e], Replay) /\ AppLen[e] \in Nat
  BY MineIs
<1>2. f.up.pc \in {"run", "full"} /\ ~f.suspended /\ Running(f) /\ (f.up.pend # 0 \/ f.read < AppLen[e])
  BY <1>1, EndIs DEF UpSend, PastBoundary, HasByte, Local
<1>3. /\ Made(k) /\ Local(k, AppLen[e], Replay) /\ Stays(f, k) /\ k.read \in Nat
      /\ /\ k.cur = f.cur /\ k.next = f.next /\ k.freezeReq = f.freezeReq /\ k.frozen = f.frozen
         /\ k.installed = f.installed /\ k.upSwitched = f.upSwitched /\ k.dlSwitched = f.dlSwitched
         /\ k.rel = f.rel /\ k.resumeConn = f.resumeConn /\ k.resumeFrom = f.resumeFrom
         /\ k.upEnded = f.upEnded /\ k.aborted = f.aborted /\ k.done = f.done /\ k.suspended = f.suspended
         /\ k.writeDl = f.writeDl /\ k.end = f.end /\ k.got = f.got /\ k.st = f.st /\ k.dl = f.dl
         /\ k.att = f.att
      /\ k.up.pc = f.up.pc /\ k.up.dst = f.up.dst /\ k.up.pend = k.read /\ k.up.pend # 0 /\ Taken(k) = Taken(f)
      /\ k.upBytes = f.upBytes
  BY <1>1, <1>2, WithByteIs
<1>4. Replay => n = k.end + 1
  OBVIOUS
<1>5. k.up.pc \in {"run", "full"}
  BY <1>2, <1>3
<1>6. /\ Made(m) /\ Local(m, AppLen[e], Replay)
      /\ /\ m.cur = k.cur /\ m.next = k.next /\ m.freezeReq = k.freezeReq /\ m.frozen = k.frozen
         /\ m.installed = k.installed /\ m.upSwitched = k.upSwitched /\ m.dlSwitched = k.dlSwitched
         /\ m.rel = k.rel /\ m.resumeConn = k.resumeConn /\ m.resumeFrom = k.resumeFrom
         /\ m.upEnded = k.upEnded /\ m.aborted = k.aborted /\ m.done = k.done /\ m.suspended = k.suspended
         /\ m.writeDl = k.writeDl /\ m.read = k.read /\ m.got = k.got /\ m.st = k.st /\ m.dl = k.dl
         /\ m.att = k.att
      /\ m.up.pc = "run" /\ m.up.dst = k.up.dst /\ m.up.pend = 0 /\ m.upBytes = k.upBytes
      /\ m.read = Taken(k) + 1 /\ ~k.upEnded /\ k.up.dst = k.cur
  BY <1>1, <1>3, <1>4, <1>5, KeepIs
<1>7. Stays(f, m)
  BY <1>3, <1>6 DEF Stays
<1> QED BY <1>2, <1>3, <1>6, <1>7

\* It is not written.
LEMMA UpSendFails ==
    ASSUME FlowInv, Faithful, NEW e \in Ends, NEW f, f = flow[e], UpSend(e), NEW k, k = WithByte(f), NEW n,
           n = (IF Replay THEN k.end + 1 ELSE k.end), NEW m, m = Keep(k, n),
           SuspendOrAbort(e, m, tun, "tunnel")
    PROVE  Faithful'
<1>1. /\ Made(m) /\ Local(m, AppLen[e], Replay) /\ Stays(f, m) /\ m.read \in Nat
      /\ /\ m.cur = f.cur /\ m.next = f.next /\ m.freezeReq = f.freezeReq /\ m.frozen = f.frozen
         /\ m.installed = f.installed /\ m.upSwitched = f.upSwitched /\ m.dlSwitched = f.dlSwitched
         /\ m.rel = f.rel /\ m.resumeConn = f.resumeConn /\ m.resumeFrom = f.resumeFrom
         /\ m.upEnded = f.upEnded /\ m.aborted = f.aborted /\ m.done = f.done /\ m.suspended = f.suspended
         /\ m.writeDl = f.writeDl /\ m.got = f.got /\ m.st = f.st /\ m.dl = f.dl /\ m.att = f.att
      /\ m.up.pc = "run" /\ ~f.suspended /\ Running(f)
  BY KeptIs
<1>2. (Told(m) => Told(f)) /\ ~m.suspended /\ Running(m)
  BY <1>1 DEF Told, Running
<1>3. Drifts(e, tun, tun, {m.cur})
  BY MineIs, DriftsMore
<1>4. ASSUME NEW t \in Tunnels, t \notin {m.cur} PROVE Calm(f, m, t, tun[t][e].open)
  BY <1>1, <1>4 DEF Calm, Settles
<1>5. Drifting(e, m, tun, {m.cur})
  BY <1>1, <1>2, <1>3, <1>4 DEF Drifting
<1>6. PICK X : X = {m.cur}
  OBVIOUS
<1> QED BY <1>1, <1>2, <1>5, <1>6, SuspendOrAbortFaithful

\* What Suspend leaves of the pumps.
LEMMA SuspendedIs ==
    ASSUME FlowInv, NEW e \in Ends, NEW f, Holds(e, f), Running(f), Unmoved(f)
    PROVE  /\ Made(Suspended(f)) /\ Suspended(f).suspended /\ Suspended(f).up.pc = f.up.pc
           /\ Suspended(f).st = f.st /\ \A t \in Tunnels : Suspended(f).att[t] = f.att[t]
<1>1. PICK h : h = Suspended(f)
  OBVIOUS
<1>2. Made(h) /\ h.suspended
  BY <1>1, EndIs, SuspendIs DEF Holds, EndInv
<1>3. Made(f)
  BY DEF Holds, EndInv
<1>4. CASE f.suspended
  BY <1>1, <1>2, <1>4 DEF Suspended
<1>5. CASE ~f.suspended
  <2>1. h.up.pc = (IF f.up.pc = "frozen" THEN "wake" ELSE f.up.pc) /\ h.st = f.st
    BY <1>1, <1>3, <1>5 DEF Made, flowFields, upFields, Suspended, Released
  <2>2. h.att = [t \in Tunnels |-> IF f.att[t].pc = "freezing" THEN [f.att[t] EXCEPT !.pc = "fail"] ELSE f.att[t]]
    BY <1>1, <1>3, <1>5 DEF Made, flowFields, upFields, Suspended, Released
  <2> QED BY <1>1, <1>2, <2>1, <2>2 DEF Unmoved
<1> QED BY <1>4, <1>5

\* The replay does not get through.
LEMMA UpReplayFails ==
    ASSUME FlowInv, Faithful, NEW e \in Ends, NEW f, f = flow[e], f.up.pc = "replay",
           IF CanSuspend(f) THEN Step(e, UpParked(Suspended(f)), SuspendTun(tun, f, e)) ELSE Abort(e, f, tun, "tunnel")
    PROVE  Faithful'
<1>1. Made(f) /\ Unmoved(f) /\ Drifts(e, tun, tun, {}) /\ Holds(e, f) /\ Running(f)
  BY MineIs, EndIs
<1>2. Drifting(e, f, tun, {})
  BY <1>1, AlikeSame, ViewDrifts
<1>3. CASE CanSuspend(f)
  <2>1. Drifting(e, Suspended(f), SuspendTun(tun, f, e), {})
    BY <1>1, <1>2, <1>3, SuspendDrifts DEF CanSuspend
  <2>2. Made(Suspended(f)) /\ Suspended(f).suspended /\ Suspended(f).up.pc = "replay"
    BY <1>1, SuspendedIs
  <2>3. Drifting(e, UpParked(Suspended(f)), SuspendTun(tun, f, e), {})
    BY <2>1, <2>2, UpParkedDrifts
  <2> QED BY <1>3, <2>3, DriftingFaithful
<1>4. CASE ~CanSuspend(f)
  BY <1>1, <1>2, <1>4, AbortFaithful
<1> QED BY <1>3, <1>4

\* The download pump.
LEMMA DlAckFaithful == ASSUME FlowInv, Faithful, NEW e \in Ends, DlAck(e) PROVE Faithful'
<1>1. PICK f : f = flow[e]
  OBVIOUS
<1>2. Made(f) /\ Sides(tun) /\ f.dl.src \in Tunnels
  BY <1>1, MineIs, EndIs
<1>3. PICK g : g = AckedBy(f, Head1(f.dl.src, e))
  OBVIOUS
<1>4. Alike(g, f)
  BY <1>2, <1>3 DEF Made, flowFields, AckedBy, Alike
<1>5. Drifts(e, tun, Popped(f.dl.src, e), {})
  BY <1>1, <1>2, DriftsPopped DEF DlAck, Has
<1>6. Drifting(e, g, Popped(f.dl.src, e), {})
  BY <1>1, <1>4, <1>5, ViewDrifts
<1> QED BY <1>1, <1>3, <1>6, DriftingFaithful DEF DlAck

\* What only the download pump sees.
LEMMA DlDrifts ==
    ASSUME FlowInv, Faithful, NEW e \in Ends, NEW f, f = flow[e], NEW g, NEW tm, Drifts(e, tun, tm, {}),
           /\ g.cur = f.cur /\ g.next = f.next /\ g.freezeReq = f.freezeReq /\ g.frozen = f.frozen
           /\ g.installed = f.installed /\ g.upSwitched = f.upSwitched /\ g.dlSwitched = f.dlSwitched
           /\ g.rel = f.rel /\ g.resumeConn = f.resumeConn /\ g.resumeFrom = f.resumeFrom
           /\ g.upEnded = f.upEnded /\ g.aborted = f.aborted /\ g.done = f.done /\ g.suspended = f.suspended
           /\ g.writeDl = f.writeDl /\ g.end = f.end /\ g.read = f.read /\ g.got = f.got /\ g.up = f.up
           /\ g.att = f.att,
           g.dl.pc \in {"read", "decide", "done"}, f.dl.pc \in {"read", "decide"}, g.dl.src = f.dl.src,
           Told(g) => Told(f), g.st = "eof" => g.dl.pc = "done"
    PROVE  Drifting(e, g, tm, {})
<1>1. Local(f, AppLen[e], Replay) /\ f.read \in Nat /\ \A t \in Tunnels : Side(f, tun[t][e], t)
  BY MineIs DEF Counts
<1>2. Local(g, AppLen[e], Replay)
  BY <1>1 DEF Local, Unmoved, Taken, Settles, dlBytes
<1>3. Stays(f, g) /\ g.read \in Nat
  BY <1>1 DEF Stays
<1>4. ASSUME NEW t \in Tunnels PROVE Calm(f, g, t, tm[t][e].open)
  <2>1. tm[t][e].open => tun[t][e].open
    BY DEF Drifts, Loosely
  <2>2. WritesFrom(g, t) = WritesFrom(f, t)
    BY DEF WritesFrom, Replaying, Taken
  <2> QED BY <1>1, <2>1, <2>2, CalmStays
<1> QED BY <1>2, <1>3, <1>4 DEF Drifting

LEMMA DlWakeFaithful == ASSUME FlowInv, Faithful, NEW e \in Ends, DlWake(e) PROVE Faithful'
<1>1. PICK f : f = flow[e]
  OBVIOUS
<1>2. Made(f) /\ Sides(tun) /\ f.dl.src \in Tunnels /\ Unmoved(f) /\ f.dl.pc = "read"
  BY <1>1, MineIs, EndIs DEF DlWake
<1>3. PICK g : g = Looked(f)
  OBVIOUS
<1>4. /\ /\ g.cur = f.cur /\ g.next = f.next /\ g.freezeReq = f.freezeReq /\ g.frozen = f.frozen
         /\ g.installed = f.installed /\ g.upSwitched = f.upSwitched /\ g.dlSwitched = f.dlSwitched
         /\ g.rel = f.rel /\ g.resumeConn = f.resumeConn /\ g.resumeFrom = f.resumeFrom
         /\ g.upEnded = f.upEnded /\ g.aborted = f.aborted /\ g.done = f.done /\ g.suspended = f.suspended
         /\ g.writeDl = f.writeDl /\ g.end = f.end /\ g.read = f.read /\ g.got = f.got /\ g.st = f.st
         /\ g.up = f.up /\ g.att = f.att
      /\ g.dl.pc = "read" /\ g.dl.src = f.dl.src /\ g.dl.err = f.dl.err
  <2>1. g = [f EXCEPT !.dl.pc = "read"]
    BY <1>2, <1>3 DEF Looked, Swapping, Unmoved
  <2> QED BY <1>2, <2>1 DEF Made, flowFields, dlFields
<1>5. PICK t \in Tunnels : t = f.dl.src
  BY <1>2
<1>6. PICK s : s = [tun[t][e] EXCEPT !.wake = FALSE]
  OBVIOUS
<1>7. DOMAIN tun[t][e] = sideFields /\ tun[t][e].in \in Seq(Recs)
  BY <1>2 DEF Sides
<1>8. DOMAIN s = sideFields /\ s.in = tun[t][e].in /\ s.open = tun[t][e].open
  BY <1>6, <1>7 DEF sideFields
<1>9. PICK tm : tm = [tun EXCEPT ![t][e].wake = FALSE]
  OBVIOUS
<1>10. tm = [tun EXCEPT ![t][e] = s]
  BY <1>2, <1>6, <1>9 DEF Sides
<1>11. SideSet(tun, tm, t, e, s)
  BY <1>2, <1>7, <1>8, <1>10, SideIs
<1>12. Drifts(e, tun, tm, {})
  BY <1>8, <1>11, MineIs, DriftsOwn
<1>13. Drifting(e, g, tm, {})
  <2>1. (Told(g) => Told(f)) /\ f.st # "eof"
    BY <1>1, <1>2, <1>4, MineIs DEF Told, Local
  <2> QED BY <1>1, <1>2, <1>4, <1>12, <2>1, DlDrifts
<1> QED BY <1>1, <1>3, <1>5, <1>9, <1>13, DriftingFaithful DEF DlWake

LEMMA DroppedDrifts ==
    ASSUME FlowInv, Faithful, NEW e \in Ends, NEW t \in Tunnels
    PROVE  Drifts(e, tun, Dropped(tun, t, e), {})
<1>1. Drifts(e, tun, Closed(tun, t, e, FALSE), {} \ {t})
  BY MineIs, DriftsClosed
<1>2. {} \ {t} = {}
  OBVIOUS
<1> QED BY <1>1, <1>2 DEF Dropped

LEMMA DlFailFaithful ==
    ASSUME FlowInv, Faithful, NEW e \in Ends, NEW f, f = flow[e], f.dl.pc = "read", NEW err \in {"abort", "broken"},
           Step(e, [f EXCEPT !.dl.err = err, !.dl.pc = IF ~f.installed /\ f.frozen THEN "wait" ELSE "decide"],
                Dropped(tun, f.dl.src, e))
    PROVE  Faithful'
<1>1. Made(f) /\ Unmoved(f) /\ Local(f, AppLen[e], Replay) /\ f.dl.src \in Tunnels
  BY MineIs, EndIs
<1>2. PICK g : g = [f EXCEPT !.dl.err = err, !.dl.pc = IF ~f.installed /\ f.frozen THEN "wait" ELSE "decide"]
  OBVIOUS
<1>3. g = [f EXCEPT !.dl.err = err, !.dl.pc = "decide"]
  BY <1>1, <1>2 DEF Unmoved
<1>4. /\ /\ g.cur = f.cur /\ g.next = f.next /\ g.freezeReq = f.freezeReq /\ g.frozen = f.frozen
         /\ g.installed = f.installed /\ g.upSwitched = f.upSwitched /\ g.dlSwitched = f.dlSwitched
         /\ g.rel = f.rel /\ g.resumeConn = f.resumeConn /\ g.resumeFrom = f.resumeFrom
         /\ g.upEnded = f.upEnded /\ g.aborted = f.aborted /\ g.done = f.done /\ g.suspended = f.suspended
         /\ g.writeDl = f.writeDl /\ g.end = f.end /\ g.read = f.read /\ g.got = f.got /\ g.st = f.st
         /\ g.up = f.up /\ g.att = f.att
      /\ g.dl.pc = "decide" /\ g.dl.src = f.dl.src /\ g.dl.err = err
  BY <1>1, <1>3 DEF Made, flowFields, dlFields
<1>5. (Told(g) => Told(f)) /\ f.st # "eof"
  BY <1>1, <1>4 DEF Told, Local
<1>6. Drifting(e, g, Dropped(tun, f.dl.src, e), {})
  BY <1>1, <1>4, <1>5, DroppedDrifts, DlDrifts
<1> QED BY <1>2, <1>6, DriftingFaithful

LEMMA DlDecideFaithful == ASSUME FlowInv, Faithful, NEW e \in Ends, DlDecide(e) PROVE Faithful'
<1>1. PICK f : f = flow[e]
  OBVIOUS
<1>2. /\ Made(f) /\ Unmoved(f) /\ Local(f, AppLen[e], Replay) /\ Drifts(e, tun, tun, {}) /\ Holds(e, f)
      /\ Running(f) /\ f.dl.pc = "decide" /\ used \in Nat
  BY <1>1, MineIs, EndIs DEF DlDecide
<1>3. PICK g : g = [f EXCEPT !.dl.err = "none"]
  OBVIOUS
<1>4. /\ /\ g.cur = f.cur /\ g.next = f.next /\ g.freezeReq = f.freezeReq /\ g.frozen = f.frozen
         /\ g.installed = f.installed /\ g.upSwitched = f.upSwitched /\ g.dlSwitched = f.dlSwitched
         /\ g.rel = f.rel /\ g.resumeConn = f.resumeConn /\ g.resumeFrom = f.resumeFrom
         /\ g.upEnded = f.upEnded /\ g.aborted = f.aborted /\ g.done = f.done /\ g.suspended = f.suspended
         /\ g.writeDl = f.writeDl /\ g.end = f.end /\ g.read = f.read /\ g.got = f.got /\ g.st = f.st
         /\ g.up = f.up /\ g.att = f.att
      /\ g.dl.pc = "decide" /\ g.dl.src = f.dl.src /\ g.dl.err = "none" /\ Made(g)
  BY <1>2, <1>3 DEF Made, flowFields, dlFields
<1>5. f.st # "eof" /\ ~Told(g)
  BY <1>2, <1>4 DEF Told, Local
<1>6. Drifting(e, g, tun, {})
  BY <1>1, <1>2, <1>4, <1>5, DlDrifts
<1>7. CASE f.dl.err = "eof" /\ Step(e, [g EXCEPT !.dlEnded = TRUE, !.ack.kick = Replay, !.st = "eof", !.dl.pc = "done"], tun)
  <2>1. PICK h : h = [g EXCEPT !.dlEnded = TRUE, !.ack.kick = Replay, !.st = "eof", !.dl.pc = "done"]
    OBVIOUS
  <2>2. /\ /\ h.cur = g.cur /\ h.next = g.next /\ h.freezeReq = g.freezeReq /\ h.frozen = g.frozen
           /\ h.installed = g.installed /\ h.upSwitched = g.upSwitched /\ h.dlSwitched = g.dlSwitched
           /\ h.rel = g.rel /\ h.resumeConn = g.resumeConn /\ h.resumeFrom = g.resumeFrom
           /\ h.upEnded = g.upEnded /\ h.aborted = g.aborted /\ h.done = g.done /\ h.suspended = g.suspended
           /\ h.writeDl = g.writeDl /\ h.end = g.end /\ h.read = g.read /\ h.got = g.got /\ h.up = g.up
           /\ h.att = g.att
        /\ h.dl.pc = "done" /\ h.dl.src = g.dl.src
    BY <1>4, <2>1 DEF Made, flowFields, dlFields
  <2>3. Told(f)
    BY <1>2, <1>7 DEF Told
  <2>4. Drifting(e, h, tun, {})
    BY <1>1, <1>2, <1>4, <2>2, <2>3, DlDrifts
  <2> QED BY <1>7, <2>1, <2>4, DriftingFaithful
<1>8. CASE CanSuspend(f) /\ Step(e, DlParked(Suspended(g)), SuspendTun(tun, f, e))
  <2>1. SuspendTun(tun, f, e) = SuspendTun(tun, g, e)
    BY <1>4 DEF SuspendTun
  <2>2. Drifting(e, Suspended(g), SuspendTun(tun, g, e), {})
    BY <1>4, <1>6, <1>8, SuspendDrifts DEF CanSuspend
  <2>3. Holds(e, g) /\ Running(g) /\ Unmoved(g)
    <3>1. Holds(e, g)
      BY <1>2, <1>3, DecidedKeeps DEF Holds
    <3> QED BY <1>2, <1>4, <1>6, <3>1 DEF Running, Drifting, Local
  <2>4. Made(Suspended(g)) /\ Suspended(g).suspended /\ Suspended(g).st # "eof"
    BY <1>4, <1>5, <2>3, SuspendedIs
  <2>5. Drifting(e, DlParked(Suspended(g)), SuspendTun(tun, g, e), {})
    BY <2>2, <2>4, DlParkedDrifts
  <2> QED BY <1>8, <2>1, <2>5, DriftingFaithful
<1>9. CASE \E why : Abort(e, g, tun, why)
  BY <1>4, <1>6, <1>9, AbortFaithful
<1> QED BY <1>1, <1>2, <1>3, <1>7, <1>8, <1>9 DEF DlDecide, Swapping, Unmoved

\* The acknowledgements.
LEMMA AckView ==
    ASSUME NEW f, Made(f), NEW g, Same(f, g, {"ack", "base"})
    PROVE  Alike(g, f)
<1>1. \A x \in flowFields : x \notin {"ack", "base"} => g[x] = f[x]
  BY DEF Made, Same
<1> QED BY <1>1 DEF flowFields, Alike

LEMMA KickAckFaithful == ASSUME FlowInv, Faithful, NEW e \in Ends, KickAck(e) PROVE Faithful'
<1>1. PICK f : f = flow[e]
  OBVIOUS
<1>2. Made(f) /\ Drifts(e, tun, tun, {})
  BY <1>1, MineIs
<1>3. PICK g : g = [f EXCEPT !.ack.kick = FALSE]
  OBVIOUS
<1>4. Same(f, g, {"ack", "base"}) /\ Same(f, Picked(g), {"ack", "base"})
  BY <1>2, <1>3 DEF Made, Same, Picked
<1>5. Drifting(e, g, tun, {})
  BY <1>1, <1>2, <1>4, AckView, ViewDrifts
<1>6. Drifting(e, Picked(g), tun, {})
  BY <1>1, <1>2, <1>4, AckView, ViewDrifts
<1>7. Step(e, Picked(g), tun) \/ Step(e, g, tun)
  BY <1>1, <1>3 DEF KickAck
<1> QED BY <1>5, <1>6, <1>7, DriftingFaithful

LEMMA NotedSame == ASSUME NEW f, Made(f) PROVE Same(f, Noted(f), {"ack", "base"})
<1>1. PICK g : g = IF f.ack.fresh THEN [f EXCEPT !.ack.sent = f.ack.dl, !.ack.endSent = @ \/ f.ack.ended] ELSE f
  OBVIOUS
<1>2. Same(f, g, {"ack", "base"})
  BY <1>1 DEF Made, Same
<1>3. Same(g, Picked(g), {"ack", "base"})
  BY <1>2 DEF Made, Same, Picked
<1>4. PICK k : k = Idle(g)
  OBVIOUS
<1>5. Same(g, k, {"ack", "base"})
  BY <1>2, <1>4 DEF Made, Same, Idle
<1>6. PICK u : u = Unacked(g)
  OBVIOUS
<1>7. Same(k, [k EXCEPT !.ack.kick = @ \/ u], {"ack", "base"})
  BY <1>2, <1>5 DEF Made, Same
<1>8. Noted(f) = IF g.dlEnded /\ ~g.ack.endSent THEN Picked(g) ELSE [k EXCEPT !.ack.kick = @ \/ u]
  BY <1>1, <1>4, <1>6 DEF Noted
<1> QED BY <1>2, <1>3, <1>5, <1>7, <1>8 DEF Same

\* One record that carries neither bytes nor a count.
LEMMA PlainIs ==
    \A n \in Nat, k \in {"ack", "ackend", "accept", "busy", "unknown"} : Plain(<<<<k, n>>>>)
<1>1. ASSUME NEW n \in Nat, NEW k \in {"ack", "ackend", "accept", "busy", "unknown"} PROVE Plain(<<<<k, n>>>>)
  <2>1. <<<<k, n>>>> \in Seq(Recs)
    BY RecordsAre DEF Kinds
  <2>2. PICK ms \in Seq(Recs) : ms = <<<<k, n>>>>
    BY <2>1
  <2>3. Len(ms) = 1 /\ ms[1] = <<k, n>>
    BY <2>2
  <2>4. ms[1][1] = k
    BY <2>3
  <2> QED BY <2>2, <2>3, <2>4 DEF Plain
<1> QED BY <1>1

LEMMA FlushAckFaithful == ASSUME FlowInv, Faithful, NEW e \in Ends, FlushAck(e) PROVE Faithful'
<1>1. PICK f : f = flow[e]
  OBVIOUS
<1>2. Holds(e, f) /\ Made(f) /\ Drifts(e, tun, tun, {}) /\ f.ack.dl \in Nat /\ f.ack.pc = "send"
  BY <1>1, EndIs, MineIs DEF FlushAck, Counts
<1>3. PICK c \in Tunnels : c = f.ack.c
  BY <1>2, OnTunnels
<1>4. PICK ms : ms = <<<<IF f.ack.ended THEN "ackend" ELSE "ack", f.ack.dl>>>>
  OBVIOUS
<1>5. Plain(ms)
  BY <1>2, <1>4, PlainIs
<1>6. Same(f, Noted(f), {"ack", "base"}) /\ Same(f, Idle(f), {"ack", "base"}) /\ Same(f, Picked(f), {"ack", "base"})
  <2>1. Same(f, Idle(f), {"ack", "base"})
    BY <1>2 DEF Made, Same, Idle
  <2>2. Same(f, Picked(f), {"ack", "base"})
    BY <1>2 DEF Made, Same, Picked
  <2> QED BY <1>2, <2>1, <2>2, NotedSame
<1>7. CASE Step(e, Noted(f), Written(tun, c, e, ms))
  <2>1. Drifts(e, tun, Written(tun, c, e, ms), {})
    BY <1>2, <1>5, DriftsWritten
  <2>2. Drifting(e, Noted(f), Written(tun, c, e, ms), {})
    BY <1>1, <1>2, <1>6, <2>1, AckView, ViewDrifts
  <2> QED BY <1>7, <2>2, DriftingFaithful
<1>8. CASE Step(e, Idle(f), tun)
  BY <1>1, <1>2, <1>6, <1>8, AckView, ViewDrifts, DriftingFaithful
<1>9. CASE Step(e, Picked(f), tun)
  BY <1>1, <1>2, <1>6, <1>9, AckView, ViewDrifts, DriftingFaithful
<1> QED BY <1>1, <1>3, <1>4, <1>7, <1>8, <1>9 DEF FlushAck

LEMMA ServeAcksFaithful ==
    ASSUME FlowInv, Faithful, NEW e \in Ends, NEW t \in Tunnels, ServeAcks(e, t)
    PROVE  Faithful'
<1>1. PICK f : f = flow[e]
  OBVIOUS
<1>2. Made(f) /\ Sides(tun) /\ Has(t, e)
  BY <1>1, MineIs DEF ServeAcks
<1>3. PICK m : m = Head1(t, e)
  OBVIOUS
<1>4. PICK g : g = IF m[1] \in {"ack", "ackend"} THEN AckedBy(f, m) ELSE f
  OBVIOUS
<1>5. Alike(g, f)
  BY <1>2, <1>4 DEF Made, flowFields, AckedBy, Alike
<1>6. PICK tm : tm = IF m[1] \in {"ack", "ackend", "end"} THEN Popped(t, e) ELSE Dropped(tun, t, e)
  OBVIOUS
<1>7. Drifts(e, tun, tm, {})
  <2>1. CASE m[1] \in {"ack", "ackend", "end"}
    <3>1. Head1(t, e)[1] # "data" /\ tun[t][e].in # << >>
      BY <1>2, <1>3, <2>1 DEF Has
    <3>2. Drifts(e, tun, Popped(t, e), {})
      BY <1>2, <3>1, DriftsPopped
    <3> QED BY <1>6, <2>1, <3>2
  <2>2. CASE m[1] \notin {"ack", "ackend", "end"}
    BY <1>6, <2>2, DroppedDrifts
  <2> QED BY <2>1, <2>2
<1>8. Drifting(e, g, tm, {})
  BY <1>1, <1>5, <1>7, ViewDrifts
<1>9. Step(e, g, tm)
  BY <1>1, <1>3, <1>4, <1>6 DEF ServeAcks
<1> QED BY <1>8, <1>9, DriftingFaithful

\* The flow ends.
LEMMA FinishFaithful == ASSUME FlowInv, Faithful, NEW e \in Ends, Finish(e) PROVE Faithful'
<1>1. PICK f : f = flow[e]
  OBVIOUS
<1>2. /\ Made(f) /\ Counts(f) /\ Local(f, AppLen[e], Replay) /\ Drifts(e, tun, tun, {}) /\ f.next = 0
      /\ \A t \in Tunnels : Side(f, tun[t][e], t)
      /\ Running(f) /\ f.up.pc = "done" /\ f.dl.pc = "done"
  BY <1>1, MineIs DEF Finish
<1>a. PICK c \in Tunnels \cup {0} : c = f.cur
  BY <1>1, MineIs
<1>3. PICK g : g = [f EXCEPT !.done = TRUE, !.ack.pc = "idle", !.ack.kick = FALSE]
  OBVIOUS
<1>4. PICK loud \in BOOLEAN : Step(e, g, AbortTun(tun, f, e, loud))
  BY <1>1, <1>3 DEF Finish
<1>5. /\ g.cur = f.cur /\ g.next = f.next /\ g.freezeReq = f.freezeReq /\ g.frozen = f.frozen
      /\ g.installed = f.installed /\ g.upSwitched = f.upSwitched /\ g.dlSwitched = f.dlSwitched
      /\ g.rel = f.rel /\ g.resumeConn = f.resumeConn /\ g.resumeFrom = f.resumeFrom /\ g.upEnded = f.upEnded
      /\ g.aborted = f.aborted /\ g.suspended = f.suspended /\ g.writeDl = f.writeDl /\ g.end = f.end
      /\ g.read = f.read /\ g.got = f.got /\ g.st = f.st /\ g.up = f.up /\ g.dl = f.dl /\ g.att = f.att
  BY <1>2, <1>3 DEF Made, flowFields
<1>6. PICK tm : tm = Closed(tun, c, e, loud)
  OBVIOUS
<1>7. AbortTun(tun, f, e, loud) = tm
  BY <1>2, <1>a, <1>6, ClosedNone DEF AbortTun
<1>8. /\ Drifts(e, tun, tm, {} \ {c})
      /\ \A u \in Tunnels : (u # c => tm[u][e] = tun[u][e]) /\ (u = c => ~tm[u][e].open)
  <2>1. Drifts(e, tun, tun, {})
    BY <1>2
  <2>2. /\ Drifts(e, tun, Closed(tun, c, e, loud), {} \ {c})
        /\ \A u \in Tunnels : /\ u # c => Closed(tun, c, e, loud)[u][e] = tun[u][e]
                              /\ u = c => ~Closed(tun, c, e, loud)[u][e].open
    BY <2>1, DriftsClosed
  <2> QED BY <1>6, <2>2
<1>9. {} \ {c} = {}
  OBVIOUS
<1>10. Local(g, AppLen[e], Replay)
  BY <1>2, <1>5 DEF Local, Unmoved, Taken, Settles, dlBytes
<1>11. Stays(f, g) /\ (Told(g) => Told(f)) /\ g.read \in Nat
  BY <1>2, <1>5 DEF Stays, Told, Counts
<1>12. ASSUME NEW t \in Tunnels PROVE Calm(f, g, t, tm[t][e].open)
  <2>1. CASE t = c
    BY <1>8, <2>1 DEF Calm
  <2>2. CASE t # c
    <3>1. tm[t][e] = tun[t][e] /\ Side(f, tun[t][e], t)
      BY <1>2, <1>8, <2>2
    <3> QED BY <1>2, <1>5, <1>a, <2>2, <3>1 DEF Calm, Settles
  <2> QED BY <2>1, <2>2
<1>13. Drifting(e, g, tm, {})
  BY <1>1, <1>8, <1>9, <1>10, <1>11, <1>12 DEF Drifting
<1> QED BY <1>4, <1>7, <1>13, DriftingFaithful

LEMMA GiveUpFaithful ==
    ASSUME FlowInv, Faithful, NEW e \in Ends, NEW why, Abort(e, flow[e], tun, why)
    PROVE  Faithful'
<1>1. Drifting(e, flow[e], tun, {})
  BY MineIs, AlikeSame, ViewDrifts
<1> QED BY <1>1, MineIs, AbortFaithful

\* The flow is suspended although no pump has failed.
LEMMA SuspendFaithful ==
    ASSUME FlowInv, Faithful, NEW e \in Ends, Replay, Stepped(e, Suspended(flow[e]), SuspendTun(tun, flow[e], e))
    PROVE  Faithful'
<1>1. Drifting(e, flow[e], tun, {})
  BY MineIs, AlikeSame, ViewDrifts
<1>2. Drifting(e, Suspended(flow[e]), SuspendTun(tun, flow[e], e), {})
  BY <1>1, MineIs, SuspendDrifts
<1> QED BY <1>2, DriftingStepped

\* Data that reaches an app that no longer reads: the pump gives up.
LEMMA DlDropFaithful ==
    ASSUME FlowInv, Faithful, NEW e \in Ends, NEW f, f = flow[e], f.dl.pc = "read", Has(f.dl.src, e),
           Abort(e, f, Popped(f.dl.src, e), "app")
    PROVE  Faithful'
<1>1. /\ Made(f) /\ Local(f, AppLen[e], Replay) /\ Sides(tun) /\ Running(f) /\ Counts(f)
      /\ \A t \in Tunnels : Side(f, tun[t][e], t)
  BY MineIs, EndIs
<1>2. PICK t \in Tunnels : t = f.dl.src /\ t = f.cur
  BY <1>1, EndIs DEF Local
<1>3. tun[t][e].open /\ tun[t][e].in # << >>
  BY <1>2 DEF Has
<1>4. /\ Drifts(e, tun, Popped(t, e), {t})
      /\ \A u \in Tunnels : u # t => Popped(t, e)[u][e] = tun[u][e]
  BY <1>1, <1>3, DriftsPopped
<1>5. Drifting(e, f, tun, {})
  BY <1>1, MineIs, AlikeSame, ViewDrifts
<1>6. Drifting(e, f, Popped(t, e), {t})
  BY <1>4, <1>5 DEF Drifting
<1> QED BY <1>1, <1>2, <1>6, AbortFaithful

\* Nothing changes but the attempts.
AttOnly(g, f) ==
    /\ g.cur = f.cur /\ g.next = f.next /\ g.freezeReq = f.freezeReq /\ g.frozen = f.frozen
    /\ g.installed = f.installed /\ g.upSwitched = f.upSwitched /\ g.dlSwitched = f.dlSwitched /\ g.rel = f.rel
    /\ g.resumeConn = f.resumeConn /\ g.resumeFrom = f.resumeFrom /\ g.upEnded = f.upEnded
    /\ g.aborted = f.aborted /\ g.done = f.done /\ g.suspended = f.suspended /\ g.writeDl = f.writeDl
    /\ g.end = f.end /\ g.read = f.read /\ g.got = f.got /\ g.st = f.st /\ g.up = f.up /\ g.dl = f.dl

\* The handshakes: one on t moves on, or is over, or its leg is closed.
LEMMA AttDrifts ==
    ASSUME NEW e \in Ends, NEW g, NEW tm, Drifting(e, g, tm, {}), Made(g), NEW t \in Tunnels, NEW a,
           a.pc \notin {"freezing", "count", "readcount", "replay"}, a.pc # "none" => a.mode = "resume",
           g.att[t].pc \in {"readcount", "replay"} => ~tm[t][e].open
    PROVE  Drifting(e, With(g, t, a), tm, {})
<1> USE DEF AttOnly
<1>1. PICK h : h = With(g, t, a)
  OBVIOUS
<1>2. /\ AttOnly(h, g)
  BY <1>1 DEF Made, flowFields, With
<1>3. DOMAIN g.att = Tunnels /\ h.att = [g.att EXCEPT ![t] = a]
  BY <1>1 DEF Made, flowFields, Atts, With
<1>4. h.att[t] = a /\ \A v \in Tunnels : v # t => h.att[v] = g.att[v]
  BY <1>3
<1>5. Unmoved(h)
  BY <1>2, <1>4 DEF Drifting, Local, Unmoved
<1>6. \A v \in Tunnels : /\ Settles(h, v) => Settles(g, v) /\ h.att[v].own = g.att[v].own
                         /\ h.att[v].pc = "replay" => g.att[v].pc = "replay"
  BY <1>4 DEF Settles
<1>7. Taken(h) = Taken(g) /\ dlBytes(h) = dlBytes(g)
  BY <1>2 DEF Taken, dlBytes
<1>8. Local(h, AppLen[e], Replay)
  BY <1>2, <1>5, <1>6, <1>7 DEF Drifting, Local
<1>9. Stays(flow[e], h) /\ (Told(h) => Told(flow[e])) /\ h.read \in Nat
  BY <1>2 DEF Drifting, Stays, Told
<1>10. ASSUME NEW v \in Tunnels PROVE Calm(flow[e], h, v, tm[v][e].open)
  <2>1. Calm(flow[e], g, v, tm[v][e].open)
    BY DEF Drifting
  <2>2. CASE v # t
    BY <1>2, <1>4, <2>1, <2>2 DEF Calm, Settles, Running, WritesFrom, Replaying, Taken
  <2>3. CASE v = t
    <3>1. ~tm[v][e].open => Calm(flow[e], h, v, tm[v][e].open)
      BY DEF Calm
    <3>2. tm[v][e].open => WritesFrom(h, v) = WritesFrom(g, v) /\ h.att[v].pc # "replay" /\ g.att[v].pc # "readcount"
      BY <1>2, <1>4, <1>7, <2>3 DEF WritesFrom, Replaying
    <3>3. ~Settles(h, v)
      BY <1>4, <2>3 DEF Settles
    <3> QED BY <1>2, <2>1, <3>1, <3>2, <3>3 DEF Calm, Running
  <2> QED BY <2>2, <2>3
<1> QED BY <1>1, <1>8, <1>9, <1>10 DEF Drifting

LEMMA GoesIs ==
    ASSUME NEW g, Made(g), NEW t \in Tunnels, NEW pc
    PROVE  \E a : Goes(g, t, pc) = With(g, t, a) /\ a.pc = pc /\ a.mode = g.att[t].mode /\ a.own = g.att[t].own
<1>1. PICK a : a = [g.att[t] EXCEPT !.pc = pc]
  OBVIOUS
<1>2. DOMAIN g = flowFields /\ DOMAIN g.att = Tunnels /\ DOMAIN g.att[t] = attFields
  BY DEF Made, Atts
<1>3. a.pc = pc /\ a.mode = g.att[t].mode /\ a.own = g.att[t].own
  BY <1>1, <1>2 DEF attFields
<1>4. Goes(g, t, pc) = With(g, t, a)
  BY <1>1, <1>2 DEF Goes, With, flowFields
<1> QED BY <1>3, <1>4

LEMMA GoesDrifts ==
    ASSUME NEW e \in Ends, NEW g, NEW tm, Drifting(e, g, tm, {}), Made(g), NEW t \in Tunnels,
           NEW pc \in {"begin", "accept"}, g.att[t].mode = "resume",
           g.att[t].pc \notin {"readcount", "replay"}
    PROVE  Drifting(e, Goes(g, t, pc), tm, {})
<1>1. PICK a : Goes(g, t, pc) = With(g, t, a) /\ a.pc = pc /\ a.mode = g.att[t].mode
  BY GoesIs
<1>2. a.pc \notin {"freezing", "count", "readcount", "replay"} /\ (a.pc # "none" => a.mode = "resume")
  BY <1>1
<1>3. Drifting(e, With(g, t, a), tm, {})
  BY <1>2, AttDrifts
<1> QED BY <1>1, <1>3

\* The leg is closed and its handshake is over.
LEMMA OverIs ==
    ASSUME NEW f, Made(f), NEW t \in Tunnels, NEW g, g = Over(f, t)
    PROVE  /\ Made(g)
           /\ AttOnly(g, f)
           /\ g.upBytes = f.upBytes
           /\ g.att[t] = NoAttempt /\ \A v \in Tunnels : v # t => g.att[v] = f.att[v]
<1> USE DEF AttOnly
<1>2. DOMAIN f = flowFields /\ DOMAIN f.att = Tunnels /\ Atts(f.att)
  BY DEF Made, Atts
<1>3. /\ DOMAIN g = flowFields /\ g.up = f.up /\ g.dl = f.dl /\ g.ack = f.ack
      /\ g.att = [f.att EXCEPT ![t] = NoAttempt] /\ g.upBytes = f.upBytes
      /\ AttOnly(g, f)
  BY <1>2 DEF flowFields, Over, With
<1>4. DOMAIN g.att = Tunnels /\ g.att[t] = NoAttempt /\ \A v \in Tunnels : v # t => g.att[v] = f.att[v]
  BY <1>2, <1>3
<1>5. DOMAIN NoAttempt = attFields /\ NoAttempt.own \in Nat
  BY DEF NoAttempt, attFields
<1>6. Atts(g.att)
  BY <1>2, <1>4, <1>5 DEF Atts
<1>7. Made(g)
  BY <1>3, <1>6 DEF Made
<1> QED BY <1>3, <1>4, <1>7

LEMMA OverDriftsToo ==
    ASSUME NEW e \in Ends, NEW g, NEW tm, Drifting(e, g, tm, {}), Made(g), NEW t \in Tunnels, ~tm[t][e].open
    PROVE  Drifting(e, Over(g, t), tm, {})
<1>1. NoAttempt.pc = "none"
  BY DEF NoAttempt
<1> QED BY <1>1, AttDrifts DEF Over

LEMMA LegDrifts ==
    ASSUME FlowInv, Faithful, NEW e \in Ends, NEW t \in Tunnels, NEW tn, Drifts(e, tun, tn, {})
    PROVE  Drifting(e, Over(flow[e], t), Dropped(tn, t, e), {}) /\ Made(Over(flow[e], t))
<1>1. Drifts(e, tun, Closed(tn, t, e, FALSE), {} \ {t}) /\ ~Closed(tn, t, e, FALSE)[t][e].open
  BY DriftsClosed
<1>2. {} \ {t} = {}
  OBVIOUS
<1>3. Drifts(e, tun, Dropped(tn, t, e), {}) /\ ~Dropped(tn, t, e)[t][e].open
  BY <1>1, <1>2 DEF Dropped
<1>4. Drifting(e, flow[e], Dropped(tn, t, e), {})
  BY <1>3, AlikeSame, ViewDrifts
<1> QED BY <1>3, <1>4, MineIs, OverDriftsToo, OverIs

LEMMA CloseLegFaithful ==
    ASSUME FlowInv, Faithful, NEW e \in Ends, NEW t \in Tunnels, CloseLeg(e, flow[e], t)
    PROVE  Faithful'
<1>1. Drifts(e, tun, tun, {})
  BY MineIs
<1>2. Drifting(e, Over(flow[e], t), Dropped(tun, t, e), {})
  BY <1>1, LegDrifts
<1> QED BY <1>2, DriftingFaithful DEF CloseLeg

LEMMA RejectFaithful ==
    ASSUME FlowInv, Faithful, NEW t \in Tunnels, NEW why \in {"unknown", "busy"}, Reject(flow["client"], t, why)
    PROVE  Faithful'
<1>1. PICK e \in Ends : e = "client"
  BY DEF Ends
<1>2. PICK ms : ms = <<<<why, 0>>>>
  OBVIOUS
<1>3. Plain(ms)
  BY <1>2, PlainIs
<1>4. Drifts(e, tun, tun, {})
  BY MineIs
<1>5. Drifts(e, tun, Written(tun, t, e, ms), {})
  BY <1>3, <1>4, DriftsWritten
<1>6. Drifting(e, Over(flow[e], t), Dropped(Written(tun, t, e, ms), t, e), {})
  BY <1>5, LegDrifts
<1>7. Step(e, Over(flow[e], t), Dropped(Written(tun, t, e, ms), t, e))
  BY <1>1, <1>2 DEF Reject
<1> QED BY <1>6, <1>7, DriftingFaithful

LEMMA AbortLegFaithful ==
    ASSUME FlowInv, Faithful, NEW e \in Ends, NEW t \in Tunnels, NEW why,
           Abort(e, Over(flow[e], t), Dropped(tun, t, e), why)
    PROVE  Faithful'
<1>1. Drifts(e, tun, tun, {})
  BY MineIs
<1>2. Drifting(e, Over(flow[e], t), Dropped(tun, t, e), {}) /\ Made(Over(flow[e], t))
  BY <1>1, LegDrifts
<1> QED BY <1>2, AbortFaithful

\* A handshake is a resume's.
LEMMA ResumesOnly ==
    ASSUME FlowInv, Faithful, NEW e \in Ends, NEW t \in Tunnels, At(e, t).pc # "none"
    PROVE  At(e, t).mode = "resume" /\ At(e, t).pc # "freezing"
BY MineIs DEF Unmoved, At

LEMMA ReadVerdictFaithful == ASSUME FlowInv, Faithful, NEW t \in Tunnels, ReadVerdict(t) PROVE Faithful'
<1>0. PICK e \in Ends : e = "server"
  BY DEF Ends
<1>1. PICK f : f = flow[e]
  OBVIOUS
<1>2. f.att[t].pc = "verdict" /\ f.att[t].mode = "resume" /\ Made(f) /\ Sides(tun)
  BY <1>0, <1>1, MineIs, ResumesOnly DEF ReadVerdict, At
<1>3. CASE Has(t, e) /\ Head1(t, e)[1] = "accept" /\ Step(e, Goes(f, t, "begin"), Popped(t, e))
  <2>1. Drifts(e, tun, Popped(t, e), {})
    BY <1>2, <1>3, DriftsPopped DEF Has
  <2>2. Drifting(e, f, Popped(t, e), {})
    BY <1>1, <2>1, AlikeSame, ViewDrifts
  <2>3. Drifting(e, Goes(f, t, "begin"), Popped(t, e), {})
    BY <1>2, <2>2, GoesDrifts
  <2> QED BY <1>3, <2>3, DriftingFaithful
<1>4. CASE CloseLeg(e, f, t)
  BY <1>1, <1>4, CloseLegFaithful
<1>5. CASE Abort(e, Over(f, t), Dropped(tun, t, e), "gone")
  BY <1>1, <1>5, AbortLegFaithful
<1> QED BY <1>0, <1>1, <1>2, <1>3, <1>4, <1>5 DEF ReadVerdict, At

LEMMA ReadAttachFaithful == ASSUME FlowInv, Faithful, NEW t \in Tunnels, ReadAttach(t) PROVE Faithful'
<1>0. PICK e \in Ends : e = "client"
  BY DEF Ends
<1>1. PICK f : f = flow[e]
  OBVIOUS
<1>2. /\ Holds(e, f) /\ Made(f) /\ Unmoved(f) /\ Sides(tun) /\ t \in 1..used /\ Has(t, e) /\ f.att[t].pc = "none"
      /\ Side(f, tun[t][e], t)
  BY <1>0, <1>1, MineIs, EndIs DEF ReadAttach, Tunnels, At
<1>3. PICK m : m = Head1(t, e)[1]
  OBVIOUS
<1>4. m # "move"
  <2>1. tun[t][e].in \in Seq(Recs) /\ tun[t][e].in # << >>
    BY <1>2 DEF Sides, Has
  <2>2. 1 \in 1..Len(tun[t][e].in) /\ Head(tun[t][e].in) = tun[t][e].in[1]
    BY <2>1
  <2> QED BY <1>2, <1>3, <2>2 DEF Side, Has1, Head1
<1>5. CASE Reject(f, t, "unknown")
  BY <1>0, <1>1, <1>5, RejectFaithful
<1>6. PICK a : a = [NoAttempt EXCEPT !.mode = m]
  OBVIOUS
<1>7. DOMAIN a = attFields /\ a.own \in Nat /\ a.pc = "none" /\ a.mode = m
  BY <1>6 DEF NoAttempt, attFields
<1>8. PICK g : g = With(f, t, a)
  OBVIOUS
<1>9. CASE m = "resume" /\ CanSuspend(f) /\ Step(e, Goes(Suspended(g), t, "accept"), SuspendTun(Popped(t, e), f, e))
  <2>1. Holds(e, g) /\ Same(f, g, {"att"}) /\ g.att = [f.att EXCEPT ![t] = a]
    <3>1. /\ a.pc # "freezing" /\ (a.pc # "none" => t \in 1..used)
          /\ (a.pc \in {"count", "readcount"} /\ a.mode = "resume" => Settles(f, t) \/ Parked(f))
      BY <1>7
    <3>2. Holds(e, With(f, t, a)) /\ Same(f, With(f, t, a), {"att"}) /\ With(f, t, a).att = [f.att EXCEPT ![t] = a]
      BY <1>2, <1>7, <3>1, WithKeeps
    <3> QED BY <1>8, <3>2
  <2>2. Made(g) /\ g.att[t] = a
    BY <1>2, <2>1 DEF Holds, EndInv, Made, Atts
  <2>3. g.cur = f.cur /\ g.next = f.next /\ g.suspended = f.suspended /\ Running(g) = Running(f)
    BY <1>2, <2>1, SameIs
  <2>4. Drifts(e, tun, Popped(t, e), {})
    BY <1>2, <1>3, <1>9, DriftsPopped DEF Has
  <2>5. Drifting(e, f, Popped(t, e), {})
    BY <1>1, <2>4, AlikeSame, ViewDrifts
  <2>6. a.pc \notin {"freezing", "count", "readcount", "replay"} /\ (a.pc # "none" => a.mode = "resume")
    BY <1>7
  <2>7. Drifting(e, With(f, t, a), Popped(t, e), {})
    BY <1>2, <2>5, <2>6, AttDrifts
  <2>8. Drifting(e, g, Popped(t, e), {})
    BY <1>8, <2>7
  <2>9. Replay /\ Running(g) /\ Unmoved(g)
    BY <1>9, <2>3, <2>8 DEF CanSuspend, Drifting, Local
  <2>10. PICK h : h = Suspended(g)
    OBVIOUS
  <2>11. PICK tm : tm = SuspendTun(Popped(t, e), g, e)
    OBVIOUS
  <2>12. Drifting(e, h, tm, {})
    BY <2>2, <2>8, <2>9, <2>10, <2>11, SuspendDrifts
  <2>13. Made(h) /\ h.att[t] = g.att[t]
    BY <2>1, <2>9, <2>10, SuspendedIs
  <2>14. Drifting(e, Goes(h, t, "accept"), tm, {})
    BY <1>7, <1>9, <2>2, <2>12, <2>13, GoesDrifts
  <2>15. tm = SuspendTun(Popped(t, e), f, e)
    BY <2>3, <2>11 DEF SuspendTun
  <2> QED BY <1>9, <2>10, <2>14, <2>15, DriftingFaithful
<1> QED BY <1>0, <1>1, <1>3, <1>4, <1>5, <1>6, <1>8, <1>9 DEF ReadAttach

LEMMA WriteAcceptFaithful == ASSUME FlowInv, Faithful, NEW t \in Tunnels, WriteAccept(t) PROVE Faithful'
<1>0. PICK e \in Ends : e = "client"
  BY DEF Ends
<1>1. PICK f : f = flow[e]
  OBVIOUS
<1>2. f.att[t].pc = "accept" /\ f.att[t].mode = "resume" /\ Made(f) /\ Drifts(e, tun, tun, {})
  BY <1>0, <1>1, MineIs, ResumesOnly DEF WriteAccept, At
<1>3. PICK ms : ms = <<<<"accept", 0>>>>
  OBVIOUS
<1>4. CASE Step(e, Goes(f, t, "begin"), Written(tun, t, e, ms))
  <2>1. Plain(ms)
    BY <1>3, PlainIs
  <2>2. Drifts(e, tun, Written(tun, t, e, ms), {})
    BY <1>2, <2>1, DriftsWritten
  <2>3. Drifting(e, f, Written(tun, t, e, ms), {})
    BY <1>1, <2>2, AlikeSame, ViewDrifts
  <2>4. Drifting(e, Goes(f, t, "begin"), Written(tun, t, e, ms), {})
    BY <1>2, <2>3, GoesDrifts
  <2> QED BY <1>4, <2>4, DriftingFaithful
<1>5. CASE CloseLeg(e, f, t)
  BY <1>1, <1>5, CloseLegFaithful
<1> QED BY <1>0, <1>1, <1>2, <1>3, <1>4, <1>5 DEF WriteAccept, At

LEMMA CountFailedFaithful ==
    ASSUME FlowInv, Faithful, NEW e \in Ends, NEW t \in Tunnels, At(e, t).pc # "none", CountFailed(e, t)
    PROVE  Faithful'
<1>1. CloseLeg(e, flow[e], t)
  BY ResumesOnly DEF CountFailed, CloseLeg
<1> QED BY <1>1, CloseLegFaithful

LEMMA NoCountFaithful == ASSUME FlowInv, Faithful, NEW e \in Ends, NEW t \in Tunnels, NoCount(e, t) PROVE Faithful'
BY CountFailedFaithful DEF NoCount

LEMMA HandshakeTimeoutFaithful ==
    ASSUME FlowInv, Faithful, NEW e \in Ends, NEW t \in Tunnels, HandshakeTimeout(e, t)
    PROVE  Faithful'
<1>1. CASE CloseLeg(e, flow[e], t)
  BY <1>1, CloseLegFaithful
<1>2. CASE At(e, t).pc = "readcount" /\ CountFailed(e, t)
  BY <1>2, CountFailedFaithful
<1>3. At(e, t).pc # "freezing"
  BY ResumesOnly
<1> QED BY <1>1, <1>2, <1>3 DEF HandshakeTimeout

LEMMA FailLegFaithful == ASSUME FlowInv, Faithful, NEW e \in Ends, NEW t \in Tunnels, FailLeg(e, t) PROVE Faithful'
<1>1. CloseLeg(e, flow[e], t)
  BY ResumesOnly DEF FailLeg
<1> QED BY <1>1, CloseLegFaithful

\* The replay of an upload that has ended does not get through.
LEMMA ReplayFails ==
    ASSUME FlowInv, Faithful, NEW e \in Ends, NEW t \in Tunnels,
           SuspendOrAbort(e, Over(flow[e], t), Dropped(tun, t, e), "tunnel")
    PROVE  Faithful'
<1>1. Drifts(e, tun, tun, {})
  BY MineIs
<1>2. PICK g : g = Over(flow[e], t)
  OBVIOUS
<1>3. PICK tm : tm = Dropped(tun, t, e)
  OBVIOUS
<1>4. Drifting(e, g, tm, {}) /\ Made(g)
  BY <1>1, <1>2, <1>3, LegDrifts
<1>5. SuspendOrAbort(e, g, tm, "tunnel")
  BY <1>2, <1>3
<1> QED BY <1>4, <1>5, SuspendOrAbortFaithful

LEMMA SessionLostFaithful == ASSUME FlowInv, Faithful, SessionLost \/ GiveUpMove PROVE Faithful'
<1>1. PICK e \in Ends : e = "server"
  BY DEF Ends
<1>2. Replay /\ Stepped(e, Suspended(flow[e]), SuspendTun(tun, flow[e], e))
  BY <1>1 DEF SessionLost, GiveUpMove, CanSuspend, Step, Stepped
<1> QED BY <1>2, SuspendFaithful

LEMMA ExpiresFaithful == ASSUME FlowInv, Faithful, NEW e \in Ends, WindowExpires(e) \/ AppFails(e) PROVE Faithful'
BY GiveUpFaithful DEF WindowExpires, AppFails

-----------------------------------------------------------------------------
(* Data and END are written to the tunnel the end is on.                    *)

\* One queue, and what is written behind it.
LEMMA HasJoined ==
    ASSUME NEW q \in Seq(Recs), NEW ms \in Seq(Recs)
    PROVE  /\ q \o ms \in Seq(Recs)
           /\ \A k : Has1(q \o ms, k) <=> Has1(q, k) \/ Has1(ms, k)
           /\ \A i \in 1..Len(q \o ms) : \/ i \in 1..Len(q) /\ (q \o ms)[i] = q[i]
                                         \/ i - Len(q) \in 1..Len(ms) /\ (q \o ms)[i] = ms[i - Len(q)]
<1>1. PICK p \in Seq(Recs) : p = q \o ms
  BY Joined
<1>2. PICK a \in Nat : a = Len(q)
  OBVIOUS
<1>3. PICK b \in Nat : b = Len(ms)
  OBVIOUS
<1>4. Len(p) = a + b /\ \A i \in 1..(a + b) : p[i] = IF i <= a THEN q[i] ELSE ms[i - a]
  BY <1>1, <1>2, <1>3
<1>5. \A i \in 1..(a + b) : \/ i \in 1..a /\ p[i] = q[i]
                            \/ i - a \in 1..b /\ p[i] = ms[i - a]
  <2>1. ASSUME NEW i \in 1..(a + b) PROVE (i <= a /\ i \in 1..a) \/ (~(i <= a) /\ i - a \in 1..b)
    OBVIOUS
  <2> QED BY <1>4, <2>1
<1>6. \A i \in 1..a : i \in 1..(a + b) /\ p[i] = q[i]
  BY <1>4
<1>7. \A i \in 1..b : a + i \in 1..(a + b) /\ p[a + i] = ms[i]
  <2>1. ASSUME NEW i \in 1..b PROVE a + i \in 1..(a + b) /\ ~(a + i <= a) /\ (a + i) - a = i
    OBVIOUS
  <2> QED BY <1>4, <2>1
<1>8. \A k : Has1(p, k) <=> Has1(q, k) \/ Has1(ms, k)
  <2>1. ASSUME NEW k, Has1(p, k) PROVE Has1(q, k) \/ Has1(ms, k)
    BY <1>2, <1>3, <1>4, <1>5, <2>1 DEF Has1
  <2>2. ASSUME NEW k, Has1(q, k) PROVE Has1(p, k)
    BY <1>2, <1>4, <1>6, <2>2 DEF Has1
  <2>3. ASSUME NEW k, Has1(ms, k) PROVE Has1(p, k)
    BY <1>3, <1>4, <1>7, <2>3 DEF Has1
  <2> QED BY <2>1, <2>2, <2>3
<1> QED BY <1>1, <1>2, <1>3, <1>4, <1>5, <1>8

\* The tunnel t as it is before and after end e, which is on it, has written ms.
Sent(s, s2, r, r2, ms, dead) ==
    /\ s.in \in Seq(Recs) /\ r.in \in Seq(Recs) /\ ms \in Seq(Recs)
    /\ s2.open = s.open /\ s2.in = s.in /\ r2.open = r.open
    /\ r2.in = IF dead \/ ~r.open THEN r.in ELSE r.in \o ms
    /\ ~Has1(ms, "count") /\ ~Has1(ms, "move") /\ (s.open \/ ms = << >>)

\* The end goes from f to g as it writes.
Sends(f, g, t, o) ==
    /\ f.cur = t
    /\ o => Running(g) /\ ~g.suspended /\ (g.up.pc = "end" /\ g.up.dst = t => g.att[t].pc # "replay")

LEMMA SentHas ==
    ASSUME NEW s, NEW s2, NEW r, NEW r2, NEW ms, NEW dead, Sent(s, s2, r, r2, ms, dead)
    PROVE  /\ r2.in \in Seq(Recs)
           /\ Has1(r2.in, "count") <=> Has1(r.in, "count")
           /\ Has1(r2.in, "move") <=> Has1(r.in, "move")
           /\ \A i \in 1..Len(r2.in) : r2.in[i][1] = "count" => i \in 1..Len(r.in) /\ r.in[i] = r2.in[i]
<1>1. CASE dead \/ ~r.open
  BY <1>1 DEF Sent
<1>2. CASE ~(dead \/ ~r.open)
  <2>1. PICK q \in Seq(Recs), p \in Seq(Recs) : q = r.in /\ p = ms
    BY DEF Sent
  <2>2. r2.in = q \o p /\ ~Has1(p, "count") /\ ~Has1(p, "move")
    BY <1>2, <2>1 DEF Sent
  <2>3. \A i \in 1..Len(q \o p) : (q \o p)[i][1] = "count" => i \in 1..Len(q) /\ q[i] = (q \o p)[i]
    BY <2>2, HasJoined DEF Has1
  <2> QED BY <2>1, <2>2, <2>3, HasJoined
<1> QED BY <1>1, <1>2

LEMMA SentMine ==
    ASSUME NEW f, NEW g, NEW h, NEW s, NEW s2, NEW r, NEW r2, NEW t, NEW dead, NEW L, NEW ms,
           Tied(f, h, s, r, t, dead, L), Sent(s, s2, r, r2, ms, dead), Stays(f, g), Sends(f, g, t, s.open)
    PROVE  Tied(g, h, s2, r2, t, dead, L)
<1>1. g.cur = t /\ f.cur = t /\ dlBytes(g) = dlBytes(f)
  BY DEF Stays, dlBytes, Sends
<1>2. /\ Has1(r2.in, "count") <=> Has1(r.in, "count")
      /\ \A i \in 1..Len(r2.in) : r2.in[i][1] = "count" => i \in 1..Len(r.in) /\ r.in[i] = r2.in[i]
  BY SentHas
<1>3. s2.open = s.open /\ s2.in = s.in /\ r2.open = r.open
  BY DEF Sent
<1>4. Side(g, s2, t)
  BY <1>1, <1>3 DEF Tied, Side, Sends
<1>5. HasSaid(g, t) /\ Listens(f, t)
  BY <1>1 DEF HasSaid, Listens
<1>6. r2.open /\ h.cur # t => Bare(s2.in)
  BY <1>3 DEF Tied
<1>7. s2.open => \A i \in 1..Len(r2.in) : r2.in[i][1] = "count" => r2.in[i][2] = dlBytes(g)
  BY <1>1, <1>2, <1>3 DEF Tied
<1>8. Follows(g, h, s2, r2, t, dead, L)
  BY <1>1, <1>3, <1>5 DEF Tied, Follows
<1> QED BY <1>4, <1>5, <1>6, <1>7, <1>8 DEF Tied

LEMMA SentPeer ==
    ASSUME NEW f, NEW g, NEW h, NEW s, NEW s2, NEW r, NEW r2, NEW t, NEW dead, NEW M, NEW ms,
           Tied(h, f, r, s, t, dead, M), Sent(s, s2, r, r2, ms, dead), Stays(f, g), Sends(f, g, t, s.open),
           f.read \in Nat, g.read \in Nat,
           Line(ms, WritesFrom(f, t), WritesFrom(g, t), g.read, M, g.upEnded)
    PROVE  Tied(h, g, r2, s2, t, dead, M)
<1>1. g.cur = t /\ f.cur = t /\ f.read <= g.read /\ (f.upEnded => g.upEnded)
  BY DEF Stays, Sends
<1>2. /\ r2.in \in Seq(Recs) /\ (Has1(r2.in, "count") <=> Has1(r.in, "count"))
      /\ Has1(r2.in, "move") <=> Has1(r.in, "move")
      /\ \A i \in 1..Len(r2.in) : r2.in[i][1] = "count" => i \in 1..Len(r.in) /\ r.in[i] = r2.in[i]
  BY SentHas
<1>3. /\ s2.open = s.open /\ s2.in = s.in /\ r2.open = r.open /\ (~r.open => r2.in = r.in)
      /\ ms \in Seq(Recs) /\ r.in \in Seq(Recs) /\ (s.open \/ ms = << >>)
      /\ r2.in = IF dead \/ ~r.open THEN r.in ELSE r.in \o ms
  BY DEF Sent
<1>4. Counted1(r2.in)
  BY <1>2 DEF Tied, Side, Counted1
<1>5. Side(h, r2, t)
  BY <1>2, <1>3, <1>4 DEF Tied, Side
<1>6. r2.open => HasSaid(h, t)
  BY <1>1, <1>3 DEF Tied
<1>7. r2.open => \A i \in 1..Len(s2.in) : s2.in[i][1] = "count" => s2.in[i][2] = dlBytes(h)
  BY <1>3 DEF Tied
<1>8. ASSUME r2.open, Listens(h, t)
      PROVE  \E b \in 0..g.read : /\ Line(r2.in, dlBytes(h), b, g.read, M, g.upEnded)
                                  /\ s2.open /\ g.cur = t /\ ~dead => b = WritesFrom(g, t)
  <2>1. PICK b \in 0..f.read : /\ Line(r.in, dlBytes(h), b, f.read, M, f.upEnded)
                               /\ s.open /\ f.cur = t /\ ~dead => b = WritesFrom(f, t)
    BY <1>3, <1>8 DEF Tied, Follows
  <2>2. Line(r.in, dlBytes(h), b, g.read, M, g.upEnded)
    BY <1>1, <1>3, <2>1, LineMore
  <2>3. CASE dead
    <3>1. Line(r2.in, dlBytes(h), b, g.read, M, g.upEnded)
      BY <1>3, <2>2, <2>3
    <3>2. b \in 0..g.read
      BY <1>1
    <3> QED BY <2>3, <3>1, <3>2
  <2>4. CASE ~dead /\ s.open
    <3>1. b = WritesFrom(f, t)
      BY <1>1, <2>1, <2>4
    <3>2. Line(r.in \o ms, dlBytes(h), WritesFrom(g, t), g.read, M, g.upEnded)
      BY <1>3, <2>2, <3>1, LineJoined
    <3>3. r2.in = r.in \o ms
      BY <1>3, <1>8, <2>4
    <3>4. WritesFrom(g, t) \in 0..g.read
      BY <1>3, LineEnds
    <3> QED BY <3>2, <3>3, <3>4
  <2>5. CASE ~dead /\ ~s.open
    <3>1. ms = << >>
      BY <1>3, <2>5
    <3>2. r.in \o << >> = r.in
      BY <1>3
    <3>3. Line(r2.in, dlBytes(h), b, g.read, M, g.upEnded)
      BY <1>3, <2>2, <3>1, <3>2
    <3>4. b \in 0..g.read
      BY <1>1
    <3> QED BY <1>3, <2>5, <3>3, <3>4
  <2> QED BY <2>3, <2>4, <2>5
<1> QED BY <1>1, <1>5, <1>6, <1>7, <1>8 DEF Tied, Follows

\* A write.
LEMMA SentBound ==
    ASSUME NEW e \in Ends, NEW f, NEW g, NEW h, NEW tn, Sides(tn), Bound(e, f, h, tn), NEW t \in Tunnels,
           NEW ms \in Seq(Recs), NEW tm, tm = Written(tn, t, e, ms), Stays(f, g), Sends(f, g, t, tn[t][e].open),
           ~Has1(ms, "count"), ~Has1(ms, "move"), tn[t][e].open \/ ms = << >>,
           \A v \in Tunnels : v # t => Calm(f, g, v, tn[v][e].open),
           Line(ms, WritesFrom(f, t), WritesFrom(g, t), g.read, AppLen[e], g.upEnded),
           f.read \in Nat, g.read \in Nat, h.read \in Nat, h.got \in Seq(Nat), Pair(g, h, AppLen[Peer(e)])
    PROVE  Bound(e, g, h, tm) /\ Sides(tm) /\ tm[t][e] = tn[t][e]
<1>1. PICK p \in Ends : p = Peer(e) /\ p # e
  BY PeerIs
<1>2. PICK r : /\ SideSet(tn, tm, t, p, r) /\ Same(tn[t][p], r, {"in"})
               /\ r.in = IF t \in cut \/ ~tn[t][p].open THEN tn[t][p].in ELSE tn[t][p].in \o ms
  BY <1>1, WrittenIs
<1>3. /\ Sides(tm) /\ tm[t][p] = r /\ tm[t][e] = tn[t][e]
      /\ \A v \in Tunnels : v # t => tm[v][e] = tn[v][e] /\ tm[v][p] = tn[v][p]
  BY <1>1, <1>2 DEF SideSet
<1>4. r.open = tn[t][p].open
  BY <1>2 DEF Same, Sides, sideFields
<1>5. Sent(tn[t][e], tm[t][e], tn[t][p], tm[t][p], ms, t \in cut)
  BY <1>2, <1>3, <1>4 DEF Sent, Sides
<1>6. /\ Tied(f, h, tn[t][e], tn[t][p], t, t \in cut, AppLen[p])
      /\ Tied(h, f, tn[t][p], tn[t][e], t, t \in cut, AppLen[e])
  BY <1>1 DEF Bound
<1>7. Tied(g, h, tm[t][e], tm[t][p], t, t \in cut, AppLen[p])
  BY <1>5, <1>6, SentMine
<1>8. Tied(h, g, tm[t][p], tm[t][e], t, t \in cut, AppLen[e])
  BY <1>5, <1>6, SentPeer
<1>9. ASSUME NEW v \in Tunnels, v # t
      PROVE  /\ Tied(g, h, tm[v][e], tm[v][p], v, v \in cut, AppLen[p])
             /\ Tied(h, g, tm[v][p], tm[v][e], v, v \in cut, AppLen[e])
  <2>1. /\ Tied(f, h, tn[v][e], tn[v][p], v, v \in cut, AppLen[p])
        /\ Tied(h, f, tn[v][p], tn[v][e], v, v \in cut, AppLen[e])
    BY <1>1 DEF Bound
  <2>2. Drift(tn[v][e], tm[v][e], tn[v][p], tm[v][p])
    <3>1. tn[v][e].in \in Seq(Recs) /\ tn[v][p].in \in Seq(Recs)
      BY DEF Sides
    <3>2. Longer(tn[v][p].in, tn[v][p].in)
      BY <3>1, LongerSame
    <3> QED BY <1>3, <1>9, <3>1, <3>2 DEF Drift
  <2>3. Calm(f, g, v, tm[v][e].open)
    BY <1>3, <1>9
  <2>4. Tied(g, h, tm[v][e], tm[v][p], v, v \in cut, AppLen[p])
    BY <2>1, <2>2, <2>3, DriftMine
  <2>5. Tied(h, g, tm[v][p], tm[v][e], v, v \in cut, AppLen[e])
    BY <2>1, <2>2, <2>3, DriftPeer
  <2> QED BY <2>4, <2>5
<1>10. Pair(h, g, AppLen[e])
  BY DEF Bound, Pair, Stays, dlBytes
<1> QED BY <1>1, <1>3, <1>7, <1>8, <1>9, <1>10 DEF Bound

\* One record.
LEMMA OneRec ==
    ASSUME NEW k \in Kinds, NEW n \in Nat
    PROVE  /\ <<<<k, n>>>> \in Seq(Recs) /\ \A x : Has1(<<<<k, n>>>>, x) <=> x = k
           /\ Counted1(<<<<k, n>>>>) /\ \A i \in 1..Len(<<<<k, n>>>>) : i = 1 /\ <<<<k, n>>>>[i] = <<k, n>>
<1>1. PICK r : r = <<k, n>>
  OBVIOUS
<1>2. r[1] = k
  BY <1>1
<1>3. PICK q : q = <<r>>
  OBVIOUS
<1>4. Len(q) = 1 /\ q[1] = r
  BY <1>3
<1>5. \A i \in 1..Len(q) : i = 1 /\ q[i] = r
  BY <1>4
<1>6. \A x : Has1(q, x) <=> x = k
  BY <1>2, <1>4, <1>5 DEF Has1
<1>7. Counted1(q)
  BY <1>5 DEF Counted1
<1>8. q \in Seq(Recs)
  BY <1>1, <1>3, RecIs
<1> QED BY <1>1, <1>3, <1>5, <1>6, <1>7, <1>8

\* A byte is written.
LEMMA UpSendFaithful == ASSUME FlowInv, Faithful, NEW e \in Ends, UpSend(e) PROVE Faithful'
<1>1. PICK f : f = flow[e]
  OBVIOUS
<1>2. PICK k : k = WithByte(f)
  OBVIOUS
<1>3. PICK n : n = (IF Replay THEN k.end + 1 ELSE k.end)
  OBVIOUS
<1>4. PICK m : m = Keep(k, n)
  OBVIOUS
<1>5. /\ Made(m) /\ Local(m, AppLen[e], Replay) /\ Stays(f, m) /\ m.read \in Nat
      /\ /\ m.cur = f.cur /\ m.next = f.next /\ m.freezeReq = f.freezeReq /\ m.frozen = f.frozen
         /\ m.installed = f.installed /\ m.upSwitched = f.upSwitched /\ m.dlSwitched = f.dlSwitched
         /\ m.rel = f.rel /\ m.resumeConn = f.resumeConn /\ m.resumeFrom = f.resumeFrom
         /\ m.upEnded = f.upEnded /\ m.aborted = f.aborted /\ m.done = f.done /\ m.suspended = f.suspended
         /\ m.writeDl = f.writeDl /\ m.got = f.got /\ m.st = f.st /\ m.dl = f.dl /\ m.att = f.att
      /\ m.up.pc = "run" /\ m.up.dst = f.cur /\ m.up.pend = 0 /\ m.read = Taken(f) + 1 /\ k.up.pend = m.read
      /\ f.up.pc \in {"run", "full"} /\ ~f.suspended /\ Running(f) /\ k.up.dst = f.cur /\ ~f.upEnded
  BY <1>1, <1>2, <1>3, <1>4, KeptIs
<1>6. m = [k EXCEPT !.up.pend = 0, !.up.pc = "run", !.end = IF Replay THEN @ + 1 ELSE @]
  BY <1>3, <1>4 DEF Keep
<1>7. CASE SuspendOrAbort(e, m, tun, "tunnel")
  BY <1>1, <1>2, <1>3, <1>4, <1>7, UpSendFails
<1>8. CASE WriteMay(k.up.dst, e, TRUE) /\ Step(e, [m EXCEPT !.upBytes = @ + 1], Written(tun, k.up.dst, e, <<<<"data", k.up.pend>>>>))
  <2>1. PICK g : g = [m EXCEPT !.upBytes = @ + 1]
    OBVIOUS
  <2>2. /\ g.cur = m.cur /\ g.next = m.next /\ g.freezeReq = m.freezeReq /\ g.frozen = m.frozen
        /\ g.installed = m.installed /\ g.upSwitched = m.upSwitched /\ g.dlSwitched = m.dlSwitched
        /\ g.rel = m.rel /\ g.resumeConn = m.resumeConn /\ g.resumeFrom = m.resumeFrom /\ g.upEnded = m.upEnded
        /\ g.aborted = m.aborted /\ g.done = m.done /\ g.suspended = m.suspended /\ g.writeDl = m.writeDl
        /\ g.end = m.end /\ g.read = m.read /\ g.got = m.got /\ g.st = m.st /\ g.up = m.up /\ g.dl = m.dl
        /\ g.att = m.att
    BY <1>5, <2>1 DEF Made, flowFields
  <2>3. /\ Counts(f) /\ Local(f, AppLen[e], Replay) /\ Sides(tun) /\ Bound(e, f, flow[Peer(e)], tun) /\ f.up.dst \in Tunnels
        /\ \A v \in Tunnels : Side(f, tun[v][e], v)
    BY <1>1, MineIs, EndIs
  <2>4. f.cur \in Tunnels
    BY <1>5, <2>3 DEF Local
  <2>5. PICK t \in Tunnels : t = f.cur
    BY <2>4
  <2>6. Taken(f) \in Nat
    BY <1>5, <2>3 DEF Local, Counts, Taken
  <2>7. PICK b \in Nat : b = Taken(f)
    BY <2>6
  <2>8. b + 1 \in Nat /\ "data" \in Kinds
    BY DEF Kinds
  <2>9. <<<<"data", b + 1>>>> \in Seq(Recs) /\ \A x : Has1(<<<<"data", b + 1>>>>, x) <=> x = "data"
    BY <2>8, OneRec
  <2>10. PICK ms \in Seq(Recs) : ms = <<<<"data", b + 1>>>>
    BY <2>9
  <2>11. ~Has1(ms, "count") /\ ~Has1(ms, "move")
    BY <2>9, <2>10
  <2>12. Local(g, AppLen[e], Replay)
    BY <1>5, <2>2 DEF Local, Unmoved, Taken, Settles, dlBytes
  <2>13. Stays(f, g) /\ g.read \in Nat /\ g.read = b + 1
    BY <1>5, <2>2, <2>7 DEF Stays
  <2>14. \A v \in Tunnels : f.att[v].pc # "replay"
    BY <1>5, <2>3 DEF Local
  <2>15. WritesFrom(f, t) = b /\ WritesFrom(g, t) = b + 1
    BY <1>5, <2>2, <2>7, <2>13, <2>14 DEF WritesFrom, Replaying, Taken
  <2>16. Line(ms, WritesFrom(f, t), WritesFrom(g, t), g.read, AppLen[e], g.upEnded)
    BY <2>8, <2>10, <2>13, <2>15, LineData
  <2>17. Sends(f, g, t, tun[t][e].open)
    BY <1>5, <2>2, <2>5 DEF Sends, Running
  <2>18. ASSUME NEW v \in Tunnels, v # t PROVE Calm(f, g, v, tun[v][e].open)
    BY <1>5, <2>2, <2>5, <2>18 DEF Calm, Settles
  <2>19. PICK h : h = flow[Peer(e)]
    OBVIOUS
  <2>20. h.read \in Nat /\ h.got \in Seq(Nat)
    BY <2>19, PeerIs, MineIs DEF Counts
  <2>21. Bound(e, f, h, tun)
    BY <2>3, <2>19
  <2>22. Pair(g, h, AppLen[Peer(e)])
    BY <1>5, <2>2, <2>21 DEF Bound, Pair, dlBytes, Told
  <2>23. tun[t][e].open /\ f.read \in Nat
    BY <1>5, <1>8, <2>3, <2>5 DEF WriteMay, Counts
  <2>24. PICK tm : tm = Written(tun, t, e, ms)
    OBVIOUS
  <2>25. Bound(e, g, h, tm)
    BY <2>3, <2>11, <2>13, <2>16, <2>17, <2>18, <2>20, <2>21, <2>22, <2>23, <2>24, SentBound
  <2>26. Turned(e, g, tm)
    BY <1>5, <1>8, <2>1, <2>5, <2>7, <2>10, <2>24 DEF Step, Turned
  <2> QED BY <2>12, <2>19, <2>25, <2>26, FaithfulStep
<1> QED BY <1>1, <1>2, <1>6, <1>7, <1>8 DEF UpSend

\* The upload is replayed.
LEMMA UpReplayFaithful == ASSUME FlowInv, Faithful, NEW e \in Ends, UpReplay(e) PROVE Faithful'
<1>1. PICK f : f = flow[e]
  OBVIOUS
<1>2. /\ Made(f) /\ Counts(f) /\ Local(f, AppLen[e], Replay) /\ Sides(tun) /\ Bound(e, f, flow[Peer(e)], tun)
      /\ \A v \in Tunnels : Side(f, tun[v][e], v)
      /\ Holds(e, f) /\ f.up.pc = "replay"
  BY <1>1, MineIs, EndIs DEF UpReplay
<1>3. f.resumeConn = f.cur /\ Replay /\ f.cur \in Tunnels
  <2>1. f.resumeConn = f.cur /\ Replay
    BY <1>2 DEF Local
  <2>2. f.resumeConn \in Tunnels
    BY <1>1, <1>2, OnTunnels
  <2> QED BY <2>1, <2>2
<1>4. PICK t \in Tunnels : t = f.cur
  BY <1>3
<1>5. CASE IF CanSuspend(f) THEN Step(e, UpParked(Suspended(f)), SuspendTun(tun, f, e)) ELSE Abort(e, f, tun, "tunnel")
  BY <1>1, <1>2, <1>5, UpReplayFails
<1>6. CASE /\ f.resumeFrom = f.end \/ (WriteMay(f.resumeConn, e, TRUE) /\ f.resumeFrom >= f.base)
           /\ Step(e, [f EXCEPT !.upBytes = f.end, !.up.dst = f.resumeConn, !.up.pc = "run"],
                   Written(tun, f.resumeConn, e, Retained(f, f.resumeFrom)))
  <2>1. PICK g : g = [f EXCEPT !.upBytes = f.end, !.up.dst = t, !.up.pc = "run"]
    OBVIOUS
  <2>2. /\ /\ g.cur = f.cur /\ g.next = f.next /\ g.freezeReq = f.freezeReq /\ g.frozen = f.frozen
           /\ g.installed = f.installed /\ g.upSwitched = f.upSwitched /\ g.dlSwitched = f.dlSwitched
           /\ g.rel = f.rel /\ g.resumeConn = f.resumeConn /\ g.resumeFrom = f.resumeFrom
           /\ g.upEnded = f.upEnded /\ g.aborted = f.aborted /\ g.done = f.done /\ g.suspended = f.suspended
           /\ g.writeDl = f.writeDl /\ g.end = f.end /\ g.read = f.read /\ g.got = f.got /\ g.st = f.st
           /\ g.dl = f.dl /\ g.att = f.att
        /\ g.up.pc = "run" /\ g.up.dst = t /\ g.up.pend = f.up.pend
    BY <1>2, <2>1 DEF Made, flowFields, upFields
  <2>3. ~f.upEnded /\ \A v \in Tunnels : f.att[v].pc # "replay"
    BY <1>2 DEF Local
  <2>4. Local(g, AppLen[e], Replay)
    BY <1>2, <1>4, <2>2, <2>3 DEF Local, Unmoved, Taken, Settles, dlBytes
  <2>5. Stays(f, g) /\ g.read \in Nat /\ f.read \in Nat
    BY <1>2, <2>2 DEF Stays, Counts
  <2>6. /\ f.end \in Nat /\ f.resumeFrom \in Nat /\ f.resumeFrom <= f.end /\ f.end = Taken(f) /\ f.end <= g.read
    <3>1. f.end \in Nat /\ f.resumeFrom \in Nat /\ f.resumeFrom <= f.end /\ f.end = Taken(f) /\ f.read \in Nat
      BY <1>2, <1>3 DEF Counts, Local
    <3> QED BY <2>2, <3>1 DEF Taken
  <2>7. PICK n \in Nat : n = f.resumeFrom
    BY <2>6
  <2>8. Retained(f, n) \in Seq(Recs)
    BY <2>6, <2>7, RetainedIs
  <2>9. PICK ms \in Seq(Recs) : ms = Retained(f, n)
    BY <2>8
  <2>10. WritesFrom(f, t) = n /\ WritesFrom(g, t) = f.end
    <3>1. Taken(g) = Taken(f)
      BY <2>2 DEF Taken
    <3> QED BY <1>2, <2>2, <2>3, <2>6, <2>7, <3>1 DEF WritesFrom, Replaying
  <2>11. Line(ms, n, f.end, g.read, AppLen[e], g.upEnded) /\ ~Has1(ms, "count") /\ ~Has1(ms, "move")
    BY <2>5, <2>6, <2>7, <2>9, LineRetained
  <2>12. Line(ms, WritesFrom(f, t), WritesFrom(g, t), g.read, AppLen[e], g.upEnded)
    BY <2>10, <2>11
  <2>13. Sends(f, g, t, tun[t][e].open)
    <3>1. Side(f, tun[t][e], t)
      BY <1>2
    <3>2. tun[t][e].open => Running(f) /\ ~f.suspended
      BY <1>4, <3>1 DEF Side
    <3> QED BY <1>4, <2>2, <3>2 DEF Sends, Running
  <2>14. ASSUME NEW v \in Tunnels, v # t PROVE Calm(f, g, v, tun[v][e].open)
    BY <1>4, <2>2, <2>14 DEF Calm, Settles
  <2>15. PICK h : h = flow[Peer(e)]
    OBVIOUS
  <2>16. h.read \in Nat /\ h.got \in Seq(Nat)
    BY <2>15, PeerIs, MineIs DEF Counts
  <2>17. Bound(e, f, h, tun)
    BY <1>2, <2>15
  <2>18. Pair(g, h, AppLen[Peer(e)])
    BY <2>2, <2>17 DEF Bound, Pair, dlBytes, Told
  <2>19. tun[t][e].open \/ ms = << >>
    <3>1. CASE n = f.end
      <4>1. f.end - n = 0
        BY <2>6, <3>1
      <4>2. ms = [i \in 1..0 |-> <<"data", n + i>>]
        BY <2>9, <4>1 DEF Retained
      <4>3. Len(ms) = 0
        BY <4>2
      <4> QED BY <4>3
    <3>2. CASE WriteMay(t, e, TRUE)
      BY <3>2 DEF WriteMay
    <3> QED BY <1>3, <1>4, <1>6, <2>7, <3>1, <3>2
  <2>20. PICK tm : tm = Written(tun, t, e, ms)
    OBVIOUS
  <2>21. Bound(e, g, h, tm)
    BY <1>2, <2>5, <2>11, <2>12, <2>13, <2>14, <2>16, <2>17, <2>18, <2>19, <2>20, SentBound
  <2>22. Turned(e, g, tm)
    BY <1>3, <1>4, <1>6, <2>1, <2>7, <2>9, <2>20 DEF Step, Turned
  <2> QED BY <2>4, <2>15, <2>21, <2>22, FaithfulStep
<1> QED BY <1>1, <1>5, <1>6 DEF UpReplay

\* The end itself does not change.
LEMMA KeptBound ==
    ASSUME NEW e \in Ends, NEW g, NEW h, NEW tn, NEW tm, Bound(e, g, h, tn), Drifts(e, tn, tm, {}),
           g.read \in Nat, h.read \in Nat, h.got \in Seq(Nat)
    PROVE  Bound(e, g, h, tm)
<1>1. Stays(g, g)
  BY DEF Stays
<1>2. ASSUME NEW t \in Tunnels
      PROVE  Drift(tn[t][e], tm[t][e], tn[t][Peer(e)], tm[t][Peer(e)]) /\ Calm(g, g, t, tm[t][e].open)
  <2>1. Side(g, tn[t][e], t)
    BY DEF Bound, Tied
  <2>2. tm[t][e].open => tn[t][e].open
    BY DEF Drifts, Loosely
  <2>3. Calm(g, g, t, tm[t][e].open)
    BY <2>1, <2>2, CalmStays
  <2> QED BY <2>3 DEF Drifts
<1>3. Ready(e, g, g, tn, tm)
  BY <1>1, <1>2 DEF Ready
<1>4. Pair(g, h, AppLen[Peer(e)])
  BY DEF Bound
<1> QED BY <1>3, <1>4, ReadyBound

\* END is written, behind everything.
LEMMA EndBound ==
    ASSUME NEW e \in Ends, NEW g, NEW h, NEW tn, Sides(tn), Bound(e, g, h, tn), NEW t \in Tunnels, g.cur = t,
           tn[t][e].open, g.upEnded, g.read = AppLen[e], g.up.pend = 0, ~Replaying(g, t),
           g.read \in Nat, h.read \in Nat, h.got \in Seq(Nat), NEW tm, tm = EndWritten(tn, t, e)
    PROVE  Bound(e, g, h, tm)
<1>1. CASE tn[t][e].ended
  BY <1>1 DEF EndWritten
<1>2. CASE ~tn[t][e].ended
  <2>1. PICK tw, tv, s : EndedAt(tn, t, e, tw, tv, s) /\ Grows(tn, tw) /\ tm = BothEnded(tv, t, e)
    BY <1>2, EndWrittenIs
  <2>2. "end" \in Kinds /\ 0 \in Nat
    BY DEF Kinds
  <2>3. <<<<"end", 0>>>> \in Seq(Recs) /\ \A x : Has1(<<<<"end", 0>>>>, x) <=> x = "end"
    BY <2>2, OneRec
  <2>4. PICK ms \in Seq(Recs) : ms = <<<<"end", 0>>>>
    BY <2>3
  <2>5. ~Has1(ms, "count") /\ ~Has1(ms, "move") /\ tw = Written(tn, t, e, ms)
    BY <2>1, <2>3, <2>4 DEF EndedAt
  <2>6. \A v \in Tunnels : Side(g, tn[v][e], v)
    BY DEF Bound, Tied
  <2>7. Stays(g, g)
    BY DEF Stays
  <2>8. Sends(g, g, t, tn[t][e].open)
    BY <2>6 DEF Sends, Side, Replaying
  <2>9. ASSUME NEW v \in Tunnels, v # t PROVE Calm(g, g, v, tn[v][e].open)
    BY <2>6, CalmStays
  <2>10. WritesFrom(g, t) = g.read
    BY DEF WritesFrom, Taken
  <2>11. Line(ms, g.read, g.read, g.read, AppLen[e], TRUE)
    <3>1. AppLen[e] \in 0..g.read
      OBVIOUS
    <3>2. Line(<<<<"end", 0>>>>, AppLen[e], AppLen[e], g.read, AppLen[e], TRUE)
      BY <3>1, LineEnd
    <3> QED BY <2>4, <3>2
  <2>12. Line(ms, g.read, g.read, g.read, AppLen[e], g.upEnded)
    BY <2>11, LineMore
  <2>13. Line(ms, WritesFrom(g, t), WritesFrom(g, t), g.read, AppLen[e], g.upEnded)
    BY <2>10, <2>12
  <2>14. Pair(g, h, AppLen[Peer(e)])
    BY DEF Bound
  <2>a. Bound(e, g, h, tw)
    BY <2>5, <2>7, <2>8, <2>9, <2>13, <2>14, SentBound
  <2>b. Grows(tn, tw) /\ tw[t][e] = tn[t][e]
    BY <2>5, WrittenGrows
  <2>15. Bound(e, g, h, tw) /\ Sides(tw) /\ tw[t][e] = tn[t][e]
    BY <2>a, <2>b DEF Grows
  <2>16. Drifts(e, tw, tw, {})
    BY <2>15, DriftsNot
  <2>17. s.open = tw[t][e].open /\ s.in = tw[t][e].in /\ SideSet(tw, tv, t, e, s)
    <3>1. DOMAIN tn[t][e] = sideFields
      BY DEF Sides
    <3>2. Same(tn[t][e], s, {"ended"}) /\ SideSet(tw, tv, t, e, s)
      BY <2>1 DEF EndedAt
    <3>3. s.open = tn[t][e].open /\ s.in = tn[t][e].in
      BY <3>1, <3>2 DEF Same, sideFields
    <3> QED BY <2>15, <3>2, <3>3
  <2>18. Drifts(e, tw, tv, {})
    BY <2>16, <2>17, DriftsOwn
  <2>19. Drifts(e, tw, Closed(tv, t, e, FALSE), {} \ {t})
    BY <2>18, DriftsClosed
  <2>20. {} \ {t} = {}
    OBVIOUS
  <2>21. Drifts(e, tw, tm, {})
    BY <2>1, <2>18, <2>19, <2>20 DEF BothEnded, Dropped
  <2> QED BY <2>15, <2>21, KeptBound
<1> QED BY <1>1, <1>2

\* END gets through.
LEMMA UpEndFaithful == ASSUME FlowInv, Faithful, NEW e \in Ends, UpEnd(e) PROVE Faithful'
<1>1. PICK f : f = flow[e]
  OBVIOUS
<1>2. PICK g : g = [f EXCEPT !.up.pc = "done"]
  OBVIOUS
<1>3. f.up.pc = "end"
  BY <1>1 DEF UpEnd
<1>a. Drifting(e, g, tun, {}) /\ Made(g) /\ Made(f)
  BY <1>1, <1>2, <1>3, OverDrifts, MineIs
<1>4. /\ Drifting(e, g, tun, {}) /\ Made(g)
      /\ /\ g.cur = f.cur /\ g.next = f.next /\ g.freezeReq = f.freezeReq /\ g.frozen = f.frozen
         /\ g.installed = f.installed /\ g.upSwitched = f.upSwitched /\ g.dlSwitched = f.dlSwitched
         /\ g.rel = f.rel /\ g.resumeConn = f.resumeConn /\ g.resumeFrom = f.resumeFrom
         /\ g.upEnded = f.upEnded /\ g.aborted = f.aborted /\ g.done = f.done /\ g.suspended = f.suspended
         /\ g.writeDl = f.writeDl /\ g.end = f.end /\ g.read = f.read /\ g.got = f.got /\ g.st = f.st
         /\ g.dl = f.dl /\ g.att = f.att
      /\ g.up.pc = "done" /\ g.up.dst = f.up.dst /\ g.up.pend = f.up.pend
  BY <1>2, <1>a DEF Made, flowFields, upFields
<1>6. CASE ~(WriteMay(f.up.dst, e, TRUE) /\ Step(e, g, EndWritten(tun, f.up.dst, e)))
  <2>1. CASE Step(e, g, tun)
    BY <1>4, <2>1, DriftingFaithful
  <2>2. CASE ~Step(e, g, tun)
    <3>1. CanSuspend(f) /\ Step(e, Suspended(g), SuspendTun(tun, f, e))
      BY <1>1, <1>2, <1>6, <2>2 DEF UpEnd
    <3>3. SuspendTun(tun, f, e) = SuspendTun(tun, g, e)
      BY <1>4 DEF SuspendTun
    <3>4. Drifting(e, Suspended(g), SuspendTun(tun, g, e), {})
      BY <1>4, <3>1, SuspendDrifts DEF CanSuspend
    <3> QED BY <3>1, <3>3, <3>4, DriftingFaithful
  <2> QED BY <2>1, <2>2
<1>7. CASE WriteMay(f.up.dst, e, TRUE) /\ Step(e, g, EndWritten(tun, f.up.dst, e))
  <2>1. PICK t \in Tunnels : t = f.up.dst
    BY <1>1, EndIs
  <2>2. tun[t][e].open
    BY <1>7, <2>1 DEF WriteMay
  <2>3. /\ Counts(f) /\ Local(f, AppLen[e], Replay) /\ Sides(tun) /\ Side(f, tun[t][e], t)
    BY <1>1, MineIs
  <2>4. f.cur = t /\ f.att[t].pc # "replay"
    BY <1>3, <2>1, <2>2, <2>3 DEF Side
  <2>5. f.upEnded /\ f.read = AppLen[e] /\ f.up.pend = 0
    BY <1>3, <2>3 DEF Local
  <2>6. g.cur = t /\ g.upEnded /\ g.read = AppLen[e] /\ g.up.pend = 0 /\ g.read \in Nat
    BY <1>4, <2>3, <2>4, <2>5 DEF Counts
  <2>7. ~Replaying(g, t)
    BY <1>4, <2>4 DEF Replaying
  <2>8. PICK h : h = flow[Peer(e)]
    OBVIOUS
  <2>9. h.read \in Nat /\ h.got \in Seq(Nat)
    BY <2>8, PeerIs, MineIs DEF Counts
  <2>10. Bound(e, g, h, tun)
    BY <1>4, <2>8, DriftingBound
  <2>11. PICK tm : tm = EndWritten(tun, t, e)
    OBVIOUS
  <2>12. Bound(e, g, h, tm)
    BY <2>2, <2>3, <2>6, <2>7, <2>9, <2>10, <2>11, EndBound
  <2>13. Turned(e, g, tm)
    BY <1>7, <2>1, <2>11 DEF Step, Turned
  <2> QED BY <1>4, <2>8, <2>12, <2>13, FaithfulStep DEF Drifting
<1> QED BY <1>6, <1>7

\* ResumeFinish replays an upload that has ended, and its END.
LEMMA ReplayEndedFaithful ==
    ASSUME FlowInv, Faithful, NEW e \in Ends, NEW t \in Tunnels, ReplayEnded(e, t)
    PROVE  Faithful'
<1> USE DEF AttOnly
<1>1. PICK f : f = flow[e]
  OBVIOUS
<1>2. /\ Made(f) /\ Counts(f) /\ Local(f, AppLen[e], Replay) /\ Sides(tun) /\ Bound(e, f, flow[Peer(e)], tun)
      /\ \A v \in Tunnels : Side(f, tun[v][e], v)
      /\ f.att[t].pc = "replay"
  BY <1>1, MineIs DEF ReplayEnded, At
<1>3. f.cur = t /\ Replay /\ f.upEnded
  BY <1>2 DEF Local
<1>4. f.up.pc \in {"end", "done"} /\ f.read = AppLen[e] /\ f.up.pend = 0 /\ f.end = f.read
  BY <1>2, <1>3 DEF Local, Taken
<1>5. CASE SuspendOrAbort(e, Over(f, t), Dropped(tun, t, e), "tunnel")
  BY <1>1, <1>5, ReplayFails
<1>6. PICK tw : tw = Written(tun, t, e, Retained(f, f.resumeFrom))
  OBVIOUS
<1>7. CASE /\ WriteMay(t, e, TRUE)
           /\ Step(e, [Over(f, t) EXCEPT !.upBytes = f.end], EndWritten(tw, t, e))
  <2>1. PICK k : k = Over(f, t)
    OBVIOUS
  <2>2. /\ Made(k)
        /\ AttOnly(k, f)
        /\ k.att[t] = NoAttempt /\ \A v \in Tunnels : v # t => k.att[v] = f.att[v]
    BY <1>2, <2>1, OverIs
  <2>3. PICK g : g = [k EXCEPT !.upBytes = f.end]
    OBVIOUS
  <2>4. /\ g.cur = k.cur /\ g.next = k.next /\ g.freezeReq = k.freezeReq /\ g.frozen = k.frozen
        /\ g.installed = k.installed /\ g.upSwitched = k.upSwitched /\ g.dlSwitched = k.dlSwitched
        /\ g.rel = k.rel /\ g.resumeConn = k.resumeConn /\ g.resumeFrom = k.resumeFrom /\ g.upEnded = k.upEnded
        /\ g.aborted = k.aborted /\ g.done = k.done /\ g.suspended = k.suspended /\ g.writeDl = k.writeDl
        /\ g.end = k.end /\ g.read = k.read /\ g.got = k.got /\ g.st = k.st /\ g.up = k.up /\ g.dl = k.dl
        /\ g.att = k.att
    BY <2>2, <2>3 DEF Made, flowFields
  <2>5. /\ AttOnly(g, f)
        /\ g.att[t] = NoAttempt /\ \A v \in Tunnels : v # t => g.att[v] = f.att[v]
    BY <2>2, <2>4
  <2>6. NoAttempt.pc = "none"
    BY DEF NoAttempt
  <2>7. Unmoved(g)
    BY <1>2, <2>5, <2>6 DEF Local, Unmoved
  <2>8. \A v \in Tunnels : /\ Settles(g, v) => Settles(f, v) /\ g.att[v].own = f.att[v].own
                           /\ g.att[v].pc = "replay" => f.att[v].pc = "replay"
    BY <2>5, <2>6 DEF Settles
  <2>9. Taken(g) = Taken(f) /\ dlBytes(g) = dlBytes(f)
    BY <2>5 DEF Taken, dlBytes
  <2>10. Local(g, AppLen[e], Replay)
    BY <1>2, <2>5, <2>7, <2>8, <2>9 DEF Local
  <2>11. Stays(f, g) /\ g.read \in Nat /\ f.read \in Nat
    BY <1>2, <2>5 DEF Stays, Counts
  <2>12. f.end \in Nat /\ f.resumeFrom \in Nat /\ f.resumeFrom <= f.end /\ f.end = Taken(f) /\ f.end <= g.read
    <3>1. f.end \in Nat /\ f.resumeFrom \in Nat /\ f.resumeFrom <= f.end /\ f.end = Taken(f) /\ f.read \in Nat
      BY <1>2, <1>3 DEF Counts, Local
    <3> QED BY <2>5, <3>1 DEF Taken
  <2>13. PICK n \in Nat : n = f.resumeFrom
    BY <2>12
  <2>14. Retained(f, n) \in Seq(Recs)
    BY <2>12, <2>13, RetainedIs
  <2>15. PICK ms \in Seq(Recs) : ms = Retained(f, n)
    BY <2>14
  <2>16. ~Replaying(g, t)
    BY <1>4, <2>5, <2>6 DEF Replaying
  <2>17. WritesFrom(f, t) = n /\ WritesFrom(g, t) = f.end
    BY <1>2, <2>9, <2>12, <2>13, <2>16 DEF WritesFrom, Replaying
  <2>18. Line(ms, n, f.end, g.read, AppLen[e], g.upEnded) /\ ~Has1(ms, "count") /\ ~Has1(ms, "move")
    BY <2>11, <2>12, <2>13, <2>15, LineRetained
  <2>19. Line(ms, WritesFrom(f, t), WritesFrom(g, t), g.read, AppLen[e], g.upEnded)
    BY <2>17, <2>18
  <2>20. tun[t][e].open
    BY <1>7 DEF WriteMay
  <2>21. Sends(f, g, t, tun[t][e].open)
    <3>1. Side(f, tun[t][e], t)
      BY <1>2
    <3>2. Running(f) /\ ~f.suspended
      BY <1>3, <2>20, <3>1 DEF Side
    <3> QED BY <1>3, <2>5, <2>6, <3>2 DEF Sends, Running
  <2>22. ASSUME NEW v \in Tunnels, v # t PROVE Calm(f, g, v, tun[v][e].open)
    <3>1. WritesFrom(g, v) = WritesFrom(f, v)
      BY <2>5, <2>9, <2>22 DEF WritesFrom, Replaying
    <3>2. Side(f, tun[v][e], v) /\ g.up = f.up /\ g.att[v] = f.att[v]
      BY <1>2, <2>5, <2>22
    <3>3. g.cur = f.cur /\ g.suspended = f.suspended /\ g.aborted = f.aborted /\ g.done = f.done
      BY <2>5
    <3> QED BY <3>1, <3>2, <3>3, CalmStays
  <2>23. PICK h : h = flow[Peer(e)]
    OBVIOUS
  <2>24. h.read \in Nat /\ h.got \in Seq(Nat)
    BY <2>23, PeerIs, MineIs DEF Counts
  <2>25. Bound(e, f, h, tun)
    BY <1>2, <2>23
  <2>26. Pair(g, h, AppLen[Peer(e)])
    BY <2>5, <2>25 DEF Bound, Pair, dlBytes, Told
  <2>27. tw = Written(tun, t, e, ms)
    BY <1>6, <2>13, <2>15
  <2>a. Bound(e, g, h, tw)
    BY <1>2, <2>11, <2>18, <2>19, <2>20, <2>21, <2>22, <2>24, <2>25, <2>26, <2>27, SentBound
  <2>b. Grows(tun, tw) /\ tw[t][e] = tun[t][e]
    BY <1>2, <2>27, WrittenGrows
  <2>28. Bound(e, g, h, tw) /\ Sides(tw) /\ tw[t][e] = tun[t][e]
    BY <2>a, <2>b DEF Grows
  <2>29. g.cur = t /\ g.upEnded /\ g.read = AppLen[e] /\ g.up.pend = 0
    BY <1>3, <1>4, <2>5
  <2>30. PICK tm : tm = EndWritten(tw, t, e)
    OBVIOUS
  <2>31. Bound(e, g, h, tm)
    BY <2>11, <2>16, <2>20, <2>24, <2>28, <2>29, <2>30, EndBound
  <2>32. Turned(e, g, tm)
    BY <1>7, <2>1, <2>3, <2>30 DEF Step, Turned
  <2> QED BY <2>10, <2>23, <2>31, <2>32, FaithfulStep
<1> QED BY <1>1, <1>5, <1>6, <1>7 DEF ReplayEnded

-----------------------------------------------------------------------------
(* The counts of a resume.                                                  *)

\* One tunnel apart, the end stays as it is.
LEMMA ElseBound ==
    ASSUME NEW e \in Ends, NEW f, NEW g, NEW h, NEW tn, NEW tm, Bound(e, f, h, tn), NEW t \in Tunnels, Stays(f, g),
           f.read \in Nat, g.read \in Nat, h.read \in Nat, h.got \in Seq(Nat), Pair(g, h, AppLen[Peer(e)]),
           \A v \in Tunnels : v # t => /\ Drift(tn[v][e], tm[v][e], tn[v][Peer(e)], tm[v][Peer(e)])
                                       /\ Calm(f, g, v, tm[v][e].open),
           Tied(g, h, tm[t][e], tm[t][Peer(e)], t, t \in cut, AppLen[Peer(e)]),
           Tied(h, g, tm[t][Peer(e)], tm[t][e], t, t \in cut, AppLen[e])
    PROVE  Bound(e, g, h, tm)
<1>2. Pair(h, g, AppLen[e])
  BY DEF Bound, Pair, Stays, dlBytes
<1>3. ASSUME NEW v \in Tunnels, v # t
      PROVE  /\ Tied(g, h, tm[v][e], tm[v][Peer(e)], v, v \in cut, AppLen[Peer(e)])
             /\ Tied(h, g, tm[v][Peer(e)], tm[v][e], v, v \in cut, AppLen[e])
  <2>1. /\ Tied(f, h, tn[v][e], tn[v][Peer(e)], v, v \in cut, AppLen[Peer(e)])
        /\ Tied(h, f, tn[v][Peer(e)], tn[v][e], v, v \in cut, AppLen[e])
    BY DEF Bound
  <2>2. Drift(tn[v][e], tm[v][e], tn[v][Peer(e)], tm[v][Peer(e)]) /\ Calm(f, g, v, tm[v][e].open)
    BY <1>3
  <2>3. Tied(g, h, tm[v][e], tm[v][Peer(e)], v, v \in cut, AppLen[Peer(e)])
    BY <2>1, <2>2, DriftMine
  <2>4. Tied(h, g, tm[v][Peer(e)], tm[v][e], v, v \in cut, AppLen[e])
    BY <2>1, <2>2, DriftPeer
  <2> QED BY <2>3, <2>4
<1> QED BY <1>2, <1>3 DEF Bound

\* A handshake on t is begun, settles or has: what becomes of the end itself.
LEMMA SettlesIs ==
    ASSUME FlowInv, Faithful, NEW e \in Ends, NEW f, f = flow[e], NEW t \in Tunnels, NEW a, a.mode = "resume",
           a.pc \in {"verdict", "count", "readcount"}, a.pc = "verdict" \/ a.own = dlBytes(f), NEW g, g = With(f, t, a)
    PROVE  /\ Local(g, AppLen[e], Replay) /\ Stays(f, g) /\ g.read \in Nat
           /\ AttOnly(g, f)
           /\ g.att[t] = a /\ \A v \in Tunnels : v # t => Calm(f, g, v, tun[v][e].open)
<1> USE DEF AttOnly
<1>1. /\ Made(f) /\ Counts(f) /\ Local(f, AppLen[e], Replay) /\ \A v \in Tunnels : Side(f, tun[v][e], v)
  BY MineIs
<1>2. AttOnly(g, f)
  BY <1>1 DEF Made, flowFields, With
<1>3. DOMAIN f.att = Tunnels /\ g.att = [f.att EXCEPT ![t] = a]
  BY <1>1 DEF Made, flowFields, Atts, With
<1>4. g.att[t] = a /\ \A v \in Tunnels : v # t => g.att[v] = f.att[v]
  BY <1>3
<1>5. Unmoved(g)
  BY <1>1, <1>2, <1>4 DEF Local, Unmoved
<1>6. \A v \in Tunnels : g.att[v].pc = "replay" => f.att[v].pc = "replay"
  BY <1>4
<1>7. Taken(g) = Taken(f) /\ dlBytes(g) = dlBytes(f)
  BY <1>2 DEF Taken, dlBytes
<1>8. \A v \in Tunnels : Settles(g, v) => g.att[v].own = dlBytes(g)
  BY <1>1, <1>4, <1>7 DEF Settles, Local
<1>9. Local(g, AppLen[e], Replay)
  BY <1>1, <1>2, <1>5, <1>6, <1>7, <1>8 DEF Local
<1>10. Stays(f, g) /\ g.read \in Nat
  BY <1>1, <1>2 DEF Stays, Counts
<1>11. ASSUME NEW v \in Tunnels, v # t PROVE Calm(f, g, v, tun[v][e].open)
  <2>1. WritesFrom(g, v) = WritesFrom(f, v)
    BY <1>2, <1>4, <1>7, <1>11 DEF WritesFrom, Replaying
  <2>2. Side(f, tun[v][e], v) /\ g.up = f.up /\ g.att[v] = f.att[v]
    BY <1>1, <1>2, <1>4, <1>11
  <2>3. g.cur = f.cur /\ g.suspended = f.suspended /\ g.aborted = f.aborted /\ g.done = f.done
    BY <1>2
  <2> QED BY <2>1, <2>2, <2>3, CalmStays
<1> QED BY <1>2, <1>4, <1>9, <1>10, <1>11

LEMMA ResumeBeginFaithful ==
    ASSUME FlowInv, Faithful, NEW e \in Ends, NEW t \in Tunnels, ResumeBegin(e, t)
    PROVE  Faithful'
<1> USE DEF AttOnly
<1>1. PICK f : f = flow[e]
  OBVIOUS
<1>2. /\ Made(f) /\ Counts(f) /\ Local(f, AppLen[e], Replay) /\ Sides(tun) /\ Bound(e, f, flow[Peer(e)], tun)
      /\ Side(f, tun[t][e], t) /\ f.att[t].pc = "begin" /\ f.att[t].mode = "resume"
  BY <1>1, MineIs, ResumesOnly DEF ResumeBegin, At
<1>3. CASE CloseLeg(e, f, t)
  BY <1>1, <1>3, CloseLegFaithful
<1>4. CASE f.suspended /\ Step(e, With(f, t, [f.att[t] EXCEPT !.own = dlBytes(f), !.pc = "count"]), tun)
  <2>1. PICK a : a = [f.att[t] EXCEPT !.own = dlBytes(f), !.pc = "count"]
    OBVIOUS
  <2>2. a.mode = "resume" /\ a.pc = "count" /\ a.own = dlBytes(f)
    BY <1>2, <2>1 DEF Made, Atts, attFields
  <2>3. PICK g : g = With(f, t, a)
    OBVIOUS
  <2>4. /\ Local(g, AppLen[e], Replay) /\ Stays(f, g) /\ g.read \in Nat
        /\ AttOnly(g, f)
        /\ g.att[t] = a /\ \A v \in Tunnels : v # t => Calm(f, g, v, tun[v][e].open)
    BY <1>1, <1>2, <2>2, <2>3, SettlesIs
  <2>5. PICK p \in Ends : p = Peer(e) /\ p # e
    BY PeerIs
  <2>6. PICK h : h = flow[p]
    OBVIOUS
  <2>7. h.read \in Nat /\ h.got \in Seq(Nat) /\ f.read \in Nat /\ dlBytes(f) \in Nat
    BY <1>2, <2>6, MineIs DEF Counts, dlBytes
  <2>8. Bound(e, f, h, tun) /\ dlBytes(f) <= h.read
    BY <1>2, <2>5, <2>6 DEF Bound, Pair
  <2>9. Pair(g, h, AppLen[p])
    BY <2>4, <2>5, <2>8 DEF Bound, Pair, dlBytes, Told
  <2>10. PICK s, r, L, M : s = tun[t][e] /\ r = tun[t][p] /\ L = AppLen[p] /\ M = AppLen[e]
    OBVIOUS
  <2>11. Tied(f, h, s, r, t, t \in cut, L) /\ Tied(h, f, r, s, t, t \in cut, M)
    BY <2>5, <2>8, <2>10 DEF Bound
  <2>12. s.open => f.cur # t
    BY <1>4, <2>11 DEF Tied, Side
  <2>13. g.cur = f.cur /\ g.up = f.up /\ g.read = f.read /\ g.upEnded = f.upEnded /\ dlBytes(g) = dlBytes(f)
    BY <2>4 DEF dlBytes
  <2>14. Side(g, s, t)
    BY <2>11, <2>12, <2>13 DEF Tied, Side
  <2>15. s.open => Bare(s.in) /\ ~Has1(r.in, "count") /\ h.cur # t
    BY <1>2, <2>11, <2>12 DEF Tied, HasSaid
  <2>16. s.in \in Seq(Recs)
    BY <1>2, <2>10 DEF Sides
  <2>17. Follows(g, h, s, r, t, t \in cut, L)
    <3>1. dlBytes(f) \in 0..h.read
      BY <2>7, <2>8
    <3>2. s.open => Line(s.in, dlBytes(f), dlBytes(f), h.read, L, h.upEnded)
      BY <2>7, <2>15, <2>16, <3>1, LineBare
    <3> QED BY <2>13, <2>15, <3>1, <3>2 DEF Follows
  <2>18. Tied(g, h, s, r, t, t \in cut, L)
    BY <2>11, <2>13, <2>14, <2>15, <2>17 DEF Tied
  <2>19. Follows(h, g, r, s, t, t \in cut, M)
    BY <2>11, <2>12, <2>13 DEF Tied, Follows
  <2>20. Tied(h, g, r, s, t, t \in cut, M)
    BY <2>11, <2>13, <2>19 DEF Tied
  <2>21. ASSUME NEW v \in Tunnels, v # t PROVE Drift(tun[v][e], tun[v][e], tun[v][p], tun[v][p])
    BY <1>2, <2>5, DriftsNot DEF Drifts
  <2>22. Bound(e, g, h, tun)
    BY <2>4, <2>5, <2>7, <2>8, <2>9, <2>10, <2>18, <2>20, <2>21, ElseBound
  <2>23. Turned(e, g, tun)
    BY <1>4, <2>1, <2>3 DEF Step, Turned
  <2> QED BY <2>4, <2>5, <2>6, <2>22, <2>23, FaithfulStep
<1> QED BY <1>1, <1>3, <1>4 DEF ResumeBegin, At

LEMMA WriteCountFaithful ==
    ASSUME FlowInv, Faithful, NEW e \in Ends, NEW t \in Tunnels, WriteCount(e, t)
    PROVE  Faithful'
<1> USE DEF AttOnly
<1>1. PICK f : f = flow[e]
  OBVIOUS
<1>2. /\ Made(f) /\ Counts(f) /\ Local(f, AppLen[e], Replay) /\ Sides(tun) /\ Bound(e, f, flow[Peer(e)], tun)
      /\ Side(f, tun[t][e], t) /\ f.att[t].pc = "count" /\ f.att[t].mode = "resume" /\ Holds(e, f)
  BY <1>1, MineIs, EndIs, ResumesOnly DEF WriteCount, At
<1>3. Settles(f, t) /\ f.att[t].own = dlBytes(f)
  BY <1>2 DEF Settles, Local
<1>4. CASE CountFailed(e, t)
  BY <1>1, <1>2, <1>4, CountFailedFaithful DEF At
<1>5. CASE WriteMay(t, e, TRUE) /\ Step(e, Goes(f, t, "readcount"), Written(tun, t, e, <<<<"count", f.att[t].own>>>>))
  <2>1. PICK a : Goes(f, t, "readcount") = With(f, t, a) /\ a.pc = "readcount" /\ a.mode = "resume" /\ a.own = dlBytes(f)
    BY <1>2, <1>3, GoesIs
  <2>3. PICK g : g = With(f, t, a)
    OBVIOUS
  <2>4. /\ Local(g, AppLen[e], Replay) /\ Stays(f, g) /\ g.read \in Nat
        /\ AttOnly(g, f)
        /\ g.att[t] = a /\ \A v \in Tunnels : v # t => Calm(f, g, v, tun[v][e].open)
    BY <1>1, <1>2, <2>1, <2>3, SettlesIs
  <2>5. PICK p \in Ends : p = Peer(e) /\ p # e
    BY PeerIs
  <2>6. PICK h : h = flow[p]
    OBVIOUS
  <2>7. h.read \in Nat /\ h.got \in Seq(Nat) /\ f.read \in Nat /\ dlBytes(f) \in Nat
    BY <1>2, <2>6, MineIs DEF Counts, dlBytes
  <2>8. Bound(e, f, h, tun)
    BY <1>2, <2>5, <2>6
  <2>9. Pair(g, h, AppLen[p])
    BY <2>4, <2>5, <2>8 DEF Bound, Pair, dlBytes, Told
  <2>10. PICK s, r, L, M : s = tun[t][e] /\ r = tun[t][p] /\ L = AppLen[p] /\ M = AppLen[e]
    OBVIOUS
  <2>11. Tied(f, h, s, r, t, t \in cut, L) /\ Tied(h, f, r, s, t, t \in cut, M)
    BY <2>5, <2>8, <2>10 DEF Bound
  <2>12. s.open /\ t \notin cut /\ s.in \in Seq(Recs) /\ r.in \in Seq(Recs) /\ DOMAIN r = sideFields
    BY <1>2, <1>5, <2>10 DEF WriteMay, Sides
  <2>13. f.cur # t
    <3>1. Running(f) => f.suspended
      BY <1>2, <1>3 DEF Holds, EndInv, Ctl, Settling, Parked
    <3> QED BY <2>11, <2>12, <3>1 DEF Tied, Side
  <2>14. g.cur = f.cur /\ g.up = f.up /\ g.read = f.read /\ g.upEnded = f.upEnded /\ dlBytes(g) = dlBytes(f)
    BY <2>4 DEF dlBytes
  <2>15. Bare(s.in) /\ ~Has1(r.in, "count") /\ h.cur # t
    BY <1>2, <2>11, <2>12, <2>13 DEF Tied, HasSaid
  <2>16. "count" \in Kinds
    BY DEF Kinds
  <2>17. PICK k \in Nat : k = dlBytes(f)
    BY <2>7
  <2>18. /\ <<<<"count", k>>>> \in Seq(Recs) /\ (\A x : Has1(<<<<"count", k>>>>, x) <=> x = "count")
         /\ \A i \in 1..Len(<<<<"count", k>>>>) : i = 1 /\ <<<<"count", k>>>>[i] = <<"count", k>>
    BY <2>16, OneRec
  <2>19. PICK ms \in Seq(Recs) : ms = <<<<"count", k>>>>
    BY <2>18
  <2>20. PICK tm : tm = Written(tun, t, e, ms)
    OBVIOUS
  <2>21. PICK r2 : /\ SideSet(tun, tm, t, p, r2) /\ Same(r, r2, {"in"})
                   /\ r2.in = IF t \in cut \/ ~r.open THEN r.in ELSE r.in \o ms
    BY <1>2, <2>5, <2>10, <2>20, WrittenIs
  <2>22. r2.open = r.open
    BY <2>12, <2>21 DEF Same, sideFields
  <2>23. tm[t][p] = r2 /\ tm[t][e] = s /\ \A v \in Tunnels : v # t => tm[v][e] = tun[v][e] /\ tm[v][p] = tun[v][p]
    BY <2>5, <2>10, <2>21 DEF SideSet
  <2>24. /\ r2.in \in Seq(Recs) /\ \A x : Has1(r2.in, x) => Has1(r.in, x) \/ x = "count"
         /\ \A i \in 1..Len(r2.in) : r2.in[i][1] = "count" => r2.in[i][2] = k /\ i = Len(r.in) + 1
    <3>1. CASE ~r.open
      BY <2>12, <2>15, <2>21, <3>1 DEF Has1
    <3>2. CASE r.open
      <4>1. PICK q \in Seq(Recs) : q = r.in
        BY <2>12
      <4>2. /\ q \o ms \in Seq(Recs)
            /\ \A x : Has1(q \o ms, x) <=> Has1(q, x) \/ Has1(ms, x)
            /\ \A i \in 1..Len(q \o ms) : \/ i \in 1..Len(q) /\ (q \o ms)[i] = q[i]
                                          \/ i - Len(q) \in 1..Len(ms) /\ (q \o ms)[i] = ms[i - Len(q)]
        BY HasJoined
      <4>3. ~Has1(q, "count") /\ \A x : Has1(ms, x) <=> x = "count"
        BY <2>15, <2>18, <2>19, <4>1
      <4>4. \A i \in 1..Len(ms) : i = 1 /\ ms[i][2] = k
        <5>1. \A i \in 1..Len(ms) : i = 1 /\ ms[i] = <<"count", k>>
          BY <2>18, <2>19
        <5>2. <<"count", k>>[2] = k
          OBVIOUS
        <5> QED BY <5>1, <5>2
      <4>5. ASSUME NEW i \in 1..Len(q \o ms), (q \o ms)[i][1] = "count" PROVE (q \o ms)[i][2] = k /\ i = Len(q) + 1
        <5>1. ~(i \in 1..Len(q) /\ (q \o ms)[i] = q[i])
          BY <4>3, <4>5 DEF Has1
        <5>2. i - Len(q) \in 1..Len(ms) /\ (q \o ms)[i] = ms[i - Len(q)]
          BY <4>2, <5>1
        <5>3. i - Len(q) = 1 /\ (q \o ms)[i][2] = k
          BY <4>4, <5>2
        <5>4. i \in Int /\ Len(q) \in Int
          <6>1. Len(q) \in Nat /\ Len(q \o ms) \in Nat
            BY <4>2
          <6> QED BY <6>1
        <5> QED BY <5>3, <5>4
      <4>6. r2.in = q \o ms
        BY <2>12, <2>21, <3>2, <4>1
      <4> QED BY <4>1, <4>2, <4>3, <4>5, <4>6
    <3> QED BY <3>1, <3>2
  <2>25. Side(g, s, t) /\ HasSaid(g, t) /\ Listens(f, t)
    BY <1>3, <2>1, <2>4, <2>11, <2>12, <2>13, <2>14 DEF Tied, Side, HasSaid, Listens
  <2>26. Follows(g, h, s, r2, t, t \in cut, L)
    BY <2>11, <2>12, <2>14, <2>15, <2>25 DEF Tied, Follows
  <2>27. Tied(g, h, s, r2, t, t \in cut, L)
    BY <2>11, <2>14, <2>15, <2>17, <2>24, <2>25, <2>26 DEF Tied
  <2>28. Counted1(r2.in) /\ ~Has1(r2.in, "move")
    BY <2>11, <2>24 DEF Counted1, Tied, Side
  <2>29. Bare(r2.in)
    BY <2>11, <2>12, <2>13, <2>24 DEF Tied, Bare
  <2>30. Side(h, r2, t)
    BY <2>11, <2>15, <2>21, <2>22, <2>28 DEF Tied, Side
  <2>31. Follows(h, g, r2, s, t, t \in cut, M)
    <3>1. ASSUME r2.open, Listens(h, t) PROVE \E b \in 0..g.read : Line(r2.in, dlBytes(h), b, g.read, M, g.upEnded)
      <4>1. PICK b \in 0..f.read : Line(r.in, dlBytes(h), b, f.read, M, f.upEnded)
        BY <2>11, <2>22, <3>1 DEF Tied, Follows
      <4>2. Bare(ms)
        BY <2>18, <2>19 DEF Bare
      <4>3. Line(ms, b, b, f.read, M, f.upEnded)
        BY <2>7, <4>2, LineBare
      <4>4. Line(r.in \o ms, dlBytes(h), b, f.read, M, f.upEnded)
        BY <2>7, <2>12, <4>1, <4>3, LineJoined
      <4>5. r2.in = r.in \o ms
        BY <2>12, <2>21, <2>22, <3>1
      <4> QED BY <2>14, <4>4, <4>5
    <3> QED BY <2>13, <2>14, <3>1 DEF Follows
  <2>32. Tied(h, g, r2, s, t, t \in cut, M)
    BY <2>11, <2>13, <2>14, <2>15, <2>22, <2>29, <2>30, <2>31 DEF Tied
  <2>33. ASSUME NEW v \in Tunnels, v # t
         PROVE  Drift(tun[v][e], tm[v][e], tun[v][p], tm[v][p]) /\ Calm(f, g, v, tm[v][e].open)
    <3>1. Drift(tun[v][e], tun[v][e], tun[v][p], tun[v][p])
      BY <1>2, <2>5, DriftsNot DEF Drifts
    <3> QED BY <2>4, <2>23, <2>33, <3>1
  <2>34. Bound(e, g, h, tm)
    BY <2>4, <2>5, <2>7, <2>8, <2>9, <2>10, <2>23, <2>27, <2>32, <2>33, ElseBound
  <2>35. Turned(e, g, tm)
    BY <1>3, <1>5, <2>1, <2>3, <2>17, <2>19, <2>20 DEF Step, Turned
  <2> QED BY <2>4, <2>5, <2>6, <2>34, <2>35, FaithfulStep
<1> QED BY <1>1, <1>4, <1>5 DEF WriteCount, At

\* What is left of the attempt that resumed the flow.
Onward(f, t) == IF f.upEnded THEN [f.att[t] EXCEPT !.pc = "replay"] ELSE NoAttempt
Alone(f, t)  == \A v \in Tunnels \ {t} : f.att[v].pc = "none"
Onto(f, g, t, n) ==
    /\ g.cur = t /\ g.got = f.got /\ g.read = f.read /\ g.upEnded = f.upEnded /\ g.st = f.st
    /\ Running(g) /\ g.suspended = FALSE /\ g.resumeFrom = n /\ Replaying(g, t) /\ g.dl.pc # "decide"
    /\ g.up.dst = f.up.dst /\ (g.up.pc = "end" => f.up.pc = "end")
    /\ g.att[t].pc # "readcount" /\ \A v \in Tunnels : ~Settles(g, v) /\ (v # t => g.att[v].pc = "none")

\* The flow goes on on t: the end itself,
LEMMA ResumedLocal ==
    ASSUME NEW f, Made(f), NEW L, NEW R, Local(f, L, R), Running(f), Parked(f), ParkedIs(f), NEW t \in Tunnels, NEW n \in Nat,
           NEW r, r = Resumed(f, t, n), NEW a, a = Onward(f, t),
           f.att[t].mode = "resume",
           Alone(f, t), NEW g, g = With(r, t, a)
    PROVE  Local(g, L, R) /\ Onto(f, g, t, n)
<1> USE DEF AttOnly
<1>1. GoesOn(f, r, t, n)
  BY ResumedIs
<1>2. /\ DOMAIN r = flowFields
      /\ /\ r.next = f.next /\ r.freezeReq = f.freezeReq /\ r.frozen = f.frozen /\ r.installed = f.installed
         /\ r.upSwitched = f.upSwitched /\ r.dlSwitched = f.dlSwitched /\ r.rel = f.rel
         /\ r.upEnded = f.upEnded /\ r.aborted = f.aborted /\ r.done = f.done /\ r.writeDl = f.writeDl
         /\ r.end = f.end /\ r.read = f.read /\ r.got = f.got /\ r.st = f.st /\ r.att = f.att
  BY <1>1 DEF GoesOn, Same, Made, flowFields
<1>3. /\ r.cur = t /\ r.resumeConn = t /\ r.resumeFrom = n /\ r.suspended = FALSE
      /\ r.up.pc = (IF f.up.pc = "parked" THEN "replay" ELSE f.up.pc) /\ r.up.dst = f.up.dst /\ r.up.pend = f.up.pend
      /\ r.dl.pc = (IF f.dl.pc = "parked" THEN "read" ELSE f.dl.pc)
      /\ r.dl.src = (IF f.dl.pc = "parked" THEN t ELSE f.dl.src)
  BY <1>1 DEF GoesOn
<1>4. DOMAIN f.att = Tunnels /\ DOMAIN f.att[t] = attFields
  BY DEF Made, Atts
<1>5. AttOnly(g, r)
  BY <1>2 DEF With, flowFields
<1>6. g.att = [f.att EXCEPT ![t] = a]
  BY <1>2 DEF With, flowFields
<1>7. g.att[t] = a /\ \A v \in Tunnels : v # t => g.att[v] = f.att[v]
  BY <1>4, <1>6
<1>8. a.pc = (IF f.upEnded THEN "replay" ELSE "none") /\ (f.upEnded => a.mode = "resume")
  BY <1>4 DEF attFields, NoAttempt, Onward
<1>9. \A v \in Tunnels : v # t => g.att[v].pc = "none"
  BY <1>7 DEF Alone
<1>9a. g.att[t].pc = (IF f.upEnded THEN "replay" ELSE "none") /\ (f.upEnded => g.att[t].mode = "resume")
  <2>1. g.att[t] = a
    BY <1>7
  <2> QED BY <1>8, <2>1
<1>10. \A v \in Tunnels : ~Settles(g, v)
  BY <1>9, <1>9a DEF Settles
<1>11. f.suspended /\ (f.upEnded \/ f.up.pc = "parked") /\ f.dl.pc \in {"done", "parked"}
  BY DEF Parked, ParkedIs
<1>12. /\ g.cur = t /\ g.resumeConn = t /\ g.resumeFrom = n /\ g.suspended = FALSE
       /\ g.up.pc = (IF f.up.pc = "parked" THEN "replay" ELSE f.up.pc) /\ g.up.dst = f.up.dst /\ g.up.pend = f.up.pend
       /\ g.dl.pc = (IF f.dl.pc = "parked" THEN "read" ELSE f.dl.pc)
       /\ g.dl.src = (IF f.dl.pc = "parked" THEN t ELSE f.dl.src)
  BY <1>3, <1>5
<1>13. /\ g.next = f.next /\ g.freezeReq = f.freezeReq /\ g.frozen = f.frozen /\ g.installed = f.installed
       /\ g.upSwitched = f.upSwitched /\ g.dlSwitched = f.dlSwitched /\ g.rel = f.rel /\ g.upEnded = f.upEnded
       /\ g.aborted = f.aborted /\ g.done = f.done /\ g.writeDl = f.writeDl /\ g.end = f.end /\ g.read = f.read
       /\ g.got = f.got /\ g.st = f.st
  BY <1>2, <1>5
<1>14. Unmoved(g)
  <2>1. Unmoved(f)
    BY DEF Local
  <2>2. \A v \in Tunnels : g.att[v].pc # "freezing" /\ (g.att[v].pc # "none" => g.att[v].mode = "resume")
    BY <1>9, <1>9a
  <2>3. g.up.pc \in {"run", "full", "parked", "replay", "end", "done"} /\ g.dl.pc \in {"read", "decide", "parked", "done"}
    BY <1>12, <2>1 DEF Unmoved
  <2> QED BY <1>13, <2>1, <2>2, <2>3 DEF Unmoved
<1>15. Taken(g) = Taken(f)
  BY <1>12, <1>13 DEF Taken
<1>16. R /\ f.up.pend \in {0, f.read} /\ f.end = Taken(f) /\ f.read <= L
  BY <1>11 DEF Local
<1>17. f.upEnded => f.read = L /\ f.up.pend = 0 /\ f.up.pc \in {"end", "done"}
  BY DEF Local
<1>18. g.up.pc \in {"replay", "end", "done"} /\ (g.up.pc = "end" => g.upEnded /\ f.up.pc = "end") /\ (g.upEnded => g.up.pc \in {"end", "done"})
       /\ (~g.upEnded => g.up.pc = "replay")
  BY <1>11, <1>12, <1>13, <1>17
<1>19. g.dl.pc \in {"read", "done"} /\ (g.dl.pc = "read" => g.dl.src = t) /\ (g.st = "eof" => g.dl.pc = "done")
  BY <1>11, <1>12, <1>13 DEF Local
<1>20. \A v \in Tunnels : g.att[v].pc = "replay" => g.cur = v /\ g.upEnded
  BY <1>9, <1>9a, <1>12, <1>13
<1>21. \A i \in 1..Len(g.got) : g.got[i] = i
  BY <1>13 DEF Local
<1>22. g.read = f.read /\ g.end = f.end /\ g.upEnded = f.upEnded /\ g.up.pend = f.up.pend
  BY <1>12, <1>13
<1>23. Local(g, L, R)
  BY <1>10, <1>12, <1>14, <1>15, <1>16, <1>17, <1>18, <1>19, <1>20, <1>21, <1>22 DEF Local
<1>24. Replaying(g, t) /\ g.att[t].pc # "readcount"
  BY <1>9a, <1>13, <1>18 DEF Replaying
<1>25. Running(g)
  BY <1>13 DEF Running
<1> QED BY <1>9, <1>10, <1>12, <1>13, <1>18, <1>19, <1>23, <1>24, <1>25 DEF Onto

\* and the tunnels.
LEMMA ResumedBound ==
    ASSUME NEW e \in Ends, NEW f, NEW g, NEW h, NEW tn, NEW tm, Bound(e, f, h, tn), NEW t \in Tunnels, NEW n,
           Sides(tn), tn[t][e].open, tn[t][e].in # << >>, Head(tn[t][e].in) = <<"count", n>>, f.suspended, Settles(f, t),
           f.read \in Nat, h.read \in Nat, f.got \in Seq(Nat), h.got \in Seq(Nat),
           Alone(f, t), Onto(f, g, t, n),
           tm[t][e].open = tn[t][e].open, tm[t][e].in = Tail(tn[t][e].in),
           \A v \in Tunnels : tm[v][Peer(e)] = tn[v][Peer(e)] /\ (v # t => tm[v][e] = tn[v][e])
    PROVE  Bound(e, g, h, tm)
<1> USE DEF Alone, Onto
<1>1. PICK p \in Ends : p = Peer(e) /\ p # e
  BY PeerIs
<1>2. PICK L, M : L = AppLen[p] /\ M = AppLen[e]
  OBVIOUS
<1>3. dlBytes(g) = dlBytes(f) /\ dlBytes(f) \in Nat /\ dlBytes(h) \in Nat
  BY DEF dlBytes
<1>4. Pair(g, h, L) /\ Pair(h, g, M) /\ dlBytes(h) <= f.read
  BY <1>1, <1>2, <1>3 DEF Bound, Pair, Told
<1>5. \A v \in Tunnels : /\ Tied(f, h, tn[v][e], tn[v][p], v, v \in cut, L)
                         /\ Tied(h, f, tn[v][p], tn[v][e], v, v \in cut, M)
  BY <1>1, <1>2 DEF Bound
<1>6. ASSUME NEW v \in Tunnels, v # t
      PROVE  /\ Tied(g, h, tm[v][e], tm[v][p], v, v \in cut, L)
             /\ Tied(h, g, tm[v][p], tm[v][e], v, v \in cut, M)
  <2>1. PICK s, r, d : s = tn[v][e] /\ r = tn[v][p] /\ d = (v \in cut)
    OBVIOUS
  <2>2. tm[v][e] = s /\ tm[v][p] = r
    BY <1>1, <1>6, <2>1
  <2>3. Tied(f, h, s, r, v, d, L) /\ Tied(h, f, r, s, v, d, M)
    BY <1>5, <2>1
  <2>4. s.open => f.cur # v /\ ~HasSaid(f, v)
    BY <1>6, <2>3 DEF Tied, Side, HasSaid
  <2>5. g.cur # v /\ ~Listens(g, v)
    BY <1>6 DEF Listens
  <2>6. Side(g, s, v)
    BY <2>3, <2>4, <2>5 DEF Tied, Side
  <2>7. s.open => Bare(s.in) /\ ~Has1(r.in, "count") /\ h.cur # v
    BY <2>3, <2>4 DEF Tied
  <2>8. Follows(g, h, s, r, v, d, L)
    BY <2>5 DEF Follows
  <2>9. Tied(g, h, s, r, v, d, L)
    BY <1>3, <2>3, <2>6, <2>7, <2>8 DEF Tied
  <2>10. Follows(h, g, r, s, v, d, M)
    BY <2>3, <2>5 DEF Tied, Follows
  <2>11. Tied(h, g, r, s, v, d, M)
    BY <2>3, <2>4, <2>5, <2>10 DEF Tied
  <2> QED BY <2>1, <2>2, <2>9, <2>11
<1>7. /\ Tied(g, h, tm[t][e], tm[t][p], t, t \in cut, L)
      /\ Tied(h, g, tm[t][p], tm[t][e], t, t \in cut, M)
  <2>1. PICK s, r, d : s = tn[t][e] /\ r = tn[t][p] /\ d = (t \in cut)
    OBVIOUS
  <2>2. PICK s2 : s2 = tm[t][e]
    OBVIOUS
  <2>3. s.open /\ s2.open /\ s2.in = Tail(s.in) /\ tm[t][p] = r
    BY <1>1, <2>1, <2>2
  <2>4. Tied(f, h, s, r, t, d, L) /\ Tied(h, f, r, s, t, d, M)
    BY <1>5, <2>1
  <2>5. f.cur # t
    BY <2>3, <2>4 DEF Tied, Side
  <2>6. s.in \in Seq(Recs) /\ s.in # << >> /\ r.in \in Seq(Recs) /\ Head(s.in) = <<"count", n>>
    BY <2>1, <1>1 DEF Sides
  <2>7. Head(s.in)[1] = "count" /\ Head(s.in)[2] = n /\ Head(s.in) = s.in[1] /\ 1 \in 1..Len(s.in)
    BY <2>6
  <2>8. Has1(s.in, "count")
    BY <2>7 DEF Has1
  <2>9. (\A k : Has1(s2.in, k) => Has1(s.in, k)) /\ Counted1(s2.in) /\ ~Has1(s2.in, "count")
    BY <2>3, <2>4, <2>6, <2>7, TailHas DEF Tied, Side
  <2>10. Side(g, s2, t)
    BY <2>3, <2>4, <2>5, <2>9 DEF Tied, Side
  <2>11. HasSaid(g, t) /\ Listens(f, t) /\ WritesFrom(g, t) = n
    BY DEF HasSaid, Listens, WritesFrom
  <2>12. Follows(g, h, s2, r, t, d, L)
    <3>1. PICK b \in 0..h.read : /\ Line(s.in, dlBytes(f), b, h.read, L, h.upEnded)
                                 /\ r.open /\ h.cur = t /\ ~d => b = WritesFrom(h, t)
      BY <2>3, <2>4, <2>11 DEF Tied, Follows
    <3>2. Line(s2.in, dlBytes(f), b, h.read, L, h.upEnded)
      BY <2>3, <2>6, <2>7, <3>1, LineTail
    <3> QED BY <1>3, <3>1, <3>2 DEF Follows
  <2>13. r.open /\ h.cur # t => Bare(s2.in)
    BY <2>4, <2>9 DEF Tied, Bare
  <2>14. \A i \in 1..Len(r.in) : r.in[i][1] = "count" => r.in[i][2] = dlBytes(g)
    BY <1>3, <2>3, <2>4 DEF Tied
  <2>15. Tied(g, h, s2, r, t, d, L)
    BY <2>10, <2>11, <2>12, <2>13, <2>14 DEF Tied
  <2>16. Side(h, r, t)
    BY <2>4 DEF Tied
  <2>17. r.open => HasSaid(h, t) /\ n = dlBytes(h)
    BY <2>4, <2>7, <2>8 DEF Tied
  <2>18. Bare(r.in)
    BY <2>3, <2>4, <2>5 DEF Tied
  <2>19. r.open => \A i \in 1..Len(s2.in) : s2.in[i][1] = "count" => s2.in[i][2] = dlBytes(h)
    BY <2>9 DEF Has1
  <2>20. Follows(h, g, r, s2, t, d, M)
    <3>1. dlBytes(h) \in 0..g.read
      BY <1>3, <1>4
    <3>2. Line(r.in, dlBytes(h), dlBytes(h), g.read, M, g.upEnded)
      BY <2>6, <2>18, <3>1, LineBare
    <3> QED BY <2>11, <2>17, <3>1, <3>2 DEF Follows
  <2>21. Tied(h, g, r, s2, t, d, M)
    BY <2>16, <2>17, <2>19, <2>20 DEF Tied
  <2> QED BY <2>1, <2>2, <2>3, <2>15, <2>21
<1> QED BY <1>1, <1>2, <1>4, <1>6, <1>7 DEF Bound

LEMMA ResumeFinishFaithful ==
    ASSUME FlowInv, Faithful, Prompted, NEW e \in Ends, NEW t \in Tunnels, NEW n \in Nat, ResumeFinish(e, t, n)
    PROVE  Faithful'
<1>1. PICK f : f = flow[e]
  OBVIOUS
<1>2. /\ Made(f) /\ Counts(f) /\ Local(f, AppLen[e], Replay) /\ Sides(tun) /\ Bound(e, f, flow[Peer(e)], tun) /\ Holds(e, f)
      /\ Has(t, e) /\ Head1(t, e) = <<"count", n>> /\ Settles(f, t)
      /\ \A v \in Tunnels \ {t} : f.att[v].pc = "none"
  BY <1>1, MineIs, EndIs DEF ResumeFinish, Counted, Prompt, Prompted, Settles, At
<1>3. CASE CloseLeg(e, f, t)
  BY <1>1, <1>3, CloseLegFaithful
<1>4. CASE Abort(e, Over(f, t), Dropped(tun, t, e), "counts")
  BY <1>1, <1>4, AbortLegFaithful
<1>5. PICK r : r = Resumed(f, t, n)
  OBVIOUS
<1>6. CASE /\ Running(f) /\ f.suspended
           /\ Step(e, IF f.upEnded THEN Goes(r, t, "replay") ELSE Over(r, t), Served(Popped(t, e), f, e, t))
  <2>1. PICK a : a = Onward(f, t)
    OBVIOUS
  <2>2. PICK g : g = With(r, t, a)
    OBVIOUS
  <2>3. Parked(f) /\ ParkedIs(f)
    BY <1>2, <1>6 DEF Holds, EndInv, Ctl, Settling
  <2>4. Local(g, AppLen[e], Replay) /\ Onto(f, g, t, n) /\ Alone(f, t)
    <3>1. f.att[t].mode = "resume"
      BY <1>2 DEF Settles
    <3>2. Running(f)
      BY <1>6
    <3>3. Made(f) /\ Local(f, AppLen[e], Replay)
      BY <1>2
    <3>4. Alone(f, t)
      BY <1>2 DEF Alone
    <3> QED BY <1>5, <2>1, <2>2, <2>3, <3>1, <3>2, <3>3, <3>4, ResumedLocal
  <2>5. (IF f.upEnded THEN Goes(r, t, "replay") ELSE Over(r, t)) = g
    <3>1. DOMAIN r = flowFields /\ r.att = f.att
      <4>1. GoesOn(f, r, t, n)
        BY <1>2, <1>5, ResumedIs
      <4> QED BY <1>2, <4>1 DEF GoesOn, Same, Made, flowFields
    <3>2. DOMAIN f.att = Tunnels
      BY <1>2 DEF Made, Atts
    <3> QED BY <2>1, <2>2, <3>1, <3>2 DEF Goes, Over, With, flowFields, Onward
  <2>6. tun[t][e].open /\ tun[t][e].in # << >> /\ Head(tun[t][e].in) = <<"count", n>>
    BY <1>2 DEF Has, Head1
  <2>7. PICK tw : tw = Popped(t, e)
    OBVIOUS
  <2>8. PICK s : SideSet(tun, tw, t, e, s) /\ Same(tun[t][e], s, {"in"}) /\ s.in = Tail(tun[t][e].in)
    BY <1>2, <2>6, <2>7, PoppedIs
  <2>9. PICK tm : tm = Served(tw, f, e, t)
    OBVIOUS
  <2>10. Sides(tw) /\ tw[t][e] = s
    BY <2>8 DEF SideSet
  <2>11. PICK s2 : SideSet(tw, tm, t, e, s2) /\ Same(s, s2, {"served"})
    BY <2>9, <2>10, ServedGrows
  <2>12. DOMAIN tun[t][e] = sideFields /\ DOMAIN s = sideFields
    BY <1>2, <2>10 DEF Sides
  <2>13. s2.open = tun[t][e].open /\ s2.in = Tail(tun[t][e].in)
    <3>1. s.open = tun[t][e].open
      BY <2>8, <2>12 DEF Same, sideFields
    <3>2. s2.open = s.open /\ s2.in = s.in
      BY <2>11, <2>12 DEF Same, sideFields
    <3> QED BY <2>8, <3>1, <3>2
  <2>14. tm[t][e] = s2 /\ \A v \in Tunnels : tm[v][Peer(e)] = tun[v][Peer(e)] /\ (v # t => tm[v][e] = tun[v][e])
    BY <2>8, <2>11, PeerIs DEF SideSet
  <2>15. PICK h : h = flow[Peer(e)]
    OBVIOUS
  <2>16. h.read \in Nat /\ h.got \in Seq(Nat) /\ f.read \in Nat /\ f.got \in Seq(Nat)
    BY <1>2, <2>15, PeerIs, MineIs DEF Counts
  <2>17. Bound(e, f, h, tun)
    BY <1>2, <2>15
  <2>18. Bound(e, g, h, tm)
    BY <1>2, <1>6, <2>4, <2>6, <2>13, <2>14, <2>16, <2>17, ResumedBound
  <2>19. Turned(e, g, tm)
    BY <1>6, <2>5, <2>7, <2>9 DEF Step, Turned
  <2> QED BY <2>4, <2>15, <2>18, <2>19, FaithfulStep
<1> QED BY <1>1, <1>3, <1>4, <1>5, <1>6 DEF ResumeFinish

-----------------------------------------------------------------------------
(* Bytes and the END reach the other end.                                   *)

\* The end goes from f to g with one byte more for the app.
Took(f, g) ==
    /\ /\ g.cur = f.cur /\ g.next = f.next /\ g.freezeReq = f.freezeReq /\ g.frozen = f.frozen
       /\ g.installed = f.installed /\ g.upSwitched = f.upSwitched /\ g.dlSwitched = f.dlSwitched
       /\ g.rel = f.rel /\ g.resumeConn = f.resumeConn /\ g.resumeFrom = f.resumeFrom /\ g.upEnded = f.upEnded
       /\ g.aborted = f.aborted /\ g.done = f.done /\ g.suspended = f.suspended /\ g.writeDl = f.writeDl
       /\ g.end = f.end /\ g.read = f.read /\ g.st = f.st /\ g.up = f.up /\ g.att = f.att
    /\ g.dl.pc = f.dl.pc /\ g.dl.src = f.dl.src /\ g.dl.err = f.dl.err
    /\ f.got \in Seq(Nat) /\ g.got = Append(f.got, Len(f.got) + 1)

LEMMA TookIs ==
    ASSUME NEW f, NEW g, Took(f, g)
    PROVE  /\ g.got \in Seq(Nat) /\ dlBytes(f) \in Nat /\ dlBytes(g) = dlBytes(f) + 1
           /\ \A i \in 1..Len(g.got) : (i \in 1..Len(f.got) /\ g.got[i] = f.got[i]) \/ g.got[i] = i
<1>1. f.got \in Seq(Nat) /\ g.got = Append(f.got, Len(f.got) + 1)
  BY DEF Took
<1>2. Len(f.got) \in Nat
  BY <1>1
<1>3. Len(f.got) + 1 \in Nat
  BY <1>2
<1>4. g.got \in Seq(Nat) /\ Len(g.got) = Len(f.got) + 1
  BY <1>1, <1>3
<1>5. ASSUME NEW i \in 1..Len(g.got)
      PROVE  (i \in 1..Len(f.got) /\ g.got[i] = f.got[i]) \/ g.got[i] = i
  BY <1>1, <1>2, <1>4
<1> QED BY <1>2, <1>4, <1>5 DEF dlBytes

LEMMA TookLocal ==
    ASSUME NEW f, NEW g, Took(f, g), NEW L, NEW R, Local(f, L, R), \A v \in Tunnels : ~Settles(f, v)
    PROVE  Local(g, L, R)
<1>1. /\ /\ g.cur = f.cur /\ g.next = f.next /\ g.freezeReq = f.freezeReq /\ g.frozen = f.frozen
         /\ g.installed = f.installed /\ g.upSwitched = f.upSwitched /\ g.dlSwitched = f.dlSwitched
         /\ g.rel = f.rel /\ g.resumeConn = f.resumeConn /\ g.resumeFrom = f.resumeFrom
         /\ g.upEnded = f.upEnded /\ g.aborted = f.aborted /\ g.done = f.done /\ g.suspended = f.suspended
         /\ g.writeDl = f.writeDl /\ g.end = f.end /\ g.read = f.read /\ g.st = f.st /\ g.up = f.up
         /\ g.att = f.att
      /\ g.dl.pc = f.dl.pc /\ g.dl.src = f.dl.src /\ g.dl.err = f.dl.err
  BY DEF Took
<1>2. \A i \in 1..Len(g.got) : g.got[i] = i
  BY TookIs DEF Local
<1>3. \A v \in Tunnels : ~Settles(g, v)
  BY <1>1 DEF Settles
<1>4. Taken(g) = Taken(f) /\ Unmoved(g)
  BY <1>1 DEF Taken, Local, Unmoved
<1> QED BY <1>1, <1>2, <1>3, <1>4 DEF Local

\* The byte is the next one of the stream.
LEMMA DataNext ==
    ASSUME NEW e \in Ends, NEW f, NEW h, NEW tn, Bound(e, f, h, tn), NEW t \in Tunnels, f.cur = t,
           Sides(tn), tn[t][e].open, tn[t][e].in # << >>, h.read \in Nat
    PROVE  /\ Head(tn[t][e].in)[1] = "data" => Head(tn[t][e].in)[2] = dlBytes(f) + 1 /\ dlBytes(f) + 1 <= h.read
           /\ Head(tn[t][e].in)[1] = "end" => dlBytes(f) = AppLen[Peer(e)] /\ h.upEnded
<1>1. Tied(f, h, tn[t][e], tn[t][Peer(e)], t, t \in cut, AppLen[Peer(e)])
  BY DEF Bound
<1>2. PICK b : Line(tn[t][e].in, dlBytes(f), b, h.read, AppLen[Peer(e)], h.upEnded)
  BY <1>1 DEF Tied, Follows, Listens
<1>3. tn[t][e].in \in Seq(Recs)
  BY DEF Sides
<1> QED BY <1>2, <1>3, LineTail

LEMMA TookBound ==
    ASSUME NEW e \in Ends, NEW f, NEW g, NEW h, NEW tn, NEW tm, Bound(e, f, h, tn), NEW t \in Tunnels, f.cur = t,
           Sides(tn), tn[t][e].open, tn[t][e].in # << >>, Head(tn[t][e].in)[1] = "data", Took(f, g),
           f.dl.pc = "read", f.st # "eof", \A v \in Tunnels : ~Settles(f, v) /\ f.att[v].pc # "readcount",
           f.read \in Nat, h.read \in Nat, h.got \in Seq(Nat),
           tm[t][e].open = tn[t][e].open, tm[t][e].in = Tail(tn[t][e].in),
           \A v \in Tunnels : tm[v][Peer(e)] = tn[v][Peer(e)] /\ (v # t => tm[v][e] = tn[v][e])
    PROVE  Bound(e, g, h, tm)
<1>0. /\ /\ g.cur = f.cur /\ g.next = f.next /\ g.freezeReq = f.freezeReq /\ g.frozen = f.frozen
         /\ g.installed = f.installed /\ g.upSwitched = f.upSwitched /\ g.dlSwitched = f.dlSwitched
         /\ g.rel = f.rel /\ g.resumeConn = f.resumeConn /\ g.resumeFrom = f.resumeFrom
         /\ g.upEnded = f.upEnded /\ g.aborted = f.aborted /\ g.done = f.done /\ g.suspended = f.suspended
         /\ g.writeDl = f.writeDl /\ g.end = f.end /\ g.read = f.read /\ g.st = f.st /\ g.up = f.up
         /\ g.att = f.att
      /\ g.dl.pc = f.dl.pc /\ g.dl.src = f.dl.src /\ g.dl.err = f.dl.err
  BY DEF Took
<1>1. PICK p \in Ends : p = Peer(e) /\ p # e
  BY PeerIs
<1>2. PICK L, M : L = AppLen[p] /\ M = AppLen[e]
  OBVIOUS
<1>3. dlBytes(g) = dlBytes(f) + 1 /\ dlBytes(f) \in Nat /\ dlBytes(h) \in Nat
  BY TookIs DEF dlBytes
<1>4. dlBytes(f) + 1 <= h.read
  BY DataNext
<1>5. ~Told(g) /\ Pair(h, f, M)
  BY <1>0, <1>1, <1>2 DEF Told, Bound
<1>6. Pair(g, h, L) /\ Pair(h, g, M)
  BY <1>0, <1>3, <1>4, <1>5 DEF Pair
<1>7. \A v \in Tunnels : /\ Tied(f, h, tn[v][e], tn[v][p], v, v \in cut, L)
                         /\ Tied(h, f, tn[v][p], tn[v][e], v, v \in cut, M)
  BY <1>1, <1>2 DEF Bound
<1>8. \A v \in Tunnels : WritesFrom(g, v) = WritesFrom(f, v) /\ ~Settles(g, v) /\ g.att[v].pc # "readcount"
  BY <1>0 DEF WritesFrom, Replaying, Taken, Settles
<1>9. ASSUME NEW v \in Tunnels, v # t
      PROVE  /\ Tied(g, h, tm[v][e], tm[v][p], v, v \in cut, L)
             /\ Tied(h, g, tm[v][p], tm[v][e], v, v \in cut, M)
  <2>1. PICK s, r, d : s = tn[v][e] /\ r = tn[v][p] /\ d = (v \in cut)
    OBVIOUS
  <2>2. tm[v][e] = s /\ tm[v][p] = r
    BY <1>1, <1>9, <2>1
  <2>3. Tied(f, h, s, r, v, d, L) /\ Tied(h, f, r, s, v, d, M)
    BY <1>7, <2>1
  <2>4. ~HasSaid(f, v) /\ ~HasSaid(g, v) /\ ~Listens(g, v) /\ g.cur # v /\ f.cur # v
    BY <1>0, <1>8, <1>9 DEF HasSaid, Listens
  <2>5. Side(g, s, v)
    BY <1>0, <2>3, <2>4 DEF Tied, Side
  <2>6. s.open => Bare(s.in) /\ ~Has1(r.in, "count") /\ h.cur # v
    BY <2>3, <2>4 DEF Tied
  <2>7. Follows(g, h, s, r, v, d, L)
    BY <2>4 DEF Follows
  <2>8. s.open => \A i \in 1..Len(r.in) : r.in[i][1] = "count" => r.in[i][2] = dlBytes(g)
    BY <2>6 DEF Has1
  <2>9. Tied(g, h, s, r, v, d, L)
    BY <2>3, <2>5, <2>6, <2>7, <2>8 DEF Tied
  <2>10. Follows(h, g, r, s, v, d, M)
    BY <1>0, <2>3, <2>4 DEF Tied, Follows
  <2>11. Tied(h, g, r, s, v, d, M)
    BY <2>3, <2>4, <2>10 DEF Tied
  <2> QED BY <2>1, <2>2, <2>9, <2>11
<1>10. /\ Tied(g, h, tm[t][e], tm[t][p], t, t \in cut, L)
       /\ Tied(h, g, tm[t][p], tm[t][e], t, t \in cut, M)
  <2>1. PICK s, r, d : s = tn[t][e] /\ r = tn[t][p] /\ d = (t \in cut)
    OBVIOUS
  <2>2. PICK s2 : s2 = tm[t][e]
    OBVIOUS
  <2>3. s.open /\ s2.open /\ s2.in = Tail(s.in) /\ tm[t][p] = r /\ g.cur = t
    BY <1>0, <1>1, <2>1, <2>2
  <2>4. Tied(f, h, s, r, t, d, L) /\ Tied(h, f, r, s, t, d, M)
    BY <1>7, <2>1
  <2>5. s.in \in Seq(Recs) /\ s.in # << >> /\ r.in \in Seq(Recs) /\ Head(s.in)[1] = "data"
    BY <2>1, <1>1 DEF Sides
  <2>6. Head(s.in) = s.in[1] /\ 1 \in 1..Len(s.in)
    BY <2>5
  <2>7. Has1(s.in, "data")
    BY <2>5, <2>6 DEF Has1
  <2>8. ~Has1(s.in, "count") /\ ~Has1(r.in, "count")
    <3>1. ~r.open => r.in = << >>
      BY <2>4 DEF Tied, Side
    <3>2. r.open => h.cur = t
      BY <2>4, <2>7 DEF Tied, Bare
    <3>3. h.cur = t => ~Has1(r.in, "count")
      BY <2>4 DEF Tied, Side
    <3>4. r.in = << >> => ~Has1(r.in, "count")
      BY DEF Has1
    <3>5. ~Has1(s.in, "count")
      BY <2>4 DEF Tied, Side
    <3> QED BY <3>1, <3>2, <3>3, <3>4, <3>5
  <2>9. (\A k : Has1(s2.in, k) => Has1(s.in, k)) /\ Counted1(s2.in)
    BY <2>3, <2>4, <2>5, TailHas DEF Tied, Side
  <2>10. Side(g, s2, t)
    <3>1. Side(f, s, t)
      BY <2>4 DEF Tied
    <3>2. g.cur = f.cur /\ g.up = f.up /\ g.att = f.att /\ g.suspended = f.suspended /\ (Running(g) <=> Running(f))
      BY <1>0 DEF Running
    <3> QED BY <2>3, <2>8, <2>9, <3>1, <3>2 DEF Side
  <2>11. HasSaid(g, t) /\ Listens(f, t)
    BY <2>3 DEF HasSaid, Listens
  <2>12. Follows(g, h, s2, r, t, d, L)
    <3>1. PICK b \in 0..h.read : /\ Line(s.in, dlBytes(f), b, h.read, L, h.upEnded)
                                 /\ r.open /\ h.cur = t /\ ~d => b = WritesFrom(h, t)
      BY <2>3, <2>4, <2>11 DEF Tied, Follows
    <3>2. Line(s2.in, dlBytes(g), b, h.read, L, h.upEnded)
      BY <1>3, <2>3, <2>5, <3>1, LineTail
    <3> QED BY <3>1, <3>2 DEF Follows
  <2>13. r.open /\ h.cur # t => Bare(s2.in)
    BY <2>4, <2>9 DEF Tied, Bare
  <2>14. \A i \in 1..Len(r.in) : r.in[i][1] = "count" => r.in[i][2] = dlBytes(g)
    BY <2>8 DEF Has1
  <2>15. Tied(g, h, s2, r, t, d, L)
    BY <2>10, <2>11, <2>12, <2>13, <2>14 DEF Tied
  <2>16. Side(h, r, t) /\ (r.open => HasSaid(h, t))
    BY <2>4 DEF Tied
  <2>17. ~Has1(s2.in, "count")
    BY <2>8, <2>9
  <2>18. \A i \in 1..Len(s2.in) : s2.in[i][1] = "count" => s2.in[i][2] = dlBytes(h)
    BY <2>17 DEF Has1
  <2>19. Follows(h, g, r, s2, t, d, M)
    <3>1. Follows(h, f, r, s, t, d, M)
      BY <2>4 DEF Tied
    <3>2. g.read = f.read /\ g.upEnded = f.upEnded /\ g.cur = f.cur /\ WritesFrom(g, t) = WritesFrom(f, t)
      BY <1>0, <1>8
    <3> QED BY <2>3, <3>1, <3>2 DEF Follows
  <2>20. Tied(h, g, r, s2, t, d, M)
    BY <2>3, <2>16, <2>18, <2>19 DEF Tied
  <2> QED BY <2>1, <2>2, <2>3, <2>15, <2>20
<1> QED BY <1>1, <1>2, <1>6, <1>9, <1>10 DEF Bound

\* A byte is read: it is the next one, and the app gets it.
LEMMA DlDataFaithful == ASSUME FlowInv, Faithful, NEW e \in Ends, DlData(e) PROVE Faithful'
<1>1. PICK f : f = flow[e]
  OBVIOUS
<1>2. PICK h : h = flow[Peer(e)]
  OBVIOUS
<1>3. /\ Made(f) /\ Counts(f) /\ Local(f, AppLen[e], Replay) /\ Unmoved(f) /\ Sides(tun) /\ Holds(e, f) /\ Running(f)
      /\ Bound(e, f, h, tun) /\ f.dl.pc = "read" /\ f.dl.src \in Tunnels /\ \A v \in Tunnels : Side(f, tun[v][e], v)
  BY <1>1, <1>2, MineIs, EndIs DEF DlData
<1>4. PICK t \in Tunnels : t = f.dl.src
  BY <1>3
<1>5. f.cur = t /\ f.st # "eof"
  BY <1>3, <1>4 DEF Local
<1>6. Has(t, e) /\ Head1(t, e)[1] = "data"
  BY <1>1, <1>4 DEF DlData
<1>7. tun[t][e].open /\ tun[t][e].in # << >> /\ Head(tun[t][e].in)[1] = "data" /\ Head1(t, e) = Head(tun[t][e].in)
  BY <1>6 DEF Has, Head1
<1>8. ~f.suspended
  BY <1>3, <1>5, <1>7 DEF Side
<1>9. CASE Abort(e, f, Popped(t, e), "app")
  BY <1>1, <1>3, <1>4, <1>6, <1>9, DlDropFaithful
<1>10. CASE Step(e, Looked([f EXCEPT !.got = Append(@, Head1(t, e)[2]), !.ack.kick = Replay]), Popped(t, e))
  <2>1. h.read \in Nat /\ h.got \in Seq(Nat) /\ f.read \in Nat /\ f.got \in Seq(Nat)
    BY <1>2, <1>3, PeerIs, MineIs DEF Counts
  <2>2. Head1(t, e)[2] = Len(f.got) + 1
    <3>1. Bound(e, f, h, tun) /\ Sides(tun)
      BY <1>3
    <3>2. Head(tun[t][e].in)[2] = dlBytes(f) + 1
      BY <1>5, <1>7, <2>1, <3>1, DataNext
    <3> QED BY <1>7, <3>2 DEF dlBytes
  <2>3. PICK k : k = [f EXCEPT !.got = Append(@, Head1(t, e)[2]), !.ack.kick = Replay]
    OBVIOUS
  <2>4. /\ /\ k.cur = f.cur /\ k.next = f.next /\ k.freezeReq = f.freezeReq /\ k.frozen = f.frozen
           /\ k.installed = f.installed /\ k.upSwitched = f.upSwitched /\ k.dlSwitched = f.dlSwitched
           /\ k.rel = f.rel /\ k.resumeConn = f.resumeConn /\ k.resumeFrom = f.resumeFrom
           /\ k.upEnded = f.upEnded /\ k.aborted = f.aborted /\ k.done = f.done /\ k.suspended = f.suspended
           /\ k.writeDl = f.writeDl /\ k.end = f.end /\ k.read = f.read /\ k.st = f.st /\ k.up = f.up
           /\ k.dl = f.dl /\ k.att = f.att
        /\ k.got = Append(f.got, Len(f.got) + 1) /\ Made(k)
    BY <1>3, <2>2, <2>3 DEF Made, flowFields, ackFields
  <2>5. PICK g : g = Looked(k)
    OBVIOUS
  <2>6. Took(f, g)
    <3>1. ~Swapping(k)
      BY <1>3, <2>4 DEF Swapping, Unmoved
    <3>2. g = [k EXCEPT !.dl.pc = "read"]
      BY <2>5, <3>1 DEF Looked
    <3>3. /\ /\ g.cur = k.cur /\ g.next = k.next /\ g.freezeReq = k.freezeReq /\ g.frozen = k.frozen
             /\ g.installed = k.installed /\ g.upSwitched = k.upSwitched /\ g.dlSwitched = k.dlSwitched
             /\ g.rel = k.rel /\ g.resumeConn = k.resumeConn /\ g.resumeFrom = k.resumeFrom
             /\ g.upEnded = k.upEnded /\ g.aborted = k.aborted /\ g.done = k.done /\ g.suspended = k.suspended
             /\ g.writeDl = k.writeDl /\ g.end = k.end /\ g.read = k.read /\ g.got = k.got /\ g.st = k.st
             /\ g.up = k.up /\ g.att = k.att
          /\ g.dl.pc = "read" /\ g.dl.src = k.dl.src /\ g.dl.err = k.dl.err
      BY <2>4, <3>2 DEF Made, flowFields, dlFields
    <3>4. /\ /\ g.cur = f.cur /\ g.next = f.next /\ g.freezeReq = f.freezeReq /\ g.frozen = f.frozen
             /\ g.installed = f.installed /\ g.upSwitched = f.upSwitched /\ g.dlSwitched = f.dlSwitched
             /\ g.rel = f.rel /\ g.resumeConn = f.resumeConn /\ g.resumeFrom = f.resumeFrom
             /\ g.upEnded = f.upEnded /\ g.aborted = f.aborted /\ g.done = f.done /\ g.suspended = f.suspended
             /\ g.writeDl = f.writeDl /\ g.end = f.end /\ g.read = f.read /\ g.st = f.st /\ g.up = f.up
             /\ g.att = f.att
          /\ g.dl.pc = f.dl.pc /\ g.dl.src = f.dl.src /\ g.dl.err = f.dl.err
          /\ g.got = Append(f.got, Len(f.got) + 1)
      BY <1>3, <2>4, <3>3
    <3> QED BY <2>1, <3>4 DEF Took
  <2>7. \A v \in Tunnels : ~Settles(f, v) /\ f.att[v].pc # "readcount"
    <3>1. \A v \in Tunnels : ~Settles(f, v)
      BY <1>3, <1>8 DEF Holds, EndInv, Ctl, Settling, Parked
    <3>2. \A v \in Tunnels : f.att[v].pc = "readcount" => f.att[v].mode = "resume"
      BY <1>3 DEF Unmoved
    <3> QED BY <3>1, <3>2 DEF Settles
  <2>8. Local(g, AppLen[e], Replay)
    BY <1>3, <2>6, <2>7, TookLocal
  <2>9. PICK tm : tm = Popped(t, e)
    OBVIOUS
  <2>10. PICK s : SideSet(tun, tm, t, e, s) /\ Same(tun[t][e], s, {"in"}) /\ s.in = Tail(tun[t][e].in)
    BY <1>3, <1>7, <2>9, PoppedIs
  <2>11. DOMAIN tun[t][e] = sideFields
    BY <1>3 DEF Sides
  <2>12. s.open = tun[t][e].open
    BY <2>10, <2>11 DEF Same, sideFields
  <2>13. tm[t][e].open = tun[t][e].open /\ tm[t][e].in = Tail(tun[t][e].in)
    BY <2>10, <2>12 DEF SideSet
  <2>14. \A v \in Tunnels : tm[v][Peer(e)] = tun[v][Peer(e)] /\ (v # t => tm[v][e] = tun[v][e])
    BY <2>10, PeerIs DEF SideSet
  <2>15. Bound(e, g, h, tm)
    BY <1>3, <1>5, <1>7, <2>1, <2>6, <2>7, <2>13, <2>14, TookBound
  <2>16. Turned(e, g, tm)
    BY <1>10, <2>3, <2>5, <2>9 DEF Step, Turned
  <2> QED BY <1>2, <2>8, <2>15, <2>16, FaithfulStep
<1> QED BY <1>1, <1>4, <1>8, <1>9, <1>10 DEF DlData

\* END is read: it is behind all of the peer's bytes.
LEMMA EndReadFaithful ==
    ASSUME FlowInv, Faithful, NEW e \in Ends, NEW f, f = flow[e], f.dl.pc = "read", NEW t \in Tunnels, t = f.dl.src,
           Has(t, e), Head1(t, e)[1] = "end", NEW g, g.dl.pc = "decide", g.dl.src = f.dl.src,
           /\ g.cur = f.cur /\ g.next = f.next /\ g.freezeReq = f.freezeReq /\ g.frozen = f.frozen
           /\ g.installed = f.installed /\ g.upSwitched = f.upSwitched /\ g.dlSwitched = f.dlSwitched
           /\ g.rel = f.rel /\ g.resumeConn = f.resumeConn /\ g.resumeFrom = f.resumeFrom
           /\ g.upEnded = f.upEnded /\ g.aborted = f.aborted /\ g.done = f.done /\ g.suspended = f.suspended
           /\ g.writeDl = f.writeDl /\ g.end = f.end /\ g.read = f.read /\ g.got = f.got /\ g.st = f.st
           /\ g.up = f.up /\ g.att = f.att,
           NEW tm, Drifts(e, tun, tm, {}), Turned(e, g, tm)
    PROVE  Faithful'
<1>1. PICK h : h = flow[Peer(e)]
  OBVIOUS
<1>2. /\ Made(f) /\ Counts(f) /\ Local(f, AppLen[e], Replay) /\ Sides(tun) /\ Bound(e, f, h, tun)
      /\ \A v \in Tunnels : Side(f, tun[v][e], v)
  BY <1>1, MineIs
<1>3. f.cur = t /\ f.st # "eof"
  BY <1>2 DEF Local
<1>4. tun[t][e].open /\ tun[t][e].in # << >> /\ Head(tun[t][e].in)[1] = "end"
  BY DEF Has, Head1
<1>5. h.read \in Nat /\ h.got \in Seq(Nat) /\ f.read \in Nat
  BY <1>1, <1>2, PeerIs, MineIs DEF Counts
<1>6. dlBytes(f) = AppLen[Peer(e)] /\ h.upEnded
  <2>1. Bound(e, f, h, tun) /\ Sides(tun)
    BY <1>2
  <2> QED BY <1>3, <1>4, <1>5, <2>1, DataNext
<1>7. Local(g, AppLen[e], Replay)
  BY <1>2, <1>3 DEF Local, Unmoved, Taken, Settles, dlBytes
<1>8. Pair(g, h, AppLen[Peer(e)])
  <2>1. dlBytes(g) = dlBytes(f)
    BY DEF dlBytes
  <2>2. dlBytes(f) <= h.read
    BY <1>2 DEF Bound, Pair
  <2> QED BY <1>6, <2>1, <2>2 DEF Pair
<1>9. ASSUME NEW v \in Tunnels PROVE Calm(f, g, v, tm[v][e].open)
  <2>1. tm[v][e].open => tun[v][e].open
    BY DEF Drifts, Loosely
  <2>2. WritesFrom(g, v) = WritesFrom(f, v)
    BY DEF WritesFrom, Replaying, Taken
  <2>3. Side(f, tun[v][e], v)
    BY <1>2
  <2> QED BY <2>1, <2>2, <2>3, CalmStays
<1>10. Ready(e, f, g, tun, tm)
  <2>1. Stays(f, g) /\ g.read \in Nat
    BY <1>5 DEF Stays
  <2>2. \A v \in Tunnels : Drift(tun[v][e], tm[v][e], tun[v][Peer(e)], tm[v][Peer(e)])
    BY DEF Drifts
  <2> QED BY <1>9, <2>1, <2>2 DEF Ready
<1>11. Bound(e, g, h, tm)
  BY <1>2, <1>5, <1>8, <1>10, ReadyBound
<1> QED BY <1>1, <1>7, <1>11, FaithfulStep

LEMMA EndReadDrifts ==
    ASSUME FlowInv, Faithful, NEW e \in Ends, NEW t \in Tunnels, Has(t, e), Head1(t, e)[1] = "end"
    PROVE  Drifts(e, tun, BothEnded([Popped(t, e) EXCEPT ![t][e].rended = TRUE, ![t][e].served = Replay], t, e), {})
<1>1. tun[t][e].in # << >> /\ Sides(tun)
  BY MineIs DEF Has
<1>2. PICK tw : tw = Popped(t, e)
  OBVIOUS
<1>3. Drifts(e, tun, tw, {})
  BY <1>1, <1>2, DriftsPopped
<1>4. Sides(tw)
  BY <1>3 DEF Drifts
<1>5. PICK to : to = [tw EXCEPT ![t][e].rended = TRUE, ![t][e].served = Replay]
  OBVIOUS
<1>6. PICK s : s = [tw[t][e] EXCEPT !.rended = TRUE, !.served = Replay]
  OBVIOUS
<1>7. DOMAIN tw[t][e] = sideFields /\ tw[t][e].in \in Seq(Recs)
  BY <1>4 DEF Sides
<1>8. s.in = tw[t][e].in /\ s.open = tw[t][e].open /\ DOMAIN s = sideFields
  BY <1>6, <1>7 DEF sideFields
<1>9. to = [tw EXCEPT ![t][e] = s]
  BY <1>4, <1>5, <1>6 DEF Sides
<1>10. SideSet(tw, to, t, e, s)
  BY <1>4, <1>7, <1>8, <1>9, SideIs
<1>11. Drifts(e, tun, to, {})
  BY <1>3, <1>8, <1>10, DriftsOwn
<1>12. PICK tm : tm = BothEnded(to, t, e)
  OBVIOUS
<1>13. Drifts(e, tun, tm, {})
  <2>1. Drifts(e, tun, Closed(to, t, e, FALSE), {} \ {t})
    BY <1>11, DriftsClosed
  <2>2. {} \ {t} = {}
    OBVIOUS
  <2>3. tm = Closed(to, t, e, FALSE) \/ tm = to
    BY <1>12 DEF BothEnded, Dropped
  <2> QED BY <1>11, <2>1, <2>2, <2>3
<1> QED BY <1>2, <1>5, <1>12, <1>13

LEMMA DlEndOrFailFaithful == ASSUME FlowInv, Faithful, NEW e \in Ends, DlEndOrFail(e) PROVE Faithful'
<1>1. PICK f : f = flow[e]
  OBVIOUS
<1>2. Unmoved(f) /\ f.dl.pc = "read" /\ f.dl.src \in Tunnels
  BY <1>1, MineIs, EndIs DEF DlEndOrFail
<1>3. PICK t \in Tunnels : t = f.dl.src
  BY <1>2
<1>4. PICK pc : pc = IF ~f.installed /\ f.frozen THEN "wait" ELSE "decide"
  OBVIOUS
<1>5. pc = "decide"
  BY <1>2, <1>4 DEF Unmoved
<1>6. CASE \E err \in {"abort", "broken"} : Step(e, [f EXCEPT !.dl.err = err, !.dl.pc = pc], Dropped(tun, t, e))
  BY <1>1, <1>2, <1>3, <1>4, <1>6, DlFailFaithful
<1>7. PICK to : to = [Popped(t, e) EXCEPT ![t][e].rended = TRUE, ![t][e].served = Replay]
  OBVIOUS
<1>8. CASE /\ Has(t, e) /\ Head1(t, e)[1] = "end"
           /\ Step(e, [f EXCEPT !.dl.err = "eof", !.dl.pc = pc], BothEnded(to, t, e))
  <2>1. PICK g : g = [f EXCEPT !.dl.err = "eof", !.dl.pc = "decide"]
    OBVIOUS
  <2>2. PICK tm : tm = BothEnded(to, t, e)
    OBVIOUS
  <2>3. Turned(e, g, tm)
    BY <1>5, <1>8, <2>1, <2>2 DEF Step, Turned
  <2>4. Has(t, e) /\ Head1(t, e)[1] = "end"
    BY <1>8
  <2>5. Drifts(e, tun, tm, {})
    BY <1>7, <2>2, <2>4, EndReadDrifts
  <2>6. Made(f)
    BY <1>1, MineIs
  <2>7. /\ /\ g.cur = f.cur /\ g.next = f.next /\ g.freezeReq = f.freezeReq /\ g.frozen = f.frozen
           /\ g.installed = f.installed /\ g.upSwitched = f.upSwitched /\ g.dlSwitched = f.dlSwitched
           /\ g.rel = f.rel /\ g.resumeConn = f.resumeConn /\ g.resumeFrom = f.resumeFrom
           /\ g.upEnded = f.upEnded /\ g.aborted = f.aborted /\ g.done = f.done /\ g.suspended = f.suspended
           /\ g.writeDl = f.writeDl /\ g.end = f.end /\ g.read = f.read /\ g.got = f.got /\ g.st = f.st
           /\ g.up = f.up /\ g.att = f.att
        /\ g.dl.pc = "decide" /\ g.dl.src = f.dl.src
    BY <2>1, <2>6 DEF Made, flowFields, dlFields
  <2> QED BY <1>1, <1>2, <1>3, <2>3, <2>4, <2>5, <2>7, EndReadFaithful
<1> QED BY <1>1, <1>3, <1>4, <1>6, <1>7, <1>8 DEF DlEndOrFail

-----------------------------------------------------------------------------
(* A tunnel is opened for a resume, and a session dies.                     *)

\* Neither end is on that tunnel yet.
LEMMA FreshTied ==
    ASSUME NEW f, NEW h, NEW s, NEW r, NEW t, NEW dead, NEW L, Bare(s.in), ~Has1(s.in, "count"), ~Has1(s.in, "move"),
           ~Has1(r.in, "count"), s.open, f.cur # t, h.cur # t, f.att[t].pc \in {"none", "verdict"}, f.up.dst # t
    PROVE  Tied(f, h, s, r, t, dead, L)
<1>1. Counted1(s.in)
  BY DEF Counted1, Has1
<1>2. Side(f, s, t)
  BY <1>1 DEF Side
<1>3. Follows(f, h, s, r, t, dead, L)
  BY DEF Follows, Listens, Settles
<1>4. \A i \in 1..Len(r.in) : r.in[i][1] = "count" => r.in[i][2] = dlBytes(f)
  BY DEF Has1
<1> QED BY <1>2, <1>3, <1>4 DEF Tied

LEMMA OpenResumeFaithful == ASSUME FlowInv, Faithful, NEW t \in Tunnels, OpenResume(t) PROVE Faithful'
<1> USE DEF AttOnly
<1>1. PICK e \in Ends, p \in Ends : e = "server" /\ p = "client" /\ p = Peer(e) /\ p # e /\ \A x \in Ends : x = e \/ x = p
  BY DEF Ends, Peer
<1>2. PICK f : f = flow[e]
  OBVIOUS
<1>3. PICK h : h = flow[p]
  OBVIOUS
<1>4. /\ Bound(e, f, h, tun) /\ Sides(tun) /\ used \in Nat /\ t = used + 1 /\ Holds(e, f) /\ Holds(p, h)
      /\ Drifts(e, tun, tun, {}) /\ Counts(f) /\ Counts(h)
  BY <1>1, <1>2, <1>3, MineIs, EndIs DEF OpenResume, Open
<1>5. PICK a : a = [NoAttempt EXCEPT !.pc = "verdict", !.mode = "resume"]
  OBVIOUS
<1>6. a.pc = "verdict" /\ a.mode = "resume"
  BY <1>5 DEF NoAttempt
<1>7. PICK g : g = With(f, t, a)
  OBVIOUS
<1>8. /\ Local(g, AppLen[e], Replay) /\ Stays(f, g) /\ g.read \in Nat
      /\ AttOnly(g, f)
      /\ g.att[t] = a /\ \A v \in Tunnels : v # t => Calm(f, g, v, tun[v][e].open)
  BY <1>2, <1>6, <1>7, SettlesIs
<1>9. f.cur # t /\ h.cur # t /\ f.up.dst # t /\ h.up.dst # t /\ h.att[t].pc = "none"
  <2>1. Located(f, used) /\ Located(h, used)
    BY <1>4 DEF Holds, EndInv
  <2>2. f.cur \in 0..used /\ h.cur \in 0..used /\ f.up.dst \in 1..used /\ h.up.dst \in 1..used
    BY <2>1 DEF Located
  <2>3. t \notin 0..used /\ t \notin 1..used
    BY <1>4
  <2> QED BY <2>1, <2>2, <2>3 DEF Located
<1>10. PICK i \in Seq(Recs) : i = <<<<"resume", 0>>>> /\ \A x : Has1(i, x) <=> x = "resume"
  <2>1. "resume" \in Kinds /\ 0 \in Nat
    BY DEF Kinds
  <2>2. <<<<"resume", 0>>>> \in Seq(Recs) /\ \A x : Has1(<<<<"resume", 0>>>>, x) <=> x = "resume"
    BY <2>1, OneRec
  <2> QED BY <2>2
<1>11. PICK tm : tm = tun'
  OBVIOUS
<1>12. /\ \A v \in Tunnels : v # t => tm[v] = tun[v]
       /\ tm[t][e].open = TRUE /\ tm[t][p].open = TRUE /\ tm[t][e].in = << >> /\ tm[t][p].in = i
  <2>1. PICK q : q = [x \in Ends |-> [tun[t][x] EXCEPT !.open = TRUE, !.in = IF x = "client" THEN <<<<"resume", 0>>>> ELSE << >>]]
    OBVIOUS
  <2>2. tm = [tun EXCEPT ![t] = q]
    BY <1>4, <1>11, <2>1 DEF OpenResume, Open, Sides
  <2>3. \A x \in Ends : DOMAIN tun[t][x] = sideFields
    BY <1>4 DEF Sides
  <2>4. \A x \in Ends : q[x].open = TRUE /\ q[x].in = IF x = "client" THEN i ELSE << >>
    BY <1>10, <2>1, <2>3 DEF sideFields
  <2>5. DOMAIN tun = Tunnels
    BY <1>4 DEF Sides
  <2>6. tm[t] = q /\ \A v \in Tunnels : v # t => tm[v] = tun[v]
    BY <2>2, <2>5
  <2> QED BY <1>1, <2>4, <2>6
<1>13. \A x : ~Has1(tm[t][e].in, x)
  BY <1>12 DEF Has1
<1>14. \A x : Has1(tm[t][p].in, x) => x = "resume"
  BY <1>10, <1>12
<1>15. ~Has1(tm[t][p].in, "count") /\ ~Has1(tm[t][p].in, "move") /\ Bare(tm[t][p].in) /\ Bare(tm[t][e].in)
  BY <1>13, <1>14 DEF Bare
<1>16. g.cur # t /\ g.up.dst # t /\ g.att[t].pc = "verdict"
  BY <1>6, <1>8, <1>9
<1>17. Tied(g, h, tm[t][e], tm[t][p], t, t \in cut, AppLen[p])
  BY <1>9, <1>12, <1>13, <1>15, <1>16, FreshTied
<1>18. Tied(h, g, tm[t][p], tm[t][e], t, t \in cut, AppLen[e])
  BY <1>9, <1>12, <1>13, <1>15, <1>16, FreshTied
<1>19. \A v \in Tunnels : v # t => /\ Drift(tun[v][e], tm[v][e], tun[v][p], tm[v][p])
                                   /\ Calm(f, g, v, tm[v][e].open)
  BY <1>1, <1>4, <1>8, <1>12 DEF Drifts
<1>20. Pair(g, h, AppLen[p])
  <2>1. Pair(f, h, AppLen[p])
    BY <1>1, <1>4 DEF Bound
  <2> QED BY <1>8, <2>1 DEF Pair, Told, dlBytes
<1>21. f.read \in Nat /\ h.read \in Nat /\ h.got \in Seq(Nat) /\ g.read \in Nat /\ Stays(f, g)
  BY <1>4, <1>8 DEF Counts
<1>22. Bound(e, g, h, tm)
  <2>1. Bound(e, f, h, tun)
    BY <1>4
  <2> QED BY <1>1, <1>17, <1>18, <1>19, <1>20, <1>21, <2>1, ElseBound
<1>23. Turned(e, g, tm)
  BY <1>1, <1>2, <1>5, <1>7, <1>11 DEF OpenResume, Open, Turned
<1>24. Local(g, AppLen[e], Replay)
  BY <1>8
<1> QED BY <1>1, <1>3, <1>22, <1>23, <1>24, FaithfulStep

\* What is left of the records of a session that died.
LEMMA PartHas ==
    ASSUME NEW q \in Seq(Recs), NEW k \in 0..Len(q), NEW p, p = SubSeq(q, 1, k)
    PROVE  /\ p \in Seq(Recs) /\ \A i \in 1..Len(p) : i \in 1..Len(q) /\ p[i] = q[i]
           /\ \A x : Has1(p, x) => Has1(q, x)
           /\ Counted1(q) => Counted1(p)
<1>1. p \in Seq(Recs) /\ Len(p) = k
  OBVIOUS
<1>2. \A i \in 1..Len(p) : i \in 1..Len(q) /\ p[i] = q[i]
  BY <1>1
<1>3. \A x : Has1(p, x) => Has1(q, x)
  BY <1>2 DEF Has1
<1>4. Counted1(q) => Counted1(p)
  BY <1>2 DEF Counted1
<1> QED BY <1>1, <1>2, <1>3, <1>4

LEMMA LostTied ==
    ASSUME NEW f, NEW h, NEW s, NEW r, NEW t, NEW dead, NEW L, Tied(f, h, s, r, t, dead, L), h.read \in Nat,
           s.in \in Seq(Recs), r.in \in Seq(Recs), NEW s2, NEW r2, s2.open = s.open, r2.open = r.open,
           NEW k \in 0..Len(s.in), s2.in = SubSeq(s.in, 1, k), NEW l \in 0..Len(r.in), r2.in = SubSeq(r.in, 1, l)
    PROVE  Tied(f, h, s2, r2, t, TRUE, L)
<1>1. /\ s2.in \in Seq(Recs) /\ \A x : Has1(s2.in, x) => Has1(s.in, x)
      /\ Counted1(s.in) => Counted1(s2.in)
  BY PartHas
<1>2. /\ r2.in \in Seq(Recs) /\ \A i \in 1..Len(r2.in) : i \in 1..Len(r.in) /\ r2.in[i] = r.in[i]
      /\ \A x : Has1(r2.in, x) => Has1(r.in, x)
  BY PartHas
<1>3. ~s.open => s2.in = << >>
  <2>1. ~s.open => s.in = << >>
    BY DEF Tied, Side
  <2>2. s.in = << >> => Len(s.in) = 0 /\ k = 0
    OBVIOUS
  <2>3. k = 0 => s2.in = << >>
    OBVIOUS
  <2> QED BY <2>1, <2>2, <2>3
<1>4. Side(f, s2, t)
  BY <1>1, <1>3 DEF Tied, Side
<1>5. s2.open /\ ~HasSaid(f, t) => Bare(s2.in) /\ ~Has1(r2.in, "count") /\ h.cur # t
  BY <1>1, <1>2 DEF Tied, Bare
<1>6. r2.open /\ h.cur # t => Bare(s2.in)
  BY <1>1 DEF Tied, Bare
<1>7. s2.open => \A i \in 1..Len(r2.in) : r2.in[i][1] = "count" => r2.in[i][2] = dlBytes(f)
  BY <1>2 DEF Tied
<1>8. Follows(f, h, s2, r2, t, TRUE, L)
  <2>1. ASSUME s.open, Listens(f, t)
        PROVE  \E c \in 0..h.read : Line(s2.in, dlBytes(f), c, h.read, L, h.upEnded)
    <3>1. PICK b : Line(s.in, dlBytes(f), b, h.read, L, h.upEnded)
      BY <2>1 DEF Tied, Follows
    <3> QED BY <3>1, LinePart
  <2> QED BY <2>1 DEF Follows
<1> QED BY <1>4, <1>5, <1>6, <1>7, <1>8 DEF Tied

LEMMA LoseFaithful == ASSUME FlowInv, Faithful, NEW t \in Tunnels, Lose(t) PROVE Faithful'
<1>1. PICK e \in Ends, p \in Ends : /\ e = "server" /\ p = "client" /\ e # p /\ p = Peer(e) /\ e = Peer(p)
                                    /\ \A x \in Ends : x = e \/ x = p
  BY DEF Ends, Peer
<1>2. Sides(tun)
  BY EndIs
<1>3. PICK i \in Seq(Recs), j \in Seq(Recs) : i = tun[t][e].in /\ j = tun[t][p].in
  BY <1>1, <1>2 DEF Sides
<1>4. PICK k \in 0..Len(i), l \in 0..Len(j) :
        tun' = [tun EXCEPT ![t][e].in = SubSeq(@, 1, k), ![t][p].in = SubSeq(@, 1, l)]
  BY <1>1, <1>3 DEF Lose
<1>5. DOMAIN tun = Tunnels /\ DOMAIN tun[t] = Ends /\ DOMAIN tun[t][e] = sideFields /\ DOMAIN tun[t][p] = sideFields
  BY <1>1, <1>2 DEF Sides
<1>6. PICK tm : tm = tun'
  OBVIOUS
<1>7. tm[t][e] = [tun[t][e] EXCEPT !.in = SubSeq(i, 1, k)] /\ tm[t][p] = [tun[t][p] EXCEPT !.in = SubSeq(j, 1, l)]
  BY <1>1, <1>3, <1>4, <1>5, <1>6
<1>8. \A v \in Tunnels : v # t => tm[v] = tun[v]
  BY <1>4, <1>5, <1>6
<1>9. /\ tm[t][e].open = tun[t][e].open /\ tm[t][e].in = SubSeq(i, 1, k)
      /\ tm[t][p].open = tun[t][p].open /\ tm[t][p].in = SubSeq(j, 1, l)
  BY <1>5, <1>7 DEF sideFields
<1>10. flow' = flow /\ moves' = moves /\ sc' = sc /\ cut' = cut \cup {t}
  BY DEF Lose
<1>11. AppLen' = AppLen /\ Replay' = Replay
  BY <1>10 DEF AppLen, Replay
<1>12. PICK f, h : f = flow[e] /\ h = flow[p]
  OBVIOUS
<1>13. PICK L, M : L = AppLen[p] /\ M = AppLen[e]
  OBVIOUS
<1>14. Bound(e, f, h, tun) /\ f.read \in Nat /\ h.read \in Nat
  BY <1>1, <1>12, MineIs DEF Counts
<1>15. Pair(f, h, L) /\ Pair(h, f, M)
  BY <1>1, <1>13, <1>14 DEF Bound
<1>16. ASSUME NEW v \in Tunnels
       PROVE  /\ Tied(f, h, tm[v][e], tm[v][p], v, v \in cut \cup {t}, L)
              /\ Tied(h, f, tm[v][p], tm[v][e], v, v \in cut \cup {t}, M)
  <2>1. /\ Tied(f, h, tun[v][e], tun[v][p], v, v \in cut, L)
        /\ Tied(h, f, tun[v][p], tun[v][e], v, v \in cut, M)
    BY <1>1, <1>13, <1>14 DEF Bound
  <2>2. CASE v # t
    <3>1. (v \in cut \cup {t}) = (v \in cut)
      BY <2>2
    <3> QED BY <1>8, <2>1, <2>2, <3>1
  <2>3. CASE v = t
    <3>1. PICK s, r, d : s = tun[t][e] /\ r = tun[t][p] /\ d = (t \in cut)
      OBVIOUS
    <3>2. PICK s2, r2 : s2 = tm[t][e] /\ r2 = tm[t][p]
      OBVIOUS
    <3>3. Tied(f, h, s, r, t, d, L) /\ Tied(h, f, r, s, t, d, M)
      BY <2>1, <2>3, <3>1
    <3>4. /\ s.in \in Seq(Recs) /\ r.in \in Seq(Recs) /\ s2.open = s.open /\ r2.open = r.open
          /\ s2.in = SubSeq(s.in, 1, k) /\ r2.in = SubSeq(r.in, 1, l) /\ k \in 0..Len(s.in) /\ l \in 0..Len(r.in)
      BY <1>3, <1>9, <3>1, <3>2
    <3>5. Tied(f, h, s2, r2, t, TRUE, L)
      BY <1>14, <3>3, <3>4, LostTied
    <3>6. Tied(h, f, r2, s2, t, TRUE, M)
      BY <1>14, <3>3, <3>4, LostTied
    <3>7. (v \in cut \cup {t}) = TRUE
      BY <2>3
    <3> QED BY <2>3, <3>2, <3>5, <3>6, <3>7
  <2> QED BY <2>2, <2>3
<1>17. Bound(e, flow[e], flow[Peer(e)], tun)'
  BY <1>1, <1>6, <1>10, <1>11, <1>12, <1>13, <1>15, <1>16 DEF Bound
<1>18. Bound(p, flow[p], flow[Peer(p)], tun)'
  BY <1>1, <1>6, <1>10, <1>11, <1>12, <1>13, <1>15, <1>16 DEF Bound
<1>19. ASSUME NEW x \in Ends PROVE Local(flow[x], AppLen[x], Replay)'
  <2>1. Local(flow'[x], AppLen[x]', Replay')
    BY <1>10, <1>11 DEF Faithful
  <2> QED BY <2>1
<1>20. moves' = 0 /\ sc' \in Scenarios
  BY <1>10 DEF Faithful
<1> QED BY <1>1, <1>17, <1>18, <1>19, <1>20 DEF Faithful

LEMMA IdleFaithful == ASSUME FlowInv, Faithful, UNCHANGED vars PROVE Faithful'
<1>1. flow' = flow /\ tun' = tun /\ cut' = cut /\ moves' = moves /\ sc' = sc
  BY DEF vars
<1>2. AppLen' = AppLen /\ Replay' = Replay
  BY <1>1 DEF AppLen, Replay
<1>3. ASSUME NEW x \in Ends PROVE Local(flow[x], AppLen[x], Replay)' /\ Bound(x, flow[x], flow[Peer(x)], tun)'
  <2>1. Local(flow'[x], AppLen[x]', Replay')
    BY <1>1, <1>2 DEF Faithful
  <2>2. Bound(x, flow[x], flow[Peer(x)], tun)
    BY DEF Faithful
  <2>3. Bound(x, flow[x], flow[Peer(x)], tun)'
    BY <1>1, <1>2, <2>2 DEF Bound
  <2> QED BY <2>1, <2>3
<1>4. moves' = 0 /\ sc' \in Scenarios
  BY <1>1 DEF Faithful
<1> QED BY <1>3, <1>4 DEF Faithful

-----------------------------------------------------------------------------
(* Every step.                                                              *)

\* No move is asked for.
Still == sc.moves = 0

LEMMA UploadFaithful == ASSUME FlowInv, Faithful, NEW e \in Ends, Upload(e) PROVE Faithful'
<1>1. ~UpWake(e) /\ ~UpSwitched(e)
  BY MineIs DEF Unmoved, UpWake, UpSwitched
<1> QED BY <1>1, UpBoundaryFaithful, UpSendFaithful, UpFullFaithful, UpEOFFaithful, UpEndFaithful, UpReplayFaithful DEF Upload

LEMMA DownloadFaithful == ASSUME FlowInv, Faithful, NEW e \in Ends, Download(e) PROVE Faithful'
<1>1. ~DlOverrun(e) /\ ~DlSwitch(e) /\ ~DlSwitched(e)
  BY MineIs DEF Unmoved, DlOverrun, DlSwitch, DlSwitched
<1> QED BY <1>1, DlDataFaithful, DlAckFaithful, DlWakeFaithful, DlEndOrFailFaithful, DlDecideFaithful DEF Download

LEMMA HandshakeFaithful ==
    ASSUME FlowInv, Faithful, Prompted, NEW e \in Ends, NEW t \in Tunnels, Handshake(e, t)
    PROVE  Faithful'
<1>1. CASE \E n \in Offsets : Install(e, t, n) \/ ResumeFinish(e, t, n)
  <2>1. PICK n \in Offsets : Install(e, t, n) \/ ResumeFinish(e, t, n)
    BY <1>1
  <2>2. Has(t, e) /\ Head1(t, e) = <<"count", n>> /\ At(e, t).pc = "readcount"
    BY <2>1 DEF Install, ResumeFinish, Counted
  <2>3. Head1(t, e) \in Recs
    BY <2>2, EndIs, PoppedIs DEF Has
  <2>4. n \in Nat
    BY <2>2, <2>3 DEF Recs
  <2>5. At(e, t).mode = "resume"
    BY <2>2, ResumesOnly
  <2>6. ~Install(e, t, n)
    BY <2>5 DEF Install
  <2> QED BY <2>1, <2>4, <2>6, ResumeFinishFaithful
<1> QED BY <1>1, ResumeBeginFaithful, WriteCountFaithful, NoCountFaithful, ReplayEndedFaithful, FailLegFaithful DEF Handshake

LEMMA FaithfulNext == FlowInv /\ Faithful /\ Prompted /\ Still /\ [Next]_vars => Faithful'
<1> SUFFICES ASSUME FlowInv, Faithful, Prompted, Still, [Next]_vars PROVE Faithful'
  OBVIOUS
<1>1. CASE UNCHANGED vars
  BY <1>1, IdleFaithful
<1>2. ASSUME NEW e \in Ends,
             Upload(e) \/ Download(e) \/ KickAck(e) \/ FlushAck(e) \/ Finish(e) \/ WindowExpires(e) \/ AppFails(e)
      PROVE  Faithful'
  BY <1>2, UploadFaithful, DownloadFaithful, KickAckFaithful, FlushAckFaithful, FinishFaithful, ExpiresFaithful
<1>3. ASSUME NEW e \in Ends, NEW t \in Tunnels,
             ServeAcks(e, t) \/ Release(e, t) \/ Handshake(e, t) \/ HandshakeTimeout(e, t)
      PROVE  Faithful'
  <2>1. ~Release(e, t)
    BY MineIs DEF Unmoved, Release
  <2> QED BY <1>3, <2>1, ServeAcksFaithful, HandshakeFaithful, HandshakeTimeoutFaithful
<1>4. ASSUME NEW t \in Tunnels,
             \/ OpenMove(t) \/ OpenResume(t) \/ ReadVerdict(t) \/ ReadAttach(t) \/ WriteAccept(t) \/ Cut(t) \/ Retire(t)
      PROVE  Faithful'
  <2>1. ~OpenMove(t)
    BY DEF OpenMove, Still, Faithful
  <2> QED BY <1>4, <2>1, OpenResumeFaithful, ReadVerdictFaithful, ReadAttachFaithful, WriteAcceptFaithful, LoseFaithful
          DEF Cut, Retire
<1>5. CASE SessionLost \/ GiveUpMove \/ Finished
  BY <1>5, SessionLostFaithful, IdleFaithful DEF Finished
<1> QED BY <1>1, <1>2, <1>3, <1>4, <1>5 DEF Next

\* A new flow.
New(f) ==
    /\ f.cur = 1 /\ f.next = 0 /\ f.freezeReq = FALSE /\ f.frozen = FALSE /\ f.installed = FALSE
    /\ f.upSwitched = FALSE /\ f.dlSwitched = FALSE /\ f.upEnded = FALSE /\ f.rel = {}
    /\ f.aborted = "no" /\ f.done = FALSE /\ f.suspended = FALSE /\ f.end = 0
    /\ f.read = 0 /\ f.got = << >> /\ f.st = "open"
    /\ f.up.pc = "run" /\ f.up.dst = 1 /\ f.up.pend = 0 /\ f.dl.pc = "read" /\ f.dl.src = 1
    /\ \A t \in Tunnels : f.att[t].pc = "none"

LEMMA NewTied ==
    ASSUME NEW f, NEW h, NEW s, NEW r, NEW t, NEW dead, NEW L, s.in = << >>, r.in = << >>, s.open = (t = 1), r.open = (t = 1),
           f.cur = 1, f.up.pc = "run", f.up.pend = 0, f.suspended = FALSE, Running(f), f.read = 0, f.got = << >>,
           f.att[t].pc = "none",
           h.cur = 1, h.up.pc = "run", h.up.pend = 0, h.read = 0, h.att[t].pc = "none"
    PROVE  Tied(f, h, s, r, t, dead, L)
<1>1. \A x : ~Has1(s.in, x)
  BY DEF Has1
<1>2. Counted1(s.in) /\ Bare(s.in)
  BY <1>1 DEF Counted1, Bare
<1>3. Side(f, s, t)
  BY <1>1, <1>2 DEF Side
<1>4. WritesFrom(h, t) = 0 /\ dlBytes(f) = 0 /\ 0 \in 0..h.read
  BY DEF WritesFrom, Replaying, Taken, dlBytes
<1>5. << >> \in Seq(Recs)
  OBVIOUS
<1>6. Line(s.in, 0, 0, h.read, L, h.upEnded)
  BY <1>2, <1>4, <1>5, LineBare
<1>7. Follows(f, h, s, r, t, dead, L)
  BY <1>4, <1>6 DEF Follows
<1>8. s.open => HasSaid(f, t)
  BY DEF HasSaid
<1> QED BY <1>2, <1>3, <1>7, <1>8 DEF Tied

LEMMA FaithfulInit == Init => Faithful
<1> SUFFICES ASSUME Init PROVE Faithful
  OBVIOUS
<1>1. ASSUME NEW e \in Ends, NEW f, f = flow[e]
      PROVE  New(f)
  <2>1. f.att = [t \in Tunnels |-> NoAttempt] /\ NoAttempt.pc = "none"
    BY <1>1 DEF Init, NoAttempt
  <2>2. \A t \in Tunnels : f.att[t].pc = "none"
    BY <2>1
  <2> QED BY <1>1, <2>2 DEF Init, New
<1>2. \A t \in Tunnels, e \in Ends : tun[t][e].in = << >> /\ tun[t][e].open = (t = 1)
  BY DEF Init
<1>3. sc \in Scenarios /\ moves = 0
  BY DEF Init
<1>4. \A e \in Ends : AppLen[e] \in Nat
  BY <1>3, SwapperAssumption DEF AppLen
<1>5. ASSUME NEW e \in Ends PROVE Local(flow[e], AppLen[e], Replay)
  <2>1. PICK f : f = flow[e]
    OBVIOUS
  <2>2. PICK L, R : L = AppLen[e] /\ R = Replay
    OBVIOUS
  <2>3. New(f)
    BY <1>1, <2>1
  <2>4. Unmoved(f) /\ Taken(f) = 0 /\ \A t \in Tunnels : ~Settles(f, t)
    BY <2>3 DEF New, Unmoved, Taken, Settles
  <2>5. L \in Nat /\ 0 <= L
    BY <1>4, <2>2
  <2>6. \A i \in 1..Len(f.got) : f.got[i] = i
    BY <2>3 DEF New
  <2>7. Local(f, L, R)
    BY <2>3, <2>4, <2>5, <2>6 DEF Local, New
  <2> QED BY <2>1, <2>2, <2>7
<1>6. ASSUME NEW e \in Ends, NEW p \in Ends, NEW f, NEW h, f = flow[e], h = flow[p], NEW L
      PROVE  Pair(f, h, L) /\ \A t \in Tunnels : Tied(f, h, tun[t][e], tun[t][p], t, t \in cut, L)
  <2>1. /\ f.cur = 1 /\ f.up.pc = "run" /\ f.up.pend = 0 /\ f.suspended = FALSE /\ f.read = 0 /\ f.got = << >>
        /\ h.cur = 1 /\ h.up.pc = "run" /\ h.up.pend = 0 /\ h.read = 0 /\ Running(f)
        /\ f.st = "open" /\ f.dl.pc = "read" /\ \A t \in Tunnels : f.att[t].pc = "none" /\ h.att[t].pc = "none"
    <3>1. New(f) /\ New(h)
      BY <1>1, <1>6
    <3> QED BY <3>1 DEF New, Running
  <2>2. Pair(f, h, L)
    BY <2>1 DEF Pair, Told, dlBytes
  <2>3. ASSUME NEW t \in Tunnels PROVE Tied(f, h, tun[t][e], tun[t][p], t, t \in cut, L)
    <3>1. /\ tun[t][e].in = << >> /\ tun[t][p].in = << >>
          /\ tun[t][e].open = (t = 1) /\ tun[t][p].open = (t = 1)
      BY <1>2
    <3> QED BY <2>1, <3>1, NewTied
  <2> QED BY <2>2, <2>3
<1>7. ASSUME NEW e \in Ends PROVE Bound(e, flow[e], flow[Peer(e)], tun)
  BY <1>6, PeerIs DEF Bound
<1> QED BY <1>3, <1>5, <1>7 DEF Faithful

LEMMA UntornToo == FlowInv /\ Faithful => Untorn
<1> SUFFICES ASSUME FlowInv, Faithful, NEW e \in Ends PROVE flow[e].up.pc # "switching" /\ flow[e].dl.pc # "switching"
  BY DEF Untorn
<1> QED BY MineIs DEF Unmoved

LEMMA FaithfulHolds == Spec /\ []Prompted /\ []Still => [](FlowInv /\ Faithful)
<1>1. FlowInv /\ Faithful /\ Prompted /\ Still /\ [Next]_vars => (FlowInv /\ Faithful)'
  BY FlowInvNext, FaithfulNext, UntornToo
<1>2. Init => FlowInv /\ Faithful
  BY FlowInvInit, FaithfulInit
<1> QED BY <1>1, <1>2, PTL DEF Spec

\* A flow that is never moved, whatever its length, however often its tunnel
\* dies and wherever between two steps of the pumps: after every resume
\* (ResumeBegin, ResumeFinish, replayTo) each app has been given a prefix of what
\* the other one sent, with no byte lost, repeated or out of order.
THEOREM ResumedIntact == Spec /\ []Prompted /\ []Still => []Integrity
<1>1. FlowInv /\ Faithful => Integrity
  <2> SUFFICES ASSUME FlowInv, Faithful, NEW e \in Ends
               PROVE  /\ \A i \in 1..dlBytes(flow[e]) : flow[e].got[i] = i
                      /\ dlBytes(flow[e]) <= flow[Peer(e)].read
    BY DEF Integrity
  <2>1. Local(flow[e], AppLen[e], Replay) /\ Bound(e, flow[e], flow[Peer(e)], tun)
    BY MineIs
  <2> QED BY <2>1 DEF Local, Bound, Pair, dlBytes
<1> QED BY <1>1, FaithfulHolds, PTL

\* And its apps are told that the other one has finished (closeWrite, after the
\* END that CloseWrite sent) only when they have been given all of it: a tunnel that
\* died, or a replay that was cut short, never passes for a clean end.
THEOREM ResumedEndsClean == Spec /\ []Prompted /\ []Still => []CleanEnd
<1>1. FlowInv /\ Faithful => CleanEnd
  <2> SUFFICES ASSUME FlowInv, Faithful, NEW e \in Ends, flow[e].st = "eof"
               PROVE  flow[Peer(e)].upEnded /\ dlBytes(flow[e]) = AppLen[Peer(e)]
    BY DEF CleanEnd
  <2>1. Bound(e, flow[e], flow[Peer(e)], tun)
    BY MineIs
  <2> QED BY <2>1 DEF Bound, Pair, Told
<1> QED BY <1>1, FaithfulHolds, PTL
==============================================================================
