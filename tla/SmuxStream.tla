------------------------------ MODULE SmuxStream ------------------------------
(***************************************************************************)
(* The multiplexer's flow control (internal/smux): streams of one session,  *)
(* their data in one direction.  A writer (OpenStreamWithin, writeV2, Close)*)
(* sends frames through the shaper (shaperLoop, sendLoop: control frames    *)
(* first) over a connection that holds few of them; the peer's recvLoop     *)
(* takes them for as long as the session's token bucket lasts and puts the  *)
(* data in the stream's buffers, where a reader finds it (Read).  The       *)
(* reader's window updates, and those of SetReceiveWindow, go the other     *)
(* way.                                                                     *)
(*                                                                          *)
(* Byte i of a stream is the number i.  The uint32 counters of the window   *)
(* are counters modulo Mod.  A step is one critical section, atomic         *)
(* operation or blocking operation of one goroutine.                        *)
(***************************************************************************)
EXTENDS Integers, Sequences, FiniteSets, Functions

CONSTANTS Streams,
          Total,             \* bytes the writer of a stream writes, in one Write
          MaxFrameSize,      \* config.MaxFrameSize
          MaxStreamBuffer,   \* config.MaxStreamBuffer: a stream's receive window
          MaxReceiveBuffer,  \* config.MaxReceiveBuffer: the session's token bucket
          initialPeerWindow, \* the window before the first update
          Divisor,           \* windowUpdateDivisor
          Mod,               \* 2^32: the counters' width
          Carried,           \* what a stream may have carried before, all of it consumed
          Windows,           \* what SetReceiveWindow is called with
          MaxEvents,         \* bound: calls of SetReceiveWindow, early Closes and timeouts
          ConnSize           \* bound: frames the connection holds

ASSUME SmuxAssumption ==
    /\ IsFiniteSet(Streams) /\ MaxEvents \in Nat
    /\ {Total, MaxFrameSize, MaxStreamBuffer, MaxReceiveBuffer, initialPeerWindow, Divisor,
        ConnSize} \subseteq Nat \ {0}
    /\ Mod \in Nat /\ Carried \subseteq 0..(Mod - 1) /\ Windows \subseteq 1..MaxStreamBuffer
    /\ Mod > 2 * MaxStreamBuffer /\ Mod > 2 * initialPeerWindow /\ Total < Mod

VARIABLES snd,     \* [Streams -> the writing end's Stream and its goroutine]
          shaper,  \* its session's write requests: [ctrl, data]
          upd,     \* its recvLoop, in update(): the stream and the window not stored yet
          wire,    \* frames on their way to the reading end
          recv,    \* the reading end's recvLoop
          bucket,  \* its tokens
          notify,  \* bucketNotify
          rcv,     \* [Streams -> the reading end's Stream, its reader and its other callers]
          back,    \* frames on their way to the writing end
          events   \* SetReceiveWindow, early Close and timeouts so far

vars == <<snd, shaper, upd, wire, recv, bucket, notify, rcv, back, events>>

Event == events < MaxEvents /\ events' = events + 1

None == [s |-> "none", w |-> 0]

\* recvLoop between two frames.
At(pc) == [pc |-> pc, s |-> "none", n |-> 0]

Init ==
    /\ \E c \in [Streams -> Carried] :
        /\ snd = [s \in Streams |->
             [pc |-> IF c[s] = 0 THEN "open" ELSE "look", next |-> 1, bts |-> 0, inflight |-> 0,
              numWritten |-> c[s], peerConsumed |-> c[s],
              peerWindow |-> IF c[s] = 0 THEN initialPeerWindow ELSE MaxStreamBuffer,
              chUpdate |-> FALSE, fin |-> FALSE, ok |-> TRUE]]
        /\ rcv = [s \in Streams |->
             [known |-> c[s] # 0, buf |-> << >>, numRead |-> c[s], incr |-> 0,
              window |-> MaxStreamBuffer, event |-> FALSE, fin |-> FALSE, die |-> FALSE,
              pc |-> "read", n |-> 0, tell |-> FALSE, consumed |-> 0,
              set |-> "no", setConsumed |-> 0,
              close |-> "no", got |-> << >>, eof |-> FALSE]]
    /\ shaper = [ctrl |-> << >>, data |-> << >>]
    /\ upd = None /\ wire = << >> /\ back = << >>
    /\ recv = At("loop")
    /\ bucket = MaxReceiveBuffer /\ notify = FALSE /\ events = 0

Plus(a, b) == (a + b) % Mod
\* int32(a - b)
Minus(a, b) == LET d == (a - b) % Mod IN IF d >= Mod \div 2 THEN d - Mod ELSE d

-------------------------------------------------------------------------------
(* The writing end.                                                         *)

Snd(s, r) == snd' = [snd EXCEPT ![s] = r] /\ UNCHANGED <<upd, wire, recv, bucket, notify, rcv, back>>

Queued(class, f) == [shaper EXCEPT ![class] = Append(@, f)]

\* OpenStreamWithin: the SYN is queued and waited for; then the stream is put
\* where recvLoop finds it.
OpenStream(s) ==
    /\ snd[s].pc = "open" /\ UNCHANGED events
    /\ shaper' = Queued("ctrl", <<"SYN", s, << >>>>)
    /\ Snd(s, [snd[s] EXCEPT !.pc = "syn"])

Registered(s) ==
    /\ snd[s].pc = "reg" /\ UNCHANGED <<shaper, events>>
    /\ Snd(s, [snd[s] EXCEPT !.pc = "look"])

\* Mutant: the stream nobody will use is left to the peer.
OpenTimeoutOnly(s) ==
    /\ snd[s].pc = "syn" /\ Event
    /\ Snd(s, [snd[s] EXCEPT !.pc = "done", !.ok = FALSE]) /\ UNCHANGED shaper

\* It is given up, with the SYN queued: a FIN is queued behind it.
OpenTimeout(s) ==
    /\ snd[s].pc = "syn" /\ Event
    /\ shaper' = Queued("ctrl", <<"FIN", s, << >>>>)
    /\ Snd(s, [snd[s] EXCEPT !.pc = "done", !.ok = FALSE])

\* writeV2 loads the two counters, and then the window.
LoadCounters(s) ==
    LET r == snd[s]
    IN  /\ r.pc = "look"
        /\ Snd(s, [r EXCEPT !.inflight = Minus(r.numWritten, r.peerConsumed), !.pc = "win"])
        /\ UNCHANGED <<shaper, events>>

\* Mutant: what is in flight is not taken off the window.
GrantWhole(r) == IF r.peerWindow > Total + 1 - r.next THEN Total + 1 - r.next ELSE r.peerWindow

\* How many bytes the window lets the writer send now.
Grant(r) ==
    LET win == r.peerWindow - r.inflight
    IN  IF win > Total + 1 - r.next THEN Total + 1 - r.next ELSE win

Size(r)     == IF r.bts > MaxFrameSize THEN MaxFrameSize ELSE r.bts
Frame(s, r) == <<"PSH", s, [i \in 1..Size(r) |-> r.next + i - 1]>>

\* The bytes that were granted are sent frame by frame; each is queued and
\* waited for.
LoadWindow(s) ==
    LET r == snd[s]
        g == [r EXCEPT !.bts = Grant(r), !.pc = "wait"]
    IN  /\ r.pc = "win" /\ UNCHANGED events
        /\ IF r.inflight < 0 \/ g.bts <= 0
           THEN /\ Snd(s, IF r.inflight < 0 THEN [r EXCEPT !.ok = FALSE, !.pc = "close"]   \* ErrConsumed
                          ELSE [r EXCEPT !.pc = "sleep"])
                /\ UNCHANGED shaper
           ELSE Snd(s, g) /\ shaper' = Queued("data", Frame(s, g))

NextFrame(s) ==
    /\ snd[s].pc = "queue" /\ UNCHANGED events
    /\ shaper' = Queued("data", Frame(s, snd[s]))
    /\ Snd(s, [snd[s] EXCEPT !.pc = "wait"])

\* The frame is written: the window is used up by it.
FrameWritten(r) ==
    LET w == [r EXCEPT !.numWritten = Plus(@, Size(r)), !.next = @ + Size(r), !.bts = @ - Size(r)]
    IN  [w EXCEPT !.pc = IF w.bts > 0 THEN "queue" ELSE IF w.next <= Total THEN "sleep" ELSE "close"]

\* The select of a writer with bytes left: the peer closed, or a window update.
Sleep(s) ==
    LET r == snd[s]
    IN  /\ r.pc = "sleep"
        /\ \/ r.fin /\ Snd(s, [r EXCEPT !.ok = FALSE, !.pc = "close"])
           \/ r.chUpdate /\ Snd(s, [r EXCEPT !.chUpdate = FALSE, !.pc = "look"])
        /\ UNCHANGED <<shaper, events>>

\* The write deadline: a frame that is queued stays queued.
WriteTimeout(s) ==
    /\ snd[s].pc \in {"wait", "sleep"} /\ Event
    /\ Snd(s, [snd[s] EXCEPT !.ok = FALSE, !.pc = "close"]) /\ UNCHANGED shaper

\* Close: FIN, a control frame.
Close(s) ==
    /\ snd[s].pc = "close" /\ UNCHANGED events
    /\ shaper' = Queued("ctrl", <<"FIN", s, << >>>>)
    /\ Snd(s, [snd[s] EXCEPT !.pc = "fin"])

\* shaperLoop and sendLoop: the next write request goes out, control frames
\* first, and its caller gets the result if it still waits.
Result(r, cmd) ==
    IF r.pc = "syn" /\ cmd = "SYN" THEN [r EXCEPT !.pc = "reg"]
    ELSE IF r.pc = "wait" /\ cmd = "PSH" THEN FrameWritten(r)
    ELSE IF r.pc = "fin" /\ cmd = "FIN" THEN [r EXCEPT !.pc = "done"]
    ELSE r

SendLoop ==
    LET class == IF shaper.ctrl # << >> THEN "ctrl" ELSE "data"
        f     == Head(shaper[class])
    IN  /\ shaper[class] # << >> /\ Len(wire) < ConnSize
        /\ wire' = Append(wire, f)
        /\ shaper' = [shaper EXCEPT ![class] = Tail(@)]
        /\ snd' = [snd EXCEPT ![f[2]] = Result(@, f[1])]
        /\ UNCHANGED <<upd, recv, bucket, notify, rcv, back, events>>

\* Its recvLoop: a FIN, or a window update, whose two numbers are stored one
\* after the other.  A frame for a stream it does not find is dropped.
\* Timing: an answer takes a round trip, the opener goes on at once.
RecvBack ==
    LET f == Head(back)
        s == f[2]
    IN  /\ upd = None /\ back # << >> /\ snd[s].pc # "reg"
        /\ back' = Tail(back)
        /\ IF snd[s].pc = "done" THEN UNCHANGED <<snd, upd>>
           ELSE IF f[1] = "FIN" THEN snd' = [snd EXCEPT ![s].fin = TRUE] /\ UNCHANGED upd
           ELSE /\ snd' = [snd EXCEPT ![s].peerConsumed = f[3]]
                /\ upd' = [s |-> s, w |-> f[4]]
        /\ UNCHANGED <<shaper, wire, recv, bucket, notify, rcv, events>>

StoreWindow ==
    /\ upd # None /\ upd' = None
    /\ snd' = [snd EXCEPT ![upd.s].peerWindow = upd.w, ![upd.s].chUpdate = TRUE]
    /\ UNCHANGED <<shaper, wire, recv, bucket, notify, rcv, back, events>>

-------------------------------------------------------------------------------
(* The reading end: recvLoop and the token bucket.                          *)

Rcv(s, r) == rcv' = [rcv EXCEPT ![s] = r] /\ UNCHANGED <<snd, shaper, upd, wire, recv>>

\* Mutant: recvLoop is told only of a bucket that is full again.
TokensBackFull(n) == bucket' = bucket + n /\ notify' = (notify \/ bucket + n = MaxReceiveBuffer)

\* Tokens come back: recvLoop is told if there are any now.
TokensBack(n) == bucket' = bucket + n /\ notify' = (notify \/ bucket + n > 0)

HasTokens == bucket > 0

\* The bucket is empty: recvLoop waits for bucketNotify and looks again.
RecvWait ==
    /\ \/ recv.pc = "loop" /\ ~HasTokens /\ recv' = At("wait") /\ UNCHANGED notify
       \/ recv.pc = "wait" /\ notify /\ notify' = FALSE /\ recv' = At("loop")
    /\ UNCHANGED <<snd, shaper, upd, wire, bucket, rcv, back, events>>

\* A frame is read (there were tokens when recvLoop looked) and handled with
\* the session's stream lock held; data is pushed before its tokens are taken.
Recv ==
    LET f == Head(wire)
        s == f[2]
    IN  /\ recv.pc = "loop" /\ HasTokens /\ wire # << >>
        /\ wire' = Tail(wire)
        /\ \/ /\ f[1] = "SYN"
              /\ rcv' = [rcv EXCEPT ![s].known = TRUE] /\ UNCHANGED recv
           \/ /\ f[1] = "FIN"
              /\ rcv' = IF rcv[s].known THEN [rcv EXCEPT ![s].fin = TRUE, ![s].event = TRUE] ELSE rcv
              /\ UNCHANGED recv
           \/ /\ f[1] = "PSH" /\ rcv[s].known
              /\ rcv' = [rcv EXCEPT ![s].buf = Append(@, f[3])]
              /\ recv' = [pc |-> "pushed", s |-> s, n |-> Len(f[3])]
           \/ f[1] = "PSH" /\ ~rcv[s].known /\ UNCHANGED <<rcv, recv>>
        /\ UNCHANGED <<snd, shaper, upd, bucket, notify, back, events>>

TakeTokens ==
    /\ recv.pc = "pushed"
    /\ bucket' = bucket - recv.n
    /\ rcv' = [rcv EXCEPT ![recv.s].event = TRUE]
    /\ recv' = At("loop")
    /\ UNCHANGED <<snd, shaper, upd, wire, notify, back, events>>

-------------------------------------------------------------------------------
(* The reading end: Read.                                                   *)

Threshold(r) == r.window \div Divisor

\* tryReadv2's bookkeeping for n bytes (0: nothing was there): a window update
\* is due every window/Divisor bytes and at the first read.
Counted(r, n) ==
    LET c   == [r EXCEPT !.numRead = Plus(@, n), !.incr = @ + n]
        due == c.incr >= Threshold(c) \/ c.numRead = n
    IN  [c EXCEPT !.incr = IF due THEN 0 ELSE @, !.tell = due /\ n > 0 /\ c.numRead > 0]

TryRead(s) ==
    LET r == rcv[s]
        h == Head(r.buf)
    IN  /\ (r.known \/ r.die) /\ r.pc = "read" /\ r.buf # << >>
        /\ \E n \in 1..Len(h) :
             Rcv(s, [Counted(r, n) EXCEPT
                       !.got = @ \o SubSeq(h, 1, n), !.n = n, !.pc = "tokens",
                       !.buf = IF n = Len(h) THEN Tail(@) ELSE <<SubSeq(h, n + 1, Len(h))>> \o Tail(@)])
        /\ UNCHANGED <<bucket, notify, back, events>>

\* Nothing is buffered: the reader waits, unless this end closed the stream.
TryReadEmpty(s) ==
    LET r == rcv[s]
    IN  /\ (r.known \/ r.die) /\ r.pc = "read" /\ r.buf = << >>
        /\ Rcv(s, [Counted(r, 0) EXCEPT !.pc = IF r.die THEN "done" ELSE "wait"])
        /\ UNCHANGED <<bucket, notify, back, events>>

ReturnTokens(s) ==
    LET r == rcv[s]
    IN  /\ r.pc = "tokens" /\ TokensBack(r.n)
        /\ Rcv(s, [r EXCEPT !.n = 0, !.tell = FALSE, !.pc = IF r.tell THEN "lock" ELSE "read"])
        /\ UNCHANGED <<back, events>>

\* Mutant: the peer's FIN ends the stream although data is buffered.
FinalNow(r) == r.fin

\* The peer's FIN ends the stream for a reader who has taken all of it.
Final(r) == r.fin /\ r.buf = << >>

WaitRead(s) ==
    LET r == rcv[s]
    IN  /\ r.pc = "wait"
        /\ \/ r.event /\ Rcv(s, [r EXCEPT !.event = FALSE, !.pc = "read"])
           \/ Final(r) /\ Rcv(s, [r EXCEPT !.eof = TRUE, !.pc = "done"])
           \/ r.fin /\ ~Final(r) /\ Rcv(s, [r EXCEPT !.pc = "read"])
           \/ r.die /\ Rcv(s, [r EXCEPT !.pc = "done"])
        /\ UNCHANGED <<bucket, notify, back, events>>

\* sendWindowUpdate, by the reader or by SetReceiveWindow: the count is read
\* and the frame is written under updLock.
Update(s, consumed) == back' = Append(back, <<"UPD", s, consumed, rcv[s].window>>)

updLockFree(r) == r.pc # "count" /\ r.set # "count"

ReaderUpdate(s) ==
    LET r == rcv[s]
    IN  /\ \/ /\ r.pc = "lock" /\ updLockFree(r)
              /\ Rcv(s, [r EXCEPT !.consumed = r.numRead, !.pc = "count"]) /\ UNCHANGED back
           \/ r.pc = "count" /\ Update(s, r.consumed) /\ Rcv(s, [r EXCEPT !.pc = "read"])
        /\ UNCHANGED <<bucket, notify, events>>

\* SetReceiveWindow: swap the window, start counting afresh, tell the peer.
SetReceiveWindow(s) ==
    LET r == rcv[s]
    IN  /\ r.known /\ r.set = "no" /\ Event
        /\ \E w \in Windows \ {r.window} : Rcv(s, [r EXCEPT !.window = w, !.set = "swapped"])
        /\ UNCHANGED <<bucket, notify, back>>

WindowSet(s) ==
    LET r == rcv[s]
    IN  /\ \/ r.set = "swapped" /\ Rcv(s, [r EXCEPT !.incr = 0, !.set = "lock"]) /\ UNCHANGED back
           \/ /\ r.set = "lock" /\ updLockFree(r)
              /\ Rcv(s, [r EXCEPT !.setConsumed = r.numRead, !.set = "count"]) /\ UNCHANGED back
           \/ r.set = "count" /\ Update(s, r.setConsumed) /\ Rcv(s, [r EXCEPT !.set = "no"])
        /\ UNCHANGED <<bucket, notify, events>>

\* The reading end's Close, once its reader has stopped or at any time.
ReaderClose(s, early) ==
    LET r == rcv[s]
    IN  /\ r.known /\ r.close = "no"
        /\ IF early THEN r.pc # "done" /\ Event ELSE r.pc = "done" /\ UNCHANGED events
        /\ Rcv(s, [r EXCEPT !.die = TRUE, !.close = "fin"])
        /\ back' = Append(back, <<"FIN", s>>) /\ UNCHANGED <<bucket, notify>>

\* Bytes in a stream's buffers.
Buffered(r) == SumFunction([i \in 1..Len(r.buf) |-> Len(r.buf[i])])

\* Mutant: the tokens of what was not read are not given back.
StreamClosedKeeps(s) ==
    LET r == rcv[s]
    IN  /\ r.close = "fin" /\ recv.pc # "pushed"
        /\ Rcv(s, [r EXCEPT !.buf = << >>, !.known = FALSE, !.close = "done"])
        /\ UNCHANGED <<bucket, notify, back, events>>

\* streamClosed: what was not read is dropped and its tokens are given back
\* (recycleTokens), with the stream lock held.
StreamClosed(s) ==
    LET r == rcv[s]
    IN  /\ r.close = "fin" /\ recv.pc # "pushed"
        /\ Rcv(s, [r EXCEPT !.buf = << >>, !.known = FALSE, !.close = "done"])
        /\ IF Buffered(r) > 0 THEN TokensBack(Buffered(r)) ELSE UNCHANGED <<bucket, notify>>
        /\ UNCHANGED <<back, events>>

-------------------------------------------------------------------------------
Writer(s) == \/ OpenStream(s) \/ Registered(s) \/ LoadCounters(s) \/ LoadWindow(s) \/ NextFrame(s) \/ Sleep(s)
             \/ Close(s)
Reader(s) == \/ TryRead(s) \/ TryReadEmpty(s) \/ ReturnTokens(s) \/ WaitRead(s) \/ ReaderUpdate(s)
Closer(s) == \/ ReaderClose(s, FALSE) \/ StreamClosed(s)

Next ==
    \/ \E s \in Streams : \/ Writer(s) \/ OpenTimeout(s) \/ WriteTimeout(s)
                          \/ Reader(s) \/ SetReceiveWindow(s) \/ WindowSet(s)
                          \/ Closer(s) \/ ReaderClose(s, TRUE)
    \/ SendLoop \/ RecvBack \/ StoreWindow \/ RecvWait \/ Recv \/ TakeTokens

Spec == Init /\ [][Next]_vars

\* Every goroutine takes its next step in the end; nobody has to time out or
\* to close a stream that is still being read.
Fairness ==
    /\ \A s \in Streams : /\ WF_vars(Writer(s)) /\ WF_vars(Reader(s)) /\ WF_vars(WindowSet(s))
                          /\ WF_vars(Closer(s))
    /\ WF_vars(SendLoop) /\ WF_vars(RecvBack) /\ WF_vars(StoreWindow)
    /\ WF_vars(RecvWait) /\ WF_vars(Recv) /\ WF_vars(TakeTokens)

FairSpec == Spec /\ Fairness

-------------------------------------------------------------------------------
LargestWindow == IF initialPeerWindow > MaxStreamBuffer THEN initialPeerWindow ELSE MaxStreamBuffer

TypeOK ==
    /\ \A s \in Streams :
        /\ {snd[s].numWritten, snd[s].peerConsumed, rcv[s].numRead, rcv[s].consumed,
            rcv[s].setConsumed} \subseteq 0..(Mod - 1)
        /\ snd[s].next \in 1..(Total + 1) /\ snd[s].bts \in 0..Total
        /\ snd[s].inflight \in 0..LargestWindow /\ snd[s].peerWindow \in 1..LargestWindow
        /\ snd[s].pc \in {"open", "syn", "reg", "look", "win", "queue", "wait", "sleep", "close", "fin", "done"}
        /\ rcv[s].incr \in 0..Mod /\ rcv[s].window \in 1..MaxStreamBuffer
        /\ rcv[s].pc \in {"read", "wait", "tokens", "lock", "count", "done"}
        /\ rcv[s].set \in {"no", "swapped", "lock", "count"}
        /\ rcv[s].close \in {"no", "fin", "done"}
    /\ bucket \in (1 - MaxFrameSize)..(MaxReceiveBuffer + MaxFrameSize) /\ notify \in BOOLEAN
    /\ recv.pc \in {"loop", "wait", "pushed"} /\ Len(wire) \in 0..ConnSize

\* A reader that is told the peer has finished (waitRead's EOF) has been given
\* every byte, in order, that the peer's Write said it had written: the FIN
\* overtakes no data but that of a write that timed out.
EOFMeansAll ==
    \A s \in Streams :
        /\ rcv[s].got = [i \in 1..Len(rcv[s].got) |-> i]
        /\ rcv[s].eof /\ ~rcv[s].die /\ snd[s].ok => Len(rcv[s].got) = Total

\* Bytes of stream s that are queued, on their way or buffered.
BytesOf(s, fs) == SumFunction([i \in 1..Len(fs) |-> IF fs[i][2] = s THEN Len(fs[i][3]) ELSE 0])
Outstanding(s) == BytesOf(s, shaper.data) + BytesOf(s, wire) + Buffered(rcv[s])

\* No window update, in whatever order its two numbers are stored and the
\* window is changed, lets a writer have more outstanding than the largest
\* window it was ever given.
WindowKept == \A s \in Streams : Outstanding(s) <= LargestWindow

\* The tokens of the session are in the bucket, or stand for bytes that are
\* buffered or just being taken: none is lost or made up when a reader,
\* recvLoop and a Close that drops unread data meet.
TokensConserved ==
    LET held == SumFunction([s \in Streams |-> Buffered(rcv[s]) + rcv[s].n])
    IN  bucket + held - (IF recv.pc = "pushed" THEN recv.n ELSE 0) = MaxReceiveBuffer

\* recvLoop, which reads for every stream of the session, never sleeps on a
\* bucket that has tokens.
RecvLoopWoken == recv.pc = "wait" /\ HasTokens => notify

\* Every stream comes to its end: the writer is never left waiting for a window
\* it has, recvLoop never for tokens, and the reading end lets go of every
\* stream, of one whose SYN was given up too.
Completes == <>[](\A s \in Streams : snd[s].pc = "done" /\ ~rcv[s].known)
===============================================================================
