------------------------------ MODULE ReplayRing ------------------------------
(***************************************************************************)
(* replayRing (internal/utils/handlers/replay.go): the circular buffer in   *)
(* which a resumable flow keeps what it sent until the peer acknowledges    *)
(* it, together with the one goroutine that fills it (waitReplayRoom and    *)
(* append, promotable_pump.go) and the goroutine that parses ACKs.          *)
(*                                                                          *)
(* The payload byte at flow offset k is the number k, so the contents of a  *)
(* slot say which byte of the flow it holds.                                *)
(***************************************************************************)
EXTENDS Integers, Sequences

CONSTANTS MinCap,      \* replayMinCap: the first allocation
          ReleaseAt,   \* replayReleaseAt: an emptied buffer above it is freed
          StartLimit,  \* ReplayFlowStart: the limit the flow starts with
          FlowMax,     \* ReplayFlowMax: the limit cannot grow past it
          MaxWrite,    \* the most one read of the app yields
          MaxBytes     \* bound: the flow sends no more than this

ASSUME RingAssumption ==
    /\ MinCap \in Nat \ {0} /\ ReleaseAt \in Nat /\ MaxBytes \in Nat
    /\ StartLimit \in Nat \ {0} /\ FlowMax \in Nat /\ FlowMax >= StartLimit
    /\ MaxWrite \in Nat \ {0}

VARIABLES buf,     \* the storage: slot number -> byte (capacity = its domain)
          cap,     \* len(buf)
          head,    \* slot of the oldest retained byte
          size,    \* retained bytes
          base,    \* flow offset of the oldest retained byte
          limit,   \* what size may not exceed; grows
          space,   \* the capacity-1 channel that says an ACK made room
          pc,      \* the sender: "idle", in waitFree at "check" or "select", at "append",
                   \* ended by a read "toolarge" to retain, or without replay ("off")
          want     \* the bytes the sender wants to add

storage == <<buf, cap, head, size, base>>
vars    == <<buf, cap, head, size, base, limit, space, pc, want>>

Slots(c) == 0..(c - 1)
end      == base + size
free     == limit - size

Init ==
    /\ buf = << >> /\ cap = 0 /\ head = 0 /\ size = 0 /\ base = 0
    /\ limit = StartLimit
    /\ space = FALSE
    /\ pc = "idle" /\ want = 0

-------------------------------------------------------------------------------
(* The storage operations, each a critical section of the ring's mutex. *)

\* append's new capacity: the old one doubled (at least MinCap) and, while need
\* does not fit, doubled again - which ends below twice need, and no more is
\* said of it - then clipped to the limit, or to need should the limit be lower.
NewCaps(need) ==
    LET start   == IF cap * 2 < MinCap THEN MinCap ELSE cap * 2
        doubled == IF start >= need THEN {start} ELSE need..(2 * need - 1)
        most    == IF limit > need THEN limit ELSE need
    IN  IF need <= cap THEN {cap} ELSE {IF c > limit THEN most ELSE c : c \in doubled}

\* Mutant: the retained bytes are copied as they lie, not from head on.
GrownUnrotated(c) ==
    [s \in Slots(c) |-> IF s < size THEN buf[s] ELSE -1]

\* The larger storage append copies the retained bytes to (copyOut): in order,
\* from slot 0.
Grown(c) ==
    [s \in Slots(c) |-> IF s < size THEN buf[(head + s) % cap] ELSE -1]

\* append(p) of the flow's next n bytes, in a storage of c: from the tail to
\* the end of the storage, the rest from slot 0.
Store(n, c) ==
    LET h    == IF c = cap THEN head ELSE 0
        old  == IF c = cap THEN buf ELSE Grown(c)
        tail == (h + size) % c
    IN  /\ buf'  = [s \in Slots(c) |->
                      IF s >= tail /\ s < tail + n THEN end + (s - tail)
                      ELSE IF s < tail + n - c     THEN end + (s + c - tail)
                      ELSE old[s]]
        /\ cap'  = c
        /\ head' = h
        /\ size' = size + n
        /\ base' = base

\* Mutant: an ACK does not signal the sender.
AckToSilent(off) ==
    IF off <= base \/ off > end
    THEN UNCHANGED <<storage, space>>
    ELSE /\ head' = IF size = off - base THEN 0 ELSE (head + off - base) % cap
         /\ size' = size - (off - base) /\ base' = off
         /\ UNCHANGED <<buf, cap, space>>

\* ackTo(off): an offset outside what is retained is ignored.
AckTo(off) ==
    IF off <= base \/ off > end
    THEN UNCHANGED <<storage, space>>
    ELSE LET drop == off - base
             empty == size = drop
             freed == empty /\ cap > ReleaseAt
         IN  /\ head' = IF empty THEN 0 ELSE (head + drop) % cap
             /\ size' = size - drop
             /\ base' = off
             /\ buf'  = IF freed THEN << >> ELSE buf
             /\ cap'  = IF freed THEN 0 ELSE cap
             /\ space' = TRUE

\* Mutant: readAt fills p whatever is retained.
ReadAtUnclipped(off, n) ==
    IF off < base \/ off >= end
    THEN << >>
    ELSE [i \in 1..n |-> buf[(head + (off - base) + i - 1) % cap]]

\* readAt(off, p) with len(p) = n: the bytes it copies, in order.
ReadAt(off, n) ==
    IF off < base \/ off >= end
    THEN << >>
    ELSE LET skip  == off - base
             count == IF n < size - skip THEN n ELSE size - skip
             start == (head + skip) % cap
         IN  [i \in 1..count |->
                 IF start + i - 1 < cap THEN buf[start + i - 1] ELSE buf[start + i - 1 - cap]]

-------------------------------------------------------------------------------
(* The sender: waitReplayRoom(n), then append. *)

\* A read of the app gave n bytes.  One larger than the limit can never
\* fit (errReplayTooLarge) and ends the flow.
WaitFree(n) ==
    /\ pc = "idle" /\ end + n <= MaxBytes
    /\ pc' = IF n > limit THEN "toolarge" ELSE "check"
    /\ want' = n
    /\ UNCHANGED <<storage, limit, space>>

CheckFree ==
    /\ pc = "check"
    /\ pc' = IF free >= want THEN "append" ELSE "select"
    /\ UNCHANGED <<storage, limit, space, want>>

\* select: a signal on space has the sender look again.
WakeSpace ==
    /\ pc = "select" /\ space
    /\ space' = FALSE /\ pc' = "check"
    /\ UNCHANGED <<storage, limit, want>>

\* select: the grow timer fired (errReplayTimer).  If an ACK has made room
\* meanwhile nothing grows; otherwise the limit doubles, up to FlowMax.
GrowTimer ==
    /\ pc = "select"
    /\ LET next == IF limit * 2 < FlowMax THEN limit * 2 ELSE FlowMax
           grow == free < want /\ next > limit
       IN  /\ limit' = IF grow THEN next ELSE limit
           /\ space' = (space \/ grow)
    /\ pc' = "check"
    /\ UNCHANGED <<storage, want>>

\* select: a freeze or suspension needs the sender at its boundary
\* (errReplayWake), and the bytes are held back; or the nudge was stale.
Wake ==
    /\ pc = "select"
    /\ pc' \in {"idle", "check"}
    /\ UNCHANGED <<storage, limit, space, want>>

AppendBytes ==
    /\ pc = "append"
    /\ \E c \in NewCaps(size + want) : Store(want, c)
    /\ pc' = "idle"
    /\ UNCHANGED <<limit, space, want>>

(* The reader of the tunnel parses an ACK: any offset may arrive, late or twice. *)
Ack(off) == AckTo(off) /\ UNCHANGED <<limit, pc, want>>

\* discard: replay was given up at a promotion, with the sender stopped at its
\* boundary.  It appends nothing from then on.
Discard ==
    /\ pc = "idle" /\ pc' = "off"
    /\ base' = end /\ head' = 0 /\ size' = 0 /\ buf' = << >> /\ cap' = 0
    /\ space' = TRUE
    /\ UNCHANGED <<limit, want>>

Next ==
    \/ \E n \in 1..MaxWrite : WaitFree(n)
    \/ CheckFree \/ WakeSpace \/ GrowTimer \/ Wake \/ AppendBytes
    \/ \E off \in 0..(MaxBytes + 1) : Ack(off)
    \/ Discard

Spec == Init /\ [][Next]_vars

-------------------------------------------------------------------------------
TypeOK ==
    /\ cap \in Nat /\ size \in Nat /\ base \in Nat /\ head \in Nat
    /\ buf \in [Slots(cap) -> Int]
    /\ limit \in Nat
    /\ space \in BOOLEAN
    /\ pc \in {"idle", "check", "select", "append", "toolarge", "off"}
    /\ want \in 0..MaxWrite

\* The slots from head on, wrapping at the end of the storage, hold exactly
\* the bytes base .. end-1 of the flow, in order: what append, copyOut and
\* ackTo keep true between them however the ring wraps, grows and empties.
ContentOK ==
    /\ size <= cap
    /\ cap > 0 => head < cap
    /\ \A i \in 0..(size - 1) : buf[(head + i) % cap] = base + i

\* A resume that replays from any offset the peer may name reads the bytes
\* of the flow from there on (readAt), and nothing at all for an offset
\* that is no longer, or not yet, retained.
ReadAtOK ==
    \A off \in 0..(MaxBytes + 1), n \in 1..MaxWrite :
        ReadAt(off, n) =
            IF off < base \/ off >= end
            THEN << >>
            ELSE [i \in 1..(IF n < end - off THEN n ELSE end - off) |-> off + i - 1]

\* The ring never holds more than the flow's limit: the limit is what the
\* process-wide replay budget was charged for.
Bounded == size <= limit

\* No lost wakeup: a sender blocked in waitFree's select although its bytes
\* would fit has a signal waiting for it.
NoLostWakeup == (pc = "select" /\ free >= want) => space

-------------------------------------------------------------------------------
(* The ring implements RetainedBytes: its storage, read from head on, is *)
(* the retained bytes.                                                   *)
Retained == [i \in 1..size |-> buf[(head + i - 1) % cap]]

Abs == INSTANCE RetainedBytes WITH first <- base, retained <- Retained

\* Every operation of the ring retains the next bytes of the flow at the end
\* or forgets some at the front, and does nothing else to what is retained.
ImplementsRetainedBytes == Abs!RSpec
===============================================================================
