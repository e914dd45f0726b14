------------------------------ MODULE Striping ------------------------------
(***************************************************************************)
(* One direction of a striped connection (utils/striping/striping.go): the *)
(* sender's Write, its queues, one write worker per leg, the reroute       *)
(* watchdog and Close; the legs; the receiver's leg readers with the       *)
(* reassembly budget, and Read.                                            *)
(*                                                                         *)
(* A chunk is its sequence number and costs 1 of the budget.  A leg is a   *)
(* reliable ordered stream that may be slow, or cut.                       *)
(***************************************************************************)
EXTENDS Integers, Sequences, FiniteSets, TLC

CONSTANTS Legs,
          MaxChunks,  \* chunks the application writes
          QueueCap,   \* capacity of writeQueue (and of resendQueue)
          WireCap,    \* frames a leg holds in transit
          ChCap,      \* capacity of chunkCh
          Limit,      \* reassembly budget, in chunks
          MaxResends, \* bound on chunks the watchdog re-queues
          Faults      \* subset of {"abort", "slow", "cut"}, one of which may happen

ASSUME StripingAssumption ==
    /\ IsFiniteSet(Legs) /\ Legs # {}
    /\ {MaxChunks, MaxResends} \subseteq Nat
    /\ {QueueCap, WireCap, ChCap, Limit} \subseteq Nat \ {0}
    /\ Faults \subseteq {"abort", "slow", "cut"}

Nothing == -1 \* no chunk, no total

\* An end marker carries the sender's total; on a leg it is told from a chunk.
Marker(total) == -1 - total

VARIABLES
    (* the sender *)
    writer,      \* "idle", "queueing" (in Write, with wmu), "refused": Write returned an error
    writeSeq,    \* chunks Write has numbered
    writeQueue, resendQueue,
    worker,      \* Legs -> "idle", "writing", "ended"
    inSeq,       \* Legs -> chunk being written
    inResent,    \* legs whose chunk in flight the watchdog has re-queued
    resends,     \* chunks the watchdog has re-queued
    flush,       \* CloseWrite has begun
    timedOut,    \* and has waited for the workers for stallTimeout
    broken,      \* AbortWrite was called
    owed,        \* chunks Write had taken when CloseWrite was called (history)
    announced,   \* the total that the end markers carry, once it has been read
    marked,      \* legs on which the end marker was written
    sender,      \* "open", "failed", "closed", or "abandoned": closed with chunks unsent
    (* the legs *)
    wire,        \* Legs -> frames in transit
    legEnd,      \* Legs -> "open", "eof", "cut"
    (* the receiver *)
    reader,      \* Legs -> "header", "parked", "keep", "awaited", "force", "put", "ended", "failed"
    chunk,       \* Legs -> the chunk its reader is handling
    chunkCh, pending,
    nextSeq,     \* nextSeq and nextSeqSeen
    forced,      \* forcedSeq
    readBuf,     \* the chunk that is being copied out to the caller
    got,         \* the chunks the caller has been given (history)
    used,        \* the budget's charge
    total,       \* as a marker announced it
    parkTok,     \* a token in parkCh
    was,         \* what Read saw the legs parked on; {} when it is not looking
    readPc,      \* "select", or in the parkCh case "drain", then "look"
    err,         \* permErr: "none", "leg", "stall", "budget", "short"
    result       \* what Read has returned: "open", "eof" or "error"

writeVars == <<writer, writeSeq>>
closeVars == <<flush, timedOut, broken, owed, announced, marked>>
senderVars == <<writeVars, writeQueue, resendQueue, worker, inSeq, inResent, resends, closeVars>>
legReaders == <<reader, chunk, forced, parkTok>>
readVars == <<pending, nextSeq, readBuf, got, was, readPc, err, result>>
vars == <<senderVars, sender, wire, legEnd, legReaders, readVars, chunkCh, used, total>>

Seqs == 0..(MaxChunks - 1)
Frames == Seqs \cup {Marker(t) : t \in 0..MaxChunks}

TypeOK ==
    /\ writer \in {"idle", "queueing", "refused"} /\ writeSeq \in 0..MaxChunks
    /\ writeQueue \in Seq(Seqs) /\ Len(writeQueue) <= QueueCap
    /\ resendQueue \in Seq(Seqs) /\ Len(resendQueue) <= QueueCap
    /\ worker \in [Legs -> {"idle", "writing", "ended"}]
    /\ inSeq \in [Legs -> Seqs \cup {Nothing}] /\ inResent \subseteq Legs /\ resends \in 0..MaxResends
    /\ {flush, timedOut, broken, parkTok} \subseteq BOOLEAN /\ owed \in 0..(MaxChunks + 1)
    /\ {announced, total} \subseteq 0..MaxChunks \cup {Nothing}
    /\ marked \subseteq Legs /\ sender \in {"open", "failed", "closed", "abandoned"}
    /\ wire \in [Legs -> Seq(Frames)] /\ \A i \in Legs : Len(wire[i]) <= WireCap
    /\ legEnd \in [Legs -> {"open", "eof", "cut"}]
    /\ reader \in [Legs -> {"header", "parked", "keep", "awaited", "force", "put", "ended", "failed"}]
    /\ chunk \in [Legs -> Seqs \cup {Nothing}]
    /\ chunkCh \in Seq(Seqs) /\ Len(chunkCh) <= ChCap
    /\ pending \subseteq Seqs /\ nextSeq \in 0..MaxChunks /\ forced \in 0..MaxChunks
    /\ readBuf \in Seqs \cup {Nothing} /\ got \in Seq(Seqs)
    /\ used \in Int /\ was \subseteq Legs \X Seqs /\ readPc \in {"select", "drain", "look"}
    /\ err \in {"none", "leg", "stall", "budget", "short"}
    /\ result \in {"open", "eof", "error"}

Init ==
    /\ writer = "idle" /\ writeSeq = 0 /\ writeQueue = <<>> /\ resendQueue = <<>>
    /\ worker = [i \in Legs |-> "idle"] /\ inSeq = [i \in Legs |-> Nothing]
    /\ inResent = {} /\ resends = 0 /\ flush = FALSE /\ timedOut = FALSE /\ broken = FALSE
    /\ owed = 0 /\ announced = Nothing /\ marked = {} /\ sender = "open"
    /\ wire = [i \in Legs |-> <<>>] /\ legEnd = [i \in Legs |-> "open"]
    /\ reader = [i \in Legs |-> "header"] /\ chunk = [i \in Legs |-> Nothing]
    /\ chunkCh = <<>> /\ pending = {} /\ nextSeq = 0 /\ forced = 0 /\ readBuf = Nothing /\ got = <<>>
    /\ used = 0 /\ total = Nothing /\ parkTok = FALSE /\ was = {} /\ readPc = "select"
    /\ err = "none" /\ result = "open"

receiverVars == <<legReaders, readVars, chunkCh, used, total>>

\* One fault at most: a source that breaks off, a flush that times out, a cut leg.
Faulty == broken \/ timedOut \/ \E i \in Legs : legEnd[i] = "cut"

-----------------------------------------------------------------------------
(* The sender. *)

writeFrame == <<resendQueue, worker, inSeq, inResent, resends, closeVars, sender, wire, legEnd, receiverVars>>

\* Write numbers its next chunk, whether or not the queue will take it.
Write ==
    /\ writer = "idle" /\ ~broken /\ writeSeq < MaxChunks
    /\ writer' = "queueing" /\ writeSeq' = writeSeq + 1
    /\ UNCHANGED <<writeFrame, writeQueue>>

\* The queue has room.
Enqueue ==
    /\ writer = "queueing" /\ Len(writeQueue) < QueueCap
    /\ writer' = "idle" /\ writeQueue' = Append(writeQueue, writeSeq - 1)
    /\ UNCHANGED <<writeFrame, writeSeq>>

\* Closed for writing, or torn down: the chunk is lost, and Write says so.
WriteRefused ==
    /\ writer = "queueing" /\ (flush \/ sender # "open")
    /\ writer' = "refused"
    /\ UNCHANGED <<writeFrame, writeSeq, writeQueue>>

\* The chunks that Write has reported as taken.
Accepted == IF writer = "idle" THEN writeSeq ELSE writeSeq - 1

\* writeLeg takes a job from either queue (beginWrite).
TakeJob(i) ==
    /\ worker[i] = "idle" /\ sender # "failed"
    /\ \/ /\ resendQueue # <<>>
          /\ inSeq' = [inSeq EXCEPT ![i] = Head(resendQueue)]
          /\ resendQueue' = Tail(resendQueue) /\ UNCHANGED writeQueue
       \/ /\ writeQueue # <<>>
          /\ inSeq' = [inSeq EXCEPT ![i] = Head(writeQueue)]
          /\ writeQueue' = Tail(writeQueue) /\ UNCHANGED resendQueue
    /\ worker' = [worker EXCEPT ![i] = "writing"]
    /\ inResent' = inResent \ {i}
    /\ UNCHANGED <<writeVars, resends, closeVars, sender, wire, legEnd, receiverVars>>

\* writeChunk and endWrite: the frame is on the leg once the leg has room.
WriteChunk(i) ==
    /\ worker[i] = "writing" /\ legEnd[i] = "open" /\ Len(wire[i]) < WireCap
    /\ wire' = [wire EXCEPT ![i] = Append(@, inSeq[i])]
    /\ worker' = [worker EXCEPT ![i] = "idle"]
    /\ inSeq' = [inSeq EXCEPT ![i] = Nothing]
    /\ UNCHANGED <<writeVars, writeQueue, resendQueue, inResent, resends, closeVars, sender, legEnd, receiverVars>>

\* Closed legs, from the sender's side: what is in transit still arrives.
CloseLegs == [i \in Legs |-> IF legEnd[i] = "open" THEN "eof" ELSE legEnd[i]]

\* A write fails (a leg that misses the write deadline counts as cut): fail tears
\* the connection down.
WriteFails(i) ==
    /\ worker[i] = "writing" /\ legEnd[i] # "open"
    /\ worker' = [worker EXCEPT ![i] = "ended"]
    /\ inSeq' = [inSeq EXCEPT ![i] = Nothing]
    /\ sender' = IF sender = "open" THEN "failed" ELSE sender
    /\ legEnd' = CloseLegs
    /\ UNCHANGED <<writeVars, writeQueue, resendQueue, inResent, resends, closeVars, wire, receiverVars>>

\* scanStuck: a chunk that has been in flight for too long is queued again.
Reroute(i) ==
    /\ worker[i] = "writing" /\ i \notin inResent
    /\ ~flush /\ sender = "open" /\ Len(resendQueue) < QueueCap
    /\ resends < MaxResends /\ resends' = resends + 1
    /\ resendQueue' = Append(resendQueue, inSeq[i])
    /\ inResent' = inResent \cup {i}
    /\ UNCHANGED <<writeVars, writeQueue, worker, inSeq, closeVars, sender, wire, legEnd, receiverVars>>

jobs == <<writeVars, writeQueue, resendQueue, worker, inSeq, inResent, resends>>

\* AbortWrite: the source that feeds Write broke off.
AbortWrite ==
    /\ "abort" \in Faults /\ ~Faulty /\ writer # "queueing"
    /\ broken' = TRUE
    /\ UNCHANGED <<jobs, flush, timedOut, owed, announced, marked, sender, wire, legEnd, receiverVars>>

\* CloseWrite, which may come at any time: the writer's own at the end of its
\* source, the other direction's, or that of a cancelled context.
CloseWrite ==
    /\ ~flush /\ sender = "open"
    /\ flush' = TRUE
    /\ owed' = IF broken THEN MaxChunks + 1 ELSE Accepted
    /\ UNCHANGED <<jobs, timedOut, broken, announced, marked, sender, wire, legEnd, receiverVars>>

\* A seeded fault: a worker ends at the flush, whatever is queued.
WorkerEndsAtOnce(i) ==
    /\ worker[i] = "idle"
    /\ flush \/ sender # "open"
    /\ worker' = [worker EXCEPT ![i] = "ended"]
    /\ UNCHANGED <<writeVars, writeQueue, resendQueue, inSeq, inResent, resends, closeVars, sender, wire, legEnd, receiverVars>>

\* A worker ends when both queues are empty (flushRemaining), or torn down.
WorkerEnds(i) ==
    /\ worker[i] = "idle"
    /\ (flush /\ writeQueue = <<>> /\ resendQueue = <<>>) \/ sender # "open"
    /\ worker' = [worker EXCEPT ![i] = "ended"]
    /\ UNCHANGED <<writeVars, writeQueue, resendQueue, inSeq, inResent, resends, closeVars, sender, wire, legEnd, receiverVars>>

\* CloseWrite waits for the workers, or stops waiting after stallTimeout.
FlushTimesOut ==
    /\ flush /\ ~timedOut /\ sender = "open" /\ \E i \in Legs : worker[i] # "ended"
    /\ "slow" \in Faults /\ ~Faulty
    /\ timedOut' = TRUE
    /\ UNCHANGED <<jobs, flush, broken, owed, announced, marked, sender, wire, legEnd, receiverVars>>

Flushed == flush /\ ((\A i \in Legs : worker[i] = "ended") \/ timedOut)

\* The marker certifies a complete stream.
MayMark == ~broken /\ sender = "open"

\* sendEndMarkers reads the total under wmu.
ReadTotal ==
    /\ Flushed /\ MayMark /\ announced = Nothing /\ writer # "queueing"
    /\ announced' = writeSeq
    /\ UNCHANGED <<jobs, flush, timedOut, broken, owed, marked, sender, wire, legEnd, receiverVars>>

\* and writes it on one leg.
EndMarker(i) ==
    /\ announced # Nothing /\ i \notin marked
    /\ legEnd[i] = "open" /\ Len(wire[i]) < WireCap
    /\ wire' = [wire EXCEPT ![i] = Append(@, Marker(announced))]
    /\ marked' = marked \cup {i}
    /\ UNCHANGED <<jobs, flush, timedOut, broken, owed, announced, sender, legEnd, receiverVars>>

\* teardown after the markers (best effort) or without them.
Teardown ==
    /\ Flushed /\ sender = "open"
    /\ IF announced = Nothing THEN ~MayMark
       ELSE \A i \in Legs : i \in marked \/ legEnd[i] # "open" \/ timedOut
    /\ sender' = IF \A i \in Legs : worker[i] = "ended" THEN "closed" ELSE "abandoned"
    /\ legEnd' = CloseLegs
    /\ UNCHANGED <<senderVars, wire, receiverVars>>

-----------------------------------------------------------------------------
(* The receiver's leg readers. *)

closedR == err # "none" \/ result # "open" \/ \A i \in Legs : reader[i] = "ended"

\* The rest of a step of leg i's reader that leaves everything else alone.
KeepOthers == UNCHANGED <<senderVars, sender, legEnd, readVars>>

\* A header is read: an end marker (setTotal), or a chunk that admit charges to
\* the budget, or parks when there is no room.
ReadHeader(i) ==
    /\ reader[i] = "header" /\ wire[i] # <<>>
    /\ IF Head(wire[i]) \notin Seqs
       THEN /\ total' = Marker(Head(wire[i])) /\ wire' = [wire EXCEPT ![i] = Tail(@)]
            /\ UNCHANGED <<reader, chunk, parkTok, used>>
       ELSE /\ chunk' = [chunk EXCEPT ![i] = Head(wire[i])]
            /\ IF used < Limit
               THEN /\ used' = used + 1 /\ reader' = [reader EXCEPT ![i] = "keep"]
                    /\ UNCHANGED parkTok
               ELSE /\ reader' = [reader EXCEPT ![i] = "parked"] /\ parkTok' = TRUE
                    /\ UNCHANGED used
            /\ UNCHANGED <<total, wire>>
    /\ UNCHANGED <<forced, chunkCh>> /\ KeepOthers

\* The chunk is taken off the leg and discarded.
Discard(i) ==
    /\ wire' = [wire EXCEPT ![i] = Tail(@)]
    /\ reader' = [reader EXCEPT ![i] = "header"]
    /\ chunk' = [chunk EXCEPT ![i] = Nothing]

\* A parked reader looks again: its chunk may be delivered, awaited, or fit.
ParkLook(i) ==
    /\ reader[i] = "parked" /\ ~closedR
    /\ \/ /\ chunk[i] < nextSeq \/ (chunk[i] = nextSeq /\ forced > chunk[i])
          /\ Discard(i) /\ UNCHANGED used
       \/ /\ chunk[i] = nextSeq /\ forced <= chunk[i]
          /\ reader' = [reader EXCEPT ![i] = "awaited"]
          /\ UNCHANGED <<wire, chunk, used>>
       \/ /\ chunk[i] > nextSeq /\ used < Limit
          /\ used' = used + 1
          /\ reader' = [reader EXCEPT ![i] = "keep"]
          /\ UNCHANGED <<wire, chunk>>
    /\ UNCHANGED <<forced, parkTok, chunkCh, total>> /\ KeepOthers

\* claimForced
ClaimForced(i) == forced < chunk[i] + 1

\* The payload has arrived whole.
ReadPayload(i) ==
    /\ \/ /\ reader[i] = "keep"
          /\ wire' = [wire EXCEPT ![i] = Tail(@)]
          /\ reader' = [reader EXCEPT ![i] = "put"]
          /\ UNCHANGED <<chunk, forced>>
       \/ /\ reader[i] = "awaited" /\ ClaimForced(i)
          /\ forced' = chunk[i] + 1
          /\ wire' = [wire EXCEPT ![i] = Tail(@)]
          /\ reader' = [reader EXCEPT ![i] = "force"]
          /\ UNCHANGED chunk
       \/ /\ reader[i] = "awaited" /\ ~ClaimForced(i)
          /\ Discard(i) /\ UNCHANGED forced
    /\ UNCHANGED <<parkTok, chunkCh, used, total>> /\ KeepOthers

\* forceAwaited: charged over the budget unless Read has moved past it.
ForceAwaited(i) ==
    /\ reader[i] = "force"
    /\ IF chunk[i] < nextSeq
       THEN /\ reader' = [reader EXCEPT ![i] = "header"]
            /\ chunk' = [chunk EXCEPT ![i] = Nothing]
            /\ UNCHANGED used
       ELSE /\ reader' = [reader EXCEPT ![i] = "put"]
            /\ used' = used + 1 /\ UNCHANGED chunk
    /\ UNCHANGED <<forced, parkTok, chunkCh, total, wire>> /\ KeepOthers

\* The chunk is handed to Read once the channel has room, and the reader goes on.
Put(i) ==
    /\ reader[i] = "put" /\ Len(chunkCh) < ChCap
    /\ chunkCh' = Append(chunkCh, chunk[i])
    /\ reader' = [reader EXCEPT ![i] = "header"]
    /\ chunk' = [chunk EXCEPT ![i] = Nothing]
    /\ UNCHANGED <<forced, parkTok, used, total, wire>> /\ KeepOthers

\* A reader in one of these has charged its chunk to the budget.
Charging == {"keep", "put"}

\* The receiver is torn down: a charge that never reached Read is given back.
ReaderStops(i) ==
    /\ closedR /\ reader[i] \notin {"ended", "failed"}
    /\ used' = IF reader[i] \in Charging THEN used - 1 ELSE used
    /\ reader' = [reader EXCEPT ![i] = "failed"]
    /\ chunk' = [chunk EXCEPT ![i] = Nothing]
    /\ UNCHANGED <<forced, parkTok, chunkCh, total, wire>> /\ KeepOthers

\* A clean end at a chunk boundary (legDone).
LegDone(i) ==
    /\ reader[i] = "header" /\ wire[i] = <<>> /\ legEnd[i] = "eof"
    /\ reader' = [reader EXCEPT ![i] = "ended"]
    /\ UNCHANGED <<chunk, forced, parkTok, chunkCh, used, total, wire>> /\ KeepOthers

\* A cut leg ends anywhere: a charge is given back and the connection fails.
LegFails(i) ==
    /\ legEnd[i] = "cut" /\ reader[i] \in {"header", "keep", "awaited"}
    /\ used' = IF reader[i] = "keep" THEN used - 1 ELSE used
    /\ reader' = [reader EXCEPT ![i] = "failed"]
    /\ chunk' = [chunk EXCEPT ![i] = Nothing]
    /\ err' = IF err = "none" THEN "leg" ELSE err
    /\ UNCHANGED <<forced, parkTok, chunkCh, total, wire, senderVars, sender, legEnd>>
    /\ UNCHANGED <<pending, nextSeq, readBuf, got, was, readPc, result>>

-----------------------------------------------------------------------------
(* The receiver's Read. *)

readFrame == <<senderVars, sender, wire, legEnd, reader, chunk, forced, total>>
legsDone == \A i \in Legs : reader[i] = "ended"

\* complete: the announced total is known and delivered.
Complete == total # Nothing /\ nextSeq >= total

Elems(s) == {s[k] : k \in 1..Len(s)}

\* drainAvailable: what is new in the channel is filed; copies are recycled.
Drained == pending \cup {q \in Elems(chunkCh) : q >= nextSeq}

\* A seeded fault: a copy that the drain drops keeps its charge.
DrainKeepsCharge == used

DrainCharge == used - (Len(chunkCh) - (Cardinality(Drained) - Cardinality(pending)))

\* A seeded fault: the next chunk is fetched while one is still being copied out.
InReadAnyTime == result = "open" /\ readPc = "select"

\* Read looks for the next chunk once the last one has been copied out.
InRead == result = "open" /\ readBuf = Nothing /\ readPc = "select"

\* The next chunk is at hand: it becomes the read buffer (advance).
Deliver ==
    /\ InRead /\ ~Complete /\ nextSeq \in pending
    /\ pending' = pending \ {nextSeq}
    /\ nextSeq' = nextSeq + 1 /\ readBuf' = nextSeq
    /\ UNCHANGED <<readFrame, got, chunkCh, used, parkTok, was, readPc, err, result>>

\* stash: a chunk from the channel.
Stash ==
    /\ InRead /\ ~Complete /\ nextSeq \notin pending /\ chunkCh # <<>>
    /\ chunkCh' = Tail(chunkCh)
    /\ LET q == Head(chunkCh) IN
       \/ /\ q = nextSeq
          /\ nextSeq' = nextSeq + 1 /\ readBuf' = q /\ UNCHANGED <<pending, used>>
       \/ /\ q > nextSeq /\ q \notin pending
          /\ pending' = pending \cup {q} /\ UNCHANGED <<nextSeq, readBuf, used>>
       \/ /\ q < nextSeq \/ q \in pending
          /\ used' = used - 1 /\ UNCHANGED <<pending, nextSeq, readBuf>>
    /\ UNCHANGED <<readFrame, got, parkTok, was, readPc, err, result>>

\* The caller has copied the buffer out (releaseReadBuf).
Consume ==
    /\ readBuf # Nothing
    /\ got' = Append(got, readBuf)
    /\ readBuf' = Nothing /\ used' = used - 1
    /\ UNCHANGED <<readFrame, chunkCh, parkTok, pending, nextSeq, was, readPc, err, result>>

\* Read returns for good: dropReassembly.
Return(r, e) ==
    /\ result' = r /\ err' = IF err = "none" THEN e ELSE err
    /\ chunkCh' = <<>> /\ pending' = {}
    /\ used' = used - Len(chunkCh) - Cardinality(pending)
    /\ readPc' = "select" /\ was' = {}
    /\ UNCHANGED <<readFrame, got, parkTok, nextSeq, readBuf>>

ReturnEOF == InRead /\ Complete /\ Return("eof", "none")

\* A wait that ends with the awaited chunk still missing, after a drain.
Missing == InRead /\ ~Complete /\ nextSeq \notin Drained

\* Every leg has ended and what they brought was looked through; or a leg failed,
\* which a Read that begins reports without looking at the channel.
ReturnError ==
    /\ InRead /\ ~Complete
    /\ \/ legsDone /\ nextSeq \notin Drained
       \/ err # "none" /\ nextSeq \notin pending
    /\ Return("error", "short")

\* A later chunk is held, or the total announced, and the gap was there for
\* stallTimeout.
Stalls ==
    /\ Missing /\ (pending # {} \/ total # Nothing)
    /\ Return("error", "stall")

\* parkedPast: every leg that still delivers is parked on a later chunk.
ParkedPast ==
    LET at == {<<i, chunk[i]>> : i \in {j \in Legs : reader[j] = "parked" /\ chunk[j] > nextSeq}}
    IN IF \A i \in Legs : reader[i] = "ended" \/ \E p \in at : p[1] = i THEN at ELSE {}

\* The parkCh case: the legs are looked at, the channel is drained, and the legs
\* are looked at again.
ParkFirstLook ==
    /\ InRead /\ ~Complete /\ nextSeq \notin pending /\ parkTok
    /\ parkTok' = FALSE
    /\ was' = ParkedPast /\ readPc' = "drain"
    /\ UNCHANGED <<readFrame, got, chunkCh, used, pending, nextSeq, readBuf, err, result>>

ParkDrain ==
    /\ readPc = "drain"
    /\ pending' = Drained /\ chunkCh' = <<>> /\ used' = DrainCharge
    /\ readPc' = IF nextSeq \in Drained THEN "select" ELSE "look"
    /\ was' = IF nextSeq \in Drained THEN {} ELSE was
    /\ UNCHANGED <<readFrame, got, parkTok, nextSeq, readBuf, err, result>>

\* A seeded fault: the queue is looked at first and the legs after.
StuckNow == ParkedPast # {}

\* Only legs that all sit on the same chunks as before are stuck (sameParked).
StillStuck == was # {} /\ was = ParkedPast

ParkSecondLook ==
    /\ readPc = "look"
    /\ IF StillStuck
       THEN Return("error", "budget")
       ELSE /\ readPc' = "select" /\ was' = {}
            /\ UNCHANGED <<readFrame, got, parkTok, chunkCh, used, pending, nextSeq, readBuf, err, result>>

-----------------------------------------------------------------------------
\* A leg is cut (external): what was in transit is lost.
Cut(i) ==
    /\ "cut" \in Faults /\ ~Faulty /\ reader[i] \notin {"ended", "failed"}
    /\ legEnd' = [legEnd EXCEPT ![i] = "cut"]
    /\ wire' = [wire EXCEPT ![i] = IF reader[i] \in {"parked", "keep", "awaited"} THEN <<Head(@)>> ELSE <<>>]
    /\ UNCHANGED <<senderVars, sender, receiverVars>>

\* A failed or finished receiver closes its legs: the sender's writes fail.
ReceiverCloses ==
    /\ closedR /\ \E i \in Legs : legEnd[i] = "open"
    /\ legEnd' = CloseLegs
    /\ UNCHANGED <<senderVars, sender, wire, receiverVars>>

SenderStep == Write \/ Enqueue \/ WriteRefused \/ AbortWrite \/ CloseWrite \/ FlushTimesOut \/ ReadTotal \/ Teardown
              \/ \E i \in Legs : TakeJob(i) \/ WriteChunk(i) \/ WriteFails(i) \/ WorkerEnds(i) \/ EndMarker(i)
LegStep(i) == \/ ReadHeader(i) \/ ParkLook(i) \/ ReadPayload(i) \/ ForceAwaited(i) \/ Put(i)
              \/ ReaderStops(i) \/ LegDone(i) \/ LegFails(i)
ReadStep == \/ Deliver \/ Stash \/ Consume \/ ReturnEOF \/ ReturnError
            \/ ParkFirstLook \/ ParkDrain \/ ParkSecondLook

Next ==
    \/ SenderStep \/ (\E i \in Legs : Reroute(i) \/ LegStep(i) \/ Cut(i))
    \/ ReadStep \/ Stalls \/ ReceiverCloses

Spec == Init /\ [][Next]_vars

\* What happens after Read has returned for good is not explored further, and after
\* a fault of the sender not the last chunk either: the run's bound.
Reading == result = "open" /\ (broken \/ timedOut => writeSeq < MaxChunks)

\* Legs are alike.
Symmetry == Permutations(Legs)

-----------------------------------------------------------------------------
(* Properties. *)

\* The budget is charged for exactly what is retained: the chunks in the
\* channel, out of order, being read in or copied out.  And what is let in over
\* the limit is the awaited chunk and the one before it, still being copied out.
BudgetConserved ==
    /\ used = Len(chunkCh) + Cardinality(pending) + Cardinality({i \in Legs : reader[i] \in Charging}) + IF readBuf # Nothing THEN 1 ELSE 0
    /\ used <= Limit + 2

\* Lossless or loud: whatever the legs bring, in any order and more than once, the
\* caller is given the chunks as they were written, none left out; and Read
\* reports a clean end only after every chunk that Write had taken before
\* CloseWrite, of a stream whose source had not broken off by then.
LosslessOrLoud ==
    /\ \A k \in 1..Len(got) : got[k] = k - 1
    /\ result = "eof" => Len(got) >= owed

\* A graceful close loses nothing: a stream whose last Write was taken before
\* CloseWrite, and that met no fault, is not reported as cut short.
CloseIsLossless ==
    err = "short" => Faulty \/ sender = "failed" \/ writeSeq # owed

\* A flow with nothing missing is not failed for its budget: a leg sends in
\* order and hands a chunk over before it waits on the next, so when every leg is
\* seen waiting twice the awaited chunk has been handed over.
NeverStarved ==
    err = "budget" => sender \in {"failed", "abandoned"} \/ \E i \in Legs : legEnd[i] = "cut"
=============================================================================
