---------------------------- MODULE StripingProofs ----------------------------
(***************************************************************************)
(* A striped connection for any number of legs and chunks, any capacities   *)
(* and any budget: the budget is conserved and bounded, a clean end is a    *)
(* complete one, and a flow with nothing missing is not failed for its      *)
(* budget.                                                                  *)
(***************************************************************************)
EXTENDS Striping, FiniteSetTheorems, TLAPS

-----------------------------------------------------------------------------
(* Shapes. *)

SenderShape ==
    /\ writer \in {"idle", "queueing", "refused"} /\ (writer # "idle" => writeSeq >= 1)
    /\ owed \in 0..(MaxChunks + 1) /\ announced \in 0..MaxChunks \cup {Nothing}
    /\ writeSeq \in 0..MaxChunks /\ resends \in 0..MaxResends
    /\ writeQueue \in Seq(Seqs) /\ Len(writeQueue) <= QueueCap
    /\ resendQueue \in Seq(Seqs) /\ Len(resendQueue) <= QueueCap
    /\ worker \in [Legs -> {"idle", "writing", "ended"}]
    /\ inSeq \in [Legs -> Seqs \cup {Nothing}] /\ inResent \subseteq Legs
    /\ \A i \in Legs : worker[i] = "writing" => inSeq[i] \in Seqs
    /\ marked \subseteq Legs /\ sender \in {"open", "failed", "closed", "abandoned"}
    /\ flush \in BOOLEAN /\ timedOut \in BOOLEAN /\ broken \in BOOLEAN

WireShape ==
    /\ wire \in [Legs -> Seq(Frames)] /\ \A i \in Legs : Len(wire[i]) <= WireCap
    /\ legEnd \in [Legs -> {"open", "eof", "cut"}]

\* A reader that handles a chunk has its number, and the chunk is on the leg until
\* it has been read in.
Handling == {"parked", "keep", "awaited"}

LegShape ==
    /\ reader \in [Legs -> {"header", "parked", "keep", "awaited", "force", "put", "ended", "failed"}]
    /\ chunk \in [Legs -> Seqs \cup {Nothing}] /\ forced \in 0..MaxChunks
    /\ \A i \in Legs : reader[i] \in Handling \cup {"force", "put"} => chunk[i] \in Seqs
    /\ chunkCh \in Seq(Seqs) /\ Len(chunkCh) <= ChCap
    /\ total \in 0..MaxChunks \cup {Nothing} /\ parkTok \in BOOLEAN

ReadShape ==
    /\ pending \subseteq Seqs /\ nextSeq \in 0..MaxChunks /\ used \in Int
    /\ was \subseteq Legs \X Seqs /\ readPc \in {"select", "drain", "look"}
    /\ err \in {"none", "leg", "stall", "budget", "short"} /\ result \in {"open", "eof", "error"}
    /\ readBuf \in Seqs \cup {Nothing} /\ got \in Seq(Seqs)

Shape == SenderShape /\ WireShape /\ LegShape /\ ReadShape

OnTheLeg == \A i \in Legs : reader[i] \in Handling => wire[i] # <<>> /\ Head(wire[i]) = chunk[i]

-----------------------------------------------------------------------------
(* Who changes what. *)

SenderOrWire ==
    \/ SenderStep \/ ReceiverCloses \/ \E i \in Legs : Reroute(i) \/ Cut(i)

LEMMA SenderFrame ==
    ASSUME SenderOrWire PROVE UNCHANGED receiverVars
BY DEF SenderOrWire, SenderStep, Write, Enqueue, WriteRefused, AbortWrite, ReadTotal, writeFrame, TakeJob, WriteChunk, WriteFails, Reroute, CloseWrite, WorkerEnds,
       FlushTimesOut, EndMarker, Teardown, Cut, ReceiverCloses

LEMMA LegFrame ==
    ASSUME NEW i \in Legs, LegStep(i)
    PROVE  UNCHANGED <<senderVars, sender, legEnd, pending, nextSeq, readBuf, got, was, readPc, result>>
BY DEF LegStep, KeepOthers, readVars, ReadHeader, ParkLook, ReadPayload, ForceAwaited, Put, ReaderStops, LegDone, LegFails

LEMMA ReadFrame ==
    ASSUME ReadStep \/ Stalls PROVE UNCHANGED readFrame
BY DEF ReadStep, Stalls, Deliver, Stash, Consume, ReturnEOF, ReturnError, Return, ParkFirstLook, ParkDrain, ParkSecondLook

LEMMA KindsOfStep ==
    ASSUME [Next]_vars
    PROVE  SenderOrWire \/ (\E i \in Legs : LegStep(i)) \/ ReadStep \/ Stalls \/ UNCHANGED vars
BY DEF Next, SenderOrWire

-----------------------------------------------------------------------------
(* Why it holds. *)

\* Chunks the workers have taken from writeQueue: it holds the rest in order.
Taken == Accepted - Len(writeQueue)

QueueInOrder == Taken >= 0 /\ \A k \in 1..Len(writeQueue) : writeQueue[k] = Taken + k - 1

\* Every number that has left writeQueue, wherever it is, was taken from it.
InHandBelow(n) ==
    /\ \A k \in 1..Len(resendQueue) : resendQueue[k] < n
    /\ \A i \in Legs : inSeq[i] < n
OnLegsBelow(n) == \A i \in Legs : \A k \in 1..Len(wire[i]) : wire[i][k] < n
ReadBelow(n) ==
    /\ \A i \in Legs : chunk[i] < n
    /\ \A k \in 1..Len(chunkCh) : chunkCh[k] < n
    /\ \A q \in pending : q < n
    /\ nextSeq <= n

NumberedInOrder == QueueInOrder /\ InHandBelow(Taken) /\ OnLegsBelow(Taken) /\ ReadBelow(Taken)

\* What CloseWrite owes is numbered, unless the source had broken off; the total is
\* read after that, and it is what every marker and the receiver say.
MarkedWhole ==
    /\ flush => broken \/ owed <= writeSeq
    /\ announced # Nothing => flush /\ owed <= announced
    /\ \A i \in Legs : \A k \in 1..Len(wire[i]) : wire[i][k] \notin Seqs => announced # Nothing /\ wire[i][k] = Marker(announced)
    /\ total # Nothing => total = announced

\* One reader claims the awaited chunk, and forcedSeq records that it did.
ForcedOnce ==
    /\ \A i \in Legs : reader[i] \in {"awaited", "force"} => chunk[i] <= nextSeq
    /\ \A i \in Legs : reader[i] = "force" => forced > chunk[i]
    /\ \A i, j \in Legs : reader[i] = "force" /\ reader[j] = "force" /\ chunk[i] = chunk[j] => i = j
    /\ forced <= nextSeq + 1

\* The awaited chunk has been charged over the limit.
Over == forced > nextSeq /\ \A i \in Legs : ~(reader[i] = "force" /\ chunk[i] = nextSeq)

Kept == {i \in Legs : reader[i] \in Charging}
BeingRead == IF readBuf # Nothing THEN 1 ELSE 0
Charged == used = Len(chunkCh) + Cardinality(pending) + Cardinality(Kept) + BeingRead

WithinLimit ==
    /\ used <= Limit + 2
    /\ readBuf = Nothing => used <= Limit + 1
    /\ ~Over => used <= Limit + 1
    /\ readBuf = Nothing /\ ~Over => used <= Limit

\* The caller was given the chunks in order, up to the one that is being copied out.
GotInOrder ==
    /\ Len(got) = nextSeq - BeingRead
    /\ \A k \in 1..Len(got) : got[k] = k - 1
    /\ readBuf # Nothing => readBuf = nextSeq - 1

EndMeans == result = "eof" => flush /\ owed <= Len(got)

\* What may really lose a chunk.
Lost == sender \in {"failed", "abandoned"} \/ \E i \in Legs : legEnd[i] = "cut"

\* While nothing is lost, only a sender that is done closes legs.
EndsMean ==
    /\ err = "none"
    /\ \A i \in Legs : legEnd[i] = "eof" => sender = "closed"
    /\ sender = "closed" => \A i \in Legs : worker[i] = "ended"
    /\ \A i \in Legs : reader[i] = "ended" => wire[i] = <<>> /\ legEnd[i] = "eof"
    /\ \A i \in Legs : reader[i] # "failed"

\* The receiver has the chunk.
Gathered(q) ==
    \/ q \in pending
    \/ \E k \in 1..Len(chunkCh) : chunkCh[k] = q
    \/ \E i \in Legs : reader[i] \in {"force", "put"} /\ chunk[i] = q

\* A leg will bring it before any later one.
OnItsWay(q, i) ==
    \/ \E k \in 1..Len(wire[i]) : wire[i][k] = q /\ \A m \in 1..k : wire[i][m] <= q
    \/ worker[i] = "writing" /\ inSeq[i] = q /\ \A m \in 1..Len(wire[i]) : wire[i][m] <= q

NothingMissing ==
    /\ \A q \in Seqs : nextSeq <= q /\ q < Taken => Gathered(q) \/ \E i \in Legs : OnItsWay(q, i)
    /\ forced > nextSeq => Gathered(nextSeq)

\* What Read saw of the legs while it looks for the awaited chunk.
LookMeans ==
    /\ readPc = "drain" /\ was # {} => \E k \in 1..Len(chunkCh) : chunkCh[k] = nextSeq
    /\ readPc = "look" => was = {}

Sound == result = "open" /\ ~Lost => EndsMean /\ NothingMissing /\ LookMeans

-----------------------------------------------------------------------------
(* Sequences. *)

LEMMA Appended ==
    ASSUME NEW S, NEW s \in Seq(S), NEW e \in S
    PROVE  /\ Append(s, e) \in Seq(S) /\ Len(Append(s, e)) = Len(s) + 1
           /\ \A k \in 1..Len(s) : Append(s, e)[k] = s[k]
           /\ Append(s, e)[Len(s) + 1] = e
OBVIOUS

LEMMA Behead ==
    ASSUME NEW S, NEW s \in Seq(S), s # <<>>
    PROVE  /\ Tail(s) \in Seq(S) /\ Len(Tail(s)) = Len(s) - 1 /\ Len(s) \in Nat \ {0}
           /\ Head(s) = s[1] /\ Head(s) \in S
           /\ \A k \in 1..(Len(s) - 1) : Tail(s)[k] = s[k + 1]
OBVIOUS

-----------------------------------------------------------------------------
(* The shapes are kept. *)

LEMMA SeqsAre == Seqs \subseteq Nat /\ IsFiniteSet(Seqs) /\ MaxChunks \in Nat
<1>1. MaxChunks \in Nat
  BY StripingAssumption
<1>2. IsFiniteSet(0..(MaxChunks - 1))
  BY <1>1, FS_Interval
<1> QED
  BY <1>1, <1>2 DEF Seqs

\* A marker is no chunk, and says its total.
LEMMA Markers ==
    /\ \A t \in 0..MaxChunks : Marker(t) \in Frames /\ Marker(t) \notin Seqs /\ Marker(t) < 0 /\ Marker(Marker(t)) = t
    /\ \A e \in Frames : e \in Int /\ (e \notin Seqs => Marker(e) \in 0..MaxChunks /\ e < 0 /\ e = Marker(Marker(e)))
BY SeqsAre DEF Marker, Frames, Seqs

LEMMA CapsAre ==
    /\ QueueCap \in Nat /\ QueueCap >= 1 /\ WireCap \in Nat /\ WireCap >= 1
    /\ ChCap \in Nat /\ ChCap >= 1 /\ Limit \in Nat /\ Limit >= 1 /\ MaxResends \in Nat
BY StripingAssumption

LEMMA InitShape == Init => Shape /\ OnTheLeg
<1> SUFFICES ASSUME Init PROVE Shape /\ OnTheLeg
  OBVIOUS
<1> USE SeqsAre, CapsAre DEF Init
<1>0. /\ flush \in BOOLEAN /\ timedOut \in BOOLEAN /\ broken \in BOOLEAN
      /\ parkTok \in BOOLEAN
  BY Zenon DEF Init
<1>1. SenderShape
  BY <1>0 DEF SenderShape, Nothing
<1>2. WireShape
  BY DEF WireShape
<1>3. LegShape
  BY <1>0 DEF LegShape, Handling, Nothing
<1>4. ReadShape
  BY <1>0 DEF ReadShape
<1>5. OnTheLeg
  BY DEF OnTheLeg, Handling
<1> QED
  BY <1>1, <1>2, <1>3, <1>4, <1>5 DEF Shape

LEMMA SenderShapeStep ==
    ASSUME SenderShape, SenderOrWire PROVE SenderShape'
<1> USE DEF SenderShape
<1>1. CASE Write \/ WriteRefused
  BY <1>1, SeqsAre DEF Write, WriteRefused, writeFrame, closeVars
<1>10. CASE Enqueue
  <2>1. writeSeq - 1 \in Seqs
    BY <1>10, SeqsAre DEF Enqueue, Seqs
  <2>2. writeQueue' \in Seq(Seqs) /\ Len(writeQueue') = Len(writeQueue) + 1
    BY <1>10, <2>1, Appended DEF Enqueue
  <2> QED
    BY <1>10, <2>1, <2>2, StripingAssumption DEF Enqueue, writeFrame, closeVars
<1>2. ASSUME NEW i \in Legs, TakeJob(i) PROVE SenderShape'
  <2>0. worker' = [worker EXCEPT ![i] = "writing"] /\ inResent' = inResent \ {i}
        /\ UNCHANGED <<writer, writeSeq, resends, flush, timedOut, broken, owed, announced, marked, sender>>
    BY <1>2 DEF TakeJob, writeVars, closeVars
  <2>1. CASE resendQueue # <<>> /\ inSeq' = [inSeq EXCEPT ![i] = Head(resendQueue)]
             /\ resendQueue' = Tail(resendQueue) /\ UNCHANGED writeQueue
    <3>1. Head(resendQueue) \in Seqs /\ Tail(resendQueue) \in Seq(Seqs) /\ Len(Tail(resendQueue)) = Len(resendQueue) - 1
      BY <2>1, Behead
    <3>2. Len(resendQueue) \in Nat
      OBVIOUS
    <3> QED
      BY <1>2, <2>0, <2>1, <3>1, <3>2, CapsAre
  <2>2. CASE writeQueue # <<>> /\ inSeq' = [inSeq EXCEPT ![i] = Head(writeQueue)]
             /\ writeQueue' = Tail(writeQueue) /\ UNCHANGED resendQueue
    <3>1. Head(writeQueue) \in Seqs /\ Tail(writeQueue) \in Seq(Seqs) /\ Len(Tail(writeQueue)) = Len(writeQueue) - 1
      BY <2>2, Behead
    <3>2. Len(writeQueue) \in Nat
      OBVIOUS
    <3> QED
      BY <1>2, <2>0, <2>2, <3>1, <3>2, CapsAre
  <2> QED
    BY <1>2, <2>1, <2>2 DEF TakeJob
<1>3. ASSUME NEW i \in Legs, Reroute(i) PROVE SenderShape'
  <2>1. resendQueue' \in Seq(Seqs) /\ Len(resendQueue') = Len(resendQueue) + 1
    BY <1>3, Appended DEF Reroute
  <2> QED
    BY <1>3, <2>1, StripingAssumption DEF Reroute, writeVars, closeVars
<1>4. CASE CloseWrite \/ AbortWrite \/ ReadTotal
  <2>1. CASE CloseWrite
    BY <2>1, SeqsAre DEF CloseWrite, Accepted, jobs, writeVars
  <2>2. CASE AbortWrite
    BY <2>2 DEF AbortWrite, jobs, writeVars
  <2>3. CASE ReadTotal
    BY <2>3 DEF ReadTotal, jobs, writeVars
  <2> QED
    BY <1>4, <2>1, <2>2, <2>3
<1>5. CASE FlushTimesOut \/ Teardown \/ ReceiverCloses
  BY <1>5 DEF FlushTimesOut, Teardown, ReceiverCloses, senderVars, writeVars, closeVars, jobs
<1>6. ASSUME NEW i \in Legs, WriteChunk(i) \/ WriteFails(i) \/ WorkerEnds(i)
      PROVE  SenderShape'
  BY <1>6 DEF WriteChunk, WriteFails, WorkerEnds, writeVars, closeVars
<1>7. ASSUME NEW i \in Legs, EndMarker(i) \/ Cut(i)
      PROVE  SenderShape'
  BY <1>7 DEF EndMarker, Cut, senderVars, writeVars, closeVars, jobs
<1> QED
  BY <1>1, <1>2, <1>3, <1>4, <1>5, <1>6, <1>7, <1>10 DEF SenderOrWire, SenderStep

\* A step of the sender appends to a leg, or cuts it down to what is being read.
WireStep(i) ==
    \/ \E e \in Frames : /\ wire' = [wire EXCEPT ![i] = Append(wire[i], e)] /\ Len(wire[i]) < WireCap
                                  /\ legEnd' = legEnd
    \/ Cut(i)

LEMMA WireSteps ==
    ASSUME SenderShape, SenderOrWire
    PROVE  (\E i \in Legs : WireStep(i)) \/ (wire' = wire /\ (legEnd' = legEnd \/ legEnd' = CloseLegs))
<1>1. ASSUME NEW i \in Legs, WriteChunk(i) PROVE WireStep(i)
  BY <1>1 DEF WriteChunk, WireStep, SenderShape, Frames
<1>2. ASSUME NEW i \in Legs, EndMarker(i) PROVE WireStep(i)
  <2>1. Marker(announced) \in Frames
    BY <1>2, Markers DEF EndMarker, SenderShape
  <2> QED
    BY <1>2, <2>1 DEF EndMarker, WireStep
<1>3. ASSUME NEW i \in Legs, Cut(i) PROVE WireStep(i)
  BY <1>3 DEF WireStep
<1>4. ASSUME NEW i \in Legs, TakeJob(i) \/ WriteFails(i) \/ WorkerEnds(i) \/ Reroute(i)
      PROVE  wire' = wire /\ (legEnd' = legEnd \/ legEnd' = CloseLegs)
  BY <1>4 DEF TakeJob, WriteFails, WorkerEnds, Reroute
<1>5. CASE Write \/ Enqueue \/ WriteRefused \/ AbortWrite \/ CloseWrite \/ FlushTimesOut \/ ReadTotal \/ Teardown \/ ReceiverCloses
  BY <1>5 DEF Write, Enqueue, WriteRefused, writeFrame, AbortWrite, CloseWrite, FlushTimesOut, ReadTotal, Teardown, ReceiverCloses
<1> QED
  BY <1>1, <1>2, <1>3, <1>4, <1>5 DEF SenderOrWire, SenderStep

LEMMA WireShapeStep ==
    ASSUME WireShape, SenderShape, LegShape, OnTheLeg, SenderOrWire PROVE WireShape' /\ OnTheLeg'
<1>0. reader' = reader /\ chunk' = chunk
  BY SenderFrame DEF receiverVars, legReaders
<1>1. CASE wire' = wire /\ (legEnd' = legEnd \/ legEnd' = CloseLegs)
  BY <1>0, <1>1 DEF WireShape, OnTheLeg, CloseLegs
<1>2. ASSUME NEW i \in Legs, NEW e \in Frames, Len(wire[i]) < WireCap,
             wire' = [wire EXCEPT ![i] = Append(wire[i], e)], legEnd' = legEnd
      PROVE  WireShape' /\ OnTheLeg'
  <2>1. wire[i] \in Seq(Frames)
    BY DEF WireShape
  <2>2. Append(wire[i], e) \in Seq(Frames) /\ Len(Append(wire[i], e)) = Len(wire[i]) + 1
    BY <2>1, Appended
  <2>3. wire[i] # <<>> => Append(wire[i], e) # <<>> /\ Head(Append(wire[i], e)) = Head(wire[i])
    BY <2>1
  <2>4. Len(wire[i]) \in Nat
    BY <2>1
  <2>5. WireShape'
    BY <1>2, <2>2, <2>4, StripingAssumption DEF WireShape
  <2> QED
    BY <1>0, <1>2, <2>3, <2>5 DEF WireShape, OnTheLeg
<1>3. ASSUME NEW i \in Legs, Cut(i) PROVE WireShape' /\ OnTheLeg'
  <2>1. wire[i] \in Seq(Frames)
    BY DEF WireShape
  <2>2. CASE reader[i] \in Handling
    <3>1. wire' = [wire EXCEPT ![i] = <<Head(wire[i])>>]
      BY <1>3, <2>2 DEF Cut, Handling
    <3>2. Head(wire[i]) = chunk[i] /\ chunk[i] \in Seqs
      BY <2>2 DEF OnTheLeg, LegShape
    <3>3. <<Head(wire[i])>> \in Seq(Frames) /\ Len(<<Head(wire[i])>>) = 1
          /\ Head(<<Head(wire[i])>>) = Head(wire[i]) /\ <<Head(wire[i])>> # <<>>
      BY <3>2 DEF Frames
    <3>4. WireShape'
      BY <1>3, <3>1, <3>3, CapsAre DEF WireShape, Cut
    <3> QED
      BY <1>0, <3>1, <3>3, <3>4 DEF WireShape, OnTheLeg
  <2>3. CASE reader[i] \notin Handling
    <3>1. wire' = [wire EXCEPT ![i] = <<>>]
      BY <1>3, <2>3 DEF Cut, Handling
    <3>2. WireShape'
      BY <1>3, <3>1, StripingAssumption DEF WireShape, Cut
    <3> QED
      BY <1>0, <2>3, <3>1, <3>2 DEF WireShape, OnTheLeg
  <2> QED
    BY <2>2, <2>3
<1> QED
  BY <1>1, <1>2, <1>3, WireSteps DEF WireStep


\* A reader's step touches its own leg alone, which it may shorten by its head.
LEMMA OneLeg ==
    ASSUME Shape, NEW i \in Legs, LegStep(i)
    PROVE  /\ wire' = wire \/ wire' = [wire EXCEPT ![i] = Tail(wire[i])]
           /\ \E r \in {"header", "parked", "keep", "awaited", "force", "put", "ended", "failed"} : reader' = [reader EXCEPT ![i] = r]
           /\ \E q \in Seqs \cup {Nothing} : chunk' = [chunk EXCEPT ![i] = q]
<1> USE DEF Shape, LegShape, WireShape
<1>1. CASE ReadHeader(i)
  <2>1. wire[i] # <<>> /\ wire[i] \in Seq(Frames)
    BY <1>1 DEF ReadHeader
  <2>2. Head(wire[i]) \in Frames
    BY <2>1, Behead
  <2> QED
    BY <1>1, <2>2 DEF ReadHeader
<1>2. CASE ParkLook(i)
  BY <1>2 DEF ParkLook, Discard
<1>3. CASE ReadPayload(i)
  BY <1>3 DEF ReadPayload, Discard
<1>4. CASE ForceAwaited(i) \/ Put(i)
  BY <1>4 DEF ForceAwaited, Put
<1>5. CASE ReaderStops(i) \/ LegDone(i) \/ LegFails(i)
  BY <1>5 DEF ReaderStops, LegDone, LegFails
<1> QED
  BY <1>1, <1>2, <1>3, <1>4, <1>5 DEF LegStep

LEMMA LegShapeStep ==
    ASSUME Shape, OnTheLeg, NEW i \in Legs, LegStep(i)
    PROVE  WireShape' /\ LegShape' /\ OnTheLeg' /\ used' \in Int
<1> USE DEF Shape
<1>1. wire[i] \in Seq(Frames) /\ Len(wire[i]) \in Nat /\ legEnd' = legEnd
  BY LegFrame DEF WireShape
<1>2. ASSUME wire[i] # <<>> PROVE Tail(wire[i]) \in Seq(Frames) /\ Len(Tail(wire[i])) <= WireCap
  <2>1. Tail(wire[i]) \in Seq(Frames) /\ Len(Tail(wire[i])) = Len(wire[i]) - 1
    BY <1>1, <1>2, Behead
  <2> QED
    BY <2>1, <1>1, CapsAre DEF WireShape
<1>3. CASE ReadHeader(i)
  <2>1. wire[i] # <<>> /\ reader[i] = "header"
    BY <1>3 DEF ReadHeader
  <2>2. Head(wire[i]) \in Frames
    BY <1>1, <2>1, Behead
  <2>3. CASE Head(wire[i]) \notin Seqs
    <3>1. /\ wire' = [wire EXCEPT ![i] = Tail(wire[i])]
          /\ UNCHANGED <<reader, chunk, parkTok, used, forced, chunkCh>>
      BY <1>3, <2>3 DEF ReadHeader
    <3>2. total' \in 0..MaxChunks
      BY <1>3, <2>2, <2>3, Markers DEF ReadHeader
    <3> QED
      BY <1>1, <1>2, <2>1, <3>1, <3>2 DEF WireShape, LegShape, ReadShape, OnTheLeg, Handling
  <2>4. CASE Head(wire[i]) \in Seqs
    <3>1. Head(wire[i]) \in Seqs
      BY <2>4
    <3>2. /\ chunk' = [chunk EXCEPT ![i] = Head(wire[i])]
          /\ reader' = [reader EXCEPT ![i] = "keep"] \/ reader' = [reader EXCEPT ![i] = "parked"]
          /\ used' = used \/ used' = used + 1
          /\ UNCHANGED <<wire, total, forced, chunkCh>>
      BY <1>3, <2>4 DEF ReadHeader
    <3>3. parkTok' \in BOOLEAN
      <4>1. parkTok' = parkTok \/ parkTok' = TRUE
        BY <1>3, <2>4 DEF ReadHeader
      <4> QED
        BY <4>1 DEF LegShape
    <3>4. LegShape' /\ WireShape'
      BY <1>1, <3>1, <3>2, <3>3 DEF LegShape, WireShape, Handling
    <3>5. OnTheLeg'
      BY <2>1, <3>1, <3>2 DEF LegShape, WireShape, OnTheLeg, Handling
    <3> QED
      BY <3>2, <3>4, <3>5 DEF ReadShape
  <2> QED
    BY <2>3, <2>4
<1>4. CASE ParkLook(i)
  <2>1. wire[i] # <<>> /\ Head(wire[i]) = chunk[i] /\ chunk[i] \in Seqs /\ reader[i] = "parked"
    BY <1>4 DEF ParkLook, OnTheLeg, LegShape, Handling
  <2>2. UNCHANGED <<forced, parkTok, chunkCh, total>>
    BY <1>4 DEF ParkLook
  <2>3. CASE Discard(i) /\ UNCHANGED used
    BY <1>1, <1>2, <2>1, <2>2, <2>3 DEF Discard, WireShape, LegShape, ReadShape, OnTheLeg, Handling
  <2>4. CASE reader' = [reader EXCEPT ![i] = "awaited"] /\ UNCHANGED <<wire, chunk, used>>
    BY <1>1, <2>1, <2>2, <2>4 DEF WireShape, LegShape, ReadShape, OnTheLeg, Handling
  <2>5. CASE used' = used + 1 /\ reader' = [reader EXCEPT ![i] = "keep"] /\ UNCHANGED <<wire, chunk>>
    BY <1>1, <2>1, <2>2, <2>5 DEF WireShape, LegShape, ReadShape, OnTheLeg, Handling
  <2> QED
    BY <1>4, <2>3, <2>4, <2>5 DEF ParkLook
<1>5. CASE ReadPayload(i)
  <2>1. wire[i] # <<>> /\ Head(wire[i]) = chunk[i] /\ chunk[i] \in Seqs
    BY <1>5 DEF ReadPayload, OnTheLeg, LegShape, Handling
  <2>2. UNCHANGED <<parkTok, chunkCh, used, total>> /\ wire' = [wire EXCEPT ![i] = Tail(wire[i])]
    BY <1>5 DEF ReadPayload, Discard
  <2>3. CASE reader' = [reader EXCEPT ![i] = "put"] /\ UNCHANGED <<chunk, forced>>
    BY <1>1, <1>2, <2>1, <2>2, <2>3 DEF WireShape, LegShape, ReadShape, OnTheLeg, Handling
  <2>4. CASE /\ forced' = chunk[i] + 1 /\ reader' = [reader EXCEPT ![i] = "force"] /\ UNCHANGED chunk
    <3>1. forced' \in 0..MaxChunks
      BY <2>1, <2>4, SeqsAre DEF Seqs
    <3> QED
      BY <1>1, <1>2, <2>1, <2>2, <2>4, <3>1 DEF WireShape, LegShape, ReadShape, OnTheLeg, Handling
  <2>5. CASE Discard(i) /\ UNCHANGED forced
    BY <1>1, <1>2, <2>1, <2>2, <2>5 DEF Discard, WireShape, LegShape, ReadShape, OnTheLeg, Handling
  <2> QED
    BY <1>5, <2>3, <2>4, <2>5 DEF ReadPayload
<1>6. CASE ForceAwaited(i)
  <2>1. reader[i] = "force" /\ chunk[i] \in Seqs /\ UNCHANGED <<forced, parkTok, chunkCh, total, wire>>
    BY <1>6 DEF ForceAwaited, LegShape
  <2>2. CASE /\ reader' = [reader EXCEPT ![i] = "header"] /\ chunk' = [chunk EXCEPT ![i] = Nothing]
             /\ UNCHANGED used
    BY <1>1, <2>1, <2>2 DEF WireShape, LegShape, ReadShape, OnTheLeg, Handling
  <2>3. CASE used' = used + 1 /\ reader' = [reader EXCEPT ![i] = "put"] /\ UNCHANGED chunk
    BY <1>1, <2>1, <2>3 DEF WireShape, LegShape, ReadShape, OnTheLeg, Handling
  <2> QED
    BY <1>6, <2>2, <2>3 DEF ForceAwaited
<1>9. CASE Put(i)
  <2>1. reader[i] = "put" /\ chunk[i] \in Seqs /\ UNCHANGED <<forced, parkTok, used, total, wire>>
    BY <1>9 DEF Put, LegShape
  <2>2. chunkCh' \in Seq(Seqs) /\ Len(chunkCh') = Len(chunkCh) + 1 /\ Len(chunkCh) < ChCap /\ Len(chunkCh) \in Nat
    BY <1>9, <2>1, Appended DEF Put, LegShape
  <2>3. Len(chunkCh') <= ChCap
    BY <2>2, CapsAre
  <2> QED
    BY <1>1, <1>9, <2>1, <2>2, <2>3 DEF Put, WireShape, LegShape, ReadShape, OnTheLeg, Handling
<1>7. CASE ReaderStops(i) \/ LegFails(i)
  <2>1. /\ reader' = [reader EXCEPT ![i] = "failed"] /\ chunk' = [chunk EXCEPT ![i] = Nothing]
        /\ used' = used \/ used' = used - 1
        /\ UNCHANGED <<forced, parkTok, chunkCh, total, wire>>
    BY <1>7 DEF ReaderStops, LegFails
  <2> QED
    BY <1>1, <2>1 DEF WireShape, LegShape, ReadShape, OnTheLeg, Handling
<1>8. CASE LegDone(i)
  BY <1>1, <1>8 DEF LegDone, WireShape, LegShape, ReadShape, OnTheLeg, Handling
<1> QED
  BY <1>3, <1>4, <1>5, <1>6, <1>7, <1>8, <1>9 DEF LegStep


\* The steps of Read, told apart by what they do with the chunks.
StashNext == chunkCh # <<>> /\ chunkCh' = Tail(chunkCh) /\ Head(chunkCh) = nextSeq
             /\ nextSeq' = nextSeq + 1 /\ readBuf' = nextSeq /\ UNCHANGED <<pending, used, got>>
StashLater == /\ chunkCh # <<>> /\ chunkCh' = Tail(chunkCh) /\ Head(chunkCh) > nextSeq /\ Head(chunkCh) \notin pending
              /\ pending' = pending \cup {Head(chunkCh)} /\ UNCHANGED <<nextSeq, readBuf, used, got>>
StashCopy == /\ chunkCh # <<>> /\ chunkCh' = Tail(chunkCh)
             /\ Head(chunkCh) < nextSeq \/ Head(chunkCh) \in pending
             /\ used' = used - 1 /\ UNCHANGED <<pending, nextSeq, readBuf, got>>
Drops == /\ chunkCh' = <<>> /\ pending' = {} /\ used' = used - Len(chunkCh) - Cardinality(pending)
         /\ readPc' = "select" /\ was' = {} /\ UNCHANGED <<nextSeq, readBuf, got>>
         /\ result' \in {"eof", "error"} /\ err' \in {err, "none", "short", "stall", "budget"}
Looks == UNCHANGED <<chunkCh, used, pending, nextSeq, readBuf, got, err, result>>

LEMMA KindsOfRead ==
    ASSUME ReadStep \/ Stalls
    PROVE  \/ Deliver
           \/ InRead /\ (StashNext \/ StashLater \/ StashCopy) /\ UNCHANGED <<was, readPc, err, result>>
           \/ Consume \/ ParkDrain \/ Drops
           \/ Looks /\ (ParkFirstLook \/ (readPc' = "select" /\ was' = {}))
<1>1. ASSUME NEW r \in {"eof", "error"}, NEW e \in {"none", "short", "stall", "budget"}, Return(r, e) PROVE Drops
  BY <1>1 DEF Return, Drops
<1>2. CASE Stash
  BY <1>2 DEF Stash, StashNext, StashLater, StashCopy
<1>3. CASE ReturnEOF \/ ReturnError \/ Stalls
  BY <1>1, <1>3 DEF ReturnEOF, ReturnError, Stalls
<1>4. CASE ParkFirstLook
  BY <1>4 DEF ParkFirstLook, Looks
<1>5. CASE ParkSecondLook
  BY <1>1, <1>5 DEF ParkSecondLook, Looks
<1> QED
  BY <1>2, <1>3, <1>4, <1>5 DEF ReadStep

LEMMA PendingFinite ==
    ASSUME ReadShape PROVE IsFiniteSet(pending) /\ Cardinality(pending) \in Nat
BY SeqsAre, FS_Subset, FS_CardinalityType DEF ReadShape

\* What is drained is new, and the drain brings no more than it finds.
LEMMA DrainBrings ==
    ASSUME LegShape, ReadShape
    PROVE  /\ Drained \subseteq Seqs /\ IsFiniteSet(Drained) /\ Cardinality(Drained) \in Nat
           /\ Cardinality(Drained) >= Cardinality(pending)
           /\ Cardinality(Drained) - Cardinality(pending) <= Len(chunkCh)
<1> DEFINE E == Elems(chunkCh)
           N == {q \in E : q >= nextSeq} \ pending
<1>1. \A k \in 1..Len(chunkCh) : chunkCh[k] \in Seqs
  BY DEF LegShape
<1>2. E \subseteq Seqs /\ Len(chunkCh) \in Nat
  BY <1>1 DEF Elems, LegShape
<1>3. pending \subseteq Seqs
  BY DEF ReadShape
<1>4. Drained = pending \cup N /\ pending \cap N = {} /\ N \subseteq E /\ Drained \subseteq Seqs
  BY <1>2, <1>3 DEF Drained
<1>5. IsFiniteSet(E) /\ IsFiniteSet(N) /\ IsFiniteSet(pending) /\ IsFiniteSet(Drained)
  BY <1>2, <1>3, <1>4, SeqsAre, FS_Subset
<1>6. Cardinality(N) <= Cardinality(E) /\ Cardinality(N) \in Nat /\ Cardinality(E) \in Nat
      /\ Cardinality(pending) \in Nat /\ Cardinality(Drained) \in Nat
  BY <1>4, <1>5, FS_Subset, FS_CardinalityType
<1>7. Cardinality(E) <= Len(chunkCh)
  <2> DEFINE f == [k \in 1..Len(chunkCh) |-> chunkCh[k]]
  <2>1. f \in Surjection(1..Len(chunkCh), E)
    BY DEF Elems, Surjection
  <2>2. ExistsSurjection(1..Len(chunkCh), E)
    BY <2>1 DEF ExistsSurjection
  <2> QED
    BY <1>2, <2>2, FS_SurjCardinalityBound
<1>8. Cardinality(Drained) = Cardinality(pending) + Cardinality(N) - Cardinality(pending \cap N)
  BY <1>4, <1>5, FS_Union
<1>9. Cardinality(pending \cap N) = 0
  BY <1>4, FS_EmptySet
<1> HIDE DEF E, N
<1>10. Cardinality(Drained) = Cardinality(pending) + Cardinality(N)
  BY <1>6, <1>8, <1>9
<1> QED
  BY <1>2, <1>4, <1>5, <1>6, <1>7, <1>10

LEMMA ReadShapeStep ==
    ASSUME Shape, OnTheLeg, ReadStep \/ Stalls PROVE Shape' /\ OnTheLeg'
<1> USE DEF Shape
<1>1. UNCHANGED readFrame
  BY ReadFrame
<1>2. SenderShape' /\ WireShape' /\ OnTheLeg'
  BY <1>1 DEF readFrame, senderVars, writeVars, closeVars, SenderShape, WireShape, OnTheLeg
<1>3. nextSeq \in Nat /\ Len(chunkCh) \in Nat /\ pending \subseteq Seqs /\ chunkCh \in Seq(Seqs)
      /\ Len(chunkCh) <= ChCap /\ used \in Int
  BY DEF ReadShape, LegShape
<1>4. ASSUME chunkCh' \in Seq(Seqs), Len(chunkCh') <= ChCap, parkTok' \in BOOLEAN, ReadShape' PROVE Shape' /\ OnTheLeg'
  BY <1>1, <1>2, <1>4 DEF readFrame, LegShape
<1>5. parkTok' \in BOOLEAN
  <2>1. parkTok' = parkTok \/ parkTok' = FALSE
    BY DEF ReadStep, Stalls, Deliver, Stash, Consume, ReturnEOF, ReturnError, Return, ParkFirstLook, ParkDrain, ParkSecondLook
  <2> QED
    BY <2>1 DEF LegShape
<1>6. CASE Deliver
  <2>1. nextSeq' \in 0..MaxChunks /\ pending' \subseteq Seqs
    BY <1>3, <1>6, SeqsAre DEF Deliver, Seqs
  <2>2. readBuf' \in Seqs
    BY <1>3, <1>6 DEF Deliver
  <2>3. UNCHANGED <<used, got, was, readPc, err, result, chunkCh>>
    BY <1>6 DEF Deliver
  <2>4. ReadShape'
    BY <2>1, <2>2, <2>3 DEF ReadShape
  <2> QED
    BY <1>3, <1>4, <1>5, <2>3, <2>4
<1>7. CASE (StashNext \/ StashLater \/ StashCopy) /\ UNCHANGED <<was, readPc, err, result>>
  <2>1. Head(chunkCh) \in Seqs /\ Tail(chunkCh) \in Seq(Seqs) /\ Len(Tail(chunkCh)) = Len(chunkCh) - 1
    BY <1>3, <1>7, Behead DEF StashNext, StashLater, StashCopy
  <2>2. chunkCh' \in Seq(Seqs) /\ Len(chunkCh') <= ChCap
    <3>1. chunkCh' = Tail(chunkCh)
      BY <1>7 DEF StashNext, StashLater, StashCopy
    <3> QED
      BY <1>3, <2>1, <3>1, CapsAre
  <2>3. nextSeq' \in 0..MaxChunks /\ pending' \subseteq Seqs /\ used' \in Int
    <3>1. nextSeq \in 0..MaxChunks /\ (Head(chunkCh) = nextSeq => nextSeq + 1 \in 0..MaxChunks)
      BY <2>1, SeqsAre DEF Seqs, ReadShape
    <3> QED
      BY <1>3, <1>7, <2>1, <3>1 DEF StashNext, StashLater, StashCopy
  <2>4. readBuf' \in Seqs \cup {Nothing} /\ got' \in Seq(Seqs)
    BY <1>7, <2>1 DEF StashNext, StashLater, StashCopy, ReadShape
  <2>5. ReadShape'
    BY <1>7, <2>3, <2>4 DEF ReadShape
  <2> QED
    BY <1>4, <1>5, <2>2, <2>5
<1>8. CASE Consume
  <2>1. readBuf' = Nothing /\ got' \in Seq(Seqs)
    BY <1>8, Appended DEF Consume, ReadShape
  <2> QED
    BY <1>3, <1>4, <1>5, <1>8, <2>1 DEF Consume, ReadShape
<1>9. CASE ParkDrain
  <2>1. UNCHANGED <<nextSeq, readBuf, got, err, result>> /\ pending' = Drained /\ chunkCh' = <<>>
        /\ used' = DrainCharge /\ readPc' \in {"select", "look"} /\ (was' = {} \/ was' = was)
    BY <1>9 DEF ParkDrain
  <2>2. used' \in Int
    <3>1. Cardinality(Drained) \in Nat /\ Cardinality(pending) \in Nat
      BY DrainBrings, PendingFinite
    <3> QED
      BY <2>1, <1>3, <3>1 DEF DrainCharge
  <2>3. ReadShape'
    BY <2>1, <2>2, DrainBrings DEF ReadShape
  <2> QED
    BY <1>4, <1>5, <2>1, <2>3, CapsAre
<1>10. CASE Drops
  <2>1. used' \in Int
    BY <1>3, <1>10, PendingFinite DEF Drops
  <2>2. ReadShape'
    BY <1>10, <2>1 DEF ReadShape, Drops
  <2> QED
    BY <1>4, <1>5, <1>10, <2>2, CapsAre DEF Drops
<1>11. CASE Looks /\ (ParkFirstLook \/ (readPc' = "select" /\ was' = {}))
  <2>1. ParkedPast \subseteq Legs \X Seqs
    BY DEF ParkedPast, LegShape, Handling
  <2>2. was' \subseteq Legs \X Seqs /\ readPc' \in {"select", "drain", "look"}
    BY <1>11, <2>1 DEF ParkFirstLook
  <2> QED
    BY <1>3, <1>4, <1>5, <1>11, <2>2 DEF Looks, ReadShape
<1> QED
  BY <1>6, <1>7, <1>8, <1>9, <1>10, <1>11, KindsOfRead

\* Every step keeps the shapes, and what is being read in on its leg.
LEMMA ShapeStep ==
    ASSUME Shape, OnTheLeg, [Next]_vars PROVE Shape' /\ OnTheLeg'
<1>1. CASE SenderOrWire
  <2>1. LegShape' /\ ReadShape'
    BY <1>1, SenderFrame DEF receiverVars, legReaders, readVars, Shape, LegShape, ReadShape
  <2> QED
    BY <1>1, <2>1, SenderShapeStep, WireShapeStep DEF Shape
<1>2. ASSUME NEW i \in Legs, LegStep(i) PROVE Shape' /\ OnTheLeg'
  <2>1. UNCHANGED <<senderVars, sender, legEnd, pending, nextSeq, readBuf, got, was, readPc, result>>
    BY <1>2, LegFrame
  <2>2. SenderShape'
    BY <2>1 DEF senderVars, writeVars, closeVars, Shape, SenderShape
  <2>3. err' \in {"none", "leg", "stall", "budget", "short"}
    <3>1. err' = err \/ err' = "leg"
      BY <1>2 DEF LegStep, KeepOthers, readVars, ReadHeader, ParkLook, ReadPayload, ForceAwaited, Put, ReaderStops, LegDone, LegFails
    <3> QED
      BY <3>1 DEF Shape, ReadShape
  <2>4. WireShape' /\ LegShape' /\ OnTheLeg' /\ used' \in Int
    BY <1>2, LegShapeStep
  <2>5. ReadShape'
    BY <2>1, <2>3, <2>4 DEF Shape, ReadShape
  <2> QED
    BY <2>2, <2>4, <2>5 DEF Shape
<1>3. CASE ReadStep \/ Stalls
  BY <1>3, ReadShapeStep
<1>4. CASE UNCHANGED vars
  BY <1>4 DEF vars, senderVars, writeVars, closeVars, legReaders, readVars, Shape, SenderShape, WireShape, LegShape, ReadShape, OnTheLeg
<1> QED
  BY <1>1, <1>2, <1>3, <1>4, KindsOfStep


-----------------------------------------------------------------------------
(* Numbers. *)

LEMMA TakenType ==
    ASSUME Shape
    PROVE  Taken \in Int /\ Accepted \in Nat /\ Accepted <= writeSeq /\ writeSeq \in Nat /\ Len(writeQueue) \in Nat
BY SeqsAre DEF Shape, SenderShape, Taken, Accepted

LEMMA NumbersAre == \A q \in Seqs \cup Frames \cup {Nothing} : q \in Int
BY Markers, SeqsAre DEF Nothing

LEMMA BelowMore ==
    ASSUME Shape, NEW n \in Int
    PROVE  /\ InHandBelow(n) => InHandBelow(n + 1)
           /\ OnLegsBelow(n) => OnLegsBelow(n + 1)
           /\ ReadBelow(n) => ReadBelow(n + 1)
<1>1. /\ \A k \in 1..Len(resendQueue) : resendQueue[k] \in Int
      /\ \A i \in Legs : inSeq[i] \in Int
  <2>1. /\ \A k \in 1..Len(resendQueue) : resendQueue[k] \in Seqs
        /\ \A i \in Legs : inSeq[i] \in Seqs \cup {Nothing}
    BY DEF Shape, SenderShape
  <2> QED
    BY <2>1, NumbersAre
<1>2. \A i \in Legs : \A k \in 1..Len(wire[i]) : wire[i][k] \in Int
  <2> SUFFICES ASSUME NEW i \in Legs, NEW k \in 1..Len(wire[i]) PROVE wire[i][k] \in Int
    OBVIOUS
  <2>1. wire[i] \in Seq(Frames)
    BY DEF Shape, WireShape
  <2> QED
    BY <2>1, NumbersAre
<1>3. /\ \A i \in Legs : chunk[i] \in Int
      /\ \A k \in 1..Len(chunkCh) : chunkCh[k] \in Int
      /\ \A q \in pending : q \in Int
      /\ nextSeq \in Int
  <2>1. /\ \A i \in Legs : chunk[i] \in Seqs \cup {Nothing}
        /\ \A k \in 1..Len(chunkCh) : chunkCh[k] \in Seqs
        /\ \A q \in pending : q \in Seqs
    BY DEF Shape, LegShape, ReadShape
  <2>2. nextSeq \in Int
    BY DEF Shape, ReadShape
  <2> QED
    BY <2>1, <2>2, NumbersAre
<1>4. \A x \in Int : x < n => x < n + 1
  OBVIOUS
<1>5. InHandBelow(n) => InHandBelow(n + 1)
  BY <1>1, <1>4 DEF InHandBelow
<1>6. OnLegsBelow(n) => OnLegsBelow(n + 1)
  BY <1>2, <1>4 DEF OnLegsBelow
<1>7. ReadBelow(n) => ReadBelow(n + 1)
  BY <1>3, <1>4 DEF ReadBelow
<1> QED
  BY <1>5, <1>6, <1>7

\* The sender's numbers: only TakeJob takes a chunk from writeQueue.
LEMMA SenderNumbers ==
    ASSUME Shape, NumberedInOrder, SenderOrWire
    PROVE  /\ QueueInOrder' /\ InHandBelow(Taken)'
           /\ Taken' = Taken \/ (Taken' = Taken + 1 /\ wire' = wire)
<1> USE TakenType DEF Shape, NumberedInOrder
<1>0. /\ resendQueue \in Seq(Seqs) /\ writeQueue \in Seq(Seqs)
      /\ inSeq \in [Legs -> Seqs \cup {Nothing}] /\ Nothing < Taken /\ Taken \in Int
  BY DEF SenderShape, QueueInOrder, Nothing
<1>9. CASE Write \/ WriteRefused
  <2>2. UNCHANGED <<writeQueue, resendQueue, inSeq>>
    BY <1>9 DEF Write, WriteRefused, writeFrame
  <2>3. writeSeq \in Int
    BY CapsAre DEF SenderShape
  <2>4. \/ writer = "idle" /\ writer' = "queueing" /\ writeSeq' = writeSeq + 1
        \/ writer = "queueing" /\ writer' = "refused" /\ writeSeq' = writeSeq
    BY <1>9 DEF Write, WriteRefused
  <2>5. Accepted' = Accepted
    BY <2>3, <2>4 DEF Accepted
  <2>1. Accepted' = Accepted /\ UNCHANGED <<writeQueue, resendQueue, inSeq>>
    BY <2>2, <2>5
  <2> QED
    BY <2>1 DEF Taken, QueueInOrder, InHandBelow
<1>1. CASE Enqueue
  <2>1. writeSeq - 1 \in Seqs /\ Accepted = writeSeq - 1 /\ Accepted' = Accepted + 1 /\ UNCHANGED <<resendQueue, inSeq>>
    BY <1>1, SeqsAre DEF Enqueue, writeFrame, Seqs, SenderShape, Accepted
  <2>2. /\ Len(writeQueue') = Len(writeQueue) + 1 /\ writeQueue'[Len(writeQueue) + 1] = Accepted
        /\ \A k \in 1..Len(writeQueue) : writeQueue'[k] = writeQueue[k]
    BY <1>0, <1>1, <2>1, Appended DEF Enqueue
  <2>3. Taken' = Taken
    BY <2>1, <2>2 DEF Taken
  <2>4. Accepted = Taken + (Len(writeQueue) + 1) - 1
    BY DEF Taken
  <2>5. \A k \in 1..(Len(writeQueue) + 1) : k \in 1..Len(writeQueue) \/ k = Len(writeQueue) + 1
    OBVIOUS
  <2>6. QueueInOrder'
    BY <2>2, <2>3, <2>4, <2>5 DEF QueueInOrder
  <2> QED
    BY <2>1, <2>3, <2>6 DEF InHandBelow
<1>2. ASSUME NEW i \in Legs, TakeJob(i), resendQueue # <<>>, inSeq' = [inSeq EXCEPT ![i] = Head(resendQueue)],
             resendQueue' = Tail(resendQueue), UNCHANGED writeQueue
      PROVE  QueueInOrder' /\ InHandBelow(Taken)' /\ Taken' = Taken
  <2>1. Taken' = Taken /\ QueueInOrder'
    BY <1>2 DEF TakeJob, writeVars, Accepted, Taken, QueueInOrder
  <2>2. /\ Len(Tail(resendQueue)) = Len(resendQueue) - 1 /\ Len(resendQueue) \in Nat \ {0}
        /\ Head(resendQueue) = resendQueue[1] /\ \A k \in 1..(Len(resendQueue) - 1) : Tail(resendQueue)[k] = resendQueue[k + 1]
    BY <1>0, <1>2, Behead
  <2>3. \A k \in 1..(Len(resendQueue) - 1) : k + 1 \in 1..Len(resendQueue)
    BY <2>2
  <2>4. \A k \in 1..Len(resendQueue') : resendQueue'[k] < Taken
    BY <1>2, <2>2, <2>3 DEF InHandBelow
  <2>5. Head(resendQueue) < Taken
    BY <2>2 DEF InHandBelow
  <2>6. \A j \in Legs : inSeq'[j] < Taken
    BY <1>0, <1>2, <2>5 DEF InHandBelow
  <2> QED
    BY <2>1, <2>4, <2>6 DEF InHandBelow
<1>3. ASSUME NEW i \in Legs, TakeJob(i), writeQueue # <<>>, inSeq' = [inSeq EXCEPT ![i] = Head(writeQueue)],
             writeQueue' = Tail(writeQueue), UNCHANGED resendQueue
      PROVE  QueueInOrder' /\ InHandBelow(Taken)' /\ Taken' = Taken + 1 /\ wire' = wire
  <2>1. /\ Len(Tail(writeQueue)) = Len(writeQueue) - 1 /\ Len(writeQueue) \in Nat \ {0}
        /\ Head(writeQueue) = writeQueue[1] /\ \A k \in 1..(Len(writeQueue) - 1) : Tail(writeQueue)[k] = writeQueue[k + 1]
    BY <1>0, <1>3, Behead
  <2>2. Taken' = Taken + 1
    <3>1. Accepted' = Accepted
      BY <1>3 DEF TakeJob, writeVars, Accepted
    <3> QED
      BY <1>3, <2>1, <3>1 DEF Taken
  <2>3. Head(writeQueue) = Taken
    BY <2>1 DEF QueueInOrder
  <2>4. QueueInOrder'
    <3>1. \A k \in 1..(Len(writeQueue) - 1) : k + 1 \in 1..Len(writeQueue) /\ Taken + (k + 1) - 1 = (Taken + 1) + k - 1
      BY <2>1
    <3> QED
      BY <1>3, <2>1, <2>2, <3>1 DEF QueueInOrder
  <2>5. InHandBelow(Taken + 1)
    BY BelowMore
  <2>6. \A j \in Legs : inSeq'[j] < Taken + 1
    BY <1>0, <1>3, <2>3, <2>5 DEF InHandBelow
  <2>7. InHandBelow(Taken)'
    BY <1>3, <2>2, <2>5, <2>6 DEF InHandBelow
  <2> QED
    BY <1>3, <2>2, <2>4, <2>7 DEF TakeJob
<1>4. ASSUME NEW i \in Legs, Reroute(i)
      PROVE  QueueInOrder' /\ InHandBelow(Taken)' /\ Taken' = Taken
  <2>1. Taken' = Taken /\ QueueInOrder'
    BY <1>4 DEF Reroute, writeVars, Accepted, Taken, QueueInOrder
  <2>2. inSeq[i] \in Seqs
    BY <1>4 DEF Reroute, SenderShape
  <2>3. /\ Len(resendQueue') = Len(resendQueue) + 1 /\ resendQueue'[Len(resendQueue) + 1] = inSeq[i]
        /\ \A k \in 1..Len(resendQueue) : resendQueue'[k] = resendQueue[k]
    BY <1>0, <1>4, <2>2, Appended DEF Reroute
  <2>4. \A k \in 1..(Len(resendQueue) + 1) : k \in 1..Len(resendQueue) \/ k = Len(resendQueue) + 1
    BY <1>0
  <2>5. \A k \in 1..Len(resendQueue') : resendQueue'[k] < Taken
    BY <2>3, <2>4 DEF InHandBelow
  <2> QED
    BY <1>4, <2>1, <2>5 DEF InHandBelow, Reroute
<1>5. ASSUME NEW i \in Legs, WriteChunk(i) \/ WriteFails(i) \/ WorkerEnds(i)
      PROVE  QueueInOrder' /\ InHandBelow(Taken)' /\ Taken' = Taken
  <2>1. Taken' = Taken /\ QueueInOrder' /\ resendQueue' = resendQueue
    BY <1>5 DEF WriteChunk, WriteFails, WorkerEnds, writeVars, Accepted, Taken, QueueInOrder
  <2>2. inSeq' = inSeq \/ inSeq' = [inSeq EXCEPT ![i] = Nothing]
    BY <1>5 DEF WriteChunk, WriteFails, WorkerEnds
  <2>3. \A j \in Legs : inSeq'[j] < Taken
    BY <1>0, <2>2 DEF InHandBelow
  <2> QED
    BY <2>1, <2>3 DEF InHandBelow
<1>6. ASSUME NEW i \in Legs, EndMarker(i) \/ Cut(i)
      PROVE  QueueInOrder' /\ InHandBelow(Taken)' /\ Taken' = Taken
  BY <1>6 DEF EndMarker, Cut, senderVars, jobs, writeVars, Accepted, Taken, QueueInOrder, InHandBelow
<1>7. CASE AbortWrite \/ CloseWrite \/ FlushTimesOut \/ ReadTotal \/ Teardown \/ ReceiverCloses
  BY <1>7 DEF AbortWrite, CloseWrite, FlushTimesOut, ReadTotal, Teardown, ReceiverCloses, senderVars, jobs, writeVars, Accepted,
              Taken, QueueInOrder, InHandBelow
<1>8. ASSUME NEW i \in Legs, TakeJob(i)
      PROVE  /\ QueueInOrder' /\ InHandBelow(Taken)'
             /\ Taken' = Taken \/ (Taken' = Taken + 1 /\ wire' = wire)
  <2>1. \/ /\ resendQueue # <<>> /\ inSeq' = [inSeq EXCEPT ![i] = Head(resendQueue)]
           /\ resendQueue' = Tail(resendQueue) /\ UNCHANGED writeQueue
        \/ /\ writeQueue # <<>> /\ inSeq' = [inSeq EXCEPT ![i] = Head(writeQueue)]
           /\ writeQueue' = Tail(writeQueue) /\ UNCHANGED resendQueue
    BY <1>8 DEF TakeJob
  <2> QED
    BY <1>2, <1>3, <1>8, <2>1
<1> QED
  BY <1>1, <1>4, <1>5, <1>6, <1>7, <1>8, <1>9 DEF SenderOrWire, SenderStep


\* What is on the legs after a step of the sender was there, or was just written.
LEMMA WireNumbers ==
    ASSUME Shape, OnTheLeg, NumberedInOrder, SenderOrWire PROVE OnLegsBelow(Taken)'
<1>0. Taken \in Int /\ Taken >= 0 /\ OnLegsBelow(Taken)
  BY TakenType DEF NumberedInOrder, QueueInOrder
<1>1. CASE wire' = wire /\ Taken' = Taken
  BY <1>0, <1>1 DEF OnLegsBelow
<1>2. CASE wire' = wire /\ Taken' = Taken + 1
  <2>1. OnLegsBelow(Taken + 1)
    BY <1>0, BelowMore
  <2> QED
    BY <1>2, <2>1 DEF OnLegsBelow
<1>3. ASSUME NEW i \in Legs, NEW e \in Frames, e < Taken,
             wire' = [wire EXCEPT ![i] = Append(wire[i], e)], Taken' = Taken
      PROVE  OnLegsBelow(Taken)'
  <2>1. wire[i] \in Seq(Frames)
    BY DEF Shape, WireShape
  <2>2. /\ Len(Append(wire[i], e)) = Len(wire[i]) + 1 /\ Append(wire[i], e)[Len(wire[i]) + 1] = e
        /\ \A k \in 1..Len(wire[i]) : Append(wire[i], e)[k] = wire[i][k]
    BY <2>1, Appended
  <2>3. \A k \in 1..(Len(wire[i]) + 1) : k \in 1..Len(wire[i]) \/ k = Len(wire[i]) + 1
    BY <2>1
  <2>4. \A k \in 1..Len(wire'[i]) : wire'[i][k] < Taken
    BY <1>0, <1>3, <2>2, <2>3 DEF OnLegsBelow, Shape, WireShape
  <2>5. \A j \in Legs : j # i => wire'[j] = wire[j]
    BY <1>3 DEF Shape, WireShape
  <2> QED
    BY <1>0, <1>3, <2>4, <2>5 DEF OnLegsBelow
<1>4. ASSUME NEW i \in Legs, Cut(i) PROVE OnLegsBelow(Taken)'
  <2>1. Taken' = Taken /\ \A j \in Legs : j # i => wire'[j] = wire[j]
    BY <1>4 DEF Cut, senderVars, writeVars, Accepted, Taken, Shape, WireShape
  <2>2. wire'[i] = <<>> \/ (wire'[i] = <<Head(wire[i])>> /\ reader[i] \in Handling)
    BY <1>4 DEF Cut, Handling, Shape, WireShape
  <2>3. reader[i] \in Handling => Head(wire[i]) = chunk[i] /\ chunk[i] < Taken
    BY DEF OnTheLeg, NumberedInOrder, ReadBelow
  <2>4. \A k \in 1..Len(wire'[i]) : wire'[i][k] < Taken
    BY <2>2, <2>3
  <2> QED
    BY <1>0, <2>1, <2>4 DEF OnLegsBelow
<1>5. ASSUME NEW i \in Legs, WriteChunk(i) PROVE OnLegsBelow(Taken)'
  <2>1. inSeq[i] \in Seqs /\ inSeq[i] < Taken /\ wire' = [wire EXCEPT ![i] = Append(wire[i], inSeq[i])] /\ Taken' = Taken
    BY <1>5 DEF WriteChunk, writeVars, Accepted, Shape, SenderShape, NumberedInOrder, InHandBelow, Taken
  <2>2. inSeq[i] \in Frames
    BY <2>1 DEF Frames
  <2> QED
    BY <1>3, <2>1, <2>2
<1>6. ASSUME NEW i \in Legs, EndMarker(i) PROVE OnLegsBelow(Taken)'
  <2>1. Marker(announced) \in Frames /\ Marker(announced) < 0 /\ Marker(announced) \in Int
    BY <1>6, Markers DEF EndMarker, Shape, SenderShape
  <2>2. Marker(announced) < Taken
    BY <1>0, <2>1
  <2>3. wire' = [wire EXCEPT ![i] = Append(wire[i], Marker(announced))] /\ Taken' = Taken
    BY <1>6 DEF EndMarker, jobs, writeVars, Accepted, Taken
  <2> QED
    BY <1>3, <2>1, <2>2, <2>3
<1>7. ASSUME NEW i \in Legs, TakeJob(i) \/ WriteFails(i) \/ WorkerEnds(i) \/ Reroute(i)
      PROVE  wire' = wire
  BY <1>7 DEF TakeJob, WriteFails, WorkerEnds, Reroute
<1>8. ASSUME Write \/ Enqueue \/ WriteRefused \/ AbortWrite \/ CloseWrite \/ FlushTimesOut \/ ReadTotal \/ Teardown \/ ReceiverCloses PROVE wire' = wire
  BY <1>8 DEF Write, Enqueue, WriteRefused, writeFrame, AbortWrite, CloseWrite, FlushTimesOut, ReadTotal, Teardown, ReceiverCloses
<1> QED
  BY <1>1, <1>2, <1>4, <1>5, <1>6, <1>7, <1>8, SenderNumbers DEF SenderOrWire, SenderStep

\* A reader takes its numbers from its leg.
LEMMA LegNumbers ==
    ASSUME Shape, OnTheLeg, NumberedInOrder, NEW i \in Legs, LegStep(i) PROVE NumberedInOrder'
<1>1. UNCHANGED <<writer, writeSeq, writeQueue, resendQueue, inSeq, pending, nextSeq>>
  BY LegFrame DEF senderVars, writeVars, closeVars
<1>2. Taken' = Taken /\ QueueInOrder' /\ InHandBelow(Taken)'
  BY <1>1 DEF Taken, Accepted, QueueInOrder, InHandBelow, NumberedInOrder
<1>3. Taken \in Int /\ Taken >= 0 /\ OnLegsBelow(Taken) /\ ReadBelow(Taken)
  BY TakenType DEF NumberedInOrder, QueueInOrder
<1>4. wire[i] \in Seq(Frames)
  BY DEF Shape, WireShape
<1>5. ASSUME wire[i] # <<>>
      PROVE  Head(wire[i]) < Taken /\ \A k \in 1..Len(Tail(wire[i])) : Tail(wire[i])[k] < Taken
  <2>1. /\ Len(Tail(wire[i])) = Len(wire[i]) - 1 /\ Len(wire[i]) \in Nat \ {0} /\ Head(wire[i]) = wire[i][1]
        /\ \A k \in 1..(Len(wire[i]) - 1) : Tail(wire[i])[k] = wire[i][k + 1]
    BY <1>4, <1>5, Behead
  <2>2. 1 \in 1..Len(wire[i]) /\ \A k \in 1..(Len(wire[i]) - 1) : k + 1 \in 1..Len(wire[i])
    BY <2>1
  <2> QED
    BY <1>3, <2>1, <2>2 DEF OnLegsBelow
<1>6. wire' = wire \/ (wire' = [wire EXCEPT ![i] = Tail(wire[i])] /\ wire[i] # <<>>)
  <2>1. CASE ReadHeader(i)
    BY <2>1 DEF ReadHeader
  <2>2. CASE ParkLook(i) \/ ReadPayload(i)
    <3>1. wire[i] # <<>>
      BY <2>2 DEF ParkLook, ReadPayload, OnTheLeg, Handling
    <3> QED
      BY <2>2, <3>1 DEF ParkLook, ReadPayload, Discard
  <2>3. CASE ForceAwaited(i) \/ Put(i) \/ ReaderStops(i) \/ LegDone(i) \/ LegFails(i)
    BY <2>3 DEF ForceAwaited, Put, ReaderStops, LegDone, LegFails
  <2> QED
    BY <2>1, <2>2, <2>3 DEF LegStep
<1>7. OnLegsBelow(Taken)'
  <2>1. \A j \in Legs : j # i => wire'[j] = wire[j]
    BY <1>6 DEF Shape, WireShape
  <2>2. \A k \in 1..Len(wire'[i]) : wire'[i][k] < Taken
    BY <1>3, <1>5, <1>6 DEF OnLegsBelow, Shape, WireShape
  <2> QED
    BY <1>2, <1>3, <2>1, <2>2 DEF OnLegsBelow
<1>8. ASSUME NEW q, q < Taken, chunk' = [chunk EXCEPT ![i] = q] PROVE \A j \in Legs : chunk'[j] < Taken
  BY <1>3, <1>8 DEF ReadBelow, Shape, LegShape
<1>9. \A j \in Legs : chunk'[j] < Taken
  <2>1. Nothing < Taken
    BY <1>3 DEF Nothing
  <2>2. CASE ReadHeader(i)
    <3>1. chunk' = chunk \/ (chunk' = [chunk EXCEPT ![i] = Head(wire[i])] /\ wire[i] # <<>>)
      BY <2>2 DEF ReadHeader
    <3> QED
      BY <1>3, <1>5, <1>8, <3>1 DEF ReadBelow
  <2>3. CASE ~ReadHeader(i)
    <3>1. chunk' = chunk \/ chunk' = [chunk EXCEPT ![i] = Nothing]
      BY <2>3 DEF LegStep, ParkLook, Discard, ReadPayload, ForceAwaited, Put, ReaderStops, LegDone, LegFails
    <3> QED
      BY <1>3, <1>8, <2>1, <3>1 DEF ReadBelow
  <2> QED
    BY <2>2, <2>3
<1>10. \A k \in 1..Len(chunkCh') : chunkCh'[k] < Taken
  <2>1. chunkCh' = chunkCh \/ (chunkCh' = Append(chunkCh, chunk[i]) /\ reader[i] = "put")
    BY DEF LegStep, ReadHeader, ParkLook, Discard, ReadPayload, ForceAwaited, Put, ReaderStops, LegDone, LegFails
  <2>2. CASE chunkCh' = Append(chunkCh, chunk[i]) /\ reader[i] = "put"
    <3>1. chunk[i] \in Seqs /\ chunkCh \in Seq(Seqs) /\ chunk[i] < Taken
      BY <1>3, <2>2 DEF ReadBelow, Shape, LegShape, Handling
    <3>2. /\ Len(chunkCh') = Len(chunkCh) + 1 /\ chunkCh'[Len(chunkCh) + 1] = chunk[i]
          /\ \A k \in 1..Len(chunkCh) : chunkCh'[k] = chunkCh[k]
      BY <2>2, <3>1, Appended
    <3>3. \A k \in 1..(Len(chunkCh) + 1) : k \in 1..Len(chunkCh) \/ k = Len(chunkCh) + 1
      BY <3>1
    <3> QED
      BY <1>3, <3>1, <3>2, <3>3 DEF ReadBelow
  <2> QED
    BY <1>3, <2>1, <2>2 DEF ReadBelow
<1> QED
  BY <1>1, <1>2, <1>3, <1>7, <1>9, <1>10 DEF NumberedInOrder, ReadBelow

\* Read moves numbers from the channel to the pending chunks, and delivers them.
LEMMA ReadNumbers ==
    ASSUME Shape, NumberedInOrder, ReadStep \/ Stalls PROVE NumberedInOrder'
<1>1. UNCHANGED <<writer, writeSeq, writeQueue, resendQueue, inSeq, wire, chunk>>
  BY ReadFrame DEF readFrame, senderVars, writeVars, closeVars
<1>2. Taken' = Taken /\ QueueInOrder' /\ InHandBelow(Taken)' /\ OnLegsBelow(Taken)'
  BY <1>1 DEF Taken, Accepted, QueueInOrder, InHandBelow, OnLegsBelow, NumberedInOrder
<1>3. /\ Taken \in Int /\ Taken >= 0 /\ nextSeq \in Int /\ chunkCh \in Seq(Seqs) /\ \A j \in Legs : chunk[j] < Taken
      /\ \A k \in 1..Len(chunkCh) : chunkCh[k] < Taken
      /\ \A q \in pending : q < Taken
      /\ nextSeq <= Taken
  BY TakenType DEF NumberedInOrder, QueueInOrder, ReadBelow, Shape, ReadShape, LegShape
<1>4. ASSUME chunkCh # <<>> PROVE Head(chunkCh) < Taken /\ \A k \in 1..Len(Tail(chunkCh)) : Tail(chunkCh)[k] < Taken
  <2>1. /\ Len(Tail(chunkCh)) = Len(chunkCh) - 1 /\ Len(chunkCh) \in Nat \ {0} /\ Head(chunkCh) = chunkCh[1]
        /\ \A k \in 1..(Len(chunkCh) - 1) : Tail(chunkCh)[k] = chunkCh[k + 1]
    BY <1>3, <1>4, Behead
  <2>2. 1 \in 1..Len(chunkCh) /\ \A k \in 1..(Len(chunkCh) - 1) : k + 1 \in 1..Len(chunkCh)
    BY <2>1
  <2> QED
    BY <1>3, <2>1, <2>2
<1>5. ReadBelow(Taken)'
  <2>1. CASE Deliver
    BY <1>1, <1>2, <1>3, <2>1 DEF Deliver, ReadBelow
  <2>2. CASE StashNext
    BY <1>1, <1>2, <1>3, <1>4, <2>2 DEF StashNext, ReadBelow
  <2>3. CASE StashLater
    BY <1>1, <1>2, <1>3, <1>4, <2>3 DEF StashLater, ReadBelow
  <2>4. CASE StashCopy
    BY <1>1, <1>2, <1>3, <1>4, <2>4 DEF StashCopy, ReadBelow
  <2>5. CASE Consume \/ Looks
    BY <1>1, <1>2, <1>3, <2>5 DEF Consume, Looks, ReadBelow
  <2>6. CASE ParkDrain
    <3>1. \A q \in Drained : q < Taken
      BY <1>3 DEF Drained, Elems
    <3> QED
      BY <1>1, <1>2, <1>3, <2>6, <3>1 DEF ParkDrain, ReadBelow
  <2>7. CASE Drops
    BY <1>1, <1>2, <1>3, <2>7 DEF Drops, ReadBelow
  <2> QED
    BY <2>1, <2>2, <2>3, <2>4, <2>5, <2>6, <2>7, KindsOfRead
<1> QED
  BY <1>2, <1>5 DEF NumberedInOrder

LEMMA NumbersStep ==
    ASSUME Shape, OnTheLeg, NumberedInOrder, [Next]_vars PROVE NumberedInOrder'
<1>1. CASE SenderOrWire
  <2>1. UNCHANGED <<chunk, chunkCh, pending, nextSeq>>
    BY <1>1, SenderFrame DEF receiverVars, legReaders, readVars
  <2>2. ReadBelow(Taken) /\ ReadBelow(Taken + 1)
    BY TakenType, BelowMore DEF NumberedInOrder
  <2>3. Taken' = Taken \/ Taken' = Taken + 1
    BY <1>1, SenderNumbers
  <2>4. ReadBelow(Taken)'
    BY <2>1, <2>2, <2>3 DEF ReadBelow
  <2> QED
    BY <1>1, <2>4, SenderNumbers, WireNumbers DEF NumberedInOrder
<1>2. CASE UNCHANGED vars
  BY <1>2 DEF vars, senderVars, writeVars, closeVars, legReaders, readVars, NumberedInOrder, QueueInOrder, InHandBelow, OnLegsBelow, ReadBelow, Taken, Accepted
<1> QED
  BY <1>1, <1>2, LegNumbers, ReadNumbers, KindsOfStep


-----------------------------------------------------------------------------
(* A clean end. *)

\* What is said of the frames of a leg, for one frame.
MarkIs(e, a) == e \notin Seqs => a # Nothing /\ e = Marker(a)
LegMarks(i) == \A k \in 1..Len(wire[i]) : MarkIs(wire[i][k], announced)
CloseMarks ==
    /\ flush => broken \/ owed <= writeSeq
    /\ announced # Nothing => flush /\ owed <= announced

LEMMA MarkedParts ==
    /\ MarkedWhole <=> CloseMarks /\ (\A i \in Legs : LegMarks(i)) /\ (total # Nothing => total = announced)
    /\ MarkedWhole' <=> CloseMarks' /\ (\A i \in Legs : LegMarks(i)') /\ (total' # Nothing => total' = announced')
BY DEF MarkedWhole, CloseMarks, LegMarks, MarkIs

\* A worker has chunks alone, and the markers are written by sendEndMarkers.
LEMMA SenderMarks ==
    ASSUME Shape, OnTheLeg, MarkedWhole, SenderOrWire PROVE MarkedWhole'
<1> USE MarkedParts
<1>0. total' = total /\ writeSeq \in Nat /\ Accepted <= writeSeq /\ Accepted \in Nat /\ owed \in Int
      /\ announced \in 0..MaxChunks \cup {Nothing}
  BY SenderFrame, TakenType DEF receiverVars, Shape, SenderShape
<1>1. CASE ReadTotal
  <2>1. announced = Nothing /\ announced' = writeSeq /\ flush /\ ~broken
        /\ UNCHANGED <<flush, broken, owed, writeSeq, wire>>
    BY <1>1 DEF ReadTotal, Flushed, MayMark, jobs, writeVars
  <2>2. total = Nothing
    BY <2>1
  <2>3. CloseMarks'
    BY <1>0, <2>1 DEF CloseMarks
  <2>4. \A i \in Legs : \A k \in 1..Len(wire[i]) : wire[i][k] \in Seqs
    BY <2>1 DEF LegMarks, MarkIs
  <2>5. \A i \in Legs : LegMarks(i)'
    BY <2>1, <2>4 DEF LegMarks, MarkIs
  <2> QED
    BY <1>0, <2>2, <2>3, <2>5
<1>2. CASE CloseWrite
  <2>1. ~flush /\ owed' = (IF broken THEN MaxChunks + 1 ELSE Accepted) /\ flush' = TRUE
        /\ UNCHANGED <<broken, announced, writeSeq, wire>>
    BY <1>2 DEF CloseWrite, jobs, writeVars
  <2>2. announced = Nothing
    BY <2>1 DEF CloseMarks
  <2>3. CloseMarks'
    BY <1>0, <2>1, <2>2 DEF CloseMarks
  <2> QED
    BY <1>0, <2>1, <2>3 DEF LegMarks
<1>3. ASSUME announced' = announced, flush' = flush, owed' = owed, broken' = broken \/ broken' = TRUE,
             writeSeq' = writeSeq \/ writeSeq' = writeSeq + 1
      PROVE  CloseMarks'
  BY <1>0, <1>3 DEF CloseMarks
<1>4. ASSUME ~ReadTotal, ~CloseWrite
      PROVE  /\ announced' = announced /\ flush' = flush /\ owed' = owed /\ (broken' = broken \/ broken' = TRUE)
             /\ writeSeq' = writeSeq \/ writeSeq' = writeSeq + 1
  <2>1. CASE Write \/ Enqueue \/ WriteRefused \/ AbortWrite \/ FlushTimesOut \/ Teardown \/ ReceiverCloses
    BY <2>1 DEF Write, Enqueue, WriteRefused, writeFrame, AbortWrite, FlushTimesOut, Teardown, ReceiverCloses, senderVars, jobs,
                writeVars, closeVars
  <2>2. ASSUME NEW i \in Legs, TakeJob(i) \/ WriteChunk(i) \/ WriteFails(i) \/ WorkerEnds(i) \/ EndMarker(i) \/ Reroute(i) \/ Cut(i)
        PROVE  UNCHANGED <<announced, flush, owed, broken, writeSeq>>
    BY <2>2 DEF TakeJob, WriteChunk, WriteFails, WorkerEnds, EndMarker, Reroute, Cut, senderVars, jobs, writeVars, closeVars
  <2> QED
    BY <1>4, <2>1, <2>2 DEF SenderOrWire, SenderStep
<1>5. ASSUME NEW i \in Legs, NEW e \in Frames, MarkIs(e, announced), wire' = [wire EXCEPT ![i] = Append(wire[i], e)],
             announced' = announced
      PROVE  \A j \in Legs : LegMarks(j)'
  <2>1. wire[i] \in Seq(Frames)
    BY DEF Shape, WireShape
  <2>2. /\ Len(Append(wire[i], e)) = Len(wire[i]) + 1 /\ Append(wire[i], e)[Len(wire[i]) + 1] = e
        /\ \A k \in 1..Len(wire[i]) : Append(wire[i], e)[k] = wire[i][k]
    BY <2>1, Appended
  <2>3. \A k \in 1..(Len(wire[i]) + 1) : k \in 1..Len(wire[i]) \/ k = Len(wire[i]) + 1
    BY <2>1
  <2>4. wire'[i] = Append(wire[i], e) /\ \A j \in Legs : j # i => wire'[j] = wire[j]
    BY <1>5 DEF Shape, WireShape
  <2>5. \A k \in 1..Len(wire'[i]) : MarkIs(wire'[i][k], announced)
    BY <1>5, <2>2, <2>3, <2>4 DEF LegMarks
  <2> QED
    BY <1>5, <2>4, <2>5 DEF LegMarks
<1>6. ASSUME NEW i \in Legs, WriteChunk(i) PROVE MarkedWhole'
  <2>1. inSeq[i] \in Seqs /\ inSeq[i] \in Frames /\ wire' = [wire EXCEPT ![i] = Append(wire[i], inSeq[i])]
    BY <1>6 DEF WriteChunk, Shape, SenderShape, Frames
  <2>2. UNCHANGED <<announced, flush, owed, broken, writeSeq>>
    BY <1>6 DEF WriteChunk, writeVars, closeVars
  <2>3. \A j \in Legs : LegMarks(j)'
    BY <1>5, <2>1, <2>2 DEF MarkIs
  <2> QED
    BY <1>0, <1>3, <2>2, <2>3
<1>7. ASSUME NEW i \in Legs, EndMarker(i) PROVE MarkedWhole'
  <2>1. announced # Nothing /\ wire' = [wire EXCEPT ![i] = Append(wire[i], Marker(announced))]
        /\ UNCHANGED <<announced, flush, owed, broken, writeSeq>>
    BY <1>7 DEF EndMarker, jobs, writeVars
  <2>2. Marker(announced) \in Frames
    BY <1>0, <2>1, Markers
  <2>3. \A j \in Legs : LegMarks(j)'
    BY <1>5, <2>1, <2>2 DEF MarkIs
  <2> QED
    BY <1>0, <1>3, <2>1, <2>3
<1>8. ASSUME NEW i \in Legs, Cut(i) PROVE MarkedWhole'
  <2>1. UNCHANGED <<announced, flush, owed, broken, writeSeq>>
    BY <1>8 DEF Cut, senderVars, writeVars, closeVars
  <2>2. wire'[i] = <<>> \/ (wire'[i] = <<Head(wire[i])>> /\ reader[i] \in Handling)
    BY <1>8 DEF Cut, Handling, Shape, WireShape
  <2>3. reader[i] \in Handling => Head(wire[i]) \in Seqs
    BY DEF OnTheLeg, Shape, LegShape
  <2>4. \A k \in 1..Len(wire'[i]) : wire'[i][k] \in Seqs
    BY <2>2, <2>3
  <2>5. \A j \in Legs : j # i => wire'[j] = wire[j]
    BY <1>8 DEF Cut, Shape, WireShape
  <2>6. \A j \in Legs : LegMarks(j)'
    BY <2>1, <2>4, <2>5 DEF LegMarks, MarkIs
  <2> QED
    BY <1>0, <1>3, <2>1, <2>6
<1>9. ASSUME wire' = wire, ~ReadTotal, ~CloseWrite PROVE MarkedWhole'
  BY <1>0, <1>3, <1>4, <1>9 DEF LegMarks
<1>10. ASSUME NEW i \in Legs, TakeJob(i) \/ WriteFails(i) \/ WorkerEnds(i) \/ Reroute(i)
      PROVE  wire' = wire
  BY <1>10 DEF TakeJob, WriteFails, WorkerEnds, Reroute
<1>11. ASSUME Write \/ Enqueue \/ WriteRefused \/ AbortWrite \/ FlushTimesOut \/ Teardown \/ ReceiverCloses PROVE wire' = wire
  BY <1>11 DEF Write, Enqueue, WriteRefused, writeFrame, AbortWrite, FlushTimesOut, Teardown, ReceiverCloses
<1> QED
  BY <1>1, <1>2, <1>6, <1>7, <1>8, <1>9, <1>10, <1>11 DEF SenderOrWire, SenderStep

LEMMA MarkedWholeStep ==
    ASSUME Shape, OnTheLeg, MarkedWhole, [Next]_vars PROVE MarkedWhole'
<1> USE MarkedParts
<1>3. ASSUME NEW i \in Legs, LegStep(i) PROVE MarkedWhole'
  <2>1. UNCHANGED <<flush, broken, owed, announced, writeSeq>>
    BY <1>3, LegFrame DEF senderVars, writeVars, closeVars
  <2>2. wire[i] \in Seq(Frames) /\ announced \in 0..MaxChunks \cup {Nothing}
    BY DEF Shape, WireShape, SenderShape
  <2>3. wire' = wire \/ wire' = [wire EXCEPT ![i] = Tail(wire[i])]
    BY <1>3, OneLeg
  <2>4. ASSUME wire[i] # <<>>
        PROVE  /\ Len(Tail(wire[i])) = Len(wire[i]) - 1 /\ Len(wire[i]) \in Nat \ {0} /\ Head(wire[i]) = wire[i][1]
               /\ \A k \in 1..(Len(wire[i]) - 1) : Tail(wire[i])[k] = wire[i][k + 1] /\ k + 1 \in 1..Len(wire[i])
    BY <2>2, <2>4, Behead
  <2>5. ASSUME wire[i] = <<>> PROVE wire' = wire
    <3>1. reader[i] \notin Handling
      BY <2>5 DEF OnTheLeg
    <3> QED
      BY <1>3, <2>5, <3>1 DEF LegStep, Handling, ReadHeader, ParkLook, ReadPayload, ForceAwaited, Put, ReaderStops, LegDone, LegFails
  <2>6. ASSUME NEW j \in Legs PROVE LegMarks(j)'
    <3>1. CASE j = i /\ wire' # wire
      <4>1. wire'[j] = Tail(wire[i]) /\ wire[i] # <<>>
        BY <2>3, <2>5, <3>1 DEF Shape, WireShape
      <4>2. \A k \in 1..(Len(wire[i]) - 1) : MarkIs(Tail(wire[i])[k], announced)
        BY <2>4, <4>1 DEF LegMarks
      <4> QED
        BY <2>1, <2>4, <4>1, <4>2 DEF LegMarks
    <3>2. CASE j # i \/ wire' = wire
      <4>1. wire'[j] = wire[j]
        BY <2>3, <3>2 DEF Shape, WireShape
      <4> QED
        BY <2>1, <4>1 DEF LegMarks
    <3> QED
      BY <3>1, <3>2
  <2>7. total' # Nothing => total' = announced
    <3>1. CASE ReadHeader(i) /\ Head(wire[i]) \notin Seqs
      <4>1. wire[i] # <<>> /\ Head(wire[i]) \notin Seqs /\ total' = Marker(Head(wire[i]))
        BY <3>1 DEF ReadHeader
      <4>2. MarkIs(Head(wire[i]), announced)
        BY <2>4, <4>1 DEF LegMarks
      <4>3. announced # Nothing /\ Head(wire[i]) = Marker(announced)
        BY <4>1, <4>2 DEF MarkIs
      <4>4. Marker(Marker(announced)) = announced
        BY <2>2, <4>3, Markers
      <4> QED
        BY <4>1, <4>3, <4>4
    <3>2. CASE ~(ReadHeader(i) /\ Head(wire[i]) \notin Seqs)
      <4>1. total' = total
        BY <1>3, <3>2 DEF LegStep, ReadHeader, ParkLook, ReadPayload, ForceAwaited, Put, ReaderStops, LegDone, LegFails
      <4> QED
        BY <4>1
    <3> QED
      BY <3>1, <3>2
  <2>8. CloseMarks'
    BY <2>1 DEF CloseMarks
  <2> QED
    BY <2>1, <2>6, <2>7, <2>8
<1>4. CASE ReadStep \/ Stalls
  <2>1. UNCHANGED <<wire, total, flush, broken, owed, announced, writeSeq>>
    BY <1>4, ReadFrame DEF readFrame, senderVars, writeVars, closeVars
  <2> QED
    BY <2>1 DEF MarkedWhole
<1>5. CASE UNCHANGED vars
  BY <1>5 DEF vars, senderVars, writeVars, closeVars, MarkedWhole
<1> QED
  BY <1>3, <1>4, <1>5, SenderMarks, KindsOfStep

\* What the caller is given: the awaited chunk goes to the read buffer when that is
\* empty, and from there to the caller.
LEMMA GotStep ==
    ASSUME Shape, GotInOrder, [Next]_vars PROVE GotInOrder'
<1>0. nextSeq \in Int /\ got \in Seq(Seqs) /\ Len(got) \in Nat /\ readBuf \in Seqs \cup {Nothing}
  BY DEF Shape, ReadShape
<1>1. ASSUME UNCHANGED <<nextSeq, readBuf, got>> PROVE GotInOrder'
  BY <1>1 DEF GotInOrder, BeingRead
<1>2. CASE SenderOrWire
  BY <1>1, <1>2, SenderFrame DEF receiverVars, readVars
<1>3. ASSUME NEW i \in Legs, LegStep(i) PROVE GotInOrder'
  BY <1>1, <1>3, LegFrame
<1>4. ASSUME readBuf = Nothing, readBuf' = nextSeq, nextSeq' = nextSeq + 1, got' = got, nextSeq \in Seqs PROVE GotInOrder'
  <2>1. nextSeq # Nothing
    BY <1>4, SeqsAre DEF Nothing
  <2> QED
    BY <1>0, <1>4, <2>1 DEF GotInOrder, BeingRead
<1>5. CASE Deliver
  BY <1>4, <1>5 DEF Deliver, InRead, Shape, ReadShape
<1>6. CASE InRead /\ StashNext
  <2>1. nextSeq \in Seqs
    BY <1>6, Behead DEF StashNext, Shape, LegShape
  <2> QED
    BY <1>4, <1>6, <2>1 DEF StashNext, InRead
<1>7. CASE Consume
  <2>1. /\ readBuf # Nothing /\ readBuf \in Seqs /\ got' = Append(got, readBuf) /\ readBuf' = Nothing /\ nextSeq' = nextSeq
        /\ readBuf = nextSeq - 1 /\ Len(got) = nextSeq - 1
    BY <1>0, <1>7 DEF Consume, GotInOrder, BeingRead
  <2>2. /\ Len(got') = Len(got) + 1 /\ got'[Len(got) + 1] = readBuf
        /\ \A k \in 1..Len(got) : got'[k] = got[k]
    BY <1>0, <2>1, Appended
  <2>3. \A k \in 1..(Len(got) + 1) : k \in 1..Len(got) \/ k = Len(got) + 1
    BY <1>0
  <2>4. \A k \in 1..Len(got') : got'[k] = k - 1
    BY <1>0, <2>1, <2>2, <2>3 DEF GotInOrder
  <2> QED
    BY <1>0, <2>1, <2>2, <2>4 DEF GotInOrder, BeingRead
<1>8. CASE StashLater \/ StashCopy \/ ParkDrain \/ Drops \/ Looks
  BY <1>1, <1>8 DEF StashLater, StashCopy, ParkDrain, Drops, Looks
<1>9. CASE UNCHANGED vars
  BY <1>1, <1>9 DEF vars, readVars
<1> QED
  BY <1>2, <1>3, <1>5, <1>6, <1>7, <1>8, <1>9, KindsOfStep, KindsOfRead

\* A Read that returns a clean end has given out all that was announced, and so all
\* that was owed.
LEMMA CleanEndStep ==
    ASSUME Shape, MarkedWhole, GotInOrder, EndMeans, [Next]_vars PROVE EndMeans'
<1>0. nextSeq \in Int /\ got \in Seq(Seqs) /\ Len(got) \in Nat /\ owed \in Int /\ total \in Int /\ announced \in Int
  BY SeqsAre DEF Shape, ReadShape, SenderShape, LegShape, Nothing
<1>2. CASE SenderOrWire
  <2>1. got' = got /\ result' = result
    BY <1>2, SenderFrame DEF receiverVars, readVars
  <2>2. flush => owed' = owed /\ flush' = flush
    <3>1. CASE Write \/ Enqueue \/ WriteRefused \/ AbortWrite \/ CloseWrite \/ FlushTimesOut \/ ReadTotal \/ Teardown \/ ReceiverCloses
      BY <3>1 DEF Write, Enqueue, WriteRefused, writeFrame, AbortWrite, CloseWrite, FlushTimesOut, ReadTotal, Teardown,
                  ReceiverCloses, senderVars, closeVars
    <3>2. ASSUME NEW i \in Legs, TakeJob(i) \/ WriteChunk(i) \/ WriteFails(i) \/ WorkerEnds(i) \/ EndMarker(i) \/ Reroute(i) \/ Cut(i)
          PROVE  owed' = owed /\ flush' = flush
      BY <3>2 DEF TakeJob, WriteChunk, WriteFails, WorkerEnds, EndMarker, Reroute, Cut, senderVars, closeVars
    <3> QED
      BY <1>2, <3>1, <3>2 DEF SenderOrWire, SenderStep
  <2> QED
    BY <2>1, <2>2 DEF EndMeans
<1>3. ASSUME NEW i \in Legs, LegStep(i) PROVE EndMeans'
  BY <1>3, LegFrame DEF senderVars, closeVars, EndMeans
<1>4. CASE ReadStep \/ Stalls
  <2>1. UNCHANGED <<owed, flush>>
    BY <1>4, ReadFrame DEF readFrame, senderVars, closeVars
  <2>2. got' = got \/ (got' = Append(got, readBuf) /\ readBuf # Nothing)
    BY <1>4, KindsOfRead DEF Deliver, StashNext, StashLater, StashCopy, Consume, ParkDrain, Drops, Looks
  <2>3. Len(got') \in Nat /\ Len(got') >= Len(got)
    <3>1. CASE got' = got
      BY <1>0, <3>1
    <3>2. CASE got' = Append(got, readBuf) /\ readBuf \in Seqs
      BY <1>0, <3>2, Appended
    <3> QED
      BY <2>2, <3>1, <3>2 DEF Shape, ReadShape
  <2>4. CASE ReturnEOF
    <3>1. readBuf = Nothing /\ total # Nothing /\ nextSeq >= total
      BY <2>4 DEF ReturnEOF, InRead, Complete
    <3>2. announced # Nothing /\ flush /\ owed <= announced /\ total = announced
      BY <3>1 DEF MarkedWhole
    <3>3. Len(got) = nextSeq
      BY <1>0, <3>1 DEF GotInOrder, BeingRead
    <3> QED
      BY <1>0, <2>1, <2>3, <3>1, <3>2, <3>3 DEF EndMeans
  <2>5. CASE ~ReturnEOF
    <3>1. result' = result \/ result' = "error"
      BY <1>4, <2>5 DEF ReadStep, Stalls, Deliver, Stash, Consume, ReturnError, Return, ParkFirstLook, ParkDrain, ParkSecondLook
    <3> QED
      BY <1>0, <2>1, <2>3, <3>1 DEF EndMeans
  <2> QED
    BY <2>4, <2>5
<1>5. CASE UNCHANGED vars
  BY <1>5 DEF vars, senderVars, closeVars, readVars, EndMeans
<1> QED
  BY <1>2, <1>3, <1>4, <1>5, KindsOfStep

-----------------------------------------------------------------------------
(* The awaited chunk is forced once. *)

LEMMA ForcedStep ==
    ASSUME Shape, ForcedOnce, [Next]_vars PROVE ForcedOnce'
<1>0. nextSeq \in Int /\ forced \in Int /\ \A j \in Legs : reader[j] \in Handling \cup {"force", "put"} => chunk[j] \in Int
  <2>1. nextSeq \in Int /\ forced \in Int
    BY DEF Shape, ReadShape, LegShape
  <2>2. \A j \in Legs : reader[j] \in Handling \cup {"force", "put"} => chunk[j] \in Seqs
    BY DEF Shape, LegShape
  <2> QED
    BY <2>1, <2>2, NumbersAre
<1>1. CASE SenderOrWire
  BY <1>1, SenderFrame DEF receiverVars, legReaders, readVars, ForcedOnce
<1>2. ASSUME NEW i \in Legs, LegStep(i) PROVE ForcedOnce'
  <2>0. nextSeq' = nextSeq
    BY <1>2, LegFrame
  <2>1. ASSUME forced' = forced, \A j \in Legs : j # i => reader'[j] = reader[j] /\ chunk'[j] = chunk[j],
               reader'[i] \notin {"awaited", "force"}
        PROVE  ForcedOnce'
    BY <2>0, <2>1 DEF ForcedOnce
  <2>2. \A j \in Legs : j # i => reader'[j] = reader[j] /\ chunk'[j] = chunk[j]
    BY <1>2, OneLeg DEF Shape, LegShape
  <2>3. CASE ReadHeader(i) \/ ReaderStops(i) \/ LegDone(i) \/ LegFails(i)
    <3>1. forced' = forced /\ reader'[i] \notin {"awaited", "force"}
      BY <2>3 DEF ReadHeader, ReaderStops, LegDone, LegFails, Shape, LegShape
    <3> QED
      BY <2>1, <2>2, <3>1
  <2>4. CASE ForceAwaited(i) \/ Put(i)
    <3>1. forced' = forced /\ reader'[i] \notin {"awaited", "force"}
      BY <2>4 DEF ForceAwaited, Put, Shape, LegShape
    <3> QED
      BY <2>1, <2>2, <3>1
  <2>5. CASE ParkLook(i)
    <3>1. CASE reader' = [reader EXCEPT ![i] = "awaited"] /\ chunk[i] = nextSeq /\ UNCHANGED chunk
      <4>1. forced' = forced /\ reader'[i] = "awaited" /\ chunk'[i] <= nextSeq
        BY <1>0, <2>5, <3>1 DEF ParkLook, Shape, LegShape
      <4> QED
        BY <2>0, <2>2, <4>1 DEF ForcedOnce
    <3>2. CASE ~(reader' = [reader EXCEPT ![i] = "awaited"])
      <4>1. forced' = forced /\ reader'[i] \notin {"awaited", "force"}
        BY <2>5, <3>2 DEF ParkLook, Discard, Shape, LegShape
      <4> QED
        BY <2>1, <2>2, <4>1
    <3> QED
      BY <2>5, <3>1, <3>2 DEF ParkLook, Discard, Shape, LegShape
  <2>6. CASE ReadPayload(i)
    <3>1. CASE /\ reader[i] = "awaited" /\ ClaimForced(i) /\ forced' = chunk[i] + 1
               /\ reader' = [reader EXCEPT ![i] = "force"] /\ UNCHANGED chunk
      <4>1. chunk[i] \in Int /\ chunk[i] <= nextSeq /\ forced < chunk[i] + 1 /\ forced' = chunk[i] + 1
            /\ reader'[i] = "force" /\ chunk'[i] = chunk[i]
        BY <1>0, <3>1 DEF ForcedOnce, ClaimForced, Handling, Shape, LegShape
      <4>2. \A j \in Legs : j # i /\ reader'[j] = "force" => chunk'[j] \in Int /\ chunk'[j] < forced /\ chunk'[j] < chunk[i]
        <5> SUFFICES ASSUME NEW j \in Legs, j # i, reader'[j] = "force"
                     PROVE  chunk'[j] \in Int /\ chunk'[j] < forced /\ chunk'[j] < chunk[i]
          OBVIOUS
        <5>1. reader[j] = "force" /\ chunk'[j] = chunk[j] /\ chunk[j] \in Int /\ forced > chunk[j]
          BY <1>0, <2>2 DEF ForcedOnce
        <5> QED
          BY <1>0, <4>1, <5>1
      <4>3. forced' <= nextSeq' + 1
        BY <1>0, <2>0, <4>1
      <4>4. \A j \in Legs : reader'[j] = "force" => forced' > chunk'[j]
        BY <1>0, <4>1, <4>2
      <4>5. \A j \in Legs : reader'[j] \in {"awaited", "force"} => chunk'[j] <= nextSeq'
        BY <2>0, <2>2, <4>1 DEF ForcedOnce
      <4>6. ASSUME NEW j \in Legs, NEW k \in Legs, reader'[j] = "force", reader'[k] = "force", chunk'[j] = chunk'[k]
            PROVE  j = k
        BY <2>2, <4>1, <4>2, <4>6 DEF ForcedOnce
      <4> QED
        BY <4>3, <4>4, <4>5, <4>6 DEF ForcedOnce
    <3>2. CASE forced' = forced /\ \E w \in {"header", "put"} : reader' = [reader EXCEPT ![i] = w]
      <4>1. reader'[i] \in {"header", "put"}
        BY <3>2 DEF Shape, LegShape
      <4> QED
        BY <2>1, <2>2, <3>2, <4>1
    <3> QED
      BY <2>6, <3>1, <3>2 DEF ReadPayload, Discard
  <2> QED
    BY <1>2, <2>3, <2>4, <2>5, <2>6 DEF LegStep
<1>3. CASE ReadStep \/ Stalls
  <2>1. UNCHANGED <<reader, chunk, forced>>
    BY <1>3, ReadFrame DEF readFrame
  <2>2. nextSeq' = nextSeq \/ nextSeq' = nextSeq + 1
    BY <1>3, KindsOfRead DEF Deliver, StashNext, StashLater, StashCopy, Consume, ParkDrain, Drops, Looks
  <2>3. \A j \in Legs : reader[j] \in {"awaited", "force"} => chunk[j] <= nextSeq'
    BY <1>0, <2>2 DEF ForcedOnce, Handling
  <2> QED
    BY <1>0, <2>1, <2>2, <2>3 DEF ForcedOnce
<1>4. CASE UNCHANGED vars
  BY <1>4 DEF vars, legReaders, readVars, ForcedOnce
<1> QED
  BY <1>1, <1>2, <1>3, <1>4, KindsOfStep

-----------------------------------------------------------------------------
(* The budget. *)

LEMMA KeptFinite == IsFiniteSet(Kept) /\ Cardinality(Kept) \in Nat
<1>1. Kept \subseteq Legs
  BY DEF Kept
<1> QED
  BY <1>1, StripingAssumption, FS_Subset, FS_CardinalityType

\* A reader that begins or ends to read a charged chunk counts for one.
LEMMA KeptMoves ==
    ASSUME NEW i \in Legs, \A j \in Legs : j # i => reader'[j] = reader[j]
    PROVE  Cardinality(Kept')
             = Cardinality(Kept) + (IF reader'[i] \in Charging THEN 1 ELSE 0) - (IF reader[i] \in Charging THEN 1 ELSE 0)
<1>1. i \in Kept <=> reader[i] \in Charging
  BY DEF Kept
<1>2. CASE reader'[i] \in Charging
  <2>1. Kept' = Kept \cup {i}
    BY <1>2 DEF Kept
  <2>2. Cardinality(Kept') = IF i \in Kept THEN Cardinality(Kept) ELSE Cardinality(Kept) + 1
    BY <2>1, KeptFinite, FS_AddElement
  <2> QED
    BY <1>1, <1>2, <2>2, KeptFinite
<1>3. CASE reader'[i] \notin Charging
  <2>1. Kept' = Kept \ {i}
    BY <1>3 DEF Kept
  <2>2. Cardinality(Kept') = IF i \in Kept THEN Cardinality(Kept) - 1 ELSE Cardinality(Kept)
    BY <2>1, KeptFinite, FS_RemoveElement
  <2> QED
    BY <1>1, <1>3, <2>2, KeptFinite
<1> QED
  BY <1>2, <1>3

LEMMA ChargeTypes ==
    ASSUME Shape
    PROVE  used \in Int /\ Len(chunkCh) \in Nat /\ Cardinality(pending) \in Nat /\ Cardinality(Kept) \in Nat /\ BeingRead \in 0..1
<1>1. used \in Int /\ Len(chunkCh) \in Nat
  BY DEF Shape, ReadShape, LegShape
<1>2. BeingRead \in 0..1
  BY DEF BeingRead
<1> QED
  BY <1>1, <1>2, PendingFinite, KeptFinite DEF Shape

\* The steps of a leg's reader charge what they take in.
LEMMA LegCharges ==
    ASSUME Shape, Charged, NEW i \in Legs, LegStep(i) PROVE Charged'
<1>0. pending' = pending /\ BeingRead' = BeingRead
  BY LegFrame DEF BeingRead
<1>1. Charged' <=> used' = Len(chunkCh') + Cardinality(pending) + Cardinality(Kept') + BeingRead
  BY <1>0 DEF Charged
<1>2. used = Len(chunkCh) + Cardinality(pending) + Cardinality(Kept) + BeingRead
  BY DEF Charged
<1> USE ChargeTypes
<1>10. /\ Cardinality(Kept') = Cardinality(Kept) + (IF reader'[i] \in Charging THEN 1 ELSE 0) - (IF reader[i] \in Charging THEN 1 ELSE 0)
      /\ \A r : reader' = [reader EXCEPT ![i] = r] => reader'[i] = r
  <2>1. \A j \in Legs : j # i => reader'[j] = reader[j]
    BY OneLeg DEF Shape, LegShape
  <2> QED
    BY <2>1, KeptMoves DEF Shape, LegShape
<1>4. CASE ReadHeader(i)
  <2>1. reader[i] = "header" /\ chunkCh' = chunkCh
    BY <1>4 DEF ReadHeader
  <2>2. \/ reader' = reader /\ used' = used
        \/ reader' = [reader EXCEPT ![i] = "keep"] /\ used' = used + 1
        \/ reader' = [reader EXCEPT ![i] = "parked"] /\ used' = used
    BY <1>4 DEF ReadHeader
  <2>3. \/ reader'[i] \notin Charging /\ used' = used
        \/ reader'[i] \in Charging /\ used' = used + 1
    BY <1>10, <2>1, <2>2 DEF Charging
  <2> QED
    BY <1>10, <1>1, <1>2, <2>1, <2>3 DEF Charging
<1>5. CASE ParkLook(i)
  <2>1. reader[i] = "parked" /\ chunkCh' = chunkCh
    BY <1>5 DEF ParkLook
  <2>2. \/ reader' = [reader EXCEPT ![i] = "header"] /\ used' = used
        \/ reader' = [reader EXCEPT ![i] = "keep"] /\ used' = used + 1
        \/ reader' = [reader EXCEPT ![i] = "awaited"] /\ used' = used
    BY <1>5 DEF ParkLook, Discard
  <2>3. \/ reader'[i] \notin Charging /\ used' = used
        \/ reader'[i] \in Charging /\ used' = used + 1
    BY <1>10, <2>2 DEF Charging
  <2> QED
    BY <1>10, <1>1, <1>2, <2>1, <2>3 DEF Charging
<1>6. CASE ReadPayload(i)
  <2>1. chunkCh' = chunkCh /\ used' = used
    BY <1>6 DEF ReadPayload, Discard
  <2>2. \/ reader[i] = "keep" /\ reader' = [reader EXCEPT ![i] = "put"]
        \/ reader[i] = "awaited" /\ \E r \in {"header", "force"} : reader' = [reader EXCEPT ![i] = r]
    BY <1>6 DEF ReadPayload, Discard
  <2>3. reader'[i] \in Charging <=> reader[i] \in Charging
    BY <1>10, <2>2 DEF Charging
  <2>4. Cardinality(Kept') = Cardinality(Kept)
    BY <1>10, <2>3
  <2> QED
    BY <1>1, <1>2, <2>1, <2>4
<1>7. CASE ForceAwaited(i)
  <2>1. reader[i] = "force" /\ chunkCh' = chunkCh
    BY <1>7 DEF ForceAwaited
  <2>2. \/ used' = used + 1 /\ reader' = [reader EXCEPT ![i] = "put"]
        \/ used' = used /\ reader' = [reader EXCEPT ![i] = "header"]
    BY <1>7 DEF ForceAwaited
  <2>3. \/ reader'[i] \in Charging /\ used' = used + 1
        \/ reader'[i] \notin Charging /\ used' = used
    BY <1>10, <2>2 DEF Charging
  <2>4. reader[i] \notin Charging
    BY <2>1 DEF Charging
  <2> QED
    BY <1>10, <1>1, <1>2, <2>1, <2>3, <2>4
<1>11. CASE Put(i)
  <2>1. reader[i] = "put" /\ chunk[i] \in Seqs /\ used' = used /\ reader' = [reader EXCEPT ![i] = "header"]
    BY <1>11 DEF Put, Shape, LegShape
  <2>2. Len(chunkCh') = Len(chunkCh) + 1
    BY <1>11, <2>1, Appended DEF Put, Shape, LegShape
  <2>4. reader'[i] \notin Charging /\ reader[i] \in Charging
    BY <1>10, <2>1 DEF Charging
  <2>3. Cardinality(Kept') = Cardinality(Kept) - 1
    BY <1>10, <2>4
  <2> QED
    BY <1>1, <1>2, <2>1, <2>2, <2>3
<1>8. CASE ReaderStops(i) \/ LegFails(i)
  <2>1. /\ reader' = [reader EXCEPT ![i] = "failed"] /\ chunkCh' = chunkCh
        /\ used' = IF reader[i] \in Charging THEN used - 1 ELSE used
    BY <1>8 DEF ReaderStops, LegFails, Charging
  <2>2. Cardinality(Kept') = Cardinality(Kept) - (IF reader[i] \in Charging THEN 1 ELSE 0)
    <3>1. reader'[i] = "failed"
      BY <2>1, <1>10
    <3> QED
      BY <1>10, <3>1 DEF Charging
  <2> QED
    BY <1>1, <1>2, <2>1, <2>2
<1>9. CASE LegDone(i)
  <2>1. reader' = [reader EXCEPT ![i] = "ended"] /\ chunkCh' = chunkCh /\ used' = used /\ reader[i] = "header"
    BY <1>9 DEF LegDone
  <2>2. Cardinality(Kept') = Cardinality(Kept)
    <3>1. reader'[i] = "ended"
      BY <2>1, <1>10
    <3> QED
      BY <1>10, <2>1, <3>1 DEF Charging
  <2> QED
    BY <1>1, <1>2, <2>1, <2>2
<1> QED
  BY <1>4, <1>5, <1>6, <1>7, <1>8, <1>9, <1>11 DEF LegStep

\* The steps of Read carry a charge over, or give it back with the chunk.
LEMMA ReadCharges ==
    ASSUME Shape, Charged, ReadStep \/ Stalls PROVE Charged'
<1>0. Kept' = Kept
  BY ReadFrame DEF readFrame, Kept
<1>1. Charged' <=> used' = Len(chunkCh') + Cardinality(pending') + Cardinality(Kept) + BeingRead'
  BY <1>0 DEF Charged
<1>2. used = Len(chunkCh) + Cardinality(pending) + Cardinality(Kept) + BeingRead
  BY DEF Charged
<1> USE ChargeTypes
<1>3. IsFiniteSet(pending) /\ chunkCh \in Seq(Seqs)
  BY PendingFinite DEF Shape, LegShape
<1>4. CASE Deliver
  <2>1. Cardinality(pending') = Cardinality(pending) - 1
    BY <1>3, <1>4, FS_RemoveElement DEF Deliver
  <2>2. BeingRead = 0 /\ BeingRead' = 1
    BY <1>4, SeqsAre DEF Deliver, InRead, BeingRead, Nothing, Shape, ReadShape
  <2> QED
    BY <1>1, <1>2, <1>4, <2>1, <2>2 DEF Deliver
<1>5. CASE InRead /\ (StashNext \/ StashLater \/ StashCopy)
  <2>1. chunkCh # <<>> /\ chunkCh' = Tail(chunkCh)
    BY <1>5 DEF StashNext, StashLater, StashCopy
  <2>2. Len(chunkCh') = Len(chunkCh) - 1
    BY <1>3, <2>1, Behead
  <2>3. CASE StashNext
    <3>1. BeingRead = 0 /\ BeingRead' = 1
      BY <1>5, <2>3 DEF StashNext, InRead, BeingRead, Nothing, Shape, ReadShape
    <3> QED
      BY <1>1, <1>2, <2>2, <2>3, <3>1 DEF StashNext
  <2>4. CASE StashLater
    <3>1. BeingRead' = BeingRead
      BY <2>4 DEF StashLater, BeingRead
    <3>2. Cardinality(pending') = Cardinality(pending) + 1
      BY <1>3, <2>4, FS_AddElement DEF StashLater
    <3> QED
      BY <1>1, <1>2, <2>2, <2>4, <3>1, <3>2 DEF StashLater
  <2>5. CASE StashCopy
    <3>1. BeingRead' = BeingRead
      BY <2>5 DEF StashCopy, BeingRead
    <3> QED
      BY <1>1, <1>2, <2>2, <2>5, <3>1 DEF StashCopy
  <2> QED
    BY <1>5, <2>3, <2>4, <2>5
<1>6. CASE Consume
  <2>1. BeingRead = 1 /\ BeingRead' = 0
    BY <1>6 DEF Consume, BeingRead
  <2> QED
    BY <1>1, <1>2, <1>6, <2>1 DEF Consume
<1>7. CASE ParkDrain
  <2>1. BeingRead' = BeingRead /\ pending' = Drained /\ Len(chunkCh') = 0
    BY <1>7 DEF ParkDrain, BeingRead
  <2>2. used' = used - (Len(chunkCh) - (Cardinality(Drained) - Cardinality(pending))) /\ Cardinality(Drained) \in Nat
    BY <1>7, DrainBrings DEF ParkDrain, DrainCharge, Shape
  <2> QED
    BY <1>1, <1>2, <2>1, <2>2
<1>8. CASE Drops
  <2>1. BeingRead' = BeingRead /\ Cardinality(pending') = 0 /\ Len(chunkCh') = 0
    BY <1>8, FS_EmptySet DEF Drops, BeingRead
  <2>2. used' = used - Len(chunkCh) - Cardinality(pending)
    BY <1>8 DEF Drops
  <2> QED
    BY <1>1, <1>2, <2>1, <2>2
<1>9. CASE Looks
  <2>1. BeingRead' = BeingRead
    BY <1>9 DEF Looks, BeingRead
  <2> QED
    BY <1>1, <1>2, <1>9, <2>1 DEF Looks
<1> QED
  BY <1>4, <1>5, <1>6, <1>7, <1>8, <1>9, KindsOfRead


LEMMA ChargedStep ==
    ASSUME Shape, Charged, [Next]_vars PROVE Charged'
<1>1. CASE SenderOrWire
  BY <1>1, SenderFrame DEF receiverVars, legReaders, readVars, Charged, Kept, BeingRead
<1>2. CASE UNCHANGED vars
  BY <1>2 DEF vars, legReaders, readVars, Charged, Kept, BeingRead
<1> QED
  BY <1>1, <1>2, LegCharges, ReadCharges, KindsOfStep

\* The limit is passed by the awaited chunk alone: once for the chunk that is
\* being copied out, and once for its successor.
LEMMA LimitStep ==
    ASSUME Shape, ForcedOnce, Charged, WithinLimit, [Next]_vars PROVE WithinLimit'
<1> USE CapsAre, ChargeTypes
<1>0. nextSeq \in Int /\ forced \in Int /\ \A j \in Legs : reader[j] \in Handling \cup {"force", "put"} => chunk[j] \in Int
  <2>1. nextSeq \in Int /\ forced \in Int
    BY DEF Shape, ReadShape, LegShape
  <2>2. \A j \in Legs : reader[j] \in Handling \cup {"force", "put"} => chunk[j] \in Seqs
    BY DEF Shape, LegShape
  <2> QED
    BY <2>1, <2>2, NumbersAre
<1>1. CASE SenderOrWire
  BY <1>1, SenderFrame DEF receiverVars, legReaders, readVars, WithinLimit, Over
<1>2. ASSUME NEW i \in Legs, LegStep(i) PROVE WithinLimit'
  <2>0. nextSeq' = nextSeq /\ readBuf' = readBuf
    BY <1>2, LegFrame
  <2>1. \A j \in Legs : j # i => reader'[j] = reader[j] /\ chunk'[j] = chunk[j]
    BY <1>2, OneLeg DEF Shape, LegShape
  <2>2. CASE used' <= Limit /\ used' \in Int
    BY <2>2 DEF WithinLimit
  <2>3. CASE used' <= used /\ used' \in Int /\ (Over => Over')
    BY <2>0, <2>3 DEF WithinLimit
  <2>4. CASE ReadHeader(i) \/ ParkLook(i)
    <3>1. forced' = forced /\ reader[i] # "force" /\ (used' = used \/ (used' = used + 1 /\ used < Limit))
      BY <2>4 DEF ReadHeader, ParkLook
    <3>2. reader'[i] # "force"
      BY <2>4 DEF ReadHeader, ParkLook, Discard, Shape, LegShape
    <3>3. Over => Over'
      BY <2>0, <2>1, <3>1, <3>2 DEF Over
    <3> QED
      BY <2>2, <2>3, <3>1, <3>3
  <2>5. CASE ReadPayload(i)
    <3>1. used' = used /\ reader[i] # "force"
      BY <2>5 DEF ReadPayload
    <3>2. CASE reader[i] = "awaited" /\ ClaimForced(i) /\ forced' = chunk[i] + 1
      <4>1. ~Over
        BY <1>0, <3>2 DEF Over, ClaimForced, ForcedOnce, Handling
      <4> QED
        BY <2>3, <3>1, <4>1
    <3>3. CASE forced' = forced /\ \E w \in {"header", "put"} : reader' = [reader EXCEPT ![i] = w]
      <4>1. reader'[i] # "force"
        BY <3>3 DEF Shape, LegShape
      <4>2. Over => Over'
        BY <2>0, <2>1, <3>1, <3>3, <4>1 DEF Over
      <4> QED
        BY <2>3, <3>1, <4>2
    <3> QED
      BY <2>5, <3>2, <3>3 DEF ReadPayload, Discard
  <2>6. CASE ForceAwaited(i)
    <3>1. forced' = forced /\ reader[i] = "force" /\ chunk[i] \in Int /\ chunk[i] <= nextSeq /\ forced > chunk[i]
      BY <1>0, <2>6 DEF ForceAwaited, ForcedOnce
    <3>2. reader'[i] # "force"
      BY <2>6 DEF ForceAwaited, Shape, LegShape
    <3>3. Over => Over'
      BY <2>0, <2>1, <3>1, <3>2 DEF Over
    <3>4. CASE chunk[i] < nextSeq
      <4>1. used' = used
        BY <2>6, <3>4 DEF ForceAwaited
      <4> QED
        BY <2>3, <3>3, <4>1
    <3>5. CASE chunk[i] = nextSeq
      <4>1. used' = used + 1
        BY <1>0, <2>6, <3>5 DEF ForceAwaited
      <4>2. ~Over
        BY <3>1, <3>5 DEF Over
      <4>3. Over'
        <5> SUFFICES ASSUME NEW j \in Legs, reader'[j] = "force", chunk'[j] = nextSeq PROVE FALSE
          BY <2>0, <3>1, <3>5 DEF Over
        <5>1. j # i /\ reader[j] = "force" /\ chunk[j] = nextSeq
          BY <2>1, <3>2
        <5> QED
          BY <3>1, <3>5, <5>1 DEF ForcedOnce
      <4> QED
        BY <2>0, <4>1, <4>2, <4>3 DEF WithinLimit
    <3> QED
      BY <1>0, <3>1, <3>4, <3>5
  <2>7. CASE Put(i) \/ ReaderStops(i) \/ LegDone(i) \/ LegFails(i)
    <3>1. forced' = forced /\ (used' = used \/ used' = used - 1)
      BY <2>7 DEF Put, ReaderStops, LegDone, LegFails
    <3>2. reader'[i] # "force"
      BY <2>7 DEF Put, ReaderStops, LegDone, LegFails, Shape, LegShape
    <3>3. Over => Over'
      BY <2>0, <2>1, <3>1, <3>2 DEF Over
    <3> QED
      BY <2>3, <3>1, <3>3
  <2> QED
    BY <1>2, <2>4, <2>5, <2>6, <2>7 DEF LegStep
<1>3. CASE ReadStep \/ Stalls
  <2>1. UNCHANGED <<reader, chunk, forced>>
    BY <1>3, ReadFrame DEF readFrame
  <2>2. CASE used' \in Int /\ used' <= used /\ readBuf' = readBuf /\ nextSeq' = nextSeq
    BY <2>1, <2>2 DEF WithinLimit, Over
  <2>3. CASE used' = used /\ readBuf = Nothing /\ readBuf' # Nothing /\ nextSeq' = nextSeq + 1
    <3>1. ~Over'
      BY <1>0, <2>1, <2>3 DEF Over, ForcedOnce
    <3> QED
      BY <2>3, <3>1 DEF WithinLimit
  <2>4. CASE Deliver \/ (InRead /\ StashNext)
    BY <1>0, <2>3, <2>4 DEF Deliver, StashNext, InRead, Nothing, Shape, ReadShape
  <2>5. CASE StashLater \/ StashCopy \/ Looks
    BY <2>2, <2>5 DEF StashLater, StashCopy, Looks
  <2>6. CASE Consume
    BY <2>1, <2>6 DEF Consume, WithinLimit, Over
  <2>7. CASE ParkDrain
    <3>1. Cardinality(Drained) - Cardinality(pending) <= Len(chunkCh) /\ Cardinality(Drained) \in Nat
      BY DrainBrings DEF Shape
    <3>2. used' = used - (Len(chunkCh) - (Cardinality(Drained) - Cardinality(pending)))
      BY <2>7 DEF ParkDrain, DrainCharge
    <3>3. used' \in Int /\ used' <= used
      BY <3>1, <3>2
    <3> QED
      BY <2>2, <2>7, <3>3 DEF ParkDrain
  <2>8. CASE Drops
    <3>1. used' \in Int /\ used' <= used
      BY <2>8 DEF Drops
    <3> QED
      BY <2>2, <2>8, <3>1 DEF Drops
  <2> QED
    BY <1>3, <2>4, <2>5, <2>6, <2>7, <2>8, KindsOfRead
<1>4. CASE UNCHANGED vars
  BY <1>4 DEF vars, legReaders, readVars, WithinLimit, Over
<1> QED
  BY <1>1, <1>2, <1>3, <1>4, KindsOfStep


-----------------------------------------------------------------------------
(* Nothing is missing while nothing is lost. *)

\* A Read that is looking at the legs has not returned.
LooksWhileOpen == readPc # "select" => result = "open"

LEMMA LooksOpenStep ==
    ASSUME LooksWhileOpen, [Next]_vars PROVE LooksWhileOpen'
<1>1. CASE SenderOrWire
  BY <1>1, SenderFrame DEF receiverVars, readVars, LooksWhileOpen
<1>2. ASSUME NEW i \in Legs, LegStep(i) PROVE LooksWhileOpen'
  BY <1>2, LegFrame DEF LooksWhileOpen
<1>3. CASE ReadStep \/ Stalls
  BY <1>3, KindsOfRead DEF Deliver, StashNext, StashLater, StashCopy, Consume, ParkDrain, Drops, Looks, ParkFirstLook, InRead,
                           LooksWhileOpen
<1>4. CASE UNCHANGED vars
  BY <1>4 DEF vars, readVars, LooksWhileOpen
<1> QED
  BY <1>1, <1>2, <1>3, <1>4, KindsOfStep

\* A loss is for good, and so is Read's last word.
LEMMA LostStays ==
    ASSUME Shape, [Next]_vars PROVE (Lost => Lost') /\ (result # "open" => result' # "open")
<1>1. CASE SenderOrWire
  <2>1. result' = result
    BY <1>1, SenderFrame DEF receiverVars, readVars
  <2>2. sender \in {"failed", "abandoned"} => sender' = sender
    BY <1>1 DEF SenderOrWire, SenderStep, Write, Enqueue, WriteRefused, AbortWrite, ReadTotal, writeFrame, TakeJob, WriteChunk, WriteFails, Reroute, CloseWrite, WorkerEnds,
                FlushTimesOut, EndMarker, Teardown, Cut, ReceiverCloses
  <2>3. \A j \in Legs : legEnd[j] = "cut" => legEnd'[j] = "cut"
    <3>1. legEnd' = legEnd \/ legEnd' = CloseLegs \/ \E i \in Legs : legEnd' = [legEnd EXCEPT ![i] = "cut"]
      BY <1>1, WireSteps DEF WireStep, Cut, Shape
    <3> QED
      BY <3>1 DEF CloseLegs, Shape, WireShape
  <2> QED
    BY <2>1, <2>2, <2>3 DEF Lost
<1>2. ASSUME NEW i \in Legs, LegStep(i) PROVE (Lost => Lost') /\ (result # "open" => result' # "open")
  BY <1>2, LegFrame DEF Lost
<1>3. CASE ReadStep \/ Stalls
  <2>1. sender' = sender /\ legEnd' = legEnd
    BY <1>3, ReadFrame DEF readFrame
  <2>2. result # "open" => result' # "open"
    BY <1>3, KindsOfRead DEF Deliver, StashNext, StashLater, StashCopy, Consume, ParkDrain, Drops, Looks
  <2> QED
    BY <2>1, <2>2 DEF Lost
<1>4. CASE UNCHANGED vars
  BY <1>4 DEF vars, readVars, Lost
<1> QED
  BY <1>1, <1>2, <1>3, <1>4, KindsOfStep

\* Then no write fails, and no reader stops before its leg has ended.
LEMMA NobodyStops ==
    ASSUME Shape, EndsMean, ~Lost, result = "open"
    PROVE  /\ \A i \in Legs : ~WriteFails(i) /\ ~ReaderStops(i) /\ ~LegFails(i)
           /\ ~ReceiverCloses
<1>1. \A i \in Legs : legEnd[i] \in {"open", "eof"}
  BY DEF Lost, Shape, WireShape
<1>2. closedR => \A i \in Legs : reader[i] = "ended" /\ legEnd[i] = "eof"
  BY DEF closedR, EndsMean
<1>3. ASSUME NEW i \in Legs PROVE ~WriteFails(i)
  BY <1>1 DEF WriteFails, EndsMean
<1>4. ASSUME NEW i \in Legs PROVE ~ReaderStops(i) /\ ~LegFails(i)
  BY <1>1, <1>2 DEF ReaderStops, LegFails
<1>5. ~ReceiverCloses
  BY <1>2 DEF ReceiverCloses
<1> QED
  BY <1>3, <1>4, <1>5

LEMMA EndsStep ==
    ASSUME Shape, OnTheLeg, EndsMean, ~Lost, ~Lost', result = "open", result' = "open", [Next]_vars PROVE EndsMean'
<1>1. CASE SenderOrWire
  <2>0. err' = err /\ reader' = reader
    BY <1>1, SenderFrame DEF receiverVars, legReaders, readVars
  <2>1. ASSUME NEW i \in Legs, TakeJob(i) \/ WorkerEnds(i) PROVE EndsMean'
    <3>1. sender' = sender /\ wire' = wire /\ legEnd' = legEnd /\ worker[i] = "idle"
          /\ \E w \in {"writing", "ended"} : worker' = [worker EXCEPT ![i] = w]
      BY <2>1 DEF TakeJob, WorkerEnds
    <3>2. sender # "closed"
      BY <3>1 DEF EndsMean
    <3> QED
      BY <2>0, <3>1, <3>2 DEF EndsMean
  <2>2. ASSUME NEW i \in Legs, WriteChunk(i) PROVE EndsMean'
    <3>1. sender' = sender /\ legEnd' = legEnd /\ legEnd[i] = "open" /\ worker[i] = "writing"
      BY <2>2 DEF WriteChunk
    <3>2. \A j \in Legs : j # i => wire'[j] = wire[j]
      BY <2>2 DEF WriteChunk, Shape, WireShape
    <3>3. sender # "closed"
      BY <3>1 DEF EndsMean
    <3> QED
      BY <2>0, <3>1, <3>2, <3>3 DEF EndsMean
  <2>3. ASSUME NEW i \in Legs, EndMarker(i) PROVE EndsMean'
    <3>1. sender' = sender /\ legEnd' = legEnd /\ legEnd[i] = "open" /\ worker' = worker
      BY <2>3 DEF EndMarker, jobs
    <3>2. \A j \in Legs : j # i => wire'[j] = wire[j]
      BY <2>3 DEF EndMarker, Shape, WireShape
    <3> QED
      BY <2>0, <3>1, <3>2 DEF EndsMean
  <2>4. CASE Teardown
    <3>1. sender' = "closed" /\ worker' = worker /\ wire' = wire /\ (\A i \in Legs : worker[i] = "ended") /\ legEnd' = CloseLegs
      BY <2>4 DEF Teardown, senderVars, writeVars, closeVars, Lost
    <3>2. \A i \in Legs : legEnd[i] = "eof" => legEnd'[i] = "eof"
      BY <3>1 DEF CloseLegs
    <3> QED
      BY <2>0, <3>1, <3>2 DEF EndsMean
  <2>5. ASSUME NEW i \in Legs, Reroute(i) PROVE EndsMean'
    BY <2>0, <2>5 DEF Reroute, EndsMean
  <2>6. CASE Write \/ Enqueue \/ WriteRefused \/ AbortWrite \/ CloseWrite \/ FlushTimesOut \/ ReadTotal
    BY <2>0, <2>6 DEF Write, Enqueue, WriteRefused, writeFrame, AbortWrite, CloseWrite, FlushTimesOut, ReadTotal, jobs, EndsMean
  <2>7. ASSUME NEW i \in Legs, Cut(i) PROVE FALSE
    BY <2>7 DEF Cut, Lost, Shape, WireShape
  <2> QED
    BY <1>1, <2>1, <2>2, <2>3, <2>4, <2>5, <2>6, <2>7, NobodyStops DEF SenderOrWire, SenderStep
<1>2. ASSUME NEW i \in Legs, LegStep(i) PROVE EndsMean'
  <2>0. worker' = worker /\ sender' = sender /\ legEnd' = legEnd
    BY <1>2, LegFrame DEF senderVars, writeVars, closeVars
  <2>1. \A j \in Legs : j # i => reader'[j] = reader[j] /\ wire'[j] = wire[j]
    <3>1. wire' = wire \/ wire' = [wire EXCEPT ![i] = Tail(wire[i])]
      BY <1>2, OneLeg
    <3>2. \A j \in Legs : j # i => reader'[j] = reader[j]
      BY <1>2, OneLeg DEF Shape, LegShape
    <3> QED
      BY <3>1, <3>2 DEF Shape, WireShape
  <2>2. CASE LegDone(i)
    <3>1. reader'[i] = "ended" /\ wire'[i] = <<>> /\ legEnd[i] = "eof" /\ err' = err
      BY <2>2 DEF LegDone, KeepOthers, readVars, Shape, LegShape
    <3> QED
      BY <2>0, <2>1, <3>1 DEF EndsMean
  <2>3. CASE ReadHeader(i) \/ ParkLook(i) \/ ReadPayload(i) \/ ForceAwaited(i) \/ Put(i)
    <3>1. err' = err
      BY <2>3 DEF ReadHeader, ParkLook, ReadPayload, ForceAwaited, Put, KeepOthers, readVars
    <3>2. reader'[i] \notin {"ended", "failed"}
      <4>1. CASE ReadHeader(i)
        BY <4>1 DEF ReadHeader, Shape, LegShape
      <4>2. CASE ParkLook(i)
        BY <4>2 DEF ParkLook, Discard, Shape, LegShape
      <4>3. CASE ReadPayload(i) \/ ForceAwaited(i) \/ Put(i)
        BY <4>3 DEF ReadPayload, ForceAwaited, Discard, Put, Shape, LegShape
      <4> QED
        BY <2>3, <4>1, <4>2, <4>3
    <3> QED
      BY <2>0, <2>1, <3>1, <3>2 DEF EndsMean
  <2> QED
    BY <1>2, <2>2, <2>3, NobodyStops DEF LegStep
<1>3. CASE ReadStep \/ Stalls
  <2>1. UNCHANGED <<worker, sender, legEnd, reader, wire>>
    BY <1>3, ReadFrame DEF readFrame, senderVars, writeVars, closeVars
  <2>2. err' = err
    BY <1>3, KindsOfRead DEF Deliver, Consume, ParkDrain, Drops, Looks
  <2> QED
    BY <2>1, <2>2 DEF EndsMean
<1>4. CASE UNCHANGED vars
  BY <1>4 DEF vars, senderVars, writeVars, closeVars, legReaders, readVars, EndsMean
<1> QED
  BY <1>1, <1>2, <1>3, <1>4, KindsOfStep


\* What is on its way stays so while frames are added to the legs.
LEMMA StillOnItsWay ==
    ASSUME Shape, NEW i \in Legs, NEW e \in Frames, wire' = [wire EXCEPT ![i] = Append(wire[i], e)],
           NEW q \in Seqs
    PROVE  /\ \A j \in Legs : j # i /\ OnItsWay(q, j) /\ worker'[j] = worker[j] /\ inSeq'[j] = inSeq[j] => OnItsWay(q, j)'
           /\ OnItsWay(q, i) /\ e <= q /\ worker'[i] = worker[i] /\ inSeq'[i] = inSeq[i] => OnItsWay(q, i)'
           /\ OnItsWay(q, i) /\ (worker[i] = "writing" => e = inSeq[i]) => OnItsWay(q, i)'
<1>1. wire[i] \in Seq(Frames) /\ wire'[i] = Append(wire[i], e) /\ \A j \in Legs : j # i => wire'[j] = wire[j]
  BY DEF Shape, WireShape
<1>2. /\ Len(wire'[i]) = Len(wire[i]) + 1 /\ wire'[i][Len(wire[i]) + 1] = e
      /\ \A k \in 1..Len(wire[i]) : wire'[i][k] = wire[i][k]
  BY <1>1, Appended
<1>3. Len(wire[i]) \in Nat /\ q \in Int
  BY <1>1, NumbersAre
<1>4. \A k \in 1..(Len(wire[i]) + 1) : k \in 1..Len(wire[i]) \/ k = Len(wire[i]) + 1
  BY <1>3
<1>5. ASSUME NEW j \in Legs, j # i, OnItsWay(q, j), worker'[j] = worker[j], inSeq'[j] = inSeq[j] PROVE OnItsWay(q, j)'
  BY <1>1, <1>5 DEF OnItsWay
<1>6. ASSUME NEW k \in 1..Len(wire[i]), wire[i][k] = q, \A m \in 1..k : wire[i][m] <= q PROVE OnItsWay(q, i)'
  <2>1. k \in 1..Len(wire'[i]) /\ \A m \in 1..k : m \in 1..Len(wire[i])
    BY <1>2, <1>3
  <2> QED
    BY <1>2, <1>6, <2>1 DEF OnItsWay
<1>7. ASSUME \A m \in 1..Len(wire[i]) : wire[i][m] <= q, e <= q PROVE \A m \in 1..Len(wire'[i]) : wire'[i][m] <= q
  BY <1>2, <1>4, <1>7
<1>8. ASSUME worker[i] = "writing", inSeq[i] = q, \A m \in 1..Len(wire[i]) : wire[i][m] <= q, e = q PROVE OnItsWay(q, i)'
  <2>1. e <= q
    BY <1>3, <1>8
  <2>2. \A m \in 1..(Len(wire[i]) + 1) : wire'[i][m] <= q
    BY <1>2, <1>7, <1>8, <2>1
  <2>3. Len(wire[i]) + 1 \in 1..Len(wire'[i])
    BY <1>2, <1>3
  <2> QED
    BY <1>2, <1>8, <2>2, <2>3 DEF OnItsWay
<1>9. OnItsWay(q, i) /\ e <= q /\ worker'[i] = worker[i] /\ inSeq'[i] = inSeq[i] => OnItsWay(q, i)'
  <2> SUFFICES ASSUME OnItsWay(q, i), e <= q, worker'[i] = worker[i], inSeq'[i] = inSeq[i] PROVE OnItsWay(q, i)'
    OBVIOUS
  <2>1. CASE worker[i] = "writing" /\ inSeq[i] = q /\ \A m \in 1..Len(wire[i]) : wire[i][m] <= q
    BY <1>7, <2>1 DEF OnItsWay
  <2> QED
    BY <1>6, <2>1 DEF OnItsWay
<1>10. OnItsWay(q, i) /\ (worker[i] = "writing" => e = inSeq[i]) => OnItsWay(q, i)'
  <2> SUFFICES ASSUME OnItsWay(q, i), worker[i] = "writing" => e = inSeq[i] PROVE OnItsWay(q, i)'
    OBVIOUS
  <2>1. CASE worker[i] = "writing" /\ inSeq[i] = q /\ \A m \in 1..Len(wire[i]) : wire[i][m] <= q
    BY <1>8, <2>1
  <2> QED
    BY <1>6, <2>1 DEF OnItsWay
<1> QED
  BY <1>5, <1>9, <1>10

LEMMA SenderMisses ==
    ASSUME Shape, NumberedInOrder, EndsMean, NothingMissing, ~Lost, ~Lost', result = "open", SenderOrWire PROVE NothingMissing'
<1>0. /\ UNCHANGED <<reader, chunk, pending, chunkCh, nextSeq, forced>> /\ Taken \in Int /\ nextSeq \in Int
      /\ \A q \in Seqs : q \in Int /\ 0 <= q
  <2>1. UNCHANGED <<reader, chunk, pending, chunkCh, nextSeq, forced>>
    BY SenderFrame DEF receiverVars, legReaders, readVars
  <2>2. Taken \in Int /\ nextSeq \in Int
    BY TakenType DEF Shape, ReadShape
  <2>3. \A q \in Seqs : q \in Int /\ 0 <= q
    BY SeqsAre
  <2> QED
    BY <2>1, <2>2, <2>3
<1>1. \A q : Gathered(q) => Gathered(q)'
  BY <1>0 DEF Gathered
<1>2. ASSUME Taken' = Taken, \A q \in Seqs : \A j \in Legs : OnItsWay(q, j) => OnItsWay(q, j)' PROVE NothingMissing'
  BY <1>0, <1>1, <1>2 DEF NothingMissing
<1>3. ASSUME wire' = wire, NEW q, NEW j \in Legs, worker[j] = "writing" => worker'[j] = worker[j] /\ inSeq'[j] = inSeq[j], OnItsWay(q, j)
      PROVE  OnItsWay(q, j)'
  BY <1>3 DEF OnItsWay
<1>4. CASE Write \/ Enqueue \/ WriteRefused
  <2>1. wire' = wire /\ worker' = worker /\ inSeq' = inSeq
    BY <1>4 DEF Write, Enqueue, WriteRefused, writeFrame
  <2>2. Taken' = Taken
    <3>1. CASE Write \/ WriteRefused
      BY <3>1, TakenType DEF Write, WriteRefused, writeFrame, Taken, Accepted, Shape, SenderShape
    <3>2. CASE Enqueue
      <4>1. writeSeq - 1 \in Seqs /\ Accepted' = Accepted + 1
        BY <3>2, SeqsAre DEF Enqueue, Seqs, Shape, SenderShape, Accepted
      <4>2. Len(writeQueue') = Len(writeQueue) + 1
        BY <3>2, <4>1, Appended DEF Enqueue, Shape, SenderShape
      <4> QED
        BY <4>1, <4>2, TakenType DEF Taken
    <3> QED
      BY <1>4, <3>1, <3>2
  <2> QED
    BY <1>2, <1>3, <2>1, <2>2
<1>5. ASSUME NEW i \in Legs, TakeJob(i) PROVE NothingMissing'
  <2>1. worker[i] = "idle" /\ wire' = wire /\ worker' = [worker EXCEPT ![i] = "writing"]
        /\ \E x : inSeq' = [inSeq EXCEPT ![i] = x]
    BY <1>5 DEF TakeJob
  <2>2. worker'[i] = "writing" /\ \A j \in Legs : j # i => worker'[j] = worker[j] /\ inSeq'[j] = inSeq[j]
    BY <2>1 DEF Shape, SenderShape
  <2>3. \A q \in Seqs : \A j \in Legs : OnItsWay(q, j) => OnItsWay(q, j)'
    BY <1>3, <2>1, <2>2
  <2>4. CASE Taken' = Taken
    BY <1>2, <2>3, <2>4
  <2>5. CASE Taken' # Taken
    <3>1. writeQueue # <<>> /\ inSeq' = [inSeq EXCEPT ![i] = Head(writeQueue)] /\ writeQueue' = Tail(writeQueue) /\ Accepted' = Accepted
      <4>1. Accepted' = Accepted
        BY <1>5 DEF TakeJob, writeVars, Accepted
      <4>2. writeQueue' # writeQueue
        BY <2>5, <4>1 DEF Taken
      <4> QED
        BY <1>5, <4>1, <4>2 DEF TakeJob
    <3>2. writeQueue \in Seq(Seqs)
      BY DEF Shape, SenderShape
    <3>3. Len(Tail(writeQueue)) = Len(writeQueue) - 1 /\ Len(writeQueue) \in Nat \ {0} /\ Head(writeQueue) = writeQueue[1]
      BY <3>1, <3>2, Behead
    <3>4. Taken' = Taken + 1
      BY <3>1, <3>3, TakenType DEF Taken
    <3>5. inSeq'[i] = Taken
      <4>1. writeQueue[1] = Taken
        BY <1>0, <3>3 DEF NumberedInOrder, QueueInOrder
      <4> QED
        BY <3>1, <3>3, <4>1 DEF Shape, SenderShape
    <3>6. \A q \in Seqs : q = Taken => OnItsWay(q, i)'
      <4>1. \A m \in 1..Len(wire[i]) : wire[i][m] <= Taken
        <5> SUFFICES ASSUME NEW m \in 1..Len(wire[i]) PROVE wire[i][m] <= Taken
          OBVIOUS
        <5>1. wire[i][m] \in Frames
          BY DEF Shape, WireShape
        <5>2. wire[i][m] < Taken
          BY DEF NumberedInOrder, OnLegsBelow
        <5> QED
          BY <1>0, <5>1, <5>2, NumbersAre
      <4>2. \A q : inSeq'[i] = q /\ (\A m \in 1..Len(wire[i]) : wire[i][m] <= q) => OnItsWay(q, i)'
        BY <2>1, <2>2 DEF OnItsWay
      <4> QED
        BY <3>5, <4>1, <4>2
    <3>7. \A q \in Seqs : nextSeq <= q /\ q < Taken + 1 => (nextSeq <= q /\ q < Taken) \/ q = Taken
      BY <1>0
    <3> QED
      BY <1>0, <1>1, <2>3, <3>4, <3>6, <3>7 DEF NothingMissing
  <2> QED
    BY <2>4, <2>5
<1>6. ASSUME NEW i \in Legs, WriteChunk(i) PROVE NothingMissing'
  <2>1. worker[i] = "writing" /\ inSeq[i] \in Frames /\ wire' = [wire EXCEPT ![i] = Append(wire[i], inSeq[i])]
        /\ Taken' = Taken
    BY <1>6 DEF WriteChunk, writeVars, Accepted, Shape, SenderShape, Taken, Frames
  <2>2. \A j \in Legs : j # i => worker'[j] = worker[j] /\ inSeq'[j] = inSeq[j]
    BY <1>6 DEF WriteChunk, Shape, SenderShape
  <2>3. ASSUME NEW q \in Seqs, NEW j \in Legs, OnItsWay(q, j) PROVE OnItsWay(q, j)'
    BY <2>1, <2>2, <2>3, StillOnItsWay
  <2> QED
    BY <1>2, <2>1, <2>3
<1>7. ASSUME NEW i \in Legs, EndMarker(i) PROVE NothingMissing'
  <2>1. wire' = [wire EXCEPT ![i] = Append(wire[i], Marker(announced))] /\ Taken' = Taken /\ worker' = worker /\ inSeq' = inSeq
    BY <1>7 DEF EndMarker, jobs, writeVars, Accepted, Taken
  <2>3. Marker(announced) \in Frames /\ Marker(announced) < 0 /\ Marker(announced) \in Int
    BY <1>7, Markers DEF EndMarker, Shape, SenderShape
  <2>2. ASSUME NEW q \in Seqs, NEW j \in Legs, OnItsWay(q, j) PROVE OnItsWay(q, j)'
    <3>1. Marker(announced) <= q
      BY <1>0, <2>3
    <3> QED
      BY <2>1, <2>2, <2>3, <3>1, StillOnItsWay
  <2> QED
    BY <1>2, <2>1, <2>2
<1>8. ASSUME NEW i \in Legs, WorkerEnds(i) \/ Reroute(i) PROVE NothingMissing'
  <2>1. wire' = wire /\ inSeq' = inSeq /\ Taken' = Taken
    BY <1>8 DEF WorkerEnds, Reroute, writeVars, Accepted, Taken
  <2>2. \A j \in Legs : worker[j] = "writing" => worker'[j] = worker[j]
    BY <1>8 DEF WorkerEnds, Reroute, Shape, SenderShape
  <2> QED
    BY <1>2, <1>3, <2>1, <2>2
<1>9. CASE AbortWrite \/ CloseWrite \/ FlushTimesOut \/ ReadTotal \/ Teardown
  <2>1. wire' = wire /\ inSeq' = inSeq /\ Taken' = Taken /\ worker' = worker
    BY <1>9 DEF AbortWrite, CloseWrite, FlushTimesOut, ReadTotal, Teardown, senderVars, jobs, writeVars, Accepted, Taken
  <2> QED
    BY <1>2, <1>3, <2>1
<1>10. ASSUME NEW i \in Legs, Cut(i) PROVE FALSE
  BY <1>10 DEF Cut, Lost, Shape, WireShape
<1> QED
  BY <1>4, <1>5, <1>6, <1>7, <1>8, <1>9, <1>10, NobodyStops DEF SenderOrWire, SenderStep


\* Handing a chunk over keeps what Read can find.
LEMMA PutGathers ==
    ASSUME Shape, NEW i \in Legs, Put(i), chunk[i] \in Seqs
    PROVE  /\ \E k \in 1..Len(chunkCh') : chunkCh'[k] = chunk[i]
           /\ \A q : (\E k \in 1..Len(chunkCh) : chunkCh[k] = q) => \E k \in 1..Len(chunkCh') : chunkCh'[k] = q
<1>1. chunkCh \in Seq(Seqs) /\ chunkCh' = Append(chunkCh, chunk[i])
  BY DEF Put, Shape, LegShape
<1>2. /\ Len(chunkCh') = Len(chunkCh) + 1 /\ chunkCh'[Len(chunkCh) + 1] = chunk[i]
      /\ \A k \in 1..Len(chunkCh) : chunkCh'[k] = chunkCh[k]
  BY <1>1, Appended
<1>3. Len(chunkCh) \in Nat
  BY <1>1
<1>4. Len(chunkCh) + 1 \in 1..Len(chunkCh') /\ \A k \in 1..Len(chunkCh) : k \in 1..Len(chunkCh')
  BY <1>2, <1>3
<1> QED
  BY <1>2, <1>4

\* A reader's step leaves a chunk that Read still needs where Read can find it.
LEMMA LegGathers ==
    ASSUME Shape, NEW i \in Legs, ReadHeader(i) \/ ParkLook(i) \/ ReadPayload(i) \/ ForceAwaited(i) \/ Put(i) \/ LegDone(i),
           NEW q \in Seqs, nextSeq <= q, Gathered(q)
    PROVE  Gathered(q)'
<1>0. LegStep(i) /\ pending' = pending
  BY LegFrame DEF LegStep
<1>1. \A j \in Legs : j # i => reader'[j] = reader[j] /\ chunk'[j] = chunk[j]
  BY <1>0, OneLeg DEF Shape, LegShape
<1>2. (\E k \in 1..Len(chunkCh) : chunkCh[k] = q) => \E k \in 1..Len(chunkCh') : chunkCh'[k] = q
  <2>1. chunkCh' = chunkCh \/ Put(i)
    BY DEF ReadHeader, ParkLook, Discard, ReadPayload, ForceAwaited, LegDone
  <2>2. Put(i) => chunk[i] \in Seqs
    BY DEF Put, Shape, LegShape
  <2>3. CASE chunkCh' = chunkCh
    BY <2>3
  <2>4. CASE Put(i)
    BY <2>2, <2>4, PutGathers
  <2> QED
    BY <2>1, <2>3, <2>4
<1>3. ASSUME reader[i] \in {"force", "put"}, chunk[i] = q PROVE Gathered(q)'
  <2>1. CASE Put(i)
    BY <1>3, <2>1, PutGathers DEF Gathered
  <2>2. CASE ForceAwaited(i)
    <3>1. nextSeq \in Int /\ q \in Int
      BY NumbersAre DEF Shape, ReadShape
    <3>2. reader'[i] = "put" /\ chunk'[i] = q
      BY <1>3, <2>2, <3>1 DEF ForceAwaited, Shape, LegShape
    <3> QED
      BY <3>2 DEF Gathered
  <2> QED
    BY <1>3, <2>1, <2>2 DEF ReadHeader, ParkLook, ReadPayload, LegDone
<1>4. CASE \E j \in Legs : j # i /\ reader[j] \in {"force", "put"} /\ chunk[j] = q
  BY <1>1, <1>4 DEF Gathered
<1> QED
  BY <1>0, <1>2, <1>3, <1>4 DEF Gathered

\* A leg that loses its head still brings the rest.
LEMMA HeadGoes ==
    ASSUME Shape, NEW i \in Legs, wire[i] # <<>>, wire' = [wire EXCEPT ![i] = Tail(wire[i])],
           worker' = worker, inSeq' = inSeq, NEW q, NEW j \in Legs, OnItsWay(q, j)
    PROVE  OnItsWay(q, j)' \/ (j = i /\ Head(wire[i]) = q)
<1>1. wire[i] \in Seq(Frames) /\ wire'[i] = Tail(wire[i]) /\ (j # i => wire'[j] = wire[j])
  BY DEF Shape, WireShape
<1>2. /\ Len(wire'[i]) = Len(wire[i]) - 1 /\ Len(wire[i]) \in Nat \ {0} /\ Head(wire[i]) = wire[i][1]
      /\ \A k \in 1..(Len(wire[i]) - 1) : wire'[i][k] = wire[i][k + 1]
  BY <1>1, Behead
<1>3. CASE j # i
  BY <1>1, <1>3 DEF OnItsWay
<1>4. CASE j = i /\ worker[i] = "writing" /\ inSeq[i] = q /\ \A m \in 1..Len(wire[i]) : wire[i][m] <= q
  <2>1. \A m \in 1..Len(wire'[i]) : m + 1 \in 1..Len(wire[i]) /\ wire'[i][m] = wire[i][m + 1]
    BY <1>2
  <2> QED
    BY <1>4, <2>1 DEF OnItsWay
<1>5. ASSUME j = i, NEW k \in 1..Len(wire[i]), wire[i][k] = q, \A m \in 1..k : wire[i][m] <= q
      PROVE  OnItsWay(q, j)' \/ Head(wire[i]) = q
  <2>1. CASE k = 1
    BY <1>2, <1>5, <2>1
  <2>2. CASE k # 1
    <3>1. k - 1 \in 1..Len(wire'[i]) /\ (k - 1) + 1 = k /\ k - 1 \in 1..(Len(wire[i]) - 1)
      BY <1>2, <2>2
    <3>2. wire'[i][k - 1] = q
      BY <1>2, <1>5, <3>1
    <3>3. \A m \in 1..(k - 1) : m + 1 \in 1..k /\ m \in 1..(Len(wire[i]) - 1)
      BY <1>2, <2>2
    <3>4. \A m \in 1..(k - 1) : wire'[i][m] <= q
      BY <1>2, <1>5, <3>3
    <3> QED
      BY <1>5, <3>1, <3>2, <3>4 DEF OnItsWay
  <2> QED
    BY <2>1, <2>2
<1> QED
  BY <1>3, <1>4, <1>5 DEF OnItsWay

LEMMA LegMisses ==
    ASSUME Shape, OnTheLeg, ForcedOnce, EndsMean, NothingMissing, ~Lost, result = "open", NEW i \in Legs, LegStep(i)
    PROVE  NothingMissing'
<1>0. /\ worker' = worker /\ inSeq' = inSeq /\ nextSeq' = nextSeq /\ pending' = pending /\ Taken' = Taken
      /\ nextSeq \in Int /\ forced \in Int /\ \A q \in Seqs : q \in Int
  <2>1. worker' = worker /\ inSeq' = inSeq /\ nextSeq' = nextSeq /\ pending' = pending /\ Taken' = Taken
    BY LegFrame DEF senderVars, writeVars, Accepted, Taken
  <2>2. nextSeq \in Int /\ forced \in Int
    BY DEF Shape, ReadShape, LegShape
  <2>3. \A q \in Seqs : q \in Int
    BY SeqsAre
  <2> QED
    BY <2>1, <2>2, <2>3
<1>1. ReadHeader(i) \/ ParkLook(i) \/ ReadPayload(i) \/ ForceAwaited(i) \/ Put(i) \/ LegDone(i)
  BY NobodyStops DEF LegStep
<1>2. \A q \in Seqs : nextSeq <= q /\ Gathered(q) => Gathered(q)'
  BY <1>1, LegGathers
<1>3. ASSUME NEW q \in Seqs, nextSeq <= q, wire' # wire, wire[i] # <<>>, Head(wire[i]) = q PROVE Gathered(q)'
  <2>1. CASE ReadHeader(i)
    BY <1>0, <1>3, <2>1 DEF ReadHeader
  <2>2. CASE ParkLook(i)
    <3>1. chunk[i] = q
      BY <1>3, <2>2 DEF ParkLook, OnTheLeg, Handling
    <3>2. chunk[i] < nextSeq \/ (chunk[i] = nextSeq /\ forced > chunk[i])
      BY <1>3, <2>2 DEF ParkLook
    <3>3. Gathered(q)
      BY <1>0, <1>3, <3>1, <3>2 DEF NothingMissing
    <3> QED
      BY <1>2, <1>3, <3>3
  <2>3. CASE ReadPayload(i)
    <3>1. chunk[i] = q /\ q \in Int
      BY <1>0, <1>3, <2>3 DEF ReadPayload, OnTheLeg, Handling
    <3>3. CASE (\E w \in {"force", "put"} : reader' = [reader EXCEPT ![i] = w]) /\ UNCHANGED chunk
      <4>1. reader'[i] \in {"force", "put"} /\ chunk'[i] = q
        BY <3>1, <3>3 DEF Shape, LegShape
      <4> QED
        BY <4>1 DEF Gathered
    <3>4. CASE reader[i] = "awaited" /\ ~ClaimForced(i)
      <4>1. chunk[i] <= nextSeq /\ ~(forced < chunk[i] + 1)
        BY <3>4 DEF ForcedOnce, ClaimForced
      <4>2. q = nextSeq /\ forced > nextSeq
        BY <1>0, <1>3, <3>1, <4>1
      <4>3. Gathered(q)
        BY <4>2 DEF NothingMissing
      <4> QED
        BY <1>2, <1>3, <4>3
    <3> QED
      BY <2>3, <3>3, <3>4 DEF ReadPayload
  <2>4. CASE ForceAwaited(i) \/ Put(i) \/ LegDone(i)
    BY <1>3, <2>4 DEF ForceAwaited, Put, LegDone
  <2> QED
    BY <1>1, <2>1, <2>2, <2>3, <2>4
<1>4. wire' = wire \/ (wire' = [wire EXCEPT ![i] = Tail(wire[i])] /\ wire[i] # <<>>)
  <2>1. CASE ReadHeader(i)
    BY <2>1 DEF ReadHeader
  <2>2. CASE ParkLook(i) \/ ReadPayload(i)
    <3>1. wire[i] # <<>>
      BY <2>2 DEF ParkLook, ReadPayload, OnTheLeg, Handling
    <3> QED
      BY <2>2, <3>1 DEF ParkLook, ReadPayload, Discard
  <2>3. CASE ForceAwaited(i) \/ Put(i) \/ LegDone(i)
    BY <2>3 DEF ForceAwaited, Put, LegDone
  <2> QED
    BY <1>1, <2>1, <2>2, <2>3
<1>5. ASSUME NEW q \in Seqs, nextSeq <= q, NEW j \in Legs, OnItsWay(q, j) PROVE Gathered(q)' \/ OnItsWay(q, j)'
  <2>1. CASE wire' = wire
    BY <1>0, <1>5, <2>1 DEF OnItsWay
  <2>2. CASE wire' # wire
    <3>1. wire' = [wire EXCEPT ![i] = Tail(wire[i])] /\ wire[i] # <<>>
      BY <1>4, <2>2
    <3>2. OnItsWay(q, j)' \/ Head(wire[i]) = q
      BY <1>0, <1>5, <3>1, HeadGoes
    <3> QED
      BY <1>3, <1>5, <2>2, <3>1, <3>2
  <2> QED
    BY <2>1, <2>2
<1>6. ASSUME NEW q \in Seqs, nextSeq' <= q, q < Taken' PROVE Gathered(q)' \/ \E j \in Legs : OnItsWay(q, j)'
  <2>1. Gathered(q) \/ \E j \in Legs : OnItsWay(q, j)
    BY <1>0, <1>6 DEF NothingMissing
  <2> QED
    BY <1>0, <1>2, <1>5, <1>6, <2>1
<1>7. ASSUME forced' > nextSeq PROVE \A q : q = nextSeq => Gathered(q)'
  <2>1. CASE forced' = forced
    <3>1. Gathered(nextSeq)
      BY <1>7, <2>1 DEF NothingMissing
    <3>2. nextSeq \in Seqs
      BY <3>1 DEF Gathered, Shape, ReadShape, LegShape, Handling
    <3> QED
      BY <1>0, <1>2, <3>1, <3>2
  <2>2. CASE forced' # forced
    <3>1. ReadPayload(i) /\ reader[i] = "awaited" /\ forced' = chunk[i] + 1 /\ reader' = [reader EXCEPT ![i] = "force"] /\ chunk' = chunk
      BY <1>1, <2>2 DEF ReadHeader, ParkLook, ReadPayload, ForceAwaited, Put, LegDone
    <3>2. chunk[i] \in Int /\ chunk[i] <= nextSeq
      BY <1>0, <3>1 DEF ForcedOnce, Shape, LegShape, Handling
    <3>3. chunk[i] = nextSeq
      BY <1>0, <1>7, <3>1, <3>2
    <3>4. reader'[i] = "force" /\ chunk'[i] = nextSeq
      BY <3>1, <3>3 DEF Shape, LegShape
    <3> QED
      BY <3>4 DEF Gathered
  <2> QED
    BY <2>1, <2>2
<1>8. forced' > nextSeq' => Gathered(nextSeq)'
  BY <1>0, <1>7
<1> QED
  BY <1>6, <1>8 DEF NothingMissing


LEMMA ReadMisses ==
    ASSUME Shape, ForcedOnce, NothingMissing, result = "open", result' = "open", ReadStep \/ Stalls
    PROVE  NothingMissing'
<1>0. /\ UNCHANGED <<worker, inSeq, wire, reader, chunk, forced>> /\ Taken' = Taken
      /\ nextSeq \in Int /\ forced \in Int /\ chunkCh \in Seq(Seqs) /\ \A q \in Seqs : q \in Int
  <2>1. UNCHANGED <<worker, inSeq, wire, reader, chunk, forced>> /\ Taken' = Taken
    BY ReadFrame DEF readFrame, senderVars, writeVars, Accepted, Taken
  <2>2. nextSeq \in Int /\ forced \in Int /\ chunkCh \in Seq(Seqs)
    BY DEF Shape, ReadShape, LegShape
  <2> QED
    BY <2>1, <2>2, NumbersAre
<1>1. \A q : \A j \in Legs : OnItsWay(q, j) => OnItsWay(q, j)'
  BY <1>0 DEF OnItsWay
<1>2. ASSUME nextSeq' = nextSeq \/ nextSeq' = nextSeq + 1, \A q \in Seqs : nextSeq' <= q /\ Gathered(q) => Gathered(q)'
      PROVE  NothingMissing'
  <2>1. ASSUME NEW q \in Seqs, nextSeq' <= q, q < Taken' PROVE Gathered(q)' \/ \E j \in Legs : OnItsWay(q, j)'
    <3>1. q \in Int /\ nextSeq <= q /\ q < Taken
      BY <1>0, <1>2, <2>1
    <3>2. Gathered(q) \/ \E j \in Legs : OnItsWay(q, j)
      BY <3>1 DEF NothingMissing
    <3> QED
      BY <1>1, <1>2, <2>1, <3>2
  <2>2. ASSUME forced' > nextSeq' PROVE \A q : q = nextSeq' => Gathered(q)'
    <3>1. nextSeq' = nextSeq /\ forced > nextSeq
      BY <1>0, <1>2, <2>2 DEF ForcedOnce
    <3>2. Gathered(nextSeq)
      BY <3>1 DEF NothingMissing
    <3>3. nextSeq \in Seqs
      BY <3>2 DEF Gathered, Shape, ReadShape, LegShape, Handling
    <3> QED
      BY <1>0, <1>2, <3>1, <3>2, <3>3
  <2> QED
    BY <2>1, <2>2 DEF NothingMissing
<1>3. ASSUME chunkCh # <<>>, chunkCh' = Tail(chunkCh), NEW q, \E k \in 1..Len(chunkCh) : chunkCh[k] = q, Head(chunkCh) # q
      PROVE  \E k \in 1..Len(chunkCh') : chunkCh'[k] = q
  <2>1. /\ Len(chunkCh') = Len(chunkCh) - 1 /\ Len(chunkCh) \in Nat \ {0} /\ Head(chunkCh) = chunkCh[1]
        /\ \A k \in 1..(Len(chunkCh) - 1) : chunkCh'[k] = chunkCh[k + 1]
    BY <1>0, <1>3, Behead
  <2>2. PICK k \in 1..Len(chunkCh) : chunkCh[k] = q
    BY <1>3
  <2>3. k - 1 \in 1..Len(chunkCh') /\ (k - 1) + 1 = k /\ k - 1 \in 1..(Len(chunkCh) - 1)
    BY <1>3, <2>1, <2>2
  <2> QED
    BY <2>1, <2>2, <2>3
<1>4. CASE Deliver
  <2>1. \A q \in Seqs : nextSeq' <= q /\ Gathered(q) => Gathered(q)'
    BY <1>0, <1>4 DEF Deliver, Gathered
  <2> QED
    BY <1>2, <1>4, <2>1 DEF Deliver
<1>5. CASE StashNext
  <2>1. ASSUME NEW q \in Seqs, nextSeq' <= q, Gathered(q) PROVE Gathered(q)'
    <3>1. Head(chunkCh) # q
      BY <1>0, <1>5, <2>1 DEF StashNext
    <3> QED
      BY <1>0, <1>3, <1>5, <2>1, <3>1 DEF StashNext, Gathered
  <2> QED
    BY <1>2, <1>5, <2>1 DEF StashNext
<1>6. CASE StashLater
  <2>1. ASSUME NEW q \in Seqs, nextSeq' <= q, Gathered(q) PROVE Gathered(q)'
    <3>1. CASE Head(chunkCh) = q
      BY <1>6, <3>1 DEF StashLater, Gathered
    <3>2. CASE Head(chunkCh) # q
      BY <1>0, <1>3, <1>6, <2>1, <3>2 DEF StashLater, Gathered
    <3> QED
      BY <3>1, <3>2
  <2> QED
    BY <1>2, <1>6, <2>1 DEF StashLater
<1>7. CASE StashCopy
  <2>1. ASSUME NEW q \in Seqs, nextSeq' <= q, Gathered(q) PROVE Gathered(q)'
    <3>1. CASE Head(chunkCh) = q
      <4>1. q \in pending
        BY <1>0, <1>7, <2>1, <3>1 DEF StashCopy
      <4> QED
        BY <1>7, <4>1 DEF StashCopy, Gathered
    <3>2. CASE Head(chunkCh) # q
      BY <1>0, <1>3, <1>7, <2>1, <3>2 DEF StashCopy, Gathered
    <3> QED
      BY <3>1, <3>2
  <2> QED
    BY <1>2, <1>7, <2>1 DEF StashCopy
<1>8. CASE Consume \/ Looks
  <2>1. UNCHANGED <<pending, chunkCh, nextSeq>>
    BY <1>8 DEF Consume, Looks
  <2>2. \A q : Gathered(q) => Gathered(q)'
    BY <1>0, <2>1 DEF Gathered
  <2> QED
    BY <1>2, <2>1, <2>2
<1>9. CASE ParkDrain
  <2>1. ASSUME NEW q \in Seqs, nextSeq' <= q, Gathered(q) PROVE Gathered(q)'
    <3>1. nextSeq' = nextSeq /\ pending' = Drained
      BY <1>9 DEF ParkDrain
    <3>2. CASE q \in pending \/ \E k \in 1..Len(chunkCh) : chunkCh[k] = q
      <4>1. q \in Drained
        BY <1>0, <2>1, <3>1, <3>2 DEF Drained, Elems
      <4> QED
        BY <3>1, <4>1 DEF Gathered
    <3>3. CASE \E j \in Legs : reader[j] \in {"force", "put"} /\ chunk[j] = q
      BY <1>0, <3>3 DEF Gathered
    <3> QED
      BY <2>1, <3>2, <3>3 DEF Gathered
  <2> QED
    BY <1>2, <1>9, <2>1 DEF ParkDrain
<1>10. CASE Drops
  BY <1>10 DEF Drops
<1> QED
  BY <1>4, <1>5, <1>6, <1>7, <1>8, <1>9, <1>10, KindsOfRead

\* When every leg waits on a later chunk, the awaited one is in the channel: on no
\* leg is it ahead of what the reader waits on, and no worker has it still to write.
LEMMA StuckHasIt ==
    ASSUME Shape, OnTheLeg, NumberedInOrder, EndsMean, NothingMissing, ParkedPast # {}, nextSeq \notin pending
    PROVE  \E k \in 1..Len(chunkCh) : chunkCh[k] = nextSeq
<1>0. nextSeq \in Int /\ nextSeq >= 0 /\ Taken \in Int /\ MaxChunks \in Int
  BY TakenType, SeqsAre DEF Shape, ReadShape
<1>1. /\ \A i \in Legs : reader[i] = "ended" \/ (reader[i] = "parked" /\ chunk[i] > nextSeq)
      /\ \E i \in Legs : reader[i] = "parked" /\ chunk[i] > nextSeq
  BY DEF ParkedPast
<1>2. nextSeq < Taken /\ nextSeq \in Seqs
  <2>1. PICK i \in Legs : reader[i] = "parked" /\ chunk[i] > nextSeq
    BY <1>1
  <2>2. chunk[i] \in Seqs /\ chunk[i] < Taken
    BY <2>1 DEF Shape, LegShape, Handling, NumberedInOrder, ReadBelow
  <2>3. chunk[i] \in Int /\ chunk[i] <= MaxChunks - 1
    BY <1>0, <2>2 DEF Seqs
  <2> QED
    BY <1>0, <2>1, <2>2, <2>3 DEF Seqs
<1>3. ASSUME NEW i \in Legs PROVE ~OnItsWay(nextSeq, i)
  <2>1. CASE reader[i] = "ended"
    <3>1. wire[i] = <<>> /\ worker[i] = "ended"
      BY <2>1 DEF EndsMean
    <3>2. ~\E k \in 1..Len(wire[i]) : TRUE
      BY <3>1
    <3> QED
      BY <3>1, <3>2 DEF OnItsWay
  <2>2. CASE reader[i] = "parked" /\ chunk[i] > nextSeq
    <3>1. wire[i] # <<>> /\ Head(wire[i]) = chunk[i] /\ chunk[i] \in Int
      BY <2>2, NumbersAre DEF OnTheLeg, Handling, Shape, LegShape
    <3>2. Len(wire[i]) \in Nat \ {0} /\ Head(wire[i]) = wire[i][1]
      BY <3>1, Behead DEF Shape, WireShape
    <3>3. ~(wire[i][1] <= nextSeq) /\ 1 \in 1..Len(wire[i]) /\ \A k \in 1..Len(wire[i]) : 1 \in 1..k
      BY <1>0, <2>2, <3>1, <3>2
    <3> QED
      BY <3>3 DEF OnItsWay
  <2> QED
    BY <1>1, <2>1, <2>2
<1>4. Gathered(nextSeq)
  BY <1>0, <1>2, <1>3 DEF NothingMissing
<1>5. \A i \in Legs : reader[i] \notin {"force", "put"}
  BY <1>1
<1> QED
  BY <1>4, <1>5 DEF Gathered

LEMMA LookStep ==
    ASSUME Shape, OnTheLeg, NumberedInOrder, EndsMean, NothingMissing, LookMeans, ~Lost, result = "open", result' = "open", [Next]_vars
    PROVE  LookMeans'
<1>1. CASE SenderOrWire
  BY <1>1, SenderFrame DEF receiverVars, readVars, LookMeans
<1>2. ASSUME NEW i \in Legs, LegStep(i) PROVE LookMeans'
  <2>1. UNCHANGED <<nextSeq, was, readPc>>
    BY <1>2, LegFrame
  <2>2. chunkCh' = chunkCh \/ (Put(i) /\ chunk[i] \in Seqs)
    <3>1. chunkCh' = chunkCh \/ Put(i)
      BY <1>2 DEF LegStep, ReadHeader, ParkLook, Discard, ReadPayload, ForceAwaited, ReaderStops, LegDone, LegFails
    <3> QED
      BY <3>1 DEF Put, Shape, LegShape
  <2>3. CASE chunkCh' = chunkCh
    BY <2>1, <2>3 DEF LookMeans
  <2>4. CASE Put(i) /\ chunk[i] \in Seqs
    <3>1. (\E k \in 1..Len(chunkCh) : chunkCh[k] = nextSeq) => \E k \in 1..Len(chunkCh') : chunkCh'[k] = nextSeq
      BY <2>4, PutGathers
    <3> QED
      BY <2>1, <3>1 DEF LookMeans
  <2> QED
    BY <2>2, <2>3, <2>4
<1>3. CASE ReadStep \/ Stalls
  <2>1. CASE Deliver
    BY <2>1 DEF Deliver, InRead, LookMeans
  <2>2. CASE InRead /\ (StashNext \/ StashLater \/ StashCopy) /\ UNCHANGED <<was, readPc, err, result>>
    BY <2>2 DEF InRead, LookMeans
  <2>3. CASE Consume
    BY <2>3 DEF Consume, LookMeans
  <2>4. CASE ParkDrain
    <3>1. CASE was # {}
      <4>1. nextSeq \in Drained
        <5>1. \E k \in 1..Len(chunkCh) : chunkCh[k] = nextSeq
          BY <2>4, <3>1 DEF ParkDrain, LookMeans
        <5>2. nextSeq >= nextSeq
          BY DEF Shape, ReadShape
        <5> QED
          BY <5>1, <5>2 DEF Drained, Elems
      <4> QED
        BY <2>4, <4>1 DEF ParkDrain, LookMeans
    <3>2. CASE was = {}
      BY <2>4, <3>2 DEF ParkDrain, LookMeans
    <3> QED
      BY <3>1, <3>2
  <2>5. CASE Drops
    BY <2>5 DEF Drops
  <2>6. CASE ParkFirstLook
    <3>1. was' = ParkedPast /\ readPc' = "drain" /\ nextSeq \notin pending /\ chunkCh' = chunkCh /\ nextSeq' = nextSeq
      BY <2>6 DEF ParkFirstLook
    <3>2. was' # {} => \E k \in 1..Len(chunkCh) : chunkCh[k] = nextSeq
      BY <3>1, StuckHasIt
    <3> QED
      BY <3>1, <3>2 DEF LookMeans
  <2>7. CASE readPc' = "select"
    BY <2>7 DEF LookMeans
  <2> QED
    BY <1>3, <2>1, <2>2, <2>3, <2>4, <2>5, <2>6, <2>7, KindsOfRead
<1>4. CASE UNCHANGED vars
  BY <1>4 DEF vars, readVars, LookMeans
<1> QED
  BY <1>1, <1>2, <1>3, <1>4, KindsOfStep

LEMMA SoundStep ==
    ASSUME Shape, OnTheLeg, NumberedInOrder, ForcedOnce, Sound, [Next]_vars PROVE Sound'
<1> SUFFICES ASSUME result' = "open", ~Lost' PROVE EndsMean' /\ NothingMissing' /\ LookMeans'
  BY DEF Sound
<1>1. result = "open" /\ ~Lost
  BY LostStays
<1>2. EndsMean /\ NothingMissing /\ LookMeans
  BY <1>1 DEF Sound
<1>3. CASE UNCHANGED vars
  <2>1. NothingMissing'
    BY <1>2, <1>3 DEF vars, senderVars, writeVars, closeVars, legReaders, readVars, NothingMissing, Gathered, OnItsWay, Taken, Accepted
  <2> QED
    BY <1>1, <1>2, <2>1, EndsStep, LookStep
<1>4. NothingMissing'
  BY <1>1, <1>2, <1>3, SenderMisses, LegMisses, ReadMisses, KindsOfStep
<1> QED
  BY <1>1, <1>2, <1>4, EndsStep, LookStep

LEMMA StarvedStep ==
    ASSUME Shape, Sound, LooksWhileOpen, NeverStarved, [Next]_vars PROVE NeverStarved'
<1>0. NeverStarved <=> (err = "budget" => Lost)
  BY DEF NeverStarved, Lost
<1>1. NeverStarved' <=> (err' = "budget" => Lost')
  BY DEF NeverStarved, Lost
<1>2. ASSUME err' = "budget", err # "budget" PROVE Lost
  <2>1. CASE SenderOrWire
    BY <1>2, <2>1, SenderFrame DEF receiverVars, readVars
  <2>2. ASSUME NEW i \in Legs, LegStep(i) PROVE FALSE
    BY <1>2, <2>2 DEF LegStep, KeepOthers, readVars, ReadHeader, ParkLook, ReadPayload, ForceAwaited, Put, ReaderStops, LegDone, LegFails
  <2>3. CASE ReadStep \/ Stalls
    <3>1. ParkSecondLook /\ StillStuck
      BY <1>2, <2>3 DEF ReadStep, Stalls, Deliver, Stash, Consume, ReturnEOF, ReturnError, Return, ParkFirstLook, ParkDrain, ParkSecondLook
    <3>2. readPc = "look" /\ was # {} /\ result = "open"
      BY <3>1 DEF ParkSecondLook, StillStuck, LooksWhileOpen
    <3> QED
      BY <3>2 DEF Sound, LookMeans
  <2>4. CASE UNCHANGED vars
    BY <1>2, <2>4 DEF vars, readVars
  <2> QED
    BY <2>1, <2>2, <2>3, <2>4, KindsOfStep
<1> QED
  BY <1>0, <1>1, <1>2, LostStays

-----------------------------------------------------------------------------
(* The theorems. *)

StripingInv ==
    /\ Shape /\ OnTheLeg /\ NumberedInOrder /\ MarkedWhole /\ ForcedOnce /\ Charged /\ WithinLimit
    /\ Sound /\ LooksWhileOpen /\ GotInOrder /\ EndMeans /\ NeverStarved

LEMMA InitInv == Init => StripingInv
<1> SUFFICES ASSUME Init PROVE StripingInv
  OBVIOUS
<1>1. Shape /\ OnTheLeg
  BY InitShape
<1>2. Taken = 0
  <2>1. Accepted = 0 /\ Len(writeQueue) = 0
    BY DEF Init, Accepted
  <2> QED
    BY <2>1 DEF Taken
<1>3. NumberedInOrder
  BY <1>2 DEF Init, NumberedInOrder, QueueInOrder, InHandBelow, OnLegsBelow, ReadBelow, Nothing
<1>4. MarkedWhole
  BY DEF Init, MarkedWhole
<1>5. ForcedOnce
  BY DEF Init, ForcedOnce
<1>6. Charged
  <2>1. Kept = {} /\ BeingRead = 0
    BY DEF Init, Kept, BeingRead, Charging
  <2> QED
    BY <2>1, FS_EmptySet DEF Init, Charged
<1>7. WithinLimit
  BY CapsAre DEF Init, WithinLimit
<1>8. Sound
  <2>1. EndsMean
    BY DEF Init, EndsMean
  <2>2. NothingMissing
    <3>1. \A q \in Seqs : ~(nextSeq <= q /\ q < Taken)
      BY <1>2, NumbersAre DEF Init
    <3> QED
      BY <3>1 DEF Init, NothingMissing
  <2>3. LookMeans
    BY DEF Init, LookMeans
  <2> QED
    BY <2>1, <2>2, <2>3 DEF Sound
<1>9. LooksWhileOpen /\ GotInOrder /\ EndMeans /\ NeverStarved
  BY DEF Init, LooksWhileOpen, GotInOrder, BeingRead, EndMeans, NeverStarved
<1> QED
  BY <1>1, <1>3, <1>4, <1>5, <1>6, <1>7, <1>8, <1>9 DEF StripingInv

\* The inductive invariant of a striped direction.
THEOREM StripingInvariant == Spec => []StripingInv
<1>1. StripingInv /\ [Next]_vars => StripingInv'
  <2> SUFFICES ASSUME StripingInv, [Next]_vars PROVE StripingInv'
    OBVIOUS
  <2>1. Shape' /\ OnTheLeg' /\ NumberedInOrder' /\ MarkedWhole' /\ ForcedOnce' /\ Charged' /\ WithinLimit'
    BY ShapeStep, NumbersStep, MarkedWholeStep, ForcedStep, ChargedStep, LimitStep DEF StripingInv
  <2>2. Sound' /\ LooksWhileOpen' /\ GotInOrder' /\ EndMeans' /\ NeverStarved'
    BY SoundStep, LooksOpenStep, GotStep, CleanEndStep, StarvedStep DEF StripingInv
  <2> QED
    BY <2>1, <2>2 DEF StripingInv
<1> QED
  BY <1>1, InitInv, PTL DEF Spec

\* Every variable of a striped direction keeps its type, the queues, the legs and the
\* channel their capacities.
THEOREM StripingTyped == Spec => []TypeOK
<1>1. StripingInv => TypeOK
  <2> SUFFICES ASSUME StripingInv PROVE TypeOK
    OBVIOUS
  <2>1. SenderShape /\ WireShape /\ LegShape /\ ReadShape
    BY DEF StripingInv, Shape
  <2>2. {flush, timedOut, broken, parkTok} \subseteq BOOLEAN
    BY <2>1 DEF SenderShape, LegShape, ReadShape
  <2> QED
    BY <2>1, <2>2 DEF SenderShape, WireShape, LegShape, ReadShape, TypeOK
<1> QED
  BY <1>1, StripingInvariant, PTL

\* The reassembly budget (admit, forceAwaited, releaseReadBuf, dropReassembly) is
\* charged for exactly what the receiver holds, and exceeds its limit by the awaited
\* chunk and its predecessor at most.
THEOREM BudgetIsConserved == Spec => []BudgetConserved
<1>1. StripingInv => BudgetConserved
  BY DEF StripingInv, Charged, WithinLimit, Kept, BeingRead, BudgetConserved
<1> QED
  BY <1>1, StripingInvariant, PTL

\* Whatever legs are cut, chunks sent twice, writes refused or flushes abandoned: the
\* caller of Read is given the chunks as they were written, and told of a clean end
\* only after all that Write had taken when CloseWrite was called.
THEOREM EndIsWhole == Spec => []LosslessOrLoud
<1>1. StripingInv => LosslessOrLoud
  <2> SUFFICES ASSUME StripingInv PROVE LosslessOrLoud
    OBVIOUS
  <2>1. got \in Seq(Seqs) /\ owed \in Int /\ GotInOrder /\ EndMeans
    BY DEF StripingInv, Shape, ReadShape, SenderShape
  <2> QED
    BY <2>1 DEF GotInOrder, EndMeans, LosslessOrLoud
<1> QED
  BY <1>1, StripingInvariant, PTL

\* A flow from which nothing is missing is never failed for its budget (parkedPast,
\* drainAvailable, sameParked).
THEOREM NotStarved == Spec => []NeverStarved
BY StripingInvariant, PTL DEF StripingInv
===============================================================================
