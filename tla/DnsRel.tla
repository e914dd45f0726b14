------------------------------- MODULE DnsRel -------------------------------
(***************************************************************************)
(* The reliable stream of the DNS carrier (transport/dns/rel/rel.go): one  *)
(* direction of data, from the sending half of one Endpoint to the         *)
(* receiving half of its peer, and the acknowledgements, windows and SACK  *)
(* blocks that come back, over exchanges that lose, repeat and reorder     *)
(* packets.                                                                *)
(*                                                                         *)
(* Sequence numbers are taken modulo M (2^32 in the code).  A byte is its  *)
(* position in the stream, so what arrives can be told from what was sent. *)
(* Timers are choices: an unacknowledged segment may time out at any time. *)
(***************************************************************************)
EXTENDS Integers, Sequences, FiniteSets, FiniteSetsExt, Functions

CONSTANTS M,            \* size of the sequence space
          ISN,
          MaxBytes,     \* bytes the application writes
          Sizes,        \* values of MSS that SetMSS may choose
          MaxInflight, RecvBuf,
          MaxNet,       \* bound on packets in transit, each way
          MaxFaults     \* bound on packets lost or repeated

ASSUME RelAssumption ==
    /\ M \in Nat /\ M % 2 = 0 /\ ISN \in 0..(M - 1)
    /\ MaxBytes \in Nat /\ 2 * MaxBytes < M
    /\ Sizes # {} /\ Sizes \subseteq Nat \ {0}
    /\ {MaxInflight, RecvBuf, MaxNet} \subseteq Nat \ {0} /\ MaxFaults \in Nat

VARIABLES
    mss,
    sndBuf,    \* bytes written and not yet cut into a segment
    sndUna, sndNxt,
    inflight,  \* segments [seq, data, sacked], in order
    peerWnd,
    rcvNxt,
    unread,    \* Len(rcvBuf)
    ooo,       \* segments [seq, data] received out of order
    got,       \* every byte put in order so far
    data,      \* packets in transit to the receiver
    acks,      \* packets in transit to the sender
    faults

sndVars == <<mss, sndBuf, sndUna, sndNxt, inflight, peerWnd>>
rcvVars == <<rcvNxt, unread, ooo, got>>
relVars == <<sndVars, rcvVars, data, acks, faults>>

SeqAdd(a, n) == (a + n) % M

\* A seeded fault: sequence numbers are compared as plain numbers.
AfterPlain(a, b) == a > b

\* after: int32(a - b) > 0
After(a, b) == LET d == (a - b) % M IN 0 < d /\ d < M \div 2

SegEnd(s) == SeqAdd(s.seq, Len(s.data))

RelTypeOK ==
    /\ mss \in Sizes
    /\ sndBuf \in Seq(1..MaxBytes)
    /\ {sndUna, sndNxt, rcvNxt} \subseteq 0..(M - 1)
    /\ \A i \in 1..Len(inflight) : inflight[i].seq \in 0..(M - 1) /\ inflight[i].sacked \in BOOLEAN
    /\ peerWnd \in 0..65535 /\ unread \in 0..RecvBuf
    /\ Cardinality(data) <= MaxNet /\ Cardinality(acks) <= MaxNet /\ faults \in 0..MaxFaults

\* New, with everything the application writes handed over at once.
RelInit ==
    /\ mss \in Sizes
    /\ sndBuf = [i \in 1..MaxBytes |-> i]
    /\ sndUna = ISN /\ sndNxt = ISN /\ inflight = <<>> /\ peerWnd = mss
    /\ rcvNxt = ISN /\ unread = 0 /\ ooo = {} /\ got = <<>>
    /\ data = {} /\ acks = {} /\ faults = 0

-----------------------------------------------------------------------------
(* The sending half. *)

SetMSS(n) ==
    /\ n # mss
    /\ mss' = n
    /\ UNCHANGED <<sndBuf, sndUna, sndNxt, inflight, peerWnd, rcvVars, data, acks, faults>>

Least(a, b) == IF a <= b THEN a ELSE b

InflightBytes == SumFunction([i \in 1..Len(inflight) |-> Len(inflight[i].data)])

Segment(s, d) == [seq |-> s, data |-> d]

\* Next, with new data: a segment within the peer's window and MaxInflight.
NextNew ==
    LET room == Least(peerWnd, MaxInflight) - InflightBytes
        n == Least(Least(Len(sndBuf), mss), room)
        d == SubSeq(sndBuf, 1, n)
    IN /\ room > 0 /\ sndBuf # <<>> /\ Cardinality(data) < MaxNet
       /\ inflight' = Append(inflight, [seq |-> sndNxt, data |-> d, sacked |-> FALSE])
       /\ sndBuf' = SubSeq(sndBuf, n + 1, Len(sndBuf))
       /\ sndNxt' = SeqAdd(sndNxt, n)
       /\ data' = data \cup {Segment(sndNxt, d)}
       /\ UNCHANGED <<mss, sndUna, peerWnd, rcvVars, acks, faults>>

\* A seeded fault: the rest of a segment that is cut is forgotten.
SplitDropsRest(k) ==
    [inflight EXCEPT ![k].data = SubSeq(@, 1, Least(mss, Len(@)))]

\* split: the segment at k is cut to the current MSS, its rest queued behind it.
Split(k) ==
    LET s == inflight[k] IN
    IF Len(s.data) <= mss THEN inflight
    ELSE SubSeq(inflight, 1, k - 1)
         \o << [s EXCEPT !.data = SubSeq(s.data, 1, mss)],
               [seq |-> SeqAdd(s.seq, mss), data |-> SubSeq(s.data, mss + 1, Len(s.data)), sacked |-> FALSE] >>
         \o SubSeq(inflight, k + 1, Len(inflight))

\* Next, for a segment that timed out (or is early, before a sacked block).
NextResend(k) ==
    /\ ~inflight[k].sacked /\ Cardinality(data) < MaxNet
    /\ inflight' = Split(k)
    /\ data' = data \cup {Segment(inflight'[k].seq, inflight'[k].data)}
    /\ data' # data
    /\ UNCHANGED <<mss, sndBuf, sndUna, sndNxt, peerWnd, rcvVars, acks, faults>>

\* A seeded fault: the block is taken from what is acknowledged here.
BlockFromUna(p) == [from |-> SeqAdd(sndUna, p.off), to |-> SeqAdd(SeqAdd(sndUna, p.off), p.len)]

\* The SACK block of a packet, which counts from the packet's own ACK.
Block(p) == [from |-> SeqAdd(p.ack, p.off), to |-> SeqAdd(SeqAdd(p.ack, p.off), p.len)]

\* applySack: what the peer holds behind a gap is not sent again.
ApplySack(p, q) ==
    IF p.len = 0 THEN q
    ELSE [i \in DOMAIN q |->
            [q[i] EXCEPT !.sacked = @ \/ (/\ ~After(Block(p).from, q[i].seq)
                                          /\ ~After(SegEnd(q[i]), Block(p).to))]]

\* The window is the last one heard, whatever the packet's age.
Window(p) == p.wnd

\* The segments of q that end behind a.
Kept(q, a) ==
    LET keep[i \in 0..Len(q)] ==
            IF i = 0 THEN <<>>
            ELSE IF After(SegEnd(q[i]), a) THEN Append(keep[i - 1], q[i]) ELSE keep[i - 1]
    IN  keep[Len(q)]

\* Recv at the sending end: the window, the cumulative ACK, the SACK block.
RecvAck(p) ==
    /\ p \in acks
    /\ acks' = acks \ {p}
    /\ peerWnd' = Window(p)
    /\ IF After(p.ack, sndUna) /\ ~After(p.ack, sndNxt)
       THEN /\ sndUna' = p.ack
            /\ inflight' = ApplySack(p, Kept(inflight, p.ack))
       ELSE /\ UNCHANGED sndUna
            /\ inflight' = ApplySack(p, inflight)
    /\ UNCHANGED <<mss, sndBuf, sndNxt, rcvVars, data, faults>>

-----------------------------------------------------------------------------
(* The receiving half. *)

\* How far x is ahead of rcvNxt.
Ahead(x) == (x - rcvNxt) % M

\* The byte that the segments S hold at stream position x, if any.
Covers(s, x) == ~After(s.seq, x) /\ After(SegEnd(s), x)
ByteAt(S, x) == LET s == CHOOSE t \in S : Covers(t, x) IN s.data[((x - s.seq) % M) + 1]

\* Bytes that are contiguous at rcvNxt, given the segments S.
Contiguous(S) ==
    CHOOSE n \in 0..MaxBytes :
        /\ \A i \in 0..(n - 1) : \E s \in S : Covers(s, SeqAdd(rcvNxt, i))
        /\ ~\E s \in S : Covers(s, SeqAdd(rcvNxt, n))

\* rx: old data is dropped and an overlap trimmed; beyond the window nothing is
\* kept; a segment behind a gap waits; else all that is contiguous now is taken.
Receive(s) ==
    LET cut == IF After(rcvNxt, s.seq) THEN (rcvNxt - s.seq) % M ELSE 0
        t == Segment(SeqAdd(s.seq, cut), SubSeq(s.data, cut + 1, Len(s.data)))
        S == ooo \cup {t}
        n == Contiguous(S)
        fits == Ahead(t.seq) + Len(t.data) <= RecvBuf - unread
    IN IF ~After(SegEnd(s), rcvNxt) \/ ~fits
       THEN UNCHANGED rcvVars
       ELSE IF t.seq # rcvNxt
       THEN /\ ooo' = IF \E o \in ooo : o.seq = t.seq THEN ooo ELSE S
            /\ UNCHANGED <<rcvNxt, unread, got>>
       ELSE /\ got' = got \o [i \in 1..n |-> ByteAt(S, SeqAdd(rcvNxt, i - 1))]
            /\ rcvNxt' = SeqAdd(rcvNxt, n)
            /\ unread' = unread + n
            /\ ooo' = {o \in ooo : After(o.seq, SeqAdd(rcvNxt, n))}

RecvData(s) ==
    /\ s \in data
    /\ data' = data \ {s}
    /\ Receive(s)
    /\ UNCHANGED <<sndVars, acks, faults>>

Read ==
    /\ unread > 0
    /\ unread' = unread - 1
    /\ UNCHANGED <<sndVars, rcvNxt, ooo, got, data, acks, faults>>

\* sackBlock: the first run of bytes held behind the gap.
SackBlock ==
    IF ooo = {} THEN [off |-> 0, len |-> 0]
    ELSE LET off == Min({Ahead(o.seq) : o \in ooo})
             n == CHOOSE n \in 1..MaxBytes :
                     /\ \A i \in 0..(n - 1) : \E o \in ooo : Covers(o, SeqAdd(rcvNxt, off + i))
                     /\ ~\E o \in ooo : Covers(o, SeqAdd(rcvNxt, off + n))
         IN [off |-> off, len |-> n]

\* Next at the receiving end: a packet without data, which is also the poll.
NextAck ==
    /\ Cardinality(acks) < MaxNet
    /\ acks' = acks \cup {[ack |-> rcvNxt, wnd |-> RecvBuf - unread,
                           off |-> SackBlock.off, len |-> SackBlock.len]}
    /\ UNCHANGED <<sndVars, rcvVars, data, faults>>

-----------------------------------------------------------------------------
(* The exchanges (external): a packet is lost, or arrives and is repeated. *)

Lose ==
    /\ faults < MaxFaults /\ faults' = faults + 1
    /\ \/ \E s \in data : data' = data \ {s} /\ UNCHANGED acks
       \/ \E p \in acks : acks' = acks \ {p} /\ UNCHANGED data
    /\ UNCHANGED <<sndVars, rcvVars>>

Repeat(s) ==
    /\ s \in data
    /\ faults < MaxFaults /\ faults' = faults + 1
    /\ Receive(s)
    /\ UNCHANGED <<sndVars, data, acks>>

RelNext ==
    \/ (\E n \in Sizes : SetMSS(n)) \/ NextNew \/ (\E k \in 1..Len(inflight) : NextResend(k))
    \/ (\E p \in acks : RecvAck(p)) \/ (\E s \in data : RecvData(s) \/ Repeat(s))
    \/ Read \/ NextAck \/ Lose

RelSpec == RelInit /\ [][RelNext]_relVars

\* Both ends keep exchanging packets, the oldest segment is sent again until it
\* is acknowledged, and a packet that is not lost arrives.
RelFairness ==
    /\ WF_relVars(NextNew) /\ SF_relVars(inflight # <<>> /\ NextResend(1))
    /\ WF_relVars(\E p \in acks : RecvAck(p)) /\ WF_relVars(NextAck) /\ WF_relVars(Read)
    /\ \A q \in 0..(MaxBytes - 1) : WF_relVars(\E s \in data : s.seq = SeqAdd(ISN, q) /\ RecvData(s))

RelFairSpec == RelSpec /\ RelFairness

-----------------------------------------------------------------------------
(* Properties. *)

\* What is put in order is what was written, each byte once, across the wrap of
\* the sequence numbers; and it is never more than the sender has sent.
InOrder ==
    /\ \A i \in 1..Len(got) : got[i] = i
    /\ rcvNxt = SeqAdd(ISN, Len(got)) /\ ~After(rcvNxt, sndNxt) /\ ~After(sndUna, rcvNxt)

\* A segment that is no longer sent, because the peer said it holds it, is held:
\* every byte of it was put in order or waits behind the gap.
SackedIsHeld ==
    \A k \in 1..Len(inflight) : inflight[k].sacked =>
        \A i \in 1..Len(inflight[k].data) :
            LET b == inflight[k].data[i] IN b <= Len(got) \/ \E o \in ooo : \E j \in DOMAIN o.data : o.data[j] = b

\* Everything written is delivered and read, whatever was lost, repeated or
\* overtaken; a window that closed opens again.
Delivered == <>[](Len(got) = MaxBytes /\ unread = 0 /\ inflight = <<>>)
=============================================================================
