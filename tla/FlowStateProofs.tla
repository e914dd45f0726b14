---------------------------- MODULE FlowStateProofs ----------------------------
(***************************************************************************)
(* What a resumable flow is kept in, for every value of the constants.      *)
(*                                                                          *)
(* The replay ring, for every capacity, limit and write size: its types,    *)
(* where its bytes lie, its bound, that its sender is never left asleep,    *)
(* and that it implements RetainedBytes.                                    *)
(*                                                                          *)
(* The tables of the flow, for any number of sessions, movers, attempts and *)
(* streams: the target is dialled once, the registry knows the session that *)
(* carries the flow, and no retirement leaves it behind.                    *)
(***************************************************************************)
EXTENDS ReplayRing, FlowTable, TLAPS

-----------------------------------------------------------------------------
(* The replay ring.                                                         *)

\* An index that starts in the storage and goes on by no more than its capacity
\* wraps at most once: append, copyOut, ackTo and readAt take no other remainder.
LEMMA Wrap ==
    ASSUME NEW c \in Nat \ {0}, NEW h \in Nat, NEW i \in Nat, h < c, i <= c
    PROVE  (h + i) % c = IF h + i < c THEN h + i ELSE h + i - c
<1>1. CASE h + i < c
  BY <1>1
<1>2. CASE h + i >= c
  BY <1>2
<1> QED
  BY <1>1, <1>2

\* What fits beside more fits beside less.
LEMMA Less ==
    ASSUME NEW a \in Nat, NEW b \in Nat, NEW w \in Nat, NEW l \in Nat, a <= b, b + w <= l
    PROVE  a + w <= l
  OBVIOUS

\* append's new storage holds what is retained and what is added.
LEMMA NewCapFits ==
    ASSUME TypeOK, NEW need \in Nat \ {0}, NEW c \in NewCaps(need)
    PROVE  c \in Nat \ {0} /\ c >= need /\ (need <= cap <=> c = cap)
<1>1. cap \in Nat /\ limit \in Nat /\ MinCap \in Nat \ {0}
  BY RingAssumption DEF TypeOK
<1>2. CASE need <= cap
  BY <1>1, <1>2 DEF NewCaps
<1>3. CASE need > cap
  <2> DEFINE start   == IF cap * 2 < MinCap THEN MinCap ELSE cap * 2
             doubled == IF start >= need THEN {start} ELSE need..(2 * need - 1)
             most    == IF limit > need THEN limit ELSE need
  <2>1. PICK d \in doubled : c = IF d > limit THEN most ELSE d
    BY <1>1, <1>3 DEF NewCaps
  <2>2. d \in Nat /\ d >= need
    BY <1>1, <2>1
  <2>3. most \in Nat /\ most >= need
    BY <1>1
  <2> QED
    BY <1>1, <1>3, <2>1, <2>2, <2>3
<1> QED
  BY <1>1, <1>2, <1>3

\* The sender asks for something, and appends what fits.
SenderOK ==
    /\ pc \in {"check", "select", "append"} => want >= 1
    /\ pc = "append" => size + want <= limit

\* The inductive invariant.
Inv == TypeOK /\ ContentOK /\ Bounded /\ NoLostWakeup /\ SenderOK

\* append keeps the retained bytes and adds the new ones behind them.
LEMMA StoreOK ==
    ASSUME TypeOK, ContentOK, NEW n \in Nat \ {0}, NEW c \in NewCaps(size + n), Store(n, c)
    PROVE  /\ ContentOK'
           /\ cap' \in Nat /\ head' \in Nat
           /\ buf' \in [Slots(cap') -> Int]
<1> DEFINE h    == IF c = cap THEN head ELSE 0
           old  == IF c = cap THEN buf ELSE Grown(c)
           tail == (h + size) % c
<1>1. /\ cap \in Nat /\ size \in Nat /\ base \in Nat /\ head \in Nat
      /\ buf \in [Slots(cap) -> Int]
      /\ size <= cap /\ (cap > 0 => head < cap)
  BY DEF TypeOK, ContentOK
<1>2. c \in Nat \ {0} /\ size + n <= c /\ (size + n <= cap <=> c = cap)
  BY <1>1, NewCapFits
<1>3. \A i \in 0..(size - 1) : (head + i) % cap \in Slots(cap) /\ buf[(head + i) % cap] = base + i
  <2> TAKE i \in 0..(size - 1)
  <2>1. (head + i) % cap = IF head + i < cap THEN head + i ELSE head + i - cap
    BY <1>1, Wrap
  <2> QED
    BY <1>1, <2>1 DEF ContentOK, Slots
<1>4. h \in Nat /\ h < c /\ (c = cap => h = head) /\ (c # cap => h = 0)
  BY <1>1, <1>2
<1>5. /\ old \in [Slots(c) -> Int]
      /\ c = cap => old = buf
      /\ c # cap => \A i \in 0..(size - 1) : old[i] = base + i
  <2>1. CASE c = cap
    BY <1>1, <2>1
  <2>2. CASE c # cap
    <3>1. old = [s \in Slots(c) |-> IF s < size THEN buf[(head + s) % cap] ELSE -1]
      BY <2>2 DEF Grown
    <3>2. ASSUME NEW s \in Slots(c), s < size
          PROVE  buf[(head + s) % cap] = base + s
      BY <1>1, <1>2, <1>3, <3>2 DEF Slots
    <3>3. ASSUME NEW s \in Slots(c)
          PROVE  (IF s < size THEN buf[(head + s) % cap] ELSE -1) \in Int
      BY <1>1, <1>2, <3>2 DEF Slots
    <3>4. \A i \in 0..(size - 1) : i \in Slots(c) /\ i < size
      BY <1>1, <1>2 DEF Slots
    <3> HIDE DEF old
    <3> QED
      BY <2>2, <3>1, <3>2, <3>3, <3>4
  <2> QED
    BY <2>1, <2>2
<1>6. /\ buf' = [s \in Slots(c) |->
                   IF s >= tail /\ s < tail + n THEN end + (s - tail)
                   ELSE IF s < tail + n - c     THEN end + (s + c - tail)
                   ELSE old[s]]
      /\ cap' = c /\ head' = h /\ size' = size + n /\ base' = base
  BY DEF Store
<1>7. tail = (h + size) % c
  OBVIOUS
<1> HIDE DEF h, old, tail
<1>8. tail = (IF h + size < c THEN h + size ELSE h + size - c) /\ tail \in Nat /\ end \in Nat
  <2>1. tail = IF h + size < c THEN h + size ELSE h + size - c
    BY <1>1, <1>2, <1>4, <1>7, Wrap
  <2> QED
    BY <1>1, <1>2, <1>4, <2>1 DEF end
<1>9. buf' \in [Slots(c) -> Int]
  <2>1. ASSUME NEW s \in Slots(c)
        PROVE  s \in Int /\ old[s] \in Int /\ end + (s - tail) \in Int /\ end + (s + c - tail) \in Int
    BY <1>2, <1>5, <1>8 DEF Slots
  <2> QED
    BY <1>6, <2>1
<1>10. ASSUME NEW i \in 0..(size - 1)
       PROVE  old[(h + i) % c] = base + i
  <2>1. CASE c = cap
    BY <1>3, <1>4, <1>5, <2>1
  <2>2. CASE c # cap
    <3>1. i \in Nat /\ i < c
      BY <1>1, <1>2
    <3>2. (h + i) % c = IF h + i < c THEN h + i ELSE h + i - c
      BY <1>2, <1>4, <3>1, Wrap
    <3> QED
      BY <1>4, <1>5, <2>2, <3>1, <3>2
  <2> QED
    BY <2>1, <2>2
<1>11. ASSUME NEW i \in 0..(size + n - 1)
       PROVE  buf'[(h + i) % c] = base + i
  <2> DEFINE s == (h + i) % c
  <2>0. i \in Nat /\ i <= c
    BY <1>1, <1>2
  <2>1. s = IF h + i < c THEN h + i ELSE h + i - c
    BY <1>2, <1>4, <2>0, Wrap
  <2>2. i \in Int /\ (i < size => old[s] = base + i)
    BY <1>1, <1>10
  <2> HIDE DEF s
  <2>3. s \in Int /\ s \in Slots(c)
    BY <1>2, <1>4, <2>0, <2>1 DEF Slots
  <2>4. /\ i < size => ~(s >= tail /\ s < tail + n) /\ ~(s < tail + n - c)
        /\ i >= size => \/ s >= tail /\ s < tail + n /\ s - tail = i - size
                        \/ s < tail /\ s < tail + n - c /\ s + c - tail = i - size
    BY <1>1, <1>2, <1>4, <1>8, <2>0, <2>1
  <2>5. i < size => buf'[s] = base + i
    BY <1>6, <2>2, <2>3, <2>4
  <2>6. i >= size => buf'[s] = base + i
    BY <1>1, <1>2, <1>6, <1>8, <2>2, <2>3, <2>4 DEF end
  <2>7. buf'[s] = base + i
    BY <1>1, <2>2, <2>5, <2>6
  <2> QED
    BY <2>7 DEF s
<1>12. ContentOK'
  BY <1>1, <1>2, <1>4, <1>6, <1>11 DEF ContentOK
<1> QED
  BY <1>2, <1>4, <1>6, <1>9, <1>12

\* ackTo lets go of the oldest bytes and moves none of the others.
LEMMA AckOK ==
    ASSUME TypeOK, ContentOK, NEW off \in Nat, AckTo(off)
    PROVE  /\ ContentOK'
           /\ cap' \in Nat /\ head' \in Nat /\ size' \in Nat /\ base' \in Nat
           /\ buf' \in [Slots(cap') -> Int]
           /\ size' <= size
           /\ size' = size \/ space' = TRUE
           /\ space' = space \/ space' = TRUE
<1>1. /\ cap \in Nat /\ size \in Nat /\ base \in Nat /\ head \in Nat
      /\ buf \in [Slots(cap) -> Int]
      /\ size <= cap /\ (cap > 0 => head < cap)
  BY DEF TypeOK, ContentOK
<1>2. CASE off <= base \/ off > end
  <2>1. UNCHANGED <<buf, cap, head, size, base, space>>
    BY <1>2 DEF AckTo, storage
  <2>2. ContentOK'
    BY <2>1 DEF ContentOK
  <2> QED
    BY <1>1, <2>1, <2>2
<1>3. CASE ~(off <= base \/ off > end) /\ size = off - base
  <2>1. /\ head' = 0 /\ size' = 0 /\ base' = off /\ space' = TRUE
        /\ \/ cap' = cap /\ buf' = buf
           \/ cap' = 0 /\ buf' = << >>
    BY <1>1, <1>3 DEF AckTo
  <2>2. buf' \in [Slots(cap') -> Int]
    <3>1. CASE cap' = cap /\ buf' = buf
      BY <1>1, <3>1
    <3>2. CASE cap' = 0 /\ buf' = << >>
      BY <3>2 DEF Slots
    <3> QED
      BY <2>1, <3>1, <3>2
  <2>3. ContentOK'
    BY <1>1, <2>1 DEF ContentOK
  <2> QED
    BY <1>1, <2>1, <2>2, <2>3
<1>4. CASE ~(off <= base \/ off > end) /\ size # off - base
  <2> DEFINE drop == off - base
  <2>1. drop \in Nat /\ drop >= 1 /\ drop < size /\ cap \in Nat \ {0} /\ head < cap
    BY <1>1, <1>4 DEF end
  <2>2. /\ head' = (head + drop) % cap /\ size' = size - drop /\ base' = off
        /\ space' = TRUE /\ cap' = cap /\ buf' = buf
    BY <1>1, <1>4 DEF AckTo
  <2> HIDE DEF drop
  <2>3. head' = IF head + drop < cap THEN head + drop ELSE head + drop - cap
    BY <1>1, <2>1, <2>2, Wrap
  <2>4. head' \in Nat /\ head' < cap
    BY <1>1, <2>1, <2>3
  <2>5. ASSUME NEW i \in 0..(size - drop - 1)
        PROVE  buf[(head' + i) % cap] = off + i
    <3>1. i \in Nat /\ i <= cap /\ drop + i \in 0..(size - 1) /\ drop + i \in Nat /\ drop + i <= cap
      BY <1>1, <2>1
    <3>2. (head' + i) % cap = IF head' + i < cap THEN head' + i ELSE head' + i - cap
      BY <2>1, <2>4, <3>1, Wrap
    <3>3. (head + (drop + i)) % cap = IF head + (drop + i) < cap THEN head + (drop + i) ELSE head + (drop + i) - cap
      BY <1>1, <2>1, <3>1, Wrap
    <3>4. (head' + i) % cap = (head + (drop + i)) % cap
      BY <1>1, <2>1, <2>3, <3>1, <3>2, <3>3
    <3>5. buf[(head + (drop + i)) % cap] = base + (drop + i)
      BY <3>1 DEF ContentOK
    <3> QED
      BY <1>1, <2>1, <3>1, <3>4, <3>5 DEF drop
  <2>6. ContentOK'
    BY <1>1, <2>1, <2>2, <2>4, <2>5 DEF ContentOK
  <2> QED
    BY <1>1, <2>1, <2>2, <2>4, <2>6
<1> QED
  BY <1>2, <1>3, <1>4

\* Every step keeps the inductive invariant, one step of the proof per action.
LEMMA Inductive == Inv /\ [Next]_vars => Inv'
<1> SUFFICES ASSUME Inv, [Next]_vars PROVE Inv'
  OBVIOUS
<1> USE RingAssumption
<1>1. ASSUME NEW n \in 1..MaxWrite, WaitFree(n) PROVE Inv'
  <2>1. UNCHANGED <<buf, cap, head, size, base, limit, space>> /\ want' = n /\ pc' \in {"toolarge", "check"}
    BY <1>1 DEF WaitFree, storage
  <2> QED
    BY <2>1 DEF Inv, TypeOK, ContentOK, Bounded, NoLostWakeup, SenderOK
<1>2. CASE CheckFree
  <2>1. UNCHANGED <<buf, cap, head, size, base, limit, space, want>> /\ pc = "check"
        /\ pc' = IF free >= want THEN "append" ELSE "select"
    BY <1>2 DEF CheckFree, storage
  <2> QED
    BY <2>1 DEF Inv, TypeOK, ContentOK, Bounded, NoLostWakeup, SenderOK, free
<1>3. CASE WakeSpace
  <2>1. UNCHANGED <<buf, cap, head, size, base, limit, want>> /\ pc = "select" /\ pc' = "check" /\ space' = FALSE
    BY <1>3 DEF WakeSpace, storage
  <2> QED
    BY <2>1 DEF Inv, TypeOK, ContentOK, Bounded, NoLostWakeup, SenderOK
<1>4. CASE GrowTimer
  <2>1. /\ UNCHANGED <<buf, cap, head, size, base, want>> /\ pc = "select" /\ pc' = "check"
        /\ limit' \in Nat /\ limit' >= limit /\ space' \in BOOLEAN
    BY <1>4 DEF GrowTimer, storage, Inv, TypeOK
  <2> QED
    BY <2>1 DEF Inv, TypeOK, ContentOK, Bounded, NoLostWakeup, SenderOK
<1>5. CASE Wake
  <2>1. UNCHANGED <<buf, cap, head, size, base, limit, space, want>> /\ pc = "select" /\ pc' \in {"idle", "check"}
    BY <1>5 DEF Wake, storage
  <2> QED
    BY <2>1 DEF Inv, TypeOK, ContentOK, Bounded, NoLostWakeup, SenderOK
<1>6. CASE AppendBytes
  <2>1. PICK c \in NewCaps(size + want) : Store(want, c)
    BY <1>6 DEF AppendBytes
  <2>2. /\ UNCHANGED <<limit, space, want>> /\ pc = "append" /\ pc' = "idle"
        /\ want \in Nat \ {0} /\ size' = size + want /\ base' = base /\ size + want <= limit
    BY <1>6, <2>1 DEF AppendBytes, Store, Inv, TypeOK, SenderOK
  <2>3. ContentOK' /\ cap' \in Nat /\ head' \in Nat /\ buf' \in [Slots(cap') -> Int]
    BY <2>1, <2>2, StoreOK DEF Inv
  <2> QED
    BY <2>2, <2>3 DEF Inv, TypeOK, Bounded, NoLostWakeup, SenderOK
<1>7. ASSUME NEW off \in 0..(MaxBytes + 1), Ack(off) PROVE Inv'
  <2>1. AckTo(off) /\ UNCHANGED <<limit, pc, want>> /\ off \in Nat
    BY <1>7 DEF Ack
  <2>2. /\ ContentOK'
        /\ cap' \in Nat /\ head' \in Nat /\ size' \in Nat /\ base' \in Nat
        /\ buf' \in [Slots(cap') -> Int]
        /\ size' <= size
        /\ size' = size \/ space' = TRUE
        /\ space' = space \/ space' = TRUE
    BY <2>1, AckOK DEF Inv
  <2>3. limit \in Nat /\ size \in Nat /\ want \in Nat /\ size <= limit
    BY DEF Inv, TypeOK, Bounded
  <2>4. space' \in BOOLEAN
    BY <2>2 DEF Inv, TypeOK
  <2>5. TypeOK'
    BY <2>1, <2>2, <2>4 DEF Inv, TypeOK
  <2>6. Bounded'
    BY <2>1, <2>2, <2>3 DEF Bounded
  <2>7. SenderOK'
    <3>1. SenderOK
      BY DEF Inv
    <3>2. UNCHANGED <<limit, pc, want>> /\ size' \in Nat /\ size' <= size
      BY <2>1, <2>2
    <3>3. ASSUME pc' = "append" PROVE size' + want' <= limit'
      <4>1. size + want <= limit /\ want' = want /\ limit' = limit
        BY <3>1, <3>2, <3>3 DEF SenderOK
      <4> QED
        <5>1. size' \in Nat
          BY <3>2
        <5>2. size' <= size
          BY <3>2
        <5>3. size \in Nat /\ want \in Nat /\ limit \in Nat
          BY <2>3
        <5>4. size + want <= limit
          BY <4>1
        <5>5. size' + want <= limit
          BY <5>1, <5>2, <5>3, <5>4, Less
        <5> QED
          BY <4>1, <5>5
    <3>4. pc' \in {"check", "select", "append"} => want' >= 1
      BY <3>1, <3>2 DEF SenderOK
    <3> QED
      BY <3>3, <3>4 DEF SenderOK
  <2>8. NoLostWakeup'
    <3>1. CASE space' = TRUE
      BY <3>1 DEF NoLostWakeup
    <3>2. CASE space' = space /\ size' = size
      BY <2>1, <3>2 DEF Inv, NoLostWakeup, free
    <3> QED
      BY <2>2, <3>1, <3>2
  <2> QED
    BY <2>2, <2>5, <2>6, <2>7, <2>8 DEF Inv
<1>8. CASE Discard
  <2>1. /\ pc' = "off" /\ base' = base + size /\ head' = 0 /\ size' = 0 /\ buf' = << >> /\ cap' = 0
        /\ space' = TRUE /\ UNCHANGED <<limit, want>>
    BY <1>8 DEF Discard, end
  <2>2. buf' \in [Slots(cap') -> Int]
    BY <2>1 DEF Slots
  <2> QED
    BY <2>1, <2>2 DEF Inv, TypeOK, ContentOK, Bounded, NoLostWakeup, SenderOK
<1>9. CASE UNCHANGED vars
  BY <1>9 DEF vars, Inv, TypeOK, ContentOK, Bounded, NoLostWakeup, SenderOK, free, Slots
<1> QED
  BY <1>1, <1>2, <1>3, <1>4, <1>5, <1>6, <1>7, <1>8, <1>9 DEF Next

LEMMA Initial == Init => Inv
<1> SUFFICES ASSUME Init PROVE Inv
  OBVIOUS
<1>1. buf \in [Slots(cap) -> Int]
  BY DEF Init, Slots
<1>2. TypeOK
  <2>1. space \in BOOLEAN
    BY DEF Init
  <2> QED
    BY <1>1, <2>1, RingAssumption DEF Init, TypeOK
<1>3. ContentOK /\ Bounded /\ NoLostWakeup /\ SenderOK
  BY RingAssumption DEF Init, ContentOK, Bounded, NoLostWakeup, SenderOK
<1> QED
  BY <1>2, <1>3 DEF Inv

\* The invariant holds throughout.
THEOREM Invariance == Spec => []Inv
  BY Initial, Inductive, PTL DEF Spec

\* Each part of the invariant that a run checks, for every value of the constants.
\* replayRing's fields keep their types: no size, offset or slot goes negative.
THEOREM TypeCorrect == Spec => []TypeOK
<1>1. Inv => TypeOK
  BY DEF Inv
<1> QED
  BY <1>1, Invariance, PTL

\* append, copyOut, ackTo and discard keep the retained bytes in their slots.
THEOREM ContentCorrect == Spec => []ContentOK
<1>1. Inv => ContentOK
  BY DEF Inv
<1> QED
  BY <1>1, Invariance, PTL

\* waitFree and append never take the ring past the limit its budget was charged for.
THEOREM BoundKept == Spec => []Bounded
<1>1. Inv => Bounded
  BY DEF Inv
<1> QED
  BY <1>1, Invariance, PTL

\* waitFree never sleeps on room it has not been told of.
THEOREM SenderWoken == Spec => []NoLostWakeup
<1>1. Inv => NoLostWakeup
  BY DEF Inv
<1> QED
  BY <1>1, Invariance, PTL

-------------------------------------------------------------------------------
(* readAt and the abstract view of the ring. *)

\* The i-th retained byte is where readAt and copyOut look for it.
LEMMA ByteAt ==
    ASSUME TypeOK, ContentOK, NEW i \in 0..(size - 1)
    PROVE  /\ cap \in Nat \ {0} /\ head \in Nat /\ head < cap /\ i \in Nat /\ i < cap
           /\ (head + i) % cap = IF head + i < cap THEN head + i ELSE head + i - cap
           /\ buf[IF head + i < cap THEN head + i ELSE head + i - cap] = base + i
<1>1. cap \in Nat /\ size \in Nat /\ base \in Nat /\ head \in Nat /\ size <= cap /\ (cap > 0 => head < cap)
  BY DEF TypeOK, ContentOK
<1>2. cap \in Nat \ {0} /\ head < cap /\ i \in Nat /\ i < cap /\ i <= cap
  BY <1>1
<1>3. (head + i) % cap = IF head + i < cap THEN head + i ELSE head + i - cap
  BY <1>1, <1>2, Wrap
<1>4. buf[(head + i) % cap] = base + i
  BY DEF ContentOK
<1> QED
  BY <1>1, <1>2, <1>3, <1>4

\* A resume reads what it asks for: readAt returns the bytes of the flow from
\* the offset on, for every offset and length.
LEMMA ReadAtFaithful == TypeOK /\ ContentOK => ReadAtOK
<1> SUFFICES ASSUME TypeOK, ContentOK,
                    NEW off \in 0..(MaxBytes + 1), NEW n \in 1..MaxWrite
             PROVE  ReadAt(off, n) = IF off < base \/ off >= end
                                     THEN << >>
                                     ELSE [i \in 1..(IF n < end - off THEN n ELSE end - off) |-> off + i - 1]
  BY DEF ReadAtOK
<1>1. CASE off < base \/ off >= end
  BY <1>1 DEF ReadAt
<1>2. CASE ~(off < base \/ off >= end)
  <2> DEFINE skip  == off - base
             count == IF n < size - skip THEN n ELSE size - skip
             start == (head + skip) % cap
  <2>1. /\ cap \in Nat /\ size \in Nat /\ base \in Nat /\ head \in Nat /\ n \in Nat /\ off \in Nat
        /\ size <= cap
    BY RingAssumption DEF TypeOK, ContentOK
  <2>2. /\ skip \in 0..(size - 1) /\ skip \in Nat /\ off = base + skip
        /\ count = IF n < end - off THEN n ELSE end - off
        /\ count \in Nat /\ skip + count <= size
    BY <1>2, <2>1 DEF end
  <2>3. cap \in Nat \ {0} /\ head < cap /\ start = IF head + skip < cap THEN head + skip ELSE head + skip - cap
    BY <2>2, ByteAt
  <2>4. ReadAt(off, n) = [i \in 1..count |-> IF start + i - 1 < cap THEN buf[start + i - 1] ELSE buf[start + i - 1 - cap]]
    BY <1>2 DEF ReadAt
  <2> HIDE DEF skip, count, start
  <2>5. ASSUME NEW i \in 1..count
        PROVE  (IF start + i - 1 < cap THEN buf[start + i - 1] ELSE buf[start + i - 1 - cap]) = off + i - 1
    <3> DEFINE j == skip + i - 1
    <3>1. j \in 0..(size - 1) /\ j \in Nat /\ j < cap /\ i \in Nat /\ i >= 1
      BY <2>1, <2>2
    <3>2. buf[IF head + j < cap THEN head + j ELSE head + j - cap] = base + j
      BY <3>1, ByteAt
    <3>3. base + j = off + i - 1
      BY <2>1, <2>2, <3>1
    <3>4. (IF start + i - 1 < cap THEN start + i - 1 ELSE start + i - 1 - cap)
          = (IF head + j < cap THEN head + j ELSE head + j - cap)
      BY <2>1, <2>2, <2>3, <3>1
    <3> QED
      BY <3>2, <3>3, <3>4
  <2> QED
    BY <1>2, <2>2, <2>4, <2>5
<1> QED
  BY <1>1, <1>2

\* A suspended flow replays the bytes it sent, whatever happened to its ring before.
THEOREM ReplayFaithful == Spec => []ReadAtOK
<1>1. Inv => ReadAtOK
  BY ReadAtFaithful DEF Inv
<1> QED
  BY <1>1, Invariance, PTL

-------------------------------------------------------------------------------
(* The ring implements RetainedBytes. *)

\* The bytes of a flow as a sequence: consecutive runs join, and dropping the
\* first of a run leaves a run.
LEMMA Run ==
    ASSUME NEW o \in Nat, NEW n \in Nat
    PROVE  /\ Abs!BytesFrom(o, n) \in Seq(Nat)
           /\ Len(Abs!BytesFrom(o, n)) = n
           /\ \A i \in 1..n : Abs!BytesFrom(o, n)[i] = o + i - 1
  BY DEF Abs!BytesFrom

LEMMA Joined ==
    ASSUME NEW o \in Nat, NEW n \in Nat, NEW m \in Nat, m >= n
    PROVE  /\ m - n >= 0
           /\ Abs!BytesFrom(o, n) \o Abs!BytesFrom(o + n, m - n) = Abs!BytesFrom(o, m)
  BY DEF Abs!BytesFrom

LEMMA Shortened ==
    ASSUME NEW o \in Nat, NEW n \in Nat, NEW k \in 0..n
    PROVE  SubSeq(Abs!BytesFrom(o, n), k + 1, n) = Abs!BytesFrom(o + k, n - k)
  BY DEF Abs!BytesFrom

\* Read from head on, the storage is the run of size bytes from base.
LEMMA RetainedIsRun == TypeOK /\ ContentOK => Retained = Abs!BytesFrom(base, size)
<1> SUFFICES ASSUME TypeOK, ContentOK PROVE Retained = Abs!BytesFrom(base, size)
  OBVIOUS
<1>1. size \in Nat /\ base \in Nat /\ head \in Nat
  BY DEF TypeOK
<1>2. ASSUME NEW i \in 1..size PROVE buf[(head + i - 1) % cap] = base + i - 1
  <2>1. i - 1 \in 0..(size - 1) /\ head + i - 1 = head + (i - 1)
    BY <1>1
  <2>2. buf[(head + (i - 1)) % cap] = base + (i - 1)
    BY <2>1 DEF ContentOK
  <2> QED
    BY <1>1, <2>1, <2>2
<1> QED
  BY <1>2 DEF Retained, Abs!BytesFrom

\* What an operation does to base and size decides what it does to the run.
LEMMA Retains ==
    ASSUME TypeOK, ContentOK, TypeOK', ContentOK', base' = base, size' >= size
    PROVE  Abs!Retain
<1>1. size \in Nat
  BY DEF TypeOK
<1>2. base \in Nat
  BY DEF TypeOK
<1>3. size' \in Nat
  BY DEF TypeOK
<1>4. (TypeOK /\ ContentOK => Retained = Abs!BytesFrom(base, size))'
  BY RetainedIsRun, PTL
<1>5. Retained = Abs!BytesFrom(base, size)
  BY RetainedIsRun
<1>6. Retained' = Abs!BytesFrom(base, size')
  BY <1>4
<1>7. Len(Retained) = size
  BY <1>1, <1>2, <1>5, Run
<1>8. Len(Retained') = size'
  BY <1>2, <1>3, <1>6, Run
<1>9. size' - size >= 0
  BY <1>1, <1>2, <1>3, Joined
<1>10. Abs!BytesFrom(base, size) \o Abs!BytesFrom(base + size, size' - size) = Abs!BytesFrom(base, size')
  BY <1>1, <1>2, <1>3, Joined
<1> QED
  BY <1>5, <1>6, <1>7, <1>8, <1>9, <1>10 DEF Abs!Retain

LEMMA Forgets ==
    ASSUME TypeOK, ContentOK, TypeOK', ContentOK',
           NEW k \in 0..size, base' = base + k, size' = size - k
    PROVE  Abs!Forget
<1>1. size \in Nat /\ base \in Nat
  BY DEF TypeOK
<1>2. (TypeOK /\ ContentOK => Retained = Abs!BytesFrom(base, size))'
  BY RetainedIsRun, PTL
<1>3. Retained = Abs!BytesFrom(base, size)
  BY RetainedIsRun
<1>4. Retained' = Abs!BytesFrom(base + k, size - k)
  BY <1>2
<1>5. Len(Retained) = size
  BY <1>1, <1>3, Run
<1>6. SubSeq(Abs!BytesFrom(base, size), k + 1, size) = Abs!BytesFrom(base + k, size - k)
  BY <1>1, Shortened
<1>7. base' - base = k
  BY <1>1
<1> QED
  BY <1>3, <1>4, <1>5, <1>6, <1>7 DEF Abs!Forget

\* Whatever appends, acknowledgements and resets happen, the ring is the queue
\* of unacknowledged bytes RetainedBytes describes.
THEOREM Refinement == Spec => ImplementsRetainedBytes
<1>1. Init => Abs!RInit
  <2> SUFFICES ASSUME Init PROVE Abs!RInit
    OBVIOUS
  <2>1. base = 0 /\ size = 0
    BY DEF Init
  <2>2. Retained = << >>
    BY <2>1 DEF Retained
  <2> QED
    BY <2>1, <2>2 DEF Abs!RInit
<1>2. ASSUME Inv, Inv', [Next]_vars PROVE [Abs!RNext]_(Abs!rvars)
  <2>1. TypeOK /\ ContentOK /\ TypeOK' /\ ContentOK' /\ size \in Nat /\ base \in Nat
    BY <1>2 DEF Inv, TypeOK
  <2>2. CASE UNCHANGED <<base, size>>
    BY <2>1, <2>2, Retains DEF Abs!RNext
  <2>3. CASE AppendBytes
    <3>1. base' = base /\ size' = size + want /\ want \in Nat
      BY <1>2, <2>3 DEF AppendBytes, Store, Inv, TypeOK
    <3> QED
      BY <2>1, <3>1, Retains DEF Abs!RNext
  <2>4. ASSUME NEW off \in 0..(MaxBytes + 1), Ack(off) PROVE [Abs!RNext]_(Abs!rvars)
    <3>1. off \in Nat
      BY RingAssumption
    <3>2. CASE off <= base \/ off > end
      BY <2>2, <2>4, <3>2 DEF Ack, AckTo, storage
    <3>3. CASE ~(off <= base \/ off > end)
      <4>1. base' = off /\ size' = size - (off - base)
        BY <2>4, <3>3 DEF Ack, AckTo
      <4>2. off - base \in 0..size /\ off = base + (off - base)
        BY <2>1, <3>1, <3>3 DEF end
      <4> QED
        BY <2>1, <4>1, <4>2, Forgets DEF Abs!RNext
    <3> QED
      BY <3>2, <3>3
  <2>5. CASE Discard
    <3>1. base' = base + size /\ size' = 0
      BY <2>5 DEF Discard, end
    <3>2. size \in 0..size /\ size - size = 0
      BY <2>1
    <3> QED
      BY <2>1, <3>1, <3>2, Forgets DEF Abs!RNext
  <2>6. ASSUME \/ \E n \in 1..MaxWrite : WaitFree(n)
               \/ CheckFree \/ WakeSpace \/ GrowTimer \/ Wake \/ UNCHANGED vars
        PROVE  UNCHANGED <<base, size>>
    BY <2>6 DEF WaitFree, CheckFree, WakeSpace, GrowTimer, Wake, vars, storage
  <2> QED
    BY <1>2, <2>2, <2>3, <2>4, <2>5, <2>6 DEF Next
<1> QED
  BY <1>1, <1>2, Invariance, PTL DEF Spec, ImplementsRetainedBytes, Abs!RSpec

-----------------------------------------------------------------------------
(* The tables.                                                              *)
(* Shapes.                                                                  *)

PCs == {"idle", "try", "ask", "swap", "built", "report", "check"}

ActorRecords == [pc : PCs, old : Carriers, st : Nat, seq : Nat, left : Nat]

\* The types the proofs need: the counters are numbers, and whoever has opened
\* a stream names one that is open.
ActorShape ==
    /\ actor \in [Actors -> ActorRecords]
    /\ \A a \in Actors : actor[a].pc \notin {"idle", "try"} => actor[a].st \in 1..Len(on)
    /\ \A m \in Movers : actor[m].pc \in {"try", "ask", "swap", "built"} => actor[m].left > 0

TableShape ==
    /\ on \in Seq(Carriers) /\ tunnel \in 1..Len(on)
    /\ line \in [Carriers -> {"ok", "stuck", "closed"}]
    /\ registry \subseteq Carriers
    /\ header \in [Streams -> {"none", "open", "resume", "reopen", "unseen", "drained"}]
    /\ verdict \in [Streams -> {"none", "accept", "busy", "unknown", "never"}]
    /\ flow \in {"run", "suspended", "over"} /\ frozen \in Movers \cup {"no", "switching"}
    /\ entry \in [sess : Carriers, at : Nat, swaps : Nat]
    /\ known \in {"no", "dial", "run"}
    /\ gone \in [kept : {"no", "short", "long"}, reopen : BOOLEAN]

Shape == TableShape /\ ActorShape

-----------------------------------------------------------------------------
(* Who carries the flow. *)

\* driveResume asks and swaps only while the flow is suspended.
DriveWhileSuspended ==
    actor["drive"].pc \in {"try", "ask", "swap", "built"} => flow = "suspended"

\* Whoever is about to install holds the latest number, ahead of the entry and of
\* every report that is still to come.
HolderIsLatest ==
    \A a \in Actors : actor[a].pc = "built" /\ Holds(a) =>
        /\ actor[a].seq = entry.swaps /\ entry.at < entry.swaps
        /\ \A b \in Actors : actor[b].pc = "report" => actor[b].seq < entry.swaps

SwapsCount ==
    /\ entry.at <= entry.swaps
    /\ \A a \in Actors : actor[a].pc = "report" => actor[a].seq <= entry.swaps

\* a is to report the tunnel the flow runs on, and everybody else an earlier one.
ToReport(a) ==
    /\ actor[a].pc = "report" /\ actor[a].st = tunnel /\ actor[a].seq > entry.at
    /\ \A b \in Actors \ {a} : actor[b].pc = "report" => actor[b].seq < actor[a].seq

\* The tunnel is on record for good, or the one that installed it is to say so.
TunnelRecorded ==
    flow = "run" =>
        \/ /\ entry.sess = on[tunnel]
           /\ \A b \in Actors : actor[b].pc = "report" => actor[b].seq <= entry.at
        \/ \E a \in Actors : ToReport(a)

CarrierInv == DriveWhileSuspended /\ HolderIsLatest /\ SwapsCount /\ TunnelRecorded

\* NotLeftBehind, where a mover counts only until it has installed a tunnel.
TakenCareOf(x) ==
    \/ x \in unlooked \cup leftOn
    \/ \E m \in Movers : actor[m].pc \in {"try", "ask", "swap", "built"} /\ actor[m].old = x
    \/ \E a \in Actors : actor[a].pc \in {"report", "check"} /\ on[actor[a].st] = x

RetiredTakenCareOf ==
    flow = "run" /\ line[on[tunnel]] # "closed" /\ on[tunnel] \notin registry
        => TakenCareOf(on[tunnel])

-----------------------------------------------------------------------------
(* What the client remembers. *)

\* An opening that may still get through.
OpenLive(n) == n \in 1..Len(on) /\ n \in Streams /\ header[n] = "open" /\ line[on[n]] # "closed"

\* A record says what it is for.
RecordsMean ==
    /\ gone.reopen => gone.kept = "long"
    /\ started \in {0, 1}
    /\ known # "no" \/ gone.kept = "short" => started = 1

\* The client's "never seen" is remembered for as long as the server may act on it.
NeverIsRemembered ==
    flow # "over" /\ (\E n \in Streams : verdict[n] = "never") => gone.kept = "long"

\* Without a long record there was one opening, and none is left once it is used.
OneOpening ==
    gone.kept # "long" =>
        /\ started = 1 => \A n \in Streams : ~OpenLive(n)
        /\ \A n, k \in Streams : OpenLive(n) /\ OpenLive(k) => n = k

\* A flow that ended at the client is not admitted again while the server may
\* still open it, and no opening is left when it might.
EndedIsRefused ==
    started = 1 /\ Admit => flow = "over" /\ \A n \in Streams : ~OpenLive(n)

OpeningInv == RecordsMean /\ NeverIsRemembered /\ OneOpening /\ EndedIsRefused

-----------------------------------------------------------------------------
(* What the helpers of the actions do. *)

\* Nobody but a moves.
OthersRest(a) == \A b \in Actors \ {a} : actor'[b] = actor[b]

\* Streams are only ever added.
OnGrows == Len(on) <= Len(on') /\ \A n \in 1..Len(on) : on'[n] = on[n]

LEMMA MovesDo ==
    ASSUME Shape, NEW a \in Actors, NEW p \in PCs, Moves(a, p)
    PROVE  /\ actor' \in [Actors -> ActorRecords] /\ OthersRest(a)
           /\ actor'[a].pc = p /\ actor'[a].st = actor[a].st /\ actor'[a].old = actor[a].old
           /\ actor'[a].seq = actor[a].seq /\ actor'[a].left = actor[a].left
BY DEF Shape, ActorShape, ActorRecords, Moves, OthersRest

LEMMA OpenStreamDoes ==
    ASSUME Shape, NEW a \in Actors, NEW x \in Carriers, NEW p \in PCs,
           NEW h \in {"open", "resume", "reopen", "drained"}, OpenStream(a, x, h, p)
    PROVE  /\ on' \in Seq(Carriers) /\ Len(on') = Len(on) + 1 /\ OnGrows
           /\ Len(on) + 1 \in Streams
           /\ header' = [header EXCEPT ![Len(on) + 1] = h]
           /\ actor' \in [Actors -> ActorRecords] /\ OthersRest(a)
           /\ actor'[a].pc = p /\ actor'[a].st = Len(on) + 1
           /\ actor'[a].old = actor[a].old /\ actor'[a].left = actor[a].left
<1>1. /\ Len(on) \in Nat /\ on' = Append(on, x) /\ Len(on) + 1 <= MaxStreams
      /\ header' = [header EXCEPT ![Len(on) + 1] = h]
      /\ actor' = [actor EXCEPT ![a].pc = p, ![a].st = Len(on) + 1]
  BY DEF OpenStream, Shape, TableShape
<1>2. /\ on' \in Seq(Carriers) /\ Len(on') = Len(on) + 1
      /\ \A n \in 1..Len(on) : on'[n] = on[n]
  BY <1>1 DEF Shape, TableShape
<1>3. /\ actor' \in [Actors -> ActorRecords] /\ OthersRest(a)
      /\ actor'[a].pc = p /\ actor'[a].st = Len(on) + 1
      /\ actor'[a].old = actor[a].old /\ actor'[a].left = actor[a].left
  <2>1. actor'[a] = [actor[a] EXCEPT !.pc = p, !.st = Len(on) + 1] /\ OthersRest(a)
    BY <1>1 DEF Shape, ActorShape, OthersRest
  <2>2. actor[a] \in ActorRecords
    BY DEF Shape, ActorShape
  <2>3. /\ actor'[a] \in ActorRecords /\ actor'[a].pc = p /\ actor'[a].st = Len(on) + 1
        /\ actor'[a].old = actor[a].old /\ actor'[a].left = actor[a].left
    <3>1. Len(on) + 1 \in Nat
      BY <1>1
    <3> QED BY <2>1, <2>2, <3>1 DEF ActorRecords
  <2>4. actor' \in [Actors -> ActorRecords]
    BY <1>1, <2>1, <2>3 DEF Shape, ActorShape, OthersRest
  <2> QED BY <2>1, <2>3, <2>4
<1> QED BY <1>1, <1>2, <1>3, FlowAssumption DEF OnGrows, Streams

LEMMA IdleTyped ==
    ASSUME NEW x \in Carriers
    PROVE  /\ Idle(x) \in ActorRecords /\ Idle(x).pc = "idle"
           /\ [Idle(x) EXCEPT !.pc = "try", !.left = Attempts] \in ActorRecords
           /\ [Idle(x) EXCEPT !.pc = "try", !.left = Attempts].pc = "try"
           /\ [Idle(x) EXCEPT !.pc = "try", !.left = Attempts].old = x
           /\ [Idle(x) EXCEPT !.pc = "try", !.left = Attempts].left > 0
<1>1. Idle(x) \in ActorRecords /\ Idle(x).pc = "idle"
  BY DEF Idle, ActorRecords, PCs
<1>2. Attempts \in Nat /\ Attempts > 0
  BY FlowAssumption
<1> QED BY <1>1, <1>2 DEF Idle, ActorRecords, PCs

\* A mover that starts takes the slot of one that is idle, or of a itself.
LEMMA StartMoverDoes ==
    ASSUME Shape, NEW a \in Actors \cup {"none"}, NEW x \in Carriers, StartMover(a, x)
    PROVE  \E m \in Movers :
               /\ m = a \/ actor[m].pc = "idle"
               /\ actor'[m].pc = "try" /\ actor'[m].old = x /\ actor'[m].left > 0
               /\ a \in Actors \ {m} => actor'[a].pc = "idle"
               /\ \A b \in Actors \ {a, m} : actor'[b] = actor[b]
               /\ actor' \in [Actors -> ActorRecords]
<1> DEFINE New == [Idle(x) EXCEPT !.pc = "try", !.left = Attempts]
<1>1. PICK m \in Movers : /\ m = a \/ actor[m].pc = "idle"
                          /\ actor' = [b \in Actors |->
                                IF b = m THEN New
                                ELSE IF b = a THEN Idle(entry.sess) ELSE actor[b]]
  BY DEF StartMover
<1>2. entry.sess \in Carriers /\ m \in Actors
  BY DEF Shape, TableShape, Actors
<1>3. New \in ActorRecords /\ New.pc = "try" /\ New.old = x /\ New.left > 0
  BY IdleTyped
<1>4. Idle(entry.sess) \in ActorRecords /\ Idle(entry.sess).pc = "idle"
  BY <1>2, IdleTyped
<1> HIDE DEF New
<1>5. actor' \in [Actors -> ActorRecords]
  BY <1>1, <1>2, <1>3, <1>4 DEF Shape, ActorShape
<1> QED BY <1>1, <1>2, <1>3, <1>4, <1>5

\* After an attempt that failed a mover tries again, or rests and leaves the flow
\* where it is, or suspends it.
LEMMA TriesAgainDoes ==
    ASSUME Shape, NEW m \in Movers, NEW e \in BOOLEAN, NEW cut \in BOOLEAN, TriesAgain(m, e, cut),
           actor[m].pc \in {"try", "ask", "swap", "built"}
    PROVE  /\ actor' \in [Actors -> ActorRecords] /\ OthersRest(m)
           /\ actor'[m].old = actor[m].old
           /\ \/ actor'[m].pc = "try" /\ actor'[m].left > 0 /\ UNCHANGED <<flow, leftOn>>
              \/ actor'[m].pc = "idle" /\ flow' = flow /\ leftOn' = leftOn \cup {actor[m].old}
              \/ /\ actor'[m].pc = "idle" \/ (actor'[m].pc = "try" /\ actor'[m].left > 0)
                 /\ flow = "run" /\ flow' = "suspended" /\ leftOn' = leftOn
           /\ frozen' = "no" \/ (frozen' = frozen /\ frozen # m)
<1>1. m \in Actors /\ actor[m] \in ActorRecords /\ actor[m].left > 0 /\ actor[m].old \in Carriers
  BY DEF Actors, Shape, ActorShape, ActorRecords
<1>2. frozen' = "no" \/ (frozen' = frozen /\ frozen # m)
  <2>1. CASE frozen = m
    BY <2>1 DEF TriesAgain
  <2>2. CASE frozen # m
    BY <2>2 DEF TriesAgain
  <2> QED BY <2>1, <2>2
<1>3. CASE actor[m].left = 1
  <2>1. actor'[m] = Idle(actor[m].old) /\ OthersRest(m) /\ DOMAIN actor' = DOMAIN actor
    BY <1>1, <1>3 DEF TriesAgain, OthersRest, Shape, ActorShape
  <2>2. actor' \in [Actors -> ActorRecords] /\ actor'[m].pc = "idle" /\ actor'[m].old = actor[m].old
    BY <1>1, <1>3, <2>1, IdleTyped DEF TriesAgain, Shape, ActorShape, Idle
  <2>3. CASE flow = "run" /\ (cut \/ (e /\ entry.sess = actor[m].old))
    <3>1. flow' = "suspended" /\ leftOn' = leftOn
      BY <1>3, <2>3 DEF TriesAgain
    <3> QED BY <1>2, <2>1, <2>2, <2>3, <3>1
  <2>4. CASE ~(flow = "run" /\ (cut \/ (e /\ entry.sess = actor[m].old)))
    <3>1. flow' = flow /\ leftOn' = leftOn \cup {actor[m].old}
      BY <1>3, <2>4 DEF TriesAgain
    <3> QED BY <1>2, <2>1, <2>2, <3>1
  <2> QED BY <2>3, <2>4
<1>4. CASE actor[m].left # 1
  <2>1. /\ actor'[m] = [actor[m] EXCEPT !.pc = "try", !.left = actor[m].left - 1]
        /\ OthersRest(m)
    BY <1>1, <1>4 DEF TriesAgain, OthersRest, Shape, ActorShape
  <2>2. actor[m].left - 1 \in Nat /\ actor[m].left - 1 > 0
    BY <1>1, <1>4 DEF ActorRecords
  <2>3. /\ actor'[m] \in ActorRecords /\ actor'[m].pc = "try" /\ actor'[m].left > 0
        /\ actor'[m].old = actor[m].old
    BY <1>1, <2>1, <2>2 DEF ActorRecords, PCs
  <2>4. actor' \in [Actors -> ActorRecords]
    BY <1>1, <1>4, <2>1, <2>3 DEF TriesAgain, Shape, ActorShape, OthersRest
  <2>5. leftOn' = leftOn /\ (flow' = flow \/ (flow = "run" /\ flow' = "suspended"))
    BY <1>4 DEF TriesAgain
  <2> QED BY <1>2, <2>1, <2>3, <2>4, <2>5
<1> QED BY <1>3, <1>4

\* The flow ends, and with it everybody who works for it.
LEMMA EndsDo ==
    ASSUME Shape, Ends
    PROVE  /\ actor' \in [Actors -> ActorRecords]
           /\ \A a \in Actors : actor'[a].pc = "idle"
           /\ flow' = "over" /\ frozen' = "no"
           /\ entry' \in [sess : Carriers, at : Nat, swaps : Nat] /\ entry'.at = 0 /\ entry'.swaps = 0
<1>1. entry.sess \in Carriers
  BY DEF Shape, TableShape
<1>2. Idle(entry.sess) \in ActorRecords /\ Idle(entry.sess).pc = "idle"
  BY <1>1, IdleTyped
<1> QED BY <1>2 DEF Ends, Shape, TableShape

\* A step that opens no stream and touches neither the swapper nor the entry
\* keeps the shapes if those who move keep theirs.
LEMMA ShapeKept ==
    ASSUME Shape, UNCHANGED <<on, tunnel, entry, known, gone>>,
           line' \in [Carriers -> {"ok", "stuck", "closed"}], registry' \subseteq Carriers,
           header' = header, verdict' = verdict,
           flow' \in {"run", "suspended", "over"}, frozen' \in Movers \cup {"no", "switching"},
           actor' \in [Actors -> ActorRecords],
           \A a \in Actors : actor'[a].pc \notin {"idle", "try"} =>
               actor[a].pc \notin {"idle", "try"} /\ actor'[a].st = actor[a].st,
           \A m \in Movers : actor'[m].pc \in {"try", "ask", "swap", "built"} => actor'[m].left > 0
    PROVE  Shape'
BY DEF Shape, TableShape, ActorShape

\* So does one that opens a stream.
LEMMA OpenStreamShape ==
    ASSUME Shape, NEW a \in Actors, NEW x \in Carriers, NEW p \in {"ask", "swap"},
           NEW h \in {"open", "resume", "reopen", "drained"}, OpenStream(a, x, h, p),
           a \in Movers => actor[a].left > 0,
           UNCHANGED <<line, registry, flow, frozen, tunnel, entry, known, gone>>
    PROVE  Shape'
<1>1. /\ on' \in Seq(Carriers) /\ Len(on) \in Nat /\ Len(on') = Len(on) + 1 /\ verdict' = verdict
      /\ header' = [header EXCEPT ![Len(on) + 1] = h] /\ Len(on) + 1 \in Streams
      /\ actor' \in [Actors -> ActorRecords] /\ OthersRest(a)
      /\ actor'[a].pc = p /\ actor'[a].st = Len(on) + 1 /\ actor'[a].left = actor[a].left
  <2>1. p \in PCs
    BY DEF PCs
  <2>2. Len(on) \in Nat
    BY DEF Shape, TableShape
  <2>3. verdict' = verdict
    BY DEF OpenStream
  <2> QED BY <2>1, <2>2, <2>3, OpenStreamDoes
<1>2. TableShape'
  BY <1>1 DEF Shape, TableShape
<1>3. ASSUME NEW b \in Actors, actor'[b].pc \notin {"idle", "try"}
      PROVE  actor'[b].st \in 1..Len(on')
  <2>1. CASE b = a
    BY <1>1, <2>1
  <2>2. CASE b # a
    <3>1. actor'[b] = actor[b] /\ actor[b].st \in 1..Len(on)
      BY <1>1, <1>3, <2>2 DEF OthersRest, Shape, ActorShape
    <3> QED BY <1>1, <3>1
  <2> QED BY <2>1, <2>2
<1>4. ASSUME NEW m \in Movers, actor'[m].pc \in {"try", "ask", "swap", "built"}
      PROVE  actor'[m].left > 0
  BY <1>1, <1>4 DEF OthersRest, Shape, ActorShape, Actors
<1> QED BY <1>1, <1>2, <1>3, <1>4 DEF Shape, ActorShape

\* What the client remembers of a flow is a record.
LEMMA PutTyped ==
    ASSUME Shape, NEW k \in {"short", "long"}, NEW again \in BOOLEAN, Put(k, again)
    PROVE  gone' \in [kept : {"no", "short", "long"}, reopen : BOOLEAN]
BY DEF Put

\* Every step keeps the shapes.
LEMMA ShapeStep ==
    ASSUME Shape, [FlowNext]_flowVars
    PROVE  Shape'
<1> USE FlowAssumption
<1> USE DEF sessionVars, streamVars, swapVars, clientVars, serverVars
<1>a. "drive" \in Actors /\ Movers \subseteq Actors /\ "drive" \notin Movers
  BY DEF Actors
<1>b. /\ actor \in [Actors -> ActorRecords] /\ entry.sess \in Carriers
      /\ \A m \in Movers : actor[m].pc \in {"try", "ask", "swap", "built"} => actor[m].left > 0
      /\ \A a \in Actors : actor[a].old \in Carriers
  BY DEF Shape, TableShape, ActorShape, ActorRecords
<1>c. /\ flow \in {"run", "suspended", "over"} /\ frozen \in Movers \cup {"no", "switching"}
      /\ line \in [Carriers -> {"ok", "stuck", "closed"}] /\ registry \subseteq Carriers
  BY DEF Shape, TableShape
\* a move of one actor that leaves its stream alone
<1>d. ASSUME NEW a \in Actors, NEW p \in PCs, Moves(a, p),
             p \notin {"idle", "try"} => actor[a].pc \notin {"idle", "try"},
             a \in Movers => actor[a].pc \in {"try", "ask", "swap", "built"} \/ p \notin {"try", "ask", "swap", "built"},
             flow' \in {"run", "suspended", "over"}, frozen' \in Movers \cup {"no", "switching"},
             UNCHANGED <<sessionVars, streamVars, tunnel, entry, known, gone>>
      PROVE  Shape'
  BY <1>a, <1>b, <1>c, <1>d, MovesDo, ShapeKept DEF OthersRest
<1>1. CASE TunnelFails \/ MoveOffStalled \/ Switched \/ Hear
  BY <1>1, <1>b, <1>c, ShapeKept DEF TunnelFails, MoveOffStalled, Switched, Hear, Suspended
<1>2. CASE FlowOver
  BY <1>2, EndsDo, <1>a DEF FlowOver, Shape, TableShape, ActorShape
<1>3. CASE DriveWakes
  <2>1. CASE Moves("drive", "try")
    BY <1>3, <2>1, <1>a, <1>b, <1>c, <1>d DEF DriveWakes, Suspended, PCs
  <2>2. CASE actor' = [actor EXCEPT !["drive"].old = entry.sess] /\ UNCHANGED swapVars
    <3>1. /\ actor' \in [Actors -> ActorRecords] /\ OthersRest("drive")
          /\ actor'["drive"].pc = actor["drive"].pc /\ actor'["drive"].st = actor["drive"].st
      BY <2>2, <1>a, <1>b DEF ActorRecords, OthersRest
    <3> QED BY <1>3, <2>2, <3>1, <1>a, <1>b, <1>c, ShapeKept DEF DriveWakes, OthersRest
  <2> QED BY <1>3, <2>1, <2>2 DEF DriveWakes
<1>4. CASE ResumeVerdict
  <2> DEFINE x == on[actor["drive"].st]
  <2>0. x \in Carriers /\ actor["drive"].pc = "ask"
    BY <1>4, <1>a DEF ResumeVerdict, Shape, TableShape, ActorShape
  <2>1. CASE (Moves("drive", "swap") \/ Moves("drive", "try")) /\ UNCHANGED <<streamVars, flow, frozen, entry>>
    BY <1>4, <2>0, <2>1, <1>a, <1>b, <1>c, <1>d DEF ResumeVerdict, PCs
  <2>2. CASE OpenStream("drive", x, "open", "swap") /\ UNCHANGED <<flow, frozen, entry>>
    BY <1>4, <2>0, <2>2, <1>a, OpenStreamShape DEF ResumeVerdict
  <2>3. CASE Ends
    BY <1>4, <2>3, EndsDo, <1>a DEF ResumeVerdict, Shape, TableShape, ActorShape
  <2> QED BY <1>4, <2>1, <2>2, <2>3 DEF ResumeVerdict
<1>5. CASE ResumeFails
  BY <1>5, <1>a, <1>b, <1>c, <1>d DEF ResumeFails, PCs
<1>6. ASSUME NEW x \in Carriers, ResumeOnce(x)
      PROVE  Shape'
  <2>1. PICK h \in {"resume", "reopen"} : OpenStream("drive", x, h, "ask")
    BY <1>6 DEF ResumeOnce
  <2> QED
    BY <1>6, <2>1, <1>a, OpenStreamShape DEF ResumeOnce
<1>7. ASSUME NEW x \in Carriers, Retire(x) \/ SessionCloses(x) \/ Stalls(x) \/ GetsThrough(x)
      PROVE  Shape'
  <2>1. line' \in [Carriers -> {"ok", "stuck", "closed"}] /\ registry' \subseteq Carriers
    BY <1>7, <1>c DEF Retire, SessionCloses, Stalls, GetsThrough
  <2>2. UNCHANGED <<streamVars, swapVars, entry, actor, clientVars>>
    BY <1>7 DEF Retire, SessionCloses, Stalls, GetsThrough
  <2> QED BY <2>1, <2>2, <1>b, <1>c, ShapeKept
<1>8. ASSUME NEW x \in Carriers, MigrateFlowsOff(x)
      PROVE  Shape'
  <2>1. UNCHANGED <<registry, line, streamVars, swapVars, entry, clientVars>>
    BY <1>8 DEF MigrateFlowsOff
  <2>2. CASE UNCHANGED actor
    BY <2>1, <2>2, <1>b, <1>c, ShapeKept
  <2>3. CASE StartMover("none", x)
    <3>1. PICK m \in Movers :
              /\ actor'[m].pc = "try" /\ actor'[m].left > 0
              /\ \A b \in Actors \ {"none", m} : actor'[b] = actor[b]
              /\ actor' \in [Actors -> ActorRecords]
      BY <2>3, StartMoverDoes
    <3>2. "none" \notin Actors
      BY DEF Actors
    <3> QED BY <2>1, <3>1, <3>2, <1>a, <1>b, <1>c, ShapeKept
  <2> QED BY <1>8, <2>2, <2>3 DEF MigrateFlowsOff
<1>9. ASSUME NEW m \in Movers, MovedAlready(m)
      PROVE  Shape'
  <2>1. Idle(actor[m].old) \in ActorRecords /\ Idle(actor[m].old).pc = "idle"
    BY <1>a, <1>b, IdleTyped
  <2>2. /\ actor' \in [Actors -> ActorRecords] /\ actor'[m].pc = "idle"
        /\ \A b \in Actors \ {m} : actor'[b] = actor[b]
    BY <1>9, <2>1, <1>a, <1>b DEF MovedAlready
  <2>3. UNCHANGED <<sessionVars, streamVars, swapVars, entry, leftOn, clientVars>>
    BY <1>9 DEF MovedAlready
  <2> QED BY <2>2, <2>3, <1>a, <1>b, <1>c, ShapeKept
<1>10. ASSUME NEW m \in Movers, MigrateFails(m) \/ MigrateGivesUp(m)
       PROVE  Shape'
  <2>1. /\ \E e, cut \in BOOLEAN : TriesAgain(m, e, cut)
        /\ actor[m].pc \in {"try", "ask", "swap", "built"}
        /\ UNCHANGED <<sessionVars, streamVars, tunnel, entry, clientVars>>
    BY <1>10 DEF MigrateFails, MigrateGivesUp
  <2>2. /\ actor' \in [Actors -> ActorRecords] /\ OthersRest(m)
        /\ actor'[m].pc = "idle" \/ (actor'[m].pc = "try" /\ actor'[m].left > 0)
        /\ flow' = flow \/ flow' = "suspended"
        /\ frozen' = "no" \/ frozen' = frozen
    BY <2>1, TriesAgainDoes
  <2> QED BY <2>1, <2>2, <1>a, <1>b, <1>c, ShapeKept DEF OthersRest
<1>11. ASSUME NEW m \in Movers, MigrateVerdict(m)
       PROVE  Shape'
  BY <1>11, <1>a, <1>b, <1>c, <1>d DEF MigrateVerdict, PCs
<1>12. ASSUME NEW m \in Movers, Freeze(m)
       PROVE  Shape'
  BY <1>12, <1>b, <1>c, ShapeKept DEF Freeze
<1>13. ASSUME NEW m \in Movers, NEW x \in Carriers, MigrateFlow(m, x)
       PROVE  Shape'
  <2>1. OpenStream(m, x, "drained", "ask") /\ actor[m].pc = "try"
        /\ UNCHANGED <<sessionVars, swapVars, entry, clientVars>>
    BY <1>13 DEF MigrateFlow
  <2> QED
    BY <2>1, <1>a, <1>b, OpenStreamShape
<1>14. ASSUME NEW a \in Actors, Took(a)
       PROVE  Shape'
  <2>1. /\ actor' = [actor EXCEPT ![a].pc = "built", ![a].seq = entry.swaps + 1]
        /\ entry' = [entry EXCEPT !.swaps = @ + 1] /\ actor[a].pc = "swap"
        /\ UNCHANGED <<sessionVars, streamVars, swapVars, leftOn, clientVars>>
    BY <1>14 DEF Took
  <2>2. entry' \in [sess : Carriers, at : Nat, swaps : Nat] /\ entry.swaps + 1 \in Nat
    <3>1. entry \in [sess : Carriers, at : Nat, swaps : Nat] /\ entry.swaps + 1 \in Nat
      BY DEF Shape, TableShape
    <3>2. entry' = [entry EXCEPT !.swaps = entry.swaps + 1]
      BY <2>1
    <3> QED BY <3>1, <3>2
  <2>3. /\ actor'[a] = [actor[a] EXCEPT !.pc = "built", !.seq = entry.swaps + 1] /\ OthersRest(a)
        /\ actor[a] \in ActorRecords
    BY <2>1, <1>b DEF OthersRest
  <2>4. actor'[a] \in ActorRecords /\ actor'[a].st = actor[a].st /\ actor'[a].left = actor[a].left
    BY <2>2, <2>3 DEF ActorRecords, PCs
  <2>5. actor' \in [Actors -> ActorRecords]
    BY <2>1, <2>3, <2>4, <1>b DEF OthersRest
  <2> QED BY <2>1, <2>2, <2>3, <2>4, <2>5, <1>a DEF OthersRest, Shape, TableShape, ActorShape
<1>15. ASSUME NEW a \in Actors, Installed(a)
       PROVE  Shape'
  <2>1. /\ Moves(a, "report") /\ actor[a].pc = "built" /\ tunnel' = actor[a].st
        /\ flow' = "run" /\ frozen' \in {"no", "switching"}
        /\ UNCHANGED <<sessionVars, streamVars, entry, known, gone>>
    BY <1>15 DEF Installed
  <2>2. tunnel' \in 1..Len(on)
    BY <2>1 DEF Shape, ActorShape
  <2>3. /\ actor' \in [Actors -> ActorRecords] /\ OthersRest(a)
        /\ actor'[a].pc = "report" /\ actor'[a].st = actor[a].st
    BY <2>1, MovesDo DEF PCs
  <2>4. ActorShape'
    BY <2>1, <2>2, <2>3, <1>a DEF OthersRest, Shape, ActorShape
  <2> QED BY <2>1, <2>2, <2>4 DEF Shape, TableShape
<1>16. ASSUME NEW a \in Actors, Report(a)
       PROVE  Shape'
  <2>1. /\ Moves(a, "check") /\ actor[a].pc = "report" /\ Moved(a)
        /\ UNCHANGED <<sessionVars, streamVars, swapVars, leftOn, clientVars>>
    BY <1>16 DEF Report
  <2>2. actor[a].st \in 1..Len(on) /\ actor[a].seq \in Nat
    BY <2>1, <1>b DEF Shape, ActorShape, ActorRecords
  <2>3. entry' \in [sess : Carriers, at : Nat, swaps : Nat]
    <3>1. on[actor[a].st] \in Carriers /\ entry \in [sess : Carriers, at : Nat, swaps : Nat]
      BY <2>2 DEF Shape, TableShape
    <3> QED BY <2>1, <2>2, <3>1 DEF Moved
  <2> QED BY <2>1, <2>3, <1>a, MovesDo DEF OthersRest, PCs, Shape, TableShape, ActorShape
<1>17. ASSUME NEW a \in Actors, MoveOffRetired(a)
       PROVE  Shape'
  <2>1. /\ UNCHANGED <<sessionVars, streamVars, swapVars, entry, leftOn, clientVars>>
        /\ actor[a].pc = "check"
        /\ StartMover(a, on[actor[a].st]) \/ Rests(a)
    BY <1>17 DEF MoveOffRetired
  <2>2. on[actor[a].st] \in Carriers
    BY <2>1 DEF Shape, TableShape, ActorShape
  <2>3. CASE StartMover(a, on[actor[a].st])
    <3>1. PICK m \in Movers :
              /\ actor'[m].pc = "try" /\ actor'[m].left > 0
              /\ a \in Actors \ {m} => actor'[a].pc = "idle"
              /\ \A b \in Actors \ {a, m} : actor'[b] = actor[b]
              /\ actor' \in [Actors -> ActorRecords]
      BY <2>2, <2>3, StartMoverDoes
    <3> QED BY <2>1, <3>1, <1>a, <1>b, <1>c, ShapeKept
  <2>4. CASE Rests(a)
    <3>1. Idle(entry.sess) \in ActorRecords /\ Idle(entry.sess).pc = "idle"
      BY <1>b, IdleTyped
    <3>2. /\ actor' \in [Actors -> ActorRecords] /\ actor'[a].pc = "idle"
          /\ \A b \in Actors \ {a} : actor'[b] = actor[b]
      BY <2>4, <3>1, <1>b DEF Rests
    <3> QED BY <2>1, <3>2, <1>a, <1>b, <1>c, ShapeKept
  <2> QED BY <2>1, <2>3, <2>4
<1>18. ASSUME NEW n \in Streams, Opened(n) \/ Dropped(n) \/ Attached(n) \/ NeverSeen(n)
       PROVE  Shape'
  <2>1. UNCHANGED <<sessionVars, on, swapVars, entry, actor, leftOn>>
    BY <1>18 DEF Opened, Dropped, Attached, NeverSeen
  <2>2. /\ header' \in [Streams -> {"none", "open", "resume", "reopen", "unseen", "drained"}]
        /\ verdict' \in [Streams -> {"none", "accept", "busy", "unknown", "never"}]
    <3>1. CASE Opened(n) \/ Dropped(n)
      BY <3>1 DEF Opened, Dropped, Read, Shape, TableShape
    <3>2. CASE Attached(n) \/ NeverSeen(n)
      <4>1. \/ \E v \in {"accept", "busy", "unknown", "never"} : Answer(n, v)
            \/ header' = [header EXCEPT ![n] = "unseen"] /\ UNCHANGED verdict
        BY <3>2 DEF Attached, NeverSeen
      <4> QED BY <4>1 DEF Answer, Read, Shape, TableShape
    <3> QED BY <1>18, <3>1, <3>2
  <2>3. known' \in {"no", "dial", "run"}
    BY <1>18 DEF Opened, Dropped, Attached, NeverSeen, Shape, TableShape
  <2>4. gone' \in [kept : {"no", "short", "long"}, reopen : BOOLEAN]
    <3>1. gone' = gone \/ Put("long", FALSE) \/ Put("long", TRUE)
      BY <1>18 DEF Opened, Dropped, Attached, NeverSeen
    <3> QED BY <3>1, PutTyped DEF Shape, TableShape
  <2> QED BY <2>1, <2>2, <2>3, <2>4 DEF Shape, TableShape, ActorShape
<1>19. CASE Dialled \/ Forget \/ Expires
  <2>1. gone' \in [kept : {"no", "short", "long"}, reopen : BOOLEAN] /\ known' \in {"no", "dial", "run"}
    <3>1. gone' = gone \/ Put("short", FALSE) \/ gone' = [kept |-> "no", reopen |-> FALSE]
      BY <1>19 DEF Dialled, Forget, Expires
    <3>2. [kept |-> "no", reopen |-> FALSE] \in [kept : {"no", "short", "long"}, reopen : BOOLEAN]
      OBVIOUS
    <3>3. known' \in {"no", "dial", "run"}
      BY <1>19 DEF Dialled, Forget, Expires, Shape, TableShape
    <3> QED BY <3>1, <3>2, <3>3, PutTyped DEF Shape, TableShape
  <2>2. UNCHANGED <<serverVars, header, verdict>>
    BY <1>19 DEF Dialled, Forget, Expires
  <2> QED BY <2>1, <2>2 DEF Shape, TableShape, ActorShape
<1>20. CASE UNCHANGED flowVars
  BY <1>20 DEF flowVars, Shape, TableShape, ActorShape
<1> QED
  BY <1>1, <1>2, <1>3, <1>4, <1>5, <1>6, <1>7, <1>8, <1>9, <1>10, <1>11, <1>12, <1>13,
     <1>14, <1>15, <1>16, <1>17, <1>18, <1>19, <1>20
  DEF FlowNext

-----------------------------------------------------------------------------
(* Who carries the flow: the proof. *)

\* A step that installs and reports nothing.  Whoever holds the swapper at a
\* built tunnel did so before.
LEMMA CarrierQuiet ==
    ASSUME Shape, CarrierInv, UNCHANGED <<entry, tunnel>>, OnGrows,
           flow' = "run" => flow = "run",
           \A a \in Actors : actor'[a].pc = "report" =>
               actor[a].pc = "report",
           \A a \in Actors : actor[a].pc = "report" => actor'[a] = actor[a],
           \A a \in Actors : actor'[a].pc = "built" /\ Holds(a)' =>
               actor[a].pc = "built" /\ Holds(a) /\ actor'[a].seq = actor[a].seq,
           DriveWhileSuspended'
    PROVE  CarrierInv'
<1>1. HolderIsLatest'
  <2> SUFFICES ASSUME NEW a \in Actors, actor'[a].pc = "built", Holds(a)'
               PROVE  /\ actor'[a].seq = entry'.swaps /\ entry'.at < entry'.swaps
                      /\ \A b \in Actors : actor'[b].pc = "report" => actor'[b].seq < entry'.swaps
    BY DEF HolderIsLatest
  <2> QED BY DEF CarrierInv, HolderIsLatest
<1>2. SwapsCount'
  BY DEF CarrierInv, SwapsCount
<1>3. TunnelRecorded'
  <2> SUFFICES ASSUME flow' = "run"
               PROVE  \/ /\ entry'.sess = on'[tunnel']
                         /\ \A b \in Actors : actor'[b].pc = "report" => actor'[b].seq <= entry'.at
                      \/ \E a \in Actors : ToReport(a)'
    BY DEF TunnelRecorded
  <2>1. on'[tunnel'] = on[tunnel]
    BY DEF OnGrows, Shape, TableShape
  <2>2. CASE /\ entry.sess = on[tunnel]
             /\ \A b \in Actors : actor[b].pc = "report" => actor[b].seq <= entry.at
    BY <2>1, <2>2
  <2>3. ASSUME NEW a \in Actors, ToReport(a)
        PROVE  ToReport(a)'
    BY <2>3 DEF ToReport
  <2> QED BY <2>2, <2>3 DEF CarrierInv, TunnelRecorded
<1> QED BY <1>1, <1>2, <1>3 DEF CarrierInv

\* Two that hold the swapper are one.
LEMMA HoldersAreOne ==
    ASSUME NEW a \in Actors, NEW b \in Actors, Holds(a), Holds(b)
    PROVE  a = b
BY DEF Holds

\* Every step keeps the flow's carrier on record.
LEMMA CarrierStep ==
    ASSUME Shape, CarrierInv, [FlowNext]_flowVars
    PROVE  CarrierInv'
<1> USE FlowAssumption
<1> USE DEF sessionVars, streamVars, swapVars, clientVars, serverVars
<1>a. "drive" \in Actors /\ Movers \subseteq Actors /\ "drive" \notin Movers
  BY DEF Actors
<1>b. DriveWhileSuspended /\ actor \in [Actors -> ActorRecords]
  BY DEF CarrierInv, Shape, ActorShape
<1>c. UNCHANGED on => OnGrows
  BY DEF OnGrows, Shape, TableShape
\* one actor moves, away from where it could install or report
<1>d. ASSUME NEW a \in Actors, OthersRest(a), actor[a].pc # "report",
             actor'[a].pc \notin {"report", "built"},
             UNCHANGED <<entry, tunnel>>, OnGrows,
             \/ UNCHANGED <<flow, frozen>>
             \/ flow' \in {flow, "suspended"} /\ (frozen' = "no" \/ frozen' = frozen)
                /\ (actor'["drive"].pc = "built" => flow = "suspended"),
             flow' = "run" => flow = "run",
             DriveWhileSuspended'
      PROVE  CarrierInv'
  <2>1. \A b \in Actors : actor'[b].pc = "built" /\ Holds(b)' =>
            actor[b].pc = "built" /\ Holds(b) /\ actor'[b].seq = actor[b].seq
    BY <1>a, <1>d DEF OthersRest, Holds, Actors
  <2> QED BY <1>d, <2>1, CarrierQuiet DEF OthersRest
<1>e. ASSUME UNCHANGED <<entry, tunnel, actor, flow, frozen>>, OnGrows
      PROVE  CarrierInv'
  BY <1>b, <1>e, CarrierQuiet DEF DriveWhileSuspended, Holds
\* the flow is suspended under everybody's feet
<1>f. ASSUME flow = "run", Suspended, UNCHANGED <<entry, actor, on>>
      PROVE  CarrierInv'
  BY <1>a, <1>b, <1>c, <1>f, CarrierQuiet DEF Suspended, DriveWhileSuspended, Holds
<1>g. ASSUME Ends
      PROVE  CarrierInv'
  BY <1>g, <1>a, EndsDo DEF CarrierInv, DriveWhileSuspended, HolderIsLatest, SwapsCount, TunnelRecorded
<1>1. CASE TunnelFails \/ MoveOffStalled
  BY <1>1, <1>f DEF TunnelFails, MoveOffStalled
<1>2. CASE Switched
  BY <1>2, <1>a, <1>b, <1>c, CarrierQuiet DEF Switched, DriveWhileSuspended, Holds, Actors
<1>3. CASE Hear
  BY <1>3, <1>c, <1>e DEF Hear
<1>4. CASE FlowOver
  BY <1>4, <1>g DEF FlowOver
<1>5. CASE DriveWakes
  <2>1. CASE flow = "suspended" /\ Moves("drive", "try") /\ UNCHANGED swapVars
    <3>1. OthersRest("drive") /\ actor'["drive"].pc = "try"
      BY <2>1, <1>a, MovesDo DEF PCs
    <3> QED BY <1>5, <2>1, <3>1, <1>a, <1>c, <1>d DEF DriveWakes, DriveWhileSuspended
  <2>2. CASE actor' = [actor EXCEPT !["drive"].old = entry.sess] /\ UNCHANGED swapVars
    <3>1. OthersRest("drive") /\ actor'["drive"].pc = "idle"
      BY <1>5, <2>2, <1>a, <1>b DEF DriveWakes, OthersRest, ActorRecords
    <3> QED BY <1>5, <2>2, <3>1, <1>a, <1>c, <1>d DEF DriveWakes, DriveWhileSuspended
  <2>3. CASE flow = "run" /\ Moves("drive", "try") /\ Suspended
    <3>1. OthersRest("drive") /\ actor'["drive"].pc = "try"
      BY <2>3, <1>a, MovesDo DEF PCs
    <3> QED BY <1>5, <2>3, <3>1, <1>a, <1>c, <1>d DEF DriveWakes, DriveWhileSuspended, Suspended
  <2> QED BY <1>5, <2>1, <2>2, <2>3 DEF DriveWakes
<1>6. CASE ResumeVerdict
  <2>0. actor["drive"].pc = "ask" /\ flow = "suspended" /\ UNCHANGED tunnel
    BY <1>6 DEF ResumeVerdict
  <2>1. CASE (Moves("drive", "swap") \/ Moves("drive", "try")) /\ UNCHANGED <<streamVars, flow, frozen, entry>>
    <3>1. OthersRest("drive") /\ actor'["drive"].pc \in {"swap", "try"}
      BY <2>1, <1>a, MovesDo DEF PCs
    <3> QED BY <2>0, <2>1, <3>1, <1>a, <1>c, <1>d DEF DriveWhileSuspended
  <2>2. CASE OpenStream("drive", on[actor["drive"].st], "open", "swap") /\ UNCHANGED <<flow, frozen, entry>>
    <3>1. on[actor["drive"].st] \in Carriers
      BY <2>0, <1>a DEF Shape, TableShape, ActorShape
    <3>2. OthersRest("drive") /\ actor'["drive"].pc = "swap" /\ OnGrows
      BY <2>2, <3>1, <1>a, OpenStreamDoes DEF PCs
    <3> QED BY <2>0, <2>2, <3>2, <1>a, <1>d DEF DriveWhileSuspended
  <2>3. CASE Ends
    BY <2>3, <1>g
  <2> QED BY <1>6, <2>1, <2>2, <2>3 DEF ResumeVerdict
<1>7. CASE ResumeFails
  <2>1. OthersRest("drive") /\ actor'["drive"].pc = "try" /\ actor["drive"].pc # "report"
    BY <1>7, <1>a, MovesDo DEF ResumeFails, PCs
  <2> QED BY <1>7, <2>1, <1>a, <1>c, <1>d DEF ResumeFails, DriveWhileSuspended
<1>8. ASSUME NEW x \in Carriers, ResumeOnce(x)
      PROVE  CarrierInv'
  <2>1. PICK h \in {"resume", "reopen"} : OpenStream("drive", x, h, "ask")
    BY <1>8 DEF ResumeOnce
  <2>2. OthersRest("drive") /\ actor'["drive"].pc = "ask" /\ OnGrows
    BY <2>1, <1>a, OpenStreamDoes DEF PCs
  <2> QED BY <1>8, <2>2, <1>a, <1>d DEF ResumeOnce, DriveWhileSuspended
<1>9. ASSUME NEW x \in Carriers, Retire(x) \/ SessionCloses(x) \/ Stalls(x) \/ GetsThrough(x)
      PROVE  CarrierInv'
  BY <1>9, <1>c, <1>e DEF Retire, SessionCloses, Stalls, GetsThrough
\* the slots a mover may start in are neither installing nor reporting
<1>h. ASSUME NEW a \in Actors \cup {"none"}, NEW x \in Carriers, StartMover(a, x),
             a \in Actors => actor[a].pc = "check",
             UNCHANGED <<entry, tunnel, flow, frozen, on>>
      PROVE  CarrierInv'
  <2>1. PICK m \in Movers : /\ m = a \/ actor[m].pc = "idle"
                            /\ actor'[m].pc = "try"
                            /\ a \in Actors \ {m} => actor'[a].pc = "idle"
                            /\ \A b \in Actors \ {a, m} : actor'[b] = actor[b]
    BY <1>h, StartMoverDoes
  <2>2. \A b \in Actors : \/ actor'[b] = actor[b]
                          \/ actor[b].pc \in {"check", "idle"} /\ actor'[b].pc \in {"try", "idle"}
    BY <1>h, <2>1, <1>a
  <2>3. actor'["drive"] = actor["drive"] \/ actor'["drive"].pc = "idle"
    BY <1>h, <2>1, <1>a
  <2>4. DriveWhileSuspended'
    BY <1>b, <1>h, <2>3 DEF DriveWhileSuspended
  <2> QED BY <1>c, <1>h, <2>2, <2>4, CarrierQuiet DEF Holds
<1>10. ASSUME NEW x \in Carriers, MigrateFlowsOff(x)
       PROVE  CarrierInv'
  <2>1. "none" \notin Actors
    BY DEF Actors
  <2> QED BY <1>10, <2>1, <1>c, <1>e, <1>h DEF MigrateFlowsOff
<1>11. ASSUME NEW m \in Movers, MovedAlready(m)
       PROVE  CarrierInv'
  <2>1. OthersRest(m) /\ actor'[m].pc = "idle" /\ actor[m].pc = "try"
    BY <1>11, <1>a, <1>b DEF MovedAlready, OthersRest, Idle
  <2> QED BY <1>11, <2>1, <1>a, <1>b, <1>c, <1>d DEF MovedAlready, OthersRest, DriveWhileSuspended
<1>12. ASSUME NEW m \in Movers, MigrateFails(m) \/ MigrateGivesUp(m)
       PROVE  CarrierInv'
  <2>1. /\ \E e, cut \in BOOLEAN : TriesAgain(m, e, cut)
        /\ actor[m].pc \in {"try", "ask", "swap", "built"}
        /\ UNCHANGED <<on, tunnel, entry>>
    BY <1>12 DEF MigrateFails, MigrateGivesUp
  <2>2. /\ OthersRest(m) /\ actor'[m].pc \in {"idle", "try"}
        /\ flow' = flow \/ (flow = "run" /\ flow' = "suspended")
        /\ frozen' = "no" \/ frozen' = frozen
    BY <2>1, TriesAgainDoes
  <2>3. actor'["drive"] = actor["drive"]
    BY <2>2, <1>a DEF OthersRest
  <2>4. DriveWhileSuspended' /\ (actor'["drive"].pc = "built" => flow = "suspended")
    BY <1>b, <2>2, <2>3 DEF DriveWhileSuspended
  <2> QED BY <2>1, <2>2, <2>4, <1>a, <1>c, <1>d
<1>13. ASSUME NEW m \in Movers, MigrateVerdict(m)
       PROVE  CarrierInv'
  <2>1. OthersRest(m) /\ actor'[m].pc = "swap" /\ actor[m].pc = "ask"
    BY <1>13, <1>a, MovesDo DEF MigrateVerdict, PCs
  <2> QED BY <1>13, <2>1, <1>a, <1>b, <1>c, <1>d DEF MigrateVerdict, OthersRest, DriveWhileSuspended
<1>14. ASSUME NEW m \in Movers, Freeze(m)
       PROVE  CarrierInv'
  <2>1. \A b \in Actors : actor'[b].pc = "built" /\ Holds(b)' => actor[b].pc = "built" /\ Holds(b)
    BY <1>14, <1>a DEF Freeze, Holds, Swappable
  <2> QED BY <1>14, <2>1, <1>b, <1>c, CarrierQuiet DEF Freeze, DriveWhileSuspended
<1>15. ASSUME NEW m \in Movers, NEW x \in Carriers, MigrateFlow(m, x)
       PROVE  CarrierInv'
  <2>1. OthersRest(m) /\ actor'[m].pc = "ask" /\ actor[m].pc = "try" /\ OnGrows
    BY <1>15, <1>a, OpenStreamDoes DEF MigrateFlow, PCs
  <2> QED BY <1>15, <2>1, <1>a, <1>b, <1>d DEF MigrateFlow, OthersRest, DriveWhileSuspended
<1>16. ASSUME NEW a \in Actors, Took(a)
       PROVE  CarrierInv'
  <2>1. /\ actor[a].pc = "swap" /\ Holds(a) /\ UNCHANGED <<flow, frozen, tunnel, on>>
        /\ actor' = [actor EXCEPT ![a].pc = "built", ![a].seq = entry.swaps + 1]
        /\ entry' = [entry EXCEPT !.swaps = entry.swaps + 1]
    BY <1>16 DEF Took
  <2>2. /\ entry'.swaps = entry.swaps + 1 /\ entry'.at = entry.at /\ entry'.sess = entry.sess
        /\ entry.swaps \in Nat /\ entry.at \in Nat
    BY <2>1 DEF Shape, TableShape
  <2>3. OthersRest(a) /\ actor'[a].pc = "built" /\ actor'[a].seq = entry.swaps + 1
    BY <2>1, <1>b DEF OthersRest, ActorRecords
  <2>4. \A b \in Actors : /\ actor'[b].pc = "report" => b # a /\ actor[b].pc = "report" /\ actor'[b] = actor[b]
                          /\ actor[b].pc = "report" => b # a /\ actor'[b] = actor[b]
                          /\ actor[b].seq \in Nat
                          /\ Holds(b)' <=> Holds(b)
    BY <2>1, <2>3, <1>b DEF OthersRest, ActorRecords, Holds
  <2>5. SwapsCount'
    BY <2>2, <2>4 DEF CarrierInv, SwapsCount
  <2>6. HolderIsLatest'
    <3> SUFFICES ASSUME NEW b \in Actors, actor'[b].pc = "built", Holds(b)'
                 PROVE  /\ actor'[b].seq = entry'.swaps /\ entry'.at < entry'.swaps
                        /\ \A c \in Actors : actor'[c].pc = "report" => actor'[c].seq < entry'.swaps
      BY DEF HolderIsLatest
    <3>1. b = a
      BY <2>1, <2>4, HoldersAreOne
    <3> QED BY <2>2, <2>3, <2>4, <3>1 DEF CarrierInv, SwapsCount
  <2>7. TunnelRecorded'
    <3> SUFFICES ASSUME flow = "run"
                 PROVE  \/ /\ entry'.sess = on[tunnel]
                           /\ \A b \in Actors : actor'[b].pc = "report" => actor'[b].seq <= entry'.at
                        \/ \E b \in Actors : ToReport(b)'
      BY <2>1 DEF TunnelRecorded
    <3>1. ASSUME NEW b \in Actors, ToReport(b)
          PROVE  ToReport(b)'
      BY <2>1, <2>2, <2>4, <3>1 DEF ToReport
    <3> QED BY <2>2, <2>4, <3>1 DEF CarrierInv, TunnelRecorded
  <2>8. DriveWhileSuspended'
    BY <2>1, <2>3, <1>a, <1>b DEF DriveWhileSuspended, OthersRest, Holds
  <2> QED BY <2>5, <2>6, <2>7, <2>8 DEF CarrierInv
<1>17. ASSUME NEW a \in Actors, Installed(a)
       PROVE  CarrierInv'
  <2>1. /\ actor[a].pc = "built" /\ Holds(a) /\ tunnel' = actor[a].st /\ flow' = "run"
        /\ frozen' \in {"no", "switching"} /\ UNCHANGED <<on, entry>> /\ Moves(a, "report")
    BY <1>17 DEF Installed
  <2>2. /\ OthersRest(a) /\ actor'[a].pc = "report" /\ actor'[a].st = actor[a].st
        /\ actor'[a].seq = actor[a].seq
    BY <2>1, MovesDo DEF PCs
  <2>3. /\ actor[a].seq = entry.swaps /\ entry.at < entry.swaps
        /\ \A b \in Actors : actor[b].pc = "report" => actor[b].seq < entry.swaps
    BY <2>1 DEF CarrierInv, HolderIsLatest
  <2>4. ToReport(a)'
    BY <2>1, <2>2, <2>3 DEF ToReport, OthersRest
  <2>5. TunnelRecorded'
    BY <2>4 DEF TunnelRecorded
  <2>6. SwapsCount'
    BY <2>1, <2>2, <2>3 DEF CarrierInv, SwapsCount, OthersRest, Shape, TableShape
  <2>7. \A b \in Actors : ~Holds(b)' \/ b = "drive"
    BY <2>1, <1>a DEF Holds, Actors
  <2>8. ~Holds("drive")'
    BY <2>1 DEF Holds
  <2>9. HolderIsLatest'
    BY <2>7, <2>8 DEF HolderIsLatest
  <2>10. DriveWhileSuspended'
    <3>1. CASE a = "drive"
      BY <2>2, <3>1 DEF DriveWhileSuspended
    <3>2. CASE a # "drive"
      BY <2>1, <2>2, <3>2, <1>a, <1>b DEF DriveWhileSuspended, OthersRest, Holds
    <3> QED BY <3>1, <3>2
  <2> QED BY <2>5, <2>6, <2>9, <2>10 DEF CarrierInv
<1>18. ASSUME NEW a \in Actors, Report(a)
       PROVE  CarrierInv'
  <2>1. /\ actor[a].pc = "report" /\ Moved(a) /\ Moves(a, "check")
        /\ UNCHANGED <<on, flow, frozen, tunnel>>
    BY <1>18 DEF Report
  <2>2. OthersRest(a) /\ actor'[a].pc = "check"
    BY <2>1, MovesDo DEF PCs
  <2>3. /\ actor[a].seq \in Nat /\ entry.at \in Nat /\ entry.swaps \in Nat /\ actor[a].seq <= entry.swaps
        /\ \A b \in Actors : actor[b].seq \in Nat
    BY <2>1, <1>b DEF CarrierInv, SwapsCount, Shape, TableShape, ActorRecords
  <2>4. \/ actor[a].seq <= entry.at /\ entry' = entry
        \/ /\ actor[a].seq > entry.at /\ entry'.swaps = entry.swaps
           /\ entry'.at = actor[a].seq /\ entry'.sess = on[actor[a].st]
    BY <2>1, <2>3 DEF Moved, Shape, TableShape
  <2>5. \A b \in Actors : actor'[b].pc \in {"report", "built"} => b # a /\ actor'[b] = actor[b]
    BY <2>2 DEF OthersRest
  <2>6. SwapsCount'
    BY <2>3, <2>4, <2>5 DEF CarrierInv, SwapsCount
  <2>7. HolderIsLatest'
    <3> SUFFICES ASSUME NEW b \in Actors, actor'[b].pc = "built", Holds(b)'
                 PROVE  /\ actor'[b].seq = entry'.swaps /\ entry'.at < entry'.swaps
                        /\ \A c \in Actors : actor'[c].pc = "report" => actor'[c].seq < entry'.swaps
      BY DEF HolderIsLatest
    <3>1. actor[b].pc = "built" /\ Holds(b) /\ actor'[b] = actor[b]
      BY <2>1, <2>5 DEF Holds
    <3> QED BY <2>1, <2>4, <2>5, <3>1 DEF CarrierInv, HolderIsLatest
  <2>8. TunnelRecorded'
    <3> SUFFICES ASSUME flow = "run"
                 PROVE  \/ /\ entry'.sess = on[tunnel]
                           /\ \A b \in Actors : actor'[b].pc = "report" => actor'[b].seq <= entry'.at
                        \/ \E b \in Actors : ToReport(b)'
      BY <2>1 DEF TunnelRecorded
    <3>1. CASE /\ entry.sess = on[tunnel]
               /\ \A b \in Actors : actor[b].pc = "report" => actor[b].seq <= entry.at
      <4>1. entry' = entry
        BY <2>1, <2>3, <2>4, <3>1
      <4> QED BY <2>5, <3>1, <4>1
    <3>2. CASE ToReport(a)
      \* the report of the tunnel itself: the entry is ahead of all that follow
      <4>1. entry'.at = actor[a].seq /\ entry'.sess = on[tunnel]
        BY <2>3, <2>4, <3>2 DEF ToReport
      <4>2. \A b \in Actors : actor'[b].pc = "report" => actor'[b].seq <= entry'.at
        BY <2>3, <2>5, <3>2, <4>1 DEF ToReport
      <4> QED BY <4>1, <4>2
    <3>3. ASSUME NEW b \in Actors \ {a}, ToReport(b)
          PROVE  ToReport(b)'
      \* a late report of an earlier tunnel
      <4>1. actor'[b] = actor[b] /\ actor[a].seq < actor[b].seq
        BY <2>1, <2>2, <3>3 DEF OthersRest, ToReport
      <4>2. actor[b].seq > entry'.at
        BY <2>3, <2>4, <3>3, <4>1 DEF ToReport
      <4> QED BY <2>1, <2>5, <3>3, <4>1, <4>2 DEF ToReport
    <3> QED BY <3>1, <3>2, <3>3 DEF CarrierInv, TunnelRecorded
  <2>9. DriveWhileSuspended'
    BY <2>1, <2>2, <1>a, <1>b DEF DriveWhileSuspended, OthersRest
  <2> QED BY <2>6, <2>7, <2>8, <2>9 DEF CarrierInv
<1>19. ASSUME NEW a \in Actors, MoveOffRetired(a)
       PROVE  CarrierInv'
  <2>1. /\ actor[a].pc = "check" /\ UNCHANGED <<entry, tunnel, flow, frozen, on>>
        /\ StartMover(a, on[actor[a].st]) \/ Rests(a)
    BY <1>19 DEF MoveOffRetired
  <2>2. on[actor[a].st] \in Carriers
    BY <2>1 DEF Shape, TableShape, ActorShape
  <2>3. CASE Rests(a)
    <3>1. OthersRest(a) /\ actor'[a].pc = "idle"
      BY <2>3, <1>b DEF Rests, OthersRest, Idle
    <3>2. DriveWhileSuspended'
      BY <2>1, <3>1, <1>a, <1>b DEF DriveWhileSuspended, OthersRest
    <3> QED BY <2>1, <3>1, <3>2, <1>c, <1>d
  <2> QED BY <2>1, <2>2, <2>3, <1>h
<1>20. ASSUME NEW n \in Streams, Opened(n) \/ Dropped(n) \/ Attached(n) \/ NeverSeen(n)
       PROVE  CarrierInv'
  BY <1>20, <1>c, <1>e DEF Opened, Dropped, Attached, NeverSeen
<1>21. CASE Dialled \/ Forget \/ Expires
  BY <1>21, <1>c, <1>e DEF Dialled, Forget, Expires
<1>22. CASE UNCHANGED flowVars
  BY <1>22, <1>c, <1>e DEF flowVars
<1> QED
  BY <1>1, <1>2, <1>3, <1>4, <1>5, <1>6, <1>7, <1>8, <1>9, <1>10, <1>11, <1>12, <1>13,
     <1>14, <1>15, <1>16, <1>17, <1>18, <1>19, <1>20, <1>21, <1>22
  DEF FlowNext

\* The latest tunnel is on record, or recorded as on its way.
LEMMA CarrierKnown ==
    ASSUME CarrierInv
    PROVE  CarrierOnRecord
BY DEF CarrierInv, TunnelRecorded, ToReport, CarrierOnRecord, OnSession, Recorded

-----------------------------------------------------------------------------
(* Nobody is left behind: the proof. *)

\* Actor a is still at work for the session it was started for, or is still to
\* look at the one it moved the flow to.
StillCares(a) ==
    /\ a \in Movers /\ actor[a].pc \in {"try", "ask", "swap", "built"} =>
           \/ actor'[a].pc \in {"try", "ask", "swap", "built"} /\ actor'[a].old = actor[a].old
           \/ actor[a].old \in leftOn'
    /\ actor[a].pc \in {"report", "check"} =>
           actor'[a].pc \in {"report", "check"} /\ actor'[a].st = actor[a].st

\* A step that installs nothing and relieves nobody.
LEMMA CareQuiet ==
    ASSUME Shape, RetiredTakenCareOf, tunnel' = tunnel, OnGrows,
           flow' = "run" => flow = "run",
           \A x \in Carriers : line'[x] # "closed" => line[x] # "closed",
           \A x \in Carriers : x \notin registry' /\ line'[x] # "closed" =>
               x \notin registry \/ x \in unlooked',
           unlooked \cup leftOn \subseteq unlooked' \cup leftOn',
           \A a \in Actors : StillCares(a)
    PROVE  RetiredTakenCareOf'
<1> DEFINE x == on[tunnel]
<1>1. x \in Carriers /\ on'[tunnel'] = x
  BY DEF OnGrows, Shape, TableShape
<1> SUFFICES ASSUME flow' = "run", line'[x] # "closed", x \notin registry'
             PROVE  TakenCareOf(x)'
  BY <1>1 DEF RetiredTakenCareOf
<1>2. CASE x \in unlooked'
  BY <1>1, <1>2 DEF TakenCareOf
<1>3. CASE x \notin unlooked'
  <2>1. TakenCareOf(x)
    BY <1>1, <1>3 DEF RetiredTakenCareOf
  <2>2. CASE x \in unlooked \cup leftOn
    BY <1>1, <2>2 DEF TakenCareOf
  <2>3. ASSUME NEW m \in Movers, actor[m].pc \in {"try", "ask", "swap", "built"}, actor[m].old = x
        PROVE  TakenCareOf(x)'
    BY <1>1, <2>3 DEF StillCares, TakenCareOf, Actors
  <2>4. ASSUME NEW a \in Actors, actor[a].pc \in {"report", "check"}, on[actor[a].st] = x
        PROVE  TakenCareOf(x)'
    <3>1. on'[actor'[a].st] = x /\ actor'[a].pc \in {"report", "check"}
      BY <2>4 DEF StillCares, OnGrows, Shape, ActorShape
    <3> QED BY <1>1, <3>1 DEF TakenCareOf
  <2> QED BY <2>1, <2>2, <2>3, <2>4 DEF TakenCareOf
<1> QED BY <1>2, <1>3

\* Every step keeps somebody for a flow whose session was retired.
LEMMA CareStep ==
    ASSUME Shape, CarrierInv, RetiredTakenCareOf, [FlowNext]_flowVars
    PROVE  RetiredTakenCareOf'
<1> USE FlowAssumption
<1> USE DEF sessionVars, streamVars, swapVars, clientVars, serverVars
<1>a. "drive" \in Actors /\ Movers \subseteq Actors /\ "drive" \notin Movers /\ "none" \notin Actors
  BY DEF Actors
<1>b. actor \in [Actors -> ActorRecords] /\ CarrierOnRecord
  BY CarrierKnown DEF Shape, ActorShape
<1>c. UNCHANGED on => OnGrows
  BY DEF OnGrows, Shape, TableShape
<1>d. \A a \in Actors : actor'[a] = actor[a] => StillCares(a)
  BY DEF StillCares
\* one actor moves and still cares
<1>e. ASSUME NEW a \in Actors, OthersRest(a), StillCares(a), tunnel' = tunnel, OnGrows,
             flow' = "run" => flow = "run", UNCHANGED sessionVars,
             leftOn \subseteq leftOn'
      PROVE  RetiredTakenCareOf'
  BY <1>d, <1>e, CareQuiet DEF OthersRest
<1>f. ASSUME UNCHANGED <<tunnel, actor, leftOn, sessionVars>>, OnGrows, flow' = "run" => flow = "run"
      PROVE  RetiredTakenCareOf'
  BY <1>d, <1>f, CareQuiet
<1>1. CASE TunnelFails \/ MoveOffStalled \/ Switched \/ Hear
  BY <1>1, <1>c, <1>f DEF TunnelFails, MoveOffStalled, Switched, Hear, Suspended
<1>2. CASE FlowOver
  BY <1>2 DEF FlowOver, Ends, RetiredTakenCareOf
<1>3. CASE DriveWakes
  <2>1. CASE Moves("drive", "try")
    <3>1. OthersRest("drive") /\ actor["drive"].pc = "idle"
      BY <1>3, <2>1, <1>a, MovesDo DEF DriveWakes, PCs
    <3> QED BY <1>3, <3>1, <1>a, <1>c, <1>e DEF DriveWakes, Suspended, StillCares
  <2>2. CASE actor' = [actor EXCEPT !["drive"].old = entry.sess] /\ UNCHANGED swapVars
    <3>1. OthersRest("drive") /\ actor["drive"].pc = "idle"
      BY <1>3, <2>2, <1>a, <1>b DEF DriveWakes, OthersRest
    <3> QED BY <1>3, <2>2, <3>1, <1>a, <1>c, <1>e DEF DriveWakes, StillCares
  <2> QED BY <1>3, <2>1, <2>2 DEF DriveWakes
<1>4. CASE ResumeVerdict
  <2>0. actor["drive"].pc = "ask" /\ flow = "suspended" /\ UNCHANGED <<tunnel, sessionVars>>
    BY <1>4 DEF ResumeVerdict
  <2>1. flow' # "run"
    BY <1>4, <2>0 DEF ResumeVerdict, Ends
  <2> QED BY <2>1 DEF RetiredTakenCareOf
<1>5. CASE ResumeFails
  BY <1>5 DEF ResumeFails, RetiredTakenCareOf
<1>6. ASSUME NEW x \in Carriers, ResumeOnce(x)
      PROVE  RetiredTakenCareOf'
  BY <1>6 DEF ResumeOnce, RetiredTakenCareOf
<1>7. ASSUME NEW x \in Carriers, Retire(x) \/ SessionCloses(x) \/ Stalls(x) \/ GetsThrough(x)
      PROVE  RetiredTakenCareOf'
  <2>1. /\ \A y \in Carriers : line'[y] # "closed" => line[y] # "closed"
        /\ \A y \in Carriers : y \notin registry' /\ line'[y] # "closed" =>
               y \notin registry \/ y \in unlooked'
        /\ unlooked \subseteq unlooked'
    BY <1>7 DEF Retire, SessionCloses, Stalls, GetsThrough, Shape, TableShape
  <2>2. UNCHANGED <<streamVars, swapVars, entry, actor, leftOn>>
    BY <1>7 DEF Retire, SessionCloses, Stalls, GetsThrough
  <2> QED BY <2>1, <2>2, <1>c, <1>d, CareQuiet
<1>8. ASSUME NEW x \in Carriers, MigrateFlowsOff(x)
      PROVE  RetiredTakenCareOf'
  <2>1. UNCHANGED <<registry, line, streamVars, swapVars, leftOn>> /\ unlooked' = unlooked \ {x}
    BY <1>8 DEF MigrateFlowsOff
  <2> DEFINE y == on[tunnel]
  <2> SUFFICES ASSUME flow = "run", line[y] # "closed", y \notin registry
               PROVE  TakenCareOf(y)'
    BY <2>1 DEF RetiredTakenCareOf
  <2>2. TakenCareOf(y) /\ OnSession(y)
    BY <1>b DEF RetiredTakenCareOf, CarrierOnRecord
  <2>3. CASE OnSession(x)
    <3>1. PICK m \in Movers : /\ actor[m].pc = "idle" /\ actor'[m].pc = "try" /\ actor'[m].old = x
                              /\ \A b \in Actors \ {m} : actor'[b] = actor[b]
      BY <1>8, <2>3, <1>a, StartMoverDoes DEF MigrateFlowsOff
    <3>2. CASE x = y
      BY <2>1, <3>1, <3>2 DEF TakenCareOf
    <3>3. CASE x # y
      <4>1. \A b \in Actors : actor[b].pc # "idle" => actor'[b] = actor[b]
        BY <3>1
      <4> QED BY <2>1, <2>2, <3>3, <4>1, <1>a DEF TakenCareOf
    <3> QED BY <3>2, <3>3
  <2>4. CASE ~OnSession(x)
    \* the flow that runs on a session is on record there
    <3>1. x # y /\ UNCHANGED actor
      BY <1>8, <2>2, <2>4 DEF MigrateFlowsOff
    <3> QED BY <2>1, <2>2, <3>1 DEF TakenCareOf
  <2> QED BY <2>3, <2>4
<1>9. ASSUME NEW m \in Movers, MovedAlready(m)
      PROVE  RetiredTakenCareOf'
  <2>1. /\ UNCHANGED <<sessionVars, streamVars, swapVars, leftOn>>
        /\ actor[m].pc = "try" /\ ~OnSession(actor[m].old)
        /\ \A b \in Actors \ {m} : actor'[b] = actor[b]
    BY <1>9, <1>a, <1>b DEF MovedAlready
  <2> DEFINE y == on[tunnel]
  <2> SUFFICES ASSUME flow = "run", line[y] # "closed", y \notin registry
               PROVE  TakenCareOf(y)'
    BY <2>1 DEF RetiredTakenCareOf
  <2>2. TakenCareOf(y) /\ actor[m].old # y
    BY <2>1, <1>b DEF RetiredTakenCareOf, CarrierOnRecord
  <2> QED BY <2>1, <2>2, <1>a DEF TakenCareOf
<1>10. ASSUME NEW m \in Movers, MigrateFails(m) \/ MigrateGivesUp(m)
       PROVE  RetiredTakenCareOf'
  <2>1. /\ \E e, cut \in BOOLEAN : TriesAgain(m, e, cut)
        /\ actor[m].pc \in {"try", "ask", "swap", "built"}
        /\ UNCHANGED <<on, tunnel, sessionVars>>
    BY <1>10 DEF MigrateFails, MigrateGivesUp
  <2>2. /\ OthersRest(m) /\ actor'[m].old = actor[m].old
        /\ \/ actor'[m].pc = "try" /\ UNCHANGED <<flow, leftOn>>
           \/ flow' = flow /\ leftOn' = leftOn \cup {actor[m].old}
           \/ flow' = "suspended"
    BY <2>1, TriesAgainDoes
  <2>3. CASE flow' = "suspended"
    BY <2>3 DEF RetiredTakenCareOf
  <2>4. CASE flow' # "suspended"
    <3>1. StillCares(m) /\ flow' = flow /\ leftOn \subseteq leftOn'
      BY <2>1, <2>2, <2>4 DEF StillCares
    <3> QED BY <2>1, <2>2, <3>1, <1>a, <1>c, <1>e
  <2> QED BY <2>3, <2>4
<1>11. ASSUME NEW m \in Movers, MigrateVerdict(m)
       PROVE  RetiredTakenCareOf'
  <2>1. /\ OthersRest(m) /\ actor[m].pc = "ask" /\ actor'[m].pc = "swap"
        /\ actor'[m].old = actor[m].old
    BY <1>11, <1>a, MovesDo DEF MigrateVerdict, PCs
  <2> QED BY <1>11, <2>1, <1>a, <1>c, <1>e DEF MigrateVerdict, StillCares
<1>12. ASSUME NEW m \in Movers, Freeze(m)
       PROVE  RetiredTakenCareOf'
  BY <1>12, <1>c, <1>f DEF Freeze
<1>13. ASSUME NEW m \in Movers, NEW x \in Carriers, MigrateFlow(m, x)
       PROVE  RetiredTakenCareOf'
  <2>1. /\ OthersRest(m) /\ actor[m].pc = "try" /\ actor'[m].pc = "ask" /\ OnGrows
        /\ actor'[m].old = actor[m].old
    BY <1>13, <1>a, OpenStreamDoes DEF MigrateFlow, PCs
  <2> QED BY <1>13, <2>1, <1>a, <1>e DEF MigrateFlow, StillCares
<1>14. ASSUME NEW a \in Actors, Took(a)
       PROVE  RetiredTakenCareOf'
  <2>1. /\ actor[a].pc = "swap" /\ UNCHANGED <<sessionVars, streamVars, swapVars, leftOn>>
        /\ actor' = [actor EXCEPT ![a].pc = "built", ![a].seq = entry.swaps + 1]
    BY <1>14 DEF Took
  <2>2. OthersRest(a) /\ actor'[a].pc = "built" /\ actor'[a].old = actor[a].old
    BY <2>1, <1>b DEF OthersRest, ActorRecords
  <2> QED BY <2>1, <2>2, <1>c, <1>e DEF StillCares
<1>15. ASSUME NEW a \in Actors, Installed(a)
       PROVE  RetiredTakenCareOf'
  \* whoever installed it is to look at the session it is on
  <2>1. /\ Moves(a, "report") /\ tunnel' = actor[a].st /\ UNCHANGED on
    BY <1>15 DEF Installed
  <2>2. actor'[a].pc = "report" /\ actor'[a].st = tunnel'
    BY <2>1, MovesDo DEF PCs
  <2> QED BY <2>1, <2>2 DEF RetiredTakenCareOf, TakenCareOf
<1>16. ASSUME NEW a \in Actors, Report(a)
       PROVE  RetiredTakenCareOf'
  <2>1. /\ OthersRest(a) /\ actor[a].pc = "report" /\ actor'[a].pc = "check"
        /\ actor'[a].st = actor[a].st
    BY <1>16, MovesDo DEF Report, PCs
  <2> QED BY <1>16, <2>1, <1>c, <1>e DEF Report, StillCares
<1>17. ASSUME NEW a \in Actors, MoveOffRetired(a)
       PROVE  RetiredTakenCareOf'
  <2> DEFINE x == on[actor[a].st]
             y == on[tunnel]
  <2>1. /\ actor[a].pc = "check" /\ UNCHANGED <<sessionVars, streamVars, swapVars, leftOn>>
        /\ IF line[x] # "closed" /\ x \notin registry THEN StartMover(a, x) ELSE Rests(a)
    BY <1>17 DEF MoveOffRetired
  <2>2. x \in Carriers
    BY <2>1 DEF Shape, TableShape, ActorShape
  <2> SUFFICES ASSUME flow = "run", line[y] # "closed", y \notin registry
               PROVE  TakenCareOf(y)'
    BY <2>1 DEF RetiredTakenCareOf
  <2>3. TakenCareOf(y)
    BY DEF RetiredTakenCareOf
  <2>4. CASE StartMover(a, x)
    <3>1. PICK m \in Movers : /\ m = a \/ actor[m].pc = "idle"
                              /\ actor'[m].pc = "try" /\ actor'[m].old = x
                              /\ \A b \in Actors \ {a, m} : actor'[b] = actor[b]
      BY <2>2, <2>4, StartMoverDoes
    <3>2. CASE x = y
      BY <2>1, <3>1, <3>2 DEF TakenCareOf
    <3>3. CASE x # y
      <4>1. \A b \in Actors : b # a /\ actor[b].pc # "idle" => actor'[b] = actor[b]
        BY <3>1
      <4> QED BY <2>1, <2>3, <3>3, <4>1, <1>a DEF TakenCareOf
    <3> QED BY <3>2, <3>3
  <2>5. CASE Rests(a) /\ x # y
    <3>1. \A b \in Actors : b # a => actor'[b] = actor[b]
      BY <2>5, <1>b DEF Rests
    <3> QED BY <2>1, <2>3, <2>5, <3>1, <1>a DEF TakenCareOf
  <2> QED BY <2>1, <2>4, <2>5
<1>18. ASSUME NEW n \in Streams, Opened(n) \/ Dropped(n) \/ Attached(n) \/ NeverSeen(n)
       PROVE  RetiredTakenCareOf'
  BY <1>18, <1>c, <1>f DEF Opened, Dropped, Attached, NeverSeen
<1>19. CASE Dialled \/ Forget \/ Expires
  BY <1>19, <1>c, <1>f DEF Dialled, Forget, Expires
<1>20. CASE UNCHANGED flowVars
  BY <1>20, <1>c, <1>f DEF flowVars
<1> QED
  BY <1>1, <1>2, <1>3, <1>4, <1>5, <1>6, <1>7, <1>8, <1>9, <1>10, <1>11, <1>12, <1>13,
     <1>14, <1>15, <1>16, <1>17, <1>18, <1>19, <1>20
  DEF FlowNext

\* The first states.
LEMMA FlowStarts ==
    ASSUME FlowInit
    PROVE  Shape /\ CarrierInv /\ RetiredTakenCareOf
<1> USE FlowAssumption
<1>1. PICK x \in Carriers : on = <<x>> /\ entry = [sess |-> x, at |-> 0, swaps |-> 0]
                            /\ actor = [a \in Actors |-> Idle(x)]
  BY DEF FlowInit
<1>2. Idle(x) \in ActorRecords /\ Idle(x).pc = "idle"
  BY IdleTyped
<1>3. ActorShape /\ \A a \in Actors : actor[a].pc = "idle"
  BY <1>1, <1>2 DEF ActorShape, Actors
<1>4. on \in Seq(Carriers) /\ Len(on) = 1 /\ on[1] = x
  BY <1>1
<1>5. gone \in [kept : {"no", "short", "long"}, reopen : BOOLEAN]
  BY DEF FlowInit
<1>6. TableShape
  BY <1>1, <1>4, <1>5 DEF FlowInit, TableShape
<1>7. CarrierInv
  <2>1. flow = "run" /\ tunnel = 1 /\ "drive" \in Actors
    BY DEF FlowInit, Actors
  <2> QED
    BY <1>1, <1>3, <1>4, <2>1
    DEF CarrierInv, DriveWhileSuspended, HolderIsLatest, SwapsCount, TunnelRecorded
<1>8. RetiredTakenCareOf
  BY <1>4 DEF FlowInit, RetiredTakenCareOf
<1> QED BY <1>3, <1>6, <1>7, <1>8 DEF Shape

LEMMA ShapesAlways == FlowSpec => []Shape
<1>1. FlowInit => Shape
  BY FlowStarts
<1>2. Shape /\ [FlowNext]_flowVars => Shape'
  BY ShapeStep
<1> QED BY <1>1, <1>2, PTL DEF FlowSpec

\* The server's registry knows the session that carries a running flow, in
\* whatever order driveResume and the movers come to report (moved).
THEOREM CarrierIsOnRecord == FlowSpec => []CarrierOnRecord
<1>1. FlowInit => CarrierInv
  BY FlowStarts
<1>2. Shape /\ CarrierInv /\ [FlowNext]_flowVars => CarrierInv'
  BY CarrierStep
<1>3. CarrierInv => CarrierOnRecord
  BY CarrierKnown
<1> QED BY <1>1, <1>2, <1>3, ShapesAlways, PTL DEF FlowSpec

\* A flow whose session was retired has somebody to take it off, or all their
\* attempts have failed (moveFlowsOff, moveOffRetired).
THEOREM NobodyLeftBehind == FlowSpec => []NotLeftBehind
<1>1. FlowInit => CarrierInv /\ RetiredTakenCareOf
  BY FlowStarts
<1>2. Shape /\ CarrierInv /\ RetiredTakenCareOf /\ [FlowNext]_flowVars
          => CarrierInv' /\ RetiredTakenCareOf'
  BY CarrierStep, CareStep
<1>3. RetiredTakenCareOf => NotLeftBehind
  BY DEF RetiredTakenCareOf, TakenCareOf, NotLeftBehind
<1> QED BY <1>1, <1>2, <1>3, ShapesAlways, PTL DEF FlowSpec

-----------------------------------------------------------------------------
(* The target is dialled once: the proof. *)

\* A step that sends no opening and no "never seen".
LEMMA OpeningQuiet ==
    ASSUME OpeningInv, UNCHANGED <<known, gone, started>>,
           \A n \in Streams : verdict'[n] = "never" => verdict[n] = "never",
           flow = "over" => flow' = "over",
           \A n \in Streams : OpenLive(n)' => OpenLive(n)
    PROVE  OpeningInv'
<1>1. Admit' <=> Admit
  BY DEF Admit
<1>2. RecordsMean'
  BY DEF OpeningInv, RecordsMean
<1>3. NeverIsRemembered'
  BY DEF OpeningInv, NeverIsRemembered
<1>4. OneOpening'
  BY DEF OpeningInv, OneOpening
<1>5. EndedIsRefused'
  BY <1>1 DEF OpeningInv, EndedIsRefused
<1> QED BY <1>2, <1>3, <1>4, <1>5 DEF OpeningInv

\* No opening comes to life while sessions only stall, return or close and no
\* other header is written.
LEMMA NoNewOpening ==
    ASSUME Shape, UNCHANGED on,
           \A n \in Streams : header'[n] = "open" => header[n] = "open",
           \A x \in Carriers : line'[x] # "closed" => line[x] # "closed",
           NEW n \in Streams, OpenLive(n)'
    PROVE  OpenLive(n)
BY DEF OpenLive, Shape, TableShape

LEMMA OtherStream ==
    ASSUME Shape, NEW a \in Actors, NEW x \in Carriers, NEW p \in PCs,
           NEW h \in {"resume", "reopen", "drained"}, OpenStream(a, x, h, p), line' = line,
           NEW n \in Streams, OpenLive(n)'
    PROVE  OpenLive(n)
<1>1. /\ on' \in Seq(Carriers) /\ Len(on') = Len(on) + 1 /\ OnGrows /\ Len(on) \in Nat
      /\ header' = [header EXCEPT ![Len(on) + 1] = h] /\ Len(on) + 1 \in Streams
  BY OpenStreamDoes DEF Shape, TableShape
<1>2. n # Len(on) + 1
  BY <1>1 DEF OpenLive, Shape, TableShape
<1>3. n \in 1..Len(on)
  BY <1>1, <1>2 DEF OpenLive
<1> QED BY <1>1, <1>2, <1>3 DEF OpenLive, OnGrows, Shape, TableShape

\* Every step keeps a used opening the last one that is admitted: the server
\* opens the flow again only after the client's answer, which the client
\* remembers, and a record expires only with the openings it guards against.
LEMMA OpeningStep ==
    ASSUME Shape, OpeningInv, [FlowNext]_flowVars
    PROVE  OpeningInv'
<1> USE FlowAssumption
<1> USE DEF sessionVars, streamVars, swapVars, clientVars, serverVars
<1>a. "drive" \in Actors /\ Movers \subseteq Actors
  BY DEF Actors
<1>b. ASSUME UNCHANGED <<on, header, verdict, known, gone, started>>, flow = "over" => flow' = "over",
             \A x \in Carriers : line'[x] # "closed" => line[x] # "closed"
      PROVE  OpeningInv'
  BY <1>b, NoNewOpening, OpeningQuiet
<1>c. ASSUME NEW a \in Actors, NEW x \in Carriers, NEW h \in {"resume", "reopen", "drained"},
             OpenStream(a, x, h, "ask"), UNCHANGED <<line, flow, known, gone, started>>
      PROVE  OpeningInv'
  <2>1. \A n \in Streams : OpenLive(n)' => OpenLive(n)
    BY <1>c, OtherStream DEF PCs
  <2>2. verdict' = verdict
    BY <1>c DEF OpenStream
  <2> QED BY <1>c, <2>1, <2>2, OpeningQuiet
<1>1. CASE TunnelFails \/ MoveOffStalled \/ Switched \/ Hear \/ FlowOver \/ DriveWakes \/ ResumeFails
  BY <1>1, <1>b
  DEF TunnelFails, MoveOffStalled, Switched, Hear, FlowOver, DriveWakes, ResumeFails, Suspended, Ends
<1>2. CASE ResumeVerdict
  <2> DEFINE n == actor["drive"].st
  <2>0. /\ flow = "suspended" /\ n \in 1..Len(on) /\ on[n] \in Carriers
        /\ UNCHANGED <<sessionVars, clientVars>>
    BY <1>2, <1>a DEF ResumeVerdict, Shape, TableShape, ActorShape
  <2>1. CASE UNCHANGED streamVars
    BY <2>0, <2>1, <1>b
  <2>2. CASE verdict[n] = "never" /\ OpenStream("drive", on[n], "open", "swap") /\ UNCHANGED flow
    <3>1. verdict' = verdict /\ header' = [header EXCEPT ![Len(on) + 1] = "open"]
          /\ Len(on) + 1 <= MaxStreams /\ Len(on) \in Nat
      BY <2>2 DEF OpenStream, Shape, TableShape
    <3>2. n \in Streams
      BY <2>0, <3>1 DEF Streams
    <3>3. gone.kept = "long"
      BY <2>0, <2>2, <3>2 DEF OpeningInv, NeverIsRemembered
    <3>4. ~(started = 1 /\ Admit)
      BY <2>0 DEF OpeningInv, EndedIsRefused
    <3>5. RecordsMean' /\ NeverIsRemembered' /\ OneOpening' /\ EndedIsRefused'
      BY <2>0, <2>2, <3>1, <3>3, <3>4
      DEF OpeningInv, RecordsMean, NeverIsRemembered, OneOpening, EndedIsRefused, Admit
    <3> QED BY <3>5 DEF OpeningInv
  <2> QED BY <1>2, <2>1, <2>2 DEF ResumeVerdict
<1>3. ASSUME NEW x \in Carriers, ResumeOnce(x)
      PROVE  OpeningInv'
  <2>1. PICK h \in {"resume", "reopen"} : OpenStream("drive", x, h, "ask")
    BY <1>3 DEF ResumeOnce
  <2> QED BY <1>3, <2>1, <1>a, <1>c DEF ResumeOnce
<1>4. ASSUME NEW x \in Carriers, Retire(x) \/ MigrateFlowsOff(x)
                                   \/ SessionCloses(x) \/ Stalls(x) \/ GetsThrough(x)
      PROVE  OpeningInv'
  <2>1. \A y \in Carriers : line'[y] # "closed" => line[y] # "closed"
    BY <1>4 DEF Retire, MigrateFlowsOff, SessionCloses, Stalls, GetsThrough, Shape, TableShape
  <2>2. UNCHANGED <<on, header, verdict, flow, known, gone, started>>
    BY <1>4 DEF Retire, MigrateFlowsOff, SessionCloses, Stalls, GetsThrough
  <2> QED BY <2>1, <2>2, <1>b
<1>5. ASSUME NEW m \in Movers, MovedAlready(m) \/ MigrateFails(m) \/ MigrateVerdict(m)
                                 \/ Freeze(m) \/ MigrateGivesUp(m)
      PROVE  OpeningInv'
  <2>1. UNCHANGED <<on, header, verdict, line, known, gone, started>>
    BY <1>5 DEF MovedAlready, MigrateFails, MigrateVerdict, Freeze, MigrateGivesUp
  <2>2. flow = "over" => flow' = "over"
    BY <1>5 DEF MovedAlready, MigrateFails, MigrateVerdict, Freeze, MigrateGivesUp, Swappable
  <2> QED BY <2>1, <2>2, <1>b
<1>6. ASSUME NEW m \in Movers, NEW x \in Carriers, MigrateFlow(m, x)
      PROVE  OpeningInv'
  BY <1>6, <1>a, <1>c DEF MigrateFlow
<1>7. ASSUME NEW a \in Actors, Took(a) \/ Installed(a) \/ Report(a) \/ MoveOffRetired(a)
      PROVE  OpeningInv'
  <2>1. UNCHANGED <<on, header, verdict, line, known, gone, started>>
    BY <1>7 DEF Took, Installed, Report, MoveOffRetired
  <2>2. flow = "over" => flow' = "over"
    BY <1>7 DEF Took, Installed, Report, MoveOffRetired, Holds
  <2> QED BY <2>1, <2>2, <1>b
<1>8. ASSUME NEW n \in Streams, Opened(n)
      PROVE  OpeningInv'
  <2>1. /\ n <= Len(on) /\ header[n] = "open" /\ line[on[n]] = "ok" /\ Admit
        /\ known' = "dial" /\ started' = started + 1
        /\ header' = [header EXCEPT ![n] = "none"]
        /\ UNCHANGED <<on, line, flow, verdict>>
    BY <1>8 DEF Opened, Arrived, Read
  <2>2. OpenLive(n)
    BY <2>1 DEF OpenLive, Streams, Shape, TableShape
  \* had the target been dialled before, the opening would not be admitted
  <2>3. started = 0 /\ started' = 1
    BY <2>1, <2>2 DEF OpeningInv, RecordsMean, EndedIsRefused
  <2>4. \/ gone.kept = "long" /\ gone'.kept = "long" /\ ~gone'.reopen
        \/ gone' = gone /\ ~gone.reopen
    BY <1>8 DEF Opened, Put, OpeningInv, RecordsMean, Shape, TableShape
  <2>5. ASSUME NEW k \in Streams, OpenLive(k)'
        PROVE  OpenLive(k) /\ k # n
    BY <2>1, <2>5 DEF OpenLive, Shape, TableShape
  <2>6. RecordsMean' /\ NeverIsRemembered'
    BY <2>1, <2>3, <2>4 DEF OpeningInv, RecordsMean, NeverIsRemembered
  <2>7. OneOpening'
    BY <2>2, <2>4, <2>5 DEF OpeningInv, OneOpening
  <2>8. EndedIsRefused'
    BY <2>1 DEF EndedIsRefused, Admit
  <2> QED BY <2>6, <2>7, <2>8 DEF OpeningInv
<1>9. ASSUME NEW n \in Streams, Dropped(n)
      PROVE  OpeningInv'
  <2>1. /\ header' = [header EXCEPT ![n] = "none"]
        /\ UNCHANGED <<on, line, flow, verdict, known, gone, started>>
    BY <1>9 DEF Dropped, Read
  <2>2. \A k \in Streams : header'[k] = "open" => header[k] = "open"
    BY <2>1 DEF Shape, TableShape
  <2> QED BY <2>1, <2>2, NoNewOpening, OpeningQuiet
\* an answer that is not "never seen"
<1>d. ASSUME NEW n \in Streams, NEW v \in {"accept", "busy", "unknown"}, Answer(n, v),
             UNCHANGED <<on, line, flow, known, gone, started>>
      PROVE  OpeningInv'
  <2>1. /\ \A k \in Streams : header'[k] = "open" => header[k] = "open"
        /\ \A k \in Streams : verdict'[k] = "never" => verdict[k] = "never"
    BY <1>d DEF Answer, Read, Shape, TableShape
  <2> QED BY <1>d, <2>1, NoNewOpening, OpeningQuiet
<1>10. ASSUME NEW n \in Streams, Attached(n)
       PROVE  OpeningInv'
  <2>1. UNCHANGED <<on, line, flow, known, gone, started>>
    BY <1>10 DEF Attached
  <2>2. \/ Answer(n, "accept") \/ Answer(n, "busy") \/ Answer(n, "unknown")
        \/ header' = [header EXCEPT ![n] = "unseen"] /\ UNCHANGED verdict
    BY <1>10 DEF Attached
  <2>3. CASE header' = [header EXCEPT ![n] = "unseen"] /\ UNCHANGED verdict
    <3>1. \A k \in Streams : header'[k] = "open" => header[k] = "open"
      BY <2>3 DEF Shape, TableShape
    <3> QED BY <2>1, <2>3, <3>1, NoNewOpening, OpeningQuiet
  <2> QED BY <2>1, <2>2, <2>3, <1>d
<1>11. ASSUME NEW n \in Streams, NeverSeen(n)
       PROVE  OpeningInv'
  <2>1. UNCHANGED <<on, line, flow, known, started>>
    BY <1>11 DEF NeverSeen
  <2>2. CASE Answer(n, "unknown") /\ UNCHANGED gone
    BY <2>1, <2>2, <1>d
  <2>3. CASE (gone.kept = "no" \/ gone.reopen) /\ Answer(n, "never") /\ Put("long", TRUE)
    <3>1. gone'.kept = "long" /\ (known = "no" => Admit)
      BY <2>3 DEF Put, Admit
    <3>2. \A k \in Streams : header'[k] = "open" => header[k] = "open"
      BY <2>3 DEF Answer, Read, Shape, TableShape
    <3>3. \A k \in Streams : OpenLive(k)' => OpenLive(k)
      BY <2>1, <3>2, NoNewOpening
    <3>4. EndedIsRefused'
      BY <2>1, <3>1, <3>3 DEF OpeningInv, EndedIsRefused, Admit
    <3> QED BY <2>1, <3>1, <3>4 DEF OpeningInv, RecordsMean, NeverIsRemembered, OneOpening
  <2> QED BY <1>11, <2>2, <2>3 DEF NeverSeen
<1>12. CASE Dialled
  <2>1. known = "dial" /\ known' = "run" /\ UNCHANGED <<on, header, verdict, line, flow, gone, started>>
    BY <1>12 DEF Dialled
  <2>2. \A k \in Streams : OpenLive(k)' <=> OpenLive(k)
    BY <2>1 DEF OpenLive
  <2> QED BY <2>1, <2>2
          DEF OpeningInv, RecordsMean, NeverIsRemembered, OneOpening, EndedIsRefused, Admit
<1>13. CASE Forget
  <2>1. /\ known # "no" /\ known' = "no" /\ UNCHANGED <<on, header, verdict, line, flow, started>>
        /\ ~gone'.reopen /\ gone'.kept = IF gone.kept = "long" THEN "long" ELSE "short"
    BY <1>13 DEF Forget, Put
  <2>2. \A k \in Streams : OpenLive(k)' <=> OpenLive(k)
    BY <2>1 DEF OpenLive
  <2>3. RecordsMean' /\ NeverIsRemembered' /\ EndedIsRefused'
    BY <2>1 DEF OpeningInv, RecordsMean, NeverIsRemembered, EndedIsRefused, Admit
  <2>4. OneOpening'
    BY <2>1, <2>2 DEF OpeningInv, OneOpening
  <2> QED BY <2>3, <2>4 DEF OpeningInv
<1>14. CASE Expires
  <2>1. /\ flow = "over" /\ gone.kept # "no" /\ gone'.kept = "no" /\ ~gone'.reopen
        /\ gone.kept = "long" => \A n \in {k \in Streams : header[k] = "open"} : line[on[n]] = "closed"
        /\ UNCHANGED <<on, header, verdict, line, flow, known, started>>
    BY <1>14 DEF Expires
  <2>2. \A k \in Streams : ~OpenLive(k)
    <3>1. CASE gone.kept = "long"
      BY <2>1, <3>1 DEF OpenLive
    <3>2. CASE gone.kept = "short"
      BY <3>2 DEF OpeningInv, RecordsMean, OneOpening
    <3> QED BY <2>1, <3>1, <3>2 DEF Shape, TableShape
  <2>3. \A k \in Streams : ~OpenLive(k)'
    BY <2>1, <2>2 DEF OpenLive
  <2> QED BY <2>1, <2>3 DEF OpeningInv, RecordsMean, NeverIsRemembered, OneOpening, EndedIsRefused
<1>15. CASE UNCHANGED flowVars
  BY <1>15, <1>b DEF flowVars
<1> QED
  BY <1>1, <1>2, <1>3, <1>4, <1>5, <1>6, <1>7, <1>8, <1>9, <1>10, <1>11, <1>12, <1>13,
     <1>14, <1>15
  DEF FlowNext

\* The target of a flow is dialled once, however many openings of it were sent
\* and whenever they get through (goneFlows, admit).
THEOREM DialledOnce == FlowSpec => []StartedOnce
<1>1. FlowInit => OpeningInv
  <2> SUFFICES ASSUME FlowInit
               PROVE  OpeningInv
    OBVIOUS
  <2>1. /\ header = [n \in Streams |-> IF n = 1 /\ ~may.seen THEN "open" ELSE "none"]
        /\ verdict = [n \in Streams |-> "none"]
        /\ gone.kept = "no" /\ ~gone.reopen
        /\ (may.seen /\ known = "run" /\ started = 1) \/ (~may.seen /\ known = "no" /\ started = 0)
    BY DEF FlowInit
  <2>2. \A n \in Streams : OpenLive(n) => n = 1 /\ ~may.seen
    BY <2>1 DEF OpenLive
  <2> QED BY <2>1, <2>2
          DEF OpeningInv, RecordsMean, NeverIsRemembered, OneOpening, EndedIsRefused, Admit
<1>2. Shape /\ OpeningInv /\ [FlowNext]_flowVars => OpeningInv'
  BY OpeningStep
<1>3. OpeningInv => StartedOnce
  BY DEF OpeningInv, RecordsMean, StartedOnce
<1> QED BY <1>1, <1>2, <1>3, ShapesAlways, PTL DEF FlowSpec
================================================================================
