--------------------------- MODULE SessionPoolProofs ---------------------------
(***************************************************************************)
(* The rotation of the wsmux session pool for any finite number of          *)
(* sessions and any bounds: the gate and the replacement that pays once.    *)
(***************************************************************************)
EXTENDS SessionPool, FiniteSetTheorems, TLAPS

\* The number of dials a tick of poolMaintainer starts is a number.
LEMMA RefillTyped == TypeOK => RefillCount \in Nat
<1> SUFFICES ASSUME TypeOK
             PROVE  RefillCount \in Nat
  OBVIOUS
<1>1. IsFiniteSet(open)
  BY PoolAssumption, FS_Subset DEF TypeOK
<1>2. Cardinality(open) \in Nat
  BY <1>1, FS_CardinalityType
<1> QED BY <1>2, PoolAssumption DEF RefillCount, Deficit, TypeOK

\* Type correctness of the pool, of its requests and of the client's dials; the
\* bounds that stand for channel capacities are kept.
THEOREM PoolTyped == Spec => []TypeOK
<1> USE PoolAssumption
<1>1. Init => TypeOK
  BY DEF Init, TypeOK
<1>2. TypeOK /\ [Next]_vars => TypeOK'
  <2> SUFFICES ASSUME TypeOK, [Next]_vars
               PROVE  TypeOK'
    OBVIOUS
  <2> USE DEF TypeOK, serverVars, signalVars, clientVars
  <2>1. ASSUME NEW x \in Sessions, Admit(x) \/ Settle(x) \/ RotateAge(x)
        PROVE  TypeOK'
    BY <2>1 DEF Admit, Settle, RotateAge
  <2>2. ASSUME NEW x \in Sessions, AwaitReplacement(x) \/ Reask(x)
        PROVE  TypeOK'
    BY <2>2 DEF AwaitReplacement, DecideWhen, Reask, Ask, Eligible
  <2>3. ASSUME NEW x \in Sessions, NEW y \in Sessions, RetireIfReplaced(x, y)
        PROVE  TypeOK'
    BY <2>3 DEF RetireIfReplaced, RetireFor
  <2>4. ASSUME NEW x \in Sessions, Drained(x) \/ RotationOver(x)
        PROVE  TypeOK'
    BY <2>4 DEF Drained, RotationOver, EndRotation
  <2>5. ASSUME NEW x \in Sessions, DialSucceeds(x)
        PROVE  TypeOK'
    <3>1. /\ dialing > 0 /\ dialing' = dialing - 1
          /\ paid' = [paid EXCEPT ![x] = 0] /\ seen' = seen \ {x}
          /\ UNCHANGED <<rotation, gate, signalVars, size, tokens, faults>>
      BY <2>5 DEF DialSucceeds
    <3>2. /\ place' = place \/ place' = [place EXCEPT ![x] = "queued"]
          /\ open' = open \/ open' = open \cup {x}
      BY <2>5 DEF DialSucceeds
    <3> QED BY <3>1, <3>2
  <2>6. ASSUME NEW x \in Sessions, SessionDies(x)
        PROVE  TypeOK'
    BY <2>6 DEF SessionDies
  <2>7. CASE TakeRequest \/ ControlDies \/ ControlReturns
    BY <2>7 DEF TakeRequest, ControlDies, ControlReturns
  <2>8. CASE Refill
    BY <2>8, RefillTyped DEF Refill, StartDial
  <2>9. CASE OnChanSignal \/ Grow \/ Shrink \/ DialFails
    BY <2>9 DEF OnChanSignal, StartDial, Grow, Shrink, DialFails
  <2>10. CASE UNCHANGED vars
    BY <2>10 DEF vars
  <2> QED
    BY <2>1, <2>2, <2>3, <2>4, <2>5, <2>6, <2>7, <2>8, <2>9, <2>10 DEF Next
<1> QED BY <1>1, <1>2, PTL DEF Spec

-----------------------------------------------------------------------------
(* The inductive invariant. *)

\* A session that is still queued has no rotation and has replaced nobody.
QueuedIsNew ==
    \A x \in Sessions : place[x] = "queued" => rotation[x] = "none" /\ paid[x] = 0

\* Whoever has been a replacement and is still eligible was there before the
\* rotation that is deciding now.
PayersSeen ==
    gate # NoSession => \A y \in Eligible : paid[y] > 0 => y \in seen

RotationInv == GateHeldByTheWaiting /\ QueuedIsNew /\ PayersSeen /\ EachReplacementPaysOnce

\* A step that leaves the registry and the rotations alone.
LEMMA RotationAside ==
    ASSUME RotationInv, UNCHANGED serverVars
    PROVE  RotationInv'
BY DEF serverVars, RotationInv, GateHeldByTheWaiting, QueuedIsNew, PayersSeen,
       EachReplacementPaysOnce, Eligible

\* Every step of the server, the client and the network keeps the gate with the
\* one rotation that decides, and its snapshot above every earlier replacement.
LEMMA RotationStep ==
    ASSUME TypeOK, RotationInv, [Next]_vars
    PROVE  RotationInv'
<1> USE PoolAssumption DEF RotationInv, TypeOK
<1>1. ASSUME NEW x \in Sessions, Admit(x)
      PROVE  RotationInv'
  BY <1>1 DEF Admit, GateHeldByTheWaiting, QueuedIsNew, PayersSeen, EachReplacementPaysOnce,
              Eligible
<1>2. ASSUME NEW x \in Sessions, Settle(x)
      PROVE  RotationInv'
  BY <1>2 DEF Settle, GateHeldByTheWaiting, QueuedIsNew, PayersSeen, EachReplacementPaysOnce,
              Eligible
<1>3. ASSUME NEW x \in Sessions, RotateAge(x) \/ Drained(x)
      PROVE  RotationInv'
  BY <1>3 DEF RotateAge, Drained, GateHeldByTheWaiting, QueuedIsNew, PayersSeen,
              EachReplacementPaysOnce, Eligible
<1>4. ASSUME NEW x \in Sessions, AwaitReplacement(x)
      PROVE  RotationInv'
  <2>1. /\ gate = NoSession /\ gate' = x /\ rotation[x] = "gate"
        /\ rotation' = [rotation EXCEPT ![x] = "wait"]
        /\ seen' = Eligible /\ UNCHANGED <<place, paid>>
    BY <1>4 DEF AwaitReplacement, DecideWhen
  <2>2. GateHeldByTheWaiting'
    BY <2>1 DEF GateHeldByTheWaiting
  <2>3. QueuedIsNew' /\ EachReplacementPaysOnce'
    BY <2>1 DEF QueuedIsNew, EachReplacementPaysOnce
  <2>4. PayersSeen'
    BY <2>1 DEF PayersSeen, Eligible
  <2> QED BY <2>2, <2>3, <2>4
<1>5. ASSUME NEW x \in Sessions, Reask(x)
      PROVE  RotationInv'
  BY <1>5, RotationAside DEF Reask
<1>6. ASSUME NEW x \in Sessions, NEW y \in Sessions, RetireIfReplaced(x, y)
      PROVE  RotationInv'
  <2>1. /\ rotation[x] = "wait" /\ y \in Eligible /\ y # x /\ y \notin seen
        /\ place' = [place EXCEPT ![x] = IF @ = "pool" THEN "retired" ELSE @]
        /\ rotation' = [rotation EXCEPT ![x] = "drain"]
        /\ gate' = NoSession
        /\ paid' = [paid EXCEPT ![y] = IF @ < 2 THEN @ + 1 ELSE @]
    BY <1>6 DEF RetireIfReplaced, RetireFor
  <2>2. gate = x
    BY <2>1 DEF GateHeldByTheWaiting
  \* the successor is newer than the snapshot, so it has paid for nobody
  <2>3. paid[y] = 0
    BY <2>1, <2>2 DEF PayersSeen
  <2>4. EachReplacementPaysOnce'
    BY <2>1, <2>3 DEF EachReplacementPaysOnce
  <2>5. GateHeldByTheWaiting'
    BY <2>1, <2>2 DEF GateHeldByTheWaiting
  <2>6. QueuedIsNew'
    BY <2>1 DEF QueuedIsNew, Eligible
  <2>7. PayersSeen'
    BY <2>1 DEF PayersSeen
  <2> QED BY <2>4, <2>5, <2>6, <2>7
<1>7. ASSUME NEW x \in Sessions, RotationOver(x)
      PROVE  RotationInv'
  <2>1. /\ rotation' = [rotation EXCEPT ![x] = "none"] /\ UNCHANGED <<place, paid>>
        /\ \/ gate = x /\ gate' = NoSession
           \/ gate # x /\ UNCHANGED <<gate, seen>>
    BY <1>7 DEF RotationOver, EndRotation
  <2>2. GateHeldByTheWaiting'
    BY <2>1 DEF GateHeldByTheWaiting
  <2>3. QueuedIsNew' /\ PayersSeen' /\ EachReplacementPaysOnce'
    BY <2>1 DEF QueuedIsNew, PayersSeen, EachReplacementPaysOnce, Eligible
  <2> QED BY <2>2, <2>3
<1>8. ASSUME NEW x \in Sessions, DialSucceeds(x)
      PROVE  RotationInv'
  <2>1. /\ place[x] = "none" /\ rotation[x] = "none"
        /\ paid' = [paid EXCEPT ![x] = 0]
        /\ seen' = seen \ {x}
        /\ place' = place \/ place' = [place EXCEPT ![x] = "queued"]
        /\ UNCHANGED <<rotation, gate>>
    BY <1>8 DEF DialSucceeds, Free
  <2>2. GateHeldByTheWaiting' /\ QueuedIsNew' /\ EachReplacementPaysOnce'
    BY <2>1 DEF GateHeldByTheWaiting, QueuedIsNew, EachReplacementPaysOnce
  <2>3. Eligible' = Eligible /\ x \notin Eligible
    BY <2>1 DEF Eligible
  <2>4. PayersSeen'
    BY <2>1, <2>3 DEF PayersSeen, Eligible
  <2> QED BY <2>2, <2>4
<1>9. ASSUME NEW x \in Sessions, SessionDies(x)
      PROVE  RotationInv'
  BY <1>9, RotationAside DEF SessionDies
<1>10. CASE \/ TakeRequest \/ ControlDies \/ ControlReturns
            \/ OnChanSignal \/ Refill \/ Grow \/ Shrink \/ DialFails
  BY <1>10, RotationAside
  DEF TakeRequest, ControlDies, ControlReturns, OnChanSignal, Refill, Grow, Shrink, DialFails
<1>11. CASE UNCHANGED vars
  BY <1>11, RotationAside DEF vars
<1> QED
  BY <1>1, <1>2, <1>3, <1>4, <1>5, <1>6, <1>7, <1>8, <1>9, <1>10, <1>11 DEF Next

LEMMA RotationAlways == Spec => []RotationInv
<1>1. Init => RotationInv
  BY PoolAssumption
  DEF Init, RotationInv, GateHeldByTheWaiting, QueuedIsNew, PayersSeen, EachReplacementPaysOnce
<1>2. TypeOK /\ RotationInv /\ [Next]_vars => RotationInv'
  BY RotationStep
<1> QED BY <1>1, <1>2, PoolTyped, PTL DEF Spec

\* The gate of awaitReplacement is held by the rotation that waits and by no
\* other, so that a session that dies while it waits leaves nobody queued.
THEOREM GateNotLost == Spec => []GateHeldByTheWaiting
BY RotationAlways, PTL DEF RotationInv

\* No new connection is taken for the replacement of two sessions
\* (retireIfReplaced), however many rotations fire together.
THEOREM PaysOnce == Spec => []EachReplacementPaysOnce
BY RotationAlways, PTL DEF RotationInv
===============================================================================
