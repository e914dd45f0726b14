---------------------------- MODULE RetainedBytes ----------------------------
(***************************************************************************)
(* What the replay ring of a resumable flow promises, without its storage: *)
(* the payload bytes the flow has sent and the peer has not acknowledged,  *)
(* in flow order.  A byte is named by its offset from the start of the     *)
(* flow, so a byte that is lost, repeated or out of place shows.           *)
(***************************************************************************)
EXTENDS Integers, Sequences

VARIABLES first,      \* flow offset of the oldest retained byte
          retained    \* the retained bytes, oldest first

rvars == <<first, retained>>

\* The n bytes of the flow that start at offset off.
BytesFrom(off, n) == [i \in 1..n |-> off + i - 1]

RInit == first = 0 /\ retained = << >>

\* The sender retains the next n bytes of the flow.
Retain == LET n == Len(retained') - Len(retained)
          IN  /\ n >= 0
              /\ retained' = retained \o BytesFrom(first + Len(retained), n)
              /\ first' = first

\* The peer has acknowledged the n oldest bytes, or replay was given up
\* and everything is forgotten.
Forget == LET n == first' - first
          IN  /\ n \in 0..Len(retained)
              /\ retained' = SubSeq(retained, n + 1, Len(retained))

RNext == Retain \/ Forget

RSpec == RInit /\ [][RNext]_rvars
==============================================================================
