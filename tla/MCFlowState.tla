---------------------------- MODULE MCFlowState ----------------------------
(***************************************************************************)
(* What is kept of a resumable flow, for TLC: the ring of its bytes, or    *)
(* the tables it is found by.  Neither looks at the other.                 *)
(***************************************************************************)
EXTENDS ReplayRing, FlowTable

VARIABLE part  \* "ring" or "table", the one that is explored

KeptInit == part \in {"ring", "table"} /\ Init /\ FlowInit

KeptNext ==
    \/ part = "ring" /\ Next /\ UNCHANGED <<part, flowVars>>
    \/ part = "table" /\ FlowNext /\ UNCHANGED <<part, vars>>

KeptSpec == KeptInit /\ [][KeptNext]_<<part, vars, flowVars>>

\* A flow whose opening is held up, with a session that stops getting through or
\* is cut; and one that runs while two sessions are retired.
HeldUpOrRetired == {[seen |-> FALSE, rotations |-> 0, stalls |-> 1],
                    [seen |-> TRUE, rotations |-> 2, stalls |-> 0]}
=============================================================================
