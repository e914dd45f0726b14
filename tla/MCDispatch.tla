------------------------------ MODULE MCDispatch ------------------------------
(* Dispatch for TLC: the edges of the sessions. *)
EXTENDS Dispatch

TwoEdges == [x \in Sessions |-> IF x = 2 THEN "edge2" ELSE "edge1"]
=============================================================================
