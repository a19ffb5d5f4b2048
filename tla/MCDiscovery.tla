----------------------------- MODULE MCDiscovery -----------------------------
(* Discovery for TLC: at most MaxDisturbances starts, stops and breaks.      *)
EXTENDS Discovery, TLC

CONSTANT MaxDisturbances  \* bound: disturbances in one behaviour

VARIABLE spent

MCInit == Init /\ spent = 0

MCNext ==
    \/ Routine /\ UNCHANGED spent
    \/ Disturbance /\ spent < MaxDisturbances /\ spent' = spent + 1

MCSpec == MCInit /\ [][MCNext]_<<vars, spent>> /\ Fairness
=============================================================================
