----------------------------- MODULE MCPeerTask -----------------------------
(* PeerTask for TLC, with at most MaxDisturbances steps in which a parent,  *)
(* the source, the storage, the scheduler or the client interferes.         *)
EXTENDS PeerTask, TLC

CONSTANT MaxDisturbances  \* bound: disturbances in one behaviour

VARIABLE spent            \* disturbances so far

Symmetry == Permutations(Workers)

MCInit == Init /\ spent = 0

MCNext ==
    \/ Routine /\ UNCHANGED spent
    \/ Disturbance /\ spent < MaxDisturbances /\ spent' = spent + 1

MCSpec == MCInit /\ [][MCNext]_<<vars, spent>>

MCFairSpec == MCSpec /\ Fairness
=============================================================================
