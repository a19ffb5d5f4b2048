-------------------------- MODULE MCClientStorage --------------------------
(* ClientStorage for TLC, with at most MaxDisturbances crashes, clean-ups,  *)
(* abandoned downloads, failed creations and failed removals.               *)
EXTENDS ClientStorage

CONSTANT MaxDisturbances  \* bound: disturbances in one behaviour

VARIABLE spent            \* disturbances so far

Symmetry == Permutations(Peers)

MCInit == Init /\ spent = 0

MCNext ==
    \/ Routine /\ UNCHANGED spent
    \/ Disturbance /\ spent < MaxDisturbances /\ spent' = spent + 1

MCSpec == MCInit /\ [][MCNext]_<<vars, spent>>
=============================================================================
