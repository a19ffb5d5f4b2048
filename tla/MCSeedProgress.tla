--------------------------- MODULE MCSeedProgress ---------------------------
(* SeedProgress for TLC, with at most MaxDisturbances steps in which the     *)
(* source, the storage, a scheduler or the collector interferes.             *)
EXTENDS SeedProgress, TLC

CONSTANT MaxDisturbances  \* bound: disturbances in one behaviour

VARIABLE spent            \* disturbances so far

Symmetry == Permutations(Watchers)

MCInit == Init /\ spent = 0

MCNext ==
    \/ Routine /\ UNCHANGED spent
    \/ Disturbance /\ spent < MaxDisturbances /\ spent' = spent + 1

MCSpec == MCInit /\ [][MCNext]_<<vars, spent>>
=============================================================================
