--------------------------- MODULE MCSchedulerCore ---------------------------
(***************************************************************************)
(* SchedulerCore for TLC.  A behaviour has at most MaxDisturbances steps   *)
(* in which something is lost, fails, leaves or times out; routine steps   *)
(* are not bounded.  Hosts are as many as peers, so that a full host is a  *)
(* full peer; clients are interchangeable.                                 *)
(***************************************************************************)
EXTENDS SchedulerCore, TLC

CONSTANT MaxDisturbances  \* bound: disturbances in one behaviour

VARIABLE spent            \* disturbances so far

\* Every peer on a host of its own.
OwnHost == [p \in Peers |-> p]

Symmetry == Permutations(Clients)

MCInit == Init /\ spent = 0

MCNext ==
    /\ Alive
    /\ \/ Routine /\ UNCHANGED spent
       \/ spent < MaxDisturbances /\ spent' = spent + 1 /\ Disturbance

MCSpec == MCInit /\ [][MCNext]_<<vars, spent>>

MCFairSpec == MCSpec /\ Fairness
=============================================================================
