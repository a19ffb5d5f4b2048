----------------------------- MODULE MCCDNStore -----------------------------
(* CDNStore for TLC, with at most MaxDisturbances failures and at most      *)
(* MaxTriggers downloads in one behaviour.                                  *)
EXTENDS CDNStore

CONSTANTS MaxDisturbances,  \* bound: disturbances in one behaviour
          MaxTriggers       \* bound: trigger goroutines in one behaviour

VARIABLES spent, started

MCInit == Init /\ spent = 0 /\ started = 0

MCNext ==
    \/ /\ Routine /\ UNCHANGED spent
       /\ started' = IF pending' > pending THEN started + 1 ELSE started
       /\ started' <= MaxTriggers
    \/ Disturbance /\ spent < MaxDisturbances /\ spent' = spent + 1 /\ UNCHANGED started

MCSpec == MCInit /\ [][MCNext]_<<vars, spent, started>>
=============================================================================
