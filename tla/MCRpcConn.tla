------------------------------ MODULE MCRpcConn ------------------------------
(* RpcConn for TLC.  What servers answer to a call is not bounded; the calls  *)
(* a behaviour begins are, and so are dials that fail, passing time,          *)
(* collections, new server lists and Close.                                   *)
EXTENDS RpcConn, TLC

CONSTANTS MaxDisturbances,  \* bound: disturbances in one behaviour
          c1, c2, k1, k2, n1, n2

VARIABLES spent, left       \* left: calls each caller may still begin

RingOrder == k1 :> <<n1, n2>> @@ k2 :> <<n2, n1>>
CallerKinds ==
    c1 :> {"register", "stream", "report"} @@ c2 :> {"seed", "leave", "target"}

\* bound: calls in one behaviour; the first of c1 is the registration
Calls == c1 :> 2 @@ c2 :> 1

MCInit == Init /\ spent = 0 /\ left = Calls /\ keyOf[c1] = k1

MCNext ==
    \/ \E c \in Callers :
         /\ left[c] > 0 /\ left' = [left EXCEPT ![c] = @ - 1]
         /\ Begins(c) /\ UNCHANGED spent
         /\ c = c1 /\ left[c] = Calls[c] => call'[c].kind = "register"
    \/ Continues /\ UNCHANGED <<spent, left>>
    \/ Tick /\ spent < MaxDisturbances /\ UNCHANGED <<spent, left>>
    \/ Disturbance /\ spent < MaxDisturbances /\ spent' = spent + 1 /\ UNCHANGED left

MCSpec == MCInit /\ [][MCNext]_<<vars, spent, left>> /\ Fairness
=============================================================================
