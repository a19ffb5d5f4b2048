---------------------------- MODULE KeyedRWLock ----------------------------
(***************************************************************************)
(* What a keyed reader/writer lock promises, whatever it is made of: every *)
(* goroutine is idle, waits for a key in a mode, or holds it, and a key is *)
(* granted only when nobody holds it in a conflicting mode.  Readers that  *)
(* wait behind a writer may be let in together with that writer's release. *)
(***************************************************************************)
CONSTANTS Threads, Keys, NoKey

VARIABLES status,  \* "idle", "waiting" or "holding"
          key,     \* the key asked for or held, NoKey when idle
          reader   \* TRUE when asked for or held in reader mode

vars == <<status, key, reader>>

Init ==
    /\ status = [t \in Threads |-> "idle"]
    /\ key = [t \in Threads |-> NoKey]
    /\ reader = [t \in Threads |-> FALSE]

Holders(k) == {t \in Threads : status[t] = "holding" /\ key[t] = k}

WaitingReaders(k) ==
    {t \in Threads : status[t] = "waiting" /\ key[t] = k /\ reader[t]}

Request(t, k, r) ==
    /\ status[t] = "idle"
    /\ status' = [status EXCEPT ![t] = "waiting"]
    /\ key' = [key EXCEPT ![t] = k]
    /\ reader' = [reader EXCEPT ![t] = r]

Grant(t) ==
    /\ status[t] = "waiting"
    /\ \A u \in Holders(key[t]) : reader[t] /\ reader[u]
    /\ status' = [status EXCEPT ![t] = "holding"]
    /\ UNCHANGED <<key, reader>>

\* Release, letting in the readers in S; only a writer holds S up.
Release(t, S) ==
    /\ status[t] = "holding"
    /\ S # {} => ~reader[t]
    /\ status' = [u \in Threads |-> IF u = t THEN "idle"
                                    ELSE IF u \in S THEN "holding" ELSE status[u]]
    /\ key' = [key EXCEPT ![t] = NoKey]
    /\ reader' = [reader EXCEPT ![t] = FALSE]

Next ==
    \E t \in Threads :
        \/ \E k \in Keys, r \in BOOLEAN : Request(t, k, r)
        \/ Grant(t)
        \/ \E S \in SUBSET WaitingReaders(key[t]) : Release(t, S)

Spec == Init /\ [][Next]_vars
=============================================================================
