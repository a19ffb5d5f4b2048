------------------------------ MODULE Krwmutex ------------------------------
(***************************************************************************)
(* pkg/sync/krwmutex.go: the keyed reader/writer mutex GetOrAddTask of the *)
(* scheduler takes per task ID.  Unlike pkg/synclock it has neither a lock *)
(* of its own nor a reference count: Lock is a LoadOrStore on a sync.Map   *)
(* followed by a lock of what it found, and every Unlock loads whatever    *)
(* mutex is now under the key, deletes the entry, and unlocks that mutex.  *)
(* Each of these is a step of its own, interleaved with other goroutines.  *)
(***************************************************************************)
EXTENDS Integers, FiniteSets, GoRWMutex

CONSTANTS Threads,  \* goroutines inside GetOrAddTask
          Keys,     \* task IDs
          Mutexes,  \* bound: sync.RWMutex objects alive at a time
          NoKey, NoMutex

VARIABLES m,      \* m[k]: the mutex in the sync.Map under k, or NoMutex
          rw,     \* rw[x]: state of mutex x
          call,   \* call[t]: the pair of calls goroutine t is in
          fatal   \* Go's runtime stopped the process: unlock of an unlocked mutex

vars == <<m, rw, call, fatal>>

Stages == {"idle", "loaded", "parked", "pending", "holding", "found", "deleted"}

Calls == [stage : Stages, key : Keys \cup {NoKey}, reader : BOOLEAN,
          mu : Mutexes \cup {NoMutex}]
NoCall == [stage |-> "idle", key |-> NoKey, reader |-> FALSE, mu |-> NoMutex]

TypeOK ==
    /\ m \in [Keys -> Mutexes \cup {NoMutex}]
    /\ rw \in [Mutexes -> RWMutexes]
    /\ call \in [Threads -> Calls]
    /\ fatal \in BOOLEAN

Init ==
    /\ m = [k \in Keys |-> NoMutex]
    /\ rw = [x \in Mutexes |-> Unlocked]
    /\ call = [t \in Threads |-> NoCall]
    /\ fatal = FALSE

-----------------------------------------------------------------------------
\* A mutex nobody refers to is garbage; a new one is drawn from these.
Fresh == {x \in Mutexes : /\ \A k \in Keys : m[k] # x
                          /\ \A t \in Threads : call[t].mu # x}

Set(t, stage) == call' = [call EXCEPT ![t].stage = stage]

\* Lock and RLock, first half.
LoadOrStore(t, k, reader) ==
    /\ call[t].stage = "idle"
    /\ \E x \in IF m[k] = NoMutex THEN Fresh ELSE {m[k]} :
          /\ m' = [m EXCEPT ![k] = x]
          /\ rw' = IF m[k] = NoMutex THEN [rw EXCEPT ![x] = Unlocked] ELSE rw
          /\ call' = [call EXCEPT ![t] = [stage |-> "loaded", key |-> k,
                                          reader |-> reader, mu |-> x]]
    /\ UNCHANGED fatal

\* RLock, second half: admitted, or parked behind a writer.
RLock(t) ==
    LET x == call[t].mu IN
    /\ call[t].stage = "loaded" /\ call[t].reader
    /\ \/ /\ AdmitsReader(rw[x])
          /\ rw' = [rw EXCEPT ![x] = AddReaders(@, 1)]
          /\ Set(t, "holding")
       \/ /\ ~AdmitsReader(rw[x])
          /\ Set(t, "parked")
          /\ UNCHANGED rw
    /\ UNCHANGED <<m, fatal>>

\* Lock, second half, in the two steps of a Go writer.
AnnounceWriter(t) ==
    LET x == call[t].mu IN
    /\ call[t].stage = "loaded" /\ ~call[t].reader
    /\ CanAnnounce(rw[x])
    /\ rw' = [rw EXCEPT ![x] = Announce(@)]
    /\ Set(t, "pending")
    /\ UNCHANGED <<m, fatal>>

EnterWriter(t) ==
    LET x == call[t].mu IN
    /\ call[t].stage = "pending"
    /\ CanEnter(rw[x])
    /\ rw' = [rw EXCEPT ![x] = Enter(@)]
    /\ Set(t, "holding")
    /\ UNCHANGED <<m, fatal>>

\* Unlock and RUnlock: load by key; without an entry they just return.
Load(t) ==
    LET x == m[call[t].key] IN
    /\ call[t].stage = "holding"
    /\ call' = [call EXCEPT ![t] = IF x = NoMutex THEN NoCall
                                   ELSE [@ EXCEPT !.stage = "found", !.mu = x]]
    /\ UNCHANGED <<m, rw, fatal>>

Delete(t) ==
    /\ call[t].stage = "found"
    /\ m' = [m EXCEPT ![call[t].key] = NoMutex]
    /\ Set(t, "deleted")
    /\ UNCHANGED <<rw, fatal>>

Parked(x) == {u \in Threads : call[u].stage = "parked" /\ call[u].mu = x}

UnlockFound(t) ==
    LET x == call[t].mu
        admitted == IF call[t].reader THEN {} ELSE Parked(x)
        after == IF call[t].reader THEN RUnlock(rw[x])
                                   ELSE Unlock(rw[x], Cardinality(admitted))
    IN
    /\ call[t].stage = "deleted"
    /\ \/ /\ after.writer = "broken"
          /\ fatal' = TRUE
          /\ UNCHANGED <<rw, call>>
       \/ /\ after.writer # "broken"
          /\ rw' = [rw EXCEPT ![x] = after]
          /\ call' = [u \in Threads |->
                        IF u = t THEN NoCall
                        ELSE IF u \in admitted THEN [call[u] EXCEPT !.stage = "holding"]
                        ELSE call[u]]
          /\ UNCHANGED fatal
    /\ UNCHANGED m

Step(t) ==
    /\ ~fatal
    /\ \/ RLock(t) \/ AnnounceWriter(t) \/ EnterWriter(t)
       \/ Load(t) \/ Delete(t) \/ UnlockFound(t)

Next ==
    \E t \in Threads :
        \/ ~fatal /\ \E k \in Keys, reader \in BOOLEAN : LoadOrStore(t, k, reader)
        \/ Step(t)

\* Goroutines inside a call keep running and holders release; a writer that can
\* announce again and again does (Go hands a starved mutex over in FIFO order).
FairSpec == Init /\ [][Next]_vars /\ \A t \in Threads : SF_vars(Step(t))

-----------------------------------------------------------------------------
\* pkg/sync/krwmutex_test.go waits for the second Lock of a key after the first
\* was unlocked and fails with "bar and baz are not unlocked" if it does not
\* return: whoever asks for a key gets it once its holders have released it.
\* It may not: whichever holder unlocks first deletes the entry, the next one
\* finds none and returns without unlocking, and who waits on that mutex waits
\* for ever.  (A fatal error of the runtime is not counted here.)
EventuallyLocked ==
    \A t \in Threads :
        (call[t].stage = "loaded") ~> (call[t].stage = "holding" \/ fatal)
=============================================================================
