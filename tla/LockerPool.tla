----------------------------- MODULE LockerPool -----------------------------
(***************************************************************************)
(* pkg/synclock: a pool of reader/writer locks, one per key that is in     *)
(* use.  Lock(key, rLock) finds or creates the key's counted mutex under   *)
(* the pool's own mutex, counts the caller in, and only then, outside the  *)
(* pool's mutex, blocks on the counted mutex.  UnLock looks the mutex up   *)
(* again by key, unlocks it, and hands it back to the sync.Pool for ANY    *)
(* key when the last caller has left.  What can go wrong lies between the  *)
(* two halves of Lock: the mutex a caller is about to block on must not be *)
(* recycled, and the mutex UnLock finds must be the one that was locked.   *)
(***************************************************************************)
EXTENDS Integers, FiniteSets, GoRWMutex

CONSTANTS Threads,  \* goroutines that use the pool
          Keys,     \* lock keys (task IDs)
          Lockers,  \* countRWMutex objects the sync.Pool can hand out
          NoKey, NoLocker

ASSUME ThreadsFinite == IsFiniteSet(Threads)
ASSUME NullsDistinct == NoKey \notin Keys /\ NoLocker \notin Lockers

VARIABLES lockerMap,  \* lockerMap[k]: the locker in the map under k, or NoLocker
          syncPool,   \* lockers not handed out (cached, or not yet allocated)
          count,      \* count[l]: the locker's reference count
          rw,         \* rw[l]: the embedded sync.RWMutex
          call        \* call[t]: the Lock..UnLock pair goroutine t is in

vars == <<lockerMap, syncPool, count, rw, call>>

-----------------------------------------------------------------------------
Stages == {"idle",     \* between two uses of the pool
           "counted",  \* left the pool's critical section, before locker.lock
           "parked",   \* reader blocked behind a writer
           "pending",  \* writer announced, waiting for the readers inside
           "holding"}  \* Lock returned, UnLock not yet called

Calls == [stage : Stages, key : Keys \cup {NoKey}, rLock : BOOLEAN,
          locker : Lockers \cup {NoLocker}]

NoCall == [stage |-> "idle", key |-> NoKey, rLock |-> FALSE, locker |-> NoLocker]

\* No goroutine ever unlocks an unlocked mutex ("broken" is not in RWMutexes),
\* which Go turns into a fatal error: the locker UnLock finds under the key is
\* always one that its caller's mode allows to unlock.
TypeOK ==
    /\ lockerMap \in [Keys -> Lockers \cup {NoLocker}]
    /\ syncPool \subseteq Lockers
    /\ count \in [Lockers -> Int]
    /\ rw \in [Lockers -> RWMutexes]
    /\ call \in [Threads -> Calls]

Init ==
    /\ lockerMap = [k \in Keys |-> NoLocker]
    /\ syncPool = Lockers
    /\ count = [l \in Lockers |-> 0]
    /\ rw = [l \in Lockers |-> Unlocked]
    /\ call = [t \in Threads |-> NoCall]

-----------------------------------------------------------------------------
\* Readers blocked behind a writer of locker l.
Parked(l) == {t \in Threads : call[t].stage = "parked" /\ call[t].locker = l}

\* The map's locker for the key, or any locker the sync.Pool may return.
LockerFor(k) == IF lockerMap[k] = NoLocker THEN syncPool ELSE {lockerMap[k]}

\* Lock, the part under l.mutex: get or create the key's locker, count in.
Lock(t, k, r) ==
    /\ call[t].stage = "idle"
    /\ \E l \in LockerFor(k) :
        /\ lockerMap' = [lockerMap EXCEPT ![k] = l]
        /\ syncPool' = syncPool \ {l}
        /\ count' = [count EXCEPT ![l] = @ + 1]
        /\ call' = [call EXCEPT ![t] = [stage |-> "counted", key |-> k,
                                        rLock |-> r, locker |-> l]]
    /\ UNCHANGED rw

\* locker.lock(true), outside l.mutex: admitted, or parked behind a writer.
RLockLocker(t) ==
    LET l == call[t].locker IN
    /\ call[t].stage = "counted" /\ call[t].rLock
    /\ \/ /\ AdmitsReader(rw[l])
          /\ rw' = [rw EXCEPT ![l] = AddReaders(@, 1)]
          /\ call' = [call EXCEPT ![t].stage = "holding"]
       \/ /\ ~AdmitsReader(rw[l])
          /\ call' = [call EXCEPT ![t].stage = "parked"]
          /\ UNCHANGED rw
    /\ UNCHANGED <<lockerMap, syncPool, count>>

\* locker.lock(false), first half: exclude the other writers and new readers.
AnnounceWriter(t) ==
    LET l == call[t].locker IN
    /\ call[t].stage = "counted" /\ ~call[t].rLock
    /\ CanAnnounce(rw[l])
    /\ rw' = [rw EXCEPT ![l] = Announce(@)]
    /\ call' = [call EXCEPT ![t].stage = "pending"]
    /\ UNCHANGED <<lockerMap, syncPool, count>>

\* locker.lock(false), second half: the last reader has left.
EnterWriter(t) ==
    LET l == call[t].locker IN
    /\ call[t].stage = "pending"
    /\ CanEnter(rw[l])
    /\ rw' = [rw EXCEPT ![l] = Enter(@)]
    /\ call' = [call EXCEPT ![t].stage = "holding"]
    /\ UNCHANGED <<lockerMap, syncPool, count>>

\* The calls after goroutine t left; admitted are the parked readers let in.
AfterUnLock(t, admitted) ==
    [u \in Threads |-> IF u = t THEN NoCall
                       ELSE IF u \in admitted THEN [call[u] EXCEPT !.stage = "holding"]
                       ELSE call[u]]

\* Slip: recycle on every UnLock, as pkg/sync/krwmutex.go deletes on every one.
LastUser_always(l) == TRUE

\* dec() <= 0
LastUser(l) == count[l] - 1 <= 0

\* UnLock, wholly under l.mutex: unlock the locker found under the KEY, count
\* out, and recycle the locker when nobody is counted in any more.
UnLock(t) ==
    LET k == call[t].key
        l == lockerMap[k]
        admitted == IF call[t].rLock THEN {} ELSE Parked(l)
    IN
    /\ call[t].stage = "holding"
    /\ IF l = NoLocker
       THEN /\ call' = [call EXCEPT ![t] = NoCall]
            /\ UNCHANGED <<lockerMap, syncPool, count, rw>>
       ELSE /\ rw' = [rw EXCEPT ![l] = IF call[t].rLock THEN RUnlock(@)
                                       ELSE Unlock(@, Cardinality(admitted))]
            /\ call' = AfterUnLock(t, admitted)
            /\ \/ /\ LastUser(l)
                  /\ count' = [count EXCEPT ![l] = 0]
                  /\ syncPool' = syncPool \cup {l}
                  /\ lockerMap' = [lockerMap EXCEPT ![k] = NoLocker]
               \/ /\ ~LastUser(l)
                  /\ count' = [count EXCEPT ![l] = @ - 1]
                  /\ UNCHANGED <<lockerMap, syncPool>>

Next ==
    \E t \in Threads :
        \/ \E k \in Keys, r \in BOOLEAN : Lock(t, k, r)
        \/ RLockLocker(t)
        \/ AnnounceWriter(t)
        \/ EnterWriter(t)
        \/ UnLock(t)

(***************************************************************************)
(* Fairness: goroutines inside a call are scheduled and holders release.   *)
(* Announcing takes the RWMutex's inner sync.Mutex, which Go hands over in *)
(* FIFO order to a waiter that starved for 1ms: strong fairness.           *)
(***************************************************************************)
Fairness ==
    \A t \in Threads :
        /\ WF_vars(RLockLocker(t))
        /\ SF_vars(AnnounceWriter(t))
        /\ WF_vars(EnterWriter(t))
        /\ WF_vars(UnLock(t))

Spec == Init /\ [][Next]_vars

FairSpec == Spec /\ Fairness

-----------------------------------------------------------------------------
\* Goroutines between the pool's critical section of Lock and UnLock on key k.
Users(k) == {t \in Threads : call[t].stage # "idle" /\ call[t].key = k}

Holding(t) == call[t].stage = "holding"

\* The point of the pool: two goroutines are inside the same key's section
\* together only if both are readers, although UnLock drops and recycles
\* mutexes while other goroutines are between the two halves of Lock.
MutualExclusion ==
    \A t, u \in Threads :
        (t # u /\ Holding(t) /\ Holding(u) /\ call[t].key = call[u].key)
            => (call[t].rLock /\ call[u].rLock)

\* The count under a key is the number of goroutines that still need the
\* locker, so the map entry exists exactly while somebody does: no locker is
\* recycled too early and none is leaked.
CountIsUsers ==
    \A k \in Keys :
        IF lockerMap[k] = NoLocker
        THEN Users(k) = {}
        ELSE Users(k) # {} /\ count[lockerMap[k]] = Cardinality(Users(k))

\* A locker in the sync.Pool is unlocked, unreferenced and counts from zero:
\* the next key that draws it starts with a clean lock.
PooledIsClean ==
    \A l \in syncPool :
        /\ rw[l] = Unlocked
        /\ count[l] = 0
        /\ \A t \in Threads : call[t].locker # l

\* Under fair scheduling a goroutine that called Lock gets the lock.
EventuallyLocked ==
    \A t \in Threads : (call[t].stage = "counted") ~> (call[t].stage = "holding")

-----------------------------------------------------------------------------
\* A goroutine that is counted, parked or pending waits.
LockStatus ==
    [t \in Threads |-> IF call[t].stage \in {"idle", "holding"} THEN call[t].stage
                                                               ELSE "waiting"]

\* The pool seen as a keyed reader/writer lock.
Abstract == INSTANCE KeyedRWLock WITH
    status <- LockStatus,
    key <- [t \in Threads |-> call[t].key],
    reader <- [t \in Threads |-> call[t].rLock]

\* Every step of the pool, seen through the mapping, is a step the keyed
\* reader/writer lock allows; in particular readers enter on a writer's
\* UnLock only if that writer was the last conflicting holder.
ImplementsKeyedRWLock == Abstract!Spec
=============================================================================
