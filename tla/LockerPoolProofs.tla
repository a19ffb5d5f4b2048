-------------------------- MODULE LockerPoolProofs --------------------------
(***************************************************************************)
(* The pool of keyed locks excludes conflicting holders for any number of  *)
(* goroutines, keys and recyclable lockers.  Neither TypeOK nor            *)
(* MutualExclusion is inductive: both need that a goroutine inside the     *)
(* pool refers to the locker the map has under its key, which needs the    *)
(* reference count to be exact, and that a mutex's counters describe the   *)
(* goroutines that refer to it.                                            *)
(***************************************************************************)
EXTENDS LockerPool, FiniteSetTheorems, TLAPS

ReadersIn(l) ==
    {t \in Threads : call[t].stage = "holding" /\ call[t].rLock = TRUE
                                               /\ call[t].locker = l}

WritersOn(l) ==
    {t \in Threads : call[t].stage \in {"pending", "holding"}
                       /\ call[t].rLock = FALSE /\ call[t].locker = l}

\* A call refers to the locker the map has under its key.
CallShape ==
    \A t \in Threads :
        \/ call[t] = NoCall
        \/ /\ call[t].stage # "idle"
           /\ call[t].key \in Keys /\ call[t].locker \in Lockers
           /\ lockerMap[call[t].key] = call[t].locker
           /\ call[t].stage = "parked" => call[t].rLock = TRUE
           /\ call[t].stage = "pending" => call[t].rLock = FALSE

\* Distinct keys have distinct lockers, and none of them is in the pool.
MapShape ==
    \A k \in Keys :
        lockerMap[k] # NoLocker =>
            /\ lockerMap[k] \notin syncPool
            /\ \A j \in Keys : lockerMap[j] = lockerMap[k] => j = k

\* The counters of a mutex describe the goroutines that refer to it.
ReadersCounted == \A l \in Lockers : rw[l].readers = Cardinality(ReadersIn(l))

WriterKnownAt(l) ==
    /\ rw[l].writer # "free" => WritersOn(l) # {}
    /\ rw[l].writer = "held" => rw[l].readers = 0
    /\ \A t, u \in WritersOn(l) : t = u
    /\ \A t \in WritersOn(l) :
          rw[l].writer = IF call[t].stage = "pending" THEN "pending" ELSE "held"

WriterKnown == \A l \in Lockers : WriterKnownAt(l)

IInv ==
    /\ TypeOK
    /\ CallShape
    /\ MapShape
    /\ CountIsUsers
    /\ ReadersCounted
    /\ WriterKnown
    /\ PooledIsClean

-----------------------------------------------------------------------------
\* Sets of goroutines are finite, so they can be counted.
LEMMA ThreadSets ==
    ASSUME NEW S \in SUBSET Threads
    PROVE  IsFiniteSet(S) /\ Cardinality(S) \in Nat /\ (Cardinality(S) = 0 <=> S = {})
  <1>1. IsFiniteSet(S)
    BY ThreadsFinite, FS_Subset
  <1> QED
    BY <1>1, FS_CardinalityType, FS_EmptySet

\* One goroutine more counts one more.
LEMMA AddThread ==
    ASSUME NEW S \in SUBSET Threads, NEW t \in Threads \ S
    PROVE  Cardinality(S \cup {t}) = Cardinality(S) + 1
  BY ThreadSets, FS_AddElement

\* One goroutine less counts one less.
LEMMA RemoveThread ==
    ASSUME NEW S \in SUBSET Threads, NEW t \in S
    PROVE  Cardinality(S \ {t}) = Cardinality(S) - 1
  BY ThreadSets, FS_RemoveElement

\* What the invariant says of a goroutine inside the pool.
LEMMA Inside ==
    ASSUME IInv, NEW t \in Threads, call[t].stage # "idle"
    PROVE  /\ call[t].key \in Keys /\ call[t].locker \in Lockers
           /\ lockerMap[call[t].key] = call[t].locker
           /\ call[t].locker # NoLocker /\ call[t].locker \notin syncPool
           /\ call[t].rLock \in BOOLEAN /\ call[t].stage \in Stages
           /\ t \in Users(call[t].key)
  <1>1. call[t] # NoCall
    BY DEF NoCall
  <1>2. call[t] \in Calls
    BY DEF IInv, TypeOK
  <1>3. /\ call[t].key \in Keys /\ call[t].locker \in Lockers
        /\ lockerMap[call[t].key] = call[t].locker
    BY <1>1 DEF IInv, CallShape
  <1> QED
    BY <1>2, <1>3, NullsDistinct DEF IInv, MapShape, Users, Calls

\* A mutex that keeps its writers and its state stays known.
LEMMA SameWriters ==
    ASSUME NEW l \in Lockers, WriterKnownAt(l), rw'[l] = rw[l],
           WritersOn(l)' = WritersOn(l), \A u \in WritersOn(l) : call'[u] = call[u]
    PROVE  WriterKnownAt(l)'
  BY DEF WriterKnownAt

\* NewLockerPool establishes the invariant.
LEMMA InitIInv == Init => IInv
  <1> SUFFICES ASSUME Init PROVE IInv
    OBVIOUS
  <1> USE DEF Init
  <1>1. TypeOK
    BY DEF TypeOK, Calls, NoCall, Stages, RWMutexes, Unlocked, WriterStates
  <1>2. CallShape
    BY DEF CallShape
  <1>3. MapShape
    BY DEF MapShape
  <1>4. CountIsUsers
    BY DEF CountIsUsers, Users, NoCall
  <1>5. \A l \in Lockers : ReadersIn(l) = {} /\ WritersOn(l) = {}
    BY DEF ReadersIn, WritersOn, NoCall
  <1>6. ReadersCounted
    BY <1>5, FS_EmptySet DEF ReadersCounted, Unlocked
  <1>7. WriterKnown
    BY <1>5 DEF WriterKnown, WriterKnownAt, Unlocked
  <1>8. PooledIsClean
    BY NullsDistinct DEF PooledIsClean, NoCall
  <1> QED
    BY <1>1, <1>2, <1>3, <1>4, <1>6, <1>7, <1>8 DEF IInv

\* The critical section of Lock keeps the invariant: the locker a key gets is
\* the one its other users have, or a clean one from the sync.Pool.
LEMMA LockIInv ==
    ASSUME IInv, NEW t \in Threads, NEW k \in Keys, NEW r \in BOOLEAN, Lock(t, k, r)
    PROVE  IInv'
  <1>1. PICK l \in LockerFor(k) :
            /\ lockerMap' = [lockerMap EXCEPT ![k] = l]
            /\ syncPool' = syncPool \ {l}
            /\ count' = [count EXCEPT ![l] = @ + 1]
            /\ call' = [call EXCEPT ![t] = [stage |-> "counted", key |-> k,
                                            rLock |-> r, locker |-> l]]
    BY DEF Lock
  <1>2. call[t] = NoCall /\ rw' = rw
    BY DEF Lock, IInv, CallShape
  <1> DEFINE c == [stage |-> "counted", key |-> k, rLock |-> r, locker |-> l]
  <1>3. l \in Lockers /\ l # NoLocker
    BY <1>1, NullsDistinct DEF LockerFor, IInv, TypeOK
  <1>4. c \in Calls
    BY <1>3 DEF Calls, Stages
  <1>5. \A u \in Threads : call'[u] = IF u = t THEN c ELSE call[u]
    BY <1>1 DEF IInv, TypeOK
  <1>6. \A j \in Keys : lockerMap'[j] = IF j = k THEN l ELSE lockerMap[j]
    BY <1>1 DEF IInv, TypeOK
  <1>7. lockerMap[k] = NoLocker \/ lockerMap[k] = l
    BY <1>1 DEF LockerFor
  <1>8. lockerMap[k] = NoLocker => l \in syncPool
    BY <1>1 DEF LockerFor
  <1>9. TypeOK'
    <2>1. count' \in [Lockers -> Int]
      BY <1>1, <1>3 DEF IInv, TypeOK
    <2>2. call' \in [Threads -> Calls]
      BY <1>1, <1>4 DEF IInv, TypeOK
    <2> QED
      BY <1>1, <1>2, <1>3, <2>1, <2>2 DEF IInv, TypeOK
  <1>10. \A u \in Threads : u # t /\ call[u] # NoCall => (call[u].key = k => lockerMap[k] = l)
    BY <1>7, NullsDistinct DEF IInv, CallShape
  <1>11. CallShape'
    <2> SUFFICES ASSUME NEW u \in Threads, call'[u] # NoCall
                 PROVE  /\ call'[u].stage # "idle"
                        /\ call'[u].key \in Keys /\ call'[u].locker \in Lockers
                        /\ lockerMap'[call'[u].key] = call'[u].locker
                        /\ call'[u].stage = "parked" => call'[u].rLock = TRUE
                        /\ call'[u].stage = "pending" => call'[u].rLock = FALSE
      BY DEF CallShape
    <2>1. CASE u = t
      BY <2>1, <1>3, <1>5, <1>6
    <2>2. CASE u # t
      BY <2>2, <1>5, <1>6, <1>10 DEF IInv, CallShape
    <2> QED
      BY <2>1, <2>2
  <1>12. MapShape'
    BY <1>1, <1>3, <1>6, <1>7, <1>8 DEF MapShape, IInv
  <1>13. \A j \in Keys : Users(j)' = IF j = k THEN Users(j) \cup {t} ELSE Users(j)
    BY <1>2, <1>5 DEF Users, NoCall
  <1>14. t \notin Users(k)
    BY <1>2 DEF Users, NoCall
  <1>15. count[l] = Cardinality(Users(k))
    <2>1. CASE lockerMap[k] = NoLocker
      <3>1. Users(k) = {} /\ count[l] = 0
        BY <2>1, <1>8 DEF IInv, CountIsUsers, PooledIsClean
      <3> QED
        BY <3>1, FS_EmptySet
    <2>2. CASE lockerMap[k] = l
      BY <2>2, <1>3 DEF IInv, CountIsUsers
    <2> QED
      BY <1>7, <2>1, <2>2
  <1>16. CountIsUsers'
    <2> SUFFICES ASSUME NEW j \in Keys
                 PROVE  IF lockerMap'[j] = NoLocker THEN Users(j)' = {}
                        ELSE Users(j)' # {} /\ count'[lockerMap'[j]] = Cardinality(Users(j)')
      BY DEF CountIsUsers
    <2>1. CASE j = k
      <3>1. Cardinality(Users(k) \cup {t}) = Cardinality(Users(k)) + 1
        BY <1>14, AddThread DEF Users
      <3>2. count'[l] = count[l] + 1
        BY <1>1, <1>3 DEF IInv, TypeOK
      <3> QED
        BY <2>1, <3>1, <3>2, <1>3, <1>6, <1>13, <1>15
    <2>2. CASE j # k
      <3>1. lockerMap'[j] = lockerMap[j] /\ Users(j)' = Users(j)
        BY <2>2, <1>6, <1>13
      <3>2. lockerMap[j] # NoLocker => lockerMap[j] # l
        BY <2>2, <1>7, <1>8 DEF IInv, MapShape
      <3>3. lockerMap[j] # NoLocker => count'[lockerMap[j]] = count[lockerMap[j]]
        BY <3>2, <1>1 DEF IInv, TypeOK
      <3> QED
        BY <3>1, <3>3 DEF IInv, CountIsUsers
    <2> QED
      BY <2>1, <2>2
  <1>17. \A x \in Lockers : ReadersIn(x)' = ReadersIn(x) /\ WritersOn(x)' = WritersOn(x)
    BY <1>2, <1>5 DEF ReadersIn, WritersOn, NoCall
  <1>18. ReadersCounted'
    BY <1>2, <1>17 DEF ReadersCounted, IInv
  <1>19. WriterKnown'
    <2>1. \A x \in Lockers : \A u \in WritersOn(x) : call'[u] = call[u]
      BY <1>2, <1>5 DEF WritersOn, NoCall
    <2> QED
      BY <1>2, <1>17, <2>1, SameWriters DEF WriterKnown, IInv
  <1>20. PooledIsClean'
    BY <1>1, <1>2, <1>3, <1>5 DEF PooledIsClean, IInv, TypeOK
  <1> QED
    BY <1>9, <1>11, <1>12, <1>16, <1>18, <1>19, <1>20 DEF IInv

\* The steps that only move a goroutine on and touch the mutex it refers to
\* leave the bookkeeping of the pool alone.
MovesOn(t) ==
    /\ \A u \in Threads : u # t => call'[u] = call[u]
    /\ call'[t].stage \in Stages /\ call'[t].stage # "idle"
    /\ call'[t].key = call[t].key /\ call'[t].locker = call[t].locker
    /\ call'[t].rLock = call[t].rLock
    /\ call'[t].stage = "parked" => call[t].rLock = TRUE
    /\ call'[t].stage = "pending" => call[t].rLock = FALSE
    /\ \A x \in Lockers : x # call[t].locker => rw'[x] = rw[x]

\* What a step on the mutex of a goroutine leaves alone, in terms of users.
LEMMA SetStage ==
    ASSUME IInv, NEW t \in Threads, NEW st \in Stages,
           call' = [call EXCEPT ![t].stage = st]
    PROVE  /\ call' \in [Threads -> Calls]
           /\ \A u \in Threads : u # t => call'[u] = call[u]
           /\ call'[t].stage = st /\ call'[t].key = call[t].key
           /\ call'[t].locker = call[t].locker /\ call'[t].rLock = call[t].rLock
  <1>1. call[t] \in Calls /\ call \in [Threads -> Calls]
    BY DEF IInv, TypeOK
  <1>2. call'[t] = [call[t] EXCEPT !.stage = st] /\ \A u \in Threads : u # t => call'[u] = call[u]
    BY <1>1
  <1>3. [call[t] EXCEPT !.stage = st] \in Calls
    BY <1>1 DEF Calls
  <1>4. call' \in [Threads -> Calls]
    BY <1>1, <1>3
  <1> QED
    BY <1>1, <1>2, <1>4 DEF Calls

\* A step that moves a goroutine on inside its mutex keeps the parts of the
\* invariant that are about the map and the counts.
LEMMA MovesOnIInv ==
    ASSUME IInv, NEW t \in Threads, call[t].stage # "idle", MovesOn(t),
           call' \in [Threads -> Calls], rw' \in [Lockers -> RWMutexes],
           UNCHANGED <<lockerMap, syncPool, count>>
    PROVE  TypeOK' /\ CallShape' /\ MapShape' /\ CountIsUsers' /\ PooledIsClean'
  <1>1. /\ call[t].key \in Keys /\ call[t].locker \in Lockers
        /\ lockerMap[call[t].key] = call[t].locker
        /\ call[t].locker # NoLocker /\ call[t].locker \notin syncPool
    BY Inside
  <1>2. TypeOK'
    BY DEF IInv, TypeOK
  <1>3. CallShape'
    BY <1>1 DEF CallShape, IInv, MovesOn
  <1>4. MapShape'
    BY DEF MapShape, IInv
  <1>5. \A k \in Keys : Users(k)' = Users(k)
    BY DEF Users, MovesOn
  <1>6. CountIsUsers'
    BY <1>5 DEF CountIsUsers, IInv
  <1>7. PooledIsClean'
    BY <1>1 DEF PooledIsClean, IInv, TypeOK, MovesOn
  <1> QED
    BY <1>2, <1>3, <1>4, <1>6, <1>7

\* The stages of a goroutine that has a locker.
LEMMA InsideStages ==
    \A st \in {"holding", "parked", "pending"} : st \in Stages /\ st # "idle"
  BY DEF Stages

\* A reader that locks its mutex, admitted or parked, keeps the invariant.
LEMMA RLockIInv ==
    ASSUME IInv, NEW t \in Threads, RLockLocker(t)
    PROVE  IInv'
  <1> DEFINE l == call[t].locker
  <1>1. /\ l \in Lockers /\ call[t].stage = "counted" /\ call[t].rLock = TRUE
        /\ UNCHANGED <<lockerMap, syncPool, count>>
    BY Inside DEF RLockLocker
  <1>2. rw[l] \in RWMutexes /\ rw \in [Lockers -> RWMutexes]
    BY <1>1 DEF IInv, TypeOK
  <1>3. CASE AdmitsReader(rw[l])
    <2> DEFINE a == AddReaders(rw[l], 1)
    <2>1. rw' = [rw EXCEPT ![l] = a] /\ call' = [call EXCEPT ![t].stage = "holding"]
      BY <1>1, <1>3 DEF RLockLocker
    <2>2. a \in RWMutexes /\ a.writer = "free" /\ a.readers = rw[l].readers + 1
      BY <1>2, <1>3 DEF AddReaders, RWMutexes, AdmitsReader, WriterStates
    <2> HIDE DEF a
    <2>3. /\ call' \in [Threads -> Calls]
          /\ \A u \in Threads : u # t => call'[u] = call[u]
          /\ call'[t].stage = "holding" /\ call'[t].key = call[t].key
          /\ call'[t].locker = l /\ call'[t].rLock = TRUE
      BY <1>1, <2>1, InsideStages, SetStage
    <2>4. /\ rw' \in [Lockers -> RWMutexes]
          /\ \A x \in Lockers : rw'[x] = IF x = l THEN a ELSE rw[x]
      BY <1>2, <2>1, <2>2
    <2>5. MovesOn(t)
      BY <1>1, <2>3, <2>4, InsideStages DEF MovesOn
    <2>6. TypeOK' /\ CallShape' /\ MapShape' /\ CountIsUsers' /\ PooledIsClean'
      BY <1>1, <2>3, <2>4, <2>5, MovesOnIInv
    <2>7. \A x \in Lockers : /\ ReadersIn(x)' = IF x = l THEN ReadersIn(x) \cup {t} ELSE ReadersIn(x)
                             /\ WritersOn(x)' = WritersOn(x)
      BY <1>1, <2>3 DEF ReadersIn, WritersOn
    <2>8. Cardinality(ReadersIn(l) \cup {t}) = Cardinality(ReadersIn(l)) + 1
      <3>1. ReadersIn(l) \in SUBSET Threads /\ t \notin ReadersIn(l)
        BY <1>1 DEF ReadersIn
      <3> QED
        BY <3>1, AddThread
    <2>9. ReadersCounted'
      BY <1>1, <2>2, <2>4, <2>7, <2>8 DEF ReadersCounted, IInv
    <2>10. ASSUME NEW x \in Lockers PROVE WriterKnownAt(x)'
      <3>1. \A u \in WritersOn(x) : call'[u] = call[u]
        BY <1>1, <2>3 DEF WritersOn
      <3>2. CASE x = l
        <4>1. rw[l].writer = "free"
          BY <1>3 DEF AdmitsReader
        <4>2. WritersOn(x)' = {} /\ rw'[x].writer = "free"
          BY <1>1, <4>1, <2>2, <2>4, <2>7, <3>2 DEF WriterKnown, WriterKnownAt, IInv
        <4> QED
          BY <4>2 DEF WriterKnownAt
      <3>3. CASE x # l
        BY <2>4, <2>7, <3>1, <3>3, SameWriters DEF WriterKnown, IInv
      <3> QED
        BY <3>2, <3>3
    <2> QED
      BY <2>6, <2>9, <2>10 DEF IInv, WriterKnown
  <1>4. CASE ~AdmitsReader(rw[l])
    <2>1. rw' = rw /\ call' = [call EXCEPT ![t].stage = "parked"]
      BY <1>4 DEF RLockLocker
    <2>2. /\ call' \in [Threads -> Calls]
          /\ \A u \in Threads : u # t => call'[u] = call[u]
          /\ call'[t].stage = "parked" /\ call'[t].key = call[t].key
          /\ call'[t].locker = l /\ call'[t].rLock = TRUE
      BY <1>1, <2>1, InsideStages, SetStage
    <2>3. MovesOn(t)
      BY <1>1, <2>1, <2>2, InsideStages DEF MovesOn
    <2>4. TypeOK' /\ CallShape' /\ MapShape' /\ CountIsUsers' /\ PooledIsClean'
      BY <1>1, <1>2, <2>1, <2>2, <2>3, MovesOnIInv
    <2>5. \A x \in Lockers : ReadersIn(x)' = ReadersIn(x) /\ WritersOn(x)' = WritersOn(x)
      BY <1>1, <2>2 DEF ReadersIn, WritersOn
    <2>6. \A x \in Lockers : \A u \in WritersOn(x) : call'[u] = call[u]
      BY <1>1, <2>2 DEF WritersOn
    <2>7. ReadersCounted'
      BY <2>1, <2>5 DEF ReadersCounted, IInv
    <2>8. WriterKnown'
      BY <2>1, <2>5, <2>6, SameWriters DEF WriterKnown, IInv
    <2> QED
      BY <2>4, <2>7, <2>8 DEF IInv
  <1> QED
    BY <1>3, <1>4

\* A writer that announces itself keeps the invariant.
LEMMA AnnounceIInv ==
    ASSUME IInv, NEW t \in Threads, AnnounceWriter(t)
    PROVE  IInv'
  <1> DEFINE l == call[t].locker
             a == Announce(rw[l])
  <1>1. /\ l \in Lockers /\ call[t].stage = "counted" /\ call[t].rLock = FALSE
        /\ rw[l].writer = "free"
        /\ rw' = [rw EXCEPT ![l] = a]
        /\ call' = [call EXCEPT ![t].stage = "pending"]
        /\ UNCHANGED <<lockerMap, syncPool, count>>
    BY Inside DEF AnnounceWriter, CanAnnounce
  <1>2. a \in RWMutexes /\ a.writer = "pending" /\ a.readers = rw[l].readers
    BY <1>1 DEF IInv, TypeOK, Announce, RWMutexes, WriterStates
  <1> HIDE DEF a
  <1>3. /\ call' \in [Threads -> Calls]
        /\ \A u \in Threads : u # t => call'[u] = call[u]
        /\ call'[t].stage = "pending" /\ call'[t].key = call[t].key
        /\ call'[t].locker = l /\ call'[t].rLock = FALSE
    BY <1>1, InsideStages, SetStage
  <1>4. /\ rw' \in [Lockers -> RWMutexes]
        /\ \A x \in Lockers : rw'[x] = IF x = l THEN a ELSE rw[x]
    BY <1>1, <1>2 DEF IInv, TypeOK
  <1>5. MovesOn(t)
    BY <1>1, <1>3, <1>4, InsideStages DEF MovesOn
  <1>6. TypeOK' /\ CallShape' /\ MapShape' /\ CountIsUsers' /\ PooledIsClean'
    BY <1>1, <1>3, <1>4, <1>5, MovesOnIInv
  <1>7. \A x \in Lockers : /\ WritersOn(x)' = IF x = l THEN WritersOn(x) \cup {t} ELSE WritersOn(x)
                           /\ ReadersIn(x)' = ReadersIn(x)
    BY <1>1, <1>3 DEF ReadersIn, WritersOn
  <1>8. WritersOn(l) = {}
    BY <1>1 DEF IInv, WriterKnown, WriterKnownAt
  <1>9. ReadersCounted'
    BY <1>1, <1>2, <1>4, <1>7 DEF ReadersCounted, IInv
  <1>10. ASSUME NEW x \in Lockers PROVE WriterKnownAt(x)'
    <2>1. CASE x = l
      <3>1. WritersOn(x)' = {t} /\ rw'[x] = a
        BY <2>1, <1>1, <1>4, <1>7, <1>8
      <3> QED
        BY <3>1, <1>2, <1>3 DEF WriterKnownAt
    <2>2. CASE x # l
      <3>1. \A u \in WritersOn(x) : call'[u] = call[u]
        BY <1>1, <1>3 DEF WritersOn
      <3> QED
        BY <3>1, <2>2, <1>4, <1>7, SameWriters DEF WriterKnown, IInv
    <2> QED
      BY <2>1, <2>2
  <1> QED
    BY <1>6, <1>9, <1>10 DEF IInv, WriterKnown

\* A writer that enters keeps the invariant.
LEMMA EnterIInv ==
    ASSUME IInv, NEW t \in Threads, EnterWriter(t)
    PROVE  IInv'
  <1> DEFINE l == call[t].locker
             e == Enter(rw[l])
  <1>1. /\ l \in Lockers /\ call[t].stage = "pending" /\ call[t].rLock = FALSE
        /\ rw[l].writer = "pending" /\ rw[l].readers = 0
        /\ rw' = [rw EXCEPT ![l] = e]
        /\ call' = [call EXCEPT ![t].stage = "holding"]
        /\ UNCHANGED <<lockerMap, syncPool, count>>
    BY Inside DEF EnterWriter, CanEnter, IInv, CallShape, NoCall
  <1>2. e \in RWMutexes /\ e.writer = "held" /\ e.readers = 0
    BY <1>1 DEF IInv, TypeOK, Enter, RWMutexes, WriterStates
  <1> HIDE DEF e
  <1>3. /\ call' \in [Threads -> Calls]
        /\ \A u \in Threads : u # t => call'[u] = call[u]
        /\ call'[t].stage = "holding" /\ call'[t].key = call[t].key
        /\ call'[t].locker = l /\ call'[t].rLock = FALSE
    BY <1>1, InsideStages, SetStage
  <1>4. /\ rw' \in [Lockers -> RWMutexes]
        /\ \A x \in Lockers : rw'[x] = IF x = l THEN e ELSE rw[x]
    BY <1>1, <1>2 DEF IInv, TypeOK
  <1>5. MovesOn(t)
    BY <1>1, <1>3, <1>4, InsideStages DEF MovesOn
  <1>6. TypeOK' /\ CallShape' /\ MapShape' /\ CountIsUsers' /\ PooledIsClean'
    BY <1>1, <1>3, <1>4, <1>5, MovesOnIInv
  <1>7. \A x \in Lockers : WritersOn(x)' = WritersOn(x) /\ ReadersIn(x)' = ReadersIn(x)
    BY <1>1, <1>3 DEF ReadersIn, WritersOn
  <1>8. ReadersCounted'
    BY <1>1, <1>2, <1>4, <1>7 DEF ReadersCounted, IInv
  <1>9. ASSUME NEW x \in Lockers PROVE WriterKnownAt(x)'
    <2>1. CASE x = l
      <3>1. WritersOn(x) = {t}
        BY <2>1, <1>1 DEF WriterKnown, WriterKnownAt, IInv, WritersOn
      <3>2. WritersOn(x)' = {t} /\ rw'[x] = e
        BY <2>1, <3>1, <1>4, <1>7
      <3> QED
        BY <3>2, <1>2, <1>3 DEF WriterKnownAt
    <2>2. CASE x # l
      <3>1. \A u \in WritersOn(x) : call'[u] = call[u]
        BY <1>1, <1>3, <2>2 DEF WritersOn
      <3> QED
        BY <3>1, <2>2, <1>4, <1>7, SameWriters DEF WriterKnown, IInv
    <2> QED
      BY <2>1, <2>2
  <1> QED
    BY <1>6, <1>8, <1>9 DEF IInv, WriterKnown

\* Of a goroutine t that calls UnLock: it finds the locker it locked, and the
\* locker's other users are the other users of the key.
LEMMA UnLockFinds ==
    ASSUME IInv, NEW t \in Threads, UnLock(t)
    PROVE  /\ call[t].key \in Keys /\ call[t].locker \in Lockers
           /\ lockerMap[call[t].key] = call[t].locker /\ call[t].locker # NoLocker
           /\ call[t].locker \notin syncPool
           /\ t \in Users(call[t].key) /\ call[t].stage = "holding"
           /\ call[t].rLock \in BOOLEAN
           /\ \A u \in Threads : call[u].locker = call[t].locker => u \in Users(call[t].key)
  <1>1. call[t].stage = "holding"
    BY DEF UnLock
  <1>2. /\ call[t].key \in Keys /\ call[t].locker \in Lockers
        /\ lockerMap[call[t].key] = call[t].locker /\ call[t].locker # NoLocker
        /\ call[t].locker \notin syncPool
        /\ t \in Users(call[t].key) /\ call[t].rLock \in BOOLEAN
    BY <1>1, Inside
  <1>3. ASSUME NEW u \in Threads, call[u].locker = call[t].locker
        PROVE  u \in Users(call[t].key)
    <2>1. call[u] # NoCall
      BY <1>2, <1>3 DEF NoCall
    <2>2. call[u].stage # "idle"
      BY <2>1 DEF IInv, CallShape
    <2>3. call[u].key \in Keys /\ lockerMap[call[u].key] = call[u].locker
      BY <2>2, Inside
    <2>4. call[u].key = call[t].key
      BY <1>2, <1>3, <2>3 DEF IInv, MapShape
    <2> QED
      BY <2>2, <2>4 DEF Users
  <1> QED
    BY <1>1, <1>2, <1>3

\* UnLock keeps the invariant: it unlocks the mutex the goroutine locked, and
\* puts the locker back only when no other goroutine has it.
LEMMA UnLockIInv ==
    ASSUME IInv, NEW t \in Threads, UnLock(t)
    PROVE  IInv'
  <1>0. PICK k \in Keys, l \in Lockers : k = call[t].key /\ l = call[t].locker
    BY UnLockFinds
  <1> DEFINE admitted == IF call[t].rLock THEN {} ELSE Parked(l)
             mu == IF call[t].rLock THEN RUnlock(rw[l])
                                    ELSE Unlock(rw[l], Cardinality(admitted))
  <1>1. /\ k \in Keys /\ l \in Lockers /\ lockerMap[k] = l /\ l # NoLocker
        /\ l \notin syncPool /\ t \in Users(k) /\ call[t].stage = "holding"
        /\ call[t].rLock \in BOOLEAN
        /\ \A u \in Threads : call[u].locker = l => u \in Users(k)
    BY <1>0, UnLockFinds
  <1>2. rw' = [rw EXCEPT ![l] = mu] /\ call' = AfterUnLock(t, admitted)
    BY <1>0, <1>1 DEF UnLock
  <1>3. \/ /\ LastUser(l)
           /\ count' = [count EXCEPT ![l] = 0]
           /\ syncPool' = syncPool \cup {l}
           /\ lockerMap' = [lockerMap EXCEPT ![k] = NoLocker]
        \/ /\ ~LastUser(l)
           /\ count' = [count EXCEPT ![l] = @ - 1]
           /\ UNCHANGED <<lockerMap, syncPool>>
    BY <1>0, <1>1 DEF UnLock
  <1>4. /\ rw \in [Lockers -> RWMutexes] /\ count \in [Lockers -> Int]
        /\ lockerMap \in [Keys -> Lockers \cup {NoLocker}] /\ syncPool \subseteq Lockers
        /\ call \in [Threads -> Calls]
    BY DEF IInv, TypeOK
  <1>5. admitted \in SUBSET Threads /\ t \notin admitted
    BY <1>1 DEF Parked
  <1>6. \A u \in admitted : call[u].stage = "parked" /\ call[u].rLock = TRUE /\ call[u].locker = l
    BY DEF Parked, IInv, CallShape, NoCall
  <1>7. /\ call'[t] = NoCall
        /\ \A u \in Threads : u # t /\ u \notin admitted => call'[u] = call[u]
        /\ \A u \in admitted : call'[u] = [call[u] EXCEPT !.stage = "holding"]
    BY <1>2, <1>5 DEF AfterUnLock
  <1>8. \A u \in admitted : /\ call'[u].stage = "holding" /\ call'[u].key = call[u].key
                            /\ call'[u].rLock = TRUE /\ call'[u].locker = l
                            /\ call'[u] \in Calls
    <2> SUFFICES ASSUME NEW u \in admitted
                 PROVE  /\ call'[u].stage = "holding" /\ call'[u].key = call[u].key
                        /\ call'[u].rLock = TRUE /\ call'[u].locker = l
                        /\ call'[u] \in Calls
      OBVIOUS
    <2>1. call[u] \in Calls
      BY <1>4, <1>5
    <2>2. call'[u] = [call[u] EXCEPT !.stage = "holding"]
      BY <1>7
    <2> QED
      BY <1>6, <2>1, <2>2 DEF Calls, Stages
  <1>10. /\ call[t].rLock = TRUE => t \in ReadersIn(l)
         /\ call[t].rLock = FALSE => t \in WritersOn(l)
    BY <1>0, <1>1 DEF ReadersIn, WritersOn
  <1>11. /\ rw[l] \in RWMutexes /\ rw[l].readers = Cardinality(ReadersIn(l))
         /\ WriterKnownAt(l)
    BY <1>1, <1>4 DEF IInv, ReadersCounted, WriterKnown
  <1>12. /\ ReadersIn(l) \in SUBSET Threads /\ Parked(l) \in SUBSET Threads
         /\ Users(k) \in SUBSET Threads
    BY DEF ReadersIn, Parked, Users
  <1>13. ASSUME call[t].rLock = TRUE
         PROVE  /\ mu \in RWMutexes /\ mu.writer = rw[l].writer
                /\ mu.readers = rw[l].readers - 1 /\ rw[l].writer # "held"
                /\ admitted = {}
    <2>1. rw[l].readers \in Nat /\ rw[l].readers # 0
      BY <1>10, <1>11, <1>12, <1>13, ThreadSets
    <2>2. mu = [rw[l] EXCEPT !.readers = rw[l].readers - 1]
      BY <1>13, <2>1 DEF RUnlock
    <2> QED
      BY <1>11, <1>13, <2>1, <2>2 DEF RWMutexes, WriterKnownAt
  <1>14. ASSUME call[t].rLock = FALSE
         PROVE  /\ mu \in RWMutexes /\ mu.writer = "free"
                /\ mu.readers = Cardinality(Parked(l))
                /\ admitted = Parked(l) /\ ReadersIn(l) = {} /\ WritersOn(l) = {t}
    <2>1. rw[l].writer = "held" /\ rw[l].readers = 0
      BY <1>1, <1>10, <1>11, <1>14 DEF WriterKnownAt
    <2>2. ReadersIn(l) = {}
      BY <1>11, <1>12, <2>1, ThreadSets
    <2>3. WritersOn(l) = {t}
      BY <1>10, <1>11, <1>14 DEF WriterKnownAt
    <2>4. Cardinality(Parked(l)) \in Nat
      BY <1>12, ThreadSets
    <2>5. mu = [writer |-> "free", readers |-> Cardinality(Parked(l))]
      BY <1>14, <2>1, <2>4 DEF Unlock
    <2> QED
      BY <1>14, <2>2, <2>3, <2>4, <2>5 DEF RWMutexes, WriterStates
  <1>15. mu \in RWMutexes
    BY <1>1, <1>13, <1>14
  <1> HIDE DEF mu, admitted
  <1>16. \A x \in Lockers : rw'[x] = IF x = l THEN mu ELSE rw[x]
    BY <1>1, <1>2, <1>4
  <1>17. \A x \in Lockers \ {l} : ReadersIn(x)' = ReadersIn(x) /\ WritersOn(x)' = WritersOn(x)
    BY <1>0, <1>1, <1>6, <1>7, <1>8, NullsDistinct DEF ReadersIn, WritersOn, NoCall
  <1>18. ReadersIn(l)' = (ReadersIn(l) \ {t}) \cup admitted
    BY <1>0, <1>5, <1>6, <1>7, <1>8 DEF ReadersIn, NoCall
  <1>19. WritersOn(l)' = WritersOn(l) \ {t}
    BY <1>0, <1>5, <1>6, <1>7, <1>8 DEF WritersOn, NoCall
  <1>20. \A j \in Keys : Users(j)' = IF j = k THEN Users(j) \ {t} ELSE Users(j)
    BY <1>0, <1>1, <1>5, <1>6, <1>7, <1>8 DEF Users, NoCall
  <1>21. count[l] = Cardinality(Users(k)) /\ count[l] \in Nat
    BY <1>1, <1>12, ThreadSets DEF IInv, CountIsUsers
  <1>22. Cardinality(Users(k) \ {t}) = Cardinality(Users(k)) - 1
    BY <1>1, <1>12, RemoveThread
  <1>23. LastUser(l) <=> Users(k) \ {t} = {}
    <2>1. Users(k) \ {t} \in SUBSET Threads
      BY <1>12
    <2>2. Cardinality(Users(k) \ {t}) \in Nat
             /\ (Cardinality(Users(k) \ {t}) = 0 <=> Users(k) \ {t} = {})
      BY <2>1, ThreadSets
    <2> QED
      BY <1>21, <1>22, <2>2 DEF LastUser
  <1>24. TypeOK'
    <2>1. call' \in [Threads -> Calls]
      <3>1. NoCall \in Calls
        BY DEF NoCall, Calls, Stages
      <3>2. \A u \in Threads : call'[u] \in Calls
        BY <1>4, <1>7, <1>8, <3>1
      <3>3. call' = [u \in Threads |-> call'[u]]
        BY <1>2 DEF AfterUnLock
      <3> QED
        BY <3>2, <3>3
    <2>2. rw' \in [Lockers -> RWMutexes]
      BY <1>1, <1>2, <1>4, <1>15
    <2>3. /\ count' \in [Lockers -> Int] /\ syncPool' \subseteq Lockers
          /\ lockerMap' \in [Keys -> Lockers \cup {NoLocker}]
      BY <1>1, <1>3, <1>4
    <2> QED
      BY <2>1, <2>2, <2>3 DEF TypeOK
  <1>25. \A j \in Keys : j # k => lockerMap'[j] = lockerMap[j]
    BY <1>3, <1>4
  <1>26. CallShape'
    <2> SUFFICES ASSUME NEW u \in Threads, call'[u] # NoCall
                 PROVE  /\ call'[u].stage # "idle"
                        /\ call'[u].key \in Keys /\ call'[u].locker \in Lockers
                        /\ lockerMap'[call'[u].key] = call'[u].locker
                        /\ call'[u].stage = "parked" => call'[u].rLock = TRUE
                        /\ call'[u].stage = "pending" => call'[u].rLock = FALSE
      BY DEF CallShape
    <2>1. u # t /\ call[u] # NoCall
      <3>1. u # t
        BY <1>7
      <3>2. CASE u \in admitted
        BY <3>1, <3>2, <1>6 DEF NoCall
      <3>3. CASE u \notin admitted
        BY <3>1, <3>3, <1>7
      <3> QED
        BY <3>1, <3>2, <3>3
    <2>2. /\ call[u].stage # "idle" /\ call[u].key \in Keys /\ call[u].locker \in Lockers
          /\ lockerMap[call[u].key] = call[u].locker
          /\ call[u].stage = "parked" => call[u].rLock = TRUE
          /\ call[u].stage = "pending" => call[u].rLock = FALSE
      BY <2>1 DEF IInv, CallShape
    <2>3. call'[u].key = call[u].key /\ call'[u].locker = call[u].locker
      BY <2>1, <1>6, <1>7, <1>8
    <2>4. lockerMap'[call[u].key] = lockerMap[call[u].key]
      <3>1. CASE call[u].key = k
        <4>1. u \in Users(k) \ {t}
          BY <2>1, <2>2, <3>1 DEF Users
        <4> QED
          BY <4>1, <1>3, <1>23
      <3>2. CASE call[u].key # k
        BY <2>2, <3>2, <1>25
      <3> QED
        BY <3>1, <3>2
    <2>5. /\ call'[u].stage # "idle"
          /\ call'[u].stage = "parked" => call'[u].rLock = TRUE
          /\ call'[u].stage = "pending" => call'[u].rLock = FALSE
      BY <2>1, <2>2, <1>7, <1>8
    <2> QED
      BY <2>2, <2>3, <2>4, <2>5
  <1>27. MapShape'
    BY <1>1, <1>3, <1>4, <1>25 DEF IInv, MapShape
  <1>28. CountIsUsers'
    <2> SUFFICES ASSUME NEW j \in Keys
                 PROVE  IF lockerMap'[j] = NoLocker THEN Users(j)' = {}
                        ELSE Users(j)' # {} /\ count'[lockerMap'[j]] = Cardinality(Users(j)')
      BY DEF CountIsUsers
    <2>1. CASE j = k /\ LastUser(l)
      BY <2>1, <1>1, <1>3, <1>4, <1>20, <1>23
    <2>2. CASE j = k /\ ~LastUser(l)
      <3>1. lockerMap'[j] = l /\ count'[l] = count[l] - 1
        BY <2>2, <1>1, <1>3, <1>4
      <3> QED
        BY <2>2, <3>1, <1>1, <1>20, <1>21, <1>22, <1>23
    <2>3. CASE j # k
      <3>1. lockerMap'[j] = lockerMap[j] /\ Users(j)' = Users(j)
        BY <2>3, <1>20, <1>25
      <3>2. lockerMap[j] # NoLocker => lockerMap[j] # l /\ lockerMap[j] \in Lockers
        BY <2>3, <1>1, <1>4 DEF IInv, MapShape
      <3>3. lockerMap[j] # NoLocker => count'[lockerMap[j]] = count[lockerMap[j]]
        BY <3>2, <1>1, <1>3, <1>4
      <3> QED
        BY <3>1, <3>3 DEF IInv, CountIsUsers
    <2> QED
      BY <2>1, <2>2, <2>3
  <1>29. ReadersCounted'
    <2> SUFFICES ASSUME NEW x \in Lockers PROVE rw'[x].readers = Cardinality(ReadersIn(x)')
      BY DEF ReadersCounted
    <2>1. CASE x # l
      BY <2>1, <1>16, <1>17 DEF IInv, ReadersCounted
    <2>2. CASE x = l /\ call[t].rLock = TRUE
      <3>1. ReadersIn(x)' = ReadersIn(l) \ {t}
        BY <2>2, <1>13, <1>18
      <3>2. Cardinality(ReadersIn(l) \ {t}) = Cardinality(ReadersIn(l)) - 1
        BY <2>2, <1>10, <1>12, RemoveThread
      <3> QED
        BY <2>2, <3>1, <3>2, <1>11, <1>13, <1>16
    <2>3. CASE x = l /\ call[t].rLock = FALSE
      <3>1. ReadersIn(x)' = Parked(l)
        BY <2>3, <1>14, <1>18
      <3> QED
        BY <2>3, <3>1, <1>14, <1>16
    <2> QED
      BY <1>1, <2>1, <2>2, <2>3
  <1>30. ASSUME NEW x \in Lockers PROVE WriterKnownAt(x)'
    <2>1. \A u \in WritersOn(x) : u # t => call'[u] = call[u]
      BY <1>6, <1>7 DEF WritersOn
    <2>2. CASE x # l
      <3>1. t \notin WritersOn(x)
        BY <1>0, <2>2 DEF WritersOn
      <3> QED
        BY <2>1, <2>2, <3>1, <1>16, <1>17, SameWriters DEF IInv, WriterKnown
    <2>3. CASE x = l /\ call[t].rLock = TRUE
      <3>1. t \notin WritersOn(l)
        BY <2>3 DEF WritersOn
      <3>2. WritersOn(x)' = WritersOn(l) /\ rw'[x].writer = rw[l].writer
        BY <2>3, <3>1, <1>13, <1>16, <1>19
      <3>3. rw'[x].writer # "held"
        BY <2>3, <3>2, <1>13
      <3>4. \A u \in WritersOn(l) : call'[u] = call[u]
        BY <2>1, <2>3, <3>1
      <3> QED
        BY <3>2, <3>3, <3>4, <1>11 DEF WriterKnownAt
    <2>4. CASE x = l /\ call[t].rLock = FALSE
      <3>1. WritersOn(x)' = {} /\ rw'[x].writer = "free"
        BY <2>4, <1>14, <1>16, <1>19
      <3> QED
        BY <3>1 DEF WriterKnownAt
    <2> QED
      BY <1>1, <2>2, <2>3, <2>4
  <1>31. PooledIsClean'
    <2> SUFFICES ASSUME NEW x \in syncPool'
                 PROVE  /\ rw'[x] = Unlocked /\ count'[x] = 0
                        /\ \A u \in Threads : call'[u].locker # x
      BY DEF PooledIsClean
    <2>1. CASE x # l
      <3>1. x \in syncPool /\ x \in Lockers
        BY <2>1, <1>3, <1>4
      <3>2. rw[x] = Unlocked /\ count[x] = 0 /\ \A u \in Threads : call[u].locker # x
        BY <3>1 DEF IInv, PooledIsClean
      <3>3. rw'[x] = rw[x] /\ count'[x] = count[x]
        BY <2>1, <3>1, <1>3, <1>4, <1>16
      <3>4. \A u \in Threads : call'[u].locker # x
        BY <2>1, <3>1, <3>2, <1>7, <1>8, NullsDistinct DEF NoCall
      <3> QED
        BY <3>2, <3>3, <3>4
    <2>2. CASE x = l
      <3>1. LastUser(l) /\ count'[x] = 0
        BY <2>2, <1>1, <1>3, <1>4
      <3>2. Users(k) = {t}
        BY <3>1, <1>1, <1>23
      <3>3. admitted = {}
        BY <3>2, <1>1, <1>5, <1>6
      <3>4. \A u \in Threads : call'[u].locker # l
        BY <3>2, <3>3, <1>1, <1>7 DEF NoCall
      <3>5. ReadersIn(l)' = {} /\ WritersOn(l)' = {}
        BY <3>4 DEF ReadersIn, WritersOn
      <3>6. rw'[l].readers = 0
        BY <3>5, <1>1, <1>29, FS_EmptySet DEF ReadersCounted
      <3>7. rw'[l].writer = "free"
        BY <3>5, <1>1, <1>30 DEF WriterKnownAt
      <3>8. rw'[l] \in RWMutexes
        BY <1>1, <1>15, <1>16
      <3> QED
        BY <2>2, <3>1, <3>4, <3>6, <3>7, <3>8 DEF RWMutexes, Unlocked
    <2> QED
      BY <2>1, <2>2
  <1> QED
    BY <1>24, <1>26, <1>27, <1>28, <1>29, <1>30, <1>31 DEF IInv, WriterKnown

-----------------------------------------------------------------------------
\* Every step of the pool keeps the invariant.
LEMMA NextIInv == IInv /\ [Next]_vars => IInv'
  <1> SUFFICES ASSUME IInv, [Next]_vars PROVE IInv'
    OBVIOUS
  <1>1. ASSUME NEW t \in Threads, NEW k \in Keys, NEW r \in BOOLEAN, Lock(t, k, r)
        PROVE  IInv'
    BY <1>1, LockIInv
  <1>2. ASSUME NEW t \in Threads, RLockLocker(t) PROVE IInv'
    BY <1>2, RLockIInv
  <1>3. ASSUME NEW t \in Threads, AnnounceWriter(t) PROVE IInv'
    BY <1>3, AnnounceIInv
  <1>4. ASSUME NEW t \in Threads, EnterWriter(t) PROVE IInv'
    BY <1>4, EnterIInv
  <1>5. ASSUME NEW t \in Threads, UnLock(t) PROVE IInv'
    BY <1>5, UnLockIInv
  <1>6. CASE UNCHANGED vars
    <2>1. /\ lockerMap' = lockerMap /\ syncPool' = syncPool /\ count' = count
          /\ rw' = rw /\ call' = call
      BY <1>6 DEF vars
    <2>2. TypeOK' /\ CallShape' /\ MapShape' /\ PooledIsClean'
      BY <2>1 DEF IInv, TypeOK, CallShape, MapShape, PooledIsClean
    <2>3. CountIsUsers'
      BY <2>1 DEF IInv, CountIsUsers, Users
    <2>4. \A x \in Lockers : ReadersIn(x)' = ReadersIn(x) /\ WritersOn(x)' = WritersOn(x)
      BY <2>1 DEF ReadersIn, WritersOn
    <2>5. ReadersCounted'
      BY <2>1, <2>4 DEF IInv, ReadersCounted
    <2>6. WriterKnown'
      BY <2>1, <2>4, SameWriters DEF IInv, WriterKnown
    <2> QED
      BY <2>2, <2>3, <2>5, <2>6 DEF IInv
  <1> QED
    BY <1>1, <1>2, <1>3, <1>4, <1>5, <1>6 DEF Next

\* A mutex with a writer inside has no readers and no other writer.
LEMMA IInvExcludes == IInv => MutualExclusion
  <1> SUFFICES ASSUME IInv, NEW t \in Threads, NEW u \in Threads, t # u,
                      Holding(t), Holding(u), call[t].key = call[u].key
               PROVE  call[t].rLock /\ call[u].rLock
    BY DEF MutualExclusion
  <1>1. /\ call[t].stage = "holding" /\ call[u].stage = "holding"
        /\ call[t].locker \in Lockers /\ call[u].locker = call[t].locker
        /\ call[t].rLock \in BOOLEAN /\ call[u].rLock \in BOOLEAN
    BY Inside DEF Holding
  <1>2. WriterKnownAt(call[t].locker)
           /\ rw[call[t].locker].readers = Cardinality(ReadersIn(call[t].locker))
    BY <1>1 DEF IInv, WriterKnown, ReadersCounted
  <1>3. ASSUME NEW w \in {t, u}, NEW v \in {t, u}, w # v, call[w].rLock = FALSE PROVE FALSE
    <2>1. w \in WritersOn(call[t].locker)
      BY <1>1, <1>3 DEF WritersOn
    <2>2. rw[call[t].locker].writer = "held"
      BY <1>1, <1>2, <2>1 DEF WriterKnownAt
    <2>3. ReadersIn(call[t].locker) = {}
      <3>1. ReadersIn(call[t].locker) \in SUBSET Threads
        BY DEF ReadersIn
      <3> QED
        BY <1>2, <2>2, <3>1, ThreadSets DEF WriterKnownAt
    <2>4. CASE call[v].rLock = TRUE
      BY <1>1, <2>3, <2>4 DEF ReadersIn
    <2>5. CASE call[v].rLock = FALSE
      <3>1. v \in WritersOn(call[t].locker)
        BY <1>1, <2>5 DEF WritersOn
      <3> QED
        BY <1>2, <1>3, <2>1, <3>1 DEF WriterKnownAt
    <2> QED
      BY <1>1, <2>4, <2>5
  <1> QED
    BY <1>1, <1>3

\* LockerPool keeps its inductive invariant.
THEOREM LockerPoolInvariant == Spec => []IInv
  <1>1. Init => IInv
    BY InitIInv
  <1>2. IInv /\ [Next]_vars => IInv'
    BY NextIInv
  <1> QED
    BY <1>1, <1>2, PTL DEF Spec

\* No goroutine unlocks a mutex that is not locked in its mode, whatever the
\* order in which Lock and UnLock calls on any keys interleave.
THEOREM LockerPoolTypeOK == Spec => []TypeOK
  <1>1. IInv => TypeOK
    BY DEF IInv
  <1> QED
    BY <1>1, LockerPoolInvariant, PTL

\* LockerPool.Lock excludes: two goroutines between Lock and UnLock of one key
\* are both readers.
THEOREM LockerPoolExcludes == Spec => []MutualExclusion
  BY IInvExcludes, LockerPoolInvariant, PTL

\* The count under a key is the number of goroutines that need the locker: the
\* map neither drops an entry that is in use nor keeps one that is not.
THEOREM LockerPoolCounts == Spec => []CountIsUsers
  <1>1. IInv => CountIsUsers
    BY DEF IInv
  <1> QED
    BY <1>1, LockerPoolInvariant, PTL

\* A locker that goes back to the sync.Pool is unlocked and unreferenced.
THEOREM LockerPoolRecyclesClean == Spec => []PooledIsClean
  <1>1. IInv => PooledIsClean
    BY DEF IInv
  <1> QED
    BY <1>1, LockerPoolInvariant, PTL

-----------------------------------------------------------------------------
\* What the keyed lock sees of a goroutine inside the pool.
LEMMA AbstractOf ==
    ASSUME IInv, NEW t \in Threads
    PROVE  /\ LockStatus[t] = "holding" <=> call[t].stage = "holding"
           /\ LockStatus[t] = "idle" <=> call[t].stage = "idle"
           /\ LockStatus[t] = "waiting" <=> call[t].stage \in {"counted", "parked", "pending"}
  <1>1. call[t].stage \in Stages
    BY DEF IInv, TypeOK, Calls
  <1> QED
    BY <1>1 DEF LockStatus, Stages

\* A goroutine that the mutex lets in meets only holders its mode allows.
LEMMA GrantOK ==
    ASSUME IInv, NEW t \in Threads, call[t].stage \in {"counted", "pending"},
           \A u \in Threads : call[u].stage = "holding" /\ call[u].key = call[t].key
                                => call[t].rLock /\ call[u].rLock,
           call' = [call EXCEPT ![t].stage = "holding"]
    PROVE  Abstract!Grant(t)
  <1>1. call \in [Threads -> Calls]
    BY DEF IInv, TypeOK
  <1>2. \A u \in Threads : /\ call'[u].stage = IF u = t THEN "holding" ELSE call[u].stage
                           /\ call'[u].key = call[u].key
                           /\ call'[u].rLock = call[u].rLock
    BY <1>1 DEF Calls
  <1>3. LockStatus[t] = "waiting"
    BY AbstractOf
  <1>4. LockStatus' = [LockStatus EXCEPT ![t] = "holding"]
    BY <1>2 DEF LockStatus
  <1>5. \A u \in Abstract!Holders(call[t].key) : call[t].rLock /\ call[u].rLock
    BY AbstractOf DEF Abstract!Holders
  <1>6. /\ [u \in Threads |-> call'[u].key] = [u \in Threads |-> call[u].key]
        /\ [u \in Threads |-> call'[u].rLock] = [u \in Threads |-> call[u].rLock]
    BY <1>2
  <1> QED
    BY <1>3, <1>4, <1>5, <1>6 DEF Abstract!Grant, Abstract!Holders

\* Lock is a request of the keyed lock.
LEMMA LockRefines ==
    ASSUME IInv, NEW t \in Threads, NEW k \in Keys, NEW r \in BOOLEAN, Lock(t, k, r)
    PROVE  Abstract!Request(t, k, r)
  <1>1. call \in [Threads -> Calls]
    BY DEF IInv, TypeOK
  <1>2. \A u \in Threads : /\ call'[u].stage = IF u = t THEN "counted" ELSE call[u].stage
                           /\ call'[u].key = IF u = t THEN k ELSE call[u].key
                           /\ call'[u].rLock = IF u = t THEN r ELSE call[u].rLock
    BY <1>1 DEF Lock
  <1>3. LockStatus[t] = "idle"
    BY AbstractOf DEF Lock
  <1>4. LockStatus' = [LockStatus EXCEPT ![t] = "waiting"]
    BY <1>2 DEF LockStatus
  <1>5. [u \in Threads |-> call'[u].key] = [[u \in Threads |-> call[u].key] EXCEPT ![t] = k]
    BY <1>2
  <1>6. [u \in Threads |-> call'[u].rLock] = [[u \in Threads |-> call[u].rLock] EXCEPT ![t] = r]
    BY <1>2
  <1> QED
    BY <1>3, <1>4, <1>5, <1>6 DEF Abstract!Request

\* A step inside Lock that does not return leaves the keyed lock as it is.
LEMMA StillWaiting ==
    ASSUME IInv, NEW t \in Threads, NEW s \in {"parked", "pending"},
           call[t].stage = "counted", call' = [call EXCEPT ![t].stage = s]
    PROVE  UNCHANGED Abstract!vars
  <1>1. call \in [Threads -> Calls]
    BY DEF IInv, TypeOK
  <1>2. \A u \in Threads : /\ call'[u].stage = IF u = t THEN s ELSE call[u].stage
                           /\ call'[u].key = call[u].key
                           /\ call'[u].rLock = call[u].rLock
    BY <1>1 DEF Calls
  <1>3. LockStatus' = LockStatus
    BY <1>2 DEF LockStatus
  <1>4. /\ [u \in Threads |-> call'[u].key] = [u \in Threads |-> call[u].key]
        /\ [u \in Threads |-> call'[u].rLock] = [u \in Threads |-> call[u].rLock]
    BY <1>2
  <1> QED
    BY <1>3, <1>4 DEF Abstract!vars

\* A holder of the key of t has the locker of t, and is known to its mutex.
LEMMA HolderKnown ==
    ASSUME IInv, NEW t \in Threads, NEW u \in Threads, call[t].stage # "idle",
           call[u].stage = "holding", call[u].key = call[t].key
    PROVE  \/ call[u].rLock = TRUE /\ u \in ReadersIn(call[t].locker)
           \/ call[u].rLock = FALSE /\ u \in WritersOn(call[t].locker)
  <1>1. call[u].locker = call[t].locker /\ call[u].rLock \in BOOLEAN
    BY Inside
  <1> QED
    BY <1>1 DEF ReadersIn, WritersOn

\* A reader is granted the key, or parked.
LEMMA RLockRefines ==
    ASSUME IInv, NEW t \in Threads, RLockLocker(t)
    PROVE  Abstract!Grant(t) \/ UNCHANGED Abstract!vars
  <1>1. call[t].stage = "counted" /\ call[t].rLock
    BY DEF RLockLocker
  <1>2. call[t].locker \in Lockers
    BY <1>1, Inside
  <1>3. CASE AdmitsReader(rw[call[t].locker])
    <2>1. WritersOn(call[t].locker) = {}
      <3>1. \A u \in WritersOn(call[t].locker) : FALSE
        BY <1>2, <1>3 DEF IInv, WriterKnown, WriterKnownAt, AdmitsReader
      <3> QED
        BY <3>1
    <2>2. \A u \in Threads : call[u].stage = "holding" /\ call[u].key = call[t].key
                                => call[t].rLock /\ call[u].rLock
      BY <1>1, <2>1, HolderKnown
    <2>3. call' = [call EXCEPT ![t].stage = "holding"]
      BY <1>3 DEF RLockLocker
    <2> QED
      BY <1>1, <2>2, <2>3, GrantOK
  <1>4. CASE ~AdmitsReader(rw[call[t].locker])
    <2>1. call' = [call EXCEPT ![t].stage = "parked"]
      BY <1>4 DEF RLockLocker
    <2> QED
      BY <1>1, <2>1, StillWaiting
  <1> QED
    BY <1>3, <1>4

\* A writer is granted the key when it enters: no reader is left and it is the
\* only writer of its mutex.
LEMMA EnterRefines ==
    ASSUME IInv, NEW t \in Threads, EnterWriter(t)
    PROVE  Abstract!Grant(t)
  <1>1. /\ call[t].stage = "pending" /\ CanEnter(rw[call[t].locker])
        /\ call' = [call EXCEPT ![t].stage = "holding"]
    BY DEF EnterWriter
  <1>2. call[t].locker \in Lockers /\ call[t] # NoCall
    BY <1>1, Inside DEF NoCall
  <1>3. call[t].rLock = FALSE
    BY <1>1, <1>2 DEF IInv, CallShape
  <1>4. ReadersIn(call[t].locker) = {}
    <2>1. Cardinality(ReadersIn(call[t].locker)) = 0
      BY <1>1, <1>2 DEF IInv, ReadersCounted, CanEnter
    <2>2. ReadersIn(call[t].locker) \in SUBSET Threads
      BY DEF ReadersIn
    <2> QED
      BY <2>1, <2>2, ThreadSets
  <1>5. t \in WritersOn(call[t].locker)
    BY <1>1, <1>3 DEF WritersOn
  <1>6. \A u \in WritersOn(call[t].locker) : u = t
    BY <1>2, <1>5 DEF IInv, WriterKnown, WriterKnownAt
  <1>7. \A u \in Threads : call[u].stage = "holding" /\ call[u].key = call[t].key => FALSE
    BY <1>1, <1>4, <1>6, HolderKnown
  <1> QED
    BY <1>1, <1>7, GrantOK

\* UnLock releases the key together with the readers parked behind a writer.
LEMMA UnLockRefines ==
    ASSUME IInv, NEW t \in Threads, UnLock(t)
    PROVE  \E S \in SUBSET Abstract!WaitingReaders(call[t].key) : Abstract!Release(t, S)
  <1> DEFINE l == lockerMap[call[t].key]
  <1> PICK S : S = IF call[t].rLock THEN {} ELSE Parked(l)
    OBVIOUS
  <1>1. call[t].stage = "holding" /\ call \in [Threads -> Calls]
    BY DEF UnLock, IInv, TypeOK
  <1>2. l # NoLocker /\ l = call[t].locker /\ l \in Lockers /\ call[t].key \in Keys
    BY <1>1, Inside
  <1>3. call' = AfterUnLock(t, S)
    BY <1>2 DEF UnLock
  <1>4. ASSUME NEW u \in S
        PROVE  /\ u \in Threads /\ u # t /\ call[u].stage = "parked"
               /\ call[u].key = call[t].key /\ call[u].rLock = TRUE
    <2>1. u \in Threads /\ call[u].stage = "parked" /\ call[u].locker = l /\ u # t
      BY <1>1, <1>4 DEF Parked
    <2>2. call[u] # NoCall
      BY <2>1 DEF NoCall
    <2>3. call[u].rLock = TRUE
      BY <2>1, <2>2 DEF IInv, CallShape
    <2>4. call[u].key \in Keys /\ lockerMap[call[u].key] = l
      BY <2>1, Inside
    <2> QED
      BY <1>2, <2>1, <2>3, <2>4 DEF IInv, MapShape
  <1>5. S \in SUBSET Abstract!WaitingReaders(call[t].key)
    <2>1. \A u \in S : LockStatus[u] = "waiting"
      BY <1>4, AbstractOf
    <2> QED
      BY <1>4, <2>1 DEF Abstract!WaitingReaders
  <1>6. \A u \in Threads :
           /\ call'[u].stage = IF u = t THEN "idle" ELSE IF u \in S THEN "holding"
                               ELSE call[u].stage
           /\ call'[u].key = IF u = t THEN NoKey ELSE call[u].key
           /\ call'[u].rLock = IF u = t THEN FALSE ELSE call[u].rLock
    BY <1>1, <1>3 DEF AfterUnLock, NoCall, Calls
  <1>7. LockStatus' = [u \in Threads |-> IF u = t THEN "idle" ELSE
                                          IF u \in S THEN "holding" ELSE LockStatus[u]]
    BY <1>6 DEF LockStatus
  <1>8. [u \in Threads |-> call'[u].key] = [[u \in Threads |-> call[u].key] EXCEPT ![t] = NoKey]
    BY <1>6
  <1>9. [u \in Threads |-> call'[u].rLock]
            = [[u \in Threads |-> call[u].rLock] EXCEPT ![t] = FALSE]
    BY <1>6
  <1>10. LockStatus[t] = "holding" /\ (S # {} => ~call[t].rLock)
    BY <1>1, AbstractOf
  <1>11. Abstract!Release(t, S)
    BY <1>7, <1>8, <1>9, <1>10 DEF Abstract!Release
  <1> QED
    BY <1>5, <1>11

\* Every step of the pool is a step of the keyed lock or changes nothing in it.
LEMMA NextRefines == IInv /\ [Next]_vars => [Abstract!Next]_(Abstract!vars)
  <1> SUFFICES ASSUME IInv, [Next]_vars PROVE Abstract!Next \/ UNCHANGED Abstract!vars
    OBVIOUS
  <1>1. ASSUME NEW t \in Threads, NEW k \in Keys, NEW r \in BOOLEAN, Lock(t, k, r)
        PROVE  Abstract!Next
    BY <1>1, LockRefines DEF Abstract!Next
  <1>2. ASSUME NEW t \in Threads, RLockLocker(t)
        PROVE  Abstract!Next \/ UNCHANGED Abstract!vars
    BY <1>2, RLockRefines DEF Abstract!Next
  <1>3. ASSUME NEW t \in Threads, AnnounceWriter(t)
        PROVE  UNCHANGED Abstract!vars
    BY <1>3, StillWaiting DEF AnnounceWriter
  <1>4. ASSUME NEW t \in Threads, EnterWriter(t)
        PROVE  Abstract!Next
    BY <1>4, EnterRefines DEF Abstract!Next
  <1>5. ASSUME NEW t \in Threads, UnLock(t)
        PROVE  Abstract!Next
    BY <1>5, UnLockRefines DEF Abstract!Next
  <1>6. CASE UNCHANGED vars
    BY <1>6 DEF vars, Abstract!vars, LockStatus
  <1> QED
    BY <1>1, <1>2, <1>3, <1>4, <1>5, <1>6 DEF Next

\* The pool of recycled lockers implements the keyed reader/writer lock, for
\* any goroutines, keys and lockers: Lock requests and then waits until no
\* conflicting goroutine holds the key, UnLock releases the key it was given.
THEOREM LockerPoolRefines == Spec => ImplementsKeyedRWLock
  <1>1. Init => Abstract!Init
    BY DEF Init, NoCall, Abstract!Init, LockStatus
  <1>2. IInv /\ [Next]_vars => [Abstract!Next]_(Abstract!vars)
    BY NextRefines
  <1> QED
    BY <1>1, <1>2, LockerPoolInvariant, PTL DEF Spec, ImplementsKeyedRWLock, Abstract!Spec
=============================================================================
