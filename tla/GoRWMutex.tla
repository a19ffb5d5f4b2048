----------------------------- MODULE GoRWMutex -----------------------------
(***************************************************************************)
(* The part of Go's sync.RWMutex that the repository's keyed locks rely    *)
(* on, as operators on one mutex value.  The library is external code; it  *)
(* is modelled from how pkg/synclock and pkg/sync use it.                  *)
(*                                                                         *)
(* A mutex does not know its owners: it counts the readers it admitted and *)
(* knows whether a writer is announced ("pending") or inside ("held").  A  *)
(* reader that arrives while a writer is pending or inside parks until     *)
(* that writer's Unlock, which admits all parked readers at once; so new   *)
(* readers cannot starve a writer.  Unlocking a mutex that is not locked   *)
(* in that mode is a fatal runtime error ("broken", outside WriterStates).  *)
(***************************************************************************)
EXTENDS Integers

WriterStates == {"free", "pending", "held"}

RWMutexes == [writer : WriterStates, readers : Nat]

Unlocked == [writer |-> "free", readers |-> 0]

\* A reader is admitted at once exactly when no writer is announced.
AdmitsReader(m) == m.writer = "free"

AddReaders(m, n) == [m EXCEPT !.readers = @ + n]

\* Slip: a mutex that prefers readers, so writers wait for a quiet moment.
CanAnnounce_idle(m) == m.writer = "free" /\ m.readers = 0

\* Lock: first the announcement, which serialises the writers ...
CanAnnounce(m) == m.writer = "free"
Announce(m) == [m EXCEPT !.writer = "pending"]

\* ... then the wait until the readers already admitted have left.
CanEnter(m) == m.writer = "pending" /\ m.readers = 0
Enter(m) == [m EXCEPT !.writer = "held"]

RUnlock(m) ==
    IF m.readers > 0 THEN [m EXCEPT !.readers = @ - 1]
                     ELSE [m EXCEPT !.writer = "broken"]

\* parked: the number of readers waiting behind this writer.
Unlock(m, parked) ==
    IF m.writer = "held"
    THEN [writer |-> "free", readers |-> m.readers + parked]
    ELSE [m EXCEPT !.writer = "broken"]
=============================================================================
