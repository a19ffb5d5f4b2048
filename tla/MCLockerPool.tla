---------------------------- MODULE MCLockerPool ----------------------------
(* Three goroutines and two keys over three recyclable lockers: a locker     *)
(* freed for one key is drawn for the other while goroutines are inside Lock. *)
EXTENDS LockerPool, TLC

Symmetry == Permutations(Threads) \cup Permutations(Keys) \cup Permutations(Lockers)
=============================================================================
