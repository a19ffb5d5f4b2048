--------------------------- MODULE ClientStorage ---------------------------
(***************************************************************************)
(* client/daemon/storage: the local stores of the downloads of ONE task,   *)
(* one store per peer ID, and the peer tasks that fill and reuse them      *)
(* (peertask_reuse.go, the storage calls of the callbacks).  The manager   *)
(* keeps the stores in a map and an index; a collector marks stores in one *)
(* round and removes them in the next, while they are being used.  The     *)
(* daemon may die between any two steps and reload what it finds on disk.  *)
(*                                                                         *)
(* Time: lru orders the stores by their last access; those in aged have    *)
(* not been touched for TaskExpireTime.                                    *)
(***************************************************************************)
EXTENDS Integers, Sequences, FiniteSets, SequencesExt

CONSTANTS Peers,     \* peer IDs, one per download of the task
          Nobody,    \* a model value, no peer
          NPieces,   \* bound: pieces of the task
          Quota,     \* DiskGCThreshold, in stores
          KeepStorage \* of the daemon: Stop does not clean up

ASSUME StorageBounds == /\ IsFiniteSet(Peers) /\ Nobody \notin Peers
                        /\ NPieces \in Nat \ {0} /\ Quota \in Nat /\ KeepStorage \in BOOLEAN

VARIABLES
    up,      \* the daemon runs
    mem,     \* mem[p]: the localTaskStore of p, see StoreType
    index,   \* indexTask2PeerTask of the task
    disk,    \* disk[p]: the directory of p, see DiskType
    lru, aged,
    task,    \* task[p]: the peer task p
    gc,      \* the collector
    left,    \* peers whose gcCallback was called: LeaveTask, whose error is only logged
    leaked   \* peers with a directory no store owns: creation or removal failed

vars == <<up, mem, index, disk, lru, aged, task, gc, left, leaked>>

\* known: in the tasks map; writable: metadataFile is open for writing.
StoreType == [known : BOOLEAN, done : BOOLEAN, invalid : BOOLEAN, marked : BOOLEAN,
              writable : BOOLEAN]
NoStore == [known |-> FALSE, done |-> FALSE, invalid |-> FALSE, marked |-> FALSE,
            writable |-> FALSE]

\* data: the pieces in the data file, -1 if there is none.
DiskType == [dir : BOOLEAN, meta : {"none", "empty", "done"}, data : (-1)..NPieces]
NoDir == [dir |-> FALSE, meta |-> "none", data |-> -1]

Stages == {"idle", "find", "reuse", "copy", "create", "publish", "write", "validate",
           "store", "save", "link", "ok", "reused", "failed"}
TaskType == [at : Stages, kind : {"file", "stream"}, from : Peers \cup {Nobody},
             reader : {"none", "pending", "ok", "bad"},  \* of a stream, see StreamCloses
             dest : (-1)..NPieces]    \* the pieces the client got
NoTask == [at |-> "idle", kind |-> "file", from |-> Nobody, reader |-> "none", dest |-> -1]

GCType == [at : {"idle", "mark", "shed", "next", "unindex", "forced", "data", "meta", "dir"},
           todo : SUBSET Peers, cur : Peers \cup {Nobody},
           marked : SUBSET Peers,   \* markedTasks of this round
           prev : SUBSET Peers,     \* markedReclaimTasks of the round before
           size : Nat,              \* totalNotMarkedSize
           force : BOOLEAN]         \* forceGC
NoGC == [at |-> "idle", todo |-> {}, cur |-> Nobody, marked |-> {}, prev |-> {},
         size |-> 0, force |-> FALSE]

TypeOK ==
    /\ up \in BOOLEAN
    /\ mem \in [Peers -> StoreType]
    /\ index \in Seq(Peers)
    /\ disk \in [Peers -> DiskType]
    /\ lru \in Seq(Peers) /\ aged \subseteq Peers
    /\ task \in [Peers -> TaskType]
    /\ gc \in GCType
    /\ left \subseteq Peers /\ leaked \subseteq Peers

Init ==
    /\ up = TRUE
    /\ mem = [p \in Peers |-> NoStore]
    /\ index = <<>>
    /\ disk = [p \in Peers |-> NoDir]
    /\ lru = <<>> /\ aged = {}
    /\ task = [p \in Peers |-> NoTask]
    /\ gc = NoGC
    /\ left = {} /\ leaked = {}

Goto(p, stage) == task' = [task EXCEPT ![p].at = stage]
Ended == {"idle", "ok", "reused", "failed"}
\* The end of a download; the reader of a complete stream goes its own way.
Finish(p, stage, dest) ==
    task' = [task EXCEPT ![p] = IF @.reader = "none"
                                THEN [NoTask EXCEPT !.at = stage, !.dest = dest]
                                ELSE [@ EXCEPT !.at = stage]]

\* What is left of the list s without the members of S, in its order.
Before(s, q, p) == \E i, j \in DOMAIN s : i < j /\ s[i] = q /\ s[j] = p
Without(s, S) == {t \in SetToSeqs(ToSet(s) \ S) :
                     \A i, j \in DOMAIN t : i < j => Before(s, t[i], t[j])}

\* touch: the store becomes the last accessed one.
touch(p) == /\ \E rest \in Without(lru, {p}) : lru' = Append(rest, p)
            /\ aged' = aged \ {p}
\* Time passes: the least recently accessed store expires.
Age ==
    /\ up
    /\ \E i \in DOMAIN lru :
          /\ lru[i] \notin aged /\ \A j \in 1..(i - 1) : lru[j] \in aged
          /\ aged' = aged \cup {lru[i]}
    /\ UNCHANGED <<up, mem, index, disk, lru, task, gc, left, leaked>>

-----------------------------------------------------------------------------
(* StartFilePeerTask, StartStreamPeerTask: first look for a store to reuse. *)

Start(p) ==
    /\ up /\ task[p].at = "idle" /\ ~disk[p].dir
    /\ \E k \in {"file", "stream"} :
          task' = [task EXCEPT ![p].at = "find", ![p].kind = k]
    /\ UNCHANGED <<up, mem, index, disk, lru, aged, gc, left, leaked>>

\* ReadPiece, GetPieces and UpdateTask: another peer is served, or the length
\* becomes known.
Access(q) ==
    /\ up /\ mem[q].known /\ ~mem[q].invalid
    /\ touch(q)
    /\ UNCHANGED <<up, mem, index, disk, task, gc, left, leaked>>

\* FindCompletedTask touches every valid store up to the one it returns.
Reusable_undone(q) == ~mem[q].marked /\ ~mem[q].invalid
Reusable(q) == mem[q].done /\ ~mem[q].marked /\ ~mem[q].invalid

TouchFirst(n) ==
    \E seen \in Without(SubSeq(index, 1, n), {q \in Peers : mem[q].invalid}) :
       /\ \E rest \in Without(lru, ToSet(seen)) : lru' = rest \o seen
       /\ aged' = aged \ ToSet(seen)

FindCompletedTask(p) ==
    /\ up /\ task[p].at = "find"
    /\ \/ \E i \in DOMAIN index :
             /\ Reusable(index[i]) /\ \A j \in 1..(i - 1) : ~Reusable(index[j])
             /\ TouchFirst(i)
             /\ task' = [task EXCEPT ![p].at = "reuse", ![p].from = index[i]]
       \/ /\ \A i \in DOMAIN index : ~Reusable(index[i])
          /\ TouchFirst(Len(index))
          /\ Goto(p, "create")
    /\ UNCHANGED <<up, mem, index, disk, gc, left, leaked>>

\* The store is looked up again: Store with StoreOnly, or ReadAllPieces.
Reuse(p) ==
    /\ up /\ task[p].at = "reuse"
    /\ LET q == task[p].from
           ok == mem[q].known /\ (task[p].kind = "stream" => ~mem[q].invalid)
       IN  IF ok THEN touch(q) /\ Goto(p, "copy")
           ELSE Goto(p, "create") /\ UNCHANGED <<lru, aged>>
    /\ UNCHANGED <<up, mem, index, disk, gc, left, leaked>>

\* Link or open the data file; an open file outlives its name.
ReuseData(p) ==
    /\ up /\ task[p].at = "copy"
    /\ LET data == disk[task[p].from].data
       IN  IF data # -1 THEN Finish(p, "reused", data)
           ELSE Goto(p, "create")
    /\ UNCHANGED <<up, mem, index, disk, lru, aged, gc, left, leaked>>

-----------------------------------------------------------------------------
(* The download: RegisterTask, WritePiece, ValidateDigest, Store.          *)

\* CreateTask makes the directory, an empty metadata file and a data file.
CreateFiles(p) ==
    /\ up /\ task[p].at = "create"
    /\ disk' = [disk EXCEPT ![p] = [dir |-> TRUE, meta |-> "empty", data |-> 0]]
    /\ Goto(p, "publish")
    /\ UNCHANGED <<up, mem, index, lru, aged, gc, left, leaked>>

\* It fails once the directory is there, and leaves what it has made.
CreateFails(p) ==
    /\ up /\ task[p].at = "create"
    /\ \E meta \in {"none", "empty"} :
          disk' = [disk EXCEPT ![p] = [dir |-> TRUE, meta |-> meta, data |-> -1]]
    /\ leaked' = leaked \cup {p}
    /\ Finish(p, "failed", -1)
    /\ UNCHANGED <<up, mem, index, lru, aged, gc, left>>

\* ... then puts the store into the map and the index.
Publish(p) ==
    /\ up /\ task[p].at = "publish"
    /\ mem' = [mem EXCEPT ![p] = [NoStore EXCEPT !.known = TRUE, !.writable = TRUE]]
    /\ index' = Append(index, p)
    /\ touch(p)
    /\ Goto(p, "write")
    /\ UNCHANGED <<up, disk, gc, left, leaked>>

\* The manager does not know the store any more, or its file has gone.
Lost(p) == ~mem[p].known \/ disk[p].data = -1

\* Slip: the last piece is asked for twice.
Unfinished_off(n) == n <= NPieces

\* isCompleted: pieces are missing as long as the length is not reached.
Unfinished(n) == n < NPieces

WritePiece(p) ==
    /\ up /\ task[p].at = "write"
    /\ IF Lost(p) THEN Finish(p, "failed", -1) /\ UNCHANGED <<disk, lru, aged>>
       ELSE /\ disk' = [disk EXCEPT ![p].data = @ + 1]
            /\ touch(p)
            /\ task' = [task EXCEPT ![p] =
                   IF Unfinished(disk[p].data + 1) THEN @
                   ELSE IF @.kind = "file" THEN [@ EXCEPT !.at = "validate"]
                   ELSE [@ EXCEPT !.at = "store", !.reader = "pending"]]
    /\ UNCHANGED <<up, mem, index, gc, left, leaked>>

\* ValidateDigest of the store: it becomes invalid if the digest is not good.
Validated(p, good) == [mem EXCEPT ![p].invalid = @ \/ (mem[p].known /\ ~good)]

\* A file is validated before it is stored.  What was downloaded has the right
\* digest or has not.
ValidateDigest(p) ==
    /\ up /\ task[p].at = "validate"
    /\ \E good \in BOOLEAN :
          /\ mem' = Validated(p, good)
          /\ IF good /\ mem[p].known THEN Goto(p, "store") ELSE Finish(p, "failed", -1)
    /\ UNCHANGED <<up, index, disk, lru, aged, gc, left, leaked>>

\* A stream is validated and ended by writeToPipe, which runs beside Done, once
\* its last piece is in the pipe: finish has closed streamDone before it calls Done.
\* The pipe may break before, and then nothing is validated.
StreamCloses(p) ==
    /\ up /\ task[p].reader = "pending"
    /\ \E broken, good \in BOOLEAN :
          LET ok == ~broken /\ good /\ ~Lost(p)
          IN  /\ mem' = IF broken THEN mem ELSE Validated(p, good)
              /\ task' = [task EXCEPT ![p] = [@ EXCEPT
                     !.reader = IF ok THEN "ok" ELSE "bad",
                     !.dest = IF ok THEN disk[p].data ELSE -1]]
    /\ UNCHANGED <<up, index, disk, lru, aged, gc, left, leaked>>

\* Store: done comes first, then the metadata, then the destination.
StoreDone(p) ==
    /\ up /\ task[p].at = "store"
    /\ IF ~mem[p].known THEN Finish(p, "failed", -1) /\ UNCHANGED <<mem, lru, aged>>
       ELSE /\ mem' = [mem EXCEPT ![p].done = TRUE]
            /\ touch(p)
            /\ Goto(p, "save")
    /\ UNCHANGED <<up, index, disk, gc, left, leaked>>

\* The open file is written even if its name has gone.
Saved_lazy(meta) == meta
Saved(meta) == IF meta = "none" THEN "none" ELSE "done"

SaveMetadata(p) ==
    /\ up /\ task[p].at = "save"
    /\ IF mem[p].writable
       THEN /\ disk' = [disk EXCEPT ![p].meta = Saved(@)]
            /\ Goto(p, IF task[p].kind = "file" THEN "link" ELSE "ok")
       ELSE Finish(p, "failed", -1) /\ UNCHANGED disk
    /\ UNCHANGED <<up, mem, index, lru, aged, gc, left, leaked>>

LinkDestination(p) ==
    /\ up /\ task[p].at = "link"
    /\ IF disk[p].data = -1 THEN Finish(p, "failed", -1) ELSE Finish(p, "ok", disk[p].data)
    /\ UNCHANGED <<up, mem, index, disk, lru, aged, gc, left, leaked>>

\* The download is given up: cleanUnfinished leaves the store as it is.
GiveUp(p) ==
    /\ up /\ task[p].at = "write"
    /\ Finish(p, "failed", -1)
    /\ UNCHANGED <<up, mem, index, disk, lru, aged, gc, left, leaked>>

-----------------------------------------------------------------------------
(* TryGC: mark what expired, mark more if the quota asks for it, remove    *)
(* what the round before has marked.                                       *)

Known == {p \in Peers : mem[p].known}
SetGC(g) == gc' = g
unusedByGC == <<up, index, disk, lru, aged, task>>

\* CanReclaim is asked of every store; the marks follow.
TryGC ==
    /\ up /\ gc.at = "idle"
    /\ LET expired == Known \cap aged
       IN  SetGC([gc EXCEPT !.at = "mark", !.todo = expired, !.size = Cardinality(Known \ expired)])
    /\ UNCHANGED <<unusedByGC, mem, left, leaked>>

\* MarkReclaim: leave the task, then mark.
LeftAfter_silent(S) == left
LeftAfter(S) == left \cup S

\* markedTasks: what the next round will remove.
MarkedWith_dropped(S) == gc.marked
MarkedWith(S) == gc.marked \cup S

MarkReclaim ==
    /\ gc.at = "mark"
    /\ \/ \E p \in gc.todo :
             /\ left' = LeftAfter({p})
             /\ mem' = [mem EXCEPT ![p].marked = TRUE]
             /\ SetGC([gc EXCEPT !.todo = @ \ {p}, !.marked = MarkedWith({p})])
       \/ gc.todo = {} /\ SetGC([gc EXCEPT !.at = "shed"]) /\ UNCHANGED <<mem, left>>
    /\ UNCHANGED <<unusedByGC, leaked>>

\* Over the quota, or the disk too full by some bytes: mark the least recently
\* accessed stores, except those still being written, until it is enough.
Shed ==
    /\ gc.at = "shed"
    /\ \E usage \in 0..1, active \in SUBSET {p \in Known \ aged : ~mem[p].done} :
          LET exceed == usage > 0 \/ (Quota > 0 /\ gc.size > Quota)
              over == IF exceed THEN Max({gc.size - Quota, usage}) ELSE 0
              candidates == {p \in Known \ active : ~mem[p].marked}
              picked == {p \in candidates :
                            Cardinality({q \in candidates : Before(lru, q, p)}) < over}
          IN  /\ left' = LeftAfter(picked)
              /\ mem' = [p \in Peers |-> [mem[p] EXCEPT !.marked = @ \/ p \in picked]]
              /\ SetGC([gc EXCEPT !.at = "next", !.todo = gc.prev, !.size = 0, !.marked = MarkedWith(picked)])
    /\ UNCHANGED <<unusedByGC, leaked>>

\* The next store the round before has marked; if none is left, the round ends.
ReclaimNext ==
    /\ gc.at = "next"
    /\ \/ \E p \in gc.todo :
             IF mem[p].known
             THEN /\ mem' = [mem EXCEPT ![p].known = FALSE]
                  /\ SetGC([gc EXCEPT !.at = "unindex", !.todo = @ \ {p}, !.cur = p])
             ELSE SetGC([gc EXCEPT !.todo = @ \ {p}]) /\ UNCHANGED mem
       \/ /\ gc.todo = {} /\ ~gc.force
          /\ SetGC([NoGC EXCEPT !.prev = gc.marked]) /\ UNCHANGED mem
    /\ UNCHANGED <<unusedByGC, left, leaked>>

CleanIndex ==
    /\ gc.at = "unindex"
    /\ index' \in Without(index, {gc.cur})
    /\ lru' \in Without(lru, {gc.cur})
    /\ aged' = aged \ {gc.cur}
    /\ SetGC([gc EXCEPT !.at = IF gc.force THEN "forced" ELSE "data"])
    /\ UNCHANGED <<up, mem, disk, task, left, leaked>>

\* forceGC marks after it has unlinked.
ForcedMark ==
    /\ gc.at = "forced"
    /\ left' = LeftAfter({gc.cur})
    /\ mem' = [mem EXCEPT ![gc.cur].marked = TRUE]
    /\ SetGC([gc EXCEPT !.at = "data"])
    /\ UNCHANGED <<unusedByGC, leaked>>

\* Reclaim: the data, the metadata, the directory.
ReclaimData ==
    /\ gc.at = "data"
    /\ disk' = [disk EXCEPT ![gc.cur].data = -1]
    /\ SetGC([gc EXCEPT !.at = "meta"])
    /\ UNCHANGED <<up, mem, index, lru, aged, task, left, leaked>>

ReclaimMeta ==
    /\ gc.at = "meta"
    /\ mem' = [mem EXCEPT ![gc.cur].writable = FALSE]
    /\ disk' = [disk EXCEPT ![gc.cur].meta = "none"]
    /\ SetGC([gc EXCEPT !.at = "dir"])
    /\ UNCHANGED <<up, index, lru, aged, task, left, leaked>>

ReclaimDir ==
    /\ gc.at = "dir"
    /\ disk' = [disk EXCEPT ![gc.cur] = NoDir]
    /\ mem' = [mem EXCEPT ![gc.cur] = NoStore]   \* nobody holds the store any more
    /\ SetGC([gc EXCEPT !.at = "next", !.marked = @ \ {gc.cur}, !.cur = Nobody])
    /\ UNCHANGED <<up, index, lru, aged, task, left, leaked>>

\* A file cannot be removed: the store is in no map any more and stays on disk.
ReclaimFails ==
    /\ gc.at \in {"data", "meta", "dir"}
    /\ leaked' = leaked \cup {gc.cur}
    /\ SetGC([gc EXCEPT !.at = "next", !.cur = Nobody])
    /\ UNCHANGED <<up, mem, index, disk, lru, aged, task, left>>

-----------------------------------------------------------------------------
(* The daemon stops, dies and comes back.                                  *)

\* Stop: CleanUp, unless the storage is to be kept.
CleanUp ==
    /\ up /\ gc.at = "idle" /\ ~KeepStorage
    /\ SetGC([gc EXCEPT !.at = "next", !.todo = Known, !.force = TRUE])
    /\ UNCHANGED <<unusedByGC, mem, left, leaked>>

Crash ==
    /\ up
    /\ up' = FALSE
    /\ mem' = [p \in Peers |-> NoStore]
    /\ index' = <<>> /\ lru' = <<>> /\ aged' = {}
    /\ task' = [p \in Peers |-> [NoTask EXCEPT
                   !.at = IF task[p].at \in Ended THEN task[p].at ELSE "failed",
                   !.reader = IF task[p].reader = "pending" THEN "bad" ELSE task[p].reader,
                   !.dest = task[p].dest]]
    /\ gc' = NoGC
    /\ leaked' = {}
    /\ UNCHANGED <<disk, left>>

\* ReloadPersistentTask: a directory whose metadata can be read is a store
\* again, with what the metadata says; every other directory is removed.
Loadable(p) == disk[p].dir /\ disk[p].meta = "done"
Kept_all(p) == disk[p].dir
Kept(p) == Loadable(p)

Reload ==
    /\ ~up
    /\ up' = TRUE
    /\ mem' = [p \in Peers |-> IF Loadable(p)
                               THEN [NoStore EXCEPT !.known = TRUE, !.done = TRUE]
                               ELSE NoStore]
    /\ \E s \in SetToSeqs({p \in Peers : Loadable(p)}) : index' = s /\ lru' = s
    /\ disk' = [p \in Peers |-> IF Kept(p) THEN disk[p] ELSE NoDir]
    /\ UNCHANGED <<aged, task, gc, left, leaked>>

-----------------------------------------------------------------------------
TaskStep(p) ==
    \/ FindCompletedTask(p) \/ Reuse(p) \/ ReuseData(p) \/ CreateFiles(p) \/ Publish(p)
    \/ WritePiece(p) \/ ValidateDigest(p) \/ StoreDone(p) \/ SaveMetadata(p) \/ LinkDestination(p)
    \/ StreamCloses(p)

GCStep == TryGC \/ MarkReclaim \/ Shed \/ ReclaimNext \/ CleanIndex \/ ForcedMark
            \/ ReclaimData \/ ReclaimMeta \/ ReclaimDir

Routine == (\E p \in Peers : Start(p) \/ TaskStep(p) \/ Access(p)) \/ GCStep \/ Age \/ Reload

Disturbance == (\E p \in Peers : GiveUp(p) \/ CreateFails(p)) \/ ReclaimFails \/ CleanUp \/ Crash

Next == Routine \/ Disturbance

Spec == Init /\ [][Next]_vars

-----------------------------------------------------------------------------
\* Clients that were told of success; a stream tells its reader, by EOF.
Told(p) == task[p].reader = "ok" \/ (task[p].at \in {"ok", "reused"} /\ task[p].reader = "none")

(* What a client that was told of success, by its own download, by the EOF *)
(* of its stream or by a reused store, was given is the whole content:     *)
(* Done is only set, and the metadata only saved, once every piece is in   *)
(* the data file, and a file being removed under its reader is either      *)
(* found whole or not at all.                                              *)
ReusedIsWhole == \A p \in Peers : Told(p) => task[p].dest = NPieces

(* A download whose success goes to the scheduler, which then sends other  *)
(* peers to it, is found again after every crash and restart until the     *)
(* peer leaves: the metadata is on disk before success is reported.  The   *)
(* reader of a stream may have had its EOF before that, or without it.     *)
CompletedSurvives ==
    up => \A p \in Peers :
             task[p].at = "ok" /\ p \notin left /\ p # gc.cur => mem[p].known /\ mem[p].done

(* Every directory on disk belongs to a store the manager can still remove *)
(* one day, to a download that is creating it, or to the store being       *)
(* removed right now; only a removal or a creation that failed leaks one,  *)
(* until the daemon starts again.                                          *)
NoStrayDirectory ==
    up => \A p \in Peers :
             disk[p].dir => mem[p].known \/ p = gc.cur \/ p \in leaked \/ task[p].at = "publish"

(* The daemon in service never takes the data of a store away before it    *)
(* has called gcCallback, which tells the scheduler that the peer leaves:  *)
(* other peers are being sent to it until then.                            *)
LeaveBeforeRemoval ==
    [][\A p \in Peers : up /\ disk[p].data # -1 /\ disk'[p].data = -1 => p \in left]_vars

(* A marked store, which nobody reuses any more, is not forgotten: it is on *)
(* the list of this round or of the round before, however often it is      *)
(* touched in between, so a later round unlinks it.                        *)
MarkedIsListed ==
    \A p \in Peers : mem[p].known /\ mem[p].marked => p \in gc.marked \cup gc.prev
=============================================================================
