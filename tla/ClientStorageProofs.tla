------------------------- MODULE ClientStorageProofs -------------------------
(***************************************************************************)
(* Proofs about ClientStorage, for any finite set of downloads, any number *)
(* of pieces and any quota: what clients are given is whole, what succeeded*)
(* survives crashes, nothing on disk is forgotten, and the collector tells *)
(* the scheduler before it removes.                                        *)
(***************************************************************************)
EXTENDS ClientStorage, FiniteSetTheorems, TLAPS

\* Stages before a download has a store of its own; a reused one never has.
Early == {"idle", "find", "reuse", "copy", "create", "reused"}
\* Stages in which the store of the download has a place in the manager.
Owning == {"write", "validate", "store", "save", "link", "ok"}
\* Stages of the collector in which it removes one store.
Removing == {"unindex", "forced", "data", "meta", "dir"}

\* The collector: what it holds, and whether it has told the scheduler.
Collector ==
    /\ gc.at \in Removing <=> gc.cur \in Peers
    /\ gc.at \in {"idle", "mark", "shed"} => ~gc.force
    /\ gc.at = "forced" => gc.force
    /\ gc.marked \subseteq left /\ gc.prev \subseteq left
    /\ gc.at \in Removing \cup {"next"} /\ ~gc.force => gc.todo \subseteq left
    /\ gc.cur \in Peers /\ (~gc.force \/ gc.at \in {"data", "meta", "dir"}) => gc.cur \in left
    /\ gc.cur \in Peers => ~mem[gc.cur].known

\* A daemon that is down holds nothing in memory.
Down == ~up => /\ gc = NoGC
               /\ \A p \in Peers : mem[p] = NoStore /\ task[p].at \in Ended

\* Before a download publishes its store, nobody knows of it.
UnknownOf(p) ==
    task[p].at \in Early \cup {"publish"} =>
        /\ mem[p] = NoStore
        /\ p \notin gc.todo /\ p \notin gc.marked /\ p \notin gc.prev /\ p # gc.cur
        /\ task[p].at # "publish" => disk[p] = NoDir
        /\ task[p].at = "publish" => disk[p] = [dir |-> TRUE, meta |-> "empty", data |-> 0]

\* All pieces are in the data file, unless it was removed, and that stays so.
Whole(p) == /\ disk[p].data \in {-1, NPieces}
            /\ task[p].at \in (Owning \ {"write"}) \cup {"failed"}
ContentOf(p) ==
    /\ task[p].at = "write" => disk[p].data < NPieces
    /\ task[p].at \in {"validate", "store", "save", "link"} => Whole(p)
    /\ task[p].reader = "pending" => Whole(p)
    /\ task[p].at \in {"validate", "store", "save"} /\ task[p].kind = "stream" => task[p].reader # "none"
    /\ mem[p].done \/ disk[p].meta = "done" => Whole(p)
    /\ task[p].at \in {"reuse", "copy"} => task[p].from \in Peers /\ Whole(task[p].from)
    /\ Told(p) => task[p].dest = NPieces

\* As long as the scheduler was not told that the peer leaves, its store is there.
SurvivesOf(p) ==
    /\ task[p].at \in Owning /\ p \notin left =>
         /\ disk[p].dir /\ disk[p].meta # "none"
         /\ up /\ p # gc.cur => mem[p].known
    /\ task[p].at \in {"save", "link", "ok"} /\ mem[p].known => mem[p].done
    /\ task[p].at \in {"link", "ok"} /\ p \notin left => disk[p].meta = "done"

DirOf(p) == disk[p].dir => mem[p].known \/ p = gc.cur \/ p \in leaked \/ task[p].at = "publish"

\* A marked store is listed; what the round before has marked is unlinked by the
\* end of this one.
ListedOf(p) ==
    /\ mem[p].known /\ mem[p].marked => p \in gc.marked \/ p \in gc.prev
    /\ gc.at \in Removing \cup {"next"} /\ ~gc.force /\ p \in gc.prev
         => p \in gc.todo \/ ~mem[p].known

PeerInv(p) == /\ UnknownOf(p) /\ ContentOf(p) /\ SurvivesOf(p) /\ ListedOf(p)
              /\ up => DirOf(p)

StorageInv == TypeOK /\ Collector /\ Down /\ \A p \in Peers : PeerInv(p)

-----------------------------------------------------------------------------
\* A step of the download p: only its own records change.
LEMMA LocalStep ==
    ASSUME StorageInv, NEW p \in Peers, TypeOK', up, UNCHANGED <<up, gc, left>>,
           leaked \subseteq leaked',
           \A q \in Peers : q # p => task'[q] = task[q] /\ mem'[q] = mem[q] /\ disk'[q] = disk[q],
           UnknownOf(p)', ContentOf(p)', SurvivesOf(p)', DirOf(p)',
           Whole(p) => Whole(p)', mem'[p].marked => mem[p].marked,
           mem'[p].known => mem[p].known \/ task[p].at = "publish"
    PROVE  StorageInv'
<1>1. gc' = gc /\ left' = left /\ leaked \subseteq leaked' /\ up' = up
  OBVIOUS
<1>2. /\ UnknownOf(p) /\ ListedOf(p) /\ Collector
      /\ \A q \in Peers : PeerInv(q)
  BY DEF StorageInv, PeerInv
<1>3. Collector'
  BY <1>1, <1>2 DEF Collector, UnknownOf
<1>4. Down'
  BY <1>1 DEF Down
<1>5. ListedOf(p)'
  BY <1>1, <1>2 DEF ListedOf, UnknownOf, NoStore
<1>6. ASSUME NEW q \in Peers, q # p PROVE PeerInv(q)'
  <2>1. task'[q] = task[q] /\ mem'[q] = mem[q] /\ disk'[q] = disk[q]
    BY <1>6
  <2>2. UnknownOf(q) /\ ContentOf(q) /\ SurvivesOf(q) /\ ListedOf(q) /\ DirOf(q)
    BY <1>2, <1>6 DEF PeerInv
  <2>3. UnknownOf(q)' /\ SurvivesOf(q)' /\ ListedOf(q)' /\ DirOf(q)'
    BY <1>1, <2>1, <2>2 DEF UnknownOf, SurvivesOf, ListedOf, DirOf
  <2>4. \A r \in Peers : Whole(r) => Whole(r)'
    BY DEF Whole
  <2>5. ContentOf(q)'
    BY <1>6, <2>1, <2>2, <2>4 DEF ContentOf, Told
  <2> QED BY <2>3, <2>5 DEF PeerInv
<1>7. PeerInv(p)'
  BY <1>5 DEF PeerInv
<1> QED BY <1>3, <1>4, <1>6, <1>7 DEF StorageInv

\* A list without some of its peers is a list of peers.
LEMMA ListTypes ==
    ASSUME NEW s \in Seq(Peers), NEW S
    PROVE  Without(s, S) \subseteq Seq(Peers)
<1>1. SUFFICES ASSUME NEW t \in Without(s, S) PROVE t \in Seq(Peers)
  OBVIOUS
<1> DEFINE T == ToSet(s) \ S
<1>2. T \subseteq Peers
  BY DEF ToSet
<1>3. IsFiniteSet(T) /\ Cardinality(T) \in Nat
  BY <1>2, StorageBounds, FS_Subset, FS_CardinalityType
<1>4. t \in [1..Cardinality(T) -> T]
  BY DEF Without, SetToSeqs
<1> HIDE DEF T
<1> QED BY <1>2, <1>3, <1>4

\* The lists stay lists of peers when a store is touched.
LEMMA TouchTypes ==
    ASSUME TypeOK, NEW p \in Peers, touch(p)
    PROVE  lru' \in Seq(Peers) /\ aged' \subseteq Peers
<1>1. PICK rest \in Without(lru, {p}) : lru' = Append(rest, p)
  BY DEF touch
<1>2. rest \in Seq(Peers)
  BY ListTypes DEF TypeOK
<1> QED BY <1>1, <1>2 DEF TypeOK, touch

\* FindCompletedTask touches stores it looked at: the order of access stays one of peers.
LEMMA TouchFirstTypes ==
    ASSUME TypeOK, NEW n \in 0..Len(index), TouchFirst(n)
    PROVE  lru' \in Seq(Peers) /\ aged' \subseteq Peers
<1>1. index \in Seq(Peers) /\ lru \in Seq(Peers) /\ aged \subseteq Peers
  BY DEF TypeOK
<1>2. SubSeq(index, 1, n) \in Seq(Peers)
  BY <1>1
<1>3. PICK seen \in Without(SubSeq(index, 1, n), {q \in Peers : mem[q].invalid}) :
         /\ \E rest \in Without(lru, ToSet(seen)) : lru' = rest \o seen
         /\ aged' = aged \ ToSet(seen)
  BY DEF TouchFirst
<1>4. PICK rest \in Without(lru, ToSet(seen)) : lru' = rest \o seen
  BY <1>3
<1>5. seen \in Seq(Peers) /\ rest \in Seq(Peers)
  BY <1>1, <1>2, ListTypes
<1> QED BY <1>1, <1>3, <1>4, <1>5

\* What the invariant says of one download, in terms of its own records.
LEMMA Facts ==
    ASSUME StorageInv, NEW p \in Peers
    PROVE  /\ UnknownOf(p) /\ ContentOf(p) /\ SurvivesOf(p) /\ ListedOf(p) /\ (up => DirOf(p))
           /\ task[p] \in TaskType /\ mem[p] \in StoreType /\ disk[p] \in DiskType /\ TypeOK
           /\ NPieces \in Nat \ {0}
  BY StorageBounds DEF StorageInv, PeerInv, TypeOK

\* A step of p that keeps its store and its files.
LEMMA TaskOnly ==
    ASSUME StorageInv, NEW p \in Peers, up, NEW t \in TaskType, task' = [task EXCEPT ![p] = t],
           UNCHANGED <<up, mem, index, disk, gc, left, leaked>>,
           lru' \in Seq(Peers), aged' \subseteq Peers,
           t.reader = task[p].reader, t.reader # "none" => t.dest = task[p].dest,
           \/ /\ task[p].at \in Early /\ t.at \in Early
              /\ t.at \in {"reuse", "copy"} => t.from \in Peers /\ Whole(t.from)
              /\ t.at = "reused" /\ t.reader = "none" => t.dest = NPieces
           \/ task[p].at \in Owning /\ t.at = "failed"
           \/ task[p].at = "link" /\ t.at = "ok" /\ (t.reader = "none" => t.dest = NPieces)
    PROVE  StorageInv'
<1>1. /\ UnknownOf(p) /\ ContentOf(p) /\ SurvivesOf(p) /\ DirOf(p)
      /\ TypeOK /\ task' \in [Peers -> TaskType] /\ task'[p] = t
      /\ \A q \in Peers : q # p => task'[q] = task[q]
  BY Facts DEF TypeOK
<1>2. TypeOK'
  BY <1>1 DEF TypeOK
<1>3. /\ UnknownOf(p)' /\ SurvivesOf(p)' /\ DirOf(p)'
  BY <1>1 DEF UnknownOf, SurvivesOf, DirOf, Early, Owning
<1>4. Whole(p) => Whole(p)'
  BY <1>1 DEF Whole, Early, Owning
<1>5. t.at \in {"reuse", "copy"} => t.from \in Peers /\ Whole(t.from)'
  BY <1>1 DEF Whole, Early, Owning
<1>6. ContentOf(p)'
  <2>1. task[p].at \in Early => ~mem[p].done /\ disk[p].meta # "done"
    BY <1>1 DEF UnknownOf, NoStore, NoDir, Early
  <2>2. task'[p].at = "write" => disk'[p].data < NPieces
    BY <1>1 DEF Early, Owning
  <2>3. task'[p].at \notin {"validate", "store", "save", "link"}
    BY <1>1 DEF Early
  <2>4. mem'[p].done \/ disk'[p].meta = "done" => Whole(p)'
    BY <1>1, <1>4, <2>1 DEF ContentOf
  <2>5. Told(p)' => task'[p].dest = NPieces
    BY <1>1 DEF Early, Owning, Told, ContentOf
  <2>6. task'[p].reader = "pending" => Whole(p)'
    BY <1>1, <1>4 DEF ContentOf
  <2> QED BY <1>1, <1>5, <2>2, <2>3, <2>4, <2>5, <2>6 DEF ContentOf
<1>7. mem'[p].marked => mem[p].marked
  OBVIOUS
<1>8. mem'[p].known => mem[p].known \/ task[p].at = "publish"
  OBVIOUS
<1> QED BY <1>1, <1>2, <1>3, <1>4, <1>6, <1>7, <1>8, LocalStep

\* Goto changes the place of a download and nothing it holds.
LEMMA GotoIs ==
    ASSUME TypeOK, NEW p \in Peers, NEW stage \in Stages, Goto(p, stage)
    PROVE  \E t \in TaskType : /\ task' = [task EXCEPT ![p] = t] /\ t.at = stage
                               /\ t.from = task[p].from /\ t.dest = task[p].dest
                               /\ t.kind = task[p].kind /\ t.reader = task[p].reader
<1> DEFINE t == [task[p] EXCEPT !.at = stage]
<1>1. task[p] \in TaskType
  BY DEF TypeOK
<1>2. t \in TaskType /\ t.at = stage /\ t.from = task[p].from /\ t.dest = task[p].dest
      /\ t.kind = task[p].kind /\ t.reader = task[p].reader
  BY <1>1 DEF TaskType
<1>3. task' = [task EXCEPT ![p] = t]
  BY DEF Goto
<1> QED BY <1>2, <1>3

\* Finish ends a download with its destination, and leaves the reader of a stream alone.
LEMMA FinishIs ==
    ASSUME TypeOK, NEW p \in Peers, NEW stage \in Stages, NEW dest \in (-1)..NPieces, Finish(p, stage, dest)
    PROVE  \E t \in TaskType : /\ task' = [task EXCEPT ![p] = t] /\ t.at = stage
                               /\ t.reader = task[p].reader
                               /\ t.dest = IF t.reader = "none" THEN dest ELSE task[p].dest
<1> DEFINE t == IF task[p].reader = "none" THEN [NoTask EXCEPT !.at = stage, !.dest = dest]
                ELSE [task[p] EXCEPT !.at = stage]
<1>1. task[p] \in TaskType
  BY DEF TypeOK
<1>2. t \in TaskType /\ t.at = stage /\ t.reader = task[p].reader
      /\ t.dest = IF t.reader = "none" THEN dest ELSE task[p].dest
  BY <1>1 DEF TaskType, NoTask
<1>3. task' = [task EXCEPT ![p] = t]
  BY DEF Finish
<1> QED BY <1>2, <1>3

\* A download starts with nothing of its own.
LEMMA StartOK ==
    ASSUME StorageInv, NEW p \in Peers, Start(p)
    PROVE  StorageInv'
<1>1. PICK k \in {"file", "stream"} : task' = [task EXCEPT ![p].at = "find", ![p].kind = k]
  BY DEF Start
<1> DEFINE t == [[task[p] EXCEPT !.at = "find"] EXCEPT !.kind = k]
<1>2. t \in TaskType /\ t.at = "find" /\ t.reader = task[p].reader /\ t.dest = task[p].dest
  BY Facts DEF TaskType, Stages
<1>3. task' = [task EXCEPT ![p] = t]
  BY <1>1, Facts DEF TypeOK
<1>4. task[p].at \in Early /\ t.at \in Early /\ ~(t.at \in {"reuse", "copy", "reused"})
  BY <1>2 DEF Start, Early
<1> HIDE DEF t
<1>5. lru' \in Seq(Peers) /\ aged' \subseteq Peers
  BY Facts DEF Start, TypeOK
<1> QED BY <1>2, <1>3, <1>4, <1>5, TaskOnly DEF Start

\* FindCompletedTask: the store found is done and not invalid.
LEMMA FindOK ==
    ASSUME StorageInv, NEW p \in Peers, FindCompletedTask(p)
    PROVE  StorageInv'
<1>0. TypeOK /\ task[p] \in TaskType /\ index \in Seq(Peers) /\ up
      /\ UNCHANGED <<up, mem, index, disk, gc, left, leaked>> /\ task[p].at = "find"
  BY Facts DEF TypeOK, FindCompletedTask
<1>1. ASSUME NEW i \in DOMAIN index, Reusable(index[i]), TouchFirst(i),
             task' = [task EXCEPT ![p].at = "reuse", ![p].from = index[i]]
      PROVE  StorageInv'
  <2>1. index[i] \in Peers /\ i \in 0..Len(index)
    BY <1>0
  <2>2. Whole(index[i])
    BY <1>1, <2>1, Facts DEF Reusable, ContentOf
  <2> DEFINE t == [[task[p] EXCEPT !.at = "reuse"] EXCEPT !.from = index[i]]
  <2>3. t \in TaskType /\ t.at = "reuse" /\ t.from = index[i] /\ t.reader = task[p].reader
        /\ t.dest = task[p].dest
    BY <1>0, <2>1 DEF TaskType, Stages
  <2>4. task' = [task EXCEPT ![p] = t]
    BY <1>0, <1>1 DEF TypeOK
  <2> HIDE DEF t
  <2>5. lru' \in Seq(Peers) /\ aged' \subseteq Peers
    BY <1>0, <1>1, <2>1, TouchFirstTypes
  <2> QED BY <1>0, <2>1, <2>2, <2>3, <2>4, <2>5, TaskOnly DEF Early
<1>2. ASSUME TouchFirst(Len(index)), Goto(p, "create") PROVE StorageInv'
  <2>1. PICK t \in TaskType : /\ task' = [task EXCEPT ![p] = t] /\ t.at = "create"
                              /\ t.reader = task[p].reader /\ t.dest = task[p].dest
    BY <1>0, <1>2, GotoIs DEF Stages
  <2>2. Len(index) \in 0..Len(index)
    BY <1>0
  <2>3. lru' \in Seq(Peers) /\ aged' \subseteq Peers
    BY <1>0, <1>2, <2>2, TouchFirstTypes
  <2> QED BY <1>0, <2>1, <2>3, TaskOnly DEF Early
<1> QED BY <1>1, <1>2 DEF FindCompletedTask

\* The reused store is copied, if it is still there.
LEMMA ReuseOK ==
    ASSUME StorageInv, NEW p \in Peers, Reuse(p) \/ ReuseData(p)
    PROVE  StorageInv'
<1>0. /\ TypeOK /\ up /\ task[p].at \in {"reuse", "copy"} /\ ContentOf(p)
      /\ task[p].from \in Peers /\ Whole(task[p].from)
      /\ UNCHANGED <<up, mem, index, disk, gc, left, leaked>>
  BY Facts DEF Reuse, ReuseData, ContentOf
<1>1. lru' \in Seq(Peers) /\ aged' \subseteq Peers
  <2>1. ASSUME UNCHANGED <<lru, aged>> PROVE lru' \in Seq(Peers) /\ aged' \subseteq Peers
    BY <1>0, <2>1 DEF TypeOK
  <2> QED BY <1>0, <2>1, TouchTypes DEF Reuse, ReuseData
<1>2. ASSUME NEW l \in {"copy", "create"}, Goto(p, l) PROVE StorageInv'
  <2>1. PICK t \in TaskType : /\ task' = [task EXCEPT ![p] = t] /\ t.at = l /\ t.from = task[p].from
                              /\ t.reader = task[p].reader /\ t.dest = task[p].dest
    BY <1>0, <1>2, GotoIs DEF Stages
  <2> QED BY <1>0, <1>1, <2>1, TaskOnly DEF Early
<1>3. ASSUME ReuseData(p), disk[task[p].from].data # -1, Finish(p, "reused", disk[task[p].from].data)
      PROVE  StorageInv'
  <2>1. disk[task[p].from].data = NPieces /\ NPieces \in (-1)..NPieces
    BY <1>0, <1>3, Facts DEF Whole
  <2>2. PICK t \in TaskType : /\ task' = [task EXCEPT ![p] = t] /\ t.at = "reused"
                              /\ t.reader = task[p].reader
                              /\ t.dest = IF t.reader = "none" THEN NPieces ELSE task[p].dest
    BY <1>0, <1>3, <2>1, FinishIs DEF Stages
  <2> QED BY <1>0, <1>1, <2>2, TaskOnly DEF Early
<1> QED BY <1>2, <1>3 DEF Reuse, ReuseData

\* CreateTask makes the directory.
LEMMA CreateFilesOK ==
    ASSUME StorageInv, NEW p \in Peers, CreateFiles(p)
    PROVE  StorageInv'
<1> DEFINE d == [dir |-> TRUE, meta |-> "empty", data |-> 0]
<1>1. /\ TypeOK /\ up /\ task[p].at = "create" /\ UnknownOf(p) /\ mem[p] = NoStore /\ 0 \in (-1)..NPieces
      /\ UNCHANGED <<up, mem, index, lru, aged, gc, left, leaked>>
      /\ disk' = [disk EXCEPT ![p] = d]
  BY Facts DEF CreateFiles, UnknownOf, Early
<1>2. PICK t \in TaskType : /\ task' = [task EXCEPT ![p] = t] /\ t.at = "publish"
                            /\ t.reader = task[p].reader /\ t.dest = task[p].dest
  BY <1>1, GotoIs DEF CreateFiles, Stages
<1>3. d \in DiskType
  BY <1>1 DEF DiskType
<1>4. /\ task' \in [Peers -> TaskType] /\ task'[p] = t /\ disk' \in [Peers -> DiskType] /\ disk'[p] = d
      /\ \A q \in Peers : q # p => task'[q] = task[q] /\ disk'[q] = disk[q]
  BY <1>1, <1>2, <1>3 DEF TypeOK
<1>5. TypeOK'
  BY <1>1, <1>4 DEF TypeOK
<1>6. UnknownOf(p)' /\ SurvivesOf(p)' /\ DirOf(p)'
  BY <1>1, <1>2, <1>4 DEF UnknownOf, SurvivesOf, DirOf, Early, Owning, NoStore
<1>7. ContentOf(p)' /\ ~Whole(p)
  BY <1>1, <1>2, <1>4, Facts DEF ContentOf, Whole, NoStore, Owning, Told
<1> QED BY <1>1, <1>4, <1>5, <1>6, <1>7, LocalStep

\* CreateTask fails: the directory it has made belongs to nobody.
LEMMA CreateFailsOK ==
    ASSUME StorageInv, NEW p \in Peers, CreateFails(p)
    PROVE  StorageInv'
<1>1. /\ TypeOK /\ up /\ task[p].at = "create" /\ UnknownOf(p) /\ ContentOf(p) /\ mem[p] = NoStore
      /\ -1 \in (-1)..NPieces /\ UNCHANGED <<up, mem, index, lru, aged, gc, left>>
      /\ leaked' = leaked \cup {p}
  BY Facts DEF CreateFails, UnknownOf, Early
<1>2. PICK meta \in {"none", "empty"} :
         disk' = [disk EXCEPT ![p] = [dir |-> TRUE, meta |-> meta, data |-> -1]]
  BY DEF CreateFails
<1> DEFINE d == [dir |-> TRUE, meta |-> meta, data |-> -1]
<1>3. PICK t \in TaskType : /\ task' = [task EXCEPT ![p] = t] /\ t.at = "failed"
                            /\ t.reader = task[p].reader
                            /\ t.dest = IF t.reader = "none" THEN -1 ELSE task[p].dest
  BY <1>1, FinishIs DEF CreateFails, Stages
<1>4. d \in DiskType
  BY <1>1 DEF DiskType
<1>5. /\ task' \in [Peers -> TaskType] /\ task'[p] = t /\ disk' \in [Peers -> DiskType] /\ disk'[p] = d
      /\ \A q \in Peers : q # p => task'[q] = task[q] /\ disk'[q] = disk[q]
  BY <1>1, <1>2, <1>3, <1>4 DEF TypeOK
<1>6. TypeOK'
  BY <1>1, <1>5 DEF TypeOK
<1>7. UnknownOf(p)' /\ SurvivesOf(p)' /\ DirOf(p)'
  BY <1>1, <1>3, <1>5 DEF UnknownOf, SurvivesOf, DirOf, Early, Owning, NoStore
<1>8. ContentOf(p)' /\ ~Whole(p)
  BY <1>1, <1>3, <1>5 DEF ContentOf, Whole, NoStore, Owning, Told
<1> QED BY <1>1, <1>5, <1>6, <1>7, <1>8, LocalStep

\* CreateTask puts the store into the two maps.
LEMMA PublishOK ==
    ASSUME StorageInv, NEW p \in Peers, Publish(p)
    PROVE  StorageInv'
<1> DEFINE m == [NoStore EXCEPT !.known = TRUE, !.writable = TRUE]
<1>1. /\ TypeOK /\ up /\ task[p].at = "publish" /\ UnknownOf(p) /\ mem[p] = NoStore
      /\ disk[p] = [dir |-> TRUE, meta |-> "empty", data |-> 0]
      /\ UNCHANGED <<up, disk, gc, left, leaked>> /\ mem' = [mem EXCEPT ![p] = m]
      /\ lru' \in Seq(Peers) /\ aged' \subseteq Peers /\ NPieces \in Nat \ {0}
  BY Facts, TouchTypes DEF Publish, UnknownOf
<1>2. PICK t \in TaskType : /\ task' = [task EXCEPT ![p] = t] /\ t.at = "write"
                            /\ t.reader = task[p].reader /\ t.dest = task[p].dest
  BY <1>1, GotoIs DEF Publish, Stages
<1>3. m \in StoreType /\ m.known /\ ~m.done /\ ~m.marked
  BY DEF StoreType, NoStore
<1> HIDE DEF m
<1>4. /\ task' \in [Peers -> TaskType] /\ task'[p] = t /\ mem' \in [Peers -> StoreType] /\ mem'[p] = m
      /\ \A q \in Peers : q # p => task'[q] = task[q] /\ mem'[q] = mem[q]
  BY <1>1, <1>2, <1>3 DEF TypeOK
<1>5. TypeOK'
  BY <1>1, <1>4 DEF TypeOK, Publish
<1>6. UnknownOf(p)' /\ SurvivesOf(p)' /\ DirOf(p)'
  BY <1>1, <1>2, <1>3, <1>4 DEF UnknownOf, SurvivesOf, DirOf, Early, Owning
<1>7. ContentOf(p)' /\ ~Whole(p)
  BY <1>1, <1>2, <1>3, <1>4, Facts DEF ContentOf, Whole, Owning, Told
<1> QED BY <1>1, <1>3, <1>4, <1>5, <1>6, <1>7, LocalStep

\* A download that fails leaves its store to the collector.
LEMMA FailsOK ==
    ASSUME StorageInv, NEW p \in Peers, up, task[p].at \in Owning, Finish(p, "failed", -1),
           UNCHANGED <<up, mem, index, disk, lru, aged, gc, left, leaked>>
    PROVE  StorageInv'
<1>1. -1 \in (-1)..NPieces /\ lru' \in Seq(Peers) /\ aged' \subseteq Peers /\ TypeOK
  BY Facts DEF TypeOK
<1>2. PICK t \in TaskType : /\ task' = [task EXCEPT ![p] = t] /\ t.at = "failed"
                            /\ t.reader = task[p].reader
                            /\ t.dest = IF t.reader = "none" THEN -1 ELSE task[p].dest
  BY <1>1, FinishIs DEF Stages
<1> QED BY <1>1, <1>2, TaskOnly

\* WritePiece adds one piece to data and metadata.
LEMMA WritePieceOK ==
    ASSUME StorageInv, NEW p \in Peers, WritePiece(p)
    PROVE  StorageInv'
<1>1. /\ TypeOK /\ up /\ task[p].at = "write" /\ ContentOf(p) /\ SurvivesOf(p) /\ DirOf(p)
      /\ disk[p] \in DiskType /\ task[p] \in TaskType
      /\ UNCHANGED <<up, mem, index, gc, left, leaked>> /\ NPieces \in Nat \ {0}
  BY Facts DEF WritePiece
<1>2. ASSUME Lost(p) PROVE StorageInv'
  BY <1>1, <1>2, FailsOK DEF WritePiece, Owning
<1>3. ASSUME ~Lost(p) PROVE StorageInv'
  <2>1. /\ disk' = [disk EXCEPT ![p].data = @ + 1] /\ touch(p)
        /\ disk[p].data # -1
    BY <1>3 DEF WritePiece, Lost
  <2> DEFINE n == disk[p].data + 1
             t == IF Unfinished(n) THEN task[p]
                  ELSE IF task[p].kind = "file" THEN [task[p] EXCEPT !.at = "validate"]
                  ELSE [task[p] EXCEPT !.at = "store", !.reader = "pending"]
             l == t.at
  <2>5. task' = [task EXCEPT ![p] = t]
    BY <1>3 DEF WritePiece
  <2>14. n \in 0..NPieces /\ (Unfinished(n) => n < NPieces) /\ (~Unfinished(n) => n = NPieces)
    BY <1>1, <2>1 DEF ContentOf, DiskType, Unfinished
  <2> HIDE DEF n
  <2>4. /\ n \in 0..NPieces /\ l \in {"write", "validate", "store"}
        /\ l = "write" => n < NPieces
        /\ l # "write" => n = NPieces
        /\ l # "write" /\ t.kind = "stream" => t.reader = "pending"
        /\ t.reader \in {task[p].reader, "pending"} /\ t.dest = task[p].dest
        /\ l # "store" => t.reader = task[p].reader
    BY <1>1, <2>14 DEF TaskType
  <2>6. t \in TaskType /\ t.at = l
    BY <1>1 DEF TaskType, Stages
  <2> HIDE DEF l, t
  <2> DEFINE d == [disk[p] EXCEPT !.data = n]
  <2>7. disk' = [disk EXCEPT ![p] = d]
    BY <2>1 DEF n
  <2>8. n \in (-1)..NPieces
    BY <1>1, <2>4
  <2>9. d \in DiskType /\ d.data = n /\ d.dir = disk[p].dir /\ d.meta = disk[p].meta
    BY <1>1, <2>8 DEF DiskType
  <2> HIDE DEF d
  <2>10. /\ task' \in [Peers -> TaskType] /\ task'[p] = t /\ disk' \in [Peers -> DiskType] /\ disk'[p] = d
         /\ \A q \in Peers : q # p => task'[q] = task[q] /\ disk'[q] = disk[q]
    BY <1>1, <2>5, <2>6, <2>7, <2>9 DEF TypeOK
  <2>11. TypeOK'
    BY <1>1, <2>1, <2>10, TouchTypes DEF TypeOK
  <2>12. UnknownOf(p)' /\ SurvivesOf(p)' /\ DirOf(p)'
    BY <1>1, <2>4, <2>6, <2>9, <2>10 DEF UnknownOf, SurvivesOf, DirOf, Early, Owning
  <2>13. ~Whole(p) /\ ~mem[p].done /\ disk[p].meta # "done"
    BY <1>1 DEF Whole, ContentOf, Owning
  <2>16. ContentOf(p)'
    BY <1>1, <2>4, <2>6, <2>9, <2>10, <2>13 DEF ContentOf, Whole, Owning, Told
  <2> QED BY <1>1, <2>10, <2>11, <2>12, <2>13, <2>16, LocalStep
<1> QED BY <1>2, <1>3

\* A step of p in one of its late stages that changes its store, not its files.
LEMMA StoreChanges ==
    ASSUME StorageInv, NEW p \in Peers, up, NEW t \in TaskType, NEW m \in StoreType,
           task' = [task EXCEPT ![p] = t], mem' = [mem EXCEPT ![p] = m],
           UNCHANGED <<up, index, disk, gc, left, leaked>>,
           lru' \in Seq(Peers), aged' \subseteq Peers,
           m.known = mem[p].known, m.marked = mem[p].marked,
           t.at # "failed" => t.kind = task[p].kind,
           t.reader = "pending" => task[p].reader = "pending",
           t.reader = "ok" => t.dest = NPieces,
           t.reader = "none" <=> task[p].reader = "none",
           \/ m.done = mem[p].done /\ task[p].at = "validate" /\ t.at \in {"failed", "store"}
           \/ m.done = mem[p].done /\ t.at = task[p].at /\ task[p].reader = "pending"
           \/ m.done /\ task[p].at = "store" /\ t.at = "save"
    PROVE  StorageInv'
<1>1. /\ UnknownOf(p) /\ ContentOf(p) /\ SurvivesOf(p) /\ DirOf(p)
      /\ TypeOK /\ task' \in [Peers -> TaskType] /\ task'[p] = t
      /\ mem' \in [Peers -> StoreType] /\ mem'[p] = m
      /\ \A q \in Peers : q # p => task'[q] = task[q] /\ mem'[q] = mem[q]
  BY Facts DEF TypeOK
<1>2. TypeOK'
  BY <1>1 DEF TypeOK
<1>3. Whole(p) /\ Whole(p)'
  BY <1>1 DEF Whole, Owning, ContentOf
<1>4. UnknownOf(p)' /\ SurvivesOf(p)' /\ DirOf(p)'
  <2>1. task[p].at \notin Early \cup {"publish"} /\ t.at \notin Early \cup {"publish"}
    BY <1>1, <1>3 DEF Whole, Early, Owning
  <2>2. SurvivesOf(p)'
    BY <1>1, <1>3 DEF SurvivesOf, Owning
  <2> QED BY <1>1, <2>1, <2>2 DEF UnknownOf, DirOf
<1>5. ContentOf(p)'
  <2>1. task[p].at \in {"validate", "store", "save", "ok", "failed", "link"} /\ task'[p].at # "write"
        /\ task'[p].at \notin {"reuse", "copy", "reused"}
    BY <1>1, <1>3 DEF Whole, Owning
  <2>2. Told(p)' => task'[p].dest = NPieces
    BY <1>1, <2>1 DEF Told, ContentOf
  <2>3. task'[p].at \in {"validate", "store", "save"} /\ task'[p].kind = "stream" => task'[p].reader # "none"
    BY <1>1 DEF ContentOf
  <2> QED BY <1>1, <1>3, <2>1, <2>2, <2>3 DEF ContentOf
<1> QED BY <1>1, <1>2, <1>3, <1>4, <1>5, LocalStep

\* ValidateDigest leaves a store where it is.
LEMMA ValidatedIs ==
    ASSUME TypeOK, NEW p \in Peers, NEW good \in BOOLEAN, mem' = Validated(p, good)
    PROVE  \E m \in StoreType : /\ mem' = [mem EXCEPT ![p] = m] /\ m.known = mem[p].known
                                /\ m.marked = mem[p].marked /\ m.done = mem[p].done
<1> DEFINE b == mem[p].invalid \/ (mem[p].known /\ ~good)
           m == [mem[p] EXCEPT !.invalid = b]
<1>1. mem[p] \in StoreType
  BY DEF TypeOK
<1>2. mem' = [mem EXCEPT ![p] = m]
  BY DEF Validated
<1>3. b \in BOOLEAN
  BY Zenon
<1> HIDE DEF b
<1>4. m \in StoreType /\ m.known = mem[p].known /\ m.marked = mem[p].marked /\ m.done = mem[p].done
  BY <1>1, <1>3 DEF StoreType
<1> QED BY <1>2, <1>4

\* A file is validated: the download goes on or fails.
LEMMA ValidateDigestOK ==
    ASSUME StorageInv, NEW p \in Peers, ValidateDigest(p)
    PROVE  StorageInv'
<1>1. /\ TypeOK /\ up /\ task[p].at = "validate" /\ ContentOf(p)
      /\ UNCHANGED <<up, index, disk, lru, aged, gc, left, leaked>> /\ -1 \in (-1)..NPieces
      /\ lru' \in Seq(Peers) /\ aged' \subseteq Peers
  BY Facts DEF ValidateDigest, TypeOK
<1>2. PICK m \in StoreType : /\ mem' = [mem EXCEPT ![p] = m] /\ m.known = mem[p].known
                             /\ m.marked = mem[p].marked /\ m.done = mem[p].done
  BY <1>1, ValidatedIs DEF ValidateDigest
<1>3. ASSUME NEW l \in {"failed", "store"}, NEW t \in TaskType, task' = [task EXCEPT ![p] = t], t.at = l,
             t.reader = task[p].reader, l = "store" => t.kind = task[p].kind,
             t.reader # "none" => t.dest = task[p].dest
      PROVE  StorageInv'
  <2>1. t.reader = "ok" => t.dest = NPieces
    BY <1>1, <1>3 DEF ContentOf, Told
  <2> QED BY <1>1, <1>2, <1>3, <2>1, StoreChanges
<1>4. ASSUME Finish(p, "failed", -1) PROVE StorageInv'
  <2>1. PICK t \in TaskType : /\ task' = [task EXCEPT ![p] = t] /\ t.at = "failed"
                              /\ t.reader = task[p].reader
                              /\ t.dest = IF t.reader = "none" THEN -1 ELSE task[p].dest
    BY <1>1, <1>4, FinishIs DEF Stages
  <2> QED BY <1>3, <2>1
<1>5. ASSUME Goto(p, "store") PROVE StorageInv'
  <2>1. PICK t \in TaskType : /\ task' = [task EXCEPT ![p] = t] /\ t.at = "store" /\ t.kind = task[p].kind
                              /\ t.reader = task[p].reader /\ t.dest = task[p].dest
    BY <1>1, <1>5, GotoIs DEF Stages
  <2> QED BY <1>3, <2>1
<1> QED BY <1>4, <1>5 DEF ValidateDigest

\* The stream ends for its reader, wherever Done has got to.
LEMMA StreamClosesOK ==
    ASSUME StorageInv, NEW p \in Peers, StreamCloses(p)
    PROVE  StorageInv'
<1>1. /\ TypeOK /\ up /\ task[p].reader = "pending" /\ ContentOf(p) /\ Whole(p)
      /\ UNCHANGED <<up, index, disk, lru, aged, gc, left, leaked>> /\ NPieces \in Nat \ {0}
      /\ lru' \in Seq(Peers) /\ aged' \subseteq Peers /\ task[p] \in TaskType /\ mem[p] \in StoreType
  BY Facts DEF StreamCloses, TypeOK, ContentOf
<1>2. PICK broken, good \in BOOLEAN :
          LET ok == ~broken /\ good /\ ~Lost(p)
          IN  /\ mem' = IF broken THEN mem ELSE Validated(p, good)
              /\ task' = [task EXCEPT ![p] = [@ EXCEPT
                     !.reader = IF ok THEN "ok" ELSE "bad",
                     !.dest = IF ok THEN disk[p].data ELSE -1]]
  BY DEF StreamCloses
<1>3. PICK m \in StoreType : /\ mem' = [mem EXCEPT ![p] = m] /\ m.known = mem[p].known
                             /\ m.marked = mem[p].marked /\ m.done = mem[p].done
  <2>1. CASE broken
    <3>1. mem' = [mem EXCEPT ![p] = mem[p]]
      BY <1>1, <1>2, <2>1 DEF TypeOK
    <3> QED BY <1>1, <3>1
  <2>2. CASE ~broken
    BY <1>1, <1>2, <2>2, ValidatedIs
  <2> QED BY <2>1, <2>2
<1> DEFINE ok == ~broken /\ good /\ ~Lost(p)
           d == IF ok THEN disk[p].data ELSE -1
           r == IF ok THEN "ok" ELSE "bad"
           t == [[task[p] EXCEPT !.reader = r] EXCEPT !.dest = d]
<1>4. task' = [task EXCEPT ![p] = t]
  BY <1>2
<1>5. r \in {"ok", "bad"} /\ d \in (-1)..NPieces /\ (r = "ok" => d = NPieces)
  BY <1>1 DEF Lost, Whole
<1> HIDE DEF r, d
<1>6. t \in TaskType /\ t.at = task[p].at /\ t.kind = task[p].kind /\ t.reader = r /\ t.dest = d
  BY <1>1, <1>5 DEF TaskType
<1> HIDE DEF t
<1> QED BY <1>1, <1>3, <1>4, <1>5, <1>6, StoreChanges

\* Store marks the task done in memory first.
LEMMA StoreDoneOK ==
    ASSUME StorageInv, NEW p \in Peers, StoreDone(p)
    PROVE  StorageInv'
<1> DEFINE m == [mem[p] EXCEPT !.done = TRUE]
<1>1. /\ TypeOK /\ up /\ task[p].at = "store" /\ mem[p] \in StoreType /\ ContentOf(p)
      /\ UNCHANGED <<up, index, disk, gc, left, leaked>>
  BY Facts DEF StoreDone
<1>2. ASSUME ~mem[p].known PROVE StorageInv'
  BY <1>1, <1>2, FailsOK DEF StoreDone, Owning
<1>3. ASSUME mem[p].known PROVE StorageInv'
  <2>1. mem' = [mem EXCEPT ![p] = m] /\ touch(p)
    BY <1>3 DEF StoreDone
  <2>2. m \in StoreType /\ m.known = mem[p].known /\ m.marked = mem[p].marked /\ m.done
    BY <1>1 DEF StoreType
  <2> HIDE DEF m
  <2>3. PICK t \in TaskType : /\ task' = [task EXCEPT ![p] = t] /\ t.at = "save" /\ t.kind = task[p].kind
                              /\ t.reader = task[p].reader /\ t.dest = task[p].dest
    BY <1>1, <1>3, GotoIs DEF Stages, StoreDone
  <2>4. lru' \in Seq(Peers) /\ aged' \subseteq Peers
    BY <1>1, <2>1, TouchTypes
  <2>5. t.reader = "ok" => t.dest = NPieces
    BY <1>1, <2>3 DEF ContentOf, Told
  <2> QED BY <1>1, <2>1, <2>2, <2>3, <2>4, <2>5, StoreChanges
<1> QED BY <1>2, <1>3

\* saveMetadata makes it survive a restart.
LEMMA SaveMetadataOK ==
    ASSUME StorageInv, NEW p \in Peers, SaveMetadata(p)
    PROVE  StorageInv'
<1> DEFINE d == [disk[p] EXCEPT !.meta = Saved(disk[p].meta)]
<1>1. /\ TypeOK /\ up /\ task[p].at = "save" /\ mem[p] \in StoreType /\ disk[p] \in DiskType
      /\ ContentOf(p) /\ SurvivesOf(p) /\ DirOf(p)
      /\ UNCHANGED <<up, mem, index, lru, aged, gc, left, leaked>>
  BY Facts DEF SaveMetadata
<1>2. ASSUME ~mem[p].writable PROVE StorageInv'
  BY <1>1, <1>2, FailsOK DEF SaveMetadata, Owning
<1>3. ASSUME mem[p].writable PROVE StorageInv'
  <2>1. disk' = [disk EXCEPT ![p] = d]
    BY <1>3 DEF SaveMetadata
  <2>2. PICK l \in {"link", "ok"} : Goto(p, l) /\ (l = "ok" => task[p].kind # "file")
    BY <1>3 DEF SaveMetadata
  <2>10. l = "ok" => task[p].reader # "none"
    BY <1>1, <2>2, Facts DEF ContentOf, TaskType
  <2>3. PICK t \in TaskType : /\ task' = [task EXCEPT ![p] = t] /\ t.at = l
                              /\ t.reader = task[p].reader /\ t.dest = task[p].dest
    BY <1>1, <2>2, GotoIs DEF Stages
  <2>4. /\ d \in DiskType /\ d.dir = disk[p].dir /\ d.data = disk[p].data
        /\ disk[p].meta # "none" => d.meta = "done"
    BY <1>1 DEF DiskType, Saved
  <2> HIDE DEF d
  <2>5. /\ task' \in [Peers -> TaskType] /\ task'[p] = t /\ disk' \in [Peers -> DiskType] /\ disk'[p] = d
        /\ \A q \in Peers : q # p => task'[q] = task[q] /\ disk'[q] = disk[q]
    BY <1>1, <2>1, <2>3, <2>4 DEF TypeOK
  <2>6. TypeOK'
    BY <1>1, <2>5 DEF TypeOK
  <2>7. UnknownOf(p)' /\ SurvivesOf(p)' /\ DirOf(p)'
    BY <1>1, <2>3, <2>4, <2>5 DEF UnknownOf, SurvivesOf, DirOf, Early, Owning
  <2>8. Whole(p) /\ Whole(p)'
    BY <1>1, <2>3, <2>4, <2>5 DEF Whole, Owning, ContentOf
  <2>9. ContentOf(p)'
    BY <1>1, <2>3, <2>5, <2>8, <2>10 DEF ContentOf, Told
  <2> QED BY <1>1, <2>5, <2>6, <2>7, <2>8, <2>9, LocalStep
<1> QED BY <1>2, <1>3

\* Store links or copies the data to the destination.
LEMMA LinkOK ==
    ASSUME StorageInv, NEW p \in Peers, LinkDestination(p) \/ GiveUp(p)
    PROVE  StorageInv'
<1>1. /\ TypeOK /\ up /\ task[p].at \in {"link", "write"} /\ ContentOf(p) /\ NPieces \in Nat \ {0}
      /\ UNCHANGED <<up, mem, index, disk, lru, aged, gc, left, leaked>>
      /\ lru' \in Seq(Peers) /\ aged' \subseteq Peers
  BY Facts DEF LinkDestination, GiveUp, TypeOK
<1>2. ASSUME Finish(p, "failed", -1) PROVE StorageInv'
  BY <1>1, <1>2, FailsOK DEF Owning
<1>3. ASSUME task[p].at = "link", disk[p].data # -1, Finish(p, "ok", disk[p].data) PROVE StorageInv'
  <2>1. disk[p].data = NPieces /\ NPieces \in (-1)..NPieces
    BY <1>1, <1>3 DEF ContentOf, Whole
  <2>2. PICK t \in TaskType : /\ task' = [task EXCEPT ![p] = t] /\ t.at = "ok"
                              /\ t.reader = task[p].reader
                              /\ t.dest = IF t.reader = "none" THEN NPieces ELSE task[p].dest
    BY <1>1, <1>3, <2>1, FinishIs DEF Stages
  <2> QED BY <1>1, <1>3, <2>2, TaskOnly
<1> QED BY <1>2, <1>3 DEF LinkDestination, GiveUp

\* Steps that change nothing but the order of access.
LEMMA ClockOK ==
    ASSUME StorageInv, lru' \in Seq(Peers), aged' \subseteq Peers,
           UNCHANGED <<up, mem, index, disk, task, gc, left, leaked>>
    PROVE  StorageInv'
<1>1. TypeOK'
  BY DEF StorageInv, TypeOK
<1>2. Collector' /\ Down'
  BY DEF StorageInv, Collector, Down
<1>3. ASSUME NEW p \in Peers PROVE PeerInv(p)'
  BY DEF StorageInv, PeerInv, UnknownOf, ContentOf, Whole, SurvivesOf, ListedOf, DirOf, Told
<1> QED BY <1>1, <1>2, <1>3 DEF StorageInv

\* Accesses and the passing of time.
LEMMA AccessOK ==
    ASSUME StorageInv, Age \/ \E q \in Peers : Access(q)
    PROVE  StorageInv'
<1>1. ASSUME Age PROVE StorageInv'
  <2>1. lru' \in Seq(Peers) /\ aged' \subseteq Peers
    BY <1>1 DEF Age, StorageInv, TypeOK
  <2> QED BY <1>1, <2>1, ClockOK DEF Age
<1>2. ASSUME NEW q \in Peers, Access(q) PROVE StorageInv'
  <2>1. lru' \in Seq(Peers) /\ aged' \subseteq Peers
    BY <1>2, TouchTypes DEF Access, StorageInv
  <2> QED BY <1>2, <2>1, ClockOK DEF Access
<1> QED BY <1>1, <1>2

-----------------------------------------------------------------------------
\* What a step of the collector does to one peer: it only takes away, and only from
\* a peer that has left.
Takes(p) ==
    /\ task[p].at \in Early \cup {"publish"} =>
          /\ mem'[p] = mem[p] /\ disk'[p] = disk[p]
          /\ p \notin gc'.todo /\ p \notin gc'.marked /\ p \notin gc'.prev /\ p # gc'.cur
    /\ disk'[p].data \in {disk[p].data, -1} /\ disk'[p].meta \in {disk[p].meta, "none"}
    /\ mem'[p].done => mem[p].done
    /\ mem'[p].known => mem[p].known /\ (mem[p].done => mem'[p].done)
    /\ p \notin left' => /\ disk'[p] = disk[p]
                         /\ p # gc'.cur => p # gc.cur /\ (mem[p].known => mem'[p].known)
    /\ DirOf(p)' /\ ListedOf(p)'

\* A step of the collector that takes from each store no more than it may.
LEMMA CollectorStep ==
    ASSUME StorageInv, TypeOK', Collector', up, UNCHANGED <<up, task>>, left \subseteq left',
           \A p \in Peers : Takes(p)
    PROVE  StorageInv'
<1> USE DEF Takes
<1>1. Down'
  BY DEF Down
<1>2. \A p \in Peers : Whole(p) => Whole(p)'
  BY DEF Whole
<1>3. ASSUME NEW p \in Peers PROVE PeerInv(p)'
  <2>1. UnknownOf(p) /\ ContentOf(p) /\ SurvivesOf(p)
    BY Facts
  <2>2. UnknownOf(p)'
    BY <2>1 DEF UnknownOf
  <2>3. ContentOf(p)'
    <3>1. task[p].at = "write" => disk'[p].data < NPieces
      BY <2>1, StorageBounds DEF ContentOf
    <3>2. mem'[p].done \/ disk'[p].meta = "done" => mem[p].done \/ disk[p].meta = "done"
      OBVIOUS
    <3> QED BY <1>2, <2>1, <3>1, <3>2 DEF ContentOf, Told
  <2>4. SurvivesOf(p)'
    BY <2>1 DEF SurvivesOf
  <2> QED BY <2>2, <2>3, <2>4 DEF PeerInv
<1> QED BY <1>1, <1>3 DEF StorageInv

\* Only a running daemon collects.
LEMMA BusyIsUp ==
    ASSUME StorageInv, gc.at # "idle"
    PROVE  up
  BY DEF StorageInv, Down, NoGC

\* TryGC asks every store whether it has expired.
LEMMA TryGCOK ==
    ASSUME StorageInv, TryGC \/ CleanUp
    PROVE  StorageInv'
<1>1. TypeOK /\ Collector /\ gc \in GCType /\ gc.at = "idle" /\ up /\ Known \subseteq Peers
      /\ UNCHANGED <<up, mem, index, disk, lru, aged, task, left, leaked>>
  BY DEF StorageInv, TypeOK, TryGC, CleanUp, unusedByGC, Known
<1>2. /\ gc' \in GCType /\ gc'.at \in {"mark", "next"} /\ gc'.todo \subseteq Known /\ gc'.cur = gc.cur
      /\ gc'.marked = gc.marked /\ gc'.prev = gc.prev /\ (gc'.at = "next" <=> gc'.force)
  <2>1. ASSUME TryGC PROVE <1>2!:
    <3> DEFINE expired == Known \cap aged
               n == Cardinality(Known \ expired)
    <3>1. n \in Nat
      <4>1. Known \ expired \subseteq Peers
        BY <1>1
      <4> QED BY <4>1, StorageBounds, FS_Subset, FS_CardinalityType
    <3>2. gc' = [gc EXCEPT !.at = "mark", !.todo = expired, !.size = n]
      BY <2>1 DEF TryGC, SetGC
    <3>3. expired \subseteq Known
      OBVIOUS
    <3> HIDE DEF n, expired
    <3> QED BY <1>1, <3>1, <3>2, <3>3 DEF GCType, Collector
  <2>2. ASSUME CleanUp PROVE <1>2!:
    BY <1>1, <2>2 DEF GCType, CleanUp, SetGC
  <2> QED BY <2>1, <2>2
<1>3. TypeOK'
  BY <1>1, <1>2 DEF TypeOK
<1>4. Collector'
  BY <1>1, <1>2 DEF Collector, Removing
<1>5. ASSUME NEW p \in Peers PROVE Takes(p)
  <2>1. UnknownOf(p) /\ DirOf(p) /\ ListedOf(p)
    BY <1>1, Facts
  <2>2. p \in Known => task[p].at \notin Early \cup {"publish"}
    BY <2>1 DEF Known, UnknownOf, NoStore
  <2>3. DirOf(p)' /\ ListedOf(p)'
    BY <1>1, <1>2, <2>1, <2>2 DEF DirOf, ListedOf, Removing, Known
  <2> QED BY <1>1, <1>2, <2>1, <2>2, <2>3 DEF Takes, UnknownOf
<1> QED BY <1>1, <1>3, <1>4, <1>5, CollectorStep

\* Marking a set of stores: their peers leave, and they are put on the list.
LEMMA MarksOK ==
    ASSUME StorageInv, up, NEW S \in SUBSET Peers, UNCHANGED <<up, index, disk, lru, aged, task, leaked>>,
           gc.at \in {"mark", "shed"}, left' = left \cup S,
           mem' \in [Peers -> StoreType],
           \A p \in Peers : /\ mem'[p].known = mem[p].known /\ mem'[p].done = mem[p].done
                            /\ p \notin S => mem'[p] = mem[p],
           \A p \in S : task[p].at \notin Early \cup {"publish"},
           gc' \in GCType, gc'.cur = gc.cur, gc'.marked = gc.marked \cup S, gc'.prev = gc.prev, ~gc'.force,
           gc'.at \in {"mark", "shed", "next"}, gc'.todo \subseteq gc.todo \cup gc.prev,
           gc'.at = "next" => gc'.todo = gc.prev
    PROVE  StorageInv'
<1>1. TypeOK /\ Collector /\ gc \in GCType
  BY DEF StorageInv, TypeOK
<1>2. TypeOK'
  BY <1>1 DEF TypeOK
<1>3. Collector'
  BY <1>1 DEF Collector, Removing
<1>4. ASSUME NEW p \in Peers PROVE Takes(p)
  <2>1. UnknownOf(p) /\ DirOf(p) /\ ListedOf(p)
    BY Facts
  <2>2. DirOf(p)' /\ ListedOf(p)'
    BY <2>1 DEF DirOf, ListedOf, Removing
  <2> QED BY <1>1, <2>1, <2>2 DEF Takes, UnknownOf
<1> QED BY <1>1, <1>2, <1>3, <1>4, CollectorStep

\* An expired store is marked and the scheduler is told.
LEMMA MarkReclaimOK ==
    ASSUME StorageInv, MarkReclaim
    PROVE  StorageInv'
<1>1. TypeOK /\ Collector /\ gc \in GCType /\ gc.at = "mark" /\ up /\ ~gc.force
      /\ UNCHANGED <<up, index, disk, lru, aged, task, leaked>>
  BY BusyIsUp DEF StorageInv, TypeOK, MarkReclaim, unusedByGC, Collector
<1>2. ASSUME NEW p \in gc.todo, left' = LeftAfter({p}), mem' = [mem EXCEPT ![p].marked = TRUE],
             SetGC([gc EXCEPT !.todo = @ \ {p}, !.marked = MarkedWith({p})])
      PROVE  StorageInv'
  <2>1. p \in Peers /\ mem[p] \in StoreType
    BY <1>1, <1>2 DEF GCType, TypeOK
  <2> DEFINE m == [mem[p] EXCEPT !.marked = TRUE]
  <2>2. m \in StoreType /\ m.known = mem[p].known /\ m.done = mem[p].done
    BY <2>1 DEF StoreType
  <2>3. mem' = [mem EXCEPT ![p] = m]
    BY <1>2
  <2> HIDE DEF m
  <2>4. mem' \in [Peers -> StoreType] /\ mem'[p] = m /\ \A q \in Peers : q # p => mem'[q] = mem[q]
    BY <1>1, <2>1, <2>2, <2>3 DEF TypeOK
  <2>5. /\ gc' \in GCType /\ gc'.cur = gc.cur /\ gc'.marked = gc.marked \cup {p} /\ gc'.prev = gc.prev
        /\ ~gc'.force /\ gc'.at = "mark" /\ gc'.todo \subseteq gc.todo
    BY <1>1, <1>2, <2>1 DEF GCType, SetGC, MarkedWith
  <2>6. task[p].at \notin Early \cup {"publish"}
    BY <1>2, <2>1, Facts DEF UnknownOf
  <2>7. left' = left \cup {p} /\ {p} \in SUBSET Peers
    BY <1>2, <2>1 DEF LeftAfter
  <2> QED BY <1>1, <2>2, <2>4, <2>5, <2>6, <2>7, MarksOK
<1>3. ASSUME gc.todo = {}, SetGC([gc EXCEPT !.at = "shed"]), UNCHANGED <<mem, left>>
      PROVE  StorageInv'
  <2>1. /\ gc' \in GCType /\ gc'.cur = gc.cur /\ gc'.marked = gc.marked \cup {} /\ gc'.prev = gc.prev
        /\ ~gc'.force /\ gc'.at = "shed" /\ gc'.todo = gc.todo
    BY <1>1, <1>3 DEF GCType, SetGC
  <2>2. left' = left \cup {} /\ {} \in SUBSET Peers /\ mem' \in [Peers -> StoreType]
    BY <1>1, <1>3 DEF TypeOK
  <2> QED BY <1>1, <1>3, <2>1, <2>2, MarksOK
<1> QED BY <1>2, <1>3 DEF MarkReclaim

\* The quota sheds the least recently used stores.
LEMMA ShedOK ==
    ASSUME StorageInv, Shed
    PROVE  StorageInv'
<1>1. TypeOK /\ Collector /\ gc \in GCType /\ gc.at = "shed" /\ up /\ ~gc.force
      /\ UNCHANGED <<up, index, disk, lru, aged, task, leaked>>
  BY BusyIsUp DEF StorageInv, TypeOK, Shed, unusedByGC, Collector
<1>2. PICK usage \in 0..1, active \in SUBSET {p \in Known \ aged : ~mem[p].done} :
          LET exceed == usage > 0 \/ (Quota > 0 /\ gc.size > Quota)
              over == IF exceed THEN Max({gc.size - Quota, usage}) ELSE 0
              candidates == {p \in Known \ active : ~mem[p].marked}
              picked == {p \in candidates :
                            Cardinality({q \in candidates : Before(lru, q, p)}) < over}
          IN  /\ left' = LeftAfter(picked)
              /\ mem' = [p \in Peers |-> [mem[p] EXCEPT !.marked = @ \/ p \in picked]]
              /\ SetGC([gc EXCEPT !.at = "next", !.todo = gc.prev, !.size = 0, !.marked = MarkedWith(picked)])
  BY DEF Shed
<1> DEFINE exceed == usage > 0 \/ (Quota > 0 /\ gc.size > Quota)
           over == IF exceed THEN Max({gc.size - Quota, usage}) ELSE 0
           candidates == {p \in Known \ active : ~mem[p].marked}
           picked == {p \in candidates :
                         Cardinality({q \in candidates : Before(lru, q, p)}) < over}
<1> HIDE DEF over
<1>3. picked \subseteq Known
  OBVIOUS
<1>4. /\ left' = LeftAfter(picked)
      /\ mem' = [p \in Peers |-> [mem[p] EXCEPT !.marked = @ \/ p \in picked]]
      /\ gc' = [gc EXCEPT !.at = "next", !.todo = gc.prev, !.size = 0, !.marked = MarkedWith(picked)]
  BY <1>2 DEF SetGC, over
<1> HIDE DEF picked
<1>5. picked \in SUBSET Peers /\ left' = left \cup picked
  BY <1>3, <1>4 DEF Known, LeftAfter
<1>6. /\ gc' \in GCType /\ gc'.cur = gc.cur /\ gc'.marked = gc.marked \cup picked /\ gc'.prev = gc.prev
      /\ ~gc'.force /\ gc'.at = "next" /\ gc'.todo = gc.prev
  BY <1>1, <1>4, <1>5 DEF GCType, MarkedWith
<1>7. ASSUME NEW p \in Peers
      PROVE  /\ mem'[p] \in StoreType /\ mem'[p].known = mem[p].known /\ mem'[p].done = mem[p].done
             /\ p \notin picked => mem'[p] = mem[p]
  <2> DEFINE b == mem[p].marked \/ p \in picked
  <2>1. b \in BOOLEAN /\ (p \notin picked => (b <=> mem[p].marked))
    BY Zenon
  <2>2. mem'[p] = [mem[p] EXCEPT !.marked = b]
    BY <1>4
  <2>3. mem[p] \in StoreType
    BY <1>1 DEF TypeOK
  <2>4. p \notin picked => b = mem[p].marked
    <3>1. mem[p].marked \in BOOLEAN
      BY <2>3 DEF StoreType
    <3> QED BY <2>1, <3>1, Zenon
  <2> HIDE DEF b
  <2> QED BY <2>1, <2>2, <2>3, <2>4 DEF StoreType
<1>8. mem' \in [Peers -> StoreType]
  <2>1. mem' = [p \in Peers |-> mem'[p]]
    BY <1>4
  <2> QED BY <1>7, <2>1
<1>9. \A p \in picked : task[p].at \notin Early \cup {"publish"}
  <2>1. ASSUME NEW p \in picked PROVE task[p].at \notin Early \cup {"publish"}
    <3>1. p \in Peers /\ mem[p].known
      BY <1>3 DEF Known
    <3> QED BY <3>1, Facts DEF UnknownOf, NoStore
  <2> QED BY <2>1
<1> QED BY <1>1, <1>5, <1>6, <1>7, <1>8, <1>9, MarksOK

\* The next marked store is taken out of the map.
LEMMA ReclaimNextOK ==
    ASSUME StorageInv, ReclaimNext
    PROVE  StorageInv'
<1>1. TypeOK /\ Collector /\ gc \in GCType /\ gc.at = "next" /\ up
      /\ UNCHANGED <<up, index, disk, lru, aged, task, left, leaked>> /\ gc.cur = Nobody
      /\ Nobody \notin Peers
  BY BusyIsUp, StorageBounds DEF StorageInv, TypeOK, ReclaimNext, unusedByGC, Collector, GCType, Removing
<1>2. ASSUME NEW p \in gc.todo, mem[p].known, mem' = [mem EXCEPT ![p].known = FALSE],
             SetGC([gc EXCEPT !.at = "unindex", !.todo = @ \ {p}, !.cur = p])
      PROVE  StorageInv'
  <2>1. p \in Peers /\ mem[p] \in StoreType
    BY <1>1, <1>2 DEF GCType, TypeOK
  <2> DEFINE m == [mem[p] EXCEPT !.known = FALSE]
  <2>2. m \in StoreType /\ ~m.known /\ m.done = mem[p].done
    BY <2>1 DEF StoreType
  <2>3. mem' = [mem EXCEPT ![p] = m]
    BY <1>2
  <2> HIDE DEF m
  <2>4. mem' \in [Peers -> StoreType] /\ mem'[p] = m /\ \A q \in Peers : q # p => mem'[q] = mem[q]
    BY <1>1, <2>1, <2>2, <2>3 DEF TypeOK
  <2>5. /\ gc' \in GCType /\ gc'.cur = p /\ gc'.marked = gc.marked /\ gc'.prev = gc.prev
        /\ gc'.force = gc.force /\ gc'.at = "unindex" /\ gc'.todo = gc.todo \ {p}
    BY <1>1, <1>2, <2>1 DEF GCType, SetGC
  <2>6. task[p].at \notin Early \cup {"publish"}
    BY <1>2, <2>1, Facts DEF UnknownOf
  <2>7. TypeOK'
    BY <1>1, <2>4, <2>5 DEF TypeOK
  <2>8. Collector'
    BY <1>1, <1>2, <2>1, <2>2, <2>4, <2>5 DEF Collector, Removing
  <2>9. ASSUME NEW q \in Peers PROVE Takes(q)
    <3>1. UnknownOf(q) /\ DirOf(q) /\ ListedOf(q)
      BY <1>1, Facts
    <3>2. DirOf(q)' /\ ListedOf(q)'
      BY <1>1, <2>2, <2>4, <2>5, <3>1 DEF DirOf, ListedOf, Removing
    <3> QED BY <1>1, <2>2, <2>4, <2>5, <2>6, <3>1, <3>2 DEF Takes, UnknownOf
  <2> QED BY <1>1, <2>7, <2>8, <2>9, CollectorStep
<1>3. ASSUME NEW p \in gc.todo, ~mem[p].known, SetGC([gc EXCEPT !.todo = @ \ {p}]), UNCHANGED mem
      PROVE  StorageInv'
  <2>1. /\ gc' \in GCType /\ gc'.cur = gc.cur /\ gc'.marked = gc.marked /\ gc'.prev = gc.prev
        /\ gc'.force = gc.force /\ gc'.at = "next" /\ gc'.todo = gc.todo \ {p}
    BY <1>1, <1>3 DEF GCType, SetGC
  <2>2. TypeOK'
    BY <1>1, <1>3, <2>1 DEF TypeOK
  <2>3. Collector'
    BY <1>1, <1>3, <2>1 DEF Collector, Removing
  <2>4. ASSUME NEW q \in Peers PROVE Takes(q)
    <3>1. UnknownOf(q) /\ DirOf(q) /\ ListedOf(q)
      BY <1>1, Facts
    <3>2. DirOf(q)' /\ ListedOf(q)'
      BY <1>1, <1>3, <2>1, <3>1 DEF DirOf, ListedOf, Removing
    <3> QED BY <1>1, <1>3, <2>1, <3>1, <3>2 DEF Takes, UnknownOf
  <2> QED BY <1>1, <2>2, <2>3, <2>4, CollectorStep
<1>4. ASSUME gc.todo = {}, ~gc.force, SetGC([NoGC EXCEPT !.prev = gc.marked]), UNCHANGED mem
      PROVE  StorageInv'
  <2>1. /\ gc' \in GCType /\ gc'.cur = Nobody /\ gc'.marked = {} /\ gc'.prev = gc.marked
        /\ ~gc'.force /\ gc'.at = "idle" /\ gc'.todo = {}
    BY <1>1, <1>4 DEF GCType, SetGC, NoGC
  <2>2. TypeOK'
    BY <1>1, <1>4, <2>1 DEF TypeOK
  <2>3. Collector'
    BY <1>1, <1>4, <2>1 DEF Collector, Removing
  <2>4. ASSUME NEW q \in Peers PROVE Takes(q)
    <3>1. UnknownOf(q) /\ DirOf(q) /\ ListedOf(q)
      BY <1>1, Facts
    <3>2. DirOf(q)' /\ ListedOf(q)'
      BY <1>1, <1>4, <2>1, <3>1 DEF DirOf, ListedOf, Removing
    <3> QED BY <1>1, <1>4, <2>1, <3>1, <3>2 DEF Takes, UnknownOf
  <2> QED BY <1>1, <2>2, <2>3, <2>4, CollectorStep
<1> QED BY <1>2, <1>3, <1>4 DEF ReclaimNext

\* One step of the removal of gc.cur, which is in no map any more.
LEMMA RemovingOK ==
    ASSUME StorageInv, NEW c, c = gc.cur, gc.at \in Removing, UNCHANGED <<up, task>>,
           index' \in Seq(Peers), lru' \in Seq(Peers), aged' \subseteq Peers,
           left' = left \/ (left' = left \cup {c} /\ gc.at = "forced"),
           mem' \in [Peers -> StoreType], disk' \in [Peers -> DiskType], leaked' \in SUBSET Peers,
           \A q \in Peers : q # c => mem'[q] = mem[q] /\ disk'[q] = disk[q],
           ~mem'[c].known, mem'[c].done => mem[c].done,
           disk'[c] = disk[c] \/ gc.at \in {"data", "meta", "dir"},
           disk'[c].data \in {disk[c].data, -1}, disk'[c].meta \in {disk[c].meta, "none"},
           gc' \in GCType, gc'.todo = gc.todo, gc'.prev = gc.prev, gc'.force = gc.force,
           \/ gc'.cur = c /\ gc'.marked = gc.marked /\ leaked' = leaked
              /\ \/ gc.at = "unindex" /\ gc'.at = (IF gc.force THEN "forced" ELSE "data")
                 \/ gc.at = "forced" /\ gc'.at = "data" /\ c \in left'
                 \/ gc.at \in {"data", "meta", "dir"} /\ gc'.at \in {"data", "meta", "dir"}
           \/ gc'.cur = Nobody /\ gc'.at = "next" /\ gc.at \in {"data", "meta", "dir"}
              /\ \/ gc'.marked = gc.marked \ {c} /\ leaked' = leaked /\ ~disk'[c].dir
                 \/ gc'.marked = gc.marked /\ leaked' = leaked \cup {c}
    PROVE  StorageInv'
<1>1. TypeOK /\ Collector /\ gc \in GCType /\ up /\ Nobody \notin Peers /\ c \in Peers /\ ~mem[c].known
      /\ left \subseteq left' /\ left' \subseteq Peers
  BY BusyIsUp, StorageBounds DEF StorageInv, TypeOK, Collector, Removing
<1>2. TypeOK'
  BY <1>1 DEF TypeOK
<1>3. Collector'
  BY <1>1 DEF Collector, Removing
<1>4. task[c].at \notin Early \cup {"publish"}
  BY <1>1, Facts DEF UnknownOf
<1>5. gc.at \in {"data", "meta", "dir"} => c \in left
  BY <1>1 DEF Collector
<1>6. ASSUME NEW q \in Peers PROVE Takes(q)
  <2>1. UnknownOf(q) /\ DirOf(q) /\ ListedOf(q)
    BY <1>1, Facts
  <2>2. DirOf(q)'
    BY <1>1, <2>1 DEF DirOf
  <2>3. ListedOf(q)'
    BY <1>1, <2>1 DEF ListedOf, Removing
  <2>4. CASE q = c
    BY <1>1, <1>4, <1>5, <2>2, <2>3, <2>4 DEF Takes
  <2>5. CASE q # c
    BY <1>1, <2>1, <2>2, <2>3, <2>5 DEF Takes, UnknownOf
  <2> QED BY <2>4, <2>5
<1> QED BY <1>1, <1>2, <1>3, <1>6, CollectorStep

\* What is known of the store that is being removed.
LEMMA RemovingFacts ==
    ASSUME StorageInv, gc.at \in Removing
    PROVE  /\ TypeOK /\ gc \in GCType /\ gc.cur \in Peers /\ mem[gc.cur] \in StoreType
           /\ disk[gc.cur] \in DiskType /\ ~mem[gc.cur].known /\ lru \in Seq(Peers)
           /\ index \in Seq(Peers) /\ aged \subseteq Peers /\ leaked \in SUBSET Peers
           /\ mem \in [Peers -> StoreType] /\ disk \in [Peers -> DiskType]
  BY DEF StorageInv, Collector, TypeOK

\* cleanIndex takes the store out of the index.
LEMMA CleanIndexOK ==
    ASSUME StorageInv, CleanIndex \/ ForcedMark
    PROVE  StorageInv'
<1>1. gc.at \in Removing /\ gc.at \in {"unindex", "forced"}
      /\ (gc.at = "unindex" => CleanIndex) /\ (gc.at = "forced" => ForcedMark)
  BY DEF CleanIndex, ForcedMark, Removing
<1> DEFINE c == gc.cur
<1>2. /\ TypeOK /\ gc \in GCType /\ c \in Peers /\ mem[c] \in StoreType /\ ~mem[c].known
      /\ lru \in Seq(Peers) /\ index \in Seq(Peers) /\ aged \subseteq Peers /\ leaked \in SUBSET Peers
      /\ mem \in [Peers -> StoreType] /\ disk \in [Peers -> DiskType]
  BY <1>1, RemovingFacts
<1>3. ASSUME CleanIndex PROVE StorageInv'
  <2>1. index' \in Seq(Peers) /\ lru' \in Seq(Peers) /\ aged' \subseteq Peers
    BY <1>2, <1>3, ListTypes DEF CleanIndex
  <2>2. UNCHANGED <<up, mem, disk, task, left, leaked>> /\ gc.at = "unindex"
    BY <1>3 DEF CleanIndex
  <2>3. /\ gc' \in GCType /\ gc'.todo = gc.todo /\ gc'.prev = gc.prev /\ gc'.force = gc.force
        /\ gc'.cur = c /\ gc'.marked = gc.marked /\ gc'.at = IF gc.force THEN "forced" ELSE "data"
    BY <1>2, <1>3 DEF CleanIndex, SetGC, GCType
  <2> HIDE DEF c
  <2> QED BY <1>1, <1>2, <2>1, <2>2, <2>3, RemovingOK DEF c
<1>4. ASSUME ForcedMark PROVE StorageInv'
  <2>1. UNCHANGED <<up, index, disk, lru, aged, task, leaked>> /\ gc.at = "forced"
        /\ left' = left \cup {c}
    BY <1>4 DEF ForcedMark, unusedByGC, LeftAfter
  <2>2. /\ gc' \in GCType /\ gc'.todo = gc.todo /\ gc'.prev = gc.prev /\ gc'.force = gc.force
        /\ gc'.cur = c /\ gc'.marked = gc.marked /\ gc'.at = "data"
    BY <1>2, <1>4 DEF ForcedMark, SetGC, GCType
  <2> DEFINE m == [mem[c] EXCEPT !.marked = TRUE]
  <2>3. mem' = [mem EXCEPT ![c] = m]
    BY <1>4 DEF ForcedMark
  <2>4. m \in StoreType /\ ~m.known /\ m.done = mem[c].done
    BY <1>2 DEF StoreType
  <2> HIDE DEF m, c
  <2>5. mem' \in [Peers -> StoreType] /\ mem'[c] = m /\ \A q \in Peers : q # c => mem'[q] = mem[q]
    BY <1>2, <2>3, <2>4
  <2> QED BY <1>1, <1>2, <2>1, <2>2, <2>4, <2>5, RemovingOK DEF c
<1> QED BY <1>3, <1>4

\* Reclaim removes data, metadata and directory, one after the other.
LEMMA ReclaimOK ==
    ASSUME StorageInv, ReclaimData \/ ReclaimMeta \/ ReclaimDir \/ ReclaimFails
    PROVE  StorageInv'
<1>1. gc.at \in Removing /\ gc.at \in {"data", "meta", "dir"}
      /\ UNCHANGED <<up, index, lru, aged, task, left>>
  BY DEF ReclaimData, ReclaimMeta, ReclaimDir, ReclaimFails, Removing
<1> DEFINE c == gc.cur
<1>2. /\ TypeOK /\ gc \in GCType /\ c \in Peers /\ mem[c] \in StoreType /\ ~mem[c].known
      /\ disk[c] \in DiskType /\ -1 \in (-1)..NPieces
      /\ lru \in Seq(Peers) /\ index \in Seq(Peers) /\ aged \subseteq Peers /\ leaked \in SUBSET Peers
      /\ mem \in [Peers -> StoreType] /\ disk \in [Peers -> DiskType]
  BY <1>1, RemovingFacts, StorageBounds
<1>3. ASSUME ReclaimData PROVE StorageInv'
  <2> DEFINE d == [disk[c] EXCEPT !.data = -1]
  <2>1. /\ gc' \in GCType /\ gc'.todo = gc.todo /\ gc'.prev = gc.prev /\ gc'.force = gc.force
        /\ gc'.cur = c /\ gc'.marked = gc.marked /\ gc'.at = "meta" /\ UNCHANGED <<mem, leaked>>
    BY <1>2, <1>3 DEF ReclaimData, SetGC, GCType
  <2>2. disk' = [disk EXCEPT ![c] = d]
    BY <1>3 DEF ReclaimData
  <2>3. d \in DiskType /\ d.data = -1 /\ d.meta = disk[c].meta
    BY <1>2 DEF DiskType
  <2> HIDE DEF d, c
  <2>4. disk' \in [Peers -> DiskType] /\ disk'[c] = d /\ \A q \in Peers : q # c => disk'[q] = disk[q]
    BY <1>2, <2>2, <2>3
  <2> QED BY <1>1, <1>2, <2>1, <2>3, <2>4, RemovingOK DEF c
<1>4. ASSUME ReclaimMeta PROVE StorageInv'
  <2> DEFINE d == [disk[c] EXCEPT !.meta = "none"]
             m == [mem[c] EXCEPT !.writable = FALSE]
  <2>1. /\ gc' \in GCType /\ gc'.todo = gc.todo /\ gc'.prev = gc.prev /\ gc'.force = gc.force
        /\ gc'.cur = c /\ gc'.marked = gc.marked /\ gc'.at = "dir" /\ UNCHANGED leaked
    BY <1>2, <1>4 DEF ReclaimMeta, SetGC, GCType
  <2>2. disk' = [disk EXCEPT ![c] = d] /\ mem' = [mem EXCEPT ![c] = m]
    BY <1>4 DEF ReclaimMeta
  <2>3. d \in DiskType /\ d.data = disk[c].data /\ d.meta = "none"
    BY <1>2 DEF DiskType
  <2>4. m \in StoreType /\ ~m.known /\ m.done = mem[c].done
    BY <1>2 DEF StoreType
  <2> HIDE DEF d, m, c
  <2>5. /\ disk' \in [Peers -> DiskType] /\ disk'[c] = d /\ mem' \in [Peers -> StoreType] /\ mem'[c] = m
        /\ \A q \in Peers : q # c => disk'[q] = disk[q] /\ mem'[q] = mem[q]
    BY <1>2, <2>2, <2>3, <2>4
  <2> QED BY <1>1, <1>2, <2>1, <2>3, <2>4, <2>5, RemovingOK DEF c
<1>5. ASSUME ReclaimDir PROVE StorageInv'
  <2>1. /\ gc' \in GCType /\ gc'.todo = gc.todo /\ gc'.prev = gc.prev /\ gc'.force = gc.force
        /\ gc'.cur = Nobody /\ gc'.marked = gc.marked \ {c} /\ gc'.at = "next" /\ UNCHANGED leaked
    BY <1>2, <1>5 DEF ReclaimDir, SetGC, GCType
  <2>2. disk' = [disk EXCEPT ![c] = NoDir] /\ mem' = [mem EXCEPT ![c] = NoStore]
    BY <1>5 DEF ReclaimDir
  <2>3. NoDir \in DiskType /\ NoDir.data = -1 /\ NoDir.meta = "none" /\ ~NoDir.dir
    BY <1>2 DEF DiskType, NoDir
  <2>4. NoStore \in StoreType /\ ~NoStore.known /\ ~NoStore.done
    BY DEF StoreType, NoStore
  <2> HIDE DEF c
  <2>5. /\ disk' \in [Peers -> DiskType] /\ disk'[c] = NoDir
        /\ mem' \in [Peers -> StoreType] /\ mem'[c] = NoStore
        /\ \A q \in Peers : q # c => disk'[q] = disk[q] /\ mem'[q] = mem[q]
    BY <1>2, <2>2, <2>3, <2>4
  <2> QED BY <1>1, <1>2, <2>1, <2>3, <2>4, <2>5, RemovingOK DEF c
<1>6. ASSUME ReclaimFails PROVE StorageInv'
  <2>1. /\ gc' \in GCType /\ gc'.todo = gc.todo /\ gc'.prev = gc.prev /\ gc'.force = gc.force
        /\ gc'.cur = Nobody /\ gc'.marked = gc.marked /\ gc'.at = "next" /\ UNCHANGED <<mem, disk>>
        /\ leaked' = leaked \cup {c}
    BY <1>2, <1>6 DEF ReclaimFails, SetGC, GCType
  <2> HIDE DEF c
  <2> QED BY <1>1, <1>2, <2>1, RemovingOK DEF c
<1> QED BY <1>3, <1>4, <1>5, <1>6

-----------------------------------------------------------------------------
\* A crash loses what is in memory.
LEMMA CrashOK ==
    ASSUME StorageInv, Crash
    PROVE  StorageInv'
<1>1. TypeOK /\ up' = FALSE /\ gc' = NoGC /\ leaked' = {} /\ index' = <<>> /\ lru' = <<>> /\ aged' = {}
      /\ UNCHANGED <<disk, left>>
  BY DEF Crash, StorageInv
<1>2. /\ NoStore \in StoreType /\ ~NoStore.known /\ ~NoStore.done /\ ~NoStore.marked
      /\ NoGC \in GCType /\ NoGC.at = "idle" /\ NoGC.cur = Nobody /\ NoGC.todo = {} /\ NoGC.marked = {}
      /\ NoGC.prev = {} /\ ~NoGC.force
  BY DEF NoStore, StoreType, NoGC, GCType
<1>3. Nobody \notin Peers /\ NPieces \in Nat \ {0}
  BY StorageBounds
<1>4. mem' \in [Peers -> StoreType] /\ \A p \in Peers : mem'[p] = NoStore
  BY <1>2 DEF Crash
<1> DEFINE l(p) == IF task[p].at \in Ended THEN task[p].at ELSE "failed"
           r(p) == IF task[p].reader = "pending" THEN "bad" ELSE task[p].reader
           dead(p) == [NoTask EXCEPT !.at = l(p), !.reader = r(p), !.dest = task[p].dest]
<1>5. ASSUME NEW p \in Peers
      PROVE  /\ dead(p) \in TaskType /\ dead(p).at = l(p) /\ dead(p).reader = r(p)
             /\ dead(p).dest = task[p].dest
  <2>1. task[p] \in TaskType
    BY <1>1 DEF TypeOK
  <2> QED BY <2>1 DEF TaskType, NoTask, Stages, Ended
<1>6. task' = [p \in Peers |-> dead(p)]
  BY DEF Crash
<1> HIDE DEF dead
<1>7. /\ task' \in [Peers -> TaskType]
      /\ \A p \in Peers : /\ task'[p].at \in Ended /\ task'[p].dest = task[p].dest
                          /\ task'[p].at = task[p].at \/ (task[p].at \notin Ended /\ task'[p].at = "failed")
                          /\ task'[p].reader = r(p)
  BY <1>1, <1>5, <1>6 DEF TypeOK, Ended
<1>8. <<>> \in Seq(Peers)
  OBVIOUS
<1>9. TypeOK'
  <2>1. index' \in Seq(Peers) /\ lru' \in Seq(Peers)
    BY <1>1, <1>8, Zenon
  <2> QED BY <1>1, <1>2, <1>4, <1>7, <2>1 DEF TypeOK
<1>10. Collector'
  BY <1>1, <1>2, <1>3 DEF Collector, Removing
<1>11. Down'
  BY <1>1, <1>4, <1>7 DEF Down
<1>12. ASSUME NEW p \in Peers PROVE PeerInv(p)'
  <2>1. UnknownOf(p) /\ ContentOf(p) /\ SurvivesOf(p) /\ task[p] \in TaskType
    BY Facts
  <2>2. mem'[p] = NoStore /\ disk'[p] = disk[p] /\ task'[p].at \in Ended
        /\ (task'[p].at # "failed" => task'[p].at = task[p].at)
    BY <1>1, <1>4, <1>7 DEF Ended
  <2>3. UnknownOf(p)'
    BY <1>1, <1>2, <1>3, <2>1, <2>2 DEF UnknownOf, Early, Ended
  <2>4. Whole(p) => Whole(p)'
    BY <1>7, <2>2 DEF Whole
  <2>8. task'[p].reader # "pending" /\ (Told(p)' => task'[p].dest = NPieces)
    BY <1>7, <2>1, <2>2 DEF ContentOf, Told
  <2>5. ContentOf(p)'
    BY <1>2, <2>1, <2>2, <2>4, <2>8 DEF ContentOf, Ended
  <2>6. SurvivesOf(p)'
    BY <1>1, <1>2, <2>1, <2>2 DEF SurvivesOf, Ended, Owning
  <2>7. ListedOf(p)'
    BY <1>1, <1>2, <2>2 DEF ListedOf
  <2> QED BY <1>1, <2>3, <2>5, <2>6, <2>7 DEF PeerInv
<1> QED BY <1>9, <1>10, <1>11, <1>12 DEF StorageInv

\* ReloadPersistentTask reads the directories: who was saved as done is done.
LEMMA ReloadOK ==
    ASSUME StorageInv, Reload
    PROVE  StorageInv'
<1>1. /\ TypeOK /\ Collector /\ ~up /\ up' /\ UNCHANGED <<aged, task, gc, left, leaked>>
      /\ gc = NoGC /\ \A p \in Peers : mem[p] = NoStore /\ task[p].at \in Ended
  BY DEF Reload, StorageInv, Down
<1>2. /\ NoStore \in StoreType /\ ~NoStore.known /\ ~NoStore.done
      /\ NoGC.at = "idle" /\ NoGC.cur = Nobody /\ NoGC.todo = {} /\ NoGC.marked = {}
      /\ NoGC.prev = {} /\ ~NoGC.force
  BY DEF NoStore, StoreType, NoGC
<1>3. /\ Nobody \notin Peers /\ NPieces \in Nat \ {0}
      /\ NoDir \in DiskType /\ ~NoDir.dir /\ NoDir.meta = "none" /\ NoDir.data = -1
  BY StorageBounds DEF NoDir, DiskType
<1> DEFINE m == [NoStore EXCEPT !.known = TRUE, !.done = TRUE]
           S == {p \in Peers : Loadable(p)}
<1>4. m \in StoreType /\ m.known /\ m.done /\ ~m.marked
  BY DEF NoStore, StoreType
<1>5. /\ mem' = [p \in Peers |-> IF Loadable(p) THEN m ELSE NoStore]
      /\ disk' = [p \in Peers |-> IF Loadable(p) THEN disk[p] ELSE NoDir]
  BY DEF Reload, Kept
<1> HIDE DEF m
<1>6. /\ mem' \in [Peers -> StoreType] /\ disk' \in [Peers -> DiskType]
      /\ \A p \in Peers : Loadable(p) => mem'[p] = m /\ disk'[p] = disk[p]
      /\ \A p \in Peers : ~Loadable(p) => mem'[p] = NoStore /\ disk'[p] = NoDir
  BY <1>1, <1>2, <1>3, <1>4, <1>5 DEF TypeOK
<1>7. index' \in Seq(Peers) /\ lru' \in Seq(Peers)
  <2>1. PICK s \in SetToSeqs(S) : index' = s /\ lru' = s
    BY DEF Reload
  <2>2. Cardinality(S) \in Nat
    BY StorageBounds, FS_Subset, FS_CardinalityType
  <2>3. s \in [1..Cardinality(S) -> S]
    BY DEF SetToSeqs
  <2> QED BY <2>1, <2>2, <2>3
<1>8. TypeOK'
  BY <1>1, <1>6, <1>7 DEF TypeOK
<1>9. Collector'
  BY <1>1, <1>2, <1>3 DEF Collector, Removing
<1>10. Down'
  BY <1>1 DEF Down
<1>11. ASSUME NEW p \in Peers PROVE PeerInv(p)'
  <2>1. /\ UnknownOf(p) /\ ContentOf(p) /\ SurvivesOf(p) /\ task'[p] = task[p] /\ task[p].at \in Ended
    BY <1>1, Facts
  <2>2. CASE Loadable(p)
    <3>1. mem'[p] = m /\ disk'[p] = disk[p] /\ disk[p].dir /\ disk[p].meta = "done"
      BY <1>6, <2>2 DEF Loadable
    <3>2. Whole(p) /\ Whole(p)'
      BY <2>1, <3>1 DEF ContentOf, Whole
    <3>3. UnknownOf(p)'
      BY <2>1, <3>2 DEF UnknownOf, Whole, Owning, Early
    <3>4. ContentOf(p)'
      BY <2>1, <3>1, <3>2 DEF ContentOf, Ended, Told
    <3>5. SurvivesOf(p)' /\ DirOf(p)' /\ ListedOf(p)'
      BY <1>1, <1>2, <1>4, <2>1, <3>1 DEF SurvivesOf, DirOf, ListedOf
    <3> QED BY <3>3, <3>4, <3>5 DEF PeerInv
  <2>3. CASE ~Loadable(p)
    <3>1. mem'[p] = NoStore /\ disk'[p] = NoDir
      BY <1>6, <2>3
    <3>2. UnknownOf(p)'
      BY <1>1, <1>2, <1>3, <2>1, <3>1 DEF UnknownOf, Early, Ended
    <3>3. ContentOf(p)'
      BY <1>2, <1>3, <2>1, <3>1 DEF ContentOf, Whole, Ended, Told
    <3>4. DirOf(p)' /\ ListedOf(p)'
      BY <1>2, <1>3, <3>1 DEF DirOf, ListedOf
    <3>5. task[p].at = "ok" => p \in left
      BY <2>1, <2>3 DEF SurvivesOf, Loadable, Owning
    <3>6. SurvivesOf(p)'
      BY <1>1, <1>2, <2>1, <3>1, <3>5 DEF SurvivesOf, Ended, Owning
    <3> QED BY <3>2, <3>3, <3>4, <3>6 DEF PeerInv
  <2> QED BY <2>2, <2>3
<1> QED BY <1>8, <1>9, <1>10, <1>11 DEF StorageInv

\* An empty storage satisfies the invariant.
LEMMA StorageInit == Init => StorageInv
<1> SUFFICES ASSUME Init PROVE StorageInv
  OBVIOUS
<1>1. /\ NoStore \in StoreType /\ ~NoStore.known /\ ~NoStore.done
      /\ NoGC \in GCType /\ NoGC.at = "idle" /\ NoGC.cur = Nobody /\ NoGC.todo = {} /\ NoGC.marked = {}
      /\ NoGC.prev = {} /\ ~NoGC.force
  BY DEF NoStore, StoreType, NoGC, GCType
<1>2. /\ Nobody \notin Peers /\ NPieces \in Nat \ {0}
      /\ NoDir \in DiskType /\ ~NoDir.dir /\ NoDir.meta = "none"
      /\ NoTask \in TaskType /\ NoTask.at = "idle" /\ NoTask.reader = "none"
  BY StorageBounds DEF NoDir, DiskType, NoTask, TaskType, Stages
<1>3. <<>> \in Seq(Peers)
  OBVIOUS
<1>4. TypeOK
  BY <1>1, <1>2, <1>3 DEF Init, TypeOK
<1>5. Collector /\ Down
  BY <1>1, <1>2 DEF Init, Collector, Down, Removing
<1>6. ASSUME NEW p \in Peers PROVE PeerInv(p)
  BY <1>1, <1>2 DEF Init, PeerInv, UnknownOf, ContentOf, SurvivesOf, ListedOf, DirOf, Told,
     Early, Owning, Removing
<1> QED BY <1>4, <1>5, <1>6 DEF StorageInv

\* Every step keeps the invariant.
LEMMA StorageStep == StorageInv /\ [Next]_vars => StorageInv'
<1> SUFFICES ASSUME StorageInv, [Next]_vars PROVE StorageInv'
  OBVIOUS
<1>1. ASSUME NEW p \in Peers, Start(p) \/ TaskStep(p) \/ Access(p) \/ GiveUp(p) \/ CreateFails(p)
      PROVE  StorageInv'
  BY <1>1, StartOK, FindOK, ReuseOK, CreateFilesOK, CreateFailsOK, PublishOK, WritePieceOK, ValidateDigestOK,
     StreamClosesOK, StoreDoneOK, SaveMetadataOK, LinkOK, AccessOK DEF TaskStep
<1>2. ASSUME GCStep PROVE StorageInv'
  BY <1>2, TryGCOK, MarkReclaimOK, ShedOK, ReclaimNextOK, CleanIndexOK, ReclaimOK DEF GCStep
<1>3. ASSUME UNCHANGED vars PROVE StorageInv'
  <2>1. lru' \in Seq(Peers) /\ aged' \subseteq Peers
    BY <1>3 DEF vars, StorageInv, TypeOK
  <2> QED BY <1>3, <2>1, ClockOK DEF vars
<1> QED BY <1>1, <1>2, <1>3, AccessOK, ReloadOK, ReclaimOK, TryGCOK, CrashOK DEF Next, Routine, Disturbance

(* The inductive invariant of the local stores: the collector and the      *)
(* downloads agree on who owns what is on disk, across crashes.            *)
THEOREM StorageInvariant == Spec => []StorageInv
<1> QED BY StorageInit, StorageStep, PTL DEF Spec

(* The type invariant: no data file holds more than the pieces of the task. *)
THEOREM StorageTypeOK == Spec => []TypeOK
<1>1. StorageInv => TypeOK
  BY DEF StorageInv
<1> QED BY <1>1, StorageInvariant, PTL

(* A client that was told of success, of its own download, by the EOF of   *)
(* its stream or of a store it reuses, has the whole content, even if the  *)
(* store is being removed.                                                 *)
THEOREM StorageReusedIsWhole == Spec => []ReusedIsWhole
<1>1. StorageInv => ReusedIsWhole
  BY DEF StorageInv, PeerInv, ContentOf, ReusedIsWhole
<1> QED BY <1>1, StorageInvariant, PTL

(* A download whose success goes to the scheduler is known as done after   *)
(* every crash and restart until its peer leaves, whatever became of its   *)
(* reader.                                                                 *)
THEOREM StorageCompletedSurvives == Spec => []CompletedSurvives
<1>1. StorageInv => CompletedSurvives
  BY DEF StorageInv, PeerInv, SurvivesOf, Owning, CompletedSurvives
<1> QED BY <1>1, StorageInvariant, PTL

(* No directory is left on disk that nobody can remove any more, unless a  *)
(* removal or a creation failed, and then only until the next start.       *)
THEOREM StorageNoStrayDirectory == Spec => []NoStrayDirectory
<1>1. StorageInv => NoStrayDirectory
  BY DEF StorageInv, PeerInv, DirOf, NoStrayDirectory
<1> QED BY <1>1, StorageInvariant, PTL

(* A marked store is on the list of this round or of the round before.     *)
THEOREM StorageMarkedIsListed == Spec => []MarkedIsListed
<1>1. StorageInv => MarkedIsListed
  BY DEF StorageInv, PeerInv, ListedOf, MarkedIsListed
<1> QED BY <1>1, StorageInvariant, PTL

\* What a step may do to the data of p while the daemon is up.
LEMMA DataStays ==
    ASSUME StorageInv, Next, up, NEW p \in Peers, disk[p].data # -1, disk'[p].data = -1
    PROVE  p \in left
<1>1. disk \in [Peers -> DiskType] /\ Collector /\ disk[p].data \in (-1)..NPieces /\ NPieces \in Nat
  BY StorageBounds DEF StorageInv, TypeOK, DiskType
<1>2. ASSUME disk' = disk PROVE p \in left
  BY <1>2
<1>3. ASSUME NEW q \in Peers, CreateFiles(q) PROVE p \in left
  BY <1>1, <1>3 DEF CreateFiles
<1>9. ASSUME NEW q \in Peers, CreateFails(q) PROVE p \in left
  <2>1. disk[q] = NoDir
    BY <1>9, Facts DEF CreateFails, UnknownOf, Early
  <2> QED BY <1>1, <1>9, <2>1 DEF CreateFails, NoDir
<1>4. ASSUME NEW q \in Peers, WritePiece(q), disk' = [disk EXCEPT ![q].data = @ + 1] PROVE p \in left
  BY <1>1, <1>4
<1>5. ASSUME NEW q \in Peers, SaveMetadata(q), disk' = [disk EXCEPT ![q].meta = Saved(@)] PROVE p \in left
  BY <1>1, <1>5 DEF DiskType
<1>6. ASSUME ReclaimData \/ ReclaimMeta \/ ReclaimDir PROVE p \in left
  <2>1. gc.cur \in Peers /\ gc.cur \in left
    BY <1>1, <1>6 DEF ReclaimData, ReclaimMeta, ReclaimDir, Collector, Removing
  <2>2. p # gc.cur => disk'[p] = disk[p]
    BY <1>1, <1>6, <2>1 DEF ReclaimData, ReclaimMeta, ReclaimDir
  <2> QED BY <2>1, <2>2
<1>7. ASSUME NEW q \in Peers, Start(q) \/ TaskStep(q) \/ Access(q) \/ GiveUp(q) PROVE p \in left
  BY <1>2, <1>3, <1>4, <1>5, <1>7 DEF StreamCloses, Start, Access, GiveUp, TaskStep, FindCompletedTask, Reuse, ReuseData,
     Publish, WritePiece, ValidateDigest, StoreDone, SaveMetadata, LinkDestination
<1>8. ASSUME GCStep \/ ReclaimFails \/ CleanUp \/ Age \/ Crash PROVE p \in left
  BY <1>2, <1>6, <1>8 DEF GCStep, TryGC, MarkReclaim, Shed, ReclaimNext, CleanIndex, ForcedMark,
     ReclaimFails, CleanUp, Age, Crash, unusedByGC
<1> QED BY <1>7, <1>8, <1>9 DEF Next, Routine, Disturbance, Reload

(* The daemon takes the data of a store away only after the scheduler was  *)
(* told that the peer leaves.                                              *)
THEOREM StorageLeavesFirst == Spec => LeaveBeforeRemoval
<1>1. StorageInv /\ [Next]_vars =>
         [\A p \in Peers : up /\ disk[p].data # -1 /\ disk'[p].data = -1 => p \in left]_vars
  BY DataStays
<1> QED BY <1>1, StorageInvariant, PTL DEF Spec, LeaveBeforeRemoval
=============================================================================
