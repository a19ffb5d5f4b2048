------------------------------ MODULE CDNStore ------------------------------
(***************************************************************************)
(* cdn/supervisor/cdn: what the CDN keeps on disk of ONE task, and the     *)
(* goroutines that write it: the trigger (manager.go) detects what is      *)
(* already there (cache_detector.go), downloads the rest from the source   *)
(* and hands it to a pool of writers (cache_writer.go); the task table     *)
(* forgets tasks (task/manager.go); the storage collector removes files    *)
(* (storage_gc.go, disk.go, hybrid.go); the process may die at any time.   *)
(*                                                                         *)
(* The content of a piece is the version of the source it was read from; 0 *)
(* if it is not, or not all, there; Torn if something else is there.  The  *)
(* md5 of a piece tells versions apart, and so do the ETag and the digest  *)
(* of the file.  The per-task lock of package synclock is held for one     *)
(* step at a time except by the collector, see Locked.                     *)
(***************************************************************************)
EXTENDS Integers, Sequences, FiniteSets, SequencesExt

CONSTANTS NPieces,    \* pieces of the task
          MaxVersion, \* bound: versions of the source
          MaxWriters  \* config.WriterRoutineLimit

ASSUME StoreBounds == /\ NPieces \in Nat \ {0} /\ MaxVersion \in Nat \ {0}
                      /\ MaxWriters \in Nat \ {0}

Pieces == 0..(NPieces - 1)
Versions == 1..MaxVersion
Content == 0..MaxVersion
Torn == -1
OnDisk == Content \cup {Torn}

VARIABLES
    src,     \* the version the source serves
    hybrid,  \* StorageMode: hybrid, otherwise disk
    known,   \* SourceFileLength: the source announces its length
    digest,  \* the version whose digest the client asked for, 0 if it did not
    status,  \* CdnStatus of the SeedTask in taskStore, "gone" if there is none
    sign,    \* its PieceMd5Sign: the piece records it covers
    meta,    \* the .meta file, see MetaType
    recs,    \* the .piece file: records, one per line
    ended,   \* the last line of the .piece file ends in a newline
    data,    \* the data file: content of each piece
    there,   \* the data file exists
    trig,    \* the trigger goroutine that holds cdnLocker
    pending, \* trigger goroutines that wait for it
    jobs,    \* pieces in the hands of writers
    gc,      \* the storage collector
    tidy,    \* history: no writer outlived its trigger, no task was
             \* forgotten while its trigger ran or collected while in use
    durable  \* history: no power failure has cut off what was written

config == <<digest, hybrid, known>>
vars == <<src, config, status, sign, meta, recs, ended, data, there, trig, pending, jobs, gc, tidy,
          durable>>
files == <<meta, recs, ended, data, there>>

RecordType == [num : Pieces, ver : Versions]
NoMeta == [finish |-> FALSE, success |-> FALSE, etag |-> -1, sign |-> <<>>, size |-> 0,
           count |-> 0]
MetaType == [finish : BOOLEAN, success : BOOLEAN, etag : Content, sign : Seq(RecordType),
             size : 0..NPieces, count : 0..NPieces] \cup {NoMeta}

\* at: where it is; from: version it reads; next: curPieceNum; dig: what
\* fileDigest has seen; pool: live writers; err: writeCtx is done; hit: the
\* cache is complete; rmw: metadata read, to be written back; sign: the result.
NoTrig == [at |-> "none", from |-> 0, next |-> 0, dig |-> <<>>, pool |-> 0, err |-> FALSE,
           hit |-> FALSE, rmw |-> NoMeta, sign |-> <<>>]
TrigStages == {"none", "detect", "records", "reset", "init", "touch", "touched", "report",
               "download", "read", "send", "wait", "stat", "commit", "success", "fail"}
JobType == [num : Pieces, ver : Versions, at : {"data", "record", "report"}, old : BOOLEAN]
GCStages == {"idle", "picked", "checked", "first", "second", "third"}

TypeOK ==
    /\ src \in Versions /\ digest \in Content /\ hybrid \in BOOLEAN /\ known \in BOOLEAN
    /\ status \in {"gone", "WAITING", "RUNNING", "FAILED", "SUCCESS"}
    /\ sign \in Seq(RecordType) /\ recs \in Seq(RecordType) /\ ended \in BOOLEAN
    /\ meta \in MetaType
    /\ data \in [Pieces -> OnDisk] /\ there \in BOOLEAN
    /\ trig.at \in TrigStages /\ trig.from \in Content /\ trig.next \in 0..NPieces
    /\ trig.dig \in Seq(OnDisk) /\ Len(trig.dig) <= NPieces + 1
    /\ trig.pool \in 0..MaxWriters /\ trig.err \in BOOLEAN /\ trig.hit \in BOOLEAN
    /\ trig.rmw \in MetaType /\ trig.sign \in Seq(RecordType)
    /\ pending \in Nat
    /\ jobs \subseteq JobType
    /\ Cardinality({j \in jobs : ~j.old}) <= MaxWriters
    /\ gc \in GCStages /\ tidy \in BOOLEAN /\ durable \in BOOLEAN

Empty == [i \in Pieces |-> 0]

Init ==
    /\ src = 1 /\ digest \in {0, 1} /\ hybrid \in BOOLEAN /\ known \in BOOLEAN
    /\ status = "gone" /\ sign = <<>>
    /\ meta = NoMeta /\ recs = <<>> /\ ended = TRUE /\ data = Empty /\ there = FALSE
    /\ trig = NoTrig /\ pending = 0 /\ jobs = {}
    /\ gc = "idle" /\ tidy = TRUE /\ durable = TRUE

\* The collector holds the lock of the task while it deletes.
Locked == gc \in {"first", "second", "third"}

-----------------------------------------------------------------------------
(* RegisterSeedTask, and the task table.                                   *)

\* AddOrUpdate: a new SeedTask, or the one that is there.
Register ==
    /\ ~Locked /\ status = "gone"
    /\ status' = "WAITING" /\ sign' = <<>>
    /\ UNCHANGED <<src, config, files, trig, pending, jobs, gc, tidy, durable>>

\* triggerCdnSyncAction: a frozen task is triggered (again).
triggerCdnSyncAction ==
    /\ ~Locked /\ status \in {"WAITING", "FAILED"}
    /\ status' = "RUNNING" /\ pending' = pending + 1
    /\ UNCHANGED <<src, config, sign, files, trig, jobs, gc, tidy, durable>>

\* The task was not accessed for ExpireTime: the table forgets it.
ExpireTask ==
    /\ ~Locked /\ status # "gone"
    /\ status' = "gone" /\ sign' = <<>>
    /\ tidy' = (tidy /\ trig.at = "none" /\ pending = 0)
    /\ UNCHANGED <<src, config, files, trig, pending, jobs, gc, durable>>

\* PublishTask -> taskManager.Update: a success is not taken back.
Publish(verdict) ==
    /\ ~Locked
    /\ status' = IF status = "gone" \/ (verdict = "FAILED" /\ status = "SUCCESS") THEN status
                 ELSE verdict
    /\ sign' = IF verdict = "SUCCESS" /\ status # "gone" THEN trig.sign ELSE sign
    /\ trig' = NoTrig
    /\ UNCHANGED <<src, config, files, pending, jobs, gc, tidy, durable>>

-----------------------------------------------------------------------------
(* doTrigger: detect the cache.                                            *)

Goto(stage) == trig' = [trig EXCEPT !.at = stage]
unusedByTrigger == <<src, config, status, sign, pending, jobs, gc, tidy, durable>>

\* cdnLocker.Lock
StartTrigger ==
    /\ pending > 0 /\ trig.at = "none"
    /\ pending' = pending - 1
    /\ trig' = [NoTrig EXCEPT !.at = "detect"]
    /\ UNCHANGED <<src, config, status, sign, files, jobs, gc, tidy, durable>>

\* The length of the data file, in pieces.
Size(d) == IF \A i \in Pieces : d[i] = 0 THEN 0 ELSE 1 + Max({i \in Pieces : d[i] # 0})

\* Records sorted by piece number: the r-th is the one with r - 1 records before it.
Precedes(s, i, j) == s[i].num < s[j].num \/ (s[i].num = s[j].num /\ i < j)
Rank(s, j) == 1 + Cardinality({i \in DOMAIN s : Precedes(s, i, j)})
Sorted(s) == [r \in DOMAIN s |-> s[CHOOSE j \in DOMAIN s : Rank(s, j) = r]]

\* What detectByReadMetaFile accepts: records, their sign and the size agree
\* with the metadata.
Complete == /\ meta.finish /\ meta.success
            /\ recs # <<>> /\ (meta.count > 0 => Len(recs) = meta.count)
            /\ Sorted(recs) = meta.sign
            /\ Size(data) = meta.size

\* doDetect up to the metadata; a check of the source that fails counts as
\* "not expired" (assumed).
Expired == meta.etag # src
DetectMeta(assumed) ==
    /\ trig.at = "detect"
    /\ LET usable == there /\ meta # NoMeta /\ (assumed \/ ~Expired)
       IN  \/ usable /\ ~meta.finish /\ Goto("records")
           \/ /\ usable /\ meta.finish /\ Complete
              /\ trig' = [trig EXCEPT !.at = "touch", !.hit = TRUE, !.sign = meta.sign]
           \/ ~(usable /\ (meta.finish => Complete)) /\ Goto("reset")
    /\ UNCHANGED <<unusedByTrigger, files>>

\* detectByReadFile: the records in order as far as there is no gap and the
\* content is what the record says; the others are cut off.  A source without
\* range requests, or an unreadable .piece file, resets the cache.
\* checkPieceContent wraps the nil error of a short read, which is no error: a
\* piece beyond the end of the file is taken for good.
CheckPieceContent(rec) == data[rec.num] = rec.ver \/ rec.num >= Size(data)
Verified(s, n) == \A k \in 1..n : s[k].num = k - 1 /\ CheckPieceContent(s[k])
Kept(s) == SubSeq(s, 1, Max({n \in 0..Len(s) : Verified(s, n)}))

\* What WritePieceMetaRecords leaves: hybrid storage does not truncate, so the lines
\* after the ones it writes stay, and with them the last newline.
Written(kept) == IF hybrid THEN kept \o SubSeq(recs, Len(kept) + 1, Len(recs)) ELSE kept

\* fileDigest has seen what was read: a piece that failed, too, after which that
\* piece is read again, so that no file has this digest (Torn).
DetectRecords ==
    /\ trig.at = "records"
    /\ LET s == Sorted(recs)
           kept == Kept(s)
           stop == Len(kept) + 1
           bad == stop <= Len(s) /\ s[stop].num = stop - 1   \* read, but not what it should be
       IN  \/ /\ recs # <<>> /\ there
              /\ IF Len(kept) = Len(s) THEN UNCHANGED <<recs, ended>>
                 ELSE recs' = Written(kept) /\ ended' = (hybrid \/ kept = <<>>)
              /\ trig' = [trig EXCEPT !.at = "touch", !.next = Len(kept),
                             !.dig = [k \in 1..Len(kept) |-> data[k - 1]]
                                        \o (IF bad THEN <<Torn>> ELSE <<>>)]
           \/ Goto("reset") /\ UNCHANGED <<recs, ended>>
    /\ UNCHANGED <<unusedByTrigger, meta, data, there>>

\* ResetRepo: everything goes, an empty data file comes.
ResetRepo ==
    /\ trig.at = "reset"
    /\ meta' = NoMeta /\ recs' = <<>> /\ ended' = TRUE /\ data' = Empty /\ there' = TRUE
    /\ Goto("init")
    /\ UNCHANGED unusedByTrigger

NoResult == [finish |-> FALSE, success |-> FALSE, etag |-> 0, sign |-> <<>>, size |-> 0,
             count |-> IF known THEN NPieces ELSE 0]
\* writeFileMetadataByTask; detectCache has no break point then.
writeFileMetadataByTask ==
    /\ trig.at = "init"
    /\ meta' = NoResult
    /\ trig' = [trig EXCEPT !.at = "download", !.next = 0]
    /\ UNCHANGED <<unusedByTrigger, recs, ended, data, there>>

\* updateAccessTime reads the metadata and writes it back.
ReadAccessTime ==
    /\ trig.at = "touch"
    /\ trig' = [trig EXCEPT !.at = "touched", !.rmw = meta]
    /\ UNCHANGED <<unusedByTrigger, files>>

WriteAccessTime ==
    /\ trig.at = "touched"
    /\ meta' = IF trig.rmw = NoMeta THEN meta ELSE trig.rmw
    /\ trig' = [trig EXCEPT !.at = "report", !.rmw = NoMeta]
    /\ UNCHANGED <<unusedByTrigger, recs, ended, data, there>>

\* reportDetectResult publishes the cached pieces of a task that is there.
ReportDetectResult ==
    /\ trig.at = "report" /\ ~Locked
    /\ Goto(IF (trig.hit \/ trig.next > 0) /\ status = "gone" THEN "fail"
            ELSE IF trig.hit THEN "success" ELSE "download")
    /\ UNCHANGED <<unusedByTrigger, files>>

-----------------------------------------------------------------------------
(* doTrigger: download and write.                                          *)

\* calculateRoutineCount
RoutineCount == IF known /\ NPieces - trig.next < MaxWriters THEN NPieces - trig.next
                ELSE MaxWriters

\* download: from the break point; a range behind the end is refused, and so is any
\* if the length is not known (getBreakRange).  updateExpireInfo keeps the ETag of
\* the answer.
Download ==
    /\ trig.at = "download"
    /\ IF trig.next = NPieces \/ (trig.next > 0 /\ ~known) THEN Goto("fail") /\ UNCHANGED meta
       ELSE /\ trig' = [trig EXCEPT !.at = "read", !.from = src, !.pool = RoutineCount]
            /\ meta' = IF meta = NoMeta THEN NoMeta ELSE [meta EXCEPT !.etag = src]
    /\ UNCHANGED <<unusedByTrigger, recs, ended, data, there>>

\* One round of doWrite: read a piece, unless a writer failed or it was the last.
AllRead_late == trig.next > NPieces
AllRead == trig.next = NPieces
ReadPiece ==
    /\ trig.at = "read"
    /\ IF trig.err \/ AllRead THEN Goto("wait")
       ELSE trig' = [trig EXCEPT !.at = "send", !.dig = Append(@, trig.from)]
    /\ UNCHANGED <<unusedByTrigger, files>>

\* jobCh is not buffered: the piece goes to a writer that is free.  Once
\* writeCtx is done that writer drops it and leaves.
Busy == Cardinality({j \in jobs : ~j.old})
SendPiece ==
    /\ trig.at = "send" /\ Busy < trig.pool
    /\ trig' = [trig EXCEPT !.at = "read", !.next = @ + 1,
                            !.pool = IF trig.err THEN @ - 1 ELSE @]
    /\ jobs' = IF trig.err THEN jobs
               ELSE jobs \cup {[num |-> trig.next, ver |-> trig.from, at |-> "data", old |-> FALSE]}
    /\ UNCHANGED <<src, config, status, sign, files, pending, gc, tidy, durable>>

\* A writer: the data, the record, the report.
WriteData(j) ==
    /\ j.at = "data"
    /\ data' = [data EXCEPT ![j.num] = j.ver] /\ there' = TRUE
    /\ jobs' = (jobs \ {j}) \cup {[j EXCEPT !.at = "record"]}
    /\ UNCHANGED <<src, config, status, sign, meta, recs, ended, trig, pending, gc, tidy, durable>>

\* AppendPieceMetadata puts the record and a newline at the end of the file.
\* If the last line is not ended, the two become one line, which is read as
\* the first record.
Appended(j) == IF ended THEN Append(recs, [num |-> j.num, ver |-> j.ver]) ELSE recs
AppendRecord(j) ==
    /\ j.at = "record"
    /\ recs' = Appended(j) /\ ended' = TRUE
    /\ jobs' = (jobs \ {j}) \cup {[j EXCEPT !.at = "report"]}
    /\ UNCHANGED <<src, config, status, sign, meta, data, there, trig, pending, gc, tidy, durable>>

\* The task has gone: PublishPiece fails, and with it the writer.
ReportPiece(j) ==
    /\ j.at = "report" /\ ~Locked
    /\ jobs' = jobs \ {j}
    /\ trig' = IF status = "gone" /\ ~j.old THEN [trig EXCEPT !.err = TRUE, !.pool = @ - 1]
               ELSE trig
    /\ UNCHANGED <<src, config, status, sign, files, pending, gc, tidy, durable>>

\* g.Wait
Wait ==
    /\ trig.at = "wait" /\ Busy = 0
    /\ Goto(IF trig.err THEN "fail" ELSE "stat")
    /\ UNCHANGED <<unusedByTrigger, files>>

\* StatDownloadFile, getPieceMd5Sign, and the metadata handleCDNResult reads.
Measure ==
    /\ trig.at = "stat"
    /\ IF ~there \/ recs = <<>> \/ meta = NoMeta THEN Goto("fail")
       ELSE trig' = [trig EXCEPT !.at = "commit",
                        !.rmw = [meta EXCEPT !.sign = Sorted(recs), !.size = Size(data),
                                    !.count = IF trig.next > 0 THEN trig.next ELSE @]]
    /\ UNCHANGED <<unusedByTrigger, files>>

\* handleCDNResult: digest and, if the source announced one, length are checked, the
\* verdict is saved.
DigestMatches_unchecked == TRUE
DigestMatches == digest # 0 => trig.dig = [k \in 1..NPieces |-> digest]
Matches_anyLength == DigestMatches
Matches == DigestMatches /\ (known => trig.next = NPieces)
Commit ==
    /\ trig.at = "commit"
    /\ meta' = IF Matches THEN [trig.rmw EXCEPT !.finish = TRUE, !.success = TRUE]
               ELSE [NoResult EXCEPT !.finish = TRUE, !.etag = trig.rmw.etag]
    /\ trig' = [trig EXCEPT !.at = IF Matches THEN "success" ELSE "fail",
                            !.rmw = NoMeta, !.sign = trig.rmw.sign]
    /\ UNCHANGED <<unusedByTrigger, recs, ended, data, there>>

Success == trig.at = "success" /\ Publish("SUCCESS")
Fail == trig.at = "fail" /\ Publish("FAILED")

-----------------------------------------------------------------------------
(* What goes wrong.                                                        *)

\* The source changes its content.
SourceChanges ==
    /\ src < MaxVersion /\ src' = src + 1
    /\ UNCHANGED <<config, status, sign, files, trig, pending, jobs, gc, tidy, durable>>

\* The source cannot be reached, or answers less than it announced.
SourceRefuses ==
    /\ trig.at = "download" /\ Goto("fail")
    /\ UNCHANGED <<unusedByTrigger, files>>

ShortRead ==
    /\ trig.at = "read" /\ ~trig.err /\ trig.next < NPieces /\ Goto("wait")
    /\ UNCHANGED <<unusedByTrigger, files>>

\* The source breaks off: doWrite returns and does not wait for its writers.
ReadFails ==
    /\ trig.at = "read" /\ ~trig.err /\ trig.next < NPieces
    /\ jobs' = {[j EXCEPT !.old = TRUE] : j \in jobs}
    /\ tidy' = (tidy /\ jobs = {})
    /\ Goto("fail")
    /\ UNCHANGED <<src, config, status, sign, files, pending, gc, durable>>

\* A disk error.
WriterFails ==
    /\ \E j \in jobs : /\ j.at # "report" /\ ~j.old
                       /\ jobs' = jobs \ {j}
    /\ trig' = [trig EXCEPT !.err = TRUE, !.pool = @ - 1]
    /\ UNCHANGED <<src, config, status, sign, files, pending, gc, tidy, durable>>

Die == /\ status' = "gone" /\ sign' = <<>>
       /\ trig' = NoTrig /\ pending' = 0 /\ jobs' = {} /\ gc' = "idle"
       /\ UNCHANGED <<src, config, meta, recs, ended, there, tidy>>

\* The process dies: files stay, a piece that was being written may be torn.  At the
\* end of the file what there is of it is too short.
Crash ==
    /\ \E torn \in SUBSET {j \in jobs : j.at = "data"} :
          data' = [i \in Pieces |-> IF i < Size(data) /\ \E j \in torn : j.num = i THEN Torn
                                    ELSE data[i]]
    /\ Die /\ UNCHANGED durable

\* The machine dies.  No file is synced: the end of the data file may be lost although
\* records and metadata are there.
PowerFails ==
    /\ \E n \in Pieces : data' = [i \in Pieces |-> IF i < n THEN data[i] ELSE 0]
    /\ Die /\ durable' = (durable /\ data' = data)

-----------------------------------------------------------------------------
(* The storage collector.                                                  *)

unusedByGC == <<src, config, status, sign, trig, pending, jobs, tidy, durable>>

\* cleaner.GC walks the files and picks tasks that are not in the table.
PickForGC ==
    /\ gc = "idle" /\ status = "gone" /\ (there \/ meta # NoMeta \/ recs # <<>>)
    /\ gc' = "picked"
    /\ UNCHANGED <<unusedByGC, files>>

\* The table is asked again, under the lock of the task; hybrid storage asks
\* first and locks then.
StillUnused_unchecked == TRUE
StillUnused == status = "gone"
CheckForGC ==
    /\ gc = "picked"
    /\ gc' = IF ~StillUnused THEN "idle" ELSE IF hybrid THEN "checked" ELSE "first"
    /\ UNCHANGED <<unusedByGC, files>>

LockForGC ==
    /\ gc = "checked" /\ gc' = "first"
    /\ UNCHANGED <<unusedByGC, files>>

\* DeleteTask, deleteTaskFiles: one file after the other.
DeleteOrder == IF hybrid THEN <<"data", "meta", "piece">> ELSE <<"meta", "piece", "data">>
DeleteFile(f) ==
    /\ meta' = IF f = "meta" THEN NoMeta ELSE meta
    /\ recs' = IF f = "piece" THEN <<>> ELSE recs
    /\ ended' = (f = "piece" \/ ended)
    /\ data' = IF f = "data" THEN Empty ELSE data
    /\ there' = (f # "data" /\ there)
DeleteTask ==
    /\ \/ gc = "first" /\ DeleteFile(DeleteOrder[1]) /\ gc' = "second"
       \/ gc = "second" /\ DeleteFile(DeleteOrder[2]) /\ gc' = "third"
       \/ gc = "third" /\ DeleteFile(DeleteOrder[3]) /\ gc' = "idle"
    /\ tidy' = (tidy /\ status = "gone")
    /\ UNCHANGED <<src, config, status, sign, trig, pending, jobs, durable>>

-----------------------------------------------------------------------------
TriggerStep ==
    \/ StartTrigger \/ DetectMeta(FALSE) \/ DetectRecords \/ ResetRepo \/ writeFileMetadataByTask
    \/ ReadAccessTime \/ WriteAccessTime \/ ReportDetectResult \/ Download \/ ReadPiece
    \/ SendPiece \/ Wait \/ Measure \/ Commit \/ Success \/ Fail

WriterStep == \E j \in jobs : WriteData(j) \/ AppendRecord(j) \/ ReportPiece(j)

Routine ==
    \/ Register \/ triggerCdnSyncAction \/ TriggerStep \/ WriterStep
    \/ PickForGC \/ CheckForGC \/ LockForGC \/ DeleteTask

Disturbance ==
    \/ ExpireTask \/ SourceChanges \/ SourceRefuses \/ ShortRead \/ ReadFails
    \/ WriterFails \/ Crash \/ PowerFails \/ DetectMeta(TRUE)

Next == Routine \/ Disturbance

Spec == Init /\ [][Next]_vars

-----------------------------------------------------------------------------
\* The pieces there have to be: what was announced or, without length and digest,
\* what was received.
Extent == IF known \/ digest # 0 THEN NPieces ELSE meta.count
Whole == \A i \in Pieces : i < Extent => data[i] \in Versions
Genuine == digest # 0 => \A i \in Pieces : data[i] = digest

(* A task that is published as a success has every piece on disk, and if   *)
(* the client asked for a digest, every piece is of that content: whatever *)
(* crashes, resumed downloads, changes of the source and runs of the       *)
(* collector came before.  After a power failure only the digest can tell  *)
(* that data is missing, as the detector does not notice it; and nothing   *)
(* is said once a writer has outlived its trigger, the table has forgotten *)
(* a task in the middle of its download, or the collector of hybrid        *)
(* storage has met a task that came back.                                  *)
PublishedIsWhole ==
    status = "SUCCESS" /\ tidy => there /\ meta.success /\ (durable => Whole) /\ Genuine

(* At every moment at which the process or the machine may die: files      *)
(* which the detector would take for a complete cache after the restart    *)
(* are complete, in the same sense.                                        *)
AcceptedIsWhole == tidy /\ there /\ Complete => (durable => Whole) /\ Genuine

(* The collector removes a file only while the task is not in the table:   *)
(* a task that was registered again in the meantime is spared.  On disk    *)
(* storage, that is.                                                       *)
CollectorSparesTasks ==
    [][~hybrid /\ Locked /\ files' # files /\ gc' # gc => status = "gone"]_vars
=============================================================================
