--------------------------- MODULE CDNStoreProofs ---------------------------
(***************************************************************************)
(* Proofs about CDNStore, for any number of pieces, versions and writers:  *)
(* what is published, or would be taken for a complete cache after a       *)
(* crash, is complete, and the collector of disk storage spares tasks that *)
(* came back.                                                              *)
(***************************************************************************)
EXTENDS CDNStore, FiniteSetTheorems, WellFoundedInduction, TLAPS

TrigType ==
    [at : TrigStages, from : Content, next : 0..NPieces, dig : Seq(OnDisk),
     pool : 0..MaxWriters, err : BOOLEAN, hit : BOOLEAN, rmw : MetaType,
     sign : Seq(RecordType)]

StoreTyped ==
    /\ src \in Versions /\ digest \in Content /\ hybrid \in BOOLEAN /\ known \in BOOLEAN
    /\ status \in {"gone", "WAITING", "RUNNING", "FAILED", "SUCCESS"}
    /\ sign \in Seq(RecordType) /\ recs \in Seq(RecordType) /\ ended \in BOOLEAN
    /\ meta \in MetaType /\ data \in [Pieces -> OnDisk] /\ there \in BOOLEAN
    /\ trig \in TrigType /\ pending \in Nat
    /\ jobs \in SUBSET JobType /\ IsFiniteSet(jobs)
    /\ gc \in GCStages /\ tidy \in BOOLEAN /\ durable \in BOOLEAN

\* The writers of the trigger that runs, and the pieces read but not yet sent.
Live == {j \in jobs : ~j.old}
Unsent == IF trig.at = "send" THEN 1 ELSE 0

\* Only a download has writers, no more than its pool; it reads no piece beyond
\* the last, and fileDigest has seen at most one piece too many.
DownloadShape ==
    /\ Live # {} => trig.at \in {"read", "send", "wait"}
    /\ Cardinality(Live) <= trig.pool
    /\ trig.at \in {"read", "send"} => trig.from \in Versions
    /\ trig.at = "send" => trig.next < NPieces
    /\ trig.at \in {"none", "detect", "records", "reset", "init"}
         => trig.next = 0 /\ trig.dig = <<>>
    /\ trig.hit => trig.at \in {"touch", "touched", "report", "success", "fail"}
    /\ trig.at \in {"stat", "commit"} => ~trig.err
    /\ trig.at = "commit" => trig.rmw # NoMeta
    /\ Len(trig.dig) <= trig.next + Unsent + 1

\* What a success means: every piece is there unless a power failure took it, and is
\* what the digest says.
Good == (durable => Whole) /\ Genuine

\* A task is RUNNING exactly as long as it has a trigger, and has one at most.
OneTrigger ==
    IF status = "RUNNING" THEN (pending = 1 /\ trig.at = "none") \/ (pending = 0 /\ trig.at # "none")
    ELSE pending = 0 /\ trig.at = "none"

\* The stages of a trigger that fills the cache.
Filling ==
    \/ trig.at \in {"download", "read", "send", "wait", "stat", "commit"}
    \/ trig.at \in {"touch", "touched", "report"} /\ ~trig.hit

Underway(i) == \E j \in jobs : j.at = "data" /\ j.num = i

\* Every piece before the break point is on disk or in the hands of a writer.
Progress ==
    Filling /\ ~trig.err /\ durable =>
        \A i \in Pieces : i < trig.next => data[i] \in Versions \/ Underway(i)

\* What fileDigest has seen is what is or will be on disk, or it matches nothing.
Digested ==
    Filling /\ ~trig.err =>
        \/ \E k \in 1..Len(trig.dig) : trig.dig[k] = Torn
        \/ /\ Len(trig.dig) = trig.next + Unsent
           /\ trig.at = "send" => trig.dig[trig.next + 1] = trig.from
           /\ \A i \in Pieces : i < trig.next => data[i] = trig.dig[i + 1] \/ Underway(i)
           /\ \A j \in jobs : j.at = "data" => j.num < trig.next /\ j.ver = trig.dig[j.num + 1]

\* A piece with a record is there, all of it, if nothing was cut off: the record comes
\* after the data.
Recorded ==
    durable /\ there =>
        /\ \A k \in DOMAIN recs : data[recs[k].num] # 0
        /\ \A j \in jobs : j.at # "data" => data[j.num] # 0

\* Metadata that says success describes good files, as long as the size is right; a
\* download has none.
MetaTrue ==
    /\ meta.success => meta.finish
    /\ meta.success /\ digest # 0 => meta.size = NPieces
    /\ meta.success /\ there /\ Size(data) = meta.size => Good
    /\ ~meta.success /\ ~known => meta.count = 0
    /\ Filling \/ trig.at \in {"records", "init"} => ~meta.success
    /\ Filling \/ trig.at = "init" => there
    /\ trig.hit => meta.success /\ there /\ Good
    /\ trig.at = "touched" => trig.rmw = meta
    /\ trig.at = "commit" => /\ trig.rmw.size = Size(data)
                             /\ trig.next > 0 \/ ~known => trig.rmw.count = trig.next
    /\ trig.at = "success" \/ status = "SUCCESS" => there /\ meta.success /\ Good

Tidy == /\ OneTrigger /\ Progress /\ Digested /\ Recorded /\ MetaTrue
        /\ \A j \in jobs : ~j.old

StoreInv == StoreTyped /\ DownloadShape /\ (tidy => Tidy)
-----------------------------------------------------------------------------

\* Every non-empty set of naturals has a least element, and if it is bounded a
\* greatest one.
LEMMA LeastNat ==
    ASSUME NEW S, S \subseteq Nat, S # {}
    PROVE  \E x \in S : \A y \in S : x <= y
<1>1. PICK x \in S : \A y \in S : <<y, x>> \notin OpToRel(<, Nat)
  BY NatLessThanWellFounded, WFMin
<1>2. OpToRel(<, Nat) = {p \in Nat \X Nat : p[1] < p[2]}
  BY Zenon DEF OpToRel
<1>3. ASSUME NEW y \in S PROVE x <= y
  <2>1. <<y, x>> \notin {p \in Nat \X Nat : p[1] < p[2]}
    BY <1>1, <1>2, Zenon
  <2> QED BY <2>1
<1> QED BY <1>3

\* Max of a bounded set of naturals is its greatest element.
LEMMA GreatestNat ==
    ASSUME NEW b \in Nat, NEW S, S \subseteq 0..b, S # {}
    PROVE  Max(S) \in S /\ \A y \in S : Max(S) >= y
<1> DEFINE T == {n \in Nat : b - n \in S}
<1>1. T # {}
  <2>1. PICK y \in S : TRUE
    OBVIOUS
  <2>2. b - y \in Nat /\ b - (b - y) = y
    OBVIOUS
  <2> QED BY <2>1, <2>2
<1>2. PICK n \in T : \A m \in T : n <= m
  <2> HIDE DEF T
  <2>1. T \subseteq Nat
    BY DEF T
  <2> QED BY <1>1, <2>1, LeastNat
<1>3. \A y \in S : b - n >= y
  <2> SUFFICES ASSUME NEW y \in S PROVE b - n >= y
    OBVIOUS
  <2>1. b - y \in T
    BY b - (b - y) = y
  <2> QED BY <1>2, <2>1
<1> QED BY <1>2, <1>3 DEF Max

\* Sorting gives every record a place of its own, and returns records.
LEMMA SortedIsSeq ==
    ASSUME NEW s \in Seq(RecordType)
    PROVE  /\ Sorted(s) \in Seq(RecordType) /\ Len(Sorted(s)) = Len(s)
           /\ \A r \in 1..Len(s) : \E j \in DOMAIN s : Sorted(s)[r] = s[j]
<1> DEFINE D == DOMAIN s
           Pred(j) == {i \in D : Precedes(s, i, j)}
           rank == [j \in D |-> Rank(s, j)]
<1>1. D = 1..Len(s) /\ Len(s) \in Nat /\ IsFiniteSet(D) /\ Cardinality(D) = Len(s)
  <2>1. D = 1..Len(s) /\ Len(s) \in Nat
    OBVIOUS
  <2>2. /\ IsFiniteSet(1..Len(s))
        /\ Cardinality(1..Len(s)) = IF 1 > Len(s) THEN 0 ELSE Len(s) - 1 + 1
    <3> HIDE DEF D
    <3>1. 1 \in Int /\ Len(s) \in Int
      BY <2>1
    <3> QED BY <3>1, FS_Interval
  <2>3. Cardinality(1..Len(s)) = Len(s)
    BY <2>1, <2>2
  <2> HIDE DEF D
  <2> QED BY <2>1, <2>2, <2>3
<1>2. \A i \in D : s[i].num \in Int /\ i \in Int
  <2> SUFFICES ASSUME NEW i \in D PROVE s[i].num \in Int /\ i \in Int
    OBVIOUS
  <2>1. i \in 1..Len(s) /\ s[i] \in RecordType
    OBVIOUS
  <2>2. s[i].num \in 0..(NPieces - 1)
    BY <2>1 DEF RecordType, Pieces
  <2> QED BY <2>1, <2>2, StoreBounds
<1>3. \A i, j, k \in D : Precedes(s, i, j) /\ Precedes(s, j, k) => Precedes(s, i, k)
  BY <1>2 DEF Precedes
<1>4. \A i, j \in D : /\ ~Precedes(s, i, i)
                      /\ i = j \/ Precedes(s, i, j) \/ Precedes(s, j, i)
  BY <1>2 DEF Precedes
<1> HIDE DEF D
<1>5. ASSUME NEW j \in D
      PROVE  IsFiniteSet(Pred(j)) /\ rank[j] \in Int /\ rank[j] = 1 + Cardinality(Pred(j))
             /\ rank[j] \in D /\ Cardinality(Pred(j)) \in Int
  <2>1. Pred(j) \subseteq D /\ j \notin Pred(j)
    BY <1>4
  <2>2. IsFiniteSet(Pred(j)) /\ Cardinality(Pred(j)) \in Nat
        /\ Cardinality(Pred(j)) <= Len(s) /\ Cardinality(Pred(j)) # Len(s)
    BY <1>1, <2>1, FS_Subset, FS_CardinalityType
  <2>3. rank[j] = 1 + Cardinality(Pred(j))
    BY DEF Rank, D
  <2> HIDE DEF rank, Pred
  <2> QED BY <1>1, <2>2, <2>3
<1>6. ASSUME NEW i \in D, NEW j \in D, Precedes(s, i, j) PROVE rank[i] < rank[j]
  <2>1. Pred(i) \subseteq Pred(j) /\ i \in Pred(j) /\ i \notin Pred(i)
    BY <1>3, <1>4, <1>6
  <2> HIDE DEF rank, Pred
  <2>2. Cardinality(Pred(i)) <= Cardinality(Pred(j)) /\ Cardinality(Pred(i)) # Cardinality(Pred(j))
    BY <1>5, <2>1, FS_Subset
  <2> QED BY <1>5, <2>2
<1>7. rank \in Injection(D, D)
  <2>1. rank = [j \in D |-> rank[j]]
    OBVIOUS
  <2> HIDE DEF rank, Pred
  <2>2. \A i, j \in D : rank[i] = rank[j] => i = j
    BY <1>4, <1>5, <1>6
  <2>3. rank \in [D -> D]
    BY <1>5, <2>1
  <2> QED BY <2>2, <2>3 DEF Injection, IsInjective
<1>8. rank \in Surjection(D, D)
  <2> HIDE DEF rank
  <2> QED BY <1>1, <1>7, FS_Injection
<1>9. \A r \in D : \E j \in D : rank[j] = r
  <2> HIDE DEF rank
  <2> QED BY <1>8 DEF Surjection
<1>10. \A r \in D : (CHOOSE j \in D : Rank(s, j) = r) \in D
  BY <1>9
<1>11. Sorted(s) = [r \in D |-> s[CHOOSE j \in D : Rank(s, j) = r]]
  BY DEF Sorted, D
<1>12. Sorted(s) \in [1..Len(s) -> RecordType]
  BY <1>1, <1>10, <1>11
<1>13. \A r \in 1..Len(s) : \E j \in DOMAIN s : Sorted(s)[r] = s[j]
  <2>1. \A r \in D : Sorted(s)[r] = s[CHOOSE j \in D : Rank(s, j) = r]
    BY <1>11
  <2>2. \A r \in D : \E j \in D : Sorted(s)[r] = s[j]
    BY <1>10, <2>1
  <2> QED BY <1>1, <2>2 DEF D
<1> QED BY <1>1, <1>12, <1>13

\* The data file ends with the last piece that is there.
LEMMA SizeIs ==
    ASSUME NEW d \in [Pieces -> OnDisk]
    PROVE  /\ Size(d) \in 0..NPieces
           /\ \A i \in Pieces : d[i] # 0 => i < Size(d)
           /\ Size(d) = NPieces => d[NPieces - 1] # 0
<1> DEFINE S == {i \in Pieces : d[i] # 0}
<1>1. CASE S = {}
  <2>1. Size(d) = 0 /\ \A i \in Pieces : d[i] = 0
    BY <1>1 DEF Size
  <2> QED BY <2>1, StoreBounds
<1>2. CASE S # {}
  <2>1. NPieces - 1 \in Nat /\ S \subseteq 0..(NPieces - 1)
    BY StoreBounds DEF Pieces
  <2>2. Max(S) \in S /\ \A y \in S : Max(S) >= y
    <3> HIDE DEF S
    <3> QED BY <1>2, <2>1, GreatestNat
  <2>3. Size(d) = 1 + Max(S)
    BY <1>2 DEF Size
  <2>4. Max(S) \in 0..(NPieces - 1) /\ d[Max(S)] # 0
    BY <2>1, <2>2
  <2>5. \A i \in Pieces : d[i] # 0 => i \in S /\ i \in Int
    BY StoreBounds DEF Pieces
  <2>6. \A i \in Pieces : d[i] # 0 => i <= Max(S) /\ i \in Int
    BY <2>2, <2>5
  <2> HIDE DEF S
  <2> QED BY <2>3, <2>4, <2>6, StoreBounds
<1> QED BY <1>1, <1>2

\* What detectByReadFile keeps are the first records, one per piece and in order,
\* and the disk holds what they say or ends before them.
LEMMA KeptIs ==
    ASSUME StoreTyped, NEW s \in Seq(RecordType)
    PROVE  /\ Kept(s) \in Seq(RecordType)
           /\ Len(Kept(s)) \in 0..NPieces /\ Len(Kept(s)) <= Len(s)
           /\ \A k \in 1..Len(Kept(s)) :
                /\ Kept(s)[k] = s[k] /\ Kept(s)[k].num = k - 1
                /\ data[k - 1] = Kept(s)[k].ver \/ k - 1 >= Size(data)
<1> DEFINE S == {n \in 0..Len(s) : Verified(s, n)}
           m == Max(S)
<1>1. 0 \in S /\ S \subseteq 0..Len(s) /\ Len(s) \in Nat
  BY DEF Verified
<1>2. m \in S
  <2> HIDE DEF S
  <2> QED BY <1>1, GreatestNat
<1>3. m \in 0..Len(s) /\ Verified(s, m)
  BY <1>2
<1>4. Kept(s) = SubSeq(s, 1, m)
  BY DEF Kept
<1> HIDE DEF m
<1>5. /\ Kept(s) \in Seq(RecordType) /\ Len(Kept(s)) = m
      /\ \A k \in 1..m : Kept(s)[k] = s[k]
  BY <1>3, <1>4
<1>6. m <= NPieces
  <2>1. CASE m = 0
    BY <2>1, StoreBounds
  <2>2. CASE m # 0
    <3>1. m \in 1..m /\ s[m].num = m - 1 /\ s[m] \in RecordType
      BY <1>3, <2>2 DEF Verified
    <3> QED BY <1>3, <3>1, StoreBounds DEF RecordType, Pieces
  <2> QED BY <2>1, <2>2
<1>7. \A k \in 1..m : /\ Kept(s)[k] = s[k] /\ Kept(s)[k].num = k - 1
                      /\ data[k - 1] = Kept(s)[k].ver \/ k - 1 >= Size(data)
  BY <1>3, <1>5 DEF Verified, CheckPieceContent
<1>8. m \in 0..NPieces /\ m <= Len(s)
  BY <1>1, <1>3, <1>6, StoreBounds
<1> QED BY <1>5, <1>7, <1>8

\* Goto moves the trigger and keeps everything else it holds.
LEMMA GotoIs ==
    ASSUME StoreTyped, NEW stage \in TrigStages, Goto(stage)
    PROVE  /\ trig' \in TrigType /\ trig'.at = stage
           /\ trig'.from = trig.from /\ trig'.next = trig.next /\ trig'.dig = trig.dig
           /\ trig'.pool = trig.pool /\ trig'.err = trig.err /\ trig'.hit = trig.hit
           /\ trig'.rmw = trig.rmw /\ trig'.sign = trig.sign
BY DEF StoreTyped, Goto, TrigType

\* Steps that leave the trigger and its writers alone.
LEMMA ShapeFrame ==
    ASSUME DownloadShape, UNCHANGED <<trig, jobs>>
    PROVE  DownloadShape'
BY DEF DownloadShape, Live, Unsent

\* Steps that leave what Tidy is about alone.
LEMMA TidyFrame ==
    ASSUME Tidy, UNCHANGED <<digest, known, status, pending, trig, jobs, meta, recs, data, there,
                             durable>>
    PROVE  Tidy'
BY DEF Tidy, OneTrigger, Progress, Digested, Recorded, MetaTrue, Filling, Underway, Unsent, Good, Whole, Extent, Genuine

\* Steps that leave the data file alone, and have no new record.
LEMMA RecordedFrame ==
    ASSUME Recorded, UNCHANGED <<recs, data, there, durable>>,
           \A j \in jobs' : j.at # "data" => \E k \in jobs : k.at # "data" /\ k.num = j.num
    PROVE  Recorded'
BY DEF Recorded

\* The table of tasks: a registration, the start of the trigger, the expiry of the task.
LEMMA TableOK ==
    ASSUME StoreInv, Register \/ triggerCdnSyncAction \/ ExpireTask
    PROVE  StoreInv'
<1> DEFINE untouched == <<src, config, files, trig, jobs, gc, durable>>
<1>1. UNCHANGED untouched
  BY DEF Register, triggerCdnSyncAction, ExpireTask
<1>2. StoreTyped /\ DownloadShape
  BY DEF StoreInv
<1>0. \/ status = "gone" /\ status' = "WAITING" /\ sign' = <<>> /\ pending' = pending
      \/ /\ status \in {"WAITING", "FAILED"} /\ status' = "RUNNING" /\ sign' = sign
         /\ pending' = pending + 1
      \/ ExpireTask /\ status' = "gone" /\ sign' = <<>> /\ pending' = pending
  BY Zenon DEF Register, triggerCdnSyncAction, ExpireTask
<1>3. StoreTyped'
  <2>1. tidy' \in BOOLEAN
    BY <1>2, Zenon DEF StoreTyped, Register, triggerCdnSyncAction, ExpireTask
  <2>2. /\ status' \in {"gone", "WAITING", "RUNNING", "FAILED", "SUCCESS"}
        /\ sign' \in Seq(RecordType) /\ pending' \in Nat
    <3>1. sign \in Seq(RecordType) /\ pending \in Nat /\ <<>> \in Seq(RecordType)
      BY <1>2 DEF StoreTyped
    <3>2. sign' \in {sign, <<>>} /\ pending' \in {pending, pending + 1}
          /\ status' \in {"gone", "WAITING", "RUNNING"}
      BY <1>0, Zenon
    <3>3. sign' \in Seq(RecordType)
      BY <3>1, <3>2, Zenon
    <3>4. pending' \in Nat
      BY <3>1, <3>2
    <3> QED BY <3>2, <3>3, <3>4
  <2> QED BY <1>1, <1>2, <2>1, <2>2 DEF StoreTyped, config, files
<1>4. DownloadShape'
  BY <1>1, <1>2, ShapeFrame
<1>5. ASSUME tidy' PROVE Tidy'
  <2>1. tidy /\ Tidy
    BY <1>5 DEF StoreInv, Register, triggerCdnSyncAction, ExpireTask
  <2>2. OneTrigger'
    <3>1. ExpireTask => trig.at = "none" /\ pending = 0
      BY <1>5, Zenon DEF ExpireTask
    <3>2. pending \in Nat
      BY <1>2 DEF StoreTyped
    <3> QED BY <1>0, <1>1, <2>1, <3>1, <3>2 DEF Tidy, OneTrigger
  <2>3. Progress' /\ Digested' /\ Recorded' /\ \A j \in jobs' : ~j.old
    BY <1>1, <2>1 DEF Tidy, Progress, Digested, Recorded, Filling, Underway, Unsent, files
  <2>4. status' = "SUCCESS" => status = "SUCCESS"
    BY DEF Register, triggerCdnSyncAction, ExpireTask
  <2>5. MetaTrue'
    BY <1>1, <2>1, <2>4 DEF Tidy, MetaTrue, Filling, Good, Whole, Extent, Genuine, files, config
  <2> QED BY <2>2, <2>3, <2>5 DEF Tidy
<1> QED BY <1>3, <1>4, <1>5 DEF StoreInv

\* The source changes between any two steps.
LEMMA SourceChangesOK ==
    ASSUME StoreInv, SourceChanges
    PROVE  StoreInv'
<1>1. StoreTyped'
  BY StoreBounds DEF StoreInv, StoreTyped, SourceChanges, Versions, config, files
<1>2. DownloadShape' /\ (tidy' => Tidy')
  BY ShapeFrame, TidyFrame DEF StoreInv, SourceChanges, config, files
<1> QED BY <1>1, <1>2 DEF StoreInv

\* The collector picks, checks and locks a task (PickForGC, CheckForGC, LockForGC).
LEMMA CollectorPicksOK ==
    ASSUME StoreInv, PickForGC \/ CheckForGC \/ LockForGC
    PROVE  StoreInv'
<1>1. UNCHANGED <<unusedByGC, files>> /\ gc' \in GCStages
  BY DEF PickForGC, CheckForGC, LockForGC, GCStages
<1>2. StoreTyped'
  BY <1>1 DEF StoreInv, StoreTyped, unusedByGC, config, files
<1>3. DownloadShape' /\ (tidy' => Tidy')
  BY <1>1, ShapeFrame, TidyFrame DEF StoreInv, unusedByGC, config, files
<1> QED BY <1>2, <1>3 DEF StoreInv

\* Without a trigger that left writers behind, writers work for a download.
LEMMA NoStrayWriters ==
    ASSUME StoreInv, tidy
    PROVE  jobs = Live /\ (jobs # {} => trig.at \in {"read", "send", "wait"})
BY DEF StoreInv, Tidy, DownloadShape, Live

\* The collector removes the three files, one after the other.
LEMMA DeleteTaskOK ==
    ASSUME StoreInv, DeleteTask
    PROVE  StoreInv'
<1>1. PICK name \in {"data", "meta", "piece"} : DeleteFile(name)
  <2>1. \A k \in 1..3 : DeleteOrder[k] \in {"data", "meta", "piece"}
    BY DEF DeleteOrder
  <2> QED BY <2>1 DEF DeleteTask
<1>2. /\ UNCHANGED <<src, config, status, sign, trig, pending, jobs, durable>>
      /\ tidy' = (tidy /\ status = "gone") /\ gc' \in GCStages
  BY DEF DeleteTask, GCStages
<1>3. StoreTyped /\ DownloadShape
  BY DEF StoreInv
<1>4. StoreTyped'
  <2>1. NoMeta \in MetaType /\ Empty \in [Pieces -> OnDisk] /\ <<>> \in Seq(RecordType)
    BY StoreBounds DEF MetaType, Empty, Content, OnDisk
  <2>2. /\ meta' \in MetaType /\ recs' \in Seq(RecordType) /\ ended' \in BOOLEAN
        /\ data' \in [Pieces -> OnDisk] /\ there' \in BOOLEAN
    BY <1>1, <1>3, <2>1 DEF DeleteFile, StoreTyped
  <2> QED BY <1>2, <1>3, <2>2 DEF StoreTyped, config
<1>5. DownloadShape'
  BY <1>2, <1>3, ShapeFrame
<1>6. ASSUME tidy' PROVE Tidy'
  <2>1. tidy /\ Tidy /\ status = "gone" /\ trig.at = "none"
    BY <1>2, <1>6 DEF StoreInv, Tidy, OneTrigger
  <2>2. OneTrigger' /\ Progress' /\ Digested' /\ \A j \in jobs' : ~j.old
    BY <1>2, <2>1 DEF Tidy, OneTrigger, Progress, Digested, Filling
  <2>4. Recorded'
    <3>1. /\ there' => there /\ data' = data /\ recs' \in {recs, <<>>}
          /\ jobs' = jobs /\ durable' = durable
      BY <1>1, <1>2 DEF DeleteFile
    <3> QED BY <2>1, <3>1 DEF Tidy, Recorded
  <2>3. MetaTrue'
    <3>1. ~trig.hit
      BY <1>3, <2>1 DEF DownloadShape
    <3>2. CASE name = "meta"
      BY <1>1, <1>2, <2>1, <3>1, <3>2 DEF MetaTrue, DeleteFile, NoMeta, Filling
    <3>3. CASE name = "data"
      BY <1>1, <1>2, <2>1, <3>1, <3>3 DEF Tidy, MetaTrue, DeleteFile, Filling, config
    <3>4. CASE name = "piece"
      BY <1>1, <1>2, <2>1, <3>1, <3>4
         DEF Tidy, MetaTrue, DeleteFile, Filling, Good, Whole, Extent, Genuine, config
    <3> QED BY <3>2, <3>3, <3>4
  <2> QED BY <2>2, <2>3, <2>4 DEF Tidy
<1> QED BY <1>4, <1>5, <1>6 DEF StoreInv

\* The trigger goes on to another stage and changes nothing else.
LEMMA GotoOK ==
    ASSUME StoreInv, UNCHANGED <<unusedByTrigger, files>>,
           NEW stage \in {"records", "reset", "download", "wait", "stat", "success", "fail"},
           Goto(stage),
           trig.at \notin {"none", "send"},
           Live = {} \/ stage = "wait",
           stage \in {"records", "reset"} => trig.at \in {"detect", "records"},
           stage = "records" => ~meta.finish,
           stage = "success" => trig.hit,
           trig.hit => stage \in {"success", "fail"},
           stage \in {"download", "wait", "stat"} => Filling,
           stage = "stat" => ~trig.err
    PROVE  StoreInv'
<1>1. StoreTyped /\ DownloadShape
  BY DEF StoreInv
<1>2. /\ trig' \in TrigType /\ trig'.at = stage
      /\ trig'.from = trig.from /\ trig'.next = trig.next /\ trig'.dig = trig.dig
      /\ trig'.pool = trig.pool /\ trig'.err = trig.err /\ trig'.hit = trig.hit
      /\ trig'.rmw = trig.rmw /\ trig'.sign = trig.sign
  BY <1>1, GotoIs DEF TrigStages
<1>3. StoreTyped'
  BY <1>1, <1>2 DEF StoreTyped, unusedByTrigger, files, config
<1>4. Live' = Live
  BY DEF Live, unusedByTrigger
<1>5. DownloadShape'
  BY <1>1, <1>2, <1>4 DEF DownloadShape, Unsent
<1>6. ASSUME tidy' PROVE Tidy'
  <2>1. Tidy
    BY <1>6 DEF StoreInv, unusedByTrigger
  <2>2. OneTrigger' /\ \A j \in jobs' : ~j.old
    BY <1>2, <2>1 DEF Tidy, OneTrigger, unusedByTrigger
  <2>3. Filling' => Filling
    BY <1>2 DEF Filling
  <2>4. MetaTrue'
    BY <1>2, <2>1, <2>3 DEF Tidy, MetaTrue, Filling, Good, Whole, Extent, Genuine, unusedByTrigger, files, config
  <2>5. Progress'
    BY <1>2, <2>1, <2>3 DEF Tidy, Progress, Underway, unusedByTrigger, files
  <2>6. Digested'
    BY <1>2, <2>1, <2>3 DEF Tidy, Digested, Underway, Unsent, unusedByTrigger, files
  <2>7. Recorded'
    BY <2>1, RecordedFrame DEF Tidy, unusedByTrigger, files
  <2> QED BY <2>2, <2>4, <2>5, <2>6, <2>7 DEF Tidy
<1> QED BY <1>3, <1>5, <1>6 DEF StoreInv

\* Outside of a download the running trigger has no writers.
LEMMA NoWriters ==
    ASSUME StoreInv, trig.at \notin {"read", "send", "wait"}
    PROVE  Live = {} /\ (tidy => jobs = {})
BY DEF StoreInv, DownloadShape, Tidy, Live

\* No trigger and no metadata are well typed.
LEMMA NoTrigIs == NoTrig \in TrigType /\ NoMeta \in MetaType
<1>1. NoMeta \in MetaType /\ <<>> \in Seq(OnDisk) /\ <<>> \in Seq(RecordType)
  BY DEF MetaType
<1> QED BY <1>1, StoreBounds DEF NoTrig, TrigType, TrigStages, Content

\* The end of the trigger: the result is published.
LEMMA PublishOK ==
    ASSUME StoreInv, Success \/ Fail
    PROVE  StoreInv'
<1>1. PICK verdict \in {"SUCCESS", "FAILED"} :
        /\ Publish(verdict) /\ trig.at = IF verdict = "SUCCESS" THEN "success" ELSE "fail"
  BY DEF Success, Fail
<1>2. StoreTyped /\ DownloadShape /\ Live = {} /\ (tidy => jobs = {})
  BY <1>1, NoWriters DEF StoreInv
<1>3. /\ trig' = NoTrig /\ UNCHANGED <<src, config, files, pending, jobs, gc, tidy, durable>>
      /\ status' \in {status, verdict} /\ sign' \in {trig.sign, sign}
      /\ status = "RUNNING" => status' = verdict
  BY <1>1 DEF Publish
<1>4. StoreTyped'
  <2>1. sign' \in Seq(RecordType)
    BY <1>2, <1>3 DEF StoreTyped, TrigType
  <2>2. status' \in {"gone", "WAITING", "RUNNING", "FAILED", "SUCCESS"}
    BY <1>2, <1>3 DEF StoreTyped
  <2> QED BY <1>2, <1>3, <2>1, <2>2, NoTrigIs DEF StoreTyped, files, config
<1>5. DownloadShape'
  <2>1. Live' = {}
    BY <1>2, <1>3 DEF Live
  <2> QED BY <1>3, <2>1, FS_EmptySet, StoreBounds DEF DownloadShape, NoTrig, Unsent
<1>6. ASSUME tidy' PROVE Tidy'
  <2>1. Tidy /\ status = "RUNNING" /\ pending = 0 /\ status' = verdict
    BY <1>1, <1>3, <1>6 DEF StoreInv, Tidy, OneTrigger
  <2>2. OneTrigger' /\ Progress' /\ Digested' /\ \A j \in jobs' : ~j.old
    BY <1>3, <2>1 DEF Tidy, OneTrigger, Progress, Digested, Filling, NoTrig
  <2>3. MetaTrue'
    BY <1>1, <1>3, <2>1
       DEF Tidy, MetaTrue, Filling, Good, Whole, Extent, Genuine, NoTrig, files, config
  <2>4. Recorded'
    BY <1>3, <2>1, RecordedFrame DEF Tidy, files
  <2> QED BY <2>2, <2>3, <2>4 DEF Tidy
<1> QED BY <1>4, <1>5, <1>6 DEF StoreInv

\* A trigger starts with the lock of the CDN manager.
LEMMA StartTriggerOK ==
    ASSUME StoreInv, StartTrigger
    PROVE  StoreInv'
<1>1. /\ pending > 0 /\ trig.at = "none" /\ pending' = pending - 1
      /\ trig' = [NoTrig EXCEPT !.at = "detect"]
      /\ UNCHANGED <<src, config, status, sign, files, jobs, gc, tidy, durable>>
  BY DEF StartTrigger
<1>2. StoreTyped /\ DownloadShape /\ Live = {}
  BY <1>1, NoWriters DEF StoreInv
<1>3. /\ trig' \in TrigType /\ trig'.at = "detect" /\ trig'.next = 0 /\ trig'.dig = <<>>
      /\ trig'.pool = 0 /\ trig'.hit = FALSE
  BY <1>1, NoTrigIs DEF NoTrig, TrigType, TrigStages
<1>4. StoreTyped'
  BY <1>1, <1>2, <1>3 DEF StoreTyped, files, config
<1>5. DownloadShape'
  <2>1. Live' = {}
    BY <1>1, <1>2 DEF Live
  <2> QED BY <1>3, <2>1, FS_EmptySet, StoreBounds DEF DownloadShape, Unsent
<1>6. ASSUME tidy' PROVE Tidy'
  <2>1. Tidy /\ pending \in Nat
    BY <1>1, <1>2, <1>6 DEF StoreInv, StoreTyped
  <2>2. OneTrigger' /\ Progress' /\ Digested' /\ \A j \in jobs' : ~j.old
    BY <1>1, <1>3, <2>1 DEF Tidy, OneTrigger, Progress, Digested, Filling
  <2>3. MetaTrue'
    BY <1>1, <1>3, <2>1 DEF Tidy, MetaTrue, Filling, Good, Whole, Extent, Genuine, files, config
  <2>4. Recorded'
    BY <1>1, <2>1, RecordedFrame DEF Tidy, files
  <2> QED BY <2>2, <2>3, <2>4 DEF Tidy
<1> QED BY <1>4, <1>5, <1>6 DEF StoreInv

\* detectCache looks at the metadata: expired, finished, or a break point.
LEMMA DetectMetaOK ==
    ASSUME StoreInv, NEW assumed \in BOOLEAN, DetectMeta(assumed)
    PROVE  StoreInv'
<1>1. trig.at = "detect" /\ UNCHANGED <<unusedByTrigger, files>>
  BY DEF DetectMeta
<1>2. StoreTyped /\ DownloadShape /\ Live = {} /\ ~trig.hit
  BY <1>1, NoWriters DEF StoreInv, DownloadShape
<1>3. CASE (Goto("records") /\ ~meta.finish) \/ Goto("reset")
  BY <1>1, <1>2, <1>3, GotoOK
<1>4. CASE there /\ meta # NoMeta /\ Complete
           /\ trig' = [trig EXCEPT !.at = "touch", !.hit = TRUE, !.sign = meta.sign]
  <2>1. meta.sign \in Seq(RecordType)
    BY <1>2, <1>4 DEF StoreTyped, MetaType
  <2>2. /\ trig' \in TrigType /\ trig'.at = "touch" /\ trig'.hit = TRUE
        /\ trig'.next = trig.next /\ trig'.dig = trig.dig /\ trig'.pool = trig.pool
    BY <1>2, <1>4, <2>1 DEF StoreTyped, TrigType, TrigStages
  <2>3. StoreTyped'
    BY <1>1, <1>2, <2>2 DEF StoreTyped, unusedByTrigger, files, config
  <2>4. DownloadShape'
    <3>1. Live' = Live
      BY <1>1 DEF Live, unusedByTrigger
    <3> QED BY <1>1, <1>2, <2>2, <3>1 DEF DownloadShape, Unsent
  <2>5. ASSUME tidy' PROVE Tidy'
    <3>1. Tidy
      BY <1>1, <2>5 DEF StoreInv, unusedByTrigger
    <3>2. OneTrigger' /\ Progress' /\ Digested' /\ \A j \in jobs' : ~j.old
      BY <1>1, <2>2, <3>1 DEF Tidy, OneTrigger, Progress, Digested, Filling, unusedByTrigger
    <3>3. MetaTrue'
      BY <1>1, <1>4, <2>2, <3>1
         DEF Tidy, MetaTrue, Filling, Good, Whole, Extent, Genuine, Complete, unusedByTrigger,
             files, config
    <3>4. Recorded'
      BY <1>1, <3>1, RecordedFrame DEF Tidy, unusedByTrigger, files
    <3> QED BY <3>2, <3>3, <3>4 DEF Tidy
  <2> QED BY <2>3, <2>4, <2>5 DEF StoreInv
<1> QED BY <1>3, <1>4, Zenon DEF DetectMeta

\* The beginning of a sequence is not touched by what is appended.
LEMMA ConcatIs ==
    ASSUME NEW S, NEW s \in Seq(S), NEW t \in Seq(S)
    PROVE  /\ s \o t \in Seq(S) /\ Len(s \o t) = Len(s) + Len(t)
           /\ \A k \in 1..Len(s) : (s \o t)[k] = s[k]
           /\ Len(t) > 0 => (s \o t)[Len(s) + 1] = t[1]
OBVIOUS

\* detectByReadMetaFile and parseByReadFile: the break point is covered by whole pieces.
LEMMA DetectRecordsOK ==
    ASSUME StoreInv, DetectRecords
    PROVE  StoreInv'
<1> DEFINE s == Sorted(recs)
           kept == Kept(s)
           stop == Len(kept) + 1
           bad == stop <= Len(s) /\ s[stop].num = stop - 1
           seen == [k \in 1..Len(kept) |-> data[k - 1]]
           dig == seen \o (IF bad THEN <<Torn>> ELSE <<>>)
<1>1. trig.at = "records" /\ UNCHANGED <<unusedByTrigger, meta, data, there>>
  BY DEF DetectRecords
<1>2. StoreTyped /\ DownloadShape /\ Live = {} /\ (tidy => jobs = {}) /\ ~trig.hit
  BY <1>1, NoWriters DEF StoreInv, DownloadShape
<1>3. CASE Goto("reset") /\ UNCHANGED <<recs, ended>>
  BY <1>1, <1>2, <1>3, GotoOK DEF files
<1>4. CASE /\ \/ UNCHANGED <<recs, ended>>
              \/ recs' = Written(kept) /\ ended' = (hybrid \/ kept = <<>>)
           /\ trig' = [trig EXCEPT !.at = "touch", !.next = Len(kept), !.dig = dig]
           /\ there
  <2>1. /\ s \in Seq(RecordType) /\ Len(s) = Len(recs) /\ recs \in Seq(RecordType)
        /\ \A n \in 1..Len(recs) : \E j \in DOMAIN recs : s[n] = recs[j]
    BY <1>2, SortedIsSeq DEF StoreTyped
  <2>2. /\ kept \in Seq(RecordType) /\ Len(kept) \in 0..NPieces /\ Len(kept) <= Len(s)
        /\ \A k \in 1..Len(kept) : /\ kept[k] = s[k] /\ kept[k].num = k - 1
                                   /\ data[k - 1] = kept[k].ver \/ k - 1 >= Size(data)
    BY <1>2, <2>1, KeptIs
  <2> HIDE DEF s, kept
  <2>3. seen \in Seq(OnDisk) /\ Len(seen) = Len(kept)
        /\ \A k \in 1..Len(kept) : seen[k] = data[k - 1]
    <3>1. ASSUME NEW k \in 1..Len(kept) PROVE data[k - 1] \in OnDisk
      <4>1. k - 1 \in Pieces
        BY <2>2, StoreBounds DEF Pieces
      <4> QED BY <1>2, <4>1 DEF StoreTyped
    <3>2. seen \in [1..Len(kept) -> OnDisk] /\ Len(kept) \in Nat
      BY <2>2, <3>1
    <3>3. \A k \in 1..Len(kept) : seen[k] = data[k - 1]
      OBVIOUS
    <3> HIDE DEF seen
    <3> QED BY <3>2, <3>3
  <2> DEFINE one == IF bad THEN <<Torn>> ELSE <<>>
  <2>5. one \in Seq(OnDisk) /\ Len(one) = (IF bad THEN 1 ELSE 0) /\ (bad => one[1] = Torn)
    <3>1. Torn \in OnDisk
      BY DEF OnDisk
    <3> HIDE DEF bad
    <3> QED BY <3>1
  <2>6. dig = seen \o one
    OBVIOUS
  <2> HIDE DEF seen, one, bad, dig
  <2>8. /\ dig \in Seq(OnDisk) /\ Len(dig) = Len(kept) + (IF bad THEN 1 ELSE 0)
        /\ \A k \in 1..Len(kept) : dig[k] = data[k - 1]
        /\ bad => dig[Len(kept) + 1] = Torn
    <3>1. /\ dig \in Seq(OnDisk) /\ Len(dig) = Len(seen) + Len(one)
          /\ \A k \in 1..Len(seen) : dig[k] = seen[k]
      <4>1. /\ seen \o one \in Seq(OnDisk) /\ Len(seen \o one) = Len(seen) + Len(one)
            /\ \A k \in 1..Len(seen) : (seen \o one)[k] = seen[k]
        BY <2>3, <2>5, ConcatIs
      <4> QED BY <2>6, <4>1, Zenon
    <3>2. ASSUME bad PROVE dig[Len(seen) + 1] = one[1]
      <4>1. Len(one) = 1 /\ Len(seen) \in Nat
        BY <2>3, <2>5, <3>2
      <4>2. Len(one) > 0 => (seen \o one)[Len(seen) + 1] = one[1]
        BY <2>3, <2>5, ConcatIs
      <4>3. (seen \o one)[Len(seen) + 1] = one[1]
        BY <4>1, <4>2
      <4> QED BY <2>6, <4>3, Zenon
    <3> QED BY <2>3, <2>5, <3>1, <3>2
  <2>9. /\ trig' \in TrigType /\ trig'.at = "touch" /\ trig'.next = Len(kept) /\ trig'.dig = dig
        /\ trig'.pool = trig.pool /\ trig'.err = trig.err /\ ~trig'.hit
    BY <1>2, <1>4, <2>2, <2>8 DEF StoreTyped, TrigType, TrigStages
  <2>4. Written(kept) \in Seq(RecordType)
        /\ \A n \in DOMAIN Written(kept) :
             (\E k \in 1..Len(kept) : Written(kept)[n] = kept[k])
             \/ (\E k \in DOMAIN recs : Written(kept)[n] = recs[k])
    <3>1. CASE ~hybrid
      BY <2>2, <3>1 DEF Written
    <3>2. CASE hybrid
      <4> DEFINE rest == SubSeq(recs, Len(kept) + 1, Len(recs))
      <4>1. rest \in Seq(RecordType) /\ \A n \in 1..Len(rest) : \E k \in DOMAIN recs : rest[n] = recs[k]
        <5>1. rest \in Seq(RecordType) /\ Len(rest) = Len(recs) - Len(kept)
          BY <2>1, <2>2
        <5>2. \A n \in 1..Len(rest) : Len(kept) + n \in DOMAIN recs /\ rest[n] = recs[Len(kept) + n]
          BY <2>1, <2>2, <5>1
        <5> QED BY <5>1, <5>2
      <4> HIDE DEF rest
      <4>2. /\ kept \o rest \in Seq(RecordType) /\ Len(kept \o rest) = Len(kept) + Len(rest)
            /\ \A n \in 1..Len(kept) : (kept \o rest)[n] = kept[n]
            /\ \A n \in DOMAIN (kept \o rest) :
                 n > Len(kept) => /\ n - Len(kept) \in 1..Len(rest)
                                  /\ (kept \o rest)[n] = rest[n - Len(kept)]
        BY <2>2, <4>1
      <4>3. Written(kept) = kept \o rest
        BY <3>2 DEF Written, rest
      <4>4. \A n \in DOMAIN (kept \o rest) : n \in 1..Len(kept) \/ n > Len(kept)
        BY <2>2, <4>2
      <4> QED BY <4>1, <4>2, <4>3, <4>4
    <3> QED BY <3>1, <3>2
  <2>10. StoreTyped'
    <3>2. recs' \in Seq(RecordType)
      BY <1>2, <1>4, <2>4 DEF StoreTyped
    <3>3. ended' \in BOOLEAN
      BY <1>2, <1>4, Zenon DEF StoreTyped
    <3> QED BY <1>1, <1>2, <2>9, <3>2, <3>3 DEF StoreTyped, unusedByTrigger, config
  <2>11. DownloadShape'
    <3>1. Live' = Live
      BY <1>1 DEF Live, unusedByTrigger
    <3> QED BY <1>1, <1>2, <2>2, <2>8, <2>9, <3>1 DEF DownloadShape, Unsent
  <2>12. ASSUME tidy' PROVE Tidy'
    <3>1. Tidy /\ jobs' = {} /\ Unsent' = 0
      BY <1>1, <1>2, <2>9, <2>12 DEF StoreInv, unusedByTrigger, Unsent
    <3>2. OneTrigger'
      BY <1>1, <2>9, <3>1 DEF Tidy, OneTrigger, unusedByTrigger
    <3>3. MetaTrue'
      BY <1>1, <1>4, <2>9, <3>1
         DEF Tidy, MetaTrue, Filling, Good, Whole, Extent, Genuine, unusedByTrigger, config
    <3>4. \A i \in Pieces : i < trig'.next => data'[i] = dig[i + 1]
      <4> SUFFICES ASSUME NEW i \in Pieces, i < Len(kept) PROVE data[i] = dig[i + 1]
        BY <1>1, <2>9
      <4>1. i + 1 \in 1..Len(kept) /\ (i + 1) - 1 = i
        BY <2>2, StoreBounds DEF Pieces
      <4> QED BY <2>8, <4>1
    <3>5. ASSUME durable, NEW k \in 1..Len(kept)
          PROVE  data[kept[k].num] # 0 /\ data[k - 1] \in Versions
      <4>1. PICK j \in DOMAIN recs : kept[k] = recs[j]
        <5>1. k \in 1..Len(recs) /\ kept[k] = s[k]
          BY <2>1, <2>2
        <5> QED BY <2>1, <5>1
      <4>2. data[kept[k].num] # 0 /\ kept[k].num = k - 1
        BY <1>4, <2>2, <3>1, <3>5, <4>1 DEF Tidy, Recorded
      <4>3. k - 1 \in Pieces /\ data \in [Pieces -> OnDisk]
        BY <1>2, <2>2, StoreBounds DEF Pieces, StoreTyped
      <4>4. k - 1 < Size(data) /\ Size(data) \in 0..NPieces
        <5>1. /\ Size(data) \in 0..NPieces
              /\ \A i \in Pieces : data[i] # 0 => i < Size(data)
          BY <4>3, SizeIs
        <5>2. data[k - 1] # 0
          BY <4>2
        <5> QED BY <4>3, <5>1, <5>2
      <4>5. data[k - 1] = kept[k].ver
        <5>1. data[k - 1] = kept[k].ver \/ k - 1 >= Size(data)
          BY <2>2
        <5>2. k - 1 \in Int /\ Size(data) \in Int
          BY <4>3, <4>4, StoreBounds DEF Pieces
        <5> QED BY <4>4, <5>1, <5>2
      <4>6. kept[k] \in RecordType
        BY <2>2
      <4> QED BY <4>2, <4>5, <4>6 DEF RecordType
    <3>6. Progress'
      <4> SUFFICES ASSUME durable, NEW i \in Pieces, i < Len(kept) PROVE data[i] \in Versions
        BY <1>1, <2>9 DEF Progress, unusedByTrigger
      <4>1. i + 1 \in 1..Len(kept) /\ (i + 1) - 1 = i
        BY <2>2, StoreBounds DEF Pieces
      <4> QED BY <3>5, <4>1
    <3>7. Recorded'
      <4>1. \A n \in DOMAIN recs' :
              \/ \E k \in 1..Len(kept) : recs'[n] = kept[k]
              \/ \E k \in DOMAIN recs : recs'[n] = recs[k]
        BY <1>4, <2>4
      <4> QED BY <1>1, <1>4, <3>1, <3>5, <4>1 DEF Tidy, Recorded, unusedByTrigger
    <3>8. Digested'
      <4>1. CASE bad
        <5>1. Len(kept) + 1 \in 1..Len(dig)
          BY <2>2, <2>8, <4>1
        <5> QED BY <2>8, <2>9, <4>1, <5>1 DEF Digested
      <4>2. CASE ~bad
        BY <2>2, <2>8, <2>9, <3>1, <3>4, <4>2 DEF Digested
      <4> QED BY <4>1, <4>2
    <3> QED BY <3>1, <3>2, <3>3, <3>6, <3>7, <3>8 DEF Tidy
  <2> QED BY <2>10, <2>11, <2>12 DEF StoreInv
<1> QED BY <1>3, <1>4 DEF DetectRecords

\* resetRepo: nothing is left of the files, and nothing is claimed of them.
LEMMA ResetRepoOK ==
    ASSUME StoreInv, ResetRepo \/ writeFileMetadataByTask
    PROVE  StoreInv'
<1>1. StoreTyped /\ DownloadShape /\ Live = {} /\ (tidy => jobs = {}) /\ ~trig.hit
  BY NoWriters DEF StoreInv, DownloadShape, ResetRepo, writeFileMetadataByTask
<1>2. CASE ResetRepo
  <2>1. /\ trig.at = "reset" /\ meta' = NoMeta /\ recs' = <<>> /\ ended' = TRUE /\ data' = Empty
        /\ there' = TRUE /\ Goto("init") /\ UNCHANGED unusedByTrigger
    BY <1>2 DEF ResetRepo
  <2>2. /\ trig' \in TrigType /\ trig'.at = "init" /\ trig'.next = trig.next
        /\ trig'.dig = trig.dig /\ trig'.pool = trig.pool /\ ~trig'.hit
    BY <1>1, <2>1, GotoIs DEF TrigStages
  <2>3. StoreTyped'
    <3>1. <<>> \in Seq(RecordType) /\ Empty \in [Pieces -> OnDisk]
      BY StoreBounds DEF Empty, Content, OnDisk
    <3>2. recs' \in Seq(RecordType)
      BY <2>1, <3>1, Zenon
    <3> QED BY <1>1, <2>1, <2>2, <3>1, <3>2, NoTrigIs DEF StoreTyped, unusedByTrigger, config
  <2>4. DownloadShape'
    <3>1. Live' = Live
      BY <2>1 DEF Live, unusedByTrigger
    <3> QED BY <1>1, <2>1, <2>2, <3>1 DEF DownloadShape, Unsent
  <2>5. ASSUME tidy' PROVE Tidy'
    <3>1. Tidy
      BY <2>1, <2>5 DEF StoreInv, unusedByTrigger
    <3>2. OneTrigger' /\ Progress' /\ Digested' /\ \A j \in jobs' : ~j.old
      BY <2>1, <2>2, <3>1 DEF Tidy, OneTrigger, Progress, Digested, Filling, unusedByTrigger
    <3>3. Recorded'
      <4>1. DOMAIN recs' = {} /\ jobs' = {}
        BY <1>1, <2>1, <2>5 DEF unusedByTrigger
      <4> QED BY <4>1 DEF Recorded
    <3>4. status' # "SUCCESS" /\ ~NoMeta.success /\ NoMeta.count = 0
      BY <2>1, <3>1 DEF Tidy, OneTrigger, unusedByTrigger, NoMeta
    <3>5. MetaTrue'
      BY <2>1, <2>2, <3>4 DEF MetaTrue, Filling
    <3> QED BY <3>2, <3>3, <3>5 DEF Tidy
  <2> QED BY <2>3, <2>4, <2>5 DEF StoreInv
<1>3. CASE writeFileMetadataByTask
  <2>1. /\ trig.at = "init" /\ meta' = NoResult
        /\ trig' = [trig EXCEPT !.at = "download", !.next = 0]
        /\ UNCHANGED <<unusedByTrigger, recs, ended, data, there>>
    BY <1>3 DEF writeFileMetadataByTask
  <2>2. /\ trig' \in TrigType /\ trig'.at = "download" /\ trig'.next = 0
        /\ trig'.dig = trig.dig /\ trig'.pool = trig.pool /\ ~trig'.hit
    <3>1. 0 \in 0..NPieces
      BY StoreBounds
    <3> QED BY <1>1, <2>1, <3>1 DEF StoreTyped, TrigType, TrigStages
  <2>3. NoResult \in MetaType
    <3>1. <<>> \in Seq(RecordType) /\ 0 \in 0..NPieces /\ NPieces \in 0..NPieces /\ 0 \in Content
      BY StoreBounds DEF Content
    <3>2. (IF known THEN NPieces ELSE 0) \in 0..NPieces
      BY <3>1
    <3> QED BY <3>1, <3>2 DEF NoResult, MetaType
  <2>4. StoreTyped'
    BY <1>1, <2>1, <2>2, <2>3 DEF StoreTyped, unusedByTrigger, config
  <2>5. trig.dig = <<>> /\ Len(trig.dig) = 0
    BY <1>1, <2>1 DEF DownloadShape
  <2>6. DownloadShape'
    <3>1. Live' = Live
      BY <2>1 DEF Live, unusedByTrigger
    <3> QED BY <1>1, <2>1, <2>2, <2>5, <3>1 DEF DownloadShape, Unsent
  <2>7. ASSUME tidy' PROVE Tidy'
    <3>1. Tidy /\ jobs' = {}
      BY <1>1, <2>1, <2>7 DEF StoreInv, unusedByTrigger
    <3>6. /\ status # "SUCCESS" /\ there /\ ~NoResult.success
          /\ ~known => NoResult.count = 0
      BY <2>1, <3>1 DEF Tidy, OneTrigger, MetaTrue, NoResult
    <3>2. OneTrigger' /\ MetaTrue'
      BY <2>1, <2>2, <3>1, <3>6 DEF Tidy, OneTrigger, MetaTrue, Filling, unusedByTrigger, config
    <3>3. \A i \in Pieces : ~(i < 0)
      BY StoreBounds DEF Pieces
    <3>4. Progress' /\ Digested'
      BY <2>2, <2>5, <3>1, <3>3 DEF Progress, Digested, Unsent
    <3>5. Recorded'
      BY <2>1, <3>1, RecordedFrame DEF Tidy, unusedByTrigger
    <3> QED BY <3>1, <3>2, <3>4, <3>5 DEF Tidy
  <2> QED BY <2>4, <2>6, <2>7 DEF StoreInv
<1> QED BY <1>2, <1>3

\* The update of the access time reads and writes back metadata of the same trigger.
LEMMA AccessTimeOK ==
    ASSUME StoreInv, ReadAccessTime \/ WriteAccessTime
    PROVE  StoreInv'
<1>1. /\ UNCHANGED <<unusedByTrigger, recs, ended, data, there>>
      /\ trig.at \in {"touch", "touched"} /\ trig'.at \in {"touched", "report"}
      /\ trig'.next = trig.next /\ trig'.dig = trig.dig /\ trig'.pool = trig.pool
      /\ trig'.hit = trig.hit /\ trig'.err = trig.err /\ trig' \in TrigType
      /\ meta' \in MetaType
      /\ trig'.at = "touched" => meta' = meta /\ trig'.rmw = meta'
      /\ trig'.at = "report" =>
           trig.at = "touched" /\ meta' = IF trig.rmw = NoMeta THEN meta ELSE trig.rmw
  BY NoTrigIs DEF StoreInv, StoreTyped, TrigType, TrigStages, ReadAccessTime, WriteAccessTime, files
<1>2. StoreTyped /\ DownloadShape
  BY DEF StoreInv
<1>3. StoreTyped'
  BY <1>1, <1>2 DEF StoreTyped, unusedByTrigger, config
<1>4. DownloadShape'
  <2>1. Live' = Live
    BY <1>1 DEF Live, unusedByTrigger
  <2> QED BY <1>1, <1>2, <2>1 DEF DownloadShape, Unsent
<1>5. ASSUME tidy' PROVE Tidy'
  <2>1. Tidy
    BY <1>1, <1>5 DEF StoreInv, unusedByTrigger
  <2>2. meta' = meta
    BY <1>1, <2>1 DEF Tidy, MetaTrue
  <2>3. OneTrigger' /\ MetaTrue' /\ \A j \in jobs' : ~j.old
    BY <1>1, <2>1, <2>2
       DEF Tidy, OneTrigger, MetaTrue, Filling, Good, Whole, Extent, Genuine, unusedByTrigger, config
  <2>4. Filling' => Filling
    BY <1>1 DEF Filling
  <2>5. Progress' /\ Digested'
    BY <1>1, <2>1, <2>4 DEF Tidy, Progress, Digested, Underway, Unsent, unusedByTrigger
  <2>6. Recorded'
    BY <1>1, <2>1, RecordedFrame DEF Tidy, unusedByTrigger
  <2> QED BY <2>3, <2>5, <2>6 DEF Tidy
<1> QED BY <1>3, <1>4, <1>5 DEF StoreInv

\* The steps of a trigger that only go on, or give up.
LEMMA GoesOnOK ==
    ASSUME StoreInv, ReportDetectResult \/ Wait \/ SourceRefuses \/ ShortRead
    PROVE  StoreInv'
<1>1. CASE ReportDetectResult
  <2> DEFINE stage == IF (trig.hit \/ trig.next > 0) /\ status = "gone" THEN "fail"
                      ELSE IF trig.hit THEN "success" ELSE "download"
  <2>1. trig.at = "report" /\ Goto(stage) /\ UNCHANGED <<unusedByTrigger, files>> /\ Live = {}
    BY <1>1, NoWriters DEF ReportDetectResult
  <2>2. /\ stage \in {"fail", "success", "download"}
        /\ stage = "success" => trig.hit
        /\ trig.hit => stage \in {"success", "fail"}
        /\ stage = "download" => Filling
    BY <2>1 DEF Filling
  <2> HIDE DEF stage
  <2> QED BY <2>1, <2>2, GotoOK
<1>2. CASE Wait
  <2>1. trig.at = "wait" /\ Busy = 0 /\ UNCHANGED <<unusedByTrigger, files>>
        /\ (Goto("fail") \/ (Goto("stat") /\ ~trig.err))
    BY <1>2 DEF Wait
  <2>2. Live = {} /\ Filling /\ ~trig.hit
    <3>1. IsFiniteSet(jobs) /\ Cardinality(Live) = 0
      BY <2>1 DEF StoreInv, StoreTyped, Busy, Live
    <3>2. IsFiniteSet(Live)
      BY <3>1, FS_Subset DEF Live
    <3> QED BY <2>1, <3>1, <3>2, FS_EmptySet DEF Filling, StoreInv, DownloadShape
  <2> QED BY <2>1, <2>2, GotoOK
<1>3. CASE SourceRefuses
  <2>1. trig.at = "download" /\ Goto("fail") /\ UNCHANGED <<unusedByTrigger, files>> /\ Live = {}
    BY <1>3, NoWriters DEF SourceRefuses
  <2> QED BY <2>1, GotoOK
<1>4. CASE ShortRead
  <2>1. /\ trig.at = "read" /\ Goto("wait") /\ UNCHANGED <<unusedByTrigger, files>>
        /\ Filling /\ ~trig.hit
    BY <1>4 DEF ShortRead, Filling, StoreInv, DownloadShape
  <2> QED BY <2>1, GotoOK
<1> QED BY <1>1, <1>2, <1>3, <1>4

\* The download starts at the break point.
LEMMA DownloadOK ==
    ASSUME StoreInv, Download
    PROVE  StoreInv'
<1>1. trig.at = "download" /\ UNCHANGED <<unusedByTrigger, recs, ended, data, there>>
  BY DEF Download
<1>2. StoreTyped /\ DownloadShape /\ Live = {} /\ (tidy => jobs = {}) /\ ~trig.hit /\ Filling
  BY <1>1, NoWriters DEF StoreInv, DownloadShape, Filling
<1>3. CASE Goto("fail") /\ UNCHANGED meta
  BY <1>1, <1>2, <1>3, GotoOK DEF files
<1>4. CASE /\ trig' = [trig EXCEPT !.at = "read", !.from = src, !.pool = RoutineCount]
           /\ meta' = IF meta = NoMeta THEN NoMeta ELSE [meta EXCEPT !.etag = src]
  <2>1. /\ trig' \in TrigType /\ trig'.at = "read" /\ trig'.next = trig.next /\ trig'.dig = trig.dig
        /\ trig'.from = src /\ trig'.pool = RoutineCount /\ trig'.err = trig.err /\ ~trig'.hit
        /\ RoutineCount \in 0..MaxWriters
    <3>1. src \in Content /\ RoutineCount \in 0..MaxWriters
      <4>1. trig.next \in 0..NPieces /\ src \in Versions
        BY <1>2 DEF StoreTyped, TrigType
      <4> QED BY <4>1, StoreBounds DEF RoutineCount, Versions, Content
    <3> QED BY <1>2, <1>4, <3>1 DEF StoreTyped, TrigType, TrigStages
  <2>2. meta' \in MetaType /\ (meta'.success <=> meta.success) /\ (meta'.finish <=> meta.finish)
        /\ meta'.count = meta.count
    <3>1. src \in Content /\ meta \in MetaType
      BY <1>2, StoreBounds DEF StoreTyped, Versions, Content
    <3> QED BY <1>4, <3>1 DEF MetaType
  <2>3. StoreTyped'
    BY <1>1, <1>2, <2>1, <2>2 DEF StoreTyped, unusedByTrigger, config
  <2>4. DownloadShape'
    <3>1. Live' = {} /\ src \in Versions /\ RoutineCount >= 0
      BY <2>1, <1>1, <1>2, StoreBounds DEF Live, unusedByTrigger, StoreTyped
    <3> QED BY <1>1, <1>2, <2>1, <3>1, FS_EmptySet DEF DownloadShape, Unsent
  <2>5. ASSUME tidy' PROVE Tidy'
    <3>1. Tidy
      BY <1>1, <2>5 DEF StoreInv, unusedByTrigger
    <3>2. OneTrigger' /\ \A j \in jobs' : ~j.old
      BY <1>1, <2>1, <3>1 DEF Tidy, OneTrigger, unusedByTrigger
    <3>3. ~meta.success /\ status # "SUCCESS" /\ there /\ (~known => meta.count = 0)
      BY <1>1, <1>2, <3>1 DEF Tidy, MetaTrue, OneTrigger
    <3>4. MetaTrue'
      BY <1>1, <2>1, <2>2, <3>3 DEF MetaTrue, unusedByTrigger, config
    <3>5. Progress' /\ Digested'
      BY <1>1, <1>2, <2>1, <3>1 DEF Tidy, Progress, Digested, Underway, Unsent, unusedByTrigger
    <3>6. Recorded'
      BY <1>1, <3>1, RecordedFrame DEF Tidy, unusedByTrigger
    <3> QED BY <3>2, <3>4, <3>5, <3>6 DEF Tidy
  <2> QED BY <2>3, <2>4, <2>5 DEF StoreInv
<1> QED BY <1>3, <1>4 DEF Download

\* The reader cuts a piece and feeds the digest.
LEMMA ReadPieceOK ==
    ASSUME StoreInv, ReadPiece
    PROVE  StoreInv'
<1>1. trig.at = "read" /\ UNCHANGED <<unusedByTrigger, files>>
  BY DEF ReadPiece
<1>2. StoreTyped /\ DownloadShape /\ ~trig.hit /\ Filling
  BY <1>1 DEF StoreInv, DownloadShape, Filling
<1>3. CASE Goto("wait")
  BY <1>1, <1>2, <1>3, GotoOK
<1>4. CASE ~AllRead /\ trig' = [trig EXCEPT !.at = "send", !.dig = Append(@, trig.from)]
  <2> DEFINE n == Len(trig.dig)
  <2>1. trig.dig \in Seq(OnDisk) /\ trig.from \in Content /\ n \in Nat /\ trig.next \in 0..NPieces
    BY <1>2 DEF StoreTyped, TrigType
  <2>9. trig.from \in OnDisk
    BY <2>1 DEF OnDisk
  <2>2. /\ Append(trig.dig, trig.from) \in Seq(OnDisk)
        /\ Len(Append(trig.dig, trig.from)) = n + 1
        /\ Append(trig.dig, trig.from)[n + 1] = trig.from
        /\ \A k \in 1..n : Append(trig.dig, trig.from)[k] = trig.dig[k]
    BY <2>1, <2>9
  <2>3. /\ trig' \in TrigType /\ trig'.at = "send" /\ trig'.next = trig.next
        /\ trig'.dig = Append(trig.dig, trig.from)
        /\ trig'.from = trig.from /\ trig'.pool = trig.pool /\ trig'.err = trig.err /\ ~trig'.hit
    BY <1>2, <1>4, <2>2 DEF StoreTyped, TrigType, TrigStages
  <2>4. StoreTyped'
    BY <1>1, <1>2, <2>3 DEF StoreTyped, unusedByTrigger, files, config
  <2>5. trig.next < NPieces /\ Unsent = 0 /\ Unsent' = 1
    BY <1>1, <1>4, <2>1, <2>3, StoreBounds DEF AllRead, Unsent
  <2>6. DownloadShape'
    <3>1. Live' = Live
      BY <1>1 DEF Live, unusedByTrigger
    <3>2. Len(trig'.dig) <= trig'.next + Unsent' + 1
      BY <1>2, <2>1, <2>2, <2>3, <2>5 DEF DownloadShape
    <3> QED BY <1>1, <1>2, <2>3, <2>5, <3>1, <3>2 DEF DownloadShape
  <2>7. ASSUME tidy' PROVE Tidy'
    <3>1. Tidy
      BY <1>1, <2>7 DEF StoreInv, unusedByTrigger
    <3>2. OneTrigger' /\ MetaTrue' /\ \A j \in jobs' : ~j.old
      BY <1>1, <1>2, <2>3, <3>1
         DEF Tidy, OneTrigger, MetaTrue, Filling, Good, Whole, Extent, Genuine, unusedByTrigger, files, config
    <3>3. Progress'
      BY <1>1, <1>2, <2>3, <3>1 DEF Tidy, Progress, Underway, unusedByTrigger, files
    <3>4. ASSUME ~trig.err, ~\E k \in 1..n : trig.dig[k] = Torn PROVE Digested'
      <4>1. /\ n = trig.next
            /\ \A i \in Pieces : i < trig.next => data[i] = trig.dig[i + 1] \/ Underway(i)
            /\ \A j \in jobs : j.at = "data" => j.num < trig.next /\ j.ver = trig.dig[j.num + 1]
        BY <1>2, <2>1, <2>5, <3>1, <3>4 DEF Tidy, Digested
      <4>2. \A i \in Pieces : i < trig.next => trig'.dig[i + 1] = trig.dig[i + 1]
        BY <2>1, <2>2, <2>3, <4>1 DEF Pieces
      <4>3. jobs \subseteq JobType
        BY <1>2 DEF StoreTyped
      <4>4. \A j \in jobs : j.num \in Pieces
        BY <4>3 DEF JobType
      <4>5. \A i \in Pieces : i < trig.next => data[i] = trig'.dig[i + 1] \/ Underway(i)
        BY <4>1, <4>2
      <4>6. \A j \in jobs : j.at = "data" => j.num < trig.next /\ j.ver = trig'.dig[j.num + 1]
        BY <4>1, <4>2, <4>4
      <4>7. Len(trig'.dig) = trig'.next + 1 /\ trig'.dig[trig'.next + 1] = trig'.from
        BY <2>2, <2>3, <4>1
      <4> QED BY <1>1, <2>3, <2>5, <4>5, <4>6, <4>7 DEF Digested, Underway, unusedByTrigger, files
    <3>5. ASSUME NEW k \in 1..n, trig.dig[k] = Torn PROVE Digested'
      BY <2>1, <2>2, <2>3, <3>5 DEF Digested
    <3>6. trig.err => Digested'
      BY <2>3 DEF Digested
    <3>7. Recorded'
      BY <1>1, <3>1, RecordedFrame DEF Tidy, unusedByTrigger, files
    <3> QED BY <3>2, <3>3, <3>4, <3>5, <3>6, <3>7 DEF Tidy
  <2> QED BY <2>4, <2>6, <2>7 DEF StoreInv
<1> QED BY <1>3, <1>4 DEF ReadPiece

\* The reader hands a piece to a writer: it is now under way.
LEMMA SendPieceOK ==
    ASSUME StoreInv, SendPiece
    PROVE  StoreInv'
<1> DEFINE new == [num |-> trig.next, ver |-> trig.from, at |-> "data", old |-> FALSE]
<1>1. /\ trig.at = "send" /\ Busy < trig.pool
      /\ trig' = [trig EXCEPT !.at = "read", !.next = @ + 1,
                              !.pool = IF trig.err THEN @ - 1 ELSE @]
      /\ jobs' = IF trig.err THEN jobs ELSE jobs \cup {new}
      /\ UNCHANGED <<src, config, status, sign, files, pending, gc, tidy, durable>>
  BY DEF SendPiece
<1>2. StoreTyped /\ DownloadShape /\ ~trig.hit /\ Filling /\ Unsent = 1
  BY <1>1 DEF StoreInv, DownloadShape, Filling, Unsent
<1>3. /\ trig.next \in Pieces /\ trig.next + 1 \in 0..NPieces /\ trig.from \in Versions
      /\ trig.dig \in Seq(OnDisk) /\ Len(trig.dig) \in Nat /\ trig.pool \in 0..MaxWriters
      /\ Busy = Cardinality(Live) /\ IsFiniteSet(jobs) /\ IsFiniteSet(Live)
      /\ Cardinality(Live) \in Nat
  <2>1. trig.next \in 0..NPieces /\ trig.next < NPieces /\ trig.from \in Versions
    BY <1>1, <1>2 DEF StoreTyped, TrigType, DownloadShape
  <2>2. IsFiniteSet(jobs) /\ IsFiniteSet(Live)
    BY <1>2, FS_Subset DEF StoreTyped, Live
  <2>3. Cardinality(Live) \in Nat /\ Busy = Cardinality(Live)
    BY <2>2, FS_CardinalityType DEF Busy, Live
  <2> QED BY <1>2, <2>1, <2>2, <2>3, StoreBounds DEF StoreTyped, TrigType, Pieces
<1>4. /\ trig' \in TrigType /\ trig'.at = "read" /\ trig'.next = trig.next + 1
      /\ trig'.dig = trig.dig /\ trig'.from = trig.from /\ trig'.err = trig.err /\ ~trig'.hit
      /\ trig'.pool = IF trig.err THEN trig.pool - 1 ELSE trig.pool
  <2>1. (IF trig.err THEN trig.pool - 1 ELSE trig.pool) \in 0..MaxWriters
    BY <1>1, <1>3, StoreBounds
  <2> QED BY <1>1, <1>2, <1>3, <2>1 DEF StoreTyped, TrigType, TrigStages
<1>5. new \in JobType
  BY <1>3 DEF JobType
<1>6. StoreTyped'
  <2>1. jobs' \in SUBSET JobType
    BY <1>1, <1>2, <1>5 DEF StoreTyped
  <2>2. IsFiniteSet(jobs')
    <3> HIDE DEF new
    <3> QED BY <1>1, <1>3, FS_AddElement
  <2> QED BY <1>1, <1>2, <1>4, <2>1, <2>2 DEF StoreTyped, files, config
<1>7. DownloadShape'
  <2>1. Cardinality(Live') <= trig'.pool
    <3>1. CASE trig.err
      <4>1. Live' = Live
        BY <1>1, <3>1 DEF Live
      <4> QED BY <1>1, <1>3, <1>4, <3>1, <4>1
    <3>2. CASE ~trig.err
      <4>1. Live' = Live \cup {new}
        BY <1>1, <3>2 DEF Live
      <4>2. Cardinality(Live') <= Cardinality(Live) + 1
        <5> HIDE DEF new
        <5>1. Cardinality(Live \cup {new})
                = IF new \in Live THEN Cardinality(Live) ELSE Cardinality(Live) + 1
          BY <1>3, FS_AddElement
        <5> QED BY <1>3, <4>1, <5>1
      <4>3. Cardinality(Live') \in Nat
        <5> HIDE DEF new
        <5> QED BY <1>3, <4>1, FS_AddElement, FS_CardinalityType
      <4> QED BY <1>1, <1>3, <1>4, <3>2, <4>2, <4>3
    <3> QED BY <3>1, <3>2
  <2>2. Len(trig'.dig) <= trig'.next + Unsent' + 1
    BY <1>2, <1>3, <1>4 DEF DownloadShape, Unsent, Pieces
  <2> QED BY <1>2, <1>3, <1>4, <2>1, <2>2 DEF DownloadShape
<1>8. ASSUME tidy' PROVE Tidy'
  <2>1. Tidy /\ Filling' /\ Unsent' = 0
    BY <1>1, <1>4, <1>8 DEF StoreInv, Filling, Unsent
  <2>2. OneTrigger' /\ MetaTrue' /\ \A j \in jobs' : ~j.old
    BY <1>1, <1>2, <1>4, <2>1 DEF Tidy, OneTrigger, MetaTrue, Filling, Good, Whole, Extent, Genuine, files, config
  <2>10. Recorded'
    <3>1. \A j \in jobs' : j.at # "data" => j \in jobs
      BY <1>1
    <3> HIDE DEF new
    <3> QED BY <1>1, <2>1, <3>1, RecordedFrame DEF Tidy, files
  <2>3. SUFFICES ASSUME ~trig.err PROVE Progress' /\ Digested'
    BY <1>4, <2>2, <2>10 DEF Tidy, Progress, Digested
  <2>4. /\ jobs' = jobs \cup {new} /\ new.num = trig.next /\ new.ver = trig.from
        /\ new.at = "data" /\ data' = data
    BY <1>1, <2>3 DEF files
  <2> HIDE DEF new
  <2>5. \A i \in Pieces : (Underway(i) => Underway(i)') /\ (i = trig.next => Underway(i)')
    BY <2>4 DEF Underway
  <2>6. \A i \in Pieces : i < trig'.next => i < trig.next \/ i = trig.next
    BY <1>3, <1>4 DEF Pieces
  <2>7. Progress'
    BY <1>1, <1>2, <1>4, <2>1, <2>3, <2>4, <2>5, <2>6 DEF Tidy, Progress
  <2>8. CASE \E k \in 1..Len(trig.dig) : trig.dig[k] = Torn
    BY <1>4, <2>7, <2>8 DEF Digested
  <2>9. CASE ~\E k \in 1..Len(trig.dig) : trig.dig[k] = Torn
    <3>1. /\ Len(trig.dig) = trig.next + 1 /\ trig.dig[trig.next + 1] = trig.from
          /\ \A i \in Pieces : i < trig.next => data[i] = trig.dig[i + 1] \/ Underway(i)
          /\ \A j \in jobs : j.at = "data" => j.num < trig.next /\ j.ver = trig.dig[j.num + 1]
      BY <1>1, <1>2, <2>1, <2>3, <2>9 DEF Tidy, Digested
    <3>2. \A i \in Pieces : i < trig'.next => data'[i] = trig'.dig[i + 1] \/ Underway(i)'
      BY <1>4, <2>4, <2>5, <2>6, <3>1
    <3>3. ASSUME NEW j \in jobs', j.at = "data"
          PROVE  j.num < trig'.next /\ j.ver = trig'.dig[j.num + 1]
      <4>1. CASE j \in jobs
        <5>1. j.num \in Pieces
          BY <1>2, <4>1 DEF StoreTyped, JobType
        <5> QED BY <1>3, <1>4, <3>1, <3>3, <4>1, <5>1 DEF Pieces
      <4>2. CASE j = new
        BY <1>3, <1>4, <2>4, <3>1, <4>2 DEF Pieces
      <4> QED BY <2>4, <3>3, <4>1, <4>2
    <3>4. Digested'
      BY <1>4, <2>1, <3>1, <3>2, <3>3 DEF Digested
    <3> QED BY <2>7, <3>4
  <2> QED BY <2>7, <2>8, <2>9
<1> QED BY <1>6, <1>7, <1>8 DEF StoreInv

\* handleCDNResult reads metadata, records and the size of the file.
LEMMA MeasureOK ==
    ASSUME StoreInv, Measure
    PROVE  StoreInv'
<1> DEFINE n == IF trig.next > 0 THEN trig.next ELSE meta.count
           m == [meta EXCEPT !.sign = Sorted(recs), !.size = Size(data), !.count = n]
<1>1. trig.at = "stat" /\ UNCHANGED <<unusedByTrigger, files>>
  BY DEF Measure
<1>2. StoreTyped /\ DownloadShape /\ Live = {} /\ ~trig.hit /\ Filling
  BY <1>1, NoWriters DEF StoreInv, DownloadShape, Filling
<1>3. CASE Goto("fail")
  BY <1>1, <1>2, <1>3, GotoOK
<1>4. CASE there /\ meta # NoMeta /\ trig' = [trig EXCEPT !.at = "commit", !.rmw = m]
  <2>1. m \in MetaType /\ m # NoMeta /\ m.size = Size(data) /\ m.count = n
    <3>1. Sorted(recs) \in Seq(RecordType) /\ Size(data) \in 0..NPieces
      BY <1>2, SortedIsSeq, SizeIs DEF StoreTyped
    <3>2. /\ meta \in [finish : BOOLEAN, success : BOOLEAN, etag : Content,
                       sign : Seq(RecordType), size : 0..NPieces, count : 0..NPieces]
          /\ n \in 0..NPieces
      BY <1>2, <1>4 DEF StoreTyped, MetaType, TrigType
    <3> HIDE DEF n
    <3>3. /\ m \in [finish : BOOLEAN, success : BOOLEAN, etag : Content,
                    sign : Seq(RecordType), size : 0..NPieces, count : 0..NPieces]
      BY <3>1, <3>2
    <3>8. m.size = Size(data) /\ m.count = n
      BY <3>2
    <3> HIDE DEF m
    <3>4. m.etag \in Content
      BY <3>3
    <3>5. -1 \notin Content
      BY StoreBounds DEF Content
    <3>6. NoMeta.etag = -1
      BY DEF NoMeta
    <3>7. m # NoMeta
      BY <3>4, <3>5, <3>6
    <3> QED BY <3>3, <3>7, <3>8 DEF MetaType
  <2> HIDE DEF m
  <2>2. /\ trig' \in TrigType /\ trig'.at = "commit" /\ trig'.next = trig.next
        /\ trig'.dig = trig.dig /\ trig'.pool = trig.pool /\ trig'.err = trig.err /\ ~trig'.hit
        /\ trig'.rmw = m /\ m.size = Size(data) /\ m.count = n
    BY <1>2, <1>4, <2>1 DEF StoreTyped, TrigType, TrigStages
  <2>3. StoreTyped'
    BY <1>1, <1>2, <2>2 DEF StoreTyped, unusedByTrigger, files, config
  <2>4. DownloadShape'
    <3>1. Live' = Live
      BY <1>1 DEF Live, unusedByTrigger
    <3> QED BY <1>1, <1>2, <2>1, <2>2, <3>1 DEF DownloadShape, Unsent
  <2>5. ASSUME tidy' PROVE Tidy'
    <3>1. Tidy
      BY <1>1, <2>5 DEF StoreInv, unusedByTrigger
    <3>4. trig.next \in Nat /\ (trig.next > 0 \/ ~known => n = trig.next)
      <4>1. trig.next \in 0..NPieces
        BY <1>2 DEF StoreTyped, TrigType
      <4> QED BY <1>2, <3>1, <4>1, StoreBounds DEF Tidy, MetaTrue
    <3>5. Recorded'
      BY <1>1, <3>1, RecordedFrame DEF Tidy, unusedByTrigger, files
    <3> HIDE DEF n
    <3>2. OneTrigger' /\ MetaTrue' /\ \A j \in jobs' : ~j.old
      BY <1>1, <1>2, <1>4, <2>2, <3>1, <3>4
         DEF Tidy, OneTrigger, MetaTrue, Filling, Good, Whole, Extent, Genuine, unusedByTrigger, files, config
    <3>3. Progress' /\ Digested'
      BY <1>1, <1>2, <2>2, <3>1
         DEF Tidy, Progress, Digested, Underway, Unsent, unusedByTrigger, files
    <3> QED BY <3>2, <3>3, <3>5 DEF Tidy
  <2> QED BY <2>3, <2>4, <2>5 DEF StoreInv
<1> QED BY <1>3, <1>4 DEF Measure

\* handleCDNResult writes the metadata: success only with every piece and the digest right.
LEMMA CommitOK ==
    ASSUME StoreInv, Commit
    PROVE  StoreInv'
<1> DEFINE good == [trig.rmw EXCEPT !.finish = TRUE, !.success = TRUE]
           failed == [NoResult EXCEPT !.finish = TRUE, !.etag = trig.rmw.etag]
<1>1. /\ trig.at = "commit" /\ meta' = IF Matches THEN good ELSE failed
      /\ trig' = [trig EXCEPT !.at = IF Matches THEN "success" ELSE "fail",
                              !.rmw = NoMeta, !.sign = trig.rmw.sign]
      /\ UNCHANGED <<unusedByTrigger, recs, ended, data, there>>
  BY DEF Commit
<1>2. /\ StoreTyped /\ DownloadShape /\ Live = {} /\ (tidy => jobs = {}) /\ ~trig.hit /\ Filling
      /\ ~trig.err /\ trig.rmw # NoMeta
  BY <1>1, NoWriters DEF StoreInv, DownloadShape, Filling
<1>3. trig.rmw \in [finish : BOOLEAN, success : BOOLEAN, etag : Content,
                    sign : Seq(RecordType), size : 0..NPieces, count : 0..NPieces]
  BY <1>2 DEF StoreTyped, TrigType, MetaType
<1>4. /\ good \in MetaType /\ good.success = TRUE /\ good.finish = TRUE
      /\ good.size = trig.rmw.size /\ good.count = trig.rmw.count
  BY <1>3 DEF MetaType
<1>5. failed \in MetaType /\ failed.success = FALSE /\ (~known => failed.count = 0)
  <2>1. /\ <<>> \in Seq(RecordType) /\ 0 \in 0..NPieces /\ NPieces \in 0..NPieces
        /\ trig.rmw.etag \in Content
    BY <1>3, StoreBounds
  <2> QED BY <2>1 DEF MetaType, NoResult
<1> HIDE DEF good, failed
<1>6. /\ trig' \in TrigType /\ trig'.at = (IF Matches THEN "success" ELSE "fail")
      /\ trig'.next = trig.next /\ trig'.dig = trig.dig /\ trig'.pool = trig.pool
      /\ ~trig'.hit
  BY <1>1, <1>2, <1>3, NoTrigIs DEF StoreTyped, TrigType, TrigStages
<1>7. StoreTyped'
  BY <1>1, <1>2, <1>4, <1>5, <1>6 DEF StoreTyped, unusedByTrigger, config
<1>8. DownloadShape'
  <2>1. Live' = Live
    BY <1>1 DEF Live, unusedByTrigger
  <2> QED BY <1>1, <1>2, <1>6, <2>1 DEF DownloadShape, Unsent
<1>9. ASSUME tidy' PROVE Tidy'
  <2>1. Tidy /\ jobs = {}
    BY <1>1, <1>2, <1>9 DEF StoreInv, unusedByTrigger
  <2>2. OneTrigger' /\ Progress' /\ Digested' /\ \A j \in jobs' : ~j.old
    BY <1>1, <1>6, <2>1 DEF Tidy, OneTrigger, Progress, Digested, Filling, unusedByTrigger
  <2>3. ASSUME Matches, digest # 0 PROVE \A i \in Pieces : data[i] = digest /\ digest \in Versions
    <3>1. trig.dig = [k \in 1..NPieces |-> digest]
      BY <2>3 DEF Matches, DigestMatches
    <3>2. trig.dig \in Seq(OnDisk) /\ digest \in Content
      BY <1>2 DEF StoreTyped, TrigType
    <3>3. Len(trig.dig) = NPieces /\ digest # Torn /\ digest \in Versions
      BY <2>3, <3>1, <3>2, StoreBounds DEF Content, Torn, Versions
    <3>4. Unsent = 0 /\ \A i \in Pieces : ~Underway(i)
      BY <1>1, <2>1 DEF Unsent, Underway
    <3>5. \A k \in 1..Len(trig.dig) : trig.dig[k] # Torn
      BY <3>1, <3>3
    <3>6. trig.next = NPieces /\ \A i \in Pieces : i < trig.next => data[i] = trig.dig[i + 1]
      <4>1. trig.next \in 0..NPieces
        BY <1>2 DEF StoreTyped, TrigType
      <4> QED BY <1>2, <2>1, <3>3, <3>4, <3>5, <4>1, StoreBounds DEF Tidy, Digested
    <3>7. \A i \in Pieces : i + 1 \in 1..NPieces /\ i < NPieces
      BY StoreBounds DEF Pieces
    <3> QED BY <3>1, <3>3, <3>6, <3>7
  <2>4. there /\ status # "SUCCESS" /\ trig.rmw.size = Size(data)
        /\ (trig.next > 0 \/ ~known => trig.rmw.count = trig.next)
    BY <1>1, <1>2, <2>1 DEF Tidy, MetaTrue, OneTrigger
  <2>5. ASSUME Matches PROVE Good'
    <3>1. Genuine'
      BY <1>1, <2>3, <2>5 DEF Genuine, unusedByTrigger, config
    <3>2. ASSUME durable PROVE Whole'
      <4>1. CASE digest # 0
        BY <1>1, <2>3, <2>5, <4>1 DEF Whole
      <4>2. CASE digest = 0
        <5>1. \A i \in Pieces : i < trig.next => data[i] \in Versions
          BY <1>2, <2>1, <3>2 DEF Tidy, Progress, Underway
        <5>2. meta'.count = trig.rmw.count
          BY <1>1, <1>4, <2>5
        <5>3. trig.next \in 0..NPieces
          BY <1>2 DEF StoreTyped, TrigType
        <5>4. IF known THEN trig.next = NPieces ELSE meta'.count = trig.next
          BY <2>4, <2>5, <5>2 DEF Matches
        <5>5. Extent' = trig.next
          BY <1>1, <4>2, <5>4 DEF Extent, unusedByTrigger, config
        <5> QED BY <1>1, <5>1, <5>5 DEF Whole
      <4> QED BY <4>1, <4>2
    <3> QED BY <1>1, <3>1, <3>2 DEF Good, unusedByTrigger
  <2>6. ASSUME Matches, digest # 0 PROVE meta'.size = NPieces
    <3>1. /\ Size(data) \in 0..NPieces
          /\ \A i \in Pieces : data[i] # 0 => i < Size(data)
      BY <1>2, SizeIs DEF StoreTyped
    <3>2. NPieces - 1 \in Pieces /\ data[NPieces - 1] # 0
      BY <2>3, <2>6, StoreBounds DEF Pieces
    <3>3. Size(data) = NPieces
      BY <3>1, <3>2, StoreBounds
    <3> QED BY <1>1, <1>4, <2>4, <2>6, <3>3
  <2>7. MetaTrue'
    <3>1. CASE Matches
      BY <1>1, <1>4, <1>6, <2>4, <2>5, <2>6, <3>1 DEF MetaTrue, Filling, unusedByTrigger, config
    <3>2. CASE ~Matches
      BY <1>1, <1>5, <1>6, <2>4, <3>2 DEF MetaTrue, Filling, unusedByTrigger, config
    <3> QED BY <3>1, <3>2
  <2>8. Recorded'
    BY <1>1, <2>1, RecordedFrame DEF Tidy, unusedByTrigger
  <2> QED BY <2>2, <2>7, <2>8 DEF Tidy
<1> QED BY <1>7, <1>8, <1>9 DEF StoreInv

\* A writer goes on to its next step, or is done.
LEMMA WriterGoesOn ==
    ASSUME StoreTyped, NEW j \in jobs, NEW k \in JobType, k.old = j.old,
           jobs' = (jobs \ {j}) \cup {k}
    PROVE  /\ jobs' \in SUBSET JobType /\ IsFiniteSet(jobs')
           /\ Live' # {} => Live # {}
           /\ Cardinality(Live') <= Cardinality(Live)
           /\ Cardinality(Live) \in Nat /\ Cardinality(Live') \in Nat
<1>1. jobs \in SUBSET JobType /\ IsFiniteSet(jobs) /\ IsFiniteSet(Live)
  BY FS_Subset DEF StoreTyped, Live
<1>2. IsFiniteSet(jobs \ {j}) /\ IsFiniteSet(jobs')
  <2>1. IsFiniteSet(jobs \ {j})
    BY <1>1, FS_RemoveElement
  <2> QED BY <2>1, FS_AddElement
<1>3. jobs' \in SUBSET JobType /\ IsFiniteSet(Live')
  BY <1>1, <1>2, FS_Subset DEF Live
<1>4. Cardinality(Live) \in Nat /\ Cardinality(Live') \in Nat
  BY <1>1, <1>3, FS_CardinalityType
<1>5. CASE j.old
  <2>1. Live' = Live
    BY <1>5 DEF Live
  <2> QED BY <1>2, <1>3, <1>4, <2>1
<1>6. CASE ~j.old
  <2>1. Live' = (Live \ {j}) \cup {k} /\ j \in Live
    BY <1>6 DEF Live
  <2>2. IsFiniteSet(Live \ {j}) /\ Cardinality(Live \ {j}) = Cardinality(Live) - 1
    BY <1>1, <2>1, FS_RemoveElement
  <2>3. Cardinality(Live') = IF k \in Live \ {j} THEN Cardinality(Live \ {j})
                             ELSE Cardinality(Live \ {j}) + 1
    BY <2>1, <2>2, FS_AddElement
  <2> QED BY <1>2, <1>3, <1>4, <2>1, <2>2, <2>3
<1> QED BY <1>5, <1>6

\* A writer that ends leaves the others, one fewer.
LEMMA WriterDone ==
    ASSUME StoreTyped, NEW j \in jobs, jobs' = jobs \ {j}
    PROVE  /\ jobs' \in SUBSET JobType /\ IsFiniteSet(jobs')
           /\ Live' # {} => Live # {}
           /\ Cardinality(Live') = IF j.old THEN Cardinality(Live) ELSE Cardinality(Live) - 1
           /\ Cardinality(Live) \in Nat /\ Cardinality(Live') \in Nat
<1>1. jobs \in SUBSET JobType /\ IsFiniteSet(jobs) /\ IsFiniteSet(Live)
  BY FS_Subset DEF StoreTyped, Live
<1>2. IsFiniteSet(jobs') /\ jobs' \in SUBSET JobType /\ IsFiniteSet(Live')
  BY <1>1, FS_Subset DEF Live
<1>3. Cardinality(Live) \in Nat /\ Cardinality(Live') \in Nat
  BY <1>1, <1>2, FS_CardinalityType
<1>4. CASE j.old
  <2>1. Live' = Live
    BY <1>4 DEF Live
  <2> QED BY <1>2, <1>3, <1>4, <2>1
<1>5. CASE ~j.old
  <2>1. Live' = Live \ {j} /\ j \in Live
    BY <1>5 DEF Live
  <2>2. Cardinality(Live \ {j}) = Cardinality(Live) - 1
    BY <1>1, <2>1, FS_RemoveElement
  <2> QED BY <1>2, <1>3, <1>5, <2>1, <2>2
<1> QED BY <1>4, <1>5

\* A writer puts its piece on disk: it is under way no more, but there.
LEMMA WriteDataOK ==
    ASSUME StoreInv, NEW j \in jobs, WriteData(j)
    PROVE  StoreInv'
<1> DEFINE k == [j EXCEPT !.at = "record"]
<1>1. /\ j.at = "data" /\ data' = [data EXCEPT ![j.num] = j.ver] /\ there' = TRUE
      /\ jobs' = (jobs \ {j}) \cup {k}
      /\ UNCHANGED <<src, config, status, sign, meta, recs, ended, trig, pending, gc, tidy, durable>>
  BY DEF WriteData
<1>2. StoreTyped /\ DownloadShape
  BY DEF StoreInv
<1>3. j \in JobType /\ j.num \in Pieces /\ j.ver \in Versions
  BY <1>2 DEF StoreTyped, JobType
<1>4. k \in JobType /\ k.old = j.old /\ k.at = "record" /\ k.num = j.num
  BY <1>3 DEF JobType
<1> HIDE DEF k
<1>5. /\ jobs' \in SUBSET JobType /\ IsFiniteSet(jobs')
      /\ Live' # {} => Live # {}
      /\ Cardinality(Live') <= Cardinality(Live)
      /\ Cardinality(Live) \in Nat /\ Cardinality(Live') \in Nat
  BY <1>1, <1>2, <1>4, WriterGoesOn
<1>6. j.ver \in Content /\ j.ver # 0 /\ data' \in [Pieces -> OnDisk]
  BY <1>1, <1>2, <1>3, StoreBounds DEF StoreTyped, Versions, Content, OnDisk
<1>7. StoreTyped'
  BY <1>1, <1>2, <1>5, <1>6 DEF StoreTyped, config
<1>8. DownloadShape'
  <2>1. trig.pool \in Nat
    BY <1>2, StoreBounds DEF StoreTyped, TrigType
  <2> QED BY <1>1, <1>2, <1>5, <2>1 DEF DownloadShape, Unsent
<1>9. ASSUME tidy' PROVE Tidy'
  <2>1. Tidy /\ trig.at \in {"read", "send", "wait"} /\ Filling /\ ~trig.hit
    BY <1>1, <1>2, <1>9, NoStrayWriters DEF StoreInv, Filling, DownloadShape
  <2>2. OneTrigger' /\ \A i \in jobs' : ~i.old
    BY <1>1, <1>4, <2>1 DEF Tidy, OneTrigger
  <2>3. ~meta.success /\ status # "SUCCESS" /\ there /\ (~known => meta.count = 0)
    BY <2>1 DEF Tidy, MetaTrue, OneTrigger
  <2>4. MetaTrue'
    BY <1>1, <2>1, <2>3 DEF MetaTrue, config
  <2>5. \A i \in Pieces : /\ i # j.num => data'[i] = data[i] /\ (Underway(i) => Underway(i)')
                          /\ i = j.num => data'[i] = j.ver
    BY <1>1, <1>2, <1>3 DEF Underway, StoreTyped
  <2>6. Progress'
    BY <1>1, <1>3, <2>1, <2>5 DEF Tidy, Progress, Filling
  <2>7. Filling' = Filling /\ Unsent' = Unsent
    BY <1>1 DEF Filling, Unsent
  <2>8. \A i \in jobs' : i.at = "data" => i \in jobs
    BY <1>1, <1>4
  <2>9. Digested'
    BY <1>1, <2>1, <2>5, <2>7, <2>8 DEF Tidy, Digested
  <2>10. Recorded'
    <3>1. \A i \in Pieces : data[i] # 0 => data'[i] # 0
      BY <1>6, <2>5
    <3>2. data'[j.num] # 0
      BY <1>3, <1>6, <2>5
    <3>3. \A n \in DOMAIN recs : recs[n].num \in Pieces
      <4>1. \A n \in DOMAIN recs : recs[n] \in RecordType
        BY <1>2 DEF StoreTyped
      <4> QED BY <4>1 DEF RecordType
    <3>4. \A i \in jobs : i.num \in Pieces
      BY <1>2 DEF StoreTyped, JobType
    <3>5. \A i \in jobs' : i \in jobs \/ i = k
      BY <1>1
    <3> QED BY <1>1, <1>4, <2>1, <2>3, <3>1, <3>2, <3>3, <3>4, <3>5 DEF Tidy, Recorded
  <2> QED BY <2>2, <2>4, <2>6, <2>9, <2>10 DEF Tidy
<1> QED BY <1>7, <1>8, <1>9 DEF StoreInv

\* A writer appends the record of a piece that is on disk.
LEMMA AppendRecordOK ==
    ASSUME StoreInv, NEW j \in jobs, AppendRecord(j)
    PROVE  StoreInv'
<1> DEFINE k == [j EXCEPT !.at = "report"]
<1>1. /\ j.at = "record" /\ recs' = Appended(j) /\ ended' = TRUE
      /\ jobs' = (jobs \ {j}) \cup {k}
      /\ UNCHANGED <<src, config, status, sign, meta, data, there, trig, pending, gc, tidy, durable>>
  BY DEF AppendRecord
<1>2. StoreTyped /\ DownloadShape
  BY DEF StoreInv
<1>3. j \in JobType /\ [num |-> j.num, ver |-> j.ver] \in RecordType
  BY <1>2 DEF StoreTyped, JobType, RecordType
<1>4. k \in JobType /\ k.old = j.old /\ k.at = "report" /\ k.num = j.num
  BY <1>3 DEF JobType
<1> HIDE DEF k
<1>5. /\ jobs' \in SUBSET JobType /\ IsFiniteSet(jobs')
      /\ Live' # {} => Live # {}
      /\ Cardinality(Live') <= Cardinality(Live)
      /\ Cardinality(Live) \in Nat /\ Cardinality(Live') \in Nat
  BY <1>1, <1>2, <1>4, WriterGoesOn
<1>6. recs' \in Seq(RecordType)
  BY <1>1, <1>2, <1>3 DEF StoreTyped, Appended
<1>7. StoreTyped'
  BY <1>1, <1>2, <1>5, <1>6 DEF StoreTyped, config
<1>8. DownloadShape'
  <2>1. trig.pool \in Nat
    BY <1>2, StoreBounds DEF StoreTyped, TrigType
  <2> QED BY <1>1, <1>2, <1>5, <2>1 DEF DownloadShape, Unsent
<1>9. ASSUME tidy' PROVE Tidy'
  <2>1. Tidy
    BY <1>1, <1>9 DEF StoreInv
  <2>2. \A i : i \in jobs' /\ i.at = "data" <=> i \in jobs /\ i.at = "data"
    BY <1>1, <1>4
  <2>3. \A i \in jobs' : ~i.old
    BY <1>1, <1>4, <2>1 DEF Tidy
  <2>4. OneTrigger' /\ MetaTrue'
    BY <1>1, <2>1 DEF Tidy, OneTrigger, MetaTrue, Filling, Good, Whole, Extent, Genuine, config
  <2>5. \A i \in Pieces : Underway(i) => Underway(i)'
    BY <2>2 DEF Underway
  <2>6. Progress' /\ Digested'
    BY <1>1, <2>1, <2>2, <2>5 DEF Tidy, Progress, Digested, Filling, Unsent
  <2>7. Recorded'
    <3>1. \A n \in DOMAIN recs' : (n \in DOMAIN recs /\ recs'[n] = recs[n]) \/ recs'[n].num = j.num
      BY <1>1, <1>2 DEF StoreTyped, Appended
    <3>2. \A i \in jobs' : i \in jobs \/ i = k
      BY <1>1
    <3> QED BY <1>1, <1>4, <2>1, <3>1, <3>2 DEF Tidy, Recorded
  <2> QED BY <2>3, <2>4, <2>6, <2>7 DEF Tidy
<1> QED BY <1>7, <1>8, <1>9 DEF StoreInv

\* A writer of the download leaves its pool with an error.
LEMMA WriterLeavesOK ==
    ASSUME StoreInv, NEW j \in jobs, ~j.old, jobs' = jobs \ {j},
           trig' = [trig EXCEPT !.err = TRUE, !.pool = @ - 1],
           UNCHANGED <<src, config, status, sign, files, pending, gc, tidy, durable>>
    PROVE  StoreInv'
<1>1. StoreTyped /\ DownloadShape /\ j \in Live
  BY DEF StoreInv, Live
<1>2. trig.at \in {"read", "send", "wait"} /\ ~trig.hit /\ Filling
  BY <1>1 DEF DownloadShape, Filling
<1>3. /\ jobs' \in SUBSET JobType /\ IsFiniteSet(jobs')
      /\ Live' # {} => Live # {}
      /\ Cardinality(Live') = Cardinality(Live) - 1
      /\ Cardinality(Live) \in Nat /\ Cardinality(Live') \in Nat
  BY <1>1, WriterDone
<1>4. trig.pool \in 0..MaxWriters /\ trig.pool - 1 \in 0..MaxWriters
  BY <1>1, <1>3, StoreBounds DEF StoreTyped, TrigType, DownloadShape
<1>5. /\ trig' \in TrigType /\ trig'.at = trig.at /\ trig'.next = trig.next
      /\ trig'.dig = trig.dig /\ trig'.from = trig.from /\ trig'.err = TRUE
      /\ trig'.hit = trig.hit /\ trig'.pool = trig.pool - 1
  BY <1>1, <1>4 DEF StoreTyped, TrigType
<1>6. StoreTyped'
  BY <1>1, <1>3, <1>5 DEF StoreTyped, files, config
<1>7. DownloadShape'
  <2>1. Cardinality(Live') <= trig'.pool
    BY <1>1, <1>3, <1>4, <1>5 DEF DownloadShape
  <2> QED BY <1>1, <1>2, <1>3, <1>5, <2>1 DEF DownloadShape, Unsent
<1>8. ASSUME tidy' PROVE Tidy'
  <2>1. Tidy
    BY <1>8 DEF StoreInv
  <2>2. OneTrigger' /\ MetaTrue' /\ \A i \in jobs' : ~i.old
    BY <1>2, <1>5, <2>1 DEF Tidy, OneTrigger, MetaTrue, Filling, Good, Whole, Extent, Genuine, files, config
  <2>3. Progress' /\ Digested'
    BY <1>5 DEF Progress, Digested
  <2>4. Recorded'
    BY <2>1, RecordedFrame DEF Tidy, files
  <2> QED BY <2>2, <2>3, <2>4 DEF Tidy
<1> QED BY <1>6, <1>7, <1>8 DEF StoreInv

\* A writer publishes its piece and is done with it.
LEMMA ReportPieceOK ==
    ASSUME StoreInv, NEW j \in jobs, ReportPiece(j)
    PROVE  StoreInv'
<1>1. /\ j.at = "report" /\ jobs' = jobs \ {j}
      /\ UNCHANGED <<src, config, status, sign, files, pending, gc, tidy, durable>>
  BY DEF ReportPiece
<1>2. CASE ~j.old /\ trig' = [trig EXCEPT !.err = TRUE, !.pool = @ - 1]
  BY <1>1, <1>2, WriterLeavesOK
<1>3. CASE trig' = trig
  <2>1. StoreTyped /\ DownloadShape
    BY DEF StoreInv
  <2>2. /\ jobs' \in SUBSET JobType /\ IsFiniteSet(jobs')
        /\ Live' # {} => Live # {}
        /\ Cardinality(Live') = IF j.old THEN Cardinality(Live) ELSE Cardinality(Live) - 1
        /\ Cardinality(Live) \in Nat /\ Cardinality(Live') \in Nat
    BY <1>1, <2>1, WriterDone
  <2>3. StoreTyped'
    BY <1>1, <1>3, <2>1, <2>2 DEF StoreTyped, files, config
  <2>4. DownloadShape'
    <3>1. trig.pool \in Nat
      BY <2>1, StoreBounds DEF StoreTyped, TrigType
    <3>2. Cardinality(Live') <= trig'.pool
      BY <1>3, <2>1, <2>2, <3>1 DEF DownloadShape
    <3> QED BY <1>3, <2>1, <2>2, <3>2 DEF DownloadShape, Unsent
  <2>5. ASSUME tidy' PROVE Tidy'
    <3>1. Tidy
      BY <1>1, <2>5 DEF StoreInv
    <3>2. \A i : i \in jobs' /\ i.at = "data" <=> i \in jobs /\ i.at = "data"
      BY <1>1
    <3>3. \A i \in Pieces : Underway(i) => Underway(i)'
      BY <3>2 DEF Underway
    <3>4. OneTrigger' /\ MetaTrue' /\ \A i \in jobs' : ~i.old
      BY <1>1, <1>3, <3>1 DEF Tidy, OneTrigger, MetaTrue, Filling, Good, Whole, Extent, Genuine, files, config
    <3>5. Progress' /\ Digested'
      BY <1>1, <1>3, <3>1, <3>2, <3>3 DEF Tidy, Progress, Digested, Filling, Unsent, files
    <3>6. Recorded'
      BY <1>1, <3>1, RecordedFrame DEF Tidy, files
    <3> QED BY <3>4, <3>5, <3>6 DEF Tidy
  <2> QED BY <2>3, <2>4, <2>5 DEF StoreInv
<1> QED BY <1>2, <1>3 DEF ReportPiece

\* A disk error: the writer leaves its pool.
LEMMA WriterFailsOK ==
    ASSUME StoreInv, WriterFails
    PROVE  StoreInv'
<1>1. PICK j \in jobs : ~j.old /\ jobs' = jobs \ {j}
  BY DEF WriterFails
<1>2. /\ trig' = [trig EXCEPT !.err = TRUE, !.pool = @ - 1]
      /\ UNCHANGED <<src, config, status, sign, files, pending, gc, tidy, durable>>
  BY DEF WriterFails
<1> QED BY <1>1, <1>2, WriterLeavesOK

\* The reader fails, and writers may outlive the trigger.
LEMMA ReadFailsOK ==
    ASSUME StoreInv, ReadFails
    PROVE  StoreInv'
<1>1. /\ trig.at = "read" /\ ~trig.err /\ jobs' = {[j EXCEPT !.old = TRUE] : j \in jobs}
      /\ tidy' = (tidy /\ jobs = {}) /\ Goto("fail")
      /\ UNCHANGED <<src, config, status, sign, files, pending, gc, durable>>
  BY DEF ReadFails
<1>2. StoreTyped /\ DownloadShape /\ ~trig.hit
  BY <1>1 DEF StoreInv, DownloadShape
<1>3. /\ trig' \in TrigType /\ trig'.at = "fail" /\ trig'.next = trig.next
      /\ trig'.dig = trig.dig /\ trig'.pool = trig.pool /\ trig'.hit = trig.hit
  BY <1>1, <1>2, GotoIs DEF TrigStages
<1>4. jobs' \in SUBSET JobType /\ Live' = {}
  <2>1. \A j \in JobType : [j EXCEPT !.old = TRUE] \in JobType /\ [j EXCEPT !.old = TRUE].old = TRUE
    BY DEF JobType
  <2>2. jobs \in SUBSET JobType
    BY <1>2 DEF StoreTyped
  <2>3. \A i \in jobs' : i \in JobType /\ i.old = TRUE
    BY <1>1, <2>1, <2>2
  <2> QED BY <2>3 DEF Live
<1>5. IsFiniteSet(jobs')
  <2> DEFINE older == [j \in jobs |-> [j EXCEPT !.old = TRUE]]
  <2>1. jobs' = {older[j] : j \in jobs}
    BY <1>1
  <2>2. older \in Surjection(jobs, jobs')
    <3>1. older \in [jobs -> jobs']
      BY <2>1
    <3>2. \A t \in jobs' : \E j \in jobs : older[j] = t
      BY <2>1
    <3> HIDE DEF older
    <3> QED BY <3>1, <3>2 DEF Surjection
  <2>3. IsFiniteSet(jobs)
    BY <1>2 DEF StoreTyped
  <2> HIDE DEF older
  <2> QED BY <2>2, <2>3, FS_Surjection
<1>6. tidy' \in BOOLEAN
  BY <1>1, <1>2, Zenon DEF StoreTyped
<1>7. StoreTyped'
  BY <1>1, <1>2, <1>3, <1>4, <1>5, <1>6 DEF StoreTyped, files, config
<1>8. DownloadShape'
  <2>1. trig.pool \in Nat /\ trig.next \in Nat
    BY <1>2, StoreBounds DEF StoreTyped, TrigType
  <2> QED BY <1>1, <1>2, <1>3, <1>4, <2>1, FS_EmptySet DEF DownloadShape, Unsent
<1>9. ASSUME tidy' PROVE Tidy'
  <2>1. tidy /\ jobs = {} /\ Tidy
    BY <1>1, <1>9, Zenon DEF StoreInv
  <2>2. jobs' = {}
    BY <1>1, <2>1
  <2>3. OneTrigger' /\ Progress' /\ Digested' /\ \A j \in jobs' : ~j.old
    BY <1>1, <1>2, <1>3, <2>1, <2>2 DEF Tidy, OneTrigger, Progress, Digested, Filling
  <2>4. MetaTrue'
    BY <1>1, <1>2, <1>3, <2>1
       DEF Tidy, MetaTrue, Filling, Good, Whole, Extent, Genuine, files, config
  <2>5. Recorded'
    BY <1>1, <2>1, <2>2, RecordedFrame DEF Tidy, files
  <2> QED BY <2>3, <2>4, <2>5 DEF Tidy
<1> QED BY <1>7, <1>8, <1>9 DEF StoreInv

\* Nothing is left of the process, and nothing is cut off that metadata vouches for.
LEMMA DieOK ==
    ASSUME StoreInv, Die, data' \in [Pieces -> OnDisk], durable' \in BOOLEAN,
           durable' => durable /\ \A i \in Pieces : data[i] # 0 => data'[i] # 0,
           tidy /\ meta.success => data' = data \/ (~durable' /\ Size(data') # NPieces)
    PROVE  StoreInv'
<1>2. /\ status' = "gone" /\ sign' = <<>> /\ trig' = NoTrig /\ pending' = 0 /\ jobs' = {}
      /\ gc' = "idle" /\ UNCHANGED <<src, config, meta, recs, ended, there, tidy>>
  BY DEF Die
<1>3. StoreTyped /\ DownloadShape
  BY DEF StoreInv
<1>4. StoreTyped'
  <2>2. sign' \in Seq(RecordType)
    BY <1>2
  <2>3. gc' \in GCStages /\ IsFiniteSet(jobs') /\ jobs' \in SUBSET JobType
    BY <1>2, FS_EmptySet DEF GCStages
  <2>4. trig' \in TrigType
    BY <1>2, NoTrigIs
  <2> QED BY <1>2, <1>3, <2>2, <2>3, <2>4 DEF StoreTyped, config
<1>5. DownloadShape'
  <2>1. Live' = {}
    BY <1>2 DEF Live
  <2> QED BY <1>2, <2>1, FS_EmptySet, StoreBounds DEF DownloadShape, NoTrig, Unsent
<1>6. ASSUME tidy' PROVE Tidy'
  <2>1. Tidy /\ tidy
    BY <1>2, <1>6 DEF StoreInv
  <2>2. OneTrigger' /\ Progress' /\ Digested' /\ \A j \in jobs' : ~j.old
    BY <1>2, <2>1 DEF Tidy, OneTrigger, Progress, Digested, Filling, NoTrig
  <2>3. Recorded'
    <3>1. \A n \in DOMAIN recs : recs[n].num \in Pieces
      <4>1. \A n \in DOMAIN recs : recs[n] \in RecordType
        BY <1>3 DEF StoreTyped
      <4> QED BY <4>1 DEF RecordType
    <3> QED BY <1>2, <2>1, <3>1 DEF Tidy, Recorded
  <2>4. ASSUME meta.success, there, Size(data') = meta.size PROVE Good'
    <3>1. CASE data' = data
      BY <1>2, <2>1, <2>4, <3>1 DEF Tidy, MetaTrue, Good, Whole, Extent, Genuine, config
    <3>2. CASE ~durable' /\ Size(data') # NPieces
      BY <1>2, <2>1, <2>4, <3>2 DEF Tidy, MetaTrue, Good, Genuine, config
    <3> QED BY <2>1, <2>4, <3>1, <3>2
  <2>5. MetaTrue'
    BY <1>2, <2>1, <2>4 DEF Tidy, MetaTrue, Filling, NoTrig, config
  <2> QED BY <2>2, <2>3, <2>5 DEF Tidy
<1> QED BY <1>4, <1>5, <1>6 DEF StoreInv

\* Data is torn only under a download, whose metadata does not say success.
LEMMA CrashOK ==
    ASSUME StoreInv, Crash
    PROVE  StoreInv'
<1>1. PICK torn \in SUBSET {j \in jobs : j.at = "data"} :
        data' = [i \in Pieces |-> IF i < Size(data) /\ \E j \in torn : j.num = i THEN Torn
                                  ELSE data[i]]
  BY DEF Crash
<1>2. Die /\ durable' = durable /\ StoreTyped
  BY DEF Crash, StoreInv
<1>3. data' \in [Pieces -> OnDisk] /\ \A i \in Pieces : data[i] # 0 => data'[i] # 0
  BY <1>1, <1>2 DEF StoreTyped, OnDisk, Torn
<1>4. ASSUME tidy, meta.success PROVE data' = data
  <2>1. jobs = {}
    BY <1>4, NoStrayWriters DEF StoreInv, Tidy, MetaTrue, Filling
  <2> QED BY <1>1, <1>2, <2>1 DEF StoreTyped
<1> QED BY <1>2, <1>3, <1>4, DieOK DEF StoreTyped

\* A power failure that cuts the data file leaves it too short for the metadata.
LEMMA PowerFailsOK ==
    ASSUME StoreInv, PowerFails
    PROVE  StoreInv'
<1>1. PICK n \in Pieces : data' = [i \in Pieces |-> IF i < n THEN data[i] ELSE 0]
  BY DEF PowerFails
<1>2. Die /\ durable' = (durable /\ data' = data) /\ StoreTyped
  BY DEF PowerFails, StoreInv
<1>3. data' \in [Pieces -> OnDisk]
  BY <1>1, <1>2, StoreBounds DEF StoreTyped, OnDisk, Content
<1>4. Size(data') # NPieces
  <2>1. NPieces - 1 \in Pieces /\ ~(NPieces - 1 < n)
    BY StoreBounds DEF Pieces
  <2>2. data'[NPieces - 1] = 0
    BY <1>1, <2>1
  <2> QED BY <1>3, <2>2, SizeIs
<1>5. durable' \in BOOLEAN /\ (durable' => durable /\ data' = data)
      /\ (~durable' \/ data' = data)
  BY <1>2, Zenon DEF StoreTyped
<1> QED BY <1>2, <1>3, <1>4, <1>5, DieOK

\* Empty directories satisfy the invariant.
LEMMA StoreInit == Init => StoreInv
<1> SUFFICES ASSUME Init PROVE StoreInv
  OBVIOUS
<1>1. StoreTyped
  <2>1. <<>> \in Seq(RecordType) /\ Empty \in [Pieces -> OnDisk] /\ jobs \in SUBSET JobType
        /\ 1 \in Versions /\ 0 \in Content /\ 1 \in Content
    BY StoreBounds DEF Init, Empty, Content, Versions, OnDisk
  <2>2. IsFiniteSet(jobs) /\ gc \in GCStages
    BY FS_EmptySet DEF Init, GCStages
  <2> QED BY <2>1, <2>2, NoTrigIs DEF Init, StoreTyped
<1>2. DownloadShape
  <2>1. Live = {}
    BY DEF Init, Live
  <2> QED BY <2>1, FS_EmptySet, StoreBounds DEF Init, DownloadShape, NoTrig, Unsent
<1>3. Tidy
  BY DEF Init, Tidy, OneTrigger, Progress, Digested, Recorded, MetaTrue, Filling, NoTrig, NoMeta
<1> QED BY <1>1, <1>2, <1>3 DEF StoreInv

\* Every step keeps the invariant.
LEMMA StoreStep == StoreInv /\ [Next]_vars => StoreInv'
<1> SUFFICES ASSUME StoreInv, [Next]_vars PROVE StoreInv'
  OBVIOUS
<1>1. ASSUME Register \/ triggerCdnSyncAction \/ ExpireTask PROVE StoreInv'
  BY <1>1, TableOK
<1>2. ASSUME TriggerStep PROVE StoreInv'
  <2>1. ASSUME StartTrigger \/ DetectMeta(FALSE) \/ DetectRecords PROVE StoreInv'
    BY <2>1, StartTriggerOK, DetectMetaOK, DetectRecordsOK
  <2>2. ASSUME ResetRepo \/ writeFileMetadataByTask \/ ReadAccessTime \/ WriteAccessTime
        PROVE  StoreInv'
    BY <2>2, ResetRepoOK, AccessTimeOK
  <2>3. ASSUME ReportDetectResult \/ Wait \/ Download \/ ReadPiece PROVE StoreInv'
    BY <2>3, GoesOnOK, DownloadOK, ReadPieceOK
  <2>4. ASSUME SendPiece \/ Measure \/ Commit \/ Success \/ Fail PROVE StoreInv'
    BY <2>4, SendPieceOK, MeasureOK, CommitOK, PublishOK
  <2> QED BY <1>2, <2>1, <2>2, <2>3, <2>4 DEF TriggerStep
<1>3. ASSUME WriterStep PROVE StoreInv'
  <2>1. PICK j \in jobs : WriteData(j) \/ AppendRecord(j) \/ ReportPiece(j)
    BY <1>3 DEF WriterStep
  <2> QED BY <2>1, WriteDataOK, AppendRecordOK, ReportPieceOK
<1>4. ASSUME PickForGC \/ CheckForGC \/ LockForGC \/ DeleteTask PROVE StoreInv'
  BY <1>4, CollectorPicksOK, DeleteTaskOK
<1>5. ASSUME SourceChanges \/ SourceRefuses \/ ShortRead \/ DetectMeta(TRUE) PROVE StoreInv'
  BY <1>5, SourceChangesOK, GoesOnOK, DetectMetaOK
<1>6. ASSUME ReadFails \/ WriterFails \/ Crash \/ PowerFails PROVE StoreInv'
  BY <1>6, ReadFailsOK, WriterFailsOK, CrashOK, PowerFailsOK
<1>7. ASSUME UNCHANGED vars PROVE StoreInv'
  <2>1. StoreTyped'
    BY <1>7 DEF StoreInv, StoreTyped, vars, config
  <2>2. DownloadShape' /\ (tidy' => Tidy')
    BY <1>7, ShapeFrame, TidyFrame DEF StoreInv, vars, config
  <2> QED BY <2>1, <2>2 DEF StoreInv
<1> QED BY <1>1, <1>2, <1>3, <1>4, <1>5, <1>6, <1>7 DEF Next, Routine, Disturbance

-----------------------------------------------------------------------------

(* The invariant of the store holds throughout: only a download has        *)
(* writers, and in a tidy history a task has one trigger at most, every    *)
(* piece before the break point is on disk or in the hands of a writer,    *)
(* the file digest has seen what will be there or can match nothing, a     *)
(* record is there only with its data unless a power failure took it, and  *)
(* metadata that says success and has the size of the data file describes  *)
(* complete files.                                                         *)
THEOREM StoreInvariant == Spec => []StoreInv
BY StoreInit, StoreStep, PTL DEF Spec

(* Type correctness of the CDN store: among it, that a download never has  *)
(* more writers at work than its pool, and that its digest never covers    *)
(* more than one piece beyond the end.                                     *)
THEOREM StoreTypeOK == Spec => []TypeOK
<1>1. StoreInv => TypeOK
  <2> SUFFICES ASSUME StoreInv PROVE TypeOK
    OBVIOUS
  <2>1. StoreTyped /\ DownloadShape
    BY DEF StoreInv
  <2>2. /\ trig.at \in TrigStages /\ trig.from \in Content /\ trig.next \in 0..NPieces
        /\ trig.dig \in Seq(OnDisk) /\ trig.pool \in 0..MaxWriters /\ trig.err \in BOOLEAN
        /\ trig.hit \in BOOLEAN /\ trig.rmw \in MetaType /\ trig.sign \in Seq(RecordType)
    BY <2>1 DEF StoreTyped, TrigType
  <2>3. Len(trig.dig) <= NPieces + 1
    <3>1. Len(trig.dig) \in Nat
      BY <2>2
    <3> QED BY <2>1, <2>2, <3>1, StoreBounds DEF DownloadShape, Unsent
  <2>4. Cardinality({j \in jobs : ~j.old}) <= MaxWriters
    <3>1. IsFiniteSet(Live)
      BY <2>1, FS_Subset DEF StoreTyped, Live
    <3>2. Cardinality(Live) \in Nat /\ Cardinality(Live) <= trig.pool
      BY <2>1, <3>1, FS_CardinalityType DEF DownloadShape
    <3>3. Cardinality(Live) <= MaxWriters
      BY <2>2, <3>2, StoreBounds
    <3> QED BY <3>3 DEF Live
  <2> QED BY <2>1, <2>2, <2>3, <2>4 DEF StoreTyped, TypeOK
<1> QED BY <1>1, StoreInvariant, PTL

(* A task published as a success has every piece on disk, of the content   *)
(* whose digest the client asked for, whatever crashes, resumed downloads, *)
(* changes of the source and runs of the collector came before; after a    *)
(* power failure, if a digest was asked for.                               *)
THEOREM StorePublishedIsWhole == Spec => []PublishedIsWhole
<1>1. StoreInv => PublishedIsWhole
  BY DEF StoreInv, Tidy, MetaTrue, Good, PublishedIsWhole
<1> QED BY <1>1, StoreInvariant, PTL

(* At every moment, files which the detector would take for a complete     *)
(* cache after a restart are complete.                                     *)
THEOREM StoreAcceptedIsWhole == Spec => []AcceptedIsWhole
<1>1. StoreInv => AcceptedIsWhole
  BY DEF StoreInv, Tidy, MetaTrue, Good, AcceptedIsWhole, Complete
<1> QED BY <1>1, StoreInvariant, PTL

\* Disk storage takes the lock before it asks the table for the last time.
CollectedIsGone == /\ hybrid \in BOOLEAN
                   /\ ~hybrid => gc # "checked" /\ (Locked => status = "gone")

\* What the collector picked stays out of the table until it is looked at again.
LEMMA CollectedStep == CollectedIsGone /\ [Next]_vars => CollectedIsGone'
<1> SUFFICES ASSUME CollectedIsGone, [Next]_vars PROVE CollectedIsGone'
  OBVIOUS
<1>1. ASSUME Register \/ triggerCdnSyncAction \/ ExpireTask PROVE CollectedIsGone'
  BY <1>1 DEF CollectedIsGone, Register, triggerCdnSyncAction, ExpireTask, Locked, config
<1>2. ASSUME TriggerStep, ~(Success \/ Fail) PROVE UNCHANGED <<config, status, gc>>
  BY <1>2 DEF TriggerStep, StartTrigger, DetectMeta, DetectRecords, ResetRepo,
     writeFileMetadataByTask, ReadAccessTime, WriteAccessTime, ReportDetectResult, Download,
     ReadPiece, SendPiece, Wait, Measure, Commit, unusedByTrigger
<1>3. ASSUME Success \/ Fail PROVE CollectedIsGone'
  BY <1>3 DEF Success, Fail, Publish, CollectedIsGone, Locked, config
<1>4. ASSUME WriterStep \/ SourceChanges \/ SourceRefuses \/ ShortRead \/ ReadFails
             \/ WriterFails \/ DetectMeta(TRUE) \/ UNCHANGED vars
      PROVE  UNCHANGED <<config, status, gc>>
  BY <1>4 DEF WriterStep, WriteData, AppendRecord, ReportPiece, SourceChanges, SourceRefuses,
     ShortRead, ReadFails, WriterFails, DetectMeta, unusedByTrigger, vars
<1>5. ASSUME Crash \/ PowerFails PROVE CollectedIsGone'
  BY <1>5 DEF Crash, PowerFails, Die, CollectedIsGone, Locked, config
<1>6. ASSUME PickForGC \/ CheckForGC \/ LockForGC PROVE CollectedIsGone'
  BY <1>6 DEF PickForGC, CheckForGC, LockForGC, StillUnused, CollectedIsGone, Locked,
     unusedByGC, config
<1>7. ASSUME DeleteTask PROVE CollectedIsGone'
  <2>1. UNCHANGED <<status, hybrid>> /\ Locked /\ gc' # "checked"
    BY <1>7 DEF DeleteTask, Locked, config
  <2> QED BY <2>1 DEF CollectedIsGone, Locked
<1>8. ASSUME UNCHANGED <<config, status, gc>> PROVE CollectedIsGone'
  BY <1>8 DEF CollectedIsGone, Locked, config
<1> QED BY <1>1, <1>2, <1>3, <1>4, <1>5, <1>6, <1>7, <1>8 DEF Next, Routine, Disturbance

(* The collector of disk storage removes a file only while the task is not *)
(* in the table.                                                           *)
THEOREM StoreCollectorSpares == Spec => CollectorSparesTasks
<1>1. Init => CollectedIsGone
  BY DEF Init, CollectedIsGone, Locked
<1>2. CollectedIsGone /\ [Next]_vars
        => [~hybrid /\ Locked /\ files' # files /\ gc' # gc => status = "gone"]_vars
  BY DEF CollectedIsGone
<1> QED BY <1>1, <1>2, CollectedStep, PTL DEF Spec, CollectorSparesTasks
=============================================================================
