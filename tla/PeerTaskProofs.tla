--------------------------- MODULE PeerTaskProofs ---------------------------
(***************************************************************************)
(* Proofs about PeerTask, for any number of workers, any length of the     *)
(* content and any size of pieces and channels: what the scheduler, the    *)
(* client and the reader of a stream are told of the end of a download is  *)
(* true.                                                                   *)
(***************************************************************************)
EXTENDS PeerTask, FiniteSetTheorems, WellFoundedInduction, TLAPS

LoopType == [num : Nums, one : BOOLEAN, inited : BOOLEAN, pulling : BOOLEAN,
             packet : SUBSET Nums, src : Nat, known : BOOLEAN, over : BOOLEAN]
MetaType == [length : Nat \cup {None}, total : Nums \cup {None}]
GotType == [ready : SUBSET Nums, completed : Nat, requested : SUBSET Nums]
StoreType == [pieces : SUBSET Nums, total : Nums \cup {None}, sign : BOOLEAN, invalid : BOOLEAN]
RxType == [token : BOOLEAN, closed : BOOLEAN]
SigType == [ctx : BOOLEAN, done : BOOLEAN, success : BOOLEAN, stream : BOOLEAN, stop : BOOLEAN]
OutType == [once : {"free", "body", "notify", "close", "over"},
            verdict : {"none", "ok", "fail"}, stored : BOOLEAN, running : BOOLEAN,
            ok : 0..1, fail : 0..2]
WrType == [at : {"start", "write", "select", "drain", "closed"},
           desired : Nat, cache : SUBSET Nums, pipe : {"open", "eof", "error"}]

\* The parts of the type invariant: where goroutines are, what is there of the
\* pieces, and how the task ends.
WhereTyped == /\ pc \in [Procs -> Labels] /\ back \in Labels
              /\ hand \in [Procs -> Nums \cup {None}] /\ loop \in LoopType
WorkTyped == /\ meta \in MetaType /\ got \in GotType /\ store \in StoreType
             /\ reqs \in Seq(Nums) /\ Len(reqs) <= BufferSize
             /\ failed \in Seq(Nums) /\ Len(failed) <= BufferSize
EndTyped == /\ kind \in {"file", "stream"} /\ size \in Sizes
            /\ rx \in RxType /\ sig \in SigType /\ out \in OutType
            /\ cons \in {"reading", "ok", "left"} /\ wr \in WrType

\* Where goroutines are, and where they go back to.
Controls ==
    /\ back \in {"end", "dispatch", "source", "clean"}
    /\ pc[Pull] = "single" => /\ NPieces = 1 /\ failed = <<>> /\ back = "end"
                              /\ \A w \in Workers : pc[w] = "off"
    /\ pc[Pull] = "end" => back = "end"

\* Workers only hold pieces of the content, and what is to be marked was written.
Hands ==
    /\ reqs \in Seq(Pieces) /\ failed \in Seq(Pieces) /\ loop.packet \subseteq Pieces
    /\ got.requested \subseteq Pieces
    /\ \A w \in Workers : pc[w] \in {"fetch", "mark"} => hand[w] \in Pieces
    /\ \A p \in Procs : pc[p] \in {"mark", "tell"} => hand[p] \in Nums
    /\ \A p \in Procs : pc[p] = "mark" => hand[p] \in store.pieces \/ hand[p] = NPieces

\* The source delivers the pieces in order, the empty one at the most after them.
FromSource ==
    /\ loop.src <= NPieces + 1
    /\ ~loop.over => loop.src <= NPieces /\ (loop.known => loop.src < NPieces)
    /\ loop.over => loop.src >= NPieces
    /\ back = "dispatch" \/ pc[Pull] \in InLoop \cup {"open", "single"}
         => loop.src = 0 /\ ~loop.over
    /\ pc[Pull] = "source" \/ (back = "source" /\ pc[Pull] # "mark")
         => \A i \in Pieces : i < loop.src => i \in got.ready
    /\ pc[Pull] = "mark" /\ back = "source" =>
         /\ hand[Pull] = loop.src - 1
         /\ \A i \in Pieces : i < loop.src - 1 => i \in got.ready
    /\ pc[Pull] = "mark" /\ back # "source" => hand[Pull] \in Pieces

\* completedLength counts the pieces that are ready, all of them full but the last.
Counted ==
    /\ got.completed = Cardinality(got.ready) * PieceSize
                         - (IF NPieces - 1 \in got.ready THEN NPieces * PieceSize - size ELSE 0)
    /\ NPieces \in got.ready => Pieces \subseteq got.ready
    /\ got.ready \subseteq store.pieces \cup {NPieces}
    /\ meta.length \in {None, size} /\ meta.total \in {None, NPieces}
    /\ store.total \in {None, NPieces}

\* Who enters finish has every piece; who enters the Once from there, the digest too.
Validated == kind = "file" /\ CalculateDigest => DigestValid
Finished ==
    /\ \A p \in Procs : pc[p] \in {"finish", "commit"} => Pieces \subseteq got.ready
    /\ \A p \in Procs : pc[p] = "commit" => Validated
    /\ out.verdict = "ok" => Pieces \subseteq got.ready /\ Validated

\* The life of the Once: a failure is counted by its body and, before, by Pull
\* when it leaves its loop.
Departed == pc[Pull] \in {"clean", "end"} /\ back = "end"
OnceLife ==
    /\ out.once = "free" <=> out.verdict = "none"
    /\ sig.done => out.once = "over"
    /\ out.once \in {"free", "body"} => out.ok = 0 /\ ~out.stored
    /\ out.ok = 1 => out.verdict = "ok"
    /\ out.stored => out.verdict = "ok" /\ out.ok = 1 /\ ~out.running
    /\ out.verdict = "fail" /\ out.once # "body" => out.fail >= 1 /\ ~out.running
    /\ cons = "ok" \/ sig.stop => out.stored
    /\ out.fail <= (IF Departed THEN 1 ELSE 0)
                     + (IF out.verdict = "fail" /\ out.once # "body" THEN 1 ELSE 0)

\* The writer of a stream drains only after the Once has decided.
StreamEnd ==
    /\ sig.stream => out.verdict # "none"
    /\ wr.at = "drain" => sig.stream
    /\ wr.pipe = "eof" => /\ wr.at = "closed" /\ sig.stream
                          /\ out.verdict = "ok" => wr.desired >= NPieces

PeerInv == /\ WhereTyped /\ WorkTyped /\ EndTyped /\ Controls /\ Hands /\ FromSource /\ Counted /\ Finished /\ OnceLife
           /\ StreamEnd

-----------------------------------------------------------------------------

\* The number of pieces is the size divided by the piece size, rounded up.
LEMMA Rounding ==
    ASSUME NEW s \in Nat \ {0}, NEW q \in Nat \ {0}
    PROVE  LET n == (s + q - 1) \div q
           IN  n \in Nat \ {0} /\ (n - 1) * q < s /\ s <= n * q
<1> DEFINE n == (s + q - 1) \div q
           r == (s + q - 1) % q
<1>1. n \in Int /\ r \in 0..(q - 1) /\ s + q - 1 = q * n + r
  OBVIOUS
<1> HIDE DEF n, r
<1>2. n >= 1
  <2>1. n <= 0 => q * n <= 0
    BY <1>1
  <2> QED BY <1>1, <2>1
<1>3. (n - 1) * q = q * n - q /\ n * q = q * n
  BY <1>1
<1>4. q * n \in Int
  BY <1>1
<1>5. n \in Nat \ {0} /\ (n - 1) * q < s /\ s <= n * q
  BY <1>1, <1>2, <1>3, <1>4
<1> QED BY <1>5 DEF n

\* Pieces 0 .. NPieces - 2 are full, the last has what is left, the next is empty.
LEMMA PieceFacts ==
    ASSUME size \in Sizes
    PROVE  /\ size \in Nat \ {0} /\ PieceSize \in Nat \ {0} /\ NPieces \in Nat \ {0}
           /\ (NPieces - 1) * PieceSize < size /\ size <= NPieces * PieceSize
           /\ NPieces * PieceSize \in Nat
           /\ \A i \in Nums : BytesOf(i) =
                 IF i = NPieces THEN 0
                 ELSE IF i = NPieces - 1 THEN PieceSize - (NPieces * PieceSize - size) ELSE PieceSize
           /\ NPieces * PieceSize - size \in 0..(PieceSize - 1)
<1>1. size \in Nat \ {0} /\ PieceSize \in Nat \ {0}
  BY SizesNat
<1>2. NPieces \in Nat \ {0} /\ (NPieces - 1) * PieceSize < size /\ size <= NPieces * PieceSize
  BY <1>1, Rounding DEF NPieces
<1> DEFINE n == NPieces
<1> HIDE DEF n
<1>3. n \in Nat \ {0} /\ (n - 1) * PieceSize < size /\ size <= n * PieceSize
  BY <1>2 DEF n
<1>4. n * PieceSize \in Nat /\ (n - 1) * PieceSize = n * PieceSize - PieceSize
  BY <1>1, <1>3
<1>5. ASSUME NEW i \in 0..n
      PROVE  BytesOf(i) = IF i = n THEN 0
                          ELSE IF i = n - 1 THEN PieceSize - (n * PieceSize - size) ELSE PieceSize
  <2>1. CASE i = n
    <3>1. (i + 1) * PieceSize = n * PieceSize + PieceSize
      BY <1>1, <1>3, <2>1
    <3> QED BY <1>1, <1>3, <1>4, <2>1, <3>1 DEF BytesOf
  <2>2. CASE i = n - 1
    <3>1. (i + 1) * PieceSize = n * PieceSize /\ i * PieceSize = n * PieceSize - PieceSize
      BY <1>1, <1>3, <1>4, <2>2
    <3> QED BY <1>1, <1>3, <1>4, <2>2, <3>1 DEF BytesOf
  <2>3. CASE i < n - 1
    <3>1. (n - 1) * PieceSize = (i + 1) * PieceSize + (n - 1 - (i + 1)) * PieceSize
      BY <1>1, <1>3
    <3>2. (n - 1 - (i + 1)) * PieceSize >= 0
      BY <1>1, <1>3, <2>3
    <3>3. (i + 1) * PieceSize \in Int /\ (n - 1 - (i + 1)) * PieceSize \in Int
      BY <1>1, <1>3
    <3>4. (i + 1) * PieceSize <= size
      BY <1>1, <1>3, <1>4, <3>1, <3>2, <3>3
    <3> QED BY <1>1, <1>3, <2>3, <3>4 DEF BytesOf
  <2> QED BY <1>3, <2>1, <2>2, <2>3
<1>6. n * PieceSize - size \in 0..(PieceSize - 1)
  BY <1>1, <1>3, <1>4
<1> QED BY <1>1, <1>3, <1>4, <1>5, <1>6 DEF n, Nums

\* A piece that becomes ready adds its bytes to the count; an empty one counts full.
LEMMA CountsOne ==
    ASSUME WorkTyped, EndTyped, NEW h \in Nums, h \notin got.ready,
           got.completed = Cardinality(got.ready) * PieceSize
                             - (IF NPieces - 1 \in got.ready THEN NPieces * PieceSize - size ELSE 0)
    PROVE  LET ready == got.ready \cup {h}
               completed == got.completed + (IF BytesOf(h) = 0 THEN PieceSize ELSE BytesOf(h))
           IN  /\ completed \in Nat
               /\ completed = Cardinality(ready) * PieceSize
                    - (IF NPieces - 1 \in ready THEN NPieces * PieceSize - size ELSE 0)
<1> DEFINE k == Cardinality(got.ready)
           d == NPieces * PieceSize - size
           n == NPieces
<1>1. /\ size \in Sizes /\ got.ready \in SUBSET Nums /\ got.completed \in Nat
  BY DEF WorkTyped, GotType, EndTyped
<1>2. /\ n \in Nat \ {0} /\ PieceSize \in Nat \ {0} /\ d \in 0..(PieceSize - 1)
      /\ BytesOf(h) = IF h = n THEN 0 ELSE IF h = n - 1 THEN PieceSize - d ELSE PieceSize
  BY <1>1, PieceFacts
<1>3. IsFiniteSet(Nums)
  BY <1>2, FS_Interval DEF Nums
<1>4. IsFiniteSet(got.ready) /\ k \in Nat /\ Cardinality(got.ready \cup {h}) = k + 1
  <2>1. IsFiniteSet(got.ready)
    BY <1>1, <1>3, FS_Subset
  <2> QED BY <2>1, FS_CardinalityType, FS_AddElement
<1>5. got.completed = k * PieceSize - (IF n - 1 \in got.ready THEN d ELSE 0)
  OBVIOUS
<1> HIDE DEF n, d, k
<1>6. (k + 1) * PieceSize = k * PieceSize + PieceSize /\ k * PieceSize \in Int
  BY <1>2, <1>4
<1> DEFINE b == IF BytesOf(h) = 0 THEN PieceSize ELSE BytesOf(h)
<1>7. b = IF h = n - 1 THEN PieceSize - d ELSE PieceSize
  BY <1>2
<1> HIDE DEF b
<1>8. got.completed + b \in Nat
  BY <1>1, <1>2, <1>7
<1>9. got.completed + b = (k + 1) * PieceSize - (IF n - 1 \in got.ready \cup {h} THEN d ELSE 0)
  BY <1>1, <1>2, <1>5, <1>6, <1>7
<1> QED BY <1>4, <1>8, <1>9 DEF n, d, k, b

\* When the count has reached the length, every piece is ready.
LEMMA CompletedIsAll ==
    ASSUME WorkTyped, EndTyped, Counted, got.completed = size
    PROVE  Pieces \subseteq got.ready
<1> DEFINE k == Cardinality(got.ready)
           n == NPieces
<1>1. /\ size \in Sizes /\ got.ready \in SUBSET Nums /\ got.completed \in Nat
  BY DEF WorkTyped, GotType, EndTyped
<1>2. /\ n \in Nat \ {0} /\ PieceSize \in Nat \ {0} /\ size \in Nat \ {0}
      /\ (n - 1) * PieceSize < size /\ n * PieceSize - size \in 0..(PieceSize - 1)
      /\ n * PieceSize \in Nat
  BY <1>1, PieceFacts
<1>3. SUFFICES ASSUME n \notin got.ready PROVE Pieces \subseteq got.ready
  BY DEF Counted
<1>4. got.ready \subseteq Pieces /\ Pieces = 0..(n - 1)
  BY <1>1, <1>2, <1>3 DEF Nums, Pieces
<1>5. IsFiniteSet(Pieces) /\ Cardinality(Pieces) = n
  <2>1. IsFiniteSet(0..(n - 1)) /\ Cardinality(0..(n - 1)) = IF 0 > n - 1 THEN 0 ELSE (n - 1) - 0 + 1
    <3> HIDE DEF n
    <3>1. n - 1 \in Int
      BY <1>2
    <3> QED BY <3>1, FS_Interval
  <2> HIDE DEF n
  <2>2. ~(0 > n - 1) /\ (n - 1) - 0 + 1 = n
    BY <1>2
  <2>3. IsFiniteSet(0..(n - 1)) /\ Cardinality(0..(n - 1)) = n
    BY <2>1, <2>2
  <2> QED BY <1>4, <2>3
<1>6. /\ IsFiniteSet(got.ready) /\ k \in Nat /\ k <= n
      /\ k = n => got.ready = Pieces
  BY <1>4, <1>5, FS_Subset, FS_CardinalityType
<1>7. got.completed <= k * PieceSize
  <2>1. k * PieceSize \in Int
    BY <1>2, <1>6
  <2> HIDE DEF k, n
  <2> QED BY <1>1, <1>2, <2>1 DEF Counted, k, n
<1>8. k = n
  <2>1. SUFFICES ASSUME k <= n - 1 PROVE FALSE
    BY <1>2, <1>6
  <2> HIDE DEF k, n
  <2>2. (n - 1) * PieceSize = k * PieceSize + (n - 1 - k) * PieceSize
    BY <1>2, <1>6
  <2>3. (n - 1 - k) * PieceSize >= 0
    BY <1>2, <1>6, <2>1
  <2>4. k * PieceSize \in Int /\ (n - 1 - k) * PieceSize \in Int /\ (n - 1) * PieceSize \in Int
    BY <1>2, <1>6
  <2> QED BY <1>1, <1>2, <1>7, <2>2, <2>3, <2>4
<1> QED BY <1>6, <1>8

\* Every non-empty set of naturals has a least element.
LEMMA LeastNat ==
    ASSUME NEW S, S \subseteq Nat, S # {}
    PROVE  \E x \in S : \A y \in S : x <= y
<1>1. PICK x \in S : \A y \in S : <<y, x>> \notin OpToRel(<, Nat)
  BY NatLessThanWellFounded, WFMin
<1>2. OpToRel(<, Nat) = {p \in Nat \X Nat : p[1] < p[2]}
  BY Zenon DEF OpToRel
<1>3. ASSUME NEW y \in S PROVE x <= y
  <2>1. <<y, x>> \notin {p \in Nat \X Nat : p[1] < p[2]}
    BY <1>1, <1>2, Zenon
  <2> QED BY <2>1
<1> QED BY <1>3

\* There is a first number that was not requested, and it is no further than one
\* behind the last piece.
LEMMA NotRequestedIs ==
    ASSUME WorkTyped, EndTyped, Hands, NEW cur \in Nums
    PROVE  NotRequested(cur) \in Nums
<1> DEFINE n == NPieces
           req == got.requested
           S == {i \in Nat : i >= cur /\ i \notin req}
           Free(i) == i \notin req /\ cur..(i - 1) \subseteq req
<1>1. n \in Nat \ {0} /\ cur \in 0..n /\ req \subseteq 0..(n - 1)
  BY PieceFacts DEF EndTyped, Hands, Nums, Pieces
<1> HIDE DEF n
<1>2. n \in S
  BY <1>1
<1>3. PICK x \in S : \A y \in S : x <= y
  <2> HIDE DEF S
  <2>1. S \subseteq Nat
    BY DEF S
  <2> QED BY <1>2, <2>1, LeastNat
<1>4. Free(x) /\ x \in Nat /\ x >= cur
  BY <1>1, <1>3
<1>0. IsFiniteSet(req) /\ Cardinality(req) \in Nat
  <2>1. 0 \in Int /\ n - 1 \in Int
    BY <1>1
  <2>2. IsFiniteSet(0..(n - 1))
    BY <2>1, FS_Interval
  <2> QED BY <1>1, <2>2, FS_Subset, FS_CardinalityType
<1>5. x <= cur + Cardinality(req)
  <2>1. IsFiniteSet(cur..(x - 1)) /\ Cardinality(cur..(x - 1)) = IF cur > x - 1 THEN 0 ELSE (x - 1) - cur + 1
    <3>1. cur \in Int /\ x - 1 \in Int
      BY <1>1, <1>4
    <3> QED BY <3>1, FS_Interval
  <2>2. Cardinality(cur..(x - 1)) <= Cardinality(req)
    <3> HIDE DEF req
    <3>1. cur..(x - 1) \subseteq req
      BY <1>4
    <3> QED BY <1>0, <3>1, FS_Subset
  <2> QED BY <1>0, <1>1, <1>4, <2>1, <2>2
<1> DEFINE top == cur + Cardinality(req)
<1>6. x \in cur..top /\ top \in Int
  BY <1>0, <1>1, <1>4, <1>5
<1>7. NotRequested(cur) \in cur..top /\ Free(NotRequested(cur))
  <2>1. NotRequested(cur) = CHOOSE i \in cur..top : Free(i)
    BY DEF NotRequested
  <2> HIDE DEF Free, top
  <2> QED BY <1>4, <1>6, <2>1
<1> DEFINE r == NotRequested(cur)
<1>8. r \in Int /\ r >= cur /\ cur..(r - 1) \subseteq req
  <2> HIDE DEF top
  <2> QED BY <1>1, <1>6, <1>7
<1> HIDE DEF r
<1>9. r <= n
  <2>1. r > n => n \in cur..(r - 1)
    BY <1>1, <1>8
  <2> QED BY <1>1, <1>8, <2>1
<1>10. r \in 0..n
  BY <1>1, <1>8, <1>9
<1> QED BY <1>10 DEF r, n, Nums

\* getNextPieceNum names a piece of the content or none.
LEMMA NextPieceNumIs ==
    ASSUME WhereTyped, WorkTyped, EndTyped, Hands
    PROVE  getNextPieceNum(loop.num) \in Nums \cup {None}
<1>1. loop.num \in Nums /\ 0 \in Nums
  BY PieceFacts DEF EndTyped, WhereTyped, LoopType, Nums
<1>2. NotRequested(loop.num) \in Nums /\ NotRequested(0) \in Nums
  BY <1>1, NotRequestedIs
<1> QED BY <1>2 DEF getNextPieceNum

-----------------------------------------------------------------------------
(* The steps that leave the pieces alone.                                  *)

\* The size of the content never changes, nor what is computed from it.
LEMMA FixedNums ==
    ASSUME UNCHANGED fixed
    PROVE  /\ kind' = kind /\ size' = size /\ NPieces' = NPieces /\ Pieces' = Pieces
           /\ Nums' = Nums
BY DEF fixed, NPieces, Pieces, Nums

\* A step of the end of the task leaves what is known of the pieces alone.
LEMMA WorkFrame ==
    ASSUME PeerInv, UNCHANGED <<fixed, pc, hand, back, loop, meta, got, reqs, failed>>,
           store' \in StoreType,
           store'.pieces = store.pieces, store'.total = store.total, store'.sign = store.sign
    PROVE  /\ WhereTyped' /\ WorkTyped' /\ Controls' /\ Hands' /\ FromSource' /\ Counted'
           /\ out'.verdict = out.verdict => Finished'
<1>1. UNCHANGED <<pc, hand, back, loop, meta, got, reqs, failed>>
      /\ kind' = kind /\ size' = size /\ NPieces' = NPieces /\ Pieces' = Pieces /\ Nums' = Nums
  BY FixedNums
<1>2. Controls'
  BY <1>1 DEF PeerInv, Controls
<1>3. Hands'
  BY <1>1 DEF PeerInv, Hands
<1>4. FromSource'
  BY <1>1 DEF PeerInv, FromSource
<1>5. Counted'
  BY <1>1 DEF PeerInv, Counted
<1>6. out'.verdict = out.verdict => Finished'
  BY <1>1 DEF PeerInv, Finished, Validated, DigestValid
<1>7. WhereTyped'
  BY <1>1 DEF PeerInv, WhereTyped, LoopType
<1>8. WorkTyped'
  BY <1>1 DEF PeerInv, WorkTyped, MetaType, GotType, StoreType
<1> QED BY <1>2, <1>3, <1>4, <1>5, <1>6, <1>7, <1>8

\* The scheduler's messages, the consumer, and whoever cancels.
LEMMA OutsideOK ==
    ASSUME PeerInv,
           \/ ReceivePacket \/ ReceiveNeedBackSource \/ ReceiveExit
           \/ ConsumerDone \/ ConsumerStops \/ HandlerReturns \/ Cancel
    PROVE  PeerInv'
<1>1. /\ UNCHANGED <<fixed, pc, hand, back, loop, meta, got, reqs, failed, store, out, wr>>
      /\ \/ sig' = sig \/ sig' = [sig EXCEPT !.ctx = TRUE]
         \/ sig' = [sig EXCEPT !.stop = TRUE] /\ cons = "ok"
      /\ cons' \in {cons, "left"}
      /\ rx' = rx \/ rx' = [rx EXCEPT !.token = TRUE] \/ rx' = [rx EXCEPT !.closed = TRUE]
  BY DEF ReceivePacket, ReceiveNeedBackSource, ReceiveExit, ConsumerDone, ConsumerStops,
     HandlerReturns, Cancel, ends
<1>0. EndTyped /\ store \in StoreType
  BY DEF PeerInv, WorkTyped
<1>2. WhereTyped' /\ WorkTyped' /\ Controls' /\ Hands' /\ FromSource' /\ Counted' /\ Finished'
  <2>1. StoreType' = StoreType
    BY <1>1, FixedNums DEF StoreType
  <2> QED BY <1>0, <1>1, <2>1, WorkFrame
<1>3. kind' = kind /\ size' = size /\ NPieces' = NPieces /\ Nums' = Nums
  BY <1>1, FixedNums
<1>4. EndTyped'
  <2>1. sig' \in SigType /\ rx' \in RxType
    BY <1>0, <1>1 DEF EndTyped, SigType, RxType
  <2> QED BY <1>0, <1>1, <1>3, <2>1 DEF EndTyped, WrType
<1>5. sig'.done = sig.done /\ sig'.stream = sig.stream /\ (sig'.stop => sig.stop \/ cons = "ok")
  BY <1>0, <1>1 DEF EndTyped, SigType
<1>6. OnceLife' /\ StreamEnd'
  BY <1>1, <1>3, <1>5 DEF PeerInv, OnceLife, StreamEnd, Departed
<1> QED BY <1>2, <1>4, <1>6 DEF PeerInv

\* The first caller of the Once decides the verdict.
LEMMA ClaimOK ==
    ASSUME PeerInv, NEW p \in Procs, Claim(p)
    PROVE  PeerInv'
<1> DEFINE v == IF pc[p] = "commit" THEN "ok" ELSE "fail"
<1>1. /\ UNCHANGED <<fixed, pc, hand, back, loop, meta, got, reqs, failed, store, rx, cons, wr>>
      /\ out.once = "free" /\ out' = [out EXCEPT !.once = "body", !.verdict = v]
      /\ sig' = sig \/ sig' = [sig EXCEPT !.success = TRUE, !.stream = TRUE]
  BY DEF Claim, FirstComer
<1>0. EndTyped /\ store \in StoreType /\ v \in {"ok", "fail"}
  BY DEF PeerInv, WorkTyped
<1>2. WhereTyped' /\ WorkTyped' /\ Controls' /\ Hands' /\ FromSource' /\ Counted'
  BY <1>0, <1>1, WorkFrame
<1>3. kind' = kind /\ size' = size /\ NPieces' = NPieces /\ Nums' = Nums /\ Pieces' = Pieces
  BY <1>1, FixedNums
<1> HIDE DEF v
<1>5. /\ out'.once = "body" /\ out'.verdict = v /\ out'.ok = out.ok /\ out'.fail = out.fail
      /\ out'.stored = out.stored /\ out'.running = out.running
      /\ sig'.done = sig.done /\ sig'.stop = sig.stop /\ (sig.stream => sig'.stream)
      /\ out' \in OutType /\ sig' \in SigType
  BY <1>0, <1>1 DEF EndTyped, OutType, SigType
<1>4. EndTyped'
  BY <1>0, <1>1, <1>3, <1>5 DEF EndTyped, WrType
<1>6. OnceLife' /\ StreamEnd'
  BY <1>0, <1>1, <1>3, <1>5 DEF PeerInv, OnceLife, StreamEnd, Departed
<1>7. Finished'
  BY <1>1, <1>3, <1>5 DEF PeerInv, Finished, Validated, DigestValid, v
<1> QED BY <1>2, <1>4, <1>6, <1>7 DEF PeerInv

\* The body of the Once: the callback stores the task, fails to, or reports the failure.
LEMMA CallbackOK ==
    ASSUME PeerInv, CallbackDone \/ CallbackDoneFails \/ CallbackFail
    PROVE  PeerInv'
<1>0. EndTyped /\ store \in StoreType
  BY DEF PeerInv, WorkTyped
<1>1. /\ UNCHANGED <<fixed, pc, hand, back, loop, meta, got, reqs, failed, store, rx, sig, cons, wr>>
      /\ out.once = "body"
  BY DEF CallbackDone, CallbackDoneFails, CallbackFail
<1>2. AfterReport \in {"notify", "close"}
  BY DEF AfterReport
<1>3. out.fail \in Nat /\ (out.verdict = "fail" => out.fail + 1 \in 0..2)
  BY <1>0, <1>1 DEF PeerInv, EndTyped, OutType, OnceLife
<1>4. kind' = kind /\ size' = size /\ NPieces' = NPieces /\ Nums' = Nums
  BY <1>1, FixedNums
<1>6. /\ out' \in OutType
      /\ out'.once = AfterReport /\ out'.verdict = out.verdict
      /\ \/ /\ out.verdict = "ok" /\ out'.stored = TRUE /\ out'.ok = 1 /\ out'.running = FALSE
            /\ out'.fail = out.fail
         \/ /\ out.verdict = "ok" /\ out'.stored = out.stored /\ out'.ok = out.ok
            /\ out'.running = out.running /\ out'.fail = out.fail
         \/ /\ out.verdict = "fail" /\ out'.fail = out.fail + 1 /\ out'.running = FALSE
            /\ out'.stored = out.stored /\ out'.ok = out.ok
  <2>0. 1 \in 0..1
    OBVIOUS
  <2>1. CASE CallbackDone
    BY <1>0, <1>2, <2>0, <2>1 DEF CallbackDone, PeerTaskDone, EndTyped, OutType
  <2>2. CASE CallbackDoneFails
    BY <1>0, <1>2, <2>2 DEF CallbackDoneFails, EndTyped, OutType
  <2>3. CASE CallbackFail
    BY <1>0, <1>2, <1>3, <2>3 DEF CallbackFail, Fail, PeerTaskDone, EndTyped, OutType
  <2> QED BY <2>1, <2>2, <2>3
<1>5. EndTyped'
  BY <1>0, <1>1, <1>4, <1>6 DEF EndTyped, WrType
<1>7. WhereTyped' /\ WorkTyped' /\ Controls' /\ Hands' /\ FromSource' /\ Counted' /\ Finished'
  BY <1>0, <1>1, <1>6, WorkFrame
<1>8. OnceLife'
  BY <1>1, <1>2, <1>3, <1>6 DEF PeerInv, OnceLife, Departed
<1>9. StreamEnd'
  BY <1>1, <1>4, <1>6 DEF PeerInv, StreamEnd
<1> QED BY <1>5, <1>7, <1>8, <1>9 DEF PeerInv

\* The body of the Once tells the consumer.
LEMMA NotifyOK ==
    ASSUME PeerInv, Notify \/ CloseDone
    PROVE  PeerInv'
<1>0. EndTyped /\ store \in StoreType
  BY DEF PeerInv, WorkTyped
<1>1. /\ UNCHANGED <<fixed, pc, hand, back, loop, meta, got, reqs, failed, store, rx, wr>>
      /\ \/ /\ out.once = "notify" /\ out' = [out EXCEPT !.once = "close"] /\ sig' = sig
            /\ cons' \in {cons, "left"} \/ (cons' = "ok" /\ ProgressSuccess)
         \/ /\ out.once = "close" /\ out' = [out EXCEPT !.once = "over"] /\ cons' = cons
            /\ sig' = [sig EXCEPT !.done = TRUE, !.success = @ \/ out.verdict = "ok",
                                  !.stream = @ \/ kind = "stream"]
  BY DEF Notify, CloseDone
<1>2. /\ out'.verdict = out.verdict /\ out'.stored = out.stored /\ out'.running = out.running
      /\ out'.ok = out.ok /\ out'.fail = out.fail
      /\ \/ out'.once = "close" /\ sig' = sig
         \/ out'.once = "over" /\ sig'.stop = sig.stop /\ (sig.stream => sig'.stream)
      /\ out' \in OutType
  BY <1>0, <1>1 DEF EndTyped, OutType, SigType
<1>3. kind' = kind /\ size' = size /\ NPieces' = NPieces /\ Nums' = Nums
  BY <1>1, FixedNums
<1>4. EndTyped'
  <2>1. sig' \in SigType
    <3> DEFINE s == sig.success \/ out.verdict = "ok"
               t == sig.stream \/ kind = "stream"
    <3>1. s \in BOOLEAN /\ t \in BOOLEAN
      BY Zenon
    <3>2. sig' = sig \/ sig' = [sig EXCEPT !.done = TRUE, !.success = s, !.stream = t]
      BY <1>1
    <3> HIDE DEF s, t
    <3> QED BY <1>0, <3>1, <3>2 DEF EndTyped, SigType
  <2>2. cons' \in {"reading", "ok", "left"}
    BY <1>0, <1>1 DEF EndTyped
  <2> QED BY <1>0, <1>1, <1>2, <1>3, <2>1, <2>2 DEF EndTyped, WrType
<1>5. WhereTyped' /\ WorkTyped' /\ Controls' /\ Hands' /\ FromSource' /\ Counted' /\ Finished'
  BY <1>0, <1>1, <1>2, WorkFrame
<1>6. OnceLife'
  BY <1>1, <1>2 DEF PeerInv, OnceLife, Departed, ProgressSuccess
<1>7. StreamEnd'
  BY <1>1, <1>2, <1>3 DEF PeerInv, StreamEnd, OnceLife
<1> QED BY <1>4, <1>5, <1>6, <1>7 DEF PeerInv

\* The writer of a stream sees the end of the content when it has written as many
\* pieces as are ready, which after a success are all.
LEMMA StreamOK ==
    ASSUME PeerInv, StartFails \/ WriteOnePiece \/ WriterSelect \/ Drain \/ ReaderGone
    PROVE  PeerInv'
<1>0. EndTyped /\ store \in StoreType /\ got.ready \in SUBSET Nums
  BY DEF PeerInv, WorkTyped, GotType
<1>1. /\ UNCHANGED <<fixed, pc, hand, back, loop, meta, got, reqs, failed, rx, out, cons>>
  BY DEF StartFails, WriteOnePiece, WriterSelect, Drain, ReaderGone
<1>2. store' \in StoreType /\ store'.pieces = store.pieces /\ store'.total = store.total
      /\ store'.sign = store.sign
  <2>1. store' = store \/ \E b \in BOOLEAN : store' = [store EXCEPT !.invalid = b]
    <3>1. CASE Drain
      <4>1. store' = store \/ \E b : store' = [store EXCEPT !.invalid = @ \/ b]
        BY <3>1 DEF Drain
      <4>2. ASSUME NEW b PROVE (store.invalid \/ b) \in BOOLEAN
        BY Zenon
      <4> QED BY <4>1, <4>2
    <3> QED BY <3>1 DEF StartFails, WriteOnePiece, WriterSelect, ReaderGone
  <2> QED BY <1>0, <2>1 DEF StoreType
<1>3. kind' = kind /\ size' = size /\ NPieces' = NPieces /\ Nums' = Nums
  BY <1>1, FixedNums
<1>4. WhereTyped' /\ WorkTyped' /\ Controls' /\ Hands' /\ FromSource' /\ Counted' /\ Finished'
  BY <1>1, <1>2, WorkFrame
<1>5. sig' = sig \/ sig' = [sig EXCEPT !.ctx = TRUE]
  BY DEF StartFails, WriteOnePiece, WriterSelect, Drain, ReaderGone, StreamCloses
<1>6. sig' \in SigType /\ sig'.done = sig.done /\ sig'.stop = sig.stop /\ sig'.stream = sig.stream
  BY <1>0, <1>5 DEF EndTyped, SigType
<1>7. \/ wr' = [wr EXCEPT !.at = "closed", !.pipe = "error"]
      \/ /\ wr.at = "drain" /\ Drained
         /\ wr' = [wr EXCEPT !.at = "closed", !.pipe = "eof"]
      \/ /\ wr.at \in {"write", "drain"}
         /\ \E c \in {wr.cache, wr.cache \ {wr.desired}}, l \in {"write", "select", wr.at} :
              wr' = [wr EXCEPT !.desired = @ + 1, !.cache = c, !.at = l]
         /\ wr'.at = "drain" => wr.at = "drain"
      \/ wr.at = "select" /\ sig.stream /\ wr' = [wr EXCEPT !.at = "drain"]
  <2>1. wr \in WrType
    BY <1>0 DEF EndTyped
  <2>2. CASE StartFails \/ ReaderGone \/ WriterSelect
    BY <2>2 DEF StartFails, ReaderGone, WriterSelect, StreamCloses
  <2>3. CASE WriteOnePiece
    <3>1. CASE StreamCloses("error")
      BY <3>1 DEF StreamCloses
    <3>2. CASE wr' = [wr EXCEPT !.desired = @ + 1, !.cache = @ \ {wr.desired},
                              !.at = IF wr.desired + 1 \in wr.cache THEN "write" ELSE "select"]
      BY <2>1, <2>3, <3>2 DEF WriteOnePiece, WrType
    <3> QED BY <2>3, <3>1, <3>2 DEF WriteOnePiece
  <2>4. CASE Drain
    <3>1. CASE wr' = [wr EXCEPT !.desired = @ + 1]
      <4>1. wr' = [wr EXCEPT !.desired = @ + 1, !.cache = wr.cache, !.at = wr.at]
        BY <2>1, <3>1 DEF WrType
      <4> QED BY <2>1, <2>4, <4>1 DEF Drain, WrType
    <3>2. CASE StreamCloses("error") \/ (Drained /\ StreamCloses("eof"))
      BY <2>4, <3>2 DEF Drain, StreamCloses
    <3> QED BY <2>4, <3>1, <3>2 DEF Drain
  <2> QED BY <2>2, <2>3, <2>4
<1>8. wr' \in WrType
  <2>1. wr \in WrType /\ wr.desired + 1 \in Nat /\ wr.cache \ {wr.desired} \in SUBSET Nums
    BY <1>0 DEF EndTyped, WrType
  <2> QED BY <1>7, <2>1 DEF WrType
<1>9. EndTyped'
  BY <1>0, <1>1, <1>3, <1>6, <1>8 DEF EndTyped, WrType
<1>10. OnceLife'
  BY <1>1, <1>6 DEF PeerInv, OnceLife, Departed
<1>11. ASSUME Drained, out.verdict = "ok" PROVE wr.desired >= NPieces
  <2>1. NPieces \in Nat \ {0} /\ Pieces \subseteq got.ready
    BY <1>0, <1>11, PieceFacts DEF PeerInv, Finished, EndTyped
  <2>2. Pieces = 0..(NPieces - 1) /\ Nums = 0..NPieces
    BY DEF Pieces, Nums
  <2> DEFINE n == NPieces
  <2> HIDE DEF n
  <2>3. IsFiniteSet(0..n) /\ Cardinality(0..(n - 1)) = IF 0 > n - 1 THEN 0 ELSE (n - 1) - 0 + 1
    <3>1. 0 \in Int /\ n \in Int /\ n - 1 \in Int
      BY <2>1 DEF n
    <3> QED BY <3>1, FS_Interval
  <2>4. IsFiniteSet(got.ready)
    BY <1>0, <2>2, <2>3, FS_Subset DEF n
  <2>5. Cardinality(0..(n - 1)) <= Cardinality(got.ready) /\ Cardinality(got.ready) \in Nat
    BY <2>1, <2>2, <2>4, FS_Subset, FS_CardinalityType DEF n
  <2>6. Cardinality(got.ready) >= n
    BY <2>1, <2>3, <2>5 DEF n
  <2> QED BY <1>11, <2>6 DEF Drained, n
<1>12. StreamEnd'
  <2>1. wr \in WrType
    BY <1>0 DEF EndTyped
  <2> QED BY <1>1, <1>3, <1>6, <1>7, <1>11, <2>1 DEF PeerInv, StreamEnd, WrType
<1> QED BY <1>4, <1>9, <1>10, <1>12 DEF PeerInv

-----------------------------------------------------------------------------
(* The loop of Pull.                                                       *)

\* Goto moves one goroutine.
LEMMA GotoIs ==
    ASSUME WhereTyped, NEW p \in Procs, NEW l \in Labels, Goto(p, l)
    PROVE  /\ pc' \in [Procs -> Labels] /\ pc'[p] = l
           /\ \A q \in Procs : q # p => pc'[q] = pc[q]
BY DEF WhereTyped, Goto

\* The pull loop is a goroutine and no worker.
LEMMA PullIsProc == Pull \in Procs /\ \A w \in Workers : w \in Procs /\ w # Pull
BY PullIsNoWorker DEF Procs

\* A step of the download leaves the end of the task alone.
LEMMA EndFrame ==
    ASSUME PeerInv, UNCHANGED <<fixed, ends>>, rx' \in RxType, Departed => Departed'
    PROVE  EndTyped' /\ OnceLife' /\ StreamEnd'
<1>1. UNCHANGED <<sig, out, cons, wr>> /\ kind' = kind /\ size' = size /\ NPieces' = NPieces
      /\ Nums' = Nums
  BY FixedNums DEF ends
<1>2. EndTyped'
  BY <1>1 DEF PeerInv, EndTyped, WrType
<1>3. StreamEnd'
  BY <1>1 DEF PeerInv, StreamEnd
<1>4. out.fail \in Nat
  BY DEF PeerInv, EndTyped, OutType
<1>5. OnceLife'
  BY <1>1, <1>4 DEF PeerInv, OnceLife
<1> QED BY <1>2, <1>3, <1>5

\* The pull loop before it starts is well typed.
LEMMA NoLoopIs == ASSUME EndTyped PROVE NoLoop \in LoopType /\ 0 \in Nums /\ 0 \in Pieces
<1>1. 0 \in Nums /\ 0 \in Pieces
  BY PieceFacts DEF EndTyped, Nums, Pieces
<1> QED BY <1>1 DEF NoLoop, LoopType

\* Pull leaves its loop, perhaps after it has reported a failure.
LEMMA QuitOK ==
    ASSUME PeerInv, Quit, ~Departed,
           UNCHANGED <<fixed, hand, meta, got, reqs, failed, store, sig, cons, wr>>,
           rx' \in RxType, out' = out \/ out' = Fail(out)
    PROVE  PeerInv'
<1>0. /\ WhereTyped /\ WorkTyped /\ EndTyped /\ Pull \in Procs
  BY PullIsProc DEF PeerInv
<1>1. kind' = kind /\ size' = size /\ NPieces' = NPieces /\ Nums' = Nums /\ Pieces' = Pieces
      /\ UNCHANGED <<hand, meta, got, reqs, failed, store, sig, cons, wr>>
  BY FixedNums
<1>2. /\ pc' \in [Procs -> Labels] /\ pc'[Pull] = "clean" /\ back' = "end" /\ loop' = NoLoop
      /\ \A q \in Procs : q # Pull => pc'[q] = pc[q]
  BY <1>0, GotoIs DEF Quit, Labels
<1>3. WhereTyped'
  BY <1>0, <1>1, <1>2, NoLoopIs DEF WhereTyped, LoopType, Labels
<1>4. WorkTyped'
  BY <1>0, <1>1 DEF WorkTyped, MetaType, GotType, StoreType
<1>5. Controls'
  BY <1>2 DEF Controls
<1>6. Hands'
  BY <1>1, <1>2, PullIsProc DEF PeerInv, Hands, NoLoop
<1>7. FromSource'
  <2>1. NPieces \in Nat \ {0}
    BY <1>0, PieceFacts DEF EndTyped
  <2>2. loop'.src = 0 /\ loop'.over = FALSE /\ loop'.known = FALSE
    BY <1>2 DEF NoLoop
  <2> QED BY <1>1, <1>2, <2>1, <2>2 DEF FromSource
<1>8. Counted'
  BY <1>1 DEF PeerInv, Counted
<1>9. /\ out' \in OutType /\ out'.verdict = out.verdict /\ out'.once = out.once
      /\ out'.stored = out.stored /\ out'.ok = out.ok
      /\ (out'.running => out.running) /\ (out'.fail = out.fail \/ out'.fail = out.fail + 1)
  <2>1. out \in OutType /\ out.fail \in Nat /\ out.fail + 1 \in 0..2
    BY <1>0 DEF PeerInv, EndTyped, OutType, OnceLife
  <2>2. CASE out' = out
    BY <2>1, <2>2
  <2>3. CASE out' = [out EXCEPT !.fail = @ + 1, !.running = FALSE]
    BY <2>1, <2>3 DEF OutType
  <2>4. Fail(out) = [out EXCEPT !.fail = @ + 1, !.running = FALSE]
    BY <2>1 DEF Fail, PeerTaskDone, OutType
  <2> QED BY <2>2, <2>3, <2>4
<1>10. Finished'
  BY <1>0, <1>1, <1>2, <1>9 DEF PeerInv, Finished, Validated, DigestValid
<1>11. EndTyped'
  BY <1>0, <1>1, <1>9 DEF EndTyped, WrType
<1>12. OnceLife'
  <2>1. Departed' /\ out.fail \in Nat
    BY <1>0, <1>2 DEF Departed, EndTyped, OutType
  <2> QED BY <1>0, <1>1, <1>9, <2>1 DEF PeerInv, OnceLife
<1>13. StreamEnd'
  BY <1>1, <1>9 DEF PeerInv, StreamEnd
<1> QED BY <1>3, <1>4, <1>5, <1>6, <1>7, <1>8, <1>10, <1>11, <1>12, <1>13 DEF PeerInv

\* Pull goes from one label of its loop to another, or to the source.
LEMMA LoopOK ==
    ASSUME PeerInv, NEW l \in InLoop \cup {"open", "source"}, Goto(Pull, l),
           pc[Pull] \in InLoop \cup {"open"},
           UNCHANGED <<fixed, hand, back, store, ends>>,
           loop' \in LoopType, loop'.src = loop.src, loop'.over = loop.over,
           loop'.packet \subseteq Pieces,
           meta' \in MetaType, meta'.length \in {None, size}, meta'.total = meta.total,
           got' \in GotType, got'.ready = got.ready, got'.completed = got.completed,
           got'.requested \subseteq Pieces,
           reqs' \in Seq(Pieces), Len(reqs') <= BufferSize,
           failed' \in Seq(Pieces), Len(failed') <= BufferSize,
           rx' \in RxType
    PROVE  PeerInv'
<1>0. /\ WhereTyped /\ WorkTyped /\ EndTyped /\ Pull \in Procs /\ l \in Labels
  BY PullIsProc DEF PeerInv, InLoop, Labels
<1>1. kind' = kind /\ size' = size /\ NPieces' = NPieces /\ Nums' = Nums /\ Pieces' = Pieces
      /\ UNCHANGED <<hand, back, store, out>>
  BY FixedNums DEF ends
<1>2. /\ pc' \in [Procs -> Labels] /\ pc'[Pull] = l
      /\ \A q \in Procs : q # Pull => pc'[q] = pc[q]
  BY <1>0, GotoIs
<1>3. WhereTyped'
  BY <1>0, <1>1, <1>2 DEF WhereTyped, LoopType
<1>4. WorkTyped'
  <2>1. Pieces \subseteq Nums
    BY <1>0, PieceFacts DEF EndTyped, Pieces, Nums
  <2>2. reqs' \in Seq(Nums) /\ failed' \in Seq(Nums)
    BY <2>1
  <2> QED BY <1>0, <1>1, <2>2 DEF WorkTyped, MetaType, GotType, StoreType
<1>5. Controls'
  BY <1>1, <1>2 DEF PeerInv, Controls, InLoop
<1>6. Hands'
  BY <1>1, <1>2, PullIsProc DEF PeerInv, Hands, InLoop
<1>7. FromSource'
  <2>1. NPieces \in Nat \ {0}
    BY <1>0, PieceFacts DEF EndTyped
  <2>2. loop.src = 0 /\ ~loop.over
    BY DEF PeerInv, FromSource
  <2>3. \A i \in Pieces : ~(i < 0)
    BY <2>1 DEF Pieces
  <2> QED BY <1>1, <1>2, <2>1, <2>2, <2>3 DEF FromSource, InLoop
<1>8. Counted'
  BY <1>1 DEF PeerInv, Counted
<1>9. Finished'
  BY <1>1, <1>2 DEF PeerInv, Finished, Validated, DigestValid, InLoop
<1>10. EndTyped' /\ OnceLife' /\ StreamEnd'
  <2>1. ~Departed
    BY DEF Departed, InLoop
  <2> QED BY <2>1, EndFrame
<1> QED BY <1>3, <1>4, <1>5, <1>6, <1>7, <1>8, <1>9, <1>10 DEF PeerInv

\* What the loop leaves alone, in the form LoopOK asks for.
LEMMA LoopUnchanged ==
    ASSUME PeerInv
    PROVE  /\ loop \in LoopType /\ loop.packet \subseteq Pieces
           /\ meta \in MetaType /\ meta.length \in {None, size}
           /\ got \in GotType /\ got.requested \subseteq Pieces
           /\ reqs \in Seq(Pieces) /\ Len(reqs) <= BufferSize
           /\ failed \in Seq(Pieces) /\ Len(failed) <= BufferSize
           /\ rx \in RxType /\ Pieces \subseteq Nums /\ 0 \in Pieces /\ 0 \in Nums
<1>1. Pieces \subseteq Nums
  BY PieceFacts DEF PeerInv, EndTyped, Pieces, Nums
<1> QED BY <1>1, NoLoopIs DEF PeerInv, WhereTyped, WorkTyped, EndTyped, Hands, Counted

\* The pull loop waits for a packet, or fails to get pieces.
LEMMA WaitsOK ==
    ASSUME PeerInv, WaitPacket \/ WaitPacketTimeout \/ GetPiecesFails
    PROVE  PeerInv'
<1>0. /\ loop \in LoopType /\ loop.packet \subseteq Pieces
      /\ meta \in MetaType /\ meta.length \in {None, size}
      /\ got \in GotType /\ got.requested \subseteq Pieces
      /\ reqs \in Seq(Pieces) /\ Len(reqs) <= BufferSize
      /\ failed \in Seq(Pieces) /\ Len(failed) <= BufferSize
      /\ rx \in RxType /\ Pieces \subseteq Nums /\ 0 \in Pieces /\ 0 \in Nums
  BY LoopUnchanged
<1>1. /\ UNCHANGED <<fixed, hand, meta, got, reqs, failed, store, ends>>
      /\ pc[Pull] \in InLoop
  BY DEF WaitPacket, WaitPacketTimeout, GetPiecesFails, InLoop
<1>2. CASE Quit /\ UNCHANGED rx
  <2>1. ~Departed
    BY <1>1 DEF Departed, InLoop
  <2> QED BY <1>0, <1>1, <1>2, <2>1, QuitOK DEF ends
<1>3. CASE BackSource /\ UNCHANGED <<rx, loop>>
  BY <1>0, <1>1, <1>3, LoopOK DEF BackSource, InLoop
<1>4. CASE GetPiecesFails
  BY <1>0, <1>1, <1>4, LoopOK DEF GetPiecesFails, InLoop
<1>5. CASE /\ rx' = [rx EXCEPT !.token = FALSE] /\ loop' = [loop EXCEPT !.num = 0]
           /\ Goto(Pull, "top") /\ UNCHANGED back
  <2>1. rx' \in RxType /\ loop' \in LoopType /\ loop'.src = loop.src /\ loop'.over = loop.over
        /\ loop'.packet = loop.packet
    BY <1>0, <1>5 DEF RxType, LoopType
  <2> QED BY <1>0, <1>1, <1>5, <2>1, LoopOK DEF InLoop
<1> QED BY <1>2, <1>3, <1>4, <1>5 DEF WaitPacket, WaitPacketTimeout

\* Who takes from a channel takes an element of it.
LEMMA TailIs ==
    ASSUME NEW S, NEW s \in Seq(S), s # <<>>
    PROVE  Head(s) \in S /\ Tail(s) \in Seq(S) /\ Len(Tail(s)) = Len(s) - 1
OBVIOUS

\* Who puts into a channel adds one element.
LEMMA AppendIs ==
    ASSUME NEW S, NEW s \in Seq(S), NEW x \in S, ChannelFree(s)
    PROVE  Append(s, x) \in Seq(S) /\ Len(Append(s, x)) <= BufferSize
<1>1. Len(s) \in Nat /\ BufferSize \in Nat
  BY BufferNat
<1>2. Append(s, x) \in Seq(S) /\ Len(Append(s, x)) = Len(s) + 1
  OBVIOUS
<1> QED BY <1>1, <1>2 DEF ChannelFree

\* The pull loop begins a turn.
LEMMA TopOK ==
    ASSUME PeerInv, Top \/ WaitFailedPiece
    PROVE  PeerInv'
<1>0. /\ loop \in LoopType /\ loop.packet \subseteq Pieces
      /\ meta \in MetaType /\ meta.length \in {None, size}
      /\ got \in GotType /\ got.requested \subseteq Pieces
      /\ reqs \in Seq(Pieces) /\ Len(reqs) <= BufferSize
      /\ failed \in Seq(Pieces) /\ Len(failed) <= BufferSize
      /\ rx \in RxType /\ Pieces \subseteq Nums /\ 0 \in Pieces /\ 0 \in Nums
  BY LoopUnchanged
<1>1. /\ UNCHANGED <<fixed, hand, meta, got, reqs, store, rx, sig, cons, wr>>
      /\ pc[Pull] \in InLoop
  BY DEF Top, WaitFailedPiece, InLoop, ends
<1>2. CASE Quit /\ UNCHANGED failed /\ (out' = out \/ out' = Fail(out))
  <2>1. ~Departed
    BY <1>1 DEF Departed, InLoop
  <2> QED BY <1>0, <1>1, <1>2, <2>1, QuitOK
<1>3. CASE Goto(Pull, "get") /\ UNCHANGED <<back, loop, failed, out>>
  BY <1>0, <1>1, <1>3, LoopOK DEF ends, InLoop
<1>4. CASE /\ failed # <<>> /\ failed' = Tail(failed) /\ UNCHANGED <<back, out>>
           /\ loop' = [loop EXCEPT !.num = Head(failed), !.one = TRUE]
              \/ loop' = [loop EXCEPT !.num = Head(failed)]
           /\ Goto(Pull, "get") \/ Goto(Pull, "top")
  <2>1. Head(failed) \in Pieces /\ failed' \in Seq(Pieces) /\ Len(failed') = Len(failed) - 1
    BY <1>0, <1>4, TailIs
  <2>2. Len(failed') <= BufferSize
    <3>1. Len(failed) \in Nat /\ BufferSize \in Nat
      BY <1>0, BufferNat
    <3> QED BY <1>0, <2>1, <3>1
  <2>3. Head(failed) \in Nums
    BY <1>0, <2>1
  <2>4. loop' \in LoopType /\ loop'.src = loop.src /\ loop'.over = loop.over
        /\ loop'.packet = loop.packet
    BY <1>0, <1>4, <2>3 DEF LoopType
  <2> QED BY <1>0, <1>1, <1>4, <2>1, <2>2, <2>4, LoopOK DEF ends, InLoop
<1>5. CASE Top
  BY <1>2, <1>3, <1>4, <1>5 DEF Top
<1>6. CASE WaitFailedPiece
  BY <1>2, <1>4, <1>6 DEF WaitFailedPiece, ends
<1> QED BY <1>5, <1>6

\* A request goes to the workers, if the channel has room.
LEMMA DispatchOK ==
    ASSUME PeerInv, Dispatch
    PROVE  PeerInv'
<1> DEFINE n == CHOOSE m \in loop.packet : \A k \in loop.packet : m <= k
<1>0. /\ loop \in LoopType /\ loop.packet \subseteq Pieces
      /\ meta \in MetaType /\ meta.length \in {None, size}
      /\ got \in GotType /\ got.requested \subseteq Pieces
      /\ reqs \in Seq(Pieces) /\ Len(reqs) <= BufferSize
      /\ failed \in Seq(Pieces) /\ Len(failed) <= BufferSize
      /\ rx \in RxType /\ Pieces \subseteq Nums /\ 0 \in Pieces /\ 0 \in Nums
  BY LoopUnchanged
<1>1. /\ UNCHANGED <<fixed, hand, back, meta, failed, store, rx, ends>>
      /\ pc[Pull] = "dispatch" /\ pc[Pull] \in InLoop
  BY DEF Dispatch, InLoop
<1>2. CASE Goto(Pull, "next") /\ UNCHANGED <<loop, got, reqs>>
  BY <1>0, <1>1, <1>2, LoopOK DEF InLoop
<1>3. CASE /\ loop.packet # {}
           /\ \/ ChannelFree(reqs) /\ reqs' = Append(reqs, n)
              \/ UNCHANGED reqs
           /\ got' = [got EXCEPT !.requested = @ \cup {n}]
           /\ loop' = [loop EXCEPT !.packet = @ \ {n}]
           /\ UNCHANGED pc
  <2>1. n \in Pieces
    <3>1. loop.packet \subseteq Nat
      <4>1. Pieces \subseteq Nat
        BY PieceFacts DEF PeerInv, EndTyped, Pieces
      <4> QED BY <1>0, <4>1
    <3>2. \E m \in loop.packet : \A k \in loop.packet : m <= k
      BY <1>3, <3>1, LeastNat
    <3>3. n \in loop.packet
      BY <3>2
    <3> HIDE DEF n
    <3> QED BY <1>0, <3>3
  <2> HIDE DEF n
  <2>2. reqs' \in Seq(Pieces) /\ Len(reqs') <= BufferSize
    <3>1. CASE ChannelFree(reqs) /\ reqs' = Append(reqs, n)
      BY <1>0, <2>1, <3>1, AppendIs
    <3>2. CASE UNCHANGED reqs
      BY <1>0, <3>2
    <3> QED BY <1>3, <3>1, <3>2
  <2>3. /\ got' \in GotType /\ got'.ready = got.ready /\ got'.completed = got.completed
        /\ got'.requested = got.requested \cup {n}
    <3>1. got.requested \cup {n} \in SUBSET Nums
      BY <1>0, <2>1
    <3> QED BY <1>0, <1>3, <3>1 DEF GotType
  <2>4. loop' \in LoopType /\ loop'.src = loop.src /\ loop'.over = loop.over
        /\ loop'.packet \subseteq Pieces
    <3>1. loop.packet \ {n} \in SUBSET Nums /\ loop.packet \ {n} \subseteq Pieces
      BY <1>0
    <3> QED BY <1>0, <1>3, <3>1 DEF LoopType
  <2>5. Goto(Pull, "dispatch")
    BY <1>1, <1>3 DEF Goto, PeerInv, WhereTyped
  <2> QED BY <1>0, <1>1, <2>1, <2>2, <2>3, <2>4, <2>5, LoopOK DEF InLoop
<1> QED BY <1>2, <1>3 DEF Dispatch

\* The pull loop chooses the next piece, or one that failed.
LEMMA NextPieceOK ==
    ASSUME PeerInv, NextPiece
    PROVE  PeerInv'
<1> DEFINE n == getNextPieceNum(loop.num)
<1>0. /\ loop \in LoopType /\ loop.packet \subseteq Pieces
      /\ meta \in MetaType /\ meta.length \in {None, size}
      /\ got \in GotType /\ got.requested \subseteq Pieces
      /\ reqs \in Seq(Pieces) /\ Len(reqs) <= BufferSize
      /\ failed \in Seq(Pieces) /\ Len(failed) <= BufferSize
      /\ rx \in RxType /\ Pieces \subseteq Nums /\ 0 \in Pieces /\ 0 \in Nums
  BY LoopUnchanged
<1>1. /\ UNCHANGED <<fixed, hand, meta, got, reqs, failed, store, rx, ends>>
      /\ pc[Pull] \in InLoop
  BY DEF NextPiece, InLoop
<1>2. n \in Nums \cup {None}
  BY NextPieceNumIs DEF PeerInv
<1>3. CASE Quit
  <2>1. ~Departed
    BY <1>1 DEF Departed, InLoop
  <2> QED BY <1>0, <1>1, <1>3, <2>1, QuitOK DEF ends
<1>4. CASE /\ n # None
           /\ loop' = [loop EXCEPT !.num = n, !.one = FALSE]
           /\ Goto(Pull, "top") /\ UNCHANGED back
  <2> HIDE DEF n
  <2>1. loop' \in LoopType /\ loop'.src = loop.src /\ loop'.over = loop.over
        /\ loop'.packet = loop.packet
    BY <1>0, <1>2, <1>4 DEF LoopType
  <2> QED BY <1>0, <1>1, <1>4, <2>1, LoopOK DEF InLoop
<1>5. CASE /\ loop' = [loop EXCEPT !.one = TRUE]
           /\ Goto(Pull, "waitFailed") /\ UNCHANGED back
  <2>1. loop' \in LoopType /\ loop'.src = loop.src /\ loop'.over = loop.over
        /\ loop'.packet = loop.packet
    BY <1>0, <1>5 DEF LoopType
  <2> QED BY <1>0, <1>1, <1>5, <2>1, LoopOK DEF InLoop
<1> QED BY <1>3, <1>4, <1>5 DEF NextPiece

\* downloadSource: the length comes from the source, or stays unknown.
LEMMA OpenSourceOK ==
    ASSUME PeerInv, OpenSource \/ SourceFails \/ RegisterFails \/ InitFails
    PROVE  PeerInv'
<1>0. /\ loop \in LoopType /\ loop.packet \subseteq Pieces
      /\ meta \in MetaType /\ meta.length \in {None, size}
      /\ got \in GotType /\ got.requested \subseteq Pieces
      /\ reqs \in Seq(Pieces) /\ Len(reqs) <= BufferSize
      /\ failed \in Seq(Pieces) /\ Len(failed) <= BufferSize
      /\ rx \in RxType /\ Pieces \subseteq Nums /\ 0 \in Pieces /\ 0 \in Nums
  BY LoopUnchanged
<1>1. /\ UNCHANGED <<fixed, hand, got, reqs, failed, store, rx, ends>>
      /\ pc[Pull] \in {"open", "source", "single", "get"}
  BY DEF OpenSource, SourceFails, RegisterFails, InitFails
<1>2. CASE Quit /\ UNCHANGED meta
  <2>1. ~Departed
    BY <1>1 DEF Departed
  <2> QED BY <1>0, <1>1, <1>2, <2>1, QuitOK DEF ends
<1>3. CASE /\ pc[Pull] = "open"
           /\ meta' = [meta EXCEPT !.length = IF kind = "stream" THEN None ELSE @]
           /\ \E known \in BOOLEAN : loop' = [loop EXCEPT !.known = known]
           /\ Goto(Pull, "source") /\ UNCHANGED back
  <2>1. loop' \in LoopType /\ loop'.src = loop.src /\ loop'.over = loop.over
        /\ loop'.packet = loop.packet
    BY <1>0, <1>3 DEF LoopType
  <2>2. meta' \in MetaType /\ meta'.length \in {None, size} /\ meta'.total = meta.total
    BY <1>0, <1>3 DEF MetaType
  <2> QED BY <1>0, <1>1, <1>3, <2>1, <2>2, LoopOK
<1> QED BY <1>2, <1>3 DEF OpenSource, SourceFails, RegisterFails, InitFails

-----------------------------------------------------------------------------
(* Reports, and the workers.                                               *)

\* A goroutine goes on to another label, perhaps with another piece in hand.
LEMMA MovesOK ==
    ASSUME PeerInv, NEW p \in Procs, NEW l \in Labels \ {"single", "tell"}, Goto(p, l), pc[p] # "off",
           UNCHANGED <<fixed, loop, meta, got>>,
           hand' \in [Procs -> Nums \cup {None}], \A q \in Procs : q # p => hand'[q] = hand[q],
           back' = back \/ (p = Pull /\ back' = "end"),
           p = Pull /\ l = "end" => back' = "end",
           p = Pull /\ l \in InLoop \cup {"open"} => loop.src = 0 /\ ~loop.over,
           p = Pull /\ (l = "source" \/ back = "source") =>
               \A i \in Pieces : i < loop.src => i \in got.ready,
           reqs' \in Seq(Pieces), Len(reqs') <= BufferSize,
           failed' \in Seq(Pieces), Len(failed') <= BufferSize,
           store' \in StoreType, store.pieces \subseteq store'.pieces,
           store'.total = store.total, store'.sign = store.sign,
           l \in {"fetch", "mark"} => p \in Workers /\ hand'[p] \in Pieces,
           l = "mark" => hand'[p] \in store'.pieces,
           l \in {"finish", "commit"} => Pieces \subseteq got.ready,
           l = "commit" => Validated,
           out'.verdict = out.verdict
    PROVE  /\ WhereTyped' /\ WorkTyped' /\ Controls' /\ Hands' /\ FromSource' /\ Counted'
           /\ Finished' /\ (p # Pull => (Departed <=> Departed'))
<1>0. /\ WhereTyped /\ WorkTyped /\ EndTyped /\ Pull \in Procs /\ l \in Labels
      /\ \A w \in Workers : w \in Procs /\ w # Pull
  BY PullIsProc DEF PeerInv
<1>1. kind' = kind /\ size' = size /\ NPieces' = NPieces /\ Nums' = Nums /\ Pieces' = Pieces
      /\ UNCHANGED <<loop, meta, got>>
  BY FixedNums
<1>2. /\ pc' \in [Procs -> Labels] /\ pc'[p] = l
      /\ \A q \in Procs : q # p => pc'[q] = pc[q]
  BY <1>0, GotoIs
<1>3. WhereTyped'
  BY <1>0, <1>1, <1>2 DEF WhereTyped, LoopType, Labels
<1>4. WorkTyped'
  <2>1. Pieces \subseteq Nums
    BY <1>0, PieceFacts DEF EndTyped, Pieces, Nums
  <2>2. reqs' \in Seq(Nums) /\ failed' \in Seq(Nums)
    BY <2>1
  <2> QED BY <1>0, <1>1, <2>2 DEF WorkTyped, MetaType, GotType, StoreType
<1>5. Controls'
  <2>1. pc'[Pull] # "single"
    <3>1. p \in Workers => pc[Pull] # "single"
      BY DEF PeerInv, Controls
    <3> QED BY <1>0, <1>2, <3>1 DEF Procs
  <2> QED BY <1>0, <1>2, <2>1 DEF PeerInv, Controls
<1>6. Hands'
  <2>1. Pieces \subseteq Nums
    BY <1>0, PieceFacts DEF EndTyped, Pieces, Nums
  <2> QED BY <1>0, <1>1, <1>2, <2>1 DEF PeerInv, Hands
<1>7. FromSource'
  <2>1. CASE p = Pull
    <3>1. l # "mark"
      BY <1>0, <2>1
    <3> QED BY <1>0, <1>1, <1>2, <2>1, <3>1 DEF PeerInv, FromSource
  <2>2. CASE p # Pull
    <3>1. pc'[Pull] = pc[Pull] /\ back' = back /\ hand'[Pull] = hand[Pull]
      BY <1>0, <1>2, <2>2
    <3> QED BY <1>1, <3>1 DEF PeerInv, FromSource
  <2> QED BY <2>1, <2>2
<1>8. Counted'
  BY <1>1 DEF PeerInv, Counted
<1>9. Validated => Validated'
  BY <1>1 DEF Validated, DigestValid
<1>10. Finished'
  BY <1>0, <1>1, <1>2, <1>9 DEF PeerInv, Finished
<1>11. p # Pull => (Departed <=> Departed')
  BY <1>0, <1>2 DEF Departed
<1> QED BY <1>3, <1>4, <1>5, <1>6, <1>7, <1>8, <1>10, <1>11

\* Where a goroutine goes after a report.
LEMMA BackIs ==
    ASSUME PeerInv, NEW p \in Procs
    PROVE  /\ BackOf(p) \in Labels \ {"single", "fetch", "mark", "tell", "finish", "commit"}
           /\ p = Pull => BackOf(p) = back /\ back \in {"end", "dispatch", "source", "clean"}
           /\ back = "dispatch" => loop.src = 0 /\ ~loop.over
           /\ p # Pull => BackOf(p) = "take"
           /\ hand \in [Procs -> Nums \cup {None}]
           /\ [hand EXCEPT ![p] = None] \in [Procs -> Nums \cup {None}]
           /\ \A q \in Procs : q # p => [hand EXCEPT ![p] = None][q] = hand[q]
           /\ store \in StoreType
<1>1. back \in {"end", "dispatch", "source", "clean"} /\ hand \in [Procs -> Nums \cup {None}]
  BY DEF PeerInv, Controls, WhereTyped
<1> QED BY <1>1 DEF PeerInv, BackOf, Labels, FromSource, WorkTyped

\* The goroutine drops the piece it holds, after it was marked.
LEMMA DropOK ==
    ASSUME PeerInv, NEW p \in Procs, Drop(p), pc[p] # "off",
           UNCHANGED <<fixed, back, loop, meta, got, reqs, store, rx, ends>>,
           failed' \in Seq(Pieces), Len(failed') <= BufferSize,
           p = Pull => ~Departed /\ (back = "source" => \A i \in Pieces : i < loop.src => i \in got.ready)
    PROVE  PeerInv'
<1>0. /\ BackOf(p) \in Labels \ {"single", "fetch", "mark", "tell", "finish", "commit"}
      /\ p = Pull => BackOf(p) = back /\ back \in {"end", "dispatch", "source", "clean"}
      /\ back = "dispatch" => loop.src = 0 /\ ~loop.over
      /\ p # Pull => BackOf(p) = "take"
      /\ [hand EXCEPT ![p] = None] \in [Procs -> Nums \cup {None}]
      /\ \A q \in Procs : q # p => [hand EXCEPT ![p] = None][q] = hand[q]
      /\ store \in StoreType
  BY BackIs
<1>1. Goto(p, BackOf(p)) /\ hand' = [hand EXCEPT ![p] = None]
  BY DEF Drop
<1>2. /\ WhereTyped' /\ WorkTyped' /\ Controls' /\ Hands' /\ FromSource' /\ Counted'
      /\ Finished' /\ (p # Pull => (Departed <=> Departed'))
  <2>1. BackOf(p) \notin {"single", "fetch", "mark", "tell", "finish", "commit"}
    BY <1>0
  <2>2. p = Pull /\ BackOf(p) \in InLoop \cup {"open"} => loop.src = 0 /\ ~loop.over
    BY <1>0 DEF InLoop
  <2>3. p = Pull /\ (BackOf(p) = "source" \/ back = "source") =>
               \A i \in Pieces : i < loop.src => i \in got.ready
    BY <1>0
  <2>4. reqs' \in Seq(Pieces) /\ Len(reqs') <= BufferSize /\ out'.verdict = out.verdict
    BY LoopUnchanged DEF ends
  <2>5. p = Pull /\ BackOf(p) = "end" => back' = "end"
    BY <1>0
  <2> QED BY <1>0, <1>1, <2>1, <2>2, <2>3, <2>4, <2>5, MovesOK
<1>3. EndTyped' /\ OnceLife' /\ StreamEnd'
  <2>1. Departed => Departed'
    BY <1>2
  <2>2. rx' \in RxType
    BY LoopUnchanged
  <2> QED BY <2>1, <2>2, EndFrame
<1> QED BY <1>2, <1>3 DEF PeerInv

\* A piece becomes ready and is counted.
LEMMA MarkNewOK ==
    ASSUME PeerInv, NEW p \in Procs, pc[p] = "mark", ~AlreadyReported(hand[p]), Goto(p, "tell"),
           got' = [got EXCEPT !.ready = @ \cup {hand[p]},
                              !.completed = @ + (IF BytesOf(hand[p]) = 0 THEN PieceSize
                                                 ELSE BytesOf(hand[p]))],
           UNCHANGED <<fixed, hand, back, loop, meta, reqs, failed, store, rx, ends>>
    PROVE  PeerInv'
<1> DEFINE h == hand[p]
           more == got.completed + (IF BytesOf(h) = 0 THEN PieceSize ELSE BytesOf(h))
<1>0. /\ WhereTyped /\ WorkTyped /\ EndTyped /\ Pull \in Procs
      /\ \A w \in Workers : w \in Procs /\ w # Pull
  BY PullIsProc DEF PeerInv
<1>1. kind' = kind /\ size' = size /\ NPieces' = NPieces /\ Nums' = Nums /\ Pieces' = Pieces
      /\ UNCHANGED <<hand, back, loop, meta, reqs, failed, store, sig, out, cons, wr, rx>>
  BY FixedNums DEF ends
<1>2. /\ pc' \in [Procs -> Labels] /\ pc'[p] = "tell"
      /\ \A q \in Procs : q # p => pc'[q] = pc[q]
  BY <1>0, GotoIs DEF Labels
<1>3. h \in Nums /\ (h \in store.pieces \/ h = NPieces) /\ h \notin got.ready
  BY DEF PeerInv, Hands, AlreadyReported
<1>4. /\ more \in Nat
      /\ more = Cardinality(got.ready \cup {h}) * PieceSize
                 - (IF NPieces - 1 \in got.ready \cup {h} THEN NPieces * PieceSize - size ELSE 0)
  <2>1. got.completed = Cardinality(got.ready) * PieceSize
                         - (IF NPieces - 1 \in got.ready THEN NPieces * PieceSize - size ELSE 0)
    BY DEF PeerInv, Counted
  <2> HIDE DEF h
  <2> QED BY <1>0, <1>3, <2>1, CountsOne
<1>5. /\ got' \in GotType /\ got'.ready = got.ready \cup {h} /\ got'.completed = more
      /\ got'.requested = got.requested
  <2>1. got.ready \cup {h} \in SUBSET Nums /\ got \in GotType
    BY <1>0, <1>3 DEF WorkTyped, GotType
  <2> HIDE DEF more, h
  <2>2. got' = [got EXCEPT !.ready = got.ready \cup {h}, !.completed = more]
    BY DEF more, h
  <2> QED BY <1>4, <2>1, <2>2 DEF GotType
<1>6. WhereTyped'
  BY <1>0, <1>1, <1>2 DEF WhereTyped, LoopType
<1>7. WorkTyped'
  BY <1>0, <1>1, <1>5 DEF WorkTyped, MetaType, GotType, StoreType
<1>8. Controls'
  BY <1>0, <1>1, <1>2 DEF PeerInv, Controls
<1>9. Hands'
  BY <1>0, <1>1, <1>2, <1>5 DEF PeerInv, Hands
<1>10. FromSource'
  <2>1. CASE p = Pull
    <3>1. ASSUME back = "source", NEW i \in Pieces, i < loop.src PROVE i \in got'.ready
      <4>1. loop.src \in Nat /\ i \in Int
        <5>1. NPieces \in Nat
          BY <1>0, PieceFacts DEF EndTyped
        <5> QED BY <1>0, <5>1 DEF WhereTyped, LoopType, Pieces
      <4>2. hand[Pull] = loop.src - 1 /\ (i < loop.src - 1 => i \in got.ready)
        BY <2>1, <3>1 DEF PeerInv, FromSource
      <4> QED BY <1>5, <2>1, <3>1, <4>1, <4>2
    <3> QED BY <1>0, <1>1, <1>2, <2>1, <3>1 DEF PeerInv, FromSource, InLoop
  <2>2. CASE p # Pull
    <3>1. pc'[Pull] = pc[Pull] /\ got.ready \subseteq got'.ready
      BY <1>0, <1>2, <1>5, <2>2
    <3> QED BY <1>1, <3>1 DEF PeerInv, FromSource
  <2> QED BY <2>1, <2>2
<1>11. ASSUME NPieces \in got'.ready PROVE Pieces \subseteq got'.ready
  <2>0. NPieces \in Nat \ {0} /\ NPieces \notin Pieces
    BY <1>0, PieceFacts DEF EndTyped, Pieces
  <2>1. CASE NPieces \in got.ready
    BY <1>5, <2>1 DEF PeerInv, Counted
  <2>2. CASE h = NPieces
    <3>1. p = Pull /\ back = "source"
      BY <1>0, <2>0, <2>2 DEF PeerInv, Hands, FromSource, Procs
    <3>2. NPieces = loop.src - 1 /\ \A i \in Pieces : i < loop.src - 1 => i \in got.ready
      BY <2>2, <3>1 DEF PeerInv, FromSource
    <3>3. \A i \in Pieces : i < NPieces
      BY <2>0 DEF Pieces
    <3> QED BY <1>5, <3>2, <3>3
  <2> QED BY <1>5, <1>11, <2>1, <2>2
<1>12. Counted'
  <2> HIDE DEF more, h
  <2>1. got'.ready \subseteq store'.pieces \cup {NPieces}
    BY <1>1, <1>3, <1>5 DEF PeerInv, Counted
  <2>2. got'.completed = Cardinality(got'.ready) * PieceSize
                         - (IF NPieces - 1 \in got'.ready THEN NPieces * PieceSize - size ELSE 0)
    BY <1>4, <1>5
  <2> QED BY <1>1, <1>11, <2>1, <2>2 DEF PeerInv, Counted
<1>13. Finished'
  BY <1>0, <1>1, <1>2, <1>5 DEF PeerInv, Finished, Validated, DigestValid
<1>14. EndTyped' /\ OnceLife' /\ StreamEnd'
  <2>1. Departed => Departed'
    BY <1>0, <1>1, <1>2 DEF Departed
  <2>2. rx' \in RxType
    BY LoopUnchanged
  <2> QED BY <2>1, <2>2, EndFrame
<1> QED BY <1>6, <1>7, <1>8, <1>9, <1>10, <1>12, <1>13, <1>14 DEF PeerInv

\* A stored piece is marked ready once, and its length counted once.
LEMMA MarkOK ==
    ASSUME PeerInv, NEW p \in Procs, Mark(p)
    PROVE  PeerInv'
<1>1. CASE AlreadyReported(hand[p]) /\ Drop(p) /\ UNCHANGED got
  <2>1. /\ pc[p] = "mark"
        /\ UNCHANGED <<fixed, back, loop, meta, reqs, failed, store, rx, ends>>
    BY DEF Mark
  <2>2. ASSUME p = Pull, back = "source", NEW i \in Pieces, i < loop.src PROVE i \in got.ready
    <3>1. loop.src \in Nat /\ i \in Int
      <4>1. NPieces \in Nat
        BY PieceFacts DEF PeerInv, EndTyped
      <4> QED BY <4>1 DEF PeerInv, WhereTyped, LoopType, Pieces
    <3>2. hand[Pull] = loop.src - 1 /\ (i < loop.src - 1 => i \in got.ready)
      BY <2>1, <2>2 DEF PeerInv, FromSource
    <3> QED BY <1>1, <2>2, <3>1, <3>2 DEF AlreadyReported
  <2>3. p = Pull => ~Departed
    BY <2>1 DEF Departed
  <2> QED BY <1>1, <2>1, <2>2, <2>3, LoopUnchanged, DropOK
<1>2. CASE ~AlreadyReported(hand[p]) /\ Goto(p, "tell") /\ UNCHANGED hand
  BY <1>2, MarkNewOK DEF Mark
<1> QED BY <1>1, <1>2 DEF Mark

\* From the report of a piece to the Once.
LEMMA TellOK ==
    ASSUME PeerInv, NEW p \in Procs, TellFile(p) \/ TellStream(p)
    PROVE  PeerInv'
<1>1. /\ pc[p] = "tell" /\ UNCHANGED <<fixed, back, loop, meta, got, reqs, failed, store, rx, sig, out, cons>>
      /\ Drop(p) \/ (Goto(p, "check") /\ UNCHANGED hand)
  BY DEF TellFile, TellStream, ends
<1>2. p = Pull => ~Departed /\ (back = "source" => \A i \in Pieces : i < loop.src => i \in got.ready)
  BY <1>1 DEF PeerInv, FromSource, Departed
<1>3. /\ WhereTyped' /\ WorkTyped' /\ Controls' /\ Hands' /\ FromSource' /\ Counted'
      /\ Finished' /\ (p # Pull => (Departed <=> Departed'))
  <2>1. /\ BackOf(p) \in Labels \ {"single", "fetch", "mark", "tell", "finish", "commit"}
        /\ p = Pull => BackOf(p) = back /\ back \in {"end", "dispatch", "source", "clean"}
        /\ back = "dispatch" => loop.src = 0 /\ ~loop.over
        /\ hand \in [Procs -> Nums \cup {None}]
        /\ [hand EXCEPT ![p] = None] \in [Procs -> Nums \cup {None}]
        /\ \A q \in Procs : q # p => [hand EXCEPT ![p] = None][q] = hand[q]
        /\ store \in StoreType
    BY BackIs
  <2>2. PICK l \in {"check", BackOf(p)} : Goto(p, l)
    BY <1>1 DEF Drop
  <2>3. l \in Labels /\ l \notin {"single", "fetch", "mark", "tell", "finish", "commit"}
    BY <2>1, <2>2 DEF Labels
  <2>4. p = Pull /\ l \in InLoop \cup {"open"} => loop.src = 0 /\ ~loop.over
    BY <2>1, <2>2 DEF InLoop
  <2>5. p = Pull /\ (l = "source" \/ back = "source") =>
               \A i \in Pieces : i < loop.src => i \in got.ready
    BY <1>2, <2>1, <2>2
  <2>6. hand' \in [Procs -> Nums \cup {None}] /\ \A q \in Procs : q # p => hand'[q] = hand[q]
    BY <1>1, <2>1 DEF Drop
  <2>7. reqs' \in Seq(Pieces) /\ Len(reqs') <= BufferSize /\ failed' \in Seq(Pieces)
        /\ Len(failed') <= BufferSize
    BY <1>1, LoopUnchanged
  <2>8. p = Pull /\ l = "end" => back' = "end"
    BY <1>1, <2>1, <2>2
  <2> QED BY <1>1, <2>1, <2>2, <2>3, <2>4, <2>5, <2>6, <2>7, <2>8, MovesOK
<1>4. kind' = kind /\ size' = size /\ NPieces' = NPieces /\ Nums' = Nums
  BY <1>1, FixedNums
<1>5. wr' \in WrType /\ (wr' = wr \/ (wr'.at \in {"write", "select"} /\ wr'.pipe = wr.pipe /\ wr.at # "closed"))
  <2>1. wr \in WrType
    BY DEF PeerInv, EndTyped
  <2>2. CASE TellFile(p)
    BY <2>1, <2>2 DEF TellFile, ends
  <2>3. CASE TellStream(p)
    <3>1. CASE hand[p] = wr.desired
      BY <2>1, <2>3, <3>1 DEF TellStream, WrType
    <3>2. CASE hand[p] # wr.desired
      <4>1. hand[p] \in Nums
        BY <1>1 DEF PeerInv, Hands
      <4>2. wr.cache \cup {hand[p]} \in SUBSET Nums
        BY <2>1, <4>1 DEF WrType
      <4> QED BY <2>1, <2>3, <3>2, <4>2 DEF TellStream, WrType
    <3> QED BY <3>1, <3>2
  <2> QED BY <2>2, <2>3
<1>6. EndTyped'
  BY <1>1, <1>4, <1>5, LoopUnchanged DEF PeerInv, EndTyped, WrType
<1>7. StreamEnd'
  BY <1>1, <1>4, <1>5 DEF PeerInv, StreamEnd
<1>8. OnceLife'
  <2>1. (Departed => Departed') /\ out.fail \in Nat
    BY <1>2, <1>3 DEF PeerInv, EndTyped, OutType
  <2> QED BY <1>1, <2>1 DEF PeerInv, OnceLife
<1> QED BY <1>3, <1>6, <1>7, <1>8 DEF PeerInv

\* Enough bytes are all bytes: isCompleted compares lengths, every piece but the last is
\* full, and so none is missing.
LEMMA IsCompletedIsAll ==
    ASSUME PeerInv, isCompleted
    PROVE  Pieces \subseteq got.ready
<1>1. got.completed \in Nat /\ meta.length \in {None, size}
  BY DEF PeerInv, WorkTyped, GotType, Counted
<1>2. got.completed = size
  BY <1>1 DEF isCompleted, None
<1> QED BY <1>2, CompletedIsAll DEF PeerInv

\* Who finds the task complete goes on to finish.
LEMMA CheckOK ==
    ASSUME PeerInv, NEW p \in Procs, Check(p)
    PROVE  PeerInv'
<1>1. /\ pc[p] = "check" /\ UNCHANGED <<fixed, back, loop, meta, got, reqs, failed, store, rx, ends>>
      /\ hand' = [hand EXCEPT ![p] = None]
  BY DEF Check
<1>2. p = Pull => ~Departed /\ (back = "source" => \A i \in Pieces : i < loop.src => i \in got.ready)
  BY <1>1 DEF PeerInv, FromSource, Departed
<1>3. CASE Goto(p, BackOf(p))
  BY <1>1, <1>2, <1>3, DropOK, LoopUnchanged DEF Drop
<1>4. CASE isCompleted /\ Goto(p, "finish")
  <2>1. /\ WhereTyped' /\ WorkTyped' /\ Controls' /\ Hands' /\ FromSource' /\ Counted'
        /\ Finished' /\ (p # Pull => (Departed <=> Departed'))
    <3>1. "finish" \in Labels \ {"single", "tell"} /\ "finish" \notin InLoop
      BY DEF Labels, InLoop
    <3>2. /\ [hand EXCEPT ![p] = None] \in [Procs -> Nums \cup {None}]
          /\ \A q \in Procs : q # p => [hand EXCEPT ![p] = None][q] = hand[q]
          /\ store \in StoreType
      BY BackIs
    <3>3. reqs' \in Seq(Pieces) /\ Len(reqs') <= BufferSize /\ failed' \in Seq(Pieces)
          /\ Len(failed') <= BufferSize /\ out' = out
      BY <1>1, LoopUnchanged DEF ends
    <3>4. Pieces \subseteq got.ready
      BY <1>4, IsCompletedIsAll
    <3> QED BY <1>1, <1>2, <1>4, <3>1, <3>2, <3>3, <3>4, MovesOK
  <2>2. EndTyped' /\ OnceLife' /\ StreamEnd'
    <3>1. Departed => Departed'
      BY <1>2, <2>1
    <3>2. rx' \in RxType
      BY <1>1, LoopUnchanged
    <3> QED BY <1>1, <3>1, <3>2, EndFrame
  <2> QED BY <2>1, <2>2 DEF PeerInv
<1> QED BY <1>3, <1>4 DEF Check

\* finish validates the digest of a file before it enters the Once.
LEMMA FinishOK ==
    ASSUME PeerInv, NEW p \in Procs, Finish(p)
    PROVE  PeerInv'
<1> DEFINE bad == kind = "file" /\ CalculateDigest /\ ~DigestValid
           l == IF bad THEN "clean" ELSE "commit"
<1>1. /\ pc[p] = "finish" /\ UNCHANGED <<fixed, hand, back, loop, meta, got, reqs, failed, rx, ends>>
      /\ Goto(p, l) /\ store' = [store EXCEPT !.invalid = @ \/ bad]
  BY DEF Finish
<1>2. p = Pull => ~Departed /\ (back = "source" => \A i \in Pieces : i < loop.src => i \in got.ready)
  BY <1>1 DEF PeerInv, FromSource, Departed
<1>3. Pieces \subseteq got.ready /\ (l = "commit" => Validated)
  BY <1>1 DEF PeerInv, Finished, Validated
<1>4. l \in {"clean", "commit"}
  OBVIOUS
<1> HIDE DEF l
<1>5. store' \in StoreType /\ store'.pieces = store.pieces /\ store'.total = store.total
      /\ store'.sign = store.sign
  <2>1. (store.invalid \/ bad) \in BOOLEAN
    BY Zenon
  <2>2. store \in StoreType
    BY DEF PeerInv, WorkTyped
  <2> HIDE DEF bad
  <2> QED BY <1>1, <2>1, <2>2 DEF StoreType
<1>6. /\ WhereTyped' /\ WorkTyped' /\ Controls' /\ Hands' /\ FromSource' /\ Counted'
      /\ Finished' /\ (p # Pull => (Departed <=> Departed'))
  <2>1. l \in Labels \ {"single", "tell"} /\ l \notin InLoop \cup {"open", "source", "end", "fetch", "mark"}
    BY <1>4 DEF Labels, InLoop
  <2>2. hand' \in [Procs -> Nums \cup {None}] /\ \A q \in Procs : q # p => hand'[q] = hand[q]
    BY <1>1 DEF PeerInv, WhereTyped
  <2>3. reqs' \in Seq(Pieces) /\ Len(reqs') <= BufferSize /\ failed' \in Seq(Pieces)
        /\ Len(failed') <= BufferSize /\ out' = out
    BY <1>1, LoopUnchanged DEF ends
  <2> QED BY <1>1, <1>2, <1>3, <1>5, <2>1, <2>2, <2>3, MovesOK
<1>7. EndTyped' /\ OnceLife' /\ StreamEnd'
  <2>1. Departed => Departed'
    BY <1>2, <1>6
  <2>2. rx' \in RxType
    BY <1>1, LoopUnchanged
  <2> QED BY <1>1, <2>1, <2>2, EndFrame
<1> QED BY <1>6, <1>7 DEF PeerInv

\* A goroutine leaves the end of the task.
LEMMA ReturnOK ==
    ASSUME PeerInv, NEW p \in Procs, Return(p)
    PROVE  PeerInv'
<1> DEFINE l == BackOf(p)
<1>1. /\ pc[p] \in {"commit", "clean"} /\ Goto(p, l)
      /\ UNCHANGED <<fixed, hand, loop, meta, got, reqs, failed, store, rx, out, cons, wr>>
      /\ back' = IF p = Pull THEN "end" ELSE back
      /\ sig' = [sig EXCEPT !.ctx = @ \/ (kind = "file" /\ pc[p] = "clean")]
  BY DEF Return
<1>2. /\ l \in Labels \ {"single", "fetch", "mark", "tell", "finish", "commit"}
      /\ p = Pull => l = back /\ back \in {"end", "dispatch", "source", "clean"}
      /\ back = "dispatch" => loop.src = 0 /\ ~loop.over
      /\ p # Pull => l = "take"
      /\ hand \in [Procs -> Nums \cup {None}] /\ store \in StoreType
  BY BackIs
<1> HIDE DEF l
<1>3. p = Pull /\ back = "source" => \A i \in Pieces : i < loop.src => i \in got.ready
  BY <1>1 DEF PeerInv, FromSource
<1>4. /\ WhereTyped' /\ WorkTyped' /\ Controls' /\ Hands' /\ FromSource' /\ Counted'
      /\ Finished' /\ (p # Pull => (Departed <=> Departed'))
  <2>1. l \in Labels \ {"single", "tell"} /\ l \notin {"fetch", "mark", "finish", "commit"}
    BY <1>2
  <2>2. p = Pull /\ l \in InLoop \cup {"open"} => loop.src = 0 /\ ~loop.over
    BY <1>2 DEF InLoop
  <2>3. p = Pull /\ (l = "source" \/ back = "source") =>
               \A i \in Pieces : i < loop.src => i \in got.ready
    BY <1>2, <1>3
  <2>4. reqs' \in Seq(Pieces) /\ Len(reqs') <= BufferSize /\ failed' \in Seq(Pieces)
        /\ Len(failed') <= BufferSize
    BY <1>1, LoopUnchanged
  <2> QED BY <1>1, <1>2, <2>1, <2>2, <2>3, <2>4, MovesOK
<1>5. Departed => Departed'
  <2>1. CASE p = Pull
    <3>1. pc'[Pull] = l
      <4>1. WhereTyped /\ l \in Labels
        BY <1>2 DEF PeerInv
      <4> QED BY <1>1, <2>1, <4>1, GotoIs
    <3> QED BY <1>1, <1>2, <2>1, <3>1 DEF Departed
  <2> QED BY <1>4, <2>1
<1>6. kind' = kind /\ size' = size /\ NPieces' = NPieces /\ Nums' = Nums
  BY <1>1, FixedNums
<1>7. sig' \in SigType /\ sig'.done = sig.done /\ sig'.stream = sig.stream /\ sig'.stop = sig.stop
  <2> DEFINE c == sig.ctx \/ (kind = "file" /\ pc[p] = "clean")
  <2>1. c \in BOOLEAN
    BY Zenon
  <2>2. sig \in SigType
    BY DEF PeerInv, EndTyped
  <2> HIDE DEF c
  <2>3. sig' = [sig EXCEPT !.ctx = c]
    BY <1>1 DEF c
  <2> QED BY <2>1, <2>2, <2>3 DEF SigType
<1>8. EndTyped'
  BY <1>1, <1>6, <1>7, LoopUnchanged DEF PeerInv, EndTyped, WrType
<1>9. StreamEnd'
  BY <1>1, <1>6, <1>7 DEF PeerInv, StreamEnd
<1>10. OnceLife'
  <2>1. out.fail \in Nat
    BY DEF PeerInv, EndTyped, OutType
  <2> QED BY <1>1, <1>5, <1>7, <2>1 DEF PeerInv, OnceLife
<1> QED BY <1>4, <1>8, <1>9, <1>10 DEF PeerInv

\* A worker takes a request, fetches its piece, or fails.
LEMMA WorkerOK ==
    ASSUME PeerInv, NEW w \in Workers, Take(w) \/ Fetch(w) \/ FetchFails(w) \/ LimiterFails(w)
    PROVE  PeerInv'
<1>0. /\ w \in Procs /\ w # Pull /\ BackOf(w) = "take" /\ "take" \in Labels /\ "end" \in Labels
      /\ "fetch" \in Labels /\ "mark" \in Labels /\ Len(failed) \in Nat /\ Len(reqs) \in Nat
      /\ hand \in [Procs -> Nums \cup {None}] /\ store \in StoreType /\ WhereTyped
      /\ BufferSize \in Nat
  BY PullIsProc, BufferNat, LoopUnchanged DEF BackOf, Labels, PeerInv, WhereTyped, WorkTyped
<1>1. /\ reqs \in Seq(Pieces) /\ Len(reqs) <= BufferSize
      /\ failed \in Seq(Pieces) /\ Len(failed) <= BufferSize
      /\ rx \in RxType /\ Pieces \subseteq Nums
  BY LoopUnchanged
<1>2. /\ pc[w] \in {"take", "fetch"} /\ UNCHANGED <<fixed, back, loop, meta, got, rx, out, cons, wr>>
      /\ pc[w] = "fetch" => hand[w] \in Pieces
  BY DEF Take, Fetch, FetchFails, LimiterFails, ends, PeerInv, Hands
<1>3. failed' \in Seq(Pieces) /\ Len(failed') <= BufferSize
  <2>1. ASSUME pc[w] = "fetch", PushFailed(hand[w]) PROVE failed' \in Seq(Pieces) /\ Len(failed') <= BufferSize
    <3>1. CASE ChannelFree(failed) /\ failed' = Append(failed, hand[w])
      BY <1>1, <1>2, <2>1, <3>1, AppendIs
    <3> QED BY <1>1, <2>1, <3>1 DEF PushFailed
  <2> QED BY <1>1, <2>1 DEF Take, Fetch, FetchFails, LimiterFails
<1>4. \E l \in {"take", "fetch", "mark", "end"} :
        /\ Goto(w, l)
        /\ hand' \in [Procs -> Nums \cup {None}] /\ \A q \in Procs : q # w => hand'[q] = hand[q]
        /\ l \in {"fetch", "mark"} => hand'[w] \in Pieces
        /\ reqs' \in Seq(Pieces) /\ Len(reqs') <= BufferSize
        /\ store' \in StoreType /\ store.pieces \subseteq store'.pieces
        /\ store'.total = store.total /\ store'.sign = store.sign
        /\ l = "mark" => hand'[w] \in store'.pieces
  <2>1. CASE Take(w)
    <3>1. CASE /\ reqs # <<>> /\ reqs' = Tail(reqs)
      <4>1. Head(reqs) \in Pieces /\ reqs' \in Seq(Pieces) /\ Len(reqs') = Len(reqs) - 1
        BY <1>1, <3>1, TailIs
      <4>2. Len(reqs') <= BufferSize
        BY <1>0, <1>1, <4>1
      <4>3. CASE UNCHANGED <<pc, hand>>
        <5>1. pc[w] = "take" /\ store' = store
          BY <2>1 DEF Take
        <5>2. Goto(w, "take")
          BY <1>0, <4>3, <5>1 DEF Goto, WhereTyped
        <5> QED BY <1>0, <4>1, <4>2, <4>3, <5>1, <5>2
      <4>4. CASE hand' = [hand EXCEPT ![w] = Head(reqs)] /\ Goto(w, "fetch")
        <5>1. store' = store /\ Head(reqs) \in Nums
          BY <1>1, <2>1, <4>1 DEF Take
        <5> QED BY <1>0, <4>1, <4>2, <4>4, <5>1
      <4> QED BY <2>1, <3>1, <4>3, <4>4 DEF Take
    <3>2. CASE Goto(w, "end") /\ UNCHANGED <<reqs, hand>>
      BY <1>0, <1>1, <2>1, <3>2 DEF Take
    <3> QED BY <2>1, <3>1, <3>2 DEF Take
  <2>2. CASE Fetch(w)
    <3>1. /\ hand' = hand /\ reqs' = reqs /\ Goto(w, "mark") /\ pc[w] = "fetch"
          /\ store' = [store EXCEPT !.pieces = store.pieces \cup {hand[w]}]
      BY <2>2 DEF Fetch, WritePiece
    <3>2. store.pieces \cup {hand[w]} \in SUBSET Nums /\ hand[w] \in Pieces
      BY <1>0, <1>1, <1>2, <3>1 DEF StoreType
    <3>3. store' \in StoreType /\ store'.pieces = store.pieces \cup {hand[w]}
          /\ store'.total = store.total /\ store'.sign = store.sign
      BY <1>0, <3>1, <3>2 DEF StoreType
    <3> QED BY <1>0, <1>1, <3>1, <3>2, <3>3
  <2>3. CASE FetchFails(w)
    BY <1>0, <1>1, <2>3 DEF FetchFails, Drop
  <2>4. CASE LimiterFails(w)
    BY <1>0, <1>1, <2>4 DEF LimiterFails
  <2> QED BY <2>1, <2>2, <2>3, <2>4
<1>5. /\ WhereTyped' /\ WorkTyped' /\ Controls' /\ Hands' /\ FromSource' /\ Counted'
      /\ Finished' /\ (Departed <=> Departed')
  <2>1. PICK l \in {"take", "fetch", "mark", "end"} :
        /\ Goto(w, l)
        /\ hand' \in [Procs -> Nums \cup {None}] /\ \A q \in Procs : q # w => hand'[q] = hand[q]
        /\ l \in {"fetch", "mark"} => hand'[w] \in Pieces
        /\ reqs' \in Seq(Pieces) /\ Len(reqs') <= BufferSize
        /\ store' \in StoreType /\ store.pieces \subseteq store'.pieces
        /\ store'.total = store.total /\ store'.sign = store.sign
        /\ l = "mark" => hand'[w] \in store'.pieces
    BY <1>4
  <2>2. l \in Labels \ {"single", "tell"} /\ l \notin {"finish", "commit"}
    BY <2>1 DEF Labels
  <2> QED BY <1>0, <1>2, <1>3, <2>1, <2>2, MovesOK
<1>6. kind' = kind /\ size' = size /\ NPieces' = NPieces /\ Nums' = Nums
  BY <1>2, FixedNums
<1>7. sig' = sig \/ sig' = [sig EXCEPT !.ctx = TRUE]
  BY DEF Take, Fetch, FetchFails, LimiterFails, ends
<1>8. sig' \in SigType /\ sig'.done = sig.done /\ sig'.stream = sig.stream /\ sig'.stop = sig.stop
  BY <1>7 DEF PeerInv, EndTyped, SigType
<1>9. EndTyped'
  BY <1>1, <1>2, <1>6, <1>8 DEF PeerInv, EndTyped, WrType
<1>10. StreamEnd'
  BY <1>2, <1>6, <1>8 DEF PeerInv, StreamEnd
<1>11. OnceLife'
  BY <1>2, <1>5, <1>8 DEF PeerInv, OnceLife
<1> QED BY <1>5, <1>9, <1>10, <1>11 DEF PeerInv

-----------------------------------------------------------------------------
(* What is learnt of the task: from its only piece, from parents, from the *)
(* source.                                                                 *)

\* The store comes to know the number of pieces, and their signature.
LEMMA LearnsTotal ==
    ASSUME PeerInv, UNCHANGED fixed, store.pieces \subseteq store'.pieces,
           store'.total \in {store.total, NPieces}, store.sign => store'.sign,
           Validated
    PROVE  Validated'
<1>1. kind' = kind /\ NPieces' = NPieces
  BY FixedNums
<1>2. store.total \in {None, NPieces} /\ ~(None > 0)
  BY DEF PeerInv, Counted, None
<1> QED BY <1>1, <1>2 DEF Validated, DigestValid

\* The piece of a task of size SMALL.
LEMMA SingleOK ==
    ASSUME PeerInv, FetchSingle \/ SingleFails
    PROVE  PeerInv'
<1>0. /\ WhereTyped /\ WorkTyped /\ EndTyped /\ Pull \in Procs /\ NPieces = 1 /\ failed = <<>>
      /\ back = "end" /\ pc[Pull] = "single"
      /\ \A w \in Workers : w \in Procs /\ w # Pull
      /\ loop.src = 0 /\ ~loop.over
  BY PullIsProc DEF PeerInv, FetchSingle, SingleFails, Controls, FromSource
<1>1. kind' = kind /\ size' = size /\ NPieces' = NPieces /\ Nums' = Nums /\ Pieces' = Pieces
      /\ UNCHANGED <<back, got, reqs, rx, sig, out, cons, wr>>
      /\ meta' = [length |-> size, total |-> 1]
  BY FixedNums DEF FetchSingle, SingleFails, ends
<1>2. Pieces = {0} /\ Nums = 0..1 /\ size \in Nat /\ 0 \in Nums /\ 1 \in Nums /\ {0} \subseteq Nums
  BY <1>0, PieceFacts DEF EndTyped, Pieces, Nums
<1>3. PICK l \in {"mark", "first"} :
        /\ Goto(Pull, l)
        /\ l = "mark" => /\ hand' = [hand EXCEPT ![Pull] = 0] /\ failed' = failed /\ loop' = loop
                         /\ store' = [store EXCEPT !.pieces = @ \cup {0}, !.total = 1, !.sign = TRUE]
        /\ l = "first" => /\ hand' = hand /\ loop' = [loop EXCEPT !.pulling = TRUE]
                          /\ failed' = Append(failed, 0) \/ failed' = failed
                          /\ store' = [store EXCEPT !.total = 1, !.sign = TRUE]
  BY DEF FetchSingle, SingleFails, WritePiece
<1>4. /\ pc' \in [Procs -> Labels] /\ pc'[Pull] = l
      /\ \A q \in Procs : q # Pull => pc'[q] = pc[q]
  BY <1>0, <1>3, GotoIs DEF Labels
<1>5. /\ store' \in StoreType /\ store'.total = 1 /\ store'.sign = TRUE
      /\ store.pieces \subseteq store'.pieces /\ (l = "mark" => 0 \in store'.pieces)
  <2>1. store \in StoreType /\ store.pieces \cup {0} \in SUBSET Nums
    BY <1>0, <1>2 DEF WorkTyped, StoreType
  <2> QED BY <1>2, <1>3, <2>1 DEF StoreType
<1>6. /\ loop' \in LoopType /\ loop'.src = 0 /\ ~loop'.over /\ loop'.packet = loop.packet
  BY <1>0, <1>3 DEF WhereTyped, LoopType
<1>7. failed' \in Seq(Pieces) /\ Len(failed') <= BufferSize
  <2>1. Append(<<>>, 0) = <<0>> /\ <<0>> \in Seq(Pieces) /\ Len(<<0>>) = 1
    BY <1>2
  <2>2. <<>> \in Seq(Pieces) /\ Len(<<>>) = 0 /\ BufferSize \in Nat \ {0}
    BY BufferNat
  <2>3. failed' = <<0>> \/ failed' = <<>>
    BY <1>0, <1>3, <2>1, Zenon
  <2>4. failed' \in Seq(Pieces) /\ Len(failed') \in {0, 1}
    BY <2>1, <2>2, <2>3, Zenon
  <2> QED BY <2>2, <2>4
<1>8. /\ hand' \in [Procs -> Nums \cup {None}] /\ \A q \in Procs : q # Pull => hand'[q] = hand[q]
      /\ l = "mark" => hand'[Pull] = 0
  BY <1>0, <1>2, <1>3 DEF WhereTyped
<1>9. meta' \in MetaType /\ meta'.length = size /\ meta'.total = 1
  BY <1>1, <1>2 DEF MetaType
<1>10. WhereTyped'
  BY <1>0, <1>1, <1>4, <1>6, <1>8 DEF WhereTyped, LoopType
<1>11. WorkTyped'
  <2>1. failed' \in Seq(Nums)
    BY <1>2, <1>7
  <2> QED BY <1>0, <1>1, <1>5, <1>7, <1>9, <2>1 DEF WorkTyped, MetaType, GotType, StoreType
<1>12. Controls'
  BY <1>0, <1>1, <1>4 DEF Controls
<1>13. Hands'
  BY <1>0, <1>1, <1>2, <1>4, <1>5, <1>6, <1>7, <1>8 DEF PeerInv, Hands
<1>14. FromSource'
  BY <1>0, <1>1, <1>2, <1>4, <1>6, <1>8 DEF FromSource
<1>15. Counted'
  BY <1>0, <1>1, <1>5, <1>9 DEF PeerInv, Counted
<1>16. Validated => Validated'
  BY <1>0, <1>5, LearnsTotal DEF FetchSingle, SingleFails
<1>17. Finished'
  BY <1>0, <1>1, <1>4, <1>16 DEF PeerInv, Finished
<1>18. EndTyped' /\ OnceLife' /\ StreamEnd'
  <2>1. ~Departed /\ rx' \in RxType
    BY <1>0, <1>1, LoopUnchanged DEF Departed
  <2> QED BY <2>1, EndFrame DEF FetchSingle, SingleFails
<1> QED BY <1>10, <1>11, <1>12, <1>13, <1>14, <1>15, <1>17, <1>18 DEF PeerInv

\* A parent answers with pieces of the content.
LEMMA GetPiecesOK ==
    ASSUME PeerInv, GetPieces
    PROVE  PeerInv'
<1>0. /\ WhereTyped /\ WorkTyped /\ EndTyped /\ Pull \in Procs /\ pc[Pull] = "get"
      /\ \A w \in Workers : w \in Procs /\ w # Pull
      /\ loop.src = 0 /\ ~loop.over
  BY PullIsProc DEF PeerInv, GetPieces, FromSource, InLoop
<1>1. kind' = kind /\ size' = size /\ NPieces' = NPieces /\ Nums' = Nums /\ Pieces' = Pieces
      /\ UNCHANGED <<hand, got, reqs, failed, rx, sig, out, cons, wr>>
  BY FixedNums DEF GetPieces, ends
<1>2. /\ size \in Nat /\ NPieces \in Nat \ {0} /\ NPieces \in Nums /\ Pieces \subseteq Nums
      /\ \A i \in Pieces : ~(i < 0)
  BY <1>0, PieceFacts DEF EndTyped, Pieces, Nums
<1>3. PICK S \in SUBSET Pieces, known \in BOOLEAN, signed \in BOOLEAN :
          LET length == IF known THEN size ELSE IF loop.inited THEN meta.length ELSE None
          IN  /\ meta' = [length |-> length, total |-> IF known THEN NPieces ELSE meta.total]
              /\ store' = IF known THEN [store EXCEPT !.total = NPieces, !.sign = @ \/ signed] ELSE store
              /\ loop' = [loop EXCEPT !.inited = TRUE, !.packet = S]
              /\ pc' = [p \in Procs |->
                          IF p = Pull THEN IF known /\ got.completed = size THEN "finish" ELSE "dispatch"
                          ELSE IF loop.inited THEN pc[p] ELSE "take"]
              /\ back' = "dispatch"
  BY DEF GetPieces
<1>4. /\ pc' \in [Procs -> Labels] /\ pc'[Pull] \in {"finish", "dispatch"}
      /\ pc'[Pull] = "finish" => got.completed = size
      /\ \A q \in Procs : q # Pull => pc'[q] = pc[q] \/ pc'[q] = "take"
  BY <1>0, <1>3 DEF WhereTyped, Labels
<1>5. /\ store' \in StoreType /\ store'.total \in {store.total, NPieces} /\ (store.sign => store'.sign)
      /\ store'.pieces = store.pieces
  <2>1. store \in StoreType /\ (store.sign \/ signed) \in BOOLEAN
    BY <1>0 DEF WorkTyped, StoreType
  <2>2. CASE store' = store
    BY <2>1, <2>2
  <2>3. CASE store' = [store EXCEPT !.total = NPieces, !.sign = @ \/ signed]
    <3> DEFINE b == store.sign \/ signed
    <3>1. b \in BOOLEAN /\ (store.sign => b)
      BY <2>1
    <3> HIDE DEF b
    <3>2. store' = [store EXCEPT !.total = NPieces, !.sign = b]
      BY <2>3 DEF b
    <3> QED BY <1>2, <2>1, <3>1, <3>2 DEF StoreType
  <2> QED BY <1>3, <2>2, <2>3
<1>6. /\ loop' \in LoopType /\ loop'.src = 0 /\ ~loop'.over /\ loop'.packet = S
  <2>1. S \in SUBSET Nums
    BY <1>2
  <2> QED BY <1>0, <1>3, <2>1 DEF WhereTyped, LoopType
<1>7. meta' \in MetaType /\ meta'.length \in {None, size} /\ meta'.total \in {None, NPieces}
  <2>1. meta \in MetaType /\ meta.length \in {None, size} /\ meta.total \in {None, NPieces}
    BY <1>0 DEF WorkTyped, PeerInv, Counted
  <2> QED BY <1>2, <1>3, <2>1 DEF MetaType
<1>8. WhereTyped'
  BY <1>0, <1>1, <1>3, <1>4, <1>6 DEF WhereTyped, LoopType, Labels
<1>9. WorkTyped'
  BY <1>0, <1>1, <1>5, <1>7 DEF WorkTyped, MetaType, GotType, StoreType
<1>10. Controls'
  BY <1>3, <1>4 DEF Controls
<1>11. Hands'
  BY <1>0, <1>1, <1>4, <1>5, <1>6 DEF PeerInv, Hands
<1>12. FromSource'
  BY <1>0, <1>1, <1>2, <1>3, <1>4, <1>6 DEF FromSource
<1>13. Counted'
  BY <1>1, <1>5, <1>7 DEF PeerInv, Counted
<1>14. Validated => Validated'
  BY <1>5, LearnsTotal DEF GetPieces
<1>15. pc'[Pull] = "finish" => Pieces \subseteq got.ready
  BY <1>4, CompletedIsAll DEF PeerInv
<1>16. Finished'
  BY <1>0, <1>1, <1>4, <1>14, <1>15 DEF PeerInv, Finished
<1>17. EndTyped' /\ OnceLife' /\ StreamEnd'
  <2>1. ~Departed /\ rx' \in RxType
    BY <1>0, <1>1, LoopUnchanged DEF Departed
  <2> QED BY <2>1, EndFrame DEF GetPieces
<1> QED BY <1>8, <1>9, <1>10, <1>11, <1>12, <1>13, <1>16, <1>17 DEF PeerInv

\* The source delivers the next piece.
LEMMA SourcePieceOK ==
    ASSUME PeerInv, SourcePiece
    PROVE  PeerInv'
<1> DEFINE n == loop.src
           last == LastOfSource(n)
           pieces == IF BytesOf(n) = 0 THEN store.pieces ELSE WritePiece(n)
<1>0. /\ WhereTyped /\ WorkTyped /\ EndTyped /\ Pull \in Procs /\ pc[Pull] = "source" /\ ~loop.over
      /\ \A w \in Workers : w \in Procs /\ w # Pull
  BY PullIsProc DEF PeerInv, SourcePiece
<1>1. kind' = kind /\ size' = size /\ NPieces' = NPieces /\ Nums' = Nums /\ Pieces' = Pieces
      /\ UNCHANGED <<got, reqs, failed, rx, sig, out, cons, wr>>
  BY FixedNums DEF SourcePiece, ends
<1>2. /\ store' = IF last THEN [store EXCEPT !.pieces = pieces, !.total = NPieces, !.sign = TRUE]
                       ELSE [store EXCEPT !.pieces = pieces]
      /\ meta' = [meta EXCEPT !.total = IF last /\ ~loop.known THEN NPieces ELSE @]
      /\ loop' = [loop EXCEPT !.src = n + 1, !.over = last]
      /\ hand' = [hand EXCEPT ![Pull] = n] /\ back' = "source" /\ Goto(Pull, "mark")
  BY DEF SourcePiece
<1>3. /\ NPieces \in Nat \ {0} /\ n \in 0..NPieces /\ (loop.known => n < NPieces)
      /\ NPieces \in Nums /\ Nums = 0..NPieces /\ Pieces = 0..(NPieces - 1)
  <2>1. NPieces \in Nat \ {0}
    BY <1>0, PieceFacts DEF EndTyped
  <2>2. n \in Nat /\ n <= NPieces /\ (loop.known => n < NPieces)
    BY <1>0 DEF PeerInv, FromSource, WhereTyped, LoopType
  <2> QED BY <2>1, <2>2 DEF Nums, Pieces
<1>4. /\ BytesOf(n) = 0 => n = NPieces
      /\ last => n + 1 >= NPieces
      /\ ~last => n + 1 <= NPieces /\ (loop.known => n + 1 < NPieces)
      /\ last \in BOOLEAN
  <2>1. /\ BytesOf(n) = IF n = NPieces THEN 0 ELSE IF n = NPieces - 1
                        THEN PieceSize - (NPieces * PieceSize - size) ELSE PieceSize
        /\ PieceSize \in Nat \ {0} /\ NPieces * PieceSize - size \in 0..(PieceSize - 1)
    BY <1>0, <1>3, PieceFacts DEF EndTyped
  <2> DEFINE d == NPieces * PieceSize - size
  <2>2. /\ BytesOf(n) = IF n = NPieces THEN 0 ELSE IF n = NPieces - 1 THEN PieceSize - d ELSE PieceSize
        /\ d \in 0..(PieceSize - 1)
    BY <2>1
  <2> HIDE DEF d, n
  <2>3. BytesOf(n) = 0 => n = NPieces
    BY <1>3, <2>1, <2>2
  <2>4. last <=> IF loop.known THEN n = NPieces - 1 ELSE BytesOf(n) < PieceSize
    BY DEF LastOfSource
  <2>5. /\ last => n + 1 >= NPieces
        /\ ~last => n + 1 <= NPieces /\ (loop.known => n + 1 < NPieces)
    BY <1>3, <2>1, <2>2, <2>4
  <2>6. last \in BOOLEAN
    <3>1. CASE loop.known
      BY <3>1, Zenon DEF LastOfSource
    <3>2. CASE ~loop.known
      <4>1. (BytesOf(n) < PieceSize) \in BOOLEAN
        BY SMT
      <4> QED BY <3>2, <4>1, Zenon DEF LastOfSource
    <3> QED BY <3>1, <3>2
  <2> QED BY <2>3, <2>5, <2>6 DEF n
<1>5. pieces \in SUBSET Nums /\ store.pieces \subseteq pieces /\ (n \in pieces \/ n = NPieces)
  BY <1>0, <1>3, <1>4 DEF WorkTyped, StoreType, WritePiece
<1> HIDE DEF last, pieces
<1>6. /\ store' \in StoreType /\ store'.pieces = pieces /\ store'.total \in {store.total, NPieces}
      /\ store.sign => store'.sign
  <2>1. store \in StoreType
    BY <1>0 DEF WorkTyped
  <2> QED BY <1>2, <1>3, <1>5, <2>1 DEF StoreType
<1>7. meta' \in MetaType /\ meta'.length = meta.length /\ meta'.total \in {meta.total, NPieces}
  BY <1>0, <1>2, <1>3 DEF WorkTyped, MetaType
<1>8. /\ loop' \in LoopType /\ loop'.src = n + 1 /\ loop'.over = last /\ loop'.known = loop.known
      /\ loop'.packet = loop.packet
  <2>1. n + 1 \in Nat /\ last \in BOOLEAN
    BY <1>3, <1>4
  <2> HIDE DEF n
  <2> QED BY <1>0, <1>2, <2>1 DEF WhereTyped, LoopType
<1>9. /\ hand' \in [Procs -> Nums \cup {None}] /\ hand'[Pull] = n
      /\ \A q \in Procs : q # Pull => hand'[q] = hand[q]
  BY <1>0, <1>2, <1>3 DEF WhereTyped
<1>10. /\ pc' \in [Procs -> Labels] /\ pc'[Pull] = "mark"
       /\ \A q \in Procs : q # Pull => pc'[q] = pc[q]
  BY <1>0, <1>2, GotoIs DEF Labels
<1>11. WhereTyped'
  BY <1>0, <1>1, <1>2, <1>8, <1>9, <1>10 DEF WhereTyped, LoopType, Labels
<1>12. WorkTyped'
  BY <1>0, <1>1, <1>6, <1>7 DEF WorkTyped, MetaType, GotType, StoreType
<1>13. Controls'
  BY <1>2, <1>10 DEF Controls
<1>14. Hands'
  <2>1. n \in Nums /\ (n \in store'.pieces \/ n = NPieces)
    BY <1>3, <1>5, <1>6
  <2> HIDE DEF n
  <2> QED BY <1>0, <1>1, <1>5, <1>6, <1>8, <1>9, <1>10, <2>1 DEF PeerInv, Hands
<1>15. FromSource'
  <2>1. \A i \in Pieces : i < n => i \in got.ready
    BY <1>0 DEF PeerInv, FromSource
  <2>3. n + 1 <= NPieces + 1
    BY <1>3
  <2> HIDE DEF n
  <2>4. loop'.over <=> last
    BY <1>8, Zenon
  <2>5. loop'.src = n + 1 /\ loop'.known = loop.known
    BY <1>8
  <2>6. /\ loop'.src <= NPieces + 1
        /\ ~loop'.over => loop'.src <= NPieces /\ (loop'.known => loop'.src < NPieces)
        /\ loop'.over => loop'.src >= NPieces
    BY <1>4, <2>3, <2>4, <2>5
  <2>8. loop'.src - 1 = n
    BY <1>3, <2>5
  <2>7. /\ back' = "source" /\ pc'[Pull] = "mark" /\ hand'[Pull] = loop'.src - 1
        /\ \A i \in Pieces : i < loop'.src - 1 => i \in got.ready
    <3>1. back' = "source"
      BY <1>2
    <3> QED BY <1>9, <1>10, <2>1, <2>8, <3>1
  <2> QED BY <1>1, <2>6, <2>7 DEF FromSource, InLoop
<1>16. Counted'
  BY <1>1, <1>5, <1>6, <1>7 DEF PeerInv, Counted
<1>17. Validated => Validated'
  BY <1>5, <1>6, LearnsTotal DEF SourcePiece
<1>18. Finished'
  BY <1>0, <1>1, <1>10, <1>17 DEF PeerInv, Finished
<1>19. EndTyped' /\ OnceLife' /\ StreamEnd'
  <2>1. ~Departed /\ rx' \in RxType
    BY <1>0, <1>1, LoopUnchanged DEF Departed
  <2> QED BY <2>1, EndFrame DEF SourcePiece
<1> QED BY <1>11, <1>12, <1>13, <1>14, <1>15, <1>16, <1>18, <1>19 DEF PeerInv

\* The source has delivered everything: the length is known and compared.
LEMMA SourceDoneOK ==
    ASSUME PeerInv, SourceDone
    PROVE  PeerInv'
<1>0. /\ WhereTyped /\ WorkTyped /\ EndTyped /\ Pull \in Procs /\ pc[Pull] = "source" /\ loop.over
      /\ \A w \in Workers : w \in Procs /\ w # Pull
  BY PullIsProc DEF PeerInv, SourceDone
<1>1. kind' = kind /\ size' = size /\ NPieces' = NPieces /\ Nums' = Nums /\ Pieces' = Pieces
      /\ UNCHANGED <<hand, loop, got, reqs, failed, store, rx, sig, out, cons, wr>>
  BY FixedNums DEF SourceDone, ends
<1>2. PICK l \in {"clean", "finish"} : Goto(Pull, l)
  BY DEF SourceDone
<1>3. meta' = [meta EXCEPT !.length = size] /\ back' \in {"clean", "end"}
  BY DEF SourceDone
<1>4. meta' \in MetaType /\ meta'.length = size /\ meta'.total = meta.total
  <2>1. size \in Nat
    BY <1>0, PieceFacts DEF EndTyped
  <2> QED BY <1>0, <1>3, <2>1 DEF WorkTyped, MetaType
<1>5. /\ pc' \in [Procs -> Labels] /\ pc'[Pull] = l
      /\ \A q \in Procs : q # Pull => pc'[q] = pc[q]
  BY <1>0, <1>2, GotoIs DEF Labels
<1>6. Pieces \subseteq got.ready
  <2>1. loop.src >= NPieces /\ (\A i \in Pieces : i < loop.src => i \in got.ready)
    BY <1>0 DEF PeerInv, FromSource
  <2>2. loop.src \in Nat /\ NPieces \in Nat
    BY <1>0, PieceFacts DEF EndTyped, WhereTyped, LoopType
  <2> QED BY <2>1, <2>2 DEF Pieces
<1>7. WhereTyped'
  BY <1>0, <1>1, <1>3, <1>5 DEF WhereTyped, LoopType, Labels
<1>8. WorkTyped'
  BY <1>0, <1>1, <1>4 DEF WorkTyped, MetaType, GotType, StoreType
<1>9. Controls'
  BY <1>3, <1>5 DEF Controls
<1>10. Hands'
  BY <1>0, <1>1, <1>5 DEF PeerInv, Hands
<1>11. FromSource'
  BY <1>0, <1>1, <1>3, <1>5 DEF PeerInv, FromSource, InLoop
<1>12. Counted'
  BY <1>1, <1>4 DEF PeerInv, Counted
<1>13. Finished'
  BY <1>0, <1>1, <1>5, <1>6 DEF PeerInv, Finished, Validated, DigestValid
<1>14. EndTyped' /\ OnceLife' /\ StreamEnd'
  <2>1. ~Departed /\ rx' \in RxType
    BY <1>0, <1>1, LoopUnchanged DEF Departed
  <2> QED BY <2>1, EndFrame DEF SourceDone
<1> QED BY <1>7, <1>8, <1>9, <1>10, <1>11, <1>12, <1>13, <1>14 DEF PeerInv

\* Every answer to the registration satisfies the invariant.
LEMMA PeerInit == Init => PeerInv
<1> SUFFICES ASSUME Init PROVE PeerInv
  OBVIOUS
<1>1. PICK l \in Begin : /\ pc = [p \in Procs |-> IF p = Pull THEN l ELSE "off"]
                         /\ loop = [NoLoop EXCEPT !.pulling = l = "first"]
  BY DEF Init
<1>2. l \in {"first", "open", "single"} /\ (l = "single" => NPieces = 1) /\ l \in Labels
      /\ "off" \in Labels /\ "end" \in Labels
  BY <1>1 DEF Begin, Labels
<1>3. /\ size \in Sizes /\ kind \in {"file", "stream"} /\ NPieces \in Nat \ {0}
      /\ 0 \in Nums /\ {} \in SUBSET Nums /\ 0 \in 0..1 /\ 0 \in 0..2
  BY PieceFacts DEF Init, Nums
<1>4. Pull \in Procs /\ \A w \in Workers : w \in Procs /\ w # Pull
  BY PullIsProc
<1>5. EndTyped
  BY <1>3 DEF Init, EndTyped, RxType, SigType, OutType, WrType
<1>6. loop \in LoopType /\ loop.src = 0 /\ loop.over = FALSE /\ loop.known = FALSE /\ loop.packet = {}
  <2>1. NoLoop \in LoopType /\ (l = "first") \in BOOLEAN
    BY <1>5, NoLoopIs
  <2> QED BY <1>1, <2>1 DEF NoLoop, LoopType
<1>7. WhereTyped
  BY <1>1, <1>2, <1>6 DEF Init, WhereTyped, None
<1>8. WorkTyped
  <2>1. <<>> \in Seq(Nums) /\ Len(<<>>) = 0 /\ BufferSize \in Nat
    BY BufferNat
  <2>2. reqs = <<>> /\ failed = <<>>
    BY DEF Init
  <2>3. meta \in MetaType /\ got \in GotType /\ store \in StoreType
    BY <1>3 DEF Init, MetaType, GotType, StoreType
  <2> QED BY <2>1, <2>2, <2>3 DEF WorkTyped
<1>9. Controls
  BY <1>1, <1>2, <1>4 DEF Init, Controls
<1>10. Hands
  <2>1. <<>> \in Seq(Pieces) /\ reqs = <<>> /\ failed = <<>>
    BY DEF Init
  <2> QED BY <1>1, <1>2, <1>4, <1>6, <2>1 DEF Init, Hands
<1>11. FromSource
  BY <1>1, <1>2, <1>3, <1>4, <1>6 DEF Init, FromSource
<1>12. Counted
  <2>1. got.ready = {} /\ got.completed = 0 /\ Cardinality({}) = 0 /\ PieceSize \in Nat
    BY FS_EmptySet, SizesNat DEF Init
  <2>2. 0 * PieceSize = 0
    BY <2>1
  <2> QED BY <2>1, <2>2 DEF Init, Counted
<1>13. Finished /\ OnceLife /\ StreamEnd
  BY <1>1, <1>2, <1>3, <1>4 DEF Init, Finished, OnceLife, StreamEnd, Departed
<1> QED BY <1>5, <1>7, <1>8, <1>9, <1>10, <1>11, <1>12, <1>13 DEF PeerInv

\* Every step keeps the invariant.
LEMMA PeerStep == PeerInv /\ [Next]_vars => PeerInv'
<1> SUFFICES ASSUME PeerInv, [Next]_vars PROVE PeerInv'
  OBVIOUS
<1>1. ASSUME PullStep PROVE PeerInv'
  BY <1>1, SingleOK, WaitsOK, TopOK, GetPiecesOK, DispatchOK, NextPieceOK, OpenSourceOK,
     SourcePieceOK, SourceDoneOK DEF PullStep
<1>2. ASSUME NEW p \in Procs, ReportStep(p) PROVE PeerInv'
  BY <1>2, MarkOK, TellOK, CheckOK, FinishOK, ClaimOK, ReturnOK DEF ReportStep
<1>3. ASSUME OnceStep \/ ConsumerStep \/ WriterStep PROVE PeerInv'
  BY <1>3, CallbackOK, NotifyOK, OutsideOK, StreamOK DEF OnceStep, ConsumerStep, WriterStep
<1>4. ASSUME Routine PROVE PeerInv'
  BY <1>1, <1>2, <1>3, <1>4, OutsideOK, WorkerOK DEF Routine
<1>5. ASSUME Disturbance PROVE PeerInv'
  BY <1>5, OutsideOK, WorkerOK, OpenSourceOK, SingleOK, WaitsOK, CallbackOK, StreamOK DEF Disturbance
<1>6. ASSUME UNCHANGED vars PROVE PeerInv'
  <2>0. kind' = kind /\ size' = size /\ Nums' = Nums
    BY <1>6, FixedNums DEF vars, fixed
  <2>1. WhereTyped' /\ WorkTyped' /\ EndTyped'
    <3>1. WhereTyped'
      BY <1>6, <2>0 DEF PeerInv, vars, WhereTyped, LoopType
    <3>2. WorkTyped'
      BY <1>6, <2>0 DEF PeerInv, vars, WorkTyped, MetaType, GotType, StoreType
    <3>3. EndTyped'
      BY <1>6, <2>0 DEF PeerInv, vars, EndTyped, WrType
    <3> QED BY <3>1, <3>2, <3>3
  <2>2. Controls' /\ Hands' /\ FromSource'
    BY <1>6 DEF PeerInv, vars, Controls, Hands, FromSource, Nums, NPieces, Pieces
  <2>3. Counted' /\ Finished'
    BY <1>6 DEF PeerInv, vars, Counted, Finished, Validated, DigestValid, NPieces, Pieces
  <2>4. OnceLife' /\ StreamEnd'
    BY <1>6 DEF PeerInv, vars, OnceLife, Departed, StreamEnd, NPieces
  <2> QED BY <2>1, <2>2, <2>3, <2>4 DEF PeerInv
<1> QED BY <1>4, <1>5, <1>6 DEF Next

-----------------------------------------------------------------------------
(* The inductive invariant of a download: pieces are counted once, finish  *)
(* is entered with every piece, the Once decides once.                     *)
THEOREM PeerInvariant == Spec => []PeerInv
<1> QED BY PeerInit, PeerStep, PTL DEF Spec

(* The type invariant, the bounds of the channels included.                *)
THEOREM PeerTypeOK == Spec => []TypeOK
<1>1. PeerInv => TypeOK
  BY DEF PeerInv, WhereTyped, WorkTyped, EndTyped, LoopType, MetaType, GotType, StoreType,
     RxType, SigType, OutType, WrType, TypeOK
<1> QED BY <1>1, PeerInvariant, PTL

(* Success is only reported for a whole content: every piece is ready and  *)
(* on disk, and a file whose digests are calculated was validated.         *)
THEOREM PeerSuccessIsWhole == Spec => []SuccessIsWhole
<1>1. PeerInv => SuccessIsWhole
  <2> SUFFICES ASSUME PeerInv, out.ok = 1 \/ cons = "ok"
               PROVE  /\ Pieces \subseteq got.ready \cap store.pieces
                      /\ kind = "file" /\ CalculateDigest => DigestValid
    BY DEF SuccessIsWhole
  <2>1. out.verdict = "ok"
    BY DEF PeerInv, OnceLife
  <2>2. Pieces \subseteq got.ready /\ Validated /\ got.ready \subseteq store.pieces \cup {NPieces}
    BY <2>1 DEF PeerInv, Finished, Counted
  <2>3. NPieces \notin Pieces
    <3>1. NPieces \in Nat \ {0}
      BY PieceFacts DEF PeerInv, EndTyped
    <3> QED BY <3>1 DEF Pieces
  <2> QED BY <2>2, <2>3 DEF Validated
<1> QED BY <1>1, PeerInvariant, PTL

(* The reader of a stream that finished sees its end after every piece.    *)
THEOREM PeerFinishedStreamIsWhole == Spec => []FinishedStreamIsWhole
<1>1. PeerInv => FinishedStreamIsWhole
  BY DEF PeerInv, StreamEnd, FinishedStreamIsWhole
<1> QED BY <1>1, PeerInvariant, PTL

(* A task that is over was reported, unless it could not be stored.        *)
THEOREM PeerOverIsReported == Spec => []OverIsReported
<1>1. PeerInv => OverIsReported
  <2> SUFFICES ASSUME PeerInv, sig.done
               PROVE  \/ ~out.running /\ out.ok + out.fail > 0
                      \/ out.verdict = "ok" /\ ~out.stored
    BY DEF OverIsReported
  <2>1. out \in OutType
    BY DEF PeerInv, EndTyped
  <2>2. out.once = "over" /\ out.verdict # "none"
    BY DEF PeerInv, OnceLife
  <2>3. /\ out.stored => out.ok = 1 /\ ~out.running
        /\ out.verdict = "fail" => out.fail >= 1 /\ ~out.running
    BY <2>2 DEF PeerInv, OnceLife
  <2>4. out.ok \in 0..1 /\ out.fail \in 0..2 /\ out.verdict \in {"none", "ok", "fail"}
    BY <2>1 DEF OutType
  <2> QED BY <2>2, <2>3, <2>4
<1> QED BY <1>1, PeerInvariant, PTL

(* A file consumer that heard success was told of a stored task, and no    *)
(* clean-up can have run.                                                  *)
THEOREM PeerToldOnce == Spec => []ToldOnce
<1>1. PeerInv => ToldOnce
  BY DEF PeerInv, OnceLife, ToldOnce
<1> QED BY <1>1, PeerInvariant, PTL
=============================================================================
