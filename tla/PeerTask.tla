------------------------------ MODULE PeerTask ------------------------------
(***************************************************************************)
(* client/daemon/peer: one download of the daemon.  The goroutine Pull     *)
(* asks parents for pieces (pullPiecesFromPeers), fetches a small task in  *)
(* one go (pullSinglePiece) or reads the source (backSource); Workers      *)
(* fetch pieces; a receiver listens to the scheduler.  A task ends once,   *)
(* in finish or in cleanUnfinished, both under one sync.Once.  A file task *)
(* tells its consumer through progressCh, a stream task copies the pieces  *)
(* in order into a pipe (writeToPipe).                                     *)
(*                                                                         *)
(* A step of Routine is one the goroutines take by themselves; a step of   *)
(* Disturbance is one where a parent, the source, the storage or the       *)
(* client of the daemon fails or leaves.                                   *)
(***************************************************************************)
EXTENDS Integers, Sequences, FiniteSets

CONSTANTS Workers,               \* the goroutines downloadPieceWorker
          Pull,                  \* the goroutine of the task itself
          Sizes,                 \* the lengths of the content, in bytes
          PieceSize,
          BufferSize,            \* config.DefaultPieceChanSize
          CalculateDigest

ASSUME PullIsNoWorker == Pull \notin Workers
ASSUME SizesNat == Sizes \subseteq Nat \ {0} /\ PieceSize \in Nat \ {0}
ASSUME BufferNat == BufferSize \in Nat \ {0}
ASSUME Switches == CalculateDigest \in BOOLEAN

VARIABLES
    kind,     \* filePeerTask or streamPeerTask
    size,     \* the length of the content, known to the source
    pc, hand, \* per goroutine: label and piece in hand
    back,     \* where Pull goes on after a report, finish or cleanUnfinished
    loop,     \* locals of Pull
    meta,     \* contentLength and totalPiece of the peerTask
    got,      \* readyPieces, completedLength and requestedPieces
    reqs,     \* pieceRequestCh
    failed,   \* failedPieceCh
    store,    \* what the local task store holds of the task
    rx,       \* the channel peerPacketReady
    sig,      \* ctx, done, success, streamDone, progressStopCh
    out,      \* the sync.Once, what it decided, what was reported
    cons,     \* the consumer of progressCh: the Download call
    wr        \* the reader's side of a stream: Start and writeToPipe

vars == <<kind, size, pc, hand, back, loop, meta, got, reqs, failed, store,
          rx, sig, out, cons, wr>>

Procs == Workers \cup {Pull}
NPieces == (size + PieceSize - 1) \div PieceSize
Pieces == 0..(NPieces - 1)
\* Bytes of the content that belong to piece i.
BytesOf(i) == IF (i + 1) * PieceSize <= size THEN PieceSize
              ELSE IF i * PieceSize < size THEN size - i * PieceSize ELSE 0

Labels == {"single", "first", "top", "get", "dispatch", "next", "waitFailed", "avail",
           "open", "source", "off", "take", "fetch", "mark", "tell", "check",
           "finish", "commit", "clean", "end"}

\* Piece numbers: the source may deliver one more piece, an empty one.
Nums == 0..NPieces
None == -1

TypeOK ==
    /\ kind \in {"file", "stream"} /\ size \in Sizes
    /\ pc \in [Procs -> Labels] /\ back \in Labels
    /\ hand \in [Procs -> Nums \cup {None}]
    /\ loop \in [num : Nums, one : BOOLEAN, inited : BOOLEAN, pulling : BOOLEAN,
                 packet : SUBSET Nums, src : Nat, known : BOOLEAN, over : BOOLEAN]
    /\ meta \in [length : Nat \cup {None}, total : Nums \cup {None}]
    /\ got \in [ready : SUBSET Nums, completed : Nat, requested : SUBSET Nums]
    /\ reqs \in Seq(Nums) /\ Len(reqs) <= BufferSize
    /\ failed \in Seq(Nums) /\ Len(failed) <= BufferSize
    /\ store \in [pieces : SUBSET Nums, total : Nums \cup {None}, sign : BOOLEAN,
                  invalid : BOOLEAN]
    /\ rx \in [token : BOOLEAN, closed : BOOLEAN]
    /\ sig \in [ctx : BOOLEAN, done : BOOLEAN, success : BOOLEAN, stream : BOOLEAN,
                stop : BOOLEAN]
    /\ out \in [once : {"free", "body", "notify", "close", "over"},
                verdict : {"none", "ok", "fail"}, stored : BOOLEAN, running : BOOLEAN,
                ok : 0..1, fail : 0..2]
    /\ cons \in {"reading", "ok", "left"}
    /\ wr \in [at : {"start", "write", "select", "drain", "closed"},
               desired : Nat, cache : SUBSET Nums, pipe : {"open", "eof", "error"}]

(* newFilePeerTask and newStreamPeerTask: the answer to the registration   *)
(* decides how Start begins.                                               *)
Begin == {"first", "open"} \cup (IF NPieces = 1 THEN {"single"} ELSE {})

NoLoop == [num |-> 0, one |-> FALSE, inited |-> FALSE, pulling |-> FALSE,
           packet |-> {}, src |-> 0, known |-> FALSE, over |-> FALSE]

Init ==
    /\ kind \in {"file", "stream"} /\ size \in Sizes
    /\ \E l \in Begin :
          /\ pc = [p \in Procs |-> IF p = Pull THEN l ELSE "off"]
          /\ loop = [NoLoop EXCEPT !.pulling = l = "first"]
    /\ rx = [token |-> FALSE, closed |-> FALSE]
    /\ back = "end"
    /\ hand = [p \in Procs |-> None]
    /\ meta = [length |-> None, total |-> None]
    /\ got = [ready |-> {}, completed |-> 0, requested |-> {}]
    /\ reqs = <<>> /\ failed = <<>>
    /\ store = [pieces |-> {}, total |-> None, sign |-> FALSE, invalid |-> FALSE]
    /\ sig = [ctx |-> FALSE, done |-> FALSE, success |-> FALSE, stream |-> FALSE, stop |-> FALSE]
    /\ out = [once |-> "free", verdict |-> "none", stored |-> FALSE, running |-> TRUE,
              ok |-> 0, fail |-> 0]
    /\ cons = (IF kind = "file" THEN "reading" ELSE "left")
    /\ wr = [at |-> "start", desired |-> 0, cache |-> {}, pipe |-> "open"]

Goto(p, l) == pc' = [pc EXCEPT ![p] = l]
BackOf(p) == IF p = Pull THEN back ELSE "take"
\* Leave through the deferred cleanUnfinished.
Quit == Goto(Pull, "clean") /\ back' = "end" /\ loop' = NoLoop

isCompleted == got.completed = meta.length

ChannelFree(c) == Len(c) < BufferSize

\* What ends the selects of Pull and of the workers.
Over_done == sig.done
Over == sig.done \/ sig.ctx

fixed == <<kind, size>>
ends == <<sig, out, cons, wr>>

-----------------------------------------------------------------------------
(* receivePeerPacket.  Its loop ends when the task does; if the stream     *)
(* just ends, no packet comes any more.                                    *)

Receiving == loop.pulling /\ ~rx.closed /\ ~sig.ctx /\ ~sig.done

\* A packet with peers: the token is offered, not waited for.
ReceivePacket ==
    /\ Receiving /\ ~rx.token
    /\ rx' = [rx EXCEPT !.token = TRUE]
    /\ UNCHANGED <<fixed, pc, hand, back, loop, meta, got, reqs, failed, store, ends>>

ReceiveNeedBackSource ==
    /\ Receiving
    /\ rx' = [rx EXCEPT !.closed = TRUE]
    /\ UNCHANGED <<fixed, pc, hand, back, loop, meta, got, reqs, failed, store, ends>>

\* The stream fails, or carries a code of isExitPeerPacketCode.
ReceiveExit ==
    /\ Receiving
    /\ sig' = [sig EXCEPT !.ctx = TRUE]
    /\ UNCHANGED <<fixed, pc, hand, back, loop, meta, got, reqs, failed, store, rx, out, cons, wr>>

-----------------------------------------------------------------------------
(* The storage: WritePiece, UpdateTask, ValidateDigest of local_storage.go. *)

WritePiece(n) == store.pieces \cup {n}

\* The digests of the pieces on disk add up to the signature.
DigestValid == store.sign /\ store.total > 0 /\ 0..(store.total - 1) \subseteq store.pieces

(* RegisterTask, called by callback.Init; the store exists afterwards.     *)
RegisterFails ==
    /\ pc[Pull] = "single"
    /\ Quit
    /\ UNCHANGED <<fixed, hand, meta, got, reqs, failed, store, rx, ends>>

-----------------------------------------------------------------------------
(* ReportPieceResult, for whichever goroutine holds a piece.               *)

AlreadyReported_never(n) == n # n
AlreadyReported(n) == n \in got.ready

Drop(p) == Goto(p, BackOf(p)) /\ hand' = [hand EXCEPT ![p] = None]

Mark(p) ==
    /\ pc[p] = "mark"
    /\ \/ /\ AlreadyReported(hand[p])
          /\ Drop(p)
          /\ UNCHANGED got
       \/ /\ ~AlreadyReported(hand[p])
          \* an empty last piece is counted with the size that was asked for
          /\ got' = [got EXCEPT !.ready = @ \cup {hand[p]},
                                !.completed = @ + (IF BytesOf(hand[p]) = 0 THEN PieceSize
                                                   ELSE BytesOf(hand[p]))]
          /\ Goto(p, "tell") /\ UNCHANGED hand
    /\ UNCHANGED <<fixed, back, loop, meta, reqs, failed, store, rx, ends>>

ConsumerLost_never == FALSE
ConsumerLost == sig.ctx

\* A file task offers progress, to a consumer that still reads.
TellFile(p) ==
    /\ pc[p] = "tell" /\ kind = "file"
    /\ \/ (sig.stop \/ cons = "reading") /\ Goto(p, "check") /\ UNCHANGED hand
       \/ ConsumerLost /\ Drop(p)
    /\ UNCHANGED <<fixed, back, loop, meta, got, reqs, failed, store, rx, ends>>

\* A stream task hands the number to Start or writeToPipe, and to nothing else.
TellStream(p) ==
    /\ pc[p] = "tell" /\ kind = "stream" /\ wr.at \in {"start", "select"}
    /\ wr' = IF hand[p] = wr.desired THEN [wr EXCEPT !.at = "write"]
             ELSE [wr EXCEPT !.at = "select", !.cache = @ \cup {hand[p]}]
    /\ IF sig.ctx THEN Drop(p) ELSE Goto(p, "check") /\ UNCHANGED hand
    /\ UNCHANGED <<fixed, back, loop, meta, got, reqs, failed, store, rx, sig, out, cons>>

Check(p) ==
    /\ pc[p] = "check"
    /\ Goto(p, IF isCompleted THEN "finish" ELSE BackOf(p))
    /\ hand' = [hand EXCEPT ![p] = None]
    /\ UNCHANGED <<fixed, back, loop, meta, got, reqs, failed, store, rx, ends>>

-----------------------------------------------------------------------------
(* finish and cleanUnfinished.                                             *)

\* A file is validated before the Once; a stream when its last piece is out.
Finish(p) ==
    /\ pc[p] = "finish"
    /\ LET bad == kind = "file" /\ CalculateDigest /\ ~DigestValid
       IN  /\ Goto(p, IF bad THEN "clean" ELSE "commit")
           /\ store' = [store EXCEPT !.invalid = @ \/ bad]
    /\ UNCHANGED <<fixed, hand, back, loop, meta, got, reqs, failed, rx, ends>>

\* Slip: a flag that is reset at the end in place of a Once.
FirstComer_again == out.once \in {"free", "over"}

\* once.Do: the first comer's body runs, the others wait for it.
FirstComer == out.once = "free"

Claim(p) ==
    /\ pc[p] \in {"commit", "clean"} /\ FirstComer
    /\ out' = [out EXCEPT !.once = "body",
                          !.verdict = IF pc[p] = "commit" THEN "ok" ELSE "fail"]
    /\ sig' = IF kind = "stream" /\ pc[p] = "commit"
              THEN [sig EXCEPT !.success = TRUE, !.stream = TRUE] ELSE sig
    /\ UNCHANGED <<fixed, pc, hand, back, loop, meta, got, reqs, failed, store, rx, cons, wr>>

\* callback.Done or callback.Fail.
PeerTaskDone_not(o) == o
PeerTaskDone(o) == [o EXCEPT !.running = FALSE]

AfterReport == IF kind = "file" THEN "notify" ELSE "close"

CallbackDone ==
    /\ out.once = "body" /\ out.verdict = "ok"
    /\ out' = PeerTaskDone([out EXCEPT !.once = AfterReport, !.stored = TRUE, !.ok = 1])
    /\ UNCHANGED <<fixed, pc, hand, back, loop, meta, got, reqs, failed, store, rx, sig, cons, wr>>

\* storageManager.Store fails: nothing is reported to the scheduler.
CallbackDoneFails ==
    /\ out.once = "body" /\ out.verdict = "ok"
    /\ out' = [out EXCEPT !.once = AfterReport]
    /\ UNCHANGED <<fixed, pc, hand, back, loop, meta, got, reqs, failed, store, rx, sig, cons, wr>>

Fail(o) == PeerTaskDone([o EXCEPT !.fail = @ + 1])

CallbackFail ==
    /\ out.once = "body" /\ out.verdict = "fail"
    /\ out' = Fail([out EXCEPT !.once = AfterReport])
    /\ UNCHANGED <<fixed, pc, hand, back, loop, meta, got, reqs, failed, store, rx, sig, cons, wr>>

\* The last progress of a file task.
ProgressSuccess_verdict == out.verdict = "ok"
ProgressSuccess == out.verdict = "ok" /\ out.stored

Notify ==
    /\ out.once = "notify"
    /\ \/ cons = "reading" /\ cons' = IF ProgressSuccess THEN "ok" ELSE "left"
       \/ sig.ctx /\ UNCHANGED cons
    /\ out' = [out EXCEPT !.once = "close"]
    /\ UNCHANGED <<fixed, pc, hand, back, loop, meta, got, reqs, failed, store, rx, sig, wr>>

CloseDone ==
    /\ out.once = "close"
    /\ kind = "file" => sig.stop \/ sig.ctx
    /\ out' = [out EXCEPT !.once = "over"]
    /\ sig' = [sig EXCEPT !.done = TRUE, !.success = @ \/ out.verdict = "ok",
                          !.stream = @ \/ kind = "stream"]
    /\ UNCHANGED <<fixed, pc, hand, back, loop, meta, got, reqs, failed, store, rx, cons, wr>>

\* once.Do returns; cleanUnfinished of a file task cancels the context.
Return(p) ==
    /\ pc[p] \in {"commit", "clean"} /\ out.once = "over"
    /\ Goto(p, BackOf(p))
    /\ back' = IF p = Pull THEN "end" ELSE back
    /\ sig' = [sig EXCEPT !.ctx = @ \/ (kind = "file" /\ pc[p] = "clean")]
    /\ UNCHANGED <<fixed, hand, loop, meta, got, reqs, failed, store, rx, out, cons, wr>>

-----------------------------------------------------------------------------
(* pullSinglePiece.                                                        *)

FetchSingle ==
    /\ pc[Pull] = "single"
    /\ meta' = [length |-> size, total |-> 1]
    /\ store' = [store EXCEPT !.pieces = WritePiece(0), !.total = 1, !.sign = TRUE]
    /\ hand' = [hand EXCEPT ![Pull] = 0]
    /\ Goto(Pull, "mark")
    /\ UNCHANGED <<fixed, back, loop, got, reqs, failed, rx, ends>>

\* The piece is left to be asked for again, from parents.
SingleFails ==
    /\ pc[Pull] = "single"
    /\ meta' = [length |-> size, total |-> 1]
    /\ store' = [store EXCEPT !.total = 1, !.sign = TRUE]
    /\ \/ failed' = Append(failed, 0)
       \/ sig.ctx /\ UNCHANGED failed
    /\ loop' = [loop EXCEPT !.pulling = TRUE]
    /\ Goto(Pull, "first")
    /\ UNCHANGED <<fixed, hand, back, got, reqs, rx, ends>>

-----------------------------------------------------------------------------
(* pullPiecesFromPeers.                                                    *)

BackSource == Goto(Pull, "open") /\ UNCHANGED back

\* waitFirstPeerPacket, waitAvailablePeerPacket: a new packet, the word of the
\* scheduler, the timer or the end, whichever the select takes.
WaitPacket ==
    /\ pc[Pull] \in {"first", "avail"}
    /\ \/ /\ rx.token
          /\ rx' = [rx EXCEPT !.token = FALSE]
          /\ loop' = [loop EXCEPT !.num = 0]
          /\ Goto(Pull, "top") /\ UNCHANGED back
       \/ /\ sig.ctx \/ (pc[Pull] = "avail" /\ sig.done)
          /\ Quit /\ UNCHANGED rx
       \/ /\ rx.closed /\ ~rx.token
          /\ BackSource /\ UNCHANGED <<rx, loop>>
    /\ UNCHANGED <<fixed, hand, meta, got, reqs, failed, store, ends>>

\* Whether DisableAutoBackSource is set is only seen here.
WaitPacketTimeout ==
    /\ pc[Pull] \in {"first", "avail"} /\ ~rx.token /\ ~rx.closed
    /\ Quit \/ (BackSource /\ UNCHANGED loop)
    /\ UNCHANGED <<fixed, hand, meta, got, reqs, failed, store, rx, ends>>

\* 1, check whether catch exit signal or get a failed piece
Top ==
    /\ pc[Pull] = "top"
    /\ \/ sig.done /\ Quit /\ UNCHANGED <<failed, out>>
       \/ /\ sig.ctx
          /\ IF sig.success THEN UNCHANGED out ELSE out' = Fail(out)
          /\ Quit /\ UNCHANGED failed
       \/ /\ failed # <<>>
          /\ loop' = [loop EXCEPT !.num = Head(failed), !.one = TRUE]
          /\ failed' = Tail(failed)
          /\ Goto(Pull, "get") /\ UNCHANGED <<back, out>>
       \/ /\ ~sig.done /\ ~sig.ctx /\ failed = <<>>
          /\ Goto(Pull, "get") /\ UNCHANGED <<back, loop, failed, out>>
    /\ UNCHANGED <<fixed, hand, meta, got, reqs, store, rx, sig, cons, wr>>

\* A parent answers with some of the pieces asked for, and with the length of
\* the task, its pieces and their signature if it knows them.  An answer
\* without pieces counts only if it says something new or the number is wrong.
Answer(S, known) ==
    /\ \A n \in S : n >= loop.num
    /\ Cardinality(S) <= IF loop.one THEN 1 ELSE BufferSize
    /\ S = {} => known /\ (meta.length < size \/ loop.num >= NPieces)

\* 2, try to get pieces: preparePieceTasks, init, and the updates after it.
GetPieces ==
    /\ pc[Pull] = "get" /\ ~sig.ctx
    /\ \E S \in SUBSET Pieces, known \in BOOLEAN, signed \in BOOLEAN :
          LET length == IF known THEN size ELSE IF loop.inited THEN meta.length ELSE None
          IN  /\ Answer(S, known) /\ (signed => known)
              /\ meta' = [length |-> length, total |-> IF known THEN NPieces ELSE meta.total]
              /\ store' = IF known THEN [store EXCEPT !.total = NPieces, !.sign = @ \/ signed] ELSE store
              /\ loop' = [loop EXCEPT !.inited = TRUE, !.packet = S]
              /\ pc' = [p \in Procs |->
                          IF p = Pull THEN IF known /\ got.completed = size THEN "finish" ELSE "dispatch"
                          ELSE IF loop.inited THEN pc[p] ELSE "take"]
              /\ back' = "dispatch"
    /\ UNCHANGED <<fixed, hand, got, reqs, failed, rx, ends>>

\* No parent answers; or the context is done.  Wait for another packet.
GetPiecesFails ==
    /\ pc[Pull] = "get"
    /\ Goto(Pull, "avail")
    /\ UNCHANGED <<fixed, hand, back, loop, meta, got, reqs, failed, store, rx, ends>>

\* init cannot register the task with the storage.
InitFails ==
    /\ pc[Pull] = "get" /\ ~loop.inited
    /\ Quit
    /\ UNCHANGED <<fixed, hand, meta, got, reqs, failed, store, rx, ends>>

\* 3. dispatch piece request to all workers, one by one
Dispatch ==
    /\ pc[Pull] = "dispatch"
    /\ \/ /\ loop.packet = {}
          /\ Goto(Pull, "next")
          /\ UNCHANGED <<loop, got, reqs>>
       \/ /\ loop.packet # {}
          /\ LET n == CHOOSE m \in loop.packet : \A k \in loop.packet : m <= k
             IN  /\ \/ ChannelFree(reqs) /\ reqs' = Append(reqs, n)
                    \/ Over /\ UNCHANGED reqs
                 /\ got' = [got EXCEPT !.requested = @ \cup {n}]
                 /\ loop' = [loop EXCEPT !.packet = @ \ {n}]
          /\ UNCHANGED pc
    /\ UNCHANGED <<fixed, hand, back, meta, failed, store, rx, ends>>

\* The first number from cur on that was not requested.
NotRequested(cur) == CHOOSE i \in cur..(cur + Cardinality(got.requested)) :
                        /\ i \notin got.requested
                        /\ cur..(i - 1) \subseteq got.requested

getNextPieceNum(cur) ==
    IF isCompleted THEN None
    ELSE IF meta.total > 0 /\ NotRequested(cur) >= meta.total
         THEN IF NotRequested(0) >= meta.total THEN None ELSE NotRequested(0)
         ELSE NotRequested(cur)

\* 4. get next piece; when there is none, waitFailedPiece, which first looks
\* whether the task is complete.
NextPiece ==
    /\ pc[Pull] = "next"
    /\ LET n == getNextPieceNum(loop.num)
       IN  \/ /\ n # None
              /\ loop' = [loop EXCEPT !.num = n, !.one = FALSE]
              /\ Goto(Pull, "top") /\ UNCHANGED back
           \/ /\ n = None /\ isCompleted
              /\ Quit
           \/ /\ n = None /\ ~isCompleted
              /\ loop' = [loop EXCEPT !.one = TRUE]
              /\ Goto(Pull, "waitFailed") /\ UNCHANGED back
    /\ UNCHANGED <<fixed, hand, meta, got, reqs, failed, store, rx, ends>>

WaitFailedPiece ==
    /\ pc[Pull] = "waitFailed"
    /\ \/ /\ failed # <<>>
          /\ loop' = [loop EXCEPT !.num = Head(failed)]
          /\ failed' = Tail(failed)
          /\ Goto(Pull, "top") /\ UNCHANGED back
       \/ Over /\ Quit /\ UNCHANGED failed
    /\ UNCHANGED <<fixed, hand, meta, got, reqs, store, rx, ends>>

-----------------------------------------------------------------------------
(* downloadPieceWorker and DownloadPiece of piece_manager.go.              *)

Take(w) ==
    /\ pc[w] = "take"
    /\ \/ /\ reqs # <<>>
          /\ reqs' = Tail(reqs)
          /\ IF Head(reqs) \in got.ready THEN UNCHANGED <<pc, hand>>
             ELSE hand' = [hand EXCEPT ![w] = Head(reqs)] /\ Goto(w, "fetch")
       \/ Over /\ Goto(w, "end") /\ UNCHANGED <<reqs, hand>>
    /\ UNCHANGED <<fixed, back, loop, meta, got, failed, store, rx, ends>>

Fetch(w) ==
    /\ pc[w] = "fetch"
    /\ store' = [store EXCEPT !.pieces = WritePiece(hand[w])]
    /\ Goto(w, "mark")
    /\ UNCHANGED <<fixed, hand, back, loop, meta, got, reqs, failed, rx, ends>>

\* The failed piece is queued for Pull, unless the task is over.
PushFailed(n) ==
    \/ ChannelFree(failed) /\ failed' = Append(failed, n)
    \/ Over /\ UNCHANGED failed

FetchFails(w) ==
    /\ pc[w] = "fetch"
    /\ PushFailed(hand[w])
    /\ Drop(w)
    /\ UNCHANGED <<fixed, back, loop, meta, got, reqs, store, rx, ends>>

\* The limiter refuses the piece: the worker cancels the task.
LimiterFails(w) ==
    /\ pc[w] = "fetch"
    /\ PushFailed(hand[w])
    /\ Goto(w, "end")
    /\ sig' = [sig EXCEPT !.ctx = TRUE]
    /\ UNCHANGED <<fixed, hand, back, loop, meta, got, reqs, store, rx, out, cons, wr>>

-----------------------------------------------------------------------------
(* backSource and DownloadSource.                                          *)

\* The source answers, with or without a length.  DisableBackSource, of a file
\* request, is only seen here.
OpenSource ==
    /\ pc[Pull] = "open"
    /\ \/ /\ kind = "file"
          /\ Quit /\ UNCHANGED meta
       \/ /\ ~sig.ctx
          /\ meta' = [meta EXCEPT !.length = IF kind = "stream" THEN None ELSE @]
          /\ \E known \in BOOLEAN : loop' = [loop EXCEPT !.known = known]
          /\ Goto(Pull, "source") /\ UNCHANGED back
    /\ UNCHANGED <<fixed, hand, got, reqs, failed, store, rx, ends>>

SourceFails ==
    /\ pc[Pull] = "open" \/ (pc[Pull] = "source" /\ ~loop.over)
    /\ Quit
    /\ UNCHANGED <<fixed, hand, meta, got, reqs, failed, store, rx, ends>>

\* processPieceFromSource; the callback of the last piece completes the metadata.
\* Without a length, the last piece is the first that is not full.
LastOfSource(n) == IF loop.known THEN n = NPieces - 1 ELSE BytesOf(n) < PieceSize

SourcePiece ==
    /\ pc[Pull] = "source" /\ ~loop.over
    /\ LET n == loop.src
           last == LastOfSource(n)
           pieces == IF BytesOf(n) = 0 THEN store.pieces ELSE WritePiece(n)
       IN  /\ store' = IF last THEN [store EXCEPT !.pieces = pieces, !.total = NPieces, !.sign = TRUE]
                       ELSE [store EXCEPT !.pieces = pieces]
           /\ meta' = [meta EXCEPT !.total = IF last /\ ~loop.known THEN NPieces ELSE @]
           /\ loop' = [loop EXCEPT !.src = n + 1, !.over = last]
           /\ hand' = [hand EXCEPT ![Pull] = n]
           /\ back' = "source"
           /\ Goto(Pull, "mark")
    /\ UNCHANGED <<fixed, got, reqs, failed, rx, ends>>

\* SetContentLength: a file task that is not complete now has failed; a stream
\* task finishes in any case.
SourceDone ==
    /\ pc[Pull] = "source" /\ loop.over
    /\ meta' = [meta EXCEPT !.length = size]
    /\ Goto(Pull, IF kind = "file" /\ got.completed # size THEN "clean" ELSE "finish")
    /\ back' = IF pc'[Pull] = "finish" /\ (kind = "file" \/ loop.pulling) THEN "clean" ELSE "end"
    /\ UNCHANGED <<fixed, hand, loop, got, reqs, failed, store, rx, ends>>

-----------------------------------------------------------------------------
(* The Download call of rpcserver.go, which reads the progress.            *)

\* DoneCallback, once the last progress says success.
ConsumerDone ==
    /\ cons = "ok"
    /\ cons' = "left"
    /\ sig' = [sig EXCEPT !.stop = TRUE]
    /\ UNCHANGED <<fixed, pc, hand, back, loop, meta, got, reqs, failed, store, rx, out, wr>>

ConsumerStops ==
    /\ cons = "reading" /\ sig.ctx
    /\ cons' = "left"
    /\ UNCHANGED <<fixed, pc, hand, back, loop, meta, got, reqs, failed, store, rx, sig, out, wr>>

\* The handler has returned: its context ends.
HandlerReturns ==
    /\ kind = "file" /\ cons = "left" /\ ~sig.ctx
    /\ sig' = [sig EXCEPT !.ctx = TRUE]
    /\ UNCHANGED <<fixed, pc, hand, back, loop, meta, got, reqs, failed, store, rx, out, cons, wr>>

\* Whoever asked for the task goes away.
Cancel ==
    /\ ~sig.ctx
    /\ sig' = [sig EXCEPT !.ctx = TRUE]
    /\ UNCHANGED <<fixed, pc, hand, back, loop, meta, got, reqs, failed, store, rx, out, cons, wr>>

-----------------------------------------------------------------------------
(* Start and writeToPipe of a stream task.                                 *)

StreamCloses(how) ==
    /\ wr' = [wr EXCEPT !.at = "closed", !.pipe = how]
    /\ sig' = [sig EXCEPT !.ctx = TRUE]

\* Start gives up: no first piece came.
StartFails ==
    /\ kind = "stream" /\ wr.at = "start" /\ (sig.ctx \/ sig.done)
    /\ wr' = [wr EXCEPT !.at = "closed", !.pipe = "error"]
    /\ UNCHANGED <<fixed, pc, hand, back, loop, meta, got, reqs, failed, store, rx, sig, out, cons>>

Readable(n) == n \in store.pieces /\ ~store.invalid

WriteOnePiece ==
    /\ wr.at = "write"
    /\ \/ /\ Readable(wr.desired)
          /\ wr' = [wr EXCEPT !.desired = @ + 1, !.cache = @ \ {wr.desired},
                              !.at = IF wr.desired + 1 \in wr.cache THEN "write" ELSE "select"]
          /\ UNCHANGED sig
       \/ ~Readable(wr.desired) /\ StreamCloses("error")
    /\ UNCHANGED <<fixed, pc, hand, back, loop, meta, got, reqs, failed, store, rx, out, cons>>

\* The select of writeToPipe, its branch for a new piece apart.
WriterSelect ==
    /\ wr.at = "select"
    /\ \/ sig.ctx /\ StreamCloses("error")
       \/ sig.stream /\ wr' = [wr EXCEPT !.at = "drain"] /\ UNCHANGED sig
    /\ UNCHANGED <<fixed, pc, hand, back, loop, meta, got, reqs, failed, store, rx, out, cons>>

Drained_always == TRUE
Drained == Cardinality(got.ready) = wr.desired

\* streamDone: write what is ready, then validate and close the pipe.
Drain ==
    /\ wr.at = "drain"
    /\ \/ /\ Drained
          /\ LET bad == CalculateDigest /\ ~DigestValid
             IN  /\ StreamCloses(IF bad THEN "error" ELSE "eof")
                 /\ store' = [store EXCEPT !.invalid = @ \/ bad]
       \/ /\ ~Drained /\ Readable(wr.desired)
          /\ wr' = [wr EXCEPT !.desired = @ + 1]
          /\ UNCHANGED <<store, sig>>
       \/ /\ ~Drained /\ ~Readable(wr.desired)
          /\ StreamCloses("error")
          /\ UNCHANGED store
    /\ UNCHANGED <<fixed, pc, hand, back, loop, meta, got, reqs, failed, rx, out, cons>>

\* The reader of the pipe has gone: the write fails.
ReaderGone ==
    /\ wr.at \in {"write", "drain"}
    /\ StreamCloses("error")
    /\ UNCHANGED <<fixed, pc, hand, back, loop, meta, got, reqs, failed, store, rx, out, cons>>

-----------------------------------------------------------------------------
PullStep == \/ FetchSingle \/ WaitPacket \/ WaitPacketTimeout \/ Top \/ GetPieces
            \/ Dispatch \/ NextPiece \/ WaitFailedPiece \/ OpenSource \/ SourcePiece \/ SourceDone
            \/ (sig.ctx /\ (GetPiecesFails \/ SourceFails))

ReportStep(p) == Mark(p) \/ TellFile(p) \/ TellStream(p) \/ Check(p)
                    \/ Finish(p) \/ Claim(p) \/ Return(p)

OnceStep == CallbackDone \/ CallbackFail \/ Notify \/ CloseDone

ConsumerStep == ConsumerDone \/ ConsumerStops \/ HandlerReturns

WriterStep == StartFails \/ WriteOnePiece \/ WriterSelect \/ Drain

Routine ==
    \/ ReceivePacket
    \/ PullStep \/ OnceStep \/ ConsumerStep \/ WriterStep
    \/ \E p \in Procs : ReportStep(p)
    \/ \E w \in Workers : Take(w) \/ Fetch(w)

Disturbance ==
    \/ ReceiveNeedBackSource \/ ReceiveExit
    \/ \E w \in Workers : FetchFails(w) \/ LimiterFails(w)
    \/ RegisterFails \/ InitFails \/ SingleFails
    \/ ~sig.ctx /\ (GetPiecesFails \/ SourceFails)
    \/ CallbackDoneFails \/ Cancel \/ ReaderGone

Next == Routine \/ Disturbance

(* Every goroutine runs on; nothing that disturbs them has to happen.      *)
Fairness ==
    /\ WF_vars(PullStep) /\ WF_vars(OnceStep) /\ WF_vars(ConsumerStep) /\ WF_vars(WriterStep)
    /\ \A p \in Procs : WF_vars(ReportStep(p))
    /\ \A w \in Workers : WF_vars(Take(w) \/ Fetch(w))

Spec == Init /\ [][Next]_vars
FairSpec == Spec /\ Fairness

-----------------------------------------------------------------------------
(* Success, as the scheduler or the client is told it, is the success of   *)
(* finish: every piece was marked ready and is in the storage, and a file  *)
(* whose digests are calculated has been validated.                        *)
SuccessIsWhole ==
    out.ok = 1 \/ cons = "ok" =>
        /\ Pieces \subseteq got.ready \cap store.pieces
        /\ kind = "file" /\ CalculateDigest => DigestValid

(* The reader of a stream whose task finished sees the end of the content  *)
(* only after every piece of it went through the pipe, in order, although  *)
(* finish closes streamDone while other workers still hold pieces that the *)
(* writer has not been told of.                                            *)
FinishedStreamIsWhole ==
    wr.pipe = "eof" /\ out.verdict = "ok" => wr.desired >= NPieces

(* A task that is over has left runningPeerTasks and its end was reported  *)
(* to the scheduler, except when callback.Done could not store the file.   *)
OverIsReported ==
    sig.done => \/ ~out.running /\ out.ok + out.fail > 0
                \/ out.verdict = "ok" /\ ~out.stored

(* The file consumer hears success only if the task was stored, and then   *)
(* the Once belongs to finish: no clean-up can have run.                   *)
ToldOnce == cons = "ok" \/ sig.stop => out.stored /\ out.verdict = "ok"

(* A download that went back to the source ends: a file task always, a     *)
(* stream task unless it is cancelled while a piece waits for the writer.  *)
BackSourceEnds ==
    pc[Pull] \in {"open", "source"} ~> sig.done \/ (kind = "stream" /\ sig.ctx)

(* Cancelling a task that pulls from peers ends it, wherever its goroutine *)
(* waits.                                                                  *)
InLoop == {"first", "top", "get", "dispatch", "next", "waitFailed", "avail"}
CancelEnds == sig.ctx /\ pc[Pull] \in InLoop ~> sig.done
=============================================================================
