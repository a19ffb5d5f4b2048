---------------------------- MODULE SeedProgress ----------------------------
(***************************************************************************)
(* cdn/supervisor: how the CDN tells schedulers about the pieces of ONE    *)
(* task.  A scheduler's ObtainSeeds call registers the task, starts the    *)
(* download if nobody has (service.go), and watches it (progress/).  The   *)
(* trigger goroutine (cdn/manager.go) reads the source; its writers        *)
(* publish pieces, it publishes the result.  Every watcher has a           *)
(* subscriber with a goroutine of its own, readLoop, that waits on a       *)
(* condition variable and feeds a bounded channel.  The collector of       *)
(* task/manager.go may drop the task under all of them.                    *)
(*                                                                         *)
(* Locks: pm.mu of the task is the variable mu.  The lock of a condition   *)
(* variable is held by readLoop exactly at the stages in LockStages.  The  *)
(* package-wide synclock of the task is taken for one step at a time, so   *)
(* only a read lock that is never given back shows: leaked.                *)
(***************************************************************************)
EXTENDS Integers, Sequences, FiniteSets

CONSTANTS Watchers,   \* ObtainSeeds calls
          MaxPieces,  \* bound: pieces of the task
          Capacity,   \* of pieceChan (100 in the code)
          MaxObjects, \* bound: SeedTask objects made for the task ID
          MaxTriggers,\* bound: trigger goroutines in a behaviour
          MaxWriters  \* config.WriterRoutineLimit

Pieces == 1..MaxPieces
Objects == 1..MaxObjects
Triggers == 1..MaxTriggers

ASSUME LimitsNat ==
    /\ Capacity \in Nat \ {0} /\ MaxWriters \in Nat \ {0}
    /\ MaxPieces \in Nat /\ MaxObjects \in Nat /\ MaxTriggers \in Nat

VARIABLES
    obj,    \* obj[i]: the SeedTask objects, see ObjectType
    cur,    \* the object in taskStore, 0 if none
    call,   \* call[w]: the ObtainSeeds call, see CallType
    sub,    \* sub[w]: the subscriber or snapshot goroutine of w
    subs,   \* the publisher's list of subscribers
    trig,   \* trig[g]: trigger goroutines
    mu,     \* who is inside pm.mu of the task
    leaked  \* a read lock of the task was never released

vars == <<obj, cur, call, sub, subs, trig, mu, leaked>>

ObjectType == [status : {"none", "WAITING", "RUNNING", "FAILED", "SUCCESS"},
               pieces : SUBSET Pieces]

CallType == [stage : {"idle", "added", "got", "confirming", "triggered",
                      "watching", "gone", "done", "error"},
             obj : Objects \cup {0},
             got : SUBSET Pieces,
             cancelled : BOOLEAN]   \* the context of the call

\* stage: where readLoop is; "snap..." where the goroutine of a finished task is.
LockStages == {"tested", "sending"}
SubStages == {"none", "top", "waiting", "woken", "snapStart", "snapSend", "ended"}
                \cup LockStages
SubType == [stage : SubStages, pieces : SUBSET Pieces, todo : SUBSET Pieces,
            chan : Seq(Pieces), closed : BOOLEAN]

TrigType == [stage : {"none", "waiting", "working", "FAILED", "SUCCESS", "over"},
             obj : Objects \cup {0},
             read : SUBSET Pieces, inflight : SUBSET Pieces, err : BOOLEAN]

MuType == [kind : {"piece", "task", "close"}, trig : Triggers,
           piece : Pieces \cup {0}, todo : SUBSET Watchers]
Free == [kind |-> "free"]

TypeOK ==
    /\ obj \in [Objects -> ObjectType]
    /\ cur \in Objects \cup {0}
    /\ call \in [Watchers -> CallType]
    /\ sub \in [Watchers -> SubType] /\ \A w \in Watchers : Len(sub[w].chan) <= Capacity
    /\ subs \subseteq Watchers
    /\ trig \in [Triggers -> TrigType]
    /\ mu \in MuType \cup {Free}
    /\ leaked \in BOOLEAN

NoSub == [stage |-> "none", pieces |-> {}, todo |-> {}, chan |-> <<>>, closed |-> FALSE]

Init ==
    /\ obj = [i \in Objects |-> [status |-> "none", pieces |-> {}]]
    /\ cur = 0
    /\ call = [w \in Watchers |-> [stage |-> "idle", obj |-> 0, got |-> {},
                                   cancelled |-> FALSE]]
    /\ sub = [w \in Watchers |-> NoSub]
    /\ subs = {}
    /\ trig = [g \in Triggers |-> [stage |-> "none", obj |-> 0, read |-> {}, inflight |-> {},
                                   err |-> FALSE]]
    /\ mu = Free
    /\ leaked = FALSE

IsFrozen(o) == o.status \in {"WAITING", "FAILED"}
IsDone(o) == o.status \in {"FAILED", "SUCCESS"}

Goto(w, stage) == call' = [call EXCEPT ![w].stage = stage]

-----------------------------------------------------------------------------
(* RegisterSeedTask: service.go, task/manager.go.                          *)

\* taskStore.LoadOrStore
LoadOrStore ==
    \/ cur # 0 /\ UNCHANGED <<obj, cur>>
    \/ /\ cur = 0
       /\ \E i \in Objects :
             /\ obj[i].status = "none" /\ \A j \in 1..(i - 1) : obj[j].status # "none"
             /\ obj' = [obj EXCEPT ![i].status = "WAITING"]
             /\ cur' = i

AddOrUpdate(w) ==
    /\ call[w].stage = "idle"
    /\ LoadOrStore
    /\ Goto(w, "added")
    /\ UNCHANGED <<sub, subs, trig, mu, leaked>>

\* The source does not tell its length: the call fails, the task stays.
Unreachable(w) ==
    /\ call[w].stage = "idle"
    /\ LoadOrStore
    /\ Goto(w, "error")
    /\ UNCHANGED <<sub, subs, trig, mu, leaked>>

\* triggerCdnSyncAction: Get.
Get(w) ==
    /\ call[w].stage = "added"
    /\ call' = [call EXCEPT ![w].stage = IF cur = 0 THEN "error" ELSE "got",
                            ![w].obj = cur]
    /\ UNCHANGED <<obj, cur, sub, subs, trig, mu, leaked>>

\* No space can be freed: the early return keeps the read lock.
Lacked(w) ==
    /\ call[w].stage = "got"
    /\ Goto(w, "error")
    /\ leaked' = TRUE
    /\ UNCHANGED <<obj, cur, sub, subs, trig, mu>>

\* The first look at the status, under the read lock.
Check(w) ==
    /\ call[w].stage = "got"
    /\ Goto(w, IF IsFrozen(obj[call[w].obj]) THEN "confirming" ELSE "triggered")
    /\ UNCHANGED <<obj, cur, sub, subs, trig, mu, leaked>>

\* Slip: what was seen under the read lock is taken for granted.
NeedsTrigger_unconfirmed(w) == TRUE

\* The second look, under the write lock.
NeedsTrigger(w) == IsFrozen(obj[call[w].obj])

Confirm(w) ==
    /\ call[w].stage = "confirming" /\ ~leaked
    /\ \/ /\ NeedsTrigger(w)
          /\ \E g \in Triggers :
                /\ trig[g].stage = "none" /\ \A h \in 1..(g - 1) : trig[h].stage # "none"
                /\ trig' = [trig EXCEPT ![g].stage = "waiting", ![g].obj = call[w].obj]
          /\ obj' = [obj EXCEPT ![call[w].obj] = [status |-> "RUNNING", pieces |-> {}]]
       \/ /\ ~NeedsTrigger(w)
          /\ UNCHANGED <<obj, trig>>
    /\ Goto(w, "triggered")
    /\ UNCHANGED <<cur, sub, subs, mu, leaked>>

\* Slip: the pieces published so far are not handed to a late subscriber.
NewSubscriber_empty == [NoSub EXCEPT !.stage = "top"]

\* newProgressSubscriber copies the pieces the task has.
NewSubscriber == [NoSub EXCEPT !.stage = "top", !.pieces = obj[cur].pieces]

\* WatchSeedProgress, wholly under pm.mu.
Watch(w) ==
    /\ call[w].stage = "triggered" /\ mu = Free
    /\ \/ /\ cur = 0
          /\ Goto(w, "error")
          /\ UNCHANGED <<sub, subs>>
       \/ /\ cur # 0 /\ IsDone(obj[cur])
          /\ call' = [call EXCEPT ![w].stage = "watching", ![w].obj = cur]
          /\ sub' = [sub EXCEPT ![w] = [NoSub EXCEPT !.stage = "snapStart"]]
          /\ UNCHANGED subs
       \/ /\ cur # 0 /\ ~IsDone(obj[cur])
          /\ call' = [call EXCEPT ![w].stage = "watching", ![w].obj = cur]
          /\ sub' = [sub EXCEPT ![w] = NewSubscriber]
          /\ subs' = subs \cup {w}
    /\ UNCHANGED <<obj, cur, trig, mu, leaked>>

-----------------------------------------------------------------------------
(* The trigger goroutine and its writers: cdn/manager.go, cache_writer.go. *)

\* doTrigger, under cdnLocker of the task.
Start(g) ==
    /\ trig[g].stage = "waiting"
    /\ \A h \in Triggers : trig[h].stage # "working"
    /\ trig' = [trig EXCEPT ![g].stage = "working"]
    /\ UNCHANGED <<obj, cur, call, sub, subs, mu, leaked>>

\* A piece is found in the cache or read from the source, and given to a writer.
\* Any piece may be next: the writers finish in any order.
Read(g, n) ==
    /\ trig[g].stage = "working"
    /\ n \notin trig[g].read /\ Cardinality(trig[g].inflight) < MaxWriters
    /\ trig' = [trig EXCEPT ![g].read = @ \cup {n}, ![g].inflight = @ \cup {n}]
    /\ UNCHANGED <<obj, cur, call, sub, subs, mu, leaked>>

\* Reading fails: doTrigger returns at once; what the writers have in hand they
\* still write and publish.
SourceError(g) ==
    /\ trig[g].stage = "working"
    /\ trig' = [trig EXCEPT ![g].stage = "FAILED", ![g].read = {}]
    /\ UNCHANGED <<obj, cur, call, sub, subs, mu, leaked>>

\* The storage refuses a piece of a writer.
WriteError(g) ==
    /\ trig[g].stage = "working" /\ trig[g].inflight # {}
    /\ trig' = [trig EXCEPT ![g].err = TRUE]
    /\ UNCHANGED <<obj, cur, call, sub, subs, mu, leaked>>

\* doTrigger ends when all is written, or when a writer failed and the others
\* have dropped their pieces.
Finish(g) ==
    /\ trig[g].stage = "working"
    /\ \/ /\ trig[g].err
          /\ mu # Free => mu.trig # g
          /\ trig' = [trig EXCEPT ![g].stage = "FAILED", ![g].read = {}, ![g].inflight = {}]
       \/ /\ trig[g].read = Pieces /\ trig[g].inflight = {} /\ ~trig[g].err
          /\ trig' = [trig EXCEPT ![g].stage = "SUCCESS", ![g].read = {}]
    /\ UNCHANGED <<obj, cur, call, sub, subs, mu, leaked>>

-----------------------------------------------------------------------------
(* PublishPiece and PublishTask: progress/manager.go, progress.go.         *)

PublishPiece(g, n) ==
    /\ n \in trig[g].inflight /\ mu = Free
    /\ mu' = [kind |-> "piece", trig |-> g, piece |-> n, todo |-> subs]
    /\ UNCHANGED <<obj, cur, call, sub, subs, trig, leaked>>

\* cond.Signal wakes a reader that already waits, and nobody else.
Signal(s) == [s EXCEPT !.stage = IF @ = "waiting" THEN "woken" ELSE @]

Notify(w) ==
    /\ mu.kind = "piece" /\ w \in mu.todo
    /\ sub[w].stage \notin LockStages
    /\ sub' = [sub EXCEPT ![w] = [Signal(@) EXCEPT !.pieces = sub[w].pieces \cup {mu.piece}]]
    /\ mu' = [mu EXCEPT !.todo = @ \ {w}]
    /\ UNCHANGED <<obj, cur, call, subs, trig, leaked>>

\* UpdateProgress ends PublishPiece; without a task the writer gets an error.
UpdateProgress ==
    /\ mu.kind = "piece" /\ mu.todo = {} /\ ~leaked
    /\ trig' = [trig EXCEPT ![mu.trig].inflight = @ \ {mu.piece},
                            ![mu.trig].err = @ \/ cur = 0]
    /\ obj' = IF cur = 0 THEN obj ELSE [obj EXCEPT ![cur].pieces = @ \cup {mu.piece}]
    /\ mu' = Free
    /\ UNCHANGED <<cur, call, sub, subs, leaked>>

PublishTask(g) ==
    /\ trig[g].stage \in {"FAILED", "SUCCESS"} /\ mu = Free
    /\ mu' = [kind |-> "task", trig |-> g, piece |-> 0, todo |-> subs]
    /\ UNCHANGED <<obj, cur, call, sub, subs, trig, leaked>>

\* Update: a success is never taken back; without a task PublishTask returns,
\* and its subscribers are left as they are.
Update ==
    /\ mu.kind = "task" /\ ~leaked
    /\ trig' = [trig EXCEPT ![mu.trig].stage = "over"]
    /\ \/ /\ cur = 0
          /\ mu' = Free
          /\ UNCHANGED obj
       \/ /\ cur # 0
          /\ mu' = [mu EXCEPT !.kind = "close"]
          /\ obj' = [obj EXCEPT ![cur].status = IF @ = "SUCCESS" THEN @
                                                ELSE trig[mu.trig].stage]
    /\ UNCHANGED <<cur, call, sub, subs, leaked>>

\* Slip: the loop follows the link of an element it has removed, and stops.
StillToClose_unlinked(w) == {}

\* RemoveAllSubscribers remembers the next element before it removes this one.
StillToClose(w) == mu.todo \ {w}

\* Close and RemoveSubscriber: the closed flag is set, the reader signalled and
\* the done channel closed without the lock of the condition variable.
Close(w) ==
    /\ mu.kind = "close" /\ w \in mu.todo
    /\ sub' = [sub EXCEPT ![w] = [Signal(@) EXCEPT !.closed = TRUE]]
    /\ subs' = subs \ {w}
    /\ mu' = [mu EXCEPT !.todo = StillToClose(w)]
    /\ UNCHANGED <<obj, cur, call, trig, leaked>>

\* The publisher itself is deleted.
PublishTaskEnd ==
    /\ mu.kind = "close" /\ mu.todo = {}
    /\ subs' = {}
    /\ mu' = Free
    /\ UNCHANGED <<obj, cur, call, sub, trig, leaked>>

-----------------------------------------------------------------------------
(* readLoop: progress.go.                                                  *)

SetSub(w, s) == sub' = [sub EXCEPT ![w] = s]
ReaderFrame == UNCHANGED <<obj, cur, call, subs, trig, mu, leaked>>

\* Slip: a closed subscriber stops at once.
Drained_ignored(w) == sub[w].closed

\* case <-sub.done with nothing left to send.
Drained(w) == sub[w].closed /\ sub[w].pieces = {}

\* With the lock: wait if there is nothing to send and the subscriber is not
\* closed, else sendPieces.
Locked(s) == IF s.pieces = {} /\ ~s.closed THEN [s EXCEPT !.stage = "tested"]
             ELSE [s EXCEPT !.stage = "sending", !.todo = s.pieces]

\* select: a cancelled context ends the loop, a closed subscriber with nothing to
\* send too; otherwise the lock is taken.
Select(w) ==
    /\ sub[w].stage = "top"
    /\ \/ /\ call[w].cancelled \/ Drained(w)
          /\ SetSub(w, [sub[w] EXCEPT !.stage = "ended"])
       \/ /\ sub[w].closed /\ ~Drained(w)
          /\ SetSub(w, Locked(sub[w]))
       \/ /\ ~call[w].cancelled /\ ~sub[w].closed
          /\ SetSub(w, Locked(sub[w]))
    /\ ReaderFrame

\* cond.Wait: from here on, and not before, a signal is heard.
Wait(w) ==
    /\ sub[w].stage = "tested"
    /\ SetSub(w, [sub[w] EXCEPT !.stage = "waiting"])
    /\ ReaderFrame

Wake(w) ==
    /\ sub[w].stage = "woken"
    /\ SetSub(w, Locked(sub[w]))
    /\ ReaderFrame

\* Slip: one more than the channel holds.
Room_one_more(w) == Len(sub[w].chan) <= Capacity

Room(w) == Len(sub[w].chan) < Capacity

\* sendPieces, one piece after the other in ascending order, with the lock held.
SendPiece(w) ==
    LET n == CHOOSE m \in sub[w].todo : \A k \in sub[w].todo : m <= k IN
    /\ sub[w].stage = "sending"
    /\ \/ /\ sub[w].todo = {}
          /\ SetSub(w, [sub[w] EXCEPT !.stage = "top"])
       \/ /\ sub[w].todo # {} /\ Room(w)
          /\ SetSub(w, [sub[w] EXCEPT !.chan = Append(@, n), !.todo = @ \ {n},
                                      !.pieces = @ \ {n}])
    /\ ReaderFrame

-----------------------------------------------------------------------------
(* The goroutine of a task that is done, and the consumer of the channel.  *)

\* The piece numbers are collected when the goroutine runs, the pieces are looked
\* up again one by one; a number that is gone gives nil, on which the consumer
\* panics (and recovers).
SnapStart(w) ==
    /\ sub[w].stage = "snapStart"
    /\ SetSub(w, [sub[w] EXCEPT !.stage = "snapSend", !.todo = obj[call[w].obj].pieces])
    /\ ReaderFrame

SnapSend(w) ==
    LET n == CHOOSE m \in sub[w].todo : \A k \in sub[w].todo : m <= k IN
    /\ sub[w].stage = "snapSend"
    /\ \/ /\ sub[w].todo = {}
          /\ SetSub(w, [sub[w] EXCEPT !.stage = "ended"])
          /\ UNCHANGED call
       \/ /\ sub[w].todo # {} /\ call[w].stage = "watching"
          /\ SetSub(w, [sub[w] EXCEPT !.todo = @ \ {n}])
          /\ call' = IF n \in obj[call[w].obj].pieces
                     THEN [call EXCEPT ![w].got = @ \cup {n},
                                       ![w].stage = IF call[w].cancelled THEN "gone" ELSE @]
                     ELSE [call EXCEPT ![w].stage = "error"]
    /\ UNCHANGED <<obj, cur, subs, trig, mu, leaked>>

\* ObtainSeeds takes a piece; on a stream that broke it panics with the next one.
Receive(w) ==
    /\ call[w].stage = "watching" /\ sub[w].chan # <<>>
    /\ call' = [call EXCEPT ![w].got = @ \cup {Head(sub[w].chan)},
                            ![w].stage = IF call[w].cancelled THEN "gone" ELSE @]
    /\ SetSub(w, [sub[w] EXCEPT !.chan = Tail(@)])
    /\ UNCHANGED <<obj, cur, subs, trig, mu, leaked>>

\* The channel is closed and empty: GetSeedTask decides the last message.
Reply(w) ==
    /\ call[w].stage = "watching" /\ sub[w].stage = "ended" /\ sub[w].chan = <<>>
    /\ Goto(w, IF cur # 0 /\ obj[cur].status = "SUCCESS" THEN "done" ELSE "error")
    /\ UNCHANGED <<obj, cur, sub, subs, trig, mu, leaked>>

Hangup(w) ==
    /\ call[w].stage = "watching" /\ ~call[w].cancelled
    /\ call' = [call EXCEPT ![w].cancelled = TRUE]
    /\ UNCHANGED <<obj, cur, sub, subs, trig, mu, leaked>>

\* GC: the access time, which Get and a failed AddOrUpdate record, is read before
\* the lock is taken, so whatever happened since, the task is deleted.
Expire ==
    /\ cur # 0 /\ ~leaked
    /\ \E w \in Watchers : call[w].obj = cur \/ call[w].stage = "error"
    /\ cur' = 0
    /\ UNCHANGED <<obj, call, sub, subs, trig, mu, leaked>>

-----------------------------------------------------------------------------
Register(w) == AddOrUpdate(w) \/ Get(w) \/ Check(w) \/ Confirm(w) \/ Watch(w)
Reader(w) == Select(w) \/ Wait(w) \/ Wake(w) \/ SendPiece(w)
                \/ SnapStart(w) \/ SnapSend(w)
Consumer(w) == Receive(w) \/ Reply(w)
Trigger(g) == Start(g) \/ Finish(g) \/ PublishTask(g)
                \/ \E n \in Pieces : Read(g, n) \/ PublishPiece(g, n)
Publisher == UpdateProgress \/ Update \/ PublishTaskEnd
                \/ \E w \in Watchers : Notify(w) \/ Close(w)

Routine ==
    \/ \E w \in Watchers : Register(w) \/ Reader(w) \/ Consumer(w)
    \/ \E g \in Triggers : Trigger(g)
    \/ Publisher

Disturbance ==
    \/ \E w \in Watchers : Unreachable(w) \/ Lacked(w) \/ Hangup(w)
    \/ \E g \in Triggers : SourceError(g) \/ WriteError(g)
    \/ Expire

Next == Routine \/ Disturbance

Spec == Init /\ [][Next]_vars

-----------------------------------------------------------------------------
Open(w) == sub[w].stage \notin {"none", "snapStart", "snapSend", "ended"} /\ ~sub[w].closed

InChannel(w) == {sub[w].chan[i] : i \in DOMAIN sub[w].chan}

\* A subscriber has heard of every piece the task has, in whatever order pieces
\* are published and watchers arrive: it is with the consumer, in the channel or
\* waits to be sent.
CaughtUp ==
    \A w \in subs :
        Open(w) /\ cur # 0 =>
            obj[cur].pieces \subseteq call[w].got \cup InChannel(w) \cup sub[w].pieces

\* A subscriber that was closed still delivers what it had: the channel is closed
\* with nothing left to send, unless the scheduler hung up.
ClosedIsDrained ==
    \A w \in Watchers :
        sub[w].stage = "ended" /\ ~call[w].cancelled => sub[w].pieces \cup sub[w].todo = {}

\* Nobody is left behind when the result is published: a subscriber that is not
\* closed is in the list of the publisher, which is how it will ever be closed.
NoneLeftBehind == \A w \in Watchers : Open(w) => w \in subs

\* However many schedulers register at once, and whatever rounds failed before,
\* the task is being downloaded by one goroutine at most, as long as the
\* collector has not made way for a second SeedTask object.
OneDownload ==
    Cardinality({i \in Objects : obj[i].status # "none"}) <= 1
        => Cardinality({g \in Triggers : trig[g].stage \notin {"none", "over"}}) <= 1
=============================================================================
