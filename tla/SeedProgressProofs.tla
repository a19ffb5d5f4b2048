------------------------- MODULE SeedProgressProofs -------------------------
(***************************************************************************)
(* Proofs about SeedProgress, for any set of watchers and any number of    *)
(* pieces, objects, triggers and writers: every subscriber hears of every  *)
(* piece, is closed with the task and drained before its channel is        *)
(* closed, and one task is downloaded by one goroutine at a time.          *)
(***************************************************************************)
EXTENDS SeedProgress, FiniteSetTheorems, WellFoundedInduction, TLAPS

\* What has reached the subscriber of w: it is with the consumer, in the channel or
\* waits to be sent.
Heard(w) == call[w].got \cup InChannel(w) \cup sub[w].pieces

\* Stages of an ObtainSeeds call before it watches.
Registering == {"idle", "added", "got", "confirming", "triggered"}

\* An object starts without pieces; the one in the table is in use.
ObjectsInv ==
    /\ \A i \in Objects : obj[i].status = "none" => obj[i].pieces = {}
    /\ cur # 0 => obj[cur].status # "none"

\* The subscriber of one call: who is in the list of the publisher is not closed and
\* runs, unless its scheduler hung up; what it has in hand it has while it sends.
WatcherInv(w) ==
    /\ call[w].stage \in {"got", "confirming", "triggered", "watching"} => call[w].obj \in Objects
    /\ call[w].stage \in Registering => sub[w].stage = "none" /\ w \notin subs
    /\ w \in subs => /\ ~sub[w].closed /\ sub[w].stage \notin {"none", "snapStart", "snapSend"}
                     /\ sub[w].stage = "ended" => call[w].cancelled
    /\ sub[w].stage \notin {"sending", "snapSend"} => sub[w].todo = {}
    /\ sub[w].stage \in {"snapStart", "snapSend"} => sub[w].pieces = {} /\ call[w].obj \in Objects
    /\ sub[w].stage = "ended" /\ ~call[w].cancelled => sub[w].pieces = {}
    /\ Open(w) => w \in subs
    /\ w \in subs /\ Open(w) /\ cur # 0 => obj[cur].pieces \subseteq Heard(w)
    /\ w \in subs /\ Open(w) /\ mu.kind = "piece" /\ w \notin mu.todo => mu.piece \in Heard(w)

\* The publisher works on the subscribers in its list.
PublisherInv ==
    /\ mu # Free => mu.todo \subseteq subs
    /\ mu.kind = "piece" => mu.piece \in Pieces
    /\ mu.kind \in {"task", "close"} => subs \subseteq mu.todo
    /\ mu.kind = "task" => trig[mu.trig].stage \in {"FAILED", "SUCCESS"}

\* As long as one object is in use, a trigger goroutine means that it is RUNNING, and
\* is the only one.
Active(g) == trig[g].stage \notin {"none", "over"}
TriggersInv ==
    /\ \A g \in Triggers : Active(g) => trig[g].obj \in Objects
    /\ \A i \in Objects :
          (\A j \in Objects : j # i => obj[j].status = "none") =>
             /\ \A g \in Triggers : Active(g) => obj[i].status = "RUNNING"
             /\ \A g, h \in Triggers : Active(g) /\ Active(h) => g = h

SeedInv == /\ TypeOK /\ ObjectsInv /\ PublisherInv /\ TriggersInv
           /\ \A w \in Watchers : WatcherInv(w)

-----------------------------------------------------------------------------
\* A free lock is nobody's.
LEMMA FreeIs == Free.kind = "free" /\ Free \notin MuType
<1>1. ASSUME Free \in MuType PROVE FALSE
  <2>1. Free.kind \in {"piece", "task", "close"}
    BY <1>1 DEF MuType
  <2> QED BY <2>1 DEF Free
<1> QED BY <1>1 DEF Free

\* Who holds pm.mu publishes a piece, the end of the task, or closes.
LEMMA MuIs ==
    ASSUME TypeOK
    PROVE  /\ mu.kind \in {"piece", "task", "close"} => mu \in MuType /\ mu.trig \in Triggers
                                                          /\ mu.piece \in Pieces \cup {0}
           /\ mu.kind \in {"piece", "task", "close", "free"}
           /\ mu = Free => mu.kind = "free"
           /\ mu # Free => mu.kind \in {"piece", "task", "close"}
  BY FreeIs DEF TypeOK, MuType

\* A piece that is sent is in the channel, with those before it.
LEMMA ChanAppend ==
    ASSUME NEW c \in Seq(Pieces), NEW n \in Pieces
    PROVE  {Append(c, n)[i] : i \in DOMAIN Append(c, n)} = {c[i] : i \in DOMAIN c} \cup {n}
<1>1. DOMAIN c = 1..Len(c) /\ DOMAIN Append(c, n) = 1..(Len(c) + 1) /\ Len(c) \in Nat
  OBVIOUS
<1>2. Append(c, n)[Len(c) + 1] = n /\ \A i \in 1..Len(c) : Append(c, n)[i] = c[i]
  OBVIOUS
<1>3. \A i \in 1..(Len(c) + 1) : i \in 1..Len(c) \/ i = Len(c) + 1
  BY <1>1
<1>4. Len(c) + 1 \in 1..(Len(c) + 1) /\ \A i \in 1..Len(c) : i \in 1..(Len(c) + 1)
  BY <1>1
<1> QED BY <1>1, <1>2, <1>3, <1>4

\* A piece that is received is the only one taken from the channel.
LEMMA ChanTail ==
    ASSUME NEW c \in Seq(Pieces), c # <<>>
    PROVE  /\ Tail(c) \in Seq(Pieces) /\ Len(Tail(c)) = Len(c) - 1 /\ Head(c) \in Pieces
           /\ {c[i] : i \in DOMAIN c} \subseteq {Head(c)} \cup {Tail(c)[i] : i \in DOMAIN Tail(c)}
<1>1. /\ Tail(c) \in Seq(Pieces) /\ Len(Tail(c)) = Len(c) - 1 /\ Head(c) \in Pieces /\ Len(c) \in Nat \ {0}
      /\ Head(c) = c[1] /\ \A i \in 1..(Len(c) - 1) : Tail(c)[i] = c[i + 1]
  OBVIOUS
<1>2. DOMAIN c = 1..Len(c) /\ DOMAIN Tail(c) = 1..(Len(c) - 1)
  BY <1>1
<1>3. ASSUME NEW i \in 1..Len(c) PROVE c[i] \in {Head(c)} \cup {Tail(c)[j] : j \in 1..(Len(c) - 1)}
  <2>1. CASE i = 1
    BY <1>1, <2>1
  <2>2. CASE i # 1
    <3>1. i - 1 \in 1..(Len(c) - 1) /\ (i - 1) + 1 = i
      BY <1>1, <2>2
    <3> QED BY <1>1, <3>1
  <2> QED BY <2>1, <2>2
<1> QED BY <1>1, <1>2, <1>3

\* Every non-empty set of naturals has a least element.
LEMMA LeastNat ==
    ASSUME NEW S, S \subseteq Nat, S # {}
    PROVE  \E x \in S : \A y \in S : x <= y
<1>1. PICK x \in S : \A y \in S : <<y, x>> \notin OpToRel(<, Nat)
  BY NatLessThanWellFounded, WFMin
<1>2. OpToRel(<, Nat) = {p \in Nat \X Nat : p[1] < p[2]}
  BY Zenon DEF OpToRel
<1>3. ASSUME NEW y \in S PROVE x <= y
  <2>1. <<y, x>> \notin {p \in Nat \X Nat : p[1] < p[2]}
    BY <1>1, <1>2, Zenon
  <2> QED BY <2>1
<1> QED BY <1>3

\* readLoop sends the first of the pieces that wait.
LEMMA FirstPiece ==
    ASSUME NEW S \in SUBSET Pieces, S # {}
    PROVE  (CHOOSE m \in S : \A k \in S : m <= k) \in S
<1>1. S \subseteq Nat
  BY LimitsNat DEF Pieces
<1>2. \E m \in S : \A k \in S : m <= k
  BY <1>1, LeastNat
<1> QED BY <1>2

\* No object is numbered zero.
LEMMA ZeroIsNone == 0 \notin Objects
  BY LimitsNat DEF Objects

\* The invariant, for one watcher.
LEMMA Facts ==
    ASSUME SeedInv, NEW w \in Watchers
    PROVE  /\ WatcherInv(w) /\ TypeOK /\ call[w] \in CallType /\ sub[w] \in SubType
           /\ Len(sub[w].chan) <= Capacity
  BY DEF SeedInv, TypeOK

\* A step of the trigger goroutine g that publishes nothing.
LEMMA TriggerMoves ==
    ASSUME SeedInv, NEW g \in Triggers, NEW t \in TrigType, trig' = [trig EXCEPT ![g] = t],
           trig[g].stage \in {"waiting", "working"}, t.obj = trig[g].obj,
           t.stage \in {"working", "FAILED", "SUCCESS"},
           UNCHANGED <<obj, cur, call, sub, subs, mu, leaked>>
    PROVE  SeedInv'
<1>1. TypeOK /\ ObjectsInv /\ PublisherInv /\ TriggersInv
  BY DEF SeedInv
<1>2. trig' \in [Triggers -> TrigType] /\ trig'[g] = t /\ \A h \in Triggers : h # g => trig'[h] = trig[h]
  BY <1>1 DEF TypeOK
<1>3. TypeOK'
  BY <1>1, <1>2 DEF TypeOK
<1>4. ObjectsInv'
  BY <1>1 DEF ObjectsInv
<1>5. PublisherInv'
  <2>1. mu.kind = "task" => mu.trig # g /\ mu.trig \in Triggers
    BY <1>1, MuIs DEF PublisherInv
  <2> QED BY <1>1, <1>2, <2>1 DEF PublisherInv
<1>6. \A h \in Triggers : (Active(h) <=> Active(h)') /\ (trig[h].obj = trig'[h].obj)
  BY <1>2 DEF Active
<1>7. TriggersInv'
  BY <1>1, <1>6 DEF TriggersInv
<1>8. ASSUME NEW w \in Watchers PROVE WatcherInv(w)'
  BY Facts DEF WatcherInv, Heard, InChannel, Open
<1> QED BY <1>3, <1>4, <1>5, <1>7, <1>8 DEF SeedInv

\* The other steps of a trigger goroutine that publish nothing.
LEMMA TriggerOK ==
    ASSUME SeedInv, NEW g \in Triggers,
           Start(g) \/ (\E n \in Pieces : Read(g, n)) \/ SourceError(g) \/ WriteError(g) \/ Finish(g)
    PROVE  SeedInv'
<1>1. /\ trig \in [Triggers -> TrigType] /\ trig[g] \in TrigType
      /\ UNCHANGED <<obj, cur, call, sub, subs, mu, leaked>> /\ trig[g].stage \in {"waiting", "working"}
  BY DEF SeedInv, TypeOK, Start, Read, SourceError, WriteError, Finish
<1>2. ASSUME Start(g) PROVE SeedInv'
  <2> DEFINE t == [trig[g] EXCEPT !.stage = "working"]
  <2>1. trig' = [trig EXCEPT ![g] = t]
    BY <1>2 DEF Start
  <2>2. t \in TrigType /\ t.stage = "working" /\ t.obj = trig[g].obj
    BY <1>1 DEF TrigType
  <2> HIDE DEF t
  <2> QED BY <1>1, <2>1, <2>2, TriggerMoves
<1>3. ASSUME NEW n \in Pieces, Read(g, n) PROVE SeedInv'
  <2> DEFINE t == [trig[g] EXCEPT !.read = @ \cup {n}, !.inflight = @ \cup {n}]
  <2>1. trig' = [trig EXCEPT ![g] = t] /\ trig[g].stage = "working"
    BY <1>1, <1>3 DEF Read
  <2>2. t \in TrigType /\ t.stage = "working" /\ t.obj = trig[g].obj
    BY <1>1, <2>1 DEF TrigType
  <2> HIDE DEF t
  <2> QED BY <1>1, <2>1, <2>2, TriggerMoves
<1>4. ASSUME SourceError(g) PROVE SeedInv'
  <2> DEFINE t == [trig[g] EXCEPT !.stage = "FAILED", !.read = {}]
  <2>1. trig' = [trig EXCEPT ![g] = t]
    BY <1>1, <1>4 DEF SourceError
  <2>2. t \in TrigType /\ t.stage = "FAILED" /\ t.obj = trig[g].obj
    BY <1>1 DEF TrigType
  <2> HIDE DEF t
  <2> QED BY <1>1, <2>1, <2>2, TriggerMoves
<1>5. ASSUME WriteError(g) PROVE SeedInv'
  <2> DEFINE t == [trig[g] EXCEPT !.err = TRUE]
  <2>1. trig' = [trig EXCEPT ![g] = t] /\ trig[g].stage = "working"
    BY <1>5 DEF WriteError
  <2>2. t \in TrigType /\ t.stage = "working" /\ t.obj = trig[g].obj
    BY <1>1, <2>1 DEF TrigType
  <2> HIDE DEF t
  <2> QED BY <1>1, <2>1, <2>2, TriggerMoves
<1>6. ASSUME Finish(g) PROVE SeedInv'
  <2> DEFINE t == [trig[g] EXCEPT !.stage = "FAILED", !.read = {}, !.inflight = {}]
             u == [trig[g] EXCEPT !.stage = "SUCCESS", !.read = {}]
  <2>1. trig' = [trig EXCEPT ![g] = t] \/ trig' = [trig EXCEPT ![g] = u]
    BY <1>1, <1>6 DEF Finish
  <2>2. /\ t \in TrigType /\ t.stage = "FAILED" /\ t.obj = trig[g].obj
        /\ u \in TrigType /\ u.stage = "SUCCESS" /\ u.obj = trig[g].obj
    BY <1>1 DEF TrigType
  <2> HIDE DEF t, u
  <2> QED BY <1>1, <2>1, <2>2, TriggerMoves
<1> QED BY <1>2, <1>3, <1>4, <1>5, <1>6

-----------------------------------------------------------------------------
\* A step of the call w; the table and the objects may change with it.
LEMMA CallMoves ==
    ASSUME SeedInv, NEW w \in Watchers, NEW c \in CallType, call' = [call EXCEPT ![w] = c],
           UNCHANGED <<sub, subs, mu>>,
           obj' \in [Objects -> ObjectType], cur' \in Objects \cup {0}, leaked' \in BOOLEAN,
           trig' \in [Triggers -> TrigType], ObjectsInv', TriggersInv',
           \A g \in Triggers : Active(g) => trig'[g].stage = trig[g].stage,
           cur' # 0 => obj'[cur'].pieces = {} \/ (cur' = cur /\ obj'[cur].pieces \subseteq obj[cur].pieces),
           c.stage \in {"got", "confirming", "triggered", "watching"} => c.obj \in Objects,
           c.stage \in Registering => call[w].stage \in Registering,
           c.obj = call[w].obj \/ call[w].stage \in Registering,
           call[w].cancelled => c.cancelled, call[w].got \subseteq c.got
    PROVE  SeedInv'
<1>1. /\ TypeOK /\ PublisherInv /\ call' \in [Watchers -> CallType] /\ call'[w] = c
      /\ \A v \in Watchers : v # w => call'[v] = call[v]
  BY DEF SeedInv, TypeOK
<1>2. TypeOK'
  BY <1>1 DEF TypeOK
<1>3. PublisherInv'
  <2>1. mu.kind = "task" => mu.trig \in Triggers /\ Active(mu.trig)
    BY <1>1, MuIs DEF PublisherInv, Active
  <2> QED BY <1>1, <2>1 DEF PublisherInv
<1>4. ASSUME NEW v \in Watchers PROVE WatcherInv(v)'
  <2>1. WatcherInv(v) /\ sub'[v] = sub[v] /\ subs' = subs /\ mu' = mu
    BY Facts
  <2>2. Heard(v) \subseteq Heard(v)' /\ (Open(v) <=> Open(v)')
    <3>1. call[v].got \subseteq call'[v].got
      BY <1>1
    <3> QED BY <2>1, <3>1 DEF Heard, InChannel, Open
  <2>3. cur' # 0 => obj'[cur'].pieces = {} \/ (cur # 0 /\ obj'[cur'].pieces \subseteq obj[cur].pieces)
    OBVIOUS
  <2>4. v \in subs' /\ Open(v)' /\ cur' # 0 => obj'[cur'].pieces \subseteq Heard(v)'
    BY <2>1, <2>2, <2>3 DEF WatcherInv
  <2>5. v \in subs' /\ Open(v)' /\ mu'.kind = "piece" /\ v \notin mu'.todo => mu'.piece \in Heard(v)'
    BY <2>1, <2>2 DEF WatcherInv
  <2>6. /\ call'[v].stage \in {"got", "confirming", "triggered", "watching"} => call'[v].obj \in Objects
        /\ call'[v].stage \in Registering => call[v].stage \in Registering
        /\ call[v].cancelled => call'[v].cancelled
        /\ call'[v].obj = call[v].obj \/ call[v].stage \in Registering
    BY <1>1, <2>1 DEF WatcherInv
  <2> HIDE DEF Heard, Open
  <2>7. /\ call'[v].stage \in Registering => sub'[v].stage = "none" /\ v \notin subs'
        /\ v \in subs' => /\ ~sub'[v].closed /\ sub'[v].stage \notin {"none", "snapStart", "snapSend"}
                          /\ sub'[v].stage = "ended" => call'[v].cancelled
        /\ sub'[v].stage \notin {"sending", "snapSend"} => sub'[v].todo = {}
        /\ sub'[v].stage \in {"snapStart", "snapSend"} => sub'[v].pieces = {} /\ call'[v].obj \in Objects
        /\ sub'[v].stage = "ended" /\ ~call'[v].cancelled => sub'[v].pieces = {}
        /\ Open(v)' => v \in subs'
    BY <2>1, <2>2, <2>6 DEF WatcherInv
  <2> QED BY <2>4, <2>5, <2>6, <2>7 DEF WatcherInv
<1> QED BY <1>2, <1>3, <1>4 DEF SeedInv

\* Goto moves an ObtainSeeds call.
LEMMA GotoIs ==
    ASSUME TypeOK, NEW w \in Watchers, NEW l, Goto(w, l),
           l \in {"idle", "added", "got", "confirming", "triggered", "watching", "gone", "done", "error"}
    PROVE  \E c \in CallType : /\ call' = [call EXCEPT ![w] = c] /\ c.stage = l /\ c.obj = call[w].obj
                               /\ c.got = call[w].got /\ c.cancelled = call[w].cancelled
<1> DEFINE c == [call[w] EXCEPT !.stage = l]
<1>1. call[w] \in CallType
  BY DEF TypeOK
<1>2. /\ c \in CallType /\ c.stage = l /\ c.obj = call[w].obj
      /\ c.got = call[w].got /\ c.cancelled = call[w].cancelled
  BY <1>1 DEF CallType
<1>3. call' = [call EXCEPT ![w] = c]
  BY DEF Goto
<1> QED BY <1>2, <1>3

\* Nothing but the call moves.
LEMMA CallOnly ==
    ASSUME SeedInv, NEW w \in Watchers, NEW c \in CallType, call' = [call EXCEPT ![w] = c],
           UNCHANGED <<obj, trig, sub, subs, mu>>, cur' \in {cur, 0}, leaked' \in BOOLEAN,
           c.stage \in {"got", "confirming", "triggered", "watching"} => c.obj \in Objects,
           c.stage \in Registering => call[w].stage \in Registering,
           c.obj = call[w].obj \/ call[w].stage \in Registering,
           call[w].cancelled => c.cancelled, call[w].got \subseteq c.got
    PROVE  SeedInv'
<1>1. TypeOK /\ ObjectsInv /\ TriggersInv
  BY DEF SeedInv
<1>2. ObjectsInv'
  BY <1>1 DEF ObjectsInv
<1>3. TriggersInv'
  BY <1>1 DEF TriggersInv, Active
<1>4. obj' \in [Objects -> ObjectType] /\ cur' \in Objects \cup {0} /\ trig' \in [Triggers -> TrigType]
  BY <1>1 DEF TypeOK
<1>5. cur' # 0 => cur' = cur /\ obj'[cur].pieces \subseteq obj[cur].pieces
  OBVIOUS
<1>6. \A g \in Triggers : Active(g) => trig'[g].stage = trig[g].stage
  OBVIOUS
<1> QED BY <1>2, <1>3, <1>4, <1>5, <1>6, CallMoves

\* The steps of a registration that change no object.
LEMMA RegisterOK ==
    ASSUME SeedInv, NEW w \in Watchers, Get(w) \/ Lacked(w) \/ Check(w) \/ Reply(w) \/ Hangup(w)
    PROVE  SeedInv'
<1>1. /\ TypeOK /\ WatcherInv(w) /\ call[w] \in CallType
      /\ UNCHANGED <<obj, trig, sub, subs, mu>> /\ cur' = cur /\ leaked' \in BOOLEAN
  BY Facts DEF Get, Lacked, Check, Reply, Hangup, TypeOK
<1>2. ASSUME Get(w) PROVE SeedInv'
  <2> DEFINE l == IF cur = 0 THEN "error" ELSE "got"
             c == [[call[w] EXCEPT !.stage = l] EXCEPT !.obj = cur]
  <2>1. call' = [call EXCEPT ![w] = c] /\ call[w].stage = "added"
    BY <1>1, <1>2 DEF Get, TypeOK
  <2>2. /\ c \in CallType /\ c.stage = l /\ c.obj = cur
        /\ c.got = call[w].got /\ c.cancelled = call[w].cancelled
    BY <1>1 DEF CallType, TypeOK
  <2>3. l = "got" => cur \in Objects
    BY <1>1 DEF TypeOK
  <2>4. l \in {"error", "got"}
    OBVIOUS
  <2> HIDE DEF c, l
  <2> QED BY <1>1, <2>1, <2>2, <2>3, <2>4, CallOnly DEF Registering
<1>3. ASSUME Lacked(w) PROVE SeedInv'
  <2>1. PICK c \in CallType : /\ call' = [call EXCEPT ![w] = c] /\ c.stage = "error" /\ c.obj = call[w].obj
                              /\ c.got = call[w].got /\ c.cancelled = call[w].cancelled
    BY <1>1, <1>3, GotoIs DEF Lacked
  <2> QED BY <1>1, <2>1, CallOnly DEF Registering
<1>4. ASSUME Check(w) PROVE SeedInv'
  <2>1. PICK l \in {"confirming", "triggered"} : Goto(w, l)
    BY <1>4 DEF Check
  <2>2. PICK c \in CallType : /\ call' = [call EXCEPT ![w] = c] /\ c.stage = l /\ c.obj = call[w].obj
                              /\ c.got = call[w].got /\ c.cancelled = call[w].cancelled
    BY <1>1, <2>1, GotoIs
  <2>3. call[w].stage = "got" /\ call[w].obj \in Objects
    BY <1>1, <1>4 DEF Check, WatcherInv
  <2> QED BY <1>1, <2>2, <2>3, CallOnly DEF Registering
<1>5. ASSUME Reply(w) PROVE SeedInv'
  <2>1. PICK l \in {"done", "error"} : Goto(w, l)
    BY <1>5 DEF Reply
  <2>2. PICK c \in CallType : /\ call' = [call EXCEPT ![w] = c] /\ c.stage = l /\ c.obj = call[w].obj
                              /\ c.got = call[w].got /\ c.cancelled = call[w].cancelled
    BY <1>1, <2>1, GotoIs
  <2> QED BY <1>1, <2>2, CallOnly DEF Registering
<1>6. ASSUME Hangup(w) PROVE SeedInv'
  <2> DEFINE c == [call[w] EXCEPT !.cancelled = TRUE]
  <2>1. call' = [call EXCEPT ![w] = c] /\ call[w].stage = "watching" /\ call[w].obj \in Objects
    BY <1>1, <1>6 DEF Hangup, WatcherInv
  <2>2. /\ c \in CallType /\ c.stage = call[w].stage /\ c.obj = call[w].obj
        /\ c.got = call[w].got /\ c.cancelled
    BY <1>1 DEF CallType
  <2> HIDE DEF c
  <2> QED BY <1>1, <2>1, <2>2, CallOnly DEF Registering
<1> QED BY <1>2, <1>3, <1>4, <1>5, <1>6

\* A new object has no pieces, and no trigger goroutine works while there is no other.
LEMMA LoadOrStoreIs ==
    ASSUME SeedInv, LoadOrStore, UNCHANGED trig
    PROVE  /\ obj' \in [Objects -> ObjectType] /\ cur' \in Objects \cup {0}
           /\ ObjectsInv' /\ TriggersInv'
           /\ cur' # 0 => obj'[cur'].pieces = {} \/ (cur' = cur /\ obj'[cur].pieces \subseteq obj[cur].pieces)
<1>1. TypeOK /\ ObjectsInv /\ TriggersInv
  BY DEF SeedInv
<1>2. CASE UNCHANGED <<obj, cur>>
  BY <1>1, <1>2 DEF TypeOK, ObjectsInv, TriggersInv, Active
<1>3. CASE ~UNCHANGED <<obj, cur>>
  <2>1. PICK i \in Objects : obj[i].status = "none" /\ cur' = i
                             /\ obj' = [obj EXCEPT ![i].status = "WAITING"]
    BY <1>3 DEF LoadOrStore
  <2> DEFINE o == [obj[i] EXCEPT !.status = "WAITING"]
  <2>2. o \in ObjectType /\ o.status = "WAITING" /\ o.pieces = {}
    BY <1>1, <2>1 DEF TypeOK, ObjectType, ObjectsInv
  <2>3. obj' = [obj EXCEPT ![i] = o]
    BY <2>1
  <2> HIDE DEF o
  <2>4. /\ obj' \in [Objects -> ObjectType] /\ obj'[i] = o
        /\ \A j \in Objects : j # i => obj'[j] = obj[j]
    BY <1>1, <2>2, <2>3 DEF TypeOK
  <2>5. ObjectsInv'
    BY <1>1, <2>1, <2>2, <2>4 DEF ObjectsInv
  <2>6. ASSUME NEW k \in Objects, \A j \in Objects : j # k => obj'[j].status = "none"
        PROVE  \A g \in Triggers : ~Active(g)
    <3>1. k = i
      BY <2>2, <2>4, <2>6
    <3>2. \A j \in Objects : j # i => obj[j].status = "none"
      BY <2>4, <2>6, <3>1
    <3> QED BY <1>1, <2>1, <3>2 DEF TriggersInv
  <2>7. \A g \in Triggers : Active(g)' <=> Active(g)
    BY DEF Active
  <2>8. TriggersInv'
    BY <1>1, <2>6, <2>7 DEF TriggersInv
  <2> QED BY <2>1, <2>2, <2>4, <2>5, <2>8
<1> QED BY <1>2, <1>3

\* AddOrUpdate makes an object, which has no pieces and no trigger.
LEMMA AddOK ==
    ASSUME SeedInv, NEW w \in Watchers, AddOrUpdate(w) \/ Unreachable(w)
    PROVE  SeedInv'
<1>1. /\ TypeOK /\ UNCHANGED <<sub, subs, trig, mu, leaked>> /\ call[w].stage = "idle" /\ LoadOrStore
  BY DEF SeedInv, AddOrUpdate, Unreachable
<1>2. PICK l \in {"added", "error"} : Goto(w, l)
  BY DEF AddOrUpdate, Unreachable
<1>3. PICK c \in CallType : /\ call' = [call EXCEPT ![w] = c] /\ c.stage = l /\ c.obj = call[w].obj
                            /\ c.got = call[w].got /\ c.cancelled = call[w].cancelled
  BY <1>1, <1>2, GotoIs
<1>4. leaked' \in BOOLEAN /\ trig' \in [Triggers -> TrigType]
  BY <1>1 DEF TypeOK
<1>5. \A g \in Triggers : Active(g) => trig'[g].stage = trig[g].stage
  BY <1>1
<1>6. call[w].stage \in Registering
  BY <1>1 DEF Registering
<1>7. /\ obj' \in [Objects -> ObjectType] /\ cur' \in Objects \cup {0}
      /\ ObjectsInv' /\ TriggersInv'
      /\ cur' # 0 => obj'[cur'].pieces = {} \/ (cur' = cur /\ obj'[cur].pieces \subseteq obj[cur].pieces)
  BY <1>1, LoadOrStoreIs
<1> QED BY <1>1, <1>3, <1>4, <1>5, <1>6, <1>7, CallMoves

\* The write lock makes the second look decide: a frozen object has no goroutine.
LEMMA ConfirmOK ==
    ASSUME SeedInv, NEW w \in Watchers, Confirm(w)
    PROVE  SeedInv'
<1>1. /\ TypeOK /\ ObjectsInv /\ TriggersInv /\ WatcherInv(w) /\ UNCHANGED <<cur, sub, subs, mu, leaked>>
      /\ call[w].stage = "confirming" /\ Goto(w, "triggered")
  BY Facts DEF SeedInv, Confirm
<1>2. call[w].obj \in Objects /\ call[w].stage \in Registering
  BY <1>1 DEF WatcherInv, Registering
<1>3. PICK c \in CallType : /\ call' = [call EXCEPT ![w] = c] /\ c.stage = "triggered" /\ c.obj = call[w].obj
                            /\ c.got = call[w].got /\ c.cancelled = call[w].cancelled
  BY <1>1, GotoIs
<1>4. CASE UNCHANGED <<obj, trig>>
  <2>1. cur' \in {cur, 0} /\ leaked' \in BOOLEAN
    BY <1>1 DEF TypeOK
  <2> QED BY <1>1, <1>2, <1>3, <1>4, <2>1, CallOnly
<1>5. CASE ~UNCHANGED <<obj, trig>>
  <2> DEFINE i == call[w].obj
             o == [status |-> "RUNNING", pieces |-> {}]
  <2>1. PICK g \in Triggers : /\ trig[g].stage = "none" /\ NeedsTrigger(w)
                              /\ trig' = [trig EXCEPT ![g].stage = "waiting", ![g].obj = i]
                              /\ obj' = [obj EXCEPT ![i] = o]
    BY <1>5 DEF Confirm
  <2> DEFINE t == [[trig[g] EXCEPT !.stage = "waiting"] EXCEPT !.obj = i]
  <2>2. trig' = [trig EXCEPT ![g] = t]
    BY <1>1, <2>1 DEF TypeOK
  <2>3. t \in TrigType /\ t.stage = "waiting" /\ t.obj = i
    <3>1. trig[g] \in TrigType
      BY <1>1 DEF TypeOK
    <3> QED BY <1>2, <3>1 DEF TrigType
  <2>4. o \in ObjectType /\ o.status = "RUNNING" /\ o.pieces = {}
    BY DEF ObjectType
  <2>5. obj[i].status \in {"WAITING", "FAILED"}
    BY <2>1 DEF NeedsTrigger, IsFrozen
  <2> HIDE DEF t, o, i
  <2>6. i \in Objects
    BY <1>2 DEF i
  <2>7. /\ trig' \in [Triggers -> TrigType] /\ trig'[g] = t
        /\ \A h \in Triggers : h # g => trig'[h] = trig[h]
    BY <1>1, <2>2, <2>3 DEF TypeOK
  <2>8. /\ obj' \in [Objects -> ObjectType] /\ obj'[i] = o
        /\ \A j \in Objects : j # i => obj'[j] = obj[j]
    BY <1>1, <2>1, <2>4, <2>6 DEF TypeOK
  <2>9. ObjectsInv'
    BY <1>1, <2>4, <2>5, <2>6, <2>8 DEF ObjectsInv, TypeOK
  <2>10. \A h \in Triggers : Active(h) => h # g /\ trig'[h] = trig[h]
    BY <2>1, <2>7 DEF Active
  <2>11. \A h \in Triggers : Active(h)' => h = g \/ (Active(h) /\ trig'[h] = trig[h])
    BY <2>7 DEF Active
  <2>12. ASSUME NEW k \in Objects, \A j \in Objects : j # k => obj'[j].status = "none"
         PROVE  k = i /\ \A h \in Triggers : ~Active(h)
    <3>1. k = i
      BY <2>4, <2>6, <2>8, <2>12
    <3>2. \A j \in Objects : j # i => obj[j].status = "none"
      BY <2>8, <2>12, <3>1
    <3> QED BY <1>1, <2>5, <2>6, <3>1, <3>2 DEF TriggersInv
  <2>13. TriggersInv'
    <3>1. \A h \in Triggers : Active(h)' => trig'[h].obj \in Objects
      BY <1>1, <2>3, <2>6, <2>7, <2>11 DEF TriggersInv
    <3>2. ASSUME NEW k \in Objects, \A j \in Objects : j # k => obj'[j].status = "none"
          PROVE  /\ \A h \in Triggers : Active(h)' => obj'[k].status = "RUNNING"
                 /\ \A f, h \in Triggers : Active(f)' /\ Active(h)' => f = h
      BY <2>4, <2>8, <2>11, <2>12, <3>2
    <3> QED BY <3>1, <3>2 DEF TriggersInv
  <2>14. cur' # 0 => cur' = cur /\ obj'[cur].pieces \subseteq obj[cur].pieces
    BY <1>1, <2>4, <2>8 DEF TypeOK
  <2>15. cur' \in Objects \cup {0} /\ leaked' \in BOOLEAN
    BY <1>1 DEF TypeOK
  <2>16. \A h \in Triggers : Active(h) => trig'[h].stage = trig[h].stage
    BY <2>10
  <2>17. UNCHANGED <<sub, subs, mu>>
    BY <1>1
  <2> QED BY <1>2, <1>3, <2>7, <2>8, <2>9, <2>13, <2>14, <2>15, <2>16, <2>17, CallMoves
<1> QED BY <1>4, <1>5

-----------------------------------------------------------------------------
\* A step of w's call and subscriber disturbs what holds of w alone.
LEMMA SubMoves ==
    ASSUME SeedInv, NEW w \in Watchers, NEW c \in CallType, call' = [call EXCEPT ![w] = c],
           NEW s \in SubType, Len(s.chan) <= Capacity, sub' = [sub EXCEPT ![w] = s],
           subs' = subs \/ (subs' = subs \cup {w} /\ mu = Free),
           UNCHANGED <<obj, cur, trig, mu, leaked>>,
           (call'[w] = c /\ sub'[w] = s) => WatcherInv(w)'
    PROVE  SeedInv'
<1>1. TypeOK /\ ObjectsInv /\ PublisherInv /\ TriggersInv
  BY DEF SeedInv
<1>2. /\ call' \in [Watchers -> CallType] /\ call'[w] = c
      /\ \A v \in Watchers : v # w => call'[v] = call[v]
  BY <1>1 DEF TypeOK
<1>3. /\ sub' \in [Watchers -> SubType] /\ sub'[w] = s
      /\ \A v \in Watchers : v # w => sub'[v] = sub[v]
  BY <1>1 DEF TypeOK
<1>4. \A v \in Watchers : Len(sub'[v].chan) <= Capacity
  BY <1>1, <1>3 DEF TypeOK
<1>5. TypeOK'
  BY <1>1, <1>2, <1>3, <1>4 DEF TypeOK
<1>6. ObjectsInv' /\ TriggersInv'
  BY <1>1 DEF ObjectsInv, TriggersInv, Active
<1>7. PublisherInv'
  BY <1>1, FreeIs DEF PublisherInv
<1>8. ASSUME NEW v \in Watchers PROVE WatcherInv(v)'
  <2>1. CASE v = w
    BY <1>2, <1>3, <2>1
  <2>2. CASE v # w
    <3>1. WatcherInv(v) /\ call'[v] = call[v] /\ sub'[v] = sub[v] /\ (v \in subs' <=> v \in subs)
      BY <1>2, <1>3, <2>2, Facts
    <3> QED BY <3>1 DEF WatcherInv, Heard, InChannel, Open
  <2> QED BY <2>1, <2>2
<1> QED BY <1>5, <1>6, <1>7, <1>8 DEF SeedInv

\* readLoop moves: it loses no piece, and it ends cancelled or drained.
Looping == {"top", "tested", "waiting", "woken", "sending"}
\* A step of readLoop that loses no piece.
LEMMA ReaderMoves ==
    ASSUME SeedInv, NEW w \in Watchers, NEW s \in SubType, Len(s.chan) <= Capacity,
           SetSub(w, s), ReaderFrame,
           sub[w].stage \in Looping, s.stage \in Looping \cup {"ended"}, s.closed = sub[w].closed,
           s.stage # "sending" => s.todo = {},
           s.stage = "ended" => call[w].cancelled \/ (s.closed /\ s.pieces = {}),
           InChannel(w) \cup sub[w].pieces \subseteq {s.chan[i] : i \in DOMAIN s.chan} \cup s.pieces
    PROVE  SeedInv'
<1>1. WatcherInv(w) /\ TypeOK /\ call[w] \in CallType
  BY Facts
<1>2. /\ UNCHANGED <<obj, cur, call, subs, trig, mu, leaked>> /\ sub' = [sub EXCEPT ![w] = s]
      /\ call' = [call EXCEPT ![w] = call[w]]
  BY <1>1 DEF SetSub, ReaderFrame, TypeOK
<1>3. ASSUME sub'[w] = s PROVE WatcherInv(w)'
  <2>1. call[w].stage \notin Registering
    BY <1>1 DEF WatcherInv, Looping
  <2>2. Heard(w) \subseteq Heard(w)'
    BY <1>2, <1>3 DEF Heard, InChannel
  <2>3. Open(w)' => Open(w)
    BY <1>2, <1>3 DEF Open, Looping
  <2>4. w \in subs' /\ Open(w)' /\ cur' # 0 => obj'[cur'].pieces \subseteq Heard(w)'
    BY <1>1, <1>2, <2>2, <2>3 DEF WatcherInv
  <2>5. w \in subs' /\ Open(w)' /\ mu'.kind = "piece" /\ w \notin mu'.todo => mu'.piece \in Heard(w)'
    BY <1>1, <1>2, <2>2, <2>3 DEF WatcherInv
  <2>6. Open(w)' => w \in subs'
    BY <1>1, <1>2, <2>3 DEF WatcherInv
  <2>7. /\ s.stage \notin {"none", "snapStart", "snapSend"} /\ (s.stage \notin {"sending", "snapSend"} => s.todo = {})
        /\ w \in subs => ~s.closed
    BY <1>1 DEF WatcherInv, Looping
  <2> HIDE DEF Heard, Open
  <2> QED BY <1>1, <1>2, <1>3, <2>1, <2>4, <2>5, <2>6, <2>7 DEF WatcherInv
<1> QED BY <1>1, <1>2, <1>3, SubMoves

\* readLoop with the lock of its subscriber: it will wait, or send what there is.
LEMMA LockedIs ==
    ASSUME NEW r \in SubType, r.todo = {}
    PROVE  /\ Locked(r) \in SubType /\ Locked(r).stage \in {"tested", "sending"}
           /\ Locked(r).closed = r.closed /\ Locked(r).chan = r.chan /\ Locked(r).pieces = r.pieces
           /\ Locked(r).stage = "tested" => Locked(r).todo = {}
<1>1. CASE r.pieces = {} /\ ~r.closed
  <2> DEFINE s == [r EXCEPT !.stage = "tested"]
  <2>1. Locked(r) = s
    BY <1>1 DEF Locked
  <2>2. s \in SubType /\ s.stage = "tested" /\ s.closed = r.closed /\ s.chan = r.chan
        /\ s.pieces = r.pieces /\ s.todo = r.todo
    BY DEF SubType, SubStages, LockStages
  <2> QED BY <2>1, <2>2
<1>2. CASE ~(r.pieces = {} /\ ~r.closed)
  <2> DEFINE s == [r EXCEPT !.stage = "sending", !.todo = r.pieces]
  <2>1. Locked(r) = s
    BY <1>2 DEF Locked
  <2>2. s \in SubType /\ s.stage = "sending" /\ s.closed = r.closed /\ s.chan = r.chan
        /\ s.pieces = r.pieces
    BY DEF SubType, SubStages, LockStages
  <2> QED BY <2>1, <2>2
<1> QED BY <1>1, <1>2

\* The steps of readLoop.
LEMMA ReaderOK ==
    ASSUME SeedInv, NEW w \in Watchers, Select(w) \/ Wait(w) \/ Wake(w) \/ SendPiece(w)
    PROVE  SeedInv'
<1>1. WatcherInv(w) /\ TypeOK /\ sub[w] \in SubType /\ Len(sub[w].chan) <= Capacity /\ ReaderFrame
  BY Facts DEF Select, Wait, Wake, SendPiece
<1>2. ASSUME sub[w].stage \in {"top", "woken"}, SetSub(w, Locked(sub[w])) PROVE SeedInv'
  <2> DEFINE s == Locked(sub[w])
  <2>1. sub[w].todo = {} /\ sub[w].stage \in Looping
    BY <1>1, <1>2 DEF WatcherInv, Looping
  <2>2. /\ s \in SubType /\ s.stage \in {"tested", "sending"}
        /\ s.closed = sub[w].closed /\ s.chan = sub[w].chan /\ s.pieces = sub[w].pieces
        /\ s.stage = "tested" => s.todo = {}
    BY <1>1, <2>1, LockedIs
  <2>3. SetSub(w, s)
    BY <1>2
  <2> HIDE DEF s
  <2>4. InChannel(w) \cup sub[w].pieces \subseteq {s.chan[i] : i \in DOMAIN s.chan} \cup s.pieces
    BY <2>2 DEF InChannel
  <2>5. s.stage \in Looping /\ s.stage # "ended" /\ (s.stage # "sending" => s.todo = {})
    BY <2>2 DEF Looping
  <2>6. Len(s.chan) <= Capacity
    BY <1>1, <2>2
  <2> QED BY <1>1, <2>1, <2>2, <2>3, <2>4, <2>5, <2>6, ReaderMoves
<1>3. ASSUME NEW l \in {"ended", "waiting", "top"}, SetSub(w, [sub[w] EXCEPT !.stage = l]),
             sub[w].stage \in Looping, sub[w].todo = {},
             l = "ended" => call[w].cancelled \/ (sub[w].closed /\ sub[w].pieces = {})
      PROVE  SeedInv'
  <2> DEFINE s == [sub[w] EXCEPT !.stage = l]
  <2>1. /\ s \in SubType /\ s.stage = l /\ s.todo = {} /\ s.closed = sub[w].closed
        /\ s.chan = sub[w].chan /\ s.pieces = sub[w].pieces
    BY <1>1, <1>3 DEF SubType, SubStages
  <2>2. SetSub(w, s)
    BY <1>3
  <2> HIDE DEF s
  <2>3. InChannel(w) \cup sub[w].pieces \subseteq {s.chan[i] : i \in DOMAIN s.chan} \cup s.pieces
    BY <2>1 DEF InChannel
  <2>4. s.stage \in Looping \cup {"ended"}
    BY <2>1, <1>3 DEF Looping
  <2>5. Len(s.chan) <= Capacity
    BY <1>1, <2>1
  <2>6. s.stage = "ended" => call[w].cancelled \/ (s.closed /\ s.pieces = {})
    BY <1>3, <2>1
  <2> QED BY <1>1, <1>3, <2>1, <2>2, <2>3, <2>4, <2>5, <2>6, ReaderMoves
<1>4. CASE Select(w)
  <2>1. sub[w].stage = "top" /\ sub[w].todo = {} /\ sub[w].stage \in Looping
    BY <1>1, <1>4 DEF Select, WatcherInv, Looping
  <2>2. CASE SetSub(w, Locked(sub[w]))
    BY <1>2, <2>1, <2>2
  <2>3. CASE SetSub(w, [sub[w] EXCEPT !.stage = "ended"]) /\ (call[w].cancelled \/ Drained(w))
    BY <1>3, <2>1, <2>3 DEF Drained
  <2> QED BY <1>4, <2>2, <2>3 DEF Select
<1>5. CASE Wait(w)
  <2>1. sub[w].todo = {} /\ sub[w].stage \in Looping
    BY <1>1, <1>5 DEF Wait, WatcherInv, Looping
  <2> QED BY <1>3, <1>5, <2>1 DEF Wait
<1>6. CASE Wake(w)
  BY <1>2, <1>6 DEF Wake
<1>7. CASE SendPiece(w)
  <2> DEFINE n == CHOOSE m \in sub[w].todo : \A k \in sub[w].todo : m <= k
             s == [sub[w] EXCEPT !.chan = Append(@, n), !.todo = @ \ {n}, !.pieces = @ \ {n}]
  <2>1. sub[w].stage = "sending" /\ sub[w].stage \in Looping
    BY <1>7 DEF SendPiece, Looping
  <2>2. CASE sub[w].todo = {}
    <3>1. SetSub(w, [sub[w] EXCEPT !.stage = "top"])
      BY <1>7, <2>2 DEF SendPiece
    <3> QED BY <1>3, <2>1, <2>2, <3>1
  <2>3. CASE sub[w].todo # {}
    <3>1. SetSub(w, s) /\ Room(w)
      BY <1>7, <2>3 DEF SendPiece
    <3>2. sub[w].todo \in SUBSET Pieces /\ sub[w].chan \in Seq(Pieces)
      BY <1>1 DEF SubType
    <3>3. n \in sub[w].todo
      BY <2>3, <3>2, FirstPiece
    <3> HIDE DEF n
    <3>4. n \in Pieces /\ Append(sub[w].chan, n) \in Seq(Pieces)
      BY <3>2, <3>3
    <3>5. /\ s \in SubType /\ s.stage = "sending" /\ s.closed = sub[w].closed
          /\ s.chan = Append(sub[w].chan, n) /\ s.pieces = sub[w].pieces \ {n}
      BY <1>1, <2>1, <3>4 DEF SubType
    <3> HIDE DEF s
    <3>6. {s.chan[i] : i \in DOMAIN s.chan} = InChannel(w) \cup {n}
      <4>1. {Append(sub[w].chan, n)[i] : i \in DOMAIN Append(sub[w].chan, n)} = InChannel(w) \cup {n}
        BY <3>2, <3>4, ChanAppend, Zenon DEF InChannel
      <4> QED BY <3>5, <4>1, Zenon
    <3>7. InChannel(w) \cup sub[w].pieces \subseteq {s.chan[i] : i \in DOMAIN s.chan} \cup s.pieces
      BY <3>5, <3>6
    <3>8. Len(s.chan) <= Capacity
      <4>1. Len(s.chan) = Len(sub[w].chan) + 1 /\ Len(sub[w].chan) \in Nat
        BY <3>2, <3>4, <3>5
      <4> QED BY <3>1, <4>1, LimitsNat DEF Room
    <3>9. s.stage \in Looping /\ s.stage # "ended" /\ (s.stage # "sending" => s.todo = {})
      BY <3>5 DEF Looping
    <3> QED BY <1>1, <2>1, <3>1, <3>5, <3>7, <3>8, <3>9, ReaderMoves
  <2> QED BY <2>2, <2>3
<1> QED BY <1>4, <1>5, <1>6, <1>7

\* The pieces that were there when the watch began are sent first.
LEMMA SnapOK ==
    ASSUME SeedInv, NEW w \in Watchers, SnapStart(w) \/ SnapSend(w)
    PROVE  SeedInv'
<1>1. WatcherInv(w) /\ TypeOK /\ sub[w] \in SubType /\ Len(sub[w].chan) <= Capacity /\ call[w] \in CallType
  BY Facts
<1>2. /\ sub[w].stage \in {"snapStart", "snapSend"} /\ UNCHANGED <<obj, cur, subs, trig, mu, leaked>>
      /\ w \notin subs /\ sub[w].pieces = {} /\ call[w].stage \notin Registering /\ call[w].obj \in Objects
  BY <1>1 DEF SnapStart, SnapSend, ReaderFrame, WatcherInv
<1>3. ASSUME NEW s \in SubType, s.stage \in {"snapSend", "ended"}, s.pieces = {}, s.chan = sub[w].chan,
             s.stage = "ended" => s.todo = {}, sub' = [sub EXCEPT ![w] = s],
             NEW c \in CallType, c.stage \notin Registering, call' = [call EXCEPT ![w] = c],
             c.obj = call[w].obj
      PROVE  SeedInv'
  <2>1. ASSUME call'[w] = c, sub'[w] = s PROVE WatcherInv(w)'
    <3>1. ~Open(w)' /\ w \notin subs'
      BY <1>2, <1>3, <2>1 DEF Open
    <3>2. call'[w].obj \in Objects
      BY <1>2, <1>3, <2>1
    <3> HIDE DEF Open
    <3> QED BY <1>3, <2>1, <3>1, <3>2 DEF WatcherInv
  <2>2. Len(s.chan) <= Capacity
    BY <1>1, <1>3
  <2> QED BY <1>2, <1>3, <2>1, <2>2, SubMoves
<1>4. ASSUME UNCHANGED call PROVE call' = [call EXCEPT ![w] = call[w]]
  BY <1>1, <1>4 DEF TypeOK
<1>5. CASE SnapStart(w)
  <2> DEFINE s == [sub[w] EXCEPT !.stage = "snapSend", !.todo = obj[call[w].obj].pieces]
  <2>1. sub' = [sub EXCEPT ![w] = s] /\ UNCHANGED call
    BY <1>5 DEF SnapStart, SetSub, ReaderFrame
  <2>2. obj[call[w].obj].pieces \in SUBSET Pieces
    BY <1>1, <1>2 DEF TypeOK, ObjectType
  <2>3. s \in SubType /\ s.stage = "snapSend" /\ s.pieces = {} /\ s.chan = sub[w].chan
    BY <1>1, <1>2, <2>2 DEF SubType, SubStages
  <2> HIDE DEF s
  <2> QED BY <1>1, <1>2, <1>3, <1>4, <2>1, <2>3
<1>6. CASE SnapSend(w)
  <2> DEFINE n == CHOOSE m \in sub[w].todo : \A k \in sub[w].todo : m <= k
  <2>1. CASE sub[w].todo = {}
    <3> DEFINE s == [sub[w] EXCEPT !.stage = "ended"]
    <3>1. sub' = [sub EXCEPT ![w] = s] /\ UNCHANGED call
      BY <1>6, <2>1 DEF SnapSend, SetSub
    <3>2. s \in SubType /\ s.stage = "ended" /\ s.pieces = {} /\ s.chan = sub[w].chan /\ s.todo = {}
      BY <1>1, <1>2, <2>1 DEF SubType, SubStages
    <3> HIDE DEF s
    <3> QED BY <1>1, <1>2, <1>3, <1>4, <3>1, <3>2
  <2>2. CASE sub[w].todo # {}
    <3>1. sub[w].todo \in SUBSET Pieces
      BY <1>1 DEF SubType
    <3>2. n \in sub[w].todo
      BY <2>2, <3>1, FirstPiece
    <3> DEFINE s == [sub[w] EXCEPT !.todo = @ \ {n}]
               l == IF call[w].cancelled THEN "gone" ELSE call[w].stage
               c == [[call[w] EXCEPT !.got = @ \cup {n}] EXCEPT !.stage = l]
               e == [call[w] EXCEPT !.stage = "error"]
    <3>3. /\ sub' = [sub EXCEPT ![w] = s] /\ call[w].stage = "watching" /\ sub[w].stage = "snapSend"
          /\ call' = [call EXCEPT ![w] = c] \/ call' = [call EXCEPT ![w] = e]
      BY <1>1, <1>6, <2>2 DEF SnapSend, SetSub, TypeOK
    <3> HIDE DEF n
    <3>4. s \in SubType /\ s.stage = "snapSend" /\ s.pieces = {} /\ s.chan = sub[w].chan
      BY <1>1, <1>2, <3>1, <3>3 DEF SubType, SubStages
    <3>5. l \in {"gone", "watching"}
      BY <3>3
    <3> HIDE DEF l
    <3>6. /\ c \in CallType /\ c.stage = l /\ c.obj = call[w].obj
          /\ e \in CallType /\ e.stage = "error" /\ e.obj = call[w].obj
      BY <1>1, <3>1, <3>2, <3>5 DEF CallType
    <3> HIDE DEF s, c, e
    <3>7. c.stage \notin Registering /\ e.stage \notin Registering
      BY <3>5, <3>6 DEF Registering
    <3> QED BY <1>3, <3>3, <3>4, <3>6, <3>7
  <2> QED BY <2>1, <2>2
<1> QED BY <1>5, <1>6

\* The consumer takes what leaves the channel.
LEMMA ReceiveOK ==
    ASSUME SeedInv, NEW w \in Watchers, Receive(w)
    PROVE  SeedInv'
<1>1. WatcherInv(w) /\ TypeOK /\ sub[w] \in SubType /\ Len(sub[w].chan) <= Capacity /\ call[w] \in CallType
  BY Facts
<1>2. /\ UNCHANGED <<obj, cur, subs, trig, mu, leaked>> /\ call[w].stage = "watching" /\ sub[w].chan # <<>>
      /\ call[w].obj \in Objects
  BY <1>1 DEF Receive, WatcherInv
<1> DEFINE h == Head(sub[w].chan)
           l == IF call[w].cancelled THEN "gone" ELSE call[w].stage
           c == [[call[w] EXCEPT !.got = @ \cup {h}] EXCEPT !.stage = l]
           s == [sub[w] EXCEPT !.chan = Tail(@)]
<1>3. call' = [call EXCEPT ![w] = c] /\ sub' = [sub EXCEPT ![w] = s]
  BY <1>1 DEF Receive, SetSub, TypeOK
<1>4. l \in {"gone", "watching"}
  BY <1>2
<1>5. sub[w].chan \in Seq(Pieces)
  BY <1>1 DEF SubType
<1>6. /\ Tail(sub[w].chan) \in Seq(Pieces) /\ Len(Tail(sub[w].chan)) = Len(sub[w].chan) - 1 /\ h \in Pieces
      /\ InChannel(w) \subseteq {h} \cup {Tail(sub[w].chan)[i] : i \in DOMAIN Tail(sub[w].chan)}
  BY <1>2, <1>5, ChanTail DEF InChannel
<1> HIDE DEF h, l
<1>7. /\ c \in CallType /\ c.stage = l /\ c.obj = call[w].obj /\ c.got = call[w].got \cup {h}
      /\ c.cancelled = call[w].cancelled
  BY <1>1, <1>4, <1>6 DEF CallType
<1>8. /\ s \in SubType /\ s.chan = Tail(sub[w].chan) /\ s.stage = sub[w].stage /\ s.pieces = sub[w].pieces
      /\ s.todo = sub[w].todo /\ s.closed = sub[w].closed
  BY <1>1, <1>6 DEF SubType
<1> HIDE DEF c, s
<1>9. Len(s.chan) <= Capacity
  <2>1. Len(sub[w].chan) \in Nat /\ Len(s.chan) = Len(sub[w].chan) - 1
    BY <1>5, <1>6, <1>8
  <2> QED BY <1>1, <2>1, LimitsNat
<1>10. ASSUME call'[w] = c, sub'[w] = s PROVE WatcherInv(w)'
  <2>1. Heard(w) \subseteq Heard(w)'
    <3>1. InChannel(w) \subseteq {h} \cup InChannel(w)'
      BY <1>6, <1>8, <1>10, Zenon DEF InChannel
    <3> HIDE DEF InChannel
    <3> QED BY <1>7, <1>8, <1>10, <3>1 DEF Heard
  <2>2. Open(w)' <=> Open(w)
    BY <1>8, <1>10 DEF Open
  <2> HIDE DEF Heard, Open
  <2>3. w \in subs' /\ Open(w)' /\ cur' # 0 => obj'[cur'].pieces \subseteq Heard(w)'
    BY <1>1, <1>2, <2>1, <2>2 DEF WatcherInv
  <2>4. w \in subs' /\ Open(w)' /\ mu'.kind = "piece" /\ w \notin mu'.todo => mu'.piece \in Heard(w)'
    BY <1>1, <1>2, <2>1, <2>2 DEF WatcherInv
  <2>5. c.stage \notin Registering /\ c.obj \in Objects
    BY <1>2, <1>4, <1>7 DEF Registering
  <2> QED BY <1>1, <1>2, <1>7, <1>8, <1>10, <2>2, <2>3, <2>4, <2>5 DEF WatcherInv
<1> QED BY <1>2, <1>3, <1>7, <1>8, <1>9, <1>10, SubMoves

\* Under pm.mu a subscriber is given what the task has and joins the list in one step.
LEMMA WatchOK ==
    ASSUME SeedInv, NEW w \in Watchers, Watch(w)
    PROVE  SeedInv'
<1>1. WatcherInv(w) /\ TypeOK /\ call[w] \in CallType
  BY Facts
<1>2. UNCHANGED <<obj, cur, trig, mu, leaked>> /\ call[w].stage = "triggered" /\ mu = Free
  BY DEF Watch
<1>3. ASSUME Goto(w, "error"), UNCHANGED <<sub, subs>> PROVE SeedInv'
  <2>1. PICK c \in CallType : /\ call' = [call EXCEPT ![w] = c] /\ c.stage = "error" /\ c.obj = call[w].obj
                              /\ c.got = call[w].got /\ c.cancelled = call[w].cancelled
    BY <1>1, <1>3, GotoIs
  <2>2. leaked' \in BOOLEAN
    BY <1>1, <1>2 DEF TypeOK
  <2> QED BY <1>2, <1>3, <2>1, <2>2, CallOnly DEF Registering
<1>4. ASSUME cur # 0, call' = [call EXCEPT ![w].stage = "watching", ![w].obj = cur],
             NEW s \in SubType, s.todo = {}, ~s.closed, Len(s.chan) <= Capacity, sub' = [sub EXCEPT ![w] = s],
             \/ s.stage = "snapStart" /\ s.pieces = {} /\ subs' = subs
             \/ s.stage = "top" /\ s.pieces = obj[cur].pieces /\ subs' = subs \cup {w}
      PROVE  SeedInv'
  <2> DEFINE c == [[call[w] EXCEPT !.stage = "watching"] EXCEPT !.obj = cur]
  <2>1. call' = [call EXCEPT ![w] = c]
    BY <1>1, <1>4 DEF TypeOK
  <2>2. /\ c \in CallType /\ c.stage = "watching" /\ c.obj = cur /\ cur \in Objects
        /\ c.cancelled = call[w].cancelled
    BY <1>1, <1>4 DEF CallType, TypeOK
  <2> HIDE DEF c
  <2>3. c.stage \notin Registering
    BY <2>2 DEF Registering
  <2>4. w \notin subs
    BY <1>1, <1>2 DEF WatcherInv, Registering
  <2>5. mu'.kind # "piece"
    BY <1>2, FreeIs
  <2>6. ASSUME call'[w] = c, sub'[w] = s PROVE WatcherInv(w)'
    <3>1. s.stage = "snapStart" => ~Open(w)'
      BY <2>6 DEF Open
    <3>2. s.stage = "top" => obj'[cur'].pieces \subseteq Heard(w)' /\ w \in subs'
      BY <1>2, <1>4, <2>6 DEF Heard
    <3>3. s.stage = "snapStart" => w \notin subs'
      BY <1>4, <2>4
    <3> HIDE DEF Open, Heard
    <3> QED BY <1>4, <2>2, <2>3, <2>5, <2>6, <3>1, <3>2, <3>3 DEF WatcherInv
  <2> QED BY <1>2, <1>4, <2>1, <2>2, <2>6, SubMoves
<1>5. <<>> \in Seq(Pieces) /\ Len(<<>>) <= Capacity
  BY LimitsNat
<1>6. CASE cur # 0 /\ IsDone(obj[cur]) /\ call' = [call EXCEPT ![w].stage = "watching", ![w].obj = cur]
           /\ sub' = [sub EXCEPT ![w] = [NoSub EXCEPT !.stage = "snapStart"]] /\ subs' = subs
  <2> DEFINE s == [NoSub EXCEPT !.stage = "snapStart"]
  <2>1. /\ s \in SubType /\ s.todo = {} /\ s.pieces = {} /\ s.stage = "snapStart" /\ s.closed = FALSE
        /\ s.chan = <<>>
    BY <1>5 DEF NoSub, SubType, SubStages
  <2> HIDE DEF s
  <2> QED BY <1>4, <1>5, <1>6, <2>1 DEF s
<1>7. CASE cur # 0 /\ ~IsDone(obj[cur]) /\ call' = [call EXCEPT ![w].stage = "watching", ![w].obj = cur]
           /\ sub' = [sub EXCEPT ![w] = NewSubscriber] /\ subs' = subs \cup {w}
  <2> DEFINE s == NewSubscriber
  <2>1. obj[cur].pieces \in SUBSET Pieces
    BY <1>1, <1>7 DEF TypeOK, ObjectType
  <2>2. /\ s \in SubType /\ s.todo = {} /\ s.pieces = obj[cur].pieces /\ s.stage = "top" /\ s.closed = FALSE
        /\ s.chan = <<>>
    BY <1>5, <2>1 DEF NewSubscriber, NoSub, SubType, SubStages
  <2> HIDE DEF NewSubscriber
  <2> QED BY <1>4, <1>5, <1>7, <2>2
<1> QED BY <1>3, <1>6, <1>7 DEF Watch

-----------------------------------------------------------------------------
\* The collector takes the object out of the table.
LEMMA ExpireOK ==
    ASSUME SeedInv, Expire
    PROVE  SeedInv'
<1>1. /\ TypeOK /\ ObjectsInv /\ PublisherInv /\ TriggersInv
      /\ UNCHANGED <<obj, call, sub, subs, trig, mu, leaked>> /\ cur' = 0
  BY DEF SeedInv, Expire
<1>2. TypeOK' /\ ObjectsInv' /\ PublisherInv' /\ TriggersInv'
  BY <1>1 DEF TypeOK, ObjectsInv, PublisherInv, TriggersInv, Active
<1>3. ASSUME NEW w \in Watchers PROVE WatcherInv(w)'
  BY <1>1, Facts DEF WatcherInv, Heard, InChannel, Open
<1> QED BY <1>2, <1>3 DEF SeedInv

\* Every subscriber is still to be told.
LEMMA PublishOK ==
    ASSUME SeedInv, NEW g \in Triggers, (\E n \in Pieces : PublishPiece(g, n)) \/ PublishTask(g)
    PROVE  SeedInv'
<1>1. /\ TypeOK /\ ObjectsInv /\ PublisherInv /\ TriggersInv
      /\ UNCHANGED <<obj, cur, call, sub, subs, trig, leaked>>
  BY DEF SeedInv, PublishPiece, PublishTask
<1>2. PICK k \in {"piece", "task"}, n \in Pieces \cup {0} :
         /\ mu' = [kind |-> k, trig |-> g, piece |-> n, todo |-> subs]
         /\ k = "piece" => n \in Pieces
         /\ k = "task" => trig[g].stage \in {"FAILED", "SUCCESS"}
  BY DEF PublishPiece, PublishTask
<1>3. /\ mu' \in MuType /\ mu'.kind = k /\ mu'.trig = g /\ mu'.piece = n /\ mu'.todo = subs
  BY <1>1, <1>2 DEF MuType, TypeOK
<1>4. TypeOK' /\ ObjectsInv' /\ TriggersInv'
  BY <1>1, <1>3 DEF TypeOK, ObjectsInv, TriggersInv, Active
<1>5. PublisherInv'
  BY <1>1, <1>2, <1>3 DEF PublisherInv
<1>6. ASSUME NEW w \in Watchers PROVE WatcherInv(w)'
  BY <1>1, <1>3, Facts DEF WatcherInv, Heard, InChannel, Open
<1> QED BY <1>4, <1>5, <1>6 DEF SeedInv

\* A signal wakes who waits and changes nothing else.
LEMMA SignalIs ==
    ASSUME NEW s \in SubType
    PROVE  /\ Signal(s) \in SubType /\ Signal(s).pieces = s.pieces /\ Signal(s).todo = s.todo
           /\ Signal(s).chan = s.chan /\ Signal(s).closed = s.closed
           /\ Signal(s).stage = s.stage \/ (s.stage = "waiting" /\ Signal(s).stage = "woken")
<1> DEFINE l == IF s.stage = "waiting" THEN "woken" ELSE s.stage
<1>1. Signal(s) = [s EXCEPT !.stage = l]
  BY DEF Signal
<1>2. l \in SubStages /\ (l = s.stage \/ (s.stage = "waiting" /\ l = "woken"))
  BY DEF SubType, SubStages
<1> HIDE DEF l
<1> QED BY <1>1, <1>2 DEF SubType

\* The publisher tells or closes the subscriber w, the next in its list.
LEMMA TellMoves ==
    ASSUME SeedInv, NEW w \in Watchers, NEW s \in SubType, sub' = [sub EXCEPT ![w] = s],
           UNCHANGED <<obj, cur, call, trig, leaked>>, mu # Free,
           s.chan = sub[w].chan, mu' = [mu EXCEPT !.todo = @ \ {w}],
           (mu.kind = "piece" /\ subs' = subs) \/ (mu.kind = "close" /\ subs' = subs \ {w}),
           sub'[w] = s => WatcherInv(w)'
    PROVE  SeedInv'
<1>1. TypeOK /\ ObjectsInv /\ PublisherInv /\ TriggersInv
  BY DEF SeedInv
<1>2. /\ sub' \in [Watchers -> SubType] /\ sub'[w] = s
      /\ \A v \in Watchers : v # w => sub'[v] = sub[v]
  BY <1>1 DEF TypeOK
<1>3. \A v \in Watchers : Len(sub'[v].chan) <= Capacity
  BY <1>1, <1>2 DEF TypeOK
<1>4. /\ mu' \in MuType /\ mu'.kind = mu.kind /\ mu'.trig = mu.trig /\ mu'.piece = mu.piece
      /\ mu'.todo = mu.todo \ {w}
  <2>1. mu \in MuType
    BY <1>1 DEF TypeOK
  <2> QED BY <2>1 DEF MuType
<1>5. subs' \subseteq Watchers
  BY <1>1 DEF TypeOK
<1>6. TypeOK'
  BY <1>1, <1>2, <1>3, <1>4, <1>5 DEF TypeOK
<1>7. ObjectsInv' /\ TriggersInv'
  BY <1>1 DEF ObjectsInv, TriggersInv, Active
<1>8. PublisherInv'
  BY <1>1, <1>4 DEF PublisherInv
<1>9. ASSUME NEW v \in Watchers PROVE WatcherInv(v)'
  <2>1. CASE v = w
    BY <1>2, <2>1
  <2>2. CASE v # w
    <3>1. /\ WatcherInv(v) /\ sub'[v] = sub[v] /\ (v \in subs' <=> v \in subs)
          /\ v \in mu'.todo <=> v \in mu.todo
      BY <1>2, <1>4, <2>2, Facts
    <3> QED BY <1>4, <3>1 DEF WatcherInv, Heard, InChannel, Open
  <2> QED BY <2>1, <2>2
<1> QED BY <1>6, <1>7, <1>8, <1>9 DEF SeedInv

\* NotifyPieceDownloaded: the subscriber has heard of the piece.
LEMMA NotifyOK ==
    ASSUME SeedInv, NEW w \in Watchers, Notify(w)
    PROVE  SeedInv'
<1>1. /\ TypeOK /\ PublisherInv /\ WatcherInv(w) /\ sub[w] \in SubType
  BY Facts DEF SeedInv
<1>2. /\ mu.kind = "piece" /\ w \in mu.todo /\ UNCHANGED <<obj, cur, call, subs, trig, leaked>>
      /\ mu' = [mu EXCEPT !.todo = @ \ {w}]
  BY DEF Notify
<1>3. mu # Free /\ mu \in MuType /\ mu.piece \in Pieces /\ w \in subs
  BY <1>1, <1>2, MuIs, FreeIs DEF PublisherInv
<1> DEFINE r == Signal(sub[w])
           s == [r EXCEPT !.pieces = sub[w].pieces \cup {mu.piece}]
<1>4. sub' = [sub EXCEPT ![w] = s]
  BY DEF Notify
<1>5. /\ r \in SubType /\ r.pieces = sub[w].pieces /\ r.todo = sub[w].todo
      /\ r.chan = sub[w].chan /\ r.closed = sub[w].closed
      /\ r.stage = sub[w].stage \/ (sub[w].stage = "waiting" /\ r.stage = "woken")
  BY <1>1, SignalIs
<1> HIDE DEF r
<1>6. /\ s \in SubType /\ s.pieces = sub[w].pieces \cup {mu.piece} /\ s.todo = sub[w].todo
      /\ s.chan = sub[w].chan /\ s.closed = sub[w].closed
      /\ s.stage = sub[w].stage \/ (sub[w].stage = "waiting" /\ s.stage = "woken")
  BY <1>3, <1>5 DEF SubType
<1> HIDE DEF s
<1>7. ASSUME sub'[w] = s PROVE WatcherInv(w)'
  <2>1. Heard(w) \subseteq Heard(w)' /\ mu.piece \in Heard(w)'
    BY <1>2, <1>6, <1>7 DEF Heard, InChannel
  <2>2. Open(w)' => Open(w)
    BY <1>6, <1>7 DEF Open
  <2>3. mu'.piece = mu.piece
    BY <1>2, <1>3 DEF MuType
  <2> HIDE DEF Heard, Open
  <2>4. w \in subs' /\ Open(w)' /\ cur' # 0 => obj'[cur'].pieces \subseteq Heard(w)'
    BY <1>1, <1>2, <2>1, <2>2 DEF WatcherInv
  <2>5. mu'.piece \in Heard(w)'
    BY <2>1, <2>3
  <2>6. /\ ~s.closed /\ s.stage \notin {"none", "snapStart", "snapSend"}
        /\ s.stage = "ended" => call[w].cancelled
        /\ s.stage \notin {"sending", "snapSend"} => s.todo = {}
        /\ call[w].stage \notin Registering
    BY <1>1, <1>3, <1>6 DEF WatcherInv
  <2> QED BY <1>1, <1>2, <1>3, <1>7, <2>4, <2>5, <2>6 DEF WatcherInv
<1> QED BY <1>2, <1>3, <1>4, <1>6, <1>7, TellMoves

\* Close takes the subscriber out of the list of the publisher.
LEMMA CloseOK ==
    ASSUME SeedInv, NEW w \in Watchers, Close(w)
    PROVE  SeedInv'
<1>1. /\ TypeOK /\ PublisherInv /\ WatcherInv(w) /\ sub[w] \in SubType
  BY Facts DEF SeedInv
<1>2. /\ mu.kind = "close" /\ w \in mu.todo /\ UNCHANGED <<obj, cur, call, trig, leaked>>
      /\ subs' = subs \ {w}
  BY DEF Close
<1>3. mu # Free /\ mu \in MuType /\ w \in subs
  BY <1>1, <1>2, MuIs, FreeIs DEF PublisherInv
<1> DEFINE r == Signal(sub[w])
           s == [r EXCEPT !.closed = TRUE]
<1>4. sub' = [sub EXCEPT ![w] = s] /\ mu' = [mu EXCEPT !.todo = @ \ {w}]
  BY DEF Close, StillToClose
<1>5. /\ r \in SubType /\ r.pieces = sub[w].pieces /\ r.todo = sub[w].todo
      /\ r.chan = sub[w].chan
      /\ r.stage = sub[w].stage \/ (sub[w].stage = "waiting" /\ r.stage = "woken")
  BY <1>1, SignalIs
<1> HIDE DEF r
<1>6. /\ s \in SubType /\ s.pieces = sub[w].pieces /\ s.todo = sub[w].todo
      /\ s.chan = sub[w].chan /\ s.closed
      /\ s.stage = sub[w].stage \/ (sub[w].stage = "waiting" /\ s.stage = "woken")
  BY <1>5 DEF SubType
<1> HIDE DEF s
<1>7. ASSUME sub'[w] = s PROVE WatcherInv(w)'
  <2>1. ~Open(w)' /\ w \notin subs'
    BY <1>2, <1>6, <1>7 DEF Open
  <2> HIDE DEF Open
  <2>2. /\ s.stage \notin {"none", "snapStart", "snapSend"} /\ call[w].stage \notin Registering
        /\ s.stage \notin {"sending", "snapSend"} => s.todo = {}
        /\ s.stage = "ended" /\ ~call[w].cancelled => s.pieces = {}
    BY <1>1, <1>3, <1>6 DEF WatcherInv
  <2> QED BY <1>1, <1>2, <1>7, <2>1, <2>2 DEF WatcherInv
<1> QED BY <1>2, <1>3, <1>4, <1>6, <1>7, TellMoves

\* All subscribers have heard of the piece when the task gets it.
LEMMA UpdateProgressOK ==
    ASSUME SeedInv, UpdateProgress
    PROVE  SeedInv'
<1>1. /\ TypeOK /\ ObjectsInv /\ PublisherInv /\ TriggersInv
      /\ UNCHANGED <<cur, call, sub, subs, leaked>> /\ mu' = Free /\ mu.kind = "piece" /\ mu.todo = {}
  BY DEF SeedInv, UpdateProgress
<1> DEFINE g == mu.trig
           n == mu.piece
<1>2. g \in Triggers /\ n \in Pieces
  BY <1>1, MuIs DEF PublisherInv
<1> DEFINE e == trig[g].err \/ cur = 0
           t == [[trig[g] EXCEPT !.inflight = @ \ {n}] EXCEPT !.err = e]
<1>3. trig[g] \in TrigType /\ trig \in [Triggers -> TrigType]
  BY <1>1, <1>2 DEF TypeOK
<1>4. trig' = [trig EXCEPT ![g] = t]
  BY <1>3 DEF UpdateProgress
<1>5. e \in BOOLEAN
  <2>1. trig[g].err \in BOOLEAN
    BY <1>3 DEF TrigType
  <2> QED BY <2>1, Zenon
<1> HIDE DEF e
<1>6. t \in TrigType /\ t.stage = trig[g].stage /\ t.obj = trig[g].obj
  BY <1>3, <1>5 DEF TrigType
<1> HIDE DEF t, g
<1>7. /\ trig' \in [Triggers -> TrigType]
      /\ \A h \in Triggers : trig'[h].stage = trig[h].stage /\ trig'[h].obj = trig[h].obj
  BY <1>2, <1>3, <1>4, <1>6
<1> DEFINE o == [obj[cur] EXCEPT !.pieces = @ \cup {n}]
<1>8. ASSUME cur # 0
      PROVE  /\ cur \in Objects /\ o \in ObjectType /\ o.status = obj[cur].status
             /\ o.pieces = obj[cur].pieces \cup {n}
  <2>1. cur \in Objects /\ obj[cur] \in ObjectType
    BY <1>1, <1>8 DEF TypeOK
  <2> QED BY <1>2, <2>1 DEF ObjectType
<1>9. IF cur = 0 THEN obj' = obj ELSE obj' = [obj EXCEPT ![cur] = o]
  BY DEF UpdateProgress
<1> HIDE DEF o, n
<1>10. /\ obj' \in [Objects -> ObjectType]
       /\ \A i \in Objects : obj'[i].status = obj[i].status
       /\ \A i \in Objects : i # cur => obj'[i].pieces = obj[i].pieces
       /\ cur # 0 => obj'[cur].pieces = obj[cur].pieces \cup {n}
  BY <1>1, <1>8, <1>9 DEF TypeOK
<1>11. TypeOK'
  BY <1>1, <1>7, <1>10 DEF TypeOK
<1>12. ObjectsInv'
  BY <1>1, <1>10, ZeroIsNone DEF ObjectsInv, TypeOK
<1>13. PublisherInv'
  BY <1>1, FreeIs DEF PublisherInv
<1>14. TriggersInv'
  <2>1. \A h \in Triggers : Active(h)' <=> Active(h)
    BY <1>7 DEF Active
  <2> QED BY <1>1, <1>7, <1>10, <2>1 DEF TriggersInv
<1>15. ASSUME NEW w \in Watchers PROVE WatcherInv(w)'
  <2>1. WatcherInv(w) /\ sub'[w] = sub[w] /\ call'[w] = call[w] /\ subs' = subs
    BY <1>1, Facts
  <2>2. (Open(w)' <=> Open(w)) /\ Heard(w)' = Heard(w)
    BY <1>1 DEF Open, Heard, InChannel
  <2>3. w \in subs /\ Open(w) => n \in Heard(w)
    BY <1>1, <2>1 DEF WatcherInv, n
  <2> HIDE DEF Open, Heard
  <2>4. w \in subs' /\ Open(w)' /\ cur' # 0 => obj'[cur'].pieces \subseteq Heard(w)'
    BY <1>1, <1>10, <2>1, <2>2, <2>3 DEF WatcherInv
  <2>5. mu'.kind # "piece"
    BY <1>1, FreeIs
  <2> QED BY <2>1, <2>2, <2>4, <2>5 DEF WatcherInv
<1> QED BY <1>11, <1>12, <1>13, <1>14, <1>15 DEF SeedInv

\* The goroutine is over before the object is frozen or successful.
LEMMA UpdateOK ==
    ASSUME SeedInv, Update
    PROVE  SeedInv'
<1>1. /\ TypeOK /\ ObjectsInv /\ PublisherInv /\ TriggersInv
      /\ UNCHANGED <<cur, call, sub, subs, leaked>> /\ mu.kind = "task"
  BY DEF SeedInv, Update
<1> DEFINE g == mu.trig
<1>2. g \in Triggers /\ trig[g].stage \in {"FAILED", "SUCCESS"} /\ Active(g) /\ mu \in MuType
  BY <1>1, MuIs DEF PublisherInv, Active
<1> DEFINE t == [trig[g] EXCEPT !.stage = "over"]
<1>3. t \in TrigType /\ t.stage = "over" /\ trig \in [Triggers -> TrigType]
  <2>1. trig[g] \in TrigType
    BY <1>1, <1>2 DEF TypeOK
  <2> QED BY <1>1, <2>1 DEF TrigType, TypeOK
<1>4. trig' = [trig EXCEPT ![g] = t]
  BY DEF Update
<1> HIDE DEF t
<1>5. /\ trig' \in [Triggers -> TrigType] /\ trig'[g] = t
      /\ \A h \in Triggers : h # g => trig'[h] = trig[h]
  BY <1>2, <1>3, <1>4
<1>6. \A h \in Triggers : Active(h)' => h # g /\ Active(h) /\ trig'[h] = trig[h]
  BY <1>3, <1>5 DEF Active
<1>7. ASSUME mu' \in MuType \cup {Free}, obj' \in [Objects -> ObjectType], ObjectsInv', PublisherInv',
             mu'.kind # "piece", cur # 0 => obj'[cur].pieces = obj[cur].pieces,
             \A i \in Objects : i # cur => obj'[i] = obj[i],
             cur # 0 => obj'[cur].status # "none"
      PROVE  SeedInv'
  <2>1. TypeOK'
    BY <1>1, <1>5, <1>7 DEF TypeOK
  <2>2. TriggersInv'
    <3>1. \A h \in Triggers : Active(h)' => trig'[h].obj \in Objects
      BY <1>1, <1>6 DEF TriggersInv
    <3>2. ASSUME NEW k \in Objects, \A j \in Objects : j # k => obj'[j].status = "none"
          PROVE  \A h \in Triggers : ~Active(h)'
      <4>1. cur # 0 => cur \in Objects /\ k = cur
        BY <1>1, <1>7, <3>2 DEF TypeOK
      <4>2. \A j \in Objects : j # k => obj[j].status = "none"
        BY <1>7, <3>2, <4>1, ZeroIsNone
      <4>3. \A h \in Triggers : Active(h) => h = g
        BY <1>1, <1>2, <4>2 DEF TriggersInv
      <4> QED BY <1>6, <4>3
    <3> QED BY <3>1, <3>2 DEF TriggersInv
  <2>3. ASSUME NEW w \in Watchers PROVE WatcherInv(w)'
    <3>1. WatcherInv(w) /\ sub'[w] = sub[w] /\ call'[w] = call[w] /\ subs' = subs
      BY <1>1, Facts
    <3>2. (Open(w)' <=> Open(w)) /\ Heard(w)' = Heard(w)
      BY <1>1 DEF Open, Heard, InChannel
    <3> HIDE DEF Open, Heard
    <3> QED BY <1>1, <1>7, <3>1, <3>2 DEF WatcherInv
  <2> QED BY <1>7, <2>1, <2>2, <2>3 DEF SeedInv
<1>8. CASE cur = 0
  <2>1. mu' = Free /\ obj' = obj
    BY <1>8 DEF Update
  <2>2. PublisherInv' /\ mu'.kind # "piece"
    BY <1>1, <2>1, FreeIs DEF PublisherInv
  <2>3. ObjectsInv' /\ obj' \in [Objects -> ObjectType]
    BY <1>1, <1>8, <2>1 DEF ObjectsInv, TypeOK
  <2> QED BY <1>7, <1>8, <2>1, <2>2, <2>3
<1>9. CASE cur # 0
  <2> DEFINE l == IF obj[cur].status = "SUCCESS" THEN obj[cur].status ELSE trig[g].stage
             o == [obj[cur] EXCEPT !.status = l]
  <2>1. mu' = [mu EXCEPT !.kind = "close"] /\ obj' = [obj EXCEPT ![cur] = o]
    BY <1>9 DEF Update
  <2>2. l \in {"FAILED", "SUCCESS"}
    BY <1>2
  <2> HIDE DEF l, g
  <2>3. cur \in Objects /\ obj[cur] \in ObjectType /\ o \in ObjectType /\ o.status = l
        /\ o.pieces = obj[cur].pieces
    <3>1. cur \in Objects /\ obj[cur] \in ObjectType
      BY <1>1, <1>9 DEF TypeOK
    <3> QED BY <2>2, <3>1 DEF ObjectType
  <2> HIDE DEF o
  <2>4. /\ obj' \in [Objects -> ObjectType] /\ obj'[cur] = o
        /\ \A i \in Objects : i # cur => obj'[i] = obj[i]
    BY <1>1, <2>1, <2>3 DEF TypeOK
  <2>5. mu' \in MuType /\ mu'.kind = "close" /\ mu'.todo = mu.todo
    BY <1>2, <2>1 DEF MuType
  <2>6. PublisherInv'
    BY <1>1, <1>2, <2>5, FreeIs DEF PublisherInv
  <2>7. ObjectsInv'
    BY <1>1, <2>2, <2>3, <2>4 DEF ObjectsInv
  <2> QED BY <1>7, <2>2, <2>3, <2>4, <2>5, <2>6, <2>7
<1> QED BY <1>8, <1>9

\* PublishTask ends: no subscriber is left in the list.
LEMMA PublishTaskEndOK ==
    ASSUME SeedInv, PublishTaskEnd
    PROVE  SeedInv'
<1>1. /\ TypeOK /\ ObjectsInv /\ PublisherInv /\ TriggersInv
      /\ UNCHANGED <<obj, cur, call, sub, trig, leaked>> /\ mu' = Free /\ subs' = {}
  BY DEF SeedInv, PublishTaskEnd
<1>2. subs = {}
  BY <1>1 DEF PublishTaskEnd, PublisherInv
<1>3. TypeOK' /\ ObjectsInv' /\ TriggersInv'
  BY <1>1 DEF TypeOK, ObjectsInv, TriggersInv, Active
<1>4. PublisherInv'
  BY <1>1, FreeIs DEF PublisherInv
<1>5. ASSUME NEW w \in Watchers PROVE WatcherInv(w)'
  BY <1>1, <1>2, Facts DEF WatcherInv, Open
<1> QED BY <1>3, <1>4, <1>5 DEF SeedInv

-----------------------------------------------------------------------------
\* A CDN without tasks satisfies the invariant.
LEMMA SeedInit == Init => SeedInv
<1> SUFFICES ASSUME Init PROVE SeedInv
  OBVIOUS
<1>1. <<>> \in Seq(Pieces) /\ Len(<<>>) <= Capacity
  BY LimitsNat
<1>2. NoSub \in SubType /\ NoSub.stage = "none" /\ NoSub.todo = {} /\ NoSub.pieces = {} /\ NoSub.chan = <<>>
  BY <1>1 DEF NoSub, SubType, SubStages
<1>3. TypeOK
  <2>1. obj \in [Objects -> ObjectType] /\ cur \in Objects \cup {0}
    BY DEF Init, ObjectType
  <2>2. call \in [Watchers -> CallType] /\ trig \in [Triggers -> TrigType]
    BY DEF Init, CallType, TrigType
  <2>3. sub \in [Watchers -> SubType] /\ \A w \in Watchers : Len(sub[w].chan) <= Capacity
    BY <1>1, <1>2 DEF Init
  <2> QED BY <2>1, <2>2, <2>3 DEF TypeOK, Init
<1>4. ObjectsInv /\ TriggersInv
  BY DEF Init, ObjectsInv, TriggersInv, Active
<1>5. PublisherInv
  BY FreeIs DEF Init, PublisherInv
<1>6. ASSUME NEW w \in Watchers PROVE WatcherInv(w)
  <2>1. sub[w] = NoSub /\ call[w].stage = "idle" /\ subs = {}
    BY DEF Init
  <2>2. ~Open(w)
    BY <1>2, <2>1 DEF Open
  <2> HIDE DEF Open
  <2> QED BY <1>2, <2>1, <2>2 DEF WatcherInv
<1> QED BY <1>3, <1>4, <1>5, <1>6 DEF SeedInv

\* Every step keeps the invariant.
LEMMA SeedStep == SeedInv /\ [Next]_vars => SeedInv'
<1> SUFFICES ASSUME SeedInv, [Next]_vars PROVE SeedInv'
  OBVIOUS
<1>1. CASE UNCHANGED vars
  <2>1. /\ TypeOK' /\ ObjectsInv' /\ PublisherInv' /\ TriggersInv'
    BY <1>1 DEF SeedInv, vars, TypeOK, ObjectsInv, PublisherInv, TriggersInv, Active
  <2>2. ASSUME NEW w \in Watchers PROVE WatcherInv(w)'
    BY <1>1, Facts DEF vars, WatcherInv, Heard, InChannel, Open
  <2> QED BY <2>1, <2>2 DEF SeedInv
<1>2. ASSUME NEW w \in Watchers, Register(w) \/ Reader(w) \/ Consumer(w) PROVE SeedInv'
  BY <1>2, AddOK, RegisterOK, ConfirmOK, WatchOK, ReaderOK, SnapOK, ReceiveOK
     DEF Register, Reader, Consumer
<1>3. ASSUME NEW g \in Triggers, Trigger(g) PROVE SeedInv'
  BY <1>3, TriggerOK, PublishOK DEF Trigger
<1>4. CASE Publisher
  BY <1>4, UpdateProgressOK, UpdateOK, PublishTaskEndOK, NotifyOK, CloseOK DEF Publisher
<1>5. CASE Disturbance
  BY <1>5, AddOK, RegisterOK, TriggerOK, ExpireOK DEF Disturbance
<1> QED BY <1>1, <1>2, <1>3, <1>4, <1>5 DEF Next, Routine

\* The inductive invariant holds of every behaviour of registration, download,
\* publication and delivery.
THEOREM SeedInvariant == Spec => []SeedInv
  BY SeedInit, SeedStep, PTL DEF Spec

\* The state keeps its types; the channel of a subscriber never holds more than its
\* capacity.
THEOREM SeedTypeOK == Spec => []TypeOK
<1>1. SeedInv => TypeOK
  BY DEF SeedInv
<1> QED BY <1>1, SeedInvariant, PTL

\* A subscriber in the list has heard of every piece the task has: a late watcher gets
\* a copy under pm.mu, and UpdateProgress follows the last Notify.
THEOREM SeedCaughtUp == Spec => []CaughtUp
<1>1. SeedInv => CaughtUp
  BY DEF SeedInv, TypeOK, WatcherInv, CaughtUp, Heard
<1> QED BY <1>1, SeedInvariant, PTL

\* readLoop closes its channel with nothing left to send, unless the context of the
\* call was cancelled.
THEOREM SeedClosedIsDrained == Spec => []ClosedIsDrained
<1>1. SeedInv => ClosedIsDrained
  BY DEF SeedInv, WatcherInv, ClosedIsDrained
<1> QED BY <1>1, SeedInvariant, PTL

\* A subscriber that runs and is not closed is in the publisher's list, however
\* WatchSeedProgress and PublishTask interleave.
THEOREM SeedNoneLeftBehind == Spec => []NoneLeftBehind
<1>1. SeedInv => NoneLeftBehind
  BY DEF SeedInv, WatcherInv, NoneLeftBehind
<1> QED BY <1>1, SeedInvariant, PTL

\* As long as there is one SeedTask object, one goroutine downloads it at most: the
\* check of the status is repeated under the write lock.
THEOREM SeedOneDownload == Spec => []OneDownload
<1>1. ASSUME SeedInv PROVE OneDownload
  <2> DEFINE U == {i \in Objects : obj[i].status # "none"}
             A == {g \in Triggers : trig[g].stage \notin {"none", "over"}}
  <2> SUFFICES ASSUME Cardinality(U) <= 1 PROVE Cardinality(A) <= 1
    BY DEF OneDownload
  <2>1. IsFiniteSet(U)
    <3>1. IsFiniteSet(1..MaxObjects)
      BY LimitsNat, FS_Interval
    <3> QED BY <3>1, FS_Subset DEF Objects
  <2>2. TypeOK /\ TriggersInv
    BY <1>1 DEF SeedInv
  <2>3. \A g, h \in A : g = h
    <3> SUFFICES ASSUME NEW g \in A, NEW h \in A PROVE g = h
      OBVIOUS
    <3>1. g \in Triggers /\ h \in Triggers /\ Active(g) /\ Active(h) /\ trig[g].obj \in Objects
      BY <2>2 DEF TriggersInv, Active
    <3>2. \E i \in Objects : \A j \in Objects : j # i => obj[j].status = "none"
      <4>1. CASE U = {}
        BY <3>1, <4>1
      <4>2. CASE U # {}
        <5>1. PICK i \in U : TRUE
          BY <4>2
        <5>2. ASSUME NEW j \in U PROVE j = i
          <6>1. SUFFICES ASSUME j # i PROVE FALSE
            OBVIOUS
          <6>2. {i, j} \subseteq U /\ Cardinality({i, j}) <= Cardinality(U)
            BY <2>1, FS_Subset
          <6>3. Cardinality({i, j}) = 2
            <7>1. IsFiniteSet({i}) /\ Cardinality({i}) = 1
              BY FS_Singleton
            <7>2. Cardinality({i} \cup {j}) = Cardinality({i}) + 1
              BY <6>1, <7>1, FS_AddElement
            <7>3. {i} \cup {j} = {i, j}
              OBVIOUS
            <7> QED BY <7>1, <7>2, <7>3
          <6>4. Cardinality(U) \in Nat
            BY <2>1, FS_CardinalityType
          <6> QED BY <6>2, <6>3, <6>4
        <5> QED BY <5>1, <5>2
      <4> QED BY <4>1, <4>2
    <3> QED BY <2>2, <3>1, <3>2 DEF TriggersInv
  <2>4. CASE A = {}
    BY <2>4, FS_EmptySet
  <2>5. CASE A # {}
    <3>1. PICK g \in A : TRUE
      BY <2>5
    <3>2. A = {g}
      BY <2>3, <3>1
    <3>3. Cardinality({g}) = 1
      BY FS_Singleton
    <3> HIDE DEF A
    <3> QED BY <3>2, <3>3
  <2> QED BY <2>4, <2>5
<1> QED BY <1>1, SeedInvariant, PTL
=============================================================================
