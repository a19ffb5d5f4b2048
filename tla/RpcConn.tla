------------------------------- MODULE RpcConn -------------------------------
(***************************************************************************)
(* pkg/rpc/client.go: the Connection through which a daemon talks to the   *)
(* schedulers and a scheduler to the CDNs.  A hash key (a task ID) sticks  *)
(* to the server it was first sent to; a call that fails is repeated and   *)
(* then moved to another server (ExecuteWithRetry, TryMigrate); a loop     *)
(* closes connections nobody used; the server list is replaced from time   *)
(* to time (UpdateState).                                                  *)
(*                                                                         *)
(* A caller makes one call at a time.  The kinds of call differ in whether *)
(* the key must be bound, in what they exclude from the start and in the   *)
(* error they hand to the next round of attempts:                          *)
(*   register  schedulerClient.RegisterPeerTask                            *)
(*   stream    schedulerClient.ReportPieceResult (peerPacketStream)        *)
(*   report    schedulerClient.ReportPeerResult                            *)
(*   leave     schedulerClient.LeaveTask                                   *)
(*   seed      cdnClient.ObtainSeeds (PieceSeedStream); the daemon's       *)
(*             DownResultStream does the same                              *)
(*   target    GetPieceTasks and CheckHealth, which name their server      *)
(* rwMutex is held for one step, except while loadOrCreateClientConnByNode *)
(* dials under the read lock: LockFree is the condition of the writers.    *)
(***************************************************************************)
EXTENDS Naturals, Sequences, FiniteSets, SequencesExt

CONSTANTS Callers, Keys, Nodes,
          Nowhere,      \* no node
          Order,        \* Order[k]: the order hashRing.GetNodes gives for key k
          KindsOf,      \* KindsOf[c]: the calls caller c makes
          MaxAttempts   \* RetryMeta.MaxAttempts

ASSUME RpcAssumption ==
    /\ Nowhere \notin Nodes
    /\ MaxAttempts \in Nat \ {0}
    /\ \A k \in Keys : Order[k] \in Seq(Nodes) /\ Range(Order[k]) = Nodes

Kinds == {"register", "stream", "report", "leave", "seed", "target"}

\* conn: a grpc error; lacked: DfError ResourceLacked; df: another DfError;
\* cancel: Canceled or DeadlineExceeded; unbound: a stateful request whose key
\* is not bound; none: ErrNoCandidateNode.
Causes == {"conn", "lacked", "df", "cancel", "unbound", "none"}

\* Ages, in ticks of connExpireTime; NoEntry is the age of no access.
Expired == 1
NoEntry == Expired + 1
Ages == 0..Expired

VARIABLES
    keyOf,    \* the hash key of each caller
    ring,     \* hashRing and serverNodes
    key2Node, \* key2NodeMap
    client,   \* node2ClientMap: the nodes that have a connection
    access,   \* accessNodeMap: age of the last access, or NoEntry
    call,     \* the call each caller is in
    gcOn      \* startGC runs

vars == <<keyOf, ring, key2Node, client, access, call, gcOn>>
conns == <<ring, key2Node, client, access, gcOn>>

\* at: where it is; tries: i of ExecuteWithRetry; err: the error the next round
\* is told of; node: the server of the connection in hand, Nowhere once that is
\* closed; used: the server asked (schedulerNode); failed: exclusiveNodes or failedServers; pre: preNode, or the server a call names;
\* moved: it has failed over; quiet: age of the last use of the open stream;
\* tried (history): servers asked or dialled.
Idle == [at |-> "idle", kind |-> "leave", tries |-> 0, err |-> "none", node |-> Nowhere,
         used |-> Nowhere, failed |-> {}, pre |-> Nowhere, moved |-> FALSE, quiet |-> 0, tried |-> {}]

Init ==
    /\ keyOf \in [Callers -> Keys]
    /\ ring = Nodes
    /\ key2Node = [k \in Keys |-> Nowhere]
    /\ client = {}
    /\ access = [n \in Nodes |-> NoEntry]
    /\ call = [c \in Callers |-> Idle]
    /\ gcOn = TRUE

\* A call of kind k needs a bound key: the argument stick of GetClientConn.
Stick(s) == s.moved \/ s.kind \in {"stream", "report"}

Final_any(err) == err # "none"
\* Errors after which ExecuteWithRetry and its callers do not try again.
Final(err) == err \in {"df", "lacked", "cancel"}

\* ExecuteWithRetry with the error it is given, "none" standing for nil.
Execute(s, cause) ==
    [s EXCEPT !.tries = 0, !.err = cause, !.at = IF Final(cause) THEN "failed" ELSE "get"]

Attempted_uncounted(s, err, n) ==
    [s EXCEPT !.at = IF Final(err) THEN "failed" ELSE "get", !.err = err, !.node = n,
              !.used = Nowhere]

\* One attempt of ExecuteWithRetry on server n has failed.  A registration tells
\* its next round of the last error, the others of the first.
Attempted(s, err, n) ==
    LET over == Final(err) \/ s.tries + 1 >= MaxAttempts
    IN  [s EXCEPT !.tries = IF over THEN 0 ELSE s.tries + 1,
                  !.at = IF over THEN "failed" ELSE "get",
                  !.err = IF over /\ (~s.moved \/ s.kind = "register") THEN err ELSE s.err,
                  !.node = IF over /\ s.kind \in {"register", "report"} /\ ~s.moved
                           THEN n ELSE Nowhere,
                  !.used = Nowhere]

Holding(s, n) == [s EXCEPT !.at = "invoke", !.node = n, !.used = n]

Step(c, s) == call' = [call EXCEPT ![c] = s]

At(c, pc) == call[c].at = pc

Touched(n) == access' = [access EXCEPT ![n] = 0]

\* No reader holds rwMutex.
LockFree == \A c \in Callers : ~At(c, "dial")
-----------------------------------------------------------------------------
\* A caller begins a call.  A task is registered before its stream is opened
\* and its result reported, but its key may be unbound again by then.
Begin(c, kind) ==
    /\ At(c, "idle")
    /\ kind \in KindsOf[c]
    /\ \/ /\ kind # "target"
          /\ Step(c, [Execute(Idle, "none") EXCEPT !.kind = kind])
       \/ /\ kind = "target"
          /\ \E n \in Nodes : Step(c, [Execute(Idle, "none") EXCEPT !.kind = kind, !.pre = n])
    /\ UNCHANGED <<keyOf, conns>>

\* loadOrCreateClientConnByNode, up to the dial.
LoadOrCreate(c, n) ==
    /\ Touched(n)
    /\ Step(c, IF n \in client THEN Holding(call[c], n)
               ELSE [call[c] EXCEPT !.at = "dial", !.node = n])
    /\ UNCHANGED <<keyOf, ring, key2Node, client, gcOn>>

\* GetClientConn under the read lock.
GetClientConn(c) ==
    LET s == call[c]
        n == key2Node[keyOf[c]]
    IN  /\ At(c, "get") /\ s.kind # "target"
        /\ \/ n # Nowhere /\ LoadOrCreate(c, n)
           \/ /\ n = Nowhere
              /\ Step(c, IF Stick(s) THEN Attempted(s, "unbound", Nowhere) ELSE [s EXCEPT !.at = "bind"])
              /\ UNCHANGED <<keyOf, conns>>

\* GetClientConnByTarget.
GetClientConnByTarget(c) ==
    /\ At(c, "get") /\ call[c].kind = "target"
    /\ LoadOrCreate(c, call[c].pre)

\* loadOrCreateClientConnByNode, the dial and what follows.
Dial(c) ==
    LET s == call[c]
    IN  /\ At(c, "dial")
        /\ client' = client \cup {s.node}
        /\ Step(c, Holding(s, s.node))
        /\ UNCHANGED <<keyOf, ring, key2Node, access, gcOn>>

DialFails(c) ==
    LET s == call[c]
    IN  /\ At(c, "dial")
        /\ Step(c, [Attempted(s, "conn", Nowhere) EXCEPT !.tried = s.tried \cup {s.node}])
        /\ UNCHANGED <<keyOf, conns>>

\* Positions, in the order of the ring for key k, of the nodes that may be used:
\* the ones not excluded that have a connection or can be dialled.
Usable(k, excluded, dialable) ==
    {i \in DOMAIN Order[k] : Order[k][i] \in (ring \ excluded) \cap (client \cup dialable)}

FindCandidate_rebinds(k, excluded, dialable) ==
    LET usable == Usable(k, excluded, dialable)
    IN  IF usable # {} THEN Order[k][Min(usable)] ELSE Nowhere

\* findCandidateClientConn: the node the key is bound to, unless it is excluded,
\* else the first of the ring that is usable.
FindCandidate(k, excluded, dialable) ==
    LET usable == Usable(k, excluded, dialable)
    IN  IF key2Node[k] \in client \ excluded THEN key2Node[k]
        ELSE IF usable # {} THEN Order[k][Min(usable)] ELSE Nowhere

\* The candidate is stored in the three maps.
BindTo(k, n) ==
    /\ key2Node' = [key2Node EXCEPT ![k] = n]
    /\ client' = client \cup {n}
    /\ Touched(n)

\* GetClientConn under the lock, of a key that was not bound.  The nodes
\* outside dialable do not answer the dial.
BindKey(c, dialable) ==
    LET s == call[c]
        k == keyOf[c]
        n == FindCandidate(k, {}, dialable)
    IN  /\ At(c, "bind") /\ LockFree
        /\ IF n = Nowhere
           THEN /\ Step(c, [Attempted(s, "none", Nowhere) EXCEPT !.tried = s.tried \cup ring])
                /\ UNCHANGED <<key2Node, client, access>>
           ELSE BindTo(k, n) /\ Step(c, Holding(s, n))
        /\ UNCHANGED <<keyOf, ring, gcOn>>
-----------------------------------------------------------------------------
\* The call itself.  A connection the collector has closed cannot succeed.
Succeeds(c) ==
    LET s == call[c]
    IN  /\ At(c, "invoke") /\ s.node # Nowhere
        /\ Step(c, IF s.kind \in {"stream", "seed"}
                   THEN [Idle EXCEPT !.at = "open", !.kind = s.kind, !.node = s.node,
                                     !.quiet = access[s.node]]
                   ELSE Idle)
        /\ UNCHANGED <<keyOf, conns>>

CallFails(c, err) ==
    LET s == call[c]
    IN  /\ At(c, "invoke")
        /\ Step(c, [Attempted(s, err, s.used) EXCEPT !.tried = s.tried \cup {s.used}])
        /\ UNCHANGED <<keyOf, conns>>

\* ExecuteWithRetry has given up.  LeaveTask and the calls with a target return;
\* so does the init of a stream that found no node; the others fail over, and a
\* registration and a report exclude the server they used last.
GivesUp(s) ==
    \/ s.kind \in {"leave", "target"}
    \/ s.kind \in {"stream", "seed"} /\ ~s.moved /\ s.err = "none"
    \/ s.kind \in {"register", "report"} /\ s.err = "cancel"

AttemptsFailed(c) ==
    LET s == call[c]
    IN  /\ At(c, "failed")
        /\ Step(c, IF GivesUp(s) THEN Idle
                   ELSE [s EXCEPT !.at = "migrate", !.failed = s.failed \cup ({s.node} \ {Nowhere}),
                                  !.node = Nowhere])
        /\ UNCHANGED <<keyOf, conns>>

\* The error TryMigrate and the next round are given: a report passes nil.
Cause(s) == IF s.kind = "report" THEN "none" ELSE s.err

\* TryMigrate under the read lock.
TryMigrate(c) ==
    LET s == call[c]
    IN  /\ At(c, "migrate")
        /\ Step(c, IF Cause(s) \in {"cancel", "df"} THEN Idle
                   ELSE [s EXCEPT !.at = "move", !.pre = key2Node[keyOf[c]]])
        /\ UNCHANGED <<keyOf, conns>>

\* exclusiveNodes with the node the key was bound to.
Excluded(s) == s.failed \cup {s.pre}

\* TryMigrate under the lock.
Migrate(c, dialable) ==
    LET s == call[c]
        k == keyOf[c]
        n == FindCandidate(k, Excluded(s), dialable)
    IN  /\ At(c, "move") /\ LockFree
        /\ IF n = Nowhere
           THEN /\ Step(c, [s EXCEPT !.at = "gaveUp", !.tried = s.tried \cup (ring \ Excluded(s))])
                /\ UNCHANGED <<key2Node, client, access>>
           ELSE /\ BindTo(k, n)
                /\ Step(c, [Execute(s, Cause(s)) EXCEPT !.failed = Excluded(s) \ {Nowhere},
                                                          !.moved = TRUE, !.pre = Nowhere])
        /\ UNCHANGED <<keyOf, ring, gcOn>>

\* The call returns the error that caused the failover.
Return(c) ==
    /\ At(c, "gaveUp")
    /\ Step(c, Idle)
    /\ UNCHANGED <<keyOf, conns>>
-----------------------------------------------------------------------------
\* Recv and Send of a stream: UpdateAccessNodeMapByHashKey loads the node of the
\* key and stores its access time, without the lock.
LoadAccess(c) ==
    /\ At(c, "open")
    /\ key2Node[keyOf[c]] # Nowhere
    /\ Step(c, [call[c] EXCEPT !.at = "touch", !.pre = key2Node[keyOf[c]]])
    /\ UNCHANGED <<keyOf, conns>>

StoreAccess_lost(c) ==
    /\ At(c, "touch")
    /\ Step(c, [call[c] EXCEPT !.at = "open", !.pre = Nowhere, !.quiet = 0])
    /\ UNCHANGED <<keyOf, conns>>

StoreAccess(c) ==
    /\ At(c, "touch")
    /\ Touched(call[c].pre)
    /\ Step(c, [call[c] EXCEPT !.at = "open", !.pre = Nowhere, !.quiet = 0])
    /\ UNCHANGED <<keyOf, ring, key2Node, client, gcOn>>

\* The stream ends, or breaks.
EndStream(c) ==
    /\ At(c, "open")
    /\ Step(c, Idle)
    /\ UNCHANGED <<keyOf, conns>>

Older(a) == IF a < Expired THEN a + 1 ELSE a

\* Time passes.
Tick ==
    /\ access' = [n \in Nodes |-> Older(access[n])]
    /\ call' = [c \in Callers |->
                  IF call[c].at \in {"open", "touch"}
                  THEN [call[c] EXCEPT !.quiet = Older(@)] ELSE call[c]]
    /\ <<access, call>>' # <<access, call>>
    /\ UNCHANGED <<keyOf, ring, key2Node, client, gcOn>>

\* The connections to the nodes of N are closed and forgotten with their keys.
Forget(N) ==
    /\ client' = client \ N
    /\ key2Node' = [k \in Keys |-> IF key2Node[k] \in N THEN Nowhere ELSE key2Node[k]]
    /\ access' = [n \in Nodes |-> IF n \in N THEN NoEntry ELSE access[n]]
    /\ call' = [c \in Callers |->
                  IF call[c].at \in {"invoke", "open", "touch"} /\ call[c].node \in N \cap client
                  THEN [call[c] EXCEPT !.node = Nowhere] ELSE call[c]]

\* An entry of accessNodeMap that is due.
Expirable(n) == access[n] = Expired

\* A round of startGC.
CollectConns ==
    LET due == {n \in Nodes : Expirable(n)}
    IN  /\ gcOn /\ LockFree /\ due # {}
        /\ Forget(due)
        /\ UNCHANGED <<keyOf, ring, gcOn>>

\* UpdateState: dynconfig gave another list.
UpdateState(addrs) ==
    /\ LockFree
    /\ ring # addrs
    /\ ring' = addrs
    /\ UNCHANGED <<keyOf, key2Node, client, access, call, gcOn>>

\* Close: only the connections of the current list are closed.
Close ==
    /\ gcOn /\ LockFree
    /\ Forget(ring)
    /\ gcOn' = FALSE
    /\ UNCHANGED <<keyOf, ring>>
-----------------------------------------------------------------------------
\* The steps of callers, whatever the servers answer.
Proceeds(c) ==
    \/ GetClientConn(c) \/ GetClientConnByTarget(c) \/ Dial(c) \/ BindKey(c, Nodes)
    \/ Succeeds(c) \/ CallFails(c, "conn")
    \/ AttemptsFailed(c) \/ TryMigrate(c) \/ Migrate(c, Nodes) \/ Return(c) \/ StoreAccess(c)

Begins(c) == \E kind \in Kinds : Begin(c, kind)

Continues == \E c \in Callers : Proceeds(c) \/ LoadAccess(c) \/ EndStream(c)

Disturbance ==
    \/ \E c \in Callers : \/ DialFails(c)
                          \/ \E err \in {"lacked", "df", "cancel"} : CallFails(c, err)
                          \/ \E D \in SUBSET Nodes \ {Nodes} : BindKey(c, D) \/ Migrate(c, D)
    \/ CollectConns \/ Close
    \/ \E addrs \in SUBSET Nodes : UpdateState(addrs)

Next == (\E c \in Callers : Begins(c)) \/ Continues \/ Tick \/ Disturbance

Spec == Init /\ [][Next]_vars

\* A caller's goroutine runs on, and grpc calls end: with an answer, an error,
\* or the deadline of their context.
Fairness == \A c \in Callers : WF_vars(Proceeds(c))
-----------------------------------------------------------------------------
\* No other caller uses the key of c.
OwnKey(c) == \A d \in Callers \ {c} : keyOf[d] # keyOf[c]

\* A key moves from one server to another only when a call that failed migrates
\* it (client.go:367-398): two first calls that race for an unbound key, a new
\* server list and a late first call all leave a bound key where it is.
StickyKeys ==
    [][\A k \in Keys :
         key2Node[k] # Nowhere /\ key2Node'[k] \notin {key2Node[k], Nowhere} =>
            \E c \in Callers : keyOf[c] = k /\ At(c, "move")]_vars

\* A call that fails over gives up on a broken connection only when every server
\* of the list has been asked or does not answer (client.go:231-262, 389-392), as long as
\* no other call uses its key.
GivesUpAfterAsking ==
    [][\A c \in Callers :
         LET s == call'[c]
         IN  At(c, "move") /\ s.at = "gaveUp" /\ OwnKey(c)
                /\ s.err \notin {"df", "lacked", "cancel"}
             => ring \subseteq s.tried]_vars

\* The collector closes the connection of an open stream only when nothing was
\* sent or received on it for connExpireTime (client_util.go:56-66), as long as
\* no other call uses its key.
StreamKept ==
    [][\A c \in Callers :
         (OwnKey(c) /\ gcOn' /\ call[c].at \in {"open", "touch"} /\ call'[c].node # call[c].node
            /\ call'[c].at # "idle")
         => call[c].quiet >= Expired]_vars

\* A call ends: failover excludes one more server each time it moves the key
\* (client.go:381-385), as long as no other call uses its key.
CallEnds ==
    \A c \in Callers :
        OwnKey(c) /\ At(c, "get") ~> At(c, "idle") \/ At(c, "open")
=============================================================================
