---------------------------- MODULE SchedulerCore ----------------------------
(***************************************************************************)
(* scheduler/core and scheduler/supervisor: one task, its peers, and the   *)
(* worker goroutine that applies the task's events one after the other.    *)
(*                                                                         *)
(* The worker (events.go), the reschedule loop (service.go), the two       *)
(* garbage collectors (peer.go, task.go), the goroutine that feeds the     *)
(* task from the CDN (cdn.go) and the RPC handlers (rpcserver.go) run      *)
(* concurrently.  One action is one uninterrupted piece of one of them:    *)
(* the application of an event by the worker, a stage of a collector's     *)
(* visit, one turn of the reschedule loop, the part of a handler before it *)
(* hands its event to the worker.  Where one of them looks at a peer's     *)
(* status, or at the weight, and writes later what another may have        *)
(* overwritten, the look and the write are two actions.  The evaluator's   *)
(* scores, the order of the peers in the task's list and elapsed times are *)
(* abstracted to "any".                                                    *)
(***************************************************************************)
EXTENDS Integers, FiniteSets

CONSTANTS Clients,           \* peers of dfdaemons
          CDNs,              \* peer objects of CDN hosts
          NoPeer,
          Hosts, HostOf,     \* the host a peer runs on
          TotalUploadLoad,   \* upload slots of a host
          BackSourceCount,   \* config.BackSourceCount
          MaxRescheduleTimes,\* maxRescheduleTimes
          CDNEnabled,        \* FALSE: disableCDN
          MaxPieces,         \* bound: pieces of the task
          Faults,            \* bound: which of AllFaults the environment plays
          MaxInFlight,       \* bound: unary reports looked up but not yet applied
          MaxQueue           \* bound: entries of the reschedule queue

Peers == Clients \cup CDNs

AllFaults == {"disconnect", "busy", "outlier",
              "pieceFail", "fail", "leave", "seedFail",
              "late",          \* piece results and reports of a peer that is done
              "ownSource",     \* a client that downloads from the source unasked
              "idle", "expire", "taskIdle"}

ASSUME PeersFinite == IsFiniteSet(Clients) /\ IsFiniteSet(CDNs)
ASSUME PeersDistinct == Clients \cap CDNs = {} /\ NoPeer \notin Peers
ASSUME HostOfType == HostOf \in [Peers -> Hosts]
ASSUME LimitsNat ==
    /\ TotalUploadLoad \in Nat /\ BackSourceCount \in Nat
    /\ MaxRescheduleTimes \in Nat /\ MaxPieces \in Nat
    /\ Faults \subseteq AllFaults
    /\ MaxInFlight \in Nat /\ MaxQueue \in Nat /\ CDNEnabled \in BOOLEAN

VARIABLES
    sup,      \* the supervisor's records of the peers, see SupType
    conn,     \* Peer.conn of the clients: "none", "open" or "closed"
    main,     \* main peer of the last packet sent on the current stream
    offered,  \* all peers ever named to a client in a packet
    task,     \* Task.status
    weight,   \* Task.BackToSourceWeight
    b2s,      \* Task.backToSourcePeers
    told,     \* clients whose open stream was closed with NeedBackSource
    starting, \* clients whose zero piece waits for the worker
    pending,  \* unary reports that wait for the worker
    waitQ,    \* waitScheduleParentPeerQueue
    inHand,   \* the rsPeer the reschedule loop is busy with
    seed,     \* the goroutine of StartSeedTask
    gc,       \* the peer RunGC is visiting
    crashed   \* a nil pointer was dereferenced: the process is gone

vars == <<sup, conn, main, offered, task, weight, b2s, told,
          starting, pending, waitQ, inHand, seed, gc, crashed>>

-----------------------------------------------------------------------------
(* Types.                                                                  *)

PeerStatus == {"None",  \* no such Peer object yet
               "Waiting", "Running", "Zombie", "Fail", "Success"}
TaskStatus == {"Waiting", "Running", "Seeding", "Success", "Zombie", "Fail"}

\* registered: peerManager.peers; listed: Task.peers, which every change of a
\* peer's children re-inserts the peer into, deleted or not; pieces: finished
\* pieces; slow: the last piece cost is an outlier, which makes a bad node;
\* reviving: a handler in BindNewConn or Touch has read a status and is about to
\* store Running; ended: the worker applied the client's final report (history).
SupType == [status : [Peers -> PeerStatus],
            parent : [Peers -> Peers \cup {NoPeer}],
            left : SUBSET Peers,
            registered : SUBSET Peers,
            listed : SUBSET Peers,
            pieces : [Peers -> 0..MaxPieces],
            slow : SUBSET Clients,
            reviving : SUBSET Clients,
            ended : SUBSET Peers]

RsPeers == [peer : Clients, blank : SUBSET Peers, times : Nat]
NoRs == [peer |-> NoPeer, blank |-> {}, times |-> 0]

Reports == [peer : Clients, kind : {"success", "fail", "leave"}]

SeedStages == {"none", "connecting", "receiving", "succeeded", "failed"}
SeedType == [stage : SeedStages, cdn : CDNs \cup {NoPeer}, byRegister : BOOLEAN]
NoSeed == [stage |-> "none", cdn |-> NoPeer, byRegister |-> FALSE]

\* at "idle" the collector found the peer idle and not done, at "mark" it found
\* it not a Zombie, at "sweep" it is about to look whether to delete it.
GCType == [peer : Peers \cup {NoPeer}, expired : BOOLEAN,
           at : {"none", "idle", "mark", "sweep"}]
NoGC == [peer |-> NoPeer, expired |-> FALSE, at |-> "none"]

TypeOK ==
    /\ sup \in SupType
    /\ conn \in [Clients -> {"none", "open", "closed"}]
    /\ main \in [Clients -> Peers \cup {NoPeer}]
    /\ offered \in [Clients -> SUBSET Peers]
    /\ task \in TaskStatus
    /\ weight \in (-1)..BackSourceCount  \* one too many: see BackToSource
    /\ b2s \subseteq Clients
    /\ told \subseteq Clients
    /\ starting \subseteq Clients
    /\ pending \subseteq Reports
    /\ waitQ \subseteq RsPeers
    /\ inHand \in RsPeers \cup {NoRs}
    /\ seed \in SeedType
    /\ gc \in GCType
    /\ crashed \in BOOLEAN

Init ==
    /\ sup = [status |-> [p \in Peers |-> "None"],
              parent |-> [p \in Peers |-> NoPeer],
              left |-> {}, registered |-> {}, listed |-> {},
              pieces |-> [p \in Peers |-> 0], slow |-> {},
              reviving |-> {}, ended |-> {}]
    /\ conn = [p \in Clients |-> "none"]
    /\ main = [p \in Clients |-> NoPeer]
    /\ offered = [p \in Clients |-> {}]
    /\ task = "Waiting"
    /\ weight = 0
    /\ b2s = {} /\ told = {} /\ starting = {} /\ pending = {} /\ waitQ = {}
    /\ inHand = NoRs
    /\ seed = NoSeed
    /\ gc = NoGC
    /\ crashed = FALSE

-----------------------------------------------------------------------------
(* Peers and their tree, as functions of the supervisor's records.         *)

CanSchedule == task \in {"Seeding", "Success"}
IsHealth == task \in {"Running", "Seeding", "Success"}

IsDone(s, p) == s.status[p] \in {"Success", "Fail"}
IsBad(s, p) == s.status[p] \in {"Fail", "Zombie"}

\* Evaluator.IsBadNode: the cost rule never applies to a CDN.
IsBadNode(s, p) == IsBad(s, p) \/ p \in s.slow

Children(s, p) == {c \in Peers : s.parent[c] = p}

\* Host.CurrentUploadLoad and GetFreeUploadLoad
UploadLoad(s, h) ==
    Cardinality({c \in Peers : s.parent[c] # NoPeer /\ HostOf[s.parent[c]] = h})
FreeUpload(s, p) == TotalUploadLoad - UploadLoad(s, HostOf[p])

\* The peers met when following the parents of p.  On a cyclic tree the loop of
\* isDescendant does not end; see Acyclic.
TreeDepth == Cardinality(Peers)
Walk(s, p) ==
    LET up[n \in 0..TreeDepth] ==
            IF n = 0 THEN p
            ELSE IF up[n - 1] = NoPeer THEN NoPeer ELSE s.parent[up[n - 1]]
    IN  {up[n] : n \in 1..TreeDepth} \ {NoPeer}

\* isDescendant(ancestor, offspring)
IsDescendant(s, ancestor, offspring) == ancestor \in Walk(s, offspring)

\* ReplaceParent for every peer of C: both ends of each changed edge are
\* re-inserted into the task's list by UpdatePeer.
ReplaceParent(s, C, q) ==
    [s EXCEPT !.parent = [c \in Peers |-> IF c \in C THEN q ELSE s.parent[c]],
              !.listed = @ \cup (({s.parent[c] : c \in C} \cup
                                  {r \in {q} : C # {}}) \ {NoPeer})]

\* peerManager.Delete: the peer leaves host, list and tree; its own children
\* keep pointing at it.
DeletePeer(s, q) ==
    IF q \notin s.registered THEN s
    ELSE [ReplaceParent([s EXCEPT !.listed = @ \ {q}], {q}, NoPeer)
            EXCEPT !.registered = @ \ {q}]

\* Slip: revives a peer whatever its status.
Touch_any(s, p) ==
    IF p \notin s.left THEN [s EXCEPT !.status[p] = "Running"] ELSE s

\* Peer.Touch, as the worker and the seeding goroutine call it: no other writer
\* of a final status can come between the look and the write there.  A handler
\* that has the peer's lock stores Running itself.
Touch(s, p) ==
    IF s.status[p] = "Zombie" /\ p \notin s.left \cup s.reviving
    THEN [s EXCEPT !.status[p] = "Running"] ELSE s

SetStatus(s, p, st) == [s EXCEPT !.status[p] = st]

\* The worker sets the status a final report asks for.
End(s, p, st) == [s EXCEPT !.status[p] = st, !.ended = @ \cup {p}]

-----------------------------------------------------------------------------
(* Scheduling: scheduler/basic/basic_scheduler.go.                         *)

\* selectCandidateParents
CandidateParents(s, p, blank) ==
    {q \in s.listed :
        /\ CanSchedule
        /\ q \notin blank /\ q # p
        /\ ~IsBadNode(s, q)
        /\ q \notin s.left
        /\ ~IsDescendant(s, p, q)
        /\ FreeUpload(s, q) > 0
        /\ s.status[q] # "Waiting"
        /\ s.pieces[q] > s.pieces[p]}

\* ScheduleParent enters the chosen parent into the tree only if the peer
\* already had one; the first edge is made by the first piece it reports.
TakeParent(s, p, q) ==
    IF s.parent[p] \notin {NoPeer, q} THEN ReplaceParent(s, {p}, q) ELSE s

\* Slip: forgets that a peer without a stream is still waiting.
CandidateChildren_waiting(s, p, blank) ==
    {c \in s.listed \cap Clients :
        c \notin blank /\ c # p /\ ~IsDone(s, c) /\ ~IsDescendant(s, c, p)
          /\ s.pieces[c] < s.pieces[p]}

\* selectCandidateChildren
CandidateChildren(s, p, blank) ==
    {c \in s.listed \cap Clients :
        /\ c \notin blank /\ c # p
        /\ ~IsDone(s, c)
        /\ c \notin s.left
        /\ s.status[c] # "Waiting"
        /\ ~IsDescendant(s, c, p)
        /\ s.pieces[c] < s.pieces[p]
        /\ conn[c] = "open"}

\* The sets of new children ScheduleChildren may choose: as many as there are
\* free slots at most; none at all only if nothing is free or acceptable, or if
\* present children fill the first 2 * free places of the candidate list.
ChildChoices(s, p, blank) ==
    LET cand == CandidateChildren(s, p, blank)
        new == cand \ Children(s, p)
    IN  IF IsBadNode(s, p) \/ FreeUpload(s, p) <= 0 \/ new = {} THEN {{}}
        ELSE {C \in SUBSET new : /\ Cardinality(C) <= FreeUpload(s, p)
                                 /\ C = {} => new # cand}

\* One after the other, in the order ord, the children of p are offered new
\* parents; f is the outcome, NoPeer where there is none.
Orders(S) == {o \in [S -> 1..Cardinality(S)] : \A x, y \in S : o[x] = o[y] => x = y}

Moved(s, f, D) ==
    LET found == {c \in D : f[c] # NoPeer}
    IN  [s EXCEPT !.parent = [c \in Peers |-> IF c \in found THEN f[c] ELSE s.parent[c]],
                  !.listed = @ \cup {f[c] : c \in found} \cup {s.parent[c] : c \in found}]

CandidatesInTurn(s, p, f, ord, c) ==
    CandidateParents(Moved(s, f, {d \in DOMAIN f : ord[d] < ord[c]}), c, {p})

IsReassignment(s, p, f, ord) ==
    \A c \in DOMAIN f :
        LET cand == CandidatesInTurn(s, p, f, ord, c)
        IN  IF cand = {} THEN f[c] = NoPeer ELSE f[c] \in cand

-----------------------------------------------------------------------------
(* Packets, closing a stream, the reschedule queue.                        *)

Out == [main |-> main, offered |-> offered, waitQ |-> waitQ]
SetOut(o) == main' = o.main /\ offered' = o.offered /\ waitQ' = o.waitQ

Wait(p, blank) == [peer |-> p, blank |-> blank, times |-> 0]

\* The channels of C that may be busy when a packet is sent.
BusySets(C) == IF "busy" \in Faults THEN SUBSET C ELSE {{}}

\* SendSchedulePacket to every c in DOMAIN f, naming f[c] and the candidates
\* steal[c].  A busy channel queues the peer again; without an open stream the
\* packet is dropped.
Send(o, f, steal, busy) ==
    LET open == {c \in Clients \cap DOMAIN f : conn[c] = "open"}
    IN  [main |-> [c \in Clients |-> IF c \in open \ busy THEN f[c] ELSE o.main[c]],
         offered |-> [c \in Clients |-> IF c \in open \ busy
                                        THEN o.offered[c] \cup {f[c]} \cup steal[c]
                                        ELSE o.offered[c]],
         waitQ |-> o.waitQ \cup {Wait(c, {}) : c \in open \cap busy}]

SendParent(o, C, q, busy) ==
    Send(o, [c \in C |-> q], [c \in C |-> {}], busy)

\* After ScheduleParent chose q for p, the other candidates go along.
SendChosen(o, p, q, cand, busy) ==
    Send(o, [c \in {p} |-> q], [c \in {p} |-> cand \ {q}], busy)

\* CloseChannelWithError on every peer of C that ever had a stream.
Connected(C) == {p \in C \cap Clients : conn[p] # "none"}
CloseChannels(C) ==
    conn' = [p \in Clients |-> IF p \in Connected(C) THEN "closed" ELSE conn[p]]

\* Slip: no second look at the weight.
AddedBackToSource_unchecked(C) == Connected(C) \ b2s

\* AddBackToSourcePeer takes a peer of C only while the weight lasts.
AddedBackToSource(C) == IF weight > 0 THEN Connected(C) \ b2s ELSE {}

\* The reschedule loop is inside AddBackToSourcePeer: past the looks, before the
\* lock.
LoopAdding == inHand.times > MaxRescheduleTimes

\* AddBackToSourcePeer, called by the worker, refuses p: between the worker's
\* look and this one the loop added p itself, or took the last of the weight.
Refused(p, C) ==
    LoopAdding /\ (p = inHand.peer \/ Cardinality(AddedBackToSource(C)) = weight)

\* AddBackToSourcePeer of the worker, for each peer of C.
BackToSource(C) ==
    \E B \in {AddedBackToSource(C)}
               \cup {AddedBackToSource(C) \ {p} : p \in {q \in C : Refused(q, C)}} :
        /\ b2s' = b2s \cup B
        /\ weight' = weight - Cardinality(B)

\* CloseChannelWithError(NeedBackSource) on every peer of C.
SendBackToSource(C) ==
    /\ CloseChannels(C)
    /\ told' = told \cup {p \in Connected(C) : conn[p] = "open"}

\* CloseChannelWithError(NeedBackSource), then AddBackToSourcePeer, for C.
NeedBackSource(C) == SendBackToSource(C) /\ BackToSource(C)

streams == <<conn, told, b2s, weight>>

\* Slip: gives up when nobody may go to the source.
NoParentFor_dropped(p, rs) ==
    /\ NeedBackSource({p} \cap {q \in Clients : weight > 0 /\ q \notin b2s})
    /\ UNCHANGED waitQ

\* No parent was found: back to the source while the weight lasts, else wait.
NoParentFor(p, rs) ==
    \/ /\ weight > 0 /\ p \notin b2s
       /\ NeedBackSource({p})
       /\ UNCHANGED waitQ
    \/ /\ ~(weight > 0 /\ p \notin b2s)
       /\ waitQ' = waitQ \cup {rs}
       /\ UNCHANGED streams

\* handleCDNSeedTaskFail, entered with task status st.
HandleCDNSeedTaskFail(st) ==
    \/ /\ weight > 0
       /\ LET able == Connected(sup.listed) \ b2s
          IN  \E B \in SUBSET able :
                /\ Cardinality(B) = IF Cardinality(able) < weight
                                    THEN Cardinality(able) ELSE weight
                /\ NeedBackSource(B)
       /\ task' = st
    \/ /\ weight <= 0
       /\ task' = "Fail"
       /\ CloseChannels(sup.listed)
       /\ UNCHANGED <<told, b2s, weight>>

-----------------------------------------------------------------------------
(* RPC handlers: rpcserver.go, service.go.                                 *)

\* GetOrAddTask (re)triggers an unhealthy task unless it was triggered within
\* the access window: with a CDN by a seeding goroutine, else by the clients.
GetOrAddTask ==
    \/ /\ IsHealth \/ \E q \in Clients : sup.status[q] # "None"
       /\ task # "Fail"
       /\ UNCHANGED <<task, weight, seed>>
    \/ /\ ~IsHealth /\ CDNEnabled /\ seed.stage = "none"
       /\ task' = "Running"
       /\ seed' = [stage |-> "connecting", cdn |-> NoPeer, byRegister |-> TRUE]
       /\ UNCHANGED weight
    \/ /\ ~IsHealth /\ ~CDNEnabled
       /\ task' = "Running"
       /\ weight' = BackSourceCount
       /\ UNCHANGED seed

\* RegisterPeerTask: GetOrAddTask, then RegisterTask makes the peer.  A client
\* whose task failed is turned away.
Register(p) ==
    /\ p \in Clients /\ sup.status[p] = "None"
    /\ GetOrAddTask
    /\ sup' = [sup EXCEPT !.status[p] = "Waiting",
                          !.registered = @ \cup {p}, !.listed = @ \cup {p}]
    /\ UNCHANGED <<conn, main, offered, b2s, told, starting,
                   pending, waitQ, inHand, gc, crashed>>

\* A handler about to write p's status: BindNewConn of a new stream has read
\* Waiting, or Touch has read Zombie of a peer that has not left.  The lock it
\* holds keeps out other handlers, not the worker and not the collector.
Awaken(p) ==
    /\ p \in Clients \ sup.reviving
    /\ p \in sup.registered \/ conn[p] = "open"
    /\ p \in sup.ended => "late" \in Faults
    /\ \/ sup.status[p] = "Waiting" /\ conn[p] # "open" /\ task # "Fail"
       \/ Touch(sup, p) # sup
    /\ sup' = [sup EXCEPT !.reviving = @ \cup {p}]
    /\ UNCHANGED <<conn, main, offered, task, weight, b2s, told, starting,
                   pending, waitQ, inHand, seed, gc, crashed>>

\* It stores Running, whatever the status is by now.
StoreRunning(p) ==
    /\ p \in sup.reviving
    /\ sup' = [SetStatus(sup, p, "Running") EXCEPT !.reviving = @ \ {p}]
    /\ UNCHANGED <<conn, main, offered, task, weight, b2s, told, starting,
                   pending, waitQ, inHand, seed, gc, crashed>>

\* Every handler goes through Touch before it hands over its event: its peer is
\* then a Zombie only if it has left.
Touched(p) == p \notin sup.reviving /\ Touch(sup, p) = sup

\* ReportPieceResult up to the hand-over of the zero piece: BindNewConn, Touch.
Connect(p) ==
    /\ p \in Clients \cap sup.registered
    /\ conn[p] # "open" /\ p \notin sup.ended  \* how dfdaemons use the stream
    /\ p \notin starting
    /\ task # "Fail"
    /\ sup.status[p] # "Waiting" /\ Touched(p)
    /\ conn' = [conn EXCEPT ![p] = "open"]
    /\ main' = [main EXCEPT ![p] = NoPeer]
    /\ starting' = starting \cup {p}
    /\ UNCHANGED <<sup, offered, task, weight, b2s, told, pending,
                   waitQ, inHand, seed, gc, crashed>>

\* The stream ends (receiveLoop or sendLoop fails, or the client hangs up).
Disconnect(p) ==
    /\ "disconnect" \in Faults
    /\ conn[p] = "open"
    /\ conn' = [conn EXCEPT ![p] = "closed"]
    /\ UNCHANGED <<sup, main, offered, task, weight, b2s, told,
                   starting, pending, waitQ, inHand, seed, gc, crashed>>

\* ReportPeerResult and LeaveTask up to the hand-over of the event.
Report(p, kind) ==
    /\ p \in Clients \cap sup.registered
    /\ kind \in {"success"} \cup Faults
    /\ kind # "leave" /\ p \in sup.ended => "late" \in Faults
    /\ Cardinality(pending) < MaxInFlight
    /\ Touched(p)
    /\ pending' = pending \cup {[peer |-> p, kind |-> kind]}
    /\ UNCHANGED <<sup, conn, main, offered, task, weight, b2s, told,
                   starting, waitQ, inHand, seed, gc, crashed>>

-----------------------------------------------------------------------------
(* Events the worker applies: events.go.                                   *)

\* startReportPieceResultEvent
StartReport(p) ==
    /\ p \in starting
    /\ starting' = starting \ {p}
    /\ \/ /\ sup.parent[p] # NoPeer
          /\ \E busy \in BusySets({p}) : SetOut(SendParent(Out, {p}, sup.parent[p], busy))
          /\ UNCHANGED streams
       \/ /\ sup.parent[p] = NoPeer /\ p \in b2s
          /\ UNCHANGED <<main, offered, waitQ, streams>>
       \/ /\ sup.parent[p] = NoPeer /\ p \notin b2s
          /\ CandidateParents(sup, p, {}) = {}
          /\ NoParentFor(p, Wait(p, {}))
          /\ UNCHANGED <<main, offered>>
       \/ /\ sup.parent[p] = NoPeer /\ p \notin b2s
          /\ \E q \in CandidateParents(sup, p, {}), busy \in BusySets({p}) :
                SetOut(SendChosen(Out, p, q, CandidateParents(sup, p, {}), busy))
          /\ UNCHANGED streams
    /\ UNCHANGED <<sup, task, pending, inHand, seed, gc, crashed>>

\* Slip: attempts are not counted.
Retry_uncounted(rs) == rs

\* An attempt more.
Retry(rs) == [rs EXCEPT !.times = @ + 1]

\* reScheduleParentEvent
ReScheduleParent ==
    LET p == inHand.peer
        cand == CandidateParents(sup, p, inHand.blank)
    IN
    /\ inHand # NoRs /\ ~LoopAdding
    /\ inHand' = NoRs
    /\ \/ /\ task = "Fail"
          /\ CloseChannels({p})
          /\ UNCHANGED <<sup, main, offered, waitQ, told, b2s, weight>>
       \/ /\ task # "Fail"
          /\ sup.parent[p] \notin inHand.blank \cup {NoPeer}
          /\ UNCHANGED <<sup, main, offered, waitQ, streams>>
       \/ /\ task # "Fail"
          /\ sup.parent[p] \in inHand.blank \cup {NoPeer}
          /\ cand = {}
          /\ NoParentFor(p, Retry(inHand))
          /\ UNCHANGED <<sup, main, offered>>
       \/ /\ task # "Fail"
          /\ sup.parent[p] \in inHand.blank \cup {NoPeer}
          /\ \E q \in cand, busy \in BusySets({p}) :
                /\ sup' = TakeParent(sup, p, q)
                /\ SetOut(SendChosen(Out, p, q, cand, busy))
          /\ UNCHANGED streams
    /\ UNCHANGED <<task, starting, pending, seed, gc, crashed>>

\* UpdateProgress: a higher count re-inserts the peer into the task's list and
\* decides anew, from the second piece on, whether its last cost is an outlier.
UpdateProgress(s, p, n, outlier) ==
    IF n <= s.pieces[p] THEN s
    ELSE [s EXCEPT !.pieces[p] = n,
                   !.listed = @ \cup {p},
                   !.slow = IF outlier /\ n > 1 /\ p \in Clients THEN @ \cup {p}
                            ELSE @ \ {p}]

\* HandlePieceResult with a successful piece from dst (p itself when the client
\* went back to the source), and peerDownloadPieceSuccessEvent.
PieceSuccess(p, dst, n, outlier) ==
    LET s == UpdateProgress(sup, p, n, outlier)
        orphan == ReplaceParent(s, {p}, NoPeer)
        cand == CandidateParents(orphan, p, {dst})
    IN
    /\ outlier => "outlier" \in Faults
    /\ dst \in offered[p] \cup {p}
    /\ dst = p => p \in b2s \/ "ownSource" \in Faults
    /\ n \in sup.pieces[p]..(sup.pieces[p] + 1) /\ n <= MaxPieces
    /\ p \in sup.ended \/ n = sup.pieces[p] => "late" \in Faults
    /\ conn[p] = "open" /\ p \notin starting /\ Touched(p)
    /\ \/ /\ p \in b2s
          /\ sup' = s
          /\ task' = IF CanSchedule THEN task ELSE "Seeding"
          /\ UNCHANGED <<main, offered, waitQ, crashed>>
       \/ /\ p \notin b2s
          /\ dst \notin s.registered
          /\ sup' = s
          /\ UNCHANGED <<main, offered, waitQ, task, crashed>>
       \/ /\ p \notin b2s
          /\ dst \in s.registered \ s.left
          /\ sup' = Touch(IF s.parent[p] # dst /\ dst # p
                          THEN ReplaceParent(s, {p}, dst) ELSE s, dst)
          /\ UNCHANGED <<main, offered, waitQ, task, crashed>>
       \/ /\ p \notin b2s
          /\ dst \in s.registered \cap s.left
          /\ cand # {}
          /\ \E q \in cand, busy \in BusySets({p}) :
                /\ sup' = Touch(IF dst # p THEN ReplaceParent(orphan, {p}, q)
                                ELSE orphan, q)
                /\ SetOut(SendChosen(Out, p, q, cand, busy))
          /\ UNCHANGED <<task, crashed>>
       \/ /\ p \notin b2s
          /\ dst \in s.registered \cap s.left
          /\ cand = {}
          /\ sup' = orphan
          /\ crashed' = TRUE     \* parentPeer is nil in sets.NewString(parentPeer.ID)
          /\ UNCHANGED <<main, offered, waitQ, task>>
    /\ UNCHANGED <<streams, starting, pending, inHand, seed, gc>>

\* HandlePieceResult with a failed piece, and peerDownloadPieceFailEvent.
PieceFailCodes == {"wait", "peerNotFound", "cdnError", "other"}

PieceFail(p, dst, code) ==
    /\ "pieceFail" \in Faults /\ dst \in offered[p]
    /\ p \notin sup.ended
    /\ conn[p] = "open" /\ p \notin starting /\ Touched(p)
    /\ code = "cdnError" => dst \in CDNs
    /\ Cardinality(waitQ) < MaxQueue
    /\ \/ /\ p \in b2s \/ code = "wait"
          /\ UNCHANGED <<sup, waitQ, seed>>
       \/ /\ p \notin b2s /\ code # "wait"
          /\ sup' = IF code = "other" THEN sup ELSE DeletePeer(sup, dst)
          /\ seed' = IF code = "cdnError" /\ seed.stage = "none"
                     THEN [stage |-> "connecting", cdn |-> NoPeer, byRegister |-> FALSE]
                     ELSE seed
          /\ waitQ' = waitQ \cup {Wait(p, {dst})}
    /\ UNCHANGED <<main, offered, task, streams, starting, pending, inHand, gc, crashed>>

\* removePeerFromCurrentTree: the peer gives its slot back and the old parent
\* takes other children into its free slots.  The packets name the PEER that
\* left the tree, not the parent that took the children.
RemovePeerFromCurrentTree(s, o, p, C, busy) ==
    LET par == s.parent[p]
        out == ReplaceParent(s, {p}, NoPeer)
    IN  [s |-> IF par = NoPeer THEN out ELSE ReplaceParent(out, C, par),
         o |-> SendParent(o, C, p, busy)]

FreedChoices(s, p) ==
    IF s.parent[p] = NoPeer THEN {{}}
    ELSE ChildChoices(ReplaceParent(s, {p}, NoPeer), s.parent[p], {p})

\* peerDownloadSuccessEvent
PeerDownloadSuccess(p) ==
    LET s == End(sup, p, "Success") IN
    /\ task' = IF p \in b2s THEN "Success" ELSE task
    /\ \E C \in FreedChoices(s, p), busy1, busy2 \in BusySets(Clients) :
          LET r == RemovePeerFromCurrentTree(s, Out, p, C, busy1) IN
          \E D \in ChildChoices(r.s, p, {}) :
             /\ busy1 \subseteq C /\ busy2 \subseteq D
             /\ sup' = ReplaceParent(r.s, D, p)
             /\ SetOut(SendParent(r.o, D, p, busy2))
    /\ UNCHANGED streams

\* What peerDownloadFailEvent and peerLeaveEvent have in common: the children
\* of p are moved to other parents, in some order; again[c] is queued for a
\* child c that finds none.
RescheduleChildren(s, o, p, f, ord, busy, again) ==
    LET found == {c \in DOMAIN f : f[c] # NoPeer}
        sent == Send(o, [c \in found |-> f[c]],
                     [c \in found |-> CandidatesInTurn(s, p, f, ord, c) \ {f[c]}], busy)
    IN  [s |-> Moved(s, f, DOMAIN f),
         o |-> [sent EXCEPT !.waitQ = @ \cup {again[c] : c \in DOMAIN f \ found}]]

Outcomes(s, p) == [Children(s, p) -> Peers \cup {NoPeer}]

\* peerDownloadFailEvent.  The entry queued for a child without a new parent
\* names the failed peer itself, not the child.
FailAgain(p, f) == [c \in DOMAIN f |-> Wait(p, {p})]

PeerDownloadFail(p) ==
    LET s == End(sup, p, "Fail") IN
    \/ /\ p \in b2s /\ task # "Success"
       /\ sup' = s
       /\ HandleCDNSeedTaskFail("Fail")
       /\ UNCHANGED <<main, offered, waitQ>>
    \/ /\ ~(p \in b2s /\ task # "Success")
       /\ \E C \in FreedChoices(s, p), busy1, busy2 \in BusySets(Clients) :
             LET r == RemovePeerFromCurrentTree(s, Out, p, C, busy1)
                 kids == Children(r.s, p)
             IN
             \E f \in Outcomes(r.s, p), ord \in Orders(kids) :
                LET z == RescheduleChildren(r.s, r.o, p, f, ord, busy2, FailAgain(p, f)) IN
                /\ busy1 \subseteq C /\ busy2 \subseteq kids
                /\ IsReassignment(r.s, p, f, ord)
                /\ sup' = z.s
                /\ SetOut(z.o)
       /\ UNCHANGED <<task, streams>>

\* peerLeaveEvent
LeaveAgain(p, f) == [c \in DOMAIN f |-> Wait(c, {p})]

PeerLeave(p) ==
    LET s == [sup EXCEPT !.left = @ \cup {p}] IN
    /\ \E C \in FreedChoices(s, p), busy1, busy2 \in BusySets(Clients) :
          LET r == RemovePeerFromCurrentTree(s, Out, p, C, busy1)
              kids == Children(r.s, p)
          IN
          \E f \in Outcomes(r.s, p), ord \in Orders(kids) :
             LET z == RescheduleChildren(r.s, r.o, p, f, ord, busy2, LeaveAgain(p, f)) IN
             /\ busy1 \subseteq C /\ busy2 \subseteq kids
             /\ IsReassignment(r.s, p, f, ord)
             /\ sup' = DeletePeer(z.s, p)
             /\ SetOut(z.o)
    /\ UNCHANGED <<task, streams>>

\* The worker takes a unary report.
ApplyReport(r) ==
    /\ r \in pending
    /\ pending' = pending \ {r}
    /\ CASE r.kind = "success" -> PeerDownloadSuccess(r.peer)
         [] r.kind = "fail" -> PeerDownloadFail(r.peer)
         [] r.kind = "leave" -> PeerLeave(r.peer)
    /\ UNCHANGED <<starting, inHand, seed, gc, crashed>>

-----------------------------------------------------------------------------
(* The reschedule loop: service.go.                                        *)

\* runReScheduleParentLoop, one turn: give up after too many attempts, drop
\* who needs no parent any more, hand the rest to the worker.  Who it gives up
\* is added to the task's list in a step of its own.
ReScheduleLoop(r) ==
    LET p == r.peer IN
    /\ inHand = NoRs /\ r \in waitQ
    /\ waitQ' = waitQ \ {r}
    /\ \/ /\ r.times > MaxRescheduleTimes
          /\ SendBackToSource({p})
          /\ inHand' = IF AddedBackToSource({p}) # {} THEN r ELSE inHand
          /\ UNCHANGED <<b2s, weight>>
       \/ /\ r.times <= MaxRescheduleTimes
          /\ p \in b2s \/ IsDone(sup, p) \/ p \in sup.left
          /\ UNCHANGED <<streams, inHand>>
       \/ /\ r.times <= MaxRescheduleTimes
          /\ ~(p \in b2s \/ IsDone(sup, p) \/ p \in sup.left)
          /\ inHand' = r
          /\ UNCHANGED streams
    /\ UNCHANGED <<sup, main, offered, task, starting, pending, seed, gc, crashed>>

\* AddBackToSourcePeer of the loop, from the lock on: p may be on the list and the
\* weight used up since the looks.
LoopBackToSource ==
    /\ inHand # NoRs /\ LoopAdding
    /\ inHand' = NoRs
    /\ b2s' = b2s \cup {inHand.peer}
    /\ weight' = weight - 1
    /\ UNCHANGED <<sup, conn, main, offered, task, told, starting, pending,
                   waitQ, seed, gc, crashed>>

-----------------------------------------------------------------------------
(* StartSeedTask and its caller's goroutine: supervisor/cdn.go, service.go. *)

unseeded == <<conn, main, offered, b2s, told, starting, pending, waitQ, inHand, gc, crashed>>

\* On the first message initCDNPeer finds the CDN's registered peer or makes a
\* new one.
InitCDNPeer(c) ==
    /\ seed.stage = "connecting"
    /\ c \in sup.registered \/ (sup.status[c] = "None" /\ CDNs \cap sup.registered = {})
    /\ sup' = [sup EXCEPT !.status[c] = "Running",
                          !.registered = @ \cup {c}, !.listed = @ \cup {c}]
    /\ task' = IF CanSchedule THEN task ELSE "Seeding"
    /\ seed' = [seed EXCEPT !.stage = "receiving", !.cdn = c]
    /\ UNCHANGED <<unseeded, weight>>

SeedPiece ==
    /\ seed.stage = "receiving"
    /\ sup.pieces[seed.cdn] < MaxPieces
    /\ sup' = UpdateProgress(Touch(sup, seed.cdn), seed.cdn,
                             sup.pieces[seed.cdn] + 1, FALSE)
    /\ UNCHANGED <<unseeded, task, weight, seed>>

\* The last piece, or the end of the stream of a task that is a success.
SeedDone ==
    /\ seed.stage = "receiving"
    /\ \/ /\ task' = "Success"
          /\ sup' = SetStatus(Touch(sup, seed.cdn), seed.cdn, "Success")
       \/ /\ task = "Success"
          /\ UNCHANGED <<task, sup>>
    /\ seed' = IF seed.byRegister THEN [seed EXCEPT !.stage = "succeeded"] ELSE NoSeed
    /\ UNCHANGED <<unseeded, weight>>

\* Any error.  Only GetOrAddTask's goroutine falls back to the clients.
SeedFail ==
    /\ "seedFail" \in Faults
    /\ seed.stage \in {"connecting", "receiving"}
    /\ \/ /\ seed.byRegister
          /\ weight' = BackSourceCount
          /\ seed' = [seed EXCEPT !.stage = "failed"]
       \/ /\ ~seed.byRegister
          /\ seed' = NoSeed
          /\ UNCHANGED weight
    /\ UNCHANGED <<unseeded, sup, task>>

\* The worker takes the goroutine's event.
SeedSuccessEvent ==
    /\ seed.stage = "succeeded"
    /\ PeerDownloadSuccess(seed.cdn)
    /\ seed' = NoSeed
    /\ UNCHANGED <<starting, pending, inHand, gc, crashed>>

TaskSeedFailEvent ==
    /\ seed.stage = "failed"
    /\ HandleCDNSeedTaskFail(task)
    /\ seed' = NoSeed
    /\ UNCHANGED <<sup, main, offered, starting, pending, waitQ, inHand, gc, crashed>>

-----------------------------------------------------------------------------
(* Garbage collection: peer.go and task.go RunGC.                          *)

uncollected == <<conn, main, offered, weight, b2s, told, starting, pending,
                 waitQ, inHand, seed, crashed>>

\* Slip: does not ask whether the peer is done.
IdlePeer_anyStatus(p) == p \notin CDNs

\* What RunGC asks of a peer it has not heard of for peerTTI.
IdlePeer(p) == ~IsDone(sup, p) /\ p \notin CDNs

\* A visit begins.  idle: longer than peerTTI without access; expired: longer
\* than peerTTL (which is longer than peerTTI).
PeerGCVisit(p, idle, expired) ==
    /\ gc = NoGC /\ p \in sup.registered
    /\ expired => idle /\ "expire" \in Faults
    /\ idle => "idle" \in Faults
    /\ idle \/ p \in sup.left \/ sup.status[p] = "Fail"  \* else nothing happens
    /\ gc' = [peer |-> p, expired |-> expired,
              at |-> IF idle /\ IdlePeer(p) THEN "idle" ELSE "sweep"]
    /\ UNCHANGED <<uncollected, sup, task>>

\* Who has no stream leaves; who is no Zombie is to become one.
PeerGCLeave ==
    /\ gc.at = "idle"
    /\ sup' = [sup EXCEPT !.left = IF conn[gc.peer] = "open" THEN @ ELSE @ \cup {gc.peer}]
    /\ gc' = [gc EXCEPT !.at = IF sup.status[gc.peer] = "Zombie" THEN "sweep" ELSE "mark"]
    /\ UNCHANGED <<uncollected, task>>

\* It becomes one, whatever the worker and the handlers wrote since the looks.
PeerGCMark ==
    /\ gc.at = "mark"
    /\ sup' = SetStatus(sup, gc.peer, "Zombie")
    /\ gc' = [gc EXCEPT !.at = "sweep"]
    /\ UNCHANGED <<uncollected, task>>

\* The end of a visit: delete who left, failed or expired.
PeerGCSweep ==
    LET p == gc.peer
        gone == p \in sup.left \/ sup.status[p] = "Fail" \/ gc.expired
    IN
    /\ gc.at = "sweep"
    /\ gc' = NoGC
    /\ sup' = IF gone THEN DeletePeer(sup, p) ELSE sup
    /\ task' = IF gone /\ sup'.listed = {} THEN "Waiting" ELSE task
    /\ UNCHANGED uncollected

\* taskManager.RunGC short of the task's TTL.
TaskGC(idle) ==
    /\ task' = IF sup.listed = {} THEN "Waiting"
               ELSE IF idle /\ "taskIdle" \in Faults /\ task = "Success" THEN "Zombie" ELSE task
    /\ task' # task
    /\ UNCHANGED <<uncollected, sup, gc>>

-----------------------------------------------------------------------------
\* Following the parents of any peer ends: no peer is its own ancestor, the
\* state basic_scheduler.go:246 ("not selected because it's ancestor is peer")
\* keeps out and isDescendant (peer.go:287) needs in order to return at all.
\* The edge pieceSuccess makes (events.go:199) is not checked by anybody.
Acyclic == \A p \in Peers : ~IsDescendant(sup, p, p)

\* Steps of downloads that go well, and of the machinery that repairs the rest.
Routine ==
    \/ \E p \in Clients :
            \/ Register(p) \/ Awaken(p) \/ StoreRunning(p) \/ Connect(p)
            \/ StartReport(p) \/ Report(p, "success")
            \/ \E dst \in Peers, n \in 0..MaxPieces, outlier \in BOOLEAN :
                    PieceSuccess(p, dst, n, outlier)
    \/ \E r \in pending : ApplyReport(r)
    \/ ReScheduleParent
    \/ \E r \in waitQ : ReScheduleLoop(r)
    \/ LoopBackToSource
    \/ \E c \in CDNs : InitCDNPeer(c)
    \/ SeedPiece \/ SeedDone \/ SeedSuccessEvent \/ TaskSeedFailEvent
    \/ \E p \in Peers : PeerGCVisit(p, FALSE, FALSE)
    \/ PeerGCLeave \/ PeerGCMark \/ PeerGCSweep
    \/ TaskGC(FALSE)

\* Steps in which something is lost, fails, leaves or times out.
Disturbance ==
    \/ \E p \in Clients :
            \/ Disconnect(p)
            \/ \E kind \in {"fail", "leave"} : Report(p, kind)
            \/ \E dst \in Peers, code \in PieceFailCodes : PieceFail(p, dst, code)
    \/ SeedFail
    \/ \E p \in Peers, expired \in BOOLEAN : PeerGCVisit(p, TRUE, expired)
    \/ TaskGC(TRUE)

\* After a crash nothing moves; on a cyclic tree the worker hangs in
\* isDescendant, and the model stops there too.
Alive == ~crashed /\ Acyclic

Next == Alive /\ (Routine \/ Disturbance)

Spec == Init /\ [][Next]_vars

(***************************************************************************)
(* Fairness: the worker and the reschedule loop are goroutines that never  *)
(* stop while the service runs (weak fairness for what is in hand), and    *)
(* the delaying queue is first in, first out among the entries whose delay *)
(* has passed, so no entry is passed over for ever (strong fairness for    *)
(* each client's entries).  Nothing is assumed of clients, CDN or clocks.  *)
(***************************************************************************)
Fairness ==
    /\ WF_vars(Alive /\ ReScheduleParent)
    /\ WF_vars(Alive /\ LoopBackToSource)
    /\ \A p \in Clients :
            SF_vars(Alive /\ \E r \in waitQ : r.peer = p /\ ReScheduleLoop(r))

-----------------------------------------------------------------------------
(* Properties.                                                             *)

Queued(p) ==
    (inHand.peer = p /\ ~LoopAdding) \/ \E r \in waitQ : r.peer = p

\* The scheduler forgets nobody: a registered client with an open stream that
\* has neither been given a parent nor been sent a packet on it, has not ended
\* and was not sent back to the source, is still in somebody's hands, whatever
\* mixture of failures, departures and collections went before, and whatever
\* status a stale look of the collector or of a handler left it with.
NoForgottenPeer ==
    ~crashed => \A p \in Clients \cap sup.registered :
        (/\ conn[p] = "open"
         /\ p \notin sup.left \cup b2s \cup sup.ended
         /\ sup.parent[p] = NoPeer
         /\ main[p] = NoPeer)
            => p \in starting \/ Queued(p)

\* Nobody waits for ever: a client in the reschedule queue with an open stream
\* is taken out of it, with a packet, because it needs no parent any more, or,
\* after maxRescheduleTimes attempts, with its stream closed and NeedBackSource,
\* as long as the worker lives: a crash or a cyclic tree ends it (Alive).
WaiterAnswered ==
    \A p \in Clients :
        (Queued(p) /\ conn[p] = "open") ~> (~Queued(p) \/ conn[p] # "open" \/ ~Alive)

\* Only peers that started a download are in the tree, and a CDN is a root:
\* Waiting peers are neither parents nor children, CDNs are never children.
TreeShape ==
    \A p \in Peers :
        sup.parent[p] # NoPeer =>
            /\ p \in Clients
            /\ sup.parent[p] # p
            /\ sup.status[p] \notin {"None", "Waiting"}
            /\ sup.status[sup.parent[p]] \notin {"None", "Waiting"}

\* Somebody who looked at p's status before is about to overwrite it: a handler
\* (peer.go:361-362, 454-455) or the collector (peer.go:139-146).
Rewriting(p) ==
    p \in sup.reviving \/ (gc.peer = p /\ gc.at \in {"idle", "mark"})

Settled(p) == IsDone(sup, p) /\ ~Rewriting(p)

\* A client that finished or failed is not counted as active again by anybody
\* who looks at it afterwards: neither Touch nor the collector nor the worker
\* takes a final status back or prepares to, except a handler or a collector
\* that had looked before the worker wrote it (nothing locks the status, so
\* that such a stale write does undo it is what the code allows).
DoneStaysDone ==
    [][\A p \in Clients : Settled(p) => Settled(p)']_vars
=============================================================================
