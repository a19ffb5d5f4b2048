------------------------------ MODULE Discovery ------------------------------
(***************************************************************************)
(* How a daemon learns which schedulers there are.  A scheduler keeps a    *)
(* stream to the manager open (pkg/rpc/manager/client KeepAlive); the      *)
(* manager's handler marks it active on the first message and inactive     *)
(* when the stream ends (manager/service KeepAlive).  The daemon asks for  *)
(* the active ones (ListSchedulers, through a cache that only time empties),*)
(* keeps the answer with an expiry (internal/dynconfig), also in a file,   *)
(* and hands it to its rpc connection when it changed (clientDaemon        *)
(* OnNotify; UpdateState of RpcConn).  A scheduler learns of the CDNs the  *)
(* same way, through GetScheduler.                                         *)
(*                                                                         *)
(* The manager's database and Redis survive its crash; the goroutines that *)
(* serve the streams do not.                                               *)
(***************************************************************************)
EXTENDS Naturals, FiniteSets

CONSTANTS Schedulers,
          NoList       \* no list of schedulers

ASSUME DiscoveryAssumption == \A list \in SUBSET Schedulers : NoList # list

Lists == SUBSET Schedulers

VARIABLES
    up,      \* schedulers whose process runs
    stream,  \* KeepAlive stream of each, as its client sees it
    old,     \* handlers of streams that have ended and were past their first message
    active,  \* database: schedulers in state active
    mgr,     \* the manager runs
    mlist,   \* the cached answer to this daemon's ListSchedulers
    daemon,  \* "down", "boot": NewDynconfig runs, "up"
    fetch,   \* ListSchedulers for this daemon
    dlist,   \* the dynconfig cache and its file
    fresh,   \* it has not expired
    seen,    \* clientDaemon.schedulers
    ring     \* the servers of the rpc connection

vars == <<up, stream, old, active, mgr, mlist, daemon, fetch, dlist, fresh, seen, ring>>
registry == <<up, stream, old, active>>
config == <<daemon, dlist, fresh, seen, ring>>

NoFetch == [at |-> "none", val |-> {}]

TypeOK ==
    /\ up \subseteq Schedulers /\ active \subseteq Schedulers /\ ring \subseteq Schedulers
    /\ stream \in [Schedulers -> {"none", "open", "alive"}]
    /\ old \in [Schedulers -> Nat]
    /\ mgr \in BOOLEAN /\ fresh \in BOOLEAN
    /\ {mlist, dlist, seen} \subseteq Lists \cup {NoList}
    /\ daemon \in {"down", "boot", "up"}
    /\ fetch \in [at : {"none", "find", "list", "store", "answer", "lost"}, val : Lists]

Init ==
    /\ up = {} /\ active = {} /\ ring = {}
    /\ stream = [s \in Schedulers |-> "none"]
    /\ old = [s \in Schedulers |-> 0]
    /\ mgr = TRUE /\ fresh = FALSE
    /\ mlist = NoList /\ dlist = NoList /\ seen = NoList
    /\ daemon = "down" /\ fetch = NoFetch
-----------------------------------------------------------------------------
\* scheduler.New: the manager must answer UpdateScheduler, which creates the
\* record (inactive by default) or leaves its state alone.
StartScheduler(s) ==
    /\ s \notin up /\ mgr
    /\ up' = up \cup {s}
    /\ UNCHANGED <<stream, old, active, mgr, mlist, fetch, config>>

\* The client's KeepAlive loop opens a stream; the handler waits in Recv.
OpenStream(s) ==
    /\ s \in up /\ mgr /\ stream[s] = "none"
    /\ stream' = [stream EXCEPT ![s] = "open"]
    /\ UNCHANGED <<up, old, active, mgr, mlist, fetch, config>>

\* The first message: the handler marks the scheduler active.  The cache entry
\* it deletes is the scheduler's own, not the lists it appears in.
FirstMessage(s) ==
    /\ stream[s] = "open" /\ s \in up
    /\ stream' = [stream EXCEPT ![s] = "alive"]
    /\ active' = active \cup {s}
    /\ UNCHANGED <<up, old, mgr, mlist, fetch, config>>

\* The client is done with its stream; a handler past its first message has
\* still to notice.
Abandoned(s) ==
    /\ stream' = [stream EXCEPT ![s] = "none"]
    /\ old' = IF stream[s] = "alive" THEN [old EXCEPT ![s] = @ + 1] ELSE old

\* A Send fails: the client closes the stream and opens another.
StreamBreaks(s) ==
    /\ stream[s] # "none"
    /\ Abandoned(s)
    /\ UNCHANGED <<up, active, mgr, mlist, fetch, config>>

\* Recv of a handler fails: it marks the scheduler inactive, whatever other
\* streams the scheduler has by now.
HandlerEnds(s) ==
    /\ old[s] > 0
    /\ old' = [old EXCEPT ![s] = @ - 1]
    /\ active' = active \ {s}
    /\ UNCHANGED <<up, stream, mgr, mlist, fetch, config>>

SchedulerStops(s) ==
    /\ s \in up
    /\ up' = up \ {s}
    /\ Abandoned(s)
    /\ UNCHANGED <<active, mgr, mlist, fetch, config>>

\* The manager dies: its handlers mark nobody inactive, requests fail.
ManagerCrash ==
    /\ mgr
    /\ mgr' = FALSE
    /\ stream' = [s \in Schedulers |-> "none"]
    /\ old' = [s \in Schedulers |-> 0]
    /\ fetch' = IF fetch = NoFetch THEN fetch ELSE [NoFetch EXCEPT !.at = "lost"]
    /\ UNCHANGED <<up, active, mlist, config>>

ManagerStart ==
    /\ ~mgr
    /\ mgr' = TRUE
    /\ UNCHANGED <<registry, mlist, fetch, config>>
-----------------------------------------------------------------------------
\* schedulersToAvailableNetAddrs: the listed schedulers that answer.
Available(list) == list \cap up

\* What New and OnNotify do with a list.  A daemon that can reach no scheduler
\* does not start; OnNotify leaves the connection alone if the list is the same.
Told(list) ==
    \/ /\ daemon = "boot" /\ Available(list) # {}
       /\ daemon' = "up" /\ seen' = list /\ ring' = Available(list)
    \/ /\ daemon = "boot" /\ Available(list) = {}
       /\ daemon' = "down" /\ UNCHANGED <<seen, ring>>
    \/ /\ daemon = "up" /\ list # seen
       /\ seen' = list /\ ring' = Available(list) /\ UNCHANGED daemon
    \/ /\ daemon = "up" /\ list = seen
       /\ UNCHANGED <<daemon, seen, ring>>

\* get after a load that failed: the cached list is used although it has expired.
LoadFailed ==
    /\ \/ dlist # NoList /\ Told(dlist)
       \/ dlist = NoList /\ daemon' = "down" /\ UNCHANGED <<seen, ring>>
    /\ fetch' = NoFetch
    /\ UNCHANGED <<dlist, fresh>>

\* The daemon starts: NewDynconfig loads the file, if there is one.
DaemonStart ==
    /\ daemon = "down" /\ mgr /\ fetch = NoFetch
    /\ daemon' = "boot"
    /\ UNCHANGED <<registry, mgr, mlist, fetch, dlist, fresh, seen, ring>>

Usable_expired == dlist # NoList
\* GetWithExpiration finds the list.
Usable == dlist # NoList /\ fresh

\* Notify on a tick of watch, or the first Get, with a list that has not expired.
Notify ==
    /\ daemon # "down" /\ fetch = NoFetch
    /\ Usable
    /\ Told(dlist)
    /\ UNCHANGED <<registry, mgr, mlist, fetch, dlist, fresh>>

\* The list has expired: load asks the manager, which looks into its cache.
Load ==
    /\ daemon # "down" /\ fetch = NoFetch
    /\ ~Usable
    /\ \/ /\ mgr
          /\ fetch' = IF mlist # NoList THEN [at |-> "answer", val |-> mlist]
                      ELSE [NoFetch EXCEPT !.at = "find"]
          /\ UNCHANGED config
       \/ ~mgr /\ LoadFailed
    /\ UNCHANGED <<registry, mgr, mlist>>

\* ListSchedulers reads the clusters with their active schedulers; the searcher
\* refuses clusters without any.
FindSchedulerCluster ==
    /\ fetch.at = "find"
    /\ \/ active # {} /\ fetch' = [fetch EXCEPT !.at = "list"] /\ UNCHANGED config
       \/ active = {} /\ LoadFailed
    /\ UNCHANGED <<registry, mgr, mlist>>

\* ListSchedulers reads the active schedulers of the cluster: another query.
ReadSchedulers ==
    /\ fetch.at = "list"
    /\ fetch' = [at |-> "store", val |-> active]
    /\ UNCHANGED <<registry, mgr, mlist, config>>

\* cache.Once: an answer that is already there wins.
StoreList ==
    /\ fetch.at = "store"
    /\ mlist' = IF mlist = NoList THEN fetch.val ELSE mlist
    /\ fetch' = [at |-> "answer", val |-> mlist']
    /\ UNCHANGED <<registry, mgr, config>>

\* load stores and saves the answer, then the observer is told; or the manager
\* has died meanwhile.
Answer ==
    /\ fetch.at \in {"answer", "lost"}
    /\ \/ /\ fetch.at = "answer"
          /\ dlist' = fetch.val /\ fresh' = TRUE
          /\ fetch' = NoFetch
          /\ Told(fetch.val)
       \/ fetch.at = "lost" /\ LoadFailed
    /\ UNCHANGED <<registry, mgr, mlist>>

\* The entry of the manager's cache, and of the daemon's, expire.
CacheExpires ==
    /\ mlist # NoList
    /\ mlist' = NoList
    /\ UNCHANGED <<registry, mgr, fetch, config>>

DynconfigExpires ==
    /\ fresh
    /\ fresh' = FALSE
    /\ UNCHANGED <<registry, mgr, mlist, daemon, fetch, dlist, seen, ring>>

\* Stop removes the file; a crash leaves it.
DaemonStops(graceful) ==
    /\ daemon = "up" /\ fetch = NoFetch
    /\ daemon' = "down" /\ seen' = NoList /\ ring' = {}
    /\ dlist' = IF graceful THEN NoList ELSE dlist
    /\ fresh' = (~graceful /\ fresh)
    /\ UNCHANGED <<registry, mgr, mlist, fetch>>
-----------------------------------------------------------------------------
Serving == Notify \/ Load \/ FindSchedulerCluster \/ ReadSchedulers \/ StoreList \/ Answer

Routine ==
    \/ \E s \in Schedulers : OpenStream(s) \/ FirstMessage(s) \/ HandlerEnds(s)
    \/ ManagerStart \/ DaemonStart \/ Serving \/ CacheExpires \/ DynconfigExpires

Disturbance ==
    \/ \E s \in Schedulers : StartScheduler(s) \/ StreamBreaks(s) \/ SchedulerStops(s)
    \/ ManagerCrash
    \/ \E graceful \in BOOLEAN : DaemonStops(graceful)

Next == Routine \/ Disturbance

Spec == Init /\ [][Next]_vars

\* KeepAlive retries for ever, the transport reports a dead stream in the end,
\* watch ticks, requests are served or time out, and time passes.
Fairness ==
    /\ \A s \in Schedulers : /\ WF_vars(OpenStream(s)) /\ WF_vars(FirstMessage(s))
                             /\ WF_vars(HandlerEnds(s))
    /\ WF_vars(Serving) /\ WF_vars(CacheExpires) /\ WF_vars(DynconfigExpires)
-----------------------------------------------------------------------------
\* The manager takes a scheduler for active that has died while nobody served
\* its stream, or for inactive although it sends: the handler of an older
\* stream ended after the first message of this one.
Misjudged(s) ==
    \/ s \in active \ up /\ old[s] = 0
    \/ s \notin active /\ stream[s] = "alive"

\* A running daemon whose manager runs ends up with the list of the running
\* schedulers, through the manager's cache, its own expiring cache and its file,
\* unless the manager misjudges one for ever (service_grpc.go:435-539,
\* dynconfig_manager.go:53-73, client/config/dynconfig.go:124-150).
ListConverges ==
    <>[](daemon # "down" /\ mgr /\ up # {} /\ \A s \in Schedulers : ~Misjudged(s))
        => <>[](seen = up)
=============================================================================
