---------------------------- MODULE RpcConnProofs ----------------------------
(***************************************************************************)
(* Proofs about RpcConn, for any callers, keys, servers, ring orders and   *)
(* number of attempts: keys are sticky, a call that fails over gives up    *)
(* only after every server was asked, and the collector spares the streams *)
(* that are in use.                                                        *)
(*                                                                         *)
(* All three rest on one inductive invariant.  A bound key has a           *)
(* connection; the connection a call holds is the one its key is bound to, *)
(* as long as no other call uses the key; the servers a call excludes are  *)
(* servers it has asked; and the age of a server a stream uses is never    *)
(* greater than the time the stream has been quiet.                        *)
(***************************************************************************)
EXTENDS RpcConn, WellFoundedInduction, TLAPS

Places == {"idle", "get", "bind", "dial", "invoke", "failed", "migrate", "move",
           "gaveUp", "open", "touch"}

MaybeNode == Nodes \cup {Nowhere}

CallType ==
    [at : Places, kind : Kinds, tries : Nat, err : Causes, node : MaybeNode, used : MaybeNode,
     failed : SUBSET Nodes, pre : MaybeNode, moved : BOOLEAN, quiet : 0..NoEntry,
     tried : SUBSET Nodes]

RpcTyped ==
    /\ keyOf \in [Callers -> Keys]
    /\ ring \in SUBSET Nodes
    /\ key2Node \in [Keys -> MaybeNode]
    /\ client \in SUBSET Nodes
    /\ access \in [Nodes -> 0..NoEntry]
    /\ call \in [Callers -> CallType]
    /\ gcOn \in BOOLEAN

\* key2NodeMap never names a node without a connection.
BoundHasConn == \A k \in Keys : key2Node[k] # Nowhere => key2Node[k] \in client

NodeOf(c) == key2Node[keyOf[c]]

\* What is known of a call whatever the others do.
CallShape(c) ==
    /\ call[c].at \in {"get", "bind", "dial", "invoke"} => ~Final(call[c].err)
    /\ call[c].at \in {"open", "touch", "migrate", "move"} => call[c].kind # "target"
    /\ call[c].at = "dial" => call[c].node # Nowhere
    /\ call[c].at = "invoke" => call[c].used # Nowhere /\ call[c].node \in {call[c].used, Nowhere}
    /\ call[c].kind = "target" => call[c].pre # Nowhere
    /\ call[c].at = "touch" => call[c].pre # Nowhere

\* The connection in hand is the one the key is bound to.
HoldsBound(c) ==
    /\ call[c].at = "bind" => NodeOf(c) = Nowhere
    /\ call[c].at \in {"dial", "invoke", "open", "touch"} => NodeOf(c) = call[c].node
    /\ call[c].at = "touch" /\ call[c].node # Nowhere => call[c].pre = call[c].node

\* The server of an open stream was used no longer ago than the stream.
NodeFresh(c) ==
    call[c].at \in {"open", "touch"} /\ call[c].node # Nowhere
        => access[call[c].node] <= call[c].quiet

Asked(c) == call[c].tried \cup {Nowhere}

\* Excluded servers have been asked, and so has the one the key is bound to when
\* a round of attempts is over.  A call whose error is passed on moves no more.
ExcludesAsked(c) ==
    ~Final(Cause(call[c])) =>
        /\ call[c].failed \subseteq call[c].tried
        /\ call[c].at = "failed" => call[c].node \in Asked(c)
        /\ call[c].at \in {"failed", "migrate"} => NodeOf(c) \in Asked(c)
        /\ call[c].at = "move" => call[c].pre \in Asked(c)

CallOK(c) ==
    /\ CallShape(c)
    /\ OwnKey(c) /\ call[c].kind # "target" =>
         HoldsBound(c) /\ NodeFresh(c) /\ ExcludesAsked(c)

RpcInv == RpcTyped /\ BoundHasConn /\ \A c \in Callers : CallOK(c)
-----------------------------------------------------------------------------

\* Every non-empty set of naturals has a least element.
LEMMA LeastNat ==
    ASSUME NEW S, S \subseteq Nat, S # {}
    PROVE  Min(S) \in S
<1>1. PICK x \in S : \A y \in S : <<y, x>> \notin OpToRel(<, Nat)
  BY NatLessThanWellFounded, WFMin
<1>2. OpToRel(<, Nat) = {p \in Nat \X Nat : p[1] < p[2]}
  BY Zenon DEF OpToRel
<1>3. ASSUME NEW y \in S PROVE x <= y
  <2>1. <<y, x>> \notin {p \in Nat \X Nat : p[1] < p[2]}
    BY <1>1, <1>2, Zenon
  <2> QED BY <2>1
<1> QED BY <1>3 DEF Min

\* The candidate is a node, and it is the bound one unless that is excluded.
LEMMA CandidateNode ==
    ASSUME RpcTyped, NEW k \in Keys, NEW excluded, NEW D
    PROVE  /\ FindCandidate(k, excluded, D) \in MaybeNode
           /\ key2Node[k] \in client \ excluded => FindCandidate(k, excluded, D) = key2Node[k]
<1>1. Order[k] \in Seq(Nodes)
  BY RpcAssumption
<1>2. Usable(k, excluded, D) # {} => Min(Usable(k, excluded, D)) \in DOMAIN Order[k]
  <2>1. Usable(k, excluded, D) \subseteq Nat /\ Usable(k, excluded, D) \subseteq DOMAIN Order[k]
    BY <1>1 DEF Usable
  <2> QED BY <2>1, LeastNat
<1>3. Usable(k, excluded, D) # {} => Order[k][Min(Usable(k, excluded, D))] \in Nodes
  BY <1>1, <1>2
<1> QED BY <1>3 DEF FindCandidate, RpcTyped, MaybeNode

\* A caller between two calls is well typed.
LEMMA IdleIsCall == Idle \in CallType
BY RpcAssumption DEF Idle, CallType, Places, MaybeNode, Kinds, Causes, NoEntry, Expired

\* ExecuteWithRetry tries again unless the cause is final.
LEMMA ExecuteIsCall ==
    ASSUME NEW s \in CallType, NEW cause \in Causes
    PROVE  LET t == Execute(s, cause)
           IN  /\ t \in CallType
               /\ t.at = IF Final(cause) THEN "failed" ELSE "get"
               /\ t.err = cause
               /\ t.kind = s.kind /\ t.failed = s.failed /\ t.pre = s.pre
               /\ t.node = s.node /\ t.tried = s.tried
BY DEF Execute, CallType, Places

\* A failed attempt ends the round or begins another; it changes nothing but the
\* count, the place, the error and the node in hand.
LEMMA AttemptedIsCall ==
    ASSUME NEW s \in CallType, NEW err \in Causes, NEW n \in MaybeNode
    PROVE  LET t == Attempted(s, err, n)
           IN  /\ t \in CallType
               /\ t.at \in {"failed", "get"}
               /\ t.err \in {err, s.err}
               /\ t.at = "get" => t.err = s.err
               /\ t.node \in {n, Nowhere}
               /\ t.kind = s.kind /\ t.failed = s.failed /\ t.pre = s.pre
               /\ t.moved = s.moved /\ t.tried = s.tried
<1> DEFINE over == Final(err) \/ s.tries + 1 >= MaxAttempts
           i == IF over THEN 0 ELSE s.tries + 1
           a == IF over THEN "failed" ELSE "get"
           e == IF over /\ (~s.moved \/ s.kind = "register") THEN err ELSE s.err
           m == IF over /\ s.kind \in {"register", "report"} /\ ~s.moved THEN n ELSE Nowhere
<1>1. /\ i \in Nat /\ a \in {"failed", "get"} /\ e \in Causes /\ e \in {err, s.err}
      /\ m \in MaybeNode /\ m \in {n, Nowhere} /\ (a = "get" => e = s.err)
  BY DEF CallType, MaybeNode
<1>2. Attempted(s, err, n) = [s EXCEPT !.tries = i, !.at = a, !.err = e, !.node = m,
                                          !.used = Nowhere]
  BY DEF Attempted
<1> HIDE DEF over, i, a, e, m
<1> QED BY <1>1, <1>2 DEF CallType, Places, MaybeNode

\* The call of a caller that takes no part in a step stays as it was.
LEMMA OthersOK ==
    ASSUME RpcTyped, NEW d \in Callers, CallOK(d), keyOf' = keyOf, call'[d] = call[d],
           OwnKey(d) => NodeOf(d)' = NodeOf(d),
           \A n \in Nodes : access'[n] <= access[n],
           access' \in [Nodes -> 0..NoEntry]
    PROVE  CallOK(d)'
<1>1. CallShape(d)' /\ (OwnKey(d)' <=> OwnKey(d))
  BY DEF CallOK, CallShape, OwnKey
<1>2. ASSUME OwnKey(d), call[d].kind # "target"
      PROVE  HoldsBound(d)' /\ NodeFresh(d)' /\ ExcludesAsked(d)'
  <2>1. HoldsBound(d)' /\ ExcludesAsked(d)'
    BY <1>2 DEF CallOK, HoldsBound, ExcludesAsked, Asked
  <2>2. NodeFresh(d)'
    <3> SUFFICES ASSUME call[d].at \in {"open", "touch"}, call[d].node # Nowhere
                 PROVE  access'[call[d].node] <= call[d].quiet
      BY DEF NodeFresh
    <3>1. call[d].node \in Nodes /\ call[d].quiet \in 0..NoEntry
      BY DEF RpcTyped, CallType, MaybeNode
    <3>2. access[call[d].node] <= call[d].quiet
      BY <1>2 DEF CallOK, NodeFresh
    <3>3. access[call[d].node] \in 0..NoEntry /\ access'[call[d].node] \in 0..NoEntry
      BY <3>1 DEF RpcTyped
    <3> QED BY <3>1, <3>2, <3>3 DEF NoEntry, Expired
  <2> QED BY <2>1, <2>2
<1> QED BY <1>1, <1>2 DEF CallOK

\* A step of caller c alone, that does not move the keys of others.
LEMMA CallerStep ==
    ASSUME RpcInv, NEW c \in Callers, NEW s \in CallType, Step(c, s),
           UNCHANGED <<keyOf, ring, gcOn>>, CallOK(c)', BoundHasConn',
           key2Node' \in [Keys -> MaybeNode], client' \in SUBSET Nodes,
           access' \in [Nodes -> 0..NoEntry],
           \A n \in Nodes : access'[n] <= access[n],
           \A k \in Keys : k # keyOf[c] => key2Node'[k] = key2Node[k]
    PROVE  RpcInv'
<1> USE DEF RpcInv
<1>1. RpcTyped'
  BY DEF RpcTyped, Step
<1>2. ASSUME NEW d \in Callers, d # c PROVE CallOK(d)'
  <2>1. call'[d] = call[d]
    BY <1>2 DEF Step, RpcTyped
  <2>2. OwnKey(d) => NodeOf(d)' = NodeOf(d)
    BY <1>2 DEF OwnKey, NodeOf, RpcTyped
  <2> QED BY <2>1, <2>2, OthersOK
<1> QED BY <1>1, <1>2

\* A step of caller c alone, which leaves the connections as they are.
LEMMA LocalStep ==
    ASSUME RpcInv, NEW c \in Callers, NEW s \in CallType, Step(c, s),
           UNCHANGED <<keyOf, conns>>, CallOK(c)'
    PROVE  RpcInv'
<1>1. \A n \in Nodes : access'[n] <= access[n]
  BY DEF RpcInv, RpcTyped, NoEntry, Expired, conns
<1>2. BoundHasConn'
  BY DEF RpcInv, BoundHasConn, conns
<1> QED BY <1>1, <1>2, CallerStep DEF RpcInv, RpcTyped, conns

\* A step of a call sets its record.
LEMMA StepIs ==
    ASSUME RpcTyped, NEW c \in Callers, NEW s, Step(c, s)
    PROVE  call'[c] = s
BY DEF RpcTyped, Step

\* A caller that becomes idle.
LEMMA BackToIdle ==
    ASSUME RpcInv, NEW c \in Callers, Step(c, Idle), UNCHANGED <<keyOf, conns>>
    PROVE  RpcInv'
<1>1. call'[c] = Idle
  BY StepIs DEF RpcInv
<1>2. CallOK(c)'
  BY <1>1 DEF CallOK, CallShape, HoldsBound, NodeFresh, ExcludesAsked, Idle
<1> QED BY <1>2, IdleIsCall, LocalStep

\* An attempt fails, after the nodes of T have been asked in it.
LEMMA FailedAttempt ==
    ASSUME RpcInv, NEW c \in Callers, NEW T \in SUBSET Nodes, NEW err \in Causes,
           NEW n \in MaybeNode, NEW t \in CallType, Step(c, t), UNCHANGED <<keyOf, conns>>,
           call[c].at \in {"get", "bind", "dial", "invoke"},
           t = [Attempted(call[c], err, n) EXCEPT !.tried = call[c].tried \cup T],
           OwnKey(c) /\ call[c].kind # "target"
             => NodeOf(c) \in T \cup {Nowhere} /\ n \in T \cup {Nowhere}
    PROVE  RpcInv'
<1>0. call[c] \in CallType
  BY DEF RpcInv, RpcTyped
<1> DEFINE u == Attempted(call[c], err, n)
<1>1. /\ u \in CallType
      /\ u.at \in {"failed", "get"}
      /\ u.err \in {err, call[c].err}
      /\ u.at = "get" => u.err = call[c].err
      /\ u.node \in {n, Nowhere}
      /\ u.kind = call[c].kind /\ u.failed = call[c].failed /\ u.pre = call[c].pre
  BY <1>0, AttemptedIsCall
<1> HIDE DEF u
<1>2. /\ t.at \in {"failed", "get"}
      /\ t.err \in {err, call[c].err}
      /\ t.at = "get" => t.err = call[c].err
      /\ t.node \in {n, Nowhere}
      /\ t.kind = call[c].kind /\ t.failed = call[c].failed /\ t.pre = call[c].pre
      /\ t.tried = call[c].tried \cup T
  BY <1>1 DEF CallType, u
<1>3. call'[c] = t
  BY StepIs DEF RpcInv
<1>4. CallShape(c) /\ ~Final(call[c].err)
  BY DEF RpcInv, CallOK, CallShape
<1>5. CallShape(c)'
  BY <1>2, <1>3, <1>4 DEF CallShape
<1>6. ASSUME OwnKey(c), call[c].kind # "target"
      PROVE  HoldsBound(c)' /\ NodeFresh(c)' /\ ExcludesAsked(c)'
  <2>1. HoldsBound(c)' /\ NodeFresh(c)'
    BY <1>2, <1>3 DEF HoldsBound, NodeFresh
  <2>2. ~Final(Cause(call[c]))
    BY <1>4 DEF Cause, Final
  <2>3. call[c].failed \subseteq call[c].tried
    BY <2>2, <1>6 DEF RpcInv, CallOK, ExcludesAsked
  <2>4. NodeOf(c)' = NodeOf(c)
    BY DEF NodeOf, conns
  <2>5. ExcludesAsked(c)'
    BY <1>2, <1>3, <1>6, <2>3, <2>4 DEF ExcludesAsked, Asked
  <2> QED BY <2>1, <2>5
<1>7. CallOK(c)'
  BY <1>2, <1>3, <1>5, <1>6 DEF CallOK, OwnKey
<1> QED BY <1>7, LocalStep

\* A call begins, having asked nobody.
LEMMA BeginOK ==
    ASSUME RpcInv, NEW c \in Callers, NEW kind \in Kinds, Begin(c, kind)
    PROVE  RpcInv'
<1> DEFINE u == Execute(Idle, "none")
<1>1. PICK n \in MaybeNode : /\ kind = "target" => n # Nowhere
                             /\ Step(c, [u EXCEPT !.kind = kind, !.pre = n])
  <2>1. CASE kind # "target"
    <3>1. Step(c, [u EXCEPT !.kind = kind])
      BY <2>1 DEF Begin
    <3>2. u.pre = Nowhere /\ u \in CallType
      BY IdleIsCall, ExecuteIsCall DEF Idle, Causes
    <3>3. [u EXCEPT !.kind = kind] = [u EXCEPT !.kind = kind, !.pre = Nowhere]
      BY <3>2 DEF CallType
    <3> QED BY <2>1, <3>1, <3>3 DEF MaybeNode
  <2>2. CASE kind = "target"
    BY <2>2, RpcAssumption DEF Begin, MaybeNode
  <2> QED BY <2>1, <2>2
<1> DEFINE t == [u EXCEPT !.kind = kind, !.pre = n]
<1>2. /\ u \in CallType /\ u.at = "get" /\ u.err = "none"
      /\ u.failed = {} /\ u.tried = {}
  <2>1. u.failed = Idle.failed /\ u.tried = Idle.tried
    BY IdleIsCall, ExecuteIsCall DEF Causes
  <2>2. u \in CallType /\ u.at = "get" /\ u.err = "none"
    BY IdleIsCall, ExecuteIsCall DEF Causes, Final
  <2> QED BY <2>1, <2>2 DEF Idle
<1> HIDE DEF u
<1>3. /\ t \in CallType /\ t.at = "get" /\ t.err = "none" /\ t.pre = n
      /\ t.failed = {} /\ t.tried = {} /\ t.kind = kind
  BY <1>2 DEF CallType
<1>4. call'[c] = t
  BY <1>1, StepIs DEF RpcInv
<1> HIDE DEF t
<1>5. CallOK(c)'
  BY <1>1, <1>3, <1>4 DEF CallOK, CallShape, HoldsBound, NodeFresh, ExcludesAsked, Final
<1>6. Step(c, t) /\ UNCHANGED <<keyOf, conns>>
  BY <1>1 DEF t, Begin
<1> QED BY <1>3, <1>5, <1>6, LocalStep

\* The access to a server makes no server older.
LEMMA TouchedIs ==
    ASSUME RpcTyped, NEW n \in Nodes, Touched(n)
    PROVE  access' \in [Nodes -> 0..NoEntry] /\ \A m \in Nodes : access'[m] <= access[m]
BY DEF RpcTyped, Touched, NoEntry, Expired

\* A call takes the connection of n, or dials n.
LEMMA LoadOrCreateOK ==
    ASSUME RpcInv, NEW c \in Callers, NEW n \in Nodes, At(c, "get"), LoadOrCreate(c, n),
           OwnKey(c) /\ call[c].kind # "target" => NodeOf(c) = n
    PROVE  RpcInv'
<1> DEFINE s == call[c]
           t == IF n \in client THEN Holding(s, n) ELSE [s EXCEPT !.at = "dial", !.node = n]
<1>1. s \in CallType /\ CallShape(c) /\ s.at = "get"
  BY DEF RpcInv, RpcTyped, CallOK, At
<1>2. /\ t \in CallType /\ t.at \in {"invoke", "dial"} /\ t.node = n /\ t.kind = s.kind
      /\ t.err = s.err /\ t.failed = s.failed /\ t.tried = s.tried /\ t.pre = s.pre
      /\ t.at = "invoke" => t.used = n
  BY <1>1 DEF CallType, Holding, Places, MaybeNode
<1>3. Step(c, t) /\ Touched(n) /\ UNCHANGED <<keyOf, ring, key2Node, client, gcOn>>
  BY DEF LoadOrCreate
<1> HIDE DEF t
<1>4. call'[c] = t
  BY <1>3, StepIs DEF RpcInv
<1>5. CallShape(c)'
  BY <1>1, <1>2, <1>4, RpcAssumption DEF CallShape
<1>6. ASSUME OwnKey(c), s.kind # "target"
      PROVE  HoldsBound(c)' /\ NodeFresh(c)' /\ ExcludesAsked(c)'
  <2>1. NodeOf(c)' = n
    BY <1>3, <1>6 DEF NodeOf
  <2>2. HoldsBound(c)' /\ NodeFresh(c)'
    BY <1>2, <1>4, <2>1 DEF HoldsBound, NodeFresh
  <2>3. s.failed \subseteq s.tried
    <3>1. ~Final(Cause(s))
      BY <1>1 DEF CallShape, Cause, Final
    <3> QED BY <1>6, <3>1 DEF RpcInv, CallOK, ExcludesAsked
  <2>4. ExcludesAsked(c)'
    BY <1>2, <1>4, <2>3 DEF ExcludesAsked
  <2> QED BY <2>2, <2>4
<1>7. CallOK(c)'
  BY <1>2, <1>3, <1>4, <1>5, <1>6 DEF CallOK, OwnKey
<1>8. BoundHasConn'
  BY <1>3 DEF RpcInv, BoundHasConn
<1>9. RpcTyped
  BY DEF RpcInv
<1> QED BY <1>2, <1>3, <1>7, <1>8, <1>9, TouchedIs, CallerStep DEF RpcTyped

\* getClientConn finds the connection its key is bound to, or looks for a server.
LEMMA GetClientConnOK ==
    ASSUME RpcInv, NEW c \in Callers, GetClientConn(c)
    PROVE  RpcInv'
<1> DEFINE s == call[c]
<1>1. s \in CallType /\ CallShape(c) /\ s.at = "get" /\ s.kind # "target" /\ RpcTyped
  BY DEF RpcInv, RpcTyped, CallOK, At, GetClientConn
<1>2. CASE NodeOf(c) # Nowhere /\ LoadOrCreate(c, NodeOf(c))
  <2>1. NodeOf(c) \in Nodes
    BY <1>2 DEF RpcInv, RpcTyped, NodeOf, MaybeNode
  <2> QED BY <1>1, <1>2, <2>1, LoadOrCreateOK DEF At
<1>3. CASE NodeOf(c) = Nowhere /\ Stick(s) /\ Step(c, Attempted(s, "unbound", Nowhere))
           /\ UNCHANGED <<keyOf, conns>>
  <2> DEFINE t == Attempted(s, "unbound", Nowhere)
  <2>1. t \in CallType /\ t.tried = s.tried
    BY <1>1, AttemptedIsCall DEF Causes, MaybeNode
  <2>2. t = [t EXCEPT !.tried = s.tried \cup {}]
    BY <2>1 DEF CallType
  <2> QED BY <1>1, <1>3, <2>1, <2>2, FailedAttempt DEF Causes, MaybeNode
<1>4. CASE NodeOf(c) = Nowhere /\ Step(c, [s EXCEPT !.at = "bind"])
           /\ UNCHANGED <<keyOf, conns>>
  <2> DEFINE t == [s EXCEPT !.at = "bind"]
  <2>1. /\ t \in CallType /\ t.at = "bind" /\ t.kind = s.kind /\ t.err = s.err
        /\ t.failed = s.failed /\ t.tried = s.tried /\ t.node = s.node
    BY <1>1 DEF CallType, Places
  <2>2. call'[c] = t
    BY <1>1, <1>4, StepIs
  <2> HIDE DEF t
  <2>3. NodeOf(c)' = Nowhere
    BY <1>4 DEF NodeOf, conns
  <2>4. ~Final(Cause(s))
    BY <1>1 DEF CallShape, Cause, Final
  <2>5. OwnKey(c) => s.failed \subseteq s.tried
    BY <1>1, <2>4 DEF RpcInv, CallOK, ExcludesAsked
  <2>6. CallOK(c)'
    BY <1>1, <1>4, <2>1, <2>2, <2>3, <2>5
       DEF CallOK, CallShape, HoldsBound, NodeFresh, ExcludesAsked, OwnKey
  <2> QED BY <1>4, <2>1, <2>6, LocalStep DEF t
<1> QED BY <1>2, <1>3, <1>4 DEF GetClientConn, NodeOf

\* GetClientConnByTarget.
LEMMA GetByTargetOK ==
    ASSUME RpcInv, NEW c \in Callers, GetClientConnByTarget(c)
    PROVE  RpcInv'
<1>1. call[c].pre \in Nodes
  BY DEF RpcInv, RpcTyped, CallType, MaybeNode, CallOK, CallShape, GetClientConnByTarget
<1> QED BY <1>1, LoadOrCreateOK DEF GetClientConnByTarget

\* What a caller in the middle of a round knows.
LEMMA InRound ==
    ASSUME RpcInv, NEW c \in Callers, call[c].at \in {"get", "bind", "dial", "invoke"}
    PROVE  /\ call[c] \in CallType /\ RpcTyped /\ CallShape(c)
           /\ OwnKey(c) /\ call[c].kind # "target"
                => HoldsBound(c) /\ call[c].failed \subseteq call[c].tried
<1>1. ~Final(Cause(call[c]))
  BY DEF RpcInv, CallOK, CallShape, Cause, Final
<1> QED BY <1>1 DEF RpcInv, RpcTyped, CallOK, ExcludesAsked

\* A caller holds the connection of the node its key is bound to.
LEMMA TakesConn ==
    ASSUME RpcInv, NEW c \in Callers, call[c].at \in {"bind", "dial"}, NEW n \in Nodes,
           Step(c, Holding(call[c], n)), keyOf' = keyOf,
           OwnKey(c) /\ call[c].kind # "target" => NodeOf(c)' = n
    PROVE  Holding(call[c], n) \in CallType /\ CallOK(c)'
<1> DEFINE s == call[c]
           t == Holding(s, n)
<1>1. /\ s \in CallType /\ RpcTyped /\ CallShape(c)
      /\ OwnKey(c) /\ s.kind # "target" => s.failed \subseteq s.tried
  BY InRound
<1>2. /\ t \in CallType /\ t.at = "invoke" /\ t.node = n /\ t.kind = s.kind
      /\ t.err = s.err /\ t.failed = s.failed /\ t.tried = s.tried /\ t.pre = s.pre /\ t.used = n
  BY <1>1 DEF CallType, Holding, Places, MaybeNode
<1>3. call'[c] = t
  BY <1>1, StepIs
<1> HIDE DEF t
<1>4. CallShape(c)'
  BY <1>1, <1>2, <1>3, RpcAssumption DEF CallShape
<1>5. ASSUME OwnKey(c), s.kind # "target"
      PROVE  HoldsBound(c)' /\ NodeFresh(c)' /\ ExcludesAsked(c)'
  BY <1>1, <1>2, <1>3, <1>5 DEF HoldsBound, NodeFresh, ExcludesAsked
<1> QED BY <1>2, <1>3, <1>4, <1>5 DEF CallOK, OwnKey, t

\* The new connection is entered before the key is bound to it.
LEMMA DialOK ==
    ASSUME RpcInv, NEW c \in Callers, Dial(c)
    PROVE  RpcInv'
<1> DEFINE s == call[c]
<1>1. /\ s.at = "dial" /\ client' = client \cup {s.node} /\ Step(c, Holding(s, s.node))
      /\ UNCHANGED <<keyOf, ring, key2Node, access, gcOn>>
  BY DEF Dial, At
<1>2. s \in CallType /\ RpcTyped /\ CallShape(c)
      /\ (OwnKey(c) /\ s.kind # "target" => HoldsBound(c))
  BY <1>1, InRound
<1>3. s.node \in Nodes
  BY <1>1, <1>2 DEF CallType, CallShape, MaybeNode
<1>4. OwnKey(c) /\ s.kind # "target" => NodeOf(c)' = s.node
  BY <1>1, <1>2 DEF HoldsBound, NodeOf
<1>5. Holding(s, s.node) \in CallType /\ CallOK(c)'
  BY <1>1, <1>3, <1>4, TakesConn
<1>6. BoundHasConn'
  BY <1>1 DEF BoundHasConn, RpcInv
<1>7. \A n \in Nodes : access'[n] <= access[n]
  BY <1>1, <1>2 DEF RpcTyped, NoEntry, Expired
<1> QED BY <1>1, <1>2, <1>3, <1>5, <1>6, <1>7, CallerStep DEF RpcTyped

\* A server that does not answer has been asked.
LEMMA DialFailsOK ==
    ASSUME RpcInv, NEW c \in Callers, DialFails(c)
    PROVE  RpcInv'
<1> DEFINE s == call[c]
           u == Attempted(s, "conn", Nowhere)
           t == [u EXCEPT !.tried = s.tried \cup {s.node}]
<1>1. s.at = "dial" /\ Step(c, t) /\ UNCHANGED <<keyOf, conns>>
  BY DEF DialFails, At
<1>2. s \in CallType /\ RpcTyped /\ CallShape(c)
      /\ (OwnKey(c) /\ s.kind # "target" => HoldsBound(c))
  BY <1>1, InRound
<1>3. s.node \in Nodes /\ (OwnKey(c) /\ s.kind # "target" => NodeOf(c) = s.node)
  BY <1>1, <1>2 DEF CallType, CallShape, MaybeNode, HoldsBound
<1>4. u \in CallType
  BY <1>2, AttemptedIsCall DEF Causes, MaybeNode
<1>5. t \in CallType
  <2> HIDE DEF u
  <2> QED BY <1>2, <1>3, <1>4 DEF CallType
<1>6. /\ "conn" \in Causes /\ Nowhere \in MaybeNode /\ {s.node} \in SUBSET Nodes
      /\ OwnKey(c) /\ s.kind # "target"
           => NodeOf(c) \in {s.node} \cup {Nowhere} /\ Nowhere \in {s.node} \cup {Nowhere}
  BY <1>3 DEF Causes, MaybeNode
<1> QED BY <1>1, <1>5, <1>6, FailedAttempt

\* The key of the caller moves to a node that has a connection from then on.
LEMMA BindToOK ==
    ASSUME RpcInv, NEW k \in Keys, NEW n \in Nodes, BindTo(k, n)
    PROVE  /\ BoundHasConn'
           /\ key2Node' \in [Keys -> MaybeNode] /\ client' \in SUBSET Nodes
           /\ access' \in [Nodes -> 0..NoEntry]
           /\ \A m \in Nodes : access'[m] <= access[m]
           /\ key2Node'[k] = n
           /\ \A j \in Keys : j # k => key2Node'[j] = key2Node[j]
<1>1. RpcTyped /\ BoundHasConn
  BY DEF RpcInv
<1>2. access' \in [Nodes -> 0..NoEntry] /\ \A m \in Nodes : access'[m] <= access[m]
  BY <1>1, TouchedIs DEF BindTo
<1> QED BY <1>1, <1>2 DEF RpcTyped, BoundHasConn, BindTo, MaybeNode

\* The key is bound to the connection the call holds.
LEMMA BindKeyOK ==
    ASSUME RpcInv, NEW c \in Callers, NEW D, BindKey(c, D)
    PROVE  RpcInv'
<1> DEFINE s == call[c]
           k == keyOf[c]
<1> DEFINE n == FindCandidate(k, {}, D)
<1>1. s.at = "bind" /\ UNCHANGED <<keyOf, ring, gcOn>>
  BY DEF BindKey, At
<1>2. s \in CallType /\ RpcTyped /\ CallShape(c) /\ k \in Keys
      /\ (OwnKey(c) /\ s.kind # "target" => HoldsBound(c))
  BY <1>1, InRound DEF RpcTyped
<1>3. n \in MaybeNode
  BY <1>2, CandidateNode
<1>4. CASE n = Nowhere
  <2> DEFINE u == Attempted(s, "none", Nowhere)
             t == [u EXCEPT !.tried = s.tried \cup ring]
  <2>1. Step(c, t) /\ UNCHANGED <<keyOf, conns>>
    BY <1>4 DEF BindKey, conns
  <2>2. u \in CallType
    BY <1>2, AttemptedIsCall DEF Causes, MaybeNode
  <2>3. t \in CallType
    <3> HIDE DEF u
    <3> QED BY <1>2, <2>2 DEF CallType, RpcTyped
  <2>4. OwnKey(c) /\ s.kind # "target" => NodeOf(c) = Nowhere
    BY <1>1, <1>2 DEF HoldsBound
  <2>5. /\ "none" \in Causes /\ Nowhere \in MaybeNode /\ ring \in SUBSET Nodes
        /\ OwnKey(c) /\ s.kind # "target"
             => NodeOf(c) \in ring \cup {Nowhere} /\ Nowhere \in ring \cup {Nowhere}
    BY <1>2, <2>4 DEF Causes, MaybeNode, RpcTyped
  <2> QED BY <1>1, <2>1, <2>3, <2>5, FailedAttempt
<1>5. CASE n # Nowhere
  <2>1. n \in Nodes
    BY <1>3, <1>5 DEF MaybeNode
  <2>2. BindTo(k, n) /\ Step(c, Holding(s, n))
    BY <1>5 DEF BindKey
  <2>3. NodeOf(c)' = n
    BY <1>1, <1>2, <2>1, <2>2, BindToOK DEF NodeOf
  <2>4. Holding(s, n) \in CallType /\ CallOK(c)'
    BY <1>1, <2>1, <2>2, <2>3, TakesConn
  <2> HIDE DEF n
  <2> QED BY <1>1, <1>2, <2>1, <2>2, <2>4, BindToOK, CallerStep
<1> QED BY <1>4, <1>5

\* The call succeeds.
LEMMA SucceedsOK ==
    ASSUME RpcInv, NEW c \in Callers, Succeeds(c)
    PROVE  RpcInv'
<1> DEFINE s == call[c]
           t == [Idle EXCEPT !.at = "open", !.kind = s.kind, !.node = s.node,
                             !.quiet = access[s.node]]
<1>1. s.at = "invoke" /\ s.node # Nowhere /\ UNCHANGED <<keyOf, conns>>
  BY DEF Succeeds, At
<1>2. s \in CallType /\ RpcTyped /\ (OwnKey(c) /\ s.kind # "target" => HoldsBound(c))
  BY <1>1, InRound
<1>3. CASE s.kind \in {"stream", "seed"}
  <2>1. s.node \in Nodes /\ access[s.node] \in 0..NoEntry
    BY <1>1, <1>2 DEF CallType, MaybeNode, RpcTyped
  <2>2. /\ t \in CallType /\ t.at = "open" /\ t.kind = s.kind /\ t.node = s.node
        /\ t.quiet = access[s.node] /\ t.failed = {} /\ t.pre = Nowhere /\ t.err = "none"
    BY <1>2, <2>1 DEF Idle, CallType, Places, MaybeNode, Causes
  <2>3. Step(c, t)
    BY <1>3 DEF Succeeds
  <2> HIDE DEF t
  <2>4. call'[c] = t
    BY <1>2, <2>3, StepIs
  <2>5. CallShape(c)'
    BY <1>3, <2>2, <2>4 DEF CallShape
  <2>6. NodeOf(c)' = NodeOf(c) /\ access' = access
    BY <1>1 DEF NodeOf, conns
  <2>7. NodeFresh(c)'
    BY <2>1, <2>2, <2>4, <2>6 DEF NodeFresh, NoEntry, Expired
  <2>8. ASSUME OwnKey(c) PROVE HoldsBound(c)' /\ ExcludesAsked(c)'
    BY <1>1, <1>2, <1>3, <2>2, <2>4, <2>6, <2>8 DEF HoldsBound, ExcludesAsked
  <2>9. CallOK(c)'
    BY <1>1, <2>5, <2>7, <2>8 DEF CallOK, OwnKey
  <2> QED BY <1>1, <2>2, <2>3, <2>9, LocalStep
<1>4. CASE s.kind \notin {"stream", "seed"}
  BY <1>1, <1>4, BackToIdle DEF Succeeds
<1> QED BY <1>3, <1>4

\* An attempt fails.
LEMMA CallFailsOK ==
    ASSUME RpcInv, NEW c \in Callers, NEW err \in Causes, CallFails(c, err)
    PROVE  RpcInv'
<1> DEFINE s == call[c]
           u == Attempted(s, err, s.used)
           t == [u EXCEPT !.tried = s.tried \cup {s.used}]
<1>1. s.at = "invoke" /\ Step(c, t) /\ UNCHANGED <<keyOf, conns>>
  BY DEF CallFails, At
<1>2. s \in CallType /\ RpcTyped /\ CallShape(c) /\ (OwnKey(c) /\ s.kind # "target" => HoldsBound(c))
  BY <1>1, InRound
<1>3. s.used \in MaybeNode /\ (OwnKey(c) /\ s.kind # "target" => NodeOf(c) \in {s.used, Nowhere})
      /\ {s.used} \in SUBSET Nodes
  BY <1>1, <1>2 DEF CallType, CallShape, MaybeNode, HoldsBound
<1>4. u \in CallType
  BY <1>2, <1>3, AttemptedIsCall
<1>5. t \in CallType
  <2> HIDE DEF u
  <2> QED BY <1>2, <1>3, <1>4 DEF CallType
<1> QED BY <1>1, <1>3, <1>5, FailedAttempt

\* All attempts failed: the server has been asked.
LEMMA AttemptsFailedOK ==
    ASSUME RpcInv, NEW c \in Callers, AttemptsFailed(c)
    PROVE  RpcInv'
<1> DEFINE s == call[c]
           t == [s EXCEPT !.at = "migrate", !.failed = s.failed \cup ({s.node} \ {Nowhere}),
                          !.node = Nowhere]
<1>1. s.at = "failed" /\ UNCHANGED <<keyOf, conns>>
  BY DEF AttemptsFailed, At
<1>2. CASE GivesUp(s)
  BY <1>1, <1>2, BackToIdle DEF AttemptsFailed
<1>3. CASE ~GivesUp(s)
  <2>1. s \in CallType /\ RpcTyped /\ CallShape(c) /\ s.kind # "target"
    BY <1>3 DEF RpcInv, RpcTyped, CallOK, GivesUp
  <2>2. /\ t \in CallType /\ t.at = "migrate" /\ t.kind = s.kind /\ t.err = s.err
        /\ t.failed = s.failed \cup ({s.node} \ {Nowhere}) /\ t.tried = s.tried /\ t.pre = s.pre
    BY <2>1 DEF CallType, Places, MaybeNode
  <2>3. Step(c, t)
    BY <1>3 DEF AttemptsFailed
  <2> HIDE DEF t
  <2>4. call'[c] = t /\ NodeOf(c)' = NodeOf(c)
    BY <1>1, <2>1, <2>3, StepIs DEF NodeOf, conns
  <2>5. CallShape(c)' /\ HoldsBound(c)' /\ NodeFresh(c)'
    BY <2>1, <2>2, <2>4 DEF CallShape, HoldsBound, NodeFresh
  <2>6. ASSUME OwnKey(c) PROVE ExcludesAsked(c)'
    <3>1. SUFFICES ASSUME ~Final(Cause(s)) PROVE ExcludesAsked(c)'
      BY <2>2, <2>4 DEF ExcludesAsked, Cause
    <3>2. s.failed \subseteq s.tried /\ s.node \in Asked(c) /\ NodeOf(c) \in Asked(c)
      BY <1>1, <2>1, <2>6, <3>1 DEF RpcInv, CallOK, ExcludesAsked
    <3> QED BY <2>2, <2>4, <3>2 DEF ExcludesAsked, Asked
  <2>7. CallOK(c)'
    BY <1>1, <2>5, <2>6 DEF CallOK, OwnKey
  <2> QED BY <1>1, <2>2, <2>3, <2>7, LocalStep
<1> QED BY <1>2, <1>3

\* TryMigrate under the read lock: a cause that is passed on ends the call.
LEMMA TryMigrateOK ==
    ASSUME RpcInv, NEW c \in Callers, TryMigrate(c)
    PROVE  RpcInv'
<1> DEFINE s == call[c]
           t == [s EXCEPT !.at = "move", !.pre = key2Node[keyOf[c]]]
<1>1. s.at = "migrate" /\ UNCHANGED <<keyOf, conns>>
  BY DEF TryMigrate, At
<1>2. CASE Cause(s) \in {"cancel", "df"}
  BY <1>1, <1>2, BackToIdle DEF TryMigrate
<1>3. CASE Cause(s) \notin {"cancel", "df"}
  <2>1. s \in CallType /\ RpcTyped /\ CallShape(c) /\ s.kind # "target"
    BY <1>1 DEF RpcInv, RpcTyped, CallOK, CallShape
  <2>2. /\ t \in CallType /\ t.at = "move" /\ t.kind = s.kind /\ t.err = s.err
        /\ t.failed = s.failed /\ t.tried = s.tried /\ t.pre = NodeOf(c)
    BY <2>1 DEF CallType, Places, MaybeNode, NodeOf, RpcTyped
  <2>3. Step(c, t)
    BY <1>3 DEF TryMigrate
  <2> HIDE DEF t
  <2>4. call'[c] = t
    BY <2>1, <2>3, StepIs
  <2>5. CallShape(c)' /\ HoldsBound(c)' /\ NodeFresh(c)'
    BY <2>1, <2>2, <2>4 DEF CallShape, HoldsBound, NodeFresh
  <2>6. ASSUME OwnKey(c) PROVE ExcludesAsked(c)'
    <3>1. SUFFICES ASSUME ~Final(Cause(s)) PROVE ExcludesAsked(c)'
      BY <2>2, <2>4 DEF ExcludesAsked, Cause
    <3>2. s.failed \subseteq s.tried /\ NodeOf(c) \in Asked(c)
      BY <1>1, <2>1, <2>6, <3>1 DEF RpcInv, CallOK, ExcludesAsked
    <3> QED BY <2>2, <2>4, <3>2 DEF ExcludesAsked, Asked
  <2>7. CallOK(c)'
    BY <1>1, <2>5, <2>6 DEF CallOK, OwnKey
  <2> QED BY <1>1, <2>2, <2>3, <2>7, LocalStep
<1> QED BY <1>2, <1>3

\* TryMigrate moves the key to the first server that is not excluded and answers.
LEMMA MigrateOK ==
    ASSUME RpcInv, NEW c \in Callers, NEW D, Migrate(c, D)
    PROVE  RpcInv'
<1> DEFINE s == call[c]
           k == keyOf[c]
           n == FindCandidate(k, Excluded(s), D)
<1>1. s.at = "move" /\ UNCHANGED <<keyOf, ring, gcOn>>
  BY DEF Migrate, At
<1>2. s \in CallType /\ RpcTyped /\ CallShape(c) /\ k \in Keys /\ s.kind # "target"
  BY <1>1 DEF RpcInv, RpcTyped, CallOK, CallShape
<1>3. n \in MaybeNode
  BY <1>2, CandidateNode
<1>4. Excluded(s) \ {Nowhere} \in SUBSET Nodes
  BY <1>2 DEF Excluded, CallType, MaybeNode
<1>5. CASE n = Nowhere
  <2> DEFINE t == [s EXCEPT !.at = "gaveUp", !.tried = s.tried \cup (ring \ Excluded(s))]
  <2>1. Step(c, t) /\ UNCHANGED <<keyOf, conns>>
    BY <1>5 DEF Migrate, conns
  <2>2. /\ t \in CallType /\ t.at = "gaveUp" /\ t.kind = s.kind /\ t.err = s.err
        /\ t.failed = s.failed /\ s.tried \subseteq t.tried
    BY <1>2 DEF CallType, Places, RpcTyped
  <2> HIDE DEF t
  <2>3. call'[c] = t
    BY <1>2, <2>1, StepIs
  <2>4. CallShape(c)' /\ HoldsBound(c)' /\ NodeFresh(c)'
    BY <1>2, <2>2, <2>3 DEF CallShape, HoldsBound, NodeFresh
  <2>5. ASSUME OwnKey(c) PROVE ExcludesAsked(c)'
    BY <1>2, <2>2, <2>3, <2>5 DEF RpcInv, CallOK, ExcludesAsked, Cause
  <2>6. CallOK(c)'
    BY <1>1, <2>4, <2>5 DEF CallOK, OwnKey
  <2> QED BY <2>1, <2>2, <2>6, LocalStep
<1>6. CASE n # Nowhere
  <2> DEFINE u == Execute(s, Cause(s))
             t == [u EXCEPT !.failed = Excluded(s) \ {Nowhere}, !.moved = TRUE, !.pre = Nowhere]
  <2>1. n \in Nodes
    BY <1>3, <1>6 DEF MaybeNode
  <2>2. BindTo(k, n) /\ Step(c, t)
    BY <1>6 DEF Migrate
  <2>3. Cause(s) \in Causes
    BY <1>2 DEF Cause, CallType, Causes
  <2>4. /\ u \in CallType /\ u.err = Cause(s) /\ u.kind = s.kind /\ u.tried = s.tried
        /\ u.at = IF Final(Cause(s)) THEN "failed" ELSE "get"
    BY <1>2, <2>3, ExecuteIsCall
  <2> HIDE DEF u
  <2>5. /\ t \in CallType /\ t.err = Cause(s) /\ t.kind = s.kind /\ t.tried = s.tried
        /\ t.failed = Excluded(s) \ {Nowhere}
        /\ t.at = IF Final(Cause(s)) THEN "failed" ELSE "get"
    BY <1>4, <2>4 DEF CallType, MaybeNode
  <2> HIDE DEF t, n
  <2>6. call'[c] = t
    BY <1>2, <2>2, StepIs
  <2>7. CallShape(c)' /\ HoldsBound(c)' /\ NodeFresh(c)'
    BY <1>2, <2>5, <2>6 DEF CallShape, HoldsBound, NodeFresh
  <2>8. ASSUME OwnKey(c) PROVE ExcludesAsked(c)'
    <3>1. SUFFICES ASSUME ~Final(Cause(s)) PROVE t.failed \subseteq t.tried
      BY <2>5, <2>6 DEF ExcludesAsked, Cause, Final
    <3>2. s.failed \subseteq s.tried /\ s.pre \in Asked(c)
      BY <1>1, <1>2, <2>8, <3>1 DEF RpcInv, CallOK, ExcludesAsked
    <3> QED BY <2>5, <3>2 DEF Asked, Excluded
  <2>9. CallOK(c)'
    BY <1>1, <2>7, <2>8 DEF CallOK, OwnKey
  <2> QED BY <1>1, <1>2, <2>1, <2>2, <2>5, <2>9, BindToOK, CallerStep
<1> QED BY <1>5, <1>6

\* A stream in use loads the node its key is bound to.
LEMMA LoadAccessOK ==
    ASSUME RpcInv, NEW c \in Callers, LoadAccess(c)
    PROVE  RpcInv'
<1> DEFINE s == call[c]
           t == [s EXCEPT !.at = "touch", !.pre = key2Node[keyOf[c]]]
<1>1. s.at = "open" /\ UNCHANGED <<keyOf, conns>> /\ NodeOf(c) # Nowhere /\ Step(c, t)
  BY DEF LoadAccess, At, NodeOf
<1>2. s \in CallType /\ RpcTyped /\ CallShape(c) /\ s.kind # "target"
  BY <1>1 DEF RpcInv, RpcTyped, CallOK, CallShape
<1>3. /\ t \in CallType /\ t.at = "touch" /\ t.kind = s.kind /\ t.node = s.node
      /\ t.quiet = s.quiet /\ t.pre = NodeOf(c) /\ t.err = s.err
      /\ t.failed = s.failed /\ t.tried = s.tried
  BY <1>2 DEF CallType, Places, MaybeNode, NodeOf, RpcTyped
<1> HIDE DEF t
<1>4. call'[c] = t /\ NodeOf(c)' = NodeOf(c) /\ access' = access
  BY <1>1, <1>2, StepIs DEF NodeOf, conns
<1>5. CallShape(c)'
  BY <1>1, <1>2, <1>3, <1>4 DEF CallShape
<1>6. ASSUME OwnKey(c) PROVE HoldsBound(c)' /\ NodeFresh(c)' /\ ExcludesAsked(c)'
  <2>1. HoldsBound(c) /\ NodeFresh(c) /\ ExcludesAsked(c)
    BY <1>2, <1>6 DEF RpcInv, CallOK
  <2> QED BY <1>1, <1>3, <1>4, <2>1 DEF HoldsBound, NodeFresh, ExcludesAsked, Cause
<1>7. CallOK(c)'
  BY <1>1, <1>5, <1>6 DEF CallOK, OwnKey
<1> QED BY <1>1, <1>3, <1>7, LocalStep

\* It then refreshes the age of that server.
LEMMA StoreAccessOK ==
    ASSUME RpcInv, NEW c \in Callers, StoreAccess(c)
    PROVE  RpcInv'
<1> DEFINE s == call[c]
           t == [s EXCEPT !.at = "open", !.pre = Nowhere, !.quiet = 0]
<1>1. /\ s.at = "touch" /\ UNCHANGED <<keyOf, ring, key2Node, client, gcOn>>
      /\ Touched(s.pre) /\ Step(c, t)
  BY DEF StoreAccess, At
<1>2. s \in CallType /\ RpcTyped /\ CallShape(c) /\ s.kind # "target" /\ s.pre \in Nodes
  BY <1>1 DEF RpcInv, RpcTyped, CallOK, CallShape, CallType, MaybeNode
<1>3. /\ t \in CallType /\ t.at = "open" /\ t.kind = s.kind /\ t.node = s.node
      /\ t.quiet = 0 /\ t.err = s.err /\ t.failed = s.failed /\ t.tried = s.tried
  <2>1. 0 \in 0..NoEntry
    BY DEF NoEntry, Expired
  <2> QED BY <1>2, <2>1 DEF CallType, Places, MaybeNode
<1> HIDE DEF t
<1>4. call'[c] = t /\ NodeOf(c)' = NodeOf(c)
  BY <1>1, <1>2, StepIs DEF NodeOf
<1>5. CallShape(c)'
  BY <1>1, <1>2, <1>3, <1>4 DEF CallShape
<1>6. ASSUME OwnKey(c) PROVE HoldsBound(c)' /\ NodeFresh(c)' /\ ExcludesAsked(c)'
  <2>1. HoldsBound(c) /\ ExcludesAsked(c)
    BY <1>2, <1>6 DEF RpcInv, CallOK
  <2>2. HoldsBound(c)' /\ ExcludesAsked(c)'
    BY <1>1, <1>3, <1>4, <2>1 DEF HoldsBound, ExcludesAsked, Cause
  <2>3. access'[s.pre] = 0
    BY <1>1, <1>2 DEF Touched, RpcTyped
  <2>4. NodeFresh(c)'
    BY <1>1, <1>3, <1>4, <2>1, <2>3 DEF HoldsBound, NodeFresh
  <2> QED BY <2>2, <2>4
<1>7. CallOK(c)'
  BY <1>1, <1>5, <1>6 DEF CallOK, OwnKey
<1>8. BoundHasConn'
  BY <1>1 DEF RpcInv, BoundHasConn
<1> QED BY <1>1, <1>2, <1>3, <1>7, <1>8, TouchedIs, CallerStep DEF RpcTyped

\* A tick makes ages greater and keeps their order.
LEMMA OlderIs ==
    ASSUME NEW a \in 0..NoEntry, NEW b \in 0..NoEntry
    PROVE  Older(a) \in 0..NoEntry /\ (a <= b => Older(a) <= Older(b))
BY DEF Older, NoEntry, Expired

\* Time passes.
LEMMA TickOK ==
    ASSUME RpcInv, Tick
    PROVE  RpcInv'
<1>1. /\ access' = [n \in Nodes |-> Older(access[n])]
      /\ call' = [c \in Callers |->
                    IF call[c].at \in {"open", "touch"}
                    THEN [call[c] EXCEPT !.quiet = Older(@)] ELSE call[c]]
      /\ UNCHANGED <<keyOf, ring, key2Node, client, gcOn>>
  BY DEF Tick
<1>2. RpcTyped
  BY DEF RpcInv
<1>3. ASSUME NEW c \in Callers
      PROVE  /\ call'[c] \in CallType
             /\ call'[c].at = call[c].at /\ call'[c].kind = call[c].kind
             /\ call'[c].node = call[c].node /\ call'[c].err = call[c].err
             /\ call'[c].failed = call[c].failed /\ call'[c].tried = call[c].tried
             /\ call'[c].pre = call[c].pre
             /\ call[c].at \in {"open", "touch"} => call'[c].quiet = Older(call[c].quiet)
  <2>1. call[c] \in CallType /\ call[c].quiet \in 0..NoEntry
    BY <1>2 DEF RpcTyped, CallType
  <2>2. Older(call[c].quiet) \in 0..NoEntry
    BY <2>1, OlderIs
  <2> QED BY <1>1, <2>1, <2>2 DEF CallType
<1>4. access' \in [Nodes -> 0..NoEntry]
  <2>1. \A n \in Nodes : Older(access[n]) \in 0..NoEntry
    BY <1>2, OlderIs DEF RpcTyped
  <2> QED BY <1>1, <2>1
<1>5. RpcTyped'
  <2>1. call' \in [Callers -> CallType]
    BY <1>1, <1>3
  <2> QED BY <1>1, <1>2, <1>4, <2>1 DEF RpcTyped
<1>6. BoundHasConn'
  BY <1>1 DEF RpcInv, BoundHasConn
<1>7. ASSUME NEW c \in Callers PROVE CallOK(c)'
  <2>1. CallShape(c)' /\ NodeOf(c)' = NodeOf(c) /\ (OwnKey(c)' <=> OwnKey(c))
    BY <1>1, <1>3 DEF RpcInv, CallOK, CallShape, NodeOf, OwnKey
  <2>2. ASSUME OwnKey(c), call[c].kind # "target"
        PROVE  HoldsBound(c)' /\ NodeFresh(c)' /\ ExcludesAsked(c)'
    <3>1. HoldsBound(c) /\ NodeFresh(c) /\ ExcludesAsked(c)
      BY <2>2 DEF RpcInv, CallOK
    <3>2. HoldsBound(c)' /\ ExcludesAsked(c)'
      BY <1>3, <2>1, <3>1 DEF HoldsBound, ExcludesAsked, Asked, Cause
    <3>3. ASSUME call[c].at \in {"open", "touch"}, call[c].node # Nowhere
          PROVE  access'[call[c].node] <= call'[c].quiet
      <4>1. call[c].node \in Nodes /\ call[c].quiet \in 0..NoEntry
        BY <1>2, <3>3 DEF RpcTyped, CallType, MaybeNode
      <4>2. access[call[c].node] \in 0..NoEntry /\ access[call[c].node] <= call[c].quiet
        BY <1>2, <3>1, <3>3, <4>1 DEF RpcTyped, NodeFresh
      <4> QED BY <1>1, <1>3, <3>3, <4>1, <4>2, OlderIs
    <3> QED BY <1>3, <3>2, <3>3 DEF NodeFresh
  <2> QED BY <1>3, <2>1, <2>2 DEF CallOK
<1> QED BY <1>5, <1>6, <1>7 DEF RpcInv

\* Connections are closed: a call keeps its node exactly when its key does.
LEMMA ForgetOK ==
    ASSUME RpcInv, NEW N \in SUBSET Nodes, Forget(N), LockFree,
           UNCHANGED <<keyOf, ring>>, gcOn' \in BOOLEAN
    PROVE  RpcInv'
<1>1. /\ client' = client \ N
      /\ key2Node' = [k \in Keys |-> IF key2Node[k] \in N THEN Nowhere ELSE key2Node[k]]
      /\ access' = [n \in Nodes |-> IF n \in N THEN NoEntry ELSE access[n]]
      /\ call' = [c \in Callers |->
                  IF call[c].at \in {"invoke", "open", "touch"} /\ call[c].node \in N \cap client
                  THEN [call[c] EXCEPT !.node = Nowhere] ELSE call[c]]
  BY DEF Forget
<1>2. RpcTyped /\ BoundHasConn
  BY DEF RpcInv
<1>3. ASSUME NEW c \in Callers
      PROVE  /\ call'[c] \in CallType
             /\ call'[c].at = call[c].at /\ call'[c].kind = call[c].kind
             /\ call'[c].err = call[c].err /\ call'[c].quiet = call[c].quiet
             /\ call'[c].failed = call[c].failed /\ call'[c].tried = call[c].tried
             /\ call'[c].pre = call[c].pre /\ call'[c].used = call[c].used
             /\ call'[c].node = IF call[c].at \in {"invoke", "open", "touch"}
                                   /\ call[c].node \in N \cap client
                                THEN Nowhere ELSE call[c].node
  <2>1. call[c] \in CallType
    BY <1>2 DEF RpcTyped
  <2> QED BY <1>1, <2>1 DEF CallType, MaybeNode
<1>4. RpcTyped'
  <2>1. call' \in [Callers -> CallType]
    BY <1>1, <1>3
  <2>2. access' \in [Nodes -> 0..NoEntry]
    BY <1>1, <1>2 DEF RpcTyped, NoEntry, Expired
  <2> QED BY <1>1, <1>2, <2>1, <2>2 DEF RpcTyped, MaybeNode
<1>5. BoundHasConn'
  BY <1>1, <1>2 DEF BoundHasConn
<1>6. ASSUME NEW c \in Callers PROVE CallOK(c)'
  <2>1. call[c].at # "dial"
    BY DEF LockFree, At
  <2>2. CallShape(c)' /\ (OwnKey(c)' <=> OwnKey(c))
    BY <1>3, <2>1 DEF RpcInv, CallOK, CallShape, OwnKey
  <2>3. /\ NodeOf(c)' = IF NodeOf(c) \in N THEN Nowhere ELSE NodeOf(c)
        /\ NodeOf(c) # Nowhere => NodeOf(c) \in client
    BY <1>1, <1>2 DEF NodeOf, RpcTyped, BoundHasConn
  <2>4. ASSUME OwnKey(c), call[c].kind # "target"
        PROVE  HoldsBound(c)' /\ NodeFresh(c)' /\ ExcludesAsked(c)'
    <3>1. HoldsBound(c) /\ NodeFresh(c) /\ ExcludesAsked(c)
      BY <2>4 DEF RpcInv, CallOK
    <3>2. HoldsBound(c)'
      BY <1>3, <2>1, <2>3, <3>1, RpcAssumption DEF HoldsBound
    <3>3. ExcludesAsked(c)'
      BY <1>3, <2>3, <3>1 DEF ExcludesAsked, Asked, Cause
    <3>4. ASSUME call'[c].at \in {"open", "touch"}, call'[c].node # Nowhere
          PROVE  access'[call'[c].node] <= call'[c].quiet
      <4>1. call'[c].node = call[c].node /\ call[c].node \in Nodes \ N
        BY <1>2, <1>3, <2>3, <3>1, <3>4 DEF HoldsBound, RpcTyped, CallType, MaybeNode
      <4> QED BY <1>1, <1>3, <3>1, <3>4, <4>1 DEF NodeFresh
    <3> QED BY <3>2, <3>3, <3>4 DEF NodeFresh
  <2> QED BY <1>3, <2>2, <2>4 DEF CallOK
<1> QED BY <1>4, <1>5, <1>6 DEF RpcInv

\* The list of servers changes; keys bound to others stay bound.
LEMMA UpdateStateOK ==
    ASSUME RpcInv, NEW addrs \in SUBSET Nodes, UpdateState(addrs)
    PROVE  RpcInv'
BY DEF RpcInv, RpcTyped, BoundHasConn, UpdateState, CallOK, CallShape, OwnKey, HoldsBound,
       NodeFresh, ExcludesAsked, Asked, NodeOf

\* A new connection satisfies the invariant.
LEMMA RpcInit == Init => RpcInv
<1> SUFFICES ASSUME Init PROVE RpcInv
  OBVIOUS
<1>1. RpcTyped
  <2>1. call \in [Callers -> CallType]
    BY IdleIsCall DEF Init
  <2>2. NoEntry \in 0..NoEntry
    BY DEF NoEntry, Expired
  <2> QED BY <2>1, <2>2 DEF Init, RpcTyped, MaybeNode
<1>2. BoundHasConn
  BY DEF Init, BoundHasConn
<1>3. \A c \in Callers : CallOK(c)
  BY DEF Init, CallOK, CallShape, HoldsBound, NodeFresh, ExcludesAsked, Idle
<1> QED BY <1>1, <1>2, <1>3 DEF RpcInv

\* The steps of a call that goes on.
LEMMA ProceedsOK ==
    ASSUME RpcInv, NEW c \in Callers, Proceeds(c)
    PROVE  RpcInv'
<1>1. CASE Return(c)
  BY <1>1, BackToIdle DEF Return
<1>2. CASE CallFails(c, "conn")
  BY <1>2, CallFailsOK DEF Causes
<1> QED BY <1>1, <1>2, GetClientConnOK, GetByTargetOK, DialOK, BindKeyOK, SucceedsOK,
           AttemptsFailedOK, TryMigrateOK, MigrateOK, StoreAccessOK DEF Proceeds

\* The steps of the servers, of the clock and of the collector.
LEMMA DisturbanceOK ==
    ASSUME RpcInv, Disturbance
    PROVE  RpcInv'
<1>1. ASSUME NEW c \in Callers, NEW err \in {"lacked", "df", "cancel"}, CallFails(c, err)
      PROVE  RpcInv'
  <2>1. err \in Causes
    BY DEF Causes
  <2> QED BY <1>1, <2>1, CallFailsOK
<1>2. CASE CollectConns
  BY <1>2, ForgetOK DEF CollectConns, RpcInv, RpcTyped
<1>3. CASE Close
  BY <1>3, ForgetOK DEF Close, RpcInv, RpcTyped
<1> QED BY <1>1, <1>2, <1>3, DialFailsOK, BindKeyOK, MigrateOK, UpdateStateOK DEF Disturbance

\* Every step keeps the invariant.
LEMMA RpcStep == RpcInv /\ [Next]_vars => RpcInv'
<1> SUFFICES ASSUME RpcInv, [Next]_vars PROVE RpcInv'
  OBVIOUS
<1>1. ASSUME NEW c \in Callers, Begins(c) PROVE RpcInv'
  BY <1>1, BeginOK DEF Begins
<1>2. CASE Continues
  <2>1. ASSUME NEW c \in Callers, EndStream(c) PROVE RpcInv'
    BY <2>1, BackToIdle DEF EndStream
  <2> QED BY <1>2, <2>1, ProceedsOK, LoadAccessOK DEF Continues
<1>3. CASE UNCHANGED vars
  BY <1>3 DEF RpcInv, RpcTyped, BoundHasConn, vars, CallOK, CallShape, OwnKey, HoldsBound,
       NodeFresh, ExcludesAsked, Asked, NodeOf
<1> QED BY <1>1, <1>2, <1>3, TickOK, DisturbanceOK DEF Next

\* The shape of the maps and of every call, and the four facts the properties
\* below rest on, hold for ever (client.go:211-398, client_util.go:34-66).
THEOREM RpcInvariant == Spec => []RpcInv
BY RpcInit, RpcStep, PTL DEF Spec
-----------------------------------------------------------------------------
\* The steps that change key2NodeMap.
LEMMA MapSteps ==
    ASSUME Next
    PROVE  \/ key2Node' = key2Node
           \/ \E c \in Callers, D \in SUBSET Nodes : BindKey(c, D) \/ Migrate(c, D)
           \/ CollectConns \/ Close
<1>1. ASSUME NEW c \in Callers, Begins(c) PROVE key2Node' = key2Node
  BY <1>1 DEF Begins, Begin, conns
<1>2. ASSUME NEW c \in Callers, Proceeds(c)
      PROVE  \/ key2Node' = key2Node
             \/ \E D \in SUBSET Nodes : BindKey(c, D) \/ Migrate(c, D)
  BY <1>2 DEF Proceeds, GetClientConn, GetClientConnByTarget, LoadOrCreate, Dial, Succeeds,
              CallFails, AttemptsFailed, TryMigrate, Return, StoreAccess, conns
<1>3. ASSUME NEW c \in Callers, LoadAccess(c) \/ EndStream(c) \/ DialFails(c)
                                \/ \E err \in Causes : CallFails(c, err)
      PROVE  key2Node' = key2Node
  BY <1>3 DEF LoadAccess, EndStream, DialFails, CallFails, conns
<1>4. Tick \/ (\E addrs \in SUBSET Nodes : UpdateState(addrs)) => key2Node' = key2Node
  BY DEF Tick, UpdateState
<1>5. CASE Continues
  BY <1>2, <1>3, <1>5 DEF Continues
<1>6. CASE Disturbance
  BY <1>3, <1>4, <1>6 DEF Disturbance, Causes
<1> QED BY <1>1, <1>4, <1>5, <1>6 DEF Next

\* A key moves from one server to another only when a call that failed migrates
\* it: the first call that finds a key bound takes that server, since a bound key
\* has a connection, and a collection only unbinds (client.go:211-263, 367-398).
THEOREM RpcKeysSticky == Spec => StickyKeys
<1> DEFINE Moved(k) == key2Node[k] # Nowhere /\ key2Node'[k] \notin {key2Node[k], Nowhere}
           Sticks == \A k \in Keys :
                       Moved(k) => \E c \in Callers : keyOf[c] = k /\ At(c, "move")
<1>1. ASSUME RpcInv, Next PROVE Sticks
  <2> SUFFICES ASSUME NEW k \in Keys, Moved(k)
               PROVE  \E c \in Callers : keyOf[c] = k /\ At(c, "move")
    OBVIOUS
  <2>1. RpcTyped /\ key2Node[k] \in client
    BY <1>1 DEF RpcInv, BoundHasConn
  <2>2. ASSUME NEW c \in Callers, NEW n, BindTo(keyOf[c], n) PROVE keyOf[c] = k
    BY <2>1, <2>2 DEF BindTo, RpcTyped
  <2>3. ASSUME NEW c \in Callers, NEW D, BindKey(c, D) PROVE FALSE
    <3> DEFINE n == FindCandidate(keyOf[c], {}, D)
    <3>1. BindTo(keyOf[c], n) \/ UNCHANGED key2Node
      BY <2>3 DEF BindKey
    <3>2. keyOf[c] = k /\ key2Node'[k] = n
      BY <2>1, <2>2, <3>1 DEF BindTo, RpcTyped
    <3>3. n = key2Node[k]
      BY <2>1, <3>2, CandidateNode
    <3> QED BY <3>2, <3>3
  <2>4. ASSUME NEW c \in Callers, NEW D, Migrate(c, D) PROVE keyOf[c] = k /\ At(c, "move")
    <3>1. BindTo(keyOf[c], FindCandidate(keyOf[c], Excluded(call[c]), D)) \/ UNCHANGED key2Node
      BY <2>4 DEF Migrate
    <3> QED BY <2>2, <2>4, <3>1 DEF Migrate
  <2>5. ASSUME NEW N, Forget(N) PROVE FALSE
    BY <2>5 DEF Forget
  <2>6. ~CollectConns /\ ~Close
    BY <2>5 DEF CollectConns, Close
  <2> QED BY <1>1, <2>3, <2>4, <2>6, MapSteps
<1>2. RpcInv /\ [Next]_vars => [Sticks]_vars
  BY <1>1
<1> QED BY <1>2, RpcInvariant, PTL DEF Spec, StickyKeys

\* A call that fails over gives up on a broken connection only when every server
\* of the list has been asked or does not answer: the servers it excludes and the
\* one its key is bound to were asked before (client.go:231-262, 381-392).
THEOREM RpcGivesUpAfterAsking == Spec => GivesUpAfterAsking
<1> DEFINE Latest(c) == At(c, "move") /\ call'[c].at = "gaveUp" /\ OwnKey(c)
                        /\ call'[c].err \notin {"df", "lacked", "cancel"}
           AllAsked == \A c \in Callers : Latest(c) => ring \subseteq call'[c].tried
<1>1. ASSUME RpcInv, Next PROVE AllAsked
  <2> SUFFICES ASSUME NEW c \in Callers, Latest(c) PROVE ring \subseteq call'[c].tried
    OBVIOUS
  <2>0. call[c].at = "move" /\ call'[c] # call[c] /\ RpcTyped /\ CallOK(c) /\ call[c] \in CallType
    BY <1>1 DEF At, RpcInv, RpcTyped
  <2>1. PICK D : Migrate(c, D)
    <3>1. ASSUME NEW d \in Callers, NEW s, Step(d, s) PROVE d = c
      BY <2>0, <3>1 DEF Step, RpcTyped
    <3>2. ASSUME NEW d \in Callers, Begins(d) PROVE FALSE
      <4>1. d = c
        BY <3>1, <3>2 DEF Begins, Begin
      <4> QED BY <2>0, <3>2, <4>1 DEF Begins, Begin, At
    <3>3. ASSUME NEW d \in Callers, Proceeds(d) PROVE Migrate(c, Nodes)
      <4>1. d = c
        BY <3>1, <3>3 DEF Proceeds, GetClientConn, GetClientConnByTarget, LoadOrCreate, Dial,
             BindKey, Succeeds, CallFails, AttemptsFailed, TryMigrate, Migrate, Return, StoreAccess
      <4> QED BY <2>0, <3>3, <4>1 DEF Proceeds, GetClientConn, GetClientConnByTarget, Dial,
             BindKey, Succeeds, CallFails, AttemptsFailed, TryMigrate, Return, StoreAccess, At
    <3>4. ASSUME NEW d \in Callers, LoadAccess(d) \/ EndStream(d) \/ DialFails(d)
                                \/ \E err \in Causes : CallFails(d, err)
          PROVE  FALSE
      <4>1. d = c
        BY <3>1, <3>4 DEF LoadAccess, EndStream, DialFails, CallFails
      <4> QED BY <2>0, <3>4, <4>1 DEF LoadAccess, EndStream, DialFails, CallFails, At
    <3>5. ASSUME NEW d \in Callers, NEW E, BindKey(d, E) PROVE FALSE
      <4>1. d = c
        BY <3>1, <3>5 DEF BindKey
      <4> QED BY <2>0, <3>5, <4>1 DEF BindKey, At
    <3>6. ASSUME NEW d \in Callers, NEW E, Migrate(d, E) PROVE d = c
      BY <3>1, <3>6 DEF Migrate
    <3>7. ~Tick /\ ~CollectConns /\ ~Close
      BY <2>0 DEF Tick, CollectConns, Close, Forget
    <3>8. \A addrs \in SUBSET Nodes : ~UpdateState(addrs)
      BY <2>0 DEF UpdateState
    <3>9. Continues \/ Disturbance
      BY <1>1, <3>2, <3>7 DEF Next
    <3>10. CASE Continues
      BY <3>3, <3>4, <3>10 DEF Continues
    <3>11. CASE Disturbance
      BY <3>4, <3>5, <3>6, <3>7, <3>8, <3>11 DEF Disturbance, Causes
    <3> QED BY <3>9, <3>10, <3>11
  <2> DEFINE s == call[c]
             t == [s EXCEPT !.at = "gaveUp", !.tried = s.tried \cup (ring \ Excluded(s))]
  <2>2. call'[c] = t
    <3>1. Step(c, t) \/ Step(c, [Execute(s, Cause(s)) EXCEPT !.failed = Excluded(s) \ {Nowhere},
                                                          !.moved = TRUE, !.pre = Nowhere])
      BY <2>1 DEF Migrate
    <3>2. Cause(s) \in Causes
      BY <2>0 DEF Cause, CallType, Causes
    <3>3. Execute(s, Cause(s)) \in CallType /\ Execute(s, Cause(s)).at # "gaveUp"
      BY <2>0, <3>2, ExecuteIsCall
    <3> DEFINE u == Execute(s, Cause(s))
               v == [u EXCEPT !.failed = Excluded(s) \ {Nowhere}, !.moved = TRUE, !.pre = Nowhere]
    <3> HIDE DEF u
    <3>4. v.at # "gaveUp"
      BY <3>3 DEF CallType, u
    <3>5. call'[c] \in {t, v}
      <4> HIDE DEF t, v
      <4>1. Step(c, t) \/ Step(c, v)
        BY <3>1 DEF t, u, v
      <4> QED BY <2>0, <4>1, StepIs
    <3> QED BY <3>4, <3>5
  <2>3. t.err = s.err /\ t.tried = s.tried \cup (ring \ Excluded(s))
    BY <2>0 DEF CallType
  <2>4. ~Final(Cause(s)) /\ s.kind # "target" /\ OwnKey(c)
    BY <2>0, <2>2, <2>3 DEF CallOK, CallShape, Cause, Final
  <2>5. s.failed \subseteq s.tried /\ s.pre \in Asked(c)
    BY <2>0, <2>4 DEF CallOK, ExcludesAsked
  <2>6. Nowhere \notin ring
    BY <2>0, RpcAssumption DEF RpcTyped
  <2> QED BY <2>2, <2>3, <2>5, <2>6 DEF Asked, Excluded
<1>2. RpcInv /\ [Next]_vars => [AllAsked]_vars
  BY <1>1
<1> QED BY <1>2, RpcInvariant, PTL DEF Spec, GivesUpAfterAsking

\* The collector closes the connection of an open stream only when nothing was
\* sent or received on it for connExpireTime: its server is the one its key is
\* bound to, so every use of the stream renews that server's access time
\* (client_util.go:34-66).
THEOREM RpcStreamKept == Spec => StreamKept
<1> DEFINE Closed(c) == OwnKey(c) /\ gcOn' /\ call[c].at \in {"open", "touch"}
                          /\ call'[c].node # call[c].node /\ call'[c].at # "idle"
           Kept == \A c \in Callers : Closed(c) => call[c].quiet >= Expired
<1>1. ASSUME RpcInv, Next PROVE Kept
  <2> SUFFICES ASSUME NEW c \in Callers, Closed(c) PROVE call[c].quiet >= Expired
    OBVIOUS
  <2>0. RpcTyped /\ CallOK(c) /\ call[c] \in CallType /\ call'[c] # call[c]
    BY <1>1 DEF RpcInv, RpcTyped
  <2>1. CollectConns
    <3>1. ASSUME NEW d \in Callers, NEW s, Step(d, s) PROVE d = c /\ call'[c] = s
      BY <2>0, <3>1 DEF Step, RpcTyped
    <3>2. ASSUME NEW d \in Callers, Begins(d) PROVE FALSE
      <4>1. d = c
        BY <3>1, <3>2 DEF Begins, Begin
      <4> QED BY <3>2, <4>1 DEF Begins, Begin, At
    <3>3. ASSUME NEW d \in Callers, StoreAccess(d) PROVE FALSE
      <4>1. call'[c] = [call[c] EXCEPT !.at = "open", !.pre = Nowhere, !.quiet = 0]
        BY <3>1, <3>3 DEF StoreAccess
      <4> QED BY <2>0, <4>1 DEF CallType
    <3>4. ASSUME NEW d \in Callers, Proceeds(d) PROVE FALSE
      <4>1. d = c
        BY <3>1, <3>4 DEF Proceeds, GetClientConn, GetClientConnByTarget, LoadOrCreate, Dial,
             BindKey, Succeeds, CallFails, AttemptsFailed, TryMigrate, Migrate, Return, StoreAccess
      <4> QED BY <3>3, <3>4, <4>1 DEF Proceeds, GetClientConn, GetClientConnByTarget, Dial,
             BindKey, Succeeds, CallFails, AttemptsFailed, TryMigrate, Migrate, Return, At
    <3>5. ASSUME NEW d \in Callers, LoadAccess(d) PROVE FALSE
      <4>1. call'[c] = [call[c] EXCEPT !.at = "touch", !.pre = key2Node[keyOf[c]]]
        BY <3>1, <3>5 DEF LoadAccess
      <4> QED BY <2>0, <4>1 DEF CallType
    <3>6. ASSUME NEW d \in Callers, EndStream(d) PROVE FALSE
      <4>1. call'[c] = Idle
        BY <3>1, <3>6 DEF EndStream
      <4> QED BY <4>1 DEF Idle
    <3>7. ASSUME NEW d \in Callers, DialFails(d) \/ \E err \in Causes : CallFails(d, err)
          PROVE  FALSE
      <4>1. d = c
        BY <3>1, <3>7 DEF DialFails, CallFails
      <4> QED BY <3>7, <4>1 DEF DialFails, CallFails, At
    <3>8. ASSUME NEW d \in Callers, NEW E, BindKey(d, E) \/ Migrate(d, E) PROVE FALSE
      <4>1. d = c
        BY <3>1, <3>8 DEF BindKey, Migrate
      <4> QED BY <3>8, <4>1 DEF BindKey, Migrate, At
    <3>9. ~Tick
      <4> SUFFICES ASSUME Tick PROVE FALSE
        OBVIOUS
      <4>1. call'[c] = [call[c] EXCEPT !.quiet = Older(call[c].quiet)]
        BY DEF Tick
      <4> QED BY <2>0, <4>1 DEF CallType
    <3>10. ~Close /\ \A addrs \in SUBSET Nodes : ~UpdateState(addrs)
      BY <2>0 DEF Close, UpdateState
    <3>11. ~Continues
      BY <3>4, <3>5, <3>6 DEF Continues
    <3>12. CASE Disturbance
      BY <3>7, <3>8, <3>10, <3>12 DEF Disturbance, Causes
    <3> QED BY <1>1, <3>2, <3>9, <3>11, <3>12 DEF Next
  <2>2. PICK n \in Nodes : access[n] = Expired /\ call[c].node = n
    <3>1. Forget({n \in Nodes : Expirable(n)})
      BY <2>1 DEF CollectConns
    <3>2. call[c].node \in {n \in Nodes : Expirable(n)}
      BY <2>0, <3>1 DEF Forget
    <3> QED BY <3>2 DEF Expirable
  <2>3. call[c].kind # "target" /\ n # Nowhere /\ call[c].quiet \in 0..NoEntry
    BY <2>0, RpcAssumption DEF CallOK, CallShape, CallType
  <2>4. access[n] <= call[c].quiet
    BY <2>0, <2>2, <2>3 DEF CallOK, NodeFresh
  <2> QED BY <2>2, <2>3, <2>4 DEF Expired, NoEntry
<1>2. RpcInv /\ [Next]_vars => [Kept]_vars
  BY <1>1
<1> QED BY <1>2, RpcInvariant, PTL DEF Spec, StreamKept
=============================================================================
