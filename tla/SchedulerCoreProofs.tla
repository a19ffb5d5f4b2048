------------------------- MODULE SchedulerCoreProofs -------------------------
(***************************************************************************)
(* Theorems about SchedulerCore, for any clients, CDNs, hosts and limits.  *)
(*                                                                         *)
(* TypeOK and TreeShape are not inductive.  A child attached to a parent   *)
(* must have started: it has a stream (StreamsStarted) or already has a    *)
(* parent.  The parent must have started: it has pieces (PiecesStarted),   *)
(* has children, or was named to the child in a packet (OutOK).            *)
(*                                                                         *)
(* WeightOK bounds the weight from below: it is at least zero while the    *)
(* reschedule loop is between its look at the weight and its decrement, so *)
(* that decrement leaves -1 at worst.                                      *)
(*                                                                         *)
(* NoForgottenPeer is inductive relative to that invariant; it has the     *)
(* last section.                                                           *)
(***************************************************************************)
EXTENDS SchedulerCore, FiniteSetTheorems, TLAPS

\* The download of p has begun, and is counted whatever becomes of it.
Started(s, p) == s.status[p] \notin {"None", "Waiting"}

\* The supervisor's records: types, tree, pieces.
TreeOK(s) ==
    \A p \in Peers :
        s.parent[p] # NoPeer =>
            /\ p \in Clients
            /\ s.parent[p] # p
            /\ Started(s, p)
            /\ Started(s, s.parent[p])

PiecesStarted(s) == \A p \in Peers : s.pieces[p] > 0 => Started(s, p)

\* Whoever the peer manager knows exists.
RegisteredKnown(s) == \A p \in s.registered : s.status[p] # "None"

\* A client is done only by a report of its own.
DoneEnded(s) == \A p \in Clients : IsDone(s, p) => p \in s.ended

SupOK(s) ==
    /\ s \in SupType /\ TreeOK(s) /\ PiecesStarted(s)
    /\ RegisteredKnown(s) /\ DoneEnded(s)

\* Packets: types, and who is named in them.
OutType == [main : [Clients -> Peers \cup {NoPeer}],
            offered : [Clients -> SUBSET Peers],
            waitQ : SUBSET RsPeers]

OutOK(s, o) ==
    /\ o \in OutType
    /\ \A c \in Clients : \A q \in o.offered[c] : Started(s, q)

\* Whoever ever had a stream has started.
StreamsStarted(s) == \A p \in Clients : conn[p] # "none" => Started(s, p)

\* The goroutine of StartSeedTask has a CDN peer, which has started, once the
\* first message came.
SeedShape ==
    seed.stage \in {"receiving", "succeeded"} =>
        seed.cdn \in CDNs /\ Started(sup, seed.cdn)

StreamTypes ==
    /\ conn \in [Clients -> {"none", "open", "closed"}]
    /\ weight \in Int /\ weight <= BackSourceCount
    /\ b2s \subseteq Clients
    /\ told \subseteq Clients

RestTypes ==
    /\ task \in TaskStatus
    /\ starting \subseteq Clients
    /\ pending \subseteq Reports
    /\ inHand \in RsPeers \cup {NoRs}
    /\ seed \in SeedType
    /\ gc \in GCType
    /\ gc.at \in {"idle", "mark"} => gc.peer \in Clients  \* never a CDN
    /\ crashed \in BOOLEAN

\* The inductive invariant.
IInv ==
    /\ SupOK(sup)
    /\ OutOK(sup, Out)
    /\ StreamTypes
    /\ StreamsStarted(sup)
    /\ SeedShape
    /\ RestTypes

\* The lower bound of the weight.
WeightOK == weight >= -1 /\ (LoopAdding => weight >= 0)

\* What a step may do to the statuses: who started stays started, a client that
\* is done stays done, and no handler prepares to write a status.  The steps that
\* write one somebody looked at before are the exceptions: see NextIInv.
Later(s, t) ==
    /\ t.reviving = s.reviving
    /\ \A p \in Peers :
        /\ s.status[p] # "None" => t.status[p] # "None"
        /\ Started(s, p) => Started(t, p)
        /\ p \in Clients /\ IsDone(s, p) => IsDone(t, p)

-----------------------------------------------------------------------------
(* The operations on the supervisor's records.                             *)

\* An assignment of parents keeps the tree in shape.
LEMMA ParentsOK ==
    ASSUME NEW s, SupOK(s), NEW t \in SupType, t.status = s.status, t.pieces = s.pieces,
           t.registered = s.registered, t.ended = s.ended, t.reviving = s.reviving,
           \A p \in Peers :
              t.parent[p] # s.parent[p] /\ t.parent[p] # NoPeer =>
                 /\ p \in Clients /\ t.parent[p] # p
                 /\ Started(s, p) /\ Started(s, t.parent[p])
    PROVE  SupOK(t) /\ Later(s, t)
  <1>1. TreeOK(t)
    BY DEF SupOK, TreeOK, Started
  <1>2. PiecesStarted(t) /\ RegisteredKnown(t) /\ DoneEnded(t) /\ Later(s, t)
    BY DEF SupOK, PiecesStarted, RegisteredKnown, DoneEnded, Started, Later, IsDone
  <1> QED
    BY <1>1, <1>2 DEF SupOK

\* t is s with the peers of C attached to q.
Attached(s, C, q, t) ==
    /\ t \in SupType /\ t.status = s.status /\ t.pieces = s.pieces
    /\ t.registered = s.registered /\ t.left = s.left
    /\ t.ended = s.ended /\ t.reviving = s.reviving
    /\ \A p \in Peers : t.parent[p] = IF p \in C THEN q ELSE s.parent[p]

\* What ReplaceParent computes, for a parent q or for none.
LEMMA ReplaceParentIs ==
    ASSUME NEW s \in SupType, NEW C \in SUBSET Peers, NEW q \in Peers \cup {NoPeer}
    PROVE  Attached(s, C, q, ReplaceParent(s, C, q))
  <1> DEFINE t == ReplaceParent(s, C, q)
             parent == [c \in Peers |-> IF c \in C THEN q ELSE s.parent[c]]
             listed == s.listed \cup (({s.parent[c] : c \in C} \cup
                                       {r \in {q} : C # {}}) \ {NoPeer})
  <1>1. /\ s.parent \in [Peers -> Peers \cup {NoPeer}] /\ s.listed \in SUBSET Peers
    BY DEF SupType
  <1>2. parent \in [Peers -> Peers \cup {NoPeer}]
    BY <1>1
  <1>3. listed \in SUBSET Peers
    BY <1>1
  <1>4. t = [s EXCEPT !.parent = parent, !.listed = listed]
    BY DEF ReplaceParent, SupType
  <1>5. \A p \in Peers : parent[p] = IF p \in C THEN q ELSE s.parent[p]
    OBVIOUS
  <1> HIDE DEF parent, listed, t
  <1>6. /\ t \in SupType /\ t.status = s.status /\ t.pieces = s.pieces
        /\ t.parent = parent /\ t.registered = s.registered /\ t.left = s.left
        /\ t.ended = s.ended /\ t.reviving = s.reviving
    BY <1>2, <1>3, <1>4 DEF SupType
  <1>7. Attached(s, C, q, t)
    BY <1>5, <1>6 DEF Attached
  <1> QED
    BY <1>7 DEF t

\* ReplaceParent attaches started clients to a started peer.
LEMMA ReplaceParentOK ==
    ASSUME NEW s, SupOK(s), NEW C, C \subseteq Clients, NEW q \in Peers, q \notin C,
           Started(s, q), \A c \in C : Started(s, c),
           NEW t, t = ReplaceParent(s, C, q)
    PROVE  SupOK(t) /\ Later(s, t)
  <1>1. s \in SupType /\ C \in SUBSET Peers /\ q \in Peers \cup {NoPeer}
    BY DEF SupOK, Peers
  <1>2. Attached(s, C, q, t)
    BY <1>1, ReplaceParentIs
  <1> QED
    BY <1>2, ParentsOK DEF Attached

\* ReplaceParent(nil) detaches a peer.
LEMMA DetachOK ==
    ASSUME NEW s, SupOK(s), NEW p \in Peers,
           NEW t, t = ReplaceParent(s, {p}, NoPeer)
    PROVE  SupOK(t) /\ Later(s, t)
  <1>1. s \in SupType /\ {p} \in SUBSET Peers /\ NoPeer \in Peers \cup {NoPeer}
    BY DEF SupOK
  <1>2. Attached(s, {p}, NoPeer, t)
    BY <1>1, ReplaceParentIs
  <1> QED
    BY <1>2, ParentsOK DEF Attached

\* A change of the sets of known peers alone is harmless.
LEMMA SetsOK ==
    ASSUME NEW s, SupOK(s), NEW t \in SupType,
           t.status = s.status, t.parent = s.parent, t.pieces = s.pieces,
           t.registered \subseteq s.registered, t.ended = s.ended, t.reviving = s.reviving
    PROVE  SupOK(t) /\ Later(s, t)
  BY DEF SupOK, TreeOK, PiecesStarted, RegisteredKnown, DoneEnded, Started, Later, IsDone

\* peerManager.Delete.
LEMMA DeletePeerOK ==
    ASSUME NEW s, SupOK(s), NEW q \in Peers
    PROVE  SupOK(DeletePeer(s, q)) /\ Later(s, DeletePeer(s, q))
  <1> DEFINE u == [s EXCEPT !.listed = @ \ {q}]
             v == ReplaceParent(u, {q}, NoPeer)
             w == [v EXCEPT !.registered = @ \ {q}]
  <1>1. SupOK(u) /\ Later(s, u) /\ u.status = s.status
    <2>1. /\ u \in SupType /\ u.status = s.status /\ u.parent = s.parent
          /\ u.pieces = s.pieces /\ u.registered = s.registered
          /\ u.ended = s.ended /\ u.reviving = s.reviving
      BY DEF SupOK, SupType
    <2> HIDE DEF u
    <2> QED
      BY <2>1, SetsOK
  <1>2. SupOK(v) /\ Later(u, v)
    <2> HIDE DEF u
    <2> QED
      BY <1>1, DetachOK
  <1>3. SupOK(w) /\ Later(v, w)
    <2> HIDE DEF v
    <2>1. /\ w \in SupType /\ w.status = v.status /\ w.parent = v.parent
          /\ w.pieces = v.pieces /\ w.registered \subseteq v.registered
          /\ w.ended = v.ended /\ w.reviving = v.reviving
      BY <1>2 DEF SupOK, SupType
    <2> HIDE DEF w
    <2> QED
      BY <1>2, <2>1, SetsOK
  <1>4. DeletePeer(s, q) \in {s, w}
    BY DEF DeletePeer
  <1> HIDE DEF u, v, w
  <1> QED
    BY <1>1, <1>2, <1>3, <1>4 DEF Later

\* A new status of a peer.
LEMMA NewStatusOK ==
    ASSUME NEW s, SupOK(s), NEW p \in Peers,
           NEW st \in PeerStatus \ {"None", "Waiting"},
           p \in Clients /\ IsDone(s, p) => st \in {"Success", "Fail"},
           NEW t \in SupType, t.status = [s.status EXCEPT ![p] = st],
           t.parent = s.parent, t.pieces = s.pieces, t.registered = s.registered,
           t.reviving = s.reviving, s.ended \subseteq t.ended,
           p \in Clients /\ st \in {"Success", "Fail"} => p \in t.ended
    PROVE  SupOK(t) /\ Later(s, t) /\ Started(t, p)
  <1>1. /\ s.status \in [Peers -> PeerStatus]
        /\ s.parent \in [Peers -> Peers \cup {NoPeer}]
    BY DEF SupOK, SupType
  <1>2. \A q \in Peers : Started(s, q) => Started(t, q)
    BY <1>1 DEF Started
  <1>3. TreeOK(t)
    BY <1>1, <1>2 DEF TreeOK, SupOK
  <1>4. PiecesStarted(t) /\ RegisteredKnown(t)
    BY <1>1, <1>2 DEF PiecesStarted, RegisteredKnown, SupOK
  <1>5. DoneEnded(t) /\ \A q \in Clients : IsDone(s, q) => IsDone(t, q)
    BY <1>1 DEF IsDone, DoneEnded, SupOK, Peers
  <1>6. Started(t, p) /\ \A q \in Peers : s.status[q] # "None" => t.status[q] # "None"
    BY <1>1 DEF Started
  <1> QED
    BY <1>2, <1>3, <1>4, <1>5, <1>6 DEF SupOK, Later

\* SetStatus, outside the events that end a download.
LEMMA SetStatusOK ==
    ASSUME NEW s, SupOK(s), NEW p \in Peers,
           NEW st \in PeerStatus \ {"None", "Waiting"},
           p \in Clients => ~IsDone(s, p) /\ st \notin {"Success", "Fail"},
           NEW t, t = SetStatus(s, p, st)
    PROVE  SupOK(t) /\ Later(s, t) /\ Started(t, p) /\ t.parent = s.parent
  <1>1. /\ t \in SupType /\ t.status = [s.status EXCEPT ![p] = st]
        /\ t.parent = s.parent /\ t.pieces = s.pieces /\ t.registered = s.registered
        /\ t.ended = s.ended /\ t.reviving = s.reviving
    BY DEF SetStatus, SupOK, SupType
  <1> QED
    BY <1>1, NewStatusOK

\* The end of a download.
LEMMA EndIs ==
    ASSUME NEW s, SupOK(s), NEW p \in Peers, NEW st \in {"Success", "Fail"},
           NEW t, t = End(s, p, st)
    PROVE  SupOK(t) /\ Later(s, t) /\ Started(t, p)
  <1>1. st \in PeerStatus \ {"None", "Waiting"}
    BY DEF PeerStatus
  <1>2. /\ t \in SupType /\ t.status = [s.status EXCEPT ![p] = st]
        /\ t.parent = s.parent /\ t.pieces = s.pieces /\ t.registered = s.registered
        /\ t.ended = s.ended \cup {p} /\ t.reviving = s.reviving
    BY <1>1 DEF End, SupOK, SupType
  <1> QED
    BY <1>1, <1>2, NewStatusOK

\* Peer.Touch.
LEMMA TouchOK ==
    ASSUME NEW s, SupOK(s), NEW p \in Peers,
           NEW t, t = Touch(s, p)
    PROVE  SupOK(t) /\ Later(s, t) /\ t.parent = s.parent
  <1>1. "Running" \in PeerStatus \ {"None", "Waiting"}
    BY DEF PeerStatus
  <1>2. CASE s.status[p] = "Zombie" /\ p \notin s.left \cup s.reviving
    <2>1. t = SetStatus(s, p, "Running")
      BY <1>2 DEF Touch, SetStatus
    <2>2. ~IsDone(s, p)
      BY <1>2 DEF IsDone
    <2> QED
      BY <1>1, <2>1, <2>2, SetStatusOK
  <1>3. CASE ~(s.status[p] = "Zombie" /\ p \notin s.left \cup s.reviving)
    BY <1>3 DEF Touch, Later
  <1> QED
    BY <1>2, <1>3

\* UpdateProgress of a peer that has started.
LEMMA UpdateProgressOK ==
    ASSUME NEW s, SupOK(s), NEW p \in Peers, Started(s, p), NEW n \in 0..MaxPieces,
           NEW outlier \in BOOLEAN,
           NEW t, t = UpdateProgress(s, p, n, outlier)
    PROVE  SupOK(t) /\ Later(s, t) /\ t.parent = s.parent
  <1> DEFINE r == [s EXCEPT !.pieces[p] = n,
                            !.listed = @ \cup {p},
                            !.slow = IF outlier /\ n > 1 /\ p \in Clients THEN @ \cup {p}
                                     ELSE @ \ {p}]
  <1>1. /\ s.pieces \in [Peers -> 0..MaxPieces] /\ s.listed \in SUBSET Peers
        /\ s.slow \in SUBSET Clients /\ s \in SupType
    BY DEF SupOK, SupType
  <1>2. [s.pieces EXCEPT ![p] = n] \in [Peers -> 0..MaxPieces]
    BY <1>1
  <1>3. /\ r \in SupType /\ r.status = s.status /\ r.parent = s.parent
        /\ r.pieces = [s.pieces EXCEPT ![p] = n] /\ r.registered = s.registered
        /\ r.ended = s.ended /\ r.reviving = s.reviving
    BY <1>1, <1>2 DEF SupType
  <1> HIDE DEF r
  <1>4. TreeOK(r) /\ PiecesStarted(r) /\ RegisteredKnown(r)
    BY <1>1, <1>3 DEF TreeOK, PiecesStarted, RegisteredKnown, SupOK, Started
  <1>6. DoneEnded(r) /\ Later(s, r)
    BY <1>1, <1>3 DEF DoneEnded, SupOK, Started, Later, IsDone
  <1>5. t \in {s, r}
    BY DEF UpdateProgress, r
  <1> QED
    BY <1>3, <1>4, <1>5, <1>6 DEF SupOK, Later

\* Later is a partial order, and started peers stay named in packets.
LEMMA LaterTransitive ==
    ASSUME NEW s, NEW t, NEW u, Later(s, t), Later(t, u)
    PROVE  Later(s, u)
  BY DEF Later

\* What was started before the step was started after it.
LEMMA LaterKeeps ==
    ASSUME NEW s, NEW t, Later(s, t), NEW o, OutOK(s, o)
    PROVE  OutOK(t, o) /\ (StreamsStarted(s) => StreamsStarted(t))
  <1>1. Clients \subseteq Peers /\ \A p \in Peers : Started(s, p) => Started(t, p)
    BY DEF Later, Peers
  <1>2. \A c \in Clients : o.offered[c] \subseteq Peers
    BY DEF OutOK, OutType
  <1> QED
    BY <1>1, <1>2 DEF OutOK, StreamsStarted

-----------------------------------------------------------------------------
(* Scheduling.                                                             *)

\* selectCandidateParents finds started peers only: they have more pieces than
\* the peer they are found for.
LEMMA CandidatesStarted ==
    ASSUME NEW s \in SupType, PiecesStarted(s), NEW p \in Peers, NEW blank,
           NEW q \in CandidateParents(s, p, blank)
    PROVE  q \in Peers /\ q # p /\ Started(s, q)
  <1>1. q \in Peers /\ q # p /\ s.pieces[q] > s.pieces[p]
    BY DEF CandidateParents, SupType
  <1>2. s.pieces[p] \in 0..MaxPieces /\ s.pieces[q] \in 0..MaxPieces
    BY <1>1 DEF SupType
  <1>3. s.pieces[q] > 0
    BY <1>1, <1>2, LimitsNat
  <1> QED
    BY <1>1, <1>3 DEF PiecesStarted

\* ScheduleChildren finds started clients only: they have a stream.
LEMMA ChildrenStarted ==
    ASSUME NEW s, StreamsStarted(s), NEW p, NEW blank,
           NEW C \in ChildChoices(s, p, blank)
    PROVE  C \subseteq Clients /\ p \notin C /\ \A c \in C : Started(s, c)
  <1>1. C \subseteq CandidateChildren(s, p, blank)
    BY DEF ChildChoices
  <1>2. \A c \in CandidateChildren(s, p, blank) : c \in Clients /\ c # p /\ Started(s, c)
    BY DEF CandidateChildren, StreamsStarted
  <1> QED
    BY <1>1, <1>2

\* SendSchedulePacket with started peers.
LEMMA SendOK ==
    ASSUME NEW s, NEW o, OutOK(s, o), NEW f, NEW steal, NEW busy,
           \A c \in Clients \cap DOMAIN f :
              /\ f[c] \in Peers /\ Started(s, f[c])
              /\ steal[c] \subseteq Peers /\ \A q \in steal[c] : Started(s, q),
           NEW r, r = Send(o, f, steal, busy)
    PROVE  OutOK(s, r)
  <1> DEFINE open == {c \in Clients \cap DOMAIN f : conn[c] = "open"}
  <1>1. /\ o.main \in [Clients -> Peers \cup {NoPeer}]
        /\ o.offered \in [Clients -> SUBSET Peers] /\ o.waitQ \subseteq RsPeers
    BY DEF OutOK, OutType
  <1>2. [c \in Clients |-> IF c \in open \ busy THEN f[c] ELSE o.main[c]]
            \in [Clients -> Peers \cup {NoPeer}]
    BY <1>1
  <1>3. [c \in Clients |-> IF c \in open \ busy THEN o.offered[c] \cup {f[c]} \cup steal[c]
                           ELSE o.offered[c]]
            \in [Clients -> SUBSET Peers]
    BY <1>1
  <1>4. \A c \in open : Wait(c, {}) \in RsPeers
    BY DEF Wait, RsPeers
  <1>5. /\ r.main = [c \in Clients |-> IF c \in open \ busy THEN f[c] ELSE o.main[c]]
        /\ r.offered = [c \in Clients |-> IF c \in open \ busy
                                          THEN o.offered[c] \cup {f[c]} \cup steal[c]
                                          ELSE o.offered[c]]
        /\ r.waitQ = o.waitQ \cup {Wait(c, {}) : c \in open \cap busy}
        /\ r = [main |-> r.main, offered |-> r.offered, waitQ |-> r.waitQ]
    BY DEF Send
  <1>6. r.waitQ \subseteq RsPeers
    BY <1>1, <1>4, <1>5
  <1>7. r \in OutType
    BY <1>2, <1>3, <1>5, <1>6 DEF OutType
  <1>8. ASSUME NEW c \in Clients, NEW q \in r.offered[c]
        PROVE  Started(s, q)
    <2>1. q \in o.offered[c] \/ (c \in open /\ (q = f[c] \/ q \in steal[c]))
      BY <1>5
    <2> QED
      BY <2>1 DEF OutOK
  <1> QED
    BY <1>7, <1>8 DEF OutOK

\* SendSchedulePacket naming one started peer to several clients.
LEMMA SendParentOK ==
    ASSUME NEW s, NEW o, OutOK(s, o), NEW C, NEW q \in Peers, NEW busy,
           C = {} \/ Started(s, q),
           NEW r, r = SendParent(o, C, q, busy)
    PROVE  OutOK(s, r)
  <1> DEFINE f == [c \in C |-> q]
             steal == [c \in C |-> {}]
  <1>1. r = Send(o, f, steal, busy)
    BY DEF SendParent
  <1>2. \A c \in Clients \cap DOMAIN f :
              /\ f[c] \in Peers /\ Started(s, f[c])
              /\ steal[c] \subseteq Peers /\ \A x \in steal[c] : Started(s, x)
    OBVIOUS
  <1> HIDE DEF f, steal
  <1> QED
    BY <1>1, <1>2, SendOK

\* A packet to one client, after ScheduleParent chose q among cand.
LEMMA SendChosenOK ==
    ASSUME NEW s, SupOK(s), NEW o, OutOK(s, o), NEW p \in Peers, NEW cand, NEW q \in cand,
           \A x \in cand : x \in Peers /\ Started(s, x), NEW busy,
           NEW r, r = SendChosen(o, p, q, cand, busy)
    PROVE  OutOK(s, r)
  <1> DEFINE f == [c \in {p} |-> q]
             steal == [c \in {p} |-> cand \ {q}]
  <1>1. \A c \in Clients \cap DOMAIN f :
              /\ f[c] \in Peers /\ Started(s, f[c])
              /\ steal[c] \subseteq Peers /\ \A x \in steal[c] : Started(s, x)
    OBVIOUS
  <1>2. r = Send(o, f, steal, busy)
    BY DEF SendChosen
  <1> HIDE DEF f, steal
  <1> QED
    BY <1>1, <1>2, SendOK

\* removePeerFromCurrentTree.
LEMMA RemoveOK ==
    ASSUME NEW s, SupOK(s), StreamsStarted(s), NEW o, OutOK(s, o), NEW p \in Peers,
           NEW C \in FreedChoices(s, p), NEW busy,
           NEW r, r = RemovePeerFromCurrentTree(s, o, p, C, busy)
    PROVE  SupOK(r.s) /\ Later(s, r.s) /\ OutOK(r.s, r.o)
  <1> DEFINE par == s.parent[p]
             out == ReplaceParent(s, {p}, NoPeer)
             oo == SendParent(o, C, p, busy)
             ss == IF par = NoPeer THEN out ELSE ReplaceParent(out, C, par)
  <1>1. r.s = ss /\ r.o = oo
    BY DEF RemovePeerFromCurrentTree
  <1>2. SupOK(out) /\ Later(s, out)
    BY DetachOK
  <1>3. StreamsStarted(out)
    BY <1>2, LaterKeeps
  <1>4. par \in Peers \cup {NoPeer}
    BY DEF SupOK, SupType
  <1>5. CASE par = NoPeer
    <2>1. C = {} /\ ss = out
      BY <1>5 DEF FreedChoices
    <2>2. OutOK(s, oo)
      <3> HIDE DEF oo
      <3>1. oo = SendParent(o, C, p, busy)
        BY DEF oo
      <3> QED
        BY <2>1, <3>1, SendParentOK
    <2> HIDE DEF out, oo, ss
    <2> QED
      BY <1>1, <1>2, <2>1, <2>2, LaterKeeps
  <1>6. CASE par # NoPeer
    <2>1. /\ par \in Peers /\ Started(s, p) /\ Started(s, par)
      BY <1>4, <1>6 DEF SupOK, TreeOK
    <2>2. C \in ChildChoices(out, par, {p})
      BY <1>6 DEF FreedChoices
    <2>3. ss = ReplaceParent(out, C, par)
      BY <1>6
    <2>4. Started(out, par)
      BY <1>2, <2>1 DEF Later
    <2> HIDE DEF out, ss, par
    <2>5. C \subseteq Clients /\ par \notin C /\ \A c \in C : Started(out, c)
      BY <1>3, <2>2, ChildrenStarted
    <2>6. SupOK(ss) /\ Later(out, ss)
      BY <1>2, <2>1, <2>3, <2>4, <2>5, ReplaceParentOK
    <2>7. Later(s, ss)
      BY <1>2, <2>6, LaterTransitive
    <2>8. OutOK(s, oo)
      <3> HIDE DEF oo
      <3>1. oo = SendParent(o, C, p, busy)
        BY DEF oo
      <3> QED
        BY <2>1, <3>1, SendParentOK
    <2> HIDE DEF oo
    <2> QED
      BY <1>1, <2>6, <2>7, <2>8, LaterKeeps
  <1> QED
    BY <1>5, <1>6

\* What Moved computes.
LEMMA MovedIs ==
    ASSUME NEW s \in SupType, NEW K, K \subseteq Peers,
           NEW f \in [K -> Peers \cup {NoPeer}], NEW D, D \subseteq K,
           \A c \in K : s.parent[c] \in Peers,
           NEW t, t = Moved(s, f, D)
    PROVE  t \in SupType /\ t.status = s.status /\ t.pieces = s.pieces
             /\ t.registered = s.registered /\ t.left = s.left
             /\ t.ended = s.ended /\ t.reviving = s.reviving
             /\ \A p \in Peers :
                   t.parent[p] = IF p \in D /\ f[p] # NoPeer THEN f[p] ELSE s.parent[p]
  <1> DEFINE found == {c \in D : f[c] # NoPeer}
             parent == [c \in Peers |-> IF c \in found THEN f[c] ELSE s.parent[c]]
             listed == s.listed \cup {f[c] : c \in found} \cup {s.parent[c] : c \in found}
  <1>0. /\ s.parent \in [Peers -> Peers \cup {NoPeer}] /\ s.listed \in SUBSET Peers
    BY DEF SupType
  <1>1. parent \in [Peers -> Peers \cup {NoPeer}]
    BY <1>0
  <1>2. listed \in SUBSET Peers
    BY <1>0
  <1>3. t = [s EXCEPT !.parent = parent, !.listed = listed]
    BY DEF Moved, SupType
  <1>4. \A p \in Peers :
           parent[p] = IF p \in D /\ f[p] # NoPeer THEN f[p] ELSE s.parent[p]
    OBVIOUS
  <1> HIDE DEF parent, listed
  <1>5. /\ t \in SupType /\ t.status = s.status /\ t.pieces = s.pieces
        /\ t.parent = parent /\ t.registered = s.registered /\ t.left = s.left
        /\ t.ended = s.ended /\ t.reviving = s.reviving
    BY <1>1, <1>2, <1>3 DEF SupType
  <1> QED
    BY <1>4, <1>5

\* The children of a failed or departed peer find started parents.
LEMMA ReassignedStarted ==
    ASSUME NEW s, SupOK(s), NEW p \in Peers, NEW f \in Outcomes(s, p), NEW ord,
           NEW c \in Children(s, p), NEW q \in CandidatesInTurn(s, p, f, ord, c)
    PROVE  q \in Peers /\ q # c /\ Started(s, q)
  <1> DEFINE K == Children(s, p)
             D == {d \in DOMAIN f : ord[d] < ord[c]}
             t == Moved(s, f, D)
  <1>1. /\ s \in SupType /\ PiecesStarted(s) /\ K \subseteq Peers /\ D \subseteq K
        /\ f \in [K -> Peers \cup {NoPeer}] /\ \A d \in K : s.parent[d] \in Peers
    BY DEF SupOK, Children, Outcomes
  <1>2. q \in CandidateParents(t, c, {p})
    BY DEF CandidatesInTurn
  <1> HIDE DEF K, D
  <1>3. t \in SupType /\ t.status = s.status /\ t.pieces = s.pieces
    BY <1>1, MovedIs
  <1> HIDE DEF t
  <1>4. PiecesStarted(t) /\ \A x \in Peers : Started(t, x) => Started(s, x)
    BY <1>1, <1>3 DEF PiecesStarted, Started
  <1>5. c \in Peers
    BY DEF Children
  <1> QED
    BY <1>2, <1>3, <1>4, <1>5, CandidatesStarted

\* The children that found a parent keep the tree in shape.
LEMMA MovedOK ==
    ASSUME NEW s, SupOK(s), NEW p \in Peers, NEW f \in Outcomes(s, p), NEW ord,
           IsReassignment(s, p, f, ord),
           NEW t, t = Moved(s, f, DOMAIN f)
    PROVE  SupOK(t) /\ Later(s, t)
  <1> DEFINE K == Children(s, p)
  <1>1. /\ s \in SupType /\ K \subseteq Peers /\ DOMAIN f \subseteq K /\ DOMAIN f = K
        /\ f \in [K -> Peers \cup {NoPeer}] /\ \A d \in K : s.parent[d] \in Peers
    BY DEF SupOK, Children, Outcomes
  <1>2. \A c \in K : c \in Clients /\ Started(s, c)
    BY PeersDistinct DEF SupOK, TreeOK, Children
  <1>3. \A c \in K : f[c] # NoPeer => f[c] # c /\ Started(s, f[c])
    <2> SUFFICES ASSUME NEW c \in K, f[c] # NoPeer
                 PROVE  f[c] # c /\ Started(s, f[c])
      OBVIOUS
    <2>1. f[c] \in CandidatesInTurn(s, p, f, ord, c)
      BY <1>1 DEF IsReassignment
    <2> QED
      BY <2>1, ReassignedStarted
  <1> HIDE DEF K
  <1>4. t \in SupType
    BY <1>1, MovedIs
  <1>5. t.status = s.status
    BY <1>1, MovedIs
  <1>6. t.pieces = s.pieces
    BY <1>1, MovedIs
  <1>8. t.registered = s.registered /\ t.ended = s.ended /\ t.reviving = s.reviving
    BY <1>1, MovedIs
  <1>7. \A x \in Peers :
            t.parent[x] = IF x \in DOMAIN f /\ f[x] # NoPeer THEN f[x] ELSE s.parent[x]
    BY <1>1, MovedIs
  <1> QED
    BY <1>1, <1>2, <1>3, <1>4, <1>5, <1>6, <1>7, <1>8, ParentsOK

\* RescheduleChildren.
LEMMA RescheduleOK ==
    ASSUME NEW s, SupOK(s), NEW o, OutOK(s, o), NEW p \in Peers,
           NEW f \in Outcomes(s, p), NEW ord, IsReassignment(s, p, f, ord), NEW busy,
           NEW again, \A c \in DOMAIN f : again[c] \in RsPeers,
           NEW z, z = RescheduleChildren(s, o, p, f, ord, busy, again)
    PROVE  SupOK(z.s) /\ Later(s, z.s) /\ OutOK(z.s, z.o)
  <1> DEFINE found == {c \in DOMAIN f : f[c] # NoPeer}
             g == [c \in found |-> f[c]]
             steal == [c \in found |-> CandidatesInTurn(s, p, f, ord, c) \ {f[c]}]
             sent == Send(o, g, steal, busy)
             more == {again[c] : c \in DOMAIN f \ found}
  <1>1. z.s = Moved(s, f, DOMAIN f) /\ z.o = [sent EXCEPT !.waitQ = @ \cup more]
    BY DEF RescheduleChildren
  <1>2. SupOK(z.s) /\ Later(s, z.s)
    BY <1>1, MovedOK
  <1>3. DOMAIN f = Children(s, p) /\ \A c \in DOMAIN f : f[c] \in Peers \cup {NoPeer}
    BY DEF Outcomes
  <1>4. \A c \in found : f[c] \in CandidatesInTurn(s, p, f, ord, c)
    BY DEF IsReassignment
  <1>5. ASSUME NEW c \in Clients \cap DOMAIN g
        PROVE  /\ g[c] \in Peers /\ Started(s, g[c])
               /\ steal[c] \subseteq Peers /\ \A q \in steal[c] : Started(s, q)
    <2>1. c \in found /\ c \in Children(s, p)
      BY <1>3
    <2>2. \A q \in CandidatesInTurn(s, p, f, ord, c) : q \in Peers /\ Started(s, q)
      BY <2>1, ReassignedStarted
    <2> QED
      BY <1>4, <2>1, <2>2
  <1>6. sent = Send(o, g, steal, busy)
    OBVIOUS
  <1>7. more \subseteq RsPeers
    OBVIOUS
  <1> HIDE DEF g, steal, sent, more
  <1>8. OutOK(s, sent)
    BY <1>5, <1>6, SendOK
  <1>9. OutOK(s, z.o)
    BY <1>1, <1>7, <1>8 DEF OutOK, OutType
  <1> QED
    BY <1>2, <1>9, LaterKeeps

-----------------------------------------------------------------------------
(* Putting a step together.                                                *)

\* No step gives a stream to a client that never had one (but Connect).
ConnKept == \A p \in Clients : conn'[p] # "none" => conn[p] # "none"

\* No step gives the seeding goroutine another CDN peer (but InitCDNPeer).
SeedMoves ==
    seed'.stage \in {"receiving", "succeeded"} =>
        seed.stage \in {"receiving", "succeeded"} /\ seed'.cdn = seed.cdn

\* The parts of a step make the invariant.
LEMMA Assemble ==
    ASSUME IInv, SupOK(sup'), Later(sup, sup'), OutOK(sup', Out'), StreamTypes', ConnKept,
           SeedMoves, RestTypes'
    PROVE  IInv' /\ Later(sup, sup')
  <1>1. StreamsStarted(sup)'
    BY DEF IInv, StreamsStarted, ConnKept, Later, Peers
  <1>2. SeedShape'
    BY DEF IInv, SeedShape, SeedMoves, Later, Peers
  <1> QED
    BY <1>1, <1>2 DEF IInv

\* Packets go out as computed.
LEMMA SetOutIs ==
    ASSUME NEW o \in OutType, SetOut(o)
    PROVE  Out' = o
  BY DEF OutType, SetOut, Out

\* A step that sends nothing.
LEMMA NothingSent ==
    ASSUME IInv, Later(sup, sup'), UNCHANGED <<main, offered, waitQ>>
    PROVE  OutOK(sup', Out')
  <1>1. Out' = Out
    BY DEF Out
  <1> QED
    BY <1>1, LaterKeeps DEF IInv

\* A step that queues an entry.
LEMMA EntryQueued ==
    ASSUME IInv, Later(sup, sup'), NEW r \in RsPeers, waitQ' = waitQ \cup {r},
           UNCHANGED <<main, offered>>
    PROVE  OutOK(sup', Out')
  <1>1. OutOK(sup', Out)
    BY LaterKeeps DEF IInv
  <1> QED
    BY <1>1 DEF Out, OutOK, OutType

\* A step that leaves the streams alone.
LEMMA StreamsKept ==
    ASSUME IInv, UNCHANGED streams
    PROVE  StreamTypes' /\ ConnKept
  BY DEF IInv, StreamTypes, ConnKept, streams

\* CloseChannelWithError.
LEMMA CloseOK ==
    ASSUME IInv, NEW C, CloseChannels(C)
    PROVE  conn' \in [Clients -> {"none", "open", "closed"}] /\ ConnKept
  BY DEF IInv, StreamTypes, CloseChannels, Connected, ConnKept

\* Whom the worker's AddBackToSourcePeer may take of C.
LEMMA BackToSourceIs ==
    ASSUME IInv, NEW C, BackToSource(C)
    PROVE  \E B \in SUBSET AddedBackToSource(C) :
              /\ B \subseteq Clients /\ IsFiniteSet(B) /\ Cardinality(B) \in Nat
              /\ b2s' = b2s \cup B /\ weight' = weight - Cardinality(B)
  <1>1. PICK B \in {AddedBackToSource(C)} \cup
                    {AddedBackToSource(C) \ {p} : p \in {q \in C : Refused(q, C)}} :
          b2s' = b2s \cup B /\ weight' = weight - Cardinality(B)
    BY DEF BackToSource
  <1>2. B \subseteq AddedBackToSource(C)
    BY <1>1
  <1>3. AddedBackToSource(C) \subseteq Clients
    BY DEF AddedBackToSource, Connected
  <1>4. IsFiniteSet(B) /\ Cardinality(B) \in Nat
    BY <1>2, <1>3, PeersFinite, FS_Subset, FS_CardinalityType
  <1> QED
    BY <1>1, <1>2, <1>3, <1>4

\* NeedBackSource.
LEMMA NeedBackSourceOK ==
    ASSUME IInv, NEW C, NeedBackSource(C)
    PROVE  StreamTypes' /\ ConnKept
  <1>1. PICK B \in SUBSET AddedBackToSource(C) :
              /\ B \subseteq Clients /\ Cardinality(B) \in Nat
              /\ b2s' = b2s \cup B /\ weight' = weight - Cardinality(B)
    BY BackToSourceIs DEF NeedBackSource
  <1>2. /\ weight \in Int /\ weight <= BackSourceCount /\ BackSourceCount \in Nat
        /\ b2s \subseteq Clients /\ told \subseteq Clients
    BY LimitsNat DEF IInv, StreamTypes
  <1>3. weight' \in Int /\ weight' <= BackSourceCount /\ b2s' \subseteq Clients
    BY <1>1, <1>2
  <1>4. told' \subseteq Clients
    BY <1>2 DEF NeedBackSource, SendBackToSource, Connected
  <1>5. conn' \in [Clients -> {"none", "open", "closed"}] /\ ConnKept
    BY CloseOK DEF NeedBackSource, SendBackToSource
  <1> QED
    BY <1>3, <1>4, <1>5 DEF StreamTypes

\* NoParentFor.
LEMMA NoParentForOK ==
    ASSUME IInv, Later(sup, sup'), NEW p \in Clients, NEW r \in RsPeers,
           NoParentFor(p, r), UNCHANGED <<main, offered>>
    PROVE  OutOK(sup', Out') /\ StreamTypes' /\ ConnKept
  <1>1. CASE NeedBackSource({p}) /\ UNCHANGED waitQ
    BY <1>1, NeedBackSourceOK, NothingSent
  <1>2. CASE waitQ' = waitQ \cup {r} /\ UNCHANGED streams
    BY <1>2, EntryQueued, StreamsKept
  <1> QED
    BY <1>1, <1>2 DEF NoParentFor

\* handleCDNSeedTaskFail sends back to the source no more than the weight allows.
LEMMA SeedTaskFailOK ==
    ASSUME IInv, NEW st \in TaskStatus, HandleCDNSeedTaskFail(st)
    PROVE  StreamTypes' /\ ConnKept /\ task' \in TaskStatus
  <1>1. CASE task' = st /\ \E B : NeedBackSource(B)
    BY <1>1, NeedBackSourceOK
  <1>2. CASE /\ task' = "Fail" /\ CloseChannels(sup.listed)
             /\ UNCHANGED <<told, b2s, weight>>
    BY <1>2, CloseOK DEF IInv, StreamTypes, TaskStatus
  <1> QED
    BY <1>1, <1>2 DEF HandleCDNSeedTaskFail

-----------------------------------------------------------------------------
(* Init and the steps, one by one.                                         *)

\* A scheduler that knows no peer yet.
LEMMA InitIInv == Init => IInv
  <1> SUFFICES ASSUME Init PROVE IInv
    OBVIOUS
  <1>1. sup \in SupType
    BY LimitsNat DEF Init, SupType, PeerStatus
  <1>2. SupOK(sup)
    <2>1. TreeOK(sup) /\ PiecesStarted(sup)
      BY DEF Init, TreeOK, PiecesStarted
    <2>2. RegisteredKnown(sup) /\ DoneEnded(sup)
      BY DEF Init, RegisteredKnown, DoneEnded, IsDone, Peers
    <2> QED
      BY <1>1, <2>1, <2>2 DEF SupOK
  <1>3. Out \in OutType
    BY DEF Init, Out, OutType
  <1>4. OutOK(sup, Out)
    BY <1>3 DEF OutOK, Init, Out
  <1>5. StreamTypes /\ StreamsStarted(sup)
    BY LimitsNat DEF Init, StreamTypes, StreamsStarted
  <1>6. SeedShape /\ RestTypes
    BY DEF Init, SeedShape, RestTypes, TaskStatus, NoRs, NoSeed, NoGC, SeedType,
           SeedStages, GCType
  <1> QED
    BY <1>2, <1>4, <1>5, <1>6 DEF IInv

\* A later status of peers, nothing else.
LEMMA StatusOK ==
    ASSUME NEW s, SupOK(s), NEW t \in SupType, Later(s, t), t.parent = s.parent,
           t.pieces = s.pieces, RegisteredKnown(t), DoneEnded(t)
    PROVE  SupOK(t)
  <1>1. TreeOK(t)
    BY DEF SupOK, TreeOK, Later, SupType
  <1>2. PiecesStarted(t)
    BY DEF SupOK, PiecesStarted, Later
  <1> QED
    BY <1>1, <1>2 DEF SupOK

\* A seeding that begins, or none, has the right shape.
LEMMA SeedBegins ==
    ASSUME IInv, NEW b \in BOOLEAN,
           \/ seed' = seed
           \/ seed' = [stage |-> "connecting", cdn |-> NoPeer, byRegister |-> b]
           \/ seed' = NoSeed
    PROVE  seed' \in SeedType /\ SeedMoves
  <1>1. CASE seed' = seed
    BY <1>1 DEF IInv, RestTypes, SeedMoves
  <1>2. CASE seed' = [stage |-> "connecting", cdn |-> NoPeer, byRegister |-> b]
    BY <1>2 DEF SeedMoves, SeedType, SeedStages
  <1>3. CASE seed' = NoSeed
    BY <1>3 DEF SeedMoves, SeedType, SeedStages, NoSeed
  <1> QED
    BY <1>1, <1>2, <1>3

\* The steps keep the invariant and the order of the statuses, action by action.
LEMMA RegisterIInv ==
    ASSUME IInv, NEW p \in Clients, Register(p)
    PROVE  IInv' /\ Later(sup, sup')
  <1>1. /\ sup \in SupType /\ p \in Peers /\ sup.status \in [Peers -> PeerStatus]
        /\ sup.registered \in SUBSET Peers
    BY DEF IInv, SupOK, SupType, Peers
  <1>2. /\ sup' \in SupType /\ sup'.parent = sup.parent /\ sup'.pieces = sup.pieces
        /\ sup'.status = [sup.status EXCEPT ![p] = "Waiting"]
        /\ sup'.registered = sup.registered \cup {p}
        /\ sup'.ended = sup.ended /\ sup'.reviving = sup.reviving
    BY <1>1 DEF Register, SupType, PeerStatus
  <1>3. Later(sup, sup')
    BY <1>1, <1>2 DEF Later, Register, Started, IsDone
  <1>4. RegisteredKnown(sup') /\ DoneEnded(sup')
    BY <1>1, <1>2 DEF RegisteredKnown, DoneEnded, IsDone, IInv, SupOK, Peers
  <1>5. SupOK(sup')
    BY <1>2, <1>3, <1>4, StatusOK DEF IInv
  <1>6. OutOK(sup', Out')
    BY <1>3, NothingSent DEF Register
  <1>7. StreamTypes' /\ ConnKept
    BY LimitsNat DEF Register, GetOrAddTask, IInv, StreamTypes, ConnKept
  <1>8. SeedMoves /\ RestTypes'
    <2>1. /\ task' \in TaskStatus
          /\ \/ seed' = seed
             \/ seed' = [stage |-> "connecting", cdn |-> NoPeer, byRegister |-> TRUE]
      BY DEF Register, GetOrAddTask, IInv, RestTypes, TaskStatus
    <2>2. seed' \in SeedType /\ SeedMoves
      BY <2>1, SeedBegins
    <2>3. UNCHANGED <<starting, pending, inHand, gc, crashed>>
      BY DEF Register
    <2> QED
      BY <2>1, <2>2, <2>3 DEF IInv, RestTypes
  <1> QED
    BY <1>3, <1>5, <1>6, <1>7, <1>8, Assemble

\* A step that changes the supervisor's records only.
LEMMA RecordsOnly ==
    ASSUME IInv, SupOK(sup'), \A p \in Peers : Started(sup, p) => Started(sup', p),
           UNCHANGED <<conn, main, offered, task, weight, b2s, told, starting,
                       pending, waitQ, inHand, seed, crashed>>,
           gc' \in GCType, gc'.at \in {"idle", "mark"} => gc'.peer \in Clients
    PROVE  IInv'
  <1>1. Clients \subseteq Peers /\ Out' = Out
    BY DEF Peers, Out
  <1>2. OutOK(sup', Out')
    BY <1>1 DEF IInv, OutOK, OutType
  <1>3. StreamsStarted(sup)'
    BY <1>1 DEF IInv, StreamsStarted
  <1>4. SeedShape'
    BY DEF IInv, SeedShape, Peers
  <1>5. StreamTypes' /\ RestTypes'
    BY DEF IInv, StreamTypes, RestTypes
  <1> QED
    BY <1>2, <1>3, <1>4, <1>5 DEF IInv

\* A handler that has looked.
LEMMA AwakenIInv ==
    ASSUME IInv, NEW p \in Clients, Awaken(p)
    PROVE  IInv' /\ sup'.reviving = sup.reviving \cup {p} /\ sup'.status = sup.status
             /\ ~IsDone(sup, p)
  <1>1. SupOK(sup) /\ sup \in SupType
    BY DEF IInv, SupOK
  <1>2. /\ sup' \in SupType /\ sup'.status = sup.status /\ sup'.parent = sup.parent
        /\ sup'.pieces = sup.pieces /\ sup'.registered = sup.registered
        /\ sup'.ended = sup.ended /\ sup'.reviving = sup.reviving \cup {p}
    BY <1>1 DEF Awaken, SupType
  <1>3. SupOK(sup') /\ \A q \in Peers : Started(sup, q) => Started(sup', q)
    BY <1>1, <1>2 DEF SupOK, TreeOK, PiecesStarted, RegisteredKnown, DoneEnded, Started, IsDone
  <1>4. gc' \in GCType /\ (gc'.at \in {"idle", "mark"} => gc'.peer \in Clients)
    BY DEF Awaken, IInv, RestTypes
  <1>5. IInv'
    BY <1>3, <1>4, RecordsOnly DEF Awaken
  <1>6. ~IsDone(sup, p)
    BY DEF Awaken, Touch, IsDone
  <1> QED
    BY <1>2, <1>5, <1>6

\* A status somebody writes whatever it is by now.
LEMMA OverwriteIInv ==
    ASSUME IInv, NEW p \in Clients, NEW st \in {"Running", "Zombie"},
           sup' \in SupType, sup'.status = [sup.status EXCEPT ![p] = st],
           sup'.parent = sup.parent, sup'.pieces = sup.pieces,
           sup'.registered = sup.registered, sup'.ended = sup.ended,
           UNCHANGED <<conn, main, offered, task, weight, b2s, told, starting,
                       pending, waitQ, inHand, seed, crashed>>,
           gc' \in GCType, gc'.at \in {"idle", "mark"} => gc'.peer \in Clients
    PROVE  IInv'
  <1>1. /\ SupOK(sup) /\ sup.status \in [Peers -> PeerStatus] /\ Clients \subseteq Peers
        /\ sup.parent \in [Peers -> Peers \cup {NoPeer}]
    BY DEF IInv, SupOK, SupType, Peers
  <1>2. \A q \in Peers : Started(sup, q) => Started(sup', q)
    BY <1>1 DEF Started
  <1>3. TreeOK(sup') /\ PiecesStarted(sup')
    BY <1>1, <1>2 DEF SupOK, TreeOK, PiecesStarted
  <1>4. RegisteredKnown(sup') /\ DoneEnded(sup')
    BY <1>1 DEF SupOK, RegisteredKnown, DoneEnded, IsDone
  <1>5. SupOK(sup')
    BY <1>3, <1>4 DEF SupOK
  <1> QED
    BY <1>2, <1>5, RecordsOnly

\* The handler writes.
LEMMA StoreRunningIInv ==
    ASSUME IInv, NEW p \in Clients, StoreRunning(p)
    PROVE  IInv' /\ sup'.reviving = sup.reviving \ {p}
             /\ sup'.status = [sup.status EXCEPT ![p] = "Running"] /\ p \in sup.reviving
  <1>1. sup \in SupType
    BY DEF IInv, SupOK
  <1>2. /\ sup' \in SupType /\ sup'.status = [sup.status EXCEPT ![p] = "Running"]
        /\ sup'.parent = sup.parent /\ sup'.pieces = sup.pieces
        /\ sup'.registered = sup.registered
        /\ sup'.ended = sup.ended /\ sup'.reviving = sup.reviving \ {p}
    BY <1>1 DEF StoreRunning, SetStatus, SupType, PeerStatus
  <1>3. gc' \in GCType /\ (gc'.at \in {"idle", "mark"} => gc'.peer \in Clients)
    BY DEF StoreRunning, IInv, RestTypes
  <1> QED
    BY <1>2, <1>3, OverwriteIInv DEF StoreRunning

\* ReportPieceResult: the client that gets a stream has started.
LEMMA ConnectIInv ==
    ASSUME IInv, NEW p \in Clients, Connect(p)
    PROVE  IInv' /\ Later(sup, sup')
  <1>1. p \in Peers /\ sup' = sup /\ Started(sup, p)
    BY DEF Connect, Peers, IInv, SupOK, RegisteredKnown, Started
  <1>2. SupOK(sup') /\ Later(sup, sup')
    BY <1>1 DEF IInv, Later
  <1>3. OutOK(sup', Out')
    BY <1>1 DEF Connect, Out, OutOK, OutType, IInv
  <1>4. StreamTypes'
    BY DEF Connect, IInv, StreamTypes
  <1>5. StreamsStarted(sup)'
    BY <1>1 DEF Connect, IInv, StreamTypes, StreamsStarted
  <1>6. SeedShape' /\ RestTypes'
    BY <1>1 DEF Connect, IInv, SeedShape, RestTypes
  <1> QED
    BY <1>2, <1>3, <1>4, <1>5, <1>6 DEF IInv

\* The end of a stream.
LEMMA DisconnectIInv ==
    ASSUME IInv, NEW p \in Clients, Disconnect(p)
    PROVE  IInv' /\ Later(sup, sup')
  <1>1. SupOK(sup') /\ Later(sup, sup')
    BY DEF Disconnect, IInv, Later
  <1>2. OutOK(sup', Out')
    BY <1>1, NothingSent DEF Disconnect
  <1>3. StreamTypes' /\ ConnKept
    BY DEF Disconnect, IInv, StreamTypes, ConnKept
  <1>4. SeedMoves /\ RestTypes'
    BY DEF Disconnect, IInv, SeedMoves, RestTypes
  <1> QED
    BY <1>1, <1>2, <1>3, <1>4, Assemble

\* ReportPeerResult and LeaveTask.
LEMMA ReportIInv ==
    ASSUME IInv, NEW p \in Clients, NEW kind \in {"success", "fail", "leave"},
           Report(p, kind)
    PROVE  IInv' /\ Later(sup, sup')
  <1>2. SupOK(sup') /\ Later(sup, sup')
    BY DEF Report, IInv, Later
  <1>3. OutOK(sup', Out')
    BY <1>2, NothingSent DEF Report
  <1>4. StreamTypes' /\ ConnKept
    BY DEF Report, IInv, StreamTypes, ConnKept
  <1>5. SeedMoves /\ RestTypes'
    BY DEF Report, IInv, SeedMoves, RestTypes, Reports
  <1> QED
    BY <1>2, <1>3, <1>4, <1>5, Assemble

\* startReportPieceResultEvent.
LEMMA StartReportIInv ==
    ASSUME IInv, NEW p \in Clients, StartReport(p)
    PROVE  IInv' /\ Later(sup, sup')
  <1>1. SupOK(sup') /\ Later(sup, sup') /\ p \in Peers /\ sup' = sup
    BY DEF StartReport, IInv, Later, Peers
  <1>2. SeedMoves /\ RestTypes'
    BY DEF StartReport, IInv, SeedMoves, RestTypes
  <1>3. OutOK(sup, Out) /\ SupOK(sup)
    BY DEF IInv
  <1>4. CASE /\ sup.parent[p] # NoPeer /\ UNCHANGED streams
             /\ \E busy \in BusySets({p}) :
                    SetOut(SendParent(Out, {p}, sup.parent[p], busy))
    <2>1. sup.parent[p] \in Peers /\ Started(sup, sup.parent[p])
      BY <1>1, <1>3, <1>4 DEF SupOK, TreeOK, SupType
    <2>2. PICK busy : SetOut(SendParent(Out, {p}, sup.parent[p], busy))
      BY <1>4
    <2>3. OutOK(sup, SendParent(Out, {p}, sup.parent[p], busy))
      BY <1>3, <2>1, SendParentOK
    <2>4. Out' = SendParent(Out, {p}, sup.parent[p], busy)
      BY <2>2, <2>3, SetOutIs DEF OutOK
    <2> QED
      BY <1>1, <1>2, <1>4, <2>3, <2>4, StreamsKept, Assemble
  <1>5. CASE UNCHANGED <<main, offered, waitQ, streams>>
    BY <1>1, <1>2, <1>5, NothingSent, StreamsKept, Assemble
  <1>6. CASE NoParentFor(p, Wait(p, {})) /\ UNCHANGED <<main, offered>>
    <2>1. Wait(p, {}) \in RsPeers
      BY DEF Wait, RsPeers
    <2> QED
      BY <1>1, <1>2, <1>6, <2>1, NoParentForOK, Assemble
  <1>7. CASE /\ UNCHANGED streams
             /\ \E q \in CandidateParents(sup, p, {}), busy \in BusySets({p}) :
                    SetOut(SendChosen(Out, p, q, CandidateParents(sup, p, {}), busy))
    <2>1. PICK cand : cand = CandidateParents(sup, p, {})
      OBVIOUS
    <2>2. PICK q \in cand, busy \in BusySets({p}) :
              SetOut(SendChosen(Out, p, q, cand, busy))
      BY <1>7, <2>1
    <2>3. \A x \in cand : x \in Peers /\ Started(sup, x)
      BY <1>1, <1>3, <2>1, CandidatesStarted DEF SupOK
    <2>4. OutOK(sup, SendChosen(Out, p, q, cand, busy))
      BY <1>1, <1>3, <2>3, SendChosenOK
    <2>5. Out' = SendChosen(Out, p, q, cand, busy)
      BY <2>2, <2>4, SetOutIs DEF OutOK
    <2> QED
      BY <1>1, <1>2, <1>7, <2>4, <2>5, StreamsKept, Assemble
  <1> QED
    BY <1>4, <1>5, <1>6, <1>7 DEF StartReport

\* ScheduleParent for a peer that has a parent: q comes from the candidates.
LEMMA TakeParentOK ==
    ASSUME NEW s, SupOK(s), NEW p \in Clients, NEW q \in Peers, q # p, Started(s, q),
           NEW t, t = TakeParent(s, p, q)
    PROVE  SupOK(t) /\ Later(s, t)
  <1>1. p \in Peers
    BY DEF Peers
  <1>2. CASE s.parent[p] \notin {NoPeer, q}
    <2>1. Started(s, p)
      BY <1>1, <1>2 DEF SupOK, TreeOK
    <2>2. t = ReplaceParent(s, {p}, q) /\ {p} \subseteq Clients /\ q \notin {p}
      BY <1>2 DEF TakeParent
    <2> QED
      BY <2>1, <2>2, ReplaceParentOK
  <1>3. CASE s.parent[p] \in {NoPeer, q}
    BY <1>3 DEF TakeParent, Later
  <1> QED
    BY <1>2, <1>3

\* reScheduleParentEvent.
LEMMA ReScheduleParentIInv ==
    ASSUME IInv, ReScheduleParent
    PROVE  IInv' /\ Later(sup, sup')
  <1> DEFINE p == inHand.peer
  <1>1. PICK cand : cand = CandidateParents(sup, inHand.peer, inHand.blank)
    OBVIOUS
  <1>2. /\ inHand \in RsPeers /\ p \in Clients /\ p \in Peers /\ inHand' = NoRs
    BY DEF ReScheduleParent, IInv, RestTypes, RsPeers, Peers
  <1>3. SupOK(sup) /\ OutOK(sup, Out) /\ Later(sup, sup)
    BY DEF IInv, Later
  <1>4. SeedMoves /\ RestTypes'
    <2>1. UNCHANGED <<task, starting, pending, seed, gc, crashed>>
      BY DEF ReScheduleParent
    <2> QED
      BY <1>2, <2>1 DEF IInv, SeedMoves, RestTypes
  <1>5. CASE CloseChannels({p}) /\ UNCHANGED <<sup, main, offered, waitQ, told, b2s, weight>>
    <2>1. StreamTypes' /\ ConnKept
      BY <1>5, CloseOK DEF IInv, StreamTypes
    <2>2. SupOK(sup') /\ Later(sup, sup')
      BY <1>3, <1>5
    <2> QED
      BY <1>4, <1>5, <2>1, <2>2, NothingSent, Assemble
  <1>6. CASE UNCHANGED <<sup, main, offered, waitQ, streams>>
    <2>1. SupOK(sup') /\ Later(sup, sup')
      BY <1>3, <1>6
    <2> QED
      BY <1>4, <1>6, <2>1, NothingSent, StreamsKept, Assemble
  <1>7. CASE NoParentFor(p, Retry(inHand)) /\ UNCHANGED <<sup, main, offered>>
    <2>1. Retry(inHand) \in RsPeers
      BY <1>2 DEF Retry, RsPeers
    <2>2. SupOK(sup') /\ Later(sup, sup')
      BY <1>3, <1>7
    <2> QED
      BY <1>2, <1>4, <1>7, <2>1, <2>2, NoParentForOK, Assemble
  <1>8. CASE /\ \E q \in cand, busy \in BusySets({p}) :
                  /\ sup' = TakeParent(sup, p, q)
                  /\ SetOut(SendChosen(Out, p, q, cand, busy))
             /\ UNCHANGED streams
    <2>1. PICK q \in cand, busy \in BusySets({p}) :
              /\ sup' = TakeParent(sup, p, q)
              /\ SetOut(SendChosen(Out, p, q, cand, busy))
      BY <1>8
    <2>2. \A x \in cand : x \in Peers /\ x # p /\ Started(sup, x)
      BY <1>1, <1>2, <1>3, CandidatesStarted DEF SupOK
    <2>3. SupOK(sup') /\ Later(sup, sup')
      BY <1>2, <1>3, <2>1, <2>2, TakeParentOK
    <2>4. OutOK(sup, SendChosen(Out, p, q, cand, busy))
      BY <1>2, <1>3, <2>2, SendChosenOK
    <2>5. Out' = SendChosen(Out, p, q, cand, busy)
      BY <2>1, <2>4, SetOutIs DEF OutOK
    <2>6. OutOK(sup', Out')
      BY <2>3, <2>4, <2>5, LaterKeeps
    <2> QED
      BY <1>4, <1>8, <2>3, <2>6, StreamsKept, Assemble
  <1> QED
    BY <1>1, <1>5, <1>6, <1>7, <1>8 DEF ReScheduleParent

\* peerDownloadPieceSuccessEvent: the new parent was named to the client.
LEMMA PieceSuccessIInv ==
    ASSUME IInv, NEW p \in Clients, NEW dst \in Peers, NEW n \in 0..MaxPieces,
           NEW outlier \in BOOLEAN, PieceSuccess(p, dst, n, outlier)
    PROVE  IInv' /\ Later(sup, sup')
  <1>2. PICK s : s = UpdateProgress(sup, p, n, outlier)
    OBVIOUS
  <1>3. PICK orphan : orphan = ReplaceParent(s, {p}, NoPeer)
    OBVIOUS
  <1>4. PICK cand : cand = CandidateParents(orphan, p, {dst})
    OBVIOUS
  <1>5. p \in Peers /\ Started(sup, p) /\ SupOK(sup) /\ OutOK(sup, Out)
    BY DEF PieceSuccess, IInv, StreamsStarted, Peers
  <1>7. SupOK(s) /\ Later(sup, s) /\ Started(s, p)
    BY <1>2, <1>5, UpdateProgressOK DEF Later
  <1>8. dst # p => Started(s, dst)
    BY <1>5, <1>7 DEF PieceSuccess, OutOK, Out, Later
  <1>9. SupOK(orphan) /\ Later(sup, orphan) /\ Started(orphan, p)
    <2>1. SupOK(orphan) /\ Later(s, orphan)
      BY <1>3, <1>5, <1>7, DetachOK
    <2> QED
      BY <1>5, <1>7, <2>1, LaterTransitive DEF Later
  <1>10. /\ UNCHANGED <<streams, starting, pending, inHand, seed, gc>>
         /\ task' \in {task, "Seeding"} /\ crashed' \in {crashed, TRUE}
    BY DEF PieceSuccess
  <1>11. SeedMoves /\ RestTypes' /\ StreamTypes' /\ ConnKept
    <2>1. task' \in TaskStatus /\ crashed' \in BOOLEAN
      BY <1>10 DEF IInv, RestTypes, TaskStatus
    <2>2. StreamTypes' /\ ConnKept
      BY <1>10, StreamsKept
    <2> QED
      BY <1>10, <2>1, <2>2 DEF IInv, RestTypes, SeedMoves
  <1>12. CASE sup' = s /\ UNCHANGED <<main, offered, waitQ>>
    BY <1>7, <1>11, <1>12, NothingSent, Assemble
  <1>13. CASE /\ sup' = Touch(IF s.parent[p] # dst /\ dst # p
                               THEN ReplaceParent(s, {p}, dst) ELSE s, dst)
              /\ UNCHANGED <<main, offered, waitQ>>
    <2>1. PICK u : u = IF s.parent[p] # dst /\ dst # p THEN ReplaceParent(s, {p}, dst) ELSE s
      OBVIOUS
    <2>2. SupOK(u) /\ Later(s, u)
      <3>1. CASE u = s
        BY <1>7, <3>1 DEF Later
      <3>2. CASE dst # p /\ u = ReplaceParent(s, {p}, dst)
        <4>1. {p} \subseteq Clients /\ dst \notin {p} /\ \A c \in {p} : Started(s, c)
          BY <1>7, <3>2
        <4> QED
          BY <1>7, <1>8, <3>2, <4>1, ReplaceParentOK
      <3> QED
        BY <2>1, <3>1, <3>2
    <2>3. sup' = Touch(u, dst)
      BY <1>13, <2>1
    <2>4. SupOK(sup') /\ Later(u, sup')
      BY <2>2, <2>3, TouchOK
    <2>5. Later(sup, sup')
      BY <1>7, <2>2, <2>4, LaterTransitive
    <2> QED
      BY <1>11, <1>13, <2>4, <2>5, NothingSent, Assemble
  <1>14. CASE \E q \in cand, busy \in BusySets({p}) :
                 /\ sup' = Touch(IF dst # p THEN ReplaceParent(orphan, {p}, q) ELSE orphan, q)
                 /\ SetOut(SendChosen(Out, p, q, cand, busy))
    <2>1. PICK q \in cand, busy \in BusySets({p}) :
                 /\ sup' = Touch(IF dst # p THEN ReplaceParent(orphan, {p}, q) ELSE orphan, q)
                 /\ SetOut(SendChosen(Out, p, q, cand, busy))
      BY <1>14
    <2>2. \A x \in cand : x \in Peers /\ x # p /\ Started(orphan, x)
      BY <1>4, <1>5, <1>9, CandidatesStarted DEF SupOK
    <2>3. PICK u : u = IF dst # p THEN ReplaceParent(orphan, {p}, q) ELSE orphan
      OBVIOUS
    <2>4. SupOK(u) /\ Later(orphan, u)
      <3>1. CASE u = orphan
        BY <1>9, <3>1 DEF Later
      <3>2. CASE u = ReplaceParent(orphan, {p}, q)
        <4>1. {p} \subseteq Clients /\ q \notin {p} /\ \A c \in {p} : Started(orphan, c)
          BY <1>9, <2>2
        <4> QED
          BY <1>9, <2>2, <3>2, <4>1, ReplaceParentOK
      <3> QED
        BY <2>3, <3>1, <3>2
    <2>5. sup' = Touch(u, q)
      BY <2>1, <2>3
    <2>6. SupOK(sup') /\ Later(u, sup')
      BY <2>2, <2>4, <2>5, TouchOK
    <2>7. Later(orphan, sup') /\ Later(sup, sup')
      BY <1>9, <2>4, <2>6, LaterTransitive
    <2>8. OutOK(orphan, SendChosen(Out, p, q, cand, busy))
      <3>1. OutOK(orphan, Out)
        BY <1>5, <1>9, LaterKeeps
      <3>2. \A x \in cand : x \in Peers /\ Started(orphan, x)
        BY <2>2
      <3> QED
        BY <1>5, <1>9, <3>1, <3>2, SendChosenOK
    <2>9. Out' = SendChosen(Out, p, q, cand, busy)
      BY <2>1, <2>8, SetOutIs DEF OutOK
    <2>10. OutOK(sup', Out')
      BY <2>7, <2>8, <2>9, LaterKeeps
    <2> QED
      BY <1>11, <2>6, <2>7, <2>10, Assemble
  <1>15. CASE sup' = orphan /\ UNCHANGED <<main, offered, waitQ>>
    BY <1>9, <1>11, <1>15, NothingSent, Assemble
  <1> QED
    BY <1>2, <1>3, <1>4, <1>12, <1>13, <1>14, <1>15 DEF PieceSuccess

\* peerDownloadPieceFailEvent.
LEMMA PieceFailIInv ==
    ASSUME IInv, NEW p \in Clients, NEW dst \in Peers, NEW code, PieceFail(p, dst, code)
    PROVE  IInv' /\ Later(sup, sup')
  <1>3. sup' \in {sup, DeletePeer(sup, dst)}
    BY DEF PieceFail
  <1>4. SupOK(sup')
    BY <1>3, DeletePeerOK DEF IInv
  <1>5. Later(sup, sup')
    BY <1>3, DeletePeerOK DEF IInv, Later
  <1>6. OutOK(sup', Out')
    <2>1. Wait(p, {dst}) \in RsPeers
      BY DEF Wait, RsPeers
    <2>2. /\ waitQ' = waitQ \/ waitQ' = waitQ \cup {Wait(p, {dst})}
          /\ UNCHANGED <<main, offered>>
      BY DEF PieceFail
    <2> QED
      BY <1>5, <2>1, <2>2, NothingSent, EntryQueued
  <1>7. StreamTypes' /\ ConnKept
    BY StreamsKept DEF PieceFail
  <1>8. SeedMoves /\ RestTypes'
    <2>1. /\ \/ seed' = seed
             \/ seed' = [stage |-> "connecting", cdn |-> NoPeer, byRegister |-> FALSE]
          /\ UNCHANGED <<task, starting, pending, inHand, gc, crashed>>
      BY DEF PieceFail
    <2>2. seed' \in SeedType /\ SeedMoves
      BY <2>1, SeedBegins
    <2> QED
      BY <2>1, <2>2 DEF IInv, RestTypes
  <1> QED
    BY <1>4, <1>5, <1>6, <1>7, <1>8, Assemble

\* What the three events that end a download establish.
EndOK == SupOK(sup') /\ Later(sup, sup') /\ OutOK(sup', Out') /\ StreamTypes' /\ ConnKept
           /\ task' \in TaskStatus

\* peerDownloadSuccessEvent.
LEMMA PeerDownloadSuccessOK ==
    ASSUME IInv, NEW p \in Peers, PeerDownloadSuccess(p)
    PROVE  EndOK
  <1>1. PICK s : s = End(sup, p, "Success")
    OBVIOUS
  <1>2. SupOK(s) /\ Later(sup, s) /\ Started(s, p)
    BY <1>1, EndIs DEF IInv
  <1>3. OutOK(s, Out) /\ StreamsStarted(s)
    BY <1>2, LaterKeeps DEF IInv
  <1>4. PICK C \in FreedChoices(s, p), busy1, busy2 \in BusySets(Clients) :
          \E D \in ChildChoices(RemovePeerFromCurrentTree(s, Out, p, C, busy1).s, p, {}) :
             /\ sup' = ReplaceParent(RemovePeerFromCurrentTree(s, Out, p, C, busy1).s, D, p)
             /\ SetOut(SendParent(RemovePeerFromCurrentTree(s, Out, p, C, busy1).o, D, p, busy2))
    BY <1>1 DEF PeerDownloadSuccess
  <1>5. PICK r : r = RemovePeerFromCurrentTree(s, Out, p, C, busy1)
    OBVIOUS
  <1>6. PICK D \in ChildChoices(r.s, p, {}) :
             /\ sup' = ReplaceParent(r.s, D, p)
             /\ SetOut(SendParent(r.o, D, p, busy2))
    BY <1>4, <1>5
  <1>7. SupOK(r.s) /\ Later(s, r.s) /\ OutOK(r.s, r.o)
    BY <1>2, <1>3, <1>5, RemoveOK
  <1>8. StreamsStarted(r.s) /\ Started(r.s, p)
    BY <1>2, <1>3, <1>7, LaterKeeps DEF Later
  <1>9. D \subseteq Clients /\ p \notin D /\ \A c \in D : Started(r.s, c)
    BY <1>6, <1>8, ChildrenStarted
  <1>10. SupOK(sup') /\ Later(r.s, sup')
    BY <1>6, <1>7, <1>8, <1>9, ReplaceParentOK
  <1>11. Later(sup, sup')
    BY <1>2, <1>7, <1>10, LaterTransitive
  <1>12. OutOK(r.s, SendParent(r.o, D, p, busy2))
    BY <1>7, <1>8, SendParentOK
  <1>13. OutOK(sup', Out')
    <2>1. Out' = SendParent(r.o, D, p, busy2)
      BY <1>6, <1>12, SetOutIs DEF OutOK
    <2> QED
      BY <1>10, <1>12, <2>1, LaterKeeps
  <1>14. StreamTypes' /\ ConnKept
    BY StreamsKept DEF PeerDownloadSuccess
  <1>15. task' \in TaskStatus
    BY DEF PeerDownloadSuccess, IInv, RestTypes, TaskStatus
  <1> QED
    BY <1>10, <1>11, <1>13, <1>14, <1>15 DEF EndOK

\* The common part of the fail and the leave event.
LEMMA RemoveAndRescheduleOK ==
    ASSUME NEW s, SupOK(s), StreamsStarted(s), NEW o, OutOK(s, o), NEW p \in Clients,
           NEW C \in FreedChoices(s, p), NEW busy1, NEW busy2,
           NEW r, r = RemovePeerFromCurrentTree(s, o, p, C, busy1),
           NEW f \in Outcomes(r.s, p), NEW ord, IsReassignment(r.s, p, f, ord),
           NEW again, again \in {FailAgain(p, f), LeaveAgain(p, f)},
           NEW z, z = RescheduleChildren(r.s, r.o, p, f, ord, busy2, again)
    PROVE  SupOK(z.s) /\ Later(s, z.s) /\ OutOK(z.s, z.o)
  <1>1. p \in Peers
    BY DEF Peers
  <1>2. SupOK(r.s) /\ Later(s, r.s) /\ OutOK(r.s, r.o)
    BY <1>1, RemoveOK
  <1>3. ASSUME NEW c \in DOMAIN f PROVE again[c] \in RsPeers
    <2>1. c \in Children(r.s, p)
      BY DEF Outcomes
    <2>2. c \in Clients
      BY <1>1, <1>2, <2>1, PeersDistinct DEF Children, SupOK, TreeOK
    <2>3. again[c] \in {Wait(p, {p}), Wait(c, {p})}
      BY DEF FailAgain, LeaveAgain
    <2>4. Wait(p, {p}) \in RsPeers /\ Wait(c, {p}) \in RsPeers
      BY <1>1, <2>2 DEF Wait, RsPeers
    <2> QED
      BY <2>3, <2>4
  <1>4. SupOK(z.s) /\ Later(r.s, z.s) /\ OutOK(z.s, z.o)
    BY <1>1, <1>2, <1>3, RescheduleOK
  <1> QED
    BY <1>2, <1>4, LaterTransitive

\* peerDownloadFailEvent.
LEMMA PeerDownloadFailOK ==
    ASSUME IInv, NEW p \in Clients, PeerDownloadFail(p)
    PROVE  EndOK
  <1> DEFINE s == End(sup, p, "Fail")
  <1>1. s = End(sup, p, "Fail") /\ p \in Peers
    BY DEF Peers
  <1>2. SupOK(s) /\ Later(sup, s) /\ Started(s, p)
    BY <1>1, EndIs DEF IInv
  <1>3. OutOK(s, Out) /\ StreamsStarted(s)
    BY <1>2, LaterKeeps DEF IInv
  <1>4. CASE /\ sup' = s /\ HandleCDNSeedTaskFail("Fail")
             /\ UNCHANGED <<main, offered, waitQ>>
    <2>1. "Fail" \in TaskStatus
      BY DEF TaskStatus
    <2>2. StreamTypes' /\ ConnKept /\ task' \in TaskStatus
      BY <1>4, <2>1, SeedTaskFailOK
    <2> QED
      BY <1>2, <1>4, <2>2, NothingSent DEF EndOK
  <1>5. CASE ~(p \in b2s /\ task # "Success")
    <2>1. PICK C \in FreedChoices(s, p), busy1 \in BusySets(Clients),
               busy2 \in BusySets(Clients) :
             LET r == RemovePeerFromCurrentTree(s, Out, p, C, busy1)
                 kids == Children(r.s, p)
             IN
             \E f \in Outcomes(r.s, p), ord \in Orders(kids) :
                LET z == RescheduleChildren(r.s, r.o, p, f, ord, busy2, FailAgain(p, f)) IN
                /\ busy1 \subseteq C /\ busy2 \subseteq kids
                /\ IsReassignment(r.s, p, f, ord)
                /\ sup' = z.s
                /\ SetOut(z.o)
      BY <1>5 DEF PeerDownloadFail
    <2> HIDE DEF s
    <2>2. PICK r : r = RemovePeerFromCurrentTree(s, Out, p, C, busy1)
      OBVIOUS
    <2>3. PICK f \in Outcomes(r.s, p), ord \in Orders(Children(r.s, p)) :
                /\ IsReassignment(r.s, p, f, ord)
                /\ sup' = RescheduleChildren(r.s, r.o, p, f, ord, busy2, FailAgain(p, f)).s
                /\ SetOut(RescheduleChildren(r.s, r.o, p, f, ord, busy2, FailAgain(p, f)).o)
      BY <2>1, <2>2
    <2>4. PICK z : z = RescheduleChildren(r.s, r.o, p, f, ord, busy2, FailAgain(p, f))
      OBVIOUS
    <2>5. SupOK(z.s) /\ Later(s, z.s) /\ OutOK(z.s, z.o)
      BY <1>2, <1>3, <2>2, <2>3, <2>4, RemoveAndRescheduleOK
    <2>6. sup' = z.s /\ Out' = z.o
      BY <2>3, <2>4, <2>5, SetOutIs DEF OutOK
    <2>7. Later(sup, sup')
      BY <1>2, <2>5, <2>6, LaterTransitive
    <2>8. UNCHANGED <<task, streams>>
      BY <1>5 DEF PeerDownloadFail
    <2> QED
      BY <2>5, <2>6, <2>7, <2>8, StreamsKept DEF EndOK, IInv, RestTypes
  <1> QED
    BY <1>4, <1>5 DEF PeerDownloadFail

\* peerLeaveEvent.
LEMMA PeerLeaveOK ==
    ASSUME IInv, NEW p \in Clients, PeerLeave(p)
    PROVE  EndOK
  <1> DEFINE s == [sup EXCEPT !.left = @ \cup {p}]
  <1>1. s = [sup EXCEPT !.left = @ \cup {p}]
    OBVIOUS
  <1>2. p \in Peers /\ sup \in SupType
    BY DEF Peers, IInv, SupOK
  <1>3. SupOK(s) /\ Later(sup, s)
    <2>1. /\ s \in SupType /\ s.status = sup.status /\ s.parent = sup.parent
          /\ s.pieces = sup.pieces /\ s.registered = sup.registered
          /\ s.ended = sup.ended /\ s.reviving = sup.reviving
      BY <1>1, <1>2 DEF SupType
    <2> QED
      BY <2>1, SetsOK DEF IInv
  <1>4. OutOK(s, Out) /\ StreamsStarted(s)
    BY <1>3, LaterKeeps DEF IInv
  <1>5. PICK C \in FreedChoices(s, p), busy1 \in BusySets(Clients),
             busy2 \in BusySets(Clients) :
             LET r == RemovePeerFromCurrentTree(s, Out, p, C, busy1)
                 kids == Children(r.s, p)
             IN
             \E f \in Outcomes(r.s, p), ord \in Orders(kids) :
                LET z == RescheduleChildren(r.s, r.o, p, f, ord, busy2, LeaveAgain(p, f)) IN
                /\ busy1 \subseteq C /\ busy2 \subseteq kids
                /\ IsReassignment(r.s, p, f, ord)
                /\ sup' = DeletePeer(z.s, p)
                /\ SetOut(z.o)
    BY DEF PeerLeave
  <1> HIDE DEF s
  <1>6. PICK r : r = RemovePeerFromCurrentTree(s, Out, p, C, busy1)
    OBVIOUS
  <1>7. PICK f \in Outcomes(r.s, p), ord \in Orders(Children(r.s, p)) :
          /\ IsReassignment(r.s, p, f, ord)
          /\ sup' = DeletePeer(RescheduleChildren(r.s, r.o, p, f, ord, busy2, LeaveAgain(p, f)).s, p)
          /\ SetOut(RescheduleChildren(r.s, r.o, p, f, ord, busy2, LeaveAgain(p, f)).o)
    BY <1>5, <1>6
  <1>8. PICK z : z = RescheduleChildren(r.s, r.o, p, f, ord, busy2, LeaveAgain(p, f))
    OBVIOUS
  <1>9. SupOK(z.s) /\ Later(s, z.s) /\ OutOK(z.s, z.o)
    BY <1>3, <1>4, <1>6, <1>7, <1>8, RemoveAndRescheduleOK
  <1>10. sup' = DeletePeer(z.s, p) /\ Out' = z.o
    BY <1>7, <1>8, <1>9, SetOutIs DEF OutOK
  <1>11. SupOK(sup') /\ Later(z.s, sup')
    BY <1>2, <1>9, <1>10, DeletePeerOK
  <1>12. Later(sup, sup')
    BY <1>3, <1>9, <1>11, LaterTransitive
  <1>13. OutOK(sup', Out')
    BY <1>9, <1>10, <1>11, LaterKeeps
  <1>14. UNCHANGED <<task, streams>>
    BY DEF PeerLeave
  <1> QED
    BY <1>11, <1>12, <1>13, <1>14, StreamsKept DEF EndOK, IInv, RestTypes

\* The worker takes a unary report.
LEMMA ApplyReportIInv ==
    ASSUME IInv, NEW r \in pending, ApplyReport(r)
    PROVE  IInv' /\ Later(sup, sup')
  <1>1. r.peer \in Clients /\ r.peer \in Peers /\ r.kind \in {"success", "fail", "leave"}
    BY DEF IInv, RestTypes, Reports, Peers
  <1>2. EndOK
    <2>1. CASE r.kind = "success"
      BY <1>1, <2>1, PeerDownloadSuccessOK DEF ApplyReport
    <2>2. CASE r.kind = "fail"
      BY <1>1, <2>2, PeerDownloadFailOK DEF ApplyReport
    <2>3. CASE r.kind = "leave"
      BY <1>1, <2>3, PeerLeaveOK DEF ApplyReport
    <2> QED
      BY <1>1, <2>1, <2>2, <2>3
  <1>3. pending' = pending \ {r} /\ UNCHANGED <<starting, inHand, seed, gc, crashed>>
    BY DEF ApplyReport
  <1>4. SeedMoves /\ RestTypes'
    BY <1>2, <1>3 DEF EndOK, IInv, SeedMoves, RestTypes
  <1> QED
    BY <1>2, <1>4, Assemble DEF EndOK

\* runReScheduleParentLoop.
LEMMA ReScheduleLoopIInv ==
    ASSUME IInv, NEW r \in waitQ, ReScheduleLoop(r)
    PROVE  IInv' /\ Later(sup, sup')
  <1>1. r \in RsPeers /\ SupOK(sup) /\ OutOK(sup, Out)
    BY DEF IInv, OutOK, OutType, Out
  <1>2. /\ waitQ' = waitQ \ {r} /\ inHand' \in {inHand, r}
        /\ UNCHANGED <<sup, main, offered, task, starting, pending, seed, gc, crashed>>
    BY DEF ReScheduleLoop
  <1>3. SupOK(sup') /\ Later(sup, sup')
    BY <1>1, <1>2 DEF Later
  <1>4. OutOK(sup', Out')
    BY <1>1, <1>2 DEF Out, OutOK, OutType
  <1>5. StreamTypes' /\ ConnKept
    <2>1. CASE SendBackToSource({r.peer}) /\ UNCHANGED <<b2s, weight>>
      BY <2>1, CloseOK DEF SendBackToSource, IInv, StreamTypes, Connected
    <2> QED
      BY <2>1, StreamsKept DEF ReScheduleLoop
  <1>6. SeedMoves /\ RestTypes'
    BY <1>1, <1>2 DEF IInv, SeedMoves, RestTypes
  <1> QED
    BY <1>3, <1>4, <1>5, <1>6, Assemble

\* The second half of the loop's AddBackToSourcePeer.
LEMMA LoopBackToSourceIInv ==
    ASSUME IInv, LoopBackToSource
    PROVE  IInv' /\ Later(sup, sup')
  <1>1. /\ inHand \in RsPeers /\ inHand' = NoRs
        /\ b2s' = b2s \cup {inHand.peer} /\ weight' = weight - 1
        /\ UNCHANGED <<sup, conn, main, offered, task, told, starting, pending,
                       waitQ, seed, gc, crashed>>
    BY DEF LoopBackToSource, IInv, RestTypes
  <1>2. SupOK(sup') /\ Later(sup, sup')
    BY <1>1 DEF IInv, Later
  <1>3. OutOK(sup', Out')
    BY <1>1, <1>2, NothingSent
  <1>4. StreamTypes' /\ ConnKept
    <2>1. weight \in Int /\ weight <= BackSourceCount /\ BackSourceCount \in Nat
      BY LimitsNat DEF IInv, StreamTypes
    <2>2. weight' \in Int /\ weight' <= BackSourceCount
      BY <1>1, <2>1
    <2>3. inHand.peer \in Clients
      BY <1>1 DEF RsPeers
    <2> QED
      BY <1>1, <2>2, <2>3 DEF IInv, StreamTypes, ConnKept
  <1>5. SeedMoves /\ RestTypes'
    BY <1>1 DEF IInv, SeedMoves, RestTypes
  <1> QED
    BY <1>2, <1>3, <1>4, <1>5, Assemble

\* initCDNPeer: a CDN may be active again after a success.
LEMMA InitCDNPeerIInv ==
    ASSUME IInv, NEW c \in CDNs, InitCDNPeer(c)
    PROVE  IInv' /\ Later(sup, sup')
  <1>1. /\ c \in Peers /\ c \notin Clients /\ sup \in SupType
        /\ sup.status \in [Peers -> PeerStatus] /\ sup.registered \in SUBSET Peers
    BY PeersDistinct DEF Peers, IInv, SupOK, SupType
  <1>2. /\ sup' \in SupType /\ sup'.parent = sup.parent /\ sup'.pieces = sup.pieces
        /\ sup'.status = [sup.status EXCEPT ![c] = "Running"]
        /\ sup'.registered = sup.registered \cup {c}
        /\ sup'.ended = sup.ended /\ sup'.reviving = sup.reviving
    BY <1>1 DEF InitCDNPeer, SupType, PeerStatus
  <1>3. Later(sup, sup')
    BY <1>1, <1>2 DEF Later, Started, IsDone
  <1>4. RegisteredKnown(sup') /\ DoneEnded(sup')
    BY <1>1, <1>2 DEF RegisteredKnown, DoneEnded, IsDone, IInv, SupOK, Peers
  <1>5. SupOK(sup')
    BY <1>2, <1>3, <1>4, StatusOK DEF IInv
  <1>6. OutOK(sup', Out')
    BY <1>3, NothingSent DEF InitCDNPeer, unseeded
  <1>7. StreamTypes' /\ ConnKept
    BY StreamsKept DEF InitCDNPeer, unseeded, streams
  <1>8. SeedShape' /\ RestTypes'
    <2>1. /\ UNCHANGED <<starting, pending, inHand, gc, crashed>>
          /\ task' \in {task, "Seeding"}
          /\ seed' = [seed EXCEPT !.stage = "receiving", !.cdn = c]
      BY DEF InitCDNPeer, unseeded
    <2>2. seed \in SeedType
      BY DEF IInv, RestTypes
    <2>3. seed' \in SeedType /\ seed'.cdn = c
      BY <2>1, <2>2 DEF SeedType, SeedStages
    <2>4. task' \in TaskStatus
      BY <2>1 DEF IInv, RestTypes, TaskStatus
    <2>5. SeedShape'
      BY <1>1, <1>2, <2>3 DEF SeedShape, Started
    <2> QED
      BY <2>1, <2>3, <2>4, <2>5 DEF IInv, RestTypes
  <1>9. StreamsStarted(sup)'
    BY <1>3, <1>7 DEF IInv, StreamsStarted, ConnKept, Later, Peers
  <1> QED
    BY <1>3, <1>5, <1>6, <1>7, <1>8, <1>9 DEF IInv

\* A piece from the CDN.
LEMMA SeedPieceIInv ==
    ASSUME IInv, SeedPiece
    PROVE  IInv' /\ Later(sup, sup')
  <1>1. PICK c, s, n : c = seed.cdn /\ s = Touch(sup, c) /\ n = sup.pieces[c] + 1
    OBVIOUS
  <1>2. c \in Peers /\ Started(sup, c) /\ SupOK(sup)
    BY <1>1 DEF SeedPiece, IInv, SeedShape, Peers
  <1>3. n \in 0..MaxPieces /\ sup' = UpdateProgress(s, c, n, FALSE)
    <2>1. sup.pieces[c] \in 0..MaxPieces /\ sup.pieces[c] < MaxPieces
      BY <1>1, <1>2 DEF SeedPiece, SupOK, SupType
    <2> QED
      BY <1>1, <2>1, LimitsNat DEF SeedPiece
  <1>4. SupOK(s) /\ Later(sup, s)
    BY <1>1, <1>2, TouchOK
  <1>5. Started(s, c)
    BY <1>2, <1>4 DEF Later
  <1>6. SupOK(sup') /\ Later(s, sup')
    BY <1>2, <1>3, <1>4, <1>5, UpdateProgressOK
  <1>7. Later(sup, sup')
    BY <1>4, <1>6, LaterTransitive
  <1>8. UNCHANGED <<unseeded, task, weight, seed>>
    BY DEF SeedPiece
  <1>9. OutOK(sup', Out') /\ StreamTypes' /\ ConnKept
    BY <1>7, <1>8, NothingSent, StreamsKept DEF unseeded, streams
  <1>10. SeedMoves /\ RestTypes'
    BY <1>8 DEF IInv, SeedMoves, RestTypes, unseeded
  <1> QED
    BY <1>6, <1>7, <1>9, <1>10, Assemble

\* The end of the seeding.
LEMMA SeedDoneIInv ==
    ASSUME IInv, SeedDone
    PROVE  IInv' /\ Later(sup, sup')
  <1>1. PICK c, s : c = seed.cdn /\ s = Touch(sup, c)
    OBVIOUS
  <1>2. c \in CDNs /\ c \in Peers /\ c \notin Clients /\ SupOK(sup)
    BY <1>1, PeersDistinct DEF SeedDone, IInv, SeedShape, Peers
  <1>3. SupOK(s) /\ Later(sup, s)
    BY <1>1, <1>2, TouchOK
  <1>4. SupOK(sup') /\ Later(sup, sup')
    <2>1. CASE sup' = SetStatus(s, c, "Success")
      <3>1. "Success" \in PeerStatus \ {"None", "Waiting"}
        BY DEF PeerStatus
      <3>2. SupOK(sup') /\ Later(s, sup')
        BY <1>2, <1>3, <2>1, <3>1, SetStatusOK
      <3> QED
        BY <1>3, <3>2, LaterTransitive
    <2>2. CASE sup' = sup
      BY <1>2, <2>2 DEF Later
    <2> QED
      BY <1>1, <2>1, <2>2 DEF SeedDone
  <1>5. UNCHANGED <<unseeded, weight>> /\ task' \in {task, "Success"}
    BY DEF SeedDone
  <1>6. OutOK(sup', Out') /\ StreamTypes' /\ ConnKept
    BY <1>4, <1>5, NothingSent, StreamsKept DEF unseeded, streams
  <1>7. seed' \in SeedType /\ SeedMoves
    BY DEF SeedDone, IInv, RestTypes, SeedMoves, SeedType, SeedStages, NoSeed
  <1>8. task' \in TaskStatus
    BY <1>5 DEF IInv, RestTypes, TaskStatus
  <1>9. RestTypes'
    BY <1>5, <1>7, <1>8 DEF IInv, RestTypes, unseeded
  <1> QED
    BY <1>4, <1>6, <1>7, <1>9, Assemble

\* A seeding that fails.
LEMMA SeedFailIInv ==
    ASSUME IInv, SeedFail
    PROVE  IInv' /\ Later(sup, sup')
  <1>1. UNCHANGED <<unseeded, sup, task>> /\ weight' \in {weight, BackSourceCount}
    BY DEF SeedFail
  <1>2. SupOK(sup') /\ Later(sup, sup')
    BY <1>1 DEF IInv, Later
  <1>3. OutOK(sup', Out')
    BY <1>1, <1>2, NothingSent DEF unseeded
  <1>4. StreamTypes' /\ ConnKept
    BY <1>1, LimitsNat DEF IInv, StreamTypes, ConnKept, unseeded
  <1>5. seed' \in SeedType /\ SeedMoves
    <2>1. CASE seed' = NoSeed
      BY <2>1, SeedBegins
    <2>2. CASE seed' = [seed EXCEPT !.stage = "failed"]
      <3>1. seed \in SeedType
        BY DEF IInv, RestTypes
      <3> QED
        BY <2>2, <3>1 DEF SeedMoves, SeedType, SeedStages
    <2> QED
      BY <2>1, <2>2 DEF SeedFail
  <1>6. RestTypes'
    BY <1>1, <1>5 DEF IInv, RestTypes, unseeded
  <1> QED
    BY <1>2, <1>3, <1>4, <1>5, <1>6, Assemble

\* peerDownloadSuccessEvent for the CDN peer.
LEMMA SeedSuccessEventIInv ==
    ASSUME IInv, SeedSuccessEvent
    PROVE  IInv' /\ Later(sup, sup')
  <1>1. seed.cdn \in Peers /\ PeerDownloadSuccess(seed.cdn)
    BY DEF SeedSuccessEvent, IInv, SeedShape, Peers
  <1>2. EndOK
    BY <1>1, PeerDownloadSuccessOK
  <1>3. seed' = NoSeed /\ UNCHANGED <<starting, pending, inHand, gc, crashed>>
    BY DEF SeedSuccessEvent
  <1>4. seed' \in SeedType /\ SeedMoves
    BY <1>3, SeedBegins
  <1>5. RestTypes'
    BY <1>2, <1>3, <1>4 DEF EndOK, IInv, RestTypes
  <1> QED
    BY <1>2, <1>4, <1>5, Assemble DEF EndOK

\* taskSeedFailEvent.
LEMMA TaskSeedFailEventIInv ==
    ASSUME IInv, TaskSeedFailEvent
    PROVE  IInv' /\ Later(sup, sup')
  <1>1. /\ UNCHANGED <<sup, main, offered, starting, pending, waitQ, inHand, gc, crashed>>
        /\ seed' = NoSeed /\ HandleCDNSeedTaskFail(task) /\ task \in TaskStatus
    BY DEF TaskSeedFailEvent, IInv, RestTypes
  <1>2. SupOK(sup') /\ Later(sup, sup')
    BY <1>1 DEF IInv, Later
  <1>3. OutOK(sup', Out')
    BY <1>1, <1>2, NothingSent
  <1>4. StreamTypes' /\ ConnKept /\ task' \in TaskStatus
    BY <1>1, SeedTaskFailOK
  <1>5. seed' \in SeedType /\ SeedMoves
    BY <1>1, SeedBegins
  <1>6. RestTypes'
    BY <1>1, <1>4, <1>5 DEF IInv, RestTypes
  <1> QED
    BY <1>2, <1>3, <1>4, <1>5, <1>6, Assemble

\* A visit of the collector begins.
LEMMA PeerGCVisitIInv ==
    ASSUME IInv, NEW p \in Peers, NEW idle \in BOOLEAN, NEW expired \in BOOLEAN,
           PeerGCVisit(p, idle, expired)
    PROVE  IInv' /\ Later(sup, sup')
  <1>1. SupOK(sup') /\ Later(sup, sup')
    BY DEF PeerGCVisit, IInv, Later
  <1>2. /\ UNCHANGED <<uncollected, task>> /\ gc' \in GCType
        /\ gc'.at \in {"idle", "mark"} => gc'.peer \in Clients
    BY DEF PeerGCVisit, GCType, IdlePeer, Peers
  <1>3. OutOK(sup', Out') /\ StreamTypes' /\ ConnKept
    BY <1>1, <1>2, NothingSent, StreamsKept DEF streams, uncollected
  <1>4. SeedMoves /\ RestTypes'
    BY <1>2 DEF IInv, SeedMoves, RestTypes, uncollected
  <1> QED
    BY <1>1, <1>3, <1>4, Assemble

\* The collector visits a client once it has found it idle.
LEMMA PeerGCLeaveIInv ==
    ASSUME IInv, PeerGCLeave
    PROVE  IInv' /\ Later(sup, sup')
  <1>1. sup \in SupType /\ SupOK(sup) /\ gc \in GCType /\ gc.peer \in Peers
    BY DEF IInv, SupOK, RestTypes, PeerGCLeave, Peers
  <1>2. /\ sup' \in SupType /\ sup'.status = sup.status /\ sup'.parent = sup.parent
        /\ sup'.pieces = sup.pieces /\ sup'.registered = sup.registered
        /\ sup'.ended = sup.ended /\ sup'.reviving = sup.reviving
    BY <1>1 DEF PeerGCLeave, SupType
  <1>3. SupOK(sup') /\ Later(sup, sup')
    BY <1>1, <1>2, SetsOK
  <1>4. /\ UNCHANGED <<uncollected, task>> /\ gc' \in GCType
        /\ gc'.at \in {"idle", "mark"} => gc'.peer \in Clients
    BY <1>1 DEF PeerGCLeave, GCType, IInv, RestTypes
  <1>5. OutOK(sup', Out') /\ StreamTypes' /\ ConnKept
    BY <1>3, <1>4, NothingSent, StreamsKept DEF streams, uncollected
  <1>6. SeedMoves /\ RestTypes'
    BY <1>4 DEF IInv, SeedMoves, RestTypes, uncollected
  <1> QED
    BY <1>3, <1>5, <1>6, Assemble

\* The collector writes Zombie, whatever the status is by now.
LEMMA PeerGCMarkIInv ==
    ASSUME IInv, PeerGCMark
    PROVE  IInv' /\ sup'.reviving = sup.reviving
             /\ sup'.status = [sup.status EXCEPT ![gc.peer] = "Zombie"]
  <1>1. sup \in SupType /\ gc \in GCType /\ gc.peer \in Clients /\ gc.peer \in Peers
    BY DEF IInv, SupOK, RestTypes, PeerGCMark, Peers
  <1>2. /\ sup' \in SupType /\ sup'.status = [sup.status EXCEPT ![gc.peer] = "Zombie"]
        /\ sup'.parent = sup.parent /\ sup'.pieces = sup.pieces
        /\ sup'.registered = sup.registered
        /\ sup'.ended = sup.ended /\ sup'.reviving = sup.reviving
    BY <1>1 DEF PeerGCMark, SetStatus, SupType, PeerStatus
  <1>3. /\ UNCHANGED <<uncollected, task>> /\ gc' \in GCType
        /\ gc'.at \in {"idle", "mark"} => gc'.peer \in Clients
    BY <1>1 DEF PeerGCMark, GCType
  <1> QED
    BY <1>1, <1>2, <1>3, OverwriteIInv DEF uncollected

\* The collector deletes a peer.
LEMMA PeerGCSweepIInv ==
    ASSUME IInv, PeerGCSweep
    PROVE  IInv' /\ Later(sup, sup')
  <1>1. gc.peer \in Peers \/ gc = NoGC \/ gc.peer = NoPeer
    BY DEF IInv, RestTypes, GCType
  <1>2. /\ sup' \in {sup, DeletePeer(sup, gc.peer)} /\ task' \in {task, "Waiting"}
        /\ gc' = NoGC
        /\ UNCHANGED <<conn, main, offered, weight, b2s, told, starting, pending,
                       waitQ, inHand, seed, crashed>>
    BY DEF PeerGCSweep, uncollected
  <1>3. SupOK(sup) /\ Later(sup, sup)
    BY DEF IInv, Later
  <1>4. SupOK(sup') /\ Later(sup, sup')
    <2>1. CASE gc.peer \in Peers
      BY <1>2, <1>3, <2>1, DeletePeerOK
    <2>2. CASE gc.peer = NoPeer
      <3>1. NoPeer \notin sup.registered
        BY <1>3, PeersDistinct DEF SupOK, SupType
      <3>2. sup' = sup
        BY <1>2, <2>2, <3>1 DEF DeletePeer
      <3> QED
        BY <1>3, <3>2
    <2> QED
      BY <1>1, <2>1, <2>2 DEF NoGC
  <1>5. OutOK(sup', Out') /\ StreamTypes' /\ ConnKept
    BY <1>2, <1>4, NothingSent, StreamsKept DEF streams
  <1>6. SeedMoves /\ RestTypes'
    BY <1>2 DEF IInv, SeedMoves, RestTypes, GCType, NoGC, TaskStatus
  <1> QED
    BY <1>4, <1>5, <1>6, Assemble

\* taskManager.RunGC.
LEMMA TaskGCIInv ==
    ASSUME IInv, NEW idle \in BOOLEAN, TaskGC(idle)
    PROVE  IInv' /\ Later(sup, sup')
  <1>1. /\ task' \in {task, "Waiting", "Zombie"}
        /\ UNCHANGED <<sup, conn, main, offered, weight, b2s, told, starting,
                       pending, waitQ, inHand, seed, gc, crashed>>
    BY DEF TaskGC, uncollected
  <1>2. SupOK(sup') /\ Later(sup, sup')
    BY <1>1 DEF IInv, Later
  <1>3. OutOK(sup', Out') /\ StreamTypes' /\ ConnKept
    BY <1>1, <1>2, NothingSent, StreamsKept DEF streams
  <1>4. task' \in TaskStatus
    BY <1>1 DEF IInv, RestTypes, TaskStatus
  <1>5. SeedMoves /\ RestTypes'
    BY <1>1, <1>4 DEF IInv, SeedMoves, RestTypes
  <1> QED
    BY <1>2, <1>3, <1>5, Assemble

-----------------------------------------------------------------------------
\* A handler that looks, one that writes, the collector that writes.
Overwrites == PeerGCMark \/ \E p \in Clients : Awaken(p) \/ StoreRunning(p)

\* Every step keeps the invariant, and all but three the order of the statuses.
LEMMA NextIInv == IInv /\ [Next]_vars => IInv' /\ (Later(sup, sup') \/ Overwrites)
  <1> SUFFICES ASSUME IInv, [Next]_vars PROVE IInv' /\ (Later(sup, sup') \/ Overwrites)
    OBVIOUS
  <1>1. CASE UNCHANGED vars
    <2>1. SupOK(sup') /\ Later(sup, sup')
      BY <1>1 DEF vars, IInv, Later
    <2>2. OutOK(sup', Out')
      BY <1>1, <2>1, NothingSent DEF vars
    <2>3. StreamTypes' /\ ConnKept
      BY <1>1, StreamsKept DEF vars, streams
    <2>4. SeedMoves /\ RestTypes'
      BY <1>1 DEF vars, IInv, SeedMoves, RestTypes
    <2> QED
      BY <2>1, <2>2, <2>3, <2>4, Assemble
  <1>2. CASE Routine
    <2>1. ASSUME NEW p \in Clients, Register(p) PROVE IInv' /\ Later(sup, sup')
      BY <2>1, RegisterIInv
    <2>2. ASSUME NEW p \in Clients, Connect(p) PROVE IInv' /\ Later(sup, sup')
      BY <2>2, ConnectIInv
    <2>3. ASSUME NEW p \in Clients, StartReport(p) PROVE IInv' /\ Later(sup, sup')
      BY <2>3, StartReportIInv
    <2>4. ASSUME NEW p \in Clients, Report(p, "success") PROVE IInv' /\ Later(sup, sup')
      BY <2>4, ReportIInv
    <2>5. ASSUME NEW p \in Clients, NEW dst \in Peers, NEW n \in 0..MaxPieces,
                 NEW outlier \in BOOLEAN, PieceSuccess(p, dst, n, outlier)
          PROVE  IInv' /\ Later(sup, sup')
      BY <2>5, PieceSuccessIInv
    <2>6. ASSUME NEW r \in pending, ApplyReport(r) PROVE IInv' /\ Later(sup, sup')
      BY <2>6, ApplyReportIInv
    <2>7. ASSUME NEW r \in waitQ, ReScheduleLoop(r) PROVE IInv' /\ Later(sup, sup')
      BY <2>7, ReScheduleLoopIInv
    <2>8. ASSUME NEW c \in CDNs, InitCDNPeer(c) PROVE IInv' /\ Later(sup, sup')
      BY <2>8, InitCDNPeerIInv
    <2>9. ASSUME NEW p \in Peers, PeerGCVisit(p, FALSE, FALSE)
          PROVE  IInv' /\ Later(sup, sup')
      BY <2>9, PeerGCVisitIInv
    <2>10. ASSUME TaskGC(FALSE) PROVE IInv' /\ Later(sup, sup')
      BY <2>10, TaskGCIInv
    <2>11. ASSUME NEW p \in Clients, Awaken(p) \/ StoreRunning(p)
           PROVE  IInv' /\ Overwrites
      BY <2>11, AwakenIInv, StoreRunningIInv DEF Overwrites
    <2>12. ASSUME PeerGCMark PROVE IInv' /\ Overwrites
      BY <2>12, PeerGCMarkIInv DEF Overwrites
    <2> QED
      BY <1>2, <2>1, <2>2, <2>3, <2>4, <2>5, <2>6, <2>7, <2>8, <2>9, <2>10,
         <2>11, <2>12, PeerGCLeaveIInv, LoopBackToSourceIInv, ReScheduleParentIInv, SeedPieceIInv,
         SeedDoneIInv, SeedSuccessEventIInv,
         TaskSeedFailEventIInv, PeerGCSweepIInv DEF Routine
  <1>3. CASE Disturbance
    <2>1. ASSUME NEW p \in Clients, Disconnect(p) PROVE IInv' /\ Later(sup, sup')
      BY <2>1, DisconnectIInv
    <2>2. ASSUME NEW p \in Clients, NEW kind \in {"fail", "leave"}, Report(p, kind)
          PROVE  IInv' /\ Later(sup, sup')
      BY <2>2, ReportIInv
    <2>3. ASSUME NEW p \in Clients, NEW dst \in Peers, NEW code, PieceFail(p, dst, code)
          PROVE  IInv' /\ Later(sup, sup')
      BY <2>3, PieceFailIInv
    <2>4. ASSUME NEW p \in Peers, NEW expired \in BOOLEAN, PeerGCVisit(p, TRUE, expired)
          PROVE  IInv' /\ Later(sup, sup')
      BY <2>4, PeerGCVisitIInv
    <2>5. ASSUME TaskGC(TRUE) PROVE IInv' /\ Later(sup, sup')
      BY <2>5, TaskGCIInv
    <2> QED
      BY <1>3, <2>1, <2>2, <2>3, <2>4, <2>5, SeedFailIInv DEF Disturbance
  <1> QED
    BY <1>1, <1>2, <1>3 DEF Next

-----------------------------------------------------------------------------
(* The weight.                                                             *)

\* NeedBackSource takes no more than there is.
LEMMA NeedBackSourceWeight ==
    ASSUME IInv, NEW C, IsFiniteSet(C), weight <= 0 \/ Cardinality(C) <= weight,
           NeedBackSource(C)
    PROVE  weight' = weight \/ weight' >= 0
  <1>1. PICK B \in SUBSET AddedBackToSource(C) :
              Cardinality(B) \in Nat /\ weight' = weight - Cardinality(B)
    BY BackToSourceIs DEF NeedBackSource
  <1>2. weight \in Int
    BY DEF IInv, StreamTypes
  <1>3. CASE weight <= 0
    <2>1. B = {} /\ Cardinality({}) = 0
      BY <1>1, <1>2, <1>3, FS_EmptySet DEF AddedBackToSource
    <2> QED
      BY <1>1, <1>2, <2>1
  <1>4. CASE Cardinality(C) <= weight
    <2>1. B \subseteq C
      BY <1>1 DEF AddedBackToSource, Connected
    <2>2. Cardinality(B) <= Cardinality(C) /\ Cardinality(C) \in Nat
      BY <2>1, FS_Subset, FS_CardinalityType
    <2> QED
      BY <1>1, <1>2, <1>4, <2>2
  <1> QED
    BY <1>3, <1>4

\* NoParentFor asks for one client, while there is weight.
LEMMA NoParentForWeight ==
    ASSUME IInv, NEW p, NEW rs, NoParentFor(p, rs)
    PROVE  weight' = weight \/ weight' >= 0
  <1>1. CASE weight > 0 /\ NeedBackSource({p})
    <2>1. IsFiniteSet({p}) /\ Cardinality({p}) = 1
      BY FS_Singleton
    <2>2. weight <= 0 \/ Cardinality({p}) <= weight
      BY <1>1, <2>1 DEF IInv, StreamTypes
    <2> QED
      BY <1>1, <2>1, <2>2, NeedBackSourceWeight
  <1>2. CASE UNCHANGED streams
    BY <1>2 DEF streams
  <1> QED
    BY <1>1, <1>2 DEF NoParentFor

\* handleCDNSeedTaskFail picks no more clients than the weight allows.
LEMMA SeedTaskFailWeight ==
    ASSUME IInv, NEW st, HandleCDNSeedTaskFail(st)
    PROVE  weight' = weight \/ weight' >= 0
  <1>1. CASE UNCHANGED weight
    BY <1>1
  <1>2. CASE \E B \in SUBSET (Connected(sup.listed) \ b2s) :
                /\ Cardinality(B) = IF Cardinality(Connected(sup.listed) \ b2s) < weight
                                    THEN Cardinality(Connected(sup.listed) \ b2s) ELSE weight
                /\ NeedBackSource(B)
    <2> DEFINE able == Connected(sup.listed) \ b2s
    <2>1. PICK B \in SUBSET able :
                /\ Cardinality(B) = IF Cardinality(able) < weight
                                    THEN Cardinality(able) ELSE weight
                /\ NeedBackSource(B)
      BY <1>2
    <2>2. IsFiniteSet(able) /\ IsFiniteSet(B)
      BY PeersFinite, FS_Subset DEF Connected
    <2>3. Cardinality(able) \in Nat
      BY <2>2, FS_CardinalityType
    <2> HIDE DEF able
    <2>4. Cardinality(B) <= weight
      BY <2>1, <2>3 DEF IInv, StreamTypes
    <2> QED
      BY <2>1, <2>2, <2>4, NeedBackSourceWeight
  <1> QED
    BY <1>1, <1>2 DEF HandleCDNSeedTaskFail

\* A step that is not the loop's: the weight grows, or is spent while it lasts.
LEMMA WorkerWeight ==
    ASSUME IInv', WeightOK, weight' = weight \/ weight' >= 0, inHand' \in {inHand, NoRs}
    PROVE  WeightOK'
  <1>1. ~(NoRs.times > MaxRescheduleTimes)
    BY LimitsNat DEF NoRs
  <1>2. weight' \in Int
    BY DEF IInv, StreamTypes
  <1> QED
    BY <1>1, <1>2 DEF WeightOK, LoopAdding

\* Every step keeps the weight's lower bound: only the reschedule loop may spend
\* what is no longer there, and it spends one.
LEMMA NextWeight == IInv /\ WeightOK /\ [Next]_vars => WeightOK'
  <1> SUFFICES ASSUME IInv, WeightOK, [Next]_vars PROVE WeightOK'
    OBVIOUS
  <1>0. IInv'
    BY NextIInv
  <1>1. ASSUME UNCHANGED weight, inHand' \in {inHand, NoRs} PROVE WeightOK'
    BY <1>0, <1>1, WorkerWeight
  <1>2. ASSUME weight' \in {weight, BackSourceCount}, UNCHANGED inHand PROVE WeightOK'
    BY <1>0, <1>2, WorkerWeight, LimitsNat
  <1>3. ASSUME NEW p \in Clients, Register(p) PROVE WeightOK'
    BY <1>2, <1>3 DEF Register, GetOrAddTask
  <1>4. ASSUME NEW p \in Clients, StartReport(p) PROVE WeightOK'
    <2>1. UNCHANGED inHand
      BY <1>4 DEF StartReport
    <2>2. UNCHANGED streams \/ NoParentFor(p, Wait(p, {}))
      BY <1>4 DEF StartReport
    <2> QED
      BY <1>0, <1>1, <2>1, <2>2, NoParentForWeight, WorkerWeight DEF streams
  <1>5. CASE ReScheduleParent
    <2>1. inHand' = NoRs
      BY <1>5 DEF ReScheduleParent
    <2>2. UNCHANGED weight \/ NoParentFor(inHand.peer, Retry(inHand))
      BY <1>5 DEF ReScheduleParent, streams
    <2> QED
      BY <1>0, <1>1, <2>1, <2>2, NoParentForWeight, WorkerWeight
  <1>6. ASSUME NEW r \in pending, ApplyReport(r) PROVE WeightOK'
    <2>1. UNCHANGED inHand /\ r.kind \in {"success", "fail", "leave"}
      BY <1>6 DEF ApplyReport, IInv, RestTypes, Reports
    <2>2. CASE PeerDownloadSuccess(r.peer)
      BY <1>1, <2>1, <2>2 DEF PeerDownloadSuccess, streams
    <2>3. CASE PeerDownloadFail(r.peer)
      <3>1. UNCHANGED streams \/ HandleCDNSeedTaskFail("Fail")
        BY <2>3 DEF PeerDownloadFail
      <3> QED
        BY <1>0, <1>1, <2>1, <3>1, SeedTaskFailWeight, WorkerWeight DEF streams
    <2>4. CASE PeerLeave(r.peer)
      BY <1>1, <2>1, <2>4 DEF PeerLeave, streams
    <2> QED
      BY <1>6, <2>1, <2>2, <2>3, <2>4 DEF ApplyReport
  <1>7. ASSUME NEW r \in waitQ, ReScheduleLoop(r) PROVE WeightOK'
    <2>1. /\ UNCHANGED weight /\ inHand = NoRs
          /\ inHand' = inHand \/ (inHand' = r /\ r.times <= MaxRescheduleTimes)
               \/ (inHand' = r /\ AddedBackToSource({r.peer}) # {})
      BY <1>7 DEF ReScheduleLoop, streams
    <2>2. AddedBackToSource({r.peer}) # {} => weight > 0
      BY DEF AddedBackToSource
    <2>3. r.times \in Nat /\ weight \in Int
      BY DEF IInv, OutOK, OutType, Out, RsPeers, StreamTypes
    <2> QED
      BY <1>1, <2>1, <2>2, <2>3, LimitsNat DEF WeightOK, LoopAdding
  <1>8. CASE LoopBackToSource
    <2>1. weight \in Int /\ weight >= 0 /\ weight' = weight - 1 /\ inHand' = NoRs
      BY <1>8 DEF LoopBackToSource, WeightOK, IInv, StreamTypes
    <2>2. ~(NoRs.times > MaxRescheduleTimes)
      BY LimitsNat DEF NoRs
    <2> QED
      BY <2>1, <2>2 DEF WeightOK, LoopAdding
  <1>9. CASE SeedFail
    BY <1>2, <1>9 DEF SeedFail, unseeded
  <1>10. CASE SeedSuccessEvent
    BY <1>1, <1>10 DEF SeedSuccessEvent, PeerDownloadSuccess, streams
  <1>11. CASE TaskSeedFailEvent
    BY <1>0, <1>11, SeedTaskFailWeight, WorkerWeight DEF TaskSeedFailEvent
  <1>12. ASSUME \/ \E p \in Clients : \/ Awaken(p) \/ StoreRunning(p) \/ Connect(p)
                                      \/ Disconnect(p)
                \/ \E p \in Clients, kind \in {"success", "fail", "leave"} : Report(p, kind)
                \/ \E p \in Clients, dst \in Peers, n \in 0..MaxPieces,
                      outlier \in BOOLEAN : PieceSuccess(p, dst, n, outlier)
                \/ \E p \in Clients, dst \in Peers, code \in PieceFailCodes :
                      PieceFail(p, dst, code)
         PROVE  WeightOK'
    <2>1. ASSUME NEW p \in Clients,
                 Awaken(p) \/ StoreRunning(p) \/ Connect(p) \/ Disconnect(p)
          PROVE  UNCHANGED <<weight, inHand>>
      BY <2>1 DEF Awaken, StoreRunning, Connect, Disconnect
    <2>2. ASSUME NEW p \in Clients, NEW kind, Report(p, kind)
          PROVE  UNCHANGED <<weight, inHand>>
      BY <2>2 DEF Report
    <2>3. ASSUME NEW p \in Clients, NEW dst \in Peers, NEW n, NEW outlier,
                 PieceSuccess(p, dst, n, outlier)
          PROVE  UNCHANGED <<weight, inHand>>
      BY <2>3 DEF PieceSuccess, streams
    <2>4. ASSUME NEW p \in Clients, NEW dst \in Peers, NEW code, PieceFail(p, dst, code)
          PROVE  UNCHANGED <<weight, inHand>>
      BY <2>4 DEF PieceFail, streams
    <2> QED
      BY <1>1, <1>12, <2>1, <2>2, <2>3, <2>4
  <1>13. ASSUME \/ \E c \in CDNs : InitCDNPeer(c)
                \/ SeedPiece \/ SeedDone
                \/ \E p \in Peers, idle, expired \in BOOLEAN : PeerGCVisit(p, idle, expired)
                \/ PeerGCLeave \/ PeerGCMark \/ PeerGCSweep
                \/ \E idle \in BOOLEAN : TaskGC(idle)
                \/ UNCHANGED vars
         PROVE  WeightOK'
    BY <1>1, <1>13 DEF InitCDNPeer, SeedPiece, SeedDone, unseeded, PeerGCVisit, PeerGCLeave,
                       PeerGCMark, PeerGCSweep, TaskGC, uncollected, vars
  <1>14. CASE Routine
    BY <1>3, <1>4, <1>5, <1>6, <1>7, <1>8, <1>10, <1>11, <1>12, <1>13, <1>14 DEF Routine
  <1>15. CASE Disturbance
    BY <1>9, <1>12, <1>13, <1>15 DEF Disturbance
  <1> QED
    BY <1>13, <1>14, <1>15 DEF Next

-----------------------------------------------------------------------------
\* The parts of the invariant give the type invariant and the shape of the tree.
LEMMA IInvImplies == IInv => (WeightOK => TypeOK) /\ TreeShape
  <1> SUFFICES ASSUME IInv PROVE (WeightOK => TypeOK) /\ TreeShape
    OBVIOUS
  <1>1. ASSUME WeightOK PROVE TypeOK
    <2>1. weight \in (-1)..BackSourceCount
      BY <1>1, LimitsNat DEF WeightOK, IInv, StreamTypes
    <2> QED
      BY <2>1 DEF IInv, SupOK, OutOK, OutType, Out, StreamTypes, RestTypes, TypeOK
  <1>2. TreeShape
    BY DEF IInv, SupOK, TreeOK, Started, TreeShape
  <1> QED
    BY <1>1, <1>2

\* The scheduler keeps its inductive invariant, whatever the clients, the CDN,
\* the collectors and the reschedule loop do between two events of the worker,
\* and whatever status or weight they looked at before.
THEOREM SchedulerInvariant == Spec => [](IInv /\ WeightOK)
  <1>1. Init => IInv /\ WeightOK
    BY InitIInv, LimitsNat DEF Init, WeightOK, LoopAdding, NoRs
  <1>2. IInv /\ WeightOK /\ [Next]_vars => (IInv /\ WeightOK)'
    BY NextIInv, NextWeight
  <1> QED
    BY <1>1, <1>2, PTL DEF Spec

\* Every variable keeps its type; in particular Task.BackToSourceWeight never
\* goes below minus one, although AddBackToSourcePeer looks at it before it takes
\* the lock, and every entry of the reschedule queue is a client's.
THEOREM SchedulerTypeOK == Spec => []TypeOK
  <1>1. IInv /\ WeightOK => TypeOK
    BY IInvImplies
  <1> QED
    BY <1>1, SchedulerInvariant, PTL

\* Only peers that started a download are in the tree, a CDN is a root of it,
\* and no peer is its own parent.
THEOREM SchedulerTreeShape == Spec => []TreeShape
  <1>1. IInv => TreeShape
    BY IInvImplies
  <1> QED
    BY <1>1, SchedulerInvariant, PTL

\* The collector's notes after a step: it looks at, or writes, no client that is
\* done, unless it had found it idle before.
LEMMA NextGC ==
    ASSUME IInv, [Next]_vars, NEW p \in Clients, IsDone(sup, p),
           gc'.peer = p, gc'.at \in {"idle", "mark"}
    PROVE  gc.peer = p /\ gc.at \in {"idle", "mark"}
  <1>1. ASSUME UNCHANGED gc PROVE gc.peer = p /\ gc.at \in {"idle", "mark"}
    BY <1>1
  <1>2. gc \in GCType
    BY DEF IInv, RestTypes
  <1>3. ASSUME NEW q \in Peers, NEW idle \in BOOLEAN, NEW expired \in BOOLEAN,
               PeerGCVisit(q, idle, expired)
        PROVE  FALSE
    BY <1>3 DEF PeerGCVisit, IdlePeer
  <1>4. ASSUME PeerGCLeave \/ PeerGCMark \/ PeerGCSweep
        PROVE  gc.peer = p /\ gc.at \in {"idle", "mark"}
    BY <1>2, <1>4 DEF PeerGCLeave, PeerGCMark, PeerGCSweep, GCType, NoGC
  <1>5. ASSUME \/ \E q \in Clients : \/ Register(q) \/ Awaken(q) \/ StoreRunning(q)
                                     \/ Connect(q) \/ StartReport(q) \/ Disconnect(q)
               \/ \E q \in Clients, kind \in {"success", "fail", "leave"} : Report(q, kind)
               \/ \E q \in Clients, dst \in Peers, n \in 0..MaxPieces,
                     outlier \in BOOLEAN : PieceSuccess(q, dst, n, outlier)
               \/ \E q \in Clients, dst \in Peers, code \in PieceFailCodes :
                     PieceFail(q, dst, code)
        PROVE  UNCHANGED gc
    <2>1. ASSUME NEW q \in Clients,
                 \/ Register(q) \/ Awaken(q) \/ StoreRunning(q)
                 \/ Connect(q) \/ StartReport(q) \/ Disconnect(q)
          PROVE  UNCHANGED gc
      BY <2>1 DEF Register, Awaken, StoreRunning, Connect, StartReport, Disconnect
    <2>2. ASSUME NEW q \in Clients, NEW kind, Report(q, kind) PROVE UNCHANGED gc
      BY <2>2 DEF Report
    <2>3. ASSUME NEW q \in Clients, NEW dst \in Peers, NEW n, NEW outlier,
                 PieceSuccess(q, dst, n, outlier)
          PROVE  UNCHANGED gc
      BY <2>3 DEF PieceSuccess
    <2>4. ASSUME NEW q \in Clients, NEW dst \in Peers, NEW code, PieceFail(q, dst, code)
          PROVE  UNCHANGED gc
      BY <2>4 DEF PieceFail
    <2> QED
      BY <1>5, <2>1, <2>2, <2>3, <2>4
  <1>6. ASSUME \/ \E r \in pending : ApplyReport(r)
               \/ ReScheduleParent \/ (\E r \in waitQ : ReScheduleLoop(r))
               \/ LoopBackToSource
               \/ \E c \in CDNs : InitCDNPeer(c)
               \/ SeedPiece \/ SeedDone \/ SeedFail \/ SeedSuccessEvent
               \/ TaskSeedFailEvent
               \/ \E idle \in BOOLEAN : TaskGC(idle)
               \/ UNCHANGED vars
        PROVE  UNCHANGED gc
    BY <1>6 DEF ApplyReport, ReScheduleParent, ReScheduleLoop, LoopBackToSource, InitCDNPeer,
                SeedPiece, SeedDone, SeedFail, unseeded, SeedSuccessEvent, TaskSeedFailEvent,
                TaskGC, vars
  <1>7. CASE Routine
    BY <1>1, <1>3, <1>4, <1>5, <1>6, <1>7 DEF Routine
  <1>8. CASE Disturbance
    BY <1>1, <1>3, <1>5, <1>6, <1>8 DEF Disturbance
  <1> QED
    BY <1>1, <1>6, <1>7, <1>8 DEF Next

\* A final status nobody is about to overwrite stays: no handler, no visit of the
\* collector and no event of the worker that looks at the client from now on
\* takes it back, or prepares to.
THEOREM SchedulerDoneStaysDone == Spec => DoneStaysDone
  <1>1. IInv /\ [Next]_vars => [\A p \in Clients : Settled(p) => Settled(p)']_vars
    <2> SUFFICES ASSUME IInv, [Next]_vars, NEW p \in Clients, Settled(p)
                 PROVE  Settled(p)'
      OBVIOUS
    <2>1. /\ IsDone(sup, p) /\ p \notin sup.reviving /\ p \in Peers
          /\ ~(gc.peer = p /\ gc.at \in {"idle", "mark"})
          /\ sup.status \in [Peers -> PeerStatus]
      BY DEF Settled, Rewriting, Peers, IInv, SupOK, SupType
    <2>2. ~(gc'.peer = p /\ gc'.at \in {"idle", "mark"})
      BY <2>1, NextGC
    <2>3. CASE Later(sup, sup')
      BY <2>1, <2>2, <2>3 DEF Later, Settled, Rewriting, IsDone
    <2>4. CASE PeerGCMark
      <3>1. /\ sup'.reviving = sup.reviving /\ gc.peer # p
            /\ sup'.status = [sup.status EXCEPT ![gc.peer] = "Zombie"]
        BY <2>1, <2>4, PeerGCMarkIInv DEF PeerGCMark
      <3> QED
        BY <2>1, <2>2, <3>1 DEF Settled, Rewriting, IsDone
    <2>5. ASSUME NEW q \in Clients, Awaken(q) PROVE Settled(p)'
      <3>1. /\ sup'.reviving = sup.reviving \cup {q} /\ sup'.status = sup.status /\ q # p
        BY <2>1, <2>5, AwakenIInv
      <3> QED
        BY <2>1, <2>2, <3>1 DEF Settled, Rewriting, IsDone
    <2>6. ASSUME NEW q \in Clients, StoreRunning(q) PROVE Settled(p)'
      <3>1. /\ sup'.reviving = sup.reviving \ {q} /\ q # p
            /\ sup'.status = [sup.status EXCEPT ![q] = "Running"]
        BY <2>1, <2>6, StoreRunningIInv
      <3> QED
        BY <2>1, <2>2, <3>1 DEF Settled, Rewriting, IsDone
    <2> QED
      BY <2>3, <2>4, <2>5, <2>6, NextIInv DEF Overwrites
  <1> QED
    BY <1>1, SchedulerInvariant, PTL DEF Spec, DoneStaysDone

-----------------------------------------------------------------------------
(* Nobody is forgotten.  NoForgottenPeer is kept by every step that makes  *)
(* no new client look for a parent (Calm) and loses neither a packet nor   *)
(* an entry of the queue (NewsKept); the others look after the client they *)
(* are about.                                                              *)

\* p has neither left nor ended and has no parent.
Seeking(s, p) ==
    /\ p \in s.registered /\ p \notin s.left /\ p \notin s.ended
    /\ s.parent[p] = NoPeer

\* No client (but p) looks for a parent after the step that did not before.
CalmBut(s, t, p) == \A c \in Clients : c # p /\ Seeking(t, c) => Seeking(s, c)
Calm(s, t) == \A c \in Clients : Seeking(t, c) => Seeking(s, c)

\* Packets and entries of the queue are added, never taken away.
Told(o, r) ==
    /\ o.waitQ \subseteq r.waitQ
    /\ \A c \in Clients : r.main[c] = NoPeer => o.main[c] = NoPeer

\* c was named a parent, or will be looked after because its channel was busy.
Reached(r, c) == r.main[c] # NoPeer \/ Wait(c, {}) \in r.waitQ

\* A step of which Told holds.
NewsKept ==
    /\ waitQ \subseteq waitQ'
    /\ \A c \in Clients : main'[c] = NoPeer => main[c] = NoPeer

\* No step opens a stream (but Connect).
NoneOpened == \A c \in Clients : conn'[c] = "open" => conn[c] = "open"

\* What NoForgottenPeer says of one client.
Remembered(p) ==
    (conn[p] = "open" /\ Seeking(sup, p) /\ p \notin b2s /\ main[p] = NoPeer)
        => p \in starting \/ Queued(p)

\* NoForgottenPeer, client by client.
LEMMA RememberedIs ==
    NoForgottenPeer <=> (~crashed => \A p \in Clients : Remembered(p))
  BY DEF NoForgottenPeer, Remembered, Seeking

\* The same for the next state.
LEMMA RememberedNext ==
    ASSUME \A p \in Clients : Remembered(p)'
    PROVE  NoForgottenPeer'
  BY DEF NoForgottenPeer, Remembered, Seeking

\* Calm steps one after the other are calm.
LEMMA CalmTransitive ==
    ASSUME NEW s, NEW t, NEW u, Calm(s, t), Calm(t, u)
    PROVE  Calm(s, u)
  BY DEF Calm

\* ReplaceParent gives its peers a parent, so none of them looks for one.
LEMMA AttachCalm ==
    ASSUME NEW s \in SupType, NEW C, C \subseteq Peers, NEW q \in Peers,
           NEW t, t = ReplaceParent(s, C, q)
    PROVE  Calm(s, t)
  <1>1. Attached(s, C, q, t)
    BY ReplaceParentIs
  <1>2. Clients \subseteq Peers /\ q # NoPeer
    BY PeersDistinct DEF Peers
  <1> QED
    BY <1>1, <1>2 DEF Attached, Calm, Seeking

\* Who loses its parent is the only one that may look for another.
LEMMA DetachCalm ==
    ASSUME NEW s \in SupType, NEW p \in Peers, NEW t, t = ReplaceParent(s, {p}, NoPeer)
    PROVE  /\ CalmBut(s, t, p) /\ t \in SupType
           /\ t.ended = s.ended /\ t.left = s.left /\ t.registered = s.registered
           /\ \A c \in Peers : c # p => t.parent[c] = s.parent[c]
  <1>1. Attached(s, {p}, NoPeer, t)
    BY ReplaceParentIs
  <1>2. Clients \subseteq Peers
    BY DEF Peers
  <1> QED
    BY <1>1, <1>2 DEF Attached, CalmBut, Seeking

\* peerManager.Delete: the peer that loses its parent is not registered any more.
LEMMA DeletePeerCalm ==
    ASSUME NEW s \in SupType, NEW q \in Peers, NEW t, t = DeletePeer(s, q)
    PROVE  Calm(s, t)
  <1>1. CASE q \notin s.registered
    BY <1>1 DEF DeletePeer, Calm
  <1>2. CASE q \in s.registered
    <2>1. PICK u : u = [s EXCEPT !.listed = @ \ {q}]
      OBVIOUS
    <2>2. /\ u \in SupType /\ u.ended = s.ended /\ u.parent = s.parent
          /\ u.left = s.left /\ u.registered = s.registered
      BY <2>1 DEF SupType
    <2>3. PICK v : v = ReplaceParent(u, {q}, NoPeer)
      OBVIOUS
    <2>4. /\ CalmBut(u, v, q) /\ v \in SupType
          /\ v.ended = u.ended /\ v.left = u.left /\ v.registered = u.registered
      BY <2>2, <2>3, DetachCalm
    <2>5. t = [v EXCEPT !.registered = @ \ {q}]
      BY <1>2, <2>1, <2>3 DEF DeletePeer
    <2>6. /\ t.ended = v.ended /\ t.parent = v.parent /\ t.left = v.left
          /\ t.registered = v.registered \ {q}
      BY <2>4, <2>5 DEF SupType
    <2> QED
      BY <2>2, <2>4, <2>6 DEF Calm, CalmBut, Seeking
  <1> QED
    BY <1>1, <1>2

\* Peer.Touch revives a zombie; who looks for a parent does not depend on it.
LEMMA TouchCalm ==
    ASSUME NEW s \in SupType, NEW p \in Peers, NEW t, t = Touch(s, p)
    PROVE  /\ Calm(s, t) /\ t.left = s.left /\ t.registered = s.registered
           /\ t.parent = s.parent
  <1>1. /\ t.left = s.left /\ t.registered = s.registered
        /\ t.parent = s.parent /\ t.ended = s.ended
    BY DEF Touch, SupType
  <1> QED
    BY <1>1 DEF Calm, Seeking

\* A status alone does not make a client look for a parent.
LEMMA SetStatusCalm ==
    ASSUME NEW s \in SupType, NEW p \in Peers, NEW st, NEW t, t = SetStatus(s, p, st)
    PROVE  Calm(s, t)
  <1>1. /\ t.parent = s.parent /\ t.ended = s.ended
        /\ t.left = s.left /\ t.registered = s.registered
    BY DEF SetStatus, SupType
  <1> QED
    BY <1>1 DEF Calm, Seeking

\* A download that ends, well or not.
LEMMA EndCalm ==
    ASSUME NEW s \in SupType, NEW p \in Peers, NEW st, NEW t, t = End(s, p, st)
    PROVE  Calm(s, t) /\ p \in t.ended
  <1>1. /\ t.parent = s.parent /\ t.ended = s.ended \cup {p}
        /\ t.left = s.left /\ t.registered = s.registered
    BY DEF End, SupType
  <1> QED
    BY <1>1 DEF Calm, Seeking

\* UpdateProgress changes neither status nor tree.
LEMMA UpdateProgressCalm ==
    ASSUME NEW s \in SupType, NEW p \in Peers, NEW n, NEW outlier \in BOOLEAN,
           NEW t, t = UpdateProgress(s, p, n, outlier)
    PROVE  Calm(s, t) /\ t.left = s.left /\ t.parent = s.parent
  <1>1. /\ t.ended = s.ended /\ t.parent = s.parent
        /\ t.left = s.left /\ t.registered = s.registered
    BY DEF UpdateProgress, SupType
  <1> QED
    BY <1>1 DEF Calm, Seeking

\* Children of a departed peer change parents; none is left without.
LEMMA MovedCalm ==
    ASSUME NEW s, SupOK(s), NEW p \in Peers, NEW f \in Outcomes(s, p),
           NEW t, t = Moved(s, f, DOMAIN f)
    PROVE  Calm(s, t)
  <1> DEFINE K == Children(s, p)
  <1>1. /\ s \in SupType /\ K \subseteq Peers /\ DOMAIN f \subseteq K
        /\ f \in [K -> Peers \cup {NoPeer}] /\ \A d \in K : s.parent[d] \in Peers
    BY DEF SupOK, Children, Outcomes
  <1> HIDE DEF K
  <1>2. /\ t.ended = s.ended /\ t.registered = s.registered /\ t.left = s.left
        /\ \A x \in Peers :
              t.parent[x] = IF x \in DOMAIN f /\ f[x] # NoPeer THEN f[x] ELSE s.parent[x]
    BY <1>1, MovedIs
  <1>3. Clients \subseteq Peers
    BY DEF Peers
  <1> QED
    BY <1>2, <1>3 DEF Calm, Seeking

-----------------------------------------------------------------------------
\* A packet that names a peer is news to every client it goes to.
LEMMA SendTold ==
    ASSUME NEW o, NEW f, NEW steal, NEW busy, \A c \in Clients \cap DOMAIN f : f[c] \in Peers,
           NEW r, r = Send(o, f, steal, busy)
    PROVE  /\ Told(o, r)
           /\ \A c \in Clients \cap DOMAIN f : conn[c] = "open" => Reached(r, c)
  <1> DEFINE open == {c \in Clients \cap DOMAIN f : conn[c] = "open"}
  <1>1. /\ r.main = [c \in Clients |-> IF c \in open \ busy THEN f[c] ELSE o.main[c]]
        /\ r.waitQ = o.waitQ \cup {Wait(c, {}) : c \in open \cap busy}
    BY DEF Send
  <1>2. NoPeer \notin Peers
    BY PeersDistinct
  <1>3. Told(o, r)
    BY <1>1, <1>2 DEF Told
  <1>4. ASSUME NEW c \in Clients \cap DOMAIN f, conn[c] = "open" PROVE Reached(r, c)
    <2>1. CASE c \in busy
      BY <1>1, <1>4, <2>1 DEF Reached
    <2>2. CASE c \notin busy
      BY <1>1, <1>2, <1>4, <2>2 DEF Reached
    <2> QED
      BY <2>1, <2>2
  <1> QED
    BY <1>3, <1>4

\* SendSchedulePacket naming one peer to several clients.
LEMMA SendParentTold ==
    ASSUME NEW o, NEW C, NEW q \in Peers, NEW busy, NEW r, r = SendParent(o, C, q, busy)
    PROVE  Told(o, r)
  <1> DEFINE f == [c \in C |-> q]
             steal == [c \in C |-> {}]
  <1>1. r = Send(o, f, steal, busy) /\ \A c \in Clients \cap DOMAIN f : f[c] \in Peers
    BY DEF SendParent
  <1> HIDE DEF f, steal
  <1> QED
    BY <1>1, SendTold

\* SendSchedulePacket after ScheduleParent chose q for p.
LEMMA SendChosenTold ==
    ASSUME NEW o, NEW p \in Clients, NEW q \in Peers, NEW cand, NEW busy,
           NEW r, r = SendChosen(o, p, q, cand, busy)
    PROVE  Told(o, r) /\ (conn[p] = "open" => Reached(r, p))
  <1> DEFINE f == [c \in {p} |-> q]
             steal == [c \in {p} |-> cand \ {q}]
  <1>1. r = Send(o, f, steal, busy) /\ \A c \in Clients \cap DOMAIN f : f[c] \in Peers
    BY DEF SendChosen
  <1>2. p \in Clients \cap DOMAIN f
    OBVIOUS
  <1> HIDE DEF f, steal
  <1> QED
    BY <1>1, <1>2, SendTold

\* removePeerFromCurrentTree, for a peer that ended or has left: it looks for
\* no other parent, and those who take its slot are given one.
LEMMA RemoveCalm ==
    ASSUME NEW s, SupOK(s), NEW p \in Peers, p \in s.ended \/ p \in s.left, NEW o,
           NEW C \in FreedChoices(s, p), NEW busy,
           NEW r, r = RemovePeerFromCurrentTree(s, o, p, C, busy)
    PROVE  Calm(s, r.s) /\ Told(o, r.o)
  <1>1. PICK par : par = s.parent[p]
    OBVIOUS
  <1>2. PICK out : out = ReplaceParent(s, {p}, NoPeer)
    OBVIOUS
  <1>3. /\ r.s = IF par = NoPeer THEN out ELSE ReplaceParent(out, C, par)
        /\ r.o = SendParent(o, C, p, busy)
    BY <1>1, <1>2 DEF RemovePeerFromCurrentTree
  <1>4. s \in SupType /\ par \in Peers \cup {NoPeer}
    BY <1>1 DEF SupOK, SupType
  <1>5. /\ CalmBut(s, out, p) /\ out \in SupType
        /\ out.ended = s.ended /\ out.left = s.left
    BY <1>2, <1>4, DetachCalm
  <1>6. Calm(s, out)
    BY <1>5 DEF Calm, CalmBut, Seeking
  <1>7. CASE par = NoPeer
    BY <1>3, <1>6, <1>7, SendParentTold
  <1>8. CASE par # NoPeer
    <2>1. C \in ChildChoices(out, par, {p})
      BY <1>1, <1>2, <1>8 DEF FreedChoices
    <2>2. C \subseteq CandidateChildren(out, par, {p})
      BY <2>1 DEF ChildChoices
    <2>3. C \subseteq Peers /\ par \in Peers
      BY <1>4, <1>8, <2>2 DEF CandidateChildren, Peers
    <2>4. Calm(out, r.s)
      BY <1>3, <1>5, <1>8, <2>3, AttachCalm
    <2> QED
      BY <1>3, <1>6, <2>4, CalmTransitive, SendParentTold
  <1> QED
    BY <1>7, <1>8

\* Packets sent one after the other add up.
LEMMA ToldTransitive ==
    ASSUME NEW o, NEW q, NEW r, Told(o, q), Told(q, r)
    PROVE  Told(o, r)
  BY DEF Told

\* The children of a failed or departed peer: who finds no other parent keeps
\* the old one.
LEMMA RescheduleCalm ==
    ASSUME NEW s, SupOK(s), NEW o, NEW p \in Peers,
           NEW f \in Outcomes(s, p), NEW ord, NEW busy, NEW again,
           NEW z, z = RescheduleChildren(s, o, p, f, ord, busy, again)
    PROVE  Calm(s, z.s) /\ Told(o, z.o)
  <1> DEFINE found == {c \in DOMAIN f : f[c] # NoPeer}
             g == [c \in found |-> f[c]]
             steal == [c \in found |-> CandidatesInTurn(s, p, f, ord, c) \ {f[c]}]
             sent == Send(o, g, steal, busy)
             more == {again[c] : c \in DOMAIN f \ found}
  <1>1. z.s = Moved(s, f, DOMAIN f) /\ z.o = [sent EXCEPT !.waitQ = @ \cup more]
    BY DEF RescheduleChildren
  <1>2. Calm(s, z.s)
    BY <1>1, MovedCalm
  <1>3. \A c \in Clients \cap DOMAIN g : g[c] \in Peers
    BY DEF Outcomes
  <1>4. sent = Send(o, g, steal, busy)
    OBVIOUS
  <1>5. DOMAIN sent = {"main", "offered", "waitQ"}
    BY DEF Send
  <1> HIDE DEF g, steal, sent, more
  <1>6. Told(o, sent)
    BY <1>3, <1>4, SendTold
  <1>7. z.o.main = sent.main /\ z.o.waitQ = sent.waitQ \cup more
    BY <1>1, <1>5
  <1>8. Told(o, z.o)
    BY <1>6, <1>7 DEF Told
  <1> QED
    BY <1>2, <1>8

-----------------------------------------------------------------------------
\* What was computed as sent is sent.
LEMMA SentNews ==
    ASSUME NEW o, Told(Out, o), SetOut(o)
    PROVE  NewsKept
  BY DEF Out, SetOut, Told, NewsKept

\* One client through a step that does not disturb it.
LEMMA StillRemembered ==
    ASSUME NEW p \in Clients, Remembered(p),
           conn'[p] = "open" => conn[p] = "open",
           Seeking(sup', p) => Seeking(sup, p),
           main'[p] = NoPeer => main[p] = NoPeer,
           b2s \subseteq b2s',
           p \in starting => p \in starting',
           Queued(p) => Queued(p)'
    PROVE  Remembered(p)'
  BY DEF Remembered

\* A step that disturbs nobody.
LEMMA QuietStep ==
    ASSUME NoForgottenPeer, ~crashed, Calm(sup, sup'), NewsKept, NoneOpened,
           b2s \subseteq b2s', starting \subseteq starting', inHand' = inHand
    PROVE  NoForgottenPeer'
  <1> SUFFICES ASSUME NEW p \in Clients PROVE Remembered(p)'
    BY RememberedNext
  <1>1. Remembered(p)
    BY RememberedIs
  <1>2. Queued(p) => Queued(p)'
    BY DEF Queued, LoopAdding, NewsKept
  <1> QED
    BY <1>1, <1>2, StillRemembered DEF Calm, NewsKept, NoneOpened

\* A step that disturbs p alone.
LEMMA StepOf ==
    ASSUME NoForgottenPeer, ~crashed, NEW p, Remembered(p)',
           CalmBut(sup, sup', p), b2s \subseteq b2s',
           \A c \in Clients : c # p =>
              /\ conn'[c] = "open" => conn[c] = "open"
              /\ main'[c] = NoPeer => main[c] = NoPeer
              /\ c \in starting => c \in starting'
              /\ Queued(c) => Queued(c)'
    PROVE  NoForgottenPeer'
  <1> SUFFICES ASSUME NEW c \in Clients PROVE Remembered(c)'
    BY RememberedNext
  <1>1. CASE c = p
    BY <1>1
  <1>2. CASE c # p
    <2>1. Remembered(c)
      BY RememberedIs
    <2> QED
      BY <1>2, <2>1, StillRemembered DEF CalmBut
  <1> QED
    BY <1>1, <1>2

\* CloseChannelWithError opens nothing and leaves none of C open.
LEMMA CloseShuts ==
    ASSUME NEW C, CloseChannels(C), conn \in [Clients -> {"none", "open", "closed"}]
    PROVE  NoneOpened /\ \A c \in C \cap Clients : conn'[c] # "open"
  BY DEF CloseChannels, Connected, NoneOpened

\* NeedBackSource opens no stream, forgets no client that went to the source, and
\* leaves none of C open.
LEMMA NeedBackSourceShuts ==
    ASSUME IInv, NEW C, NeedBackSource(C)
    PROVE  NoneOpened /\ b2s \subseteq b2s' /\ \A c \in C \cap Clients : conn'[c] # "open"
  <1>1. NoneOpened /\ \A c \in C \cap Clients : conn'[c] # "open"
    BY CloseShuts DEF NeedBackSource, SendBackToSource, IInv, StreamTypes
  <1>2. b2s \subseteq b2s'
    BY BackToSourceIs DEF NeedBackSource
  <1> QED
    BY <1>1, <1>2

\* handleCDNSeedTaskFail opens no stream.
LEMMA SeedTaskFailShuts ==
    ASSUME IInv, NEW st, HandleCDNSeedTaskFail(st)
    PROVE  NoneOpened /\ b2s \subseteq b2s'
  <1>1. CASE \E B : NeedBackSource(B)
    BY <1>1, NeedBackSourceShuts
  <1>2. CASE CloseChannels(sup.listed) /\ UNCHANGED b2s
    BY <1>2, CloseShuts DEF IInv, StreamTypes
  <1> QED
    BY <1>1, <1>2 DEF HandleCDNSeedTaskFail

\* The client that found no parent has lost its stream or is in the queue.
LEMMA NoParentForRemembers ==
    ASSUME IInv, NEW p \in Clients, NEW rs, rs.peer = p, NoParentFor(p, rs)
    PROVE  NoneOpened /\ b2s \subseteq b2s' /\ waitQ \subseteq waitQ' /\ Remembered(p)'
  <1>1. CASE NeedBackSource({p}) /\ UNCHANGED waitQ
    <2>1. NoneOpened /\ b2s \subseteq b2s' /\ conn'[p] # "open"
      BY <1>1, NeedBackSourceShuts
    <2> QED
      BY <1>1, <2>1 DEF Remembered
  <1>2. CASE waitQ' = waitQ \cup {rs} /\ UNCHANGED streams
    BY <1>2 DEF Remembered, Queued, streams, NoneOpened
  <1> QED
    BY <1>1, <1>2 DEF NoParentFor

\* A client that was reached is remembered.
LEMMA ReachedRemembered ==
    ASSUME NEW p \in Clients, NEW r, SetOut(r), conn[p] = "open" => Reached(r, p),
           UNCHANGED conn
    PROVE  Remembered(p)'
  <1>1. CASE r.main[p] # NoPeer
    BY <1>1 DEF SetOut, Remembered
  <1>2. CASE Wait(p, {}) \in r.waitQ
    <2>1. Wait(p, {}).peer = p
      BY DEF Wait
    <2> QED
      BY <1>2, <2>1 DEF SetOut, Remembered, Queued
  <1>3. CASE conn[p] # "open"
    BY <1>3 DEF Remembered
  <1> QED
    BY <1>1, <1>2, <1>3 DEF Reached

-----------------------------------------------------------------------------
(* The steps, one by one.                                                  *)

\* RegisterPeerTask: a client that is not known yet has no stream.
LEMMA RegisterForgets ==
    ASSUME IInv, NoForgottenPeer, ~crashed, NEW p \in Clients, Register(p)
    PROVE  NoForgottenPeer'
  <1>1. sup \in SupType
    BY DEF IInv, SupOK
  <1>2. /\ sup'.parent = sup.parent /\ sup'.left = sup.left /\ sup'.ended = sup.ended
        /\ sup'.registered = sup.registered \cup {p}
    BY <1>1 DEF Register, SupType
  <1>3. CalmBut(sup, sup', p)
    BY <1>2 DEF CalmBut, Seeking
  <1>4. UNCHANGED <<conn, main, b2s, starting, waitQ, inHand>> /\ sup.status[p] = "None"
    BY DEF Register
  <1>5. conn[p] = "none"
    BY <1>4 DEF IInv, StreamsStarted, Started
  <1>6. Remembered(p)'
    BY <1>4, <1>5 DEF Remembered
  <1>7. \A c \in Clients : Queued(c) => Queued(c)'
    BY <1>4 DEF Queued, LoopAdding
  <1> QED
    BY <1>3, <1>4, <1>6, <1>7, StepOf

\* A handler that is about to store Running, or does.
LEMMA HandlerForgets ==
    ASSUME IInv, NoForgottenPeer, ~crashed, NEW p \in Clients, Awaken(p) \/ StoreRunning(p)
    PROVE  NoForgottenPeer'
  <1>1. sup \in SupType
    BY DEF IInv, SupOK
  <1>2. /\ sup'.parent = sup.parent /\ sup'.left = sup.left /\ sup'.ended = sup.ended
        /\ sup'.registered = sup.registered
    BY <1>1 DEF Awaken, StoreRunning, SetStatus, SupType
  <1>3. Calm(sup, sup')
    BY <1>2 DEF Calm, Seeking
  <1>4. UNCHANGED <<conn, main, b2s, starting, waitQ, inHand>>
    BY DEF Awaken, StoreRunning
  <1> QED
    BY <1>3, <1>4, QuietStep DEF NewsKept, NoneOpened

\* ReportPieceResult: the zero piece of the new stream waits for the worker.
LEMMA ConnectForgets ==
    ASSUME IInv, NoForgottenPeer, ~crashed, NEW p \in Clients, Connect(p)
    PROVE  NoForgottenPeer'
  <1>1. /\ UNCHANGED <<sup, b2s, waitQ, inHand>> /\ starting' = starting \cup {p}
        /\ conn' = [conn EXCEPT ![p] = "open"] /\ main' = [main EXCEPT ![p] = NoPeer]
    BY DEF Connect
  <1>2. CalmBut(sup, sup', p) /\ Remembered(p)'
    BY <1>1 DEF CalmBut, Remembered
  <1>3. \A c \in Clients : c # p =>
              /\ conn'[c] = "open" => conn[c] = "open"
              /\ main'[c] = NoPeer => main[c] = NoPeer
              /\ c \in starting => c \in starting'
              /\ Queued(c) => Queued(c)'
    BY <1>1 DEF IInv, StreamTypes, OutOK, OutType, Out, Queued, LoopAdding
  <1> QED
    BY <1>1, <1>2, <1>3, StepOf

\* ReportPeerResult and LeaveTask.
LEMMA ReportForgets ==
    ASSUME IInv, NoForgottenPeer, ~crashed, NEW p \in Clients, NEW kind, Report(p, kind)
    PROVE  NoForgottenPeer'
  <1>1. UNCHANGED <<sup, conn, main, b2s, starting, waitQ, inHand>>
    BY DEF Report
  <1>2. Calm(sup, sup')
    BY <1>1 DEF Calm
  <1> QED
    BY <1>1, <1>2, QuietStep DEF NewsKept, NoneOpened

\* The end of a stream.
LEMMA DisconnectForgets ==
    ASSUME IInv, NoForgottenPeer, ~crashed, NEW p \in Clients, Disconnect(p)
    PROVE  NoForgottenPeer'
  <1>1. /\ UNCHANGED <<sup, main, b2s, starting, waitQ, inHand>>
        /\ conn' = [conn EXCEPT ![p] = "closed"]
    BY DEF Disconnect
  <1>2. Calm(sup, sup') /\ NewsKept /\ NoneOpened
    BY <1>1 DEF Calm, NewsKept, NoneOpened, IInv, StreamTypes
  <1> QED
    BY <1>1, <1>2, QuietStep

\* startReportPieceResultEvent: the zero piece is answered by a packet, by
\* NeedBackSource or by an entry of the queue.
LEMMA StartReportForgets ==
    ASSUME IInv, NoForgottenPeer, ~crashed, NEW p \in Clients, StartReport(p)
    PROVE  NoForgottenPeer'
  <1>1. /\ UNCHANGED <<sup, inHand>> /\ starting' = starting \ {p} /\ p \in Peers
        /\ CalmBut(sup, sup', p) /\ SupOK(sup) /\ sup \in SupType
    BY DEF StartReport, CalmBut, Peers, IInv, SupOK
  <1>2. NewsKept => \A c \in Clients : c # p =>
              /\ main'[c] = NoPeer => main[c] = NoPeer
              /\ c \in starting => c \in starting'
              /\ Queued(c) => Queued(c)'
    BY <1>1 DEF NewsKept, Queued, LoopAdding
  <1>3. CASE /\ sup.parent[p] # NoPeer /\ UNCHANGED streams
             /\ \E busy \in BusySets({p}) :
                    SetOut(SendParent(Out, {p}, sup.parent[p], busy))
    <2>1. PICK busy : SetOut(SendParent(Out, {p}, sup.parent[p], busy))
      BY <1>3
    <2>2. sup.parent[p] \in Peers
      BY <1>1, <1>3 DEF SupType
    <2>3. Told(Out, SendParent(Out, {p}, sup.parent[p], busy))
      BY <2>2, SendParentTold
    <2>4. NewsKept
      BY <2>1, <2>3, SentNews
    <2>5. Remembered(p)'
      BY <1>1, <1>3 DEF Remembered, Seeking
    <2> QED
      BY <1>1, <1>2, <1>3, <2>4, <2>5, StepOf DEF streams
  <1>4. CASE p \in b2s /\ UNCHANGED <<main, offered, waitQ, streams>>
    <2>1. NewsKept /\ Remembered(p)'
      BY <1>4 DEF NewsKept, Remembered, streams
    <2> QED
      BY <1>1, <1>2, <1>4, <2>1, StepOf DEF streams
  <1>5. CASE NoParentFor(p, Wait(p, {})) /\ UNCHANGED <<main, offered>>
    <2>1. Wait(p, {}).peer = p
      BY DEF Wait
    <2>2. NoneOpened /\ b2s \subseteq b2s' /\ waitQ \subseteq waitQ' /\ Remembered(p)'
      BY <1>5, <2>1, NoParentForRemembers
    <2> QED
      BY <1>1, <1>2, <1>5, <2>2, StepOf DEF NewsKept, NoneOpened
  <1>6. CASE /\ UNCHANGED streams
             /\ \E q \in CandidateParents(sup, p, {}), busy \in BusySets({p}) :
                    SetOut(SendChosen(Out, p, q, CandidateParents(sup, p, {}), busy))
    <2>1. PICK cand : cand = CandidateParents(sup, p, {})
      OBVIOUS
    <2>2. PICK q \in cand, busy \in BusySets({p}) :
              SetOut(SendChosen(Out, p, q, cand, busy))
      BY <1>6, <2>1
    <2>3. q \in Peers
      BY <1>1, <2>1, CandidatesStarted DEF SupOK
    <2>4. PICK r : r = SendChosen(Out, p, q, cand, busy)
      OBVIOUS
    <2>5. Told(Out, r) /\ (conn[p] = "open" => Reached(r, p))
      BY <2>3, <2>4, SendChosenTold
    <2>6. NewsKept /\ Remembered(p)'
      BY <1>6, <2>2, <2>4, <2>5, SentNews, ReachedRemembered DEF streams
    <2> QED
      BY <1>1, <1>2, <1>6, <2>6, StepOf DEF streams
  <1> QED
    BY <1>3, <1>4, <1>5, <1>6 DEF StartReport

\* reScheduleParentEvent: the client in the worker's hands is answered, loses its
\* stream, has a parent, or is queued again.
LEMMA ReScheduleParentForgets ==
    ASSUME IInv, NoForgottenPeer, ~crashed, ReScheduleParent
    PROVE  NoForgottenPeer'
  <1>1. PICK p, blank, cand : /\ p = inHand.peer /\ blank = inHand.blank
                              /\ cand = CandidateParents(sup, p, blank)
    OBVIOUS
  <1>2. /\ inHand \in RsPeers /\ p \in Clients /\ p \in Peers /\ inHand' = NoRs
        /\ UNCHANGED starting /\ SupOK(sup) /\ sup \in SupType
    BY <1>1 DEF ReScheduleParent, IInv, RestTypes, RsPeers, Peers, SupOK
  <1>3. NewsKept => \A c \in Clients : c # p =>
              /\ main'[c] = NoPeer => main[c] = NoPeer
              /\ c \in starting => c \in starting'
              /\ Queued(c) => Queued(c)'
    BY <1>1, <1>2 DEF NewsKept, Queued
  <1>4. CASE CloseChannels({p}) /\ UNCHANGED <<sup, main, offered, waitQ, told, b2s, weight>>
    <2>1. NoneOpened /\ conn'[p] # "open"
      BY <1>2, <1>4, CloseShuts DEF IInv, StreamTypes
    <2>2. NewsKept /\ CalmBut(sup, sup', p) /\ Remembered(p)'
      BY <1>4, <2>1 DEF NewsKept, CalmBut, Remembered
    <2> QED
      BY <1>3, <1>4, <2>1, <2>2, StepOf DEF NoneOpened
  <1>5. CASE /\ sup.parent[p] # NoPeer
             /\ UNCHANGED <<sup, main, offered, waitQ, streams>>
    <2>1. NewsKept /\ CalmBut(sup, sup', p) /\ Remembered(p)'
      BY <1>5 DEF NewsKept, CalmBut, Remembered, Seeking
    <2> QED
      BY <1>3, <1>5, <2>1, StepOf DEF streams
  <1>6. CASE NoParentFor(p, Retry(inHand)) /\ UNCHANGED <<sup, main, offered>>
    <2>1. Retry(inHand).peer = p
      BY <1>1, <1>2 DEF Retry, RsPeers
    <2>2. NoneOpened /\ b2s \subseteq b2s' /\ waitQ \subseteq waitQ' /\ Remembered(p)'
      BY <1>2, <1>6, <2>1, NoParentForRemembers
    <2>3. NewsKept /\ CalmBut(sup, sup', p)
      BY <1>6, <2>2 DEF NewsKept, CalmBut
    <2> QED
      BY <1>3, <2>2, <2>3, StepOf DEF NoneOpened
  <1>7. CASE /\ \E q \in cand, busy \in BusySets({p}) :
                  /\ sup' = TakeParent(sup, p, q)
                  /\ SetOut(SendChosen(Out, p, q, cand, busy))
             /\ UNCHANGED streams
    <2>1. PICK q \in cand, busy \in BusySets({p}) :
              /\ sup' = TakeParent(sup, p, q)
              /\ SetOut(SendChosen(Out, p, q, cand, busy))
      BY <1>7
    <2>2. q \in Peers
      BY <1>1, <1>2, CandidatesStarted DEF SupOK
    <2>3. PICK r : r = SendChosen(Out, p, q, cand, busy)
      OBVIOUS
    <2>4. Told(Out, r) /\ (conn[p] = "open" => Reached(r, p))
      BY <1>2, <2>2, <2>3, SendChosenTold
    <2>5. NewsKept /\ Remembered(p)'
      BY <1>2, <1>7, <2>1, <2>3, <2>4, SentNews, ReachedRemembered DEF streams
    <2>6. Calm(sup, sup')
      <3>1. CASE sup' = ReplaceParent(sup, {p}, q)
        BY <1>2, <2>2, <3>1, AttachCalm
      <3>2. CASE sup' = sup
        BY <3>2 DEF Calm
      <3> QED
        BY <2>1, <3>1, <3>2 DEF TakeParent
    <2>7. CalmBut(sup, sup', p)
      BY <2>6 DEF Calm, CalmBut
    <2> QED
      BY <1>3, <1>7, <2>5, <2>7, StepOf DEF streams
  <1> QED
    BY <1>1, <1>4, <1>5, <1>6, <1>7 DEF ReScheduleParent

\* runReScheduleParentLoop: who is taken out of the queue loses its stream, needs
\* no parent, or goes to the worker.
LEMMA ReScheduleLoopForgets ==
    ASSUME IInv, NoForgottenPeer, ~crashed, NEW r \in waitQ, ReScheduleLoop(r)
    PROVE  NoForgottenPeer'
  <1>1. PICK p : p = r.peer
    OBVIOUS
  <1>2. p \in Clients /\ p # NoPeer /\ inHand = NoRs /\ r.times \in Nat
    <2>1. r \in RsPeers
      BY DEF IInv, OutOK, OutType, Out
    <2> QED
      BY <1>1, <2>1, PeersDistinct DEF RsPeers, Peers, ReScheduleLoop
  <1>3. /\ waitQ' = waitQ \ {r} /\ inHand' \in {inHand, r}
        /\ UNCHANGED <<sup, main, starting>>
    BY DEF ReScheduleLoop
  <1>4. CalmBut(sup, sup', p)
    BY <1>3 DEF CalmBut
  <1>5. \A c \in Clients : c # p =>
              /\ main'[c] = NoPeer => main[c] = NoPeer
              /\ c \in starting => c \in starting'
              /\ Queued(c) => Queued(c)'
    <2>1. NoRs.peer \notin Clients
      BY PeersDistinct DEF NoRs, Peers
    <2> QED
      BY <1>1, <1>2, <1>3, <2>1 DEF Queued
  <1>6. CASE SendBackToSource({p}) /\ UNCHANGED b2s
    <2>1. NoneOpened /\ conn'[p] # "open"
      BY <1>2, <1>6, CloseShuts DEF SendBackToSource, IInv, StreamTypes
    <2>2. Remembered(p)'
      BY <2>1 DEF Remembered
    <2> QED
      BY <1>4, <1>5, <1>6, <2>1, <2>2, StepOf DEF NoneOpened
  <1>7. CASE (p \in b2s \/ IsDone(sup, p) \/ p \in sup.left) /\ UNCHANGED streams
    <2>1. IsDone(sup, p) => p \in sup.ended
      BY <1>2 DEF IInv, SupOK, DoneEnded
    <2>2. Remembered(p)'
      BY <1>3, <1>7, <2>1 DEF Remembered, Seeking, streams
    <2> QED
      BY <1>4, <1>5, <1>7, <2>2, StepOf DEF streams
  <1>8. CASE r.times <= MaxRescheduleTimes /\ inHand' = r /\ UNCHANGED streams
    <2>1. ~LoopAdding'
      BY <1>2, <1>8, LimitsNat DEF LoopAdding
    <2>2. Remembered(p)'
      BY <1>1, <1>8, <2>1 DEF Remembered, Queued
    <2> QED
      BY <1>4, <1>5, <1>8, <2>2, StepOf DEF streams
  <1> QED
    BY <1>1, <1>6, <1>7, <1>8 DEF ReScheduleLoop

\* AddBackToSourcePeer of the loop: who the loop holds in it has no entry there,
\* so that none is lost.
LEMMA LoopBackToSourceForgets ==
    ASSUME IInv, NoForgottenPeer, ~crashed, LoopBackToSource
    PROVE  NoForgottenPeer'
  <1> SUFFICES ASSUME NEW p \in Clients PROVE Remembered(p)'
    BY RememberedNext
  <1>1. Remembered(p)
    BY RememberedIs
  <1>2. /\ UNCHANGED <<sup, conn, main, starting, waitQ>> /\ b2s \subseteq b2s'
        /\ LoopAdding
    BY DEF LoopBackToSource
  <1>3. Queued(p) => Queued(p)'
    BY <1>2 DEF Queued
  <1> QED
    BY <1>1, <1>2, <1>3, StillRemembered

\* peerDownloadPieceSuccessEvent: a client whose parent left is given another,
\* or the process ends.
LEMMA PieceSuccessForgets ==
    ASSUME IInv, NoForgottenPeer, ~crashed, NEW p \in Clients, NEW dst \in Peers,
           NEW n \in 0..MaxPieces, NEW outlier \in BOOLEAN,
           PieceSuccess(p, dst, n, outlier)
    PROVE  NoForgottenPeer'
  <1>2. PICK s : s = UpdateProgress(sup, p, n, outlier)
    OBVIOUS
  <1>3. PICK orphan : orphan = ReplaceParent(s, {p}, NoPeer)
    OBVIOUS
  <1>4. PICK cand : cand = CandidateParents(orphan, p, {dst})
    OBVIOUS
  <1>5. p \in Peers /\ Started(sup, p) /\ SupOK(sup)
    BY DEF PieceSuccess, IInv, StreamsStarted, Peers
  <1>7. SupOK(s)
    BY <1>2, <1>5, UpdateProgressOK
  <1>8. Calm(sup, s) /\ s \in SupType
    BY <1>2, <1>5, <1>7, UpdateProgressCalm DEF SupOK
  <1>9. UNCHANGED <<streams, starting, inHand>>
    BY DEF PieceSuccess
  <1>10. ASSUME Calm(sup, sup'), NewsKept PROVE NoForgottenPeer'
    BY <1>9, <1>10, QuietStep DEF streams, NoneOpened
  <1>11. UNCHANGED <<main, waitQ>> => NewsKept
    BY DEF NewsKept
  <1>12. CASE sup' = s /\ UNCHANGED <<main, offered, waitQ>>
    BY <1>8, <1>10, <1>11, <1>12
  <1>13. CASE /\ sup' = Touch(IF s.parent[p] # dst /\ dst # p
                               THEN ReplaceParent(s, {p}, dst) ELSE s, dst)
              /\ UNCHANGED <<main, offered, waitQ>>
    <2>1. PICK u : u = IF s.parent[p] # dst /\ dst # p THEN ReplaceParent(s, {p}, dst) ELSE s
      OBVIOUS
    <2>2. Calm(s, u) /\ u \in SupType
      <3>1. CASE u = s
        BY <1>8, <3>1 DEF Calm
      <3>2. CASE u = ReplaceParent(s, {p}, dst)
        <4>1. Attached(s, {p}, dst, u)
          BY <1>5, <1>8, <3>2, ReplaceParentIs
        <4>2. Calm(s, u)
          BY <1>5, <1>8, <3>2, AttachCalm
        <4> QED
          BY <4>1, <4>2 DEF Attached
      <3> QED
        BY <2>1, <3>1, <3>2
    <2>3. Calm(u, sup')
      BY <1>13, <2>1, <2>2, TouchCalm
    <2>4. Calm(sup, sup')
      BY <1>8, <2>2, <2>3, CalmTransitive
    <2> QED
      BY <1>10, <1>11, <1>13, <2>4
  <1>14. CASE /\ dst \in s.left
              /\ \E q \in cand, busy \in BusySets({p}) :
                 /\ sup' = Touch(IF dst # p THEN ReplaceParent(orphan, {p}, q) ELSE orphan, q)
                 /\ SetOut(SendChosen(Out, p, q, cand, busy))
    <2>1. PICK q \in cand, busy \in BusySets({p}) :
                 /\ sup' = Touch(IF dst # p THEN ReplaceParent(orphan, {p}, q) ELSE orphan, q)
                 /\ SetOut(SendChosen(Out, p, q, cand, busy))
      BY <1>14
    <2>2. /\ CalmBut(s, orphan, p) /\ orphan \in SupType /\ orphan.left = s.left
          /\ SupOK(orphan)
      BY <1>3, <1>5, <1>7, <1>8, DetachCalm, DetachOK
    <2>3. q \in Peers
      BY <1>4, <1>5, <2>2, CandidatesStarted DEF SupOK
    <2>4. PICK u : u = IF dst # p THEN ReplaceParent(orphan, {p}, q) ELSE orphan
      OBVIOUS
    <2>5. u \in SupType /\ Calm(s, u)
      <3>1. CASE dst = p
        BY <1>14, <2>2, <2>4, <3>1 DEF Calm, CalmBut, Seeking
      <3>2. CASE dst # p
        <4>1. u = ReplaceParent(orphan, {p}, q)
          BY <2>4, <3>2
        <4>2. Attached(orphan, {p}, q, u)
          BY <1>5, <2>2, <2>3, <4>1, ReplaceParentIs
        <4>3. Calm(orphan, u) /\ u \in SupType
          BY <1>5, <2>2, <2>3, <4>1, <4>2, AttachCalm DEF Attached
        <4>4. u.parent[p] # NoPeer
          BY <1>5, <2>3, <4>2, PeersDistinct DEF Attached
        <4> QED
          BY <2>2, <4>3, <4>4 DEF Calm, CalmBut, Seeking
      <3> QED
        BY <3>1, <3>2
    <2>6. Calm(u, sup')
      BY <2>1, <2>3, <2>4, <2>5, TouchCalm
    <2>7. Calm(sup, sup')
      BY <1>8, <2>5, <2>6, CalmTransitive
    <2>8. Told(Out, SendChosen(Out, p, q, cand, busy))
      BY <2>3, SendChosenTold
    <2>9. NewsKept
      BY <2>1, <2>8, SentNews
    <2> QED
      BY <1>10, <2>7, <2>9
  <1>15. CASE crashed'
    BY <1>15 DEF NoForgottenPeer
  <1> QED
    BY <1>2, <1>3, <1>4, <1>12, <1>13, <1>14, <1>15 DEF PieceSuccess

\* peerDownloadPieceFailEvent.
LEMMA PieceFailForgets ==
    ASSUME IInv, NoForgottenPeer, ~crashed, NEW p \in Clients, NEW dst \in Peers, NEW code,
           PieceFail(p, dst, code)
    PROVE  NoForgottenPeer'
  <1>1. sup \in SupType /\ (sup' = sup \/ sup' = DeletePeer(sup, dst))
    BY DEF PieceFail, IInv, SupOK
  <1>5. Calm(sup, sup')
    BY <1>1, DeletePeerCalm DEF Calm
  <1>6. waitQ \subseteq waitQ' /\ UNCHANGED <<main, streams, starting, inHand>>
    BY DEF PieceFail
  <1> QED
    BY <1>5, <1>6, QuietStep DEF NewsKept, NoneOpened, streams

\* What the three events that end a download do to the others.
EndQuiet == Calm(sup, sup') /\ NewsKept /\ NoneOpened /\ b2s \subseteq b2s'

\* peerDownloadSuccessEvent.
LEMMA PeerDownloadSuccessQuiet ==
    ASSUME IInv, NEW p \in Peers, PeerDownloadSuccess(p)
    PROVE  EndQuiet
  <1>1. PICK s : s = End(sup, p, "Success")
    OBVIOUS
  <1>2. SupOK(s) /\ Later(sup, s) /\ Calm(sup, s) /\ p \in s.ended
    BY <1>1, EndIs, EndCalm DEF IInv, SupOK
  <1>3. OutOK(s, Out) /\ StreamsStarted(s)
    BY <1>2, LaterKeeps DEF IInv
  <1>4. PICK C \in FreedChoices(s, p), busy1, busy2 \in BusySets(Clients) :
          \E D \in ChildChoices(RemovePeerFromCurrentTree(s, Out, p, C, busy1).s, p, {}) :
             /\ sup' = ReplaceParent(RemovePeerFromCurrentTree(s, Out, p, C, busy1).s, D, p)
             /\ SetOut(SendParent(RemovePeerFromCurrentTree(s, Out, p, C, busy1).o, D, p, busy2))
    BY <1>1 DEF PeerDownloadSuccess
  <1>5. PICK r : r = RemovePeerFromCurrentTree(s, Out, p, C, busy1)
    OBVIOUS
  <1>6. PICK D \in ChildChoices(r.s, p, {}) :
             /\ sup' = ReplaceParent(r.s, D, p)
             /\ SetOut(SendParent(r.o, D, p, busy2))
    BY <1>4, <1>5
  <1>7. SupOK(r.s) /\ Later(s, r.s) /\ OutOK(r.s, r.o)
    BY <1>2, <1>3, <1>5, RemoveOK
  <1>8. Calm(s, r.s) /\ Told(Out, r.o)
    BY <1>2, <1>5, RemoveCalm
  <1>9. StreamsStarted(r.s)
    BY <1>3, <1>7, LaterKeeps
  <1>10. D \subseteq Peers
    BY <1>6, <1>9, ChildrenStarted DEF Peers
  <1>11. Calm(r.s, sup')
    BY <1>6, <1>7, <1>10, AttachCalm DEF SupOK
  <1>12. Calm(sup, sup')
    BY <1>2, <1>8, <1>11, CalmTransitive
  <1>13. Told(r.o, SendParent(r.o, D, p, busy2))
    BY SendParentTold
  <1>14. NewsKept
    BY <1>6, <1>8, <1>13, ToldTransitive, SentNews
  <1>15. UNCHANGED streams
    BY DEF PeerDownloadSuccess
  <1> QED
    BY <1>12, <1>14, <1>15 DEF EndQuiet, NoneOpened, streams

\* The common part of the fail and the leave event.
LEMMA RemoveAndRescheduleCalm ==
    ASSUME NEW s, SupOK(s), StreamsStarted(s), NEW o, OutOK(s, o), NEW p \in Clients,
           p \in s.ended \/ p \in s.left,
           NEW C \in FreedChoices(s, p), NEW busy1, NEW busy2,
           NEW r, r = RemovePeerFromCurrentTree(s, o, p, C, busy1),
           NEW f \in Outcomes(r.s, p), NEW ord, NEW again,
           NEW z, z = RescheduleChildren(r.s, r.o, p, f, ord, busy2, again)
    PROVE  Calm(s, z.s) /\ Told(o, z.o)
  <1>1. p \in Peers
    BY DEF Peers
  <1>2. SupOK(r.s)
    BY <1>1, RemoveOK
  <1>3. Calm(s, r.s) /\ Told(o, r.o)
    BY <1>1, RemoveCalm
  <1>4. Calm(r.s, z.s) /\ Told(r.o, z.o)
    BY <1>1, <1>2, RescheduleCalm
  <1> QED
    BY <1>3, <1>4, CalmTransitive, ToldTransitive

\* peerDownloadFailEvent.
LEMMA PeerDownloadFailQuiet ==
    ASSUME IInv, NEW p \in Clients, PeerDownloadFail(p)
    PROVE  EndQuiet
  <1> DEFINE s == End(sup, p, "Fail")
  <1>1. s = End(sup, p, "Fail") /\ p \in Peers
    BY DEF Peers
  <1>2. SupOK(s) /\ Later(sup, s) /\ Calm(sup, s) /\ p \in s.ended
    <2> HIDE DEF s
    <2> QED
      BY <1>1, EndIs, EndCalm DEF IInv, SupOK
  <1>3. OutOK(s, Out) /\ StreamsStarted(s)
    BY <1>2, LaterKeeps DEF IInv
  <1>4. CASE /\ sup' = s /\ HandleCDNSeedTaskFail("Fail")
             /\ UNCHANGED <<main, offered, waitQ>>
    <2>1. NoneOpened /\ b2s \subseteq b2s'
      BY <1>4, SeedTaskFailShuts
    <2> QED
      BY <1>2, <1>4, <2>1 DEF EndQuiet, NewsKept
  <1>5. CASE ~(p \in b2s /\ task # "Success")
    <2>1. PICK C \in FreedChoices(s, p), busy1 \in BusySets(Clients),
               busy2 \in BusySets(Clients) :
             LET r == RemovePeerFromCurrentTree(s, Out, p, C, busy1)
                 kids == Children(r.s, p)
             IN
             \E f \in Outcomes(r.s, p), ord \in Orders(kids) :
                LET z == RescheduleChildren(r.s, r.o, p, f, ord, busy2, FailAgain(p, f)) IN
                /\ busy1 \subseteq C /\ busy2 \subseteq kids
                /\ IsReassignment(r.s, p, f, ord)
                /\ sup' = z.s
                /\ SetOut(z.o)
      BY <1>5 DEF PeerDownloadFail
    <2> HIDE DEF s
    <2>2. PICK r : r = RemovePeerFromCurrentTree(s, Out, p, C, busy1)
      OBVIOUS
    <2>3. PICK f \in Outcomes(r.s, p), ord \in Orders(Children(r.s, p)) :
                /\ IsReassignment(r.s, p, f, ord)
                /\ sup' = RescheduleChildren(r.s, r.o, p, f, ord, busy2, FailAgain(p, f)).s
                /\ SetOut(RescheduleChildren(r.s, r.o, p, f, ord, busy2, FailAgain(p, f)).o)
      BY <2>1, <2>2
    <2>4. PICK z : z = RescheduleChildren(r.s, r.o, p, f, ord, busy2, FailAgain(p, f))
      OBVIOUS
    <2>5. Calm(s, z.s) /\ Told(Out, z.o)
      BY <1>2, <1>3, <2>2, <2>4, RemoveAndRescheduleCalm
    <2>6. Calm(sup, sup') /\ NewsKept
      BY <1>2, <2>3, <2>4, <2>5, CalmTransitive, SentNews
    <2>7. UNCHANGED streams
      BY <1>5 DEF PeerDownloadFail
    <2> QED
      BY <2>6, <2>7 DEF EndQuiet, NoneOpened, streams
  <1> QED
    BY <1>4, <1>5 DEF PeerDownloadFail

\* peerLeaveEvent.
LEMMA PeerLeaveQuiet ==
    ASSUME IInv, NEW p \in Clients, PeerLeave(p)
    PROVE  EndQuiet
  <1> DEFINE s == [sup EXCEPT !.left = @ \cup {p}]
  <1>1. s = [sup EXCEPT !.left = @ \cup {p}]
    OBVIOUS
  <1>2. p \in Peers /\ sup \in SupType
    BY DEF Peers, IInv, SupOK
  <1>3. SupOK(s) /\ Later(sup, s) /\ Calm(sup, s) /\ p \in s.left
    <2>1. /\ s \in SupType /\ s.status = sup.status /\ s.parent = sup.parent
          /\ s.pieces = sup.pieces /\ s.registered = sup.registered
          /\ s.left = sup.left \cup {p}
          /\ s.ended = sup.ended /\ s.reviving = sup.reviving
      BY <1>1, <1>2 DEF SupType
    <2> HIDE DEF s
    <2> QED
      BY <2>1, SetsOK DEF IInv, Calm, Seeking
  <1>4. OutOK(s, Out) /\ StreamsStarted(s)
    BY <1>3, LaterKeeps DEF IInv
  <1>5. PICK C \in FreedChoices(s, p), busy1 \in BusySets(Clients),
             busy2 \in BusySets(Clients) :
             LET r == RemovePeerFromCurrentTree(s, Out, p, C, busy1)
                 kids == Children(r.s, p)
             IN
             \E f \in Outcomes(r.s, p), ord \in Orders(kids) :
                LET z == RescheduleChildren(r.s, r.o, p, f, ord, busy2, LeaveAgain(p, f)) IN
                /\ busy1 \subseteq C /\ busy2 \subseteq kids
                /\ IsReassignment(r.s, p, f, ord)
                /\ sup' = DeletePeer(z.s, p)
                /\ SetOut(z.o)
    BY DEF PeerLeave
  <1> HIDE DEF s
  <1>6. PICK r : r = RemovePeerFromCurrentTree(s, Out, p, C, busy1)
    OBVIOUS
  <1>7. PICK f \in Outcomes(r.s, p), ord \in Orders(Children(r.s, p)) :
          /\ IsReassignment(r.s, p, f, ord)
          /\ sup' = DeletePeer(RescheduleChildren(r.s, r.o, p, f, ord, busy2, LeaveAgain(p, f)).s, p)
          /\ SetOut(RescheduleChildren(r.s, r.o, p, f, ord, busy2, LeaveAgain(p, f)).o)
    BY <1>5, <1>6
  <1>8. PICK z : z = RescheduleChildren(r.s, r.o, p, f, ord, busy2, LeaveAgain(p, f))
    OBVIOUS
  <1>9. SupOK(z.s)
    BY <1>3, <1>4, <1>6, <1>7, <1>8, RemoveAndRescheduleOK
  <1>10. Calm(s, z.s) /\ Told(Out, z.o)
    BY <1>3, <1>4, <1>6, <1>8, RemoveAndRescheduleCalm
  <1>11. Calm(z.s, sup')
    BY <1>2, <1>7, <1>8, <1>9, DeletePeerCalm DEF SupOK
  <1>12. Calm(sup, sup') /\ NewsKept
    BY <1>3, <1>7, <1>8, <1>10, <1>11, CalmTransitive, SentNews
  <1>13. UNCHANGED streams
    BY DEF PeerLeave
  <1> QED
    BY <1>12, <1>13 DEF EndQuiet, NoneOpened, streams

\* The worker takes a unary report.
LEMMA ApplyReportForgets ==
    ASSUME IInv, NoForgottenPeer, ~crashed, NEW r \in pending, ApplyReport(r)
    PROVE  NoForgottenPeer'
  <1>1. r.peer \in Clients /\ r.peer \in Peers /\ r.kind \in {"success", "fail", "leave"}
    BY DEF IInv, RestTypes, Reports, Peers
  <1>2. EndQuiet
    <2>1. CASE r.kind = "success"
      BY <1>1, <2>1, PeerDownloadSuccessQuiet DEF ApplyReport
    <2>2. CASE r.kind = "fail"
      BY <1>1, <2>2, PeerDownloadFailQuiet DEF ApplyReport
    <2>3. CASE r.kind = "leave"
      BY <1>1, <2>3, PeerLeaveQuiet DEF ApplyReport
    <2> QED
      BY <1>1, <2>1, <2>2, <2>3
  <1>3. UNCHANGED <<starting, inHand>>
    BY DEF ApplyReport
  <1> QED
    BY <1>2, <1>3, QuietStep DEF EndQuiet

\* The steps of the seeding change a CDN peer, the status of the task and the
\* streams only.
LEMMA SeedForgets ==
    ASSUME IInv, NoForgottenPeer, ~crashed,
           \/ \E c \in CDNs : InitCDNPeer(c)
           \/ SeedPiece \/ SeedDone \/ SeedFail \/ SeedSuccessEvent \/ TaskSeedFailEvent
    PROVE  NoForgottenPeer'
  <1>1. sup \in SupType /\ SupOK(sup) /\ (sup' = sup => Calm(sup, sup'))
    BY DEF IInv, SupOK, Calm
  <1>2. ASSUME Calm(sup, sup'), UNCHANGED unseeded PROVE NoForgottenPeer'
    BY <1>2, QuietStep DEF unseeded, NewsKept, NoneOpened
  <1>3. ASSUME EndQuiet, UNCHANGED <<starting, inHand>> PROVE NoForgottenPeer'
    BY <1>3, QuietStep DEF EndQuiet
  <1>4. ASSUME NEW c \in CDNs, InitCDNPeer(c) PROVE NoForgottenPeer'
    <2>1. c \notin Clients
      BY PeersDistinct
    <2>2. /\ sup'.parent = sup.parent /\ sup'.left = sup.left /\ sup'.ended = sup.ended
          /\ sup'.registered = sup.registered \cup {c}
      BY <1>1, <1>4 DEF InitCDNPeer, SupType
    <2>3. Calm(sup, sup')
      BY <2>1, <2>2 DEF Calm, Seeking
    <2> QED
      BY <1>2, <1>4, <2>3 DEF InitCDNPeer
  <1>5. CASE SeedPiece
    <2>1. PICK c, s, n : c = seed.cdn /\ s = Touch(sup, c) /\ n = sup.pieces[c] + 1
      OBVIOUS
    <2>2. c \in Peers /\ sup' = UpdateProgress(s, c, n, FALSE)
      BY <1>5, <2>1 DEF SeedPiece, IInv, SeedShape, Peers
    <2>3. s \in SupType /\ Calm(sup, s)
      BY <1>1, <2>1, <2>2, TouchOK, TouchCalm DEF SupOK
    <2>4. Calm(s, sup')
      BY <2>2, <2>3, UpdateProgressCalm
    <2>5. Calm(sup, sup')
      BY <2>3, <2>4, CalmTransitive
    <2> QED
      BY <1>2, <1>5, <2>5 DEF SeedPiece
  <1>6. CASE SeedDone
    <2>1. PICK c, s : c = seed.cdn /\ s = Touch(sup, c)
      OBVIOUS
    <2>2. c \in Peers
      BY <1>6, <2>1 DEF SeedDone, IInv, SeedShape, Peers
    <2>3. s \in SupType /\ Calm(sup, s)
      BY <1>1, <2>1, <2>2, TouchOK, TouchCalm DEF SupOK
    <2>4. CASE sup' = SetStatus(s, c, "Success")
      <3>1. Calm(s, sup')
        BY <2>2, <2>3, <2>4, SetStatusCalm
      <3>2. Calm(sup, sup')
        BY <2>3, <3>1, CalmTransitive
      <3> QED
        BY <1>2, <1>6, <3>2 DEF SeedDone
    <2>5. CASE sup' = sup
      BY <1>1, <1>2, <1>6, <2>5 DEF SeedDone
    <2> QED
      BY <1>6, <2>1, <2>4, <2>5 DEF SeedDone
  <1>7. CASE SeedFail
    BY <1>1, <1>2, <1>7 DEF SeedFail
  <1>8. CASE SeedSuccessEvent
    <2>1. seed.cdn \in Peers /\ PeerDownloadSuccess(seed.cdn)
      BY <1>8 DEF SeedSuccessEvent, IInv, SeedShape, Peers
    <2>2. UNCHANGED <<starting, inHand>>
      BY <1>8 DEF SeedSuccessEvent
    <2> QED
      BY <1>3, <2>1, <2>2, PeerDownloadSuccessQuiet
  <1>9. CASE TaskSeedFailEvent
    <2>1. UNCHANGED <<sup, main, waitQ, starting, inHand>> /\ HandleCDNSeedTaskFail(task)
      BY <1>9 DEF TaskSeedFailEvent
    <2>2. NoneOpened /\ b2s \subseteq b2s'
      BY <2>1, SeedTaskFailShuts
    <2> QED
      BY <1>1, <2>1, <2>2, QuietStep DEF NewsKept
  <1> QED
    BY <1>4, <1>5, <1>6, <1>7, <1>8, <1>9

\* The collectors: whatever they do to a status, and whoever they make leave or
\* delete, makes nobody look for a parent.
LEMMA PeerGCForgets ==
    ASSUME IInv, NoForgottenPeer, ~crashed,
           \/ \E p \in Peers, idle, expired \in BOOLEAN : PeerGCVisit(p, idle, expired)
           \/ PeerGCLeave \/ PeerGCMark \/ PeerGCSweep
           \/ \E idle \in BOOLEAN : TaskGC(idle)
    PROVE  NoForgottenPeer'
  <1>1. sup \in SupType /\ SupOK(sup) /\ (sup' = sup => Calm(sup, sup'))
    BY DEF IInv, SupOK, Calm
  <1>2. UNCHANGED <<conn, main, b2s, starting, waitQ, inHand>>
    BY DEF PeerGCVisit, PeerGCLeave, PeerGCMark, PeerGCSweep, TaskGC, uncollected
  <1>3. ASSUME Calm(sup, sup') PROVE NoForgottenPeer'
    BY <1>2, <1>3, QuietStep DEF NewsKept, NoneOpened
  <1>4. ASSUME NEW p \in Peers, NEW idle \in BOOLEAN, NEW expired \in BOOLEAN,
               PeerGCVisit(p, idle, expired)
        PROVE  NoForgottenPeer'
    BY <1>1, <1>3, <1>4 DEF PeerGCVisit
  <1>7. CASE PeerGCLeave
    <2>1. /\ sup'.parent = sup.parent /\ sup'.ended = sup.ended
          /\ sup'.registered = sup.registered /\ sup.left \subseteq sup'.left
      BY <1>1, <1>7 DEF PeerGCLeave, SupType
    <2> QED
      BY <1>3, <2>1 DEF Calm, Seeking
  <1>8. CASE PeerGCMark
    <2>1. gc.peer \in Peers /\ sup' = SetStatus(sup, gc.peer, "Zombie")
      BY <1>8 DEF PeerGCMark, IInv, RestTypes, Peers
    <2> QED
      BY <1>1, <1>3, <2>1, SetStatusCalm
  <1>5. CASE PeerGCSweep
    <2>1. sup' = sup \/ sup' = DeletePeer(sup, gc.peer)
      BY <1>5 DEF PeerGCSweep
    <2>2. CASE gc.peer \in Peers
      BY <1>1, <1>3, <2>1, <2>2, DeletePeerCalm
    <2>3. CASE gc.peer \notin Peers
      <3>1. gc.peer \notin sup.registered
        BY <1>1, <2>3 DEF SupType
      <3>2. sup' = sup
        BY <2>1, <3>1 DEF DeletePeer
      <3> QED
        BY <1>1, <1>3, <3>2
    <2> QED
      BY <2>2, <2>3
  <1>6. ASSUME NEW idle \in BOOLEAN, TaskGC(idle) PROVE NoForgottenPeer'
    BY <1>1, <1>3, <1>6 DEF TaskGC
  <1> QED
    BY <1>4, <1>5, <1>6, <1>7, <1>8

\* Every step of a live scheduler forgets nobody.
LEMMA NextForgets == IInv /\ NoForgottenPeer /\ [Next]_vars => NoForgottenPeer'
  <1> SUFFICES ASSUME IInv, NoForgottenPeer, [Next]_vars PROVE NoForgottenPeer'
    OBVIOUS
  <1>1. CASE UNCHANGED vars
    BY <1>1 DEF vars, NoForgottenPeer, Queued, LoopAdding
  <1>2. CASE Next
    <2>1. ~crashed
      BY <1>2 DEF Next, Alive
    <2>2. ASSUME NEW p \in Clients,
                 \/ Register(p) \/ Awaken(p) \/ StoreRunning(p)
                 \/ Connect(p) \/ StartReport(p) \/ Disconnect(p)
                 \/ \E kind \in {"success", "fail", "leave"} : Report(p, kind)
          PROVE  NoForgottenPeer'
      BY <2>1, <2>2, RegisterForgets, HandlerForgets, ConnectForgets, StartReportForgets,
         DisconnectForgets, ReportForgets
    <2>3. ASSUME NEW p \in Clients, NEW dst \in Peers, NEW n \in 0..MaxPieces,
                 NEW outlier \in BOOLEAN, PieceSuccess(p, dst, n, outlier)
          PROVE  NoForgottenPeer'
      BY <2>1, <2>3, PieceSuccessForgets
    <2>4. ASSUME NEW p \in Clients, NEW dst \in Peers, NEW code, PieceFail(p, dst, code)
          PROVE  NoForgottenPeer'
      BY <2>1, <2>4, PieceFailForgets
    <2>5. ASSUME \/ \E r \in pending : ApplyReport(r)
                 \/ ReScheduleParent
                 \/ \E r \in waitQ : ReScheduleLoop(r)
                 \/ LoopBackToSource
          PROVE  NoForgottenPeer'
      BY <2>1, <2>5, ApplyReportForgets, ReScheduleParentForgets, ReScheduleLoopForgets,
         LoopBackToSourceForgets
    <2>6. ASSUME \/ \E c \in CDNs : InitCDNPeer(c)
                 \/ SeedPiece \/ SeedDone \/ SeedFail \/ SeedSuccessEvent
                 \/ TaskSeedFailEvent
          PROVE  NoForgottenPeer'
      BY <2>1, <2>6, SeedForgets
    <2>7. ASSUME \/ \E p \in Peers, idle, expired \in BOOLEAN :
                        PeerGCVisit(p, idle, expired)
                 \/ PeerGCLeave \/ PeerGCMark \/ PeerGCSweep
                 \/ \E idle \in BOOLEAN : TaskGC(idle)
          PROVE  NoForgottenPeer'
      BY <2>1, <2>7, PeerGCForgets
    <2>8. CASE Routine
      BY <2>2, <2>3, <2>5, <2>6, <2>7, <2>8 DEF Routine
    <2>9. CASE Disturbance
      BY <2>2, <2>4, <2>6, <2>7, <2>9 DEF Disturbance
    <2> QED
      BY <1>2, <2>8, <2>9 DEF Next
  <1> QED
    BY <1>1, <1>2

\* A registered client with an open stream that has neither a parent, nor a
\* packet, nor leave to go to the source is in the hands of the worker or of the
\* reschedule loop, after every mixture of failures, departures and collections.
THEOREM SchedulerForgetsNobody == Spec => []NoForgottenPeer
  <1>1. Init => NoForgottenPeer
    BY DEF Init, NoForgottenPeer
  <1>2. IInv /\ NoForgottenPeer /\ [Next]_vars => NoForgottenPeer'
    BY NextForgets
  <1> QED
    BY <1>1, <1>2, SchedulerInvariant, PTL DEF Spec
=============================================================================
