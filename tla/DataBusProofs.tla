--------------------------- MODULE DataBusProofs ---------------------------
(***************************************************************************)
(* Theorems about DataBus and NetworkNode, for every number of threads,    *)
(* topics, subscriptions, participants, peers and publications.            *)
(***************************************************************************)
EXTENDS NetworkNode, SequenceTheorems, TLAPS

Peers   == [rel : Parts \ Joining, raw : Parts \ Joining]
Entries == [val : Vals, type : Types]
Letters == [sub : Subs, val : Vals]
Packets == [part : Parts, val : Vals]

(* The calls a thread may be in.                                           *)
Early       == {"local", "call", "interest"}
Publishing  == Early \cup {"send", "end"}
IdleCalls   == [stage : {"idle"}]
SubCalls    == [stage : {"connect", "cache", "last"}, sub : Subs, vals : SUBSET Vals]
PubCalls    ==
  [stage : Publishing, topic : Topics, val : Vals, local : BOOLEAN, signal : BOOLEAN, serializer : BOOLEAN,
   parts : Seq(Parts), handled : BOOLEAN, todo : Seq(Subs), to : SUBSET Parts]
AddCalls    == [stage : {"add"}, part : Joining]
JoinCalls   == [stage : {"joins bus"}, peer : Peers, todo : Seq(Parts)]
ApplyCalls  == [stage : {"applies"}, peer : Peers, at : Nat]
SpreadCalls == [stage : {"spreads"}, topic : Topics \X Tiers, at : Nat]
StopCalls   == [stage : {"exits", "joins thread"}]
RemoveCalls == [stage : {"removes"}, at : Nat, todo : Seq(Tiers)]
DetachCalls == [stage : {"detaches"}, at : Nat]
NodeRuns    == JoinCalls \cup ApplyCalls \cup SpreadCalls \cup StopCalls \cup RemoveCalls \cup DetachCalls
AsideRuns   == IdleCalls \cup AddCalls \cup NodeRuns

(* The types: of the tables, of the calls and of what is on its way.       *)
Tables ==
  /\ types \in [Topics -> Types \cup {Nil}] /\ signals \subseteq Topics /\ qos \subseteq Topics /\ serializers \subseteq Topics
  /\ lastValue \in [Topics -> Entries \cup {Nil}]
  /\ \A t \in signals : types[t] # Nil
RunTypes ==
  /\ run \in [Threads -> SubCalls \cup PubCalls \cup AsideRuns]
  /\ subs \in [Topics -> Seq(Subs)]
  /\ \A s \in Subs : Connected(s) => TopicOf[s] \in signals
  /\ \A p \in Threads : run[p] \in SubCalls => TopicOf[run[p].sub] \in signals
MemberTypes ==
  /\ parts \in Seq(Parts) /\ Len(parts) <= MaxParticipants /\ errConn = parts
  /\ remoteTopics \in [Parts -> SUBSET Topics]
  /\ sendThread \subseteq Parts /\ closed \subseteq Parts /\ sender \in {"runs", "exits", "gone"}
ErrTypes ==
  /\ reported \subseteq Topics \X Errors /\ latched \in [Parts -> SUBSET Topics]
  /\ continuous \in BOOLEAN /\ ended \in BOOLEAN
  /\ fired \in [Topics -> [Errors -> {0, 1}]]
  /\ \A t \in Topics, e \in Errors : <<t, e>> \notin reported => fired[t][e] = 0
WayTypes ==
  /\ mail \in Seq(Letters) /\ got \in [Subs -> Seq(Vals)] /\ guard \in [Subs -> (0 .. NumMod - 1) \cup {Nil}]
  /\ outbox \in Seq(Packets) /\ sent \in [Parts -> Seq(Vals)] /\ thrown \subseteq Vals
  /\ pubs \in 0 .. MaxPub /\ remote \in [Vals -> SUBSET Parts]
NodeTypes ==
  /\ usesNode \in BOOLEAN /\ m_running \in BOOLEAN /\ m_thread \in BOOLEAN
  /\ handlers \in [Topics -> Types \cup {Nil}] \cup {Nil} /\ (m_running => handlers # Nil)
  /\ m_inTopics \in Seq(Topics \X Types) /\ m_outTopics \in Seq(Topics \X Tiers)
  /\ m_peers \in Seq(Peers) /\ added \in 0 .. Len(PeerParts)
  /\ tick \in {"none", "due", "queued", "running"} /\ before \subseteq Vals \X Parts

BusTypes == Tables /\ RunTypes /\ MemberTypes /\ ErrTypes /\ WayTypes
BInv == BusTypes /\ NodeTypes

(* A value is stored when its topic has a type, and is of it.              *)
Cache ==
  /\ \A t \in qos : types[t] # Nil
  /\ \A t \in Topics : lastValue[t] # Nil => types[t] # Nil /\ lastValue[t].type = types[t]

-----------------------------------------------------------------------------
(* The guard, where there is one, has the newest of what came.             *)
Newest(s) ==
  s \in OnWorker =>
    IF got[s] = <<>> THEN guard[s] = Nil
    ELSE \E m \in ToSet(got[s]) : guard[s] = Stamp(m) /\ \A w \in ToSet(got[s]) : w <= m

(* The last value has come to s, or is on its way.                         *)
Came(s, v) == v \in ToSet(got[s]) \/ [sub |-> s, val |-> v] \in ToSet(mail)
Brings(c, s, v) ==
  \/ c.stage = "local" /\ c.signal /\ c.topic = TopicOf[s] /\ c.val = v
  \/ c.stage = "call" /\ c.val = v /\ s \in ToSet(c.todo)
  \/ c.stage = "cache" /\ c.sub = s
  \/ c.stage = "last" /\ c.sub = s /\ v \in c.vals
Covered(s) ==
  Connected(s) /\ lastValue[TopicOf[s]] # Nil =>
    LET v == lastValue[TopicOf[s]].val IN Came(s, v) \/ \E p \in Threads : Brings(run[p], s, v)
OneLast == \A p \in Threads : run[p].stage = "last" => \A v, w \in run[p].vals : v = w

UInv == (\A s \in Subs : Newest(s)) /\ OneLast /\ \A s \in Cached \ Lifespan : Covered(s)

-----------------------------------------------------------------------------
(* The node: one caller at a time is within it.                            *)
Inside(p)  == run[p].stage \in Within
IsClosed(peer) == peer.rel \in closed /\ peer.raw \in closed

WithinOne ==
  /\ \A p, q \in Threads : Inside(p) /\ Inside(q) => p = q
  /\ \A p \in Threads : Inside(p) => p \in Callers /\ usesNode
  /\ ~usesNode => sender = "runs"
  /\ sender = "exits" => \E p \in Threads : At(p, "joins thread")

(* A participant that has a topic is a peer's, and gone when it is closed. *)
OfPeer(x) == \E i \in 1 .. Len(m_peers), a \in Tiers : m_peers[i][a] = x
Placed ==
  \A x \in Parts : remoteTopics[x] # {} =>
    x \in closed \/ OfPeer(x) \/ (\E p \in Threads : At(p, "applies") /\ \E a \in Tiers : run[p].peer[a] = x)

-----------------------------------------------------------------------------
(* A value is in one place on its way to a participant.                    *)
Ahead(c, x) == c.stage \in Early \/ (c.stage = "send" /\ x \in c.to)
Unshared ==
  /\ \A p, q \in Threads : run[p] \in PubCalls /\ run[q] \in PubCalls /\ run[p].val = run[q].val => p = q
  /\ \A p \in Threads : run[p] \in PubCalls => run[p].val <= pubs /\ run[p].val \notin thrown
  /\ \A p \in Threads : At(p, "send") => \A x \in run[p].to : run[p].topic \in remoteTopics[x]
  /\ \A v \in Vals : v > pubs => remote[v] = {} /\ v \notin thrown
Once(x) ==
  /\ IsInjective(sent[x])
  /\ \A v \in ToSet(sent[x]) : v <= pubs /\ [part |-> x, val |-> v] \notin ToSet(outbox)
  /\ \A p \in Threads : run[p] \in PubCalls /\ Ahead(run[p], x) =>
       run[p].val \notin ToSet(sent[x]) /\ [part |-> x, val |-> run[p].val] \notin ToSet(outbox)
OutOnce == IsInjective(outbox) /\ \A b \in ToSet(outbox) : b.val <= pubs

Bound(c, x, v) ==
  /\ c \in PubCalls /\ c.val = v
  /\ \/ c.stage \in Early /\ x \in ToSet(c.parts) /\ c.topic \in remoteTopics[x] /\ ~c.local /\ c.serializer
     \/ c.stage = "send" /\ x \in c.to
Leaves(c, x) ==
  \/ c.stage = "joins thread" /\ OfPeer(x)
  \/ c.stage \in {"removes", "detaches"} /\ \E i \in 1 .. Len(m_peers), a \in Tiers : i <= c.at /\ m_peers[i][a] = x
OnWay(v, x) ==
  \/ v \in thrown \/ x \in closed \/ v \in ToSet(sent[x]) \/ [part |-> x, val |-> v] \in ToSet(outbox)
  \/ \E p \in Threads : Bound(run[p], x, v) \/ Leaves(run[p], x)
-----------------------------------------------------------------------------
(* A sequence without one of its elements.                                 *)
LEMMA RemovedAt ==
  ASSUME NEW S, NEW z \in Seq(S), NEW i \in 1 .. Len(z)
  PROVE  /\ RemoveAt(z, i) \in Seq(S) /\ Len(RemoveAt(z, i)) = Len(z) - 1
         /\ ToSet(RemoveAt(z, i)) \subseteq ToSet(z)
         /\ \A r \in ToSet(z) : r # z[i] => r \in ToSet(RemoveAt(z, i))
<1>0. Len(z) \in Nat /\ \A j \in 1 .. Len(z) : z[j] \in S
  OBVIOUS
<1>a. PICK y : y = SubSeq(z, 1, i - 1)
  OBVIOUS
<1>b. PICK x : x = SubSeq(z, i + 1, Len(z))
  OBVIOUS
<1>1. y \in Seq(S) /\ Len(y) = i - 1 /\ \A j \in 1 .. i - 1 : y[j] = z[j]
  BY <1>0, <1>a, SubSeqProperties
<1>2. x \in Seq(S) /\ Len(x) = Len(z) - i /\ \A j \in 1 .. Len(z) - i : x[j] = z[j + i]
  BY <1>0, <1>b, SubSeqProperties
<1>c. PICK w : w = y \o x
  OBVIOUS
<1>3. w = RemoveAt(z, i)
  BY <1>a, <1>b, <1>c DEF RemoveAt
<1>4. /\ w \in Seq(S) /\ Len(w) = Len(z) - 1
      /\ \A j \in 1 .. Len(w) : w[j] = IF j < i THEN z[j] ELSE z[j + 1]
  <2>1. /\ y \o x \in Seq(S)
        /\ Len(y \o x) = Len(y) + Len(x)
        /\ \A j \in 1 .. Len(y) + Len(x) : (y \o x)[j] = IF j <= Len(y) THEN y[j] ELSE x[j - Len(y)]
    BY <1>1, <1>2, ConcatProperties
  <2>2. Len(w) = Len(z) - 1
    BY <1>0, <1>1, <1>2, <1>c, <2>1
  <2>3. ASSUME NEW j \in 1 .. Len(w) PROVE w[j] = IF j < i THEN z[j] ELSE z[j + 1]
    <3>0. w[j] = IF j <= i - 1 THEN y[j] ELSE x[j - (i - 1)]
      BY <1>0, <1>1, <1>2, <1>c, <2>1, <2>2
    <3>1. CASE j < i
      BY <1>0, <1>1, <2>2, <3>0, <3>1
    <3>2. CASE j >= i
      <4>1. j - (i - 1) \in 1 .. Len(z) - i /\ j - (i - 1) + i = j + 1
        BY <1>0, <2>2, <3>2
      <4> QED
        BY <1>0, <1>2, <3>0, <3>2, <4>1
    <3> QED
      BY <1>0, <2>2, <3>1, <3>2
  <2> QED
    BY <1>c, <2>1, <2>2, <2>3
<1>5. ASSUME NEW r \in ToSet(w) PROVE r \in ToSet(z)
  <2>1. PICK j \in 1 .. Len(w) : r = w[j]
    BY <1>4, <1>5 DEF ToSet
  <2>2. PICK k \in 1 .. Len(z) : r = z[k]
    BY <1>4, <2>1
  <2> QED
    BY <2>2 DEF ToSet
<1>6. ASSUME NEW r \in ToSet(z), r # z[i] PROVE r \in ToSet(w)
  <2>1. PICK k \in 1 .. Len(z) : r = z[k]
    BY <1>6 DEF ToSet
  <2>2. CASE k < i
    <3>1. k \in 1 .. Len(w) /\ r = w[k]
      BY <1>4, <2>1, <2>2
    <3> QED
      BY <1>4, <3>1 DEF ToSet
  <2>3. CASE k > i
    <3>1. k - 1 \in 1 .. Len(w) /\ ~(k - 1 < i) /\ (k - 1) + 1 = k
      BY <1>4, <2>1, <2>3
    <3>2. r = w[k - 1]
      BY <1>4, <2>1, <3>1
    <3> QED
      BY <1>4, <3>1, <3>2 DEF ToSet
  <2> QED
    BY <1>6, <2>1, <2>2, <2>3
<1> QED
  BY <1>3, <1>4, <1>5, <1>6

(* What a thread is in is known from its stage.                            *)
LEMMA Stages ==
  ASSUME NEW c \in SubCalls \cup PubCalls \cup AsideRuns
  PROVE  /\ c.stage \in {"connect", "cache", "last"} => c \in SubCalls
         /\ c.stage \in Publishing => c \in PubCalls
         /\ c.stage = "add" => c \in AddCalls
         /\ c.stage = "joins bus" => c \in JoinCalls
         /\ c.stage = "applies" => c \in ApplyCalls
         /\ c.stage = "spreads" => c \in SpreadCalls
         /\ c.stage = "removes" => c \in RemoveCalls
         /\ c.stage = "detaches" => c \in DetachCalls
<1> USE DEF Publishing, Early
<1>1. CASE c \in SubCalls
  BY <1>1 DEF SubCalls
<1>2. CASE c \in PubCalls
  BY <1>2 DEF PubCalls
<1>3. CASE c \in IdleCalls \cup AddCalls \cup StopCalls
  BY <1>3 DEF IdleCalls, AddCalls, StopCalls
<1>4. CASE c \in JoinCalls \cup ApplyCalls
  BY <1>4 DEF JoinCalls, ApplyCalls
<1>5. CASE c \in SpreadCalls \cup RemoveCalls \cup DetachCalls
  BY <1>5 DEF SpreadCalls, RemoveCalls, DetachCalls
<1> QED
  BY <1>1, <1>2, <1>3, <1>4, <1>5 DEF AsideRuns, NodeRuns

LEMMA Kinds ==
  ASSUME NEW c \in SubCalls \cup PubCalls \cup AsideRuns
  PROVE  /\ c \in SubCalls => c.stage \in {"connect", "cache", "last"} /\ c.sub \in Subs /\ c.vals \subseteq Vals
         /\ c \in PubCalls => c.stage \in Publishing
         /\ c \in SubCalls => c \notin PubCalls
         /\ c.stage \notin {"connect", "cache", "last"} \cup Publishing => c \notin SubCalls /\ c \notin PubCalls
BY DEF SubCalls, PubCalls, Publishing, Early

LEMMA IdleFacts == Idle \in AsideRuns /\ Idle \notin SubCalls /\ Idle \notin PubCalls /\ Idle.stage = "idle"
BY DEF Idle, AsideRuns, IdleCalls, SubCalls, PubCalls, Publishing, Early

LEMMA RunAt ==
  ASSUME RunTypes, NEW p \in Threads
  PROVE  run[p] \in SubCalls \cup PubCalls \cup AsideRuns
BY DEF RunTypes

LEMMA RunAfter ==
  ASSUME RunTypes, NEW p \in Threads, NEW c, Goto(p, c), NEW q \in Threads
  PROVE  run'[q] = IF q = p THEN c ELSE run[q]
BY DEF RunTypes, Goto

(* A thread goes on to another call.                                       *)
LEMMA GoOn ==
  ASSUME RunTypes, NEW p \in Threads, NEW c \in SubCalls \cup PubCalls \cup AsideRuns, Goto(p, c),
         c \in SubCalls => TopicOf[c.sub] \in signals', signals \subseteq signals',
         UNCHANGED subs
  PROVE  RunTypes'
<1>1. run' \in [Threads -> SubCalls \cup PubCalls \cup AsideRuns]
  BY DEF RunTypes, Goto
<1>2. \A s \in Subs : Connected(s)' => TopicOf[s] \in signals'
  BY DEF RunTypes, Connected
<1>3. ASSUME NEW q \in Threads, run'[q] \in SubCalls
      PROVE  TopicOf[run'[q].sub] \in signals'
  <2>1. run'[q] = IF q = p THEN c ELSE run[q]
    BY RunAfter
  <2> QED
    BY <1>3, <2>1 DEF RunTypes
<1> QED
  BY <1>1, <1>2, <1>3 DEF RunTypes

LEMMA RunStays ==
  ASSUME RunTypes, UNCHANGED <<run, subs>>, signals \subseteq signals'
  PROVE  RunTypes'
BY DEF RunTypes, Connected

LEMMA Numbers == /\ NumMod \in Nat /\ NumMod > 0 /\ MaxPub \in Nat /\ MaxOps \in Nat /\ First \in 0 .. NumMod - 1
                 /\ NumMod > 2 * MaxPub
BY DataBusConstants

LEMMA StampTypes ==
  ASSUME NEW v \in Vals
  PROVE  Stamp(v) \in 0 .. NumMod - 1
<1>1. First + v \in Int
  BY Numbers DEF Vals
<1> QED
  BY <1>1, Numbers DEF Stamp

LEMMA TypesInit == NodeInit => BInv
<1> SUFFICES ASSUME NodeInit PROVE BInv
  OBVIOUS
<1> USE DEF NodeInit, Init
<1>1. Tables
  BY DEF Tables
<1>2. RunTypes
  <2>1. run \in [Threads -> SubCalls \cup PubCalls \cup AsideRuns]
    BY IdleFacts
  <2>2. \A s \in Subs : ~Connected(s)
    BY DataBusConstants DEF Connected, ToSet
  <2>3. \A p \in Threads : run[p] \notin SubCalls
    BY IdleFacts
  <2>4. <<>> \in Seq(Subs) /\ subs \in [Topics -> Seq(Subs)]
    OBVIOUS
  <2> QED
    BY <2>1, <2>2, <2>3, <2>4 DEF RunTypes
<1>3. MemberTypes
  <2>1. Len(parts) <= MaxParticipants
    BY DataBusConstants
  <2> QED
    BY <2>1, DataBusConstants DEF MemberTypes
<1>4. ErrTypes
  BY DEF ErrTypes
<1>5. WayTypes
  BY Numbers DEF WayTypes, Vals
<1>6. NodeTypes
  <2>1. Len(PeerParts) \in Nat /\ 0 \in 0 .. Len(PeerParts)
    BY NodeConstants
  <2>2. m_inTopics \in Seq(Topics \X Types) /\ m_outTopics \in Seq(Topics \X Tiers) /\ m_peers \in Seq(Peers)
    OBVIOUS
  <2>3. usesNode \in BOOLEAN /\ m_running \in BOOLEAN /\ m_thread \in BOOLEAN
    OBVIOUS
  <2> QED
    BY <2>1, <2>2, <2>3 DEF NodeTypes
<1> QED
  BY <1>1, <1>2, <1>3, <1>4, <1>5, <1>6 DEF BInv, BusTypes

-----------------------------------------------------------------------------
(* What the parts of an action do to the types.                            *)
LEMMA ReportTypes ==
  ASSUME ErrTypes, NEW t \in Topics, NEW e \in Errors, InternalReportLatchedError(t, e),
         latched' \in [Parts -> SUBSET Topics], UNCHANGED continuous, ended' \in BOOLEAN
  PROVE  ErrTypes'
<1>1. reported' \subseteq Topics \X Errors
  BY DEF ErrTypes, InternalReportLatchedError
<1>2. \A u \in Topics, f \in Errors :
         fired'[u][f] = IF u = t /\ f = e /\ <<t, e>> \notin reported /\ ~continuous THEN fired[u][f] + 1 ELSE fired[u][f]
  BY DEF ErrTypes, InternalReportLatchedError
<1>3. fired' \in [Topics -> [Errors -> {0, 1}]]
  <2> PICK k : k = IF <<t, e>> \notin reported /\ ~continuous THEN fired[t][e] + 1 ELSE fired[t][e]
    OBVIOUS
  <2>1. fired' = [fired EXCEPT ![t][e] = k]
    BY DEF InternalReportLatchedError
  <2>2. k \in {0, 1}
    BY DEF ErrTypes
  <2>3. fired[t] \in [Errors -> {0, 1}]
    BY DEF ErrTypes
  <2>4. [fired[t] EXCEPT ![e] = k] \in [Errors -> {0, 1}]
    BY <2>2, <2>3
  <2> QED
    BY <2>1, <2>4 DEF ErrTypes
<1>4. ASSUME NEW u \in Topics, NEW f \in Errors, <<u, f>> \notin reported'
      PROVE  fired'[u][f] = 0
  <2>1. <<u, f>> \notin reported /\ ~(u = t /\ f = e)
    BY <1>4 DEF InternalReportLatchedError
  <2> QED
    BY <1>2, <2>1 DEF ErrTypes
<1> QED
  BY <1>1, <1>3, <1>4 DEF ErrTypes

LEMMA MismatchTypes ==
  ASSUME ErrTypes, NEW t \in Topics, Mismatch(t)
  PROVE  ErrTypes'
BY ReportTypes DEF Mismatch, Errors, ErrTypes

LEMMA ErrsStay ==
  ASSUME ErrTypes, UNCHANGED <<reported, latched, continuous, fired>>, ended' \in BOOLEAN
  PROVE  ErrTypes'
BY DEF ErrTypes

LEMMA AssertTypes ==
  ASSUME ErrTypes, UNCHANGED errs \/ Asserts
  PROVE  ErrTypes'
BY ErrsStay DEF Asserts, errs, ErrTypes

LEMMA WayStays ==
  ASSUME WayTypes, UNCHANGED <<arrived, outgoing, pubs, remote>>
  PROVE  WayTypes'
BY DEF WayTypes, arrived, outgoing

LEMMA ReachTypes ==
  ASSUME WayTypes, NEW s \in Subs, NEW v \in Vals, Reaches(s, v)
  PROVE  got' \in [Subs -> Seq(Vals)]
<1>1. Append(got[s], v) \in Seq(Vals)
  BY DEF WayTypes
<1> QED
  BY <1>1 DEF WayTypes, Reaches

LEMMA GuardTypes ==
  ASSUME WayTypes, NEW s \in Subs, NEW v \in Vals, Guarded(s, v)
  PROVE  guard' \in [Subs -> (0 .. NumMod - 1) \cup {Nil}]
<1>1. Stamp(v) \in 0 .. NumMod - 1
  BY StampTypes
<1> QED
  BY <1>1 DEF WayTypes, Guarded

LEMMA DeliverTypes ==
  ASSUME WayTypes, NEW s \in Subs, NEW v \in Vals, Deliver(s, v), UNCHANGED <<outgoing, pubs, remote>>
  PROVE  WayTypes'
<1>1. PICK m \in Letters : m = [sub |-> s, val |-> v]
  BY DEF Letters
<1>2. mail' \in Seq(Letters)
  <2>1. mail \in Seq(Letters) /\ Append(mail, m) \in Seq(Letters)
    BY <1>1 DEF WayTypes
  <2>2. mail' = mail \/ mail' = Append(mail, m)
    BY <1>1 DEF Deliver
  <2> QED
    BY <2>1, <2>2
<1>3. got' \in [Subs -> Seq(Vals)] /\ guard' \in [Subs -> (0 .. NumMod - 1) \cup {Nil}]
  BY ReachTypes DEF Deliver, WayTypes
<1> QED
  BY <1>2, <1>3 DEF WayTypes, outgoing

LEMMA ServeTypes ==
  ASSUME WayTypes, WorkerServes
  PROVE  WayTypes' /\ Head(mail) \in Letters /\ Head(mail).sub \in Subs /\ Head(mail).val \in Vals
<1>1. Head(mail) \in Letters /\ Tail(mail) \in Seq(Letters)
  BY DEF WayTypes, WorkerServes
<1>2. Head(mail).sub \in Subs /\ Head(mail).val \in Vals
  BY <1>1 DEF Letters
<1>3. got' \in [Subs -> Seq(Vals)] /\ guard' \in [Subs -> (0 .. NumMod - 1) \cup {Nil}]
  BY <1>2, ReachTypes, GuardTypes DEF WorkerServes
<1> QED
  BY <1>1, <1>2, <1>3 DEF WayTypes, WorkerServes, outgoing, bounds

LEMMA TransmitTypes ==
  ASSUME WayTypes, NEW x \in Parts, NEW v \in Vals, Transmit(x, v)
  PROVE  sent' \in [Parts -> Seq(Vals)]
<1>1. Append(sent[x], v) \in Seq(Vals)
  BY DEF WayTypes
<1> QED
  BY <1>1 DEF WayTypes, Transmit

LEMMA AsyncTypes ==
  ASSUME WayTypes, AsyncSend
  PROVE  WayTypes' /\ Head(outbox) \in Packets /\ Head(outbox).part \in Parts /\ Head(outbox).val \in Vals
<1>1. Head(outbox) \in Packets /\ Tail(outbox) \in Seq(Packets)
  BY DEF WayTypes, AsyncSend
<1>2. Head(outbox).part \in Parts /\ Head(outbox).val \in Vals
  BY <1>1 DEF Packets
<1>3. sent' \in [Parts -> Seq(Vals)]
  BY <1>2, TransmitTypes DEF AsyncSend
<1> QED
  BY <1>1, <1>2, <1>3 DEF WayTypes, AsyncSend, arrived, bounds

LEMMA SendTypes ==
  ASSUME WayTypes, sender \in {"runs", "exits", "gone"}, NEW p \in Threads, run[p].val \in Vals, NEW x \in Parts,
         SendBy(p, x), UNCHANGED <<arrived, bounds>>
  PROVE  WayTypes'
<1>0. PICK m \in Packets : m = [part |-> x, val |-> run[p].val]
  BY DEF Packets
<1>1. CASE x \notin sendThread
  <2>1. sent' \in [Parts -> Seq(Vals)] /\ UNCHANGED <<outbox, thrown>>
    BY <1>1, TransmitTypes DEF SendBy
  <2> QED
    BY <2>1 DEF WayTypes, arrived, bounds
<1>2. CASE x \in sendThread /\ sender = "runs"
  <2>1. outbox' = Append(outbox, m) /\ UNCHANGED <<sent, thrown>>
    BY <1>0, <1>2 DEF SendBy
  <2>2. outbox' \in Seq(Packets)
    BY <1>0, <2>1 DEF WayTypes
  <2> QED
    BY <2>1, <2>2 DEF WayTypes, arrived, bounds
<1>3. CASE x \in sendThread /\ sender = "exits"
  BY <1>3 DEF SendBy, WayTypes, outgoing, arrived, bounds
<1>4. CASE x \in sendThread /\ sender = "gone"
  BY <1>4 DEF SendBy, WayTypes, arrived, bounds
<1> QED
  BY <1>1, <1>2, <1>3, <1>4

LEMMA TablesStay ==
  ASSUME Tables, UNCHANGED <<types, signals, qos, lastValue, serializers>>
  PROVE  Tables'
BY DEF Tables

LEMMA MembersStay ==
  ASSUME MemberTypes, UNCHANGED members
  PROVE  MemberTypes'
BY DEF MemberTypes, members, wiring

LEMMA NodeStays ==
  ASSUME NodeTypes, UNCHANGED nodeVars
  PROVE  NodeTypes'
BY DEF NodeTypes, nodeVars

(* A topic gets a type, or keeps the one it has.                           *)
LEMMA TypeGiven ==
  ASSUME Tables, NEW t \in Topics, NEW type \in Types, types' = [types EXCEPT ![t] = type],
         signals' \subseteq signals \cup {t}, qos' \subseteq qos \cup {t}, serializers' \subseteq serializers \cup {t},
         UNCHANGED lastValue
  PROVE  Tables'
<1>1. types' \in [Topics -> Types \cup {Nil}] /\ \A u \in Topics : types'[u] = IF u = t THEN type ELSE types[u]
  BY DEF Tables
<1>2. \A u \in signals' : types'[u] # Nil
  BY <1>1, DataBusConstants DEF Tables
<1> QED
  BY <1>1, <1>2 DEF Tables

LEMMA SubscribeLockTypes ==
  ASSUME BusTypes, NEW p \in Callers, NEW s \in Subs, SubscribeLock(p, s)
  PROVE  BusTypes'
<1> PICK t \in Topics : t = TopicOf[s]
  BY DataBusConstants
<1>0. p \in Threads /\ TypeOf[s] \in Types
  BY DataBusConstants
<1> USE DEF BusTypes
<1>1. WayTypes' /\ MemberTypes'
  BY WayStays, MembersStay DEF SubscribeLock, Calls
<1>2. CASE Fits(t, TypeOf[s])
  <2>1. types' = [types EXCEPT ![t] = TypeOf[s]] /\ signals' = signals \cup {t} /\ UNCHANGED errs
    BY <1>2 DEF SubscribeLock
  <2>2. Tables'
    BY <1>0, <2>1, TypeGiven DEF SubscribeLock
  <2>3. ErrTypes'
    BY <2>1, AssertTypes
  <2>4. PICK c \in SubCalls : c = [stage |-> "connect", sub |-> s, vals |-> {}]
    BY DEF SubCalls
  <2>5. Goto(p, c)
    BY <1>2, <2>4 DEF SubscribeLock, Then
  <2>6. RunTypes'
    BY <1>0, <2>1, <2>4, <2>5, GoOn DEF SubscribeLock
  <2> QED
    BY <1>1, <2>2, <2>3, <2>6
<1>3. CASE ~Fits(t, TypeOf[s])
  <2>1. Mismatch(t) /\ UNCHANGED <<types, signals, run, subs, lastValue, serializers>> /\ qos' \subseteq qos \cup {t}
    BY <1>3 DEF SubscribeLock
  <2>2. Tables' /\ RunTypes' /\ ErrTypes'
    BY <2>1, RunStays, MismatchTypes DEF Tables
  <2> QED
    BY <1>1, <2>2
<1> QED
  BY <1>2, <1>3

LEMMA InternalSubscribeTypes ==
  ASSUME BusTypes, NEW p \in Callers, InternalSubscribe(p)
  PROVE  BusTypes'
<1>0. p \in Threads
  BY DataBusConstants
<1> USE DEF BusTypes
<1>1. Tables' /\ MemberTypes'
  BY TablesStay, MembersStay DEF InternalSubscribe
<1>2. ErrTypes'
  BY AssertTypes DEF InternalSubscribe
<1>0a. UNCHANGED <<outgoing, pubs, remote>>
  BY DEF InternalSubscribe, bounds
<1>3. run[p].stage \in {"connect", "cache", "last"}
  BY DEF InternalSubscribe, SubscribeConnect, SubscribeReadCache, SubscribeDeliver, At
<1>4. run[p] \in SubCalls
  BY <1>0, <1>3, RunAt, Stages
<1>5. run[p].sub \in Subs /\ run[p].vals \subseteq Vals /\ TopicOf[run[p].sub] \in signals
  BY <1>0, <1>4 DEF SubCalls, RunTypes
<1>6. ASSUME SubscribeConnect(p)
      PROVE  RunTypes' /\ WayTypes'
  <2>1. PICK t \in Topics : t = TopicOf[run[p].sub]
    BY <1>5, DataBusConstants
  <2>2. PICK c : c = [run[p] EXCEPT !.stage = "cache"]
    OBVIOUS
  <2>3. c \in SubCalls /\ c.sub = run[p].sub
    BY <1>4, <2>2 DEF SubCalls
  <2>4. Goto(p, c) /\ subs' = [subs EXCEPT ![t] = Append(@, run[p].sub)]
    BY <1>6, <2>1, <2>2 DEF SubscribeConnect, Then
  <2>5. run' \in [Threads -> SubCalls \cup PubCalls \cup AsideRuns]
    BY <2>3, <2>4 DEF RunTypes, Goto
  <2>6. Append(subs[t], run[p].sub) \in Seq(Subs)
    BY <1>5 DEF RunTypes
  <2>7. subs' \in [Topics -> Seq(Subs)]
    BY <2>4, <2>6 DEF RunTypes
  <2>8. ASSUME NEW s \in Subs, Connected(s)'
        PROVE  TopicOf[s] \in signals'
    <3>1. Connected(s) \/ s = run[p].sub
      <4>1. CASE TopicOf[s] = t
        <5>1. subs'[t] = Append(subs[t], run[p].sub) /\ subs[t] \in Seq(Subs)
          BY <2>4 DEF RunTypes
        <5>2. s \in ToSet(Append(subs[t], run[p].sub))
          BY <2>8, <4>1, <5>1 DEF Connected
        <5> QED
          BY <4>1, <5>1, <5>2 DEF Connected, ToSet
      <4>2. CASE TopicOf[s] # t
        <5>1. subs'[TopicOf[s]] = subs[TopicOf[s]]
          BY <2>4, <4>2, DataBusConstants DEF RunTypes
        <5> QED
          BY <2>8, <5>1 DEF Connected
      <4> QED
        BY <4>1, <4>2
    <3> QED
      BY <1>5, <3>1 DEF RunTypes, InternalSubscribe
  <2>9. ASSUME NEW q \in Threads, run'[q] \in SubCalls
        PROVE  TopicOf[run'[q].sub] \in signals'
    <3>1. run'[q] = IF q = p THEN c ELSE run[q]
      BY <1>0, <2>4, RunAfter
    <3> QED
      BY <1>5, <2>3, <2>9, <3>1 DEF RunTypes, InternalSubscribe
  <2>10. WayTypes'
    BY <1>6, WayStays DEF SubscribeConnect, InternalSubscribe, bounds
  <2> QED
    BY <2>5, <2>7, <2>8, <2>9, <2>10 DEF RunTypes
<1>7. ASSUME SubscribeReadCache(p)
      PROVE  RunTypes' /\ WayTypes'
  <2>1. PICK vals : /\ vals \in {CacheFor(run[p].sub)} \cup {{}}
                    /\ Goto(p, [run[p] EXCEPT !.stage = "last", !.vals = vals])
    BY <1>7 DEF SubscribeReadCache, Then
  <2>2. CacheFor(run[p].sub) \subseteq Vals
    <3>1. TopicOf[run[p].sub] \in Topics
      BY <1>5, DataBusConstants
    <3>2. lastValue[TopicOf[run[p].sub]] # Nil => lastValue[TopicOf[run[p].sub]] \in Entries
      BY <3>1 DEF Tables
    <3> QED
      BY <3>2 DEF CacheFor, Entries
  <2>3. vals \in SUBSET Vals
    BY <2>1, <2>2
  <2>4. PICK c : c = [run[p] EXCEPT !.stage = "last", !.vals = vals]
    OBVIOUS
  <2>5. c \in SubCalls /\ c.sub = run[p].sub
    BY <1>4, <2>3, <2>4 DEF SubCalls
  <2>6. RunTypes'
    <3>1. Goto(p, c) /\ UNCHANGED <<subs, signals>>
      BY <1>7, <2>1, <2>4 DEF SubscribeReadCache, InternalSubscribe
    <3> QED
      BY <1>0, <1>5, <2>5, <3>1, GoOn
  <2>7. WayTypes'
    BY <1>7, WayStays DEF SubscribeReadCache, InternalSubscribe, bounds
  <2> QED
    BY <2>6, <2>7
<1>8. ASSUME SubscribeDeliver(p)
      PROVE  RunTypes' /\ WayTypes'
  <2>1. RunTypes'
    BY <1>0, <1>8, IdleFacts, GoOn DEF SubscribeDeliver, InternalSubscribe
  <2>2. CASE run[p].vals = {}
    <3>1. UNCHANGED arrived
      BY <1>8, <2>2 DEF SubscribeDeliver
    <3> QED
      BY <1>0a, <2>1, <3>1, WayStays
  <2>3. CASE run[p].vals # {}
    <3>1. PICK v \in run[p].vals : Deliver(run[p].sub, v)
      BY <1>8, <2>3 DEF SubscribeDeliver
    <3> QED
      <4>1. PICK r \in Subs : r = run[p].sub
        BY <1>5
      <4>2. v \in Vals /\ Deliver(r, v)
        BY <1>5, <3>1, <4>1
      <4> QED
        BY <1>0a, <2>1, <4>2, DeliverTypes
  <2> QED
    BY <2>1, <2>2, <2>3
<1> QED
  BY <1>1, <1>2, <1>6, <1>7, <1>8 DEF InternalSubscribe

LEMMA DisconnectTypes ==
  ASSUME BusTypes, NEW p \in Callers, NEW s \in Subs, Disconnect(p, s)
  PROVE  /\ BusTypes' /\ subs'[TopicOf[s]] \in Seq(Subs)
         /\ \A u \in Topics : ToSet(subs'[u]) \subseteq ToSet(subs[u])
<1> USE DEF BusTypes
<1>1. PICK t \in Topics : t = TopicOf[s]
  BY DataBusConstants
<1>2. PICK i \in 1 .. Len(subs[t]) : subs' = [subs EXCEPT ![t] = RemoveAt(@, i)]
  <2>1. DOMAIN subs[t] = 1 .. Len(subs[t])
    BY DEF RunTypes
  <2> QED
    BY <1>1, <2>1 DEF Disconnect
<1>3. RemoveAt(subs[t], i) \in Seq(Subs) /\ ToSet(RemoveAt(subs[t], i)) \subseteq ToSet(subs[t])
  <2>1. subs[t] \in Seq(Subs)
    BY DEF RunTypes
  <2> QED
    BY <2>1, RemovedAt
<1>4. subs' \in [Topics -> Seq(Subs)] /\ \A u \in Topics : ToSet(subs'[u]) \subseteq ToSet(subs[u])
  BY <1>2, <1>3 DEF RunTypes
<1>5. \A r \in Subs : Connected(r)' => Connected(r)
  BY <1>4, DataBusConstants DEF Connected
<1>6. RunTypes'
  BY <1>4, <1>5 DEF RunTypes, Disconnect
<1>7. Tables' /\ MemberTypes' /\ WayTypes'
  BY TablesStay, MembersStay, WayStays DEF Disconnect, Calls
<1>8. ErrTypes'
  BY AssertTypes DEF Disconnect
<1> QED
  BY <1>1, <1>4, <1>6, <1>7, <1>8

(* What a publication knows when it has left the lock.                     *)
LockCall(t, v, local) ==
  [stage |-> "local", topic |-> t, val |-> v, local |-> local, signal |-> t \in signals,
   serializer |-> t \in serializers, parts |-> parts, handled |-> FALSE, todo |-> <<>>, to |-> {}]

LEMMA LockTypes ==
  ASSUME MemberTypes, NEW t \in Topics, NEW v \in Vals, NEW local \in BOOLEAN
  PROVE  LockCall(t, v, local) \in PubCalls
<1>1. (t \in signals) \in BOOLEAN /\ (t \in serializers) \in BOOLEAN /\ FALSE \in BOOLEAN
  OBVIOUS
<1>2. parts \in Seq(Parts) /\ <<>> \in Seq(Subs) /\ {} \in SUBSET Parts /\ "local" \in Publishing
  BY DEF MemberTypes, Publishing, Early
<1> QED
  BY <1>1, <1>2 DEF LockCall, PubCalls

LEMMA LockCallFacts ==
  ASSUME NEW t, NEW v, NEW local
  PROVE  LET c == LockCall(t, v, local)
         IN  /\ c.stage = "local" /\ c.topic = t /\ c.val = v /\ c.local = local /\ c.parts = parts /\ c.to = {}
             /\ (c.signal <=> t \in signals) /\ (c.serializer <=> t \in serializers)
<1>1. PICK a : a = (t \in signals)
  OBVIOUS
<1>2. PICK b : b = (t \in serializers)
  OBVIOUS
<1>3. LockCall(t, v, local) =
        [stage |-> "local", topic |-> t, val |-> v, local |-> local, signal |-> a,
         serializer |-> b, parts |-> parts, handled |-> FALSE, todo |-> <<>>, to |-> {}]
  BY <1>1, <1>2, Zenon DEF LockCall
<1>4. PICK c : c = LockCall(t, v, local)
  OBVIOUS
<1>5. c.stage = "local" /\ c.topic = t /\ c.val = v /\ c.local = local /\ c.parts = parts /\ c.to = {}
  BY <1>3, <1>4
<1>6. c.signal = a /\ c.serializer = b
  BY <1>3, <1>4
<1>7. (c.signal <=> t \in signals) /\ (c.serializer <=> t \in serializers)
  BY <1>1, <1>2, <1>6, Zenon
<1> QED
  BY <1>4, <1>5, <1>7, Zenon

LEMMA LockFacts ==
  ASSUME BusTypes, NEW p \in Threads, NEW t \in Topics, NEW type \in Types, NEW local \in BOOLEAN, PublishLock(p, t, type, local)
  PROVE  /\ pubs' \in Vals /\ pubs' = pubs + 1
         /\ Fits(t, type) => /\ Goto(p, LockCall(t, pubs', local)) /\ UNCHANGED errs
                             /\ remote' = [remote EXCEPT ![pubs'] = IF local \/ t \notin serializers THEN {}
                                                   ELSE {x \in ToSet(parts) : t \in remoteTopics[x]}]
         /\ ~Fits(t, type) => Mismatch(t) /\ UNCHANGED <<run, remote>>
<1>1. pubs \in Nat /\ pubs' = pubs + 1 /\ pubs < MaxPub
  BY Numbers DEF BusTypes, WayTypes, PublishLock
<1>2. pubs' \in Vals
  BY <1>1, Numbers DEF Vals
<1> QED
  BY <1>1, <1>2 DEF PublishLock, LockCall

LEMMA PublishLockTypes ==
  ASSUME BusTypes, NEW p \in Threads, NEW t \in Topics, NEW type \in Types, NEW local \in BOOLEAN, PublishLock(p, t, type, local)
  PROVE  BusTypes'
<1> USE DEF BusTypes
<1>1. pubs' \in Vals /\ pubs' \in 0 .. MaxPub
  BY LockFacts, Numbers DEF Vals
<1>2. MemberTypes'
  BY MembersStay DEF PublishLock
<1>3. Tables'
  <2>1. PICK e \in Entries : e = [val |-> pubs', type |-> type]
    BY <1>1 DEF Entries
  <2>2. lastValue' = lastValue \/ lastValue' = [lastValue EXCEPT ![t] = e]
    BY <2>1 DEF PublishLock, StoreLast
  <2>3. UNCHANGED <<types, signals, qos, serializers>>
    BY DEF PublishLock
  <2> QED
    BY <2>2, <2>3 DEF Tables
<1>4. UNCHANGED <<mail, got, guard, outbox, sent, thrown, signals, subs>>
  BY DEF PublishLock, arrived, outgoing
<1>5. CASE Fits(t, type)
  <2>1. ErrTypes'
    BY <1>5, LockFacts, AssertTypes
  <2>2. PICK c \in PubCalls : c = LockCall(t, pubs', local)
    BY <1>1, LockTypes
  <2>3. Goto(p, c) /\ c \notin SubCalls
    BY <1>5, <2>2, LockFacts, Kinds
  <2>4. RunTypes'
    BY <1>4, <2>3, GoOn
  <2>5. ASSUME NEW v \in Vals
        PROVE  {x \in ToSet(parts) : t \in remoteTopics[x]} \subseteq Parts
    BY DEF MemberTypes, ToSet
  <2>6. PICK S \in SUBSET Parts : remote' = [remote EXCEPT ![pubs'] = S]
    BY <1>1, <1>5, <2>5, LockFacts
  <2>7. WayTypes'
    BY <1>1, <1>4, <2>6 DEF WayTypes
  <2> QED
    BY <1>2, <1>3, <2>1, <2>4, <2>7
<1>6. CASE ~Fits(t, type)
  <2>1. ErrTypes'
    BY <1>6, LockFacts, MismatchTypes
  <2>2. RunTypes'
    BY <1>4, <1>6, LockFacts, RunStays
  <2>3. WayTypes'
    BY <1>1, <1>4, <1>6, LockFacts DEF WayTypes
  <2> QED
    BY <1>2, <1>3, <2>1, <2>2, <2>3
<1> QED
  BY <1>5, <1>6

LEMMA InternalPublishTypes ==
  ASSUME BusTypes, NEW p \in Threads, InternalPublish(p)
  PROVE  BusTypes' /\ run[p] \in PubCalls
<1> USE DEF BusTypes
<1>1. Tables' /\ MemberTypes'
  BY TablesStay, MembersStay DEF InternalPublish, registry
<1>2. UNCHANGED <<subs, signals, pubs, remote>> /\ UNCHANGED bounds
  BY DEF InternalPublish, registry, bounds
<1>3. run[p].stage \in Publishing
  BY DEF InternalPublish, EmitLocal, CallSubscriber, FindInterest, SendRemote, PublishReturns, At, Publishing, Early
<1>4. run[p] \in PubCalls
  BY <1>3, RunAt, Stages
<1>5. /\ run[p].topic \in Topics /\ run[p].val \in Vals /\ run[p].parts \in Seq(Parts)
      /\ run[p].todo \in Seq(Subs) /\ run[p].to \subseteq Parts
  BY <1>4 DEF PubCalls
<1>6. ASSUME NEW c \in PubCalls \cup IdleCalls, Goto(p, c)
      PROVE  RunTypes'
  BY <1>2, <1>6, GoOn, Kinds, IdleFacts DEF AsideRuns, IdleCalls
<1>7. TRUE \in BOOLEAN /\ \A st \in {"call", "interest", "send", "end"} : st \in Publishing
  BY DEF Publishing, Early
<1>8. ASSUME EmitLocal(p)
      PROVE  RunTypes' /\ ErrTypes' /\ WayTypes'
  <2>1. subs[run[p].topic] \in Seq(Subs)
    BY <1>5 DEF RunTypes
  <2>2. PICK c \in PubCalls : c = [run[p] EXCEPT !.stage = "call", !.handled = TRUE, !.todo = subs[run[p].topic]]
    BY <1>4, <1>7, <2>1 DEF PubCalls
  <2>3. PICK d \in PubCalls : d = [run[p] EXCEPT !.stage = "interest"]
    BY <1>4, <1>7 DEF PubCalls
  <2>4. Goto(p, c) \/ Goto(p, d)
    BY <1>8, <2>2, <2>3 DEF EmitLocal
  <2> QED
    BY <1>2, <1>6, <1>8, <2>4, AssertTypes, WayStays DEF EmitLocal
<1>9. ASSUME CallSubscriber(p)
      PROVE  RunTypes' /\ ErrTypes' /\ WayTypes'
  <2>1. ErrTypes' /\ UNCHANGED outgoing
    BY <1>9, AssertTypes DEF CallSubscriber
  <2>2. CASE run[p].todo = <<>>
    <3>1. PICK c \in PubCalls : c = [run[p] EXCEPT !.stage = "interest"]
      BY <1>4, <1>7 DEF PubCalls
    <3>2. Goto(p, c) /\ UNCHANGED arrived
      BY <1>9, <2>2, <3>1 DEF CallSubscriber
    <3> QED
      BY <1>2, <1>6, <2>1, <3>2, WayStays
  <2>3. CASE run[p].todo # <<>>
    <3>1. Head(run[p].todo) \in Subs /\ Tail(run[p].todo) \in Seq(Subs)
      BY <1>5, <2>3
    <3>2. PICK c \in PubCalls : c = [run[p] EXCEPT !.todo = Tail(@)]
      BY <1>4, <3>1 DEF PubCalls
    <3>3. Goto(p, c) /\ Deliver(Head(run[p].todo), run[p].val)
      BY <1>9, <2>3, <3>2 DEF CallSubscriber
    <3> QED
      BY <1>2, <1>5, <1>6, <2>1, <3>1, <3>3, DeliverTypes
  <2> QED
    BY <2>2, <2>3
<1>10. ASSUME FindInterest(p)
       PROVE  RunTypes' /\ ErrTypes' /\ WayTypes'
  <2>0. ToSet(run[p].parts) \subseteq Parts
    BY <1>5 DEF ToSet
  <2>1. PICK x \in SUBSET Parts : x = Interested(run[p])
    BY <2>0 DEF Interested
  <2>2. PICK c \in PubCalls : c = [run[p] EXCEPT !.stage = "end"]
    BY <1>4, <1>7 DEF PubCalls
  <2>3. PICK d \in PubCalls : d = [run[p] EXCEPT !.stage = "send", !.to = x, !.handled = TRUE]
    BY <1>4, <1>7 DEF PubCalls
  <2>4. PICK e \in PubCalls : e = [run[p] EXCEPT !.stage = "end", !.handled = TRUE]
    BY <1>4, <1>7 DEF PubCalls
  <2>5. Goto(p, c) \/ Goto(p, d) \/ Goto(p, e)
    BY <1>10, <2>1, <2>2, <2>3, <2>4 DEF FindInterest
  <2>6. WayTypes'
    BY <1>2, <1>10, WayStays DEF FindInterest
  <2>7. UNCHANGED <<latched, continuous, ended>> /\ latched' \in [Parts -> SUBSET Topics] /\ ended' \in BOOLEAN
    BY <1>10 DEF FindInterest, ErrTypes
  <2>8. ErrTypes'
    <3>1. CASE UNCHANGED <<reported, fired>>
      BY <2>7, <3>1, ErrsStay
    <3>2. CASE InternalReportLatchedError(run[p].topic, "ERR_NO_SERIALIZER")
      BY <1>5, <2>7, <3>2, ReportTypes DEF Errors
    <3> QED
      BY <1>10, <3>1, <3>2 DEF FindInterest
  <2> QED
    BY <1>6, <2>5, <2>6, <2>8
<1>11. ASSUME SendRemote(p)
       PROVE  RunTypes' /\ ErrTypes' /\ WayTypes'
  <2>1. ErrTypes' /\ UNCHANGED arrived
    BY <1>11, AssertTypes DEF SendRemote
  <2>2. CASE run[p].to = {}
    <3>1. PICK c \in PubCalls : c = [run[p] EXCEPT !.stage = "end"]
      BY <1>4, <1>7 DEF PubCalls
    <3>2. Goto(p, c) /\ UNCHANGED outgoing
      BY <1>11, <2>2, <3>1 DEF SendRemote
    <3> QED
      BY <1>2, <1>6, <2>1, <3>2, WayStays
  <2>3. CASE run[p].to # {}
    <3>1. PICK i \in DOMAIN run[p].parts :
            /\ SendBy(p, run[p].parts[i])
            /\ Goto(p, IF run[p].val \in thrown' THEN Idle ELSE [run[p] EXCEPT !.to = @ \ {run[p].parts[i]}])
      BY <1>11, <2>3 DEF SendRemote
    <3>2. PICK x \in Parts : x = run[p].parts[i]
      BY <1>5
    <3>3. PICK c \in PubCalls : c = [run[p] EXCEPT !.to = @ \ {x}]
      BY <1>4, <1>5 DEF PubCalls
    <3>4. Goto(p, c) \/ Goto(p, Idle)
      BY <3>1, <3>2, <3>3
    <3>5. RunTypes'
      BY <1>6, <3>4 DEF Idle, IdleCalls
    <3>6. WayTypes'
      BY <1>2, <1>5, <2>1, <3>1, <3>2, SendTypes DEF MemberTypes
    <3> QED
      BY <2>1, <3>5, <3>6
  <2> QED
    BY <2>2, <2>3
<1>12. ASSUME PublishReturns(p)
       PROVE  RunTypes' /\ ErrTypes' /\ WayTypes'
  <2>1. ErrTypes'
    BY <1>12, ErrsStay DEF PublishReturns, ErrTypes
  <2>2. RunTypes'
    BY <1>6, <1>12 DEF PublishReturns, Idle, IdleCalls
  <2>3. WayTypes'
    BY <1>2, <1>12, WayStays DEF PublishReturns
  <2> QED
    BY <2>1, <2>2, <2>3
<1> QED
  BY <1>1, <1>4, <1>8, <1>9, <1>10, <1>11, <1>12 DEF InternalPublish

(* The application registers, or asks for the last value or for all errors. *)
Registers(p) ==
  \/ \E t \in Topics, type \in Types : InternalRegisterSerializer(p, t, type)
  \/ \E t \in Topics, b \in BOOLEAN : InternalLastValueCache(p, t, b)
  \/ \E b \in BOOLEAN : InternalEnableContinuousErrors(p, b)

LEMMA OtherBusTypes ==
  ASSUME BusTypes, NEW p \in Callers, Registers(p)
  PROVE  BusTypes'
<1> USE DEF BusTypes, Registers
<1>1. UNCHANGED <<subs, run>> /\ UNCHANGED signals /\ UNCHANGED members
  BY DEF InternalRegisterSerializer, InternalLastValueCache, InternalEnableContinuousErrors, registry
<1>2. RunTypes' /\ MemberTypes'
  BY <1>1, RunStays, MembersStay
<1>3. WayTypes'
  BY WayStays DEF InternalRegisterSerializer, InternalLastValueCache, InternalEnableContinuousErrors, Calls
<1>4. ASSUME NEW t \in Topics, NEW type \in Types, InternalRegisterSerializer(p, t, type)
      PROVE  Tables' /\ ErrTypes'
  <2>1. CASE Fits(t, type)
    BY <1>4, <2>1, TypeGiven, AssertTypes DEF InternalRegisterSerializer, Tables
  <2>2. CASE ~Fits(t, type)
    BY <1>4, <2>2, TablesStay, MismatchTypes DEF InternalRegisterSerializer
  <2> QED
    BY <2>1, <2>2
<1>5. ASSUME NEW t \in Topics, NEW b \in BOOLEAN, InternalLastValueCache(p, t, b)
      PROVE  Tables' /\ ErrTypes'
  BY <1>5, AssertTypes DEF InternalLastValueCache, Tables
<1>6. ASSUME NEW b \in BOOLEAN, InternalEnableContinuousErrors(p, b)
      PROVE  Tables' /\ ErrTypes'
  BY <1>6, TablesStay DEF InternalEnableContinuousErrors, registry, ErrTypes
<1> QED
  BY <1>2, <1>3, <1>4, <1>5, <1>6

LEMMA ChannelErrorTypes ==
  ASSUME BusTypes, NEW x \in Parts, NEW t \in Topics, OnChannelError(x, t)
  PROVE  BusTypes'
<1> USE DEF BusTypes
<1>1. Tables' /\ RunTypes' /\ MemberTypes'
  BY TablesStay, RunStays, MembersStay DEF OnChannelError, registry
<1>2. WayTypes'
  BY WayStays DEF OnChannelError, bounds
<1>3. latched' \in [Parts -> SUBSET Topics] /\ UNCHANGED <<continuous, ended>> /\ ended' \in BOOLEAN
  <2>1. latched[x] \cup {t} \in SUBSET Topics
    BY DEF ErrTypes
  <2> QED
    BY <2>1 DEF OnChannelError, ErrTypes
<1>4. ErrTypes'
  <2>1. CASE InternalReportLatchedError(t, "ERR_SEND")
    BY <1>3, <2>1, ReportTypes DEF Errors
  <2>2. CASE UNCHANGED <<reported, fired>>
    BY <1>3, <2>2 DEF ErrTypes
  <2> QED
    BY <2>1, <2>2 DEF OnChannelError
<1> QED
  BY <1>1, <1>2, <1>4

LEMMA WorkerTypes ==
  ASSUME BusTypes, WorkerServes \/ AsyncSend
  PROVE  BusTypes'
<1> USE DEF BusTypes
<1>1. Tables' /\ RunTypes' /\ MemberTypes' /\ ErrTypes'
  BY TablesStay, RunStays, MembersStay, AssertTypes DEF WorkerServes, AsyncSend, registry
<1> QED
  BY <1>1, ServeTypes, AsyncTypes

(* Somebody joins, or there is no room.                                    *)
LEMMA JoinTypes ==
  ASSUME MemberTypes, ErrTypes, NEW x \in Parts, Join(x),
         UNCHANGED <<remoteTopics, sendThread, sender, closed>>, UNCHANGED <<reported, latched, continuous, fired>>
  PROVE  MemberTypes' /\ ErrTypes'
<1>1. CASE Len(parts) < MaxParticipants
  <2>1. Append(parts, x) \in Seq(Parts) /\ Len(Append(parts, x)) = Len(parts) + 1 /\ Len(parts) \in Nat
    BY DEF MemberTypes
  <2>2. MemberTypes'
    <3>1. parts' = Append(parts, x) /\ errConn' = parts'
      BY <1>1 DEF MemberTypes, Join
    <3>2. Len(parts') <= MaxParticipants
      BY <1>1, <2>1, <3>1, DataBusConstants
    <3> QED
      BY <2>1, <3>1, <3>2 DEF MemberTypes
  <2>3. ErrTypes'
    BY <1>1, ErrsStay DEF Join, ErrTypes
  <2> QED
    BY <2>2, <2>3
<1>2. CASE ~(Len(parts) < MaxParticipants)
  <2>1. MemberTypes'
    BY <1>2 DEF MemberTypes, Join
  <2>2. ErrTypes'
    BY <1>2, ErrsStay DEF Join, ErrTypes
  <2> QED
    BY <2>1, <2>2
<1> QED
  BY <1>1, <1>2

LEMMA ShiftTypes ==
  ASSUME MemberTypes, NEW i \in DOMAIN parts, Shift(i), UNCHANGED <<remoteTopics, sendThread, sender, closed>>
  PROVE  /\ MemberTypes' /\ ToSet(parts') \subseteq ToSet(parts)
         /\ \A x \in ToSet(parts) : x # parts[i] => x \in ToSet(parts')
<1>1. parts \in Seq(Parts) /\ i \in 1 .. Len(parts) /\ Len(parts) \in Nat
  BY DEF MemberTypes
<1>2. /\ RemoveAt(parts, i) \in Seq(Parts) /\ Len(RemoveAt(parts, i)) = Len(parts) - 1
      /\ ToSet(RemoveAt(parts, i)) \subseteq ToSet(parts)
      /\ \A r \in ToSet(parts) : r # parts[i] => r \in ToSet(RemoveAt(parts, i))
  BY <1>1, RemovedAt
<1>3. parts' = RemoveAt(parts, i) /\ errConn' = parts'
  BY DEF Shift, MemberTypes
<1>4. Len(parts') <= MaxParticipants
  BY <1>1, <1>2, <1>3, DataBusConstants DEF MemberTypes
<1> QED
  BY <1>2, <1>3, <1>4 DEF MemberTypes

(* The application adds a participant, removes it or gives it a topic.     *)
Joins(p) ==
  \/ InternalAddParticipant(p)
  \/ \E x \in Joining : AddParticipant(p, x) \/ InternalRemoveParticipant(p, x) \/ \E t \in Topics : AddRemoteTopic(p, x, t)

LEMMA ParticipantTypes ==
  ASSUME BusTypes, NEW p \in Callers, Joins(p)
  PROVE  BusTypes'
<1> USE DEF BusTypes, Joins
<1>0. p \in Threads /\ Joining \subseteq Parts
  BY DataBusConstants
<1> USE DEF AddParticipant, InternalAddParticipant, InternalRemoveParticipant, AddRemoteTopic
<1>1. Tables' /\ WayTypes' /\ UNCHANGED subs /\ UNCHANGED signals
  <2>1. UNCHANGED registry /\ UNCHANGED arrived /\ UNCHANGED outgoing /\ UNCHANGED pubs /\ UNCHANGED remote
    BY DEF bounds, Calls
  <2>2. WayTypes'
    BY <2>1, WayStays
  <2> QED
    BY <2>1, <2>2, TablesStay DEF registry
<1>2. ASSUME NEW x \in Joining, AddParticipant(p, x) PROVE RunTypes' /\ MemberTypes' /\ ErrTypes'
  <2>1. PICK c \in AddCalls : c = [stage |-> "add", part |-> x]
    BY DEF AddCalls
  <2>2. c \in AsideRuns /\ c \notin SubCalls
    BY <2>1 DEF AsideRuns, AddCalls, SubCalls
  <2>3. Goto(p, c)
    BY <1>2, <2>1
  <2>4. RunTypes'
    BY <1>0, <1>1, <2>2, <2>3, GoOn
  <2> QED
    BY <1>2, <2>4, MembersStay, AssertTypes
<1>3. ASSUME InternalAddParticipant(p) PROVE RunTypes' /\ MemberTypes' /\ ErrTypes'
  <2>1. run[p] \in AddCalls
    BY <1>0, <1>3, RunAt, Stages DEF At
  <2>2. run[p].part \in Parts
    BY <2>1, DataBusConstants DEF AddCalls
  <2>3. MemberTypes' /\ ErrTypes'
    BY <1>3, <2>2, JoinTypes DEF wiring
  <2>4. RunTypes'
    BY <1>0, <1>1, <1>3, IdleFacts, GoOn
  <2> QED
    BY <2>3, <2>4
<1>4. ASSUME NEW x \in Joining, InternalRemoveParticipant(p, x) PROVE RunTypes' /\ MemberTypes' /\ ErrTypes'
  BY <1>1, <1>4, RunStays, ShiftTypes, AssertTypes DEF wiring
<1>5. ASSUME NEW x \in Joining, NEW t \in Topics, AddRemoteTopic(p, x, t) PROVE RunTypes' /\ MemberTypes' /\ ErrTypes'
  <2>1. remoteTopics[x] \cup {t} \in SUBSET Topics
    BY <1>0 DEF MemberTypes
  <2>2. MemberTypes'
    BY <1>5, <2>1 DEF MemberTypes, wiring
  <2> QED
    BY <1>1, <1>5, <2>2, RunStays, AssertTypes
<1> QED
  BY <1>1, <1>2, <1>3, <1>4, <1>5

-----------------------------------------------------------------------------
(* The calls of the node.                                                  *)
LEMMA PeerTypes ==
  ASSUME NEW peer \in Peers, NEW a \in Tiers
  PROVE  peer[a] \in Parts /\ peer.rel \in Parts /\ peer.raw \in Parts /\ peer["rel"] = peer.rel /\ peer["raw"] = peer.raw
BY DEF Peers, Tiers

LEMMA NodeRunTypes ==
  ASSUME RunTypes, NEW p \in Callers, NEW c \in AsideRuns, Goto(p, c), UNCHANGED registry
  PROVE  RunTypes' /\ c \notin SubCalls /\ c \notin PubCalls
<1>1. c \notin SubCalls /\ c \notin PubCalls
  BY DEF AsideRuns, NodeRuns, IdleCalls, AddCalls, JoinCalls, ApplyCalls, SpreadCalls, StopCalls, RemoveCalls, DetachCalls,
         SubCalls, PubCalls, Publishing, Early
<1>2. p \in Threads /\ UNCHANGED <<subs, signals>> /\ UNCHANGED subs
  BY DataBusConstants DEF registry
<1> QED
  BY <1>1, <1>2, GoOn

LEMMA PeerAdded ==
  ASSUME NodeTypes, added < Len(PeerParts)
  PROVE  PeerParts[added + 1] \in Peers /\ added + 1 \in 0 .. Len(PeerParts)
<1>1. Len(PeerParts) \in Nat /\ added \in Nat /\ added + 1 \in 1 .. Len(PeerParts)
  BY NodeConstants DEF NodeTypes
<1>2. PeerParts \in Seq(Peers)
  BY NodeConstants DEF Peers
<1>3. PeerParts[added + 1] \in Peers
  BY <1>1, <1>2
<1> QED
  BY <1>1, <1>3

(* What no call of the node changes.                                       *)
LEMMA ApartTypes ==
  ASSUME BusTypes, UNCHANGED registry, UNCHANGED <<arrived, outgoing, pubs, remote>>
  PROVE  Tables' /\ WayTypes' /\ (UNCHANGED run => RunTypes')
<1>1. UNCHANGED <<run, subs>> <=> UNCHANGED run
  BY DEF registry
<1>2. UNCHANGED signals
  BY DEF registry
<1> QED
  BY <1>1, <1>2, TablesStay, WayStays, RunStays DEF BusTypes, registry

LEMMA StartTypes ==
  ASSUME BInv, NEW p \in Callers, Start(p)
  PROVE  BInv'
<1> USE DEF BInv
<1>1. Tables' /\ WayTypes' /\ RunTypes'
  BY ApartTypes DEF Start, NodeCalls
<1>2. MemberTypes' /\ ErrTypes'
  BY AssertTypes DEF Start, BusTypes, MemberTypes
<1>3. Handlers(m_inTopics) \in [Topics -> Types \cup {Nil}]
  BY DEF Handlers
<1>4. NodeTypes'
  <2>1. handlers' \in [Topics -> Types \cup {Nil}] \cup {Nil} /\ (m_running' => handlers' # Nil)
    BY <1>3, NodeConstants DEF Start, NodeTypes
  <2>2. m_thread' \in BOOLEAN /\ m_running' \in BOOLEAN
    BY DEF Start, NodeTypes
  <2> QED
    BY <2>1, <2>2 DEF Start, NodeTypes
<1> QED
  BY <1>1, <1>2, <1>4 DEF BusTypes

LEMMA ReceiveTypes ==
  ASSUME BInv, NEW p \in Callers, NEW t \in Topics, NEW type \in Types, Receive(p, t, type)
  PROVE  BInv'
<1> USE DEF BInv
<1>1. Tables' /\ WayTypes' /\ RunTypes'
  BY ApartTypes DEF Receive, NodeCalls
<1>2. MemberTypes' /\ ErrTypes'
  BY AssertTypes, MembersStay DEF Receive, BusTypes
<1>3. PICK in \in Topics \X Types : in = <<t, type>>
  OBVIOUS
<1>4. Append(m_inTopics, in) \in Seq(Topics \X Types)
  BY DEF NodeTypes
<1>5. handlers # Nil => [handlers EXCEPT ![t] = type] \in [Topics -> Types \cup {Nil}]
  BY DEF NodeTypes
<1>6. /\ m_inTopics' = m_inTopics \/ m_inTopics' = Append(m_inTopics, in)
      /\ handlers' = handlers \/ (handlers # Nil /\ handlers' = [handlers EXCEPT ![t] = type])
  BY <1>3 DEF Receive
<1>7. m_inTopics' \in Seq(Topics \X Types)
  BY <1>4, <1>6 DEF NodeTypes
<1>8. handlers' \in [Topics -> Types \cup {Nil}] \cup {Nil} /\ (m_running => handlers' # Nil)
  <2>1. handlers \in [Topics -> Types \cup {Nil}] \cup {Nil} /\ (m_running => handlers # Nil)
    BY DEF NodeTypes
  <2>2. Nil \notin [Topics -> Types \cup {Nil}]
    BY NodeConstants
  <2>3. CASE handlers' = handlers
    BY <2>1, <2>3
  <2>4. CASE handlers # Nil /\ handlers' = [handlers EXCEPT ![t] = type]
    BY <1>5, <2>2, <2>4
  <2> QED
    BY <1>6, <2>3, <2>4
<1>9. NodeTypes'
  BY <1>7, <1>8 DEF Receive, NodeTypes
<1> QED
  BY <1>1, <1>2, <1>9 DEF BusTypes

LEMMA AddPeerTypes ==
  ASSUME BInv, NEW p \in Callers, AddPeer(p)
  PROVE  BInv'
<1> USE DEF BInv
<1>1. Tables' /\ WayTypes' /\ (UNCHANGED run => RunTypes')
  BY ApartTypes DEF AddPeer, NodeCalls
<1>2. PICK peer \in Peers : peer = PeerParts[added + 1]
  BY PeerAdded DEF AddPeer
<1>3. added' \in 0 .. Len(PeerParts)
  BY PeerAdded DEF AddPeer, NodeTypes
<1>4. <<peer.rel, peer.raw>> \in Seq(Parts) /\ {peer.rel, peer.raw} \subseteq Parts
  BY DEF Peers
<1>5. PICK c \in JoinCalls : c = [stage |-> "joins bus", peer |-> peer, todo |-> <<peer.rel, peer.raw>>]
  BY <1>4 DEF JoinCalls
<1>6. c \in AsideRuns
  BY DEF AsideRuns, NodeRuns
<1>7. UNCHANGED run \/ Goto(p, c)
  BY <1>2, <1>5 DEF AddPeer
<1>8. RunTypes'
  BY <1>1, <1>6, <1>7, NodeRunTypes DEF AddPeer, BusTypes
<1>9. sendThread' \subseteq Parts
  BY <1>2, <1>4 DEF AddPeer, BusTypes, MemberTypes
<1>10. MemberTypes' /\ ErrTypes'
  BY <1>9, AssertTypes DEF AddPeer, BusTypes, MemberTypes
<1>11. NodeTypes'
  BY <1>3 DEF AddPeer, NodeTypes
<1> QED
  BY <1>1, <1>8, <1>10, <1>11 DEF BusTypes

LEMMA AddPeerJoinsTypes ==
  ASSUME BInv, NEW p \in Callers, AddPeerJoins(p), run[p].todo # <<>>
  PROVE  BInv' /\ run[p] \in JoinCalls
<1> USE DEF BInv
<1>0. p \in Threads
  BY DataBusConstants
<1>1. Tables' /\ WayTypes' /\ (UNCHANGED run => RunTypes')
  BY ApartTypes DEF AddPeerJoins, bounds
<1>2. run[p] \in JoinCalls
  BY <1>0, RunAt, Stages DEF AddPeerJoins, At, BusTypes
<1>3. run[p].peer \in Peers /\ run[p].todo \in Seq(Parts)
  BY <1>2 DEF JoinCalls
<1>4. Head(run[p].todo) \in Parts /\ Tail(run[p].todo) \in Seq(Parts)
  BY <1>3
<1>5. MemberTypes' /\ ErrTypes'
  BY <1>4, JoinTypes DEF AddPeerJoins, BusTypes, wiring
<1>6. PICK c \in JoinCalls : c = [run[p] EXCEPT !.todo = Tail(@)]
  BY <1>2, <1>4 DEF JoinCalls
<1>7. PICK d \in ApplyCalls : d = [stage |-> "applies", peer |-> run[p].peer, at |-> 1]
  BY <1>3 DEF ApplyCalls
<1>8. c \in AsideRuns /\ d \in AsideRuns
  BY DEF AsideRuns, NodeRuns
<1>9. Goto(p, c) \/ Goto(p, d)
  BY <1>6, <1>7 DEF AddPeerJoins
<1>10. RunTypes'
  BY <1>8, <1>9, NodeRunTypes DEF AddPeerJoins, BusTypes
<1>11. NodeTypes'
  BY NodeStays DEF AddPeerJoins
<1> QED
  BY <1>1, <1>2, <1>5, <1>10, <1>11 DEF BusTypes

(* A topic is routed.                                                      *)
LEMMA RouteTypes ==
  ASSUME MemberTypes, NEW peer \in Peers, NEW topic \in Topics \X Tiers, Route(peer, topic),
         UNCHANGED <<parts, errConn, sendThread, sender, closed>>
  PROVE  /\ MemberTypes'
         /\ \A x \in Parts : remoteTopics'[x] = IF x = peer[topic[2]] THEN remoteTopics[x] \cup {topic[1]} ELSE remoteTopics[x]
<1>1. PICK x \in Parts : x = peer[topic[2]]
  BY PeerTypes
<1>2. topic[1] \in Topics /\ remoteTopics[x] \cup {topic[1]} \in SUBSET Topics
  BY DEF MemberTypes
<1>3. remoteTopics' = [remoteTopics EXCEPT ![x] = @ \cup {topic[1]}]
  BY <1>1 DEF Route
<1> QED
  BY <1>1, <1>2, <1>3 DEF MemberTypes

LEMMA AddPeerAppliesTypes ==
  ASSUME BInv, NEW p \in Callers, AddPeerApplies(p), run[p].at > 0
  PROVE  BInv' /\ run[p] \in ApplyCalls
<1> USE DEF BInv
<1>0. p \in Threads
  BY DataBusConstants
<1>1. Tables' /\ WayTypes' /\ (UNCHANGED run => RunTypes')
  BY ApartTypes DEF AddPeerApplies, bounds
<1>2. run[p] \in ApplyCalls
  BY <1>0, RunAt, Stages DEF AddPeerApplies, At, BusTypes
<1>3. run[p].peer \in Peers /\ run[p].at \in Nat
  BY <1>2 DEF ApplyCalls
<1>4. ErrTypes'
  BY AssertTypes DEF AddPeerApplies, BusTypes
<1>5. UNCHANGED <<parts, errConn, sendThread, sender, closed>> /\ UNCHANGED registry
  BY DEF AddPeerApplies, wiring
<1>6. CASE run[p].at <= Len(m_outTopics)
  <2>1. m_outTopics[run[p].at] \in Topics \X Tiers
    BY <1>3, <1>6 DEF NodeTypes
  <2>2. MemberTypes'
    BY <1>3, <1>5, <1>6, <2>1, RouteTypes DEF AddPeerApplies, BusTypes
  <2>3. PICK c \in ApplyCalls : c = [run[p] EXCEPT !.at = @ + 1]
    <3>1. PICK n \in Nat : n = run[p].at + 1
      BY <1>3
    <3>2. [run[p] EXCEPT !.at = n] \in ApplyCalls
      BY <1>2 DEF ApplyCalls
    <3> QED
      BY <3>1, <3>2
  <2>4. c \in AsideRuns /\ Goto(p, c)
    BY <1>6, <2>3 DEF AsideRuns, NodeRuns, AddPeerApplies
  <2>5. RunTypes'
    BY <1>5, <2>4, NodeRunTypes DEF BusTypes
  <2>6. NodeTypes'
    BY <1>6 DEF AddPeerApplies, NodeTypes
  <2> QED
    BY <1>1, <1>2, <1>4, <2>2, <2>5, <2>6 DEF BusTypes
<1>7. CASE ~(run[p].at <= Len(m_outTopics))
  <2>1. MemberTypes'
    BY <1>5, <1>7 DEF AddPeerApplies, BusTypes, MemberTypes
  <2>2. RunTypes'
    BY <1>5, <1>7, IdleFacts, NodeRunTypes DEF AddPeerApplies, BusTypes
  <2>3. Append(m_peers, run[p].peer) \in Seq(Peers)
    BY <1>3 DEF NodeTypes
  <2>4. NodeTypes'
    BY <1>7, <2>3 DEF AddPeerApplies, NodeTypes
  <2> QED
    BY <1>1, <1>2, <1>4, <2>1, <2>2, <2>4 DEF BusTypes
<1> QED
  BY <1>6, <1>7

LEMMA SendsTypes ==
  ASSUME BInv, NEW p \in Callers, NEW t \in Topics, NEW type \in Types, NEW tier \in Tiers, Send(p, t, type, tier)
  PROVE  BInv'
<1> USE DEF BInv
<1>0. p \in Threads
  BY DataBusConstants
<1>1. WayTypes'
  BY WayStays DEF Send, NodeCalls, BusTypes
<1>2. MemberTypes' /\ ErrTypes'
  BY AssertTypes, MembersStay DEF Send, BusTypes
<1>3. PICK top \in Topics \X Tiers : top = <<t, tier>>
  OBVIOUS
<1>4. CASE Len(m_outTopics) < MaxTopics /\ Fits(t, type)
  <2>1. Tables'
    BY <1>4, TypeGiven DEF Send, BusTypes, Tables
  <2>2. PICK c \in SpreadCalls : c = [stage |-> "spreads", topic |-> top, at |-> 1]
    BY DEF SpreadCalls
  <2>3. c \in AsideRuns /\ c \notin SubCalls /\ Goto(p, c)
    BY <1>3, <1>4, <2>2 DEF AsideRuns, NodeRuns, SubCalls, SpreadCalls, Send
  <2>4. RunTypes'
    BY <1>0, <2>3, GoOn DEF Send, BusTypes
  <2>5. m_outTopics' = Append(m_outTopics, top)
    BY <1>3, <1>4 DEF Send
  <2>6. m_outTopics' \in Seq(Topics \X Tiers)
    BY <2>5 DEF NodeTypes
  <2>7. NodeTypes'
    BY <2>6 DEF Send, NodeTypes
  <2> QED
    BY <1>1, <1>2, <2>1, <2>4, <2>7 DEF BusTypes
<1>5. CASE ~(Len(m_outTopics) < MaxTopics /\ Fits(t, type))
  <2>1. UNCHANGED <<types, serializers, m_outTopics, run, signals, subs, qos, lastValue>>
    BY <1>5 DEF Send
  <2>2. Tables' /\ RunTypes' /\ NodeTypes'
    BY <2>1, TablesStay, RunStays DEF BusTypes, NodeTypes, Send
  <2> QED
    BY <1>1, <1>2, <2>2 DEF BusTypes
<1> QED
  BY <1>4, <1>5


LEMMA SendSpreadsTypes ==
  ASSUME BInv, NEW p \in Callers, SendSpreads(p), run[p].at > 0
  PROVE  BInv' /\ run[p] \in SpreadCalls
<1> USE DEF BInv
<1>0. p \in Threads
  BY DataBusConstants
<1>1. Tables' /\ WayTypes' /\ (UNCHANGED run => RunTypes')
  BY ApartTypes DEF SendSpreads, bounds
<1>2. run[p] \in SpreadCalls
  BY <1>0, RunAt, Stages DEF SendSpreads, At, BusTypes
<1>3. run[p].topic \in Topics \X Tiers /\ run[p].at \in Nat
  BY <1>2 DEF SpreadCalls
<1>4. ErrTypes' /\ NodeTypes'
  BY AssertTypes, NodeStays DEF SendSpreads, BusTypes
<1>5. UNCHANGED <<parts, errConn, sendThread, sender, closed>> /\ UNCHANGED registry
  BY DEF SendSpreads, wiring
<1>6. CASE run[p].at <= Len(m_peers)
  <2>1. m_peers[run[p].at] \in Peers
    BY <1>3, <1>6 DEF NodeTypes
  <2>2. MemberTypes'
    BY <1>3, <1>5, <1>6, <2>1, RouteTypes DEF SendSpreads, BusTypes
  <2>3. PICK c \in SpreadCalls : c = [run[p] EXCEPT !.at = @ + 1]
    <3>1. PICK n \in Nat : n = run[p].at + 1
      BY <1>3
    <3>2. [run[p] EXCEPT !.at = n] \in SpreadCalls
      BY <1>2 DEF SpreadCalls
    <3> QED
      BY <3>1, <3>2
  <2>4. c \in AsideRuns /\ Goto(p, c)
    BY <1>6, <2>3 DEF AsideRuns, NodeRuns, SendSpreads
  <2>5. RunTypes'
    BY <1>5, <2>4, NodeRunTypes DEF BusTypes
  <2> QED
    BY <1>1, <1>2, <1>4, <2>2, <2>5 DEF BusTypes
<1>7. CASE ~(run[p].at <= Len(m_peers))
  <2>1. MemberTypes'
    BY <1>5, <1>7 DEF SendSpreads, BusTypes, MemberTypes
  <2>2. RunTypes'
    BY <1>5, <1>7, IdleFacts, NodeRunTypes DEF SendSpreads, BusTypes
  <2> QED
    BY <1>1, <1>2, <1>4, <2>1, <2>2 DEF BusTypes
<1> QED
  BY <1>6, <1>7

LEMMA StopTypes ==
  ASSUME BInv, NEW p \in Callers, Stop(p) \/ StopExits(p) \/ StopJoins(p)
  PROVE  BInv'
<1> USE DEF BInv
<1>1. Tables' /\ WayTypes' /\ (UNCHANGED run => RunTypes')
  BY ApartTypes DEF Stop, StopExits, StopJoins, NodeCalls, bounds
<1>2. MemberTypes' /\ ErrTypes'
  <2>1. ErrTypes'
    BY AssertTypes DEF Stop, StopExits, StopJoins, BusTypes
  <2>2. UNCHANGED <<parts, errConn, remoteTopics, sendThread, closed>> /\ sender' \in {"runs", "exits", "gone"}
    BY DEF Stop, StopExits, StopJoins, members, wiring, BusTypes, MemberTypes
  <2> QED
    BY <2>1, <2>2 DEF BusTypes, MemberTypes
<1>3. RunTypes'
  <2>1. [stage |-> "exits"] \in AsideRuns /\ [stage |-> "joins thread"] \in AsideRuns
    BY DEF AsideRuns, NodeRuns, StopCalls
  <2>2. Len(m_peers) \in Nat /\ <<"rel", "raw">> \in Seq(Tiers)
    BY DEF NodeTypes, Tiers
  <2>3. PICK c \in RemoveCalls : c = [stage |-> "removes", at |-> Len(m_peers), todo |-> <<"rel", "raw">>]
    BY <2>2 DEF RemoveCalls
  <2>4. c \in AsideRuns
    BY DEF AsideRuns, NodeRuns
  <2>5. PICK d \in AsideRuns : Goto(p, d)
    BY <2>1, <2>3, <2>4 DEF Stop, StopExits, StopJoins
  <2>6. UNCHANGED registry
    BY DEF Stop, StopExits, StopJoins
  <2> QED
    BY <2>5, <2>6, NodeRunTypes DEF BusTypes
<1>4. NodeTypes'
  <2>1. ASSUME Stop(p) PROVE NodeTypes'
    <3>1. PICK S : S = {b \in ((1 .. pubs) \ (UnderWay \cup thrown)) \X (Parts \ closed) : b[2] \in remote[b[1]]}
      OBVIOUS
    <3>2. pubs \in 0 .. MaxPub
      BY DEF BusTypes, WayTypes
    <3>3. 1 .. pubs \subseteq Vals
      BY <3>2, Numbers DEF Vals
    <3>4. S \subseteq Vals \X Parts
      BY <3>1, <3>3
    <3>5. before' = S
      BY <2>1, <3>1 DEF Stop
    <3> QED
      BY <2>1, <3>4, <3>5 DEF Stop, NodeTypes
  <2>2. ASSUME StopExits(p) \/ StopJoins(p) PROVE NodeTypes'
    BY <2>2, NodeStays DEF StopExits, StopJoins
  <2> QED
    BY <2>1, <2>2
<1> QED
  BY <1>1, <1>2, <1>3, <1>4 DEF BusTypes

LEMMA RemoveFacts ==
  ASSUME BInv, NEW p \in Callers, StopRemoves(p)
  PROVE  run[p] \in RemoveCalls /\ run[p].at \in Nat /\ run[p].todo \in Seq(Tiers)
<1>0. p \in Threads
  BY DataBusConstants
<1>1. run[p] \in RemoveCalls
  BY <1>0, RunAt, Stages DEF StopRemoves, At, BusTypes, BInv
<1> QED
  BY <1>1 DEF RemoveCalls

LEMMA StopRemovesTypes ==
  ASSUME BInv, NEW p \in Callers, StopRemoves(p), run[p].at > 0 => run[p].todo # <<>>
  PROVE  /\ BInv' /\ ToSet(parts') \subseteq ToSet(parts)
         /\ run[p].at > 0 =>
              \A x \in ToSet(parts) : x # m_peers[run[p].at][Head(run[p].todo)] => x \in ToSet(parts')
<1> USE DEF BInv
<1>0. p \in Threads
  BY DataBusConstants
<1>1. Tables' /\ WayTypes' /\ (UNCHANGED run => RunTypes')
  BY ApartTypes DEF StopRemoves, bounds
<1>2. run[p] \in RemoveCalls /\ run[p].at \in Nat /\ run[p].todo \in Seq(Tiers)
  BY RemoveFacts
<1>4. ErrTypes'
  BY AssertTypes DEF StopRemoves, BusTypes
<1>5. UNCHANGED <<remoteTopics, sendThread, sender, closed>> /\ UNCHANGED registry
  BY DEF StopRemoves, wiring
<1>6. CASE run[p].at = 0
  <2>1. UNCHANGED <<parts, errConn>> /\ Goto(p, Idle) /\ m_peers' = <<>>
    BY <1>6 DEF StopRemoves
  <2>2. MemberTypes'
    BY <1>5, <2>1 DEF BusTypes, MemberTypes
  <2>3. RunTypes'
    BY <1>5, <2>1, IdleFacts, NodeRunTypes DEF BusTypes
  <2>4. NodeTypes'
    BY <2>1 DEF StopRemoves, NodeTypes
  <2>5. ~(run[p].at > 0)
    BY <1>6
  <2> QED
    BY <1>1, <1>4, <2>1, <2>2, <2>3, <2>4, <2>5 DEF BusTypes
<1>7. CASE run[p].at # 0
  <2>0. run[p].todo # <<>>
    BY <1>2, <1>7
  <2>1. Head(run[p].todo) \in Tiers /\ Tail(run[p].todo) \in Seq(Tiers)
    BY <1>2, <2>0
  <2>2. PICK i \in DOMAIN parts : parts[i] = m_peers[run[p].at][Head(run[p].todo)] /\ Shift(i)
    BY <1>7 DEF StopRemoves
  <2>3. /\ MemberTypes' /\ ToSet(parts') \subseteq ToSet(parts)
        /\ \A x \in ToSet(parts) : x # parts[i] => x \in ToSet(parts')
    BY <1>5, <2>2, ShiftTypes DEF BusTypes
  <2>4. PICK c \in RemoveCalls : c = [run[p] EXCEPT !.todo = Tail(@)]
    BY <1>2, <2>1 DEF RemoveCalls
  <2>5. PICK d \in DetachCalls : d = [stage |-> "detaches", at |-> run[p].at]
    BY <1>2 DEF DetachCalls
  <2>6. Goto(p, c) \/ Goto(p, d)
    BY <1>7, <2>4, <2>5 DEF StopRemoves
  <2>7. c \in AsideRuns /\ d \in AsideRuns
    BY DEF AsideRuns, NodeRuns
  <2>8. RunTypes'
    BY <1>5, <2>6, <2>7, NodeRunTypes DEF BusTypes
  <2>9. NodeTypes'
    BY <1>7 DEF StopRemoves, NodeTypes
  <2> QED
    BY <1>1, <1>4, <2>2, <2>3, <2>8, <2>9 DEF BusTypes
<1> QED
  BY <1>6, <1>7

(* Stop() takes the send thread from one participant, or closes the        *)
(* transport of both.                                                      *)
Detaching(p) ==
  /\ UNCHANGED run /\ UNCHANGED closed
  /\ \E x : sendThread' = sendThread \ {x}
Closes(p, peer, c) ==
  /\ closed' = closed \cup {peer.rel, peer.raw} /\ UNCHANGED sendThread
  /\ Goto(p, c)

LEMMA StopDetachesCases ==
  ASSUME NEW p, StopDetaches(p), NEW peer, peer = m_peers[run[p].at],
         NEW c, c = [stage |-> "removes", at |-> run[p].at - 1, todo |-> <<"rel", "raw">>]
  PROVE  Detaching(p) \/ Closes(p, peer, c)
BY DEF StopDetaches, Detaching, Closes

LEMMA StopDetachesTypes ==
  ASSUME BInv, NEW p \in Callers, StopDetaches(p), run[p].at \in 1 .. Len(m_peers)
  PROVE  BInv'
<1> USE DEF BInv
<1>1. Tables' /\ WayTypes' /\ (UNCHANGED run => RunTypes')
  BY ApartTypes DEF StopDetaches, bounds
<1>2. PICK peer \in Peers : peer = m_peers[run[p].at]
  BY DEF NodeTypes
<1>3. peer.rel \in Parts /\ peer.raw \in Parts
  BY PeerTypes DEF Tiers
<1>4. ErrTypes' /\ NodeTypes'
  BY AssertTypes, NodeStays DEF StopDetaches, BusTypes
<1>6. run[p].at - 1 \in Nat /\ <<"rel", "raw">> \in Seq(Tiers)
  BY DEF NodeTypes, Tiers
<1>7. PICK c \in RemoveCalls : c = [stage |-> "removes", at |-> run[p].at - 1, todo |-> <<"rel", "raw">>]
  BY <1>6 DEF RemoveCalls
<1>8. UNCHANGED <<parts, errConn, remoteTopics, sender, registry>>
  BY DEF StopDetaches
<1>9. Detaching(p) \/ Closes(p, peer, c)
  BY <1>2, <1>7, StopDetachesCases
<1>10. MemberTypes'
  BY <1>3, <1>8, <1>9 DEF BusTypes, MemberTypes, Detaching, Closes
<1>11. RunTypes'
  <2>1. CASE Detaching(p)
    BY <1>1, <2>1 DEF Detaching
  <2>2. CASE Closes(p, peer, c)
    <3>1. Goto(p, c) /\ c \in AsideRuns /\ UNCHANGED registry
      BY <1>8, <2>2 DEF Closes, AsideRuns, NodeRuns
    <3> QED
      BY <3>1, NodeRunTypes DEF BusTypes
  <2> QED
    BY <1>9, <2>1, <2>2
<1> QED
  BY <1>1, <1>4, <1>10, <1>11 DEF BusTypes

LEMMA TickTypes ==
  ASSUME BInv, TimerTick \/ ReceiverThread
  PROVE  BInv'
<1>1. tick' \in {"none", "due", "queued", "running"} /\ UNCHANGED vars
  BY DEF TimerTick, ReceiverThread
<1>2. Tables' /\ RunTypes' /\ MemberTypes' /\ ErrTypes' /\ WayTypes'
  BY <1>1, TablesStay, RunStays, MembersStay, AssertTypes, WayStays DEF vars, registry, bounds, BInv, BusTypes
<1>3. NodeTypes'
  BY <1>1 DEF BInv, NodeTypes, TimerTick, ReceiverThread
<1> QED
  BY <1>2, <1>3 DEF BInv, BusTypes

-----------------------------------------------------------------------------
(* All steps.                                                              *)
NodeCall(p) ==
  \/ Start(p) \/ AddPeer(p) \/ AddPeerJoins(p) \/ AddPeerApplies(p) \/ SendSpreads(p)
  \/ Stop(p) \/ StopExits(p) \/ StopJoins(p) \/ StopRemoves(p) \/ StopDetaches(p)
  \/ \E t \in Topics, type \in Types : Receive(p, t, type) \/ \E tier \in Tiers : Send(p, t, type, tier)

BusStep ==
  \/ ~usesNode /\ \E p \in Callers, s \in Subs : SubscribeLock(p, s) \/ Disconnect(p, s)
  \/ ~usesNode /\ \E p \in Callers : InternalSubscribe(p) \/ Registers(p) \/ Joins(p)
  \/ ~usesNode /\ \E x \in Joining, t \in Topics : OnChannelError(x, t)
  \/ ~usesNode /\ WorkerServes
  \/ \E p \in Threads, t \in Topics, type \in Types, local \in BOOLEAN : PublishLock(p, t, type, local)
  \/ \E p \in Threads : InternalPublish(p)
  \/ AsyncSend

LEMMA AllSteps ==
  ASSUME BInv, AllNext
  PROVE  /\ ~ended
         /\ \/ BusStep /\ UNCHANGED nodeVars
            \/ usesNode /\ \E p \in Callers : NodeCall(p)
            \/ usesNode /\ (TimerTick \/ ReceiverThread)
<1>0. Callers \subseteq Threads /\ Net \in Threads /\ TRUE \in BOOLEAN /\ FALSE \in BOOLEAN
  BY DataBusConstants, NodeConstants
<1>1. CASE usesNode
  <2>1. ~ended /\ NodeNext
    BY <1>1 DEF AllNext
  <2>2. CASE ProcessIncoming
    <3>1. PICK t \in Topics : handlers[t] # Nil /\ PublishLock(Net, t, handlers[t], TRUE)
      BY <2>2 DEF ProcessIncoming
    <3>2. handlers # Nil
      BY <2>2 DEF ProcessIncoming, BInv, NodeTypes
    <3>3. handlers[t] \in Types
      BY <3>1, <3>2 DEF BInv, NodeTypes
    <3> QED
      BY <1>0, <2>1, <2>2, <3>1, <3>3 DEF BusStep, ProcessIncoming
  <2> QED
    BY <1>0, <1>1, <2>1, <2>2 DEF NodeNext, NodeCall, BusStep
<1>2. CASE ~usesNode
  <2>1. ~ended /\ Next /\ UNCHANGED nodeVars
    BY <1>2 DEF AllNext, Next
  <2>2. BusStep
    BY <1>0, <1>2, <2>1 DEF Next, BusStep, Registers, Joins
  <2> QED
    BY <2>1, <2>2
<1> QED
  BY <1>1, <1>2 DEF BInv, NodeTypes

(* How far a call of the node can be.                                      *)
Shape(c) ==
  /\ c.stage = "joins bus" => c.todo # <<>>
  /\ c.stage \in {"applies", "spreads"} => c.at > 0
  /\ c.stage = "removes" => c.at <= Len(m_peers) /\ (c.at > 0 => c.todo # <<>>)
  /\ c.stage = "detaches" => c.at \in 1 .. Len(m_peers)
Shapes == \A p \in Threads : Shape(run[p])
TInv == BInv /\ WithinOne /\ Shapes

(* Nobody enters the node or leaves it.                                    *)
OutStays == \A q \in Threads : run'[q] = run[q] \/ (~Inside(q) /\ ~Inside(q)')

LEMMA Away ==
  ASSUME RunTypes, NEW p \in Threads, NEW c, Goto(p, c), run[p].stage \notin Within, c.stage \notin Within
  PROVE  OutStays
<1>1. \A q \in Threads : run'[q] = IF q = p THEN c ELSE run[q]
  BY RunAfter
<1> QED
  BY <1>1 DEF OutStays, Inside

LEMMA OutsideStays ==
  ASSUME OutStays, UNCHANGED <<usesNode, m_peers>>, sender' = sender \/ (sender' = "runs" /\ usesNode), WithinOne, Shapes
  PROVE  WithinOne' /\ Shapes'
<1>1. \A q \in Threads : Inside(q)' => Inside(q) /\ run'[q] = run[q]
  BY DEF OutStays, Inside
<1>2. Shapes'
  <2>1. ASSUME NEW q \in Threads PROVE Shape(run[q])'
    <3>1. CASE run'[q] = run[q]
      BY <3>1 DEF Shapes, Shape
    <3>2. CASE ~Inside(q)'
      BY <3>2 DEF Shape, Inside, Within
    <3> QED
      BY <3>1, <3>2 DEF OutStays
  <2> QED
    BY <2>1 DEF Shapes
<1>3. ASSUME sender' = "exits" PROVE \E p \in Threads : At(p, "joins thread")'
  <2>1. PICK p \in Threads : At(p, "joins thread")
    BY <1>3 DEF WithinOne
  <2>2. Inside(p)
    BY <2>1 DEF Inside, At, Within
  <2>3. run'[p] = run[p]
    BY <2>2 DEF OutStays
  <2> QED
    BY <2>1, <2>3 DEF At
<1> QED
  BY <1>1, <1>2, <1>3 DEF WithinOne

(* One call goes on within the node; all others are outside.               *)
LEMMA InsiderMoves ==
  ASSUME RunTypes, WithinOne, Shapes, NEW p \in Callers, usesNode, NEW c, Goto(p, c), Inside(p) \/ NobodyWithin,
         UNCHANGED usesNode, Shape(c)', sender' = "exits" => c.stage = "joins thread"
  PROVE  /\ WithinOne' /\ Shapes'
         /\ \A q \in Threads \ {p} : ~Inside(q) /\ ~Inside(q)' /\ run'[q] = run[q]
         /\ run'[p] = c
<1>0. p \in Threads
  BY DataBusConstants
<1>1. \A q \in Threads : run'[q] = IF q = p THEN c ELSE run[q]
  BY <1>0, RunAfter
<1>2. \A q \in Threads \ {p} : ~Inside(q)
  BY <1>0 DEF WithinOne, NobodyWithin, Inside
<1>3. \A q \in Threads \ {p} : ~Inside(q)'
  BY <1>1, <1>2 DEF Inside
<1>4. Shapes'
  <2>1. ASSUME NEW q \in Threads PROVE Shape(run[q])'
    <3>1. CASE q = p
      <4>1. run'[p] = c
        BY <1>0, <1>1
      <4> QED
        BY <3>1, <4>1 DEF Shape
    <3>2. CASE q # p
      BY <1>3, <3>2 DEF Shape, Inside, Within
    <3> QED
      BY <3>1, <3>2
  <2> QED
    BY <2>1 DEF Shapes
<1>5. WithinOne'
  <2>1. \A q, r \in Threads : Inside(q)' /\ Inside(r)' => q = r
    BY <1>3
  <2>2. \A q \in Threads : Inside(q)' => q \in Callers /\ usesNode'
    BY <1>3
  <2>3. sender' = "exits" => At(p, "joins thread")'
    BY <1>0, <1>1 DEF At
  <2> QED
    BY <1>0, <2>1, <2>2, <2>3 DEF WithinOne
<1> QED
  BY <1>0, <1>1, <1>2, <1>3, <1>4, <1>5

LEMMA BusStepTypes ==
  ASSUME BInv, BusStep, UNCHANGED nodeVars
  PROVE  BInv'
<1> USE DEF BInv
<1>0. Callers \subseteq Threads /\ Joining \subseteq Parts
  BY DataBusConstants
<1>1. NodeTypes'
  BY NodeStays
<1>2. BusTypes'
  <2>1. CASE \E p \in Callers, s \in Subs : SubscribeLock(p, s) \/ Disconnect(p, s)
    BY <2>1, SubscribeLockTypes, DisconnectTypes
  <2>2. CASE \E p \in Callers : InternalSubscribe(p) \/ Registers(p) \/ Joins(p)
    BY <2>2, InternalSubscribeTypes, OtherBusTypes, ParticipantTypes
  <2>3. CASE \E x \in Joining, t \in Topics : OnChannelError(x, t)
    BY <1>0, <2>3, ChannelErrorTypes
  <2>4. CASE \E p \in Threads, t \in Topics, type \in Types, local \in BOOLEAN : PublishLock(p, t, type, local)
    BY <2>4, PublishLockTypes
  <2>5. CASE \E p \in Threads : InternalPublish(p)
    BY <2>5, InternalPublishTypes
  <2>6. CASE WorkerServes \/ AsyncSend
    BY <2>6, WorkerTypes
  <2> QED
    BY <2>1, <2>2, <2>3, <2>4, <2>5, <2>6 DEF BusStep
<1> QED
  BY <1>1, <1>2

-----------------------------------------------------------------------------
(* What a step of a publication makes of it; it keeps what it was called   *)
(* with.                                                                   *)
Same(c, d) ==
  /\ c.topic = d.topic /\ c.val = d.val /\ c.local = d.local /\ c.signal = d.signal
  /\ c.serializer = d.serializer /\ c.parts = d.parts

LEMMA PublishMoves ==
  ASSUME BusTypes, NEW p \in Threads, InternalPublish(p)
  PROVE  /\ run[p] \in PubCalls /\ \A q \in Threads : q # p => run'[q] = run[q]
         /\ run'[p] = Idle \/ (run'[p] \in PubCalls /\ Same(run'[p], run[p]))
         /\ EmitLocal(p) =>
              /\ run[p].stage = "local" /\ run'[p] \in PubCalls
              /\ IF run[p].signal THEN run'[p].stage = "call" /\ run'[p].todo = subs[run[p].topic]
                 ELSE run'[p].stage = "interest"
         /\ CallSubscriber(p) =>
              /\ run[p].stage = "call" /\ run'[p] \in PubCalls
              /\ IF run[p].todo = <<>> THEN run'[p].stage = "interest"
                 ELSE run'[p].stage = "call" /\ run'[p].todo = Tail(run[p].todo)
         /\ FindInterest(p) =>
              /\ run[p].stage = "interest" /\ run'[p] \in PubCalls /\ run'[p].stage \in {"send", "end"}
              /\ run'[p].stage = "send" => run'[p].to = Interested(run[p])
              /\ run[p].serializer /\ Interested(run[p]) # {} => run'[p].stage = "send"
         /\ SendRemote(p) =>
              /\ run[p].stage = "send"
              /\ run[p].to = {} => run'[p] \in PubCalls /\ run'[p].stage = "end" /\ UNCHANGED outgoing
              /\ run[p].to # {} =>
                   \E x \in run[p].to :
                     /\ SendBy(p, x)
                     /\ IF run[p].val \in thrown' THEN run'[p] = Idle
                        ELSE run'[p] \in PubCalls /\ run'[p].stage = "send" /\ run'[p].to = run[p].to \ {x}
         /\ PublishReturns(p) => run[p].stage = "end" /\ run'[p] = Idle
<1>1. run[p] \in PubCalls
  BY InternalPublishTypes
<1>2. ASSUME NEW c, Goto(p, c)
      PROVE  run'[p] = c /\ \A q \in Threads : q # p => run'[q] = run[q]
  BY <1>2, RunAfter DEF BusTypes
<1>3. /\ run[p].topic \in Topics /\ run[p].val \in Vals /\ run[p].parts \in Seq(Parts)
      /\ run[p].todo \in Seq(Subs) /\ run[p].to \subseteq Parts
  BY <1>1 DEF PubCalls
<1>4. \A st \in {"call", "interest", "send", "end"} : st \in Publishing
  BY DEF Publishing, Early
<1>5. ASSUME NEW st \in {"call", "interest", "send", "end"}
      PROVE  LET c == [run[p] EXCEPT !.stage = st]
             IN  c \in PubCalls /\ c.stage = st /\ Same(c, run[p]) /\ c.todo = run[p].todo
  BY <1>1, <1>4 DEF PubCalls, Same
<1>6. ASSUME EmitLocal(p)
      PROVE  /\ \A q \in Threads : q # p => run'[q] = run[q]
             /\ run[p].stage = "local" /\ run'[p] \in PubCalls /\ Same(run'[p], run[p])
             /\ IF run[p].signal THEN run'[p].stage = "call" /\ run'[p].todo = subs[run[p].topic]
                ELSE run'[p].stage = "interest"
  <2>1. PICK z \in Seq(Subs) : z = subs[run[p].topic]
    BY <1>3 DEF BusTypes, RunTypes
  <2>2. CASE run[p].signal
    <3>1. PICK c : c = [run[p] EXCEPT !.stage = "call", !.handled = TRUE, !.todo = z]
      OBVIOUS
    <3>2. c \in PubCalls /\ Same(c, run[p]) /\ c.stage = "call" /\ c.todo = z
      BY <1>1, <1>4, <3>1 DEF PubCalls, Same
    <3>3. Goto(p, c) /\ run[p].stage = "local"
      BY <1>6, <2>1, <2>2, <3>1 DEF EmitLocal, At
    <3> QED
      BY <1>2, <2>1, <2>2, <3>2, <3>3
  <2>3. CASE ~run[p].signal
    <3>1. Goto(p, [run[p] EXCEPT !.stage = "interest"]) /\ run[p].stage = "local"
      BY <1>6, <2>3 DEF EmitLocal, At
    <3> QED
      BY <1>2, <1>5, <2>3, <3>1
  <2> QED
    BY <2>2, <2>3
<1>7. ASSUME CallSubscriber(p)
      PROVE  /\ \A q \in Threads : q # p => run'[q] = run[q]
             /\ run[p].stage = "call" /\ run'[p] \in PubCalls /\ Same(run'[p], run[p])
             /\ IF run[p].todo = <<>> THEN run'[p].stage = "interest"
                ELSE run'[p].stage = "call" /\ run'[p].todo = Tail(run[p].todo)
  <2>1. CASE run[p].todo = <<>>
    <3>1. Goto(p, [run[p] EXCEPT !.stage = "interest"]) /\ run[p].stage = "call"
      BY <1>7, <2>1 DEF CallSubscriber, At
    <3> QED
      BY <1>2, <1>5, <2>1, <3>1
  <2>2. CASE run[p].todo # <<>>
    <3>0. Tail(run[p].todo) \in Seq(Subs)
      BY <1>3, <2>2
    <3>1. PICK z \in Seq(Subs) : z = Tail(run[p].todo)
      BY <3>0
    <3>2. PICK c : c = [run[p] EXCEPT !.todo = z]
      OBVIOUS
    <3>3. Goto(p, c) /\ run[p].stage = "call"
      BY <1>7, <2>2, <3>1, <3>2 DEF CallSubscriber, At
    <3>4. c \in PubCalls /\ Same(c, run[p]) /\ c.stage = "call" /\ c.todo = z
      BY <1>1, <3>2, <3>3 DEF PubCalls, Same
    <3> QED
      BY <1>2, <2>2, <3>1, <3>3, <3>4
  <2> QED
    BY <2>1, <2>2
<1>8. ASSUME FindInterest(p)
      PROVE  /\ \A q \in Threads : q # p => run'[q] = run[q]
             /\ run[p].stage = "interest" /\ run'[p] \in PubCalls /\ Same(run'[p], run[p])
             /\ run'[p].stage \in {"send", "end"}
             /\ run'[p].stage = "send" => run'[p].to = Interested(run[p])
             /\ run[p].serializer /\ Interested(run[p]) # {} => run'[p].stage = "send"
  <2>0. ToSet(run[p].parts) \subseteq Parts
    BY <1>3 DEF ToSet
  <2>1. PICK x \in SUBSET Parts : x = Interested(run[p])
    BY <2>0 DEF Interested
  <2>2. PICK d : d = [run[p] EXCEPT !.stage = "send", !.to = x, !.handled = TRUE]
    OBVIOUS
  <2>3. d \in PubCalls /\ Same(d, run[p]) /\ d.stage = "send" /\ d.to = x
    BY <1>1, <1>4, <2>2 DEF PubCalls, Same
  <2>4. PICK e : e = [run[p] EXCEPT !.stage = "end", !.handled = TRUE]
    OBVIOUS
  <2>5. e \in PubCalls /\ Same(e, run[p]) /\ e.stage = "end"
    BY <1>1, <1>4, <2>4 DEF PubCalls, Same
  <2>6. run[p].stage = "interest"
    BY <1>8 DEF FindInterest, At
  <2>7. CASE x = {}
    <3>1. Goto(p, [run[p] EXCEPT !.stage = "end"])
      BY <1>8, <2>1, <2>7 DEF FindInterest
    <3>2. run'[p].stage = "end" /\ run'[p] \in PubCalls /\ Same(run'[p], run[p])
      BY <1>2, <1>5, <3>1
    <3> QED
      BY <1>2, <2>1, <2>6, <2>7, <3>1, <3>2
  <2>8. CASE x # {} /\ run[p].serializer
    <3>1. Goto(p, d)
      BY <1>8, <2>1, <2>2, <2>8 DEF FindInterest
    <3> QED
      BY <1>2, <2>1, <2>3, <2>6, <3>1
  <2>9. CASE x # {} /\ ~run[p].serializer
    <3>1. Goto(p, e)
      BY <1>8, <2>1, <2>4, <2>9 DEF FindInterest
    <3> QED
      BY <1>2, <2>5, <2>6, <2>9, <3>1
  <2> QED
    BY <2>7, <2>8, <2>9
<1>9. ASSUME SendRemote(p)
      PROVE  /\ \A q \in Threads : q # p => run'[q] = run[q]
             /\ run'[p] = Idle \/ (run'[p] \in PubCalls /\ Same(run'[p], run[p]))
             /\ run[p].stage = "send"
             /\ run[p].to = {} => run'[p] \in PubCalls /\ run'[p].stage = "end" /\ UNCHANGED outgoing
             /\ run[p].to # {} =>
                   \E x \in run[p].to :
                     /\ SendBy(p, x)
                     /\ IF run[p].val \in thrown' THEN run'[p] = Idle
                        ELSE run'[p] \in PubCalls /\ run'[p].stage = "send" /\ run'[p].to = run[p].to \ {x}
  <2>0. run[p].stage = "send"
    BY <1>9 DEF SendRemote, At
  <2>1. CASE run[p].to = {}
    <3>1. Goto(p, [run[p] EXCEPT !.stage = "end"]) /\ UNCHANGED outgoing
      BY <1>9, <2>1 DEF SendRemote
    <3> QED
      BY <1>2, <1>5, <2>0, <2>1, <3>1
  <2>2. CASE run[p].to # {}
    <3>1. PICK i \in DOMAIN run[p].parts :
            /\ run[p].parts[i] \in run[p].to
            /\ SendBy(p, run[p].parts[i])
            /\ Goto(p, IF run[p].val \in thrown' THEN Idle ELSE [run[p] EXCEPT !.to = @ \ {run[p].parts[i]}])
      BY <1>9, <2>2 DEF SendRemote
    <3>2. PICK x \in run[p].to : x = run[p].parts[i]
      BY <3>1
    <3>3. PICK c : c = [run[p] EXCEPT !.to = @ \ {x}]
      OBVIOUS
    <3>4. c \in PubCalls /\ Same(c, run[p]) /\ c.stage = "send" /\ c.to = run[p].to \ {x}
      BY <1>1, <1>3, <2>0, <3>3 DEF PubCalls, Same
    <3>5. SendBy(p, x) /\ Goto(p, IF run[p].val \in thrown' THEN Idle ELSE c)
      BY <3>1, <3>2, <3>3
    <3>6. run'[p] = (IF run[p].val \in thrown' THEN Idle ELSE c) /\ \A q \in Threads : q # p => run'[q] = run[q]
      BY <1>2, <3>5
    <3> QED
      BY <2>0, <2>2, <3>4, <3>5, <3>6
  <2> QED
    BY <2>1, <2>2
<1>10. ASSUME PublishReturns(p)
       PROVE  run[p].stage = "end" /\ run'[p] = Idle /\ \A q \in Threads : q # p => run'[q] = run[q]
  BY <1>2, <1>10 DEF PublishReturns, At
<1> QED
  BY <1>1, <1>6, <1>7, <1>8, <1>9, <1>10 DEF InternalPublish

(* What the other steps of the bus make of a call.                         *)
LEMMA SubscribeMoves ==
  ASSUME BusTypes, NEW p \in Callers, InternalSubscribe(p)
  PROVE  /\ p \in Threads /\ run[p] \in SubCalls /\ run[p].sub \in Subs /\ \A q \in Threads : q # p => run'[q] = run[q]
         /\ SubscribeConnect(p) =>
              run[p].stage = "connect" /\ run'[p].stage = "cache" /\ run'[p].sub = run[p].sub /\ run'[p] \in SubCalls
         /\ SubscribeReadCache(p) =>
              /\ run[p].stage = "cache" /\ run'[p].stage = "last" /\ run'[p].sub = run[p].sub /\ run'[p] \in SubCalls
              /\ run'[p].vals \in {CacheFor(run[p].sub)} \cup (IF run[p].sub \in Lifespan THEN {{}} ELSE {})
         /\ SubscribeDeliver(p) => run[p].stage = "last" /\ run'[p] = Idle
         /\ run'[p] \in SubCalls \/ run'[p] = Idle
<1>0. p \in Threads
  BY DataBusConstants
<1>1. run[p].stage \in {"connect", "cache", "last"}
  BY DEF InternalSubscribe, SubscribeConnect, SubscribeReadCache, SubscribeDeliver, At
<1>2. run[p] \in SubCalls /\ run[p].sub \in Subs /\ run[p].vals \in SUBSET Vals
  <2>1. run[p] \in SubCalls
    BY <1>0, <1>1, RunAt, Stages DEF BusTypes
  <2> QED
    BY <2>1 DEF SubCalls
<1>3. ASSUME NEW c, Goto(p, c)
      PROVE  run'[p] = c /\ \A q \in Threads : q # p => run'[q] = run[q]
  BY <1>0, <1>3, RunAfter DEF BusTypes
<1>4. ASSUME SubscribeConnect(p)
      PROVE  /\ \A q \in Threads : q # p => run'[q] = run[q]
             /\ run[p].stage = "connect" /\ run'[p].stage = "cache" /\ run'[p].sub = run[p].sub /\ run'[p] \in SubCalls
  <2>1. PICK c : c = [run[p] EXCEPT !.stage = "cache"]
    OBVIOUS
  <2>2. c \in SubCalls /\ c.stage = "cache" /\ c.sub = run[p].sub
    BY <1>2, <2>1 DEF SubCalls
  <2>3. Goto(p, c) /\ run[p].stage = "connect"
    BY <1>4, <2>1 DEF SubscribeConnect, Then, At
  <2> QED
    BY <1>3, <2>2, <2>3
<1>5. ASSUME SubscribeReadCache(p)
      PROVE  /\ \A q \in Threads : q # p => run'[q] = run[q]
             /\ run[p].stage = "cache" /\ run'[p].stage = "last" /\ run'[p].sub = run[p].sub /\ run'[p] \in SubCalls
             /\ run'[p].vals \in {CacheFor(run[p].sub)} \cup (IF run[p].sub \in Lifespan THEN {{}} ELSE {})
  <2>1. PICK vals \in {CacheFor(run[p].sub)} \cup (IF run[p].sub \in Lifespan THEN {{}} ELSE {}) :
          Goto(p, [run[p] EXCEPT !.stage = "last", !.vals = vals])
    BY <1>5 DEF SubscribeReadCache, Then
  <2>2. PICK c : c = [run[p] EXCEPT !.stage = "last", !.vals = vals]
    OBVIOUS
  <2>3. Goto(p, c) /\ run[p].stage = "cache"
    BY <1>5, <2>1, <2>2 DEF SubscribeReadCache, At
  <2>4. vals \in SUBSET Vals
    <3>1. TopicOf[run[p].sub] \in Topics
      BY <1>2, DataBusConstants
    <3>2. lastValue[TopicOf[run[p].sub]] # Nil => lastValue[TopicOf[run[p].sub]] \in Entries
      BY <3>1 DEF Tables, BusTypes
    <3> QED
      BY <2>1, <3>2 DEF CacheFor, Entries
  <2>5. c \in SubCalls /\ c.stage = "last" /\ c.sub = run[p].sub /\ c.vals = vals
    BY <1>2, <2>2, <2>4 DEF SubCalls
  <2> QED
    BY <1>3, <2>1, <2>3, <2>5
<1>6. ASSUME SubscribeDeliver(p)
      PROVE  run[p].stage = "last" /\ run'[p] = Idle /\ \A q \in Threads : q # p => run'[q] = run[q]
  BY <1>3, <1>6 DEF SubscribeDeliver, At
<1> QED
  BY <1>0, <1>2, <1>4, <1>5, <1>6 DEF InternalSubscribe

LEMMA LockMoves ==
  ASSUME BusTypes, NEW p \in Threads, NEW t \in Topics, NEW type \in Types, NEW local \in BOOLEAN, PublishLock(p, t, type, local)
  PROVE  /\ run[p] = Idle /\ \A q \in Threads : q # p => run'[q] = run[q]
         /\ run'[p] = run[p] \/ (run'[p] = LockCall(t, pubs', local) /\ run'[p] \in PubCalls)
         /\ Fits(t, type) => run'[p] = LockCall(t, pubs', local) /\ run'[p] \in PubCalls
         /\ ~Fits(t, type) => run'[p] = run[p]
<1>1. run[p] = Idle
  <2>1. run[p].stage = "idle"
    BY DEF PublishLock, At
  <2>2. run[p] \in SubCalls \cup PubCalls \cup AsideRuns
    BY RunAt DEF BusTypes
  <2>3. run[p] \in IdleCalls
    BY <2>1, <2>2 DEF AsideRuns, NodeRuns, IdleCalls, AddCalls, JoinCalls, ApplyCalls, SpreadCalls, StopCalls, RemoveCalls,
                      DetachCalls, SubCalls, PubCalls, Publishing, Early
  <2> QED
    BY <2>3 DEF IdleCalls, Idle
<1>2. CASE Fits(t, type)
  <2>1. Goto(p, LockCall(t, pubs', local)) /\ LockCall(t, pubs', local) \in PubCalls
    BY <1>2, LockFacts, LockTypes DEF BusTypes
  <2> QED
    BY <1>1, <1>2, <2>1, RunAfter DEF BusTypes
<1>3. CASE ~Fits(t, type)
  BY <1>1, <1>3, LockFacts
<1> QED
  BY <1>2, <1>3

LEMMA BusStepOut ==
  ASSUME BInv, BusStep, UNCHANGED nodeVars
  PROVE  OutStays /\ UNCHANGED sender
<1> USE DEF BInv
<1>0. Callers \subseteq Threads
  BY DataBusConstants
<1>1. \A c \in SubCalls \cup PubCalls : c.stage \notin Within
  BY DEF SubCalls, PubCalls, Publishing, Early, Within
<1>2. Idle.stage \notin Within
  BY DEF Idle, Within
<1>3. ASSUME NEW p \in Threads, run[p].stage \notin Within, run'[p].stage \notin Within,
             \A q \in Threads : q # p => run'[q] = run[q]
      PROVE  OutStays
  BY <1>3 DEF OutStays, Inside
<1>4. ASSUME UNCHANGED run PROVE OutStays
  BY <1>4 DEF OutStays
<1>5. ASSUME NEW p \in Threads, NEW c, Goto(p, c), run[p].stage \notin Within, c.stage \notin Within
      PROVE  OutStays
  BY <1>5, Away DEF BusTypes
<1>6. ASSUME NEW p \in Callers, NEW s \in Subs, SubscribeLock(p, s)
      PROVE  OutStays /\ UNCHANGED sender
  <2>1. PICK c : c = [stage |-> "connect", sub |-> s, vals |-> {}]
    OBVIOUS
  <2>2. UNCHANGED run \/ Goto(p, c)
    BY <1>6, <2>1 DEF SubscribeLock, Then
  <2>3. run[p].stage \notin Within /\ c.stage \notin Within
    BY <1>6, <2>1 DEF SubscribeLock, Calls, At, Within
  <2> QED
    BY <1>0, <1>4, <1>5, <1>6, <2>2, <2>3 DEF SubscribeLock, members, wiring
<1>7. ASSUME NEW p \in Callers, NEW s \in Subs, Disconnect(p, s)
      PROVE  OutStays /\ UNCHANGED sender
  BY <1>4, <1>7 DEF Disconnect, members, wiring
<1>8. ASSUME NEW p \in Callers, InternalSubscribe(p)
      PROVE  OutStays /\ UNCHANGED sender
  BY <1>1, <1>2, <1>3, <1>8, SubscribeMoves DEF InternalSubscribe, members, wiring
<1>9. ASSUME NEW p \in Callers, Registers(p)
      PROVE  OutStays /\ UNCHANGED sender
  BY <1>4, <1>9 DEF Registers, InternalRegisterSerializer, InternalLastValueCache, InternalEnableContinuousErrors, members, wiring
<1>10. ASSUME NEW p \in Callers, Joins(p)
       PROVE  OutStays /\ UNCHANGED sender
  <2>1. UNCHANGED wiring
    BY <1>10 DEF Joins, InternalAddParticipant, AddParticipant, InternalRemoveParticipant, AddRemoteTopic, members
  <2>2. ASSUME InternalAddParticipant(p) PROVE OutStays
    BY <1>0, <1>2, <1>5, <2>2 DEF InternalAddParticipant, At, Within
  <2>3. ASSUME NEW x \in Joining, AddParticipant(p, x) PROVE OutStays
    <3>1. PICK c : c = [stage |-> "add", part |-> x]
      OBVIOUS
    <3>2. Goto(p, c) /\ c.stage \notin Within /\ run[p].stage \notin Within
      BY <2>3, <3>1 DEF AddParticipant, Calls, At, Within
    <3> QED
      BY <1>0, <1>5, <3>2
  <2> QED
    BY <1>4, <1>10, <2>1, <2>2, <2>3 DEF Joins, InternalRemoveParticipant, AddRemoteTopic, wiring
<1>11. ASSUME NEW p \in Threads, NEW t \in Topics, NEW type \in Types, NEW local \in BOOLEAN, PublishLock(p, t, type, local)
       PROVE  OutStays /\ UNCHANGED sender
  BY <1>1, <1>2, <1>3, <1>11, LockMoves DEF PublishLock, members, wiring
<1>12. ASSUME NEW p \in Threads, InternalPublish(p)
       PROVE  OutStays /\ UNCHANGED sender
  BY <1>1, <1>2, <1>3, <1>12, PublishMoves DEF InternalPublish, members, wiring
<1>13. ASSUME WorkerServes \/ AsyncSend \/ \E x \in Joining, t \in Topics : OnChannelError(x, t)
       PROVE  OutStays /\ UNCHANGED sender
  BY <1>4, <1>13 DEF WorkerServes, AsyncSend, OnChannelError, members, wiring
<1> QED
  BY <1>6, <1>7, <1>8, <1>9, <1>10, <1>11, <1>12, <1>13 DEF BusStep

LEMMA TailFull ==
  ASSUME NEW S, NEW z \in Seq(S), Len(z) > 1
  PROVE  Tail(z) # <<>>
<1>1. Tail(z) \in Seq(S) /\ Len(Tail(z)) = Len(z) - 1 /\ Len(z) \in Nat
  BY EmptySeq, LenProperties
<1>2. PICK w \in Seq(S) : w = Tail(z)
  BY <1>1
<1>3. Len(w) # 0
  BY <1>1, <1>2
<1>4. w # <<>>
  BY <1>3, EmptySeq
<1> QED
  BY <1>2, <1>4

(* A call of the node: nobody else is within it.                           *)
Moved(c) == c.stage \in Within \cup {"idle"}
Alone(p) ==
  /\ \A q \in Threads : q # p => ~Inside(q) /\ ~Inside(q)' /\ run'[q] = run[q]
  /\ Moved(run[p]) /\ Moved(run'[p])

LEMMA NodeCallAlone ==
  ASSUME TInv, usesNode, NEW p \in Callers, NodeCall(p)
  PROVE  /\ WithinOne' /\ Shapes' /\ usesNode' = usesNode
         /\ Alone(p)
<1> USE DEF TInv, BInv, BusTypes
<1>0. p \in Threads
  BY DataBusConstants
<1>1. ASSUME UNCHANGED run, UNCHANGED m_peers, UNCHANGED usesNode, sender' = sender \/ sender' = "runs", NodeCalls(p)
      PROVE  /\ WithinOne' /\ Shapes'
             /\ Alone(p)
  <2>1. OutStays
    BY <1>1 DEF OutStays
  <2>2. \A q \in Threads : ~Inside(q)
    BY <1>1 DEF NodeCalls, NobodyWithin, WithinOne, Inside
  <2> QED
    BY <1>1, <2>1, <2>2, OutsideStays DEF OutStays, Inside, Alone, Moved, NodeCalls, At
<1>2. ASSUME NEW c, Goto(p, c), UNCHANGED usesNode, Inside(p) \/ NodeCalls(p), Shape(c)', Moved(c),
             sender' = "exits" => c.stage = "joins thread"
      PROVE  /\ WithinOne' /\ Shapes'
             /\ Alone(p)
  <2>1. (Inside(p) \/ NobodyWithin) /\ Moved(run[p])
    BY <1>2 DEF NodeCalls, At, Moved, Inside
  <2> QED
    BY <1>2, <2>1, InsiderMoves DEF Alone
<1>3. ASSUME NEW c, c.stage = "idle" PROVE Shape(c)' /\ Moved(c)
  BY <1>3 DEF Shape, Moved
<1>4. sender = "exits" => \A q \in Threads : Inside(q) => At(q, "joins thread")
  <2>1. \A q \in Threads : At(q, "joins thread") => Inside(q)
    BY DEF At, Inside, Within
  <2> QED
    BY <2>1 DEF WithinOne
<1>4a. NodeCalls(p) => sender # "exits"
  BY <1>4 DEF NodeCalls, NobodyWithin, WithinOne, Inside, At, Within
<1>5. ASSUME Start(p) \/ \E t \in Topics, type \in Types : Receive(p, t, type)
      PROVE  /\ WithinOne' /\ Shapes' /\ usesNode' = usesNode
             /\ Alone(p)
  BY <1>1, <1>5 DEF Start, Receive, members, wiring
<1>6. ASSUME AddPeer(p)
      PROVE  /\ WithinOne' /\ Shapes' /\ usesNode' = usesNode
             /\ Alone(p)
  <2>1. PICK peer : peer = PeerParts[added + 1]
    OBVIOUS
  <2>2. PICK c : c = [stage |-> "joins bus", peer |-> peer, todo |-> <<peer.rel, peer.raw>>]
    OBVIOUS
  <2>3. UNCHANGED run \/ Goto(p, c)
    BY <1>6, <2>1, <2>2 DEF AddPeer
  <2>4. Shape(c)' /\ Moved(c)
    BY <2>2 DEF Shape, Moved, Within
  <2>5. NodeCalls(p) /\ UNCHANGED usesNode /\ UNCHANGED m_peers /\ UNCHANGED sender
    BY <1>6 DEF AddPeer
  <2> QED
    BY <1>1, <1>2, <1>4a, <2>3, <2>4, <2>5
<1>7. ASSUME AddPeerJoins(p)
      PROVE  /\ WithinOne' /\ Shapes' /\ usesNode' = usesNode
             /\ Alone(p)
  <2>1. Inside(p) /\ sender # "exits" /\ UNCHANGED usesNode /\ UNCHANGED sender /\ run[p].stage = "joins bus"
    BY <1>0, <1>4, <1>7 DEF AddPeerJoins, At, Inside, Within, WithinOne, nodeVars, wiring
  <2>2. run[p] \in JoinCalls
    BY <1>0, <2>1, RunAt, Stages
  <2>3. PICK z \in Seq(Parts) : z = run[p].todo
    BY <2>2 DEF JoinCalls
  <2>4. CASE Len(z) > 1
    <3>1. PICK c : c = [run[p] EXCEPT !.todo = Tail(z)]
      OBVIOUS
    <3>2. c.stage = "joins bus" /\ c.todo = Tail(z)
      BY <2>1, <2>2, <3>1 DEF JoinCalls
    <3>3. Tail(z) # <<>>
      BY <2>3, <2>4, TailFull
    <3>4. Shape(c)' /\ Moved(c)
      BY <3>2, <3>3 DEF Shape, Moved, Within
    <3>5. Goto(p, c)
      BY <1>7, <2>3, <2>4, <3>1 DEF AddPeerJoins
    <3> QED
      BY <1>2, <2>1, <3>4, <3>5
  <2>5. CASE ~(Len(z) > 1)
    <3>1. PICK c : c = [stage |-> "applies", peer |-> run[p].peer, at |-> 1]
      OBVIOUS
    <3>2. Shape(c)' /\ Moved(c)
      BY <3>1 DEF Shape, Moved, Within
    <3>3. Goto(p, c)
      BY <1>7, <2>3, <2>5, <3>1 DEF AddPeerJoins
    <3> QED
      BY <1>2, <2>1, <3>2, <3>3
  <2> QED
    BY <2>4, <2>5
<1>8. ASSUME AddPeerApplies(p) \/ SendSpreads(p)
      PROVE  /\ WithinOne' /\ Shapes' /\ usesNode' = usesNode
             /\ Alone(p)
  <2>1. /\ Inside(p) /\ sender # "exits" /\ UNCHANGED usesNode /\ UNCHANGED sender
        /\ run[p].stage \in {"applies", "spreads"}
    BY <1>0, <1>4, <1>8 DEF AddPeerApplies, SendSpreads, At, Inside, Within, WithinOne, nodeVars, wiring
  <2>2. run[p] \in ApplyCalls \cup SpreadCalls
    BY <1>0, <2>1, RunAt, Stages
  <2>3. PICK n \in Nat : n = run[p].at
    BY <2>2 DEF ApplyCalls, SpreadCalls
  <2>4. PICK c : c = [run[p] EXCEPT !.at = n + 1]
    OBVIOUS
  <2>5. c.stage \in {"applies", "spreads"} /\ c.at = n + 1
    BY <2>1, <2>2, <2>4 DEF ApplyCalls, SpreadCalls
  <2>6. Shape(c)' /\ Moved(c)
    <3>0. n + 1 > 0
      OBVIOUS
    <3>1. c.at > 0 /\ c.stage # "joins bus" /\ c.stage # "removes" /\ c.stage # "detaches"
      BY <2>5, <3>0
    <3> QED
      BY <2>5, <3>1 DEF Shape, Moved, Within
  <2>7. Shape(Idle)' /\ Moved(Idle)
    BY <1>3 DEF Idle
  <2>8. Goto(p, c) \/ Goto(p, Idle)
    BY <1>8, <2>3, <2>4 DEF AddPeerApplies, SendSpreads
  <2> QED
    BY <1>2, <2>1, <2>6, <2>7, <2>8
<1>9. ASSUME NEW t \in Topics, NEW type \in Types, NEW tier \in Tiers, Send(p, t, type, tier)
      PROVE  /\ WithinOne' /\ Shapes' /\ usesNode' = usesNode
             /\ Alone(p)
  <2>1. PICK c : c = [stage |-> "spreads", topic |-> <<t, tier>>, at |-> 1]
    OBVIOUS
  <2>2. UNCHANGED run \/ Goto(p, c)
    BY <1>9, <2>1 DEF Send
  <2>3. Shape(c)' /\ Moved(c)
    BY <2>1 DEF Shape, Moved, Within
  <2>4. NodeCalls(p) /\ UNCHANGED usesNode /\ UNCHANGED m_peers /\ UNCHANGED sender
    BY <1>9 DEF Send, members, wiring
  <2> QED
    BY <1>1, <1>2, <1>4a, <2>2, <2>3, <2>4
<1>10. ASSUME Stop(p) \/ StopExits(p)
       PROVE  /\ WithinOne' /\ Shapes' /\ usesNode' = usesNode
              /\ Alone(p)
  <2>1. PICK c : c = [stage |-> "exits"]
    OBVIOUS
  <2>2. PICK d : d = [stage |-> "joins thread"]
    OBVIOUS
  <2>3. Shape(c)' /\ Shape(d)' /\ Moved(c) /\ Moved(d)
    BY <2>1, <2>2 DEF Shape, Moved, Within
  <2>4. ASSUME Stop(p)
        PROVE  /\ NodeCalls(p) /\ UNCHANGED usesNode /\ sender' # "exits" /\ Goto(p, c)
    BY <1>4a, <2>1, <2>4 DEF Stop, members, wiring
  <2>5. ASSUME StopExits(p)
        PROVE  /\ Inside(p) /\ UNCHANGED usesNode /\ Goto(p, d)
    BY <2>2, <2>5 DEF StopExits, Inside, At, Within, nodeVars
  <2>6. d.stage = "joins thread"
    BY <2>2
  <2> QED
    BY <1>2, <1>10, <2>3, <2>4, <2>5, <2>6
<1>11. ASSUME StopJoins(p)
       PROVE  /\ WithinOne' /\ Shapes' /\ usesNode' = usesNode
              /\ Alone(p)
  <2>1. PICK c : c = [stage |-> "removes", at |-> Len(m_peers), todo |-> <<"rel", "raw">>]
    OBVIOUS
  <2>2. Len(m_peers) \in Nat /\ UNCHANGED m_peers
    <3>1. Len(m_peers) \in Nat
      BY DEF NodeTypes
    <3> QED
      BY <1>11, <3>1 DEF StopJoins, nodeVars
  <2>3. Shape(c)' /\ Moved(c)
    BY <2>1, <2>2 DEF Shape, Moved, Within
  <2>4. Inside(p) /\ UNCHANGED usesNode /\ Goto(p, c) /\ sender' = "gone"
    BY <1>11, <2>1 DEF StopJoins, Inside, At, Within, nodeVars
  <2> QED
    BY <1>2, <2>3, <2>4
<1>12. ASSUME StopRemoves(p)
       PROVE  /\ WithinOne' /\ Shapes' /\ usesNode' = usesNode
              /\ Alone(p)
  <2>1. /\ Inside(p) /\ sender # "exits" /\ UNCHANGED usesNode /\ UNCHANGED sender
        /\ run[p].stage = "removes"
    BY <1>0, <1>4, <1>12 DEF StopRemoves, At, Inside, Within, WithinOne, wiring
  <2>2. run[p] \in RemoveCalls /\ run[p].at \in Nat
    BY <1>12, RemoveFacts
  <2>3. PICK z \in Seq(Tiers) : z = run[p].todo
    BY <2>2 DEF RemoveCalls
  <2>4. Shape(run[p]) /\ Len(m_peers) \in Nat
    BY <1>0 DEF Shapes, NodeTypes
  <2>5. CASE run[p].at = 0
    <3>1. Goto(p, Idle)
      BY <1>12, <2>5 DEF StopRemoves
    <3>2. Shape(Idle)' /\ Moved(Idle)
      BY <1>3 DEF Idle
    <3> QED
      BY <1>2, <2>1, <3>1, <3>2
  <2>6. CASE run[p].at # 0 /\ Len(z) > 1
    <3>1. PICK c : c = [run[p] EXCEPT !.todo = Tail(z)]
      OBVIOUS
    <3>2. c.stage = "removes" /\ c.todo = Tail(z) /\ c.at = run[p].at
      BY <2>1, <2>2, <3>1 DEF RemoveCalls
    <3>3. Tail(z) # <<>>
      BY <2>3, <2>6, TailFull
    <3>4. UNCHANGED m_peers /\ Goto(p, c)
      BY <1>12, <2>3, <2>6, <3>1 DEF StopRemoves
    <3>5. Shape(c)' /\ Moved(c)
      BY <2>1, <2>4, <3>2, <3>3, <3>4 DEF Shape, Moved, Within
    <3> QED
      BY <1>2, <2>1, <3>4, <3>5
  <2>7. CASE run[p].at # 0 /\ ~(Len(z) > 1)
    <3>1. PICK c : c = [stage |-> "detaches", at |-> run[p].at]
      OBVIOUS
    <3>2. UNCHANGED m_peers /\ Goto(p, c)
      BY <1>12, <2>3, <2>7, <3>1 DEF StopRemoves
    <3>3. run[p].at \in 1 .. Len(m_peers)
      BY <2>1, <2>2, <2>4, <2>7 DEF Shape
    <3>4. Shape(c)' /\ Moved(c)
      BY <3>1, <3>2, <3>3 DEF Shape, Moved, Within
    <3> QED
      BY <1>2, <2>1, <3>2, <3>4
  <2> QED
    BY <2>5, <2>6, <2>7
<1>13. ASSUME StopDetaches(p)
       PROVE  /\ WithinOne' /\ Shapes' /\ usesNode' = usesNode
              /\ Alone(p)
  <2>1. /\ Inside(p) /\ sender # "exits" /\ UNCHANGED usesNode /\ UNCHANGED sender /\ UNCHANGED m_peers
        /\ run[p].stage = "detaches"
    BY <1>0, <1>4, <1>13 DEF StopDetaches, At, Inside, Within, WithinOne, nodeVars
  <2>2. run[p].at \in 1 .. Len(m_peers)
    BY <1>0, <2>1 DEF Shapes, Shape
  <2>3. PICK c : c = [stage |-> "removes", at |-> run[p].at - 1, todo |-> <<"rel", "raw">>]
    OBVIOUS
  <2>4. UNCHANGED run \/ Goto(p, c)
    BY <1>13, <2>3 DEF StopDetaches
  <2>5. run[p].at - 1 <= Len(m_peers) /\ Len(m_peers) \in Nat
    BY <2>2 DEF NodeTypes
  <2>6. Shape(c)' /\ Moved(c)
    BY <2>1, <2>3, <2>5 DEF Shape, Moved, Within
  <2>7. CASE Goto(p, c)
    BY <1>2, <2>1, <2>6, <2>7
  <2>8. CASE UNCHANGED run
    <3>1. WithinOne'
      BY <2>1, <2>8 DEF WithinOne, Inside, At
    <3>2. \A q \in Threads : q # p => ~Inside(q)
      BY <1>0, <2>1 DEF WithinOne
    <3>3. Moved(run[p])
      BY <2>1 DEF Moved, Inside
    <3>4. Alone(p)
      BY <2>8, <3>2, <3>3 DEF Alone, Inside
    <3>5. Shapes'
      BY <2>1, <2>8 DEF Shapes, Shape
    <3> QED
      BY <2>1, <3>1, <3>4, <3>5
  <2> QED
    BY <2>4, <2>7, <2>8
<1> QED
  BY <1>5, <1>6, <1>7, <1>8, <1>9, <1>10, <1>11, <1>12, <1>13 DEF NodeCall

LEMMA NodeCallTypes ==
  ASSUME TInv, usesNode, NEW p \in Callers, NodeCall(p)
  PROVE  BInv'
<1>0. p \in Threads /\ BInv /\ Shape(run[p])
  BY DataBusConstants DEF TInv, Shapes
<1>1. ASSUME AddPeerJoins(p) PROVE BInv'
  BY <1>0, <1>1, AddPeerJoinsTypes DEF Shape, AddPeerJoins, At
<1>2. ASSUME AddPeerApplies(p) \/ SendSpreads(p) PROVE BInv'
  BY <1>0, <1>2, AddPeerAppliesTypes, SendSpreadsTypes DEF Shape, AddPeerApplies, SendSpreads, At
<1>3. ASSUME StopRemoves(p) PROVE BInv'
  BY <1>0, <1>3, StopRemovesTypes DEF Shape, StopRemoves, At
<1>4. ASSUME StopDetaches(p) PROVE BInv'
  BY <1>0, <1>4, StopDetachesTypes DEF Shape, StopDetaches, At
<1> QED
  BY <1>0, <1>1, <1>2, <1>3, <1>4, StartTypes, AddPeerTypes, StopTypes, ReceiveTypes, SendsTypes DEF NodeCall

LEMMA TypesNext ==
  ASSUME TInv, AllNext
  PROVE  TInv'
<1>1. CASE BusStep /\ UNCHANGED nodeVars
  <2>1. BInv' /\ OutStays /\ UNCHANGED sender /\ UNCHANGED usesNode /\ UNCHANGED m_peers
    BY <1>1, BusStepTypes, BusStepOut DEF TInv, nodeVars
  <2> QED
    BY <2>1, OutsideStays DEF TInv
<1>2. CASE usesNode /\ \E p \in Callers : NodeCall(p)
  BY <1>2, NodeCallAlone, NodeCallTypes DEF TInv
<1>3. CASE TimerTick \/ ReceiverThread
  <2>1. BInv'
    BY <1>3, TickTypes DEF TInv
  <2>2. UNCHANGED vars /\ UNCHANGED usesNode /\ UNCHANGED m_peers
    BY <1>3 DEF TimerTick, ReceiverThread
  <2>3. OutStays /\ UNCHANGED sender
    BY <2>2 DEF vars, OutStays, members, wiring
  <2> QED
    BY <2>1, <2>2, <2>3, OutsideStays DEF TInv
<1> QED
  BY <1>1, <1>2, <1>3, AllSteps DEF TInv

LEMMA TypesStutter ==
  ASSUME TInv, UNCHANGED allVars
  PROVE  TInv'
<1>1. UNCHANGED vars /\ UNCHANGED nodeVars
  BY DEF allVars
<1>2. Tables' /\ RunTypes' /\ MemberTypes' /\ ErrTypes' /\ WayTypes' /\ NodeTypes'
  BY <1>1, TablesStay, RunStays, MembersStay, AssertTypes, WayStays, NodeStays DEF vars, registry, bounds, TInv, BInv, BusTypes
<1>3. OutStays /\ UNCHANGED sender /\ UNCHANGED usesNode /\ UNCHANGED m_peers
  BY <1>1 DEF vars, nodeVars, OutStays, members, wiring
<1>4. WithinOne' /\ Shapes'
  BY <1>3, OutsideStays DEF TInv
<1> QED
  BY <1>2, <1>4 DEF TInv, BInv, BusTypes

(* The types, the order in the error table, and one caller within the node *)
(* at a time.                                                              *)
THEOREM BusTyped == NodeSpec => []TInv
<1>1. NodeInit => TInv
  <2> SUFFICES ASSUME NodeInit PROVE TInv
    OBVIOUS
  <2>1. \A p \in Threads : run[p].stage = "idle"
    BY DEF NodeInit, Init, Idle
  <2>2. sender = "runs"
    BY DEF NodeInit, Init
  <2>3. WithinOne
    BY <2>1, <2>2 DEF WithinOne, Inside, Within
  <2>4. Shapes
    BY <2>1 DEF Shapes, Shape
  <2> QED
    BY <2>3, <2>4, TypesInit DEF TInv
<1>2. TInv /\ [AllNext]_allVars => TInv'
  BY TypesNext, TypesStutter
<1> QED
  BY <1>1, <1>2, PTL DEF NodeSpec

-----------------------------------------------------------------------------
(* The cache.                                                              *)
LEMMA TypeSettled ==
  ASSUME Tables, Cache, NEW t \in Topics, NEW type \in Types, Fits(t, type), types' = [types EXCEPT ![t] = type],
         qos' \subseteq qos \cup {t}, UNCHANGED lastValue
  PROVE  Cache'
<1>1. \A u \in Topics : types'[u] = IF u = t THEN type ELSE types[u]
  BY DEF Tables
<1>2. type # Nil /\ types[t] \in {Nil, type}
  BY DataBusConstants DEF Fits
<1>3. \A u \in qos' : types'[u] # Nil
  BY <1>1, <1>2 DEF Cache, Tables
<1>4. \A u \in Topics : lastValue'[u] # Nil => types'[u] # Nil /\ lastValue'[u].type = types'[u]
  BY <1>1, <1>2 DEF Cache
<1> QED
  BY <1>3, <1>4 DEF Cache

LEMMA CacheStays ==
  ASSUME Cache, UNCHANGED types, UNCHANGED lastValue, qos' \subseteq qos
  PROVE  Cache'
BY DEF Cache

LEMMA CacheNext ==
  ASSUME EarlyCache = FALSE, TInv, Cache, AllNext
  PROVE  Cache'
<1> USE DEF TInv, BInv, BusTypes
<1>0. \A s \in Subs : TopicOf[s] \in Topics /\ TypeOf[s] \in Types
  BY DataBusConstants
<1>1. ASSUME NEW p \in Callers, NEW s \in Subs, SubscribeLock(p, s) PROVE Cache'
  <2>1. PICK t \in Topics : t = TopicOf[s]
    BY <1>0
  <2>2. PICK type \in Types : type = TypeOf[s]
    BY <1>0
  <2>3. qos' \subseteq qos \cup {t} /\ UNCHANGED lastValue
    BY <1>1, <2>1 DEF SubscribeLock
  <2>4. CASE Fits(t, type)
    <3>1. types' = [types EXCEPT ![t] = type]
      BY <1>1, <2>1, <2>2, <2>4 DEF SubscribeLock
    <3> QED
      BY <2>3, <2>4, <3>1, TypeSettled
  <2>5. CASE ~Fits(t, type)
    <3>1. UNCHANGED types /\ types[t] # Nil
      BY <1>1, <2>1, <2>2, <2>5 DEF SubscribeLock, Fits
    <3> QED
      BY <2>3, <3>1 DEF Cache
  <2> QED
    BY <2>4, <2>5
<1>2. ASSUME NEW p \in Callers, Registers(p) PROVE Cache'
  <2>1. ASSUME NEW t \in Topics, NEW type \in Types, InternalRegisterSerializer(p, t, type) PROVE Cache'
    BY <2>1, TypeSettled, CacheStays DEF InternalRegisterSerializer
  <2>2. ASSUME NEW t \in Topics, NEW b \in BOOLEAN, InternalLastValueCache(p, t, b) PROVE Cache'
    BY <2>2 DEF InternalLastValueCache, Cache
  <2>3. ASSUME NEW b \in BOOLEAN, InternalEnableContinuousErrors(p, b) PROVE Cache'
    BY <2>3, CacheStays DEF InternalEnableContinuousErrors, registry
  <2> QED
    BY <1>2, <2>1, <2>2, <2>3 DEF Registers
<1>3. ASSUME NEW p \in Threads, NEW t \in Topics, NEW type \in Types, NEW local \in BOOLEAN, PublishLock(p, t, type, local)
      PROVE  Cache'
  <2>1. UNCHANGED types /\ UNCHANGED qos
    BY <1>3 DEF PublishLock
  <2>2. CASE t \in qos /\ Fits(t, type)
    <3>1. types[t] = type /\ type # Nil
      BY <2>2, DataBusConstants DEF Cache, Fits
    <3>2. PICK e : e = [val |-> pubs', type |-> type]
      OBVIOUS
    <3>3. lastValue' = [lastValue EXCEPT ![t] = e] /\ e.type = type
      BY <1>3, <2>2, <3>2 DEF PublishLock, StoreLast
    <3> QED
      BY <2>1, <3>1, <3>3 DEF Cache, Tables
  <2>3. CASE ~(t \in qos /\ Fits(t, type))
    BY <1>3, <2>1, <2>3, CacheStays DEF PublishLock, StoreLast
  <2> QED
    BY <2>2, <2>3
<1>4. ASSUME NEW p \in Callers, Joins(p) PROVE Cache'
  <2>1. UNCHANGED registry
    BY <1>4 DEF Joins, InternalAddParticipant, AddParticipant, InternalRemoveParticipant, AddRemoteTopic
  <2> QED
    BY <2>1, CacheStays DEF registry
<1>5. CASE BusStep
  <2>1. ASSUME NEW p \in Callers, NEW s \in Subs, Disconnect(p, s) PROVE Cache'
    BY <2>1, CacheStays DEF Disconnect
  <2>2. ASSUME NEW p \in Callers, InternalSubscribe(p) PROVE Cache'
    BY <2>2, CacheStays DEF InternalSubscribe
  <2>3. ASSUME NEW x \in Joining, NEW t \in Topics, OnChannelError(x, t) PROVE Cache'
    BY <2>3, CacheStays DEF OnChannelError, registry
  <2>4. ASSUME NEW p \in Threads, InternalPublish(p) PROVE Cache'
    BY <2>4, CacheStays DEF InternalPublish, registry
  <2>5. ASSUME WorkerServes \/ AsyncSend PROVE Cache'
    BY <2>5, CacheStays DEF WorkerServes, AsyncSend, registry
  <2> QED
    BY <1>1, <1>2, <1>3, <1>4, <1>5, <2>1, <2>2, <2>3, <2>4, <2>5 DEF BusStep
<1>6. ASSUME NEW p \in Callers, NodeCall(p) PROVE Cache'
  <2>1. ASSUME NEW t \in Topics, NEW type \in Types, NEW tier \in Tiers, Send(p, t, type, tier) PROVE Cache'
    BY <2>1, TypeSettled, CacheStays DEF Send
  <2>2. UNCHANGED registry => Cache'
    BY CacheStays DEF registry
  <2> QED
    BY <1>6, <2>1, <2>2 DEF NodeCall, Start, Receive, AddPeer, AddPeerJoins, AddPeerApplies, SendSpreads,
                            Stop, StopExits, StopJoins, StopRemoves, StopDetaches
<1>7. ASSUME TimerTick \/ ReceiverThread PROVE Cache'
  BY <1>7, CacheStays DEF TimerTick, ReceiverThread, vars, registry
<1> QED
  BY <1>5, <1>6, <1>7, AllSteps

(* The tables of the bus agree: each member has its error connection where *)
(* the member is, each error is reported at most once, and what is cached  *)
(* for a topic has its type, if no topic is cached before it has one.      *)
THEOREM TablesAgree == EarlyCache = FALSE => (NodeSpec => []BusConsistent)
<1> SUFFICES ASSUME EarlyCache = FALSE PROVE NodeSpec => []BusConsistent
  OBVIOUS
<1>1. NodeInit => Cache
  BY DEF NodeInit, Init, Cache
<1>2. TInv /\ Cache /\ [AllNext]_allVars => Cache'
  <2>1. Cache /\ UNCHANGED allVars => Cache'
    BY DEF Cache, allVars, vars, registry
  <2> QED
    BY <2>1, CacheNext
<1>3. TInv /\ Cache => BusConsistent
  <2> SUFFICES ASSUME TInv, Cache PROVE BusConsistent
    OBVIOUS
  <2> USE DEF TInv, BInv, BusTypes
  <2>1. \A S : \A z \in Seq(S) : ToSet(z) \subseteq S
    BY DEF ToSet
  <2>2. TypeOK
    <3>1. types \in [Topics -> Types \cup {Nil}] /\ signals \subseteq Topics /\ qos \subseteq Topics
      BY DEF Tables
    <3>2. \A t \in Topics : ToSet(subs[t]) \subseteq Subs /\ (types[t] = Nil => t \notin signals)
      BY <2>1 DEF Tables, RunTypes
    <3>3. Len(parts) <= MaxParticipants /\ errConn = parts
      BY DEF MemberTypes
    <3>4. \A s \in Subs : guard[s] \in 0 .. NumMod - 1 \cup {Nil} /\ ToSet(got[s]) \subseteq Vals
      BY <2>1 DEF WayTypes
    <3>5. \A x \in Parts : ToSet(sent[x]) \subseteq Vals
      BY <2>1 DEF WayTypes
    <3> QED
      BY <3>1, <3>2, <3>3, <3>4, <3>5 DEF TypeOK
  <2>3. CacheHasType
    BY DEF CacheHasType, Cache
  <2>4. LatchedOnce
    <3>1. ASSUME NEW t \in Topics, NEW e \in Errors PROVE fired[t][e] <= 1
      <4>1. fired[t][e] \in {0, 1}
        BY DEF ErrTypes
      <4> QED
        BY <4>1
    <3> QED
      BY <3>1 DEF LatchedOnce
  <2> QED
    BY <2>2, <2>3, <2>4 DEF BusConsistent
<1> QED
  BY <1>1, <1>2, <1>3, BusTyped, PTL DEF NodeSpec

-----------------------------------------------------------------------------
(* Numbers of a small width: the newer of two stamps is that of the later  *)
(* publication.                                                            *)
LEMMA ModBelow == ASSUME NEW n \in Nat, n > 0, NEW x \in 0 .. n - 1 PROVE x % n = x
OBVIOUS
LEMMA ModAbove == ASSUME NEW n \in Nat, n > 0, NEW x \in n .. 2 * n - 1 PROVE x % n = x - n
OBVIOUS
LEMMA ModNegative == ASSUME NEW n \in Nat, n > 0, NEW x \in Int, -n <= x, x < 0 PROVE x % n = x + n
OBVIOUS

LEMMA Stamps ==
  ASSUME NEW v \in Vals
  PROVE  Stamp(v) \in 0 .. NumMod - 1 /\ (Stamp(v) = First + v \/ Stamp(v) = First + v - NumMod)
<1>1. v \in Nat /\ v <= MaxPub /\ First \in Nat /\ First <= NumMod - 1
  BY Numbers DEF Vals
<1>2. CASE First + v < NumMod
  <2>1. First + v \in 0 .. NumMod - 1
    BY <1>1, <1>2, Numbers
  <2>2. (First + v) % NumMod = First + v
    BY <2>1, ModBelow, Numbers
  <2> QED
    BY <2>1, <2>2 DEF Stamp
<1>3. CASE First + v >= NumMod
  <2>1. First + v \in NumMod .. 2 * NumMod - 1 /\ First + v - NumMod \in 0 .. NumMod - 1
    BY <1>1, <1>3, Numbers
  <2>2. (First + v) % NumMod = First + v - NumMod
    <3>1. PICK x \in NumMod .. 2 * NumMod - 1 : x = First + v
      BY <2>1
    <3>2. x % NumMod = x - NumMod
      BY ModAbove, Numbers
    <3>3. x - NumMod = First + v - NumMod
      BY <1>1, <3>1, Numbers
    <3> QED
      BY <1>1, <3>1, <3>2, <3>3, Numbers, Zenon
  <2> QED
    BY <2>1, <2>2 DEF Stamp
<1> QED
  BY <1>1, <1>2, <1>3, Numbers

LEMMA NewerIsLater ==
  ASSUME NEW v \in Vals, NEW m \in Vals
  PROVE  IsNewer(Stamp(v), Stamp(m)) <=> v > m
<1> DEFINE d == Stamp(v) - Stamp(m)
<1>1. v \in 1 .. MaxPub /\ m \in 1 .. MaxPub
  BY DEF Vals
<1>2. d \in Int /\ d > -NumMod /\ d < NumMod /\ (d = v - m \/ d = v - m + NumMod \/ d = v - m - NumMod)
  BY <1>1, Stamps, Numbers
<1> HIDE DEF d
<1>3. PICK h \in Nat : h = NumMod \div 2 /\ MaxPub < h /\ h <= NumMod /\ 2 * h <= NumMod
  BY DataBusConstants
<1>4. CASE v > m
  <2>1. CASE d >= 0
    <3>1. d % NumMod = d /\ d = v - m
      BY <1>1, <1>2, <1>4, <2>1, ModBelow, Numbers
    <3>2. d % NumMod \in 1 .. h - 1
      BY <1>1, <1>3, <1>4, <3>1, Numbers
    <3> QED
      BY <1>3, <1>4, <3>2 DEF IsNewer, d
  <2>2. CASE d < 0
    <3>1. d % NumMod = d + NumMod /\ d = v - m - NumMod
      BY <1>1, <1>2, <1>4, <2>2, ModNegative, Numbers
    <3>2. d % NumMod \in 1 .. h - 1
      BY <1>1, <1>3, <1>4, <3>1, Numbers
    <3> QED
      BY <1>3, <1>4, <3>2 DEF IsNewer, d
  <2> QED
    BY <1>2, <2>1, <2>2
<1>5. CASE ~(v > m)
  <2>1. CASE d >= 0
    <3>1. d % NumMod = d /\ (d = v - m \/ d = v - m + NumMod)
      BY <1>1, <1>2, <1>5, <2>1, ModBelow, Numbers
    <3>2. d % NumMod \notin 1 .. h - 1
      BY <1>1, <1>3, <1>5, <2>1, <3>1, Numbers
    <3> QED
      BY <1>3, <1>5, <3>2 DEF IsNewer, d
  <2>2. CASE d < 0
    <3>1. d % NumMod = d + NumMod /\ d = v - m
      BY <1>1, <1>2, <1>5, <2>2, ModNegative, Numbers
    <3>2. d % NumMod \notin 1 .. h - 1
      BY <1>1, <1>3, <1>5, <2>2, <3>1, Numbers
    <3> QED
      BY <1>3, <1>5, <3>2 DEF IsNewer, d
  <2> QED
    BY <1>2, <2>1, <2>2
<1> QED
  BY <1>1, <1>4, <1>5

(* Elements of a sequence.                                                 *)
LEMMA AppendSet ==
  ASSUME NEW S, NEW z \in Seq(S), NEW e \in S
  PROVE  ToSet(Append(z, e)) = ToSet(z) \cup {e}
<1>1. /\ Len(Append(z, e)) = Len(z) + 1 /\ Len(z) \in Nat
      /\ \A i \in 1 .. Len(z) : Append(z, e)[i] = z[i]
      /\ Append(z, e)[Len(z) + 1] = e
  OBVIOUS
<1>2. DOMAIN Append(z, e) = 1 .. Len(z) + 1 /\ DOMAIN z = 1 .. Len(z)
  BY <1>1
<1> QED
  BY <1>1, <1>2 DEF ToSet

LEMMA HeadSet ==
  ASSUME NEW S, NEW z \in Seq(S), z # <<>>
  PROVE  /\ ToSet(z) = ToSet(Tail(z)) \cup {Head(z)} /\ Head(z) \in S /\ Tail(z) \in Seq(S)
<1>1. PICK y : y = Tail(z)
  OBVIOUS
<1>2. /\ y \in Seq(S) /\ Len(y) = Len(z) - 1 /\ Len(z) \in Nat /\ Len(z) > 0 /\ Head(z) = z[1]
      /\ \A i \in 1 .. Len(y) : y[i] = z[i + 1]
  BY <1>1, HeadTailProperties, EmptySeq
<1>3. ASSUME NEW e \in ToSet(z) PROVE e \in ToSet(y) \cup {Head(z)}
  <2>1. PICK i \in 1 .. Len(z) : e = z[i]
    BY <1>3 DEF ToSet
  <2>2. CASE i = 1
    BY <1>2, <2>1, <2>2
  <2>3. CASE i > 1
    <3>1. i - 1 \in 1 .. Len(y) /\ (i - 1) + 1 = i
      BY <1>2, <2>1, <2>3
    <3>2. e = y[i - 1]
      BY <1>2, <2>1, <3>1
    <3> QED
      BY <1>2, <3>1, <3>2 DEF ToSet
  <2> QED
    BY <1>2, <2>1, <2>2, <2>3
<1>4. ASSUME NEW e \in ToSet(y) PROVE e \in ToSet(z)
  <2>1. PICK i \in 1 .. Len(y) : e = y[i]
    BY <1>2, <1>4 DEF ToSet
  <2>2. i + 1 \in 1 .. Len(z) /\ e = z[i + 1]
    BY <1>2, <2>1
  <2> QED
    BY <2>2 DEF ToSet
<1>5. Head(z) \in ToSet(z) /\ Head(z) \in S
  BY <1>2 DEF ToSet
<1> QED
  BY <1>1, <1>2, <1>3, <1>4, <1>5

-----------------------------------------------------------------------------
(* A value comes to a subscription.                                        *)
LEMMA GuardKeeps ==
  ASSUME WayTypes, NEW s \in Subs, NEW v \in Vals, Reaches(s, v), Guarded(s, v), \A r \in Subs : Newest(r)
  PROVE  /\ \A r \in Subs : Newest(r)'
         /\ \A r \in Subs : ToSet(got'[r]) = IF r = s THEN ToSet(got[r]) \cup {v} ELSE ToSet(got[r])
<1>1. got[s] \in Seq(Vals) /\ guard[s] \in (0 .. NumMod - 1) \cup {Nil}
  BY DEF WayTypes
<1>2. \A r \in Subs : got'[r] = IF r = s THEN Append(got[s], v) ELSE got[r]
  BY DEF WayTypes, Reaches
<1>3. \A r \in Subs : guard'[r] =
        IF r = s THEN IF guard[s] = Nil THEN Stamp(v) ELSE IF IsNewer(Stamp(v), guard[s]) THEN Stamp(v) ELSE guard[s]
        ELSE guard[r]
  BY DEF WayTypes, Guarded
<1>4. ToSet(Append(got[s], v)) = ToSet(got[s]) \cup {v} /\ ToSet(got[s]) \subseteq Vals
  <2>1. ToSet(Append(got[s], v)) = ToSet(got[s]) \cup {v}
    BY <1>1, AppendSet
  <2>2. ToSet(got[s]) \subseteq Vals
    BY <1>1 DEF ToSet
  <2> QED
    BY <2>1, <2>2
<1>5. Append(got[s], v) # <<>>
  BY <1>1, AppendProperties, EmptySeq
<1>6. \A w \in Vals : Stamp(w) \in 0 .. NumMod - 1 /\ Stamp(w) # Nil /\ w \in Int
  BY StampTypes, DataBusConstants DEF Vals
<1>7. ASSUME s \in OnWorker
      PROVE  \E m \in ToSet(got[s]) \cup {v} : guard'[s] = Stamp(m) /\ \A w \in ToSet(got[s]) \cup {v} : w <= m
  <2>1. CASE got[s] = <<>>
    <3>1. guard[s] = Nil /\ ToSet(got[s]) = {}
      BY <1>7, <2>1 DEF Newest, ToSet
    <3> QED
      BY <1>3, <1>6, <3>1
  <2>2. CASE got[s] # <<>>
    <3>1. PICK m \in ToSet(got[s]) : guard[s] = Stamp(m) /\ \A w \in ToSet(got[s]) : w <= m
      BY <1>7, <2>2 DEF Newest
    <3>2. m \in Vals
      BY <1>4
    <3>3. guard'[s] = IF v > m THEN Stamp(v) ELSE Stamp(m)
      BY <1>3, <1>6, <3>1, <3>2, NewerIsLater
    <3>4. CASE v > m
      <4>1. \A w \in ToSet(got[s]) \cup {v} : w <= v
        BY <1>4, <1>6, <3>1, <3>2, <3>4
      <4> QED
        BY <3>3, <3>4, <4>1
    <3>5. CASE ~(v > m)
      <4>1. \A w \in ToSet(got[s]) \cup {v} : w <= m
        BY <1>4, <1>6, <3>1, <3>2, <3>5
      <4> QED
        BY <3>1, <3>3, <3>5, <4>1
    <3> QED
      BY <3>4, <3>5
  <2> QED
    BY <2>1, <2>2
<1>8. Newest(s)'
  BY <1>2, <1>4, <1>5, <1>7 DEF Newest
<1>9. \A r \in Subs : r # s => Newest(r)'
  BY <1>2, <1>3 DEF Newest
<1> QED
  BY <1>2, <1>4, <1>8, <1>9

LEMMA DeliverKeeps ==
  ASSUME WayTypes, NEW s \in Subs, NEW v \in Vals, Deliver(s, v), \A r \in Subs : Newest(r)
  PROVE  /\ \A r \in Subs : Newest(r)'
         /\ \A r \in Subs, w \in Vals : Came(r, w) => Came(r, w)'
         /\ Came(s, v)'
<1>1. CASE s \in OnWorker
  <2>1. PICK m \in Letters : m = [sub |-> s, val |-> v]
    BY DEF Letters
  <2>2. mail' = Append(mail, m) /\ UNCHANGED got /\ UNCHANGED guard
    BY <1>1, <2>1 DEF Deliver
  <2>3. ToSet(mail') = ToSet(mail) \cup {m}
    BY <2>2, AppendSet DEF WayTypes
  <2> QED
    BY <2>1, <2>2, <2>3 DEF Came, Newest
<1>2. CASE s \notin OnWorker
  <2>1. Reaches(s, v) /\ UNCHANGED <<mail, guard>>
    BY <1>2 DEF Deliver
  <2>4. \A r \in Subs : got'[r] = IF r = s THEN Append(got[s], v) ELSE got[r]
    BY <2>1 DEF WayTypes, Reaches
  <2>2. \A r \in Subs : Newest(r)'
    BY <1>2, <2>1, <2>4 DEF Newest
  <2>5. ToSet(Append(got[s], v)) = ToSet(got[s]) \cup {v}
    BY AppendSet DEF WayTypes
  <2>3. \A r \in Subs : ToSet(got'[r]) = IF r = s THEN ToSet(got[r]) \cup {v} ELSE ToSet(got[r])
    BY <2>4, <2>5
  <2> QED
    BY <2>1, <2>2, <2>3 DEF Came
<1> QED
  BY <1>1, <1>2

(* The last value that s is to get, and s stays covered if what brings it  *)
(* goes on.                                                                *)
Wants(s, v) == Connected(s) /\ lastValue[TopicOf[s]] # Nil /\ v = lastValue[TopicOf[s]].val

LEMMA WantedIsValue ==
  ASSUME BusTypes, NEW s \in Subs, NEW v, Wants(s, v)
  PROVE  v \in Vals
<1>1. lastValue[TopicOf[s]] \in Entries
  BY DataBusConstants DEF Wants, BusTypes, Tables
<1> QED
  BY <1>1 DEF Wants, Entries

LEMMA CoverKept ==
  ASSUME BusTypes, NEW s \in Subs, Covered(s), UNCHANGED lastValue, Connected(s)' => Connected(s),
         \A v \in Vals : Came(s, v) => Came(s, v)',
         \A q \in Threads, v \in Vals : Wants(s, v) /\ Brings(run[q], s, v) => Came(s, v)' \/ Brings(run'[q], s, v)
  PROVE  Covered(s)'
<1> SUFFICES ASSUME Connected(s)', lastValue[TopicOf[s]] # Nil
             PROVE  Came(s, lastValue[TopicOf[s]].val)' \/ \E p \in Threads : Brings(run'[p], s, lastValue[TopicOf[s]].val)
  BY DEF Covered
<1>1. PICK v : v = lastValue[TopicOf[s]].val
  OBVIOUS
<1>2. Wants(s, v) /\ v \in Vals
  BY <1>1, WantedIsValue DEF Wants
<1>3. Came(s, v) \/ \E p \in Threads : Brings(run[p], s, v)
  BY <1>1 DEF Covered
<1>4. Came(s, v)' \/ \E p \in Threads : Brings(run'[p], s, v)
  BY <1>2, <1>3
<1> QED
  BY <1>1, <1>4 DEF Came

BringStages == {"local", "call", "cache", "last"}

(* Steps that neither publish nor subscribe nor deliver.                   *)
LEMMA UpToDateStays ==
  ASSUME BusTypes, UInv, UNCHANGED lastValue, UNCHANGED arrived,
         \A s \in Subs : Connected(s)' => Connected(s),
         \A q \in Threads : run'[q] = run[q] \/ (run[q].stage \notin BringStages /\ run'[q].stage \notin BringStages)
  PROVE  UInv'
<1>1. \A s \in Subs : Newest(s)'
  BY DEF UInv, Newest, arrived
<1>2. OneLast'
  <2>1. ASSUME NEW q \in Threads, run'[q].stage = "last" PROVE \A v, w \in run'[q].vals : v = w
    BY <2>1 DEF UInv, OneLast, BringStages
  <2> QED
    BY <2>1 DEF OneLast
<1>3. ASSUME NEW s \in Cached \ Lifespan PROVE Covered(s)'
  <2>1. s \in Subs /\ Covered(s)
    BY DataBusConstants DEF UInv
  <2>2. \A v \in Vals : Came(s, v) => Came(s, v)'
    BY DEF Came, arrived
  <2>3. \A q \in Threads, v \in Vals : Brings(run[q], s, v) => Brings(run'[q], s, v)
    BY DEF Brings, BringStages
  <2> QED
    BY <2>1, <2>2, <2>3, CoverKept
<1> QED
  BY <1>1, <1>2, <1>3 DEF UInv

LEMMA SubscribeUpToDate ==
  ASSUME BusTypes, UInv, NEW p \in Callers, InternalSubscribe(p)
  PROVE  UInv'
<1>0. /\ p \in Threads /\ run[p] \in SubCalls /\ run[p].sub \in Subs /\ \A q \in Threads : q # p => run'[q] = run[q]
      /\ UNCHANGED lastValue /\ run[p].vals \subseteq Vals
  BY SubscribeMoves DEF InternalSubscribe, SubCalls
<1>1. PICK r \in Subs : r = run[p].sub
  BY <1>0
<1>2. ASSUME SubscribeConnect(p) PROVE UInv'
  <2>1. run[p].stage = "connect" /\ run'[p].stage = "cache" /\ run'[p].sub = r
    BY <1>1, <1>2, SubscribeMoves
  <2>2. UNCHANGED arrived /\ subs' = [subs EXCEPT ![TopicOf[r]] = Append(@, r)]
    BY <1>1, <1>2 DEF SubscribeConnect
  <2>3. \A s \in Subs : Newest(s)'
    BY <2>2 DEF UInv, Newest, arrived
  <2>4. OneLast'
    <3>1. ASSUME NEW q \in Threads, run'[q].stage = "last" PROVE \A v, w \in run'[q].vals : v = w
      BY <1>0, <2>1, <3>1 DEF UInv, OneLast
    <3> QED
      BY <3>1 DEF OneLast
  <2>5. ASSUME NEW s \in Cached \ Lifespan PROVE Covered(s)'
    <3>0. s \in Subs /\ Covered(s) /\ TopicOf[s] \in Topics /\ TopicOf[r] \in Topics
      BY DataBusConstants DEF UInv
    <3>1. CASE s = r
      <4>1. \A v : Brings(run'[p], s, v)
        BY <2>1, <3>1 DEF Brings
      <4> QED
        BY <1>0, <4>1 DEF Covered
    <3>2. CASE s # r
      <4>1. Connected(s)' => Connected(s)
        <5>1. ToSet(Append(subs[TopicOf[r]], r)) = ToSet(subs[TopicOf[r]]) \cup {r}
          BY <3>0, AppendSet DEF BusTypes, RunTypes
        <5>2. subs'[TopicOf[s]] = IF TopicOf[s] = TopicOf[r] THEN Append(subs[TopicOf[r]], r) ELSE subs[TopicOf[s]]
          BY <2>2, <3>0 DEF BusTypes, RunTypes
        <5> QED
          BY <3>2, <5>1, <5>2 DEF Connected
      <4>2. \A v \in Vals : Came(s, v) => Came(s, v)'
        BY <2>2 DEF Came, arrived
      <4>3. \A q \in Threads, v \in Vals : Brings(run[q], s, v) => Brings(run'[q], s, v)
        BY <1>0, <2>1 DEF Brings
      <4> QED
        BY <1>0, <3>0, <4>1, <4>2, <4>3, CoverKept
    <3> QED
      BY <3>1, <3>2
  <2> QED
    BY <2>3, <2>4, <2>5 DEF UInv
<1>3. ASSUME SubscribeReadCache(p) PROVE UInv'
  <2>1. /\ run[p].stage = "cache" /\ run'[p].stage = "last" /\ run'[p].sub = r
        /\ run'[p].vals \in {CacheFor(r)} \cup (IF r \in Lifespan THEN {{}} ELSE {})
    BY <1>1, <1>3, SubscribeMoves
  <2>2. UNCHANGED arrived /\ UNCHANGED subs
    BY <1>3 DEF SubscribeReadCache
  <2>3. \A s \in Subs : Newest(s)'
    BY <2>2 DEF UInv, Newest, arrived
  <2>4. OneLast'
    <3>1. \A v, w \in run'[p].vals : v = w
      BY <2>1 DEF CacheFor
    <3>2. ASSUME NEW q \in Threads, run'[q].stage = "last" PROVE \A v, w \in run'[q].vals : v = w
      BY <1>0, <3>1, <3>2 DEF UInv, OneLast
    <3> QED
      BY <3>2 DEF OneLast
  <2>5. ASSUME NEW s \in Cached \ Lifespan PROVE Covered(s)'
    <3>0. s \in Subs /\ Covered(s)
      BY DataBusConstants DEF UInv
    <3>1. \A v \in Vals : Came(s, v) => Came(s, v)'
      BY <2>2 DEF Came, arrived
    <3>2. ASSUME NEW q \in Threads, NEW v \in Vals, Wants(s, v), Brings(run[q], s, v)
          PROVE  Brings(run'[q], s, v)
      <4>1. CASE q = p
        <5>1. s = r
          BY <1>1, <2>1, <3>2, <4>1 DEF Brings
        <5>2. v \in run'[p].vals
          BY <2>1, <3>2, <5>1 DEF Wants, CacheFor
        <5> QED
          BY <2>1, <4>1, <5>1, <5>2 DEF Brings
      <4>2. CASE q # p
        BY <1>0, <3>2, <4>2
      <4> QED
        BY <4>1, <4>2
    <3>3. Connected(s)' => Connected(s)
      BY <2>2 DEF Connected
    <3> QED
      BY <1>0, <3>0, <3>1, <3>2, <3>3, CoverKept
  <2> QED
    BY <2>3, <2>4, <2>5 DEF UInv
<1>4. ASSUME SubscribeDeliver(p) PROVE UInv'
  <2>1. run[p].stage = "last" /\ run'[p] = Idle
    BY <1>4, SubscribeMoves
  <2>2. UNCHANGED subs
    BY <1>4 DEF SubscribeDeliver
  <2>3. /\ \A s \in Subs : Newest(s)'
        /\ \A s \in Subs, w \in Vals : Came(s, w) => Came(s, w)'
        /\ \A v \in run[p].vals : Came(r, v)'
    <3>1. CASE run[p].vals = {}
      <4>1. UNCHANGED arrived
        BY <1>4, <3>1 DEF SubscribeDeliver
      <4> QED
        BY <3>1, <4>1 DEF UInv, Newest, Came, arrived
    <3>2. CASE run[p].vals # {}
      <4>1. PICK v \in run[p].vals : Deliver(r, v)
        BY <1>1, <1>4, <3>2 DEF SubscribeDeliver
      <4>2. v \in Vals /\ \A w \in run[p].vals : w = v
        BY <1>0, <2>1 DEF UInv, OneLast
      <4> QED
        BY <4>1, <4>2, DeliverKeeps DEF UInv, BusTypes
    <3> QED
      BY <3>1, <3>2
  <2>4. OneLast'
    <3>1. ASSUME NEW q \in Threads, run'[q].stage = "last" PROVE \A v, w \in run'[q].vals : v = w
      BY <1>0, <2>1, <3>1, IdleFacts DEF UInv, OneLast
    <3> QED
      BY <3>1 DEF OneLast
  <2>5. ASSUME NEW s \in Cached \ Lifespan PROVE Covered(s)'
    <3>0. s \in Subs /\ Covered(s)
      BY DataBusConstants DEF UInv
    <3>1. ASSUME NEW q \in Threads, NEW v \in Vals, Brings(run[q], s, v)
          PROVE  Came(s, v)' \/ Brings(run'[q], s, v)
      <4>1. CASE q = p
        BY <1>1, <2>1, <2>3, <3>1, <4>1 DEF Brings
      <4>2. CASE q # p
        BY <1>0, <3>1, <4>2
      <4> QED
        BY <4>1, <4>2
    <3>2. Connected(s)' => Connected(s)
      BY <2>2 DEF Connected
    <3>3. \A v \in Vals : Came(s, v) => Came(s, v)'
      BY <2>3, <3>0
    <3> QED
      BY <1>0, <3>0, <3>1, <3>2, <3>3, CoverKept
  <2> QED
    BY <2>3, <2>4, <2>5 DEF UInv
<1> QED
  BY <1>2, <1>3, <1>4 DEF InternalSubscribe

LEMMA LockUpToDate ==
  ASSUME BusTypes, UInv, NEW p \in Threads, NEW t \in Topics, NEW type \in Types, NEW local \in BOOLEAN, PublishLock(p, t, type, local)
  PROVE  UInv'
<1>0. run[p] = Idle /\ \A q \in Threads : q # p => run'[q] = run[q]
  BY LockMoves
<1>1. UNCHANGED arrived /\ UNCHANGED subs
  BY DEF PublishLock
<1>2. ASSUME NEW q \in Threads, NEW s, NEW v, Brings(run[q], s, v) PROVE Brings(run'[q], s, v)
  <2>1. q # p
    BY <1>0, <1>2, IdleFacts DEF Brings
  <2> QED
    BY <1>0, <1>2, <2>1
<1>3. \A s \in Subs : Newest(s)'
  BY <1>1 DEF UInv, Newest, arrived
<1>4. OneLast'
  <2>1. run'[p].stage # "last"
    BY <1>0, LockMoves, IdleFacts, LockCallFacts
  <2>2. ASSUME NEW q \in Threads, run'[q].stage = "last" PROVE \A v, w \in run'[q].vals : v = w
    BY <1>0, <2>1, <2>2 DEF UInv, OneLast
  <2> QED
    BY <2>2 DEF OneLast
<1>5. ASSUME NEW s \in Cached \ Lifespan PROVE Covered(s)'
  <2>0. s \in Subs /\ Covered(s) /\ TopicOf[s] \in Topics
    BY DataBusConstants DEF UInv
  <2>1. CASE lastValue'[TopicOf[s]] = lastValue[TopicOf[s]]
    <3>1. \A v : Came(s, v) => Came(s, v)'
      BY <1>1 DEF Came, arrived
    <3>2. Connected(s)' => Connected(s)
      BY <1>1 DEF Connected
    <3> QED
      BY <1>2, <2>0, <2>1, <3>1, <3>2 DEF Covered
  <2>2. CASE lastValue'[TopicOf[s]] # lastValue[TopicOf[s]] /\ Connected(s)
    <3>1. PICK e : e = [val |-> pubs', type |-> type]
      OBVIOUS
    <3>2. Fits(t, type) /\ lastValue' = [lastValue EXCEPT ![t] = e] /\ e.val = pubs'
      BY <2>2, <3>1 DEF PublishLock, StoreLast
    <3>3. TopicOf[s] = t /\ lastValue'[t] = e
      BY <2>0, <2>2, <3>2 DEF BusTypes, Tables
    <3>4. t \in signals
      BY <2>0, <2>2, <3>3 DEF BusTypes, RunTypes
    <3>5. Brings(run'[p], s, pubs')
      BY <3>2, <3>3, <3>4, LockMoves, LockCallFacts DEF Brings
    <3> QED
      BY <3>2, <3>3, <3>5 DEF Covered
  <2>3. CASE ~Connected(s)
    BY <1>1, <2>3 DEF Covered, Connected
  <2> QED
    BY <2>1, <2>2, <2>3
<1> QED
  BY <1>3, <1>4, <1>5 DEF UInv

LEMMA PublishUpToDate ==
  ASSUME BusTypes, UInv, NEW p \in Threads, InternalPublish(p)
  PROVE  UInv'
<1>0. /\ run[p] \in PubCalls /\ \A q \in Threads : q # p => run'[q] = run[q]
      /\ run'[p] = Idle \/ (run'[p] \in PubCalls /\ Same(run'[p], run[p]))
      /\ UNCHANGED lastValue /\ UNCHANGED subs
  BY PublishMoves DEF InternalPublish, registry
<1>1. run[p].topic \in Topics /\ run[p].val \in Vals /\ run[p].todo \in Seq(Subs) /\ run[p].stage \in Publishing
  BY <1>0 DEF PubCalls
<1>2. run'[p].stage # "last"
  BY <1>0, IdleFacts, Kinds DEF PubCalls, Publishing, Early
<1>3. OneLast'
  <2>1. ASSUME NEW q \in Threads, run'[q].stage = "last" PROVE \A v, w \in run'[q].vals : v = w
    BY <1>0, <1>2, <2>1 DEF UInv, OneLast
  <2> QED
    BY <2>1 DEF OneLast
(* What came stays, and what p was to bring has come or p still brings it. *)
<1>4. ASSUME \A s \in Subs : Newest(s)', \A s \in Subs, v \in Vals : Came(s, v) => Came(s, v)',
             \A s \in Subs, v \in Vals : Wants(s, v) /\ Brings(run[p], s, v) => Came(s, v)' \/ Brings(run'[p], s, v)
      PROVE  UInv'
  <2>1. ASSUME NEW s \in Cached \ Lifespan PROVE Covered(s)'
    <3>1. s \in Subs /\ Covered(s)
      BY DataBusConstants DEF UInv
    <3>2. \A q \in Threads, v \in Vals : Wants(s, v) /\ Brings(run[q], s, v) => Came(s, v)' \/ Brings(run'[q], s, v)
      BY <1>0, <1>4, <3>1
    <3>3. Connected(s)' => Connected(s)
      BY <1>0 DEF Connected
    <3> QED
      BY <1>0, <1>4, <3>1, <3>2, <3>3, CoverKept
  <2> QED
    BY <1>3, <1>4, <2>1 DEF UInv
<1>5. UNCHANGED arrived => /\ \A s \in Subs : Newest(s)'
                           /\ \A s \in Subs, v \in Vals : Came(s, v) => Came(s, v)'
  BY DEF UInv, Newest, Came, arrived
<1>6. ASSUME EmitLocal(p) PROVE UInv'
  <2>1. /\ run[p].stage = "local" /\ run'[p] \in PubCalls
        /\ IF run[p].signal THEN run'[p].stage = "call" /\ run'[p].todo = subs[run[p].topic] ELSE run'[p].stage = "interest"
    BY <1>6, PublishMoves
  <2>2. ASSUME NEW s \in Subs, NEW v \in Vals, Wants(s, v), Brings(run[p], s, v) PROVE Brings(run'[p], s, v)
    <3>1. run[p].signal /\ run[p].topic = TopicOf[s] /\ run[p].val = v
      BY <2>1, <2>2 DEF Brings
    <3>2. s \in ToSet(run'[p].todo) /\ run'[p].val = v /\ run'[p].stage = "call"
      BY <1>0, <2>1, <2>2, <3>1, IdleFacts DEF Wants, Connected, Same
    <3> QED
      BY <3>2 DEF Brings
  <2>3. UNCHANGED arrived
    BY <1>6 DEF EmitLocal
  <2> QED
    BY <1>4, <1>5, <2>2, <2>3
<1>7. ASSUME CallSubscriber(p) PROVE UInv'
  <2>1. /\ run[p].stage = "call" /\ run'[p] \in PubCalls /\ run'[p].val = run[p].val
        /\ IF run[p].todo = <<>> THEN run'[p].stage = "interest"
           ELSE run'[p].stage = "call" /\ run'[p].todo = Tail(run[p].todo)
    BY <1>0, <1>7, PublishMoves, IdleFacts DEF Same
  <2>2. CASE run[p].todo = <<>>
    <3>1. UNCHANGED arrived
      BY <1>7, <2>2 DEF CallSubscriber
    <3>2. \A s, v : ~Brings(run[p], s, v)
      BY <2>1, <2>2 DEF Brings, ToSet
    <3> QED
      BY <1>4, <1>5, <3>1, <3>2
  <2>3. CASE run[p].todo # <<>>
    <3>1. PICK h \in Subs : h = Head(run[p].todo)
      BY <1>1, <2>3, HeadSet
    <3>2. ToSet(run[p].todo) = ToSet(run'[p].todo) \cup {h}
      BY <1>1, <2>1, <2>3, <3>1, HeadSet
    <3>3. Deliver(h, run[p].val)
      BY <1>7, <2>3, <3>1 DEF CallSubscriber
    <3>4. /\ \A r \in Subs : Newest(r)'
          /\ \A r \in Subs, w \in Vals : Came(r, w) => Came(r, w)'
          /\ Came(h, run[p].val)'
      <4>1. PICK v \in Vals : v = run[p].val
        BY <1>1
      <4>2. /\ \A r \in Subs : Newest(r)'
            /\ \A r \in Subs, w \in Vals : Came(r, w) => Came(r, w)'
            /\ Came(h, v)'
        BY <3>3, <4>1, DeliverKeeps DEF UInv, BusTypes
      <4>3. Came(h, v)' <=> (v \in ToSet(got'[h]) \/ [sub |-> h, val |-> v] \in ToSet(mail'))
        BY DEF Came
      <4>4. Came(h, run[p].val)' <=> (run'[p].val \in ToSet(got'[h]) \/ [sub |-> h, val |-> run'[p].val] \in ToSet(mail'))
        BY DEF Came
      <4> QED
        BY <2>1, <4>1, <4>2, <4>3, <4>4
    <3>5. ASSUME NEW s \in Subs, NEW v \in Vals, Brings(run[p], s, v) PROVE Came(s, v)' \/ Brings(run'[p], s, v)
      <4>1. run[p].val = v /\ s \in ToSet(run[p].todo)
        BY <2>1, <3>5 DEF Brings
      <4>2. CASE s = h
        BY <2>1, <3>4, <4>1, <4>2 DEF Came
      <4>3. CASE s # h
        BY <2>1, <2>3, <3>2, <4>1, <4>3 DEF Brings
      <4> QED
        BY <4>2, <4>3
    <3> QED
      BY <1>4, <3>4, <3>5
  <2> QED
    BY <2>2, <2>3
<1>8. ASSUME FindInterest(p) \/ SendRemote(p) \/ PublishReturns(p) PROVE UInv'
  <2>1. UNCHANGED arrived
    BY <1>8 DEF FindInterest, SendRemote, PublishReturns
  <2>2. run[p].stage \notin BringStages
    BY <1>8 DEF FindInterest, SendRemote, PublishReturns, At, BringStages
  <2>3. \A s, v : ~Brings(run[p], s, v)
    BY <2>2 DEF Brings, BringStages
  <2> QED
    BY <1>4, <1>5, <2>1, <2>3
<1> QED
  BY <1>6, <1>7, <1>8 DEF InternalPublish

LEMMA WorkerUpToDate ==
  ASSUME BusTypes, UInv, WorkerServes
  PROVE  UInv'
<1>1. PICK m \in Letters : m = Head(mail)
  BY ServeTypes DEF BusTypes
<1>2. m.sub \in Subs /\ m.val \in Vals /\ m = [sub |-> m.sub, val |-> m.val]
  BY DEF Letters
<1>3. mail # <<>> /\ mail' = Tail(mail) /\ Reaches(m.sub, m.val) /\ Guarded(m.sub, m.val) /\ UNCHANGED run /\ UNCHANGED lastValue /\ UNCHANGED subs
  BY <1>1 DEF WorkerServes, registry
<1>4. ToSet(mail) = ToSet(mail') \cup {m}
  BY <1>1, <1>3, HeadSet DEF BusTypes, WayTypes
<1>5. /\ \A r \in Subs : Newest(r)'
      /\ \A r \in Subs : ToSet(got'[r]) = IF r = m.sub THEN ToSet(got[r]) \cup {m.val} ELSE ToSet(got[r])
  BY <1>2, <1>3, GuardKeeps DEF BusTypes, UInv
<1>6. ASSUME NEW s \in Subs, NEW v \in Vals, Came(s, v) PROVE Came(s, v)'
  <2>1. CASE [sub |-> s, val |-> v] = m
    <3>1. s = m.sub /\ v = m.val
      BY <1>2, <2>1
    <3> QED
      BY <1>5, <3>1 DEF Came
  <2>2. CASE [sub |-> s, val |-> v] # m
    BY <1>4, <1>5, <1>6, <2>2 DEF Came
  <2> QED
    BY <2>1, <2>2
<1>7. OneLast'
  BY <1>3 DEF UInv, OneLast
<1>8. ASSUME NEW s \in Cached \ Lifespan PROVE Covered(s)'
  <2>1. s \in Subs /\ Covered(s)
    BY DataBusConstants DEF UInv
  <2>2. Connected(s)' => Connected(s)
    BY <1>3 DEF Connected
  <2>3. \A q \in Threads, v \in Vals : Brings(run[q], s, v) => Brings(run'[q], s, v)
    BY <1>3
  <2> QED
    BY <1>3, <1>6, <2>1, <2>2, <2>3, CoverKept
<1> QED
  BY <1>5, <1>7, <1>8 DEF UInv

LEMMA UpToDateNext ==
  ASSUME TInv, UInv, AllNext
  PROVE  UInv'
<1>0. BusTypes /\ Callers \subseteq Threads
  BY DataBusConstants DEF TInv, BInv
<1>1. ASSUME UNCHANGED run, UNCHANGED lastValue, UNCHANGED arrived, \A s \in Subs : Connected(s)' => Connected(s)
      PROVE  UInv'
  BY <1>0, <1>1, UpToDateStays
<1>2. ASSUME NEW p \in Threads, UNCHANGED lastValue, UNCHANGED arrived, UNCHANGED subs,
             run[p].stage \notin BringStages, run'[p].stage \notin BringStages, \A q \in Threads : q # p => run'[q] = run[q]
      PROVE  UInv'
  <2>1. \A s \in Subs : Connected(s)' => Connected(s)
    BY <1>2 DEF Connected
  <2> QED
    BY <1>0, <1>2, <2>1, UpToDateStays
<1>3. UNCHANGED subs => \A s \in Subs : Connected(s)' => Connected(s)
  BY DEF Connected
<1>4. ASSUME NEW p \in Callers, NEW c, Goto(p, c)
      PROVE  run'[p] = c /\ \A q \in Threads : q # p => run'[q] = run[q]
  BY <1>0, <1>4, RunAfter DEF BusTypes
<1>5. ASSUME NEW p \in Callers, NEW s \in Subs, SubscribeLock(p, s) PROVE UInv'
  <2>1. PICK c : c = [stage |-> "connect", sub |-> s, vals |-> {}]
    OBVIOUS
  <2>2. UNCHANGED run \/ Goto(p, c)
    BY <1>5, <2>1 DEF SubscribeLock, Then
  <2>3. run[p].stage \notin BringStages /\ c.stage \notin BringStages
    BY <1>5, <2>1 DEF SubscribeLock, Calls, At, BringStages
  <2>4. UNCHANGED lastValue /\ UNCHANGED arrived /\ UNCHANGED subs
    BY <1>5 DEF SubscribeLock
  <2> QED
    BY <1>0, <1>1, <1>2, <1>3, <1>4, <2>2, <2>3, <2>4
<1>6. ASSUME NEW p \in Callers, NEW s \in Subs, Disconnect(p, s) PROVE UInv'
  <2>1. \A r \in Subs : Connected(r)' => Connected(r)
    BY <1>0, <1>6, DisconnectTypes, DataBusConstants DEF Connected
  <2> QED
    BY <1>1, <1>6, <2>1 DEF Disconnect
<1>7. ASSUME NEW p \in Callers, Registers(p) PROVE UInv'
  BY <1>1, <1>3, <1>7 DEF Registers, InternalRegisterSerializer, InternalLastValueCache, InternalEnableContinuousErrors, registry
<1>8. ASSUME NEW p \in Callers, Joins(p) PROVE UInv'
  <2>1. UNCHANGED lastValue /\ UNCHANGED arrived /\ UNCHANGED subs
    BY <1>8 DEF Joins, InternalAddParticipant, AddParticipant, InternalRemoveParticipant, AddRemoteTopic, registry
  <2>2. ASSUME InternalAddParticipant(p) PROVE UInv'
    <3>1. Goto(p, Idle) /\ run[p].stage \notin BringStages /\ Idle.stage \notin BringStages
      BY <2>2 DEF InternalAddParticipant, At, BringStages, Idle
    <3> QED
      BY <1>0, <1>2, <1>4, <2>1, <3>1
  <2>3. ASSUME NEW x \in Joining, AddParticipant(p, x) PROVE UInv'
    <3>1. PICK c : c = [stage |-> "add", part |-> x]
      OBVIOUS
    <3>2. Goto(p, c) /\ c.stage \notin BringStages /\ run[p].stage \notin BringStages
      BY <2>3, <3>1 DEF AddParticipant, Calls, At, BringStages
    <3> QED
      BY <1>0, <1>2, <1>4, <2>1, <3>2
  <2> QED
    BY <1>1, <1>3, <1>8, <2>1, <2>2, <2>3 DEF Joins, InternalRemoveParticipant, AddRemoteTopic
<1>9. ASSUME AsyncSend \/ \E x \in Joining, t \in Topics : OnChannelError(x, t) PROVE UInv'
  BY <1>1, <1>3, <1>9 DEF AsyncSend, OnChannelError, registry
<1>10. CASE BusStep
  BY <1>0, <1>5, <1>6, <1>7, <1>8, <1>9, <1>10, SubscribeUpToDate, LockUpToDate, PublishUpToDate, WorkerUpToDate DEF BusStep
<1>11. ASSUME usesNode, NEW p \in Callers, NodeCall(p) PROVE UInv'
  <2>1. UNCHANGED lastValue /\ UNCHANGED arrived /\ UNCHANGED subs
    BY <1>11 DEF NodeCall, Start, Receive, AddPeer, AddPeerJoins, AddPeerApplies, Send, SendSpreads,
                 Stop, StopExits, StopJoins, StopRemoves, StopDetaches, registry
  <2>2. Alone(p)
    BY <1>11, NodeCallAlone
  <2>3. run[p].stage \notin BringStages /\ run'[p].stage \notin BringStages
    BY <2>2 DEF Alone, Moved, Within, BringStages
  <2> QED
    BY <1>0, <1>2, <2>1, <2>2, <2>3 DEF Alone
<1>12. ASSUME TimerTick \/ ReceiverThread PROVE UInv'
  BY <1>1, <1>3, <1>12 DEF TimerTick, ReceiverThread, vars, registry
<1> QED
  BY <1>10, <1>11, <1>12, AllSteps DEF TInv

(* At rest, whoever asked for the last value has it, however subscriptions *)
(* and publications interleave, and the guard of each subscription on the  *)
(* worker thread is on the newest value that came, although values come    *)
(* out of order and their numbers wrap.  (A subscriber that several        *)
(* publishers call at once may not use a guard: MonotonicGuard.h:20-21.)   *)
THEOREM LastValueReachesAll == NodeSpec => []SubscribersUpToDate
<1>1. NodeInit => UInv
  <2> SUFFICES ASSUME NodeInit PROVE UInv
    OBVIOUS
  <2>1. \A s \in Subs : Newest(s)
    BY DEF NodeInit, Init, Newest
  <2>2. OneLast
    BY DEF NodeInit, Init, OneLast, Idle
  <2>3. \A s \in Subs : ~Connected(s)
    BY DataBusConstants DEF NodeInit, Init, Connected, ToSet
  <2>4. \A s \in Cached \ Lifespan : Covered(s)
    BY <2>3, DataBusConstants DEF Covered
  <2> QED
    BY <2>1, <2>2, <2>4 DEF UInv
<1>2. TInv /\ UInv /\ [AllNext]_allVars => UInv'
  <2>1. UInv /\ UNCHANGED allVars => UInv'
    BY DEF UInv, Newest, OneLast, Covered, Came, Connected, allVars, vars, registry, arrived
  <2> QED
    BY <2>1, UpToDateNext
<1>3. TInv /\ UInv => SubscribersUpToDate
  <2> SUFFICES ASSUME TInv, UInv, Quiet PROVE SubscribersUpToDate
    BY DEF SubscribersUpToDate, NothingMissed, NewestWins
  <2>1. \A s, v : Came(s, v) => v \in ToSet(got[s])
    BY DEF Quiet, Came, ToSet
  <2>2. \A p \in Threads : \A s, v : ~Brings(run[p], s, v)
    BY DEF Quiet, At, Brings
  <2>3. NothingMissed
    <3>1. ASSUME NEW s \in Cached \ Lifespan, Connected(s), lastValue[TopicOf[s]] # Nil
          PROVE  lastValue[TopicOf[s]].val \in ToSet(got[s])
      BY <2>1, <2>2, <3>1 DEF UInv, Covered
    <3> QED
      BY <3>1 DEF NothingMissed
  <2>4. NewestWins
    <3>1. ASSUME NEW s \in OnWorker, got[s] # <<>>
          PROVE  guard[s] = Stamp(CHOOSE v \in ToSet(got[s]) : \A w \in ToSet(got[s]) : w <= v)
      <4>1. PICK m \in ToSet(got[s]) : guard[s] = Stamp(m) /\ \A w \in ToSet(got[s]) : w <= m
        BY <3>1, DataBusConstants DEF UInv, Newest
      <4>2. PICK c : c = CHOOSE v \in ToSet(got[s]) : \A w \in ToSet(got[s]) : w <= v
        OBVIOUS
      <4>3. c \in ToSet(got[s]) /\ \A w \in ToSet(got[s]) : w <= c
        BY <4>1, <4>2
      <4>4. \A w \in ToSet(got[s]) : w \in Int
        <5>1. got[s] \in Seq(Vals)
          BY DataBusConstants DEF TInv, BInv, BusTypes, WayTypes
        <5>2. ToSet(got[s]) \subseteq Vals
          BY <5>1 DEF ToSet
        <5> QED
          BY <5>2 DEF Vals
      <4>5. c = m
        BY <4>1, <4>3, <4>4
      <4> QED
        BY <4>1, <4>2, <4>5
    <3> QED
      BY <3>1 DEF NewestWins
  <2> QED
    BY <2>3, <2>4 DEF SubscribersUpToDate
<1> QED
  BY <1>1, <1>2, <1>3, BusTyped, PTL DEF NodeSpec

-----------------------------------------------------------------------------
(* While Stop() goes through the peers, those behind it are closed; and    *)
(* whoever has a topic is a peer's participant, of one that is there or    *)
(* comes, or closed.                                                       *)
Closing ==
  \A p \in Threads : run[p].stage \in {"removes", "detaches"} =>
    \A i \in 1 .. Len(m_peers) : i > run[p].at => IsClosed(m_peers[i])
PInv == usesNode => Placed /\ Closing

(* Peers are found again after the list has grown.                         *)
LEMMA PeersGrow ==
  ASSUME NodeTypes, NEW peer \in Peers, m_peers' = Append(m_peers, peer)
  PROVE  /\ Len(m_peers) \in Nat /\ Len(m_peers') = Len(m_peers) + 1
         /\ \A i \in 1 .. Len(m_peers) : m_peers'[i] = m_peers[i]
         /\ m_peers'[Len(m_peers) + 1] = peer
         /\ \A x : OfPeer(x) => OfPeer(x)'
         /\ \A a \in Tiers : OfPeer(peer[a])'
<1>1. /\ Len(m_peers) \in Nat /\ Len(m_peers') = Len(m_peers) + 1
      /\ \A i \in 1 .. Len(m_peers) : m_peers'[i] = m_peers[i]
      /\ m_peers'[Len(m_peers) + 1] = peer
  BY AppendProperties DEF NodeTypes
<1>2. ASSUME NEW x, OfPeer(x) PROVE OfPeer(x)'
  <2>1. PICK i \in 1 .. Len(m_peers), a \in Tiers : m_peers[i][a] = x
    BY <1>2 DEF OfPeer
  <2>2. i \in 1 .. Len(m_peers')
    BY <1>1
  <2> QED
    BY <1>1, <2>1, <2>2 DEF OfPeer
<1>3. ASSUME NEW a \in Tiers PROVE OfPeer(peer[a])'
  <2>1. Len(m_peers) + 1 \in 1 .. Len(m_peers')
    BY <1>1
  <2>2. \E i \in 1 .. Len(m_peers') : m_peers'[i][a] = peer[a]
    BY <1>1, <2>1
  <2> QED
    BY <2>2 DEF OfPeer
<1> QED
  BY <1>1, <1>2, <1>3

LEMMA PlacedStays ==
  ASSUME PInv, UNCHANGED usesNode, UNCHANGED m_peers,
         usesNode => UNCHANGED remoteTopics, closed \subseteq closed',
         \A q \in Threads : At(q, "applies") => run'[q] = run[q],
         \A q \in Threads : run'[q].stage \in {"removes", "detaches"} =>
           run[q].stage \in {"removes", "detaches"} /\ run'[q].at = run[q].at
  PROVE  PInv'
<1> SUFFICES ASSUME usesNode PROVE Placed' /\ Closing'
  BY DEF PInv
<1>1. ASSUME NEW x \in Parts, remoteTopics'[x] # {}
      PROVE  x \in closed' \/ OfPeer(x)' \/ (\E p \in Threads : run'[p].stage = "applies" /\ \E a \in Tiers : run'[p].peer[a] = x)
  <2>1. x \in closed \/ OfPeer(x) \/ (\E p \in Threads : At(p, "applies") /\ \E a \in Tiers : run[p].peer[a] = x)
    BY <1>1 DEF PInv, Placed
  <2>2. OfPeer(x) => OfPeer(x)'
    BY DEF OfPeer
  <2>3. ASSUME NEW p \in Threads, At(p, "applies"), NEW a \in Tiers, run[p].peer[a] = x
        PROVE  run'[p].stage = "applies" /\ run'[p].peer[a] = x
    BY <2>3 DEF At
  <2> QED
    BY <2>1, <2>2, <2>3
<1>2. Placed'
  BY <1>1 DEF Placed, At
<1>3. Closing'
  <2>1. ASSUME NEW p \in Threads, run'[p].stage \in {"removes", "detaches"}, NEW i \in 1 .. Len(m_peers), i > run'[p].at
        PROVE  IsClosed(m_peers[i])'
    <3>1. IsClosed(m_peers[i])
      BY <2>1 DEF PInv, Closing
    <3> QED
      BY <3>1 DEF IsClosed
  <2> QED
    BY <2>1 DEF Closing
<1> QED
  BY <1>2, <1>3

LEMMA PlacedNodeCall ==
  ASSUME TInv, PInv, usesNode, NEW p \in Callers, NodeCall(p)
  PROVE  PInv'
<1>0. /\ p \in Threads /\ Alone(p) /\ usesNode' = usesNode /\ BInv /\ Placed /\ Closing
      /\ \A q \in Threads : q # p => ~Inside(q) /\ run'[q] = run[q]
      /\ Shape(run[p])
  BY NodeCallAlone, DataBusConstants DEF TInv, PInv, Alone, Shapes
<1>1. \A q \in Threads : q # p => ~At(q, "applies") /\ run[q].stage \notin {"removes", "detaches"}
                                 /\ run'[q].stage \notin {"removes", "detaches"}
  BY <1>0 DEF Inside, At, Within
<1>2. ASSUME NEW c, Goto(p, c) PROVE run'[p] = c
  BY <1>0, <1>2, RunAfter DEF BInv, BusTypes
<1>3. ASSUME UNCHANGED remoteTopics, UNCHANGED m_peers, closed \subseteq closed',
             At(p, "applies") => run'[p] = run[p],
             run'[p].stage \in {"removes", "detaches"} =>
               run[p].stage \in {"removes", "detaches"} /\ run'[p].at = run[p].at
      PROVE  PInv'
  BY <1>0, <1>1, <1>3, PlacedStays
<1>4. ASSUME Start(p) \/ \E t \in Topics, type \in Types : Receive(p, t, type) PROVE PInv'
  BY <1>3, <1>4 DEF Start, Receive, members, wiring
<1>5. ASSUME AddPeer(p) PROVE PInv'
  <2>1. PICK peer : peer = PeerParts[added + 1]
    OBVIOUS
  <2>2. UNCHANGED run \/ run'[p].stage = "joins bus"
    <3>1. PICK c : c = [stage |-> "joins bus", peer |-> peer, todo |-> <<peer.rel, peer.raw>>]
      OBVIOUS
    <3>2. UNCHANGED run \/ Goto(p, c)
      BY <1>5, <2>1, <3>1 DEF AddPeer
    <3>3. c.stage = "joins bus"
      BY <3>1
    <3> QED
      BY <1>2, <3>2, <3>3
  <2> QED
    BY <1>3, <1>5, <2>2 DEF AddPeer, NodeCalls, At
<1>6. ASSUME AddPeerJoins(p) PROVE PInv'
  <2>1. run[p].stage = "joins bus" /\ UNCHANGED remoteTopics /\ UNCHANGED m_peers /\ UNCHANGED closed
    BY <1>6 DEF AddPeerJoins, At, nodeVars, wiring
  <2>2. run[p] \in JoinCalls
    BY <1>0, <2>1, RunAt, Stages DEF BInv, BusTypes
  <2>3. run'[p].stage \in {"joins bus", "applies"}
    <3>1. PICK c : c = [run[p] EXCEPT !.todo = Tail(@)]
      OBVIOUS
    <3>2. PICK d : d = [stage |-> "applies", peer |-> run[p].peer, at |-> 1]
      OBVIOUS
    <3>3. Goto(p, c) \/ Goto(p, d)
      BY <1>6, <3>1, <3>2 DEF AddPeerJoins
    <3>4. c.stage = "joins bus" /\ d.stage = "applies"
      BY <2>1, <2>2, <3>1, <3>2 DEF JoinCalls
    <3> QED
      BY <1>2, <3>3, <3>4
  <2> QED
    BY <1>3, <2>1, <2>3 DEF At
<1>7. ASSUME AddPeerApplies(p) PROVE PInv'
  <2>1. run[p].stage = "applies" /\ run[p].at > 0 /\ UNCHANGED closed
    BY <1>0, <1>7 DEF AddPeerApplies, At, Shape, wiring
  <2>2. run[p] \in ApplyCalls /\ BInv'
    BY <1>0, <1>7, <2>1, AddPeerAppliesTypes
  <2>3. run[p].peer \in Peers /\ run[p].at \in Nat
    BY <2>2 DEF ApplyCalls
  <2>4. \A x \in Parts : remoteTopics[x] # {} =>
          x \in closed \/ OfPeer(x) \/ \E a \in Tiers : run[p].peer[a] = x
    BY <1>0, <1>1 DEF Placed
  <2>5. CASE run[p].at <= Len(m_outTopics)
    <3>1. m_outTopics[run[p].at] \in Topics \X Tiers
      BY <1>0, <2>1, <2>3, <2>5 DEF BInv, NodeTypes
    <3>2. Route(run[p].peer, m_outTopics[run[p].at]) /\ UNCHANGED m_peers /\ UNCHANGED <<parts, errConn, sendThread, sender, closed>>
      BY <1>7, <2>5 DEF AddPeerApplies, wiring
    <3>2a. MemberTypes
      BY <1>0 DEF BInv, BusTypes
    <3>2b. PICK peer \in Peers, topic \in Topics \X Tiers : peer = run[p].peer /\ topic = m_outTopics[run[p].at]
      BY <2>3, <3>1
    <3>2c. Route(peer, topic) /\ topic[2] \in Tiers
      BY <3>2, <3>2b
    <3>2d. \A x \in Parts : remoteTopics'[x] = IF x = peer[topic[2]] THEN remoteTopics[x] \cup {topic[1]} ELSE remoteTopics[x]
      BY <3>2, <3>2a, <3>2c, RouteTypes
    <3>3. \A x \in Parts : remoteTopics'[x] # {} => remoteTopics[x] # {} \/ \E a \in Tiers : run[p].peer[a] = x
      BY <3>2b, <3>2c, <3>2d
    <3>4. PICK c : c = [run[p] EXCEPT !.at = @ + 1]
      OBVIOUS
    <3>5. c.stage = "applies" /\ c.peer = run[p].peer /\ run'[p] = c
      BY <1>2, <1>7, <2>1, <2>2, <2>5, <3>4 DEF ApplyCalls, AddPeerApplies
    <3>6. ASSUME NEW x \in Parts, remoteTopics'[x] # {}
          PROVE  x \in closed' \/ OfPeer(x)' \/ (\E q \in Threads : run'[q].stage = "applies" /\ \E a \in Tiers : run'[q].peer[a] = x)
      <4>1. x \in closed \/ OfPeer(x) \/ \E a \in Tiers : run[p].peer[a] = x
        BY <2>4, <3>3, <3>6
      <4>2. OfPeer(x) => OfPeer(x)'
        BY <3>2 DEF OfPeer
      <4>3. (\E a \in Tiers : run[p].peer[a] = x) => run'[p].stage = "applies" /\ \E a \in Tiers : run'[p].peer[a] = x
        BY <3>5
      <4> QED
        BY <1>0, <2>1, <4>1, <4>2, <4>3
    <3>7. Placed'
      BY <3>6 DEF Placed, At
    <3>8. \A q \in Threads : run'[q].stage \notin {"removes", "detaches"}
      BY <1>1, <3>5
    <3>9. Closing'
      BY <3>8 DEF Closing
    <3> QED
      BY <3>7, <3>9 DEF PInv
  <2>6. CASE ~(run[p].at <= Len(m_outTopics))
    <3>1. m_peers' = Append(m_peers, run[p].peer) /\ UNCHANGED remoteTopics /\ run'[p] = Idle
      BY <1>2, <1>7, <2>6 DEF AddPeerApplies
    <3>2. \A x : OfPeer(x) => OfPeer(x)'
      BY <1>0, <2>3, <3>1, PeersGrow DEF BInv
    <3>3. ASSUME NEW x, NEW a \in Tiers, run[p].peer[a] = x PROVE OfPeer(x)'
      <4>1. PICK peer \in Peers : peer = run[p].peer
        BY <2>3
      <4>2. \A b \in Tiers : OfPeer(peer[b])'
        BY <1>0, <3>1, <4>1, PeersGrow DEF BInv
      <4>3. peer[a] = x
        BY <3>3, <4>1
      <4> QED
        BY <4>2, <4>3
    <3>4. ASSUME NEW x \in Parts, remoteTopics'[x] # {} PROVE x \in closed' \/ OfPeer(x)'
      BY <2>1, <2>4, <3>1, <3>2, <3>3, <3>4
    <3>5. Placed'
      BY <3>4 DEF Placed
    <3>6. \A q \in Threads : run'[q].stage \notin {"removes", "detaches"}
      BY <1>1, <3>1, IdleFacts
    <3> QED
      BY <3>5, <3>6 DEF PInv, Closing
  <2> QED
    BY <2>5, <2>6
<1>8. ASSUME NEW t \in Topics, NEW type \in Types, NEW tier \in Tiers, Send(p, t, type, tier) PROVE PInv'
  <2>1. PICK c : c = [stage |-> "spreads", topic |-> <<t, tier>>, at |-> 1]
    OBVIOUS
  <2>2. UNCHANGED run \/ Goto(p, c)
    BY <1>8, <2>1 DEF Send
  <2>3. c.stage = "spreads"
    BY <2>1
  <2>4. UNCHANGED remoteTopics /\ UNCHANGED m_peers /\ UNCHANGED closed /\ run[p].stage = "idle"
    BY <1>8 DEF Send, members, wiring, NodeCalls, At
  <2> QED
    BY <1>2, <1>3, <2>2, <2>3, <2>4 DEF At
<1>9. ASSUME SendSpreads(p) PROVE PInv'
  <2>1. run[p].stage = "spreads" /\ run[p].at > 0 /\ UNCHANGED closed /\ UNCHANGED m_peers
    BY <1>0, <1>9 DEF SendSpreads, At, Shape, wiring, nodeVars
  <2>2. run[p] \in SpreadCalls /\ BInv'
    BY <1>0, <1>9, <2>1, SendSpreadsTypes
  <2>3. run[p].topic \in Topics \X Tiers /\ run[p].at \in Nat
    BY <2>2 DEF SpreadCalls
  <2>4. run'[p].stage \in {"spreads", "idle"}
    <3>1. PICK c : c = [run[p] EXCEPT !.at = @ + 1]
      OBVIOUS
    <3>2. Goto(p, c) \/ Goto(p, Idle)
      BY <1>9, <3>1 DEF SendSpreads
    <3>3. c.stage = "spreads"
      BY <2>1, <2>2, <3>1 DEF SpreadCalls
    <3> QED
      BY <1>2, <3>2, <3>3, IdleFacts
  <2>5. CASE run[p].at <= Len(m_peers)
    <3>1. PICK peer \in Peers : peer = m_peers[run[p].at] /\ run[p].at \in 1 .. Len(m_peers)
      BY <1>0, <2>1, <2>3, <2>5 DEF BInv, NodeTypes
    <3>2. Route(peer, run[p].topic) /\ UNCHANGED <<parts, errConn, sendThread, sender, closed>>
      BY <1>9, <2>5, <3>1 DEF SendSpreads, wiring
    <3>3. ASSUME NEW x \in Parts, remoteTopics'[x] # {}
          PROVE  x \in closed' \/ OfPeer(x)'
      <4>0. MemberTypes
        BY <1>0 DEF BInv, BusTypes
      <4>0a. PICK topic \in Topics \X Tiers : topic = run[p].topic
        BY <2>3
      <4>0b. Route(peer, topic)
        BY <3>2, <4>0a
      <4>0c. remoteTopics'[x] = IF x = peer[topic[2]] THEN remoteTopics[x] \cup {topic[1]} ELSE remoteTopics[x]
        BY <3>2, <4>0, <4>0b, RouteTypes
      <4>1. x = peer[run[p].topic[2]] \/ remoteTopics[x] # {}
        BY <3>3, <4>0a, <4>0c
      <4>2. run[p].topic[2] \in Tiers
        BY <2>3
      <4>3. x = peer[run[p].topic[2]] => OfPeer(x)
        BY <3>1, <4>2 DEF OfPeer
      <4>4. remoteTopics[x] # {} => x \in closed \/ OfPeer(x)
        BY <1>0, <1>1, <2>1 DEF Placed, At
      <4> QED
        BY <2>1, <4>1, <4>3, <4>4 DEF OfPeer
    <3>4. \A q \in Threads : run'[q].stage \notin {"removes", "detaches"}
      BY <1>1, <2>4
    <3> QED
      BY <3>3, <3>4 DEF PInv, Placed, Closing
  <2>6. CASE ~(run[p].at <= Len(m_peers))
    BY <1>3, <1>9, <2>1, <2>4, <2>6 DEF SendSpreads, At
  <2> QED
    BY <2>5, <2>6
<1>10. ASSUME Stop(p) \/ StopExits(p) PROVE PInv'
  <2>1. PICK c : c = [stage |-> "exits"]
    OBVIOUS
  <2>2. PICK d : d = [stage |-> "joins thread"]
    OBVIOUS
  <2>3. Goto(p, c) \/ Goto(p, d)
    BY <1>10, <2>1, <2>2 DEF Stop, StopExits
  <2>4. c.stage = "exits" /\ d.stage = "joins thread"
    BY <2>1, <2>2
  <2>5. UNCHANGED remoteTopics /\ UNCHANGED m_peers /\ UNCHANGED closed /\ ~At(p, "applies")
    BY <1>10 DEF Stop, StopExits, members, wiring, NodeCalls, At, nodeVars
  <2> QED
    BY <1>2, <1>3, <2>3, <2>4, <2>5
<1>11. ASSUME StopJoins(p) PROVE PInv'
  <2>1. PICK c : c = [stage |-> "removes", at |-> Len(m_peers), todo |-> <<"rel", "raw">>]
    OBVIOUS
  <2>2. run'[p] = c /\ c.stage = "removes" /\ c.at = Len(m_peers)
    BY <1>2, <1>11, <2>1 DEF StopJoins
  <2>3. UNCHANGED remoteTopics /\ UNCHANGED m_peers /\ UNCHANGED closed /\ ~At(p, "applies")
    BY <1>11 DEF StopJoins, At, nodeVars
  <2>4. Len(m_peers) \in Nat
    BY <1>0 DEF BInv, NodeTypes
  <2>5. Placed'
    BY <1>0, <1>1, <2>3 DEF Placed, OfPeer
  <2>6. Closing'
    <3>1. ASSUME NEW q \in Threads, run'[q].stage \in {"removes", "detaches"}, NEW i \in 1 .. Len(m_peers'), i > run'[q].at
          PROVE  FALSE
      BY <1>1, <2>2, <2>3, <2>4, <3>1
    <3> QED
      BY <3>1 DEF Closing
  <2> QED
    BY <2>5, <2>6 DEF PInv
<1>12. ASSUME StopRemoves(p) PROVE PInv'
  <2>1. run[p].stage = "removes" /\ UNCHANGED remoteTopics /\ UNCHANGED closed /\ run[p] \in RemoveCalls /\ run[p].at \in Nat
    BY <1>0, <1>12, RemoveFacts DEF StopRemoves, At, wiring
  <2>2. CASE run[p].at = 0
    <3>1. m_peers' = <<>> /\ run'[p] = Idle
      BY <1>2, <1>12, <2>2 DEF StopRemoves
    <3>2. ASSUME NEW x \in Parts, OfPeer(x) PROVE x \in closed
      <4>1. PICK i \in 1 .. Len(m_peers), a \in Tiers : m_peers[i][a] = x
        BY <3>2 DEF OfPeer
      <4>2. IsClosed(m_peers[i])
        BY <1>0, <2>1, <2>2, <4>1 DEF Closing
      <4>3. m_peers[i] \in Peers
        BY <1>0, <4>1 DEF BInv, NodeTypes
      <4> QED
        BY <4>1, <4>2, <4>3, PeerTypes DEF IsClosed, Tiers
    <3>3. Placed'
      BY <1>0, <1>1, <2>1, <3>2 DEF Placed, At
    <3>4. \A q \in Threads : run'[q].stage \notin {"removes", "detaches"}
      BY <1>1, <3>1, IdleFacts
    <3> QED
      BY <3>3, <3>4 DEF PInv, Closing
  <2>3. CASE run[p].at # 0
    <3>1. PICK c : c = [run[p] EXCEPT !.todo = Tail(@)]
      OBVIOUS
    <3>2. PICK d : d = [stage |-> "detaches", at |-> run[p].at]
      OBVIOUS
    <3>3. Goto(p, c) \/ Goto(p, d)
      BY <1>12, <2>3, <3>1, <3>2 DEF StopRemoves
    <3>4. c.at = run[p].at /\ d.at = run[p].at
      BY <2>1, <3>1, <3>2 DEF RemoveCalls
    <3> QED
      BY <1>2, <1>3, <1>12, <2>1, <2>3, <3>3, <3>4 DEF StopRemoves, At
  <2> QED
    BY <2>2, <2>3
<1>13. ASSUME StopDetaches(p) PROVE PInv'
  <2>1. run[p].stage = "detaches" /\ UNCHANGED remoteTopics /\ UNCHANGED m_peers /\ run[p].at \in 1 .. Len(m_peers)
    BY <1>0, <1>13 DEF StopDetaches, At, Shape, nodeVars
  <2>2. PICK peer : peer = m_peers[run[p].at]
    OBVIOUS
  <2>4. PICK c : c = [stage |-> "removes", at |-> run[p].at - 1, todo |-> <<"rel", "raw">>]
    OBVIOUS
  <2>8. Detaching(p) \/ Closes(p, peer, c)
    BY <1>13, <2>2, <2>4, StopDetachesCases
  <2>9. CASE Detaching(p)
    BY <1>3, <2>1, <2>9 DEF Detaching
  <2>10. CASE Closes(p, peer, c)
    <3>3. closed' = closed \cup {peer.rel, peer.raw}
      BY <2>10 DEF Closes
    <3>5. run'[p] = c /\ c.stage = "removes" /\ c.at = run[p].at - 1
      BY <1>2, <2>4, <2>10 DEF Closes
    <3>6. Placed'
      BY <1>0, <1>1, <2>1, <3>3 DEF Placed, OfPeer, At
    <3>7. Closing'
      <4>1. ASSUME NEW i \in 1 .. Len(m_peers), i > run[p].at - 1
            PROVE  IsClosed(m_peers[i])'
        <5>1. CASE i = run[p].at
          BY <2>1, <2>2, <3>3, <5>1 DEF IsClosed
        <5>2. CASE i # run[p].at
          <6>1. i > run[p].at
            BY <2>1, <4>1, <5>2
          <6>2. IsClosed(m_peers[i])
            BY <1>0, <2>1, <6>1 DEF Closing
          <6> QED
            BY <2>1, <3>3, <6>2 DEF IsClosed
        <5> QED
          BY <5>1, <5>2
      <4>2. \A q \in Threads : run'[q].stage \in {"removes", "detaches"} => q = p
        BY <1>1
      <4> QED
        BY <2>1, <3>5, <4>1, <4>2 DEF Closing
    <3> QED
      BY <3>6, <3>7 DEF PInv
  <2> QED
    BY <2>8, <2>9, <2>10
<1> QED
  BY <1>4, <1>5, <1>6, <1>7, <1>8, <1>9, <1>10, <1>11, <1>12, <1>13 DEF NodeCall

LEMMA PlacedNext ==
  ASSUME TInv, PInv, AllNext
  PROVE  PInv'
<1>1. ASSUME OutStays, UNCHANGED nodeVars, usesNode => UNCHANGED remoteTopics, UNCHANGED closed PROVE PInv'
  <2>1. \A q \in Threads : At(q, "applies") => run'[q] = run[q]
    BY <1>1 DEF OutStays, At, Inside, Within
  <2>2. \A q \in Threads : run'[q].stage \in {"removes", "detaches"} => run'[q] = run[q]
    BY <1>1 DEF OutStays, Inside, Within
  <2> QED
    BY <1>1, <2>1, <2>2, PlacedStays DEF nodeVars
<1>2. ASSUME BusStep, UNCHANGED nodeVars PROVE PInv'
  <2>1. OutStays
    BY <1>2, BusStepOut DEF TInv
  <2>2. UNCHANGED closed
    BY <1>2 DEF BusStep, SubscribeLock, Disconnect, InternalSubscribe, Registers, InternalRegisterSerializer,
                InternalLastValueCache, InternalEnableContinuousErrors, Joins, InternalAddParticipant, AddParticipant,
                InternalRemoveParticipant, AddRemoteTopic, OnChannelError, WorkerServes, PublishLock, InternalPublish,
                AsyncSend, members, wiring
  <2>3. usesNode => UNCHANGED remoteTopics
    BY <1>2 DEF BusStep, PublishLock, InternalPublish, AsyncSend, members
  <2> QED
    BY <1>1, <1>2, <2>1, <2>2, <2>3
<1>3. ASSUME TimerTick \/ ReceiverThread PROVE PInv'
  <2>1. UNCHANGED vars /\ UNCHANGED usesNode /\ UNCHANGED m_peers
    BY <1>3 DEF TimerTick, ReceiverThread
  <2> QED
    BY <2>1, PlacedStays DEF vars, members, wiring
<1> QED
  BY <1>2, <1>3, AllSteps, PlacedNodeCall DEF TInv

-----------------------------------------------------------------------------
(* Sequences without repetition.                                           *)
LEMMA AppendOnce ==
  ASSUME NEW S, NEW z \in Seq(S), NEW e \in S, IsInjective(z), e \notin ToSet(z)
  PROVE  IsInjective(Append(z, e))
<1>1. /\ Len(z) \in Nat /\ DOMAIN z = 1 .. Len(z) /\ DOMAIN Append(z, e) = 1 .. Len(z) + 1
      /\ \A i \in 1 .. Len(z) : Append(z, e)[i] = z[i] /\ z[i] \in ToSet(z)
      /\ Append(z, e)[Len(z) + 1] = e
  <2>1. /\ Len(Append(z, e)) = Len(z) + 1 /\ Len(z) \in Nat
        /\ \A i \in 1 .. Len(z) : Append(z, e)[i] = z[i]
        /\ Append(z, e)[Len(z) + 1] = e
    OBVIOUS
  <2>2. DOMAIN z = 1 .. Len(z) /\ DOMAIN Append(z, e) = 1 .. Len(z) + 1
    BY <2>1
  <2>3. \A i \in 1 .. Len(z) : z[i] \in ToSet(z)
    BY <2>2 DEF ToSet
  <2> QED
    BY <2>1, <2>2, <2>3
<1>2. ASSUME NEW a \in 1 .. Len(z) + 1, NEW b \in 1 .. Len(z) + 1, Append(z, e)[a] = Append(z, e)[b]
      PROVE  a = b
  <2>1. CASE a \in 1 .. Len(z) /\ b \in 1 .. Len(z)
    BY <1>1, <1>2, <2>1 DEF IsInjective
  <2>2. CASE a = Len(z) + 1 /\ b \in 1 .. Len(z)
    BY <1>1, <1>2, <2>2
  <2>3. CASE b = Len(z) + 1 /\ a \in 1 .. Len(z)
    BY <1>1, <1>2, <2>3
  <2> QED
    BY <1>1, <2>1, <2>2, <2>3
<1> QED
  BY <1>1, <1>2 DEF IsInjective

LEMMA TailOnce ==
  ASSUME NEW S, NEW z \in Seq(S), z # <<>>, IsInjective(z)
  PROVE  IsInjective(Tail(z)) /\ Head(z) \notin ToSet(Tail(z))
<1>1. PICK y : y = Tail(z)
  OBVIOUS
<1>2. /\ y \in Seq(S) /\ Len(y) = Len(z) - 1 /\ Len(z) \in Nat /\ Len(z) > 0 /\ Head(z) = z[1]
      /\ \A i \in 1 .. Len(y) : y[i] = z[i + 1]
  BY <1>1, HeadTailProperties, EmptySeq
<1>3. DOMAIN z = 1 .. Len(z) /\ DOMAIN y = 1 .. Len(y)
  BY <1>2
<1>4. ASSUME NEW a \in 1 .. Len(y), NEW b \in 1 .. Len(y), y[a] = y[b] PROVE a = b
  <2>1. a + 1 \in 1 .. Len(z) /\ b + 1 \in 1 .. Len(z) /\ z[a + 1] = z[b + 1]
    BY <1>2, <1>4
  <2>2. a + 1 = b + 1
    BY <1>3, <2>1 DEF IsInjective
  <2> QED
    BY <2>2
<1>5. ASSUME NEW a \in 1 .. Len(y), y[a] = Head(z) PROVE FALSE
  <2>1. a + 1 \in 1 .. Len(z) /\ 1 \in 1 .. Len(z) /\ z[a + 1] = z[1]
    BY <1>2, <1>5
  <2>2. a + 1 = 1
    BY <1>3, <2>1 DEF IsInjective
  <2> QED
    BY <2>2
<1>6. IsInjective(y)
  BY <1>3, <1>4 DEF IsInjective
<1>7. Head(z) \notin ToSet(y)
  BY <1>3, <1>5 DEF ToSet
<1> QED
  BY <1>1, <1>6, <1>7

(* What transmission does, and the queue of the send thread.               *)
LEMMA Transmitted ==
  ASSUME WayTypes, NEW x \in Parts, NEW v \in Vals, Transmit(x, v)
  PROVE  \A y \in Parts :
           /\ ToSet(sent'[y]) = IF y = x /\ x \notin closed THEN ToSet(sent[y]) \cup {v} ELSE ToSet(sent[y])
           /\ IsInjective(sent[y]) /\ (y = x => v \notin ToSet(sent[y])) => IsInjective(sent'[y])
<1> TAKE y \in Parts
<1>1. sent[y] \in Seq(Vals)
  BY DEF WayTypes
<1>2. sent'[y] = IF y = x /\ x \notin closed THEN Append(sent[y], v) ELSE sent[y]
  BY DEF WayTypes, Transmit
<1>3. ToSet(Append(sent[y], v)) = ToSet(sent[y]) \cup {v}
  BY <1>1, AppendSet
<1>4. IsInjective(sent[y]) /\ v \notin ToSet(sent[y]) => IsInjective(Append(sent[y], v))
  BY <1>1, AppendOnce
<1> QED
  BY <1>2, <1>3, <1>4

LEMMA Queued ==
  ASSUME WayTypes, NEW x \in Parts, NEW v \in Vals, outbox' = Append(outbox, [part |-> x, val |-> v])
  PROVE  /\ ToSet(outbox') = ToSet(outbox) \cup {[part |-> x, val |-> v]}
         /\ IsInjective(outbox) /\ [part |-> x, val |-> v] \notin ToSet(outbox) => IsInjective(outbox')
<1>1. PICK m \in Packets : m = [part |-> x, val |-> v]
  BY DEF Packets
<1>2. outbox' = Append(outbox, m) /\ outbox \in Seq(Packets)
  BY <1>1 DEF WayTypes
<1>3. ToSet(outbox') = ToSet(outbox) \cup {m} /\ (IsInjective(outbox) /\ m \notin ToSet(outbox) => IsInjective(outbox'))
  BY <1>2, AppendSet, AppendOnce
<1> QED
  BY <1>1, <1>3

LEMMA Unqueued ==
  ASSUME WayTypes, AsyncSend
  PROVE  \E b \in Packets :
           /\ b \in ToSet(outbox) /\ ToSet(outbox) = ToSet(outbox') \cup {b} /\ Transmit(b.part, b.val)
           /\ b.part \in Parts /\ b.val \in Vals /\ b = [part |-> b.part, val |-> b.val]
           /\ IsInjective(outbox) => IsInjective(outbox') /\ b \notin ToSet(outbox')
<1>1. outbox # <<>> /\ outbox' = Tail(outbox) /\ outbox \in Seq(Packets)
  BY DEF AsyncSend, WayTypes
<1>2. PICK b \in Packets : b = Head(outbox)
  BY AsyncTypes
<1>3. ToSet(outbox) = ToSet(outbox') \cup {b}
  BY <1>1, <1>2, HeadSet
<1>4. IsInjective(outbox) => IsInjective(outbox') /\ b \notin ToSet(outbox')
  BY <1>1, <1>2, TailOnce
<1>5. Transmit(b.part, b.val)
  BY <1>2 DEF AsyncSend
<1>6. b.part \in Parts /\ b.val \in Vals /\ b = [part |-> b.part, val |-> b.val]
  BY DEF Packets
<1> QED
  BY <1>3, <1>4, <1>5, <1>6

-----------------------------------------------------------------------------
(* A value is in one place on its way to a participant.                    *)
S1 == Unshared /\ OutOnce /\ \A x \in Parts : Once(x)

(* Whoever publishes, goes on with what he had, and nothing is sent.       *)
GoesOn(c, d) ==
  c \in PubCalls =>
    /\ d \in PubCalls /\ Same(c, d) /\ \A x : Ahead(c, x) => Ahead(d, x)
    /\ c.stage = "send" => \A x \in c.to : c.topic \in remoteTopics[x]

LEMMA OnceStays ==
  ASSUME BusTypes, S1, UNCHANGED outgoing, UNCHANGED pubs, UNCHANGED remote,
         \A x \in Parts : remoteTopics[x] \subseteq remoteTopics'[x],
         \A q \in Threads : GoesOn(run'[q], run[q]),
         RunTypes'
  PROVE  S1'
<1>1. UNCHANGED outbox /\ UNCHANGED sent /\ UNCHANGED thrown
  BY DEF outgoing
<1>2. Unshared'
  <2>1. \A p, q \in Threads : run'[p] \in PubCalls /\ run'[q] \in PubCalls /\ run'[p].val = run'[q].val => p = q
    BY DEF GoesOn, Same, S1, Unshared
  <2>2. \A p \in Threads : run'[p] \in PubCalls => run'[p].val <= pubs /\ run'[p].val \notin thrown
    BY DEF GoesOn, Same, S1, Unshared
  <2>3. ASSUME NEW p \in Threads, run'[p].stage = "send", NEW x \in run'[p].to
        PROVE  run'[p].topic \in remoteTopics'[x]
    <3>1. run'[p] \in SubCalls \cup PubCalls \cup AsideRuns
      BY DEF RunTypes
    <3>2. run'[p] \in PubCalls
      BY <2>3, <3>1, Stages DEF Publishing, Early
    <3>3. x \in Parts
      BY <2>3, <3>2 DEF PubCalls
    <3> QED
      BY <2>3, <3>2, <3>3 DEF GoesOn
  <2> QED
    BY <1>1, <2>1, <2>2, <2>3 DEF S1, Unshared, At
<1>3. OutOnce'
  BY <1>1 DEF S1, OutOnce
<1>4. ASSUME NEW x \in Parts PROVE Once(x)'
  <2>1. Once(x)
    BY DEF S1
  <2>2. ASSUME NEW p \in Threads, run'[p] \in PubCalls, Ahead(run'[p], x)
        PROVE  run'[p].val \notin ToSet(sent[x]) /\ [part |-> x, val |-> run'[p].val] \notin ToSet(outbox)
    <3>1. run[p] \in PubCalls /\ run'[p].val = run[p].val /\ Ahead(run[p], x)
      BY <2>2 DEF GoesOn, Same
    <3> QED
      BY <2>1, <3>1 DEF Once
  <2> QED
    BY <1>1, <2>1, <2>2 DEF Once
<1> QED
  BY <1>2, <1>3, <1>4 DEF S1

LEMMA GoesOnSame ==
  ASSUME BusTypes, S1, NEW q \in Threads
  PROVE  GoesOn(run[q], run[q])
BY DEF GoesOn, Same, S1, Unshared, At

LEMMA OnceLock ==
  ASSUME BusTypes, S1, NEW p \in Threads, NEW t \in Topics, NEW type \in Types, NEW local \in BOOLEAN, PublishLock(p, t, type, local)
  PROVE  S1'
<1>1. /\ run[p] = Idle /\ \A q \in Threads : q # p => run'[q] = run[q]
      /\ run'[p] = run[p] \/ (run'[p] = LockCall(t, pubs', local) /\ run'[p] \in PubCalls)
  BY LockMoves
<1>2. pubs' \in Vals /\ pubs' = pubs + 1 /\ pubs \in Nat
  BY LockFacts, Numbers DEF BusTypes, WayTypes
<1>3. UNCHANGED outbox /\ UNCHANGED sent /\ UNCHANGED thrown /\ UNCHANGED remoteTopics
  BY DEF PublishLock, outgoing, members
<1>4. run'[p] \in PubCalls => run'[p].val = pubs' /\ run'[p].stage = "local"
  BY <1>1, IdleFacts, LockCallFacts
<1>5. \A q \in Threads : run[q] \in PubCalls => run[q].val \in Int /\ run[q].val <= pubs
  BY DEF S1, Unshared, PubCalls, Vals
<1>6. Unshared'
  <2>1. ASSUME NEW q \in Threads, NEW r \in Threads, run'[q] \in PubCalls, run'[r] \in PubCalls, run'[q].val = run'[r].val
        PROVE  q = r
    <3>1. q # p /\ r # p => q = r
      BY <1>1, <2>1 DEF S1, Unshared
    <3>2. q = p /\ r # p => FALSE
      BY <1>1, <1>2, <1>4, <1>5, <2>1
    <3>3. q # p /\ r = p => FALSE
      BY <1>1, <1>2, <1>4, <1>5, <2>1
    <3> QED
      BY <3>1, <3>2, <3>3
  <2>2. ASSUME NEW q \in Threads, run'[q] \in PubCalls PROVE run'[q].val <= pubs' /\ run'[q].val \notin thrown
    <3>1. CASE q = p
      BY <1>2, <1>4, <2>2, <3>1 DEF S1, Unshared
    <3>2. CASE q # p
      BY <1>1, <1>2, <1>5, <2>2, <3>2 DEF S1, Unshared
    <3> QED
      BY <3>1, <3>2
  <2>3. ASSUME NEW q \in Threads, run'[q].stage = "send" PROVE \A x \in run'[q].to : run'[q].topic \in remoteTopics[x]
    <3>1. q # p
      BY <1>1, <1>4, <2>3, IdleFacts
    <3> QED
      BY <1>1, <2>3, <3>1 DEF S1, Unshared, At
  <2>4. ASSUME NEW v \in Vals, v > pubs' PROVE remote'[v] = {} /\ v \notin thrown
    <3>1. v > pubs /\ v # pubs'
      BY <1>2, <2>4 DEF Vals
    <3>2. remote[v] = {} /\ v \notin thrown
      BY <3>1 DEF S1, Unshared
    <3>3. remote'[v] = remote[v]
      BY <3>1, LockFacts DEF BusTypes, WayTypes
    <3> QED
      BY <3>2, <3>3
  <2> QED
    BY <1>3, <2>1, <2>2, <2>3, <2>4 DEF Unshared, At
<1>7. OutOnce'
  <2>1. ASSUME NEW b \in ToSet(outbox) PROVE b.val <= pubs'
    <3>1. outbox \in Seq(Packets)
      BY DEF BusTypes, WayTypes
    <3>2. b \in Packets
      BY <3>1 DEF ToSet
    <3>3. b.val \in Int /\ b.val <= pubs
      BY <3>2 DEF S1, OutOnce, Packets, Vals
    <3> QED
      BY <1>2, <3>3
  <2> QED
    BY <1>3, <2>1 DEF S1, OutOnce
<1>8. ASSUME NEW x \in Parts PROVE Once(x)'
  <2>1. Once(x) /\ ToSet(sent[x]) \subseteq Vals
    <3>1. sent[x] \in Seq(Vals)
      BY DEF BusTypes, WayTypes
    <3> QED
      BY <3>1 DEF S1, ToSet
  <2>2. \A v \in ToSet(sent[x]) : v <= pubs'
    <3>1. \A v \in ToSet(sent[x]) : v \in Vals
      BY <2>1
    <3>2. \A v \in ToSet(sent[x]) : v <= pubs
      BY <2>1 DEF Once
    <3> QED
      BY <1>2, <3>1, <3>2 DEF Vals
  <2>3. pubs' \notin ToSet(sent[x])
    <3>1. ~(pubs' <= pubs)
      BY <1>2
    <3> QED
      BY <2>1, <3>1 DEF Once
  <2>4. [part |-> x, val |-> pubs'] \notin ToSet(outbox)
    <3>1. ~([part |-> x, val |-> pubs'].val <= pubs)
      BY <1>2
    <3> QED
      BY <3>1 DEF S1, OutOnce
  <2>5. ASSUME NEW q \in Threads, run'[q] \in PubCalls, Ahead(run'[q], x)
        PROVE  run'[q].val \notin ToSet(sent[x]) /\ [part |-> x, val |-> run'[q].val] \notin ToSet(outbox)
    <3>1. CASE q = p
      BY <1>4, <2>3, <2>4, <2>5, <3>1
    <3>2. CASE q # p
      BY <1>1, <2>1, <2>5, <3>2 DEF Once
    <3> QED
      BY <3>1, <3>2
  <2> QED
    BY <1>3, <2>1, <2>2, <2>5 DEF Once
<1> QED
  BY <1>6, <1>7, <1>8 DEF S1

(* A publication is given to a participant.                                *)
LEMMA OnceSendBy ==
  ASSUME BusTypes, S1, NEW p \in Threads, run[p] \in PubCalls, run[p].stage = "send", NEW x \in run[p].to,
         SendBy(p, x), UNCHANGED pubs, UNCHANGED remote, UNCHANGED remoteTopics,
         \A q \in Threads : q # p => run'[q] = run[q],
         IF run[p].val \in thrown' THEN run'[p] = Idle
         ELSE run'[p] \in PubCalls /\ run'[p].stage = "send" /\ run'[p].to = run[p].to \ {x} /\ Same(run'[p], run[p])
  PROVE  S1'
<1>0. x \in Parts /\ run[p].val \in Vals /\ Ahead(run[p], x) /\ run[p].val <= pubs
  BY DEF PubCalls, Ahead, S1, Unshared
<1>1. PICK v \in Vals : v = run[p].val
  BY <1>0
<1>2. v \notin ToSet(sent[x]) /\ [part |-> x, val |-> v] \notin ToSet(outbox) /\ v <= pubs
  BY <1>0, <1>1 DEF S1, Once
<1>3. WayTypes /\ MemberTypes
  BY DEF BusTypes
<1>4. /\ thrown \subseteq thrown' /\ thrown' \subseteq thrown \cup {v}
      /\ \A y \in Parts : /\ ToSet(sent[y]) \subseteq ToSet(sent'[y])
                          /\ ToSet(sent'[y]) \subseteq ToSet(sent[y]) \cup (IF y = x THEN {v} ELSE {})
                          /\ IsInjective(sent'[y])
      /\ ToSet(outbox') \subseteq ToSet(outbox) \cup {[part |-> x, val |-> v]} /\ IsInjective(outbox')
      /\ v \in ToSet(sent'[x]) => [part |-> x, val |-> v] \notin ToSet(outbox')
  <2>0. \A y \in Parts : IsInjective(sent[y])
    BY DEF S1, Once
  <2>1. CASE x \notin sendThread
    <3>1. Transmit(x, v) /\ UNCHANGED outbox /\ UNCHANGED thrown
      BY <1>1, <2>1 DEF SendBy
    <3>2. \A y \in Parts :
           /\ ToSet(sent'[y]) = IF y = x /\ x \notin closed THEN ToSet(sent[y]) \cup {v} ELSE ToSet(sent[y])
           /\ IsInjective(sent[y]) /\ (y = x => v \notin ToSet(sent[y])) => IsInjective(sent'[y])
      BY <1>0, <1>3, <3>1, Transmitted
    <3> QED
      BY <1>0, <1>2, <2>0, <3>1, <3>2 DEF S1, OutOnce
  <2>2. CASE x \in sendThread /\ sender = "runs"
    <3>1. outbox' = Append(outbox, [part |-> x, val |-> v]) /\ UNCHANGED sent /\ UNCHANGED thrown
      BY <1>1, <2>2 DEF SendBy
    <3>2. ToSet(outbox') = ToSet(outbox) \cup {[part |-> x, val |-> v]} /\ IsInjective(outbox')
      BY <1>0, <1>2, <1>3, <3>1, Queued DEF S1, OutOnce
    <3> QED
      BY <1>2, <2>0, <3>1, <3>2
  <2>3. CASE x \in sendThread /\ sender = "exits"
    <3>1. UNCHANGED outbox /\ UNCHANGED sent /\ UNCHANGED thrown
      BY <2>3 DEF SendBy, outgoing
    <3> QED
      BY <1>2, <2>0, <3>1 DEF S1, OutOnce
  <2>4. CASE x \in sendThread /\ sender = "gone"
    <3>1. UNCHANGED outbox /\ UNCHANGED sent /\ thrown' = thrown \cup {v}
      BY <1>1, <2>4 DEF SendBy
    <3> QED
      BY <1>2, <2>0, <3>1 DEF S1, OutOnce
  <2> QED
    BY <1>3, <2>1, <2>2, <2>3, <2>4 DEF MemberTypes
<1>5. \A q \in Threads : run[q] \in PubCalls /\ run[q].val = v => q = p
  BY <1>1 DEF S1, Unshared
<1>6. run'[p] \in PubCalls => run'[p].val = v /\ v \notin thrown' /\ run'[p].to = run[p].to \ {x} /\ run'[p].stage = "send"
                              /\ run'[p].topic = run[p].topic
  BY <1>1, IdleFacts DEF Same
<1>7. Unshared'
  <2>1. ASSUME NEW q \in Threads, NEW r \in Threads, run'[q] \in PubCalls, run'[r] \in PubCalls, run'[q].val = run'[r].val
        PROVE  q = r
    <3>1. q # p /\ r # p => q = r
      BY <2>1 DEF S1, Unshared
    <3>2. q = p /\ r # p => FALSE
      BY <1>5, <1>6, <2>1
    <3>3. q # p /\ r = p => FALSE
      BY <1>5, <1>6, <2>1
    <3> QED
      BY <3>1, <3>2, <3>3
  <2>2. ASSUME NEW q \in Threads, run'[q] \in PubCalls PROVE run'[q].val <= pubs /\ run'[q].val \notin thrown'
    <3>1. CASE q = p
      BY <1>2, <1>6, <2>2, <3>1
    <3>2. CASE q # p
      BY <1>4, <1>5, <2>2, <3>2 DEF S1, Unshared
    <3> QED
      BY <3>1, <3>2
  <2>3. ASSUME NEW q \in Threads, run'[q].stage = "send" PROVE \A y \in run'[q].to : run'[q].topic \in remoteTopics[y]
    <3>1. CASE q = p
      <4>1. run'[p] \in PubCalls
        BY <2>3, <3>1, IdleFacts
      <4> QED
        BY <1>6, <3>1, <4>1 DEF S1, Unshared, At
    <3>2. CASE q # p
      BY <2>3, <3>2 DEF S1, Unshared, At
    <3> QED
      BY <3>1, <3>2
  <2>4. ASSUME NEW w \in Vals, w > pubs PROVE remote[w] = {} /\ w \notin thrown'
    <3>1. w # v
      <4>1. pubs \in Int
        BY <1>3 DEF WayTypes
      <4> QED
        BY <1>2, <2>4, <4>1 DEF Vals
    <3> QED
      BY <1>4, <2>4, <3>1 DEF S1, Unshared
  <2> QED
    BY <2>1, <2>2, <2>3, <2>4 DEF Unshared, At
<1>8. OutOnce'
  BY <1>2, <1>4 DEF S1, OutOnce
<1>9. ASSUME NEW y \in Parts PROVE Once(y)'
  <2>1. Once(y)
    BY DEF S1
  <2>2. ASSUME NEW w \in ToSet(sent'[y])
        PROVE  w <= pubs /\ [part |-> y, val |-> w] \notin ToSet(outbox')
    <3>1. CASE y = x /\ w = v
      BY <1>2, <1>4, <2>2, <3>1
    <3>2. CASE ~(y = x /\ w = v)
      <4>1. w \in ToSet(sent[y])
        BY <1>4, <2>2, <3>2
      <4>2. [part |-> y, val |-> w] # [part |-> x, val |-> v]
        BY <3>2
      <4> QED
        BY <1>4, <2>1, <4>1, <4>2 DEF Once
    <3> QED
      BY <3>1, <3>2
  <2>3. ASSUME NEW q \in Threads, run'[q] \in PubCalls, Ahead(run'[q], y)
        PROVE  run'[q].val \notin ToSet(sent'[y]) /\ [part |-> y, val |-> run'[q].val] \notin ToSet(outbox')
    <3>1. CASE q = p
      <4>1. y # x /\ y \in run[p].to /\ run'[p].val = v
        BY <1>6, <2>3, <3>1 DEF Ahead, Early
      <4>2. v \notin ToSet(sent[y]) /\ [part |-> y, val |-> v] \notin ToSet(outbox)
        BY <1>1, <2>1, <4>1 DEF Once, Ahead
      <4>3. [part |-> y, val |-> v] # [part |-> x, val |-> v]
        BY <4>1
      <4> QED
        BY <1>4, <3>1, <4>1, <4>2, <4>3
    <3>2. CASE q # p
      <4>1. run'[q] = run[q] /\ run[q].val # v
        BY <1>5, <2>3, <3>2
      <4>2. run[q].val \notin ToSet(sent[y]) /\ [part |-> y, val |-> run[q].val] \notin ToSet(outbox)
        BY <2>1, <2>3, <4>1 DEF Once
      <4>3. [part |-> y, val |-> run[q].val] # [part |-> x, val |-> v]
        BY <4>1
      <4> QED
        BY <1>4, <4>1, <4>2, <4>3
    <3> QED
      BY <3>1, <3>2
  <2> QED
    BY <1>4, <2>2, <2>3 DEF Once
<1> QED
  BY <1>7, <1>8, <1>9 DEF S1

LEMMA OncePublish ==
  ASSUME BusTypes, S1, NEW p \in Threads, InternalPublish(p), RunTypes'
  PROVE  S1'
<1>1. /\ run[p] \in PubCalls /\ \A q \in Threads : q # p => run'[q] = run[q]
      /\ run'[p] = Idle \/ (run'[p] \in PubCalls /\ Same(run'[p], run[p]))
  BY PublishMoves
<1>2. UNCHANGED remoteTopics /\ UNCHANGED pubs /\ UNCHANGED remote
  BY DEF InternalPublish, members, bounds
<1>3. ASSUME UNCHANGED outgoing,
             run'[p] \in PubCalls =>
               /\ \A x : Ahead(run'[p], x) => Ahead(run[p], x)
               /\ run'[p].stage = "send" => \A x \in run'[p].to : run'[p].topic \in remoteTopics[x]
      PROVE  S1'
  <2>1. ASSUME NEW q \in Threads PROVE GoesOn(run'[q], run[q])
    <3>1. CASE q = p
      BY <1>1, <1>3, <3>1, IdleFacts DEF GoesOn
    <3>2. CASE q # p
      <4>1. GoesOn(run[q], run[q])
        BY GoesOnSame
      <4> QED
        BY <1>1, <3>2, <4>1
    <3> QED
      BY <3>1, <3>2
  <2> QED
    BY <1>2, <1>3, <2>1, OnceStays
<1>4. ASSUME EmitLocal(p) PROVE S1'
  <2>1. UNCHANGED outgoing
    BY <1>4 DEF EmitLocal
  <2>2. run[p].stage = "local" /\ run'[p].stage # "send"
    BY <1>4, PublishMoves
  <2> QED
    BY <1>3, <2>1, <2>2 DEF Ahead, Early
<1>5. ASSUME CallSubscriber(p) PROVE S1'
  <2>1. UNCHANGED outgoing
    BY <1>5 DEF CallSubscriber
  <2>2. run[p].stage = "call" /\ run'[p].stage # "send"
    BY <1>5, PublishMoves
  <2> QED
    BY <1>3, <2>1, <2>2 DEF Ahead, Early
<1>6. ASSUME FindInterest(p) PROVE S1'
  <2>1. UNCHANGED outgoing
    BY <1>6 DEF FindInterest, outgoing
  <2>2. run[p].stage = "interest" /\ (run'[p].stage = "send" => run'[p].to = Interested(run[p]))
    BY <1>6, PublishMoves
  <2>3. run'[p] \in PubCalls => run'[p].topic = run[p].topic
    BY <1>1, IdleFacts DEF Same
  <2>4. \A x \in Interested(run[p]) : run[p].topic \in remoteTopics[x]
    BY DEF Interested
  <2> QED
    BY <1>3, <2>1, <2>2, <2>3, <2>4 DEF Ahead, Early
<1>7. ASSUME SendRemote(p) PROVE S1'
  <2>1. run[p].stage = "send"
    BY <1>7, PublishMoves
  <2>2. CASE run[p].to = {}
    <3>1. UNCHANGED outgoing /\ run'[p].stage = "end"
      BY <1>7, <2>2, PublishMoves
    <3> QED
      BY <1>3, <3>1 DEF Ahead, Early
  <2>3. CASE run[p].to # {}
    <3>1. PICK x \in run[p].to :
            /\ SendBy(p, x)
            /\ IF run[p].val \in thrown' THEN run'[p] = Idle
               ELSE run'[p] \in PubCalls /\ run'[p].stage = "send" /\ run'[p].to = run[p].to \ {x}
      BY <1>7, <2>3, PublishMoves
    <3>2. IF run[p].val \in thrown' THEN run'[p] = Idle
          ELSE run'[p] \in PubCalls /\ run'[p].stage = "send" /\ run'[p].to = run[p].to \ {x} /\ Same(run'[p], run[p])
      BY <1>1, <3>1, IdleFacts
    <3> QED
      BY <1>1, <1>2, <2>1, <3>1, <3>2, OnceSendBy
  <2> QED
    BY <2>2, <2>3
<1>8. ASSUME PublishReturns(p) PROVE S1'
  <2>1. UNCHANGED outgoing
    BY <1>8 DEF PublishReturns
  <2>2. run'[p] = Idle
    BY <1>8, PublishMoves
  <2> QED
    BY <1>3, <2>1, <2>2, IdleFacts
<1> QED
  BY <1>4, <1>5, <1>6, <1>7, <1>8 DEF InternalPublish

(* The send thread takes a publication out of its queue.                   *)
LEMMA OnceAsync ==
  ASSUME BusTypes, S1, AsyncSend
  PROVE  S1'
<1>1. WayTypes /\ UNCHANGED run /\ UNCHANGED remoteTopics /\ UNCHANGED thrown /\ UNCHANGED pubs /\ UNCHANGED remote
  BY DEF BusTypes, AsyncSend, members, bounds
<1>2. PICK b \in Packets :
           /\ b \in ToSet(outbox) /\ ToSet(outbox) = ToSet(outbox') \cup {b} /\ Transmit(b.part, b.val)
           /\ b.part \in Parts /\ b.val \in Vals /\ b = [part |-> b.part, val |-> b.val]
           /\ IsInjective(outbox) => IsInjective(outbox') /\ b \notin ToSet(outbox')
  BY <1>1, Unqueued
<1>3. PICK x \in Parts : x = b.part
  BY <1>2
<1>4. PICK v \in Vals : v = b.val
  BY <1>2
<1>5. b = [part |-> x, val |-> v] /\ Transmit(x, v) /\ v <= pubs
  BY <1>2, <1>3, <1>4 DEF S1, OutOnce
<1>6. \A y \in Parts :
           /\ ToSet(sent'[y]) = IF y = x /\ x \notin closed THEN ToSet(sent[y]) \cup {v} ELSE ToSet(sent[y])
           /\ IsInjective(sent[y]) /\ (y = x => v \notin ToSet(sent[y])) => IsInjective(sent'[y])
  BY <1>1, <1>5, Transmitted
<1>7. v \notin ToSet(sent[x])
  BY <1>2, <1>5 DEF S1, Once
<1>8. Unshared'
  BY <1>1 DEF S1, Unshared, At
<1>9. OutOnce' /\ b \notin ToSet(outbox')
  BY <1>1, <1>2 DEF S1, OutOnce
<1>10. ASSUME NEW y \in Parts PROVE Once(y)'
  <2>1. Once(y)
    BY DEF S1
  <2>2. IsInjective(sent'[y])
    BY <1>6, <1>7, <2>1 DEF Once
  <2>3. ASSUME NEW w \in ToSet(sent'[y]) PROVE w <= pubs /\ [part |-> y, val |-> w] \notin ToSet(outbox')
    BY <1>2, <1>5, <1>6, <1>9, <2>1, <2>3 DEF Once
  <2>4. ASSUME NEW p \in Threads, run[p] \in PubCalls, Ahead(run[p], y)
        PROVE  run[p].val \notin ToSet(sent'[y]) /\ [part |-> y, val |-> run[p].val] \notin ToSet(outbox')
    <3>1. run[p].val \notin ToSet(sent[y]) /\ [part |-> y, val |-> run[p].val] \notin ToSet(outbox)
      BY <2>1, <2>4 DEF Once
    <3> QED
      BY <1>2, <1>5, <1>6, <3>1
  <2> QED
    BY <1>1, <2>2, <2>3, <2>4 DEF Once
<1> QED
  BY <1>8, <1>9, <1>10 DEF S1

(* Nobody publishes in the step, and participants keep their topics.       *)
LEMMA OnceAside ==
  ASSUME BusTypes, S1, UNCHANGED outgoing, UNCHANGED pubs, UNCHANGED remote,
         \A x \in Parts : remoteTopics[x] \subseteq remoteTopics'[x],
         \A q \in Threads : run'[q] = run[q] \/ run'[q] \notin PubCalls,
         RunTypes'
  PROVE  S1'
<1>1. ASSUME NEW q \in Threads PROVE GoesOn(run'[q], run[q])
  <2>1. CASE run'[q] = run[q]
    <3>1. GoesOn(run[q], run[q])
      BY GoesOnSame
    <3> QED
      BY <2>1, <3>1
  <2>2. CASE run'[q] \notin PubCalls
    BY <2>2 DEF GoesOn
  <2> QED
    BY <2>1, <2>2
<1> QED
  BY <1>1, OnceStays

LEMMA TopicsGrow ==
  ASSUME TInv, usesNode, NEW p \in Callers, NodeCall(p)
  PROVE  /\ \A x \in Parts : remoteTopics[x] \subseteq remoteTopics'[x]
         /\ UNCHANGED outgoing /\ UNCHANGED pubs /\ UNCHANGED remote
<1>0. p \in Threads /\ BInv /\ Shape(run[p])
  BY DataBusConstants DEF TInv, Shapes
<1>1. UNCHANGED outgoing /\ UNCHANGED pubs /\ UNCHANGED remote
  BY DEF NodeCall, Start, AddPeer, AddPeerJoins, AddPeerApplies, SendSpreads, Stop, StopExits, StopJoins, StopRemoves,
         StopDetaches, Receive, Send, NodeCalls, bounds
<1>2. ASSUME AddPeerApplies(p) PROVE \A x \in Parts : remoteTopics[x] \subseteq remoteTopics'[x]
  <2>1. run[p].stage = "applies" /\ run[p].at > 0
    BY <1>0, <1>2 DEF AddPeerApplies, At, Shape
  <2>2. run[p] \in ApplyCalls
    BY <1>0, <1>2, <2>1, AddPeerAppliesTypes
  <2>3. run[p].peer \in Peers /\ run[p].at \in Nat
    BY <2>2 DEF ApplyCalls
  <2>4. CASE run[p].at <= Len(m_outTopics)
    <3>1. m_outTopics[run[p].at] \in Topics \X Tiers
      BY <1>0, <2>1, <2>3, <2>4 DEF BInv, NodeTypes
    <3>2. Route(run[p].peer, m_outTopics[run[p].at]) /\ UNCHANGED <<parts, errConn, sendThread, sender, closed>>
      BY <1>2, <2>4 DEF AddPeerApplies, wiring
    <3> QED
      BY <1>0, <2>3, <3>1, <3>2, RouteTypes DEF BInv, BusTypes
  <2> QED
    BY <1>2, <2>4 DEF AddPeerApplies
<1>3. ASSUME SendSpreads(p) PROVE \A x \in Parts : remoteTopics[x] \subseteq remoteTopics'[x]
  <2>1. run[p].stage = "spreads" /\ run[p].at > 0
    BY <1>0, <1>3 DEF SendSpreads, At, Shape
  <2>2. run[p] \in SpreadCalls
    BY <1>0, <1>3, <2>1, SendSpreadsTypes
  <2>3. run[p].topic \in Topics \X Tiers /\ run[p].at \in Nat
    BY <2>2 DEF SpreadCalls
  <2>4. CASE run[p].at <= Len(m_peers)
    <3>1. PICK peer \in Peers : peer = m_peers[run[p].at]
      BY <1>0, <2>1, <2>3, <2>4 DEF BInv, NodeTypes
    <3>2. Route(peer, run[p].topic) /\ UNCHANGED <<parts, errConn, sendThread, sender, closed>>
      BY <1>3, <2>4, <3>1 DEF SendSpreads, wiring
    <3> QED
      BY <1>0, <2>3, <3>2, RouteTypes DEF BInv, BusTypes
  <2> QED
    BY <1>3, <2>4 DEF SendSpreads
<1>4. ASSUME NodeCall(p), ~AddPeerApplies(p), ~SendSpreads(p) PROVE UNCHANGED remoteTopics
  BY <1>4 DEF NodeCall, Start, AddPeer, AddPeerJoins, Stop, StopExits, StopJoins, StopRemoves, StopDetaches, Receive, Send,
              members
<1> QED
  BY <1>1, <1>2, <1>3, <1>4

LEMMA OnceNext ==
  ASSUME TInv, S1, AllNext
  PROVE  S1'
<1>1. BInv /\ BusTypes /\ BInv' /\ RunTypes' /\ TInv'
  BY TypesNext DEF TInv, BInv, BusTypes
<1>2. ASSUME UNCHANGED outgoing, UNCHANGED pubs, UNCHANGED remote, UNCHANGED remoteTopics, UNCHANGED run PROVE S1'
  BY <1>1, <1>2, OnceAside
<1>3. ASSUME NEW p \in Threads, \A q \in Threads : q # p => run'[q] = run[q], run'[p] \notin PubCalls,
             UNCHANGED outgoing, UNCHANGED pubs, UNCHANGED remote,
             \A x \in Parts : remoteTopics[x] \subseteq remoteTopics'[x]
      PROVE  S1'
  BY <1>1, <1>3, OnceAside
<1>4. Callers \subseteq Threads
  BY DataBusConstants
<1>5. ASSUME NEW p \in Callers, NEW s \in Subs, SubscribeLock(p, s) \/ Disconnect(p, s) PROVE S1'
  <2>1. PICK c : c = [stage |-> "connect", sub |-> s, vals |-> {}]
    OBVIOUS
  <2>2. UNCHANGED run \/ Goto(p, c)
    BY <1>5, <2>1 DEF SubscribeLock, Disconnect, Then
  <2>3. c \notin PubCalls
    BY <2>1 DEF PubCalls, Publishing, Early
  <2>4. UNCHANGED outgoing /\ UNCHANGED pubs /\ UNCHANGED remote /\ UNCHANGED remoteTopics
    BY <1>5 DEF SubscribeLock, Disconnect, Calls, members
  <2>5. Goto(p, c) => run'[p] = c /\ \A q \in Threads : q # p => run'[q] = run[q]
    BY <1>1, <1>4, RunAfter DEF BusTypes
  <2> QED
    BY <1>2, <1>3, <1>4, <2>2, <2>3, <2>4, <2>5
<1>6. ASSUME NEW p \in Callers, InternalSubscribe(p) PROVE S1'
  <2>1. p \in Threads /\ \A q \in Threads : q # p => run'[q] = run[q]
    BY <1>1, <1>6, SubscribeMoves
  <2>2. run'[p] \notin PubCalls
    <3>1. run'[p] \in SubCalls \/ run'[p] = Idle
      BY <1>1, <1>6, SubscribeMoves
    <3>2. run'[p] \in SubCalls => run'[p] \notin PubCalls
      BY DEF SubCalls, PubCalls, Publishing, Early
    <3> QED
      BY <3>1, <3>2, IdleFacts
  <2>3. UNCHANGED outgoing /\ UNCHANGED pubs /\ UNCHANGED remote /\ UNCHANGED remoteTopics
    BY <1>6 DEF InternalSubscribe, bounds, members
  <2> QED
    BY <1>3, <2>1, <2>2, <2>3
<1>7. ASSUME NEW p \in Callers, Registers(p) PROVE S1'
  BY <1>2, <1>7 DEF Registers, InternalRegisterSerializer, InternalLastValueCache, InternalEnableContinuousErrors,
                    Calls, members
<1>8. ASSUME NEW p \in Callers, Joins(p) PROVE S1'
  <2>1. UNCHANGED outgoing /\ UNCHANGED pubs /\ UNCHANGED remote
    BY <1>8 DEF Joins, InternalAddParticipant, AddParticipant, InternalRemoveParticipant, AddRemoteTopic, Calls, bounds
  <2>2. \A x \in Parts : remoteTopics[x] \subseteq remoteTopics'[x]
    BY <1>1, <1>8 DEF Joins, InternalAddParticipant, AddParticipant, InternalRemoveParticipant, AddRemoteTopic, members,
                      BusTypes, MemberTypes
  <2>3. UNCHANGED run \/ \E c : Goto(p, c) /\ c \notin PubCalls
    <3>1. ASSUME NEW x, AddParticipant(p, x) PROVE \E c : Goto(p, c) /\ c \notin PubCalls
      <4>1. PICK c : c = [stage |-> "add", part |-> x]
        OBVIOUS
      <4>2. Goto(p, c) /\ c \notin PubCalls
        BY <3>1, <4>1 DEF AddParticipant, PubCalls, Publishing, Early
      <4> QED
        BY <4>2
    <3>2. ASSUME InternalAddParticipant(p) PROVE Goto(p, Idle) /\ Idle \notin PubCalls
      BY <3>2, IdleFacts DEF InternalAddParticipant
    <3> QED
      BY <1>8, <3>1, <3>2 DEF Joins, InternalRemoveParticipant, AddRemoteTopic
  <2>4. ASSUME NEW c, Goto(p, c) PROVE run'[p] = c /\ \A q \in Threads : q # p => run'[q] = run[q]
    BY <1>1, <1>4, <2>4, RunAfter DEF BusTypes
  <2>5. UNCHANGED run => S1'
    BY <1>1, <2>1, <2>2, OnceAside
  <2> QED
    BY <1>3, <1>4, <2>1, <2>2, <2>3, <2>4, <2>5
<1>9. ASSUME WorkerServes \/ \E x \in Joining, t \in Topics : OnChannelError(x, t) PROVE S1'
  BY <1>2, <1>9 DEF WorkerServes, OnChannelError, bounds, members
<1>10. ASSUME TimerTick \/ ReceiverThread PROVE S1'
  BY <1>2, <1>10 DEF TimerTick, ReceiverThread, vars, bounds, members
<1>11. ASSUME usesNode, NEW p \in Callers, NodeCall(p) PROVE S1'
  <2>1. Alone(p)
    BY <1>11, NodeCallAlone
  <2>2. run'[p] \notin PubCalls
    <3>1. run'[p].stage \notin Publishing
      BY <2>1 DEF Alone, Moved, Within, Publishing, Early
    <3> QED
      BY <3>1 DEF PubCalls
  <2> QED
    BY <1>3, <1>4, <1>11, <2>1, <2>2, TopicsGrow DEF Alone
<1>12. ASSUME BusStep PROVE S1'
  BY <1>1, <1>5, <1>6, <1>7, <1>8, <1>9, <1>12, OnceLock, OncePublish, OnceAsync DEF BusStep
<1> QED
  BY <1>1, <1>10, <1>11, <1>12, AllSteps

-----------------------------------------------------------------------------
(* What was to be sent is sent, or is on its way.                          *)
S2 == ~ended => \A v \in Vals : \A x \in remote[v] : OnWay(v, x)

(* Publications, peers and queue go on as they were.                       *)
LEMMA WayGoesOn ==
  ASSUME BusTypes, S2, ~ended, UNCHANGED outgoing, UNCHANGED remote, closed \subseteq closed',
         \A x \in Parts : remoteTopics[x] \subseteq remoteTopics'[x],
         \A q \in Threads : run'[q] = run[q] \/ run[q] \notin PubCalls,
         \A q \in Threads : \A x \in Parts : Leaves(run[q], x) => x \in closed' \/ Leaves(run[q], x)'
  PROVE  S2'
<1> SUFFICES ASSUME NEW v \in Vals, NEW x \in remote[v] PROVE OnWay(v, x)'
  BY DEF S2
<1>1. OnWay(v, x) /\ x \in Parts
  BY DEF S2, BusTypes, WayTypes
<1>2. ASSUME NEW q \in Threads, Bound(run[q], x, v) PROVE OnWay(v, x)'
  <2>1. run'[q] = run[q]
    BY <1>2 DEF Bound
  <2>3. Bound(run[q], x, v)'
    BY <1>1, <1>2, <2>1 DEF Bound
  <2> QED
    BY <2>3 DEF OnWay
<1>3. ASSUME NEW q \in Threads, Leaves(run[q], x) PROVE OnWay(v, x)'
  BY <1>1, <1>3 DEF OnWay
<1> QED
  BY <1>1, <1>2, <1>3 DEF OnWay, outgoing

(* What becomes of a publication that is given to a participant.           *)
LEMMA GivenAway ==
  ASSUME BusTypes, NEW p \in Threads, NEW v \in Vals, run[p].val = v, NEW x \in Parts, SendBy(p, x)
  PROVE  /\ thrown \subseteq thrown' /\ ToSet(outbox) \subseteq ToSet(outbox')
         /\ \A y \in Parts : ToSet(sent[y]) \subseteq ToSet(sent'[y])
         /\ \/ v \in thrown' \/ x \in closed \/ v \in ToSet(sent'[x]) \/ [part |-> x, val |-> v] \in ToSet(outbox')
            \/ sender = "exits"
<1>0. WayTypes
  BY DEF BusTypes
<1>1. CASE x \notin sendThread
  <2>1. Transmit(x, v) /\ UNCHANGED outbox /\ UNCHANGED thrown
    BY <1>1 DEF SendBy
  <2>2. \A y \in Parts :
           /\ ToSet(sent'[y]) = IF y = x /\ x \notin closed THEN ToSet(sent[y]) \cup {v} ELSE ToSet(sent[y])
           /\ IsInjective(sent[y]) /\ (y = x => v \notin ToSet(sent[y])) => IsInjective(sent'[y])
    BY <1>0, <2>1, Transmitted
  <2> QED
    BY <2>1, <2>2
<1>2. CASE x \in sendThread /\ sender = "runs"
  <2>1. outbox' = Append(outbox, [part |-> x, val |-> v]) /\ UNCHANGED sent /\ UNCHANGED thrown
    BY <1>2 DEF SendBy
  <2>2. ToSet(outbox') = ToSet(outbox) \cup {[part |-> x, val |-> v]}
    BY <1>0, <2>1, Queued
  <2> QED
    BY <2>1, <2>2
<1>3. CASE x \in sendThread /\ sender = "exits"
  BY <1>3 DEF SendBy, outgoing
<1>4. CASE x \in sendThread /\ sender = "gone"
  BY <1>4 DEF SendBy
<1> QED
  BY <1>1, <1>2, <1>3, <1>4 DEF BusTypes, MemberTypes

LEMMA WayLock ==
  ASSUME BusTypes, S2, ~ended, UNCHANGED nodeVars,
         NEW p \in Threads, NEW t \in Topics, NEW type \in Types, NEW local \in BOOLEAN, PublishLock(p, t, type, local)
  PROVE  S2'
<1>1. /\ run[p] = Idle /\ \A q \in Threads : q # p => run'[q] = run[q]
      /\ Fits(t, type) => run'[p] = LockCall(t, pubs', local) /\ run'[p] \in PubCalls
      /\ ~Fits(t, type) => run'[p] = run[p]
  BY LockMoves
<1>2. UNCHANGED outgoing /\ UNCHANGED closed /\ UNCHANGED remoteTopics /\ UNCHANGED m_peers /\ UNCHANGED parts
  BY DEF PublishLock, members, wiring, nodeVars
<1>3. \A x : ~Leaves(run[p], x) /\ run[p] \notin PubCalls
  BY <1>1, IdleFacts DEF Leaves
<1>4. \A q \in Threads : \A x \in Parts : Leaves(run[q], x) => Leaves(run[q], x)'
  BY <1>1, <1>2, <1>3 DEF Leaves, OfPeer
<1>5. CASE ~Fits(t, type)
  <2>1. UNCHANGED remote
    BY <1>5, LockFacts
  <2> QED
    BY <1>1, <1>2, <1>3, <1>4, <2>1, WayGoesOn
<1>6. CASE Fits(t, type)
  <2>1. /\ pubs' \in Vals /\ run'[p] = LockCall(t, pubs', local) /\ run'[p] \in PubCalls
        /\ remote' = [remote EXCEPT ![pubs'] = IF local \/ t \notin serializers THEN {}
                                               ELSE {x \in ToSet(parts) : t \in remoteTopics[x]}]
    BY <1>1, <1>6, LockFacts
  <2>2. ASSUME NEW v \in Vals, NEW x \in remote'[v] PROVE OnWay(v, x)'
    <3>1. CASE v = pubs'
      <4>1. x \in ToSet(parts) /\ t \in remoteTopics[x] /\ ~local /\ t \in serializers
        BY <2>1, <2>2, <3>1 DEF BusTypes, WayTypes
      <4>3. Bound(run[p], x, v)'
        <5>1. run'[p].stage \in Early /\ run'[p].topic = t /\ run'[p].val = v /\ run'[p].parts = parts
              /\ ~run'[p].local /\ run'[p].serializer
          BY <2>1, <3>1, <4>1, LockCallFacts DEF Early
        <5> QED
          BY <1>2, <2>1, <4>1, <5>1 DEF Bound
      <4> QED
        BY <4>3 DEF OnWay
    <3>2. CASE v # pubs'
      <4>1. x \in remote[v] /\ x \in Parts /\ OnWay(v, x)
        BY <2>1, <2>2, <3>2 DEF BusTypes, WayTypes, S2
      <4>2. ASSUME NEW q \in Threads, Bound(run[q], x, v) PROVE Bound(run[q], x, v)'
        <5>1. run'[q] = run[q]
          BY <1>1, <1>3, <4>2 DEF Bound
        <5> QED
          BY <1>2, <4>2, <5>1 DEF Bound
      <4> QED
        BY <1>2, <1>4, <4>1, <4>2 DEF OnWay, outgoing
    <3> QED
      BY <3>1, <3>2
  <2> QED
    BY <2>2 DEF S2
<1> QED
  BY <1>5, <1>6

(* Only p goes on with a publication; what was sent or queued, stays so.   *)
LEMMA WayPublishes ==
  ASSUME BusTypes, S2, ~ended, UNCHANGED nodeVars, UNCHANGED remote, UNCHANGED closed, UNCHANGED remoteTopics,
         NEW p \in Threads, run[p] \in PubCalls, \A q \in Threads : q # p => run'[q] = run[q],
         thrown \subseteq thrown', ToSet(outbox) \subseteq ToSet(outbox'),
         \A y \in Parts : ToSet(sent[y]) \subseteq ToSet(sent'[y]),
         \A v \in Vals : \A x \in Parts : Bound(run[p], x, v) => OnWay(v, x)'
  PROVE  S2'
<1> SUFFICES ASSUME NEW v \in Vals, NEW x \in remote[v] PROVE OnWay(v, x)'
  BY DEF S2
<1>1. OnWay(v, x) /\ x \in Parts
  BY DEF S2, BusTypes, WayTypes
<1>2. ASSUME NEW q \in Threads, Bound(run[q], x, v) PROVE OnWay(v, x)'
  <2>1. CASE q = p
    BY <1>1, <1>2, <2>1
  <2>2. CASE q # p
    <3>1. Bound(run[q], x, v)'
      BY <1>2, <2>2 DEF Bound
    <3> QED
      BY <3>1 DEF OnWay
  <2> QED
    BY <2>1, <2>2
<1>3. ASSUME NEW q \in Threads, Leaves(run[q], x) PROVE OnWay(v, x)'
  <2>1. q # p
    BY <1>3 DEF Leaves, PubCalls, Publishing, Early
  <2>2. Leaves(run[q], x)'
    BY <1>3, <2>1 DEF Leaves, OfPeer, nodeVars
  <2> QED
    BY <2>2 DEF OnWay
<1> QED
  BY <1>1, <1>2, <1>3 DEF OnWay

LEMMA WayPublish ==
  ASSUME TInv, PInv, S1, S2, ~ended, UNCHANGED nodeVars, NEW p \in Threads, InternalPublish(p)
  PROVE  S2'
<1>0. BusTypes /\ WithinOne
  BY DEF TInv, BInv
<1>1. /\ run[p] \in PubCalls /\ \A q \in Threads : q # p => run'[q] = run[q]
      /\ run'[p] = Idle \/ (run'[p] \in PubCalls /\ Same(run'[p], run[p]))
  BY <1>0, PublishMoves
<1>2. UNCHANGED remoteTopics /\ UNCHANGED closed /\ UNCHANGED remote
  BY DEF InternalPublish, members, wiring, bounds
<1>3. ASSUME UNCHANGED outgoing, \A v \in Vals : \A x \in Parts : Bound(run[p], x, v) => Bound(run[p], x, v)' PROVE S2'
  <2>1. UNCHANGED outbox /\ UNCHANGED sent /\ UNCHANGED thrown
    BY <1>3 DEF outgoing
  <2>2. \A v \in Vals : \A x \in Parts : Bound(run[p], x, v) => OnWay(v, x)'
    BY <1>3 DEF OnWay
  <2> QED
    BY <1>0, <1>1, <1>2, <2>1, <2>2, WayPublishes
<1>4. ASSUME run[p].stage \in Early, run'[p].stage \in Early, run'[p] \in PubCalls, UNCHANGED outgoing PROVE S2'
  <2>1. Same(run'[p], run[p])
    BY <1>1, <1>4, IdleFacts
  <2>2. ASSUME NEW v \in Vals, NEW x \in Parts, Bound(run[p], x, v) PROVE Bound(run[p], x, v)'
    BY <1>2, <1>4, <2>1, <2>2 DEF Bound, Same, Early
  <2> QED
    BY <1>3, <1>4, <2>2
<1>5. ASSUME EmitLocal(p) PROVE S2'
  <2>1. UNCHANGED outgoing
    BY <1>5 DEF EmitLocal
  <2>2. run[p].stage = "local" /\ run'[p] \in PubCalls /\ run'[p].stage \in {"call", "interest"}
    BY <1>0, <1>5, PublishMoves
  <2> QED
    BY <1>4, <2>1, <2>2 DEF Early
<1>6. ASSUME CallSubscriber(p) PROVE S2'
  <2>1. UNCHANGED outgoing
    BY <1>6 DEF CallSubscriber
  <2>2. run[p].stage = "call" /\ run'[p] \in PubCalls /\ run'[p].stage \in {"call", "interest"}
    BY <1>0, <1>6, PublishMoves
  <2> QED
    BY <1>4, <2>1, <2>2 DEF Early
<1>7. ASSUME FindInterest(p) PROVE S2'
  <2>1. UNCHANGED outgoing
    BY <1>7 DEF FindInterest, outgoing
  <2>2. /\ run[p].stage = "interest" /\ run'[p] \in PubCalls
        /\ run'[p].stage = "send" => run'[p].to = Interested(run[p])
        /\ run[p].serializer /\ Interested(run[p]) # {} => run'[p].stage = "send"
    BY <1>0, <1>7, PublishMoves
  <2>3. ASSUME NEW v \in Vals, NEW x \in Parts, Bound(run[p], x, v) PROVE Bound(run[p], x, v)'
    <3>1. x \in Interested(run[p]) /\ run[p].serializer /\ run[p].val = v
      BY <2>2, <2>3 DEF Bound, Interested
    <3>2. run'[p].stage = "send" /\ x \in run'[p].to /\ run'[p].val = v
      BY <1>1, <2>2, <3>1, IdleFacts DEF Same
    <3> QED
      BY <2>2, <3>2 DEF Bound
  <2> QED
    BY <1>3, <2>1, <2>3
<1>8. ASSUME SendRemote(p) PROVE S2'
  <2>1. run[p].stage = "send"
    BY <1>0, <1>8, PublishMoves
  <2>2. CASE run[p].to = {}
    <3>1. UNCHANGED outgoing
      BY <1>0, <1>8, <2>2, PublishMoves
    <3>2. \A v \in Vals : \A x \in Parts : ~Bound(run[p], x, v)
      BY <2>1, <2>2 DEF Bound, Early
    <3> QED
      BY <1>3, <3>1, <3>2
  <2>3. CASE run[p].to # {}
    <3>1. PICK y \in run[p].to :
            /\ SendBy(p, y)
            /\ IF run[p].val \in thrown' THEN run'[p] = Idle
               ELSE run'[p] \in PubCalls /\ run'[p].stage = "send" /\ run'[p].to = run[p].to \ {y}
      BY <1>0, <1>8, <2>3, PublishMoves
    <3>2. y \in Parts /\ run[p].val \in Vals
      BY <1>1 DEF PubCalls
    <3>3. PICK w \in Vals : w = run[p].val
      BY <3>2
    <3>4. /\ thrown \subseteq thrown' /\ ToSet(outbox) \subseteq ToSet(outbox')
          /\ \A z \in Parts : ToSet(sent[z]) \subseteq ToSet(sent'[z])
          /\ \/ w \in thrown' \/ y \in closed \/ w \in ToSet(sent'[y]) \/ [part |-> y, val |-> w] \in ToSet(outbox')
             \/ sender = "exits"
      BY <1>0, <3>1, <3>2, <3>3, GivenAway
    <3>5. ASSUME sender = "exits" PROVE y \in closed \/ \E q \in Threads : Leaves(run[q], y)'
      <4>1. PICK q \in Threads : At(q, "joins thread")
        BY <1>0, <3>5 DEF WithinOne
      <4>2. Inside(q) /\ \A r \in Threads : At(r, "applies") => r = q
        BY <1>0, <4>1 DEF Inside, At, Within, WithinOne
      <4>3. usesNode /\ \A r \in Threads : ~At(r, "applies")
        BY <1>0, <4>1, <4>2 DEF WithinOne, At
      <4>4. remoteTopics[y] # {}
        BY <2>1 DEF S1, Unshared, At
      <4>5. y \in closed \/ OfPeer(y)
        BY <3>2, <4>3, <4>4 DEF PInv, Placed
      <4>6. run'[q] = run[q]
        BY <1>1, <2>1, <4>1 DEF At
      <4>7. OfPeer(y) => Leaves(run[q], y)'
        BY <4>1, <4>6 DEF Leaves, At, OfPeer, nodeVars
      <4> QED
        BY <4>5, <4>7
    <3>6. ASSUME NEW v \in Vals, NEW x \in Parts, Bound(run[p], x, v) PROVE OnWay(v, x)'
      <4>1. x \in run[p].to /\ v = w
        BY <2>1, <3>3, <3>6 DEF Bound, Early
      <4>2. CASE x = y
        BY <1>2, <3>4, <3>5, <4>1, <4>2 DEF OnWay
      <4>3. CASE x # y /\ v \in thrown'
        BY <4>3 DEF OnWay
      <4>4. CASE x # y /\ v \notin thrown'
        <5>1. run'[p] \in PubCalls /\ run'[p].stage = "send" /\ x \in run'[p].to
          BY <3>1, <3>3, <4>1, <4>4
        <5>2. run'[p].val = v
          BY <1>1, <3>3, <4>1, <5>1, IdleFacts DEF Same
        <5>3. Bound(run[p], x, v)'
          BY <5>1, <5>2 DEF Bound
        <5> QED
          BY <5>3 DEF OnWay
      <4> QED
        BY <4>2, <4>3, <4>4
    <3> QED
      BY <1>0, <1>1, <1>2, <3>4, <3>6, WayPublishes
  <2> QED
    BY <2>2, <2>3
<1>9. ASSUME PublishReturns(p) PROVE S2'
  <2>1. UNCHANGED outgoing
    BY <1>9 DEF PublishReturns
  <2>2. run[p].stage = "end"
    BY <1>0, <1>9, PublishMoves
  <2>3. \A v \in Vals : \A x \in Parts : ~Bound(run[p], x, v)
    BY <2>2 DEF Bound, Early
  <2> QED
    BY <1>3, <2>1, <2>3
<1> QED
  BY <1>5, <1>6, <1>7, <1>8, <1>9 DEF InternalPublish

LEMMA WayAsync ==
  ASSUME BusTypes, S2, ~ended, UNCHANGED nodeVars, AsyncSend
  PROVE  S2'
<1>1. WayTypes /\ UNCHANGED run /\ UNCHANGED remoteTopics /\ UNCHANGED closed /\ UNCHANGED thrown /\ UNCHANGED remote
  BY DEF BusTypes, AsyncSend, members, wiring, bounds
<1>2. PICK b \in Packets :
           /\ b \in ToSet(outbox) /\ ToSet(outbox) = ToSet(outbox') \cup {b} /\ Transmit(b.part, b.val)
           /\ b.part \in Parts /\ b.val \in Vals /\ b = [part |-> b.part, val |-> b.val]
           /\ IsInjective(outbox) => IsInjective(outbox') /\ b \notin ToSet(outbox')
  BY <1>1, Unqueued
<1>3. PICK y \in Parts : y = b.part
  BY <1>2
<1>4. PICK w \in Vals : w = b.val
  BY <1>2
<1>5. \A z \in Parts :
           /\ ToSet(sent'[z]) = IF z = y /\ y \notin closed THEN ToSet(sent[z]) \cup {w} ELSE ToSet(sent[z])
           /\ IsInjective(sent[z]) /\ (z = y => w \notin ToSet(sent[z])) => IsInjective(sent'[z])
  BY <1>1, <1>2, <1>3, <1>4, Transmitted
<1> SUFFICES ASSUME NEW v \in Vals, NEW x \in remote[v] PROVE OnWay(v, x)'
  BY <1>1 DEF S2
<1>6. OnWay(v, x) /\ x \in Parts
  BY DEF S2, BusTypes, WayTypes
<1>7. ASSUME [part |-> x, val |-> v] \in ToSet(outbox) PROVE OnWay(v, x)'
  <2>1. CASE [part |-> x, val |-> v] = b
    <3>1. x = y /\ v = w
      BY <1>3, <1>4, <2>1
    <3> QED
      BY <1>1, <1>5, <1>6, <3>1 DEF OnWay
  <2>2. CASE [part |-> x, val |-> v] # b
    <3>1. [part |-> x, val |-> v] \in ToSet(outbox')
      BY <1>2, <1>7, <2>2
    <3> QED
      BY <3>1 DEF OnWay
  <2> QED
    BY <2>1, <2>2
<1>8. ASSUME NEW q \in Threads, Bound(run[q], x, v) PROVE Bound(run[q], x, v)'
  BY <1>1, <1>8 DEF Bound
<1>9. ASSUME NEW q \in Threads, Leaves(run[q], x) PROVE Leaves(run[q], x)'
  BY <1>1, <1>9 DEF Leaves, OfPeer, nodeVars
<1>10. ToSet(sent[x]) \subseteq ToSet(sent'[x])
  BY <1>5, <1>6
<1> QED
  BY <1>1, <1>6, <1>7, <1>8, <1>9, <1>10 DEF OnWay

LEMMA WayNodeCall ==
  ASSUME TInv, S2, ~ended, usesNode, NEW p \in Callers, NodeCall(p)
  PROVE  S2'
<1>0. p \in Threads /\ BInv /\ BusTypes /\ Alone(p) /\ Shape(run[p])
  BY NodeCallAlone, DataBusConstants DEF TInv, BInv, Shapes
<1>1. /\ \A x \in Parts : remoteTopics[x] \subseteq remoteTopics'[x]
      /\ UNCHANGED outgoing /\ UNCHANGED remote
  BY TopicsGrow
<1>2. closed \subseteq closed'
  BY DEF NodeCall, Start, AddPeer, AddPeerJoins, AddPeerApplies, SendSpreads, Stop, StopExits, StopJoins, StopRemoves,
         StopDetaches, Receive, Send, members, wiring
<1>3. \A q \in Threads : run'[q] = run[q] \/ run[q] \notin PubCalls
  <2>1. run[p] \notin PubCalls
    BY <1>0 DEF Alone, Moved, Within, PubCalls, Publishing, Early
  <2> QED
    BY <1>0, <2>1 DEF Alone
<1>4. ASSUME NEW q \in Threads, NEW x \in Parts, Leaves(run[q], x) PROVE x \in closed' \/ Leaves(run[q], x)'
  <2>1. q = p
    BY <1>0, <1>4 DEF Alone, Inside, Within, Leaves
  <2>2. run[p].stage \in {"joins thread", "removes", "detaches"} /\ Leaves(run[p], x)
    BY <1>4, <2>1 DEF Leaves
  <2>3. StopJoins(p) \/ StopRemoves(p) \/ StopDetaches(p)
    BY <2>2 DEF NodeCall, Start, AddPeer, AddPeerJoins, AddPeerApplies, SendSpreads, Stop, StopExits, Receive, Send,
                NodeCalls, At
  <2>4. ASSUME NEW c, Goto(p, c) PROVE run'[p] = c
    BY <1>0, <2>4, RunAfter DEF BusTypes
  <2>5. CASE StopJoins(p)
    <3>1. PICK c : c = [stage |-> "removes", at |-> Len(m_peers), todo |-> <<"rel", "raw">>]
      OBVIOUS
    <3>2. run'[p] = c /\ c.stage = "removes" /\ c.at = Len(m_peers) /\ UNCHANGED m_peers /\ run[p].stage = "joins thread"
      BY <2>4, <2>5, <3>1 DEF StopJoins, nodeVars, At
    <3>3. PICK i \in 1 .. Len(m_peers), a \in Tiers : m_peers[i][a] = x
      BY <2>2, <3>2 DEF Leaves, OfPeer
    <3>4. Len(m_peers) \in Nat
      BY <1>0 DEF BInv, NodeTypes
    <3>5. i \in 1 .. Len(m_peers') /\ i <= run'[p].at /\ m_peers'[i][a] = x
      <4>1. m_peers' = m_peers /\ run'[p].at = Len(m_peers)
        BY <3>2
      <4>2. i <= Len(m_peers)
        BY <3>3, <3>4
      <4> QED
        BY <3>3, <4>1, <4>2
    <3>6. run'[p].stage = "removes"
      BY <3>2
    <3>7. Leaves(run[p], x)'
      BY <3>5, <3>6 DEF Leaves
    <3> QED
      BY <2>1, <3>7
  <2>6. CASE StopRemoves(p)
    <3>1. run[p].stage = "removes" /\ run[p] \in RemoveCalls /\ run[p].at \in Nat
      BY <1>0, <2>6, RemoveFacts DEF StopRemoves, At
    <3>2. PICK i \in 1 .. Len(m_peers), a \in Tiers : i <= run[p].at /\ m_peers[i][a] = x
      BY <2>2, <3>1 DEF Leaves
    <3>3. run[p].at # 0
      BY <3>1, <3>2
    <3>4. PICK c : c = [run[p] EXCEPT !.todo = Tail(@)]
      OBVIOUS
    <3>5. PICK d : d = [stage |-> "detaches", at |-> run[p].at]
      OBVIOUS
    <3>6. (Goto(p, c) \/ Goto(p, d)) /\ UNCHANGED m_peers
      BY <2>6, <3>3, <3>4, <3>5 DEF StopRemoves
    <3>7. c.at = run[p].at /\ d.at = run[p].at /\ c.stage = "removes" /\ d.stage = "detaches"
      BY <3>1, <3>4, <3>5 DEF RemoveCalls
    <3>8. run'[p].at = run[p].at /\ run'[p].stage \in {"removes", "detaches"}
      BY <2>4, <3>6, <3>7
    <3> QED
      BY <2>1, <3>2, <3>6, <3>8 DEF Leaves
  <2>7. CASE StopDetaches(p)
    <3>1. run[p].stage = "detaches" /\ run[p].at \in 1 .. Len(m_peers) /\ UNCHANGED m_peers
      BY <1>0, <2>7 DEF StopDetaches, At, Shape, nodeVars
    <3>2. PICK i \in 1 .. Len(m_peers), a \in Tiers : i <= run[p].at /\ m_peers[i][a] = x
      BY <2>2, <3>1 DEF Leaves
    <3>3. PICK peer : peer = m_peers[run[p].at]
      OBVIOUS
    <3>7. peer \in Peers
      BY <1>0, <3>1, <3>3 DEF BInv, NodeTypes
    <3>8. PICK c : c = [stage |-> "removes", at |-> run[p].at - 1, todo |-> <<"rel", "raw">>]
      OBVIOUS
    <3>9. CASE Detaching(p)
      BY <2>1, <2>2, <3>1, <3>9 DEF Detaching, Leaves
    <3>4. Closes(p, peer, c) => closed' = closed \cup {peer.rel, peer.raw} /\ Goto(p, c)
      BY DEF Closes
    <3>5. CASE i = run[p].at /\ Closes(p, peer, c)
      BY <3>2, <3>3, <3>4, <3>5, <3>7, PeerTypes DEF Tiers
    <3>6. CASE i # run[p].at /\ Closes(p, peer, c)
      <4>2. run'[p] = c /\ c.stage = "removes" /\ c.at = run[p].at - 1
        BY <2>4, <3>4, <3>6, <3>8
      <4>3. i <= run[p].at - 1
        BY <3>1, <3>2, <3>6
      <4> QED
        BY <2>1, <3>1, <3>2, <4>2, <4>3 DEF Leaves
    <3> QED
      BY <2>7, <3>3, <3>5, <3>6, <3>8, <3>9, StopDetachesCases
  <2> QED
    BY <2>3, <2>5, <2>6, <2>7
<1> QED
  BY <1>0, <1>1, <1>2, <1>3, <1>4, WayGoesOn

LEMMA WayNext ==
  ASSUME TInv, PInv, S1, S2, AllNext
  PROVE  S2'
<1>1. BInv /\ BusTypes /\ ~ended
  BY AllSteps DEF TInv, BInv
<1>2. ASSUME UNCHANGED outgoing, UNCHANGED remote, UNCHANGED closed, UNCHANGED m_peers,
             \A x \in Parts : remoteTopics[x] \subseteq remoteTopics'[x],
             OutStays, \A q \in Threads : run'[q] = run[q] \/ run[q] \notin PubCalls
      PROVE  S2'
  <2>1. ASSUME NEW q \in Threads, NEW x \in Parts, Leaves(run[q], x) PROVE Leaves(run[q], x)'
    <3>1. Inside(q)
      BY <2>1 DEF Leaves, Inside, Within
    <3>2. run'[q] = run[q]
      BY <1>2, <3>1 DEF OutStays
    <3> QED
      BY <1>2, <2>1, <3>2 DEF Leaves, OfPeer
  <2> QED
    BY <1>1, <1>2, <2>1, WayGoesOn
<1>3. ASSUME BusStep, UNCHANGED nodeVars PROVE S2'
  <2>0. OutStays /\ UNCHANGED m_peers
    BY <1>1, <1>3, BusStepOut DEF nodeVars
  <2>1. ASSUME UNCHANGED outgoing, UNCHANGED remote, UNCHANGED closed, UNCHANGED remoteTopics, UNCHANGED run PROVE S2'
    BY <1>2, <2>0, <2>1
  <2>2. Callers \subseteq Threads
    BY DataBusConstants
  <2>3. ASSUME NEW p \in Callers, run[p].stage \notin Publishing, \A q \in Threads : q # p => run'[q] = run[q]
        PROVE  \A q \in Threads : run'[q] = run[q] \/ run[q] \notin PubCalls
    BY <2>3 DEF PubCalls
  <2>4. ASSUME NEW p \in Callers, NEW s \in Subs, SubscribeLock(p, s) \/ Disconnect(p, s) PROVE S2'
    <3>1. PICK c : c = [stage |-> "connect", sub |-> s, vals |-> {}]
      OBVIOUS
    <3>2. UNCHANGED run \/ Goto(p, c)
      BY <2>4, <3>1 DEF SubscribeLock, Disconnect, Then
    <3>3. run[p].stage \notin Publishing
      BY <2>4 DEF SubscribeLock, Disconnect, Calls, At, Publishing, Early
    <3>4. UNCHANGED outgoing /\ UNCHANGED remote /\ UNCHANGED remoteTopics /\ UNCHANGED closed
      BY <2>4 DEF SubscribeLock, Disconnect, Calls, members, wiring
    <3>5. Goto(p, c) => \A q \in Threads : q # p => run'[q] = run[q]
      BY <1>1, <2>2, RunAfter DEF BusTypes
    <3> QED
      BY <1>2, <2>0, <2>3, <3>2, <3>3, <3>4, <3>5
  <2>5. ASSUME NEW p \in Callers, InternalSubscribe(p) PROVE S2'
    <3>1. run[p] \in SubCalls /\ \A q \in Threads : q # p => run'[q] = run[q]
      BY <1>1, <2>5, SubscribeMoves
    <3>2. run[p].stage \notin Publishing
      BY <3>1 DEF SubCalls, Publishing, Early
    <3>3. UNCHANGED outgoing /\ UNCHANGED remote /\ UNCHANGED remoteTopics /\ UNCHANGED closed
      BY <2>5 DEF InternalSubscribe, bounds, members, wiring
    <3> QED
      BY <1>2, <2>0, <2>3, <3>1, <3>2, <3>3
  <2>6. ASSUME NEW p \in Callers, Registers(p) PROVE S2'
    BY <2>1, <2>6 DEF Registers, InternalRegisterSerializer, InternalLastValueCache, InternalEnableContinuousErrors,
                      Calls, members, wiring
  <2>7. ASSUME NEW p \in Callers, Joins(p) PROVE S2'
    <3>1. UNCHANGED outgoing /\ UNCHANGED remote /\ UNCHANGED closed
      BY <2>7 DEF Joins, InternalAddParticipant, AddParticipant, InternalRemoveParticipant, AddRemoteTopic, Calls, bounds,
                  members, wiring
    <3>2. \A x \in Parts : remoteTopics[x] \subseteq remoteTopics'[x]
      BY <1>1, <2>7 DEF Joins, InternalAddParticipant, AddParticipant, InternalRemoveParticipant, AddRemoteTopic, members,
                        BusTypes, MemberTypes
    <3>3. UNCHANGED run \/ \E c : Goto(p, c)
      BY <2>7 DEF Joins, InternalAddParticipant, AddParticipant, InternalRemoveParticipant, AddRemoteTopic
    <3>4. run[p].stage \notin Publishing
      BY <2>7 DEF Joins, InternalAddParticipant, AddParticipant, InternalRemoveParticipant, AddRemoteTopic, Calls, At,
                  Publishing, Early
    <3>5. ASSUME NEW c, Goto(p, c) PROVE \A q \in Threads : q # p => run'[q] = run[q]
      BY <1>1, <2>2, <3>5, RunAfter DEF BusTypes
    <3> QED
      BY <1>2, <2>0, <2>3, <3>1, <3>2, <3>3, <3>4, <3>5
  <2>8. ASSUME WorkerServes \/ \E x \in Joining, t \in Topics : OnChannelError(x, t) PROVE S2'
    BY <2>1, <2>8 DEF WorkerServes, OnChannelError, bounds, members, wiring
  <2> QED
    BY <1>1, <1>3, <2>4, <2>5, <2>6, <2>7, <2>8, WayLock, WayPublish, WayAsync DEF BusStep
<1>4. ASSUME TimerTick \/ ReceiverThread PROVE S2'
  <2>1. UNCHANGED vars /\ UNCHANGED m_peers
    BY <1>4 DEF TimerTick, ReceiverThread
  <2> QED
    BY <1>2, <2>1 DEF vars, members, wiring, bounds, OutStays
<1> QED
  BY <1>1, <1>3, <1>4, AllSteps, WayNodeCall

(* Whoever has a topic is the participant of a peer that is there or comes *)
(* (AddPeer), or closed; and Stop() has closed the peers behind the one it *)
(* is at.                                                                  *)
THEOREM PeersPlaced == NodeSpec => []PInv
<1>1. NodeInit => PInv
  BY DEF NodeInit, Init, PInv, Placed, Closing, Idle
<1>2. TInv /\ PInv /\ [AllNext]_allVars => PInv'
  <2>1. PInv /\ UNCHANGED allVars => PInv'
    BY DEF PInv, Placed, Closing, OfPeer, IsClosed, At, allVars, vars, nodeVars, members, wiring
  <2> QED
    BY <2>1, PlacedNext
<1> QED
  BY <1>1, <1>2, BusTyped, PTL DEF NodeSpec

LEMMA WaysKept == NodeSpec => [](S1 /\ S2)
<1>1. NodeInit => S1 /\ S2
  <2> SUFFICES ASSUME NodeInit PROVE S1 /\ S2
    OBVIOUS
  <2>1. \A p \in Threads : run[p] = Idle
    BY DEF NodeInit, Init
  <2>2. outbox = <<>> /\ thrown = {} /\ (\A x \in Parts : sent[x] = <<>>) /\ \A v \in Vals : remote[v] = {}
    BY DEF NodeInit, Init
  <2>3. Unshared
    BY <2>1, <2>2, IdleFacts DEF Unshared, At
  <2>4. OutOnce /\ \A x \in Parts : Once(x)
    BY <2>1, <2>2, IdleFacts DEF OutOnce, Once, IsInjective, ToSet
  <2>5. S2
    BY <2>2 DEF S2
  <2> QED
    BY <2>3, <2>4, <2>5 DEF S1
<1>2. TInv /\ PInv /\ (S1 /\ S2) /\ [AllNext]_allVars => (S1 /\ S2)'
  <2>1. ASSUME S1, S2, UNCHANGED allVars PROVE (S1 /\ S2)'
    <3>1. /\ UNCHANGED run /\ UNCHANGED sent /\ UNCHANGED outbox /\ UNCHANGED thrown /\ UNCHANGED pubs /\ UNCHANGED remote
          /\ UNCHANGED remoteTopics /\ UNCHANGED closed /\ UNCHANGED ended /\ UNCHANGED m_peers
      BY <2>1 DEF allVars, vars, nodeVars, members, wiring, errs, outgoing, bounds
    <3>2. Unshared'
      BY <2>1, <3>1 DEF S1, Unshared, At
    <3>3. OutOnce' /\ \A x \in Parts : Once(x)'
      BY <2>1, <3>1 DEF S1, OutOnce, Once
    <3>4. ASSUME ~ended, NEW v \in Vals, NEW x \in remote[v] PROVE OnWay(v, x)'
      <4>1. OnWay(v, x)
        BY <2>1, <3>4 DEF S2
      <4>2. \A p \in Threads : /\ Bound(run[p], x, v) => Bound(run[p], x, v)'
                               /\ Leaves(run[p], x) => Leaves(run[p], x)'
        BY <3>1 DEF Bound, Leaves, OfPeer
      <4> QED
        BY <3>1, <4>1, <4>2 DEF OnWay
    <3>5. S2'
      BY <3>1, <3>4 DEF S2
    <3> QED
      BY <3>2, <3>3, <3>5 DEF S1
  <2> QED
    BY <2>1, OnceNext, WayNext
<1> QED
  BY <1>1, <1>2, BusTyped, PeersPlaced, PTL DEF NodeSpec

(* Nothing is sent twice to a participant, and at rest whatever was        *)
(* published while it was on the bus was sent to it, unless its transport  *)
(* was closed or an exception ended the publication: whoever publishes,    *)
(* joins, leaves and stops the node meanwhile (InternalPublish,            *)
(* Participant::Send, NetworkNode::Stop).                                  *)
THEOREM NothingLostOrDoubled == NodeSpec => []SentOnce
<1>1. TInv /\ S1 /\ S2 => SentOnce
  <2> SUFFICES ASSUME TInv, S1, S2, NEW x \in Parts
               PROVE  /\ IsInjective(sent[x])
                      /\ Quiet => \A v \in (1 .. pubs) \ thrown : x \in remote[v] \ closed => v \in ToSet(sent[x])
    BY DEF SentOnce
  <2>1. IsInjective(sent[x])
    BY DEF S1, Once
  <2>2. ASSUME Quiet, NEW v \in (1 .. pubs) \ thrown, x \in remote[v] \ closed PROVE v \in ToSet(sent[x])
    <3>1. v \in Vals
      BY Numbers DEF TInv, BInv, BusTypes, WayTypes, Vals
    <3>2. OnWay(v, x)
      BY <2>2, <3>1 DEF S2, Quiet
    <3>3. ToSet(outbox) = {}
      BY <2>2 DEF Quiet, ToSet
    <3>4. \A p \in Threads : ~Bound(run[p], x, v) /\ ~Leaves(run[p], x)
      BY <2>2 DEF Quiet, At, Bound, Leaves, Early
    <3> QED
      BY <2>2, <3>2, <3>3, <3>4 DEF OnWay
  <2> QED
    BY <2>1, <2>2
<1> QED
  BY <1>1, WaysKept, BusTyped, PTL

-----------------------------------------------------------------------------
(* What the node was given before Stop() is sent, or its thread still has  *)
(* it in its queue.                                                        *)
Ending(c) == c.stage \in {"exits", "joins thread"}
Flushed ==
  \A b \in before :
    \/ b[1] \in ToSet(sent[b[2]])
    \/ /\ [part |-> b[2], val |-> b[1]] \in ToSet(outbox) /\ b[2] \notin closed
       /\ \E p \in Threads : Ending(run[p])

LEMMA FlushedStays ==
  ASSUME NodeTypes, Flushed, UNCHANGED before, UNCHANGED closed,
         \A x \in Parts : ToSet(sent[x]) \subseteq ToSet(sent'[x]),
         \A x \in Parts \ closed, v \in Vals :
           [part |-> x, val |-> v] \in ToSet(outbox) => v \in ToSet(sent'[x]) \/ [part |-> x, val |-> v] \in ToSet(outbox'),
         \A q \in Threads : Ending(run[q]) => Ending(run'[q])
  PROVE  Flushed'
<1> SUFFICES ASSUME NEW b \in before
             PROVE  \/ b[1] \in ToSet(sent'[b[2]])
                    \/ /\ [part |-> b[2], val |-> b[1]] \in ToSet(outbox') /\ b[2] \notin closed'
                       /\ \E p \in Threads : Ending(run'[p])
  BY DEF Flushed
<1>1. b[1] \in Vals /\ b[2] \in Parts
  BY DEF NodeTypes
<1>2. PICK v \in Vals, x \in Parts : v = b[1] /\ x = b[2]
  BY <1>1
<1>3. CASE v \in ToSet(sent[x])
  BY <1>2, <1>3
<1>4. CASE v \notin ToSet(sent[x])
  <2>1. [part |-> x, val |-> v] \in ToSet(outbox) /\ x \notin closed /\ \E p \in Threads : Ending(run[p])
    BY <1>2, <1>4 DEF Flushed
  <2> QED
    BY <1>2, <2>1
<1> QED
  BY <1>3, <1>4

(* No step of the bus takes a publication from its way, but for the send   *)
(* thread, which sends it.                                                 *)
LEMMA OutgoingGrows ==
  ASSUME BusTypes, BusStep
  PROVE  /\ UNCHANGED closed
         /\ \A x \in Parts : ToSet(sent[x]) \subseteq ToSet(sent'[x])
         /\ \A x \in Parts \ closed, v \in Vals :
              [part |-> x, val |-> v] \in ToSet(outbox) => v \in ToSet(sent'[x]) \/ [part |-> x, val |-> v] \in ToSet(outbox')
<1>1. UNCHANGED closed
  BY DEF BusStep, SubscribeLock, Disconnect, InternalSubscribe, Registers, InternalRegisterSerializer,
         InternalLastValueCache, InternalEnableContinuousErrors, Joins, InternalAddParticipant, AddParticipant,
         InternalRemoveParticipant, AddRemoteTopic, OnChannelError, WorkerServes, PublishLock, InternalPublish,
         AsyncSend, members, wiring
<1>2. ASSUME UNCHANGED sent, UNCHANGED outbox
      PROVE  /\ \A x \in Parts : ToSet(sent[x]) \subseteq ToSet(sent'[x])
             /\ \A x \in Parts \ closed, v \in Vals :
                  [part |-> x, val |-> v] \in ToSet(outbox) => v \in ToSet(sent'[x]) \/ [part |-> x, val |-> v] \in ToSet(outbox')
  BY <1>2
<1>3. ASSUME NEW p \in Threads, InternalPublish(p)
      PROVE  /\ \A x \in Parts : ToSet(sent[x]) \subseteq ToSet(sent'[x])
             /\ ToSet(outbox) \subseteq ToSet(outbox')
  <2>1. CASE EmitLocal(p) \/ CallSubscriber(p) \/ FindInterest(p) \/ PublishReturns(p)
    <3>1. UNCHANGED sent /\ UNCHANGED outbox
      BY <2>1 DEF EmitLocal, CallSubscriber, FindInterest, PublishReturns, outgoing
    <3> QED
      BY <3>1
  <2>2. CASE SendRemote(p) /\ run[p].to = {}
    <3>1. UNCHANGED sent /\ UNCHANGED outbox
      BY <1>3, <2>2, PublishMoves DEF outgoing
    <3> QED
      BY <3>1
  <2>3. CASE SendRemote(p) /\ run[p].to # {}
    <3>1. run[p] \in PubCalls
      BY <1>3, PublishMoves
    <3>2. PICK y \in run[p].to : SendBy(p, y)
      BY <1>3, <2>3, PublishMoves
    <3>3. y \in Parts /\ run[p].val \in Vals
      BY <3>1 DEF PubCalls
    <3> QED
      BY <3>2, <3>3, GivenAway
  <2> QED
    BY <1>3, <2>1, <2>2, <2>3 DEF InternalPublish
<1>4. ASSUME AsyncSend
      PROVE  /\ \A x \in Parts : ToSet(sent[x]) \subseteq ToSet(sent'[x])
             /\ \A x \in Parts \ closed, v \in Vals :
                  [part |-> x, val |-> v] \in ToSet(outbox) => v \in ToSet(sent'[x]) \/ [part |-> x, val |-> v] \in ToSet(outbox')
  <2>1. WayTypes
    BY DEF BusTypes
  <2>2. PICK b \in Packets :
           /\ b \in ToSet(outbox) /\ ToSet(outbox) = ToSet(outbox') \cup {b} /\ Transmit(b.part, b.val)
           /\ b.part \in Parts /\ b.val \in Vals /\ b = [part |-> b.part, val |-> b.val]
           /\ IsInjective(outbox) => IsInjective(outbox') /\ b \notin ToSet(outbox')
    BY <1>4, <2>1, Unqueued
  <2>3. PICK y \in Parts : y = b.part
    BY <2>2
  <2>4. PICK w \in Vals : w = b.val
    BY <2>2
  <2>5. \A z \in Parts :
           /\ ToSet(sent'[z]) = IF z = y /\ y \notin closed THEN ToSet(sent[z]) \cup {w} ELSE ToSet(sent[z])
           /\ IsInjective(sent[z]) /\ (z = y => w \notin ToSet(sent[z])) => IsInjective(sent'[z])
    BY <2>1, <2>2, <2>3, <2>4, Transmitted
  <2>6. ASSUME NEW x \in Parts \ closed, NEW v \in Vals, [part |-> x, val |-> v] \in ToSet(outbox)
        PROVE  v \in ToSet(sent'[x]) \/ [part |-> x, val |-> v] \in ToSet(outbox')
    <3>1. CASE [part |-> x, val |-> v] = b
      <4>1. x = y /\ v = w
        BY <2>3, <2>4, <3>1
      <4> QED
        BY <2>5, <4>1
    <3>2. CASE [part |-> x, val |-> v] # b
      BY <2>2, <2>6, <3>2
    <3> QED
      BY <3>1, <3>2
  <2> QED
    BY <2>5, <2>6
<1>5. ASSUME ~(\E p \in Threads : InternalPublish(p)), ~AsyncSend PROVE UNCHANGED sent /\ UNCHANGED outbox
  BY <1>5 DEF BusStep, SubscribeLock, Disconnect, InternalSubscribe, Registers, InternalRegisterSerializer,
         InternalLastValueCache, InternalEnableContinuousErrors, Joins, InternalAddParticipant, AddParticipant,
         InternalRemoveParticipant, AddRemoteTopic, OnChannelError, WorkerServes, PublishLock, outgoing
<1> QED
  BY <1>1, <1>2, <1>3, <1>4, <1>5

LEMMA FlushedNext ==
  ASSUME TInv, S2, Flushed, AllNext
  PROVE  Flushed'
<1>0. BInv /\ BusTypes /\ NodeTypes /\ WithinOne /\ ~ended
  BY AllSteps DEF TInv, BInv
<1>1. CASE BusStep /\ UNCHANGED nodeVars
  <2>1. \A q \in Threads : Ending(run[q]) => Ending(run'[q])
    BY <1>0, <1>1, BusStepOut DEF OutStays, Ending, Inside, Within
  <2> QED
    BY <1>0, <1>1, <2>1, OutgoingGrows, FlushedStays DEF nodeVars
<1>2. CASE TimerTick \/ ReceiverThread
  <2>1. UNCHANGED vars /\ UNCHANGED before
    BY <1>2 DEF TimerTick, ReceiverThread
  <2> QED
    BY <2>1 DEF vars, members, wiring, outgoing, Flushed, Ending
<1>3. ASSUME usesNode, NEW p \in Callers, NodeCall(p) PROVE Flushed'
  <2>0. p \in Threads /\ Alone(p) /\ UNCHANGED outbox /\ UNCHANGED sent
    BY <1>3, DataBusConstants, NodeCallAlone, TopicsGrow DEF outgoing
  <2>1. ASSUME ~(\E q \in Threads : Ending(run[q])), UNCHANGED before PROVE Flushed'
    BY <2>0, <2>1 DEF Flushed
  <2>2. ASSUME ~Ending(run[p]) PROVE ~(\E q \in Threads : Ending(run[q]))
    BY <2>0, <2>2 DEF Alone, Inside, Within, Ending
  <2>3. ASSUME NEW c, Goto(p, c) PROVE run'[p] = c
    BY <1>0, <2>0, <2>3, RunAfter DEF BusTypes
  <2>4. CASE Stop(p)
    <3>1. before' = {b \in ((1 .. pubs) \ (UnderWay \cup thrown)) \X (Parts \ closed) : b[2] \in remote[b[1]]}
      BY <2>4 DEF Stop
    <3>2. PICK c : c = [stage |-> "exits"]
      OBVIOUS
    <3>2a. Goto(p, c) /\ UNCHANGED closed
      BY <2>4, <3>2 DEF Stop, members, wiring
    <3>2b. c.stage = "exits"
      BY <3>2
    <3>3. run'[p] = c /\ Ending(run'[p]) /\ UNCHANGED closed
      BY <2>3, <3>2a, <3>2b DEF Ending
    <3>4. ASSUME NEW b \in before'
          PROVE  b[1] \in ToSet(sent[b[2]]) \/ ([part |-> b[2], val |-> b[1]] \in ToSet(outbox) /\ b[2] \notin closed)
      <4>1. PICK v, x : v = b[1] /\ x = b[2]
        OBVIOUS
      <4>2. v \in (1 .. pubs) \ (UnderWay \cup thrown) /\ x \in Parts \ closed /\ x \in remote[v]
        BY <3>1, <3>4, <4>1
      <4>3. v \in Vals
        BY <1>0, <4>2, Numbers DEF BusTypes, WayTypes, Vals
      <4>4. OnWay(v, x)
        BY <1>0, <4>2, <4>3 DEF S2
      <4>5. \A q \in Threads : ~Bound(run[q], x, v)
        <5>1. ASSUME NEW q \in Threads, Bound(run[q], x, v) PROVE v \in UnderWay
          BY <5>1 DEF Bound, UnderWay, Early
        <5> QED
          BY <4>2, <5>1
      <4>6. \A q \in Threads : ~Leaves(run[q], x)
        <5>1. \A q \in Threads : ~Inside(q)
          BY <1>0, <2>4 DEF Stop, NodeCalls, NobodyWithin, WithinOne, Inside
        <5> QED
          BY <5>1 DEF Inside, Within, Leaves
      <4> QED
        BY <4>1, <4>2, <4>4, <4>5, <4>6 DEF OnWay
    <3> QED
      BY <2>0, <3>3, <3>4 DEF Flushed
  <2>5. CASE StopExits(p)
    <3>1. PICK c : c = [stage |-> "joins thread"]
      OBVIOUS
    <3>1a. Goto(p, c) /\ UNCHANGED closed /\ UNCHANGED before
      BY <2>5, <3>1 DEF StopExits, nodeVars
    <3>1b. c.stage = "joins thread"
      BY <3>1
    <3>2. run'[p] = c /\ Ending(run'[p]) /\ UNCHANGED closed /\ UNCHANGED before
      BY <2>3, <3>1a, <3>1b DEF Ending
    <3>3. \A q \in Threads : Ending(run[q]) => Ending(run'[q])
      BY <2>0, <3>2 DEF Alone, Inside, Within, Ending
    <3> QED
      BY <1>0, <2>0, <3>2, <3>3, FlushedStays
  <2>6. CASE StopJoins(p)
    <3>1. outbox = <<>> /\ UNCHANGED before
      BY <2>6 DEF StopJoins, Joined, nodeVars
    <3>2. ToSet(outbox) = {}
      BY <3>1 DEF ToSet
    <3> QED
      BY <2>0, <3>1, <3>2 DEF Flushed
  <2>7. CASE ~Stop(p) /\ ~StopExits(p) /\ ~StopJoins(p)
    <3>1. ~Ending(run[p]) /\ UNCHANGED before
      BY <1>3, <2>7 DEF NodeCall, Start, AddPeer, AddPeerJoins, AddPeerApplies, SendSpreads, StopRemoves, StopDetaches,
                        Receive, Send, NodeCalls, At, Ending, nodeVars
    <3> QED
      BY <2>1, <2>2, <3>1
  <2> QED
    BY <2>4, <2>5, <2>6, <2>7
<1> QED
  BY <1>0, <1>1, <1>2, <1>3, AllSteps

LEMMA FlushedKept == NodeSpec => []Flushed
<1>1. NodeInit => Flushed
  BY DEF NodeInit, Flushed
<1>2. TInv /\ (S1 /\ S2) /\ Flushed /\ [AllNext]_allVars => Flushed'
  <2>1. Flushed /\ UNCHANGED allVars => Flushed'
    BY DEF Flushed, Ending, allVars, vars, nodeVars, members, wiring, outgoing
  <2> QED
    BY <2>1, FlushedNext
<1> QED
  BY <1>1, <1>2, BusTyped, WaysKept, PTL DEF NodeSpec

(* What a publication that had returned when Stop() was called handed to   *)
(* the node is on the wire when Stop() returns.                            *)
LEMMA StopSends == NodeSpec => []StopFlushes
<1>1. TInv /\ Flushed => StopFlushes
  BY DEF TInv, WithinOne, Inside, Within, Ending, Flushed, StopFlushes, NobodyWithin
<1> QED
  BY <1>1, FlushedKept, BusTyped, PTL

-----------------------------------------------------------------------------
(* Every peer has the topics that the node sends.                          *)
Adding(c)         == c.stage \in {"joins bus", "applies"}
OutTopics         == ToSet(m_outTopics)
TopicsOf(tier, S) == {t \in Topics : <<t, tier>> \in S}
Complete(peer, S) ==
  \A tier \in Tiers : peer[tier] \in ToSet(parts) /\ remoteTopics[peer[tier]] = TopicsOf(tier, S)
AllComplete(n)    == \A i \in 1 .. Len(m_peers) : i < n => Complete(m_peers[i], OutTopics)
Full              == \A i \in 1 .. Len(m_peers) : Complete(m_peers[i], OutTopics)
Before(n)         == {m_outTopics[j] : j \in 1 .. n - 1}

(* Each peer has two participants of its own, and those to come are fresh. *)
NotPeer(peer) == \A i \in 1 .. Len(m_peers), a, b \in Tiers : m_peers[i][a] # peer[b]
Distinct ==
  \A i, j \in 1 .. Len(m_peers), a, b \in Tiers : m_peers[i][a] = m_peers[j][b] => i = j /\ a = b
Fresh ==
  \A k \in added + 1 .. Len(PeerParts) :
    NotPeer(PeerParts[k]) /\ \A b \in Tiers : remoteTopics[PeerParts[k][b]] = {}
NewOne(c) == Adding(c) => added > 0 /\ c.peer = PeerParts[added] /\ NotPeer(c.peer)
Own == Distinct /\ Fresh /\ \A p \in Threads : NewOne(run[p])

(* How far the call has come that is within the node.                      *)
Progress(c) ==
  /\ c.stage = "joins bus" =>
       /\ Full /\ \A a \in Tiers : remoteTopics[c.peer[a]] = {}
       /\ c.todo = <<c.peer.rel, c.peer.raw>> \/ (c.todo = <<c.peer.raw>> /\ c.peer.rel \in ToSet(parts))
  /\ c.stage = "applies" =>
       Full /\ c.at \in 1 .. Len(m_outTopics) + 1 /\ Complete(c.peer, Before(c.at))
  /\ c.stage = "spreads" =>
       /\ c.topic \in OutTopics /\ c.at \in 1 .. Len(m_peers) + 1
       /\ \A i \in 1 .. Len(m_peers) : Complete(m_peers[i], IF i < c.at THEN OutTopics ELSE OutTopics \ {c.topic})
  /\ c.stage \in {"exits", "joins thread"} => Full
  /\ c.stage = "removes" =>
       /\ AllComplete(c.at)
       /\ \/ c.todo = <<"rel", "raw">> /\ AllComplete(c.at + 1)
          \/ c.todo = <<"raw">> /\ c.at > 0 /\ m_peers[c.at].raw \in ToSet(parts)
  /\ c.stage = "detaches" => AllComplete(c.at)

Handling == handlers # Nil => \A i \in 1 .. Len(m_inTopics) : handlers[m_inTopics[i][1]] = m_inTopics[i][2]

Routed ==
  /\ (\A p \in Threads : ~Inside(p)) => Full
  /\ \A p \in Threads : Progress(run[p])
  /\ Handling
RInv == usesNode /\ ~ended => Own /\ Routed

LEMMA PeersApart ==
  ASSUME NEW i \in 1 .. Len(PeerParts), NEW j \in 1 .. Len(PeerParts), NEW a \in Tiers, NEW b \in Tiers,
         PeerParts[i][a] = PeerParts[j][b]
  PROVE  i = j /\ a = b
<1>1. PeerParts \in Seq([rel : Parts \ Joining, raw : Parts \ Joining])
  BY NodeConstants
<1>2. DOMAIN PeerParts = 1 .. Len(PeerParts)
  BY <1>1
<1>3. /\ PeerParts[i].rel # PeerParts[j].raw /\ PeerParts[j].rel # PeerParts[i].raw
      /\ (i # j => PeerParts[i].rel # PeerParts[j].rel /\ PeerParts[i].raw # PeerParts[j].raw)
  BY <1>2, NodeConstants
<1>4. a \in {"rel", "raw"} /\ b \in {"rel", "raw"}
  BY DEF Tiers
<1> QED
  BY <1>3, <1>4

LEMMA Unrouted ==
  ASSUME UNCHANGED parts, UNCHANGED remoteTopics, UNCHANGED m_peers, UNCHANGED added
  PROVE  /\ Distinct => Distinct'
         /\ Fresh => Fresh'
         /\ UNCHANGED m_outTopics /\ Full => Full'
         /\ \A n : UNCHANGED m_outTopics /\ AllComplete(n) => AllComplete(n)'
         /\ \A peer : NotPeer(peer) => NotPeer(peer)'
         /\ \A peer, S : Complete(peer, S) => Complete(peer, S)'
<1>1. (Distinct => Distinct') /\ (Fresh => Fresh')
  BY DEF Distinct, Fresh, NotPeer
<1>2. UNCHANGED m_outTopics /\ Full => Full'
  BY DEF Full, Complete, OutTopics
<1>3. \A n : UNCHANGED m_outTopics /\ AllComplete(n) => AllComplete(n)'
  BY DEF AllComplete, Complete, OutTopics
<1>4. \A peer : NotPeer(peer) => NotPeer(peer)'
  BY DEF NotPeer
<1>5. \A peer, S : Complete(peer, S) => Complete(peer, S)'
  BY DEF Complete
<1> QED
  BY <1>1, <1>2, <1>3, <1>4, <1>5

(* Nobody is added and nobody gets a topic.                                *)
LEMMA RoutedStays ==
  ASSUME RInv, ~ended, OutStays, UNCHANGED parts, UNCHANGED remoteTopics, UNCHANGED usesNode, UNCHANGED handlers,
         UNCHANGED m_inTopics, UNCHANGED m_outTopics, UNCHANGED m_peers, UNCHANGED added
  PROVE  RInv'
<1> SUFFICES ASSUME usesNode PROVE Own' /\ Routed'
  BY DEF RInv
<1>1. Own /\ Routed
  BY DEF RInv
<1>2. \A q \in Threads : run'[q] = run[q] \/ (run[q].stage \notin Within /\ run'[q].stage \notin Within)
  BY DEF OutStays, Inside
<1>3. Own'
  <2>1. Distinct' /\ Fresh'
    BY <1>1 DEF Own, Distinct, Fresh, NotPeer
  <2>2. ASSUME NEW q \in Threads PROVE NewOne(run[q])'
    <3>1. CASE run'[q] = run[q]
      <4>1. NewOne(run[q])
        BY <1>1 DEF Own
      <4>2. \A peer : NotPeer(peer) => NotPeer(peer)'
        BY DEF NotPeer
      <4> QED
        BY <3>1, <4>1, <4>2 DEF NewOne
    <3>2. CASE run'[q].stage \notin Within
      BY <3>2 DEF NewOne, Adding, Within
    <3> QED
      BY <1>2, <3>1, <3>2
  <2> QED
    BY <2>1, <2>2 DEF Own
<1>4. Full => Full'
  BY DEF Full, Complete, OutTopics
<1>5. ASSUME NEW q \in Threads PROVE Progress(run[q])'
  <2>1. CASE run'[q].stage \notin Within
    BY <2>1 DEF Progress, Within
  <2>2. CASE run'[q].stage \in Within
    <3>1. run'[q] = run[q] /\ Progress(run[q])
      BY <1>1, <1>2, <2>2 DEF Routed
    <3>2. /\ Full => Full'
          /\ \A n : AllComplete(n) => AllComplete(n)'
          /\ \A peer, S : Complete(peer, S) => Complete(peer, S)'
      BY Unrouted
    <3>3. /\ UNCHANGED parts /\ UNCHANGED remoteTopics /\ UNCHANGED m_peers /\ UNCHANGED m_outTopics
          /\ OutTopics' = OutTopics /\ \A n : Before(n)' = Before(n)
      BY DEF OutTopics, Before
    <3> QED
      BY <3>1, <3>2, <3>3 DEF Progress
  <2> QED
    BY <2>1, <2>2
<1>6. (\A p \in Threads : ~Inside(p)') => \A p \in Threads : ~Inside(p)
  BY <1>2 DEF Inside
<1>7. Handling'
  BY <1>1 DEF Routed, Handling
<1> QED
  BY <1>1, <1>3, <1>4, <1>5, <1>6, <1>7 DEF Routed

(* One is within the node, and then at most that one.                      *)
LEMMA RoutedAfter ==
  ASSUME NEW p \in Threads, Alone(p), Distinct', Fresh', NewOne(run[p])', Handling',
         Progress(run[p])', run'[p].stage = "idle" => Full'
  PROVE  RInv'
<1>1. \A q \in Threads : q # p => run'[q].stage \notin Within
  BY DEF Alone, Inside
<1>2. ASSUME NEW q \in Threads PROVE NewOne(run[q])' /\ Progress(run[q])'
  <2>1. CASE q = p
    BY <2>1
  <2>2. CASE q # p
    <3>1. run'[q].stage \notin Within
      BY <1>1, <2>2
    <3> QED
      BY <3>1 DEF NewOne, Adding, Progress, Within
  <2> QED
    BY <2>1, <2>2
<1>3. (\A q \in Threads : ~Inside(q)') => Full'
  BY DEF Inside, Alone, Moved
<1> QED
  BY <1>2, <1>3 DEF RInv, Own, Routed

(* Between two calls of the node, and when the tables stay.                *)
LEMMA AtRest ==
  ASSUME TInv, RInv, usesNode, ~ended, NEW p \in Callers, NodeCalls(p)
  PROVE  Distinct /\ Fresh /\ Full /\ Handling /\ ~Adding(run[p])
<1>1. Own /\ Routed
  BY DEF RInv
<1>2. \A q \in Threads : ~Inside(q)
  BY DEF NodeCalls, NobodyWithin, TInv, WithinOne, Inside
<1> QED
  BY <1>1, <1>2 DEF Own, Routed, NodeCalls, At, Adding

LEMMA Enters ==
  ASSUME TInv, RInv, usesNode, ~ended, NEW p \in Callers, NodeCall(p)
  PROVE  /\ p \in Threads /\ BInv /\ Shape(run[p]) /\ Alone(p)
         /\ Distinct /\ Fresh /\ Handling /\ NewOne(run[p]) /\ Progress(run[p])
         /\ \A c : Goto(p, c) => run'[p] = c
         /\ NodeCalls(p) => Full /\ run[p].stage = "idle"
<1>1. p \in Threads /\ BInv /\ Shape(run[p]) /\ Alone(p)
  BY NodeCallAlone, DataBusConstants DEF TInv, Shapes
<1>2. ASSUME NEW c, Goto(p, c) PROVE run'[p] = c
  BY <1>1, <1>2, RunAfter DEF BInv, BusTypes
<1> QED
  BY <1>1, <1>2, AtRest DEF RInv, Own, Routed, NodeCalls, At

LEMMA HandlersFit ==
  ASSUME NEW ins \in Seq(Topics \X Types), Consistent(ins), NEW i \in 1 .. Len(ins)
  PROVE  Handlers(ins)[ins[i][1]] = ins[i][2]
<1>1. ins[i] \in Topics \X Types /\ ins[i] \in ToSet(ins)
  BY DEF ToSet
<1>2. PICK t \in Topics, type \in Types : ins[i] = <<t, type>>
  BY <1>1
<1>3. <<t, type>> \in ToSet(ins)
  BY <1>1, <1>2
<1>4. \A u \in Types : <<t, u>> \in ToSet(ins) => u = type
  <2>1. ASSUME NEW u \in Types, <<t, u>> \in ToSet(ins) PROVE u = type
    <3>1. PICK x \in ToSet(ins) : x = <<t, u>>
      BY <2>1
    <3>2. PICK y \in ToSet(ins) : y = <<t, type>>
      BY <1>3
    <3>3. x[1] = y[1] => x[2] = y[2]
      BY DEF Consistent
    <3> QED
      BY <3>1, <3>2, <3>3
  <2> QED
    BY <2>1
<1>5. (CHOOSE u \in Types : <<t, u>> \in ToSet(ins)) = type
  BY <1>3, <1>4
<1>6. Handlers(ins)[t] = type
  BY <1>3, <1>5 DEF Handlers
<1> QED
  BY <1>2, <1>6

LEMMA StartRoutes ==
  ASSUME TInv, RInv, usesNode, ~ended, NEW p \in Callers, Start(p)
  PROVE  RInv'
<1>0. NodeCall(p) /\ NodeCalls(p)
  BY DEF NodeCall, Start
<1>1. /\ UNCHANGED parts /\ UNCHANGED remoteTopics /\ UNCHANGED m_peers /\ UNCHANGED added /\ UNCHANGED m_outTopics
      /\ UNCHANGED m_inTopics /\ UNCHANGED run
  BY DEF Start
<1>2. p \in Threads /\ Alone(p) /\ BInv /\ Distinct /\ Fresh /\ Full /\ run[p].stage = "idle"
  BY <1>0, Enters
<1>3. CASE Consistent(m_inTopics)
  <2>1. handlers' = Handlers(m_inTopics) /\ m_inTopics \in Seq(Topics \X Types)
    BY <1>2, <1>3 DEF Start, BInv, NodeTypes
  <2>2. Handling'
    BY <1>1, <1>3, <2>1, HandlersFit DEF Handling
  <2>3. NewOne(run[p])' /\ Progress(run[p])'
    BY <1>1, <1>2 DEF NewOne, Adding, Progress
  <2> QED
    BY <1>1, <1>2, <2>2, <2>3, Unrouted, RoutedAfter
<1>4. CASE ~Consistent(m_inTopics)
  BY <1>4 DEF Start, Asserts, RInv
<1> QED
  BY <1>3, <1>4

LEMMA ReceiveRoutes ==
  ASSUME TInv, RInv, usesNode, ~ended, NEW p \in Callers, NEW t \in Topics, NEW type \in Types, Receive(p, t, type)
  PROVE  RInv'
<1>0. NodeCall(p) /\ NodeCalls(p)
  BY DEF NodeCall, Receive
<1>1. /\ UNCHANGED parts /\ UNCHANGED remoteTopics /\ UNCHANGED m_peers /\ UNCHANGED added /\ UNCHANGED m_outTopics
      /\ UNCHANGED run
  BY DEF Receive, members
<1>2. p \in Threads /\ Alone(p) /\ BInv /\ Distinct /\ Fresh /\ Full /\ Handling /\ run[p].stage = "idle"
  BY <1>0, Enters
<1>3. PICK ins : ins = Append(m_inTopics, <<t, type>>)
  OBVIOUS
<1>4. CASE Len(m_inTopics) < MaxTopics /\ (handlers # Nil => Consistent(ins))
  <2>1. /\ m_inTopics' = ins
        /\ handlers' = IF handlers = Nil THEN Nil ELSE [handlers EXCEPT ![t] = type]
    BY <1>3, <1>4 DEF Receive
  <2>2. /\ m_inTopics \in Seq(Topics \X Types) /\ handlers \in [Topics -> Types \cup {Nil}] \cup {Nil}
        /\ <<t, type>> \in Topics \X Types
    BY <1>2 DEF BInv, NodeTypes
  <2>3. /\ ins \in Seq(Topics \X Types) /\ Len(ins) = Len(m_inTopics) + 1 /\ Len(m_inTopics) \in Nat
        /\ \A i \in 1 .. Len(m_inTopics) : ins[i] = m_inTopics[i]
        /\ ins[Len(m_inTopics) + 1] = <<t, type>>
    BY <1>3, <2>2, AppendProperties
  <2>4. ASSUME handlers # Nil, NEW i \in 1 .. Len(ins) PROVE handlers'[ins[i][1]] = ins[i][2]
    <3>1. handlers' = [handlers EXCEPT ![t] = type] /\ handlers \in [Topics -> Types \cup {Nil}]
      BY <2>1, <2>2, <2>4
    <3>2. CASE i = Len(m_inTopics) + 1
      BY <2>3, <3>1, <3>2
    <3>3. CASE i \in 1 .. Len(m_inTopics)
      <4>1. ins[i] \in ToSet(ins) /\ ins[Len(m_inTopics) + 1] \in ToSet(ins)
        BY <2>3, <3>3 DEF ToSet
      <4>2. PICK x \in ToSet(ins) : x = ins[i]
        BY <4>1
      <4>3. PICK y \in ToSet(ins) : y = <<t, type>>
        BY <2>3, <4>1
      <4>4. x[1] = y[1] => x[2] = y[2]
        BY <1>4, <2>4 DEF Consistent
      <4>5. x = m_inTopics[i] /\ x \in Topics \X Types
        BY <2>2, <2>3, <3>3, <4>2
      <4>6. handlers[x[1]] = x[2] /\ x[1] \in Topics
        BY <1>2, <2>4, <3>3, <4>5 DEF Handling
      <4>7. handlers'[x[1]] = x[2]
        BY <3>1, <4>3, <4>4, <4>6
      <4> QED
        BY <4>2, <4>7
    <3> QED
      BY <2>3, <3>2, <3>3
  <2>5. Handling'
    BY <2>1, <2>4 DEF Handling
  <2>6. NewOne(run[p])' /\ Progress(run[p])'
    BY <1>1, <1>2 DEF NewOne, Adding, Progress
  <2> QED
    BY <1>1, <1>2, <2>5, <2>6, Unrouted, RoutedAfter
<1>5. CASE ~(Len(m_inTopics) < MaxTopics /\ (handlers # Nil => Consistent(ins)))
  BY <1>3, <1>5 DEF Receive, Asserts, RInv
<1> QED
  BY <1>4, <1>5

LEMMA AddPeerRoutes ==
  ASSUME TInv, RInv, usesNode, ~ended, NEW p \in Callers, AddPeer(p)
  PROVE  RInv'
<1>0. NodeCall(p) /\ NodeCalls(p)
  BY DEF NodeCall, AddPeer
<1>1. /\ UNCHANGED parts /\ UNCHANGED remoteTopics /\ UNCHANGED m_peers /\ UNCHANGED m_outTopics
      /\ UNCHANGED m_inTopics /\ UNCHANGED handlers
  BY DEF AddPeer
<1>2. p \in Threads /\ Alone(p) /\ BInv /\ Distinct /\ Fresh /\ Full /\ Handling /\ \A c : Goto(p, c) => run'[p] = c
  BY <1>0, Enters
<1>3. PICK peer : peer = PeerParts[added + 1]
  OBVIOUS
<1>4. CASE Len(m_peers) < MaxPeers
  <2>1. PICK c : c = [stage |-> "joins bus", peer |-> peer, todo |-> <<peer.rel, peer.raw>>]
    OBVIOUS
  <2>2. Goto(p, c) /\ added' = added + 1 /\ added < Len(PeerParts)
    BY <1>3, <1>4, <2>1 DEF AddPeer
  <2>3. run'[p] = c /\ c.stage = "joins bus" /\ c.peer = peer /\ c.todo = <<peer.rel, peer.raw>>
    BY <1>2, <2>1, <2>2
  <2>4. added \in Nat /\ Len(PeerParts) \in Nat
    BY <1>2, NodeConstants DEF BInv, NodeTypes
  <2>5. NotPeer(peer) /\ \A b \in Tiers : remoteTopics[peer[b]] = {}
    BY <1>2, <1>3, <2>2, <2>4 DEF Fresh
  <2>6. Distinct' /\ Full' /\ NotPeer(peer)'
    BY <1>1, <1>2, <2>5 DEF Distinct, Full, Complete, OutTopics, NotPeer
  <2>7. Fresh'
    <3>1. ASSUME NEW k \in added' + 1 .. Len(PeerParts)
          PROVE  NotPeer(PeerParts[k])' /\ \A b \in Tiers : remoteTopics'[PeerParts[k][b]] = {}
      <4>1. k \in added + 1 .. Len(PeerParts)
        BY <2>2, <2>4
      <4>2. NotPeer(PeerParts[k]) /\ \A b \in Tiers : remoteTopics[PeerParts[k][b]] = {}
        BY <1>2, <4>1 DEF Fresh
      <4> QED
        BY <1>1, <4>2 DEF NotPeer
    <3> QED
      BY <3>1 DEF Fresh
  <2>8. NewOne(run[p])'
    <3>0. added' > 0
      BY <2>2, <2>4
    <3>1. run'[p].peer = PeerParts[added'] /\ run'[p].peer = peer
      BY <1>3, <2>2, <2>3
    <3> QED
      BY <2>6, <3>0, <3>1 DEF NewOne, NotPeer
  <2>9. Progress(run[p])'
    BY <1>1, <2>3, <2>5, <2>6 DEF Progress
  <2>10. Handling'
    BY <1>1, <1>2 DEF Handling
  <2> QED
    BY <1>2, <2>6, <2>7, <2>8, <2>9, <2>10, RoutedAfter
<1>5. CASE ~(Len(m_peers) < MaxPeers)
  BY <1>5 DEF AddPeer, Asserts, RInv
<1> QED
  BY <1>4, <1>5

LEMMA Pairs ==
  ASSUME NEW S, NEW a \in S, NEW b \in S
  PROVE  /\ Head(<<a, b>>) = a /\ Tail(<<a, b>>) = <<b>> /\ Len(<<a, b>>) = 2
         /\ Head(<<b>>) = b /\ Len(<<b>>) = 1
<1>1. <<a, b>> \in Seq(S) /\ <<b>> \in Seq(S)
  OBVIOUS
<1>2. Len(<<a, b>>) = 2 /\ Len(<<b>>) = 1
  OBVIOUS
<1>3. Head(<<a, b>>) = a /\ Head(<<b>>) = b
  OBVIOUS
<1>4. Tail(<<a, b>>) = <<b>>
  OBVIOUS
<1> QED
  BY <1>2, <1>3, <1>4

LEMMA AddPeerJoinsRoutes ==
  ASSUME TInv, RInv, usesNode, ~ended, NEW p \in Callers, AddPeerJoins(p)
  PROVE  RInv'
<1>0. NodeCall(p)
  BY DEF NodeCall
<1>1. /\ UNCHANGED remoteTopics /\ UNCHANGED m_peers /\ UNCHANGED m_outTopics /\ UNCHANGED added
      /\ UNCHANGED m_inTopics /\ UNCHANGED handlers
  BY DEF AddPeerJoins, nodeVars
<1>2. /\ p \in Threads /\ Alone(p) /\ BInv /\ Distinct /\ Fresh /\ Handling /\ NewOne(run[p]) /\ Progress(run[p])
      /\ \A c : Goto(p, c) => run'[p] = c
      /\ run[p].stage = "joins bus" /\ Join(Head(run[p].todo))
  BY <1>0, Enters DEF AddPeerJoins, At
<1>3. run[p] \in JoinCalls /\ added > 0 /\ run[p].peer = PeerParts[added] /\ NotPeer(run[p].peer)
  BY <1>2, RunAt, Stages DEF BInv, BusTypes, NewOne, Adding
<1>4. PICK peer \in Peers : peer = run[p].peer
  BY <1>3 DEF JoinCalls
<1>5. peer.rel \in Parts /\ peer.raw \in Parts /\ parts \in Seq(Parts)
  BY <1>2, <1>4, PeerTypes DEF BInv, BusTypes, MemberTypes, Tiers
<1>6. Full /\ (\A a \in Tiers : remoteTopics[peer[a]] = {})
      /\ (run[p].todo = <<peer.rel, peer.raw>> \/ (run[p].todo = <<peer.raw>> /\ peer.rel \in ToSet(parts)))
  BY <1>2, <1>4 DEF Progress
<1>7. CASE Len(parts) < MaxParticipants
  <2>1. PICK x : x = Head(run[p].todo)
    OBVIOUS
  <2>2. parts' = Append(parts, x) /\ x \in {peer.rel, peer.raw}
    <3>1. parts' = Append(parts, x)
      BY <1>2, <1>7, <2>1 DEF Join
    <3>2. Head(<<peer.rel, peer.raw>>) = peer.rel /\ Head(<<peer.raw>>) = peer.raw
      BY <1>5, Pairs
    <3> QED
      BY <1>6, <2>1, <3>1, <3>2
  <2>3. ToSet(parts') = ToSet(parts) \cup {x}
    BY <1>5, <2>2, AppendSet
  <2>4. Distinct' /\ Fresh' /\ NotPeer(peer)'
    <3>0. Distinct /\ Fresh
      BY <1>2
    <3>1. Distinct'
      BY <1>1, <3>0 DEF Distinct
    <3>2. Fresh'
      BY <1>1, <3>0 DEF Fresh, NotPeer
    <3>3. NotPeer(peer)
      BY <1>3, <1>4
    <3>4. NotPeer(peer)'
      BY <1>1, <3>3 DEF NotPeer
    <3> QED
      BY <3>1, <3>2, <3>4
  <2>5. Full'
    BY <1>1, <1>6, <2>3 DEF Full, Complete, OutTopics
  <2>6. Handling'
    BY <1>1, <1>2 DEF Handling
  <2>6a. added' > 0 /\ peer = PeerParts[added'] /\ NotPeer(peer)'
    BY <1>1, <1>3, <1>4, <2>4
  <2>7. CASE run[p].todo = <<peer.rel, peer.raw>>
    <3>1. PICK c : c = [run[p] EXCEPT !.todo = Tail(@)]
      OBVIOUS
    <3>2. Goto(p, c)
      <4>1. Len(run[p].todo) > 1
        BY <1>5, <2>7, Pairs
      <4> QED
        BY <3>1, <4>1 DEF AddPeerJoins
    <3>3. c.stage = "joins bus" /\ c.peer = peer /\ c.todo = <<peer.raw>>
      <4>1. c.stage = "joins bus" /\ c.peer = peer /\ c.todo = Tail(run[p].todo)
        BY <1>2, <1>3, <1>4, <3>1 DEF JoinCalls
      <4>2. Tail(<<peer.rel, peer.raw>>) = <<peer.raw>>
        BY <1>5, Pairs
      <4> QED
        BY <2>7, <4>1, <4>2
    <3>4. run'[p].stage = "joins bus" /\ run'[p].peer = peer /\ run'[p].todo = <<peer.raw>>
      BY <1>2, <3>2, <3>3
    <3>5. peer.rel \in ToSet(parts')
      BY <2>1, <2>3, <2>7
    <3>6. Progress(run[p])'
      BY <1>1, <1>6, <2>5, <3>4, <3>5 DEF Progress
    <3>7. NewOne(run[p])'
      BY <2>6a, <3>4 DEF NewOne, NotPeer
    <3> QED
      BY <1>2, <2>4, <2>6, <3>4, <3>6, <3>7, RoutedAfter
  <2>8. CASE run[p].todo = <<peer.raw>> /\ peer.rel \in ToSet(parts)
    <3>1. PICK c : c = [stage |-> "applies", peer |-> peer, at |-> 1]
      OBVIOUS
    <3>2. Goto(p, c)
      <4>1. ~(Len(run[p].todo) > 1)
        BY <1>5, <2>8, Pairs
      <4> QED
        BY <1>4, <3>1, <4>1 DEF AddPeerJoins
    <3>2a. c.stage = "applies" /\ c.peer = peer /\ c.at = 1
      BY <3>1
    <3>3. run'[p].stage = "applies" /\ run'[p].peer = peer /\ run'[p].at = 1
      BY <1>2, <3>2, <3>2a
    <3>4. peer.rel \in ToSet(parts') /\ peer.raw \in ToSet(parts')
      BY <2>1, <2>3, <2>8
    <3>5. Complete(peer, Before(1))'
      <4>1. Before(1)' = {}
        BY DEF Before
      <4>2. \A a \in Tiers : TopicsOf(a, {}) = {}
        BY DEF TopicsOf
      <4>3. \A a \in Tiers : peer[a] \in ToSet(parts')
        BY <3>4 DEF Tiers
      <4> QED
        BY <1>1, <1>6, <4>1, <4>2, <4>3 DEF Complete
    <3>6. Len(m_outTopics) \in Nat
      <4>1. m_outTopics \in Seq(Topics \X Tiers)
        BY <1>2 DEF BInv, NodeTypes
      <4> QED
        BY <4>1
    <3>7. Progress(run[p])'
      <4>1. Complete(run[p].peer, Before(run[p].at))'
        BY <3>3, <3>5 DEF Complete, Before
      <4>2. run'[p].at \in 1 .. Len(m_outTopics') + 1
        BY <1>1, <3>3, <3>6
      <4> QED
        BY <2>5, <3>3, <4>1, <4>2 DEF Progress
    <3>8. NewOne(run[p])'
      BY <2>6a, <3>3 DEF NewOne, NotPeer
    <3> QED
      BY <1>2, <2>4, <2>6, <3>3, <3>7, <3>8, RoutedAfter
  <2> QED
    BY <1>6, <2>7, <2>8
<1>8. CASE ~(Len(parts) < MaxParticipants)
  BY <1>2, <1>8 DEF Join, RInv
<1> QED
  BY <1>7, <1>8

(* A topic goes to one participant, of one peer.                           *)
LEMMA RouteAdds ==
  ASSUME MemberTypes, NEW peer \in Peers, NEW topic \in Topics \X Tiers, Route(peer, topic), UNCHANGED parts,
         peer.rel # peer.raw
  PROVE  /\ \A S : Complete(peer, S) => Complete(peer, S \cup {topic})'
         /\ \A other \in Peers : \A S : (\A a, b \in Tiers : other[a] # peer[b]) /\ Complete(other, S) => Complete(other, S)'
         /\ \A other \in Peers, a \in Tiers : (\A b \in Tiers : other[a] # peer[b]) => remoteTopics'[other[a]] = remoteTopics[other[a]]
<1>1. PICK t \in Topics, tier \in Tiers : topic = <<t, tier>>
  OBVIOUS
<1>2. peer[tier] \in Parts /\ \A a \in Tiers : peer[a] \in Parts /\ (peer[a] = peer[tier] => a = tier)
  BY PeerTypes DEF Tiers
<1>3. \A x \in Parts : remoteTopics'[x] = IF x = peer[tier] THEN remoteTopics[x] \cup {t} ELSE remoteTopics[x]
  BY <1>1, <1>2 DEF Route, MemberTypes
<1>4. ASSUME NEW S, Complete(peer, S), NEW a \in Tiers
      PROVE  peer[a] \in ToSet(parts') /\ remoteTopics'[peer[a]] = TopicsOf(a, S \cup {topic})
  <2>1. peer[a] \in ToSet(parts) /\ remoteTopics[peer[a]] = TopicsOf(a, S)
    BY <1>4 DEF Complete
  <2>2. TopicsOf(a, S \cup {topic}) = IF a = tier THEN TopicsOf(a, S) \cup {t} ELSE TopicsOf(a, S)
    BY <1>1 DEF TopicsOf
  <2> QED
    BY <1>2, <1>3, <2>1, <2>2
<1>5. ASSUME NEW other \in Peers, NEW a \in Tiers, \A b \in Tiers : other[a] # peer[b]
      PROVE  remoteTopics'[other[a]] = remoteTopics[other[a]]
  BY <1>3, <1>5, PeerTypes
<1> QED
  BY <1>4, <1>5 DEF Complete

LEMMA AddPeerAppliesRoutes ==
  ASSUME TInv, RInv, usesNode, ~ended, NEW p \in Callers, AddPeerApplies(p)
  PROVE  RInv'
<1>0. NodeCall(p)
  BY DEF NodeCall
<1>1. /\ UNCHANGED parts /\ UNCHANGED m_outTopics /\ UNCHANGED added /\ UNCHANGED m_inTopics /\ UNCHANGED handlers
  BY DEF AddPeerApplies
<1>2. /\ p \in Threads /\ Alone(p) /\ BInv /\ NewOne(run[p]) /\ Progress(run[p]) /\ Shape(run[p])
      /\ \A c : Goto(p, c) => run'[p] = c
  BY <1>0, Enters
<1>3. Distinct /\ Fresh /\ Handling /\ run[p].stage = "applies"
  BY <1>0, Enters DEF AddPeerApplies, At
<1>4. run[p] \in ApplyCalls /\ added > 0 /\ run[p].peer = PeerParts[added] /\ NotPeer(run[p].peer)
  BY <1>2, <1>3, RunAt, Stages DEF BInv, BusTypes, NewOne, Adding
<1>5. PICK peer \in Peers : peer = run[p].peer
  BY <1>4 DEF ApplyCalls
<1>6. PICK n \in Nat : n = run[p].at
  BY <1>4 DEF ApplyCalls
<1>7. Full /\ n \in 1 .. Len(m_outTopics) + 1 /\ Complete(peer, Before(n))
  BY <1>2, <1>3, <1>5, <1>6 DEF Progress
<1>8. m_outTopics \in Seq(Topics \X Tiers) /\ m_peers \in Seq(Peers) /\ MemberTypes /\ added \in 1 .. Len(PeerParts)
  BY <1>2, <1>4 DEF BInv, NodeTypes, BusTypes
<1>9. NotPeer(peer) /\ peer = PeerParts[added] /\ peer.rel # peer.raw
  <2>1. peer = PeerParts[added] /\ NotPeer(peer)
    BY <1>4, <1>5
  <2>2. peer["rel"] # peer["raw"]
    BY <1>8, <2>1, PeersApart DEF Tiers
  <2> QED
    BY <2>1, <2>2, PeerTypes DEF Tiers
<1>10. Handling'
  BY <1>1, <1>3 DEF Handling
<1>11. \A i \in 1 .. Len(m_peers) : m_peers[i] \in Peers /\ \A a, b \in Tiers : m_peers[i][a] # peer[b]
  BY <1>8, <1>9 DEF NotPeer
<1>12. \A k \in added + 1 .. Len(PeerParts) : PeerParts[k] \in Peers /\ \A a, b \in Tiers : PeerParts[k][a] # peer[b]
  <2>1. ASSUME NEW k \in added + 1 .. Len(PeerParts), NEW a \in Tiers, NEW b \in Tiers, PeerParts[k][a] = peer[b] PROVE FALSE
    <3>1. k \in 1 .. Len(PeerParts) /\ k # added
      BY <1>8, <2>1
    <3> QED
      BY <1>8, <1>9, <2>1, <3>1, PeersApart
  <2>2. \A k \in added + 1 .. Len(PeerParts) : PeerParts[k] \in Peers
    <3>1. PeerParts \in Seq(Peers)
      BY NodeConstants DEF Peers
    <3>2. \A k \in added + 1 .. Len(PeerParts) : k \in 1 .. Len(PeerParts)
      BY <1>8
    <3> QED
      BY <3>1, <3>2
  <2> QED
    BY <2>1, <2>2
<1>13. CASE n <= Len(m_outTopics)
  <2>1. PICK topic \in Topics \X Tiers : topic = m_outTopics[n]
    BY <1>7, <1>8, <1>13
  <2>2. PICK c : c = [run[p] EXCEPT !.at = @ + 1]
    OBVIOUS
  <2>3. Route(peer, topic) /\ Goto(p, c) /\ UNCHANGED m_peers
    BY <1>5, <1>6, <1>13, <2>1, <2>2 DEF AddPeerApplies
  <2>4. c.stage = "applies" /\ c.peer = peer /\ c.at = n + 1
    BY <1>3, <1>4, <1>5, <1>6, <2>2 DEF ApplyCalls
  <2>5. run'[p].stage = "applies" /\ run'[p].peer = peer /\ run'[p].at = n + 1
    BY <1>2, <2>3, <2>4
  <2>6. /\ \A S : Complete(peer, S) => Complete(peer, S \cup {topic})'
        /\ \A other \in Peers : \A S : (\A a, b \in Tiers : other[a] # peer[b]) /\ Complete(other, S) => Complete(other, S)'
        /\ \A other \in Peers, a \in Tiers : (\A b \in Tiers : other[a] # peer[b]) => remoteTopics'[other[a]] = remoteTopics[other[a]]
    BY <1>1, <1>8, <1>9, <2>3, RouteAdds
  <2>7. Distinct' /\ NotPeer(peer)'
    BY <1>3, <1>9, <2>3 DEF Distinct, NotPeer
  <2>8. Fresh'
    <3>1. ASSUME NEW k \in added + 1 .. Len(PeerParts)
          PROVE  NotPeer(PeerParts[k])' /\ \A b \in Tiers : remoteTopics'[PeerParts[k][b]] = {}
      <4>1. NotPeer(PeerParts[k]) /\ \A b \in Tiers : remoteTopics[PeerParts[k][b]] = {}
        BY <1>3 DEF Fresh
      <4>2. NotPeer(PeerParts[k])'
        BY <2>3, <4>1 DEF NotPeer
      <4> QED
        BY <1>12, <2>6, <4>1, <4>2
    <3> QED
      BY <1>1, <3>1 DEF Fresh
  <2>9. Full'
    <3>1. \A i \in 1 .. Len(m_peers) : Complete(m_peers[i], OutTopics)
      BY <1>7 DEF Full
    <3>2. PICK S : S = OutTopics
      OBVIOUS
    <3>3. ASSUME NEW i \in 1 .. Len(m_peers) PROVE Complete(m_peers[i], OutTopics)'
      <4>1. PICK other \in Peers : other = m_peers[i]
        BY <1>11
      <4>2. Complete(other, S)'
        BY <1>11, <2>6, <3>1, <3>2, <4>1
      <4>3. S = OutTopics'
        BY <1>1, <3>2 DEF OutTopics
      <4> QED
        BY <2>3, <4>1, <4>2, <4>3 DEF Complete
    <3> QED
      BY <2>3, <3>3 DEF Full
  <2>10. Progress(run[p])'
    <3>1. PICK S : S = Before(n)
      OBVIOUS
    <3>2. Complete(peer, S \cup {topic})'
      BY <1>7, <2>6, <3>1
    <3>3. S \cup {topic} = Before(n + 1)'
      <4>1. Before(n + 1)' = {m_outTopics[j] : j \in 1 .. (n + 1) - 1}
        BY <1>1 DEF Before
      <4>2. \A j : j \in 1 .. (n + 1) - 1 <=> j \in 1 .. n - 1 \/ j = n
        BY <1>7
      <4>3. S = {m_outTopics[j] : j \in 1 .. n - 1}
        BY <3>1 DEF Before
      <4> QED
        BY <2>1, <4>1, <4>2, <4>3
    <3>4. Complete(run[p].peer, Before(run[p].at))'
      BY <2>5, <3>2, <3>3 DEF Complete, Before
    <3>5. run'[p].at \in 1 .. Len(m_outTopics') + 1
      BY <1>1, <1>7, <1>8, <1>13, <2>5
    <3> QED
      BY <2>5, <2>9, <3>4, <3>5 DEF Progress
  <2>11. NewOne(run[p])'
    <3>1. added' > 0 /\ peer = PeerParts[added']
      BY <1>1, <1>4, <1>9
    <3> QED
      BY <2>5, <2>7, <3>1 DEF NewOne, NotPeer
  <2> QED
    BY <1>2, <1>10, <2>5, <2>7, <2>8, <2>10, <2>11, RoutedAfter
<1>14. CASE ~(n <= Len(m_outTopics))
  <2>1. m_peers' = Append(m_peers, peer) /\ run'[p] = Idle /\ UNCHANGED remoteTopics
    BY <1>2, <1>5, <1>6, <1>14 DEF AddPeerApplies
  <2>2. /\ Len(m_peers) \in Nat /\ Len(m_peers') = Len(m_peers) + 1
        /\ \A i \in 1 .. Len(m_peers) : m_peers'[i] = m_peers[i]
        /\ m_peers'[Len(m_peers) + 1] = peer
    BY <1>8, <2>1, AppendProperties
  <2>3. \A i \in 1 .. Len(m_peers') : i \in 1 .. Len(m_peers) \/ i = Len(m_peers) + 1
    BY <2>2
  <2>4. Distinct'
    <3>1. ASSUME NEW i \in 1 .. Len(m_peers'), NEW j \in 1 .. Len(m_peers'), NEW a \in Tiers, NEW b \in Tiers,
                 m_peers'[i][a] = m_peers'[j][b]
          PROVE  i = j /\ a = b
      <4>1. CASE i \in 1 .. Len(m_peers) /\ j \in 1 .. Len(m_peers)
        BY <1>3, <2>2, <3>1, <4>1 DEF Distinct
      <4>2. CASE i \in 1 .. Len(m_peers) /\ j = Len(m_peers) + 1
        BY <1>11, <2>2, <3>1, <4>2
      <4>3. CASE j \in 1 .. Len(m_peers) /\ i = Len(m_peers) + 1
        BY <1>11, <2>2, <3>1, <4>3
      <4>4. CASE i = Len(m_peers) + 1 /\ j = Len(m_peers) + 1
        <5>1. peer[a] = peer[b]
          BY <2>2, <3>1, <4>4
        <5>2. a = b
          BY <1>8, <1>9, <5>1, PeersApart
        <5> QED
          BY <4>4, <5>2
      <4> QED
        BY <2>3, <4>1, <4>2, <4>3, <4>4
    <3> QED
      BY <3>1 DEF Distinct
  <2>5. Fresh'
    <3>1. ASSUME NEW k \in added + 1 .. Len(PeerParts)
          PROVE  NotPeer(PeerParts[k])' /\ \A b \in Tiers : remoteTopics'[PeerParts[k][b]] = {}
      <4>1. NotPeer(PeerParts[k]) /\ \A b \in Tiers : remoteTopics[PeerParts[k][b]] = {}
        BY <1>3 DEF Fresh
      <4>2. ASSUME NEW i \in 1 .. Len(m_peers'), NEW a \in Tiers, NEW b \in Tiers PROVE m_peers'[i][a] # PeerParts[k][b]
        <5>1. CASE i \in 1 .. Len(m_peers)
          BY <2>2, <4>1, <5>1 DEF NotPeer
        <5>2. CASE i = Len(m_peers) + 1
          BY <1>12, <2>2, <5>2
        <5> QED
          BY <2>3, <5>1, <5>2
      <4>3. NotPeer(PeerParts[k])'
        BY <4>2 DEF NotPeer
      <4> QED
        BY <2>1, <4>1, <4>3
    <3> QED
      BY <1>1, <3>1 DEF Fresh
  <2>6. Full'
    <3>1. n = Len(m_outTopics) + 1 /\ Len(m_outTopics) \in Nat
      BY <1>7, <1>8, <1>14
    <3>2. Before(n) = OutTopics
      <4>1. DOMAIN m_outTopics = 1 .. n - 1
        BY <1>8, <3>1
      <4> QED
        BY <4>1 DEF Before, OutTopics, ToSet
    <3>3. PICK S : S = OutTopics
      OBVIOUS
    <3>4. S = OutTopics'
      BY <1>1, <3>3 DEF OutTopics
    <3>5. ASSUME NEW i \in 1 .. Len(m_peers') PROVE Complete(m_peers[i], OutTopics)'
      <4>1. PICK other : other = m_peers'[i]
        OBVIOUS
      <4>2. Complete(other, S)
        <5>1. CASE i \in 1 .. Len(m_peers)
          BY <1>7, <2>2, <3>3, <4>1, <5>1 DEF Full
        <5>2. CASE i = Len(m_peers) + 1
          BY <1>7, <2>2, <3>2, <3>3, <4>1, <5>2
        <5> QED
          BY <2>3, <5>1, <5>2
      <4>3. Complete(other, S)'
        BY <1>1, <2>1, <4>2 DEF Complete
      <4> QED
        BY <3>4, <4>1, <4>3 DEF Complete
    <3> QED
      BY <3>5 DEF Full
  <2>7. NewOne(run[p])' /\ Progress(run[p])'
    BY <2>1, IdleFacts DEF NewOne, Adding, Progress
  <2> QED
    BY <1>2, <1>10, <2>4, <2>5, <2>6, <2>7, RoutedAfter
<1> QED
  BY <1>13, <1>14

LEMMA SendRoutes ==
  ASSUME TInv, RInv, usesNode, ~ended, NEW p \in Callers, NEW t \in Topics, NEW type \in Types, NEW tier \in Tiers,
         Send(p, t, type, tier)
  PROVE  RInv'
<1>0. NodeCall(p) /\ NodeCalls(p)
  BY DEF NodeCall, Send
<1>1. /\ UNCHANGED parts /\ UNCHANGED remoteTopics /\ UNCHANGED m_peers /\ UNCHANGED added
      /\ UNCHANGED m_inTopics /\ UNCHANGED handlers
  BY DEF Send, members
<1>2. p \in Threads /\ Alone(p) /\ BInv /\ \A c : Goto(p, c) => run'[p] = c
  BY <1>0, Enters
<1>3. Distinct /\ Fresh /\ Full /\ Handling
  BY <1>0, Enters
<1>4. CASE Len(m_outTopics) < MaxTopics /\ Fits(t, type)
  <2>1. PICK topic \in Topics \X Tiers : topic = <<t, tier>>
    OBVIOUS
  <2>2. PICK c : c = [stage |-> "spreads", topic |-> topic, at |-> 1]
    OBVIOUS
  <2>3. m_outTopics' = Append(m_outTopics, topic) /\ Goto(p, c) /\ topic \notin OutTopics
    BY <1>4, <2>1, <2>2 DEF Send, OutTopics
  <2>4. c.stage = "spreads" /\ c.topic = topic /\ c.at = 1
    BY <2>2
  <2>5. run'[p].stage = "spreads" /\ run'[p].topic = topic /\ run'[p].at = 1
    BY <1>2, <2>3, <2>4
  <2>6. m_outTopics \in Seq(Topics \X Tiers) /\ m_peers \in Seq(Peers)
    BY <1>2 DEF BInv, NodeTypes
  <2>7. OutTopics' = OutTopics \cup {topic}
    BY <2>3, <2>6, AppendSet DEF OutTopics
  <2>8. Distinct' /\ Fresh'
    BY <1>1, <1>3, Unrouted
  <2>9. Handling'
    BY <1>1, <1>3 DEF Handling
  <2>10. Progress(run[p])'
    <3>1. run'[p].at \in 1 .. Len(m_peers') + 1 /\ \A i \in 1 .. Len(m_peers) : ~(i < 1)
      BY <1>1, <2>5, <2>6
    <3>2. OutTopics' \ {topic} = OutTopics
      BY <2>3, <2>7
    <3>3. ASSUME NEW i \in 1 .. Len(m_peers)
          PROVE  Complete(m_peers[i], IF i < run[p].at THEN OutTopics ELSE OutTopics \ {run[p].topic})'
      <4>1. Complete(m_peers[i], OutTopics)
        BY <1>3 DEF Full
      <4>2. PICK S, other : S = OutTopics /\ other = m_peers[i]
        OBVIOUS
      <4>3. Complete(other, S)'
        BY <1>1, <4>1, <4>2, Unrouted
      <4>4. S = (IF i < run'[p].at THEN OutTopics' ELSE OutTopics' \ {run'[p].topic})
        BY <2>5, <3>1, <3>2, <4>2
      <4> QED
        BY <1>1, <4>2, <4>3, <4>4 DEF Complete
    <3> QED
      BY <1>1, <2>5, <2>7, <3>1, <3>3 DEF Progress
  <2>11. NewOne(run[p])'
    BY <2>5 DEF NewOne, Adding
  <2> QED
    BY <1>2, <2>5, <2>8, <2>9, <2>10, <2>11, RoutedAfter
<1>5. CASE ~(Len(m_outTopics) < MaxTopics /\ Fits(t, type))
  BY <1>5 DEF Send, Asserts, RInv
<1> QED
  BY <1>4, <1>5

LEMMA SendSpreadsRoutes ==
  ASSUME TInv, RInv, usesNode, ~ended, NEW p \in Callers, SendSpreads(p)
  PROVE  RInv'
<1>0. NodeCall(p)
  BY DEF NodeCall
<1>1. /\ UNCHANGED parts /\ UNCHANGED m_outTopics /\ UNCHANGED added /\ UNCHANGED m_inTopics /\ UNCHANGED handlers
      /\ UNCHANGED m_peers
  BY DEF SendSpreads, nodeVars
<1>2. /\ p \in Threads /\ Alone(p) /\ BInv /\ Progress(run[p])
      /\ \A c : Goto(p, c) => run'[p] = c
  BY <1>0, Enters
<1>3. Distinct /\ Fresh /\ Handling /\ run[p].stage = "spreads"
  BY <1>0, Enters DEF SendSpreads, At
<1>4. run[p] \in SpreadCalls
  BY <1>2, <1>3, RunAt, Stages DEF BInv, BusTypes
<1>5. PICK topic \in Topics \X Tiers : topic = run[p].topic
  BY <1>4 DEF SpreadCalls
<1>6. PICK n \in Nat : n = run[p].at
  BY <1>4 DEF SpreadCalls
<1>7. /\ topic \in OutTopics /\ n \in 1 .. Len(m_peers) + 1
      /\ \A i \in 1 .. Len(m_peers) : Complete(m_peers[i], IF i < n THEN OutTopics ELSE OutTopics \ {topic})
  BY <1>2, <1>3, <1>5, <1>6 DEF Progress
<1>8. m_peers \in Seq(Peers) /\ MemberTypes /\ Len(m_peers) \in Nat
  BY <1>2 DEF BInv, NodeTypes, BusTypes
<1>9. Handling' /\ Distinct'
  BY <1>1, <1>3 DEF Handling, Distinct
<1>10. CASE n <= Len(m_peers)
  <2>1. PICK peer \in Peers : peer = m_peers[n]
    BY <1>7, <1>8, <1>10
  <2>1a. n \in 1 .. Len(m_peers)
    BY <1>7, <1>8, <1>10
  <2>2. PICK c : c = [run[p] EXCEPT !.at = @ + 1]
    OBVIOUS
  <2>3. Route(peer, topic) /\ Goto(p, c)
    BY <1>5, <1>6, <1>10, <2>1, <2>2 DEF SendSpreads
  <2>4. c.stage = "spreads" /\ c.topic = topic /\ c.at = n + 1
    BY <1>3, <1>4, <1>5, <1>6, <2>2 DEF SpreadCalls
  <2>5. run'[p].stage = "spreads" /\ run'[p].topic = topic /\ run'[p].at = n + 1
    BY <1>2, <2>3, <2>4
  <2>6. peer.rel # peer.raw
    <3>1. peer["rel"] # peer["raw"]
      BY <1>3, <2>1, <2>1a DEF Distinct, Tiers
    <3> QED
      BY <3>1, PeerTypes DEF Tiers
  <2>7. /\ \A S : Complete(peer, S) => Complete(peer, S \cup {topic})'
        /\ \A other \in Peers : \A S : (\A a, b \in Tiers : other[a] # peer[b]) /\ Complete(other, S) => Complete(other, S)'
        /\ \A other \in Peers, a \in Tiers : (\A b \in Tiers : other[a] # peer[b]) => remoteTopics'[other[a]] = remoteTopics[other[a]]
    BY <1>1, <1>8, <2>3, <2>6, RouteAdds
  <2>8. Fresh'
    <3>1. ASSUME NEW k \in added + 1 .. Len(PeerParts)
          PROVE  NotPeer(PeerParts[k])' /\ \A b \in Tiers : remoteTopics'[PeerParts[k][b]] = {}
      <4>1. NotPeer(PeerParts[k]) /\ \A b \in Tiers : remoteTopics[PeerParts[k][b]] = {}
        BY <1>3 DEF Fresh
      <4>2. NotPeer(PeerParts[k])'
        BY <1>1, <4>1 DEF NotPeer
      <4>3. \A a, b \in Tiers : PeerParts[k][a] # peer[b]
        BY <2>1, <2>1a, <4>1 DEF NotPeer
      <4>4. PeerParts[k] \in Peers
        <5>1. PeerParts \in Seq(Peers)
          BY NodeConstants DEF Peers
        <5>2. k \in 1 .. Len(PeerParts)
          BY <1>2 DEF BInv, NodeTypes
        <5> QED
          BY <5>1, <5>2
      <4> QED
        BY <2>7, <4>1, <4>2, <4>3, <4>4
    <3> QED
      BY <1>1, <3>1 DEF Fresh
  <2>9. ASSUME NEW i \in 1 .. Len(m_peers)
        PROVE  Complete(m_peers[i], IF i < run[p].at THEN OutTopics ELSE OutTopics \ {run[p].topic})'
    <3>1. PICK S, other : S = (IF i < n THEN OutTopics ELSE OutTopics \ {topic}) /\ other = m_peers[i]
      OBVIOUS
    <3>2. Complete(other, S) /\ other \in Peers
      <4>1. other \in Peers
        BY <1>8, <2>9, <3>1
      <4>2. Complete(m_peers[i], IF i < n THEN OutTopics ELSE OutTopics \ {topic})
        BY <1>7, <2>9
      <4> QED
        BY <3>1, <4>1, <4>2
    <3>3. CASE i = n
      <4>1. Complete(other, S \cup {topic})'
        BY <2>1, <2>7, <3>1, <3>2, <3>3
      <4>2. S \cup {topic} = (IF i < run'[p].at THEN OutTopics' ELSE OutTopics' \ {run'[p].topic})
        BY <1>1, <1>7, <2>5, <3>1, <3>3 DEF OutTopics
      <4> QED
        BY <1>1, <3>1, <4>1, <4>2 DEF Complete
    <3>4. CASE i # n
      <4>1. \A a, b \in Tiers : other[a] # peer[b]
        BY <1>3, <2>1, <2>1a, <3>1, <3>4 DEF Distinct
      <4>2. Complete(other, S)'
        BY <2>7, <3>2, <4>1
      <4>3. i < n <=> i < n + 1
        BY <1>6, <1>8, <3>4
      <4>4. S = (IF i < run'[p].at THEN OutTopics' ELSE OutTopics' \ {run'[p].topic})
        BY <1>1, <2>5, <3>1, <4>3 DEF OutTopics
      <4> QED
        BY <1>1, <3>1, <4>2, <4>4 DEF Complete
    <3> QED
      BY <3>3, <3>4
  <2>10. Progress(run[p])'
    <3>1. run'[p].at \in 1 .. Len(m_peers') + 1 /\ run'[p].topic \in OutTopics'
      BY <1>1, <1>7, <1>8, <1>10, <2>5 DEF OutTopics
    <3> QED
      BY <1>1, <2>5, <2>9, <3>1 DEF Progress
  <2>11. NewOne(run[p])'
    BY <2>5 DEF NewOne, Adding
  <2> QED
    BY <1>2, <1>9, <2>5, <2>8, <2>10, <2>11, RoutedAfter
<1>11. CASE ~(n <= Len(m_peers))
  <2>1. run'[p] = Idle /\ UNCHANGED remoteTopics
    BY <1>2, <1>6, <1>11 DEF SendSpreads
  <2>2. Full
    <3>1. \A i \in 1 .. Len(m_peers) : i < n
      BY <1>8, <1>11
    <3> QED
      BY <1>7, <3>1 DEF Full
  <2>3. Fresh' /\ Full'
    BY <1>1, <1>3, <2>1, <2>2, Unrouted
  <2>4. NewOne(run[p])' /\ Progress(run[p])'
    BY <2>1, IdleFacts DEF NewOne, Adding, Progress
  <2> QED
    BY <1>2, <1>9, <2>3, <2>4, RoutedAfter
<1> QED
  BY <1>10, <1>11

LEMMA StopRoutes ==
  ASSUME TInv, RInv, usesNode, ~ended, NEW p \in Callers, Stop(p) \/ StopExits(p) \/ StopJoins(p)
  PROVE  RInv'
<1>0. NodeCall(p)
  BY DEF NodeCall
<1>1. /\ UNCHANGED parts /\ UNCHANGED remoteTopics /\ UNCHANGED m_peers /\ UNCHANGED added /\ UNCHANGED m_outTopics
      /\ UNCHANGED m_inTopics /\ UNCHANGED handlers
  BY DEF Stop, StopExits, StopJoins, members, nodeVars
<1>2. /\ p \in Threads /\ Alone(p) /\ BInv /\ Progress(run[p])
      /\ \A c : Goto(p, c) => run'[p] = c
  BY <1>0, Enters
<1>3. Distinct /\ Fresh /\ Handling
  BY <1>0, Enters
<1>4. Full
  <2>1. CASE Stop(p)
    <3>1. NodeCalls(p)
      BY <2>1 DEF Stop
    <3> QED
      BY <1>0, <3>1, Enters
  <2>2. CASE StopExits(p) \/ StopJoins(p)
    BY <1>2, <2>2 DEF StopExits, StopJoins, At, Progress
  <2> QED
    BY <2>1, <2>2
<1>5. Distinct' /\ Fresh' /\ Full'
  BY <1>1, <1>3, <1>4, Unrouted
<1>6. Handling'
  BY <1>1, <1>3 DEF Handling
<1>7. CASE Stop(p) \/ StopExits(p)
  <2>1. PICK c : c = [stage |-> "exits"]
    OBVIOUS
  <2>2. PICK d : d = [stage |-> "joins thread"]
    OBVIOUS
  <2>3. Goto(p, c) \/ Goto(p, d)
    BY <1>7, <2>1, <2>2 DEF Stop, StopExits
  <2>4. c.stage = "exits" /\ d.stage = "joins thread"
    BY <2>1, <2>2
  <2>5. run'[p].stage \in {"exits", "joins thread"}
    BY <1>2, <2>3, <2>4
  <2>6. Progress(run[p])' /\ NewOne(run[p])'
    BY <1>5, <2>5 DEF Progress, NewOne, Adding
  <2> QED
    BY <1>2, <1>5, <1>6, <2>5, <2>6, RoutedAfter
<1>8. CASE StopJoins(p)
  <2>1. PICK c : c = [stage |-> "removes", at |-> Len(m_peers), todo |-> <<"rel", "raw">>]
    OBVIOUS
  <2>2. c.stage = "removes" /\ c.at = Len(m_peers) /\ c.todo = <<"rel", "raw">>
    BY <2>1
  <2>3. Goto(p, c)
    BY <1>8, <2>1 DEF StopJoins
  <2>4. run'[p].stage = "removes" /\ run'[p].at = Len(m_peers) /\ run'[p].todo = <<"rel", "raw">>
    BY <1>2, <2>2, <2>3
  <2>5. \A n : AllComplete(n)'
    BY <1>5 DEF AllComplete, Full
  <2>6. AllComplete(run[p].at)' /\ AllComplete(run[p].at + 1)'
    BY <1>5 DEF AllComplete, Full
  <2>7. Progress(run[p])' /\ NewOne(run[p])'
    BY <2>4, <2>6 DEF Progress, NewOne, Adding
  <2> QED
    BY <1>2, <1>5, <1>6, <2>4, <2>7, RoutedAfter
<1> QED
  BY <1>7, <1>8

LEMMA StopRemovesRoutes ==
  ASSUME TInv, RInv, usesNode, ~ended, NEW p \in Callers, StopRemoves(p)
  PROVE  RInv'
<1>0. NodeCall(p)
  BY DEF NodeCall
<1>1. /\ UNCHANGED remoteTopics /\ UNCHANGED added /\ UNCHANGED m_outTopics /\ UNCHANGED m_inTopics /\ UNCHANGED handlers
  BY DEF StopRemoves
<1>2. /\ p \in Threads /\ Alone(p) /\ BInv /\ Progress(run[p]) /\ Shape(run[p])
      /\ \A c : Goto(p, c) => run'[p] = c
  BY <1>0, Enters
<1>3. Distinct /\ Fresh /\ Handling /\ run[p].stage = "removes"
  BY <1>0, Enters DEF StopRemoves, At
<1>4. run[p] \in RemoveCalls /\ run[p].at \in Nat /\ run[p].todo \in Seq(Tiers)
  BY <1>2, RemoveFacts
<1>5. PICK n \in Nat : n = run[p].at
  BY <1>4
<1>6. /\ AllComplete(n)
      /\ \/ run[p].todo = <<"rel", "raw">> /\ AllComplete(n + 1)
         \/ run[p].todo = <<"raw">> /\ n > 0 /\ m_peers[n].raw \in ToSet(parts)
  BY <1>2, <1>3, <1>5 DEF Progress
<1>7. m_peers \in Seq(Peers) /\ Len(m_peers) \in Nat /\ n <= Len(m_peers) /\ (n > 0 => run[p].todo # <<>>)
  BY <1>2, <1>3, <1>5 DEF BInv, NodeTypes, Shape
<1>8. Handling'
  BY <1>1, <1>3 DEF Handling
<1>9. CASE n = 0
  <2>1. m_peers' = <<>> /\ run'[p] = Idle
    BY <1>2, <1>5, <1>9 DEF StopRemoves
  <2>2. Len(m_peers') = 0
    BY <2>1
  <2>3. Distinct' /\ Full'
    BY <2>2 DEF Distinct, Full
  <2>4. Fresh'
    <3>1. \A k \in added + 1 .. Len(PeerParts) : NotPeer(PeerParts[k])' /\ \A b \in Tiers : remoteTopics[PeerParts[k][b]] = {}
      BY <1>3, <2>2 DEF Fresh, NotPeer
    <3> QED
      BY <1>1, <3>1 DEF Fresh
  <2>5. NewOne(run[p])' /\ Progress(run[p])'
    BY <2>1, IdleFacts DEF NewOne, Adding, Progress
  <2> QED
    BY <1>2, <1>8, <2>3, <2>4, <2>5, RoutedAfter
<1>10. CASE n # 0
  <2>1. PICK peer \in Peers : peer = m_peers[n]
    BY <1>7, <1>10
  <2>2. n \in 1 .. Len(m_peers) /\ UNCHANGED m_peers
    BY <1>5, <1>7, <1>10 DEF StopRemoves
  <2>3. \A x \in ToSet(parts) : x # peer[Head(run[p].todo)] => x \in ToSet(parts')
    BY <1>2, <1>5, <1>7, <1>10, <2>1, StopRemovesTypes
  <2>4. Distinct' /\ Fresh'
    BY <1>1, <1>3, <2>2 DEF Distinct, Fresh, NotPeer
  <2>5. Head(run[p].todo) \in Tiers
    BY <1>4, <1>7, <1>10
  <2>6. ASSUME NEW i \in 1 .. Len(m_peers), i < n PROVE Complete(m_peers[i], OutTopics)'
    <3>1. Complete(m_peers[i], OutTopics)
      BY <1>6, <2>6 DEF AllComplete
    <3>2. \A a, b \in Tiers : m_peers[i][a] # peer[b]
      BY <1>3, <1>5, <2>1, <2>2, <2>6 DEF Distinct
    <3>3. \A a \in Tiers : m_peers[i][a] \in ToSet(parts')
      BY <2>3, <2>5, <3>1, <3>2 DEF Complete
    <3> QED
      BY <1>1, <2>2, <3>1, <3>3 DEF Complete, OutTopics
  <2>7. CASE run[p].todo = <<"rel", "raw">>
    <3>1. PICK c : c = [run[p] EXCEPT !.todo = Tail(@)]
      OBVIOUS
    <3>2. Len(run[p].todo) = 2 /\ Head(run[p].todo) = "rel" /\ Tail(run[p].todo) = <<"raw">>
      BY <2>7, Pairs DEF Tiers
    <3>3. Goto(p, c)
      BY <1>5, <1>10, <3>1, <3>2 DEF StopRemoves
    <3>4. c.stage = "removes" /\ c.at = n /\ c.todo = <<"raw">>
      BY <1>3, <1>4, <1>5, <3>1, <3>2 DEF RemoveCalls
    <3>5. run'[p].stage = "removes" /\ run'[p].at = n /\ run'[p].todo = <<"raw">>
      BY <1>2, <3>3, <3>4
    <3>6. peer.raw \in ToSet(parts')
      <4>1. AllComplete(n + 1)
        BY <1>6, <2>7, <3>2, Pairs DEF Tiers
      <4>2. Complete(peer, OutTopics)
        BY <2>1, <2>2, <4>1 DEF AllComplete
      <4>3. peer["raw"] # peer["rel"]
        BY <1>3, <2>1, <2>2 DEF Distinct, Tiers
      <4>4. peer["raw"] \in ToSet(parts)
        BY <4>2 DEF Complete, Tiers
      <4> QED
        BY <2>1, <2>3, <3>2, <4>3, <4>4, PeerTypes DEF Tiers
    <3>7. AllComplete(run[p].at)'
      BY <2>2, <2>6, <3>5 DEF AllComplete
    <3>8. Progress(run[p])' /\ NewOne(run[p])'
      <4>1. run'[p].at > 0 /\ m_peers'[run'[p].at].raw \in ToSet(parts')
        BY <2>1, <2>2, <3>5, <3>6
      <4> QED
        BY <3>5, <3>7, <4>1 DEF Progress, NewOne, Adding
    <3> QED
      BY <1>2, <1>8, <2>4, <3>5, <3>8, RoutedAfter
  <2>8. CASE run[p].todo = <<"raw">>
    <3>1. PICK c : c = [stage |-> "detaches", at |-> n]
      OBVIOUS
    <3>2. Len(run[p].todo) = 1
      BY <2>8, Pairs DEF Tiers
    <3>3. Goto(p, c)
      BY <1>5, <1>10, <3>1, <3>2 DEF StopRemoves
    <3>4. c.stage = "detaches" /\ c.at = n
      BY <3>1
    <3>5. run'[p].stage = "detaches" /\ run'[p].at = n
      BY <1>2, <3>3, <3>4
    <3>6. AllComplete(run[p].at)'
      BY <2>2, <2>6, <3>5 DEF AllComplete
    <3>7. Progress(run[p])' /\ NewOne(run[p])'
      BY <3>5, <3>6 DEF Progress, NewOne, Adding
    <3> QED
      BY <1>2, <1>8, <2>4, <3>5, <3>7, RoutedAfter
  <2> QED
    BY <1>6, <2>7, <2>8
<1> QED
  BY <1>9, <1>10

LEMMA StopDetachesRoutes ==
  ASSUME TInv, RInv, usesNode, ~ended, NEW p \in Callers, StopDetaches(p)
  PROVE  RInv'
<1>0. NodeCall(p)
  BY DEF NodeCall
<1>1. /\ UNCHANGED parts /\ UNCHANGED remoteTopics /\ UNCHANGED m_peers /\ UNCHANGED added /\ UNCHANGED m_outTopics
      /\ UNCHANGED m_inTopics /\ UNCHANGED handlers
  BY DEF StopDetaches, nodeVars
<1>2. /\ p \in Threads /\ Alone(p) /\ BInv /\ Progress(run[p]) /\ Shape(run[p])
      /\ \A c : Goto(p, c) => run'[p] = c
  BY <1>0, Enters
<1>3. Distinct /\ Fresh /\ Handling /\ run[p].stage = "detaches"
  BY <1>0, Enters DEF StopDetaches, At
<1>4. PICK n \in 1 .. Len(m_peers) : n = run[p].at
  BY <1>2, <1>3 DEF Shape
<1>5. AllComplete(n)
  BY <1>2, <1>3, <1>4 DEF Progress
<1>6. PICK c : c = [stage |-> "removes", at |-> n - 1, todo |-> <<"rel", "raw">>]
  OBVIOUS
<1>7. c.stage = "removes" /\ c.at = n - 1 /\ c.todo = <<"rel", "raw">>
  BY <1>6
<1>8. PICK peer : peer = m_peers[n]
  OBVIOUS
<1>10. Distinct' /\ Fresh'
  BY <1>1, <1>3, Unrouted
<1>11. Handling'
  BY <1>1, <1>3 DEF Handling
<1>12. AllComplete(n)'
  BY <1>1, <1>5, Unrouted
<1>13. CASE Detaching(p)
  <2>1. run'[p] = run[p] /\ run'[p].stage = "detaches"
    BY <1>3, <1>13 DEF Detaching
  <2>2. AllComplete(run[p].at)'
    BY <1>4, <1>12, <2>1 DEF AllComplete
  <2>3. Progress(run[p])' /\ NewOne(run[p])'
    BY <2>1, <2>2 DEF Progress, NewOne, Adding
  <2> QED
    BY <1>2, <1>10, <1>11, <2>1, <2>3, RoutedAfter
<1>14. CASE Closes(p, peer, c)
  <2>1. run'[p].stage = "removes" /\ run'[p].at = n - 1 /\ run'[p].todo = <<"rel", "raw">>
    BY <1>2, <1>7, <1>14 DEF Closes
  <2>2. AllComplete(run[p].at)' /\ AllComplete(run[p].at + 1)'
    <3>1. \A i \in 1 .. Len(m_peers) : (i < n - 1 => i < n) /\ (i < (n - 1) + 1 => i < n)
      BY <1>4
    <3> QED
      BY <1>1, <1>12, <2>1, <3>1 DEF AllComplete
  <2>3. Progress(run[p])' /\ NewOne(run[p])'
    BY <2>1, <2>2 DEF Progress, NewOne, Adding
  <2> QED
    BY <1>2, <1>10, <1>11, <2>1, <2>3, RoutedAfter
<1> QED
  BY <1>4, <1>6, <1>8, <1>13, <1>14, StopDetachesCases

LEMMA RoutesNext ==
  ASSUME TInv, RInv, AllNext
  PROVE  RInv'
<1>0. BInv /\ ~ended
  BY AllSteps DEF TInv, BInv
<1>1. ASSUME UNCHANGED usesNode, ~usesNode PROVE RInv'
  BY <1>1 DEF RInv
<1>2. CASE BusStep /\ UNCHANGED nodeVars
  <2>1. /\ UNCHANGED usesNode /\ UNCHANGED handlers /\ UNCHANGED m_inTopics /\ UNCHANGED m_outTopics
        /\ UNCHANGED m_peers /\ UNCHANGED added
    BY <1>2 DEF nodeVars
  <2>2. OutStays
    BY <1>0, <1>2, BusStepOut
  <2>3. ASSUME usesNode PROVE UNCHANGED parts /\ UNCHANGED remoteTopics
    BY <1>2, <2>3 DEF BusStep, PublishLock, InternalPublish, AsyncSend, members
  <2> QED
    BY <1>0, <1>1, <2>1, <2>2, <2>3, RoutedStays
<1>3. CASE TimerTick \/ ReceiverThread
  <2>1. /\ UNCHANGED vars /\ UNCHANGED usesNode /\ UNCHANGED handlers /\ UNCHANGED m_inTopics
        /\ UNCHANGED m_outTopics /\ UNCHANGED m_peers /\ UNCHANGED added
    BY <1>3 DEF TimerTick, ReceiverThread
  <2>2. OutStays /\ UNCHANGED parts /\ UNCHANGED remoteTopics
    BY <2>1 DEF vars, members, OutStays
  <2> QED
    BY <1>0, <2>1, <2>2, RoutedStays
<1>4. ASSUME usesNode, NEW p \in Callers, NodeCall(p) PROVE RInv'
  <2>1. CASE Start(p)
    BY <1>0, <1>4, <2>1, StartRoutes
  <2>2. CASE AddPeer(p)
    BY <1>0, <1>4, <2>2, AddPeerRoutes
  <2>3. CASE AddPeerJoins(p)
    BY <1>0, <1>4, <2>3, AddPeerJoinsRoutes
  <2>4. CASE AddPeerApplies(p)
    BY <1>0, <1>4, <2>4, AddPeerAppliesRoutes
  <2>5. CASE SendSpreads(p)
    BY <1>0, <1>4, <2>5, SendSpreadsRoutes
  <2>6. CASE Stop(p) \/ StopExits(p) \/ StopJoins(p)
    BY <1>0, <1>4, <2>6, StopRoutes
  <2>7. CASE StopRemoves(p)
    BY <1>0, <1>4, <2>7, StopRemovesRoutes
  <2>8. CASE StopDetaches(p)
    BY <1>0, <1>4, <2>8, StopDetachesRoutes
  <2>9. ASSUME NEW t \in Topics, NEW type \in Types, Receive(p, t, type) PROVE RInv'
    BY <1>0, <1>4, <2>9, ReceiveRoutes
  <2>10. ASSUME NEW t \in Topics, NEW type \in Types, NEW tier \in Tiers, Send(p, t, type, tier) PROVE RInv'
    BY <1>0, <1>4, <2>10, SendRoutes
  <2> QED
    BY <1>4, <2>1, <2>2, <2>3, <2>4, <2>5, <2>6, <2>7, <2>8, <2>9, <2>10 DEF NodeCall
<1> QED
  BY <1>0, <1>2, <1>3, <1>4, AllSteps

LEMMA RoutesInit ==
  ASSUME NodeInit
  PROVE  RInv
<1>1. m_peers = <<>> /\ added = 0 /\ handlers = Nil /\ remoteTopics = [x \in Parts |-> {}]
  BY DEF NodeInit, Init
<1>2. \A p \in Threads : run[p].stage = "idle"
  BY DEF NodeInit, Init, Idle
<1>3. Len(m_peers) = 0
  BY <1>1
<1>4. Distinct /\ Full /\ \A peer : NotPeer(peer)
  BY <1>3 DEF Distinct, Full, NotPeer
<1>5. Fresh
  <2>1. ASSUME NEW k \in added + 1 .. Len(PeerParts), NEW b \in Tiers PROVE PeerParts[k][b] \in Parts
    <3>1. PeerParts \in Seq(Peers)
      BY NodeConstants DEF Peers
    <3>2. k \in 1 .. Len(PeerParts)
      BY <1>1, <2>1
    <3>3. PeerParts[k] \in Peers
      BY <3>1, <3>2
    <3> QED
      BY <3>3 DEF Tiers, Peers
  <2>2. \A k \in added + 1 .. Len(PeerParts) : \A b \in Tiers : remoteTopics[PeerParts[k][b]] = {}
    BY <1>1, <2>1
  <2> QED
    BY <1>4, <2>2 DEF Fresh
<1>6. \A p \in Threads : NewOne(run[p]) /\ Progress(run[p])
  BY <1>2 DEF NewOne, Adding, Progress
<1> QED
  BY <1>1, <1>4, <1>5, <1>6 DEF RInv, Own, Routed, Handling

LEMMA RoutesKept == NodeSpec => []RInv
<1>1. NodeInit => RInv
  BY RoutesInit
<1>2. TInv /\ RInv /\ [AllNext]_allVars => RInv'
  <2>1. ASSUME RInv, UNCHANGED allVars PROVE RInv'
    <3>1. UNCHANGED vars /\ UNCHANGED nodeVars
      BY <2>1 DEF allVars
    <3>2. /\ OutStays /\ UNCHANGED parts /\ UNCHANGED remoteTopics /\ UNCHANGED usesNode /\ UNCHANGED handlers
          /\ UNCHANGED m_inTopics /\ UNCHANGED m_outTopics /\ UNCHANGED m_peers /\ UNCHANGED added /\ UNCHANGED ended
      BY <3>1 DEF vars, nodeVars, members, errs, OutStays
    <3>3. CASE ended
      BY <3>2, <3>3 DEF RInv
    <3>4. CASE ~ended
      BY <2>1, <3>2, <3>4, RoutedStays
    <3> QED
      BY <3>3, <3>4
  <2> QED
    BY <2>1, RoutesNext
<1> QED
  BY <1>1, <1>2, BusTyped, PTL DEF NodeSpec

LEMMA AllRouted ==
  ASSUME TInv, RInv
  PROVE  RoutesComplete
<1> SUFFICES ASSUME usesNode, ~ended, NobodyWithin
             PROVE  /\ \A i \in DOMAIN m_peers, tier \in Tiers :
                         /\ m_peers[i][tier] \in ToSet(parts)
                         /\ remoteTopics[m_peers[i][tier]] = {t \in Topics : <<t, tier>> \in ToSet(m_outTopics)}
                    /\ handlers # Nil => \A in \in ToSet(m_inTopics) : handlers[in[1]] = in[2]
  BY DEF RoutesComplete
<1>1. \A p \in Threads : ~Inside(p)
  BY DEF NobodyWithin, TInv, WithinOne, Inside
<1>2. Full /\ Handling
  BY <1>1 DEF RInv, Routed
<1>3. DOMAIN m_peers = 1 .. Len(m_peers) /\ DOMAIN m_inTopics = 1 .. Len(m_inTopics)
  BY DEF TInv, BInv, NodeTypes
<1>4. \A i \in DOMAIN m_peers, tier \in Tiers :
        /\ m_peers[i][tier] \in ToSet(parts)
        /\ remoteTopics[m_peers[i][tier]] = {t \in Topics : <<t, tier>> \in ToSet(m_outTopics)}
  BY <1>2, <1>3 DEF Full, Complete, TopicsOf, OutTopics
<1>5. handlers # Nil => \A in \in ToSet(m_inTopics) : handlers[in[1]] = in[2]
  BY <1>2, <1>3 DEF Handling, ToSet
<1> QED
  BY <1>4, <1>5

(* The node does what it was told to, in whatever order Receive(), Send(), *)
(* Start(), AddPeer() and Stop() were called: between its calls each peer  *)
(* is on the bus with exactly the topics of its tier and each incoming     *)
(* topic has its handler, and Stop() leaves nothing unsent that it met.    *)
THEOREM NodeDoesAsTold == NodeSpec => []NodeHolds
<1>1. TInv /\ RInv => RoutesComplete
  BY AllRouted
<1>2. RoutesComplete /\ StopFlushes => NodeHolds
  BY DEF NodeHolds
<1> QED
  BY <1>1, <1>2, BusTyped, RoutesKept, StopSends, PTL
=============================================================================
