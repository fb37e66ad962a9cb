----------------------------- MODULE NetworkNode ----------------------------
(***************************************************************************)
(* A node of the bus on a network (extras/databus/NetworkNode.h): a        *)
(* participant that receives, two participants for each peer (reliable and *)
(* not), and a thread that polls, sends, and is ended by Stop().           *)
(*                                                                         *)
(* The node has no lock: one thread at a time calls it, while others       *)
(* publish.  An application either uses a node, or joins participants to   *)
(* the bus itself, as in DataBus.  The monitors of reliable sending are    *)
(* modelled in Retry; here a send succeeds while the transport is open.    *)
(* In the queue of the node's thread the order of sends and polls is left  *)
(* out, and its limit.                                                     *)
(***************************************************************************)
EXTENDS DataBus

CONSTANTS
    Net,                \* the node's thread
    PeerParts,          \* [rel, raw]: the participants of the peers that are added, in order
    MaxPeers, MaxTopics,
    MaxNodeOps          \* bound: calls of the node

ASSUME NodeConstants ==
    /\ Net \in Threads \ Callers
    /\ PeerParts \in Seq([rel : Parts \ Joining, raw : Parts \ Joining])
    /\ \A i, j \in DOMAIN PeerParts : PeerParts[i].rel # PeerParts[j].raw
                                    /\ (i # j => PeerParts[i].rel # PeerParts[j].rel /\ PeerParts[i].raw # PeerParts[j].raw)
    /\ MaxPeers \in Nat /\ MaxTopics \in Nat /\ MaxNodeOps \in Nat
    /\ Nil \notin [Topics -> Types \cup {Nil}]

VARIABLES
    usesNode,           \* this application uses a node
    m_running,          \* the receiving transport is open too, and the timer runs
    m_thread,           \* m_thread has a value; sender says whether it runs
    handlers,           \* the handlers of m_recvParticipant: a type for a topic, or Nil if
                        \*   there is no participant yet
    m_inTopics,         \* <<topic, type>>
    m_outTopics,        \* <<topic, tier>>
    m_peers,            \* the peers, as many as m_peerCount says
    added,              \* peers ever added
    tick,               \* the poll: "none", "due", "queued" or "running"
    before              \* history: when Stop() was called, the publications that had returned,
                        \*   each with a participant it went to whose transport was open

nodeVars == <<usesNode, m_running, m_thread, handlers, m_inTopics, m_outTopics, m_peers, added, tick, before>>
allVars  == <<vars, nodeVars>>

Tiers == {"rel", "raw"}

NodeInit ==
    /\ Init
    /\ usesNode \in BOOLEAN /\ m_running = FALSE /\ m_thread = FALSE
    /\ handlers = Nil /\ m_inTopics = <<>> /\ m_outTopics = <<>>
    /\ m_peers = <<>> /\ added = 0 /\ tick = "none" /\ before = {}

Within == {"joins bus", "applies", "spreads", "exits", "joins thread", "removes", "detaches"}
NobodyWithin == \A p \in Callers : run[p].stage \notin Within

NodeCalls(p) ==
    /\ At(p, "idle") /\ NobodyWithin
    /\ ops < MaxNodeOps /\ ops' = ops + 1 /\ UNCHANGED <<pubs, remote>>

(* ASSERT_TRUE ends the process. *)
Asserts == ended' = TRUE /\ UNCHANGED <<reported, latched, continuous, fired, unhandled>>

-----------------------------------------------------------------------------
(* Receiving.                                                              *)

(* AddIncomingTopic() of several topics: the handler of a topic has one    *)
(* type.                                                                   *)
Handlers(ins) ==
    [t \in Topics |-> IF \E type \in Types : <<t, type>> \in ToSet(ins)
                      THEN CHOOSE type \in Types : <<t, type>> \in ToSet(ins) ELSE Nil]
Consistent(ins) == \A x, y \in ToSet(ins) : x[1] = y[1] => x[2] = y[2]

(* Start() does nothing if it cannot open the transport.                   *)
Start(p) ==
    /\ NodeCalls(p) /\ ~m_running
    /\ IF Consistent(m_inTopics)
       THEN /\ handlers' = Handlers(m_inTopics) /\ m_thread' = TRUE /\ m_running' = TRUE
            /\ sender' = "runs" /\ UNCHANGED errs
       ELSE Asserts /\ UNCHANGED <<handlers, m_thread, m_running, sender>>
    /\ UNCHANGED <<registry, parts, errConn, remoteTopics, sendThread, closed, run, arrived, outgoing,
                   usesNode, m_inTopics, m_outTopics, m_peers, added, tick, before>>

Receive(p, t, type) ==
    /\ NodeCalls(p)
    /\ LET ins == Append(m_inTopics, <<t, type>>)
       IN  IF Len(m_inTopics) < MaxTopics /\ (handlers # Nil => Consistent(ins))
           THEN /\ m_inTopics' = ins /\ UNCHANGED errs
                /\ handlers' = IF handlers = Nil THEN Nil ELSE [handlers EXCEPT ![t] = type]
           ELSE Asserts /\ UNCHANGED <<m_inTopics, handlers>>
    /\ UNCHANGED <<registry, members, run, arrived, outgoing,
                   usesNode, m_running, m_thread, m_outTopics, m_peers, added, tick, before>>

(* The timer's delegate, called outside the timers' lock, posts one poll   *)
(* at a time; the post may come late.                                      *)
TimerTick ==
    /\ \/ tick = "none" /\ m_running /\ tick' = "due"
       \/ tick = "due" /\ tick' = IF sender = "runs" THEN "queued" ELSE "none"
    /\ UNCHANGED <<vars, usesNode, m_running, m_thread, handlers, m_inTopics, m_outTopics, m_peers, added, before>>

(* ReceiverThread(): as long as something comes it is published locally,   *)
(* on the node's thread.                                                   *)
ProcessIncoming ==
    /\ tick = "running" /\ At(Net, "idle") /\ m_running
    /\ \E t \in Topics : handlers[t] # Nil /\ PublishLock(Net, t, handlers[t], TRUE)
    /\ UNCHANGED nodeVars

ReceiverThread ==
    /\ \/ tick = "queued" /\ tick' = "running"
       \/ tick = "running" /\ At(Net, "idle") /\ tick' = "none"
    /\ UNCHANGED <<vars, usesNode, m_running, m_thread, handlers, m_inTopics, m_outTopics, m_peers, added, before>>

-----------------------------------------------------------------------------
(* Sending: two participants for a peer.                                   *)

(* AddPeer() does nothing if it cannot open the transport.                 *)
AddPeer(p) ==
    /\ NodeCalls(p) /\ added < Len(PeerParts)
    /\ LET peer == PeerParts[added + 1]
       IN  IF Len(m_peers) < MaxPeers
           THEN /\ sendThread' = IF m_thread THEN sendThread \cup {peer.rel, peer.raw} ELSE sendThread
                /\ added' = added + 1
                /\ Goto(p, [stage |-> "joins bus", peer |-> peer, todo |-> <<peer.rel, peer.raw>>])
                /\ UNCHANGED errs
           ELSE Asserts /\ UNCHANGED <<sendThread, added, run>>
    /\ UNCHANGED <<registry, parts, errConn, remoteTopics, sender, closed, arrived, outgoing,
                   usesNode, m_running, m_thread, handlers, m_inTopics, m_outTopics, m_peers, tick, before>>

AddPeerJoins(p) ==
    LET c == run[p]
    IN  /\ At(p, "joins bus") /\ Join(Head(c.todo))
        /\ Goto(p, IF Len(c.todo) > 1 THEN [c EXCEPT !.todo = Tail(@)]
                   ELSE [stage |-> "applies", peer |-> c.peer, at |-> 1])
        /\ UNCHANGED <<registry, remoteTopics, wiring, reported, latched, continuous, fired, unhandled,
                       arrived, outgoing, bounds, nodeVars>>

(* A topic goes to the participant of its tier. *)
Route(peer, topic) == remoteTopics' = [remoteTopics EXCEPT ![peer[topic[2]]] = @ \cup {topic[1]}]

(* Mutant: the topics known before the peer are forgotten. *)
AddPeerForgets(p) ==
    /\ At(p, "applies") /\ Goto(p, Idle) /\ m_peers' = Append(m_peers, run[p].peer)
    /\ UNCHANGED <<registry, members, errs, arrived, outgoing, bounds,
                   usesNode, m_running, m_thread, handlers, m_inTopics, m_outTopics, added, tick, before>>

AddPeerApplies(p) ==
    LET c == run[p]
    IN  /\ At(p, "applies")
        /\ IF c.at <= Len(m_outTopics)
           THEN Route(c.peer, m_outTopics[c.at]) /\ Goto(p, [c EXCEPT !.at = @ + 1]) /\ UNCHANGED m_peers
           ELSE m_peers' = Append(m_peers, c.peer) /\ Goto(p, Idle) /\ UNCHANGED remoteTopics
        /\ UNCHANGED <<registry, parts, errConn, wiring, errs, arrived, outgoing, bounds,
                       usesNode, m_running, m_thread, handlers, m_inTopics, m_outTopics, added, tick, before>>

(* Send() of a topic, once in each tier. *)
Send(p, t, type, tier) ==
    /\ NodeCalls(p) /\ <<t, tier>> \notin ToSet(m_outTopics)
    /\ IF Len(m_outTopics) < MaxTopics /\ Fits(t, type)
       THEN /\ types' = [types EXCEPT ![t] = type] /\ serializers' = serializers \cup {t}
            /\ m_outTopics' = Append(m_outTopics, <<t, tier>>)
            /\ Goto(p, [stage |-> "spreads", topic |-> <<t, tier>>, at |-> 1]) /\ UNCHANGED errs
       ELSE Asserts /\ UNCHANGED <<types, serializers, m_outTopics, run>>
    /\ UNCHANGED <<signals, subs, qos, lastValue, members, arrived, outgoing,
                   usesNode, m_running, m_thread, handlers, m_inTopics, m_peers, added, tick, before>>

SendSpreads(p) ==
    LET c == run[p]
    IN  /\ At(p, "spreads")
        /\ IF c.at <= Len(m_peers)
           THEN Route(m_peers[c.at], c.topic) /\ Goto(p, [c EXCEPT !.at = @ + 1])
           ELSE Goto(p, Idle) /\ UNCHANGED remoteTopics
        /\ UNCHANGED <<registry, parts, errConn, wiring, errs, arrived, outgoing, bounds, nodeVars>>

-----------------------------------------------------------------------------
(* Stop(): the timer, the receiving transport, then the thread, which ends *)
(* its queue first, then the peers from the last to the first.             *)

UnderWay == {run[p].val : p \in {q \in Threads : run[q].stage \in {"local", "call", "interest", "send", "end"}}}

Stop(p) ==
    /\ NodeCalls(p) /\ m_running /\ m_running' = FALSE
    /\ before' = {b \in ((1..pubs) \ (UnderWay \cup thrown)) \X (Parts \ closed) : b[2] \in remote[b[1]]}
    /\ Goto(p, [stage |-> "exits"])
    /\ UNCHANGED <<registry, members, errs, arrived, outgoing,
                   usesNode, m_thread, handlers, m_inTopics, m_outTopics, m_peers, added, tick>>

StopExits(p) ==
    /\ At(p, "exits") /\ sender' = "exits" /\ Goto(p, [stage |-> "joins thread"])
    /\ UNCHANGED <<registry, parts, errConn, remoteTopics, sendThread, closed, errs, arrived, outgoing, bounds, nodeVars>>

(* The standard-library thread serves its queue before it ends; the loops  *)
(* of the RTOS ports may leave some of it (module Ports).                  *)
Joined == outbox = <<>> /\ tick \notin {"queued", "running"}

StopJoins(p) ==
    /\ At(p, "joins thread") /\ Joined
    /\ sender' = "gone"
    /\ Goto(p, [stage |-> "removes", at |-> Len(m_peers), todo |-> <<"rel", "raw">>])
    /\ UNCHANGED <<registry, parts, errConn, remoteTopics, sendThread, closed, errs, arrived, outgoing, bounds, nodeVars>>

StopRemoves(p) ==
    LET c == run[p]
    IN  /\ At(p, "removes")
        /\ IF c.at = 0
           THEN m_peers' = <<>> /\ Goto(p, Idle) /\ UNCHANGED <<parts, errConn>>
           ELSE /\ \E i \in DOMAIN parts : parts[i] = m_peers[c.at][Head(c.todo)] /\ Shift(i)
                /\ Goto(p, IF Len(c.todo) > 1 THEN [c EXCEPT !.todo = Tail(@)]
                           ELSE [stage |-> "detaches", at |-> c.at])
                /\ UNCHANGED m_peers
        /\ UNCHANGED <<registry, remoteTopics, wiring, errs, arrived, outgoing, bounds,
                       usesNode, m_running, m_thread, handlers, m_inTopics, m_outTopics, added, tick, before>>

(* SetSendThread(nullptr) for one participant, then for the other, then    *)
(* Close() of the transport they share.                                    *)
StopDetaches(p) ==
    LET c == run[p]
        peer == m_peers[c.at]
        x == IF peer.rel \in sendThread THEN peer.rel ELSE peer.raw
    IN  /\ At(p, "detaches")
        /\ IF x \in sendThread THEN sendThread' = sendThread \ {x} /\ UNCHANGED <<closed, run>>
           ELSE /\ closed' = closed \cup {peer.rel, peer.raw} /\ UNCHANGED sendThread
                /\ Goto(p, [stage |-> "removes", at |-> c.at - 1, todo |-> <<"rel", "raw">>])
        /\ UNCHANGED <<registry, parts, errConn, remoteTopics, sender, errs, arrived, outgoing, bounds, nodeVars>>

-----------------------------------------------------------------------------
NodeNext ==
    \/ \E p \in Callers :
         \/ Start(p) \/ AddPeer(p) \/ AddPeerJoins(p) \/ AddPeerApplies(p) \/ SendSpreads(p)
         \/ Stop(p) \/ StopExits(p) \/ StopJoins(p) \/ StopRemoves(p) \/ StopDetaches(p)
         \/ \E t \in Topics, type \in Types :
              \/ Receive(p, t, type) \/ \E tier \in Tiers : Send(p, t, type, tier)
              \/ PublishLock(p, t, type, FALSE) /\ UNCHANGED nodeVars
    \/ \E p \in Threads : InternalPublish(p) /\ UNCHANGED nodeVars
    \/ TimerTick \/ ReceiverThread \/ ProcessIncoming
    \/ tick # "running" /\ AsyncSend /\ UNCHANGED nodeVars

AllNext ==
    \/ usesNode /\ ~ended /\ NodeNext
    \/ ~usesNode /\ Next /\ UNCHANGED nodeVars

NodeSpec == NodeInit /\ [][AllNext]_allVars

-----------------------------------------------------------------------------
(* "Receive() and Send() may be called before or after Start() / AddPeer() *)
(* in any order" (NetworkNode.h:32): between calls of the node every peer  *)
(* is on the bus and gets each outgoing topic in its tier and in no other, *)
(* and every incoming topic has its handler.                               *)
RoutesComplete ==
    usesNode /\ ~ended /\ NobodyWithin =>
      /\ \A i \in DOMAIN m_peers, tier \in Tiers :
           /\ m_peers[i][tier] \in ToSet(parts)
           /\ remoteTopics[m_peers[i][tier]] = {t \in Topics : <<t, tier>> \in ToSet(m_outTopics)}
      /\ handlers # Nil => \A in \in ToSet(m_inTopics) : handlers[in[1]] = in[2]

(* What a publication that had returned when Stop() was called has handed  *)
(* to the node is on the wire when Stop() returns: the thread sends what   *)
(* is in its queue before the transports are closed.  What the thread of   *)
(* an earlier Stop() refused is not meant: its transport was closed then.  *)
StopFlushes ==
    usesNode /\ ~ended /\ NobodyWithin /\ ~m_running =>
      \A b \in before : b[1] \in ToSet(sent[b[2]])

(* The node does what it was told to, before and after Start() and Stop(). *)
NodeHolds == RoutesComplete /\ StopFlushes
=============================================================================
