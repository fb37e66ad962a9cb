------------------------------- MODULE DataBus ------------------------------
(***************************************************************************)
(* The data bus of one process (extras/databus/DataBus.h): topics with     *)
(* subscribers, a cache of the last value, participants that stand for     *)
(* remote nodes, and the guard a subscriber puts before what it receives   *)
(* (extras/util/MonotonicGuard.h).  The guard is "NOT thread-safe": only a *)
(* subscription whose callback runs on one thread has one.                 *)
(*                                                                         *)
(* m_mutex is held within single actions; no subscriber, no participant    *)
(* and no error handler is called under it, so subscribing and publishing  *)
(* take several steps.  A value is the number of its publication, in the   *)
(* order in which publications take m_mutex; Stamp() is the number the     *)
(* application puts into it, of a small width.  Callbacks do not call the  *)
(* bus.                                                                    *)
(***************************************************************************)
EXTENDS Integers, Sequences, SequencesExt, FiniteSets

CONSTANTS
    Threads,            \* threads that are ever inside the bus
    Callers,            \* those of the application
    Topics,
    Types,              \* data types
    Subs,               \* subscriptions; each is made at most once
    TopicOf, TypeOf,    \* TopicOf[s], TypeOf[s]: what subscription s asks for
    Cached,             \* subscriptions with QoS lastValueCache
    Lifespan,           \* those with a lifespan
    OnWorker,           \* those whose callback runs on the worker thread
    Parts,              \* participants
    Joining,            \* those that the application itself adds and removes
    SendThread,         \* those of them with a send thread
    MaxParticipants,    \* MAX_PARTICIPANTS
    EarlyCache,         \* may LastValueCache() be called for a topic without a type?
    NumMod, First,      \* width of the numbers in the values, and the number before the first
    MaxPub, MaxOps,     \* bounds: publications; other calls of the application
    Nil

ASSUME DataBusConstants ==
    /\ TopicOf \in [Subs -> Topics] /\ TypeOf \in [Subs -> Types]
    /\ Cached \subseteq Subs /\ Lifespan \subseteq Subs /\ OnWorker \subseteq Subs
    /\ Callers \subseteq Threads /\ Joining \subseteq Parts /\ SendThread \subseteq Joining /\ EarlyCache \in BOOLEAN
    /\ MaxParticipants \in Nat \ {0} /\ NumMod \in Nat /\ MaxPub \in Nat /\ MaxPub < NumMod \div 2
    /\ First \in 0..NumMod - 1 /\ MaxOps \in Nat
    /\ Nil \notin Types \cup (0..NumMod - 1) \cup [val : 1..MaxPub, type : Types]

VARIABLES
    types,              \* m_typeIndices
    signals,            \* topics with a signal
    subs,               \* subs[t]: the subscriptions connected to the signal of t
    qos,                \* topics with m_topicQos.lastValueCache
    lastValue,          \* m_lastValues: [val, type] or Nil
    serializers,        \* topics with a serializer
    parts, errConn,     \* m_participants, and the participant of each m_participantErrorConnections
    remoteTopics,       \* remoteTopics[x]: m_topicToRemoteId of participant x
    sendThread,         \* participants with m_sendThread
    sender,             \* that thread: it "runs", "exits" or is "gone"
    closed,             \* participants whose transport is closed
    reported,           \* m_reportedErrors
    latched,            \* latched[x]: m_reportedErrors of participant x
    continuous,         \* m_continuousErrors
    fired,              \* fired[t][e]: emissions of m_errorSignal while not continuous
    unhandled,          \* values m_unhandledSignal was emitted for
    ended,              \* a fault has ended the process
    run,                \* run[p]: the call thread p is in, or Idle
    mail,               \* the worker's messages: [sub, val]
    outbox,             \* the send thread's messages: [part, val]
    sent,               \* sent[x]: values that were sent to participant x
    thrown,             \* publications that ended in an exception
    got,                \* got[s]: values that reached subscription s
    guard,              \* guard[s]: m_lastTimestamp of the MonotonicGuard of s \in OnWorker, or Nil
    pubs, ops,          \* publications and other calls so far
    remote              \* remote[v]: participants on the bus with a remote id for the
                        \*   topic when v was published, if it is not local and can be sent

registry == <<types, signals, subs, qos, lastValue, serializers>>
wiring   == <<sendThread, sender, closed>>
members  == <<parts, errConn, remoteTopics, wiring>>
errs     == <<reported, latched, continuous, fired, unhandled, ended>>
arrived  == <<mail, got, guard>>
outgoing == <<outbox, sent, thrown>>
bounds   == <<pubs, ops, remote>>
vars     == <<registry, members, errs, run, arrived, outgoing, bounds>>

Vals   == 1..MaxPub
Errors == {"ERR_TYPE_MISMATCH", "ERR_NO_SERIALIZER", "ERR_SEND"}
Idle   == [stage |-> "idle"]

Init ==
    /\ types = [t \in Topics |-> Nil] /\ signals = {} /\ subs = [t \in Topics |-> <<>>]
    /\ qos = {} /\ lastValue = [t \in Topics |-> Nil] /\ serializers = {}
    /\ parts = <<>> /\ errConn = <<>> /\ remoteTopics = [x \in Parts |-> {}]
    /\ sendThread = SendThread /\ sender = "runs" /\ closed = {}
    /\ reported = {} /\ latched = [x \in Parts |-> {}] /\ continuous = FALSE
    /\ fired = [t \in Topics |-> [e \in Errors |-> 0]] /\ unhandled = {} /\ ended = FALSE
    /\ run = [p \in Threads |-> Idle]
    /\ mail = <<>> /\ got = [s \in Subs |-> <<>>] /\ guard = [s \in Subs |-> Nil]
    /\ outbox = <<>> /\ sent = [x \in Parts |-> <<>>] /\ thrown = {}
    /\ pubs = 0 /\ ops = 0 /\ remote = [v \in Vals |-> {}]

At(p, stage) == run[p].stage = stage
Goto(p, next) == run' = [run EXCEPT ![p] = next]

(* Application code makes a call.                                          *)
Calls(p) == At(p, "idle") /\ ops < MaxOps /\ ops' = ops + 1 /\ UNCHANGED <<pubs, remote>>

-----------------------------------------------------------------------------
(* Errors: each kind once per topic, unless in continuous mode.            *)

InternalReportLatchedError(t, e) ==
    /\ reported' = reported \cup {<<t, e>>}
    /\ fired' = [fired EXCEPT ![t][e] = IF <<t, e>> \notin reported /\ ~continuous THEN @ + 1 ELSE @]

(* A call with the wrong type ends the process.                            *)
Mismatch(t) ==
    /\ InternalReportLatchedError(t, "ERR_TYPE_MISMATCH")
    /\ ended' = TRUE
    /\ UNCHANGED <<latched, continuous, unhandled>>

Fits(t, type) == types[t] \in {Nil, type}

InternalEnableContinuousErrors(p, enable) ==
    /\ Calls(p) /\ continuous' = enable
    /\ UNCHANGED <<registry, members, reported, latched, fired, unhandled, ended, run, arrived, outgoing>>

(* A send of participant x has failed; its latch comes before the bus's.   *)
OnChannelError(x, t) ==
    /\ sent[x] # <<>> /\ t \in remoteTopics[x]
    /\ latched' = [latched EXCEPT ![x] = @ \cup {t}]
    /\ IF (t \notin latched[x] \/ continuous) /\ \E i \in DOMAIN errConn : errConn[i] = x
       THEN InternalReportLatchedError(t, "ERR_SEND") ELSE UNCHANGED <<reported, fired>>
    /\ UNCHANGED <<registry, members, continuous, unhandled, ended, run, arrived, outgoing, bounds>>

-----------------------------------------------------------------------------
(* A value reaches a subscription.                                         *)

(* The difference as a signed number of the same width is positive.        *)
IsNewer(n, m) == (n - m) % NumMod \in 1..(NumMod \div 2) - 1

Stamp(v) == (First + v) % NumMod

Reaches(s, v) == got' = [got EXCEPT ![s] = Append(@, v)]

(* The callback on the worker thread asks its guard first. *)
Guarded(s, v) ==
    guard' = [guard EXCEPT ![s] = IF @ = Nil THEN Stamp(v) ELSE IF IsNewer(Stamp(v), @) THEN Stamp(v) ELSE @]

Deliver(s, v) ==
    IF s \in OnWorker THEN mail' = Append(mail, [sub |-> s, val |-> v]) /\ UNCHANGED <<got, guard>>
    ELSE Reaches(s, v) /\ UNCHANGED <<mail, guard>>

WorkerServes ==
    /\ mail # <<>> /\ mail' = Tail(mail)
    /\ Reaches(Head(mail).sub, Head(mail).val) /\ Guarded(Head(mail).sub, Head(mail).val)
    /\ UNCHANGED <<registry, members, errs, run, outgoing, bounds>>

-----------------------------------------------------------------------------
(* Subscribe(): find the signal, connect, look into the cache, deliver.    *)

(* Mutant: the cache is looked into before the connection is there.        *)
CacheFirst(stage) == CASE stage = "lock" -> "cache" [] stage = "cache" -> "connect" [] stage = "connect" -> "last"

Then(stage) == CASE stage = "lock" -> "connect" [] stage = "connect" -> "cache" [] stage = "cache" -> "last"

(* A call of Subscribe() for s is under way.                               *)
Subscribing(q, s) == run[q].stage \in {"connect", "cache", "last"} /\ run[q].sub = s

SubscribeLock(p, s) ==
    LET t == TopicOf[s]
    IN  /\ Calls(p) /\ s \notin ToSet(subs[t]) /\ got[s] = <<>>
        /\ \A q \in Threads : ~Subscribing(q, s)
        /\ qos' = IF s \in Cached THEN qos \cup {t} ELSE qos
        /\ IF Fits(t, TypeOf[s])
           THEN /\ types' = [types EXCEPT ![t] = TypeOf[s]] /\ signals' = signals \cup {t}
                /\ Goto(p, [stage |-> Then("lock"), sub |-> s, vals |-> {}]) /\ UNCHANGED errs
           ELSE Mismatch(t) /\ UNCHANGED <<types, signals, run>>
        /\ UNCHANGED <<subs, lastValue, serializers, members, arrived, outgoing>>

(* What of the cache is delivered to s.                                    *)
CacheFor(s) ==
    IF s \in Cached /\ lastValue[TopicOf[s]] # Nil THEN {lastValue[TopicOf[s]].val} ELSE {}

SubscribeConnect(p) ==
    LET s == run[p].sub
    IN  /\ At(p, "connect")
        /\ subs' = [subs EXCEPT ![TopicOf[s]] = Append(@, s)]
        /\ Goto(p, [run[p] EXCEPT !.stage = Then("connect")]) /\ UNCHANGED arrived

(* An old value is not delivered to a subscription with a lifespan.        *)
SubscribeReadCache(p) ==
    /\ At(p, "cache") /\ UNCHANGED <<subs, arrived>>
    /\ \E vals \in {CacheFor(run[p].sub)} \cup (IF run[p].sub \in Lifespan THEN {{}} ELSE {}) :
         Goto(p, [run[p] EXCEPT !.stage = Then("cache"), !.vals = vals])

SubscribeDeliver(p) ==
    /\ At(p, "last") /\ Goto(p, Idle) /\ UNCHANGED subs
    /\ IF run[p].vals = {} THEN UNCHANGED arrived ELSE \E v \in run[p].vals : Deliver(run[p].sub, v)

InternalSubscribe(p) ==
    /\ SubscribeConnect(p) \/ SubscribeReadCache(p) \/ SubscribeDeliver(p)
    /\ UNCHANGED <<types, signals, qos, lastValue, serializers, members, errs, outgoing, bounds>>

(* The application gives its connection up.                                *)
Disconnect(p, s) ==
    /\ Calls(p) /\ \A q \in Threads : ~Subscribing(q, s)
    /\ \E i \in DOMAIN subs[TopicOf[s]] :
         subs[TopicOf[s]][i] = s /\ subs' = [subs EXCEPT ![TopicOf[s]] = RemoveAt(@, i)]
    /\ UNCHANGED <<types, signals, qos, lastValue, serializers, members, errs, run, arrived, outgoing>>

-----------------------------------------------------------------------------
(* Publish() and PublishLocal().                                           *)

(* Mutant: the cache is written before the type is known to fit.           *)
StoreUnchecked(t, type, v) ==
    lastValue' = IF t \in qos THEN [lastValue EXCEPT ![t] = [val |-> v, type |-> type]] ELSE lastValue

StoreLast(t, type, v) ==
    lastValue' = IF t \in qos /\ Fits(t, type) THEN [lastValue EXCEPT ![t] = [val |-> v, type |-> type]] ELSE lastValue

(* Under m_mutex: check the type, store the value, and take what is needed *)
(* to deliver it.                                                          *)
PublishLock(p, t, type, local) ==
    /\ At(p, "idle") /\ pubs < MaxPub /\ pubs' = pubs + 1 /\ UNCHANGED ops
    /\ StoreLast(t, type, pubs')
    /\ IF Fits(t, type)
       THEN /\ Goto(p, [stage |-> "local", topic |-> t, val |-> pubs', local |-> local, signal |-> t \in signals,
                        serializer |-> t \in serializers, parts |-> parts, handled |-> FALSE,
                        todo |-> <<>>, to |-> {}])
            /\ remote' = [remote EXCEPT ![pubs'] = IF local \/ t \notin serializers THEN {}
                                                   ELSE {x \in ToSet(parts) : t \in remoteTopics[x]}]
            /\ UNCHANGED errs
       ELSE Mismatch(t) /\ UNCHANGED <<run, remote>>
    /\ UNCHANGED <<types, signals, subs, qos, serializers, members, arrived, outgoing>>

(* The signal takes its own snapshot of the subscribers.                   *)
EmitLocal(p) ==
    LET c == run[p]
    IN  /\ At(p, "local")
        /\ Goto(p, IF c.signal THEN [c EXCEPT !.stage = "call", !.handled = TRUE, !.todo = subs[c.topic]]
                   ELSE [c EXCEPT !.stage = "interest"])
        /\ UNCHANGED <<errs, arrived, outgoing>>

CallSubscriber(p) ==
    LET c == run[p]
    IN  /\ At(p, "call")
        /\ IF c.todo = <<>> THEN Goto(p, [c EXCEPT !.stage = "interest"]) /\ UNCHANGED arrived
           ELSE Deliver(Head(c.todo), c.val) /\ Goto(p, [c EXCEPT !.todo = Tail(@)])
        /\ UNCHANGED <<errs, outgoing>>

(* Mutant: the participants are those that are on the bus by now.          *)
InterestedNow(c) == IF c.local THEN {} ELSE {x \in ToSet(parts) : c.topic \in remoteTopics[x]}

(* The participants of the snapshot that have a remote id for the topic.   *)
Interested(c) == IF c.local THEN {} ELSE {x \in ToSet(c.parts) : c.topic \in remoteTopics[x]}

FindInterest(p) ==
    LET c == run[p]
        x == Interested(c)
    IN  /\ At(p, "interest")
        /\ Goto(p, IF x = {} THEN [c EXCEPT !.stage = "end"]
                   ELSE IF c.serializer THEN [c EXCEPT !.stage = "send", !.to = x, !.handled = TRUE]
                   ELSE [c EXCEPT !.stage = "end", !.handled = TRUE])
        /\ IF x # {} /\ ~c.serializer
           THEN InternalReportLatchedError(c.topic, "ERR_NO_SERIALIZER") ELSE UNCHANGED <<reported, fired>>
        /\ UNCHANGED <<latched, continuous, unhandled, ended, arrived, outgoing>>

(* Participant::Send(): at once, or by the send thread, whose               *)
(* DispatchDelegate() discards messages while it exits and throws when it  *)
(* is gone.  A closed transport sends nothing.                             *)
Transmit(x, v) == sent' = IF x \in closed THEN sent ELSE [sent EXCEPT ![x] = Append(@, v)]

SendBy(p, x) ==
    LET c == run[p]
    IN  CASE x \notin sendThread -> Transmit(x, c.val) /\ UNCHANGED <<outbox, thrown>>
          [] x \in sendThread /\ sender = "runs" ->
               outbox' = Append(outbox, [part |-> x, val |-> c.val]) /\ UNCHANGED <<sent, thrown>>
          [] x \in sendThread /\ sender = "exits" -> UNCHANGED outgoing
          [] x \in sendThread /\ sender = "gone" -> thrown' = thrown \cup {c.val} /\ UNCHANGED <<outbox, sent>>

(* They are sent to in the order of the snapshot.                          *)
SendRemote(p) ==
    LET c == run[p]
    IN  /\ At(p, "send")
        /\ IF c.to = {} THEN Goto(p, [c EXCEPT !.stage = "end"]) /\ UNCHANGED outgoing
           ELSE \E i \in DOMAIN c.parts :
                  /\ c.parts[i] \in c.to /\ \A j \in 1..i - 1 : c.parts[j] \notin c.to
                  /\ SendBy(p, c.parts[i])
                  /\ Goto(p, IF c.val \in thrown' THEN Idle ELSE [c EXCEPT !.to = @ \ {c.parts[i]}])
        /\ UNCHANGED <<errs, arrived>>

PublishReturns(p) ==
    /\ At(p, "end") /\ Goto(p, Idle)
    /\ unhandled' = IF run[p].handled THEN unhandled ELSE unhandled \cup {run[p].val}
    /\ UNCHANGED <<reported, latched, continuous, fired, ended, arrived, outgoing>>

InternalPublish(p) ==
    /\ EmitLocal(p) \/ CallSubscriber(p) \/ FindInterest(p) \/ SendRemote(p) \/ PublishReturns(p)
    /\ UNCHANGED <<registry, members, bounds>>

AsyncSend ==
    /\ outbox # <<>> /\ outbox' = Tail(outbox)
    /\ Transmit(Head(outbox).part, Head(outbox).val)
    /\ UNCHANGED <<thrown, registry, members, errs, run, arrived, bounds>>

-----------------------------------------------------------------------------
(* Participants and registrations.                                         *)

(* The error connection is made first, outside m_mutex.  With no room left *)
(* the process ends.  A participant is added again only after its removal. *)
AddParticipant(p, x) ==
    /\ Calls(p) /\ x \notin ToSet(parts)
    /\ \A q \in Threads : At(q, "add") => run[q].part # x
    /\ Goto(p, [stage |-> "add", part |-> x])
    /\ UNCHANGED <<registry, members, errs, arrived, outgoing>>

Join(x) ==
    IF Len(parts) < MaxParticipants
    THEN parts' = Append(parts, x) /\ errConn' = Append(errConn, x) /\ UNCHANGED ended
    ELSE ended' = TRUE /\ UNCHANGED <<parts, errConn>>

InternalAddParticipant(p) ==
    /\ At(p, "add") /\ Goto(p, Idle) /\ Join(run[p].part)
    /\ UNCHANGED <<registry, remoteTopics, wiring, reported, latched, continuous, fired, unhandled, arrived, outgoing, bounds>>

(* Both arrays close the gap, the order stays.                             *)
Shift(i) ==
    /\ parts' = RemoveAt(parts, i)
    /\ errConn' = RemoveAt(errConn, i)

InternalRemoveParticipant(p, x) ==
    /\ Calls(p)
    /\ \E i \in DOMAIN parts : parts[i] = x /\ Shift(i)
    /\ UNCHANGED <<registry, remoteTopics, wiring, errs, run, arrived, outgoing>>

AddRemoteTopic(p, x, t) ==
    /\ Calls(p) /\ t \notin remoteTopics[x]
    /\ remoteTopics' = [remoteTopics EXCEPT ![x] = @ \cup {t}]
    /\ UNCHANGED <<registry, parts, errConn, wiring, errs, run, arrived, outgoing>>

(* RegisterStringifier() does the same for the type.                       *)
InternalRegisterSerializer(p, t, type) ==
    /\ Calls(p)
    /\ IF Fits(t, type)
       THEN types' = [types EXCEPT ![t] = type] /\ serializers' = serializers \cup {t} /\ UNCHANGED errs
       ELSE Mismatch(t) /\ UNCHANGED <<types, serializers>>
    /\ UNCHANGED <<signals, subs, qos, lastValue, members, run, arrived, outgoing>>

InternalLastValueCache(p, t, enabled) ==
    /\ Calls(p) /\ (EarlyCache \/ types[t] # Nil)
    /\ qos' = IF enabled THEN qos \cup {t} ELSE qos \ {t}
    /\ UNCHANGED <<types, signals, subs, lastValue, serializers, members, errs, run, arrived, outgoing>>

-----------------------------------------------------------------------------
Next ==
    /\ ~ended
    /\ \/ \E p \in Callers :
            \/ \E s \in Subs : SubscribeLock(p, s) \/ Disconnect(p, s)
            \/ InternalSubscribe(p) \/ InternalPublish(p) \/ InternalAddParticipant(p)
            \/ \E t \in Topics, type \in Types :
                 InternalRegisterSerializer(p, t, type) \/ \E local \in BOOLEAN : PublishLock(p, t, type, local)
            \/ \E x \in Joining : AddParticipant(p, x) \/ InternalRemoveParticipant(p, x) \/ \E t \in Topics : AddRemoteTopic(p, x, t)
            \/ \E b \in BOOLEAN : InternalEnableContinuousErrors(p, b) \/ \E t \in Topics : InternalLastValueCache(p, t, b)
       \/ \E x \in Joining, t \in Topics : OnChannelError(x, t)
       \/ WorkerServes \/ AsyncSend

Spec == Init /\ [][Next]_vars

-----------------------------------------------------------------------------
(* What must hold.                                                         *)

(* The variables have their types; the connections of the participants are *)
(* where their participants are.                                           *)
TypeOK ==
    /\ types \in [Topics -> Types \cup {Nil}] /\ signals \subseteq Topics /\ qos \subseteq Topics
    /\ \A t \in Topics : ToSet(subs[t]) \subseteq Subs /\ (types[t] = Nil => t \notin signals)
    /\ Len(parts) <= MaxParticipants /\ errConn = parts
    /\ \A s \in Subs : guard[s] \in 0..NumMod - 1 \cup {Nil} /\ ToSet(got[s]) \subseteq Vals
    /\ \A x \in Parts : ToSet(sent[x]) \subseteq Vals

(* No call is under way, and no message.                                   *)
Quiet == ~ended /\ mail = <<>> /\ outbox = <<>> /\ \A p \in Threads : At(p, "idle")

Connected(s) == s \in ToSet(subs[TopicOf[s]])

(* "Signal connection is established before LVC delivery to ensure no      *)
(* messages are missed" (DataBus.h:80): however Subscribe() and Publish()  *)
(* interleave, a subscription that asked for the last value gets it.       *)
NothingMissed ==
    Quiet => \A s \in Cached \ Lifespan :
      Connected(s) /\ lastValue[TopicOf[s]] # Nil => lastValue[TopicOf[s]].val \in ToSet(got[s])

(* The rewind (DataBus.h:381-384) and two publishers deliver values out of *)
(* order, and numbers wrap; on the worker, where a guard may be used, it   *)
(* still ends on the newest value.                                         *)
NewestWins ==
    Quiet => \A s \in OnWorker :
      got[s] # <<>> => guard[s] = Stamp(CHOOSE v \in ToSet(got[s]) : \A w \in ToSet(got[s]) : w <= v)

(* A value in the cache has the type of its topic: it is cast to that type *)
(* without a check when a subscriber gets it (DataBus.h:373).              *)
CacheHasType ==
    \A t \in Topics : lastValue[t] # Nil /\ types[t] # Nil => lastValue[t].type = types[t]

(* While participants come and go, one that was on the bus when a value    *)
(* was published gets it once, and nobody gets it twice; except that a     *)
(* transport closed meanwhile sends nothing, and that an exception ends a  *)
(* publication (InternalPublish, Participant::Send).                       *)
SentOnce ==
    \A x \in Parts :
      /\ IsInjective(sent[x])
      /\ Quiet => \A v \in (1..pubs) \ thrown :
                    x \in remote[v] \ closed => v \in ToSet(sent[x])

(* An error of a topic is reported once, whoever meets it.                 *)
LatchedOnce == \A t \in Topics, e \in Errors : fired[t][e] <= 1

(* The tables of the bus agree with each other: members with their error   *)
(* connections, cached values with the types of their topics, and reports  *)
(* with the latches.                                                       *)
BusConsistent == TypeOK /\ CacheHasType /\ LatchedOnce

(* At rest, whoever asked for the last value has it, and whoever guards    *)
(* against old ones has kept the newest he got.                            *)
SubscribersUpToDate == NothingMissed /\ NewestWins
=============================================================================
