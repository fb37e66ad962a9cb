------------------------------- MODULE Retry -------------------------------
(***************************************************************************)
(* Reliable sending over an unreliable network: the Dispatcher numbers     *)
(* messages, the RetryMonitor stores and repeats them, the                 *)
(* TransportMonitor waits for their acknowledgements (src/DelegateMQ/      *)
(* extras/util/RetryMonitor.h, TransportMonitor.h), the receiving          *)
(* transport acknowledges, and the receiving Participant filters out       *)
(* repetitions with a ring of sequence numbers.                            *)
(*                                                                         *)
(* On the sending side run the threads that send, the thread that calls    *)
(* Process() and the thread that receives acknowledgements. Each action is *)
(* a critical section of m_lock of one of the two monitors, or one call of *)
(* the transport.                                                          *)
(***************************************************************************)
EXTENDS Naturals, Sequences, FiniteSets

CONSTANTS
  Senders,      \* threads that send
  Msgs,         \* messages, each sent at most once
  Ids,          \* remote ids
  SeqMod,       \* sequence numbers are counted modulo this: 2^16
  MaxRetries,   \* m_maxRetries
  MaxPending,   \* MAX_TRANSPORT_MONITOR_PENDING
  MaxExpired,   \* MAX_TIMER_EXPIRED
  HistorySize,  \* DMQ_SEQ_HISTORY_SIZE
  MaxInvoked,   \* bound: messages the receiver invokes
  None

SeqNums == 0 .. SeqMod - 1
Keys    == Ids \X SeqNums

ASSUME RetryAssumption ==
  /\ Ids \subseteq Nat
  /\ {SeqMod, MaxPending, MaxExpired, HistorySize} \subseteq Nat \ {0}
  /\ {MaxRetries, MaxInvoked} \subseteq Nat
  /\ None \notin Msgs \cup Keys

VARIABLES
  seqNum,    \* m_seqNum of the Dispatcher
  key,       \* the (remote id, sequence number) each message was given
  spc,       \* where each sender is in SendWithRetry()
  sending,   \* the message it sends
  store,     \* m_retryStore
  pending,   \* the keys in m_pending
  expired,   \* the keys left to report in m_expiredItems
  mpc,       \* where Process()'s thread is in OnStatusChanged()
  repeated,  \* the message it repeats
  acked,     \* the key the receiving thread has removed and is reporting
  wire,      \* messages that are or were on the network
  acks,      \* sequence numbers of acknowledgements that are or were there
  inbox,     \* the message ProcessIncoming() has read
  history,   \* m_history: the last sequence numbers of each remote id
  lapsed,    \* history variable: the keys that could not be monitored again
  invoked,   \* history variable: the messages invoked, in order
  sent       \* history variable: how often each message was on the wire

sender   == <<spc, sending>>
monitor  == <<expired, mpc, repeated, lapsed>>
network  == <<wire, acks, sent>>
receiver == <<inbox, history, invoked>>
vars == <<seqNum, key, sender, store, pending, monitor, acked, network, receiver>>

Entries == [msg : Msgs, attemptsRemaining : 0 .. MaxRetries, isSent : BOOLEAN]

TypeOK ==
  /\ seqNum \in SeqNums
  /\ key \in [Msgs -> Keys \cup {None}]
  /\ spc \in [Senders -> {"out", "add", "send", "mark", "erase"}]
  /\ sending \in [Senders -> Msgs \cup {None}]
  /\ store \in [Keys -> Entries \cup {None}]
  /\ pending \in SUBSET Keys
  /\ expired \in SUBSET Keys
  /\ mpc \in {"idle", "add", "send", "erase", "readd"}
  /\ repeated \in Msgs \cup {None}
  /\ acked \in Keys \cup {None}
  /\ wire \in SUBSET Msgs
  /\ acks \in SUBSET SeqNums
  /\ inbox \in Msgs \cup {None}
  /\ history \in [Ids -> Seq(SeqNums)]
  /\ lapsed \in SUBSET Keys
  /\ invoked \in Seq(Msgs)
  /\ sent \in [Msgs -> Nat]

Init ==
  /\ seqNum = 0
  /\ key = [m \in Msgs |-> None]
  /\ spc = [t \in Senders |-> "out"]
  /\ sending = [t \in Senders |-> None]
  /\ store = [k \in Keys |-> None]
  /\ pending = {} /\ expired = {}
  /\ mpc = "idle" /\ repeated = None /\ acked = None /\ lapsed = {}
  /\ wire = {} /\ acks = {}
  /\ inbox = None
  /\ history = [i \in Ids |-> <<>>]
  /\ invoked = <<>>
  /\ sent = [m \in Msgs |-> 0]

-----------------------------------------------------------------------------
Erase(k) == store' = [store EXCEPT ![k] = None]

(* TransportMonitor::Add of k, by a thread whose place is pc: refused at   *)
(* the limit.                                                              *)
Added(k)   == Cardinality(pending) < MaxPending /\ pending' = pending \cup {k}
Refused(k) == Cardinality(pending) >= MaxPending /\ UNCHANGED pending

(* ITransport::Send puts m on the network ... *)
OnWire(m) ==
  /\ wire' = wire \cup {m}
  /\ sent' = [sent EXCEPT ![m] = @ + 1]
  /\ UNCHANGED acks

(* Dispatcher::Dispatch takes a number, SendWithRetry stores the packet.   *)
Dispatch(t, m, id) ==
  LET k == <<id, seqNum>> IN
  /\ spc[t] = "out"
  /\ key[m] = None
  /\ seqNum' = (seqNum + 1) % SeqMod
  /\ key' = [key EXCEPT ![m] = k]
  /\ store' = [store EXCEPT ![k] =
                 [msg |-> m, attemptsRemaining |-> MaxRetries, isSent |-> FALSE]]
  /\ sending' = [sending EXCEPT ![t] = m]
  /\ spc' = [spc EXCEPT ![t] = "add"]
  /\ UNCHANGED <<pending, monitor, acked, network, receiver>>

Add(t) ==
  LET k == key[sending[t]] IN
  /\ spc[t] = "add"
  /\ \/ Added(k) /\ spc' = [spc EXCEPT ![t] = "send"]
     \/ Refused(k) /\ spc' = [spc EXCEPT ![t] = "erase"]
  /\ UNCHANGED <<seqNum, key, sending, store, monitor, acked, network, receiver>>

(* The first transmission, and its failure. *)
Send(t) ==
  /\ spc[t] = "send"
  /\ \/ OnWire(sending[t]) /\ spc' = [spc EXCEPT ![t] = "mark"]
     \/ UNCHANGED network /\ spc' = [spc EXCEPT ![t] = "erase"]
  /\ UNCHANGED <<seqNum, key, sending, store, pending, monitor, acked, receiver>>

(* The entry, if it is still there, is marked as sent - or erased after a  *)
(* failure.                                                                *)
SendReturns(t) ==
  LET k == key[sending[t]] IN
  /\ \/ /\ spc[t] = "mark"
        /\ store' = [store EXCEPT ![k] = IF @ = None THEN None ELSE [@ EXCEPT !.isSent = TRUE]]
     \/ spc[t] = "erase" /\ Erase(k)
  /\ spc' = [spc EXCEPT ![t] = "out"]
  /\ sending' = [sending EXCEPT ![t] = None]
  /\ UNCHANGED <<seqNum, key, pending, monitor, acked, network, receiver>>

-----------------------------------------------------------------------------
(* TransportMonitor::Process and OnStatusChanged(TIMEOUT).                 *)

(* A pass: some entries have been pending for too long. As many as the     *)
(* buffer holds are moved to it, to be reported one by one.                *)
Expire(K) ==
  /\ mpc = "idle" /\ expired = {}
  /\ K \subseteq pending /\ K # {} /\ Cardinality(K) <= MaxExpired
  /\ expired' = K
  /\ pending' = pending \ K
  /\ UNCHANGED <<seqNum, key, sender, store, mpc, repeated, lapsed, acked, network, receiver>>

(* The critical section of OnStatusChanged finds entry e of an expired key *)
(* and leaves entry f; the thread goes on at pc.                           *)
Timeout(k, f, pc) ==
  /\ mpc = "idle"
  /\ k \in expired
  /\ expired' = expired \ {k}
  /\ mpc' = pc
  /\ store' = [store EXCEPT ![k] = f]
  /\ repeated' = IF pc = "idle" THEN None ELSE store[k].msg
  /\ UNCHANGED <<seqNum, key, sender, pending, lapsed, acked, network, receiver>>

(* Acknowledged, or erased, meanwhile. *)
TimeoutForgotten(k) == store[k] = None /\ Timeout(k, None, "idle")

(* Mutant: the attempt is not counted. *)
TimeoutRepeatsUncounted(k) ==
  /\ store[k] # None
  /\ store[k].attemptsRemaining > 0 /\ store[k].isSent
  /\ Timeout(k, store[k], "add")

TimeoutRepeats(k) ==
  /\ store[k] # None
  /\ store[k].attemptsRemaining > 0 /\ store[k].isSent
  /\ Timeout(k, [store[k] EXCEPT !.attemptsRemaining = @ - 1], "add")

(* Mutant: a message that is not sent yet is not monitored again. *)
TimeoutTooEarlyIgnored(k) ==
  /\ store[k] # None
  /\ store[k].attemptsRemaining > 0 /\ ~store[k].isSent
  /\ Timeout(k, store[k], "idle")

(* SendWithRetry is still in Send(). *)
TimeoutTooEarly(k) ==
  /\ store[k] # None
  /\ store[k].attemptsRemaining > 0 /\ ~store[k].isSent
  /\ Timeout(k, store[k], "readd")

(* Mutant: the entry stays. *)
TimeoutKeeps(k) ==
  /\ store[k] # None
  /\ store[k].attemptsRemaining = 0
  /\ Timeout(k, store[k], "idle")

TimeoutGivesUp(k) ==
  /\ store[k] # None
  /\ store[k].attemptsRemaining = 0
  /\ Timeout(k, None, "idle")

(* With the lock released: monitor again, and send again. The result of    *)
(* this Send is not looked at; nor is that of an Add that only renews.     *)
AddAgain ==
  LET k == key[repeated] IN
  /\ \/ mpc = "add" /\ Added(k) /\ mpc' = "send" /\ UNCHANGED lapsed
     \/ mpc = "add" /\ Refused(k) /\ mpc' = "erase" /\ UNCHANGED lapsed
     \/ mpc = "readd" /\ Added(k) /\ mpc' = "idle" /\ UNCHANGED lapsed
     \/ mpc = "readd" /\ Refused(k) /\ mpc' = "idle" /\ lapsed' = lapsed \cup {k}
  /\ repeated' = IF mpc' = "idle" THEN None ELSE repeated
  /\ UNCHANGED <<seqNum, key, sender, store, expired, acked, network, receiver>>

SendAgain ==
  /\ mpc = "send"
  /\ OnWire(repeated) \/ UNCHANGED network
  /\ mpc' = "idle" /\ repeated' = None
  /\ UNCHANGED <<seqNum, key, sender, store, pending, expired, lapsed, acked, receiver>>

EraseRefused ==
  /\ mpc = "erase"
  /\ Erase(key[repeated])
  /\ mpc' = "idle" /\ repeated' = None
  /\ UNCHANGED <<seqNum, key, sender, pending, expired, lapsed, acked, network, receiver>>

-----------------------------------------------------------------------------
(* The receiving thread: TransportMonitor::Remove(seqNum), which looks for *)
(* the first pending entry with this number, and OnStatusChanged(SUCCESS). *)

(* Mutant: the first entry is taken whatever its number. *)
RemoveFirst(s) ==
  /\ acked = None
  /\ s \in acks
  /\ \E k \in pending :
       /\ \A j \in pending : k[1] <= j[1]
       /\ pending' = pending \ {k}
       /\ acked' = k
  /\ UNCHANGED <<seqNum, key, sender, store, monitor, network, receiver>>

Remove(s) ==
  /\ acked = None
  /\ s \in acks
  /\ \E k \in pending :
       /\ k[2] = s
       /\ \A j \in pending : j[2] = s => k[1] <= j[1]
       /\ pending' = pending \ {k}
       /\ acked' = k
  /\ UNCHANGED <<seqNum, key, sender, store, monitor, network, receiver>>

Success ==
  /\ acked # None
  /\ Erase(acked)
  /\ acked' = None
  /\ UNCHANGED <<seqNum, key, sender, pending, monitor, network, receiver>>

-----------------------------------------------------------------------------
(* The other side. What was on the network may arrive at any time, any     *)
(* number of times, or never.                                              *)

(* ITransport::Receive reads a packet and acknowledges it. *)
Receive(m) ==
  /\ inbox = None
  /\ m \in wire
  /\ Len(invoked) < MaxInvoked
  /\ inbox' = m
  /\ acks' = acks \cup {key[m][2]}
  /\ UNCHANGED <<seqNum, key, sender, store, pending, monitor, acked, wire, sent, history, invoked>>

IsDuplicate(m) == \E n \in DOMAIN history[key[m][1]] : history[key[m][1]][n] = key[m][2]

(* Mutant: the slot written is not marked as valid. *)
RememberNothing(h, s) == h

(* The ring of the last HistorySize numbers. *)
Remember(h, s) ==
  IF Len(h) < HistorySize THEN Append(h, s) ELSE Append(Tail(h), s)

(* ProcessIncoming drops a repetition, or remembers the number and invokes *)
(* the handler.                                                            *)
ProcessIncoming ==
  LET id == key[inbox][1] IN
  /\ inbox # None
  /\ \/ IsDuplicate(inbox) /\ UNCHANGED <<history, invoked>>
     \/ /\ ~IsDuplicate(inbox)
        /\ history' = [history EXCEPT ![id] = Remember(@, key[inbox][2])]
        /\ invoked' = Append(invoked, inbox)
  /\ inbox' = None
  /\ UNCHANGED <<seqNum, key, sender, store, pending, monitor, acked, network>>

-----------------------------------------------------------------------------
Sender(t) == Add(t) \/ Send(t) \/ SendReturns(t)

Monitor ==
  \/ \E k \in Keys :
       TimeoutForgotten(k) \/ TimeoutRepeats(k) \/ TimeoutTooEarly(k) \/ TimeoutGivesUp(k)
  \/ AddAgain \/ SendAgain \/ EraseRefused

(* Nothing is under way; a packet may still be repeated by the network. *)
Rest ==
  /\ \A t \in Senders : spc[t] = "out"
  /\ mpc = "idle" /\ expired = {} /\ pending = {} /\ acked = None /\ inbox = None
  /\ UNCHANGED vars

Next ==
  \/ \E t \in Senders, m \in Msgs, id \in Ids : Dispatch(t, m, id)
  \/ \E t \in Senders : Sender(t)
  \/ \E K \in SUBSET Keys : Expire(K)
  \/ Monitor
  \/ \E s \in SeqNums : Remove(s)
  \/ Success
  \/ \E m \in Msgs : Receive(m)
  \/ ProcessIncoming
  \/ Rest

(* Threads run, and Process() is called periodically: what stays pending   *)
(* long enough is found. The network owes nothing.                         *)
Fairness ==
  /\ \A t \in Senders : WF_vars(Sender(t))
  /\ \A k \in Keys : WF_vars(\E K \in SUBSET Keys : k \in K /\ Expire(K))
  /\ WF_vars(Monitor)
  /\ WF_vars(Success)

Spec == Init /\ [][Next]_vars
FairSpec == Spec /\ Fairness

-----------------------------------------------------------------------------
(* A message is on the wire at most once more than the retry budget says,  *)
(* however acknowledgements, timeouts and its first Send() interleave.     *)
BudgetHolds == \A m \in Msgs : sent[m] <= 1 + MaxRetries

(* SUCCESS is reported of a message that the other side has invoked, or is *)
(* about to.                                                               *)
SuccessMeansReceived ==
  \A m \in Msgs : (acked # None /\ acked = key[m])
    => inbox = m \/ \E n \in DOMAIN invoked : invoked[n] = m

(* A stored packet is watched: somebody will report its key, or is about   *)
(* to monitor or erase it - unless the renewal of its monitoring met a     *)
(* full m_pending.                                                         *)
StoredIsWatched ==
  \A k \in Keys : store[k] # None =>
    \/ k \in pending \cup expired \cup {acked} \cup lapsed
    \/ mpc # "idle" /\ key[repeated] = k
    \/ \E t \in Senders : spc[t] \in {"add", "erase"} /\ key[sending[t]] = k

(* The filter drops repetitions only.                                      *)
OnlyDuplicatesDropped ==
  (inbox # None /\ IsDuplicate(inbox)) => \E n \in DOMAIN invoked : invoked[n] = inbox

(* A message is invoked again only after HistorySize other ones of its     *)
(* remote id.                                                              *)
RepetitionsAreFarApart ==
  \A i, j \in DOMAIN invoked :
    (i < j /\ invoked[i] = invoked[j]) =>
      HistorySize <= Cardinality({n \in i + 1 .. j - 1 :
                                    key[invoked[n]][1] = key[invoked[i]][1]})

(* What the receiver's filter of repetitions is worth: both together.      *)
FilterIsExact == OnlyDuplicatesDropped /\ RepetitionsAreFarApart

(* Every stored packet is let go in the end, although nothing may arrive.  *)
EventuallyForgotten ==
  \A k \in Keys : store[k] # None ~> (store[k] = None \/ k \in lapsed)
=============================================================================
