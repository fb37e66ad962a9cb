---------------------------- MODULE RetryProofs ----------------------------
(***************************************************************************)
(* Proofs about Retry, for every number of threads, messages and remote    *)
(* ids, every limit and every retry budget; sequence numbers may come      *)
(* round while earlier packets that had them are still stored.             *)
(***************************************************************************)
EXTENDS Retry, SequenceTheorems, FiniteSetTheorems, TLAPS

(* Whoever is inside a call has the message of that call.                  *)
AtHand ==
  /\ \A t \in Senders : spc[t] # "out" => sending[t] # None
  /\ mpc # "idle" => repeated # None

(* Whatever is under way has been dispatched; a packet is stored under the *)
(* key of its message, and one thread makes its first transmission.        *)
Keyed ==
  /\ \A t \in Senders : sending[t] # None => key[sending[t]] # None
  /\ repeated # None => key[repeated] # None
  /\ \A m \in wire : key[m] # None
  /\ inbox # None => key[inbox] # None
  /\ \A k \in Keys : store[k] # None => key[store[k].msg] = k
Unshared ==
  \A t, u \in Senders : (sending[t] # None /\ sending[t] = sending[u]) => t = u

(* The transmissions of m still to come: the first one, the repetition     *)
(* under way, and those its entry in the store allows.                     *)
FirstToCome(m) ==
  IF \E t \in Senders : sending[t] = m /\ spc[t] \in {"add", "send"} THEN 1 ELSE 0
RepeatToCome(m) == IF repeated = m /\ mpc \in {"add", "send"} THEN 1 ELSE 0
AllowedBy(k, entries, m) ==
  IF k # None /\ entries[k] # None /\ entries[k].msg = m
    THEN entries[k].attemptsRemaining ELSE 0
Allowed(m) == AllowedBy(key[m], store, m)
Budget ==
  \A m \in Msgs :
    /\ key[m] = None => sent[m] = 0
    /\ sent[m] + FirstToCome(m) + RepeatToCome(m) + Allowed(m) <= 1 + MaxRetries

(* StoredIsWatched, not counting the thread that is just sending again.    *)
Watched ==
  \A k \in Keys : store[k] # None =>
    \/ k \in pending \cup expired \cup {acked} \cup lapsed
    \/ mpc \in {"add", "erase", "readd"} /\ key[repeated] = k
    \/ \E t \in Senders : spc[t] \in {"add", "erase"} /\ key[sending[t]] = k

IInv == TypeOK /\ AtHand /\ Keyed /\ Unshared /\ Budget /\ Watched

-----------------------------------------------------------------------------
LEMMA NumbersComeRound == \A n \in SeqNums : (n + 1) % SeqMod \in SeqNums
BY RetryAssumption DEF SeqNums

LEMMA KeyParts ==
  ASSUME NEW k \in Keys PROVE k[1] \in Ids /\ k[2] \in SeqNums
BY DEF Keys

LEMMA InitIInv == Init => IInv
<1> SUFFICES ASSUME Init PROVE IInv
  OBVIOUS
<1>1. TypeOK
  BY RetryAssumption DEF Init, TypeOK, SeqNums
<1>2. AtHand /\ Keyed /\ Unshared /\ Budget /\ Watched
  BY RetryAssumption DEF Init, AtHand, Keyed, Unshared, Budget, Watched,
       FirstToCome, RepeatToCome, Allowed, AllowedBy
<1> QED
  BY <1>1, <1>2 DEF IInv

-----------------------------------------------------------------------------
(* Every step keeps the types. *)
LEMMA TypeStep ==
  ASSUME TypeOK, AtHand, Keyed, Next
  PROVE  TypeOK'
<1> USE DEF TypeOK, sender, monitor, network, receiver
<1>1. ASSUME NEW t \in Senders, NEW m \in Msgs, NEW id \in Ids, Dispatch(t, m, id)
      PROVE  TypeOK'
  <2>1. <<id, seqNum>> \in Keys
    BY DEF Keys
  <2>2. [msg |-> m, attemptsRemaining |-> MaxRetries, isSent |-> FALSE] \in Entries
    BY RetryAssumption DEF Entries
  <2> QED
    BY <1>1, <2>1, <2>2, NumbersComeRound DEF Dispatch
<1>2. ASSUME NEW t \in Senders, Sender(t)
      PROVE  TypeOK'
  <2>1. sending[t] \in Msgs /\ key[sending[t]] \in Keys
    BY <1>2 DEF Sender, Add, Send, SendReturns, AtHand, Keyed
  <2>2. CASE Add(t)
    BY <2>1, <2>2 DEF Add, Added, Refused
  <2>3. CASE Send(t)
    <3>1. wire' \in SUBSET Msgs /\ acks' = acks /\ sent' \in [Msgs -> Nat]
      <4>1. CASE OnWire(sending[t])
        BY <2>1, <4>1 DEF OnWire
      <4>2. CASE UNCHANGED network
        BY <4>2
      <4> QED
        BY <2>3, <4>1, <4>2 DEF Send
    <3>2. spc' \in [Senders -> {"out", "add", "send", "mark", "erase"}]
      BY <2>3 DEF Send
    <3> QED
      BY <2>3, <3>1, <3>2 DEF Send
  <2>4. CASE SendReturns(t)
    <3> DEFINE k == key[sending[t]]
    <3>1. store[k] # None => [store[k] EXCEPT !.isSent = TRUE] \in Entries
      BY <2>1 DEF Entries
    <3>2. store' \in [Keys -> Entries \cup {None}]
      BY <2>1, <2>4, <3>1 DEF SendReturns, Erase
    <3> QED
      BY <2>4, <3>2 DEF SendReturns
  <2> QED
    BY <1>2, <2>2, <2>3, <2>4 DEF Sender
<1>3. ASSUME NEW K \in SUBSET Keys, Expire(K)
      PROVE  TypeOK'
  BY <1>3 DEF Expire
<1>4. ASSUME NEW k \in Keys,
             TimeoutForgotten(k) \/ TimeoutRepeats(k) \/ TimeoutTooEarly(k) \/ TimeoutGivesUp(k)
      PROVE  TypeOK'
  <2>1. PICK f, pc : /\ Timeout(k, f, pc)
                     /\ f \in Entries \cup {None}
                     /\ pc \in {"idle", "add", "readd"}
                     /\ pc # "idle" => store[k] # None
    <3>1. CASE TimeoutForgotten(k) \/ TimeoutGivesUp(k)
      <4>1. Timeout(k, None, "idle")
        BY <3>1 DEF TimeoutForgotten, TimeoutGivesUp
      <4> QED
        BY <4>1
    <3>2. CASE TimeoutTooEarly(k)
      <4>1. Timeout(k, store[k], "readd") /\ store[k] # None
        BY <3>2 DEF TimeoutTooEarly
      <4> QED
        BY <4>1
    <3>3. CASE TimeoutRepeats(k)
      <4> DEFINE e == [store[k] EXCEPT !.attemptsRemaining = @ - 1]
      <4>1. /\ Timeout(k, e, "add")
            /\ store[k] # None /\ store[k] \in Entries
            /\ store[k].attemptsRemaining > 0
        BY <3>3 DEF TimeoutRepeats
      <4>2. MaxRetries \in Nat
        BY RetryAssumption
      <4>3. store[k].attemptsRemaining - 1 \in 0 .. MaxRetries
        BY <4>1, <4>2 DEF Entries
      <4>4. e \in Entries
        BY <4>1, <4>3 DEF Entries
      <4> HIDE DEF e
      <4> QED
        BY <4>1, <4>4
    <3> QED
      BY <1>4, <3>1, <3>2, <3>3
  <2>2. pc # "idle" => store[k].msg \in Msgs
    BY <2>1 DEF Entries
  <2>3. store' \in [Keys -> Entries \cup {None}]
    BY <2>1 DEF Timeout
  <2>4. repeated' \in Msgs \cup {None}
    BY <2>1, <2>2 DEF Timeout
  <2>5. expired' \in SUBSET Keys /\ mpc' \in {"idle", "add", "send", "erase", "readd"}
    BY <2>1 DEF Timeout
  <2>6. UNCHANGED <<seqNum, key, spc, sending, pending, lapsed, acked, wire, acks, sent,
                    inbox, history, invoked>>
    BY <2>1 DEF Timeout
  <2> QED
    BY <2>3, <2>4, <2>5, <2>6
<1>5. ASSUME AddAgain \/ SendAgain \/ EraseRefused
      PROVE  TypeOK'
  <2>1. repeated \in Msgs /\ key[repeated] \in Keys
    BY <1>5 DEF AddAgain, SendAgain, EraseRefused, AtHand, Keyed
  <2>2. CASE AddAgain
    BY <2>1, <2>2 DEF AddAgain, Added, Refused
  <2>3. CASE SendAgain
    BY <2>1, <2>3 DEF SendAgain, OnWire
  <2>4. CASE EraseRefused
    BY <2>1, <2>4 DEF EraseRefused, Erase
  <2> QED
    BY <1>5, <2>2, <2>3, <2>4
<1>6. ASSUME NEW s \in SeqNums, Remove(s)
      PROVE  TypeOK'
  BY <1>6 DEF Remove
<1>7. ASSUME Success
      PROVE  TypeOK'
  BY <1>7 DEF Success, Erase
<1>8. ASSUME NEW m \in Msgs, Receive(m)
      PROVE  TypeOK'
  <2>1. key[m] \in Keys
    BY <1>8 DEF Receive, Keyed
  <2>2. key[m][2] \in SeqNums
    BY <2>1, KeyParts
  <2> QED
    BY <1>8, <2>2 DEF Receive
<1>9. ASSUME ProcessIncoming
      PROVE  TypeOK'
  <2>1. inbox \in Msgs /\ key[inbox] \in Keys
    BY <1>9 DEF ProcessIncoming, Keyed
  <2>2. key[inbox][1] \in Ids /\ key[inbox][2] \in SeqNums
    BY <2>1, KeyParts
  <2>3. \A h \in Seq(SeqNums) : Remember(h, key[inbox][2]) \in Seq(SeqNums)
    <3> SUFFICES ASSUME NEW h \in Seq(SeqNums)
                 PROVE  Remember(h, key[inbox][2]) \in Seq(SeqNums)
      OBVIOUS
    <3>1. CASE Len(h) < HistorySize
      BY <2>2, <3>1 DEF Remember
    <3>2. CASE ~(Len(h) < HistorySize)
      <4>1. h # <<>>
        BY <3>2, RetryAssumption
      <4>2. Tail(h) \in Seq(SeqNums)
        BY <4>1
      <4> QED
        BY <2>2, <3>2, <4>2 DEF Remember
    <3> QED
      BY <3>1, <3>2
  <2>4. history' \in [Ids -> Seq(SeqNums)]
    <3>1. history[key[inbox][1]] \in Seq(SeqNums)
      BY <2>2
    <3>2. Remember(history[key[inbox][1]], key[inbox][2]) \in Seq(SeqNums)
      BY <2>3, <3>1
    <3> QED
      BY <1>9, <2>2, <3>2 DEF ProcessIncoming
  <2>5. invoked' \in Seq(Msgs)
    <3>1. invoked' = invoked \/ invoked' = Append(invoked, inbox)
      BY <1>9 DEF ProcessIncoming
    <3>2. Append(invoked, inbox) \in Seq(Msgs)
      BY <2>1, AppendProperties
    <3> QED
      BY <3>1, <3>2
  <2> QED
    BY <1>9, <2>4, <2>5 DEF ProcessIncoming
<1>10. ASSUME Rest
       PROVE  TypeOK'
  BY <1>10 DEF Rest, vars
<1> QED
  BY <1>1, <1>2, <1>3, <1>4, <1>5, <1>6, <1>7, <1>8, <1>9, <1>10 DEF Next, Monitor

-----------------------------------------------------------------------------
(* Every step keeps who has which message at hand. *)
LEMMA AtHandStep ==
  ASSUME TypeOK, AtHand, Keyed, Unshared, Next
  PROVE  AtHand' /\ Unshared'
<1> USE RetryAssumption DEF AtHand, Unshared, sender, monitor, network, receiver
<1>1. ASSUME NEW t \in Senders, NEW m \in Msgs, NEW id \in Ids, Dispatch(t, m, id)
      PROVE  AtHand' /\ Unshared'
  <2>1. \A u \in Senders : sending[u] # m
    BY <1>1 DEF Dispatch, Keyed
  <2>2. \A u \in Senders : sending'[u] = (IF u = t THEN m ELSE sending[u])
    BY <1>1 DEF Dispatch, TypeOK
  <2>3. m # None
    OBVIOUS
  <2>4. AtHand'
    BY <1>1, <2>2, <2>3 DEF Dispatch, TypeOK
  <2> QED
    BY <2>1, <2>2, <2>4
<1>2. ASSUME NEW t \in Senders, Sender(t)
      PROVE  AtHand' /\ Unshared'
  <2>1. sending[t] # None
    BY <1>2 DEF Sender, Add, Send, SendReturns
  <2>2. CASE Add(t) \/ Send(t)
    BY <2>1, <2>2 DEF Add, Send, TypeOK
  <2>3. CASE SendReturns(t)
    BY <2>3 DEF SendReturns, TypeOK
  <2> QED
    BY <1>2, <2>2, <2>3 DEF Sender
<1>3. ASSUME NEW K \in SUBSET Keys, Expire(K)
      PROVE  AtHand' /\ Unshared'
  BY <1>3 DEF Expire
<1>4. ASSUME NEW k \in Keys,
             TimeoutForgotten(k) \/ TimeoutRepeats(k) \/ TimeoutTooEarly(k) \/ TimeoutGivesUp(k)
      PROVE  AtHand' /\ Unshared'
  <2>1. /\ mpc' = "idle" \/ (store[k] # None /\ repeated' = store[k].msg)
        /\ UNCHANGED sender
    BY <1>4
       DEF TimeoutForgotten, TimeoutRepeats, TimeoutTooEarly, TimeoutGivesUp, Timeout
  <2>2. store[k] # None => store[k].msg \in Msgs
    BY DEF TypeOK, Entries
  <2> QED
    BY <2>1, <2>2
<1>5. ASSUME AddAgain \/ SendAgain \/ EraseRefused
      PROVE  AtHand' /\ Unshared'
  <2>1. UNCHANGED sender /\ (mpc' # "idle" => repeated' = repeated /\ repeated # None)
    BY <1>5 DEF AddAgain, SendAgain, EraseRefused
  <2> QED
    BY <2>1
<1>6. ASSUME (\E s \in SeqNums : Remove(s)) \/ Success
             \/ (\E m \in Msgs : Receive(m)) \/ ProcessIncoming \/ Rest
      PROVE  AtHand' /\ Unshared'
  <2>1. UNCHANGED <<sender, mpc, repeated>>
    BY <1>6 DEF Remove, Success, Receive, ProcessIncoming, Rest, vars
  <2> QED
    BY <2>1
<1> QED
  BY <1>1, <1>2, <1>3, <1>4, <1>5, <1>6 DEF Next, Monitor

(* Every step keeps the keys of what is under way and stored.              *)
LEMMA KeyedStep ==
  ASSUME TypeOK, AtHand, Keyed, Next
  PROVE  Keyed'
<1> USE RetryAssumption DEF sender, monitor, network, receiver
<1>1. ASSUME NEW t \in Senders, NEW m \in Msgs, NEW id \in Ids, Dispatch(t, m, id)
      PROVE  Keyed'
  <2> DEFINE k == <<id, seqNum>>
  <2>1. k \in Keys /\ k # None
    BY DEF TypeOK, Keys
  <2>2. \A n \in Msgs : key'[n] = (IF n = m THEN k ELSE key[n])
    BY <1>1 DEF Dispatch, TypeOK
  <2>3. \A j \in Keys : j # k => store'[j] = store[j]
    BY <1>1 DEF Dispatch, TypeOK
  <2>4. store'[k] # None => store'[k].msg = m
    BY <1>1, <2>1 DEF Dispatch, TypeOK
  <2>5. \A j \in Keys : store[j] # None => store[j].msg \in Msgs /\ store[j].msg # m
    BY <1>1 DEF Dispatch, TypeOK, Entries, Keyed
  <2>6. \A u \in Senders : sending'[u] = (IF u = t THEN m ELSE sending[u])
    BY <1>1 DEF Dispatch, TypeOK
  <2>7. UNCHANGED <<repeated, wire, inbox>>
    BY <1>1 DEF Dispatch
  <2> HIDE DEF k
  <2>8. \A j \in Keys : store'[j] # None => key'[store'[j].msg] = j
    BY <2>2, <2>3, <2>4, <2>5 DEF Keyed
  <2>9. \A u \in Senders : sending'[u] # None => key'[sending'[u]] # None
    BY <2>1, <2>2, <2>6 DEF Keyed, TypeOK
  <2> QED
    BY <2>1, <2>2, <2>7, <2>8, <2>9 DEF Keyed, TypeOK
<1>2. ASSUME NEW t \in Senders, Sender(t)
      PROVE  Keyed'
  <2>1. sending[t] \in Msgs /\ key[sending[t]] \in Keys
    BY <1>2 DEF Sender, Add, Send, SendReturns, AtHand, Keyed, TypeOK
  <2>2. CASE Add(t)
    BY <2>2 DEF Add, Keyed
  <2>3. CASE Send(t)
    BY <2>1, <2>3 DEF Send, OnWire, Keyed
  <2>4. CASE SendReturns(t)
    <3>1. UNCHANGED <<key, repeated, wire, inbox>>
      BY <2>4 DEF SendReturns
    <3>2. \A u \in Senders : sending'[u] # None => sending'[u] = sending[u]
      BY <2>4 DEF SendReturns, TypeOK
    <3>3. \A j \in Keys : store'[j] # None => store[j] # None /\ store'[j].msg = store[j].msg
      <4> DEFINE k == key[sending[t]]
      <4>1. \A j \in Keys : j # k => store'[j] = store[j]
        BY <2>1, <2>4 DEF SendReturns, Erase, TypeOK
      <4>2. store'[k] = None \/ (store[k] # None /\ store'[k] = [store[k] EXCEPT !.isSent = TRUE])
        <5>1. k \in DOMAIN store
          BY <2>1 DEF TypeOK
        <5>2. \/ store' = [store EXCEPT ![k] = None]
              \/ store' = [store EXCEPT ![k] = IF @ = None THEN None ELSE [@ EXCEPT !.isSent = TRUE]]
          BY <2>4 DEF SendReturns, Erase
        <5> HIDE DEF k
        <5> QED
          BY <5>1, <5>2
      <4>3. store[k] # None => [store[k] EXCEPT !.isSent = TRUE].msg = store[k].msg
        BY <2>1 DEF TypeOK, Entries
      <4> QED
        BY <4>1, <4>2, <4>3
    <3> QED
      BY <3>1, <3>2, <3>3 DEF Keyed
  <2> QED
    BY <1>2, <2>2, <2>3, <2>4 DEF Sender
<1>3. ASSUME NEW K \in SUBSET Keys, Expire(K)
      PROVE  Keyed'
  BY <1>3 DEF Expire, Keyed
<1>4. ASSUME NEW k \in Keys,
             TimeoutForgotten(k) \/ TimeoutRepeats(k) \/ TimeoutTooEarly(k) \/ TimeoutGivesUp(k)
      PROVE  Keyed'
  <2>1. UNCHANGED <<key, sending, wire, inbox>>
    BY <1>4
       DEF TimeoutForgotten, TimeoutRepeats, TimeoutTooEarly, TimeoutGivesUp, Timeout
  <2>2. \A j \in Keys : store'[j] # None => store[j] # None /\ store'[j].msg = store[j].msg
    <3>1. \A j \in Keys : j # k => store'[j] = store[j]
      BY <1>4
         DEF TimeoutForgotten, TimeoutRepeats, TimeoutTooEarly, TimeoutGivesUp, Timeout, TypeOK
    <3>2. \/ store'[k] = None \/ store'[k] = store[k]
          \/ store[k] # None /\ store'[k] = [store[k] EXCEPT !.attemptsRemaining = @ - 1]
      BY <1>4
         DEF TimeoutForgotten, TimeoutRepeats, TimeoutTooEarly, TimeoutGivesUp, Timeout, TypeOK
    <3>3. store[k] # None => [store[k] EXCEPT !.attemptsRemaining = @ - 1].msg = store[k].msg
      BY DEF TypeOK, Entries
    <3> QED
      BY <3>1, <3>2, <3>3
  <2>3. repeated' = None \/ (store[k] # None /\ repeated' = store[k].msg)
    BY <1>4
       DEF TimeoutForgotten, TimeoutRepeats, TimeoutTooEarly, TimeoutGivesUp, Timeout
  <2> QED
    BY <2>1, <2>2, <2>3 DEF Keyed
<1>5. ASSUME AddAgain \/ SendAgain \/ EraseRefused
      PROVE  Keyed'
  <2>1. repeated \in Msgs /\ key[repeated] \in Keys
    BY <1>5 DEF AddAgain, SendAgain, EraseRefused, AtHand, Keyed, TypeOK
  <2>2. CASE AddAgain
    BY <2>2 DEF AddAgain, Keyed
  <2>3. CASE SendAgain
    BY <2>1, <2>3 DEF SendAgain, OnWire, Keyed
  <2>4. CASE EraseRefused
    BY <2>1, <2>4 DEF EraseRefused, Erase, Keyed, TypeOK
  <2> QED
    BY <1>5, <2>2, <2>3, <2>4
<1>6. ASSUME NEW s \in SeqNums, Remove(s)
      PROVE  Keyed'
  BY <1>6 DEF Remove, Keyed
<1>7. ASSUME Success
      PROVE  Keyed'
  BY <1>7 DEF Success, Erase, Keyed, TypeOK
<1>8. ASSUME (\E m \in Msgs : Receive(m)) \/ ProcessIncoming \/ Rest
      PROVE  Keyed'
  <2>1. UNCHANGED <<key, sending, repeated, wire, store>> /\ inbox' \in wire \cup {inbox, None}
    BY <1>8 DEF Receive, ProcessIncoming, Rest, vars
  <2> QED
    BY <2>1 DEF Keyed
<1> QED
  BY <1>1, <1>2, <1>3, <1>4, <1>5, <1>6, <1>7, <1>8 DEF Next, Monitor

-----------------------------------------------------------------------------
(* Every step keeps a stored packet watched.                               *)
LEMMA WatchedStep ==
  ASSUME TypeOK, AtHand, Keyed, Watched, Next
  PROVE  Watched'
<1> USE RetryAssumption DEF sender, monitor, network, receiver
<1>1. ASSUME NEW t \in Senders, NEW m \in Msgs, NEW id \in Ids, Dispatch(t, m, id)
      PROVE  Watched'
  <2> DEFINE k == <<id, seqNum>>
  <2>1. k \in Keys
    BY DEF TypeOK, Keys
  <2>2. \A j \in Keys : j # k => store'[j] = store[j]
    BY <1>1 DEF Dispatch, TypeOK
  <2>3. \A n \in Msgs : key'[n] = (IF n = m THEN k ELSE key[n])
    BY <1>1 DEF Dispatch, TypeOK
  <2>4. /\ sending'[t] = m /\ spc'[t] = "add" /\ spc[t] = "out"
        /\ \A u \in Senders : u # t => sending'[u] = sending[u] /\ spc'[u] = spc[u]
    BY <1>1 DEF Dispatch, TypeOK
  <2>5. /\ mpc # "idle" => repeated \in Msgs /\ repeated # m
        /\ \A u \in Senders : spc[u] # "out" => sending[u] \in Msgs /\ sending[u] # m
    BY <1>1 DEF Dispatch, TypeOK, AtHand, Keyed
  <2>6. UNCHANGED <<pending, expired, acked, lapsed, mpc, repeated>>
    BY <1>1 DEF Dispatch
  <2> HIDE DEF k
  <2> SUFFICES ASSUME NEW j \in Keys, j # k, store[j] # None
               PROVE  \/ j \in pending \cup expired \cup {acked} \cup lapsed
                      \/ mpc \in {"add", "erase", "readd"} /\ key'[repeated] = j
                      \/ \E u \in Senders : spc'[u] \in {"add", "erase"} /\ key'[sending'[u]] = j
    BY <2>2, <2>3, <2>4, <2>6 DEF Watched
  <2>7. ASSUME NEW u \in Senders, spc[u] \in {"add", "erase"}, key[sending[u]] = j
        PROVE  spc'[u] \in {"add", "erase"} /\ key'[sending'[u]] = j
    BY <2>3, <2>4, <2>5, <2>7
  <2> QED
    BY <2>3, <2>5, <2>7 DEF Watched
<1>2. ASSUME NEW t \in Senders, Sender(t)
      PROVE  Watched'
  <2> DEFINE k == key[sending[t]]
  <2>1. k \in Keys
    BY <1>2 DEF Sender, Add, Send, SendReturns, AtHand, Keyed, TypeOK
  <2>2. /\ UNCHANGED <<key, expired, acked, lapsed, mpc, repeated>> /\ pending \subseteq pending'
        /\ \A u \in Senders : u # t => sending'[u] = sending[u] /\ spc'[u] = spc[u]
    BY <1>2 DEF Sender, Add, Send, SendReturns, Added, Refused, TypeOK
  <2>3. \A j \in Keys : store'[j] # None => store[j] # None
    BY <1>2, <2>1 DEF Sender, Add, Send, SendReturns, Erase, TypeOK
  <2>4. spc[t] = "add" => k \in pending' \/ (spc'[t] = "erase" /\ sending'[t] = sending[t])
    BY <1>2 DEF Sender, Add, Send, SendReturns, Added, TypeOK
  <2>5. spc[t] = "erase" => store'[k] = None
    BY <1>2, <2>1 DEF Sender, Add, Send, SendReturns, Erase, TypeOK
  <2> HIDE DEF k
  <2> SUFFICES ASSUME NEW j \in Keys, store'[j] # None,
                      NEW u \in Senders, spc[u] \in {"add", "erase"}, key[sending[u]] = j
               PROVE  \/ j \in pending'
                      \/ spc'[u] \in {"add", "erase"} /\ key[sending'[u]] = j
    BY <2>2, <2>3 DEF Watched
  <2>6. CASE u # t
    BY <2>2, <2>6
  <2>7. CASE u = t
    BY <2>4, <2>5, <2>7 DEF k
  <2> QED
    BY <2>6, <2>7
<1>3. ASSUME NEW K \in SUBSET Keys, Expire(K)
      PROVE  Watched'
  <2>1. /\ pending \cup expired = pending' \cup expired'
        /\ UNCHANGED <<key, spc, sending, store, acked, lapsed, mpc, repeated>>
    BY <1>3 DEF Expire
  <2> QED
    BY <2>1 DEF Watched
<1>4. ASSUME NEW k \in Keys,
             TimeoutForgotten(k) \/ TimeoutRepeats(k) \/ TimeoutTooEarly(k) \/ TimeoutGivesUp(k)
      PROVE  Watched'
  <2>1. /\ mpc = "idle" /\ expired' = expired \ {k}
        /\ UNCHANGED <<key, spc, sending, pending, acked, lapsed>>
        /\ \A j \in Keys : j # k => store'[j] = store[j]
    BY <1>4 DEF TimeoutForgotten, TimeoutRepeats, TimeoutTooEarly, TimeoutGivesUp, Timeout, TypeOK
  <2>2. store'[k] # None => /\ store[k] # None /\ mpc' \in {"add", "readd"}
                            /\ repeated' = store[k].msg
    BY <1>4 DEF TimeoutForgotten, TimeoutRepeats, TimeoutTooEarly, TimeoutGivesUp, Timeout, TypeOK
  <2>3. store'[k] # None => key'[repeated'] = k
    BY <2>1, <2>2 DEF Keyed
  <2> QED
    BY <2>1, <2>2, <2>3 DEF Watched
<1>5. ASSUME AddAgain \/ SendAgain \/ EraseRefused
      PROVE  Watched'
  <2> DEFINE k == key[repeated]
  <2>1. k \in Keys
    BY <1>5 DEF AddAgain, SendAgain, EraseRefused, AtHand, Keyed, TypeOK
  <2>2. /\ UNCHANGED <<key, spc, sending, expired, acked>>
        /\ pending \subseteq pending' /\ lapsed \subseteq lapsed'
        /\ \A j \in Keys : store'[j] # None => store[j] # None
    BY <1>5, <2>1 DEF AddAgain, Added, Refused, SendAgain, EraseRefused, Erase, TypeOK
  <2>3. \/ k \in pending' \cup lapsed' \/ mpc = "send" \/ store'[k] = None
        \/ mpc' = "erase" /\ repeated' = repeated
    BY <1>5, <2>1 DEF AddAgain, Added, Refused, SendAgain, EraseRefused, Erase, TypeOK
  <2> HIDE DEF k
  <2> QED
    BY <2>2, <2>3 DEF Watched, k
<1>6. ASSUME NEW s \in SeqNums, Remove(s)
      PROVE  Watched'
  <2>1. /\ pending \cup {acked} \subseteq pending' \cup {acked', None}
        /\ UNCHANGED <<key, spc, sending, store, expired, lapsed, mpc, repeated>>
    BY <1>6 DEF Remove
  <2> QED
    BY <2>1 DEF Watched
<1>7. ASSUME Success
      PROVE  Watched'
  <2>1. /\ UNCHANGED <<key, spc, sending, pending, expired, lapsed, mpc, repeated>>
        /\ \A j \in Keys : store'[j] # None => store[j] # None /\ j # acked
    BY <1>7 DEF Success, Erase, TypeOK
  <2> QED
    BY <2>1 DEF Watched
<1>8. ASSUME (\E m \in Msgs : Receive(m)) \/ ProcessIncoming \/ Rest
      PROVE  Watched'
  <2>1. UNCHANGED <<key, spc, sending, pending, expired, acked, lapsed, mpc, repeated, store>>
    BY <1>8 DEF Receive, ProcessIncoming, Rest, vars
  <2> QED
    BY <2>1 DEF Watched
<1> QED
  BY <1>1, <1>2, <1>3, <1>4, <1>5, <1>6, <1>7, <1>8 DEF Next, Monitor

-----------------------------------------------------------------------------
LEMMA AllowedIsNat ==
  ASSUME NEW k \in Keys \cup {None}, NEW entries \in [Keys -> Entries \cup {None}],
         NEW m \in Msgs
  PROVE  AllowedBy(k, entries, m) \in 0 .. MaxRetries
<1>1. MaxRetries \in Nat
  BY RetryAssumption
<1>2. CASE k # None /\ entries[k] # None
  <2>1. entries[k] \in Entries
    BY <1>2
  <2> QED
    BY <1>1, <2>1 DEF AllowedBy, Entries
<1>3. CASE ~(k # None /\ entries[k] # None)
  BY <1>1, <1>3 DEF AllowedBy
<1> QED
  BY <1>2, <1>3

LEMMA Counts ==
  ASSUME TypeOK, TypeOK', NEW m \in Msgs
  PROVE  /\ MaxRetries \in Nat
         /\ sent[m] \in Nat /\ sent'[m] \in Nat
         /\ Allowed(m) \in 0 .. MaxRetries /\ Allowed(m)' \in 0 .. MaxRetries
         /\ FirstToCome(m) \in {0, 1} /\ FirstToCome(m)' \in {0, 1}
         /\ RepeatToCome(m) \in {0, 1} /\ RepeatToCome(m)' \in {0, 1}
<1>1. MaxRetries \in Nat
  BY RetryAssumption
<1> QED
  BY <1>1, AllowedIsNat DEF TypeOK, Allowed, FirstToCome, RepeatToCome

(* What a step does to the store when it dispatches nothing.               *)
Shrinks ==
  \A j \in Keys : store'[j] # None =>
    /\ store[j] # None /\ store'[j].msg = store[j].msg
    /\ store'[j].attemptsRemaining <= store[j].attemptsRemaining

LEMMA EntryParts ==
  ASSUME NEW e \in Entries
  PROVE  /\ e.msg \in Msgs /\ e.attemptsRemaining \in Nat
         /\ [e EXCEPT !.isSent = TRUE].msg = e.msg
         /\ [e EXCEPT !.isSent = TRUE].attemptsRemaining = e.attemptsRemaining
         /\ [e EXCEPT !.attemptsRemaining = @ - 1].msg = e.msg
         /\ [e EXCEPT !.attemptsRemaining = @ - 1].attemptsRemaining = e.attemptsRemaining - 1
BY RetryAssumption DEF Entries

LEMMA StoredAreEntries ==
  ASSUME TypeOK, NEW j \in Keys, store[j] # None
  PROVE  store[j] \in Entries
BY DEF TypeOK

LEMMA AllowedShrinks ==
  ASSUME TypeOK, TypeOK', key' = key, Shrinks, NEW m \in Msgs
  PROVE  Allowed(m)' <= Allowed(m)
<1>1. Allowed(m) \in Nat
  BY Counts
<1>2. CASE key[m] # None /\ store'[key[m]] # None /\ store'[key[m]].msg = m
  <2>1. key[m] \in Keys
    BY <1>2 DEF TypeOK
  <2> QED
    BY <1>2, <2>1 DEF Shrinks, Allowed, AllowedBy
<1>3. CASE ~(key[m] # None /\ store'[key[m]] # None /\ store'[key[m]].msg = m)
  BY <1>1, <1>3 DEF Allowed, AllowedBy
<1> QED
  BY <1>2, <1>3

(* The budget holds after a step that dispatches nothing and adds nothing  *)
(* to what each message has used and may still use ...                     *)
LEMMA BudgetKept ==
  ASSUME TypeOK, TypeOK', Budget, key' = key,
         \A m \in Msgs :
           /\ key[m] = None => sent'[m] = sent[m]
           /\ sent'[m] + FirstToCome(m)' + RepeatToCome(m)' + Allowed(m)'
                <= sent[m] + FirstToCome(m) + RepeatToCome(m) + Allowed(m)
  PROVE  Budget'
<1> SUFFICES ASSUME NEW m \in Msgs
             PROVE  /\ key'[m] = None => sent'[m] = 0
                    /\ sent'[m] + FirstToCome(m)' + RepeatToCome(m)' + Allowed(m)'
                         <= 1 + MaxRetries
  BY DEF Budget
<1>1. /\ key[m] = None => sent[m] = 0
      /\ sent[m] + FirstToCome(m) + RepeatToCome(m) + Allowed(m) <= 1 + MaxRetries
  BY DEF Budget
<1> QED
  BY <1>1, Counts

(* ... as any step does that puts nothing on the wire and makes nothing    *)
(* new come.                                                               *)
LEMMA BudgetQuiet ==
  ASSUME TypeOK, TypeOK', Budget, key' = key, sent' = sent, Shrinks,
         \A m \in Msgs : /\ FirstToCome(m)' <= FirstToCome(m)
                         /\ RepeatToCome(m)' <= RepeatToCome(m)
  PROVE  Budget'
<1>1. ASSUME NEW m \in Msgs
      PROVE  sent'[m] + FirstToCome(m)' + RepeatToCome(m)' + Allowed(m)'
               <= sent[m] + FirstToCome(m) + RepeatToCome(m) + Allowed(m)
  <2>1. Allowed(m)' <= Allowed(m)
    BY AllowedShrinks
  <2> QED
    BY <2>1, Counts
<1> QED
  BY <1>1, BudgetKept

(* Every step keeps the budget.                                            *)
LEMMA BudgetStep ==
  ASSUME TypeOK, TypeOK', AtHand, Keyed, Unshared, Budget, Next
  PROVE  Budget'
<1> USE DEF sender, monitor, network, receiver
<1>1. ASSUME NEW t \in Senders, NEW m \in Msgs, NEW id \in Ids, Dispatch(t, m, id)
      PROVE  Budget'
  <2> DEFINE k == <<id, seqNum>>
  <2>1. k \in Keys /\ k # None
    BY RetryAssumption DEF TypeOK, Keys
  <2>2. \A n \in Msgs : key'[n] = (IF n = m THEN k ELSE key[n])
    BY <1>1 DEF Dispatch, TypeOK
  <2>3. /\ store'[k] # None => store'[k].msg = m
        /\ \A j \in Keys : j # k => store'[j] = store[j]
    BY <1>1, <2>1 DEF Dispatch, TypeOK
  <2>4. /\ UNCHANGED <<sent, repeated, mpc>> /\ key[m] = None
        /\ \A u \in Senders : u # t => sending'[u] = sending[u] /\ spc'[u] = spc[u]
        /\ sending'[t] = m
    BY <1>1 DEF Dispatch, TypeOK
  <2> HIDE DEF k
  <2>5. ASSUME NEW n \in Msgs
        PROVE  /\ key'[n] = None => sent'[n] = 0
               /\ sent'[n] + FirstToCome(n)' + RepeatToCome(n)' + Allowed(n)' <= 1 + MaxRetries
    <3>1. CASE n = m
      <4>1. sent'[m] = 0
        BY <2>4 DEF Budget
      <4>2. RepeatToCome(m)' = 0
        BY <2>4, RetryAssumption DEF RepeatToCome, Keyed
      <4> QED
        BY <2>1, <2>2, <3>1, <4>1, <4>2, Counts
    <3>2. CASE n # m
      <4>1. key'[n] = key[n] /\ sent'[n] = sent[n] /\ RepeatToCome(n)' = RepeatToCome(n)
        BY <2>2, <2>4, <3>2 DEF RepeatToCome
      <4>2. FirstToCome(n)' <= FirstToCome(n)
        BY <2>4, <3>2 DEF FirstToCome
      <4>3. Allowed(n)' <= Allowed(n)
        <5>1. CASE key[n] # None /\ key[n] # k
          <6>1. key[n] \in Keys
            BY <5>1 DEF TypeOK
          <6>2. Allowed(n)' = Allowed(n)
            BY <2>3, <4>1, <5>1, <6>1 DEF Allowed, AllowedBy
          <6> QED
            BY <6>2, Counts
        <5>2. CASE key[n] = None \/ key[n] = k
          <6>1. Allowed(n)' = 0
            BY <2>3, <3>2, <4>1, <5>2 DEF Allowed, AllowedBy
          <6> QED
            BY <6>1, Counts
        <5> QED
          BY <5>1, <5>2
      <4> QED
        BY <4>1, <4>2, <4>3, Counts DEF Budget
    <3> QED
      BY <3>1, <3>2
  <2> QED
    BY <2>5 DEF Budget
<1>2. ASSUME NEW t \in Senders, Sender(t)
      PROVE  Budget'
  <2>1. sending[t] \in Msgs /\ key[sending[t]] \in Keys
    BY <1>2 DEF Sender, Add, Send, SendReturns, AtHand, Keyed, TypeOK
  <2>2. /\ UNCHANGED <<key, repeated, mpc>>
        /\ \A u \in Senders : u # t => sending'[u] = sending[u] /\ spc'[u] = spc[u]
        /\ sending'[t] \in {sending[t], None}
        /\ spc'[t] \in {"add", "send"} => spc[t] \in {"add", "send"}
    BY <1>2 DEF Sender, Add, Send, SendReturns, TypeOK
  <2>3. \A n \in Msgs : FirstToCome(n)' <= FirstToCome(n) /\ RepeatToCome(n)' = RepeatToCome(n)
    BY <2>2, RetryAssumption DEF FirstToCome, RepeatToCome
  <2>4. CASE Send(t) /\ OnWire(sending[t])
    <3>0. PICK m \in Msgs : m = sending[t]
      BY <2>1
    <3>1. FirstToCome(m) = 1
      BY <2>4, <3>0 DEF FirstToCome, Send
    <3>2. FirstToCome(m)' = 0
      BY <2>2, <2>4, <3>0, RetryAssumption DEF FirstToCome, Send, Unshared, TypeOK
    <3>3. /\ sent'[m] = sent[m] + 1 /\ key[m] # None
          /\ \A n \in Msgs : n # m => sent'[n] = sent[n]
      BY <2>1, <2>4, <3>0, RetryAssumption DEF OnWire, TypeOK
    <3>4. Shrinks
      BY <2>4, StoredAreEntries, EntryParts DEF Send, Shrinks
    <3>5. ASSUME NEW n \in Msgs
          PROVE  sent'[n] + FirstToCome(n)' + RepeatToCome(n)' + Allowed(n)'
                   <= sent[n] + FirstToCome(n) + RepeatToCome(n) + Allowed(n)
      <4>1. Allowed(n)' <= Allowed(n)
        BY <2>2, <3>4, AllowedShrinks
      <4> QED
        <5>1. CASE n = m
          BY <2>3, <3>1, <3>2, <3>3, <4>1, <5>1, Counts
        <5>2. CASE n # m
          BY <2>3, <3>3, <4>1, <5>2, Counts
        <5> QED
          BY <5>1, <5>2
    <3> QED
      BY <2>2, <3>3, <3>5, BudgetKept
  <2>5. CASE ~(Send(t) /\ OnWire(sending[t]))
    <3>1. sent' = sent
      BY <1>2, <2>5 DEF Sender, Add, Send, SendReturns
    <3>2. Shrinks
      <4> DEFINE k == key[sending[t]]
      <4>1. CASE store' = store
        BY <4>1, StoredAreEntries, EntryParts DEF Shrinks
      <4>2. CASE SendReturns(t)
        <5>1. /\ \A j \in Keys : j # k => store'[j] = store[j]
              /\ \/ store'[k] = None
                 \/ store[k] # None /\ store'[k] = [store[k] EXCEPT !.isSent = TRUE]
          BY <2>1, <4>2 DEF SendReturns, Erase, TypeOK
        <5>2. ASSUME NEW j \in Keys, store'[j] # None
              PROVE  /\ store[j] # None /\ store'[j].msg = store[j].msg
                     /\ store'[j].attemptsRemaining <= store[j].attemptsRemaining
          <6>1. CASE j # k
            BY <5>1, <5>2, <6>1, StoredAreEntries, EntryParts
          <6>2. CASE j = k
            <7>1. store[k] # None /\ store'[k] = [store[k] EXCEPT !.isSent = TRUE]
              BY <5>1, <5>2, <6>2
            <7>2. store[k] \in Entries
              BY <2>1, <7>1, StoredAreEntries
            <7> HIDE DEF k
            <7> QED
              BY <6>2, <7>1, <7>2, EntryParts
          <6> QED
            BY <6>1, <6>2
        <5> QED
          BY <5>2 DEF Shrinks
      <4> QED
        BY <1>2, <4>1, <4>2 DEF Sender, Add, Send
    <3> QED
      BY <2>2, <2>3, <3>1, <3>2, BudgetQuiet, Counts
  <2> QED
    BY <2>4, <2>5
<1>3. ASSUME NEW k \in Keys, TimeoutRepeats(k)
      PROVE  Budget'
  <2>1. /\ UNCHANGED <<key, spc, sending, sent>>
        /\ mpc = "idle" /\ mpc' = "add" /\ repeated' = store[k].msg
        /\ store[k] # None
        /\ store'[k] = [store[k] EXCEPT !.attemptsRemaining = @ - 1]
        /\ \A j \in Keys : j # k => store'[j] = store[j]
    BY <1>3 DEF TimeoutRepeats, Timeout, TypeOK
  <2>2. PICK m \in Msgs : m = store[k].msg
    BY <2>1, StoredAreEntries, EntryParts
  <2>3. PICK a \in Nat : a = store[k].attemptsRemaining /\ a > 0
    BY <1>3, <2>1, StoredAreEntries, EntryParts DEF TimeoutRepeats
  <2>4. /\ k # None /\ key[m] = k
        /\ store'[k].msg = m /\ store'[k].attemptsRemaining = a - 1
    BY <2>1, <2>2, <2>3, StoredAreEntries, EntryParts, RetryAssumption DEF Keyed
  <2>5. Allowed(m) = a
    BY <2>1, <2>2, <2>3, <2>4 DEF Allowed, AllowedBy
  <2>6. Allowed(m)' <= a - 1
    <3>1. key'[m] = k
      BY <2>1, <2>4
    <3>2. Allowed(m)' \in {store'[k].attemptsRemaining, 0}
      BY <3>1 DEF Allowed, AllowedBy
    <3> QED
      BY <2>3, <2>4, <3>2
  <2>7. RepeatToCome(m) = 0 /\ \A n \in Msgs : n # m => RepeatToCome(n)' = 0
    BY <2>1, <2>2 DEF RepeatToCome
  <2>8. Shrinks
    <3>1. ASSUME NEW j \in Keys, j # k, store'[j] # None
          PROVE  store'[j] = store[j] /\ store[j].attemptsRemaining \in Nat
      BY <2>1, <3>1, StoredAreEntries, EntryParts
    <3>2. /\ store[k] # None /\ store'[k].msg = store[k].msg
          /\ store'[k].attemptsRemaining <= store[k].attemptsRemaining
      <4>1. store'[k].attemptsRemaining = a - 1 /\ store[k].attemptsRemaining = a
        BY <2>3, <2>4
      <4>2. a - 1 <= a
        BY <2>3
      <4> QED
        BY <2>1, <2>2, <2>4, <4>1, <4>2
    <3>3. ASSUME NEW j \in Keys, store'[j] # None
          PROVE  /\ store[j] # None /\ store'[j].msg = store[j].msg
                 /\ store'[j].attemptsRemaining <= store[j].attemptsRemaining
      <4>1. CASE j = k
        BY <3>2, <4>1
      <4>2. CASE j # k
        BY <3>1, <3>3, <4>2
      <4> QED
        BY <4>1, <4>2
    <3> QED
      BY <3>3 DEF Shrinks
  <2>9. ASSUME NEW n \in Msgs
        PROVE  sent'[n] + FirstToCome(n)' + RepeatToCome(n)' + Allowed(n)'
                 <= sent[n] + FirstToCome(n) + RepeatToCome(n) + Allowed(n)
    <3>1. sent'[n] = sent[n] /\ FirstToCome(n)' = FirstToCome(n) /\ Allowed(n)' <= Allowed(n)
      BY <2>1, <2>8, AllowedShrinks DEF FirstToCome
    <3>2. CASE n = m
      <4>1. Allowed(n)' <= Allowed(n) - 1
        BY <2>5, <2>6, <3>2
      <4> QED
        BY <2>7, <3>1, <3>2, <4>1, Counts
    <3>3. CASE n # m
      BY <2>7, <3>1, <3>3, Counts
    <3> QED
      BY <3>2, <3>3
  <2> QED
    BY <2>1, <2>9, BudgetKept
<1>4. ASSUME NEW k \in Keys, TimeoutForgotten(k) \/ TimeoutTooEarly(k) \/ TimeoutGivesUp(k)
      PROVE  Budget'
  <2>1. /\ UNCHANGED <<key, spc, sending, sent>>
        /\ mpc' \in {"idle", "readd"}
        /\ \A j \in Keys : j # k => store'[j] = store[j]
        /\ store'[k] \in {store[k], None}
    BY <1>4 DEF TimeoutForgotten, TimeoutTooEarly, TimeoutGivesUp, Timeout, TypeOK
  <2>2. Shrinks
    <3>1. \A j \in Keys : store'[j] \in {store[j], None}
      BY <2>1
    <3> QED
      BY <3>1, StoredAreEntries, EntryParts DEF Shrinks
  <2>3. \A n \in Msgs : FirstToCome(n)' = FirstToCome(n) /\ RepeatToCome(n)' = 0
    BY <2>1 DEF FirstToCome, RepeatToCome
  <2> QED
    BY <2>1, <2>2, <2>3, BudgetQuiet, Counts
<1>5. ASSUME AddAgain \/ SendAgain \/ EraseRefused
      PROVE  Budget'
  <2>1. repeated \in Msgs /\ key[repeated] \in Keys
    BY <1>5 DEF AddAgain, SendAgain, EraseRefused, AtHand, Keyed, TypeOK
  <2>2. UNCHANGED <<key, spc, sending>>
    BY <1>5 DEF AddAgain, SendAgain, EraseRefused
  <2>3. \A n \in Msgs : FirstToCome(n)' = FirstToCome(n) /\ RepeatToCome(n)' <= RepeatToCome(n)
    BY <1>5, <2>2, RetryAssumption
       DEF AddAgain, SendAgain, EraseRefused, FirstToCome, RepeatToCome
  <2>4. Shrinks
    <3>1. \A j \in Keys : store'[j] \in {store[j], None}
      BY <1>5, <2>1 DEF AddAgain, SendAgain, EraseRefused, Erase, TypeOK
    <3> QED
      BY <3>1, StoredAreEntries, EntryParts DEF Shrinks
  <2>5. CASE sent' = sent
    BY <2>2, <2>3, <2>4, <2>5, BudgetQuiet, Counts
  <2>6. CASE SendAgain /\ OnWire(repeated)
    <3>0. PICK m \in Msgs : m = repeated
      BY <2>1
    <3>1. RepeatToCome(m) = 1 /\ RepeatToCome(m)' = 0
      BY <2>6, <3>0 DEF RepeatToCome, SendAgain
    <3>2. /\ sent'[m] = sent[m] + 1 /\ key[m] # None
          /\ \A n \in Msgs : n # m => sent'[n] = sent[n]
      BY <2>1, <2>6, <3>0, RetryAssumption DEF OnWire, TypeOK
    <3>3. ASSUME NEW n \in Msgs
          PROVE  sent'[n] + FirstToCome(n)' + RepeatToCome(n)' + Allowed(n)'
                   <= sent[n] + FirstToCome(n) + RepeatToCome(n) + Allowed(n)
      <4>1. Allowed(n)' <= Allowed(n)
        BY <2>2, <2>4, AllowedShrinks
      <4> QED
        <5>1. CASE n = m
          BY <2>3, <3>1, <3>2, <4>1, <5>1, Counts
        <5>2. CASE n # m
          BY <2>3, <3>2, <4>1, <5>2, Counts
        <5> QED
          BY <5>1, <5>2
    <3> QED
      BY <2>2, <3>2, <3>3, BudgetKept
  <2> QED
    BY <1>5, <2>5, <2>6 DEF AddAgain, SendAgain, EraseRefused
<1>6. ASSUME Success
      PROVE  Budget'
  <2>1. UNCHANGED <<key, spc, sending, mpc, repeated, sent>>
    BY <1>6 DEF Success
  <2>2. \A j \in Keys : store'[j] \in {store[j], None}
    BY <1>6 DEF Success, Erase, TypeOK
  <2>3. Shrinks
    BY <2>2, StoredAreEntries, EntryParts DEF Shrinks
  <2>4. \A n \in Msgs : FirstToCome(n)' = FirstToCome(n) /\ RepeatToCome(n)' = RepeatToCome(n)
    BY <2>1 DEF FirstToCome, RepeatToCome
  <2> QED
    BY <2>1, <2>3, <2>4, BudgetQuiet, Counts
<1>7. ASSUME (\E K \in SUBSET Keys : Expire(K)) \/ (\E s \in SeqNums : Remove(s))
             \/ (\E m \in Msgs : Receive(m)) \/ ProcessIncoming \/ Rest
      PROVE  Budget'
  <2>1. UNCHANGED <<key, spc, sending, mpc, repeated, store, sent>>
    BY <1>7 DEF Expire, Remove, Receive, ProcessIncoming, Rest, vars
  <2> QED
    BY <2>1 DEF Budget, FirstToCome, RepeatToCome, Allowed, AllowedBy
<1> QED
  BY <1>1, <1>2, <1>3, <1>4, <1>5, <1>6, <1>7 DEF Next, Monitor

-----------------------------------------------------------------------------
LEMMA StepIInv == IInv /\ [Next]_vars => IInv'
<1> SUFFICES ASSUME IInv, [Next]_vars PROVE IInv'
  OBVIOUS
<1>1. CASE Next
  <2>1. TypeOK'
    BY <1>1, TypeStep DEF IInv
  <2>2. AtHand' /\ Unshared' /\ Keyed' /\ Watched'
    BY <1>1, AtHandStep, KeyedStep, WatchedStep DEF IInv
  <2>3. Budget'
    BY <1>1, <2>1, BudgetStep DEF IInv
  <2> QED
    BY <2>1, <2>2, <2>3 DEF IInv
<1>2. CASE UNCHANGED vars
  BY <1>2 DEF IInv, vars, sender, monitor, network, receiver, TypeOK, AtHand, Keyed,
       Unshared, Budget, Watched, FirstToCome, RepeatToCome, Allowed, AllowedBy
<1> QED
  BY <1>1, <1>2

LEMMA Invariance == Spec => []IInv
BY InitIInv, StepIInv, PTL DEF Spec

(* Every variable of Retry keeps its type: in particular no counter of     *)
(* attempts goes below zero, whoever counts.                               *)
THEOREM TypeCorrect == Spec => []TypeOK
<1>1. IInv => TypeOK
  BY DEF IInv
<1> QED
  BY <1>1, Invariance, PTL

(* No interleaving of SendWithRetry(), timeouts and acknowledgements puts  *)
(* a message on the wire more often than its first time and MaxRetries     *)
(* repetitions.                                                            *)
THEOREM BudgetAlwaysHolds == Spec => []BudgetHolds
<1>1. IInv => BudgetHolds
  <2> SUFFICES ASSUME IInv, NEW m \in Msgs PROVE sent[m] <= 1 + MaxRetries
    BY DEF BudgetHolds
  <2>1. MaxRetries \in Nat
    BY RetryAssumption
  <2>2. /\ sent[m] \in Nat /\ Allowed(m) \in 0 .. MaxRetries
        /\ FirstToCome(m) \in {0, 1} /\ RepeatToCome(m) \in {0, 1}
    BY AllowedIsNat DEF IInv, TypeOK, Allowed, FirstToCome, RepeatToCome
  <2>3. sent[m] + FirstToCome(m) + RepeatToCome(m) + Allowed(m) <= 1 + MaxRetries
    BY DEF IInv, Budget
  <2> QED
    BY <2>1, <2>2, <2>3
<1> QED
  BY <1>1, Invariance, PTL

(* A packet in m_retryStore always has somebody who will report, monitor   *)
(* or erase it, except after a renewal that met a full m_pending.          *)
THEOREM StoredStaysWatched == Spec => []StoredIsWatched
<1>1. IInv => StoredIsWatched
  <2> SUFFICES ASSUME IInv PROVE StoredIsWatched
    OBVIOUS
  <2>1. \A t \in Senders : spc[t] \in {"add", "erase"} => spc[t] # "out"
    OBVIOUS
  <2> QED
    BY <2>1 DEF IInv, Watched, StoredIsWatched
<1> QED
  BY <1>1, Invariance, PTL

-----------------------------------------------------------------------------
(* The receiving side.  The messages read so far; only they are in the     *)
(* histories, and their numbers have been acknowledged.                    *)
Received == {inbox} \cup {invoked[n] : n \in DOMAIN invoked}

InvokedKeyed == \A n \in DOMAIN invoked : key[invoked[n]] # None

Remembered ==
  \A id \in Ids : \A n \in DOMAIN history[id] :
    \E i \in DOMAIN invoked : key[invoked[i]] = <<id, history[id][n]>>

(* The number of a message is still in the history of its remote id, at    *)
(* its place from the end, until HistorySize others have come after it.    *)
After(read, keys, i, id) == {n \in i + 1 .. Len(read) : keys[read[n]][1] = id}
Ring ==
  /\ \A id \in Ids : Len(history[id]) <= HistorySize
  /\ \A i \in DOMAIN invoked :
       LET k == key[invoked[i]]
           h == history[k[1]]
           c == Cardinality(After(invoked, key, i, k[1]))
       IN  c < HistorySize => c < Len(h) /\ h[Len(h) - c] = k[2]

FInv == IInv /\ InvokedKeyed /\ Remembered /\ Ring /\ RepetitionsAreFarApart

(* While there are no more messages than numbers, none is given twice.     *)
NumbersSuffice == IsFiniteSet(Msgs) /\ Cardinality(Msgs) <= SeqMod

Dispatched == {m \in Msgs : key[m] # None}
Numbered ==
  /\ \A m \in Dispatched : key[m][2] < Cardinality(Dispatched)
  /\ \A m, n \in Dispatched : key[m][2] = key[n][2] => m = n
  /\ Cardinality(Dispatched) < SeqMod => seqNum = Cardinality(Dispatched)

Acknowledged ==
  /\ \A s \in acks : \E m \in Received \ {None} : key[m][2] = s
  /\ acked # None => acked[2] \in acks

SInv == FInv /\ Numbered /\ Acknowledged

LEMMA InitSInv == Init => FInv /\ Numbered /\ Acknowledged
<1> SUFFICES ASSUME Init PROVE FInv /\ Numbered /\ Acknowledged
  OBVIOUS
<1>1. InvokedKeyed /\ Remembered /\ RepetitionsAreFarApart
  BY DEF Init, InvokedKeyed, Remembered, RepetitionsAreFarApart
<1>2. Ring
  BY RetryAssumption DEF Init, Ring
<1>3. Dispatched = {}
  BY DEF Init, Dispatched
<1>4. Numbered
  BY <1>3, FS_EmptySet DEF Init, Numbered
<1>5. Acknowledged
  BY DEF Init, Acknowledged
<1> QED
  BY <1>1, <1>2, <1>4, <1>5, InitIInv DEF FInv

(* What the ring is after a number has been written to it. *)
Written(h, s, r) ==
  /\ r \in Seq(SeqNums) /\ Len(r) \in 1 .. HistorySize /\ r[Len(r)] = s
  /\ \A n \in DOMAIN r : r[n] = s \/ \E j \in DOMAIN h : r[n] = h[j]
  /\ \A c \in Nat : c < Len(h) /\ c + 1 < HistorySize =>
       c + 1 < Len(r) /\ r[Len(r) - (c + 1)] = h[Len(h) - c]

LEMMA RememberFacts ==
  ASSUME NEW h \in Seq(SeqNums), NEW s \in SeqNums, Len(h) <= HistorySize
  PROVE  Written(h, s, Remember(h, s))
<1> USE DEF Written
<1>0. HistorySize \in Nat \ {0} /\ Len(h) \in Nat
  BY RetryAssumption
<1>1. CASE Len(h) < HistorySize
  <2>1. Remember(h, s) = Append(h, s)
    BY <1>1 DEF Remember
  <2> QED
    BY <1>0, <1>1, <2>1
<1>2. CASE ~(Len(h) < HistorySize)
  <2>1. Remember(h, s) = Append(Tail(h), s) /\ Len(h) = HistorySize
    BY <1>0, <1>2 DEF Remember
  <2>2. /\ h # <<>> /\ Tail(h) \in Seq(SeqNums) /\ Len(Tail(h)) = HistorySize - 1
        /\ \A n \in 1 .. HistorySize - 1 : Tail(h)[n] = h[n + 1]
    BY <1>0, <2>1
  <2> DEFINE g == Tail(h)
  <2>3. Remember(h, s) = Append(g, s) /\ g \in Seq(SeqNums) /\ Len(g) = HistorySize - 1
        /\ \A n \in 1 .. HistorySize - 1 : g[n] = h[n + 1]
    BY <2>1, <2>2
  <2> HIDE DEF g
  <2>4. /\ Append(g, s) \in Seq(SeqNums) /\ Len(Append(g, s)) = HistorySize
        /\ Append(g, s)[HistorySize] = s
        /\ \A n \in 1 .. HistorySize - 1 : Append(g, s)[n] = h[n + 1]
    BY <1>0, <2>3
  <2> QED
    BY <1>0, <2>1, <2>3, <2>4
<1> QED
  BY <1>1, <1>2

LEMMA AfterIsFinite ==
  ASSUME TypeOK, NEW i \in Nat, NEW id
  PROVE  LET A == After(invoked, key, i, id)
         IN  IsFiniteSet(A) /\ Cardinality(A) \in Nat /\ Len(invoked) + 1 \notin A
<1>1. Len(invoked) \in Nat
  BY DEF TypeOK
<1>2. IsFiniteSet(i + 1 .. Len(invoked))
  BY <1>1, FS_Interval
<1>3. After(invoked, key, i, id) \subseteq i + 1 .. Len(invoked)
  BY DEF After
<1> QED
  BY <1>1, <1>2, <1>3, FS_Subset, FS_CardinalityType

(* A step that neither reads a message nor renumbers one that was read.    *)
LEMMA FKept ==
  ASSUME FInv, UNCHANGED <<invoked, history>>,
         \A n \in DOMAIN invoked : key'[invoked[n]] = key[invoked[n]]
  PROVE  InvokedKeyed' /\ Remembered' /\ Ring' /\ RepetitionsAreFarApart'
<1>1. InvokedKeyed' /\ Remembered'
  BY DEF FInv, InvokedKeyed, Remembered
<1>2. Len(invoked) \in Nat /\ DOMAIN invoked = 1 .. Len(invoked)
  BY DEF FInv, IInv, TypeOK
<1>3. ASSUME NEW i \in DOMAIN invoked, NEW id
      PROVE  After(invoked, key', i, id) = After(invoked, key, i, id)
  BY <1>2 DEF After
<1>4. Ring'
  <2>1. ASSUME NEW i \in DOMAIN invoked
        PROVE  LET k == key'[invoked[i]]
                   h == history[k[1]]
                   c == Cardinality(After(invoked, key', i, k[1]))
               IN  c < HistorySize => c < Len(h) /\ h[Len(h) - c] = k[2]
    <3>1. key'[invoked[i]] = key[invoked[i]]
      OBVIOUS
    <3> QED
      BY <1>3, <3>1 DEF FInv, Ring
  <2> QED
    BY <2>1 DEF FInv, Ring
<1>5. RepetitionsAreFarApart'
  <2> SUFFICES ASSUME NEW i \in DOMAIN invoked, NEW j \in DOMAIN invoked,
                      i < j, invoked[i] = invoked[j]
               PROVE  HistorySize <= Cardinality({n \in i + 1 .. j - 1 :
                                       key'[invoked[n]][1] = key'[invoked[i]][1]})
    BY DEF RepetitionsAreFarApart
  <2>1. {n \in i + 1 .. j - 1 : key'[invoked[n]][1] = key'[invoked[i]][1]}
          = {n \in i + 1 .. j - 1 : key[invoked[n]][1] = key[invoked[i]][1]}
    BY <1>2
  <2> QED
    BY <2>1 DEF FInv, RepetitionsAreFarApart
<1> QED
  BY <1>1, <1>4, <1>5

(* A message is read and is not in the history of its remote id.           *)
LEMMA FInvokes ==
  ASSUME FInv, ProcessIncoming, ~IsDuplicate(inbox)
  PROVE  InvokedKeyed' /\ Remembered' /\ Ring' /\ RepetitionsAreFarApart'
<1>1. PICK m \in Msgs, id \in Ids, s \in SeqNums :
        m = inbox /\ key[m] = <<id, s>> /\ key[m] # None
  <2>1. inbox \in Msgs /\ key[inbox] # None /\ key[inbox] \in Keys
    BY DEF ProcessIncoming, FInv, IInv, TypeOK, Keyed
  <2> QED
    BY <2>1 DEF Keys
<1>2a. PICK h \in Seq(SeqNums) : h = history[id]
  BY DEF FInv, IInv, TypeOK
<1>2b. PICK r : r = Remember(h, s)
  OBVIOUS
<1>2. h \in Seq(SeqNums) /\ h = history[id] /\ r = Remember(h, s)
  BY <1>2a, <1>2b
<1>3. PICK N \in Nat : N = Len(invoked) + 1
  BY DEF FInv, IInv, TypeOK
<1>4. /\ history' = [history EXCEPT ![id] = r]
      /\ invoked' = Append(invoked, m) /\ key' = key
  BY <1>1, <1>2 DEF ProcessIncoming
<1>5. /\ DOMAIN invoked = 1 .. Len(invoked) /\ Len(invoked) \in Nat /\ N \notin DOMAIN invoked
      /\ DOMAIN invoked' = DOMAIN invoked \cup {N} /\ Len(invoked') = N
      /\ invoked'[N] = m /\ \A n \in DOMAIN invoked : invoked'[n] = invoked[n]
  BY <1>3, <1>4 DEF FInv, IInv, TypeOK
<1>6. /\ r \in Seq(SeqNums) /\ Len(r) \in 1 .. HistorySize /\ r[Len(r)] = s
      /\ \A n \in DOMAIN r : r[n] = s \/ \E j \in DOMAIN h : r[n] = h[j]
      /\ \A c \in Nat : c < Len(h) /\ c + 1 < HistorySize =>
           c + 1 < Len(r) /\ r[Len(r) - (c + 1)] = h[Len(h) - c]
  <2>1. Len(h) <= HistorySize
    BY <1>2 DEF FInv, Ring
  <2>2. Written(h, s, r)
    BY <1>2, <2>1, RememberFacts
  <2> QED
    BY <2>2 DEF Written
<1>7. history'[id] = r /\ \A j \in Ids : j # id => history'[j] = history[j]
  BY <1>4 DEF FInv, IInv, TypeOK
<1>8. \A n \in DOMAIN invoked : invoked[n] \in Msgs /\ key[invoked[n]] \in Keys
  BY DEF FInv, IInv, TypeOK, InvokedKeyed
<1>9. InvokedKeyed'
  BY <1>1, <1>4, <1>5 DEF FInv, InvokedKeyed
<1>10. Remembered'
  <2> SUFFICES ASSUME NEW j \in Ids, NEW n \in DOMAIN history'[j]
               PROVE  \E i \in DOMAIN invoked' : key[invoked'[i]] = <<j, history'[j][n]>>
    BY <1>4 DEF Remembered
  <2>1. CASE j # id
    <3>1. \E i \in DOMAIN invoked : key[invoked[i]] = <<j, history'[j][n]>>
      BY <1>7, <2>1 DEF FInv, Remembered
    <3> QED
      BY <1>5, <3>1
  <2>2. CASE j = id /\ r[n] = s
    BY <1>1, <1>5, <1>7, <2>2
  <2>3. CASE j = id /\ \E i \in DOMAIN h : r[n] = h[i]
    <3>1. \E i \in DOMAIN invoked : key[invoked[i]] = <<j, r[n]>>
      BY <1>2, <2>3 DEF FInv, Remembered
    <3> QED
      BY <1>5, <1>7, <2>3, <3>1
  <2> QED
    BY <1>6, <1>7, <2>1, <2>2, <2>3
<1>11. ASSUME NEW i \in DOMAIN invoked, NEW j
       PROVE  After(invoked', key, i, j) =
                IF j = id THEN After(invoked, key, i, j) \cup {N} ELSE After(invoked, key, i, j)
  <2>1. i + 1 .. N = (i + 1 .. Len(invoked)) \cup {N} /\ i + 1 .. Len(invoked) \subseteq DOMAIN invoked
    BY <1>3, <1>5
  <2>2. key[m][1] = id
    BY <1>1
  <2> QED
    BY <1>5, <2>1, <2>2 DEF After
<1>12. ASSUME NEW i \in DOMAIN invoked, NEW j
       PROVE  /\ Cardinality(After(invoked, key, i, j)) \in Nat
              /\ Cardinality(After(invoked', key, i, j)) =
                   Cardinality(After(invoked, key, i, j)) + (IF j = id THEN 1 ELSE 0)
  <2>1. /\ IsFiniteSet(After(invoked, key, i, j))
        /\ Cardinality(After(invoked, key, i, j)) \in Nat
        /\ N \notin After(invoked, key, i, j)
    BY <1>3, <1>5, AfterIsFinite DEF FInv, IInv
  <2> QED
    BY <1>11, <2>1, FS_AddElement
<1>13. \A i \in DOMAIN invoked : \A c \in Nat :
         c = Cardinality(After(invoked, key, i, key[invoked[i]][1])) /\ c < HistorySize =>
           /\ c < Len(history[key[invoked[i]][1]])
           /\ history[key[invoked[i]][1]][Len(history[key[invoked[i]][1]]) - c] = key[invoked[i]][2]
  BY DEF FInv, Ring
<1>14. Ring'
  <2>1. \A j \in Ids : Len(history'[j]) <= HistorySize
    <3>1. Len(r) <= HistorySize
      BY <1>6, RetryAssumption
    <3> QED
      BY <1>7, <3>1 DEF FInv, Ring
  <2>2. ASSUME NEW i \in DOMAIN invoked', NEW j, NEW n, key[invoked'[i]] = <<j, n>>,
               NEW c, c = Cardinality(After(invoked', key, i, j)), c < HistorySize
        PROVE  c < Len(history'[j]) /\ history'[j][Len(history'[j]) - c] = n
    <3>1. CASE i = N
      <4>1. After(invoked', key, N, j) = {}
        BY <1>5 DEF After
      <4>2. c = 0
        BY <2>2, <3>1, <4>1, FS_EmptySet
      <4>3. j = id /\ n = s
        BY <1>1, <1>5, <2>2, <3>1
      <4>4. 0 < Len(r) /\ r[Len(r) - 0] = s
        BY <1>6, RetryAssumption
      <4> QED
        BY <1>7, <4>2, <4>3, <4>4
    <3>2. CASE i \in DOMAIN invoked
      <4>1. key[invoked[i]] = <<j, n>> /\ j \in Ids
        BY <1>5, <1>8, <2>2, <3>2 DEF Keys
      <4>2. PICK b \in Nat : b = Cardinality(After(invoked, key, i, j))
        BY <1>12, <3>2
      <4>3. b < HistorySize => b < Len(history[j]) /\ history[j][Len(history[j]) - b] = n
        BY <1>13, <3>2, <4>1, <4>2
      <4>4. CASE j = id
        <5>1. c = b + 1
          BY <1>12, <2>2, <3>2, <4>2, <4>4
        <5>2. b < HistorySize
          BY <2>2, <5>1, RetryAssumption
        <5> QED
          BY <1>2, <1>6, <1>7, <2>2, <4>3, <4>4, <5>1, <5>2
      <4>5. CASE j # id
        <5>1. c = b
          BY <1>12, <2>2, <3>2, <4>2, <4>5
        <5> QED
          BY <1>7, <2>2, <4>1, <4>3, <4>5, <5>1
      <4> QED
        BY <4>4, <4>5
    <3> QED
      BY <1>5, <3>1, <3>2
  <2>3. \A i \in DOMAIN invoked' : key[invoked'[i]] \in Keys
    <3>1. key[m] \in Keys
      BY <1>1 DEF Keys
    <3> QED
      BY <1>5, <1>8, <3>1
  <2>4. ASSUME NEW i \in DOMAIN invoked'
        PROVE  LET k == key[invoked'[i]]
                   g == history'[k[1]]
                   c == Cardinality(After(invoked', key, i, k[1]))
               IN  c < HistorySize => c < Len(g) /\ g[Len(g) - c] = k[2]
    <3>1. PICK j \in Ids, n \in SeqNums : key[invoked'[i]] = <<j, n>>
      BY <2>3 DEF Keys
    <3> QED
      BY <2>2, <3>1
  <2> QED
    BY <1>4, <2>1, <2>4 DEF Ring
<1>15. RepetitionsAreFarApart'
  <2> SUFFICES ASSUME NEW i \in DOMAIN invoked', NEW j \in DOMAIN invoked',
                      i < j, invoked'[i] = invoked'[j]
               PROVE  HistorySize <= Cardinality({n \in i + 1 .. j - 1 :
                                       key'[invoked'[n]][1] = key'[invoked'[i]][1]})
    BY DEF RepetitionsAreFarApart
  <2>1. i \in DOMAIN invoked /\ i + 1 .. j - 1 \subseteq DOMAIN invoked
    BY <1>3, <1>5
  <2>2. {n \in i + 1 .. j - 1 : key'[invoked'[n]][1] = key'[invoked'[i]][1]}
          = {n \in i + 1 .. j - 1 : key[invoked[n]][1] = key[invoked[i]][1]}
    BY <1>4, <1>5, <2>1
  <2>3. CASE j \in DOMAIN invoked
    <3>1. invoked[i] = invoked[j]
      BY <1>5, <2>1, <2>3
    <3>2. HistorySize <= Cardinality({n \in i + 1 .. j - 1 : key[invoked[n]][1] = key[invoked[i]][1]})
      BY <2>1, <2>3, <3>1 DEF FInv, RepetitionsAreFarApart
    <3> QED
      BY <2>2, <3>2
  <2>4. CASE j = N
    <3>1. key[invoked[i]] = <<id, s>>
      BY <1>1, <1>5, <2>1, <2>4
    <3>2. {n \in i + 1 .. j - 1 : key[invoked[n]][1] = key[invoked[i]][1]}
            = After(invoked, key, i, id)
      BY <1>3, <1>5, <2>4, <3>1 DEF After
    <3>3. PICK c \in Nat : c = Cardinality(After(invoked, key, i, id))
      BY <1>12, <2>1
    <3>4. c < HistorySize => c < Len(h) /\ h[Len(h) - c] = s
      BY <1>2, <1>13, <2>1, <3>1, <3>3
    <3>5. \A n \in DOMAIN h : h[n] # s
      BY <1>1, <1>2 DEF IsDuplicate
    <3>6. HistorySize <= c
      BY <3>4, <3>5, RetryAssumption
    <3> QED
      BY <2>2, <3>2, <3>3, <3>6
  <2> QED
    BY <1>5, <2>3, <2>4
<1> QED
  BY <1>9, <1>10, <1>14, <1>15

LEMMA FStep == FInv /\ [Next]_vars => FInv'
<1> SUFFICES ASSUME FInv, [Next]_vars PROVE FInv'
  OBVIOUS
<1>1. IInv'
  BY StepIInv DEF FInv
<1>2. CASE ProcessIncoming /\ ~IsDuplicate(inbox)
  BY <1>1, <1>2, FInvokes DEF FInv
<1>3. CASE ~(ProcessIncoming /\ ~IsDuplicate(inbox))
  <2>1. UNCHANGED <<invoked, history>>
    BY <1>3 DEF Next, Sender, Monitor, Dispatch, Add, Send, SendReturns, Expire, Timeout,
         TimeoutForgotten, TimeoutRepeats, TimeoutTooEarly, TimeoutGivesUp, AddAgain, SendAgain,
         EraseRefused, Remove, Success, Receive, ProcessIncoming, Rest, vars, receiver
  <2>2. \A n \in DOMAIN invoked : key'[invoked[n]] = key[invoked[n]]
    <3>1. CASE key' = key
      BY <3>1
    <3>2. ASSUME NEW t \in Senders, NEW m \in Msgs, NEW id \in Ids, Dispatch(t, m, id)
          PROVE  \A n \in DOMAIN invoked : key'[invoked[n]] = key[invoked[n]]
      BY <3>2 DEF Dispatch, FInv, InvokedKeyed, IInv, TypeOK
    <3> QED
      BY <3>1, <3>2 DEF Next, Sender, Monitor, Add, Send, SendReturns, Expire, Timeout,
         TimeoutForgotten, TimeoutRepeats, TimeoutTooEarly, TimeoutGivesUp, AddAgain, SendAgain,
         EraseRefused, Remove, Success, Receive, ProcessIncoming, Rest, vars
  <2> QED
    BY <1>1, <2>1, <2>2, FKept DEF FInv
<1> QED
  BY <1>2, <1>3

LEMMA AlwaysFInv == Spec => []FInv
BY InitSInv, FStep, PTL DEF Spec

(* A message is invoked again only after HistorySize others of its remote  *)
(* id, whatever the network repeats and however the numbers come round.    *)
THEOREM RepetitionsStayFarApart == Spec => []RepetitionsAreFarApart
<1>1. FInv => RepetitionsAreFarApart
  BY DEF FInv
<1> QED
  BY <1>1, AlwaysFInv, PTL

-----------------------------------------------------------------------------
(* With enough numbers, what is taken for a repetition is one.             *)
LEMMA DuplicatesWereInvoked ==
  ASSUME FInv, Numbered, inbox # None, IsDuplicate(inbox)
  PROVE  \E n \in DOMAIN invoked : invoked[n] = inbox
<1>1. inbox \in Msgs /\ key[inbox] \in Keys /\ key[inbox] # None
  BY DEF FInv, IInv, TypeOK, Keyed
<1>2. PICK id \in Ids, s \in SeqNums : key[inbox] = <<id, s>>
  BY <1>1 DEF Keys
<1>3. PICK n \in DOMAIN history[id] : history[id][n] = s
  BY <1>2 DEF IsDuplicate
<1>4. PICK i \in DOMAIN invoked : key[invoked[i]] = <<id, s>>
  BY <1>3 DEF FInv, Remembered
<1>5. invoked[i] \in Msgs /\ key[invoked[i]] # None
  BY DEF FInv, IInv, TypeOK, InvokedKeyed
<1>6. invoked[i] = inbox
  BY <1>1, <1>2, <1>4, <1>5 DEF Numbered, Dispatched
<1> QED
  BY <1>6

LEMMA NumberedStep ==
  ASSUME NumbersSuffice, IInv, Numbered, Next
  PROVE  Numbered'
<1>1. CASE UNCHANGED <<key, seqNum>>
  <2>1. Dispatched' = Dispatched
    BY <1>1 DEF Dispatched
  <2> QED
    BY <1>1, <2>1 DEF Numbered
<1>2. ASSUME NEW t \in Senders, NEW m \in Msgs, NEW id \in Ids, Dispatch(t, m, id)
      PROVE  Numbered'
  <2>1. /\ key[m] = None /\ key' = [key EXCEPT ![m] = <<id, seqNum>>]
        /\ seqNum' = (seqNum + 1) % SeqMod
    BY <1>2 DEF Dispatch
  <2>2. PICK c \in Nat : c = Cardinality(Dispatched) /\ IsFiniteSet(Dispatched)
    BY FS_Subset, FS_CardinalityType DEF NumbersSuffice, Dispatched
  <2>3. Dispatched' = Dispatched \cup {m} /\ m \notin Dispatched
    BY <2>1, RetryAssumption DEF Dispatched, IInv, TypeOK, Keys
  <2>4. Cardinality(Dispatched') = c + 1
    BY <2>2, <2>3, FS_AddElement
  <2>5. c + 1 <= SeqMod
    <3>1. Dispatched' \subseteq Msgs
      BY <2>3 DEF Dispatched
    <3>2. Cardinality(Dispatched') <= Cardinality(Msgs)
      BY <3>1, FS_Subset DEF NumbersSuffice
    <3>3. Cardinality(Msgs) \in Nat
      BY FS_CardinalityType DEF NumbersSuffice
    <3> QED
      BY <2>4, <3>2, <3>3, RetryAssumption DEF NumbersSuffice
  <2>6. seqNum = c
    BY <2>2, <2>5, RetryAssumption DEF Numbered
  <2>7. /\ key'[m][2] = c
        /\ \A n \in Dispatched : key'[n] = key[n] /\ key[n][2] \in Nat /\ key[n][2] < c
    <3>1. \A n \in Dispatched : n \in Msgs /\ n # m /\ key[n] \in Keys
      BY <2>3 DEF Dispatched, IInv, TypeOK
    <3>2. \A n \in Dispatched : key[n][2] \in Nat
      BY <3>1, KeyParts, RetryAssumption DEF SeqNums
    <3> QED
      BY <2>1, <2>2, <2>6, <3>1, <3>2 DEF Numbered, IInv, TypeOK
  <2>8. c + 1 < SeqMod => seqNum' = c + 1
    BY <2>1, <2>6, RetryAssumption
  <2>9. \A n \in Dispatched' : key'[n][2] < c + 1
    BY <2>3, <2>7
  <2>10. \A n, o \in Dispatched' : key'[n][2] = key'[o][2] => n = o
    BY <2>3, <2>7 DEF Numbered
  <2> QED
    BY <2>4, <2>8, <2>9, <2>10 DEF Numbered
<1>3. (\E t \in Senders, m \in Msgs, id \in Ids : Dispatch(t, m, id)) \/ UNCHANGED <<key, seqNum>>
  BY DEF Next, Sender, Monitor, Add, Send, SendReturns, Expire, Timeout,
     TimeoutForgotten, TimeoutRepeats, TimeoutTooEarly, TimeoutGivesUp, AddAgain, SendAgain,
     EraseRefused, Remove, Success, Receive, ProcessIncoming, Rest, vars
<1> QED
  BY <1>1, <1>2, <1>3

(* What is acknowledged has been read, and stays so. *)
LEMMA AcknowledgedStep ==
  ASSUME SInv, Next
  PROVE  Acknowledged'
<1> DEFINE Read == Received \ {None}
<1>0. /\ Read \subseteq Msgs /\ \A m \in Read : key[m] # None
      /\ \A m \in Msgs : key[m] # None => key'[m] = key[m]
  <2>1. Read \subseteq Msgs /\ \A m \in Read : key[m] # None
    BY DEF SInv, FInv, IInv, TypeOK, Keyed, InvokedKeyed, Received
  <2>2. \A m \in Msgs : key[m] # None => key'[m] = key[m]
    <3>1. CASE key' = key
      BY <3>1
    <3>2. ASSUME NEW t \in Senders, NEW n \in Msgs, NEW id \in Ids, Dispatch(t, n, id)
          PROVE  \A m \in Msgs : key[m] # None => key'[m] = key[m]
      BY <3>2 DEF Dispatch, SInv, FInv, IInv, TypeOK
    <3> QED
      BY <3>1, <3>2 DEF Next, Sender, Monitor, Add, Send, SendReturns, Expire, Timeout,
         TimeoutForgotten, TimeoutRepeats, TimeoutTooEarly, TimeoutGivesUp, AddAgain, SendAgain,
         EraseRefused, Remove, Success, Receive, ProcessIncoming, Rest, vars
  <2> QED
    BY <2>1, <2>2
<1>1. Read \subseteq (Received \ {None})'
  <2>1. CASE ProcessIncoming
    <3>1. CASE IsDuplicate(inbox)
      <4>1. \E n \in DOMAIN invoked : invoked[n] = inbox
        BY <2>1, <3>1, DuplicatesWereInvoked DEF SInv, ProcessIncoming
      <4>2. invoked' = invoked /\ inbox' = None
        BY <2>1, <3>1 DEF ProcessIncoming
      <4> QED
        BY <4>1, <4>2 DEF Received
    <3>2. CASE ~IsDuplicate(inbox)
      <4>1. invoked' = Append(invoked, inbox) /\ inbox' = None /\ inbox \in Msgs
        BY <2>1, <3>2 DEF ProcessIncoming, SInv, FInv, IInv, TypeOK
      <4>2. /\ DOMAIN invoked' = DOMAIN invoked \cup {Len(invoked) + 1}
            /\ invoked'[Len(invoked) + 1] = inbox
            /\ \A n \in DOMAIN invoked : invoked'[n] = invoked[n]
        BY <4>1 DEF SInv, FInv, IInv, TypeOK
      <4> QED
        BY <4>1, <4>2 DEF Received
    <3> QED
      BY <3>1, <3>2
  <2>2. ASSUME NEW m \in Msgs, Receive(m) PROVE Read \subseteq (Received \ {None})'
    BY <2>2 DEF Receive, Received
  <2>3. CASE UNCHANGED <<inbox, invoked>>
    BY <2>3 DEF Received
  <2> QED
    BY <2>1, <2>2, <2>3 DEF Next, Sender, Monitor, Dispatch, Add, Send, SendReturns, Expire, Timeout,
       TimeoutForgotten, TimeoutRepeats, TimeoutTooEarly, TimeoutGivesUp, AddAgain, SendAgain,
       EraseRefused, Remove, Success, Rest, vars, receiver
<1>2. ASSUME NEW m \in Msgs, Receive(m)
      PROVE  acks' = acks \cup {key[m][2]} /\ m \in (Received \ {None})' /\ key' = key
  BY <1>2, RetryAssumption DEF Receive, Received
<1>3. \A s \in acks' : \E m \in (Received \ {None})' : key'[m][2] = s
  <2>1. \A s \in acks : \E m \in (Received \ {None})' : key'[m][2] = s
    BY <1>0, <1>1 DEF SInv, Acknowledged
  <2>2. CASE acks' = acks
    BY <2>1, <2>2
  <2>3. ASSUME NEW m \in Msgs, Receive(m)
        PROVE  \A s \in acks' : \E n \in (Received \ {None})' : key'[n][2] = s
    BY <1>2, <2>1, <2>3
  <2> QED
    BY <2>2, <2>3 DEF Next, Sender, Monitor, Dispatch, Add, Send, SendReturns, OnWire, Expire, Timeout,
       TimeoutForgotten, TimeoutRepeats, TimeoutTooEarly, TimeoutGivesUp, AddAgain, SendAgain,
       EraseRefused, Remove, Success, ProcessIncoming, Rest, vars, network
<1>4. acks \subseteq acks'
  <2>1. ASSUME NEW m \in Msgs, Receive(m) PROVE acks \subseteq acks'
    BY <2>1, <1>2
  <2> QED
    BY <2>1 DEF Next, Sender, Monitor, Dispatch, Add, Send, SendReturns, OnWire, Expire, Timeout,
       TimeoutForgotten, TimeoutRepeats, TimeoutTooEarly, TimeoutGivesUp, AddAgain, SendAgain,
       EraseRefused, Remove, Success, ProcessIncoming, Rest, vars, network
<1>5. acked' # None => acked'[2] \in acks'
  <2>1. CASE acked' = acked \/ acked' = None
    BY <1>4, <2>1 DEF SInv, Acknowledged
  <2>2. ASSUME NEW s \in SeqNums, Remove(s) PROVE acked'[2] \in acks'
    BY <1>4, <2>2 DEF Remove
  <2> QED
    BY <2>1, <2>2 DEF Next, Sender, Monitor, Dispatch, Add, Send, SendReturns, Expire, Timeout,
       TimeoutForgotten, TimeoutRepeats, TimeoutTooEarly, TimeoutGivesUp, AddAgain, SendAgain,
       EraseRefused, Success, Receive, ProcessIncoming, Rest, vars
<1> QED
  BY <1>3, <1>5 DEF Acknowledged

LEMMA SStep == NumbersSuffice /\ SInv /\ [Next]_vars => SInv'
<1> SUFFICES ASSUME NumbersSuffice, SInv, [Next]_vars PROVE SInv'
  OBVIOUS
<1>1. FInv'
  BY FStep DEF SInv
<1>2. CASE Next
  BY <1>1, <1>2, NumberedStep, AcknowledgedStep DEF SInv, FInv
<1>3. CASE UNCHANGED vars
  <2>1. Numbered'
    BY <1>3 DEF SInv, Numbered, Dispatched, vars
  <2>2. Acknowledged'
    BY <1>3 DEF SInv, Acknowledged, Received, vars, network, receiver
  <2> QED
    BY <1>1, <2>1, <2>2 DEF SInv
<1> QED
  BY <1>2, <1>3

LEMMA AlwaysSInv == ASSUME NumbersSuffice PROVE Spec => []SInv
<1>1. Init => SInv
  BY InitSInv DEF SInv
<1>2. SInv /\ [Next]_vars => SInv'
  BY SStep
<1> QED
  BY <1>1, <1>2, PTL DEF Spec

(* SUCCESS is reported of messages that have been received, as long as no  *)
(* number is given twice: an acknowledgement names a number only.          *)
THEOREM SuccessIsReceived ==
  ASSUME NumbersSuffice PROVE Spec => []SuccessMeansReceived
<1>1. SInv => SuccessMeansReceived
  <2> SUFFICES ASSUME SInv, NEW m \in Msgs, acked # None, acked = key[m]
               PROVE  inbox = m \/ \E n \in DOMAIN invoked : invoked[n] = m
    BY DEF SuccessMeansReceived
  <2>1. PICK n \in Received \ {None} : key[n][2] = key[m][2]
    BY DEF SInv, Acknowledged
  <2>2. n \in Dispatched /\ m \in Dispatched
    BY DEF SInv, FInv, IInv, TypeOK, Keyed, InvokedKeyed, Received, Dispatched
  <2>3. n = m
    BY <2>1, <2>2 DEF SInv, Numbered
  <2> QED
    BY <2>3 DEF Received
<1> QED
  BY <1>1, AlwaysSInv, PTL

(* The filter drops repetitions and nothing else, and lets one through     *)
(* only after HistorySize other messages, as long as no number is given    *)
(* twice.                                                                  *)
THEOREM FilterStaysExact ==
  ASSUME NumbersSuffice PROVE Spec => []FilterIsExact
<1>1. SInv => FilterIsExact
  BY DuplicatesWereInvoked DEF SInv, FInv, FilterIsExact, OnlyDuplicatesDropped
<1> QED
  BY <1>1, AlwaysSInv, PTL
=============================================================================
