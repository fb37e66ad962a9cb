----------------------------- MODULE PortsProofs ----------------------------
(***************************************************************************)
(* Proofs about Ports: on every port, for any number of users, tasks and   *)
(* messages, any limit and policy, lifetimes, order and limit hold, and    *)
(* urgent messages go first.                                               *)
(***************************************************************************)
EXTENDS Ports, FiniteSetTheorems, SequenceTheorems, TLAPS

-----------------------------------------------------------------------------
(* The inductive invariant.                                                *)

Sending == {u \in Users : call[u].pc = "sending"}
Live    == {t \in TaskIds : loop[t] \notin {"none", "gone"}}
Exits   == {i \in DOMAIN queue : queue[i].id = 0}

(* A task that will go on with the message it runs; on the RTOS ports, one *)
(* that is at all past the test of m_exit.                                 *)
Handles(t) == loop[t] \in {"run", "posting"}
Busy(t)    == loop[t] \in {"wait", "run", "posting"}
RunsNormal(t) == Handles(t) /\ running[t].prio = "NORMAL"
NormalAt(i)   == queue[i].id # 0 /\ queue[i].prio = "NORMAL"

Accepted ==
    /\ IsFiniteSet(accepted)
    /\ \A m \in accepted : m.id \in 1 .. Cardinality(accepted)
    /\ Cardinality(accepted) + Cardinality(Sending) <= MaxMsgs

(* What waits was accepted or asks the thread to end; what is handled was  *)
(* accepted.                                                               *)
Contents ==
    /\ \A i \in DOMAIN queue :
         \/ queue[i] \in accepted
         \/ port \in Rtos /\ m_exit /\ queue[i] = ExitMsg
         \/ port = "win32" /\ queue[i] = [ExitMsg EXCEPT !.prio = "HIGH"]
    /\ \A t \in TaskIds : Handles(t) => running[t] \in accepted
    /\ \A k \in DOMAIN served : served[k] \in accepted

(* RTOS: as long as nobody has asked for the end there is one task or      *)
(* none, and no token; afterwards no task begins to wait any more.         *)
Fresh ==
    port \in Rtos =>
      /\ hQueue <=> hTask # 0
      /\ ~hQueue => queue = <<>>
      /\ ~m_exit => /\ exitSem = 0 /\ call[Owner].pc = "idle"
                    /\ Created \subseteq {hTask}
                    /\ \A t \in Created : loop[t] \in {"top", "wait", "run"}
      /\ \A t \in TaskIds : loop[t] = "wait" => hTask = t /\ exitSem = 0 /\ Created = {t}
      /\ \A s, t \in TaskIds : Busy(s) /\ Busy(t) => s = t

(* Nobody has ended himself: the tasks but the one the handle names are    *)
(* gone, and the token is there once that one is, too.                     *)
Exited ==
    ~selfExited =>
      /\ \A t \in TaskIds : loop[t] # "posting"
      /\ port \notin Rtos => exitSem = 0
      /\ \A t \in Created : t # hTask => loop[t] = "gone"
      /\ exitSem \in {0, 1} /\ (hTask = 0 => exitSem = 0)
      /\ exitSem = 1 => \A t \in Created : loop[t] = "gone"

QtOnly ==
    /\ port # "qt" => m_queueSize = 0 /\ unacked = 0 /\ quit = {}
    /\ port = "qt" =>
         /\ ~selfExited /\ (hTask = 0 => queue = <<>>)
         /\ \A t \in TaskIds : loop[t] \in {"none", "top", "run", "gone"}
         /\ \A t \in TaskIds : loop[t] = "gone" => t \in quit
         /\ m_queueSize <= Cap
         /\ Len(queue) + unacked + (IF \E t \in TaskIds : loop[t] = "run" THEN 1 ELSE 0) <= m_queueSize

(* Win32: for each task that has not ended there is an exit message, but   *)
(* for the one that nobody has asked to end yet.                           *)
Win32Only ==
    port = "win32" =>
      /\ \A t \in TaskIds : loop[t] \in {"none", "top", "run", "gone"}
      /\ Cardinality(Live) <= Cardinality(Exits) + (IF hTask # 0 /\ call[Owner].pc # "joining" THEN 1 ELSE 0)

Sorted ==
    port \in {"freertos", "threadx", "cmsis", "win32"} =>
      \A i, j \in DOMAIN queue : i < j /\ Urgent(j) => Urgent(i)

(* Normal messages: handled, running, waiting, in the order of their       *)
(* numbers; one runs at a time.                                            *)
InOrder ==
    /\ NormalOrder
    /\ \A s, t \in TaskIds : RunsNormal(s) /\ RunsNormal(t) => s = t
    /\ \A i, j \in DOMAIN queue : i < j /\ NormalAt(i) /\ NormalAt(j) => queue[i].id < queue[j].id
    /\ \A t \in TaskIds, i \in DOMAIN queue : RunsNormal(t) /\ NormalAt(i) => running[t].id < queue[i].id
    /\ \A k \in DOMAIN served : served[k].prio = "NORMAL" =>
         /\ \A t \in TaskIds : RunsNormal(t) => served[k].id < running[t].id
         /\ \A i \in DOMAIN queue : NormalAt(i) => served[k].id < queue[i].id

Kept ==
    port = "win32" \/ (~m_exit /\ quit = {} /\ ~selfExited)
    => \A m \in accepted :
         \/ \E i \in DOMAIN queue : queue[i] = m
         \/ \E k \in DOMAIN served : served[k] = m
         \/ \E t \in TaskIds : loop[t] = "run" /\ running[t] = m

Bounded ==
    /\ port \in Rtos => Len(queue) <= Cap
    /\ Cardinality(Waiting) <= Cap

PInv ==
    /\ TypeOK /\ Accepted /\ Contents /\ Fresh /\ Exited /\ QtOnly /\ Win32Only /\ Sorted
    /\ InOrder /\ Kept /\ Bounded

-----------------------------------------------------------------------------
(* The queue as a sequence.                                                *)

(* r is q with m put behind its first n elements.                          *)
Placed(q, n, m, r) ==
    /\ r \in Seq(Msgs) /\ Len(r) = Len(q) + 1
    /\ \A i \in 1 .. Len(q) + 1 :
         r[i] = IF i <= n THEN q[i] ELSE IF i = n + 1 THEN m ELSE q[i - 1]

(* The places in q of messages in S.                                       *)
Places(q, S) == {i \in DOMAIN q : q[i] \in S}

LEMMA InsertPlaces ==
  ASSUME NEW q \in Seq(Msgs), NEW n \in 0 .. Len(q), NEW m \in Msgs
  PROVE  Placed(q, n, m, InsertAt(q, n + 1, m))
<1>a. PICK front : front = SubSeq(q, 1, n)
  OBVIOUS
<1>b. PICK back : back = SubSeq(q, n + 1, Len(q))
  OBVIOUS
<1>1. Len(q) \in Nat /\ n \in Nat /\ \A i \in 1 .. Len(q) : q[i] \in Msgs
  BY LenProperties, ElementOfSeq
<1>2. /\ front \in Seq(Msgs) /\ Len(front) = n
      /\ \A i \in 1 .. n : front[i] = q[i]
  <2>1. \A i \in 1 .. n : q[i] \in Msgs
    BY <1>1
  <2> QED BY <1>a, <1>1, <2>1, SubSeqProperties
<1>3. /\ back \in Seq(Msgs) /\ Len(back) = Len(q) - n
      /\ \A i \in 1 .. Len(q) - n : back[i] = q[n + i]
  <2>1. \A i \in n + 1 .. Len(q) : q[i] \in Msgs
    BY <1>1
  <2>2. n + 1 \in Int /\ Len(q) \in Int
    BY <1>1
  <2>3. /\ back \in Seq(Msgs) /\ Len(back) = IF n + 1 <= Len(q) THEN Len(q) - (n + 1) + 1 ELSE 0
        /\ \A i \in 1 .. Len(q) - (n + 1) + 1 : back[i] = q[(n + 1) + i - 1]
    BY <1>b, <2>1, <2>2, SubSeqProperties
  <2> QED BY <1>1, <2>3
<1>4. <<m>> \in Seq(Msgs) /\ Len(<<m>>) = 1 /\ <<m>>[1] = m
  OBVIOUS
<1>5. PICK head : head = front \o <<m>>
  OBVIOUS
<1>6. /\ head \in Seq(Msgs) /\ Len(head) = n + 1
      /\ \A i \in 1 .. n + 1 : head[i] = IF i <= n THEN q[i] ELSE m
  BY <1>1, <1>2, <1>4, <1>5, ConcatProperties
<1>7. PICK r : r = head \o back
  OBVIOUS
<1>8. /\ r \in Seq(Msgs) /\ Len(r) = Len(q) + 1
      /\ \A i \in 1 .. Len(q) + 1 : r[i] = IF i <= n + 1 THEN head[i] ELSE back[i - (n + 1)]
  <2>a. Len(head) = n + 1 /\ Len(back) = Len(q) - n
    BY <1>3, <1>6
  <2>1. Len(head) + Len(back) = Len(q) + 1
    BY <1>1, <2>a
  <2>2. /\ r \in Seq(Msgs) /\ Len(r) = Len(head) + Len(back)
        /\ \A i \in 1 .. Len(head) + Len(back) : r[i] = IF i <= Len(head) THEN head[i] ELSE back[i - Len(head)]
    BY <1>3, <1>6, <1>7, ConcatProperties
  <2> QED BY <2>a, <2>1, <2>2
<1>9. r = InsertAt(q, n + 1, m)
  <2>1. n + 1 - 1 = n
    BY <1>1
  <2>2. PICK k : k = n + 1
    OBVIOUS
  <2>3. InsertAt(q, k, m) = (SubSeq(q, 1, k - 1) \o <<m>>) \o SubSeq(q, k, Len(q))
    BY DEF InsertAt
  <2>4. SubSeq(q, 1, k - 1) = front
    BY <1>a, <2>1, <2>2
  <2> QED BY <1>b, <1>5, <1>7, <2>2, <2>3, <2>4
<1>10. \A i \in 1 .. Len(q) + 1 :
         r[i] = IF i <= n THEN q[i] ELSE IF i = n + 1 THEN m ELSE q[i - 1]
  <2> SUFFICES ASSUME NEW i \in 1 .. Len(q) + 1
               PROVE  r[i] = IF i <= n THEN q[i] ELSE IF i = n + 1 THEN m ELSE q[i - 1]
    OBVIOUS
  <2>1. CASE i <= n + 1
    BY <1>1, <1>6, <1>8, <2>1
  <2>2. CASE ~(i <= n + 1)
    <3>1. PICK k : k = i - (n + 1)
      OBVIOUS
    <3>2. k \in 1 .. Len(q) - n /\ n + k = i - 1
      BY <1>1, <2>2, <3>1
    <3>3. back[k] = q[n + k]
      BY <1>3, <3>2
    <3> QED BY <1>1, <1>8, <2>2, <3>1, <3>2, <3>3
  <2> QED BY <2>1, <2>2
<1> QED BY <1>8, <1>9, <1>10 DEF Placed

LEMMA AppendPlaces ==
  ASSUME NEW q \in Seq(Msgs), NEW m \in Msgs
  PROVE  Placed(q, Len(q), m, Append(q, m))
BY LenProperties, AppendProperties DEF Placed

LEMMA FrontPlaces ==
  ASSUME NEW q \in Seq(Msgs), NEW m \in Msgs
  PROVE  Placed(q, 0, m, <<m>> \o q)
<1>1. <<m>> \in Seq(Msgs) /\ Len(<<m>>) = 1 /\ <<m>>[1] = m /\ Len(q) \in Nat
  BY LenProperties
<1> QED BY <1>1, ConcatProperties DEF Placed

(* What the head of a queue was put before.                                *)
LEMMA HeadPlaces ==
  ASSUME NEW q \in Seq(Msgs), q # <<>>
  PROVE  /\ Head(q) \in Msgs /\ Tail(q) \in Seq(Msgs) /\ Head(q) = q[1]
         /\ Placed(Tail(q), 0, Head(q), q)
<1>1. /\ Head(q) \in Msgs /\ Tail(q) \in Seq(Msgs) /\ Len(Tail(q)) = Len(q) - 1
      /\ \A i \in 1 .. Len(Tail(q)) : Tail(q)[i] = q[i + 1]
  BY HeadTailProperties
<1>2. Head(q) = q[1] /\ Len(q) \in Nat \ {0}
  BY EmptySeq
<1> QED BY <1>1, <1>2 DEF Placed

LEMMA PlacesAreFinite ==
  ASSUME NEW q \in Seq(Msgs), NEW S
  PROVE  IsFiniteSet(Places(q, S)) /\ Cardinality(Places(q, S)) \in Nat /\ Cardinality(Places(q, S)) <= Len(q)
<1>1. Len(q) \in Nat /\ DOMAIN q = 1 .. Len(q)
  BY LenProperties
<1>2. IsFiniteSet(1 .. Len(q)) /\ Cardinality(1 .. Len(q)) = Len(q)
  BY <1>1, FS_Interval
<1>3. Places(q, S) \in SUBSET (1 .. Len(q))
  BY <1>1 DEF Places
<1> QED BY <1>2, <1>3, FS_Subset, FS_CardinalityType

(* One message more is one place more.                                     *)
LEMMA PlacedCounts ==
  ASSUME NEW q \in Seq(Msgs), NEW n \in 0 .. Len(q), NEW m, NEW r, Placed(q, n, m, r), NEW S
  PROVE  Cardinality(Places(r, S)) = Cardinality(Places(q, S)) + (IF m \in S THEN 1 ELSE 0)
<1>1. /\ Len(q) \in Nat /\ DOMAIN q = 1 .. Len(q)
      /\ r \in Seq(Msgs) /\ Len(r) = Len(q) + 1 /\ DOMAIN r = 1 .. Len(q) + 1
  BY LenProperties DEF Placed
<1>2. PICK P : P = Places(q, S)
  OBVIOUS
<1>3. PICK R : R = Places(r, S) \ {n + 1}
  OBVIOUS
<1> DEFINE move == [i \in P |-> IF i <= n THEN i ELSE i + 1]
<1>4. P \subseteq 1 .. Len(q) /\ R \subseteq 1 .. Len(q) + 1 /\ n + 1 \in 1 .. Len(q) + 1 /\ n \in Nat
  BY <1>1, <1>2, <1>3 DEF Places
<1>5. \A i \in 1 .. Len(q) : i \in P <=> (IF i <= n THEN i ELSE i + 1) \in R
  <2> SUFFICES ASSUME NEW i \in 1 .. Len(q) PROVE i \in P <=> (IF i <= n THEN i ELSE i + 1) \in R
    OBVIOUS
  <2>1. PICK j : j = IF i <= n THEN i ELSE i + 1
    OBVIOUS
  <2>2. j \in 1 .. Len(q) + 1 /\ j # n + 1 /\ r[j] = q[i]
    BY <1>1, <1>4, <2>1 DEF Placed
  <2> QED BY <1>1, <1>2, <1>3, <2>1, <2>2 DEF Places
<1>6. \A j \in R : \E i \in P : j = IF i <= n THEN i ELSE i + 1
  <2> SUFFICES ASSUME NEW j \in R PROVE \E i \in P : j = IF i <= n THEN i ELSE i + 1
    OBVIOUS
  <2>1. PICK i : i = IF j <= n THEN j ELSE j - 1
    OBVIOUS
  <2>2. j \in 1 .. Len(q) + 1 /\ j # n + 1
    BY <1>3, <1>4
  <2>3. i \in 1 .. Len(q) /\ j = IF i <= n THEN i ELSE i + 1
    BY <1>1, <1>4, <2>1, <2>2
  <2>4. i \in P
    BY <1>5, <2>3
  <2> QED BY <2>3, <2>4
<1>7. move \in Bijection(P, R)
  <2>1. move \in [P -> R]
    BY <1>4, <1>5
  <2>2. \A a, b \in P : move[a] = move[b] => a = b
    BY <1>4
  <2>3. \A j \in R : \E i \in P : move[i] = j
    BY <1>6
  <2> QED BY <2>1, <2>2, <2>3 DEF Bijection, Injection, Surjection, IsInjective
<1>8. IsFiniteSet(P) /\ Cardinality(R) = Cardinality(P)
  BY <1>2, <1>7, PlacesAreFinite, FS_Bijection DEF ExistsBijection
<1>9. IsFiniteSet(Places(r, S)) /\ Cardinality(Places(r, S)) \in Nat
  BY <1>1, PlacesAreFinite
<1>10. Cardinality(R) = IF n + 1 \in Places(r, S) THEN Cardinality(Places(r, S)) - 1 ELSE Cardinality(Places(r, S))
  BY <1>3, <1>9, FS_RemoveElement
<1>11. n + 1 \in Places(r, S) <=> m \in S
  <2>1. r[n + 1] = m
    BY <1>1, <1>4 DEF Placed
  <2> QED BY <1>1, <1>4, <2>1 DEF Places
<1> QED BY <1>2, <1>8, <1>9, <1>10, <1>11

-----------------------------------------------------------------------------
(* What a step does to the queue and to what is handled.                   *)

KnowsUrgency == port \in {"freertos", "threadx", "cmsis", "win32"}
NewMsg(u) == [call[u].msg EXCEPT !.id = Cardinality(accepted) + 1]
Win32Exit == [ExitMsg EXCEPT !.prio = "HIGH"]

(* m goes to the back, or, if it is urgent, behind urgent ones only.       *)
Puts(m) ==
    \E n \in 0 .. Len(queue) :
        /\ Placed(queue, n, m, queue')
        /\ m.prio = "NORMAL" => n = Len(queue)
        /\ KnowsUrgency /\ m.prio = "HIGH" => \A i \in DOMAIN queue : i <= n => Urgent(i)

TakesHead == queue # <<>> /\ queue' = Tail(queue)
Quiet ==
    /\ UNCHANGED <<accepted, served, running>>
    /\ \A t \in TaskIds : Handles(t)' => Handles(t)
    /\ \A t \in TaskIds : loop[t] = "run" => loop'[t] = "run" \/ (port \in Rtos /\ m_exit')

Accepts(u) ==
    /\ call[u].pc = "sending" /\ Len(queue) < Cap
    /\ Puts(NewMsg(u)) /\ accepted' = accepted \cup {NewMsg(u)}
    /\ UNCHANGED <<served, running, loop>>
AsksForEnd ==
    /\ \/ Puts(ExitMsg) /\ port \in Rtos /\ m_exit /\ Len(queue) < Cap
       \/ Puts(Win32Exit) /\ port = "win32"
    /\ Quiet
Takes(t) ==
    /\ IF port \in Rtos THEN loop[t] = "wait" ELSE loop[t] = "top" /\ (port = "qt" => hTask = t)
    /\ TakesHead /\ Head(queue).id # 0
    /\ Serve(t, Head(queue)) /\ UNCHANGED <<accepted, served>>
Clears ==
    /\ queue' = <<>> /\ Quiet
    /\ (port \in Rtos /\ m_exit') \/ (port = "qt" /\ quit' # {})
TakesExit == TakesHead /\ Head(queue).id = 0 /\ Quiet

StepOfQueue ==
    \/ \E u \in Users : Accepts(u)
    \/ AsksForEnd
    \/ \E t \in TaskIds : Takes(t)
    \/ TakesExit
    \/ \E t \in TaskIds : HandlerReturns(t)
    \/ Clears
    \/ queue' = queue /\ Quiet

LEMMA ConstantsTyped ==
  /\ Owner \notin Users /\ IsFiniteSet(Users)
  /\ Cap \in Nat /\ Cap > 0 /\ MaxTasks \in Nat /\ MaxMsgs \in Nat
  /\ OsPorts \subseteq {"freertos", "threadx", "zephyr", "cmsis", "win32", "qt"}
  /\ ExitMsg \in Msgs /\ Win32Exit \in Msgs
BY PortsConstants DEF Rtos, ExitMsg, Win32Exit, Msgs

LEMMA NewMsgTyped ==
  ASSUME PInv, NEW u \in Users, call[u].pc = "sending"
  PROVE  /\ NewMsg(u) \in Msgs /\ NewMsg(u).id = Cardinality(accepted) + 1 /\ NewMsg(u).prio = call[u].msg.prio
         /\ Cardinality(accepted) \in Nat /\ NewMsg(u) \notin accepted
<1>1. IsFiniteSet(accepted) /\ Cardinality(accepted) \in Nat
  BY FS_CardinalityType DEF PInv, Accepted
<1>2. IsFiniteSet(Sending) /\ Cardinality(Sending) \in Nat /\ Cardinality(Sending) # 0
  <2>1. Sending \in SUBSET Users /\ u \in Sending
    BY DEF Sending
  <2>2. IsFiniteSet(Sending)
    BY <2>1, ConstantsTyped, FS_Subset
  <2> QED BY <2>1, <2>2, FS_EmptySet, FS_CardinalityType
<1>3. Cardinality(accepted) + 1 \in 0 .. MaxMsgs
  BY <1>1, <1>2, ConstantsTyped DEF PInv, Accepted
<1>4. call[u].msg \in Msgs
  BY DEF PInv, TypeOK
<1>5. NewMsg(u) = [id |-> Cardinality(accepted) + 1, prio |-> call[u].msg.prio]
  BY <1>4 DEF NewMsg, Msgs
<1>6. NewMsg(u).id \notin 1 .. Cardinality(accepted)
  BY <1>1, <1>5
<1> QED BY <1>1, <1>3, <1>4, <1>5, <1>6 DEF Msgs, PInv, Accepted

LEMMA QueueTyped ==
  ASSUME TypeOK
  PROVE  queue \in Seq(Msgs) /\ Len(queue) \in Nat /\ DOMAIN queue = 1 .. Len(queue)
BY LenProperties DEF TypeOK

LEMMA BackPuts ==
  ASSUME PInv, NEW m \in Msgs, ToBack(m), m.prio = "NORMAL" \/ ~KnowsUrgency
  PROVE  Puts(m)
<1>1. queue \in Seq(Msgs) /\ Len(queue) \in 0 .. Len(queue)
  BY QueueTyped DEF PInv
<1>2. Placed(queue, Len(queue), m, queue')
  BY <1>1, AppendPlaces DEF ToBack
<1> QED BY <1>1, <1>2 DEF Puts

LEMMA FrontPuts ==
  ASSUME PInv, NEW m \in Msgs, ToFront(m), m.prio = "HIGH"
  PROVE  Puts(m)
<1>1. queue \in Seq(Msgs) /\ 0 \in 0 .. Len(queue) /\ DOMAIN queue = 1 .. Len(queue)
  BY QueueTyped DEF PInv
<1>2. Placed(queue, 0, m, queue')
  BY <1>1, FrontPlaces DEF ToFront
<1>3. \A i \in DOMAIN queue : ~(i <= 0)
  BY <1>1
<1> QED BY <1>1, <1>2, <1>3 DEF Puts

LEMMA BehindPuts ==
  ASSUME PInv, NEW m \in Msgs, BehindUrgent(m), m.prio = "HIGH"
  PROVE  Puts(m)
<1>1. queue \in Seq(Msgs)
  BY QueueTyped DEF PInv
<1>2. PICK n \in 0 .. Len(queue) : /\ \A i \in DOMAIN queue : Urgent(i) <=> i <= n
                                  /\ queue' = InsertAt(queue, n + 1, m)
  BY DEF BehindUrgent
<1>3. Placed(queue, n, m, queue')
  BY <1>1, <1>2, InsertPlaces
<1> QED BY <1>2, <1>3 DEF Puts

LEMMA PutPuts ==
  ASSUME PInv, NEW m \in Msgs, Put(m)
  PROVE  Puts(m)
<1> USE DEF Put, FreeRTOSPut, ThreadXPut, ZephyrPut, CmsisPut, Win32Put, QtPut
<1>1. CASE m.prio = "NORMAL"
  BY <1>1, BackPuts
<1>2. CASE m.prio = "HIGH"
  BY <1>2, BackPuts, FrontPuts, BehindPuts DEF KnowsUrgency
<1> QED BY <1>1, <1>2 DEF Msgs

(* A task that is set to something that is no handler.                     *)
LEMMA OthersHandle ==
  ASSUME TypeOK, NEW t, NEW l \in {"top", "wait", "leave", "gone"}, loop' = [loop EXCEPT ![t] = l],
         t \in TaskIds => loop[t] # "run" \/ (port \in Rtos /\ m_exit'),
         UNCHANGED <<accepted, served, running>>
  PROVE  Quiet
BY DEF TypeOK, Handles, Quiet

(* A step that leaves the tasks alone.                                     *)
LEMMA AllHandle ==
  ASSUME UNCHANGED <<accepted, served, running, loop>>
  PROVE  Quiet
BY DEF Handles, Quiet

LEMMA RunSteps ==
  ASSUME PInv, NEW t \in TaskIds, Run(t)
  PROVE  StepOfQueue
<1> USE DEF PInv
<1>1. UNCHANGED <<accepted, served>>
  BY DEF Run, history
<1>2. ASSUME LoopTop(t) \/ ReceiveTimeout(t) \/ Gone(t) PROVE StepOfQueue
  <2>1. UNCHANGED <<queue, running>>
    BY <1>2 DEF LoopTop, ReceiveTimeout, Gone
  <2>2. \E l \in {"top", "wait", "leave", "gone"} : loop' = [loop EXCEPT ![t] = l]
    BY <1>2 DEF LoopTop, ReceiveTimeout, Gone
  <2>3. loop[t] # "run"
    BY <1>2 DEF LoopTop, ReceiveTimeout, Gone
  <2> QED BY <1>1, <2>1, <2>2, <2>3, OthersHandle DEF StepOfQueue
<1>3. ASSUME Receive(t) PROVE StepOfQueue
  <2>1. CASE Head(queue) = ExitMsg
    <3>1. /\ TakesHead /\ Head(queue).id = 0 /\ UNCHANGED running
          /\ loop' = [loop EXCEPT ![t] = "leave"] /\ loop[t] = "wait"
      BY <1>3, <2>1 DEF Receive, TakesHead, ExitMsg
    <3> QED BY <1>1, <3>1, OthersHandle DEF StepOfQueue, TakesExit
  <2>2. CASE Head(queue) # ExitMsg
    <3>1. /\ loop[t] = "wait" /\ hQueue /\ TakesHead /\ Serve(t, Head(queue))
      BY <1>3, <2>2 DEF Receive, TakesHead, Serve
    <3>r. port \in Rtos
      BY <3>1, ConstantsTyped DEF Win32Only, QtOnly, TypeOK, Rtos
    <3>2. CASE Head(queue).id = 0
      <4>1. Head(queue) = queue[1] /\ 1 \in DOMAIN queue
        BY <3>1, QueueTyped, EmptySeq DEF TakesHead
      <4>2. queue[1].id # 0
        <5>1. \A m \in accepted : m.id # 0
          BY FS_CardinalityType DEF Accepted
        <5> QED BY <2>2, <3>r, <4>1, <5>1 DEF Contents, Rtos
      <4> QED BY <3>2, <4>1, <4>2
    <3> QED BY <1>1, <3>1, <3>2, <3>r DEF StepOfQueue, Takes
  <2> QED BY <2>1, <2>2
<1>4. ASSUME port = "win32", Win32Process(t) PROVE StepOfQueue
  <2>1. CASE queue = <<>>
    <3>1. UNCHANGED <<queue, running>> /\ loop' = [loop EXCEPT ![t] = "gone"] /\ loop[t] = "top"
      BY <1>4, <2>1 DEF Win32Process
    <3> QED BY <1>1, <3>1, OthersHandle DEF StepOfQueue
  <2>2. CASE queue # <<>> /\ Head(queue).id = 0
    <3>1. /\ TakesHead /\ UNCHANGED running
          /\ loop' = [loop EXCEPT ![t] = "gone"] /\ loop[t] = "top"
      BY <1>4, <2>2 DEF Win32Process, TakesHead
    <3> QED BY <1>1, <2>2, <3>1, OthersHandle DEF StepOfQueue, TakesExit
  <2>3. CASE queue # <<>> /\ Head(queue).id # 0
    BY <1>1, <1>4, <2>3 DEF Win32Process, Serve, StepOfQueue, Takes, TakesHead, Rtos
  <2> QED BY <2>1, <2>2, <2>3
<1>5. ASSUME port = "qt", QtEventLoop(t) PROVE StepOfQueue
  <2>1. CASE t \in quit /\ loop' = [loop EXCEPT ![t] = "gone"] /\ UNCHANGED <<queue, running>>
    <3>1. loop[t] = "top"
      BY <1>5 DEF QtEventLoop
    <3> QED BY <1>1, <2>1, <3>1, OthersHandle DEF StepOfQueue
  <2>2. CASE queue # <<>> /\ hTask = t /\ Serve(t, Head(queue))
    <3>1. Head(queue) = queue[1] /\ 1 \in DOMAIN queue
      BY <2>2, QueueTyped, EmptySeq
    <3>2. Head(queue).id # 0
      BY <1>5, <3>1 DEF Contents, Accepted, Rtos
    <3> QED BY <1>1, <1>5, <2>2, <3>2 DEF QtEventLoop, Serve, StepOfQueue, Takes, TakesHead, Rtos
  <2> QED BY <1>5, <2>1, <2>2 DEF QtEventLoop
<1> QED BY <1>2, <1>3, <1>4, <1>5 DEF Run, FreeRTOSRun, ThreadXRun, ZephyrRun, CmsisRun, Loops

(* On the RTOS ports m_exit goes up before anything is done about the end. *)
LEMMA EndIsAsked ==
  ASSUME PInv, port \in Rtos
  PROVE  /\ call[Owner].pc # "idle" => m_exit
         /\ \A t \in TaskIds : loop[t] \in {"posting", "leave", "gone"} => m_exit
BY DEF PInv, Fresh, Created

(* Who has asked for the end does not take it back.                        *)
LEMMA EndIsFinal ==
  ASSUME PInv, Next
  PROVE  (port # "win32" /\ m_exit => m_exit') /\ quit \subseteq quit' /\ (selfExited => selfExited')
<1>1. CASE CreateThread
  BY <1>1 DEF CreateThread, FreeRTOSCreateThread, ThreadXCreateThread, ZephyrCreateThread,
     CmsisCreateThread, Win32CreateThread, QtCreateThread, history, qtVars
<1>2. CASE ExitThread
  BY <1>2 DEF ExitThread, RtosExitThread, Win32ExitThread, QtExitThread, BeginExit, PostExit, FreeRTOSCleanUp,
     ThreadXCleanUp, ZephyrCleanUp, CmsisCleanUp, DeleteQueue, handles, history, qtVars
<1>3. CASE OnMessageProcessed
  BY <1>3 DEF OnMessageProcessed, handles, history
<1>4. ASSUME NEW u \in Users, NEW prio \in {"NORMAL", "HIGH"}, Dispatch(u, prio) \/ Caller(u)
      PROVE  (port # "win32" /\ m_exit => m_exit') /\ quit \subseteq quit' /\ (selfExited => selfExited')
  BY <1>4 DEF Dispatch, Caller, Send, Accept, SendFails, SendOnDeadHandle, handles, history, qtVars
<1>5. ASSUME NEW t \in TaskIds, Run(t) \/ Handler(t) \/ ExitsItself(t)
      PROVE  (port # "win32" /\ m_exit => m_exit') /\ quit \subseteq quit' /\ (selfExited => selfExited')
  BY <1>5 DEF Run, Handler, HandlerReturns, PostsToItself, DeleteQueue, ExitsItself, BeginExit, handles, history,
     qtVars
<1> QED BY <1>1, <1>2, <1>3, <1>4, <1>5 DEF Next

LEMMA ExitSteps ==
  ASSUME PInv, ExitThread
  PROVE  StepOfQueue
<1>t. TypeOK
  BY DEF PInv
<1>1. UNCHANGED <<running, accepted, served>>
  BY DEF ExitThread, history
<1>2. ASSUME RtosExitThread PROVE StepOfQueue
  <2>p. port \in Rtos
    BY <1>2 DEF RtosExitThread
  <2>1. CASE BeginExit /\ UNCHANGED loop
    BY <1>1, <2>1, AllHandle DEF BeginExit, StepOfQueue
  <2>2. CASE call[Owner].pc = "posting" /\ PostExit /\ UNCHANGED loop
    <3>1. Puts(ExitMsg)
      BY <2>2, BackPuts, ConstantsTyped DEF PostExit, ToBack, ExitMsg
    <3> QED BY <1>1, <2>2, <2>p, <3>1, AllHandle, EndIsAsked DEF StepOfQueue, AsksForEnd, PostExit
  <2>3. CASE call[Owner].pc = "joining" /\ DeleteQueue /\ UNCHANGED loop
    <3>1. m_exit' /\ queue' = <<>>
      BY <2>3, <2>p, EndIsAsked DEF DeleteQueue
    <3> QED BY <1>1, <2>3, <2>p, <3>1, AllHandle DEF StepOfQueue, Clears
  <2>4. CASE call[Owner].pc = "joining" /\ DeleteQueue /\ loop' = [loop EXCEPT ![hTask] = "gone"]
    <3>1. m_exit' /\ queue' = <<>>
      BY <2>4, <2>p, EndIsAsked DEF DeleteQueue
    <3> QED BY <1>1, <1>t, <2>4, <2>p, <3>1, OthersHandle DEF StepOfQueue, Clears
  <2> QED BY <1>2, <2>1, <2>2, <2>3, <2>4
          DEF RtosExitThread, FreeRTOSCleanUp, ZephyrCleanUp, CmsisCleanUp, ThreadXCleanUp
<1>3. ASSUME Win32ExitThread PROVE StepOfQueue
  <2>q. Quiet
    BY <1>1, <1>3, AllHandle DEF Win32ExitThread
  <2>1. CASE BehindUrgent([ExitMsg EXCEPT !.prio = "HIGH"])
    <3>1. Puts(Win32Exit)
      BY <2>1, BehindPuts, ConstantsTyped DEF Win32Exit, ExitMsg
    <3> QED BY <1>3, <2>q, <3>1 DEF Win32ExitThread, StepOfQueue, AsksForEnd
  <2>2. CASE UNCHANGED queue
    BY <2>q, <2>2 DEF StepOfQueue
  <2> QED BY <1>3, <2>1, <2>2 DEF Win32ExitThread
<1>4. ASSUME QtExitThread PROVE StepOfQueue
  <2>q. Quiet
    BY <1>1, <1>4, AllHandle DEF QtExitThread
  <2>1. CASE UNCHANGED queue
    BY <2>q, <2>1 DEF StepOfQueue
  <2>2. CASE loop[hTask] = "gone" /\ queue' = <<>> /\ UNCHANGED quit
    <3>1. hTask \in TaskIds /\ port = "qt"
      BY <1>4, <1>t, ConstantsTyped DEF QtExitThread, TypeOK, TaskIds
    <3>2. hTask \in quit'
      BY <2>2, <3>1 DEF PInv, QtOnly
    <3> QED BY <2>2, <2>q, <3>1, <3>2 DEF StepOfQueue, Clears
  <2> QED BY <1>4, <2>1, <2>2 DEF QtExitThread
<1> QED BY <1>2, <1>3, <1>4 DEF ExitThread

(* CreateThread() finds an empty queue if it makes a new one.              *)
LEMMA CreateKeepsQueue ==
  ASSUME PInv, CreateThread
  PROVE  queue' = queue /\ StartTask /\ hTask = 0 /\ UNCHANGED <<port, running, accepted, served>>
<1>1. /\ StartTask /\ hTask = 0 /\ UNCHANGED <<port, running, accepted, served>>
      /\ queue' = queue \/ (queue' = <<>> /\ port \in Rtos \cup {"qt"})
  BY DEF CreateThread, FreeRTOSCreateThread, ThreadXCreateThread, ZephyrCreateThread,
     CmsisCreateThread, Win32CreateThread, QtCreateThread, NewQueue, history, Rtos
<1>2. port \in Rtos \cup {"qt"} => queue = <<>>
  BY <1>1 DEF PInv, Fresh, QtOnly
<1> QED BY <1>1, <1>2

LEMMA EveryStep ==
  ASSUME PInv, Next
  PROVE  StepOfQueue /\ port' = port
<1>t. TypeOK
  BY DEF PInv
<1>1. CASE CreateThread
  <2>1. queue' = queue /\ StartTask /\ UNCHANGED <<port, running, accepted, served>>
    BY <1>1, CreateKeepsQueue
  <2>2. PICK t \in TaskIds \ Created : loop' = [loop EXCEPT ![t] = "top"]
    BY <2>1 DEF StartTask
  <2>3. loop[t] = "none"
    BY <2>2 DEF Created
  <2> QED BY <1>t, <2>1, <2>2, <2>3, OthersHandle DEF StepOfQueue
<1>2. CASE ExitThread
  BY <1>2, ExitSteps DEF ExitThread
<1>3. CASE OnMessageProcessed
  BY <1>3, AllHandle DEF OnMessageProcessed, StepOfQueue, tasks, history
<1>4. ASSUME NEW u \in Users, NEW prio \in {"NORMAL", "HIGH"}, Dispatch(u, prio)
      PROVE  StepOfQueue /\ port' = port
  BY <1>4, AllHandle DEF Dispatch, StepOfQueue, tasks, history
<1>5. ASSUME NEW u \in Users, Send(u)
      PROVE  StepOfQueue /\ port' = port
  <2>1. NewMsg(u) \in Msgs
    BY <1>5, NewMsgTyped DEF Send
  <2>2. Puts(NewMsg(u))
    BY <1>5, <2>1, PutPuts DEF Send, Accept, NewMsg
  <2>3. Len(queue) < Cap
    <3>1. Len(queue) \in Nat /\ Cap \in Nat
      BY <1>t, QueueTyped, ConstantsTyped
    <3>2. CASE port \in Rtos
      BY <1>5, <3>1, <3>2 DEF Send, Full, Rtos, PInv, Bounded
    <3>3. CASE port = "win32"
      BY <1>5, <3>1, <3>3 DEF Send, Full
    <3>4. CASE port = "qt"
      BY <1>5, <1>t, <3>1, <3>4 DEF Send, Full, PInv, QtOnly, TypeOK
    <3> QED BY <1>t, <3>2, <3>3, <3>4, ConstantsTyped DEF TypeOK, Rtos
  <2> QED BY <1>5, <2>2, <2>3 DEF Send, Accept, NewMsg, Accepts, StepOfQueue, tasks
<1>6. ASSUME NEW u \in Users, SendFails(u) \/ SendOnDeadHandle(u)
      PROVE  StepOfQueue /\ port' = port
  BY <1>6, AllHandle DEF SendFails, SendOnDeadHandle, StepOfQueue, tasks, history
<1>7. ASSUME NEW t \in TaskIds, Run(t)
      PROVE  StepOfQueue /\ port' = port
  BY <1>7, RunSteps DEF Run
<1>8. ASSUME NEW t \in TaskIds, HandlerReturns(t)
      PROVE  StepOfQueue /\ port' = port
  BY <1>8 DEF HandlerReturns, StepOfQueue
<1>9. ASSUME NEW t \in TaskIds, PostsToItself(t)
      PROVE  StepOfQueue /\ port' = port
  <2>1. UNCHANGED <<port, running, accepted, served>> /\ loop[t] = "posting"
    BY <1>9 DEF PostsToItself, history
  <2>2. port \in Rtos
    BY <1>t, <2>1, ConstantsTyped DEF PInv, Win32Only, QtOnly, TypeOK, Rtos
  <2>3. m_exit /\ m_exit'
    <3>1. m_exit
      BY <2>1, <2>2, EndIsAsked
    <3> QED BY <1>9, <3>1 DEF PostsToItself, DeleteQueue, handles
  <2>4. Quiet
    BY <1>9, <1>t, <2>1, <2>2, <2>3 DEF PostsToItself, Handles, TypeOK, Quiet
  <2>5. CASE queue' = Append(queue, ExitMsg)
    <3>1. Puts(ExitMsg)
      BY <2>5, BackPuts, ConstantsTyped DEF ToBack, ExitMsg
    <3> QED BY <1>9, <2>1, <2>2, <2>3, <2>4, <3>1 DEF StepOfQueue, AsksForEnd, PostsToItself
  <2>6. CASE queue' = <<>>
    BY <2>1, <2>2, <2>3, <2>4, <2>6 DEF StepOfQueue, Clears
  <2> QED BY <1>9, <2>5, <2>6 DEF PostsToItself, DeleteQueue
<1>10. ASSUME NEW t \in TaskIds, ExitsItself(t)
       PROVE  StepOfQueue /\ port' = port
  <2>1. UNCHANGED <<port, running, accepted, served>> /\ loop[t] = "run"
    BY <1>10 DEF ExitsItself
  <2>2. CASE port \in {"freertos", "cmsis", "threadx"} /\ BeginExit /\ loop' = [loop EXCEPT ![t] = "posting"]
    <3>1. Quiet
      BY <1>t, <2>1, <2>2 DEF BeginExit, Handles, TypeOK, Quiet, Rtos
    <3> QED BY <2>1, <2>2, <3>1 DEF BeginExit, StepOfQueue
  <2>3. CASE port = "win32" /\ BehindUrgent([ExitMsg EXCEPT !.prio = "HIGH"]) /\ UNCHANGED loop
    <3>1. Puts(Win32Exit)
      BY <2>3, BehindPuts, ConstantsTyped DEF Win32Exit, ExitMsg
    <3> QED BY <2>1, <2>3, <3>1, AllHandle DEF StepOfQueue, AsksForEnd
  <2> QED BY <1>10, <2>2, <2>3 DEF ExitsItself
<1> QED BY <1>1, <1>2, <1>3, <1>4, <1>5, <1>6, <1>7, <1>8, <1>9, <1>10 DEF Next, Caller, Handler

-----------------------------------------------------------------------------
(* The conjuncts of the invariant, one at a time.                          *)

LEMMA PutsKeepType ==
  ASSUME NEW m, Puts(m)
  PROVE  queue' \in Seq(Msgs)
BY DEF Puts, Placed

LEMMA MessagesStayTyped ==
  ASSUME PInv, StepOfQueue
  PROVE  /\ queue' \in Seq(Msgs) /\ served' \in Seq(Msgs) /\ accepted' \subseteq Msgs
         /\ running' \in [TaskIds -> Msgs]
<1> USE DEF PInv, TypeOK
<1> DEFINE Typed == /\ queue' \in Seq(Msgs) /\ served' \in Seq(Msgs) /\ accepted' \subseteq Msgs
                    /\ running' \in [TaskIds -> Msgs]
<1>1. ASSUME NEW u \in Users, Accepts(u) PROVE Typed
  BY <1>1, PutsKeepType, NewMsgTyped DEF Accepts
<1>2. ASSUME AsksForEnd PROVE Typed
  BY <1>2, PutsKeepType DEF AsksForEnd, Quiet
<1>3. ASSUME NEW t \in TaskIds, Takes(t) PROVE Typed
  BY <1>3, HeadPlaces DEF Takes, TakesHead, Serve
<1>4. ASSUME TakesExit PROVE Typed
  BY <1>4, HeadPlaces DEF TakesExit, TakesHead, Quiet
<1>5. ASSUME NEW t \in TaskIds, HandlerReturns(t) PROVE Typed
  BY <1>5, AppendProperties DEF HandlerReturns
<1>6. ASSUME Clears PROVE Typed
  <2>1. queue' \in Seq(Msgs)
    BY <1>6, EmptySeq DEF Clears
  <2> QED BY <1>6, <2>1 DEF Quiet, Clears
<1>7. ASSUME queue' = queue, Quiet PROVE Typed
  BY <1>7 DEF Quiet
<1> QED BY <1>1, <1>2, <1>3, <1>4, <1>5, <1>6, <1>7 DEF StepOfQueue

LoopPlaces == {"none", "top", "wait", "run", "posting", "leave", "gone"}
Calls == [pc : {"idle", "sending", "posting", "joining"}, msg : Msgs]

LEMMA LoopTyped ==
  ASSUME TypeOK, NEW t, NEW l \in LoopPlaces, loop' = [loop EXCEPT ![t] = l]
  PROVE  loop' \in [TaskIds -> LoopPlaces]
BY DEF TypeOK, LoopPlaces

LEMMA CallTyped ==
  ASSUME TypeOK, NEW u
  PROVE  /\ \A l \in {"idle", "sending", "posting", "joining"} :
              Goto(u, l) => call' \in [Users \cup {Owner} -> Calls]
         /\ Return(u) => call' \in [Users \cup {Owner} -> Calls]
<1>1. call \in [Users \cup {Owner} -> Calls]
  BY DEF TypeOK, Calls
<1>2. Idle \in Calls
  BY ConstantsTyped DEF Idle, Calls
<1>3. ASSUME NEW l \in {"idle", "sending", "posting", "joining"}, Goto(u, l)
      PROVE  call' \in [Users \cup {Owner} -> Calls]
  BY <1>1, <1>3 DEF Goto, Calls
<1> QED BY <1>1, <1>2, <1>3 DEF Return

LEMMA TypeStays ==
  ASSUME PInv, Next
  PROVE  TypeOK'
<1> DEFINE Loops1 == loop' \in [TaskIds -> LoopPlaces]
           Calls1 == call' \in [Users \cup {Owner} -> Calls]
           Handles1 == hQueue' \in BOOLEAN /\ hTask' \in 0 .. MaxTasks /\ m_exit' \in BOOLEAN /\ exitSem' \in Nat
           Qt1 == m_queueSize' \in Nat /\ unacked' \in Nat /\ quit' \subseteq TaskIds
           Rest1 == policy' \in Policies /\ watched' \in BOOLEAN /\ halted' \in BOOLEAN /\ selfExited' \in BOOLEAN
           All1 == Loops1 /\ Calls1 /\ Handles1 /\ Qt1 /\ Rest1
<1>t. TypeOK
  BY DEF PInv
<1>a. /\ queue' \in Seq(Msgs) /\ served' \in Seq(Msgs) /\ accepted' \subseteq Msgs
      /\ running' \in [TaskIds -> Msgs] /\ port' \in OsPorts
  BY <1>t, EveryStep, MessagesStayTyped DEF TypeOK
<1>b. UNCHANGED loop => Loops1
  BY <1>t DEF TypeOK, LoopPlaces
<1>c. UNCHANGED call => Calls1
  BY <1>t DEF TypeOK, Calls
<1>d. UNCHANGED handles => Handles1
  BY <1>t DEF TypeOK, handles
<1>e. UNCHANGED qtVars => Qt1
  BY <1>t DEF TypeOK, qtVars
<1>f. UNCHANGED <<policy, watched, halted, selfExited>> => Rest1
  BY <1>t DEF TypeOK
<1>g. MaxTasks \in Nat /\ 0 \in 0 .. MaxTasks
  BY ConstantsTyped
<1>1. ASSUME CreateThread PROVE All1
  <2>1. StartTask /\ UNCHANGED <<policy, watched, qtVars, call, halted, selfExited>>
    BY <1>1 DEF CreateThread, FreeRTOSCreateThread, ThreadXCreateThread, ZephyrCreateThread,
       CmsisCreateThread, Win32CreateThread, QtCreateThread, history
  <2>2. hTask' \in 0 .. MaxTasks
    BY <1>g, <2>1 DEF StartTask, TaskIds
  <2>3. Loops1
    BY <1>t, <2>1, LoopTyped DEF StartTask, LoopPlaces
  <2>4. hQueue' \in BOOLEAN /\ m_exit' \in BOOLEAN
    BY <1>1, <1>t DEF CreateThread, FreeRTOSCreateThread, ThreadXCreateThread, ZephyrCreateThread,
       CmsisCreateThread, Win32CreateThread, QtCreateThread, NewQueue, TypeOK
  <2>5. exitSem' \in Nat
    <3>1. exitSem' \in {0, exitSem}
      BY <1>1 DEF CreateThread, FreeRTOSCreateThread, ThreadXCreateThread, ZephyrCreateThread,
         CmsisCreateThread, Win32CreateThread, QtCreateThread
    <3> QED BY <1>t, <3>1 DEF TypeOK
  <2> QED BY <1>c, <1>e, <1>f, <2>1, <2>2, <2>3, <2>4, <2>5
<1>2. ASSUME ExitThread PROVE All1
  <2>1. Rest1
    BY <1>2, <1>f DEF ExitThread, history
  <2>2. Calls1
    BY <1>2, <1>t, CallTyped DEF ExitThread, RtosExitThread, Win32ExitThread, QtExitThread
  <2>3. Loops1
    <3>1. UNCHANGED loop \/ loop' = [loop EXCEPT ![hTask] = "gone"]
      BY <1>2 DEF ExitThread, RtosExitThread, Win32ExitThread, QtExitThread, FreeRTOSCleanUp, ZephyrCleanUp,
         CmsisCleanUp, ThreadXCleanUp
    <3> QED BY <1>b, <1>t, <3>1, LoopTyped DEF LoopPlaces
  <2>4. ASSUME RtosExitThread PROVE All1
    <3>1. ASSUME BeginExit PROVE Handles1
      BY <1>t, <3>1 DEF BeginExit, TypeOK
    <3>2. ASSUME PostExit PROVE Handles1
      BY <1>d, <3>2 DEF PostExit
    <3>3. ASSUME TakeToken /\ DeleteQueue PROVE Handles1
      <4>1. exitSem' \in Nat
        BY <1>t, <3>3 DEF TakeToken, TypeOK
      <4> QED BY <1>g, <1>t, <3>3, <4>1 DEF DeleteQueue, TypeOK
    <3>4. Handles1
      BY <2>4, <3>1, <3>2, <3>3 DEF RtosExitThread, FreeRTOSCleanUp, ZephyrCleanUp, CmsisCleanUp, ThreadXCleanUp
    <3> QED BY <1>e, <2>1, <2>2, <2>3, <2>4, <3>4 DEF RtosExitThread
  <2>5. ASSUME Win32ExitThread PROVE All1
    <3>1. hQueue' = hQueue /\ exitSem' = exitSem /\ m_exit' \in {m_exit, TRUE} /\ hTask' \in {hTask, 0}
      BY <2>5 DEF Win32ExitThread
    <3>2. Handles1
      BY <1>g, <1>t, <3>1 DEF TypeOK
    <3> QED BY <1>e, <2>1, <2>2, <2>3, <2>5, <3>2 DEF Win32ExitThread
  <2>6. ASSUME QtExitThread PROVE All1
    <3>1. /\ UNCHANGED <<hQueue, exitSem, m_exit, m_queueSize, unacked>>
          /\ hTask' \in {hTask, 0} /\ hTask # 0 /\ quit' \in {quit, quit \cup {hTask}}
      BY <2>6 DEF QtExitThread
    <3>2. Handles1
      BY <1>g, <1>t, <3>1 DEF TypeOK
    <3>3. hTask \in TaskIds /\ quit \subseteq TaskIds
      BY <1>g, <1>t, <3>1 DEF TypeOK, TaskIds
    <3>4. Qt1
      BY <1>t, <3>1, <3>3 DEF TypeOK
    <3> QED BY <2>1, <2>2, <2>3, <3>2, <3>4
  <2> QED BY <1>2, <2>4, <2>5, <2>6 DEF ExitThread
<1>3. ASSUME OnMessageProcessed PROVE All1
  <2>1. unacked \in Nat \ {0} /\ m_queueSize \in Nat \ {0} /\ quit \subseteq TaskIds
    <3>1. Len(queue) \in Nat /\ unacked > 0
      BY <1>3, <1>t, QueueTyped DEF OnMessageProcessed
    <3> QED BY <1>t, <3>1 DEF QtOnly, PInv, TypeOK
  <2>2. Qt1
    BY <1>3, <2>1 DEF OnMessageProcessed
  <2> QED BY <1>3, <1>b, <1>c, <1>d, <1>f, <2>2 DEF OnMessageProcessed, tasks, history
<1>4. ASSUME NEW u \in Users, NEW prio \in {"NORMAL", "HIGH"}, Dispatch(u, prio) PROVE All1
  <2>1. PICK c : c = [pc |-> "sending", msg |-> [id |-> 0, prio |-> prio]]
    OBVIOUS
  <2>2. c \in Calls
    BY <2>1, ConstantsTyped DEF Msgs, Calls
  <2>3. Calls1
    BY <1>4, <1>t, <2>1, <2>2 DEF Dispatch, TypeOK, Calls
  <2>4. halted' \in BOOLEAN
    BY <1>4 DEF Dispatch, Asserts
  <2> QED BY <1>4, <1>b, <1>d, <1>e, <1>f, <1>t, <2>3, <2>4 DEF Dispatch, tasks, history, TypeOK
<1>5. ASSUME NEW u \in Users, Send(u) PROVE All1
  <2>1. m_queueSize' \in Nat /\ unacked' \in Nat /\ quit' \subseteq TaskIds
    BY <1>5, <1>t DEF Send, Accept, Put, QtPut, TypeOK
  <2>2. Calls1
    BY <1>5, <1>t, CallTyped DEF Send, Accept
  <2> QED BY <1>5, <1>b, <1>d, <1>f, <2>1, <2>2 DEF Send, Accept, tasks
<1>6. ASSUME NEW u \in Users, SendFails(u) \/ SendOnDeadHandle(u) PROVE All1
  <2>1. Calls1
    BY <1>6, <1>t, CallTyped DEF SendFails, SendOnDeadHandle
  <2>2. halted' \in BOOLEAN
    BY <1>6 DEF SendFails, SendOnDeadHandle
  <2> QED BY <1>6, <1>b, <1>d, <1>e, <1>f, <1>t, <2>1, <2>2 DEF SendFails, SendOnDeadHandle, tasks, history, TypeOK
<1>7. ASSUME NEW t \in TaskIds, Run(t) PROVE All1
  <2>1. Loops1
    BY <1>7, <1>t, LoopTyped DEF Run, FreeRTOSRun, ThreadXRun, ZephyrRun, CmsisRun, Win32Process, QtEventLoop,
       Loops, LoopTop, ReceiveTimeout, Receive, Gone, Serve, LoopPlaces
  <2>2. exitSem' \in Nat
    <3>1. exitSem' \in {exitSem, 1, exitSem + 1}
      BY <1>7 DEF Run, FreeRTOSRun, ThreadXRun, ZephyrRun, CmsisRun, Win32Process, QtEventLoop, Loops, GiveBinary
    <3> QED BY <1>t, <3>1 DEF TypeOK
  <2>3. Handles1
    BY <1>7, <1>t, <2>2 DEF Run, TypeOK
  <2> QED BY <1>7, <1>c, <1>e, <1>f, <2>1, <2>3 DEF Run, history
<1>8. ASSUME NEW t \in TaskIds, HandlerReturns(t) PROVE All1
  <2>1. Loops1
    BY <1>8, <1>t, LoopTyped DEF HandlerReturns, LoopPlaces
  <2>2. Qt1
    BY <1>8, <1>t DEF HandlerReturns, TypeOK
  <2> QED BY <1>8, <1>c, <1>d, <1>f, <2>1, <2>2 DEF HandlerReturns
<1>9. ASSUME NEW t \in TaskIds, PostsToItself(t) PROVE All1
  <2>1. Loops1
    BY <1>9, <1>t, LoopTyped DEF PostsToItself, LoopPlaces
  <2>2. Handles1
    <3>1. UNCHANGED handles \/ (DeleteQueue /\ UNCHANGED exitSem)
      BY <1>9 DEF PostsToItself
    <3> QED BY <1>d, <1>g, <1>t, <3>1 DEF DeleteQueue, TypeOK
  <2> QED BY <1>9, <1>c, <1>e, <1>f, <2>1, <2>2 DEF PostsToItself, history
<1>10. ASSUME NEW t \in TaskIds, ExitsItself(t) PROVE All1
  <2>1. Loops1
    <3>1. UNCHANGED loop \/ loop' = [loop EXCEPT ![t] = "posting"]
      BY <1>10 DEF ExitsItself
    <3> QED BY <1>b, <1>t, <3>1, LoopTyped DEF LoopPlaces
  <2>2. Handles1
    <3>1. UNCHANGED <<hQueue, exitSem>> /\ m_exit' = TRUE /\ hTask' \in {hTask, 0}
      BY <1>10 DEF ExitsItself, BeginExit
    <3> QED BY <1>g, <1>t, <3>1 DEF TypeOK
  <2>3. Rest1
    BY <1>10, <1>t DEF ExitsItself, TypeOK
  <2> QED BY <1>10, <1>c, <1>e, <2>1, <2>2, <2>3 DEF ExitsItself
<1>11. All1
  BY <1>1, <1>2, <1>3, <1>4, <1>5, <1>6, <1>7, <1>8, <1>9, <1>10 DEF Next, Caller, Handler
<1> QED BY <1>a, <1>11 DEF TypeOK, LoopPlaces, Calls

LEMMA AcceptedStays ==
  ASSUME PInv, Next
  PROVE  Accepted'
<1> USE DEF PInv
<1>a. call \in [Users \cup {Owner} -> [pc : {"idle", "sending", "posting", "joining"}, msg : Msgs]]
  BY DEF TypeOK
<1>b. /\ IsFiniteSet(accepted) /\ Cardinality(accepted) \in Nat
      /\ IsFiniteSet(Sending) /\ Cardinality(Sending) \in Nat
  <2>1. Sending \in SUBSET Users
    BY DEF Sending
  <2> QED BY <2>1, ConstantsTyped, FS_Subset, FS_CardinalityType DEF Accepted
<1>c. Owner \notin Users /\ MaxMsgs \in Nat
  BY ConstantsTyped
<1>1. ASSUME UNCHANGED accepted, Sending' \in SUBSET Sending PROVE Accepted'
  <2>1. Cardinality(Sending') \in Nat /\ Cardinality(Sending') <= Cardinality(Sending)
    BY <1>1, <1>b, FS_Subset, FS_CardinalityType
  <2> QED BY <1>1, <1>b, <1>c, <2>1 DEF Accepted
<1>2. ASSUME NEW u \in Users, NEW prio \in {"NORMAL", "HIGH"}, Dispatch(u, prio) PROVE Accepted'
  <2>1. Sending' = Sending \cup {u} /\ UNCHANGED accepted
    BY <1>2, <1>a DEF Sending, Dispatch, history
  <2>2. Cardinality(Sending') \in Nat /\ Cardinality(Sending') <= Cardinality(Sending) + 1
    <3>1. PICK S : S = Sending \cup {u}
      OBVIOUS
    <3>2. Cardinality(S) \in Nat /\ Cardinality(S) <= Cardinality(Sending) + 1
      <4>1. IsFiniteSet(S) /\ Cardinality(S) \in {Cardinality(Sending), Cardinality(Sending) + 1}
        BY <3>1, <1>b, FS_AddElement
      <4> QED BY <4>1, <1>b, FS_CardinalityType
    <3> QED BY <2>1, <3>1, <3>2
  <2>3. Cardinality(accepted) + Cardinality(Sending) < MaxMsgs
    BY <1>2 DEF Dispatch, Sent, Sending
  <2> QED BY <2>1, <2>2, <2>3, <1>b, <1>c DEF Accepted
<1>3. ASSUME NEW u \in Users, Send(u) PROVE Accepted'
  <2>1. /\ u \in Sending /\ Sending' = Sending \ {u}
        /\ accepted' = accepted \cup {NewMsg(u)}
    BY <1>3, <1>a DEF Sending, Send, Accept, NewMsg, Return, Idle
  <2>2. NewMsg(u).id = Cardinality(accepted) + 1 /\ NewMsg(u) \notin accepted
    BY <1>3, NewMsgTyped DEF Send
  <2>3. Cardinality(Sending') = Cardinality(Sending) - 1
    BY <2>1, <1>b, FS_RemoveElement
  <2>4. IsFiniteSet(accepted') /\ Cardinality(accepted') = Cardinality(accepted) + 1
    BY <2>1, <2>2, <1>b, FS_AddElement
  <2>5. \A m \in accepted' : m.id \in 1 .. Cardinality(accepted) + 1
    BY <2>1, <2>2, <1>b DEF Accepted
  <2> QED BY <2>3, <2>4, <2>5, <1>b, <1>c DEF Accepted
<1>4. ASSUME NEW u \in Users, SendFails(u) \/ SendOnDeadHandle(u) PROVE Accepted'
  BY <1>4, <1>1, <1>a DEF SendFails, SendOnDeadHandle, Sending, Return, Idle, history
<1>5. ASSUME CreateThread \/ OnMessageProcessed \/ (\E t \in TaskIds : Run(t) \/ Handler(t) \/ ExitsItself(t))
      PROVE Accepted'
  <2>1. UNCHANGED <<accepted, call>>
    BY <1>5 DEF CreateThread, OnMessageProcessed, Run, Handler, HandlerReturns, PostsToItself, ExitsItself, history
  <2> QED BY <2>1, <1>1 DEF Sending
<1>6. ASSUME ExitThread PROVE Accepted'
  <2>1. UNCHANGED accepted
    BY <1>6 DEF ExitThread, history
  <2>2. \A u \in Users : call'[u] = call[u]
    BY <1>6, <1>a, <1>c DEF ExitThread, RtosExitThread, Win32ExitThread, QtExitThread, Goto, Return
  <2> QED BY <2>1, <2>2, <1>1 DEF Sending
<1> QED BY <1>2, <1>3, <1>4, <1>5, <1>6 DEF Next, Caller

(* What is in the queue after a step was in it, or is what the step put.   *)
LEMMA ElementsAfterPut ==
  ASSUME TypeOK, NEW m, Puts(m), NEW i \in DOMAIN queue'
  PROVE  queue'[i] = m \/ \E j \in DOMAIN queue : queue'[i] = queue[j]
<1>1. queue \in Seq(Msgs) /\ Len(queue) \in Nat /\ DOMAIN queue = 1 .. Len(queue)
  BY QueueTyped
<1>2. PICK n \in 0 .. Len(queue) : Placed(queue, n, m, queue')
  BY DEF Puts
<1>3. DOMAIN queue' = 1 .. Len(queue) + 1
  BY <1>1, <1>2, LenProperties DEF Placed
<1>4. queue'[i] = IF i <= n THEN queue[i] ELSE IF i = n + 1 THEN m ELSE queue[i - 1]
  BY <1>2, <1>3 DEF Placed
<1>5. CASE i <= n
  BY <1>1, <1>3, <1>4, <1>5
<1>6. CASE i > n + 1
  <2>1. i - 1 \in DOMAIN queue
    BY <1>1, <1>3, <1>6
  <2> QED BY <1>1, <1>3, <1>4, <1>6, <2>1
<1> QED BY <1>1, <1>3, <1>4, <1>5, <1>6

LEMMA ElementsAfterTake ==
  ASSUME TypeOK, TakesHead
  PROVE  /\ 1 \in DOMAIN queue /\ Head(queue) = queue[1]
         /\ DOMAIN queue' = 1 .. Len(queue) - 1
         /\ \A i \in DOMAIN queue' : i + 1 \in DOMAIN queue /\ queue'[i] = queue[i + 1]
<1>1. queue \in Seq(Msgs) /\ Len(queue) \in Nat /\ DOMAIN queue = 1 .. Len(queue) /\ queue # <<>>
  BY QueueTyped DEF TakesHead
<1>2. Len(queue) # 0
  BY <1>1, EmptySeq
<1>3. /\ Tail(queue) \in Seq(Msgs) /\ Len(Tail(queue)) = Len(queue) - 1 /\ Head(queue) = queue[1]
      /\ \A i \in 1 .. Len(Tail(queue)) : Tail(queue)[i] = queue[i + 1]
  BY <1>1, HeadTailProperties, HeadPlaces
<1>4. queue' = Tail(queue)
  BY DEF TakesHead
<1>5. PICK tail : tail = Tail(queue)
  OBVIOUS
<1>6. DOMAIN tail = 1 .. Len(queue) - 1
  BY <1>3, <1>5, LenProperties
<1> QED BY <1>1, <1>2, <1>3, <1>4, <1>5, <1>6

LEMMA ContentsStay ==
  ASSUME PInv, Next
  PROVE  Contents'
<1>t. TypeOK /\ StepOfQueue /\ port' = port
  BY EveryStep DEF PInv
<1>f. port \in Rtos /\ m_exit => m_exit'
  BY EndIsFinal DEF Rtos
<1> DEFINE Fits(m, acc, x) == \/ m \in acc
                              \/ port \in Rtos /\ x /\ m = ExitMsg
                              \/ port = "win32" /\ m = [ExitMsg EXCEPT !.prio = "HIGH"]
<1>c. /\ \A i \in DOMAIN queue : Fits(queue[i], accepted, m_exit)
      /\ \A t \in TaskIds : Handles(t) => running[t] \in accepted
      /\ \A k \in DOMAIN served : served[k] \in accepted
  BY DEF PInv, Contents
<1> DEFINE Queue1 == \A i \in DOMAIN queue' : Fits(queue'[i], accepted', m_exit')
           Running1 == \A t \in TaskIds : Handles(t)' => running'[t] \in accepted'
           Served1 == \A k \in DOMAIN served' : served'[k] \in accepted'
           All1 == Queue1 /\ Running1 /\ Served1
<1>1. ASSUME NEW u \in Users, Accepts(u) PROVE All1
  <2>1. accepted \subseteq accepted' /\ NewMsg(u) \in accepted' /\ UNCHANGED <<served, running, loop>>
    BY <1>1 DEF Accepts
  <2>2. Queue1
    <3> SUFFICES ASSUME NEW i \in DOMAIN queue' PROVE Fits(queue'[i], accepted', m_exit')
      OBVIOUS
    <3>1. queue'[i] = NewMsg(u) \/ \E j \in DOMAIN queue : queue'[i] = queue[j]
      BY <1>1, <1>t, ElementsAfterPut DEF Accepts
    <3> QED BY <1>c, <1>f, <2>1, <3>1
  <2> QED BY <1>c, <2>1, <2>2 DEF Handles
<1>2. ASSUME AsksForEnd PROVE All1
  <2>1. Queue1
    <3> SUFFICES ASSUME NEW i \in DOMAIN queue' PROVE Fits(queue'[i], accepted', m_exit')
      OBVIOUS
    <3>1. CASE Puts(ExitMsg) /\ port \in Rtos /\ m_exit
      <4>1. queue'[i] = ExitMsg \/ \E j \in DOMAIN queue : queue'[i] = queue[j]
        BY <3>1, <1>t, ElementsAfterPut
      <4> QED BY <1>2, <1>c, <1>f, <3>1, <4>1 DEF AsksForEnd, Quiet
    <3>2. CASE Puts(Win32Exit) /\ port = "win32"
      <4>1. queue'[i] = Win32Exit \/ \E j \in DOMAIN queue : queue'[i] = queue[j]
        BY <3>2, <1>t, ElementsAfterPut
      <4> QED BY <1>2, <1>c, <1>f, <3>2, <4>1 DEF AsksForEnd, Quiet, Win32Exit
    <3> QED BY <1>2, <3>1, <3>2 DEF AsksForEnd
  <2> QED BY <1>2, <1>c, <2>1 DEF AsksForEnd, Quiet
<1>3. ASSUME TakesHead, UNCHANGED <<accepted, served>> PROVE Queue1
  BY <1>3, <1>t, <1>c, <1>f, ElementsAfterTake
<1>4. ASSUME NEW t \in TaskIds, Takes(t) PROVE All1
  <2>1. Queue1 /\ UNCHANGED <<accepted, served>>
    BY <1>3, <1>4 DEF Takes
  <2>2. Head(queue) \in accepted
    BY <1>c, <1>t, <1>4, ElementsAfterTake DEF Takes, ExitMsg
  <2>3. Running1
    BY <1>4, <1>c, <1>t, <2>1, <2>2 DEF Takes, Serve, Handles, TypeOK
  <2> QED BY <1>c, <2>1, <2>3
<1>5. ASSUME TakesExit PROVE All1
  BY <1>3, <1>5, <1>c DEF TakesExit, Quiet
<1>6. ASSUME NEW t \in TaskIds, HandlerReturns(t) PROVE All1
  <2>1. running[t] \in accepted /\ running[t] \in Msgs
    BY <1>6, <1>c, <1>t DEF HandlerReturns, Handles, TypeOK
  <2>2. Served1
    <3>1. served \in Seq(Msgs) /\ served' = Append(served, running[t]) /\ accepted' = accepted
      BY <1>6, <1>t DEF HandlerReturns, TypeOK
    <3>2. PICK s : s = Append(served, running[t])
      OBVIOUS
    <3>3. /\ Len(served) \in Nat /\ DOMAIN served = 1 .. Len(served)
          /\ s \in Seq(Msgs) /\ Len(s) = Len(served) + 1 /\ DOMAIN s = 1 .. Len(served) + 1
          /\ \A k \in 1 .. Len(served) : s[k] = served[k]
          /\ s[Len(served) + 1] = running[t]
      BY <2>1, <3>1, <3>2, AppendProperties, LenProperties
    <3>4. \A k \in DOMAIN s : k \in DOMAIN served \/ k = Len(served) + 1
      BY <3>3
    <3>5. \A k \in DOMAIN s : s[k] \in accepted
      BY <1>c, <2>1, <3>3, <3>4
    <3> QED BY <3>1, <3>2, <3>5
  <2>3. Queue1
    BY <1>6, <1>c, <1>f DEF HandlerReturns
  <2>4. Running1
    BY <1>6, <1>c, <1>t DEF HandlerReturns, Handles, TypeOK
  <2> QED BY <2>2, <2>3, <2>4
<1>7. ASSUME Clears \/ (queue' = queue /\ Quiet) PROVE All1
  <2>1. Queue1
    BY <1>7, <1>c, <1>f DEF Clears, Quiet
  <2> QED BY <1>7, <1>c, <2>1 DEF Clears, Quiet
<1> QED BY <1>t, <1>1, <1>2, <1>4, <1>5, <1>6, <1>7 DEF StepOfQueue, Contents

Delegated == {m \in Msgs : m.id # 0}
ExitMsgs  == {m \in Msgs : m.id = 0}

LEMMA CountedPlaces ==
  ASSUME TypeOK
  PROVE  Waiting = Places(queue, Delegated) /\ Exits = Places(queue, ExitMsgs)
<1>1. \A i \in DOMAIN queue : queue[i] \in Msgs
  BY QueueTyped
<1> QED BY <1>1 DEF Waiting, Exits, Places, Delegated, ExitMsgs

(* How many messages of S wait after a step.                               *)
LEMMA CountsAfterPut ==
  ASSUME TypeOK, NEW m, Puts(m), NEW S
  PROVE  /\ Cardinality(Places(queue', S)) = Cardinality(Places(queue, S)) + (IF m \in S THEN 1 ELSE 0)
         /\ Len(queue') = Len(queue) + 1
<1>1. queue \in Seq(Msgs)
  BY QueueTyped
<1>2. PICK n \in 0 .. Len(queue) : Placed(queue, n, m, queue')
  BY DEF Puts
<1> QED BY <1>1, <1>2, PlacedCounts DEF Placed

LEMMA CountsAfterTake ==
  ASSUME TypeOK, TakesHead, NEW S
  PROVE  /\ Cardinality(Places(queue, S)) = Cardinality(Places(queue', S)) + (IF Head(queue) \in S THEN 1 ELSE 0)
         /\ Len(queue) = Len(queue') + 1
<1>1. queue \in Seq(Msgs) /\ queue # <<>> /\ queue' = Tail(queue)
  BY QueueTyped DEF TakesHead
<1>2. PICK tail : tail = Tail(queue)
  OBVIOUS
<1>3. tail \in Seq(Msgs) /\ Placed(tail, 0, Head(queue), queue)
  BY <1>1, <1>2, HeadPlaces
<1>4. 0 \in 0 .. Len(tail)
  BY <1>3, LenProperties
<1>5. /\ Cardinality(Places(queue, S)) = Cardinality(Places(tail, S)) + (IF Head(queue) \in S THEN 1 ELSE 0)
      /\ Len(queue) = Len(tail) + 1
  BY <1>3, <1>4, PlacedCounts DEF Placed
<1> QED BY <1>1, <1>2, <1>5

LEMMA BoundedStays ==
  ASSUME PInv, Next
  PROVE  Bounded'
<1>t. TypeOK /\ TypeOK' /\ StepOfQueue /\ port' = port
  BY EveryStep, TypeStays DEF PInv
<1>n. /\ Len(queue) \in Nat /\ Len(queue') \in Nat /\ Cap \in Nat /\ queue \in Seq(Msgs) /\ queue' \in Seq(Msgs)
  BY <1>t, QueueTyped, ConstantsTyped, LenProperties DEF TypeOK
<1>b. (port \in Rtos => Len(queue) <= Cap) /\ Cardinality(Places(queue, Delegated)) <= Cap
  BY <1>t, CountedPlaces DEF PInv, Bounded
<1>p. /\ Cardinality(Places(queue, Delegated)) \in Nat /\ Cardinality(Places(queue, Delegated)) <= Len(queue)
      /\ Cardinality(Places(queue', Delegated)) \in Nat /\ Cardinality(Places(queue', Delegated)) <= Len(queue')
  BY <1>n, PlacesAreFinite
<1> DEFINE Within == (port \in Rtos => Len(queue') <= Cap) /\ Cardinality(Places(queue', Delegated)) <= Cap
<1>1. ASSUME NEW u \in Users, Accepts(u) PROVE Within
  BY <1>1, <1>t, <1>n, <1>b, <1>p, CountsAfterPut DEF Accepts
<1>2. ASSUME AsksForEnd PROVE Within
  <2>1. ExitMsg \notin Delegated /\ Win32Exit \notin Delegated
    BY DEF Delegated, ExitMsg, Win32Exit
  <2>2. CASE Puts(ExitMsg) /\ Len(queue) < Cap
    BY <2>1, <2>2, <1>t, <1>n, <1>b, <1>p, CountsAfterPut
  <2>3. CASE Puts(Win32Exit) /\ port = "win32"
    <3>1. port \notin Rtos
      BY <2>3 DEF Rtos
    <3> QED BY <2>1, <2>3, <3>1, <1>t, <1>n, <1>b, <1>p, CountsAfterPut
  <2> QED BY <1>2, <2>2, <2>3 DEF AsksForEnd
<1>3. ASSUME TakesHead PROVE Within
  BY <1>3, <1>t, <1>n, <1>b, <1>p, CountsAfterTake
<1>4. ASSUME queue' = queue PROVE Within
  BY <1>4, <1>b
<1>5. ASSUME queue' = <<>> PROVE Within
  <2>1. Len(queue') = 0
    BY <1>5, <1>n, EmptySeq
  <2> QED BY <2>1, <1>n, <1>p
<1>6. Within
  BY <1>t, <1>1, <1>2, <1>3, <1>4, <1>5 DEF StepOfQueue, Takes, TakesExit, Clears, HandlerReturns
<1>7. Waiting' = Places(queue', Delegated)
  <2>1. \A i \in DOMAIN queue' : queue'[i] \in Msgs
    BY <1>n, ElementOfSeq, LenProperties
  <2> QED BY <2>1 DEF Waiting, Places, Delegated
<1> QED BY <1>t, <1>6, <1>7 DEF Bounded

(* Two places after a step, and what was there before.                     *)
LEMMA PlacedPairs ==
  ASSUME NEW q \in Seq(Msgs), NEW n \in 0 .. Len(q), NEW m, NEW r, Placed(q, n, m, r),
         NEW i \in DOMAIN r, NEW j \in DOMAIN r, i < j
  PROVE  \/ \E a, b \in DOMAIN q : a < b /\ r[i] = q[a] /\ r[j] = q[b]
         \/ r[i] = m /\ \E b \in DOMAIN q : n < b /\ r[j] = q[b]
         \/ r[j] = m /\ \E a \in DOMAIN q : a <= n /\ r[i] = q[a]
<1>1. Len(q) \in Nat /\ DOMAIN q = 1 .. Len(q) /\ DOMAIN r = 1 .. Len(q) + 1 /\ n \in Nat
  BY LenProperties DEF Placed
<1>2. i \in Nat /\ j \in Nat /\ 1 <= i /\ j <= Len(q) + 1
  BY <1>1
<1>3. /\ r[i] = IF i <= n THEN q[i] ELSE IF i = n + 1 THEN m ELSE q[i - 1]
      /\ r[j] = IF j <= n THEN q[j] ELSE IF j = n + 1 THEN m ELSE q[j - 1]
  BY <1>1 DEF Placed
<1>4. CASE j <= n
  <2>1. i \in DOMAIN q /\ j \in DOMAIN q /\ r[i] = q[i] /\ r[j] = q[j]
    BY <1>1, <1>2, <1>3, <1>4
  <2> QED BY <2>1
<1>5. CASE j = n + 1
  <2>1. i \in DOMAIN q /\ i <= n /\ r[i] = q[i] /\ r[j] = m
    BY <1>1, <1>2, <1>3, <1>5
  <2> QED BY <2>1
<1>6. CASE j > n + 1
  <2>1. PICK b : b = j - 1
    OBVIOUS
  <2>2. b \in DOMAIN q /\ n < b /\ r[j] = q[b]
    BY <1>1, <1>2, <1>3, <1>6, <2>1
  <2>3. CASE i <= n
    <3>1. i \in DOMAIN q /\ r[i] = q[i] /\ i < b
      BY <1>1, <1>2, <1>3, <2>2, <2>3
    <3> QED BY <2>2, <3>1
  <2>4. CASE i = n + 1
    BY <1>1, <1>3, <2>2, <2>4
  <2>5. CASE i > n + 1
    <3>1. PICK a : a = i - 1
      OBVIOUS
    <3>2. a \in DOMAIN q /\ r[i] = q[a] /\ a < b
      BY <1>1, <1>2, <1>3, <2>1, <2>2, <2>5, <3>1
    <3> QED BY <2>2, <3>2
  <2> QED BY <1>1, <1>2, <2>3, <2>4, <2>5
<1> QED BY <1>1, <1>2, <1>4, <1>5, <1>6

LEMMA SortedStays ==
  ASSUME PInv, Next
  PROVE  Sorted'
<1>t. TypeOK /\ StepOfQueue /\ port' = port
  BY EveryStep DEF PInv
<1>q. queue \in Seq(Msgs)
  BY <1>t, QueueTyped
<1> SUFFICES ASSUME KnowsUrgency
             PROVE  \A i, j \in DOMAIN queue' : i < j /\ queue'[j].prio = "HIGH" => queue'[i].prio = "HIGH"
  BY <1>t DEF Sorted, Urgent, KnowsUrgency
<1>s. \A i, j \in DOMAIN queue : i < j /\ queue[j].prio = "HIGH" => queue[i].prio = "HIGH"
  BY DEF PInv, Sorted, Urgent, KnowsUrgency
<1>1. ASSUME NEW m \in Msgs, Puts(m), NEW i \in DOMAIN queue', NEW j \in DOMAIN queue',
             i < j, queue'[j].prio = "HIGH"
      PROVE  queue'[i].prio = "HIGH"
  <2>1. PICK n \in 0 .. Len(queue) :
          /\ Placed(queue, n, m, queue')
          /\ m.prio = "NORMAL" => n = Len(queue)
          /\ m.prio = "HIGH" => \A k \in DOMAIN queue : k <= n => queue[k].prio = "HIGH"
    BY <1>1 DEF Puts, Urgent
  <2>2. \/ \E a, b \in DOMAIN queue : a < b /\ queue'[i] = queue[a] /\ queue'[j] = queue[b]
        \/ queue'[i] = m /\ \E b \in DOMAIN queue : n < b /\ queue'[j] = queue[b]
        \/ queue'[j] = m /\ \E a \in DOMAIN queue : a <= n /\ queue'[i] = queue[a]
    BY <1>1, <1>q, <2>1, PlacedPairs
  <2>3. ASSUME m.prio = "NORMAL", NEW b \in DOMAIN queue, n < b PROVE FALSE
    <3>1. n = Len(queue) /\ b \in 1 .. Len(queue) /\ Len(queue) \in Nat
      BY <1>t, <2>1, <2>3, QueueTyped
    <3> QED BY <2>3, <3>1
  <2> QED BY <1>1, <1>s, <2>1, <2>2, <2>3 DEF Msgs
<1>2. CASE \E m \in Msgs : Puts(m)
  BY <1>1, <1>2
<1>3. CASE TakesHead
  <2>1. SUFFICES ASSUME NEW i \in DOMAIN queue', NEW j \in DOMAIN queue', i < j, queue'[j].prio = "HIGH"
                 PROVE  queue'[i].prio = "HIGH"
    OBVIOUS
  <2>2. /\ i + 1 \in DOMAIN queue /\ queue'[i] = queue[i + 1] /\ i + 1 < j + 1
        /\ j + 1 \in DOMAIN queue /\ queue'[j] = queue[j + 1]
    BY <1>3, <1>t, <2>1, ElementsAfterTake
  <2> QED BY <1>s, <2>1, <2>2
<1>4. CASE queue' = queue
  BY <1>4, <1>s
<1>5. CASE queue' = <<>>
  BY <1>5
<1>6. \A u \in Users : Accepts(u) => NewMsg(u) \in Msgs
  BY NewMsgTyped DEF Accepts
<1> QED BY <1>t, <1>2, <1>3, <1>4, <1>5, <1>6, ConstantsTyped
        DEF StepOfQueue, Accepts, AsksForEnd, Takes, TakesExit, Clears, HandlerReturns

(* The order after a step that only puts a message.                        *)
LEMMA OrderAfterPut ==
  ASSUME PInv, NEW m \in Msgs, Puts(m), UNCHANGED <<served, running>>,
         \A t \in TaskIds : Handles(t)' => Handles(t),
         m.id # 0 => \A x \in accepted : x.id < m.id
  PROVE  InOrder'
<1>t. TypeOK /\ queue \in Seq(Msgs)
  BY QueueTyped DEF PInv
<1>o. InOrder
  BY DEF PInv
<1>q. \A i \in DOMAIN queue : NormalAt(i) => queue[i] \in accepted
  BY DEF PInv, Contents, NormalAt, ExitMsg
<1>r. \A t \in TaskIds : RunsNormal(t)' => RunsNormal(t) /\ running'[t] = running[t] /\ running[t] \in accepted
  BY DEF RunsNormal, PInv, Contents
<1>s. \A k \in DOMAIN served : served[k] \in accepted
  BY DEF PInv, Contents
<1>1. PICK n \in 0 .. Len(queue) : Placed(queue, n, m, queue') /\ (m.prio = "NORMAL" => n = Len(queue))
  BY DEF Puts
<1>2. \A i \in DOMAIN queue' : queue'[i] = m \/ \E j \in DOMAIN queue : queue'[i] = queue[j]
  BY <1>t, ElementsAfterPut
<1>3. ASSUME NEW i \in DOMAIN queue', NEW j \in DOMAIN queue', i < j, NormalAt(i)', NormalAt(j)'
      PROVE  queue'[i].id < queue'[j].id
  <2>1. \/ \E a, b \in DOMAIN queue : a < b /\ queue'[i] = queue[a] /\ queue'[j] = queue[b]
        \/ queue'[i] = m /\ \E b \in DOMAIN queue : n < b /\ queue'[j] = queue[b]
        \/ queue'[j] = m /\ \E a \in DOMAIN queue : a <= n /\ queue'[i] = queue[a]
    BY <1>1, <1>3, <1>t, PlacedPairs
  <2>2. ASSUME queue'[i] = m, NEW b \in DOMAIN queue, n < b PROVE FALSE
    <3>1. n = Len(queue) /\ b \in 1 .. Len(queue) /\ Len(queue) \in Nat
      BY <1>1, <1>3, <1>t, <2>2, QueueTyped DEF NormalAt
    <3> QED BY <2>2, <3>1
  <2>3. CASE \E a, b \in DOMAIN queue : a < b /\ queue'[i] = queue[a] /\ queue'[j] = queue[b]
    BY <1>3, <1>o, <2>3 DEF InOrder, NormalAt
  <2>4. CASE queue'[j] = m /\ \E a \in DOMAIN queue : a <= n /\ queue'[i] = queue[a]
    BY <1>3, <1>q, <2>4 DEF NormalAt
  <2> QED BY <2>1, <2>2, <2>3, <2>4
<1>4. \A t \in TaskIds, i \in DOMAIN queue' : RunsNormal(t)' /\ NormalAt(i)' => running'[t].id < queue'[i].id
  BY <1>2, <1>o, <1>r DEF InOrder, NormalAt
<1>5. \A k \in DOMAIN served, i \in DOMAIN queue' :
        served[k].prio = "NORMAL" /\ NormalAt(i)' => served[k].id < queue'[i].id
  BY <1>2, <1>o, <1>s DEF InOrder, NormalAt
<1> QED BY <1>3, <1>4, <1>5, <1>o, <1>r DEF InOrder, NormalOrder

(* The order after a step that takes the head or leaves the queue, and     *)
(* begins no handler.                                                      *)
LEMMA OrderAfterQuiet ==
  ASSUME PInv, TakesHead \/ queue' \in {queue, <<>>}, Quiet
  PROVE  InOrder'
<1>t. TypeOK
  BY DEF PInv
<1>o. InOrder
  BY DEF PInv
<1>r. \A t \in TaskIds : RunsNormal(t)' => RunsNormal(t) /\ running'[t] = running[t]
  BY DEF RunsNormal, Quiet
<1>1. CASE TakesHead
  <2>1. \A i \in DOMAIN queue' : i \in Nat /\ i + 1 \in DOMAIN queue /\ queue'[i] = queue[i + 1]
    BY <1>1, <1>t, ElementsAfterTake
  <2>2. \A i, j \in DOMAIN queue' : i < j => i + 1 < j + 1
    BY <2>1
  <2> QED BY <1>o, <1>r, <2>1, <2>2 DEF InOrder, NormalOrder, NormalAt, Quiet
<1>2. CASE queue' = queue
  BY <1>2, <1>o, <1>r DEF InOrder, NormalOrder, NormalAt, Quiet
<1>3. CASE queue' = <<>>
  BY <1>3, <1>o, <1>r DEF InOrder, NormalOrder, NormalAt, Quiet
<1> QED BY <1>1, <1>2, <1>3

(* Who takes a normal message is the only one to run one.                  *)
LEMMA NobodyElseRunsNormal ==
  ASSUME PInv, NEW t \in TaskIds, Takes(t), Head(queue).prio = "NORMAL", NEW s \in TaskIds
  PROVE  ~RunsNormal(s)
<1> SUFFICES ASSUME RunsNormal(s) PROVE FALSE
  OBVIOUS
<1>t. TypeOK /\ port \in Rtos \cup {"win32", "qt"} /\ MaxTasks \in Nat
  BY ConstantsTyped DEF PInv, TypeOK, Rtos
<1>1. loop[s] \in {"run", "posting"}
  BY DEF RunsNormal, Handles
<1>2. CASE port \in Rtos
  BY <1>1, <1>2 DEF PInv, Fresh, Busy, Takes
<1>3. CASE port = "qt"
  <2>1. loop[t] = "top" /\ hTask = t
    BY <1>3 DEF Takes, Rtos
  <2>2. s = hTask
    BY <1>1, <1>3 DEF PInv, QtOnly, Exited, Created
  <2> QED BY <1>1, <2>1, <2>2
<1>4. CASE port = "win32"
  <2>1. loop[t] = "top"
    BY <1>4 DEF Takes, Rtos
  <2>2. Exits = {}
    <3>1. SUFFICES ASSUME NEW i \in DOMAIN queue, queue[i].id = 0 PROVE FALSE
      BY DEF Exits
    <3>2. 1 \in DOMAIN queue /\ Head(queue) = queue[1] /\ DOMAIN queue = 1 .. Len(queue)
      BY <1>t, ElementsAfterTake, QueueTyped DEF Takes
    <3>3. \A m \in accepted : m.id # 0
      BY FS_CardinalityType DEF PInv, Accepted
    <3>4. queue[i] = [ExitMsg EXCEPT !.prio = "HIGH"]
      BY <1>4, <3>1, <3>3 DEF PInv, Contents, Rtos
    <3>5. Urgent(i) /\ ~Urgent(1)
      BY <3>2, <3>4 DEF Urgent, ExitMsg
    <3>6. i = 1 \/ 1 < i
      BY <3>2
    <3> QED BY <1>4, <3>2, <3>5, <3>6 DEF PInv, Sorted
  <2>3. Cardinality(Exits) = 0
    BY <2>2, FS_EmptySet
  <2>4. /\ IsFiniteSet(Live) /\ Cardinality(Live) \in Nat /\ Cardinality(Live) <= 1
    <3>1. Live \in SUBSET (1 .. MaxTasks) /\ IsFiniteSet(1 .. MaxTasks)
      BY <1>t, FS_Interval DEF Live, TaskIds
    <3>2. IsFiniteSet(Live) /\ Cardinality(Live) \in Nat
      BY <3>1, FS_Subset, FS_CardinalityType
    <3> QED BY <1>4, <2>3, <3>2 DEF PInv, Win32Only
  <2>5. s \in Live /\ t \in Live /\ s # t
    BY <1>1, <2>1 DEF Live
  <2>6. Cardinality(Live \ {s}) = Cardinality(Live) - 1 /\ IsFiniteSet(Live \ {s})
    BY <2>4, <2>5, FS_RemoveElement
  <2>7. Cardinality((Live \ {s}) \ {t}) = Cardinality(Live \ {s}) - 1 /\ IsFiniteSet((Live \ {s}) \ {t})
    BY <2>5, <2>6, FS_RemoveElement
  <2>8. Cardinality((Live \ {s}) \ {t}) \in Nat
    BY <2>7, FS_CardinalityType
  <2> QED BY <2>4, <2>6, <2>7, <2>8
<1> QED BY <1>t, <1>2, <1>3, <1>4

LEMMA OrderAfterTake ==
  ASSUME PInv, NEW t \in TaskIds, Takes(t)
  PROVE  InOrder'
<1>t. TypeOK
  BY DEF PInv
<1>o. InOrder
  BY DEF PInv
<1>1. /\ 1 \in DOMAIN queue /\ Head(queue) = queue[1]
      /\ \A i \in DOMAIN queue' : i \in Nat /\ 1 < i + 1 /\ i + 1 \in DOMAIN queue /\ queue'[i] = queue[i + 1]
  BY <1>t, ElementsAfterTake DEF Takes
<1>2. \A i, j \in DOMAIN queue' : i < j => i + 1 < j + 1
  BY <1>1
<1>3. UNCHANGED served
  BY DEF Takes
<1>4. \A s \in TaskIds : RunsNormal(s)' =>
        IF s = t THEN running'[s] = queue[1] /\ NormalAt(1) ELSE RunsNormal(s) /\ running'[s] = running[s]
  BY <1>t, <1>1 DEF Takes, Serve, RunsNormal, Handles, NormalAt, TypeOK
<1>5. NormalAt(1) => \A s \in TaskIds : ~RunsNormal(s)
  BY <1>1, NobodyElseRunsNormal DEF NormalAt
<1>6. \A i, j \in DOMAIN queue' : i < j /\ NormalAt(i)' /\ NormalAt(j)' => queue'[i].id < queue'[j].id
  BY <1>o, <1>1, <1>2 DEF InOrder, NormalAt
<1>7. \A s, r \in TaskIds : RunsNormal(s)' /\ RunsNormal(r)' => s = r
  BY <1>o, <1>4, <1>5 DEF InOrder
<1>8. \A s \in TaskIds, i \in DOMAIN queue' : RunsNormal(s)' /\ NormalAt(i)' => running'[s].id < queue'[i].id
  BY <1>o, <1>1, <1>4 DEF InOrder, NormalAt
<1>9. \A k \in DOMAIN served : served[k].prio = "NORMAL" =>
        /\ \A s \in TaskIds : RunsNormal(s)' => served[k].id < running'[s].id
        /\ \A i \in DOMAIN queue' : NormalAt(i)' => served[k].id < queue'[i].id
  BY <1>o, <1>1, <1>4 DEF InOrder, NormalAt
<1> QED BY <1>o, <1>3, <1>6, <1>7, <1>8, <1>9 DEF InOrder, NormalOrder

LEMMA OrderAfterReturn ==
  ASSUME PInv, NEW t \in TaskIds, HandlerReturns(t)
  PROVE  InOrder'
<1>t. TypeOK /\ running[t] \in Msgs /\ served \in Seq(Msgs)
  BY DEF PInv, TypeOK
<1>o. InOrder
  BY DEF PInv
<1>1. UNCHANGED <<queue, running>> /\ served' = Append(served, running[t]) /\ loop' = [loop EXCEPT ![t] = "top"]
  BY DEF HandlerReturns
<1>2. \A s \in TaskIds : RunsNormal(s)' => RunsNormal(s) /\ s # t /\ running'[s] = running[s]
  BY <1>t, <1>1 DEF RunsNormal, Handles, TypeOK
<1>3. running[t].prio = "NORMAL" => RunsNormal(t)
  BY DEF RunsNormal, Handles, HandlerReturns
<1>4. /\ Len(served) \in Nat /\ DOMAIN served = 1 .. Len(served)
      /\ DOMAIN served' = 1 .. Len(served) + 1
      /\ \A k \in DOMAIN served : served'[k] = served[k]
      /\ served'[Len(served) + 1] = running[t]
  <2>1. PICK r : r = Append(served, running[t])
    OBVIOUS
  <2>2. /\ Len(served) \in Nat /\ DOMAIN served = 1 .. Len(served)
        /\ DOMAIN r = 1 .. Len(served) + 1
        /\ \A k \in DOMAIN served : r[k] = served[k]
        /\ r[Len(served) + 1] = running[t]
    BY <1>t, <2>1, AppendProperties, LenProperties
  <2> QED BY <1>1, <2>1, <2>2
<1>5. \A k \in DOMAIN served' : k \in DOMAIN served \/ k = Len(served) + 1
  BY <1>4
<1>6. \A k, l \in DOMAIN served' : k < l => k \in DOMAIN served
  BY <1>4
<1>7. ASSUME NEW k \in DOMAIN served', NEW l \in DOMAIN served', k < l,
             served'[k].prio = "NORMAL", served'[l].prio = "NORMAL"
      PROVE  served'[k].id < served'[l].id
  <2>1. k \in DOMAIN served /\ served'[k] = served[k]
    BY <1>4, <1>6, <1>7
  <2>2. CASE l \in DOMAIN served
    BY <1>4, <1>7, <1>o, <2>1, <2>2 DEF InOrder, NormalOrder
  <2>3. CASE l = Len(served) + 1
    BY <1>3, <1>4, <1>7, <1>o, <2>1, <2>3 DEF InOrder
  <2> QED BY <1>5, <2>2, <2>3
<1>8. ASSUME NEW k \in DOMAIN served', served'[k].prio = "NORMAL"
      PROVE  /\ \A s \in TaskIds : RunsNormal(s)' => served'[k].id < running'[s].id
             /\ \A i \in DOMAIN queue' : NormalAt(i)' => served'[k].id < queue'[i].id
  <2>1. CASE k \in DOMAIN served
    BY <1>1, <1>2, <1>4, <1>8, <1>o, <2>1 DEF InOrder, NormalAt
  <2>2. CASE k = Len(served) + 1
    <3>1. RunsNormal(t) /\ served'[k] = running[t]
      BY <1>3, <1>4, <1>8, <2>2
    <3> QED BY <1>1, <1>2, <1>o, <3>1 DEF InOrder, NormalAt
  <2> QED BY <1>5, <2>1, <2>2
<1> QED BY <1>1, <1>2, <1>7, <1>8, <1>o DEF InOrder, NormalOrder, NormalAt

LEMMA OrderStays ==
  ASSUME PInv, Next
  PROVE  InOrder'
<1>s. StepOfQueue
  BY EveryStep
<1>1. ASSUME NEW u \in Users, Accepts(u) PROVE InOrder'
  <2>1. NewMsg(u) \in Msgs /\ \A x \in accepted : x.id < NewMsg(u).id
    BY <1>1, NewMsgTyped DEF Accepts, PInv, Accepted
  <2> QED BY <1>1, <2>1, OrderAfterPut DEF Accepts, Handles
<1>2. CASE AsksForEnd
  BY <1>2, OrderAfterPut, ConstantsTyped DEF AsksForEnd, Quiet, ExitMsg, Win32Exit
<1> QED BY <1>s, <1>1, <1>2, OrderAfterQuiet, OrderAfterTake, OrderAfterReturn DEF StepOfQueue, TakesExit, Clears

(* What waited still does after a put, and so does what was put.           *)
LEMMA PutKeeps ==
  ASSUME TypeOK, NEW m, Puts(m)
  PROVE  /\ \E j \in DOMAIN queue' : queue'[j] = m
         /\ \A i \in DOMAIN queue : \E j \in DOMAIN queue' : queue'[j] = queue[i]
<1>1. queue \in Seq(Msgs) /\ Len(queue) \in Nat /\ DOMAIN queue = 1 .. Len(queue)
  BY QueueTyped
<1>2. PICK n \in 0 .. Len(queue) : Placed(queue, n, m, queue')
  BY DEF Puts
<1>3. DOMAIN queue' = 1 .. Len(queue) + 1
  BY <1>1, <1>2, LenProperties DEF Placed
<1>4. n + 1 \in DOMAIN queue' /\ queue'[n + 1] = m
  BY <1>1, <1>2, <1>3 DEF Placed
<1>5. ASSUME NEW i \in DOMAIN queue PROVE \E j \in DOMAIN queue' : queue'[j] = queue[i]
  <2>1. CASE i <= n
    <3>1. i \in DOMAIN queue' /\ queue'[i] = queue[i]
      BY <1>1, <1>2, <1>3, <2>1 DEF Placed
    <3> QED BY <3>1
  <2>2. CASE i > n
    <3>1. PICK j : j = i + 1
      OBVIOUS
    <3>2. j \in 1 .. Len(queue) + 1 /\ ~(j <= n) /\ j # n + 1 /\ j - 1 = i
      BY <1>1, <2>2, <3>1
    <3>3. queue'[j] = queue[i]
      BY <1>2, <3>2 DEF Placed
    <3> QED BY <1>3, <3>2, <3>3
  <2> QED BY <1>1, <2>1, <2>2
<1> QED BY <1>4, <1>5

LEMMA TakeKeeps ==
  ASSUME TypeOK, TakesHead, NEW i \in DOMAIN queue, i # 1
  PROVE  \E j \in DOMAIN queue' : queue'[j] = queue[i]
<1>1. Len(queue) \in Nat /\ DOMAIN queue = 1 .. Len(queue)
  BY QueueTyped
<1>2. /\ DOMAIN queue' = 1 .. Len(queue) - 1
      /\ \A k \in DOMAIN queue' : queue'[k] = queue[k + 1]
  BY ElementsAfterTake
<1>3. PICK j : j = i - 1
  OBVIOUS
<1>4. j \in DOMAIN queue' /\ j + 1 = i
  BY <1>1, <1>2, <1>3
<1> QED BY <1>2, <1>4

LEMMA KeptStays ==
  ASSUME PInv, Next
  PROVE  Kept'
<1>t. TypeOK /\ StepOfQueue /\ port' = port
  BY EveryStep DEF PInv
<1> SUFFICES ASSUME port = "win32" \/ (~m_exit' /\ quit' = {} /\ ~selfExited'), NEW m \in accepted'
             PROVE  \/ \E i \in DOMAIN queue' : queue'[i] = m
                    \/ \E k \in DOMAIN served' : served'[k] = m
                    \/ \E t \in TaskIds : loop'[t] = "run" /\ running'[t] = m
  BY <1>t DEF Kept
<1>a. /\ port \in Rtos => ~m_exit'
      /\ port = "qt" => quit' = {}
  BY DEF Rtos
<1>b. m \in accepted => \/ \E i \in DOMAIN queue : queue[i] = m
                        \/ \E k \in DOMAIN served : served[k] = m
                        \/ \E t \in TaskIds : loop[t] = "run" /\ running[t] = m
  <2>1. port = "win32" \/ (~m_exit /\ quit = {} /\ ~selfExited)
    BY EndIsFinal
  <2> QED BY <2>1 DEF PInv, Kept
<1> DEFINE Goal == \/ \E i \in DOMAIN queue' : queue'[i] = m
                   \/ \E k \in DOMAIN served' : served'[k] = m
                   \/ \E t \in TaskIds : loop'[t] = "run" /\ running'[t] = m
<1>1. ASSUME NEW u \in Users, Accepts(u) PROVE Goal
  <2>1. /\ Puts(NewMsg(u)) /\ accepted' = accepted \cup {NewMsg(u)} /\ UNCHANGED <<served, running, loop>>
    BY <1>1 DEF Accepts
  <2>2. /\ \E j \in DOMAIN queue' : queue'[j] = NewMsg(u)
        /\ \A i \in DOMAIN queue : \E j \in DOMAIN queue' : queue'[j] = queue[i]
    BY <1>t, <2>1, PutKeeps
  <2> QED BY <1>b, <2>1, <2>2
<1>2. ASSUME Quiet, \A i \in DOMAIN queue : queue[i] \in accepted => \E j \in DOMAIN queue' : queue'[j] = queue[i]
      PROVE  Goal
  <2>1. UNCHANGED <<accepted, served, running>> /\ \A t \in TaskIds : loop[t] = "run" => loop'[t] = "run"
    BY <1>2, <1>a DEF Quiet
  <2> QED BY <1>b, <1>2, <2>1
<1>3. ASSUME AsksForEnd PROVE Goal
  <2>1. Quiet /\ \A i \in DOMAIN queue : \E j \in DOMAIN queue' : queue'[j] = queue[i]
    BY <1>3, <1>t, PutKeeps DEF AsksForEnd
  <2> QED BY <1>2, <2>1
<1>4. ASSUME NEW t \in TaskIds, Takes(t) PROVE Goal
  <2>1. /\ UNCHANGED <<accepted, served>> /\ loop[t] # "run" /\ loop' = [loop EXCEPT ![t] = "run"]
        /\ running' = [running EXCEPT ![t] = Head(queue)] /\ Head(queue) = queue[1]
    BY <1>4, <1>t, ElementsAfterTake DEF Takes, Serve
  <2>2. loop'[t] = "run" /\ running'[t] = queue[1]
    BY <1>t, <2>1 DEF TypeOK
  <2>3. \A s \in TaskIds : loop[s] = "run" => loop'[s] = "run" /\ running'[s] = running[s]
    BY <1>t, <2>1 DEF TypeOK
  <2>4. \A i \in DOMAIN queue : i # 1 => \E j \in DOMAIN queue' : queue'[j] = queue[i]
    BY <1>4, <1>t, TakeKeeps DEF Takes
  <2> QED BY <1>b, <2>1, <2>2, <2>3, <2>4
<1>5. ASSUME TakesExit PROVE Goal
  <2>1. TakesHead /\ Quiet /\ queue[1].id = 0
    BY <1>5, <1>t, ElementsAfterTake DEF TakesExit
  <2>2. \A i \in DOMAIN queue : i # 1 => \E j \in DOMAIN queue' : queue'[j] = queue[i]
    BY <1>t, <2>1, TakeKeeps
  <2>3. \A x \in accepted : x.id # 0
    BY FS_CardinalityType DEF PInv, Accepted
  <2> QED BY <1>2, <2>1, <2>2, <2>3
<1>6. ASSUME NEW t \in TaskIds, HandlerReturns(t) PROVE Goal
  <2>1. /\ UNCHANGED <<queue, running, accepted>> /\ served' = Append(served, running[t])
        /\ loop' = [loop EXCEPT ![t] = "top"]
    BY <1>6 DEF HandlerReturns
  <2>2. \A s \in TaskIds : loop[s] = "run" => s = t \/ loop'[s] = "run"
    BY <1>t, <2>1 DEF TypeOK
  <2>3. PICK r : r = Append(served, running[t])
    OBVIOUS
  <2>4. served \in Seq(Msgs) /\ running[t] \in Msgs
    BY <1>t DEF TypeOK
  <2>5. /\ Len(served) \in Nat /\ DOMAIN served = 1 .. Len(served) /\ DOMAIN r = 1 .. Len(served) + 1
        /\ \A k \in DOMAIN served : r[k] = served[k]
        /\ r[Len(served) + 1] = running[t]
    BY <2>3, <2>4, AppendProperties, LenProperties
  <2>6. /\ \A k \in DOMAIN served : k \in DOMAIN r
        /\ Len(served) + 1 \in DOMAIN r
    BY <2>5
  <2> QED BY <1>b, <2>1, <2>2, <2>3, <2>5, <2>6
<1>7. ASSUME Clears PROVE Goal
  BY <1>7, <1>a DEF Clears
<1>8. ASSUME queue' = queue, Quiet PROVE Goal
  BY <1>2, <1>8
<1> QED BY <1>t, <1>1, <1>3, <1>4, <1>5, <1>6, <1>7, <1>8 DEF StepOfQueue

(* A user's call changes nothing but the queue and the user.               *)
LEMMA UserSteps ==
  ASSUME TypeOK, NEW u \in Users, Caller(u) \/ \E prio \in {"NORMAL", "HIGH"} : Dispatch(u, prio)
  PROVE  /\ UNCHANGED <<port, handles, unacked, quit, tasks, selfExited>> /\ call'[Owner] = call[Owner]
         /\ UNCHANGED <<queue, m_queueSize>> \/ Send(u)
<1>1. u # Owner
  BY ConstantsTyped
<1>2. CASE \E prio \in {"NORMAL", "HIGH"} : Dispatch(u, prio)
  BY <1>1, <1>2 DEF Dispatch, TypeOK, qtVars, history
<1>3. CASE Send(u)
  BY <1>1, <1>3 DEF Send, Accept, Return, TypeOK
<1>4. CASE SendFails(u) \/ SendOnDeadHandle(u)
  BY <1>1, <1>4 DEF SendFails, SendOnDeadHandle, Return, TypeOK, qtVars, history
<1> QED BY <1>2, <1>3, <1>4 DEF Caller

LEMMA OwnerMoves ==
  ASSUME TypeOK
  PROVE  /\ \A l \in {"posting", "joining"} : Goto(Owner, l) => call'[Owner].pc = l
         /\ Return(Owner) => call'[Owner].pc = "idle"
BY DEF TypeOK, Goto, Return, Idle

LEMMA TaskStarts ==
  ASSUME TypeOK, StartTask
  PROVE  /\ hTask' \in TaskIds /\ hTask' # 0 /\ loop[hTask'] = "none" /\ loop'[hTask'] = "top"
         /\ \A t \in TaskIds : t # hTask' => loop'[t] = loop[t]
BY ConstantsTyped DEF TypeOK, StartTask, Created, TaskIds

LEMMA FreshStays ==
  ASSUME PInv, Next
  PROVE  Fresh'
<1>t. TypeOK /\ StepOfQueue /\ port' = port
  BY EveryStep DEF PInv
<1> SUFFICES ASSUME port \in Rtos
             PROVE  /\ hQueue' <=> hTask' # 0
                    /\ ~hQueue' => queue' = <<>>
                    /\ ~m_exit' => /\ exitSem' = 0 /\ call'[Owner].pc = "idle"
                                   /\ \A t \in TaskIds : loop'[t] # "none" => t = hTask'
                                   /\ \A t \in TaskIds : loop'[t] \in {"none", "top", "wait", "run"}
                    /\ \A t \in TaskIds : loop'[t] = "wait" =>
                         /\ hTask' = t /\ exitSem' = 0
                         /\ \A s \in TaskIds : loop'[s] # "none" => s = t
                    /\ \A s, t \in TaskIds :
                         loop'[s] \in {"wait", "run", "posting"} /\ loop'[t] \in {"wait", "run", "posting"} => s = t
  BY <1>t DEF Fresh, Created, Busy
<1> DEFINE F1 == hQueue' <=> hTask' # 0
           F2 == ~hQueue' => queue' = <<>>
           F3 == ~m_exit' => /\ exitSem' = 0 /\ call'[Owner].pc = "idle"
                             /\ \A t \in TaskIds : loop'[t] # "none" => t = hTask'
                             /\ \A t \in TaskIds : loop'[t] \in {"none", "top", "wait", "run"}
           F4 == \A t \in TaskIds : loop'[t] = "wait" =>
                         /\ hTask' = t /\ exitSem' = 0
                         /\ \A s \in TaskIds : loop'[s] # "none" => s = t
           F5 == \A s, t \in TaskIds :
                   loop'[s] \in {"wait", "run", "posting"} /\ loop'[t] \in {"wait", "run", "posting"} => s = t
           All1 == F1 /\ F2 /\ F3 /\ F4 /\ F5
<1>f. /\ hQueue <=> hTask # 0
      /\ ~hQueue => queue = <<>>
      /\ ~m_exit => /\ exitSem = 0 /\ call[Owner].pc = "idle"
                    /\ \A t \in TaskIds : loop[t] # "none" => t = hTask
                    /\ \A t \in TaskIds : loop[t] \in {"none", "top", "wait", "run"}
      /\ \A t \in TaskIds : loop[t] = "wait" =>
           /\ hTask = t /\ exitSem = 0
           /\ \A s \in TaskIds : loop[s] # "none" => s = t
      /\ \A s, t \in TaskIds :
           loop[s] \in {"wait", "run", "posting"} /\ loop[t] \in {"wait", "run", "posting"} => s = t
  BY DEF PInv, Fresh, Created, Busy, TypeOK
<1>l. loop \in [TaskIds -> LoopPlaces] /\ port \notin {"win32", "qt"} /\ hTask \in Nat /\ exitSem \in Nat
  BY <1>t, ConstantsTyped DEF TypeOK, LoopPlaces, Rtos
<1>1. ASSUME CreateThread PROVE All1
  <2>1. hTask = 0 /\ queue' = queue /\ StartTask
    BY <1>1, CreateKeepsQueue
  <2>2. /\ hTask' \in TaskIds /\ hTask' # 0 /\ loop[hTask'] = "none" /\ loop'[hTask'] = "top"
        /\ \A t \in TaskIds : t # hTask' => loop'[t] = loop[t]
    BY <1>t, <2>1, TaskStarts
  <2>3. hQueue' = TRUE /\ exitSem' \in {0, exitSem} /\ m_exit' = m_exit /\ UNCHANGED call
    BY <1>1, <1>f, <1>l, <2>1 DEF CreateThread, FreeRTOSCreateThread, ThreadXCreateThread, ZephyrCreateThread,
       CmsisCreateThread, NewQueue
  <2>4. 0 \notin TaskIds
    BY ConstantsTyped DEF TaskIds
  <2>5. F3
    BY <1>f, <2>1, <2>2, <2>3, <2>4
  <2>6. F4
    BY <1>f, <2>1, <2>2, <2>3, <2>4
  <2> QED BY <1>f, <2>2, <2>3, <2>5, <2>6
<1>2. ASSUME ExitThread PROVE All1
  <2>1. RtosExitThread
    BY <1>2, <1>l DEF ExitThread, Win32ExitThread, QtExitThread
  <2>2. CASE call[Owner].pc = "idle" /\ BeginExit /\ UNCHANGED loop
    BY <1>f, <2>2 DEF BeginExit
  <2>3. CASE call[Owner].pc = "posting" /\ PostExit /\ UNCHANGED loop
    BY <1>f, <2>3 DEF PostExit, handles
  <2>4. CASE call[Owner].pc = "joining" /\ TakeToken /\ DeleteQueue /\ (UNCHANGED loop \/ loop' = [loop EXCEPT ![hTask] = "gone"])
    <3>1. m_exit' /\ hTask' = 0 /\ ~hQueue' /\ queue' = <<>> /\ exitSem # 0
      BY <1>f, <2>4 DEF DeleteQueue, TakeToken
    <3>2. \A t \in TaskIds : loop[t] # "wait" /\ loop'[t] \in {loop[t], "gone"}
      BY <1>f, <1>l, <2>4, <3>1
    <3> QED BY <1>f, <3>1, <3>2
  <2> QED BY <1>l, <2>1, <2>2, <2>3, <2>4
          DEF RtosExitThread, FreeRTOSCleanUp, ZephyrCleanUp, CmsisCleanUp, ThreadXCleanUp
<1>3. ASSUME OnMessageProcessed PROVE All1
  BY <1>3, <1>f DEF OnMessageProcessed, handles, tasks
<1>4. ASSUME NEW u \in Users, Caller(u) \/ \E prio \in {"NORMAL", "HIGH"} : Dispatch(u, prio) PROVE All1
  <2>1. UNCHANGED <<handles, tasks>> /\ call'[Owner] = call[Owner] /\ (UNCHANGED queue \/ Send(u))
    BY <1>4, <1>t, UserSteps
  <2>2. Send(u) => hQueue
    BY <1>l DEF Send, Usable, Rtos
  <2> QED BY <1>f, <2>1, <2>2 DEF handles, tasks
<1>5. ASSUME NEW t \in TaskIds, Run(t) PROVE All1
  <2>1. UNCHANGED <<hQueue, hTask, m_exit, call>>
    BY <1>5 DEF Run
  <2>2. CASE LoopTop(t) /\ UNCHANGED exitSem
    <3>1. CASE m_exit
      <4>1. UNCHANGED queue /\ loop' = [loop EXCEPT ![t] = "leave"]
        BY <2>2, <3>1 DEF LoopTop
      <4>2. \A s \in TaskIds : loop'[s] \in {loop[s], "leave"} /\ (loop'[s] # "none" => loop[s] # "none")
        BY <1>l, <4>1, <2>2 DEF LoopTop
      <4> QED BY <1>f, <2>1, <2>2, <3>1, <4>1, <4>2
    <3>2. CASE ~m_exit
      <4>1. UNCHANGED queue /\ loop' = [loop EXCEPT ![t] = "wait"] /\ loop[t] = "top"
        BY <2>2, <3>2 DEF LoopTop
      <4>2. \A s \in TaskIds : loop'[s] # "none" => s = t /\ t = hTask
        BY <1>f, <1>l, <3>2, <4>1
      <4> QED BY <1>f, <1>l, <2>1, <2>2, <3>2, <4>1, <4>2
    <3> QED BY <3>1, <3>2
  <2>3. CASE ReceiveTimeout(t) /\ UNCHANGED exitSem
    <3>1. UNCHANGED queue /\ loop' = [loop EXCEPT ![t] = "top"]
      BY <2>3 DEF ReceiveTimeout
    <3>2. \A s \in TaskIds : loop'[s] \in {loop[s], "top"} /\ (loop'[s] # "none" => loop[s] # "none")
      BY <1>l, <2>3, <3>1 DEF ReceiveTimeout
    <3> QED BY <1>f, <2>1, <2>3, <3>1, <3>2
  <2>4. CASE Receive(t) /\ UNCHANGED exitSem
    <3>1. hQueue /\ loop[t] = "wait" /\ queue # <<>>
      BY <2>4 DEF Receive
    <3>2. CASE Head(queue) = ExitMsg
      <4>1. loop' = [loop EXCEPT ![t] = "leave"] /\ Head(queue).id = 0 /\ TakesHead
        BY <2>4, <3>2 DEF Receive, ExitMsg, TakesHead
      <4>2. \A m \in accepted : m.id # 0
        BY FS_CardinalityType DEF PInv, Accepted
      <4>3. m_exit
        BY <1>l, <1>t, <4>1, <4>2, ElementsAfterTake DEF PInv, Contents
      <4> QED BY <1>f, <1>l, <2>1, <2>4, <3>1, <4>1, <4>3
    <3>3. CASE Head(queue) # ExitMsg
      <4>1. loop' = [loop EXCEPT ![t] = "run"]
        BY <2>4, <3>3 DEF Receive, Serve
      <4> QED BY <1>f, <1>l, <2>1, <2>4, <3>1, <4>1
    <3> QED BY <3>2, <3>3
  <2>5. CASE Gone(t)
    <3>1. loop[t] = "leave" /\ loop' = [loop EXCEPT ![t] = "gone"] /\ UNCHANGED queue
      BY <2>5 DEF Gone
    <3>2. m_exit
      BY <1>f, <3>1
    <3>3. \A s \in TaskIds : loop'[s] # "wait"
      BY <1>f, <1>l, <3>1
    <3> QED BY <1>f, <1>l, <2>1, <3>1, <3>2, <3>3
  <2> QED BY <1>5, <1>l, <2>2, <2>3, <2>4, <2>5 DEF Run, FreeRTOSRun, ThreadXRun, ZephyrRun, CmsisRun, Loops
<1>6. ASSUME NEW t \in TaskIds, HandlerReturns(t) PROVE All1
  BY <1>6, <1>f, <1>l DEF HandlerReturns, handles
<1>7. ASSUME NEW t \in TaskIds, PostsToItself(t) PROVE All1
  <2>1. loop[t] = "posting" /\ UNCHANGED call /\ hQueue
    BY <1>7 DEF PostsToItself
  <2>2. m_exit /\ \A s \in TaskIds : loop[s] # "wait"
    BY <1>f, <2>1
  <2>3. CASE loop' = [loop EXCEPT ![t] = "gone"] /\ UNCHANGED handles
    BY <1>f, <1>l, <2>1, <2>2, <2>3 DEF handles
  <2>4. CASE loop' = [loop EXCEPT ![t] = "run"] /\ DeleteQueue
    BY <1>f, <1>l, <2>1, <2>2, <2>4 DEF DeleteQueue
  <2> QED BY <1>7, <2>3, <2>4 DEF PostsToItself
<1>8. ASSUME NEW t \in TaskIds, ExitsItself(t) PROVE All1
  <2>1. /\ BeginExit /\ loop' = [loop EXCEPT ![t] = "posting"] /\ loop[t] = "run" /\ UNCHANGED call
    BY <1>8, <1>l DEF ExitsItself
  <2> QED BY <1>f, <1>l, <2>1 DEF BeginExit
<1> QED BY <1>1, <1>2, <1>3, <1>4, <1>5, <1>6, <1>7, <1>8 DEF Next, Handler

LEMMA ExitedStays ==
  ASSUME PInv, Next
  PROVE  Exited'
<1>t. TypeOK /\ port' = port
  BY EveryStep DEF PInv
<1> SUFFICES ASSUME ~selfExited'
             PROVE  /\ \A t \in TaskIds : loop'[t] # "posting"
                    /\ port \notin Rtos => exitSem' = 0
                    /\ \A t \in TaskIds : t # hTask' => loop'[t] \in {"none", "gone"}
                    /\ exitSem' \in {0, 1} /\ (hTask' = 0 => exitSem' = 0)
                    /\ exitSem' = 1 => \A t \in TaskIds : loop'[t] \in {"none", "gone"}
  BY <1>t DEF Exited, Created
<1> DEFINE All1 == /\ \A t \in TaskIds : loop'[t] # "posting"
                   /\ port \notin Rtos => exitSem' = 0
                   /\ \A t \in TaskIds : t # hTask' => loop'[t] \in {"none", "gone"}
                   /\ exitSem' \in {0, 1} /\ (hTask' = 0 => exitSem' = 0)
                   /\ exitSem' = 1 => \A t \in TaskIds : loop'[t] \in {"none", "gone"}
<1>s. ~selfExited
  BY EndIsFinal
<1>e. /\ \A t \in TaskIds : loop[t] # "posting"
      /\ port \notin Rtos => exitSem = 0
      /\ \A t \in TaskIds : t # hTask => loop[t] \in {"none", "gone"}
      /\ exitSem \in {0, 1} /\ (hTask = 0 => exitSem = 0)
      /\ exitSem = 1 => \A t \in TaskIds : loop[t] \in {"none", "gone"}
  BY <1>s DEF PInv, Exited, Created
<1>l. loop \in [TaskIds -> LoopPlaces] /\ 0 \notin TaskIds
  BY <1>t, ConstantsTyped DEF TypeOK, LoopPlaces, TaskIds
<1>1. ASSUME CreateThread PROVE All1
  <2>1. hTask = 0 /\ StartTask
    BY <1>1, CreateKeepsQueue
  <2>2. /\ hTask' \in TaskIds /\ hTask' # 0 /\ loop[hTask'] = "none" /\ loop'[hTask'] = "top"
        /\ \A t \in TaskIds : t # hTask' => loop'[t] = loop[t]
    BY <1>t, <2>1, TaskStarts
  <2>3. exitSem' \in {0, exitSem}
    BY <1>1 DEF CreateThread, FreeRTOSCreateThread, ThreadXCreateThread, ZephyrCreateThread,
       CmsisCreateThread, Win32CreateThread, QtCreateThread
  <2>4. exitSem' = 0
    BY <1>e, <2>1, <2>3
  <2>5. \A t \in TaskIds : t # hTask' => loop'[t] \in {"none", "gone"}
    BY <1>e, <1>l, <2>1, <2>2
  <2> QED BY <2>2, <2>4, <2>5
<1>2. ASSUME ExitThread PROVE All1
  <2>1. CASE UNCHANGED <<loop, exitSem, hTask>>
    BY <1>e, <2>1
  <2>2. CASE /\ TakeToken /\ hTask' = 0
             /\ UNCHANGED loop \/ loop' = [loop EXCEPT ![hTask] = "gone"]
    <3>1. exitSem = 1 /\ exitSem' = 0
      BY <1>e, <2>2 DEF TakeToken
    <3>2. \A t \in TaskIds : loop'[t] \in {loop[t], "gone"}
      BY <1>l, <2>2
    <3> QED BY <1>e, <3>1, <3>2
  <2>3. CASE /\ UNCHANGED <<loop, exitSem>> /\ hTask' = 0 /\ port \notin Rtos
             /\ hTask # 0 => loop[hTask] = "gone"
    BY <1>e, <1>l, <2>3
  <2>4. CASE RtosExitThread
    BY <2>1, <2>2, <2>4 DEF RtosExitThread, BeginExit, PostExit, FreeRTOSCleanUp, ZephyrCleanUp, CmsisCleanUp,
       ThreadXCleanUp, DeleteQueue, handles
  <2>5. CASE Win32ExitThread \/ QtExitThread
    BY <2>1, <2>3, <2>5 DEF Win32ExitThread, QtExitThread, Rtos
  <2> QED BY <1>2, <2>4, <2>5 DEF ExitThread
<1>3. ASSUME OnMessageProcessed PROVE All1
  BY <1>3, <1>e DEF OnMessageProcessed, handles, tasks
<1>4. ASSUME NEW u \in Users, Caller(u) \/ \E prio \in {"NORMAL", "HIGH"} : Dispatch(u, prio) PROVE All1
  BY <1>4, <1>t, <1>e, UserSteps DEF handles, tasks
<1>5. ASSUME NEW t \in TaskIds, Run(t) PROVE All1
  <2>1. UNCHANGED hTask
    BY <1>5 DEF Run
  <2>2. CASE /\ loop[t] \in {"top", "wait"} /\ UNCHANGED exitSem
             /\ \E l \in {"top", "wait", "leave", "run", "gone"} : loop' = [loop EXCEPT ![t] = l]
    BY <1>e, <1>l, <2>1, <2>2
  <2>3. CASE port \in Rtos /\ Gone(t) /\ exitSem' \in {1, exitSem + 1}
    <3>1. loop[t] = "leave" /\ loop' = [loop EXCEPT ![t] = "gone"]
      BY <2>3 DEF Gone
    <3>2. t = hTask /\ exitSem = 0
      BY <1>e, <3>1
    <3> QED BY <1>e, <1>l, <2>1, <2>3, <3>1, <3>2
  <2>4. CASE Loops(t) \/ Win32Process(t) \/ QtEventLoop(t)
    BY <2>2, <2>4 DEF Loops, LoopTop, ReceiveTimeout, Receive, Serve, Win32Process, QtEventLoop
  <2> QED BY <1>5, <2>3, <2>4 DEF Run, FreeRTOSRun, ThreadXRun, ZephyrRun, CmsisRun, GiveBinary, Rtos
<1>6. ASSUME NEW t \in TaskIds, HandlerReturns(t) PROVE All1
  BY <1>6, <1>e, <1>l DEF HandlerReturns, handles
<1>7. ASSUME NEW t \in TaskIds, PostsToItself(t) PROVE All1
  BY <1>7, <1>e DEF PostsToItself
<1>8. ASSUME NEW t \in TaskIds, ExitsItself(t) PROVE All1
  BY <1>8 DEF ExitsItself
<1> QED BY <1>1, <1>2, <1>3, <1>4, <1>5, <1>6, <1>7, <1>8 DEF Next, Handler

(* Only the Qt port uses the Qt port's variables.                          *)
LEMMA OthersKeepQt ==
  ASSUME PInv, Next, port # "qt"
  PROVE  m_queueSize' = 0 /\ unacked' = 0 /\ quit' = {}
<1>t. TypeOK /\ m_queueSize = 0 /\ unacked = 0 /\ quit = {}
  BY DEF PInv, QtOnly
<1>1. CASE CreateThread
  BY <1>1, <1>t DEF CreateThread, qtVars
<1>2. CASE ExitThread
  BY <1>2, <1>t DEF ExitThread, RtosExitThread, Win32ExitThread, QtExitThread, qtVars
<1>3. CASE OnMessageProcessed
  BY <1>3, <1>t DEF OnMessageProcessed
<1>4. ASSUME NEW u \in Users, Caller(u) \/ \E prio \in {"NORMAL", "HIGH"} : Dispatch(u, prio)
      PROVE  m_queueSize' = 0 /\ unacked' = 0 /\ quit' = {}
  <2>1. Send(u) => UNCHANGED m_queueSize
    BY DEF Send, Accept, Put
  <2> QED BY <1>4, <1>t, <2>1, UserSteps
<1>5. ASSUME NEW t \in TaskIds, Run(t) \/ Handler(t) \/ ExitsItself(t)
      PROVE  m_queueSize' = 0 /\ unacked' = 0 /\ quit' = {}
  BY <1>5, <1>t DEF Run, Handler, HandlerReturns, PostsToItself, ExitsItself, qtVars
<1> QED BY <1>1, <1>2, <1>3, <1>4, <1>5 DEF Next

Runs(l) == IF \E t \in TaskIds : l[t] = "run" THEN 1 ELSE 0

LEMMA QtStays ==
  ASSUME PInv, Next, port = "qt"
  PROVE  /\ ~selfExited' /\ (hTask' = 0 => queue' = <<>>)
         /\ \A t \in TaskIds : loop'[t] \in {"none", "top", "run", "gone"}
         /\ \A t \in TaskIds : loop'[t] = "gone" => t \in quit'
         /\ m_queueSize' <= Cap
         /\ Len(queue') + unacked' + Runs(loop') <= m_queueSize'
<1> DEFINE L1 == /\ ~selfExited' /\ (hTask' = 0 => queue' = <<>>)
                 /\ \A t \in TaskIds : loop'[t] \in {"none", "top", "run", "gone"}
                 /\ \A t \in TaskIds : loop'[t] = "gone" => t \in quit'
           C1 == m_queueSize' <= Cap /\ Len(queue') + unacked' + Runs(loop') <= m_queueSize'
           All1 == L1 /\ C1
<1>t. TypeOK
  BY DEF PInv
<1>n. /\ Len(queue) \in Nat /\ unacked \in Nat /\ m_queueSize \in Nat /\ Cap \in Nat /\ hTask \in Nat
      /\ queue \in Seq(Msgs) /\ loop \in [TaskIds -> LoopPlaces] /\ 0 \notin TaskIds
      /\ hTask # 0 => hTask \in TaskIds
  BY <1>t, QueueTyped, ConstantsTyped DEF TypeOK, LoopPlaces, TaskIds
<1>q. /\ ~selfExited /\ (hTask = 0 => queue = <<>>)
      /\ \A t \in TaskIds : loop[t] \in {"none", "top", "run", "gone"}
      /\ \A t \in TaskIds : loop[t] = "gone" => t \in quit
      /\ m_queueSize <= Cap
      /\ Len(queue) + unacked + Runs(loop) <= m_queueSize
  BY DEF PInv, QtOnly, Runs
<1>e. \A t \in TaskIds : loop[t] = "run" => t = hTask
  BY <1>q DEF PInv, Exited, Created
<1>r. Runs(loop) \in {0, 1} /\ Runs(loop') \in {0, 1}
  BY DEF Runs
<1>p. port \notin Rtos /\ port # "win32"
  BY DEF Rtos
<1>1. ASSUME CreateThread PROVE All1
  <2>1. hTask = 0 /\ queue' = queue /\ StartTask /\ UNCHANGED <<qtVars, selfExited>>
    BY <1>1, CreateKeepsQueue DEF CreateThread, history
  <2>2. /\ hTask' \in TaskIds /\ hTask' # 0 /\ loop'[hTask'] = "top"
        /\ \A t \in TaskIds : t # hTask' => loop'[t] = loop[t]
    BY <1>t, <2>1, TaskStarts
  <2>3. Runs(loop') = 1 => Runs(loop) = 1
    BY <2>2 DEF Runs
  <2>4. L1
    BY <1>q, <2>1, <2>2 DEF qtVars
  <2>5. C1
    BY <1>q, <1>n, <1>r, <2>1, <2>3 DEF qtVars
  <2> QED BY <2>4, <2>5
<1>2. ASSUME ExitThread PROVE All1
  <2>1. QtExitThread /\ UNCHANGED <<loop, m_queueSize, unacked, selfExited>>
    BY <1>2, <1>p DEF ExitThread, RtosExitThread, Win32ExitThread, QtExitThread, history
  <2>2. CASE quit' = quit \cup {hTask} /\ UNCHANGED <<hTask, queue>>
    BY <1>q, <2>1, <2>2
  <2>3. CASE hTask' = 0 /\ queue' = <<>> /\ UNCHANGED quit
    <3>1. Len(queue') = 0
      BY <2>3, EmptySeq
    <3>2. C1
      BY <1>q, <1>n, <1>r, <2>1, <3>1
    <3> QED BY <1>q, <2>1, <2>3, <3>2
  <2> QED BY <2>1, <2>2, <2>3 DEF QtExitThread
<1>3. ASSUME OnMessageProcessed PROVE All1
  <2>1. UNCHANGED <<queue, loop, hTask, quit, selfExited>> /\ unacked' = unacked - 1 /\ m_queueSize' = m_queueSize - 1
    BY <1>3 DEF OnMessageProcessed, handles, tasks, history
  <2> QED BY <1>q, <1>n, <1>r, <2>1
<1>4. ASSUME NEW u \in Users, Caller(u) \/ \E prio \in {"NORMAL", "HIGH"} : Dispatch(u, prio) PROVE All1
  <2>1. UNCHANGED <<hTask, unacked, quit, loop, selfExited>> /\ (UNCHANGED <<queue, m_queueSize>> \/ Send(u))
    BY <1>4, <1>t, UserSteps DEF handles, tasks
  <2>2. CASE UNCHANGED <<queue, m_queueSize>>
    BY <1>q, <2>1, <2>2
  <2>3. CASE Send(u)
    <3>1. hTask # 0 /\ m_queueSize < Cap
      BY <1>n, <1>p, <2>3 DEF Send, Usable, Full
    <3>2. m_queueSize' = m_queueSize + 1 /\ \E m : m = NewMsg(u) /\ queue' = Append(queue, m)
      BY <2>3 DEF Send, Accept, Put, QtPut, ToBack, NewMsg
    <3>3. NewMsg(u) \in Msgs
      BY <2>3, NewMsgTyped DEF Send
    <3>4. PICK q : q = Append(queue, NewMsg(u))
      OBVIOUS
    <3>5. Len(q) = Len(queue) + 1
      BY <1>n, <3>3, <3>4, AppendProperties
    <3>6. Len(queue') = Len(queue) + 1
      BY <3>2, <3>4, <3>5
    <3>7. C1
      BY <1>q, <1>n, <1>r, <2>1, <3>1, <3>2, <3>6
    <3> QED BY <1>q, <2>1, <3>1, <3>7
  <2> QED BY <2>1, <2>2, <2>3
<1>5. ASSUME NEW t \in TaskIds, Run(t) PROVE All1
  <2>1. QtEventLoop(t) /\ UNCHANGED <<hTask, m_queueSize, unacked, quit, selfExited>>
    BY <1>5, <1>p DEF Run, qtVars, history, Rtos
  <2>2. CASE t \in quit /\ loop' = [loop EXCEPT ![t] = "gone"] /\ UNCHANGED queue
    <3>1. \A s \in TaskIds : loop'[s] = IF s = t THEN "gone" ELSE loop[s]
      BY <1>n, <2>2
    <3>2. Runs(loop') = 1 => Runs(loop) = 1
      BY <3>1 DEF Runs
    <3>3. C1
      BY <1>q, <1>n, <1>r, <2>1, <2>2, <3>2
    <3> QED BY <1>q, <2>1, <2>2, <3>1, <3>3
  <2>3. CASE queue # <<>> /\ hTask = t /\ Serve(t, Head(queue))
    <3>1. TakesHead /\ hTask # 0 /\ loop' = [loop EXCEPT ![t] = "run"]
      BY <1>n, <2>3 DEF TakesHead, Serve
    <3>2. \A s \in TaskIds : loop'[s] = IF s = t THEN "run" ELSE loop[s]
      BY <1>n, <3>1
    <3>3. Len(queue) = Len(queue') + 1
      BY <1>t, <3>1, CountsAfterTake
    <3>4. Runs(loop) = 0
      <4>1. loop[t] # "run"
        BY <2>1 DEF QtEventLoop
      <4> QED BY <1>e, <2>3, <4>1 DEF Runs
    <3>5. Len(queue') \in Nat
      BY <1>n, <3>1, EmptySeq, HeadTailProperties DEF TakesHead
    <3>6. C1
      BY <1>q, <1>n, <1>r, <2>1, <3>3, <3>4, <3>5
    <3> QED BY <1>q, <2>1, <3>1, <3>2, <3>6
  <2> QED BY <2>1, <2>2, <2>3 DEF QtEventLoop
<1>6. ASSUME NEW t \in TaskIds, HandlerReturns(t) PROVE All1
  <2>1. /\ loop[t] = "run" /\ loop' = [loop EXCEPT ![t] = "top"] /\ unacked' = unacked + 1
        /\ UNCHANGED <<hTask, queue, m_queueSize, quit, selfExited>>
    BY <1>6 DEF HandlerReturns, handles
  <2>2. \A s \in TaskIds : loop'[s] = IF s = t THEN "top" ELSE loop[s]
    BY <1>n, <2>1
  <2>3. Runs(loop) = 1 /\ Runs(loop') = 0
    BY <1>e, <2>1, <2>2 DEF Runs
  <2>4. C1
    BY <1>q, <1>n, <2>1, <2>3
  <2> QED BY <1>q, <2>1, <2>2, <2>4
<1>7. ASSUME NEW t \in TaskIds, PostsToItself(t) PROVE All1
  BY <1>7, <1>q DEF PostsToItself
<1>8. ASSUME NEW t \in TaskIds, ExitsItself(t) PROVE All1
  BY <1>8, <1>p DEF ExitsItself
<1> QED BY <1>1, <1>2, <1>3, <1>4, <1>5, <1>6, <1>7, <1>8 DEF Next, Handler

LEMMA Win32Stays ==
  ASSUME PInv, Next
  PROVE  Win32Only'
<1>t. TypeOK /\ TypeOK' /\ port' = port
  BY EveryStep, TypeStays DEF PInv
<1> SUFFICES ASSUME port = "win32"
             PROVE  /\ \A t \in TaskIds : loop'[t] \in {"none", "top", "run", "gone"}
                    /\ Cardinality(Live') <= Cardinality(Exits')
                                             + (IF hTask' # 0 /\ call'[Owner].pc # "joining" THEN 1 ELSE 0)
  BY <1>t DEF Win32Only
<1> DEFINE Left == IF hTask # 0 /\ call[Owner].pc # "joining" THEN 1 ELSE 0
           Left1 == IF hTask' # 0 /\ call'[Owner].pc # "joining" THEN 1 ELSE 0
           All1 == /\ \A t \in TaskIds : loop'[t] \in {"none", "top", "run", "gone"}
                   /\ Cardinality(Live') <= Cardinality(Exits') + Left1
<1>w. /\ \A t \in TaskIds : loop[t] \in {"none", "top", "run", "gone"}
      /\ Cardinality(Live) <= Cardinality(Exits) + Left
  BY DEF PInv, Win32Only
<1>p. port \notin Rtos /\ port # "qt"
  BY DEF Rtos
<1>q. /\ queue \in Seq(Msgs) /\ queue' \in Seq(Msgs) /\ loop \in [TaskIds -> LoopPlaces]
      /\ hTask \in Nat /\ 0 \notin TaskIds
  BY <1>t, ConstantsTyped DEF TypeOK, LoopPlaces, TaskIds
<1>x. Exits = Places(queue, ExitMsgs) /\ Exits' = Places(queue', ExitMsgs)
  <2>1. \A i \in DOMAIN queue' : queue'[i] \in Msgs
    BY <1>q, ElementOfSeq, LenProperties
  <2> QED BY <1>t, <2>1, CountedPlaces DEF Exits, Places, ExitMsgs
<1>n. /\ Cardinality(Exits) \in Nat /\ Cardinality(Exits') \in Nat
      /\ IsFiniteSet(Live) /\ Cardinality(Live) \in Nat /\ Cardinality(Live') \in Nat
  <2>1. Live \in SUBSET (1 .. MaxTasks) /\ Live' \in SUBSET (1 .. MaxTasks) /\ IsFiniteSet(1 .. MaxTasks)
    BY ConstantsTyped, FS_Interval DEF Live, TaskIds
  <2>2. IsFiniteSet(Live) /\ IsFiniteSet(Live')
    BY <2>1, FS_Subset
  <2>3. Cardinality(Live) \in Nat /\ Cardinality(Live') \in Nat
    BY <2>2, FS_CardinalityType
  <2> QED BY <1>q, <1>x, <2>2, <2>3, PlacesAreFinite
<1>l. Left \in {0, 1} /\ Left1 \in {0, 1}
  OBVIOUS
<1>1. ASSUME CreateThread PROVE All1
  <2>1. hTask = 0 /\ queue' = queue /\ StartTask /\ UNCHANGED call /\ call[Owner].pc = "idle"
    BY <1>1, CreateKeepsQueue DEF CreateThread
  <2>2. /\ hTask' \in TaskIds /\ hTask' # 0 /\ loop[hTask'] = "none" /\ loop'[hTask'] = "top"
        /\ \A t \in TaskIds : t # hTask' => loop'[t] = loop[t]
    BY <1>t, <2>1, TaskStarts
  <2>3. Left = 0 /\ Left1 = 1 /\ Exits' = Exits
    BY <2>1, <2>2 DEF Exits
  <2>4. Live' = Live \cup {hTask'} /\ hTask' \notin Live
    BY <2>2 DEF Live
  <2>5. PICK L : L = Live \cup {hTask'}
    OBVIOUS
  <2>6. Cardinality(L) = Cardinality(Live) + 1
    BY <1>n, <2>4, <2>5, FS_AddElement
  <2>7. Cardinality(Live') = Cardinality(Live) + 1
    BY <2>4, <2>5, <2>6
  <2>8. Cardinality(Live') <= Cardinality(Exits') + Left1
    BY <1>n, <1>w, <2>3, <2>7
  <2> QED BY <1>w, <2>2, <2>8
<1>2. ASSUME BehindUrgent([ExitMsg EXCEPT !.prio = "HIGH"]), UNCHANGED loop PROVE All1
  <2>1. Puts(Win32Exit)
    BY <1>2, BehindPuts, ConstantsTyped DEF Win32Exit, ExitMsg
  <2>2. Win32Exit \in ExitMsgs
    BY ConstantsTyped DEF ExitMsgs, Win32Exit, ExitMsg
  <2>3. Cardinality(Exits') = Cardinality(Exits) + 1
    BY <1>t, <1>x, <2>1, <2>2, CountsAfterPut
  <2>4. Live' = Live
    BY <1>2 DEF Live
  <2>5. Cardinality(Live') <= Cardinality(Exits') + Left1
    BY <1>n, <1>l, <1>w, <2>3, <2>4
  <2> QED BY <1>2, <1>w, <2>5
<1>3. ASSUME UNCHANGED <<loop, queue>>, Left1 >= Left PROVE All1
  <2>1. Live' = Live /\ Exits' = Exits
    BY <1>3 DEF Live, Exits
  <2>2. Cardinality(Live') <= Cardinality(Exits') + Left1
    BY <1>3, <1>n, <1>l, <1>w, <2>1
  <2> QED BY <1>3, <1>w, <2>2
<1>4. ASSUME ExitThread PROVE All1
  <2>1. Win32ExitThread
    BY <1>4, <1>p DEF ExitThread, RtosExitThread, QtExitThread
  <2>2. CASE BehindUrgent([ExitMsg EXCEPT !.prio = "HIGH"])
    BY <1>2, <2>1, <2>2 DEF Win32ExitThread
  <2>3. CASE call[Owner].pc = "joining" /\ UNCHANGED queue
    BY <1>3, <2>1, <2>3 DEF Win32ExitThread
  <2> QED BY <2>1, <2>2, <2>3 DEF Win32ExitThread
<1>5. ASSUME OnMessageProcessed PROVE All1
  BY <1>3, <1>5 DEF OnMessageProcessed, handles, tasks
<1>6. ASSUME NEW u \in Users, Caller(u) \/ \E prio \in {"NORMAL", "HIGH"} : Dispatch(u, prio) PROVE All1
  <2>1. UNCHANGED <<hTask, loop>> /\ call'[Owner] = call[Owner] /\ (UNCHANGED queue \/ Send(u))
    BY <1>6, <1>t, UserSteps DEF handles, tasks
  <2>2. CASE UNCHANGED queue
    BY <1>3, <2>1, <2>2
  <2>3. CASE Send(u)
    <3>1. NewMsg(u) \in Msgs /\ NewMsg(u).id = Cardinality(accepted) + 1 /\ Cardinality(accepted) \in Nat
      BY <2>3, NewMsgTyped DEF Send
    <3>2. Puts(NewMsg(u)) /\ NewMsg(u) \notin ExitMsgs
      <4>1. Put(NewMsg(u))
        BY <2>3 DEF Send, Accept, NewMsg
      <4>2. NewMsg(u).id # 0
        BY <3>1
      <4> QED BY <3>1, <4>1, <4>2, PutPuts DEF ExitMsgs
    <3>3. Cardinality(Exits') = Cardinality(Exits)
      BY <1>n, <1>t, <1>x, <3>2, CountsAfterPut
    <3>4. Live' = Live /\ Left1 = Left
      BY <2>1 DEF Live
    <3>5. Cardinality(Live') <= Cardinality(Exits') + Left1
      BY <1>w, <3>3, <3>4
    <3> QED BY <1>w, <2>1, <3>5
  <2> QED BY <2>1, <2>2, <2>3
<1>7. ASSUME NEW t \in TaskIds, Run(t) PROVE All1
  <2>1. Win32Process(t) /\ UNCHANGED <<hTask, call>> /\ loop[t] = "top" /\ Left1 = Left
    BY <1>7, <1>p DEF Run, Win32Process, Rtos
  <2>2. CASE loop' = [loop EXCEPT ![t] = "gone"] /\ (UNCHANGED queue \/ (TakesHead /\ Head(queue).id = 0))
    <3>1. \A s \in TaskIds : loop'[s] = IF s = t THEN "gone" ELSE loop[s]
      BY <1>q, <2>2
    <3>2. Live' = Live \ {t} /\ t \in Live
      BY <2>1, <3>1 DEF Live
    <3>3. PICK L : L = Live \ {t}
      OBVIOUS
    <3>4. Cardinality(L) = Cardinality(Live) - 1
      BY <1>n, <3>2, <3>3, FS_RemoveElement
    <3>5. Cardinality(Live') = Cardinality(Live) - 1
      BY <3>2, <3>3, <3>4
    <3>6. Cardinality(Exits') >= Cardinality(Exits) - 1
      <4>1. CASE UNCHANGED queue
        BY <1>n, <4>1 DEF Exits
      <4>2. CASE TakesHead
        <5>1. Cardinality(Exits) = Cardinality(Exits') + (IF Head(queue) \in ExitMsgs THEN 1 ELSE 0)
          BY <1>t, <1>x, <4>2, CountsAfterTake
        <5> QED BY <1>n, <5>1
      <4> QED BY <2>2, <4>1, <4>2
    <3>7. Cardinality(Live') <= Cardinality(Exits') + Left1
      BY <1>n, <1>l, <1>w, <2>1, <3>5, <3>6
    <3> QED BY <1>w, <3>1, <3>7
  <2>3. CASE queue # <<>> /\ Head(queue).id # 0 /\ Serve(t, Head(queue))
    <3>1. TakesHead /\ loop' = [loop EXCEPT ![t] = "run"] /\ Head(queue) \notin ExitMsgs
      BY <2>3 DEF TakesHead, Serve, ExitMsgs
    <3>2. \A s \in TaskIds : loop'[s] = IF s = t THEN "run" ELSE loop[s]
      BY <1>q, <3>1
    <3>3. Live' = Live
      BY <2>1, <3>2 DEF Live
    <3>4. Cardinality(Exits) = Cardinality(Exits') + 0
      BY <1>t, <1>x, <3>1, CountsAfterTake
    <3>5. Cardinality(Live') <= Cardinality(Exits') + Left1
      BY <1>n, <1>w, <2>1, <3>3, <3>4
    <3> QED BY <1>w, <3>2, <3>5
  <2> QED BY <2>1, <2>2, <2>3 DEF Win32Process, TakesHead
<1>8. ASSUME NEW t \in TaskIds, HandlerReturns(t) PROVE All1
  <2>1. /\ loop[t] = "run" /\ loop' = [loop EXCEPT ![t] = "top"] /\ UNCHANGED <<hTask, queue, call>>
    BY <1>8 DEF HandlerReturns, handles
  <2>2. \A s \in TaskIds : loop'[s] = IF s = t THEN "top" ELSE loop[s]
    BY <1>q, <2>1
  <2>3. Live' = Live /\ Exits' = Exits /\ Left1 = Left
    BY <2>1, <2>2 DEF Live, Exits
  <2>4. Cardinality(Live') <= Cardinality(Exits') + Left1
    BY <1>w, <2>3
  <2> QED BY <1>w, <2>2, <2>4
<1>9. ASSUME NEW t \in TaskIds, PostsToItself(t) PROVE All1
  BY <1>9, <1>w DEF PostsToItself
<1>10. ASSUME NEW t \in TaskIds, ExitsItself(t) PROVE All1
  BY <1>2, <1>10 DEF ExitsItself
<1> QED BY <1>1, <1>4, <1>5, <1>6, <1>7, <1>8, <1>9, <1>10 DEF Next, Handler

-----------------------------------------------------------------------------
(* The theorems.                                                           *)

LEMMA PInvBegins ==
  Init => PInv
<1> SUFFICES ASSUME Init PROVE PInv
  OBVIOUS
<1>i. /\ hQueue = FALSE /\ hTask = 0 /\ m_exit = FALSE /\ exitSem = 0
      /\ queue = <<>> /\ m_queueSize = 0 /\ unacked = 0 /\ quit = {}
      /\ \A t \in TaskIds : loop[t] = "none"
      /\ \A u \in Users \cup {Owner} : call[u] = Idle
      /\ accepted = {} /\ served = <<>> /\ selfExited = FALSE
  BY DEF Init
<1>c. Cap \in Nat /\ Cap > 0 /\ MaxMsgs \in Nat /\ port \in OsPorts
  BY ConstantsTyped DEF Init
<1>0. Cardinality({}) = 0 /\ IsFiniteSet({}) /\ Len(queue) = 0 /\ DOMAIN queue = {} /\ DOMAIN served = {}
  BY <1>i, FS_EmptySet
<1>1. TypeOK
  <2>1. Idle \in [pc : {"idle", "sending", "posting", "joining"}, msg : Msgs] /\ ExitMsg \in Msgs
    BY ConstantsTyped DEF Idle
  <2>2. queue \in Seq(Msgs) /\ served \in Seq(Msgs)
    BY <1>i, EmptySeq
  <2>3. running \in [TaskIds -> Msgs] /\ loop \in [TaskIds -> {"none", "top", "wait", "run", "posting", "leave", "gone"}]
    BY <2>1 DEF Init
  <2>4. call \in [Users \cup {Owner} -> [pc : {"idle", "sending", "posting", "joining"}, msg : Msgs]]
    BY <2>1 DEF Init
  <2>5. hTask \in 0 .. MaxTasks
    BY <1>i, ConstantsTyped
  <2>6. /\ port \in OsPorts /\ policy \in Policies /\ watched \in BOOLEAN /\ halted \in BOOLEAN
    BY DEF Init
  <2>7. /\ hQueue \in BOOLEAN /\ m_exit \in BOOLEAN /\ selfExited \in BOOLEAN
        /\ exitSem \in Nat /\ m_queueSize \in Nat /\ unacked \in Nat /\ quit \subseteq TaskIds /\ accepted \subseteq Msgs
    BY <1>i
  <2> QED BY <2>2, <2>3, <2>4, <2>5, <2>6, <2>7 DEF TypeOK
<1>2. Accepted
  <2>1. Sending = {}
    BY <1>i DEF Sending, Idle
  <2> QED BY <1>i, <1>c, <1>0, <2>1 DEF Accepted
<1>3. Contents
  BY <1>i, <1>0 DEF Contents, Handles
<1>4. Fresh /\ Exited
  BY <1>i DEF Fresh, Exited, Created, Busy, Idle
<1>5. QtOnly
  <2>1. ~\E t \in TaskIds : loop[t] = "run"
    BY <1>i
  <2> QED BY <1>i, <1>c, <1>0, <2>1 DEF QtOnly
<1>6. Win32Only
  <2>1. Live = {} /\ Exits = {}
    BY <1>i, <1>0 DEF Live, Exits
  <2> QED BY <1>i, <1>0, <2>1 DEF Win32Only
<1>7. Sorted /\ InOrder /\ Kept
  BY <1>i, <1>0 DEF Sorted, InOrder, NormalOrder, RunsNormal, Handles, Kept
<1>8. Bounded
  <2>1. Waiting = {}
    BY <1>0 DEF Waiting
  <2> QED BY <1>c, <1>0, <2>1 DEF Bounded
<1> QED BY <1>1, <1>2, <1>3, <1>4, <1>5, <1>6, <1>7, <1>8 DEF PInv

LEMMA PInvStays ==
  PInv /\ [Next]_vars => PInv'
<1> SUFFICES ASSUME PInv, [Next]_vars PROVE PInv'
  OBVIOUS
<1>1. CASE Next
  <2>1. QtOnly'
    BY <1>1, EveryStep, OthersKeepQt, QtStays DEF QtOnly, Runs
  <2> QED BY <1>1, <2>1, TypeStays, AcceptedStays, ContentsStay, FreshStays, ExitedStays, Win32Stays, SortedStays,
             OrderStays, KeptStays, BoundedStays DEF PInv
<1>2. CASE UNCHANGED vars
  <2> USE <1>2 DEF PInv, vars, handles, qtVars, tasks, history
  <2>1. TypeOK' /\ Accepted' /\ Contents'
    BY DEF TypeOK, Accepted, Sending, Contents, Handles
  <2>2. Fresh' /\ Exited'
    BY DEF Fresh, Exited, Created, Busy
  <2>3. QtOnly' /\ Win32Only' /\ Sorted'
    BY DEF QtOnly, Win32Only, Live, Exits, Sorted, Urgent
  <2>4. InOrder'
    BY DEF InOrder, NormalOrder, RunsNormal, Handles, NormalAt
  <2>5. Kept' /\ Bounded'
    BY DEF Kept, Bounded, Waiting
  <2> QED BY <2>1, <2>2, <2>3, <2>4, <2>5
<1> QED BY <1>1, <1>2

LEMMA PInvHolds ==
  Spec => []PInv
BY PInvBegins, PInvStays, PTL DEF Spec

LEMMA OneHandler ==
  ASSUME PInv, port # "win32" \/ ~selfExited
  PROVE  Cardinality({t \in TaskIds : loop[t] = "run"}) <= 1
<1>1. PICK S : S = {t \in TaskIds : loop[t] = "run"}
  OBVIOUS
<1>2. port \in Rtos \cup {"win32", "qt"}
  BY ConstantsTyped DEF PInv, TypeOK, Rtos
<1>3. \A s, t \in S : s = t
  <2>1. CASE port \in Rtos
    BY <1>1, <2>1 DEF PInv, Fresh, Busy
  <2>2. CASE ~selfExited
    BY <1>1, <2>2 DEF PInv, Exited, Created
  <2> QED BY <1>2, <2>1, <2>2 DEF PInv, QtOnly
<1>4. CASE S = {}
  BY <1>1, <1>4, FS_EmptySet
<1>5. CASE S # {}
  <2>1. PICK t \in S : S = {t}
    BY <1>3, <1>5
  <2> QED BY <1>1, <2>1, FS_Singleton
<1> QED BY <1>4, <1>5

(* On every port, the queue is there while a task receives from it, after  *)
(* ExitThread() no task is left that could run a handler, and no two tasks *)
(* run handlers of one Thread object at once.                              *)
THEOREM LifetimesAlwaysHold ==
  Spec => []LifetimesHold
<1>1. PInv => LifetimesHold
  <2> SUFFICES ASSUME PInv PROVE LifetimesHold
    OBVIOUS
  <2>1. QueueOutlivesLoop
    <3>1. 0 \notin TaskIds
      BY DEF TaskIds
    <3> QED BY <3>1 DEF PInv, Fresh, QueueOutlivesLoop
  <2>2. ExitMeansStopped
    <3>1. \A t \in Created : t # 0
      BY DEF Created, TaskIds
    <3> QED BY <3>1 DEF PInv, Exited, ExitMeansStopped
  <2>3. HandlersSerial
    BY OneHandler DEF HandlersSerial
  <2> QED BY <2>1, <2>2, <2>3 DEF PInv, LifetimesHold
<1> QED BY <1>1, PInvHolds, PTL

(* On every port, normal messages are handled in the order in which they   *)
(* were accepted, only the end of a thread drops any, and no more wait     *)
(* than the limit, which Qt's counter never falls short of.                *)
THEOREM PortQueueAlwaysKept ==
  Spec => []QueueIsKept
<1>1. PInv => QueueIsKept
  <2> SUFFICES ASSUME PInv PROVE QueueIsKept
    OBVIOUS
  <2>1. NormalOrder
    BY DEF PInv, InOrder
  <2>2. OnlyExitDrops
    <3>1. /\ \A i \in DOMAIN queue : queue[i] \in ToSet(queue)
          /\ \A k \in DOMAIN served : served[k] \in ToSet(served)
      BY DEF ToSet
    <3> QED BY <3>1 DEF PInv, Kept, OnlyExitDrops
  <2>3. QueueBounded
    <3>1. port = "qt" => Len(queue) <= m_queueSize
      <4>1. Len(queue) \in Nat /\ unacked \in Nat /\ m_queueSize \in Nat
        BY QueueTyped DEF PInv, TypeOK
      <4> QED BY <4>1 DEF PInv, QtOnly
    <3> QED BY <3>1 DEF PInv, Bounded, QueueBounded
  <2> QED BY <2>1, <2>2, <2>3 DEF QueueIsKept
<1> QED BY <1>1, PInvHolds, PTL

(* On the ports that know priorities, no normal message is taken while an  *)
(* urgent one waits.                                                       *)
THEOREM UrgentAlwaysFirst ==
  Spec => UrgentFirst
<1> DEFINE First ==
      \A t \in TaskIds :
         loop[t] \in {"top", "wait"} /\ loop'[t] = "run" /\ running'[t].prio = "NORMAL"
            /\ port \in {"freertos", "threadx", "cmsis", "win32"}
         => \A i \in DOMAIN queue : ~Urgent(i)
<1>1. PInv /\ [Next]_vars => [First]_vars
  <2> SUFFICES ASSUME PInv, Next, NEW t \in TaskIds, loop[t] \in {"top", "wait"}, loop'[t] = "run",
                      running'[t].prio = "NORMAL", port \in {"freertos", "threadx", "cmsis", "win32"},
                      NEW i \in DOMAIN queue, Urgent(i)
               PROVE  FALSE
    OBVIOUS
  <2>t. TypeOK /\ StepOfQueue
    BY EveryStep DEF PInv
  <2>1. ~Quiet
    BY DEF Quiet, Handles
  <2>2. ~UNCHANGED loop
    OBVIOUS
  <2>3. \A s \in TaskIds : ~HandlerReturns(s)
    BY <2>t DEF HandlerReturns, TypeOK
  <2>4. PICK s \in TaskIds : Takes(s)
    BY <2>t, <2>1, <2>2, <2>3 DEF StepOfQueue, Accepts, AsksForEnd, TakesExit, Clears
  <2>5. s = t
    BY <2>t, <2>4 DEF Takes, Serve, TypeOK
  <2>6. running'[t] = Head(queue) /\ Head(queue) = queue[1] /\ 1 \in DOMAIN queue /\ DOMAIN queue = 1 .. Len(queue)
    BY <2>t, <2>4, <2>5, ElementsAfterTake, QueueTyped DEF Takes, Serve, TypeOK
  <2>7. ~Urgent(1) /\ (i = 1 \/ 1 < i)
    BY <2>6 DEF Urgent
  <2> QED BY <2>6, <2>7 DEF PInv, Sorted
<1> QED BY <1>1, PInvHolds, PTL DEF Spec, UrgentFirst
=============================================================================
