------------------------------- MODULE Remote -------------------------------
(***************************************************************************)
(* Remote calls: the remote delegate classes (delegate/DelegateRemote.h),  *)
(* the channel that owns the stream they write to (RemoteChannel.h) and    *)
(* the dispatcher that sends it (Dispatcher.h).                            *)
(*                                                                         *)
(* A call has two arguments, which go through the stream as two parts.     *)
(* The application's own delegates, made by MakeDelegate(), share the      *)
(* stream of their channel; a channel locks m_sendMutex around its call,   *)
(* they do not.                                                            *)
(***************************************************************************)
EXTENDS DelegateTypes, Integers, SequencesExt

CONSTANTS
    Threads,        \* threads that call
    Chans,          \* channels
    Ids,            \* remote delegate identifiers
    IdOf,           \* IdOf[c]: the identifier channel c sends with
    Dels,           \* remote delegates the application has made
    Made,           \* Made[d]: what delegate d is, an element of RemoteDelegates
    MaxCalls,       \* bound: remote calls made
    NumMod          \* sequence numbers: 2^16 in the code

VARIABLES
    obj,            \* the delegate of every channel, and those of Dels
    stream,         \* stream[c]: the parts written and not yet sent
    good,           \* good[c]: m_stream->good()
    sendMutex,      \* who holds the channel's m_sendMutex
    m_seqNum,       \* the dispatchers' common counter
    call,           \* call[t]: where thread t is in operator()
    calls,          \* calls begun; they are numbered
    opened,         \* the transport is open
    air,            \* messages sent and not yet received
    pending,        \* what the transport monitor waits for
    sentBy,         \* history: sentBy[n]: the sequence number call n was sent with, or Nil
    reported,       \* history: calls that raised an error
    invoked         \* history: what targets were called with

remoteVars == <<obj, stream, good, sendMutex, m_seqNum, call, calls, opened, air, pending,
                sentBy, reported, invoked>>

Calls == 1 .. MaxCalls
NoCall == [pc |-> "idle", via |-> Nil, n |-> 0]

-----------------------------------------------------------------------------
(* Remote delegates as values: a delegate of DelegateTypes with an         *)
(* identifier, what it is wired to (the channel's dispatcher, serializer   *)
(* and stream), an error handler, the last error and the last number.      *)
Remote(d, id) == [base |-> d, id |-> id, wire |-> Nil, handler |-> FALSE, err |-> "SUCCESS", seq |-> 0]

FreeRemoteBind(f, id)            == Remote(FreeBind(f), id)
MemberRemoteBindShared(o, f, id) == Remote(MemberBindShared(o, f), id)
MemberRemoteBindRaw(o, f, id)    == Remote(MemberBindRaw(o, f), id)
FunctionRemoteBind(f, id)        == Remote(FunctionBind(f), id)

Unset == Remote(Unbound, Nil)

(* MakeDelegate(target, id, channel).                                      *)
Wire(d, c) == [d EXCEPT !.wire = c]
SetErrorHandler(d) == [d EXCEPT !.handler = TRUE]

(* A copy has its own last error and number.                               *)
FreeRemoteAssign(d, rhs)     == [rhs EXCEPT !.err = d.err, !.seq = d.seq]
MemberRemoteAssign(d, rhs)   == [rhs EXCEPT !.err = d.err, !.seq = d.seq]
FunctionRemoteAssign(d, rhs) == [rhs EXCEPT !.err = d.err, !.seq = d.seq]

FreeRemoteClone(d)     == FreeRemoteAssign(Unset, d)
MemberRemoteClone(d)   == MemberRemoteAssign(Unset, d)
FunctionRemoteClone(d) == FunctionRemoteAssign(Unset, d)

(* What moving leaves behind: no target, no wiring, no handler.            *)
FreeRemoteMoved(d)     == [d EXCEPT !.base = Unbound, !.wire = Nil, !.handler = FALSE]
MemberRemoteMoved(d)   == [d EXCEPT !.base = Unbound, !.wire = Nil, !.handler = FALSE]
FunctionRemoteMoved(d) == [d EXCEPT !.base = Unbound, !.wire = Nil, !.handler = FALSE]

(* Every delegate an application can make of a channel and hand on.        *)
RemoteDelegates ==
    LET free     == {Wire(FreeRemoteBind(f, IdOf[c]), c) : f \in Fns, c \in Chans}
        member   == UNION {{Wire(MemberRemoteBindShared(o, f, IdOf[c]), c),
                            Wire(MemberRemoteBindRaw(o, f, IdOf[c]), c)} : o \in Objs, f \in Fns, c \in Chans}
        function == {Wire(FunctionRemoteBind(f, IdOf[c]), c) : f \in Fns, c \in Chans}
        handed   == {FreeRemoteClone(d) : d \in free} \cup {MemberRemoteClone(d) : d \in member}
                    \cup {FunctionRemoteClone(d) : d \in function}
        left     == {FreeRemoteMoved(d) : d \in free} \cup {MemberRemoteMoved(d) : d \in member}
                    \cup {FunctionRemoteMoved(d) : d \in function}
        made     == free \cup member \cup function \cup handed \cup left
    IN  made \cup {SetErrorHandler(d) : d \in made}

Senders == Chans \cup Dels

ASSUME RemoteConstants ==
    /\ Chans \cap Dels = {} /\ Nil \notin Senders \cup Threads \cup Ids
    /\ IdOf \in [Chans -> Ids] /\ Made \in [Dels -> RemoteDelegates]
    /\ MaxCalls \in Nat /\ NumMod \in Nat \ {0} /\ Nil \notin 0 .. NumMod - 1

(* A channel's own delegate is a DelegateFunctionRemote; whether or not    *)
(* Bind() has given it a target, it can send.                              *)
RemoteInit ==
    /\ obj = [s \in Senders |->
                IF s \in Dels THEN Made[s]
                ELSE SetErrorHandler(Wire(FunctionRemoteBind(CHOOSE f \in Fns : TRUE, IdOf[s]), s))]
    /\ stream = [c \in Chans |-> <<>>] /\ good = [c \in Chans |-> TRUE]
    /\ sendMutex = [c \in Chans |-> Nil]
    /\ m_seqNum = 0 /\ call = [t \in Threads |-> NoCall] /\ calls = 0
    /\ opened = FALSE /\ air = {} /\ pending = {}
    /\ sentBy = [n \in Calls |-> Nil] /\ reported = {} /\ invoked = {}

-----------------------------------------------------------------------------
(* RaiseError() keeps the error; without a handler it throws, and the      *)
(* exception leaves operator().  RaiseSuccess() keeps nothing.             *)
RaiseError(s, n, err) ==
    /\ obj' = [obj EXCEPT ![s].err = err]
    /\ reported' = reported \cup {n}

Throws(s) == ~obj[s].handler

(* Mutant: the channel does not lock.                                      *)
LockNothing(t, s) == UNCHANGED sendMutex

EnterChannel(t, s) ==
    IF s \in Chans THEN sendMutex[s] = Nil /\ sendMutex' = [sendMutex EXCEPT ![s] = t]
                   ELSE UNCHANGED sendMutex

LeaveCall(t) ==
    /\ call' = [call EXCEPT ![t] = NoCall]
    /\ sendMutex' = [c \in Chans |-> IF sendMutex[c] = t THEN Nil ELSE sendMutex[c]]

(* operator() begins: a delegate with no serializer and stream can only    *)
(* report it.                                                              *)
Begin(t, s) ==
    /\ call[t].pc = "idle" /\ calls < MaxCalls
    /\ calls' = calls + 1
    /\ IF obj[s].wire = Nil
       THEN /\ RaiseError(s, calls + 1, "NO_SERIALIZER")
            /\ UNCHANGED <<call, sendMutex>>
       ELSE /\ EnterChannel(t, s)
            /\ call' = [call EXCEPT ![t] = [pc |-> "write", via |-> s, n |-> calls + 1]]
            /\ UNCHANGED <<obj, reported>>
    /\ UNCHANGED <<stream, good, m_seqNum, opened, air, pending, sentBy, invoked>>

(* The serializer empties the stream before it writes one argument and the *)
(* next; an error of the stream stays.                                     *)
BeforePart(c, part) == IF part = 1 THEN <<>> ELSE stream[c]

Write(c, n, part) ==
    \/ /\ good[c]
       /\ stream' = [stream EXCEPT ![c] = Append(BeforePart(c, part), <<n, part>>)]
       /\ UNCHANGED good
    \/ /\ good' = [good EXCEPT ![c] = FALSE]
       /\ stream' = [stream EXCEPT ![c] = BeforePart(c, part)]

(* It may also throw: what it has written stays, and if there is an error  *)
(* handler it is sent.                                                     *)
Serialize(t, part, next) ==
    LET s == call[t].via  c == obj[s].wire  n == call[t].n
    IN  /\ \/ /\ Write(c, n, part)
              /\ call' = [call EXCEPT ![t].pc = next]
              /\ UNCHANGED <<obj, reported, sendMutex>>
           \/ /\ RaiseError(s, n, "SERIALIZE")
              /\ IF Throws(s) THEN LeaveCall(t)
                 ELSE call' = [call EXCEPT ![t].pc = "dispatch"] /\ UNCHANGED sendMutex
              /\ stream' = [stream EXCEPT ![c] = BeforePart(c, part)]
              /\ UNCHANGED good
        /\ UNCHANGED <<m_seqNum, calls, opened, air, pending, sentBy, invoked>>

ResetStream(c) == stream' = [stream EXCEPT ![c] = <<>>] /\ good' = [good EXCEPT ![c] = TRUE]
SendFailed(n) == reported' = reported \cup {n}

(* The transport's Send(): nothing leaves one that is not open.            *)
Transmit(m) == opened /\ air' = air \cup {m}

(* Dispatcher::Dispatch(): the next number, the transport, and the stream  *)
(* is empty again.  The delegate learns its number whether or not the send *)
(* succeeds, and any send may fail.                                        *)
Dispatch(s, c, n) ==
    /\ m_seqNum' = (m_seqNum + 1) % NumMod
    /\ \/ /\ Transmit([n |-> n, seq |-> m_seqNum, id |-> obj[s].id, parts |-> stream[c]])
          /\ pending' = pending \cup {[seq |-> m_seqNum, id |-> obj[s].id, n |-> n]}
          /\ sentBy' = [sentBy EXCEPT ![n] = m_seqNum]
          /\ obj' = [obj EXCEPT ![s].seq = m_seqNum]
          /\ UNCHANGED reported
       \/ /\ obj' = [obj EXCEPT ![s].seq = m_seqNum, ![s].err = "DISPATCH"]
          /\ SendFailed(n)
          /\ UNCHANGED <<air, pending, sentBy>>
    /\ ResetStream(c)

(* The rest of operator(): a bad stream is reported, and stays as it is.   *)
Finish(t) ==
    LET s == call[t].via  c == obj[s].wire  n == call[t].n
    IN  /\ IF good[c]
           THEN Dispatch(s, c, n)
           ELSE /\ RaiseError(s, n, "STREAM_NOT_GOOD")
                /\ UNCHANGED <<stream, good, m_seqNum, air, pending, sentBy>>
        /\ LeaveCall(t)
        /\ UNCHANGED <<calls, opened, invoked>>

At(t, pc, cls) == call[t].pc = pc /\ obj[call[t].via].base.cls = cls

FreeRemoteCall(t) ==
    \/ At(t, "write", "Free") /\ Serialize(t, 1, "write 2")
    \/ At(t, "write 2", "Free") /\ Serialize(t, 2, "dispatch")
    \/ At(t, "dispatch", "Free") /\ Finish(t)

MemberRemoteCall(t) ==
    \/ At(t, "write", "Member") /\ Serialize(t, 1, "write 2")
    \/ At(t, "write 2", "Member") /\ Serialize(t, 2, "dispatch")
    \/ At(t, "dispatch", "Member") /\ Finish(t)

FunctionRemoteCall(t) ==
    \/ At(t, "write", "Function") /\ Serialize(t, 1, "write 2")
    \/ At(t, "write 2", "Function") /\ Serialize(t, 2, "dispatch")
    \/ At(t, "dispatch", "Function") /\ Finish(t)

CallStep(t) == FreeRemoteCall(t) \/ MemberRemoteCall(t) \/ FunctionRemoteCall(t)

-----------------------------------------------------------------------------
(* The receiver's Invoke(): two parts are read and the target is called    *)
(* with them; too short a stream is an error of the receiving delegate,    *)
(* and without an error handler an exception that leaves Invoke(); one     *)
(* code stands here for the error and for the exception (DelegateRemote.h  *)
(* 462 and 469).                                                           *)
Readable(m) == Len(m.parts) >= 2
Invocation(m) == SubSeq(m.parts, 1, 2)

Received(s, m) ==
    IF Readable(m) THEN invoked' = invoked \cup {Invocation(m)} /\ UNCHANGED obj
                   ELSE obj' = [obj EXCEPT ![s].err = "DESERIALIZE"] /\ UNCHANGED invoked

InvokeFree(s, m)     == obj[s].base.cls = "Free" /\ Received(s, m)
InvokeMember(s, m)   == obj[s].base.cls = "Member" /\ Received(s, m)
InvokeFunction(s, m) == obj[s].base.cls = "Function" /\ Received(s, m)

Invoke(s, m) == InvokeFree(s, m) \/ InvokeMember(s, m) \/ InvokeFunction(s, m)
=============================================================================
