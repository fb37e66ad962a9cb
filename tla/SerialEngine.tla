---------------------------- MODULE SerialEngine ----------------------------
(***************************************************************************)
(* What the proxy promises its users: one engine that executes accepted    *)
(* operations one at a time in the order it accepted them, each at most    *)
(* once, and only on handles that exist. A caller gets the result of its   *)
(* own operation or gives up waiting for it. There are no threads here, no *)
(* queue limits, no shutdown and no restart: an operation that falls       *)
(* victim to one of these is simply never accepted.                        *)
(***************************************************************************)
EXTENDS Naturals, Sequences

CONSTANTS Ops, None

VARIABLES
  handle,   \* the handle each operation works on; None if it needs none
  answer,   \* what its caller has got
  pending,  \* operations accepted and not executed yet
  ran,      \* how the engine executed it: none, ok, threw
  gone      \* handles that have been destroyed

vars == <<handle, answer, pending, ran, gone>>

(* What is known of operations and handles. *)
Accepted(m) == \E i \in 1..Len(pending) : pending[i] = m
With(a)     == {m \in Ops : answer[m] = a}
Exists(h)   == ran[h] = "ok" /\ h \notin gone

Init ==
  /\ handle = [m \in Ops |-> None]
  /\ answer = [m \in Ops |-> "uncalled"]
  /\ pending = <<>>
  /\ ran = [m \in Ops |-> "none"]
  /\ gone = {}

Call(m, h) ==
  /\ h # None => Exists(h)
  /\ answer' = [answer EXCEPT ![m] = "awaited"]
  /\ handle' = [handle EXCEPT ![m] = h]
  /\ UNCHANGED <<pending, ran, gone>>

(* An operation is accepted while its caller is still there, or never. *)
Accept(m) ==
  /\ ran[m] = "none" /\ ~Accepted(m)
  /\ pending' = Append(pending, m)
  /\ UNCHANGED <<handle, answer, ran, gone>>

Execute ==
  /\ pending # <<>>
  /\ handle[Head(pending)] # None => Exists(handle[Head(pending)])
  /\ \E r \in {"ok", "threw"} : ran' = [ran EXCEPT ![Head(pending)] = r]
  /\ pending' = Tail(pending)
  /\ UNCHANGED <<handle, answer, gone>>

(* A timeout says nothing about the operation, which may be executed yet;  *)
(* an invalid call, whose dispatch has failed, will never be.              *)
Answer(m, a) ==
  /\ \/ a = "value" /\ ran[m] = "ok"
     \/ a = "error" /\ ran[m] = "threw"
     \/ a = "timeout" /\ ran[m] = "none"
     \/ a = "invalid" /\ ran[m] = "none" /\ ~Accepted(m)
     \/ a = "returned"
  /\ answer' = [answer EXCEPT ![m] = a]
  /\ UNCHANGED <<handle, pending, ran, gone>>

(* No operation on these handles can still come. *)
DestroyHandles(H) ==
  /\ \A h \in H :
       /\ Exists(h)
       /\ \A m \in Ops : handle[m] = h => answer[m] # "awaited" /\ ~Accepted(m)
  /\ gone' = gone \cup H
  /\ UNCHANGED <<handle, answer, pending, ran>>

Next ==
  \/ \E m \in With("uncalled"), h \in Ops \cup {None} : Call(m, h)
  \/ \E m \in With("awaited") :
       \/ Accept(m)
       \/ \E a \in {"value", "error", "timeout", "invalid", "returned"} : Answer(m, a)
  \/ \E H \in SUBSET {h \in Ops : Exists(h)} : DestroyHandles(H)
  \/ Execute

Spec == Init /\ [][Next]_vars
=============================================================================
