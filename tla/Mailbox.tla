------------------------------ MODULE Mailbox ------------------------------
(***************************************************************************)
(* What DelegateMQ promises of a worker thread, without its mutex, its     *)
(* condition variables, its exit message or its OS threads: messages are   *)
(* accepted or refused, accepted messages are served one at a time, high   *)
(* priority first and in order of acceptance, and closing serves every     *)
(* accepted message - unless a handler closes its own mailbox, which       *)
(* abandons the messages not served yet.                                   *)
(***************************************************************************)
EXTENDS Sequences

CONSTANTS Msgs, HighMsgs

VARIABLES
  phase,   \* open, closing (by another thread), abandoning (by a handler), closed
  high,    \* accepted messages of high priority
  normal,  \* accepted messages of normal priority
  fate     \* what became of each message

vars == <<phase, high, normal, fate>>

Serving == {m \in Msgs : fate[m] = "invoking"}

Init ==
  /\ phase = "open"
  /\ high = <<>>
  /\ normal = <<>>
  /\ fate = [m \in Msgs |-> "new"]

(* Only an open mailbox accepts. *)
Accept(m) ==
  /\ phase = "open"
  /\ fate[m] = "new"
  /\ fate' = [fate EXCEPT ![m] = "queued"]
  /\ high' = IF m \in HighMsgs THEN Append(high, m) ELSE high
  /\ normal' = IF m \in HighMsgs THEN normal ELSE Append(normal, m)
  /\ UNCHANGED phase

(* A message may be refused at any time. *)
Refuse(m) ==
  /\ fate[m] = "new"
  /\ fate' = [fate EXCEPT ![m] = "refused"]
  /\ UNCHANGED <<phase, high, normal>>

DeliverHigh ==
  /\ high # <<>>
  /\ fate' = [fate EXCEPT ![Head(high)] = "invoking"]
  /\ high' = Tail(high)
  /\ UNCHANGED normal

DeliverNormal ==
  /\ high = <<>> /\ normal # <<>>
  /\ fate' = [fate EXCEPT ![Head(normal)] = "invoking"]
  /\ normal' = Tail(normal)
  /\ UNCHANGED high

(* One message at a time, and none once a handler has closed the mailbox.  *)
Deliver ==
  /\ phase \in {"open", "closing"}
  /\ Serving = {}
  /\ DeliverHigh \/ DeliverNormal
  /\ UNCHANGED phase

(* The handler returns; one that abandoned its mailbox returns like any    *)
(* other.                                                                  *)
Complete(m) ==
  /\ fate[m] \in {"invoking", "detached"}
  /\ fate' = [fate EXCEPT ![m] = "done"]
  /\ UNCHANGED <<phase, high, normal>>

Close ==
  /\ phase = "open"
  /\ phase' = "closing"
  /\ UNCHANGED <<high, normal, fate>>

(* Closing ends when every accepted message has been served. *)
Drained ==
  /\ phase = "closing"
  /\ high = <<>> /\ normal = <<>> /\ Serving = {}
  /\ phase' = "closed"
  /\ UNCHANGED <<high, normal, fate>>

(* The handler that closed its own mailbox is on its own from here. *)
Detach ==
  /\ phase = "closing"
  /\ phase' = "abandoning"
  /\ \E m \in Serving : fate' = [fate EXCEPT ![m] = "detached"]
  /\ UNCHANGED <<high, normal>>

Abandon ==
  /\ phase = "abandoning"
  /\ phase' = "closed"
  /\ high' = <<>> /\ normal' = <<>>
  /\ fate' = [m \in Msgs |-> IF fate[m] = "queued" THEN "discarded" ELSE fate[m]]

Reopen ==
  /\ phase = "closed"
  /\ phase' = "open"
  /\ UNCHANGED <<high, normal, fate>>

Next ==
  \/ \E m \in Msgs : Accept(m) \/ Refuse(m) \/ Complete(m)
  \/ Deliver \/ Close \/ Drained \/ Detach \/ Abandon \/ Reopen

Spec == Init /\ [][Next]_vars
=============================================================================
