---------------------------- MODULE BlockingCall ----------------------------
(***************************************************************************)
(* What a blocking delegate call (src/DelegateMQ/delegate/                 *)
(* DelegateAsyncWait.h) promises its caller: the target function runs at   *)
(* most once, never before the call, and never once the call has returned. *)
(***************************************************************************)
CONSTANTS Calls

VARIABLES
  phase,   \* of each call: "new", "pending", "running", "done"
  answer   \* what it returned: "none", "success", "failure"

vars == <<phase, answer>>

Init ==
  /\ phase = [m \in Calls |-> "new"]
  /\ answer = [m \in Calls |-> "none"]

Step(m, from, to) ==
  /\ answer[m] = "none"
  /\ phase[m] = from
  /\ phase' = [phase EXCEPT ![m] = to]
  /\ UNCHANGED answer

Call(m)  == Step(m, "new", "pending")
Start(m) == Step(m, "pending", "running")
End(m)   == Step(m, "running", "done")

(* A success is told of a target that has run to its end. *)
Succeed(m) ==
  /\ answer[m] = "none"
  /\ phase[m] = "done"
  /\ answer' = [answer EXCEPT ![m] = "success"]
  /\ UNCHANGED phase

(* A failure may be told of a target that has run, but not while it runs. *)
Fail(m) ==
  /\ answer[m] = "none"
  /\ phase[m] \in {"pending", "done"}
  /\ answer' = [answer EXCEPT ![m] = "failure"]
  /\ UNCHANGED phase

Next == \E m \in Calls : Call(m) \/ Start(m) \/ End(m) \/ Succeed(m) \/ Fail(m)

Spec == Init /\ [][Next]_vars
=============================================================================
