------------------------------ MODULE MCRetry ------------------------------
(* Instances for TLC of Retry and of AsyncWait, the two ways of knowing    *)
(* that a call was carried out.  An application uses the one or the other: *)
(* they share no state.                                                    *)
EXTENDS Retry, AsyncWait
CONSTANTS t1, t2, m1, m2, a1, d1, d2, c1, c2, c3

VARIABLE part

MCInit == Init /\ WaitInit /\ part \in {"acknowledged", "blocking"}

MCNext ==
  /\ UNCHANGED part
  /\ \/ part = "acknowledged" /\ Next /\ UNCHANGED waitVars
     \/ part = "blocking" /\ WaitNext /\ UNCHANGED vars

MCSpec ==
  /\ MCInit /\ [][MCNext]_<<vars, waitVars, part>>
  /\ Fairness /\ WaitFairness
=============================================================================
