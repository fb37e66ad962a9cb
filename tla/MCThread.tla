------------------------------ MODULE MCThread ------------------------------
(* The worker thread on small instances. The messages are symmetric within *)
(* their priority, and so are the application threads.                     *)
EXTENDS Thread, TLC

CONSTANTS c1, c2, c3, w1, w2, w3, m1, m2, m3, m4, m5

Symmetric == Permutations(Callers) \cup Permutations(HighMsgs)
               \cup Permutations(Msgs \ HighMsgs)
=============================================================================
