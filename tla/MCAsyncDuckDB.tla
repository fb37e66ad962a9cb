--------------------------- MODULE MCAsyncDuckDB ---------------------------
(* The proxy on small instances. The main thread starts and stops the      *)
(* worker; every application thread makes calls.                           *)
EXTENDS AsyncDuckDB, TLC

CONSTANTS main, a1, a2, w1, w2

Symmetric == Permutations(Callers)

(* Bound: the worker is started again only after two calls of three, and   *)
(* then for good; the application threads then call one after the other.   *)
AfterRestart ==
  (\A w \in Workers : worker[w] # "unborn")
    => /\ ~mExit /\ (ctlpc # "none" => issued = 2)
       /\ Cardinality({t \in Callers : pc[t] # "app"}) <= 1
=============================================================================
