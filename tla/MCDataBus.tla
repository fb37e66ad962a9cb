------------------------------ MODULE MCDataBus -----------------------------
EXTENDS NetworkNode, TLC
CONSTANTS p1, p2, net, q, r, tpc, A, B, n, m, n1, m1, n2, m2

MCTopicOf == (q :> tpc) @@ (r :> tpc)
MCTypeOf == (q :> A) @@ (r :> A)
MCPeerParts == <<[rel |-> n1, raw |-> m1], [rel |-> n2, raw |-> m2]>>
Swap == Permutations({p1, p2})
=============================================================================
