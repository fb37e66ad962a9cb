SPECIFICATION NodeSpec
CONSTANTS
    p1 = p1
    p2 = p2
    net = net
    q = q
    r = r
    tpc = tpc
    A = A
    B = B
    n = n
    m = m
    n1 = n1
    m1 = m1
    n2 = n2
    m2 = m2
    Nil = Nil
    Threads = {p1, p2, net}
    Callers = {p1, p2}
    Topics = {tpc}
    Types = {A, B}
    Subs = {q, r}
    TopicOf <- MCTopicOf
    TypeOf <- MCTypeOf
    Cached = {r}
    Lifespan = {}
    OnWorker = {r}
    Parts = {n, m, n1, m1, n2, m2}
    Joining = {n, m}
    SendThread = {m}
    MaxParticipants = 2
    EarlyCache = FALSE
    NumMod = 8
    First = 6
    MaxPub = 2
    MaxOps = 4
    Net = net
    PeerParts <- MCPeerParts
    MaxPeers = 1
    MaxTopics = 1
    MaxNodeOps = 6
SYMMETRY Swap
CHECK_DEADLOCK FALSE
INVARIANTS
  BusConsistent
  SubscribersUpToDate
  SentOnce
  NodeHolds
