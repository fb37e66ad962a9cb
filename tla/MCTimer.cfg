SPECIFICATION ClockSpec
CONSTANTS
    s = s
    t = t
    user = user
    ticker = ticker
    c = c
    d = d
    w1 = w1
    w2 = w2
    Nil = Nil
    Sigs = {s, t}
    Threads = {user, ticker}
    Ticker = ticker
    Conns = {c, d}
    Owner <- MCOwner
    MaxCopies = 2
    MaxBlocks = 2
    MaxOps = 3
    Paced = {1}
    Timeout <- MCTimeout
    MaxExpired = 2
    Cap = 1
    MaxLag = 2
    Workers = {w1, w2}
    WatchPorts = {"stdlib", "qt", "freertos", "threadx"}
    WatchTimeout = 2
    MaxWatched = 1
    Late = 1
CHECK_DEADLOCK FALSE
INVARIANTS
  ListsKept
  EmissionsExact
  WatchdogHolds
PROPERTIES
  PacingHolds
  NothingOverdue
