SPECIFICATION MCSpec
CONSTANTS
  t1 = t1
  t2 = t2
  m1 = m1
  m2 = m2
  a1 = a1
  d1 = d1
  d2 = d2
  c1 = c1
  c2 = c2
  c3 = c3
  Senders = {t1, t2}
  Msgs = {m1, m2}
  Ids = {1, 2}
  SeqMod = 2
  MaxRetries = 1
  MaxPending = 1
  MaxExpired = 1
  HistorySize = 1
  MaxInvoked = 3
  None = None
  Callers = {a1}
  Threads = {d1, d2}
  Calls = {c1, c2, c3}
  Nobody = Nobody
INVARIANTS
  BudgetHolds
  SuccessMeansReceived
  StoredIsWatched
  FilterIsExact
  ArgumentsAlive
PROPERTIES
  EventuallyForgotten
  ImplementsBlockingCall
  CallReturns
