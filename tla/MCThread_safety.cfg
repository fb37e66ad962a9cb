SPECIFICATION Spec
CONSTANTS
  c1 = c1
  c2 = c2
  c3 = c3
  w1 = w1
  w2 = w2
  w3 = w3
  m1 = m1
  m2 = m2
  m3 = m3
  m4 = m4
  m5 = m5
  Callers = {c1, c2, c3}
  Workers = {w1, w2}
  Msgs = {m1, m2, m3, m4, m5}
  HighMsgs = {m1}
  MaxQueueSize = 2
  Policies = {"TIMEOUT", "DROP", "FAULT"}
  NoThread = NoThread
  NoMsg = NoMsg
  ExitMsg = ExitMsg
SYMMETRY Symmetric
INVARIANTS
  QueueIsKept
  HandlersSerial
  NothingStranded
PROPERTIES
  ImplementsMailbox
