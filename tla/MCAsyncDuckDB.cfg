SPECIFICATION Spec
CONSTANTS
  main = main
  a1 = a1
  a2 = a2
  w1 = w1
  w2 = w2
  Callers = {a1, a2}
  Controllers = {main}
  Workers = {w1, w2}
  MaxCalls = 3
  AppKinds = {"connect", "prepare", "exec", "close"}
  NoThread = NoThread
  NoMsg = NoMsg
  ExitMsg = ExitMsg
SYMMETRY Symmetric
CONSTRAINT AfterRestart
INVARIANTS
  OwnershipHolds
  SequentialIntegrity
  ShutdownQuiesces
PROPERTIES
  ImplementsSerialEngine
