SPECIFICATION FairSpec
CONSTANTS
  main = main
  a1 = a1
  a2 = a2
  w1 = w1
  w2 = w2
  Callers = {a1}
  Controllers = {main}
  Workers = {w1}
  MaxCalls = 3
  AppKinds = {"connect", "prepare", "exec", "future", "close"}
  NoThread = NoThread
  NoMsg = NoMsg
  ExitMsg = ExitMsg
PROPERTIES
  NothingIsLeftHanging
