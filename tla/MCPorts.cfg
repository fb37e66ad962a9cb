SPECIFICATION Spec
CONSTANTS
    u = u
    v = v
    owner = owner
    Users = {u, v}
    Owner = owner
    OsPorts = {"freertos", "threadx", "zephyr", "cmsis", "win32", "qt"}
    Policies = {"DROP", "TIMEOUT", "FAULT"}
    Cap = 2
    MaxTasks = 2
    MaxMsgs = 3
CHECK_DEADLOCK FALSE
INVARIANTS
  LifetimesHold
  QueueIsKept
PROPERTIES
  UrgentFirst
  PostedIsHandled
