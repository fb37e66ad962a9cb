SPECIFICATION Spec
CONSTANTS
    u = u
    v = v
    owner = owner
    Users = {u}
    Owner = owner
    OsPorts = {"freertos"}
    Policies = {"DROP"}
    Cap = 2
    MaxTasks = 2
    MaxMsgs = 3
CHECK_DEADLOCK FALSE

PROPERTIES ExitReturns
