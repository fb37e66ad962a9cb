SPECIFICATION MCSpec
CONSTANTS
    f = f
    g = g
    l = l
    Nil = Nil
    Objs = {}
    Fns = {f, g}
    Routes = {}
    Slots = {}
    Lists = {l}
    Made <- MCMade
    Cap = 1
    MaxNodes = 2
    MaxDepth = 2
    MaxOps = 5
CHECK_DEADLOCK FALSE
INVARIANTS
  SnapshotIsCalled
