SPECIFICATION DelegatesSpec
CONSTANTS
    o = o
    f = f
    g = g
    r = r
    q = q
    s = s
    l = l
    k = k
    Nil = Nil
    Objs = {o}
    Fns = {f, g}
    Routes = {r, q}
    Slots = {s}
    Lists = {l, k}
    Made <- MCMade
    Cap = 1
    MaxNodes = 2
    MaxDepth = 2
    MaxOps = 4
SYMMETRY MCSymmetry
CHECK_DEADLOCK FALSE
INVARIANTS
  BroadcastsExact
  TargetAlive
  ReturnsOwnResult
PROPERTIES
  RemovesSameTarget
