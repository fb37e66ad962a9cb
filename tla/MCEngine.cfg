SPECIFICATION Spec
CONSTANTS
    o = o
    f = f
    thA = thA
    thB = thB
    net = net
    cw = cw
    cd = cd
    cm = cm
    cf = cf
    dm = dm
    dr = dr
    df = df
    dx = dx
    idA = idA
    idB = idB
    idC = idC
    idD = idD
    Nil = Nil
    Objs = {o}
    Fns = {f}
    Routes = {}
    Threads = {thA, thB, net}
    Chans = {cw, cd, cm, cf}
    Dels = {dm, dr, df, dx}
    Ids = {idA, idB, idC, idD}
    IdOf <- MCIdOf
    Made <- MCMade
    MaxCalls = 2
    NumMod = 4
    Net = net
    Waiters = {thA}
    WaitChan = cw
    Direct <- MCDirect
    Cap = 1
    EarlyMax = 2
    Script <- MCScript
    CallsFrom = 6
    Null = Null
    Junk = Junk
    MAX_STRING_SIZE = 3
    MAX_CONTAINER_SIZE = 2
    MAX_PARSE_STACK_DEPTH = 2
    CharCap = 2
    SizeMod = 24
    Types <- MCTypes
    ValuesOf <- MCValuesOf
    Versions <- MCVersions
    Damage = {0, 2, 21, 31}
INVARIANTS
  SentIsRead
  CallsExact
  AnswersExact
PROPERTIES
  NothingAfterStop
  OwnerReturns
