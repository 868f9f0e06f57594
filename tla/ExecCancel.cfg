\* A recycled pid, crashes, and runtime calls that fail or hang.
SPECIFICATION FairSpec
CONSTANTS
    c1 = c1  c2 = c2
    g1 = g1  g2 = g2
    Commands = {c1, c2}
    Gateways = {g1, g2}
    Owner <- Owners
    PidsOf <- RecycledPids
    None = None
    Faulty = {c1}
    Mortal = {g1}
INVARIANTS OnlyOwnCommandKilled SupervisedCommandIsMarked CancelLeavesNothing
PROPERTY CancelEnds
CHECK_DEADLOCK FALSE
