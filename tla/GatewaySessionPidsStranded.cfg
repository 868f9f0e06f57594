\* A gateway that is given the pid of one that died takes its markers for its own.
SPECIFICATION Spec
CONSTANTS
    o1 = o1  o2 = o2  o3 = o3
    g1 = g1  g2 = g2  g3 = g3
    Ops = {o1, o2, o3}
    NoOp = NoOp
    Gateways = {g1, g2, g3}
    Host <- ThreeClis
    PidOf <- RecycledPid
    Context <- OneContext
    Kinds = {"session"}
    GatewayIdle = TRUE
    RemoveOnStop = TRUE
    Preserve = FALSE
    Ephemeral = TRUE
    WorkspaceCleanup = "success"
    Faults = FALSE
    Crashes = TRUE
    Exits = FALSE
INVARIANTS CleanupEdgeOwned
CHECK_DEADLOCK FALSE
