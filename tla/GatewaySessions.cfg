\* Every kind of operation, failures, crashes and exits; two of the operations
\* share a process.
SPECIFICATION Spec
CONSTANTS
    o1 = o1  o2 = o2  o3 = o3
    g1 = g1  g2 = g2  g3 = g3
    Ops = {o1, o2, o3}
    NoOp = NoOp
    Gateways = {g1, g2}
    Host <- ServerAndCli
    PidOf <- OwnPids
    Context <- OneContext
    Kinds = {"session", "up", "stop", "remove", "status"}
    GatewayIdle = TRUE
    RemoveOnStop = TRUE
    Preserve = FALSE
    Ephemeral = TRUE
    WorkspaceCleanup = "success"
    Faults = TRUE
    Crashes = TRUE
    Exits = TRUE
INVARIANT CleanupEdgeOwned
PROPERTIES LiveSessionKeepsContainer LiveSessionKeepsWorkspace LiveMarkerStands
CHECK_DEADLOCK FALSE
