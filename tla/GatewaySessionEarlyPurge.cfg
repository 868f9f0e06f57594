\* Two overlapping sessions, no failures: the first one deletes the workspace while
\* the container still runs.
SPECIFICATION Spec
CONSTANTS
    o1 = o1  o2 = o2  o3 = o3
    g1 = g1  g2 = g2  g3 = g3
    Ops = {o1, o2, o3}
    NoOp = NoOp
    Gateways = {g1, g2}
    Host <- ServerAndCli
    PidOf <- OwnPids
    Context <- OneContext
    Kinds = {"session"}
    GatewayIdle = TRUE
    RemoveOnStop = TRUE
    Preserve = FALSE
    Ephemeral = TRUE
    WorkspaceCleanup = "success"
    Faults = FALSE
    Crashes = FALSE
    Exits = FALSE
PROPERTIES PurgeFollowsContainerCleanup
CHECK_DEADLOCK FALSE
