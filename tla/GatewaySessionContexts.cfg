\* Invocations with different contexts, failures, crashes and a preserve process:
\* nobody uses a container of another context, and an ended session finishes.
SPECIFICATION FairSpec
CONSTANTS
    o1 = o1  o2 = o2  o3 = o3
    g1 = g1  g2 = g2  g3 = g3
    Ops = {o1, o2, o3}
    NoOp = NoOp
    Gateways = {g1, g2}
    Host <- ServerAndCli
    PidOf <- OwnPids
    Context <- MixedContexts
    Kinds = {"session", "remove"}
    GatewayIdle = TRUE
    RemoveOnStop = FALSE
    Preserve = TRUE
    Ephemeral = FALSE
    WorkspaceCleanup = "never"
    Faults = TRUE
    Crashes = TRUE
    Exits = TRUE
INVARIANTS ContextIsolation
PROPERTIES EndedSessionFinishes
CHECK_DEADLOCK FALSE
