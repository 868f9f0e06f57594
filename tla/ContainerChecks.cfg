\* Two processes that start, stop, remove, ask and listen, and may be killed;
\* two processes that reuse a container while its configuration is edited.
SPECIFICATION MCSpec
CONSTANTS
    g1 = g1
    g2 = g2
    Gateways = {g1, g2}
    Ports = {1, 2}
    Configured = {0, 1}
    Attempts = 2
    MaxLate = 1
    None = None
    Processes = {g1, g2}
    Configs <- MCConfigs
    MaxInode = 2
    RemoveOnStop = FALSE
    Nothing = Nothing
SYMMETRY Symmetry
INVARIANTS
    AnswersAreRight
    ListenerIsKnown
    ReadyAsConfigured
