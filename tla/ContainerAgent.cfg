\* Two requests, a signal and the idle loop shut the agent down; or held sessions,
\* one of two at a time, and a bridge stream come and go under the idle loop; or
\* two processes and a service start and end under the reaper.
SPECIFICATION MCSpec
CONSTANTS
    h1 = h1
    h2 = h2
    s1 = s1
    r1 = r1
    r2 = r2
    Holders = {h1, h2}
    Streams = {s1}
    Requests = {r1, r2}
    MaxConnections = 2
    MaxHolds = 1
    IdleActions = {"exit_container", "reap_processes"}
    Preserving = TRUE
    Poll = 2
    Grace = 3
    IdleMinimum = 1
    Minimum = 1
    Budget = 2
    Margin = 1
    Pids = {1, 2, 3}
    AgentPid = 1
    Services = {"sshd"}
    MaxStarts = 3
    None = None
INVARIANTS
    AnsweredAfterStop
    StopNotCutShort
    NoLostWakeUp
    HoldsLeaveRoom
PROPERTIES
    LongSessionKeepsGrace
    ReapSparesTheRest
    ShutdownEnds
\* The agent ends.
CHECK_DEADLOCK FALSE
