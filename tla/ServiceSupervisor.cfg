\* A chain of three services, two of them required and probed.
SPECIFICATION FairSpec
CONSTANTS
    proxy = proxy
    web = web
    sshd = sshd
    Services <- MCServices
    DependsOn <- MCChain
    StopOrder <- MCChainOrder
    Policy <- MCPolicy
    Probed = {proxy, web}
    Required = {web, sshd}
INVARIANTS
    NoServiceOutlivesStop
    DependentsStopFirst
    RestartsOnlyTheDead
PROPERTY
    ShutdownEnds
\* A shutdown ends, and services that are not restarted stay down.
CHECK_DEADLOCK FALSE
