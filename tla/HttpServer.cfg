\* One wait and one PTY lease with two attaches, through a shutdown.
SPECIFICATION FairSpec
CONSTANTS
    w1 = w1  p1 = p1  s1 = s1  s2 = s2
    Waits = {w1}
    Ptys = {p1}
    Sockets = {s1, s2}
    PtyOf <- OnePty
INVARIANT LeaseHasOneOwner
PROPERTIES AbandonedWaitEnds LeaseIsTaken PtyNoticesEnd ShutdownEnds
CHECK_DEADLOCK FALSE
