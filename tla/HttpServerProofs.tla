-------------------------- MODULE HttpServerProofs --------------------------
(***************************************************************************)
(* Proofs about HttpServer for any waits, leases and sockets.              *)
(***************************************************************************)
EXTENDS HttpServer, FiniteSetTheorems, TLAPS

Operations == Waits \cup Ptys

\* All of TypeOK but the bound on how often a session is finished, which needs more
\* than types.
Types ==
    /\ phase \in Phases
    /\ waitToken \in BOOLEAN /\ ptyFlag \in BOOLEAN
    /\ wait \in [Waits -> WaitStep]
    /\ caller \in [Waits -> Caller]
    /\ late \subseteq Waits
    /\ request \in [Ptys -> Request]
    /\ leases \subseteq Ptys /\ expiring \subseteq Ptys /\ taken \subseteq Ptys
    /\ sock \in [Sockets -> SockStep]
    /\ seen \in [Sockets -> BOOLEAN]
    /\ gone \subseteq Sockets
    /\ exited \subseteq Ptys
    /\ held \subseteq Operations
    /\ finishes \in [Operations -> Nat]

\* An operation that has not come to its session has none and finished none; one
\* that has a session has not finished it.
SessionOnce ==
    /\ \A o \in Operations : finishes[o] \in 0 .. 1 /\ (o \in held => finishes[o] = 0)
    /\ \A w \in Waits : wait[w] \in {"idle", "admitted", "preparing"} =>
                            w \notin held /\ finishes[w] = 0
    /\ \A p \in Ptys : request[p] \notin {"answered", "closed"} => p \notin held /\ finishes[p] = 0

\* cancel_all holds leases only while it runs.
TakenInTime == phase # "leases" => taken = {}

\* The map, the timer, the shutdown and the attached sockets exclude each other, and
\* whatever one of them has is a session to be finished.
MapOwns == \A p \in leases : p \in held /\ p \notin expiring /\ p \notin taken
TimerOwns == \A p \in expiring : p \in held /\ p \notin taken
ShutdownOwns == \A p \in taken : p \in held
SocketOwns ==
    \A s \in Sockets : sock[s] \in Attached =>
        /\ PtyOf[s] \in held
        /\ PtyOf[s] \notin leases /\ PtyOf[s] \notin expiring /\ PtyOf[s] \notin taken
        /\ \A t \in Sockets : sock[t] \in Attached /\ PtyOf[t] = PtyOf[s] => t = s

\* Of a session to be finished somebody knows.
HeldIsOwned ==
    \A p \in Ptys : p \in held =>
        \/ p \in leases \/ p \in expiring \/ p \in taken
        \/ \E s \in Sockets : PtyOf[s] = p /\ sock[s] \in Attached

Ownership == MapOwns /\ TimerOwns /\ ShutdownOwns /\ SocketOwns /\ HeldIsOwned

LeaseInv == Types /\ SessionOnce /\ TakenInTime /\ Ownership

-----------------------------------------------------------------------------

LEMMA LeaseInit == Init => LeaseInv
<1> SUFFICES ASSUME Init PROVE LeaseInv
  OBVIOUS
<1> USE HttpAssumption DEF Init, Operations
<1>1. Types
  BY DEF Types, Phases, WaitStep, SockStep, Caller, Request
<1>2. SessionOnce
  BY DEF SessionOnce
<1>3. TakenInTime /\ MapOwns /\ TimerOwns /\ ShutdownOwns /\ HeldIsOwned
  BY DEF TakenInTime, MapOwns, TimerOwns, ShutdownOwns, HeldIsOwned
<1>4. SocketOwns
  BY DEF SocketOwns, Attached
<1> QED BY <1>1, <1>2, <1>3, <1>4 DEF LeaseInv, Ownership

\* A wait's task touches no lease and no socket, and of the sessions only its own.
LEMMA WaitKeeps ==
    ASSUME LeaseInv, NEW w \in Waits,
           \/ ConnectWait(w) \/ RequestWait(w) \/ CallerGone(w) \/ CallerLeaves(w)
           \/ AnswerWait(w) \/ CommandEnds(w) \/ OutputEnds(w) \/ WaitTask(w)
    PROVE  LeaseInv'
<1> USE HttpAssumption DEF LeaseInv, Operations, vars, serverVars, leaseVars, sockVars
<1>1. /\ phase' = phase /\ waitToken' = waitToken /\ ptyFlag' = ptyFlag
      /\ request' = request /\ leases' = leases /\ expiring' = expiring /\ taken' = taken
      /\ sock' = sock /\ seen' = seen /\ gone' = gone /\ exited' = exited
  BY DEF ConnectWait, RequestWait, CallerGone, CallerLeaves, CommandEnds, WaitTask, CheckFirst, PrepareWait,
     CheckSecond, CancelExec, OutputEnds, FinishWait, AnswerWait
<1>2. Types' /\ SessionOnce' /\ (held' \cap Ptys = held \cap Ptys)
  <2> USE DEF Types, SessionOnce, WaitStep, WaitGoes, Caller, CallerGoes, sessionVars
  <2>1. CASE ConnectWait(w) \/ RequestWait(w) \/ CallerGone(w) \/ CallerLeaves(w) \/ CommandEnds(w)
    BY <1>1, <2>1 DEF ConnectWait, RequestWait, CallerGone, CallerLeaves, CommandEnds
  <2>2. CASE CheckFirst(w) \/ CheckSecond(w) \/ CancelExec(w)
    BY <1>1, <2>2 DEF CheckFirst, CheckSecond, CancelExec
  <2>3. CASE PrepareWait(w)
    BY <1>1, <2>3 DEF PrepareWait
  <2>4. CASE OutputEnds(w) \/ AnswerWait(w)
    BY <1>1, <2>4 DEF OutputEnds, AnswerWait
  <2>5. CASE FinishWait(w)
    BY <1>1, <2>5 DEF FinishWait, FinishSession
  <2> QED BY <2>1, <2>2, <2>3, <2>4, <2>5 DEF WaitTask
<1>3. TakenInTime'
  BY <1>1 DEF TakenInTime
<1>4. Ownership'
  BY <1>1, <1>2 DEF Ownership, MapOwns, TimerOwns, ShutdownOwns, SocketOwns, HeldIsOwned, Types
<1> QED BY <1>2, <1>3, <1>4

\* What a lease's request and its timer do.
LEMMA LeaseKeeps ==
    ASSUME LeaseInv, NEW p \in Ptys,
           ConnectPty(p) \/ RequestPty(p) \/ RequesterLeaves(p) \/ CommandExits(p) \/ LeaseTask(p)
    PROVE  LeaseInv'
<1> USE HttpAssumption DEF LeaseInv, Operations, serverVars, waitVars, leaseVars, sockVars,
        sessionVars, Types, SessionOnce, TakenInTime, Ownership, MapOwns, TimerOwns, ShutdownOwns,
        SocketOwns, HeldIsOwned, Request, RequestGoes
<1>1. CASE ConnectPty(p) \/ RequestPty(p) \/ CommandExits(p)
  BY <1>1 DEF ConnectPty, RequestPty, CommandExits
<1>2. CASE InsertLease(p)
  BY <1>2 DEF InsertLease
<1>3. CASE Expire(p)
  BY <1>3 DEF Expire
<1>4. CASE FinishExpired(p)
  BY <1>4 DEF FinishExpired, FinishSession
<1>5. CASE FinishTaken(p)
  BY <1>5 DEF FinishTaken, FinishSession
<1>6. CASE RequesterLeaves(p) \/ RequestEnds(p)
  BY <1>6 DEF RequesterLeaves, RequestEnds
<1> QED BY <1>1, <1>2, <1>3, <1>4, <1>5, <1>6 DEF LeaseTask

\* A socket's task owns its lease from consuming to finishing it.
LEMMA SocketKeeps ==
    ASSUME LeaseInv, NEW s \in Sockets,
           \/ Upgrade(s) \/ ClientCloses(s) \/ Output(s) \/ OutputTaken(s)
           \/ Input(s) \/ InputTaken(s) \/ SendExit(s) \/ SockTask(s) \/ Observe(s)
    PROVE  LeaseInv'
<1> USE HttpAssumption DEF LeaseInv, Operations, serverVars, waitVars, leaseVars, sockVars,
        sessionVars
<1>1. ASSUME UNCHANGED <<serverVars, waitVars, leaseVars, sessionVars, late>>,
             Types', \A t \in Sockets : sock'[t] \in Attached <=> sock[t] \in Attached
      PROVE  LeaseInv'
  BY <1>1 DEF SessionOnce, TakenInTime, Ownership, MapOwns, TimerOwns, ShutdownOwns,
        SocketOwns, HeldIsOwned
<1>2. CASE Upgrade(s) \/ ReadAuth(s) \/ ClientCloses(s)
  BY <1>1, <1>2 DEF Upgrade, ReadAuth, ClientCloses, SockGoes, Types, SockStep, Attached
<1>3. CASE Output(s) \/ OutputTaken(s) \/ OutputRefused(s) \/ Input(s) \/ InputTaken(s) \/ InputRefused(s)
  BY <1>1, <1>3 DEF Output, OutputTaken, OutputRefused, Input, InputTaken, InputRefused, SockGoes,
     Types, SockStep, Attached
<1>4. CASE Observe(s) \/ Greet(s) \/ SendExit(s)
  BY <1>1, <1>4 DEF Observe, ObserveShutdown, ObserveClose, ObserveExit, Greet, SendExit,
     SockGoes, Types, SockStep, Attached
<1>5. CASE Terminate(s)
  BY <1>1, <1>5 DEF Terminate, SockGoes, Types, SockStep, Attached
<1>6. CASE Consume(s)
  <2>1. CASE SockGoes(s, "authed", "closed") /\ UNCHANGED <<leases, seen>>
    BY <1>1, <1>6, <2>1 DEF Consume, SockGoes, Types, SockStep, Attached
  <2>2. CASE PtyOf[s] \in leases /\ leases' = leases \ {PtyOf[s]}
    BY <1>6, <2>2 DEF Consume, SockGoes, Types, SockStep, Attached,
       SessionOnce, TakenInTime, Ownership, MapOwns, TimerOwns, ShutdownOwns, SocketOwns,
       HeldIsOwned
  <2> QED BY <1>6, <2>1, <2>2 DEF Consume
<1>7. CASE FinishSocket(s)
  BY <1>7 DEF FinishSocket, FinishSession, SockGoes, Types, SockStep, Attached,
       SessionOnce, TakenInTime, Ownership, MapOwns, TimerOwns, ShutdownOwns, SocketOwns,
       HeldIsOwned
<1> QED BY <1>2, <1>3, <1>4, <1>5, <1>6, <1>7 DEF SockTask

\* The shutdown takes all leases of the map at once.
LEMMA ShutdownKeeps ==
    ASSUME LeaseInv, Signal \/ Shutdown
    PROVE  LeaseInv'
<1> USE HttpAssumption DEF LeaseInv, Operations, serverVars, waitVars, leaseVars, sockVars,
        sessionVars, Types, Phases, SessionOnce, TakenInTime, Ownership, MapOwns, TimerOwns,
        ShutdownOwns, SocketOwns, HeldIsOwned
<1>1. CASE Signal \/ Exit \/ LeasesOver
  BY <1>1 DEF Signal, Exit, LeasesOver
<1>2. CASE GraceOver \/ WaitsOver
  BY <1>2 DEF GraceOver, WaitsOver
<1>3. CASE PtysOver
  BY <1>3 DEF PtysOver
<1> QED BY <1>1, <1>2, <1>3 DEF Shutdown

LEMMA LeaseNext == LeaseInv /\ [Next]_vars => LeaseInv'
<1> SUFFICES ASSUME LeaseInv, [Next]_vars PROVE LeaseInv'
  OBVIOUS
<1>1. CASE UNCHANGED vars
  BY <1>1 DEF vars, serverVars, waitVars, leaseVars, sockVars, sessionVars, LeaseInv, Types,
     SessionOnce, TakenInTime, Ownership, MapOwns, TimerOwns, ShutdownOwns, SocketOwns, HeldIsOwned
<1> QED
  BY <1>1, WaitKeeps, LeaseKeeps, SocketKeeps, ShutdownKeeps DEF Next, Environment

\* Exactly one owner of what is held.
LEMMA OneOwner == LeaseInv => LeaseHasOneOwner
<1> SUFFICES ASSUME LeaseInv, NEW p \in Ptys
             PROVE  Cardinality(Owners(p)) = IF p \in held THEN 1 ELSE 0
  BY DEF LeaseHasOneOwner
<1> USE DEF LeaseInv, Ownership, MapOwns, TimerOwns, ShutdownOwns, SocketOwns, HeldIsOwned
<1>1. CASE p \notin held
  <2>1. Owners(p) = {}
    BY <1>1 DEF Owners
  <2> QED BY <1>1, <2>1, FS_EmptySet
<1>2. CASE p \in held
  <2>1. \E o : Owners(p) = {o}
    <3>1. CASE p \in leases
      BY <3>1 DEF Owners
    <3>2. CASE p \in expiring
      BY <3>2 DEF Owners
    <3>3. CASE p \in taken
      BY <3>3 DEF Owners
    <3>4. ASSUME NEW s \in Sockets, PtyOf[s] = p, sock[s] \in Attached
          PROVE  Owners(p) = {s}
      BY <3>4 DEF Owners
    <3> QED BY <1>2, <3>1, <3>2, <3>3, <3>4
  <2> QED BY <1>2, <2>1, FS_Singleton
<1> QED BY <1>1, <1>2

-----------------------------------------------------------------------------

\* The variables of the server keep their types in every behaviour; in particular
\* no session is finished twice, whoever of the attach, the timer, the shutdown and
\* the wait's task comes first.
THEOREM HttpTypeCorrect == Spec => []TypeOK
<1>1. LeaseInv => TypeOK
  BY DEF LeaseInv, Types, SessionOnce, TypeOK, Operations
<1> QED BY <1>1, LeaseInit, LeaseNext, PTL DEF Spec

\* A prepared PTY session has one owner until that one has finished it, for any
\* number of leases and of attaches that compete for one of them.
THEOREM LeaseHasOneOwnerThm == Spec => []LeaseHasOneOwner
BY OneOwner, LeaseInit, LeaseNext, PTL DEF Spec
=============================================================================
