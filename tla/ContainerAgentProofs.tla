------------------------ MODULE ContainerAgentProofs ------------------------
(***************************************************************************)
(* Proofs about ContainerAgent for any number of gateways, streams and     *)
(* requests, any limits and any timeouts: the shutdown and its watchdogs,  *)
(* the held sessions and the idle loop; and about ProcessReaper, which     *)
(* the loop calls, for any processes and services.                         *)
(***************************************************************************)
EXTENDS ContainerAgent, ProcessReaper, FiniteSetTheorems, TLAPS

\* TypeOK in three parts.
SessionTypes ==
    /\ session \in [Peers -> SessionStages]
    /\ age \in [Peers -> 0 .. Poll + 1]
TaskTypes ==
    /\ task \in [Triggers -> TaskStages]
    /\ woken \subseteq Triggers
    /\ shutting \in BOOLEAN /\ complete \in BOOLEAN
    /\ exit \in {"no", "graceful", "forced"}
    /\ action \in IdleActions
TimerTypes ==
    /\ stopTime \in 0 .. Budget
    /\ watchdog \in NoTimer .. Budget + Margin + IdleMinimum + Minimum
    /\ poll \in NoTimer .. Poll
    /\ loaded \in {"none", "busy", "free"}
    /\ idleFor \in NoTimer .. Grace
    /\ sinceLong \in 0 .. Grace

Types == SessionTypes /\ TaskTypes /\ TimerTypes

\* The idle loop looks when its timer is over, and its own shutdown is its last step.
LoopInv ==
    /\ loaded # "none" => poll = 0
    /\ task["idle"] # "none" => poll = NoTimer

\* A shutdown that is not complete has somebody who carries it out, or is about to.
StopInv ==
    /\ shutting /\ ~complete => \E t \in Triggers : task[t] = "stopping"
    /\ watchdog # NoTimer /\ ~complete => \E t \in Triggers : task[t] \in {"begun", "stopping"}
    /\ \A t \in Triggers : task[t] = "stopping" => shutting

\* Until the stop is complete, the watchdog has the margin and whatever the services
\* have not yet used of their timeouts.
WatchdogInv ==
    ~complete => watchdog = NoTimer \/ watchdog + stopTime >= Budget + Margin

\* Who has returned, or is about to tell the others, did so after the stop.
CompleteInv ==
    /\ \A t \in Triggers : task[t] \in {"notifying", "returned", "exiting", "gone"} => complete
    /\ exit = "graceful" => complete
    /\ exit = "forced" => watchdog = 0

\* Once the stop is complete, whoever waits has been notified or is about to be; when
\* a watchdog is over, nobody waits.
WaitInv ==
    /\ complete => \A t \in Triggers :
          task[t] = "parked" => t \in woken \/ \E u \in Triggers : task[u] = "notifying"
    /\ watchdog = 0 => \A t \in Triggers : task[t] # "parked"

HeldHolders == {p \in Holders : Held(p)}

\* The semaphore of the held sessions.
HoldInv == IsFiniteSet(HeldHolders) /\ Cardinality(HeldHolders) <= MaxHolds

\* As long as the idle loop believes itself idle, no session is older than its last
\* look, and no long one ended later than idle_since.
GraceInv ==
    /\ \A p \in Peers : ~Counted(p) => age[p] = 0
    /\ loaded = "free" => \A p \in Peers : age[p] = 0
    /\ poll # NoTimer /\ idleFor # NoTimer =>
          sinceLong >= idleFor /\ \A p \in Peers : age[p] <= Poll - poll

AgentInv ==
    /\ Types /\ LoopInv /\ StopInv /\ WatchdogInv /\ CompleteInv /\ WaitInv /\ HoldInv /\ GraceInv

-----------------------------------------------------------------------------
(* Types                                                                    *)

LEMMA TypesInit == Init => Types
<1> SUFFICES ASSUME Init PROVE Types
  OBVIOUS
<1>1. SessionTypes
  BY LimitsAssumption DEF Init, SessionTypes, SessionStages
<1>2. TaskTypes
  BY DEF Init, TaskTypes, TaskStages
<1>3. TimerTypes
  BY LimitsAssumption DEF Init, TimerTypes, NoTimer
<1> QED BY <1>1, <1>2, <1>3 DEF Types

LEMMA SessionTypesNext == Types /\ [Next]_vars => SessionTypes'
<1> SUFFICES ASSUME SessionTypes, [Next]_vars PROVE SessionTypes'
  BY DEF Types
<1> USE LimitsAssumption DEF SessionTypes, SessionStages, SetSession, Peers
<1>1. ASSUME NEW h \in Holders, ConnectHolder(h) \/ Disconnect(h) \/ GrantHold(h) PROVE SessionTypes'
  BY <1>1 DEF ConnectHolder, Disconnect, GrantHold, history
<1>2. ASSUME NEW s \in Streams, AcceptStream(s) PROVE SessionTypes'
  BY <1>2 DEF AcceptStream, history
<1>3. ASSUME NEW p \in Peers, CountSession(p) \/ EndSession(p) PROVE SessionTypes'
  BY <1>3 DEF CountSession, EndSession
<1>4. CASE Tick
  BY <1>4 DEF Tick, Lesser
<1>5. CASE UNCHANGED <<session, age>>
  BY <1>5
<1> HIDE DEF SessionTypes, SessionStages, SetSession, Peers
<1> QED
  BY <1>1, <1>2, <1>3, <1>4, <1>5
     DEF Next, vars, agentVars, idleVars, history, SessionStep, ShutdownStep, IdleStep, ShutdownAgent,
     FinishStop, NotifyWaiters, Arm, Park, Wake, AnswerShutdown, ExitGracefully, ForceExit,
     LoadCounters, StayAttached, StayIdle, IdleShutdown, IdleReap, Signal, ConnectRequest,
     RequestShutdown

LEMMA TriggersAre == "idle" \in Triggers /\ "signal" \in Triggers /\ Requests \subseteq Triggers
                       /\ "idle" \notin Requests /\ "signal" \notin Requests
BY DistinctAssumption DEF Triggers

LEMMA TaskTypesNext == Types /\ [Next]_vars => TaskTypes'
<1> SUFFICES ASSUME TaskTypes, [Next]_vars PROVE TaskTypes'
  BY DEF Types
<1> USE TriggersAre DEF TaskTypes, TaskStages, SetTask, agentVars, idleVars
<1>1. ASSUME NEW t \in Triggers, ShutdownAgent(t) \/ FinishStop(t) \/ NotifyWaiters(t)
      PROVE  TaskTypes'
  BY <1>1 DEF ShutdownAgent, FinishStop, NotifyWaiters
<1>2. ASSUME NEW t \in Triggers, Arm(t) \/ Park(t) \/ Wake(t) PROVE TaskTypes'
  BY <1>2 DEF Arm, Park, Wake
<1>3. ASSUME NEW t \in Triggers, AnswerShutdown(t) \/ ExitGracefully(t) PROVE TaskTypes'
  BY <1>3 DEF AnswerShutdown, ExitGracefully
<1>4. CASE ForceExit \/ Signal
  BY <1>4 DEF ForceExit, Signal
<1>5. CASE IdleShutdown
  BY <1>5 DEF IdleShutdown
<1>6. ASSUME NEW r \in Requests, ConnectRequest(r) \/ RequestShutdown(r) PROVE TaskTypes'
  BY <1>6 DEF ConnectRequest, RequestShutdown
<1>7. CASE Tick
  BY <1>7 DEF Tick
<1>8. CASE UNCHANGED <<task, woken, shutting, complete, exit, action>>
  BY <1>8
<1> HIDE DEF TaskTypes, TaskStages, SetTask
<1> QED
  BY <1>1, <1>2, <1>3, <1>4, <1>5, <1>6, <1>7, <1>8
     DEF Next, vars, SessionStep, ShutdownStep, IdleStep, LoadCounters, StayAttached, StayIdle,
     IdleReap, ConnectHolder, Disconnect, GrantHold, AcceptStream, CountSession, EndSession

\* A watchdog is never shorter than the services may take, and what Schedule leaves
\* is the old one or a full one.
LEMMA ScheduleIs ==
    ASSUME TimerTypes, NEW minimum \in {IdleMinimum, Minimum}, Schedule(minimum)
    PROVE  /\ watchdog' \in 0 .. Budget + Margin + IdleMinimum + Minimum
           /\ watchdog' = watchdog \/ watchdog' >= Budget + Margin
           /\ watchdog' = 0 => watchdog = 0
BY LimitsAssumption DEF TimerTypes, Schedule, WatchdogDelay, Greater, Lesser, NoTimer

LEMMA TimerTypesNext == Types /\ [Next]_vars => TimerTypes'
<1> SUFFICES ASSUME TimerTypes, [Next]_vars PROVE TimerTypes'
  BY DEF Types
<1> USE LimitsAssumption DEF agentVars, idleVars, history, NoTimer
<1>1. ASSUME NEW p \in Peers, EndSession(p) PROVE TimerTypes'
  BY <1>1 DEF EndSession, TimerTypes
<1>2. CASE LoadCounters \/ StayAttached \/ StayIdle \/ IdleReap
  BY <1>2 DEF LoadCounters, StayAttached, StayIdle, IdleReap, Greater, TimerTypes
<1>3. CASE IdleShutdown
  <2>1. watchdog' \in 0 .. Budget + Margin + IdleMinimum + Minimum
    BY <1>3, ScheduleIs DEF IdleShutdown
  <2> QED BY <1>3, <2>1 DEF IdleShutdown, Greater, TimerTypes
<1>4. CASE Signal
  <2>1. watchdog' \in 0 .. Budget + Margin + IdleMinimum + Minimum
    BY <1>4, ScheduleIs DEF Signal
  <2> QED BY <1>4, <2>1 DEF Signal, TimerTypes
<1>5. ASSUME NEW r \in Requests, RequestShutdown(r) PROVE TimerTypes'
  <2>1. watchdog' \in 0 .. Budget + Margin + IdleMinimum + Minimum \/ watchdog' = watchdog
    BY <1>5, ScheduleIs DEF RequestShutdown
  <2> QED BY <1>5, <2>1 DEF RequestShutdown, TimerTypes
<1>6. CASE Tick
  BY <1>6 DEF Tick, AtOnce, Sooner, Older, Lesser, TimerTypes
<1>7. CASE UNCHANGED <<stopTime, watchdog, poll, loaded, idleFor, sinceLong>>
  BY <1>7 DEF TimerTypes
<1> QED
  BY <1>1, <1>2, <1>3, <1>4, <1>5, <1>6, <1>7
     DEF Next, vars, SessionStep, ShutdownStep, IdleStep, ConnectHolder, Disconnect, GrantHold,
     AcceptStream, CountSession, ShutdownAgent, FinishStop, NotifyWaiters, Arm, Park, Wake,
     AnswerShutdown, ExitGracefully, ForceExit, ConnectRequest

LEMMA TypesNext == Types /\ [Next]_vars => Types'
BY SessionTypesNext, TaskTypesNext, TimerTypesNext DEF Types

-----------------------------------------------------------------------------
(* The shutdown                                                             *)

LEMMA AgentInit == Init => LoopInv /\ StopInv /\ WatchdogInv /\ CompleteInv /\ WaitInv
BY TriggersAre DEF Init, LoopInv, StopInv, WatchdogInv, CompleteInv, WaitInv, NoTimer

LEMMA TaskSet ==
    ASSUME TaskTypes, NEW t \in Triggers, NEW v, SetTask(t, v)
    PROVE  \A u \in Triggers : task'[u] = IF u = t THEN v ELSE task[u]
BY DEF TaskTypes, SetTask

LEMMA LoopNext == Types /\ LoopInv /\ [Next]_vars => LoopInv'
<1> SUFFICES ASSUME TaskTypes, TimerTypes, LoopInv, [Next]_vars PROVE LoopInv'
  BY DEF Types
<1> USE TriggersAre, LimitsAssumption DEF LoopInv, NoTimer, agentVars, idleVars
<1>1. ASSUME NEW t \in Triggers, NEW v, task[t] # "none", SetTask(t, v), UNCHANGED <<poll, loaded>>
      PROVE  LoopInv'
  BY <1>1, TaskSet
<1>2. ASSUME NEW t \in Triggers, NEW v, t # "idle", SetTask(t, v), UNCHANGED <<poll, loaded>>
      PROVE  LoopInv'
  BY <1>2, TaskSet
<1>3. CASE LoadCounters \/ StayAttached \/ StayIdle \/ IdleReap
  BY <1>3 DEF LoadCounters, StayAttached, StayIdle, IdleReap
<1>4. CASE IdleShutdown
  BY <1>4 DEF IdleShutdown
<1>5. CASE Tick
  BY <1>5 DEF Tick, AtOnce, Sooner, TaskTypes, TimerTypes
<1>6. CASE UNCHANGED <<task, poll, loaded>>
  BY <1>6
<1>7. ASSUME NEW t \in Triggers, ShutdownAgent(t) \/ FinishStop(t) \/ NotifyWaiters(t) \/ Arm(t)
               \/ Park(t) \/ Wake(t) \/ AnswerShutdown(t)
      PROVE  LoopInv'
  <2>1. task[t] # "none" /\ UNCHANGED <<poll, loaded>> /\ \E v : SetTask(t, v)
    BY <1>7 DEF ShutdownAgent, FinishStop, NotifyWaiters, Arm, Park, Wake, AnswerShutdown
  <2> QED BY <1>1, <2>1
<1>8. ASSUME NEW r \in Requests, ConnectRequest(r) \/ RequestShutdown(r) PROVE LoopInv'
  <2>1. r # "idle" /\ UNCHANGED <<poll, loaded>> /\ \E v : SetTask(r, v)
    BY <1>8 DEF ConnectRequest, RequestShutdown
  <2> QED BY <1>2, <2>1
<1>9. CASE Signal
  BY <1>2, <1>9 DEF Signal
<1> HIDE DEF LoopInv
<1> QED
  BY <1>3, <1>4, <1>5, <1>6, <1>7, <1>8, <1>9
     DEF Next, vars, SessionStep, ShutdownStep, IdleStep, ExitGracefully, ForceExit, ConnectHolder,
     Disconnect, GrantHold, AcceptStream, CountSession, EndSession

LEMMA StopNext == Types /\ LoopInv /\ StopInv /\ [Next]_vars => StopInv'
<1> SUFFICES ASSUME TaskTypes, TimerTypes, LoopInv, StopInv, [Next]_vars PROVE StopInv'
  BY DEF Types
<1> USE TriggersAre DEF agentVars, idleVars
\* A task that begins: nobody who carries the shutdown out is forgotten.
<1>1. ASSUME NEW t \in Triggers, task[t] \notin {"begun", "stopping"}, SetTask(t, "begun"),
             UNCHANGED <<shutting, complete>>
      PROVE  StopInv'
  <2>1. \A u \in Triggers : task'[u] = IF u = t THEN "begun" ELSE task[u]
    BY <1>1, TaskSet
  <2> QED BY <1>1, <2>1 DEF StopInv
<1>2. ASSUME NEW t \in Triggers, NEW v, task[t] \notin {"begun", "stopping"},
             v # "stopping", SetTask(t, v), UNCHANGED <<shutting, complete, watchdog>>
      PROVE  StopInv'
  <2>1. \A u \in Triggers : task'[u] = IF u = t THEN v ELSE task[u]
    BY <1>2, TaskSet
  <2> QED BY <1>2, <2>1 DEF StopInv
<1>3. ASSUME NEW t \in Triggers, ShutdownAgent(t) PROVE StopInv'
  <2>1. \A u \in Triggers : task'[u] = IF u = t THEN (IF shutting THEN "late" ELSE "stopping") ELSE task[u]
    BY <1>3, TaskSet DEF ShutdownAgent
  <2>2. task[t] = "begun" /\ shutting' /\ complete' = complete /\ watchdog' = watchdog
    BY <1>3 DEF ShutdownAgent
  <2> QED BY <2>1, <2>2 DEF StopInv
<1>4. ASSUME NEW t \in Triggers, FinishStop(t) PROVE StopInv'
  <2>1. \A u \in Triggers : task'[u] = IF u = t THEN "notifying" ELSE task[u]
    BY <1>4, TaskSet DEF FinishStop
  <2> QED BY <1>4, <2>1 DEF FinishStop, StopInv
<1>5. ASSUME NEW t \in Triggers, NotifyWaiters(t) \/ Arm(t) \/ Park(t) \/ Wake(t) \/ AnswerShutdown(t)
      PROVE  StopInv'
  <2>1. /\ task[t] \notin {"begun", "stopping"} /\ UNCHANGED <<shutting, complete, watchdog>>
        /\ \E v : v # "stopping" /\ SetTask(t, v)
    BY <1>5 DEF NotifyWaiters, Arm, Park, Wake, AnswerShutdown
  <2> QED BY <1>2, <2>1
<1>6. CASE Signal
  BY <1>1, <1>6 DEF Signal
<1>7. CASE IdleShutdown
  <2>1. task["idle"] = "none"
    BY <1>7 DEF IdleShutdown, LoopInv, NoTimer
  <2> QED BY <1>1, <1>7, <2>1 DEF IdleShutdown
<1>8. ASSUME NEW r \in Requests, RequestShutdown(r) PROVE StopInv'
  <2>1. CASE SetTask(r, "begun")
    BY <1>1, <1>8, <2>1 DEF RequestShutdown
  <2>2. CASE SetTask(r, "closed") /\ UNCHANGED watchdog
    BY <1>2, <1>8, <2>2 DEF RequestShutdown
  <2> QED BY <1>8, <2>1, <2>2 DEF RequestShutdown
<1>9. ASSUME NEW r \in Requests, ConnectRequest(r) PROVE StopInv'
  BY <1>2, <1>9 DEF ConnectRequest
<1>10. CASE Tick
  BY <1>10 DEF Tick, AtOnce, Sooner, TaskTypes, TimerTypes, StopInv
<1>11. CASE UNCHANGED <<task, shutting, complete, watchdog>>
  BY <1>11 DEF StopInv
<1> QED
  BY <1>3, <1>4, <1>5, <1>6, <1>7, <1>8, <1>9, <1>10, <1>11
     DEF Next, vars, SessionStep, ShutdownStep, IdleStep, ExitGracefully, ForceExit, LoadCounters,
     StayAttached, StayIdle, IdleReap, ConnectHolder, Disconnect, GrantHold, AcceptStream,
     CountSession, EndSession

\* What the two timers leave, in numbers.
LEMMA Numbers ==
    /\ \A w, s \in Nat : w >= Budget + Margin => w + s >= Budget + Margin
    /\ \A w \in Int : \A s \in 0 .. Budget : w = 0 => ~(w + s >= Budget + Margin)
BY LimitsAssumption

\* Time passes only while somebody stops the services, so that the watchdog and the
\* services' timeouts run down together.
LEMMA WatchdogNext == Types /\ StopInv /\ WatchdogInv /\ [Next]_vars => WatchdogInv'
<1> DEFINE Ample == watchdog = NoTimer \/ watchdog + stopTime >= Budget + Margin
<1> SUFFICES ASSUME TimerTypes, StopInv, ~complete => Ample, [Next]_vars, ~complete'
             PROVE  Ample'
  BY DEF Types, WatchdogInv
<1> USE LimitsAssumption DEF agentVars, idleVars, NoTimer
<1>1. ASSUME NEW minimum \in {IdleMinimum, Minimum}, Schedule(minimum), UNCHANGED <<stopTime, complete>>
      PROVE  Ample'
  <2>1. /\ watchdog' \in 0 .. Budget + Margin + IdleMinimum + Minimum
        /\ watchdog' = watchdog \/ watchdog' >= Budget + Margin
    BY <1>1, ScheduleIs
  <2>2. ~complete /\ stopTime' = stopTime
    BY <1>1
  <2>3. Ample
    BY <2>2
  <2>4. CASE watchdog' = watchdog
    BY <2>2, <2>3, <2>4
  <2>5. CASE watchdog' >= Budget + Margin
    <3>1. stopTime' \in Nat /\ watchdog' \in Nat
      BY <2>1, <2>2 DEF TimerTypes
    <3>2. watchdog' + stopTime' >= Budget + Margin
      BY <2>5, <3>1, Numbers, Zenon
    <3> QED BY <3>2, Zenon DEF Ample
  <2> QED BY <2>1, <2>4, <2>5
<1>2. CASE IdleShutdown \/ Signal
  BY <1>1, <1>2 DEF IdleShutdown, Signal
<1>3. ASSUME NEW r \in Requests, RequestShutdown(r) PROVE Ample'
  <2>1. CASE Schedule(Minimum)
    BY <1>1, <1>3, <2>1 DEF RequestShutdown
  <2>2. CASE watchdog' = watchdog
    BY <1>3, <2>2 DEF RequestShutdown
  <2> QED BY <1>3, <2>1, <2>2 DEF RequestShutdown
<1>4. CASE Tick
  <2>1. complete' = complete /\ watchdog' = Sooner(watchdog)
    BY <1>4 DEF Tick
  <2>2. CASE watchdog = -1
    BY <2>1, <2>2 DEF Sooner
  <2>3. CASE watchdog # -1
    <3>1. PICK t \in Triggers : task[t] \in {"begun", "stopping"}
      BY <2>1, <2>3 DEF StopInv
    <3>2. stopTime' = stopTime + 1
      BY <1>4, <3>1 DEF Tick, AtOnce
    <3> QED BY <2>1, <2>3, <3>2 DEF Sooner, TimerTypes
  <2> QED BY <2>2, <2>3
<1>5. ASSUME NEW t \in Triggers, FinishStop(t) PROVE Ample'
  BY <1>5 DEF FinishStop
<1>6. ASSUME UNCHANGED <<watchdog, stopTime, complete>> PROVE Ample'
  BY <1>6
<1> HIDE DEF Ample
<1> QED
  BY <1>2, <1>3, <1>4, <1>5, <1>6
     DEF Next, vars, SessionStep, ShutdownStep, IdleStep, ExitGracefully, ForceExit, LoadCounters,
     StayAttached, StayIdle, IdleReap, ConnectHolder, Disconnect, GrantHold, AcceptStream,
     CountSession, EndSession, ShutdownAgent, NotifyWaiters, Arm, Park, Wake, AnswerShutdown,
     ConnectRequest

LEMMA CompleteNext == Types /\ CompleteInv /\ [Next]_vars => CompleteInv'
<1> SUFFICES ASSUME TaskTypes, CompleteInv, [Next]_vars PROVE CompleteInv'
  BY DEF Types
<1> USE TriggersAre DEF agentVars, idleVars
<1> DEFINE After == {"notifying", "returned", "exiting", "gone"}
\* Before the agent ends, a task moves; it is after the stop only if the stop is over.
<1>1. ASSUME exit = "no", exit' = exit, NEW t \in Triggers, NEW v, SetTask(t, v),
             complete => complete', v \in After => complete'
      PROVE  CompleteInv'
  <2>1. \A u \in Triggers : task'[u] = IF u = t THEN v ELSE task[u]
    BY <1>1, TaskSet
  <2> QED BY <1>1, <2>1 DEF CompleteInv
<1>2. ASSUME exit = "no", NEW t \in Triggers, ShutdownAgent(t) \/ FinishStop(t) \/ NotifyWaiters(t)
                                               \/ Arm(t) \/ Park(t) \/ Wake(t) \/ AnswerShutdown(t)
      PROVE  CompleteInv'
  <2>1. /\ exit' = exit /\ (complete => complete')
        /\ \E v : SetTask(t, v) /\ (v \in After => complete')
    BY <1>2 DEF ShutdownAgent, FinishStop, NotifyWaiters, Arm, Park, Wake, AnswerShutdown, CompleteInv
  <2> QED BY <1>1, <1>2, <2>1
<1>3. ASSUME exit = "no", NEW r \in Requests, ConnectRequest(r) \/ RequestShutdown(r)
      PROVE  CompleteInv'
  <2>1. exit' = exit /\ complete' = complete /\ \E v \in {"connected", "begun", "closed"} : SetTask(r, v)
    BY <1>3 DEF ConnectRequest, RequestShutdown
  <2> QED BY <1>1, <1>3, <2>1
<1>4. ASSUME exit = "no", Signal \/ IdleShutdown PROVE CompleteInv'
  <2>1. exit' = exit /\ complete' = complete /\ \E t \in Triggers : SetTask(t, "begun")
    BY <1>4 DEF Signal, IdleShutdown
  <2> QED BY <1>1, <1>4, <2>1
<1>5. ASSUME NEW t \in Triggers, ExitGracefully(t) PROVE CompleteInv'
  BY <1>5 DEF ExitGracefully, CompleteInv
<1>6. CASE ForceExit
  BY <1>6 DEF ForceExit, CompleteInv
<1>7. ASSUME exit = "no", Tick PROVE CompleteInv'
  BY <1>7 DEF Tick, CompleteInv, TaskTypes
<1>8. CASE UNCHANGED <<task, complete, exit, watchdog>>
  BY <1>8 DEF CompleteInv
<1> QED
  BY <1>2, <1>3, <1>4, <1>5, <1>6, <1>7, <1>8
     DEF Next, vars, SessionStep, ShutdownStep, IdleStep, LoadCounters, StayAttached, StayIdle,
     IdleReap, ConnectHolder, Disconnect, GrantHold, AcceptStream, CountSession, EndSession

\* A watchdog that is over finds the stop complete.
LEMMA OverMeansComplete ==
    ASSUME TimerTypes, WatchdogInv, watchdog = 0
    PROVE  complete
BY LimitsAssumption DEF TimerTypes, WatchdogInv, NoTimer

LEMMA WaitNext ==
    Types /\ LoopInv /\ WatchdogInv /\ WatchdogInv' /\ TimerTypes' /\ WaitInv /\ [Next]_vars => WaitInv'
<1> SUFFICES ASSUME TaskTypes, TimerTypes, TimerTypes', LoopInv, WatchdogInv, WatchdogInv', WaitInv,
                    [Next]_vars
             PROVE  WaitInv'
  BY DEF Types
<1> USE TriggersAre DEF agentVars, idleVars
<1>0. (watchdog = 0 => complete) /\ (watchdog' = 0 => complete')
  <2>1. ASSUME watchdog' = 0 PROVE watchdog' # -1 /\ ~(watchdog' + stopTime' >= Budget + Margin)
    <3>1. stopTime' \in 0 .. Budget
      BY DEF TimerTypes
    <3>2. watchdog' \in Int /\ watchdog' # -1
      BY <2>1
    <3> QED BY <2>1, <3>1, <3>2, Numbers, Zenon
  <2>2. watchdog' = 0 => complete'
    BY <2>1, Zenon DEF WatchdogInv, NoTimer
  <2> QED BY <2>2, OverMeansComplete
\* Neither does a task stop waiting or telling, nor does one begin to wait.
<1>1. ASSUME NEW t \in Triggers, NEW v, SetTask(t, v), task[t] # "notifying", v # "parked",
             UNCHANGED <<woken, complete>>, watchdog' = 0 => watchdog = 0
      PROVE  WaitInv'
  <2>1. \A u \in Triggers : task'[u] = IF u = t THEN v ELSE task[u]
    BY <1>1, TaskSet
  <2> QED BY <1>1, <2>1 DEF WaitInv
<1>2. ASSUME NEW t \in Triggers, ShutdownAgent(t) \/ Arm(t) \/ AnswerShutdown(t) PROVE WaitInv'
  <2>1. /\ task[t] # "notifying" /\ UNCHANGED <<woken, complete, watchdog>>
        /\ \E v : SetTask(t, v) /\ v # "parked"
    BY <1>2 DEF ShutdownAgent, Arm, AnswerShutdown
  <2> QED BY <1>1, <2>1
<1>3. ASSUME NEW t \in Triggers, FinishStop(t) PROVE WaitInv'
  <2>1. \A u \in Triggers : task'[u] = IF u = t THEN "notifying" ELSE task[u]
    BY <1>3, TaskSet DEF FinishStop
  <2> QED BY <1>3, <2>1 DEF FinishStop, WaitInv
<1>4. ASSUME NEW t \in Triggers, NotifyWaiters(t) PROVE WaitInv'
  <2>1. \A u \in Triggers : task'[u] = IF u = t THEN "returned" ELSE task[u]
    BY <1>4, TaskSet DEF NotifyWaiters
  <2> QED BY <1>4, <2>1 DEF NotifyWaiters, WaitInv
<1>5. ASSUME NEW t \in Triggers, Park(t) PROVE WaitInv'
  <2>1. CASE complete
    BY <1>1, <1>5, <2>1 DEF Park
  <2>2. CASE ~complete
    BY <1>0, <1>5, <2>2 DEF Park, WaitInv
  <2> QED BY <2>1, <2>2
<1>6. ASSUME NEW t \in Triggers, Wake(t) PROVE WaitInv'
  <2>1. \A u \in Triggers : task'[u] = IF u = t THEN "late" ELSE task[u]
    BY <1>6, TaskSet DEF Wake
  <2> QED BY <1>6, <2>1 DEF Wake, WaitInv
<1>7. ASSUME NEW r \in Requests, ConnectRequest(r) \/ RequestShutdown(r) PROVE WaitInv'
  <2>1. /\ task[r] # "notifying" /\ UNCHANGED <<woken, complete>>
        /\ \E v : SetTask(r, v) /\ v # "parked"
    BY <1>7 DEF ConnectRequest, RequestShutdown
  <2>2. watchdog' = 0 => watchdog = 0
    BY <1>7, ScheduleIs DEF ConnectRequest, RequestShutdown
  <2> QED BY <1>1, <2>1, <2>2
<1>8. CASE Signal \/ IdleShutdown
  <2>1. watchdog' = 0 => watchdog = 0
    BY <1>8, ScheduleIs DEF Signal, IdleShutdown
  <2>2. CASE Signal
    BY <1>1, <2>1, <2>2 DEF Signal
  <2>3. CASE IdleShutdown
    <3>1. task["idle"] = "none"
      BY <2>3 DEF IdleShutdown, LoopInv, NoTimer
    <3> QED BY <1>1, <2>1, <2>3, <3>1 DEF IdleShutdown
  <2> QED BY <1>8, <2>2, <2>3
<1>9. CASE Tick
  <2>1. \A t \in Triggers : task[t] # "notifying" /\ ~(task[t] = "parked" /\ t \in woken)
    BY <1>9 DEF Tick, AtOnce
  <2>2. complete => \A t \in Triggers : task[t] # "parked"
    BY <2>1 DEF WaitInv
  <2>3. \A t \in Triggers : task'[t] = "parked" => task[t] = "parked"
    BY <1>9 DEF Tick, TaskTypes
  <2>4. complete' = complete
    BY <1>9 DEF Tick
  <2> QED BY <1>0, <2>2, <2>3, <2>4 DEF WaitInv
<1>10. CASE UNCHANGED <<task, woken, complete, watchdog>>
  BY <1>10 DEF WaitInv
<1> QED
  BY <1>2, <1>3, <1>4, <1>5, <1>6, <1>7, <1>8, <1>9, <1>10
     DEF Next, vars, SessionStep, ShutdownStep, IdleStep, ExitGracefully, ForceExit, LoadCounters,
     StayAttached, StayIdle, IdleReap, ConnectHolder, Disconnect, GrantHold, AcceptStream,
     CountSession, EndSession

-----------------------------------------------------------------------------
(* Held sessions and the idle loop                                          *)

LEMMA SessionSet ==
    ASSUME SessionTypes, NEW p \in Peers, NEW v, SetSession(p, v)
    PROVE  \A q \in Peers : session'[q] = IF q = p THEN v ELSE session[q]
BY DEF SessionTypes, SetSession

LEMMA HoldInit == Init => HoldInv
<1> SUFFICES ASSUME Init PROVE HoldInv
  OBVIOUS
<1>1. HeldHolders = {}
  BY DEF Init, HeldHolders, Held, Peers
<1> QED BY <1>1, FS_EmptySet, LimitsAssumption DEF HoldInv

LEMMA HoldNext == Types /\ HoldInv /\ [Next]_vars => HoldInv'
<1> SUFFICES ASSUME SessionTypes, HoldInv, [Next]_vars PROVE HoldInv'
  BY DEF Types
<1> USE DEF agentVars, idleVars
<1> DEFINE H == {p \in Holders : session[p] \in {"granted", "counted", "brief"}}
           G == {p \in Holders : session'[p] \in {"granted", "counted", "brief"}}
<1>0. /\ HeldHolders = H /\ HeldHolders' = G
      /\ Holders \subseteq Peers /\ Streams \subseteq Peers /\ Holders \cap Streams = {}
  BY DistinctAssumption DEF HeldHolders, Held, Peers
<1>1. IsFiniteSet(H) /\ Cardinality(H) <= MaxHolds /\ Cardinality(H) \in Nat
  BY <1>0, FS_CardinalityType DEF HoldInv
<1>2. ASSUME G \subseteq H PROVE HoldInv'
  <2> HIDE DEF G, H
  <2>1. IsFiniteSet(G) /\ Cardinality(G) \in Nat /\ Cardinality(G) <= Cardinality(H)
    BY <1>1, <1>2, FS_Subset, FS_CardinalityType
  <2>2. Cardinality(G) <= MaxHolds
    BY <1>1, <2>1, LimitsAssumption
  <2> QED BY <1>0, <2>1, <2>2 DEF HoldInv
<1>3. ASSUME NEW h \in Holders, GrantHold(h) PROVE HoldInv'
  <2>1. \A q \in Peers : session'[q] = IF q = h THEN "granted" ELSE session[q]
    BY <1>0, <1>3, SessionSet DEF GrantHold
  <2>2. G = H \cup {h} /\ h \notin H
    BY <1>0, <1>3, <2>1 DEF GrantHold
  <2>3. Cardinality(H) < MaxHolds
    BY <1>3 DEF GrantHold, Held
  <2> HIDE DEF G, H
  <2>4. IsFiniteSet(G) /\ Cardinality(G) = Cardinality(H) + 1
    BY <1>1, <2>2, FS_AddElement
  <2>5. Cardinality(G) <= MaxHolds
    BY <1>1, <2>3, <2>4, LimitsAssumption
  <2> QED BY <1>0, <2>4, <2>5 DEF HoldInv
<1>4. ASSUME NEW h \in Holders, ConnectHolder(h) \/ Disconnect(h) PROVE G \subseteq H
  <2>1. \E v \in {"connected", "closed"} : SetSession(h, v)
    BY <1>4 DEF ConnectHolder, Disconnect
  <2> QED BY <1>0, <2>1, SessionSet
<1>5. ASSUME NEW s \in Streams, AcceptStream(s) PROVE G \subseteq H
  BY <1>0, <1>5, SessionSet DEF AcceptStream
<1>6. ASSUME NEW p \in Peers, CountSession(p) \/ EndSession(p) PROVE G \subseteq H
  <2>1. CASE CountSession(p)
    BY <1>0, <2>1, SessionSet DEF CountSession
  <2>2. CASE EndSession(p)
    BY <1>0, <2>2, SessionSet DEF EndSession
  <2> QED BY <1>6, <2>1, <2>2
<1>7. CASE Tick
  BY <1>0, <1>2, <1>7 DEF Tick
<1>8. CASE UNCHANGED session
  BY <1>2, <1>8
<1> HIDE DEF G, H
<1> QED
  BY <1>2, <1>3, <1>4, <1>5, <1>6, <1>7, <1>8
     DEF Next, vars, SessionStep, ShutdownStep, IdleStep, ShutdownAgent, FinishStop, NotifyWaiters,
     Arm, Park, Wake, AnswerShutdown, ExitGracefully, ForceExit, LoadCounters, StayAttached,
     StayIdle, IdleShutdown, IdleReap, Signal, ConnectRequest, RequestShutdown

LEMMA GraceInit == Init => GraceInv
BY DEF Init, GraceInv, NoTimer

LEMMA GraceNext == Types /\ LoopInv /\ GraceInv /\ [Next]_vars => GraceInv'
<1> SUFFICES ASSUME SessionTypes, TimerTypes, LoopInv, GraceInv, [Next]_vars PROVE GraceInv'
  BY DEF Types
<1> USE LimitsAssumption DEF agentVars, idleVars, history, NoTimer
\* A session that is not counted before or after moves.
<1>1. ASSUME NEW p \in Peers, NEW v, SetSession(p, v), v \notin {"counted", "brief"}, ~Counted(p),
             UNCHANGED <<poll, loaded, idleFor, age, sinceLong>>
      PROVE  GraceInv'
  <2>1. \A q \in Peers : Counted(q)' <=> Counted(q)
    BY <1>1, SessionSet DEF Counted
  <2> QED BY <1>1, <2>1 DEF GraceInv
<1>2. ASSUME NEW h \in Holders, ConnectHolder(h) \/ Disconnect(h) \/ GrantHold(h) PROVE GraceInv'
  <2>1. /\ UNCHANGED <<poll, loaded, idleFor, age, sinceLong>> /\ ~Counted(h) /\ h \in Peers
        /\ \E v : v \notin {"counted", "brief"} /\ SetSession(h, v)
    BY <1>2 DEF ConnectHolder, Disconnect, GrantHold, Counted, Peers
  <2> QED BY <1>1, <2>1
<1>3. ASSUME NEW s \in Streams, AcceptStream(s) PROVE GraceInv'
  <2>1. /\ UNCHANGED <<poll, loaded, idleFor, age, sinceLong>> /\ ~Counted(s) /\ s \in Peers
        /\ SetSession(s, "granted")
    BY <1>3 DEF AcceptStream, Counted, Peers
  <2> QED BY <1>1, <2>1
<1>4. ASSUME NEW p \in Peers, CountSession(p) PROVE GraceInv'
  <2>1. \A q \in Peers : age'[q] = IF q = p THEN 0 ELSE age[q]
    BY <1>4 DEF CountSession, SessionTypes
  <2>2. \A q \in Peers : q # p => (Counted(q)' <=> Counted(q))
    BY <1>4, SessionSet DEF CountSession, Counted
  <2>3. UNCHANGED <<poll, loaded, idleFor, sinceLong>>
    BY <1>4 DEF CountSession
  <2> QED BY <2>1, <2>2, <2>3 DEF GraceInv, TimerTypes
<1>5. ASSUME NEW p \in Peers, EndSession(p) PROVE GraceInv'
  <2>1. \A q \in Peers : age'[q] = IF q = p THEN 0 ELSE age[q]
    BY <1>5 DEF EndSession, SessionTypes
  <2>2. \A q \in Peers : q # p => (Counted(q)' <=> Counted(q))
    BY <1>5, SessionSet DEF EndSession, Counted
  <2>3. UNCHANGED <<poll, loaded, idleFor>>
    BY <1>5 DEF EndSession
  <2>4. poll # -1 /\ idleFor # -1 => sinceLong' = sinceLong
    <3> SUFFICES ASSUME poll # -1 /\ idleFor # -1 PROVE sinceLong' = sinceLong
      OBVIOUS
    <3>1. age[p] <= Poll - poll
      BY DEF GraceInv
    <3>2. ~(age[p] > Poll)
      BY <3>1 DEF SessionTypes, TimerTypes
    <3> QED BY <1>5, <3>2 DEF EndSession
  <2> QED BY <2>1, <2>2, <2>3, <2>4 DEF GraceInv, TimerTypes
<1>6. CASE LoadCounters
  BY <1>6 DEF LoadCounters, GraceInv, Counted
<1>7. CASE StayAttached
  BY <1>7 DEF StayAttached, GraceInv, Counted
<1>8. CASE StayIdle
  BY <1>8 DEF StayIdle, GraceInv, Counted, Greater, LoopInv, TimerTypes, SessionTypes
<1>9. CASE IdleShutdown
  BY <1>9 DEF IdleShutdown, GraceInv, Counted
<1>10. CASE IdleReap
  BY <1>10 DEF IdleReap, GraceInv, Counted, TimerTypes, SessionTypes
<1>11. CASE Tick
  <2>1. poll # 0 /\ loaded = "none"
    BY <1>11 DEF Tick, AtOnce, LoopInv
  <2>2. \A p \in Peers : Counted(p)' <=> Counted(p)
    BY <1>11 DEF Tick, Counted
  <2>3. \A p \in Peers : /\ age'[p] <= age[p] + 1
                         /\ ~Counted(p) => age'[p] = age[p]
                         /\ age'[p] \in Int
    BY <1>11 DEF Tick, Lesser, SessionTypes
  <2>4. loaded' = loaded
    BY <1>11 DEF Tick
  <2>5. ASSUME poll' # -1, idleFor' # -1
        PROVE  sinceLong' >= idleFor' /\ \A p \in Peers : age'[p] <= Poll - poll'
    <3>1. poll # -1 /\ idleFor # -1 /\ poll' = poll - 1
      BY <1>11, <2>5 DEF Tick, Sooner, Older
    <3>2. sinceLong >= idleFor /\ \A p \in Peers : age[p] <= Poll - poll
      BY <3>1 DEF GraceInv
    <3>3. sinceLong' >= idleFor'
      BY <1>11, <3>1, <3>2 DEF Tick, Older, Lesser, TimerTypes
    <3>4. \A p \in Peers : age'[p] <= Poll - poll'
      BY <2>3, <3>1, <3>2 DEF SessionTypes, TimerTypes
    <3> QED BY <3>3, <3>4
  <2> QED BY <2>1, <2>2, <2>3, <2>4, <2>5 DEF GraceInv
<1>12. CASE UNCHANGED <<session, poll, loaded, idleFor, age, sinceLong>>
  BY <1>12 DEF GraceInv, Counted
<1> QED
  BY <1>2, <1>3, <1>4, <1>5, <1>6, <1>7, <1>8, <1>9, <1>10, <1>11, <1>12
     DEF Next, vars, SessionStep, ShutdownStep, IdleStep, ShutdownAgent, FinishStop, NotifyWaiters,
     Arm, Park, Wake, AnswerShutdown, ExitGracefully, ForceExit, Signal, ConnectRequest,
     RequestShutdown

-----------------------------------------------------------------------------
(* The inductive invariant and the theorems                                 *)

LEMMA AgentInvInit == Init => AgentInv
BY TypesInit, AgentInit, HoldInit, GraceInit DEF AgentInv

LEMMA AgentInvNext == AgentInv /\ [Next]_vars => AgentInv'
<1> SUFFICES ASSUME AgentInv, [Next]_vars PROVE AgentInv'
  OBVIOUS
<1>1. Types /\ LoopInv /\ StopInv /\ WatchdogInv /\ CompleteInv /\ WaitInv /\ HoldInv /\ GraceInv
  BY DEF AgentInv
<1>2. Types' /\ TimerTypes' /\ LoopInv' /\ StopInv' /\ WatchdogInv' /\ CompleteInv'
  BY <1>1, TypesNext, TimerTypesNext, LoopNext, StopNext, WatchdogNext, CompleteNext
<1>3. WaitInv' /\ HoldInv' /\ GraceInv'
  BY <1>1, <1>2, WaitNext, HoldNext, GraceNext
<1> QED BY <1>2, <1>3 DEF AgentInv

LEMMA AgentInvariant == Spec => []AgentInv
BY AgentInvInit, AgentInvNext, PTL DEF Spec

\* Every variable has its type: in particular no timer leaves its range and the
\* services are never given longer than the sum of their timeouts.
THEOREM AgentTypeCorrect == Spec => []TypeOK
<1>1. AgentInv => TypeOK
  BY DEF AgentInv, Types, SessionTypes, TaskTypes, TimerTypes, TypeOK
<1> QED BY <1>1, AgentInvariant, PTL

\* Nobody is told of a shutdown, and the agent does not exit by itself, before the
\* services are stopped (shutdown_agent, wait_for_shutdown_complete).
THEOREM AnsweredAfterStopThm == Spec => []AnsweredAfterStop
<1>1. AgentInv => AnsweredAfterStop
  BY DEF AgentInv, CompleteInv, AnsweredAfterStop
<1> QED BY <1>1, AgentInvariant, PTL

\* No watchdog cuts a stop short that keeps to its timeouts, whatever the timeouts and
\* whichever triggers started one (schedule_forced_exit_after).
THEOREM StopNotCutShortThm == Spec => []StopNotCutShort
<1>1. ASSUME AgentInv, exit = "forced" PROVE complete
  <2>1. watchdog = 0
    BY <1>1 DEF AgentInv, CompleteInv
  <2> QED BY <1>1, <2>1, OverMeansComplete DEF AgentInv, Types
<1>2. AgentInv => StopNotCutShort
  BY <1>1 DEF StopNotCutShort
<1> QED BY <1>2, AgentInvariant, PTL

\* When a watchdog ends the agent, no trigger waits for a notification that it has
\* missed (wait_for_shutdown_complete creates the future before it looks at the flag).
THEOREM NoLostWakeUpThm == Spec => []NoLostWakeUp
<1>1. AgentInv => NoLostWakeUp
  BY DEF AgentInv, CompleteInv, WaitInv, NoLostWakeUp
<1> QED BY <1>1, AgentInvariant, PTL

\* Held sessions leave a connection of the control socket for a request, because there
\* are fewer permits for them than connections.
THEOREM HoldsLeaveRoomThm == Spec => []HoldsLeaveRoom
<1>1. ASSUME AgentInv, Cardinality(Connections) = MaxConnections,
             \A c \in Connections : c \notin Requests /\ Held(c)
      PROVE  FALSE
  <2>1. Connections \subseteq HeldHolders
    BY <1>1 DEF Connections, HeldHolders
  <2>2. IsFiniteSet(HeldHolders) /\ Cardinality(HeldHolders) <= MaxHolds
    BY <1>1 DEF AgentInv, HoldInv
  <2>3. /\ Cardinality(Connections) <= Cardinality(HeldHolders)
        /\ Cardinality(Connections) \in Nat /\ Cardinality(HeldHolders) \in Nat
    BY <2>1, <2>2, FS_Subset, FS_CardinalityType
  <2> QED BY <1>1, <2>2, <2>3, LimitsAssumption
<1>2. AgentInv => HoldsLeaveRoom
  BY <1>1 DEF HoldsLeaveRoom
<1> QED BY <1>2, AgentInvariant, PTL

\* The idle loop shuts down, or reaps, under no session that outlasts its poll interval
\* nor within the grace after one, although it looks at the sessions only once per
\* interval and acts on what it saw (evaluate_idle_state).
THEOREM LongSessionKeepsGraceThm == Spec => LongSessionKeepsGrace
<1>1. ASSUME AgentInv, [Next]_vars, IdleBegins PROVE IdleShutdown
  <2>1. "idle" \in Triggers /\ TaskTypes
    BY <1>1, TriggersAre DEF AgentInv, Types
  <2>2. ASSUME NEW t \in Triggers, NEW v, SetTask(t, v), t # "idle" \/ v # "begun" PROVE FALSE
    BY <1>1, <2>1, <2>2, TaskSet DEF IdleBegins
  <2>3. ASSUME NEW t \in Triggers, ShutdownAgent(t) \/ FinishStop(t) \/ NotifyWaiters(t) \/ Arm(t)
                 \/ Park(t) \/ Wake(t) \/ AnswerShutdown(t)
        PROVE  FALSE
    <3>1. \E v : v # "begun" /\ SetTask(t, v)
      BY <2>3 DEF ShutdownAgent, FinishStop, NotifyWaiters, Arm, Park, Wake, AnswerShutdown
    <3> QED BY <2>2, <3>1
  <2>4. ASSUME NEW r \in Requests, ConnectRequest(r) \/ RequestShutdown(r) PROVE FALSE
    <3>1. \E v : SetTask(r, v)
      BY <2>4 DEF ConnectRequest, RequestShutdown
    <3> QED BY <2>2, <3>1, TriggersAre
  <2>5. CASE Signal
    BY <2>2, <2>5, TriggersAre DEF Signal
  <2>6. CASE Tick
    BY <1>1, <2>1, <2>6 DEF Tick, IdleBegins
  <2>7. task' # task
    BY <1>1 DEF IdleBegins
  <2> QED
    BY <1>1, <2>3, <2>4, <2>5, <2>6, <2>7
       DEF Next, vars, agentVars, idleVars, SessionStep, ShutdownStep, IdleStep, ExitGracefully,
       ForceExit, LoadCounters, StayAttached, StayIdle, IdleReap, ConnectHolder, Disconnect,
       GrantHold, AcceptStream, CountSession, EndSession
<1>2. ASSUME AgentInv, IdleShutdown \/ IdleReap
      PROVE  sinceLong >= Grace /\ \A p \in Peers : age[p] <= Poll
  <2> USE LimitsAssumption DEF NoTimer
  <2>1. loaded = "free" /\ Greater(idleFor, 0) >= Grace
    BY <1>2 DEF IdleShutdown, IdleReap
  <2>2. poll = 0 /\ \A p \in Peers : age[p] = 0
    BY <1>2, <2>1 DEF AgentInv, LoopInv, GraceInv
  <2>3. CASE idleFor = -1
    BY <1>2, <2>1, <2>2, <2>3 DEF Greater, AgentInv, Types, TimerTypes
  <2>4. CASE idleFor # -1
    BY <1>2, <2>1, <2>2, <2>4 DEF Greater, AgentInv, Types, TimerTypes, GraceInv
  <2> QED BY <2>3, <2>4
<1>3. AgentInv /\ [Next]_vars =>
        [IdleBegins \/ IdleReap => sinceLong >= Grace /\ \A p \in Peers : age[p] <= Poll]_vars
  BY <1>1, <1>2
<1> QED BY <1>3, AgentInvariant, PTL DEF Spec, LongSessionKeepsGrace

-----------------------------------------------------------------------------
(* The reaper: ReapSparesTheRest, for any pids, services and number of      *)
(* processes that ReaperAssumption allows.                                  *)

Process == [start : 1 .. MaxStarts, comm : Names \cup {"agent"}, ppid : Pids \cup {0}, uid : Users,
            signals : SUBSET {"reap", "kill"}]

ReaperTypes ==
    /\ proc \in [Pids -> Process \cup {NoProcess}]
    /\ proc[AgentPid] # NoProcess
    /\ starts \in 1 .. MaxStarts
    /\ slot \in [Services -> Pids \cup {None}]
    /\ unread \in (SUBSET Services) \cup {None}
    /\ managed \subseteq Pids /\ fresh \subseteq Services
    /\ setting \in [uid : Users, dry_run : BOOLEAN, escalates : BOOLEAN]

\* Start times are given out once.
StartInv == \A p \in Pids : proc[p] # NoProcess => proc[p].start <= starts

\* What has been looked up is spared, or has been replaced since.
ManagedInv ==
    unread # None => \A s \in Services \ unread : slot[s] # None => slot[s] \in managed \/ s \in fresh

\* A sleeping escalation knows processes that were asked to end, by a start time
\* that no other process with the pid will have.
TaskInv ==
    /\ tasks # {} => setting.escalates
    /\ \A plan \in tasks : \A n \in plan :
         /\ n.pid \in Pids \ {AgentPid} /\ n.comm # "preserved"
         /\ n.start \in 1 .. starts
         /\ proc[n.pid] # NoProcess /\ proc[n.pid].start = n.start => "reap" \in proc[n.pid].signals

ReaperInv == ReaperTypes /\ ~(setting.dry_run /\ setting.escalates) /\ StartInv /\ ManagedInv /\ TaskInv

-----------------------------------------------------------------------------

LEMMA ProcessIsThere ==
    NoProcess.start = 0 /\ \A q \in Process : q # NoProcess /\ q.start # 0
BY DEF NoProcess, Process

LEMMA ReaperInvInit == ReaperInit => ReaperInv
<1> SUFFICES ASSUME ReaperInit PROVE ReaperInv
  OBVIOUS
<1> USE ReaperAssumption DEF ReaperInit
<1>1. [start |-> 1, comm |-> "agent", ppid |-> 0, uid |-> setting.uid, signals |-> {}] \in Process
  BY DEF Process
<1>2. proc \in [Pids -> Process \cup {NoProcess}]
  BY <1>1
<1>3. ReaperTypes
  <2>1. proc[AgentPid] # NoProcess
    BY <1>1, ProcessIsThere
  <2>2. 1 \in 1 .. MaxStarts
    OBVIOUS
  <2> QED BY <1>2, <2>1, <2>2 DEF ReaperTypes
<1>4. StartInv
  BY DEF StartInv
<1>5. ManagedInv /\ TaskInv
  BY DEF ManagedInv, TaskInv
<1> QED BY <1>3, <1>4, <1>5 DEF ReaperInv

\* Processes keep their start and their signals, or end, or start with a new start
\* time and no signal.
Lives ==
    \A p \in Pids :
        \/ proc[p] # NoProcess /\ proc'[p] # NoProcess
             /\ proc'[p].start = proc[p].start /\ proc'[p].signals = proc[p].signals
        \/ proc'[p] = NoProcess
        \/ proc[p] = NoProcess /\ proc'[p].start = starts + 1 /\ starts' = starts + 1

\* The container's own steps preserve the invariant on processes and signal nothing.
LEMMA LivesKeeps ==
    ASSUME ReaperInv, Lives, starts' \in {starts, starts + 1},
           UNCHANGED <<setting, tasks>>
    PROVE  StartInv' /\ TaskInv'
<1> USE ReaperAssumption DEF ReaperInv, ReaperTypes
<1>1. starts \in Nat /\ starts' \in Nat /\ starts <= starts'
  OBVIOUS
<1>2. ASSUME NEW p \in Pids, proc'[p] # NoProcess PROVE proc'[p].start <= starts'
  <2>1. proc[p] # NoProcess => proc[p].start \in Nat /\ proc[p].start <= starts
    BY DEF StartInv, Process
  <2>2. \/ proc[p] # NoProcess /\ proc'[p].start = proc[p].start
        \/ proc'[p].start = starts + 1 /\ starts' = starts + 1
    BY <1>2 DEF Lives
  <2> QED BY <1>1, <2>1, <2>2
<1>3. ASSUME NEW plan \in tasks, NEW n \in plan
      PROVE  /\ n.start \in 1 .. starts'
             /\ proc'[n.pid] # NoProcess /\ proc'[n.pid].start = n.start =>
                  "reap" \in proc'[n.pid].signals
  <2>1. /\ n.pid \in Pids /\ n.start \in 1 .. starts
        /\ proc[n.pid] # NoProcess /\ proc[n.pid].start = n.start => "reap" \in proc[n.pid].signals
    BY <1>3 DEF TaskInv
  <2>2. ASSUME proc'[n.pid] # NoProcess, proc'[n.pid].start = n.start
        PROVE  "reap" \in proc'[n.pid].signals
    <3>1. proc'[n.pid].start # starts + 1
      BY <1>1, <2>1, <2>2
    <3>2. /\ proc[n.pid] # NoProcess /\ proc'[n.pid].start = proc[n.pid].start
          /\ proc'[n.pid].signals = proc[n.pid].signals
      BY <2>1, <2>2, <3>1 DEF Lives
    <3> QED BY <2>1, <2>2, <3>2
  <2> QED BY <1>1, <2>1, <2>2
<1>4. StartInv'
  BY <1>2 DEF StartInv
<1>5. TaskInv'
  BY <1>3 DEF TaskInv
<1> QED BY <1>4, <1>5

LEMMA StartedLives ==
    ASSUME ReaperInv, NEW p \in Pids, NEW comm \in Names,
           NEW ppid \in Pids \cup {0}, NEW uid \in Users, Started(p, comm, ppid, uid)
    PROVE  /\ proc' \in [Pids -> Process \cup {NoProcess}] /\ proc'[AgentPid] # NoProcess
           /\ starts' = starts + 1 /\ starts' \in 1 .. MaxStarts
           /\ Lives
<1> USE ReaperAssumption DEF ReaperInv, ReaperTypes
<1>1. /\ proc[p] = NoProcess /\ starts' = starts + 1 /\ starts' \in 1 .. MaxStarts
      /\ proc' = [proc EXCEPT ![p] = [start |-> starts + 1, comm |-> comm, ppid |-> ppid,
                                      uid |-> uid, signals |-> {}]]
  BY DEF Started
<1>2. [start |-> starts + 1, comm |-> comm, ppid |-> ppid, uid |-> uid, signals |-> {}] \in Process
  BY <1>1 DEF Process
<1>3. proc' \in [Pids -> Process \cup {NoProcess}]
  BY <1>1, <1>2
<1>4. Lives
  BY <1>1 DEF Lives
<1>5. proc'[AgentPid] = proc[AgentPid]
  BY <1>1
<1> QED BY <1>1, <1>3, <1>4, <1>5

LEMMA UsersUnderAreUsers ==
    ASSUME ReaperInv, NEW ppid \in read_process_table \cup {0}
    PROVE  UsersUnder(ppid) \subseteq Users
BY DEF UsersUnder, read_process_table, ReaperInv, ReaperTypes, Process

LEMMA ForkKeeps ==
    ASSUME ReaperInv, NEW p \in Pids, Fork(p) PROVE ReaperInv' /\ Lives
<1>1. PICK comm \in Names, ppid \in read_process_table \cup {0} :
          \E uid \in UsersUnder(ppid) : Started(p, comm, ppid, uid)
  BY DEF Fork
<1>2. PICK uid \in UsersUnder(ppid) : Started(p, comm, ppid, uid)
  BY <1>1
<1>3. ppid \in Pids \cup {0} /\ uid \in Users
  BY UsersUnderAreUsers DEF read_process_table
<1>4. /\ proc' \in [Pids -> Process \cup {NoProcess}] /\ proc'[AgentPid] # NoProcess
      /\ starts' = starts + 1 /\ starts' \in 1 .. MaxStarts /\ Lives
  BY <1>2, <1>3, StartedLives
<1>5. UNCHANGED <<slot, setting, unread, managed, fresh, tasks>>
  BY DEF Fork
<1>6. StartInv' /\ TaskInv'
  BY <1>4, <1>5, LivesKeeps
<1>7. ReaperTypes' /\ ManagedInv'
  BY <1>4, <1>5 DEF ReaperInv, ReaperTypes, ManagedInv
<1> QED BY <1>4, <1>5, <1>6, <1>7 DEF ReaperInv

LEMMA ExecKeeps ==
    ASSUME ReaperInv, NEW p \in Pids, Exec(p) PROVE ReaperInv' /\ Lives
<1> USE DEF ReaperInv
<1>1. PICK comm \in Names : proc' = [proc EXCEPT ![p].comm = comm]
  BY DEF Exec
<1>2. proc[p] \in Process /\ UNCHANGED <<starts, slot, setting, unread, managed, fresh, tasks>>
  BY DEF Exec, ReaperTypes
<1>3. /\ proc'[p] \in Process /\ proc'[p].start = proc[p].start /\ proc'[p].signals = proc[p].signals
      /\ \A q \in Pids : q # p => proc'[q] = proc[q]
      /\ proc' \in [Pids -> Process \cup {NoProcess}]
  BY <1>1, <1>2 DEF Process, ReaperTypes
<1>4. Lives
  BY <1>2, <1>3, ProcessIsThere DEF Lives
<1>5. StartInv' /\ TaskInv'
  BY <1>2, <1>4, LivesKeeps
<1>6. ReaperTypes' /\ ManagedInv'
  <2>1. proc'[AgentPid] # NoProcess
    BY <1>3, ReaperAssumption DEF Exec, ReaperTypes
  <2> QED BY <1>2, <1>3, <2>1 DEF ReaperTypes, ManagedInv
<1> QED BY <1>2, <1>4, <1>5, <1>6

LEMMA ExitKeeps ==
    ASSUME ReaperInv, NEW p \in Pids, Exit(p) PROVE ReaperInv' /\ Lives
<1> USE DEF ReaperInv
<1>1. /\ proc' = [q \in Pids |-> IF q = p THEN NoProcess
                                 ELSE IF proc[q] # NoProcess /\ proc[q].ppid = p
                                   THEN [proc[q] EXCEPT !.ppid = AgentPid] ELSE proc[q]]
      /\ slot' = [s \in Services |-> IF slot[s] = p THEN None ELSE slot[s]]
      /\ UNCHANGED <<starts, setting, unread, managed, fresh, tasks>>
  BY DEF Exit
<1>2. ASSUME NEW q \in Pids, q # p
      PROVE  \/ proc'[q] = proc[q]
             \/ /\ proc[q] \in Process /\ proc'[q] \in Process
                /\ proc'[q].start = proc[q].start /\ proc'[q].signals = proc[q].signals
  <2>1. proc[q] # NoProcess => proc[q] \in Process
    BY DEF ReaperTypes
  <2> QED BY <1>1, <1>2, <2>1, ReaperAssumption DEF Process
<1>3. proc'[p] = NoProcess
  BY <1>1
<1>4. Lives
  BY <1>2, <1>3, ProcessIsThere DEF Lives, ReaperTypes
<1>5. StartInv' /\ TaskInv'
  BY <1>1, <1>4, LivesKeeps
<1>6. proc' \in [Pids -> Process \cup {NoProcess}]
  BY <1>1, <1>2, <1>3 DEF ReaperTypes
<1>7. ReaperTypes' /\ ManagedInv'
  <2>1. proc'[AgentPid] # NoProcess
    BY <1>2, ProcessIsThere, ReaperAssumption DEF Exit, ReaperTypes
  <2>2. slot' \in [Services -> Pids \cup {None}]
    BY <1>1 DEF ReaperTypes
  <2>3. ReaperTypes'
    BY <1>1, <1>6, <2>1, <2>2 DEF ReaperTypes
  <2>4. ManagedInv'
    BY <1>1 DEF ManagedInv
  <2> QED BY <2>3, <2>4
<1> QED BY <1>1, <1>4, <1>5, <1>7

LEMMA ServiceKeeps ==
    ASSUME ReaperInv, NEW s \in Services,
           TakeChild(s) \/ LookUp(s) \/ \E p \in Pids : StartService(s, p)
    PROVE  ReaperInv' /\ Lives
<1> USE DEF ReaperInv
<1>1. CASE TakeChild(s) \/ LookUp(s)
  <2>1. UNCHANGED <<proc, starts, setting, tasks>>
    BY <1>1 DEF TakeChild, LookUp
  <2>2. Lives
    BY <2>1 DEF Lives
  <2>3. StartInv' /\ TaskInv'
    BY <2>1, <2>2, LivesKeeps
  <2>4. ReaperTypes' /\ ManagedInv'
    <3>1. CASE TakeChild(s)
      BY <2>1, <3>1 DEF TakeChild, ReaperTypes, ManagedInv
    <3>2. CASE LookUp(s)
      <4>1. ReaperTypes'
        BY <2>1, <3>2 DEF LookUp, ReaperTypes
      <4>2. ManagedInv'
        BY <3>2 DEF LookUp, ManagedInv
      <4> QED BY <4>1, <4>2
    <3> QED BY <1>1, <3>1, <3>2
  <2> QED BY <2>1, <2>2, <2>3, <2>4
<1>2. ASSUME NEW p \in Pids, StartService(s, p) PROVE ReaperInv' /\ Lives
  <2>1. PICK uid \in UsersUnder(AgentPid) : Started(p, "app", AgentPid, uid)
    BY <1>2 DEF StartService
  <2>2. uid \in Users
    BY <2>1, UsersUnderAreUsers, ReaperAssumption DEF read_process_table, ReaperTypes
  <2>3. /\ proc' \in [Pids -> Process \cup {NoProcess}] /\ proc'[AgentPid] # NoProcess
        /\ starts' = starts + 1 /\ starts' \in 1 .. MaxStarts /\ Lives
    BY <2>1, <2>2, StartedLives, ReaperAssumption DEF Names
  <2>4. UNCHANGED <<setting, unread, managed, tasks>>
    BY <1>2 DEF StartService
  <2>5. StartInv' /\ TaskInv'
    BY <2>3, <2>4, LivesKeeps
  <2>6. ReaperTypes' /\ ManagedInv'
    BY <1>2, <2>3, <2>4 DEF StartService, ReaperTypes, ManagedInv
  <2> QED BY <2>3, <2>4, <2>5, <2>6
<1> QED BY <1>1, <1>2

-----------------------------------------------------------------------------
(* The reaper.                                                             *)

\* The processes of a set get a signal, the others keep theirs.
LEMMA SignalledProcesses ==
    ASSUME ReaperInv, NEW ps \in SUBSET read_process_table,
           NEW signal \in {"reap", "kill"}, Signalled(ps, signal)
    PROVE  /\ proc' \in [Pids -> Process \cup {NoProcess}]
           /\ \A p \in Pids : /\ proc'[p] = NoProcess <=> proc[p] = NoProcess
                              /\ proc[p] # NoProcess => proc'[p].start = proc[p].start
                              /\ p \notin ps => proc'[p] = proc[p]
                              /\ p \in ps => proc'[p].signals = proc[p].signals \cup {signal}
<1> USE DEF ReaperInv, ReaperTypes
<1>1. proc' = [p \in Pids |-> IF p \in ps THEN [proc[p] EXCEPT !.signals = @ \cup {signal}]
                              ELSE proc[p]]
  BY DEF Signalled
<1>2. ASSUME NEW p \in Pids, p \in ps
      PROVE  /\ proc[p] \in Process /\ proc'[p] \in Process
             /\ proc'[p].start = proc[p].start
             /\ proc'[p].signals = proc[p].signals \cup {signal}
  <2>1. proc[p] \in Process
    BY <1>2 DEF read_process_table
  <2>2. proc'[p] = [proc[p] EXCEPT !.signals = @ \cup {signal}]
    BY <1>1, <1>2
  <2> QED BY <2>1, <2>2 DEF Process
<1>3. \A p \in Pids : p \notin ps => proc'[p] = proc[p]
  BY <1>1
<1>4. proc' \in [Pids -> Process \cup {NoProcess}]
  BY <1>1, <1>2, <1>3
<1> QED BY <1>2, <1>3, <1>4, ProcessIsThere

\* The plan has neither the agent, nor what is preserved, nor what was looked up.
LEMMA PlanSpares ==
    ASSUME ReaperInv, NEW n \in build_reap_plan
    PROVE  /\ n.pid \in read_process_table /\ n.pid # AgentPid /\ n.pid \notin managed
           /\ n.comm = proc[n.pid].comm /\ n.comm # "preserved" /\ n.start = proc[n.pid].start
<1>1. PICK p \in read_process_table \ (managed \cup PreservedPids \cup {AgentPid}) :
          n = [pid |-> p, comm |-> proc[p].comm, start |-> proc[p].start]
  BY DEF build_reap_plan
<1>2. find_preserve_processes \subseteq PreservedPids
  BY DEF PreservedPids, find_preserve_processes
<1>3. proc[p].comm # "preserved"
  BY <1>1, <1>2 DEF find_preserve_processes
<1> QED BY <1>1, <1>3

\* What ReapSparesTheRest says of a step
Spares ==
    \A p \in Pids :
         \A signal \in IF proc[p] = NoProcess \/ proc'[p] = NoProcess THEN {}
                       ELSE proc'[p].signals \ proc[p].signals :
            /\ p # AgentPid /\ proc[p].comm # "preserved"
            /\ signal = "kill" => "reap" \in proc[p].signals
            /\ signal = "reap" => \A s \in Services : slot[s] = p => s \in fresh

LEMMA LivesSpares == Lives => Spares
BY DEF Lives, Spares

LEMMA ReapKeeps == ASSUME ReaperInv, Reap PROVE ReaperInv' /\ Spares
<1> USE ReaperAssumption DEF ReaperInv
<1>1. /\ unread = {} /\ unread' = None /\ managed' = {} /\ fresh' = {}
      /\ UNCHANGED <<starts, slot, setting>>
  BY DEF Reap
<1>2. ManagedInv'
  BY <1>1 DEF ManagedInv
<1>3. CASE setting.dry_run
  <2>1. UNCHANGED <<proc, tasks>>
    BY <1>3 DEF Reap
  <2>2. StartInv' /\ TaskInv' /\ ReaperTypes'
    BY <1>1, <2>1 DEF StartInv, TaskInv, ReaperTypes
  <2>3. Spares
    BY <2>1 DEF Spares
  <2> QED BY <1>1, <1>2, <2>2, <2>3
<1>4. CASE ~setting.dry_run
  <2> DEFINE ps == {m.pid : m \in build_reap_plan}
  <2>1. /\ Signalled(ps, "reap")
        /\ tasks' = IF setting.escalates THEN tasks \cup {build_reap_plan} ELSE tasks
    BY <1>4 DEF Reap
  <2>2. ps \subseteq read_process_table
    BY PlanSpares
  <2>3. /\ proc' \in [Pids -> Process \cup {NoProcess}]
        /\ \A p \in Pids : /\ proc'[p] = NoProcess <=> proc[p] = NoProcess
                           /\ proc[p] # NoProcess => proc'[p].start = proc[p].start
                           /\ p \notin ps => proc'[p] = proc[p]
                           /\ p \in ps => proc'[p].signals = proc[p].signals \cup {"reap"}
    BY <2>1, <2>2, SignalledProcesses
  <2>4. \A p \in ps : p # AgentPid /\ p \notin managed /\ proc[p].comm # "preserved"
    BY PlanSpares
  <2>5. StartInv'
    BY <1>1, <2>3 DEF StartInv
  <2>6. ReaperTypes'
    BY <1>1, <2>3 DEF ReaperTypes
  <2>7. TaskInv'
    <3>1. ASSUME NEW plan \in tasks, NEW n \in plan
          PROVE  /\ n.pid \in Pids \ {AgentPid} /\ n.comm # "preserved" /\ n.start \in 1 .. starts'
                 /\ proc'[n.pid] # NoProcess /\ proc'[n.pid].start = n.start =>
                      "reap" \in proc'[n.pid].signals
      <4>1. /\ n.pid \in Pids \ {AgentPid} /\ n.comm # "preserved" /\ n.start \in 1 .. starts
            /\ proc[n.pid] # NoProcess /\ proc[n.pid].start = n.start =>
                 "reap" \in proc[n.pid].signals
        BY <3>1 DEF TaskInv
      <4> HIDE DEF ps
      <4> QED BY <1>1, <2>3, <4>1
    <3>2. ASSUME NEW n \in build_reap_plan
          PROVE  /\ n.pid \in Pids \ {AgentPid} /\ n.comm # "preserved" /\ n.start \in 1 .. starts'
                 /\ "reap" \in proc'[n.pid].signals
      <4>1. /\ n.pid \in read_process_table /\ n.pid # AgentPid /\ n.comm # "preserved"
            /\ n.start = proc[n.pid].start /\ n.pid \in ps
        BY PlanSpares
      <4>2. /\ n.pid \in Pids /\ proc[n.pid] # NoProcess /\ proc[n.pid] \in Process
        BY <4>1 DEF read_process_table, ReaperTypes
      <4>3. n.start \in 1 .. starts
        <5> HIDE DEF ps
        <5>1. proc[n.pid].start \in 1 .. MaxStarts
          BY <4>2 DEF Process
        <5>2. proc[n.pid].start <= starts
          BY <4>2 DEF StartInv
        <5>3. starts \in Nat
          BY DEF ReaperTypes
        <5> QED BY <4>1, <5>1, <5>2, <5>3
      <4> HIDE DEF ps
      <4> QED BY <1>1, <2>3, <4>1, <4>2, <4>3
    <3> HIDE DEF ps
    <3>3. tasks' # {} => setting'.escalates
      BY <1>1, <2>1 DEF TaskInv
    <3> QED BY <2>1, <3>1, <3>2, <3>3 DEF TaskInv
  <2>8. \A s \in Services : slot[s] # None => slot[s] \in managed \/ s \in fresh
    BY <1>1 DEF ManagedInv
  <2>9. Spares
    <3> SUFFICES ASSUME NEW p \in Pids, NEW signal \in proc'[p].signals \ proc[p].signals
                 PROVE  /\ p # AgentPid /\ proc[p].comm # "preserved"
                        /\ signal = "kill" => "reap" \in proc[p].signals
                        /\ signal = "reap" => \A s \in Services : slot[s] = p => s \in fresh
      BY DEF Spares
    <3> HIDE DEF ps
    <3>1. p \in ps /\ signal = "reap"
      BY <2>3
    <3> QED BY <2>4, <2>8, <3>1
  <2> QED BY <1>1, <1>2, <2>5, <2>6, <2>7, <2>9
<1> QED BY <1>3, <1>4

\* The escalation kills those of its plan that are still the processes they were.
LEMMA EscalateKeeps ==
    ASSUME ReaperInv, NEW plan \in tasks, Escalate(plan) PROVE ReaperInv' /\ Spares
<1> USE ReaperAssumption DEF ReaperInv
<1> DEFINE same == {n \in plan : /\ proc[n.pid] # NoProcess
                                 /\ proc[n.pid].comm = n.comm
                                 /\ proc[n.pid].start = n.start}
           ps == {m.pid : m \in same}
<1>1. /\ Signalled(ps, "kill") /\ tasks' = tasks \ {plan}
      /\ UNCHANGED <<starts, slot, setting, unread, managed, fresh>>
  BY DEF Escalate, signal_matching_processes
<1>2. \A p \in ps : /\ p \in Pids \ {AgentPid} /\ proc[p] # NoProcess
                    /\ proc[p].comm # "preserved" /\ "reap" \in proc[p].signals
  BY DEF TaskInv
<1>3. ps \subseteq read_process_table
  BY <1>2 DEF read_process_table
<1> HIDE DEF ps, same
<1>4. /\ proc' \in [Pids -> Process \cup {NoProcess}]
      /\ \A p \in Pids : /\ proc'[p] = NoProcess <=> proc[p] = NoProcess
                         /\ proc[p] # NoProcess => proc'[p].start = proc[p].start
                         /\ p \notin ps => proc'[p] = proc[p]
                         /\ p \in ps => proc'[p].signals = proc[p].signals \cup {"kill"}
  BY <1>1, <1>3, SignalledProcesses
<1>5. ReaperTypes'
  BY <1>1, <1>4 DEF ReaperTypes
<1>6. StartInv'
  BY <1>1, <1>4 DEF StartInv
<1>7. ManagedInv'
  BY <1>1 DEF ManagedInv
<1>8. TaskInv'
  <2>1. ASSUME NEW other \in tasks', NEW n \in other
        PROVE  /\ n.pid \in Pids \ {AgentPid} /\ n.comm # "preserved" /\ n.start \in 1 .. starts'
               /\ proc'[n.pid] # NoProcess /\ proc'[n.pid].start = n.start =>
                    "reap" \in proc'[n.pid].signals
    <3>1. /\ n.pid \in Pids \ {AgentPid} /\ n.comm # "preserved" /\ n.start \in 1 .. starts
          /\ proc[n.pid] # NoProcess /\ proc[n.pid].start = n.start =>
               "reap" \in proc[n.pid].signals
      BY <1>1, <2>1 DEF TaskInv
    <3> QED BY <1>1, <1>4, <3>1
  <2>2. tasks' # {} => setting'.escalates
    BY <1>1 DEF TaskInv
  <2> QED BY <2>1, <2>2 DEF TaskInv
<1>9. Spares
  <2> SUFFICES ASSUME NEW p \in Pids, NEW signal \in proc'[p].signals \ proc[p].signals
               PROVE  /\ p # AgentPid /\ proc[p].comm # "preserved"
                      /\ signal = "kill" => "reap" \in proc[p].signals
                      /\ signal = "reap" => \A s \in Services : slot[s] = p => s \in fresh
    BY DEF Spares
  <2>1. p \in ps /\ signal = "kill"
    BY <1>4
  <2> QED BY <1>2, <2>1
<1> QED BY <1>1, <1>5, <1>6, <1>7, <1>8, <1>9

LEMMA BeginReapKeeps ==
    ASSUME ReaperInv, BeginReap \/ UNCHANGED reaperVars PROVE ReaperInv' /\ Spares
<1> USE DEF ReaperInv
<1>1. UNCHANGED <<proc, starts, slot, setting, managed, fresh, tasks>>
  BY DEF BeginReap, reaperVars
<1>2. unread' \in {unread, Services}
  BY DEF BeginReap, reaperVars
<1>3. ReaperTypes' /\ StartInv' /\ TaskInv'
  BY <1>1, <1>2 DEF ReaperTypes, StartInv, TaskInv
<1>4. ManagedInv'
  BY <1>1, <1>2 DEF ManagedInv
<1>5. Spares
  BY <1>1 DEF Spares
<1> QED BY <1>1, <1>3, <1>4, <1>5

LEMMA ReaperInvNext ==
    ASSUME ReaperInv, [ReaperNext]_reaperVars PROVE ReaperInv' /\ Spares
<1>1. ASSUME NEW p \in Pids, Fork(p) \/ Exec(p) \/ Exit(p) PROVE ReaperInv' /\ Spares
  BY <1>1, ForkKeeps, ExecKeeps, ExitKeeps, LivesSpares
<1>2. ASSUME NEW s \in Services, LookUp(s) \/ TakeChild(s) \/ \E p \in Pids : StartService(s, p)
      PROVE  ReaperInv' /\ Spares
  BY <1>2, ServiceKeeps, LivesSpares
<1> QED BY <1>1, <1>2, ReapKeeps, EscalateKeeps, BeginReapKeeps DEF ReaperNext

LEMMA ReaperInvariant == ReaperSpec => []ReaperInv
<1>1. ReaperInit => ReaperInv
  BY ReaperInvInit
<1>2. ReaperInv /\ [ReaperNext]_reaperVars => ReaperInv'
  BY ReaperInvNext
<1> QED BY <1>1, <1>2, PTL DEF ReaperSpec

\* TypeOK: the process table, the slots and the reaper's sets have their types.
THEOREM ReaperTypeCorrect == ReaperSpec => []ReaperTypeOK
<1>1. ReaperInv => ReaperTypeOK
  BY DEF ReaperInv, ReaperTypes, ReaperTypeOK, Process
<1>2. ReaperSpec => []ReaperInv
  BY ReaperInvariant
<1> QED BY <1>1, <1>2, PTL

\* ReapSparesTheRest: whatever processes start, fork, change their name and end, with
\* whatever pids, between the look at the services, the look at the process table and
\* the escalation, the reaper signals neither the agent, nor a preserved process, nor
\* a managed service it could know of, and kills only what it asked to end.
THEOREM ReapSparesTheRestThm == ReaperSpec => ReapSparesTheRest
<1>1. ReaperInv /\ [ReaperNext]_reaperVars => [Spares]_reaperVars
  BY ReaperInvNext
<1>2. ReaperSpec => []ReaperInv
  BY ReaperInvariant
<1>3. ReaperSpec => [][Spares]_reaperVars
  BY <1>1, <1>2, PTL DEF ReaperSpec
<1> QED BY <1>3 DEF ReapSparesTheRest, Spares

=============================================================================
