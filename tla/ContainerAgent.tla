---------------------------- MODULE ContainerAgent ----------------------------
(***************************************************************************)
(* The container agent around its services: sessions held over the control *)
(* socket and streams over the SSH bridge, the idle loop that counts them  *)
(* and shuts the agent down when there are none, and the shutdown itself:  *)
(* begun by the idle loop, by a request or by a signal, by several at      *)
(* once, carried out by the first, and watched over by timers that end the *)
(* process if it takes too long.                                           *)
(*                                                                         *)
(* Time is discrete.  What the agent can do at once it does before time    *)
(* passes; a peer answers, hangs up or is silent when it likes, and comes  *)
(* back at the earliest a tick later.  Stopping the services, which        *)
(* ServiceSupervisor models, takes at most the sum of their timeouts here. *)
(***************************************************************************)
EXTENDS Integers, FiniteSets

CONSTANTS
    Holders,         \* gateways that hold a session over the control socket
    Streams,         \* clients of the SSH bridge
    Requests,        \* peers that ask for a shutdown
    MaxConnections,  \* permits of the control socket
    MaxHolds,        \* permits for held sessions
    IdleActions,     \* what idle_cleanup.action may be
    Preserving,      \* preserve_processes may match a process
    Poll,            \* idle_cleanup.poll_interval
    Grace,           \* idle_cleanup.idle_grace
    IdleMinimum,     \* idle_cleanup.shutdown_timeout + 5 s
    Minimum,         \* 30 s, for requests and signals
    Budget,          \* sum of the services' shutdown timeouts
    Margin           \* 5 s

Peers == Holders \cup Streams
Triggers == Requests \cup {"idle", "signal"}

ASSUME LimitsAssumption ==
    /\ MaxConnections \in Nat /\ MaxHolds \in Nat /\ MaxHolds < MaxConnections
    /\ Poll \in Nat \ {0} /\ Grace \in Nat /\ Budget \in Nat /\ Margin \in Nat \ {0}
    /\ IdleMinimum \in Nat \ {0} /\ Minimum \in Nat \ {0}
    /\ IdleActions \subseteq {"exit_container", "reap_processes"} /\ Preserving \in BOOLEAN

ASSUME DistinctAssumption ==
    Holders \cap Streams = {} /\ Peers \cap Requests = {} /\ {"idle", "signal"} \cap Requests = {}

VARIABLES
    session,    \* [Peers -> SessionStages]
    task,       \* [Triggers -> TaskStages], where whoever began a shutdown is
    woken,      \* tasks whose notification was sent
    shutting,   \* shutting_down; accepting_bridge is its complement
    complete,   \* shutdown_complete
    stopTime,   \* how long the services have been stopping
    watchdog,   \* time left to the first forced exit, or NoTimer
    exit,       \* how the agent ended
    action,     \* idle_cleanup.action, never changed
    poll,       \* time left to the next look of the idle loop, or NoTimer
    loaded,     \* the counters the idle loop has loaded: "none", "busy" or "free"
    idleFor,    \* how long idle_since is ago, at most Grace, or NoTimer
    age,        \* [Peers -> how long the session is counted, at most Poll + 1]
    sinceLong   \* time since a session longer than Poll ended, at most Grace

agentVars == <<session, task, woken, shutting, complete, stopTime, watchdog, exit>>
idleVars == <<action, poll, loaded, idleFor>>
history == <<age, sinceLong>>
vars == <<agentVars, idleVars, history>>

NoTimer == -1

\* connected: permit, but no request yet; granted: held:true written, or the
\* stream accepted; counted: in active_sessions or active_streams; brief: the
\* same, of a hold that found the agent shutting down.
\* closed: over, and not back before time has passed.
SessionStages == {"none", "connected", "granted", "counted", "brief", "closed"}

\* begun: the watchdog runs; armed, parked: wait_for_shutdown_complete with its
\* Notified future, before and after the look at the flag.
TaskStages == {"none", "connected", "closed", "begun", "stopping", "notifying", "late", "armed",
               "parked", "returned", "exiting", "gone"}

TypeOK ==
    /\ session \in [Peers -> SessionStages]
    /\ task \in [Triggers -> TaskStages]
    /\ woken \subseteq Triggers
    /\ shutting \in BOOLEAN /\ complete \in BOOLEAN
    /\ stopTime \in 0 .. Budget
    /\ watchdog \in NoTimer .. Budget + Margin + IdleMinimum + Minimum
    /\ exit \in {"no", "graceful", "forced"}
    /\ action \in IdleActions
    /\ poll \in NoTimer .. Poll
    /\ loaded \in {"none", "busy", "free"}
    /\ idleFor \in NoTimer .. Grace
    /\ age \in [Peers -> 0 .. Poll + 1]
    /\ sinceLong \in 0 .. Grace

Init ==
    /\ session = [p \in Peers |-> "none"]
    /\ task = [t \in Triggers |-> "none"]
    /\ woken = {}
    /\ shutting = FALSE /\ complete = FALSE
    /\ stopTime = 0
    /\ watchdog = NoTimer
    /\ exit = "no"
    /\ action \in IdleActions
    /\ poll = 0 /\ loaded = "none" /\ idleFor = NoTimer
    /\ age = [p \in Peers |-> 0]
    /\ sinceLong = Grace

-----------------------------------------------------------------------------
(* Helpers.                                                                *)

Lesser(a, b) == IF a < b THEN a ELSE b
Greater(a, b) == IF a < b THEN b ELSE a

Held(p) == session[p] \in {"granted", "counted", "brief"}
Counted(p) == session[p] \in {"counted", "brief"}

Connections ==
    {h \in Holders : session[h] \notin {"none", "closed"}} \cup
    {r \in Requests : task[r] \notin {"none", "closed", "exiting", "gone"}}

\* The connection loop ends with the signal.
Accepts == task["signal"] = "none" /\ Cardinality(Connections) < MaxConnections

SetSession(p, stage) == session' = [session EXCEPT ![p] = stage]
SetTask(t, stage) == task' = [task EXCEPT ![t] = stage]

-----------------------------------------------------------------------------
(* Sessions and streams.                                                   *)

ConnectHolder(h) ==
    /\ session[h] = "none" /\ Accepts
    /\ SetSession(h, "connected")
    /\ UNCHANGED <<task, woken, shutting, complete, stopTime, watchdog, exit, idleVars, history>>

\* No request in time, an empty or malformed one, a status request that is
\* answered, or one hold too many.
Disconnect(h) ==
    /\ session[h] = "connected"
    /\ SetSession(h, "closed")
    /\ UNCHANGED <<task, woken, shutting, complete, stopTime, watchdog, exit, idleVars, history>>

\* (mistake: holds are limited by the connections only)
GrantHold_Unlimited(h) ==
    /\ session[h] = "connected"
    /\ SetSession(h, "granted")
    /\ UNCHANGED <<task, woken, shutting, complete, stopTime, watchdog, exit, idleVars, history>>

\* held:true is written before the session is counted.
GrantHold(h) ==
    /\ session[h] = "connected"
    /\ Cardinality({p \in Holders : Held(p)}) < MaxHolds
    /\ SetSession(h, "granted")
    /\ UNCHANGED <<task, woken, shutting, complete, stopTime, watchdog, exit, idleVars, history>>

AcceptStream(s) ==
    /\ session[s] = "none" /\ ~shutting
    /\ SetSession(s, "granted")
    /\ UNCHANGED <<task, woken, shutting, complete, stopTime, watchdog, exit, idleVars, history>>

\* The hold looks at the flag when it begins to wait for its peer, never again.
CountSession(p) ==
    /\ session[p] = "granted"
    /\ SetSession(p, IF p \in Holders /\ shutting THEN "brief" ELSE "counted")
    /\ age' = [age EXCEPT ![p] = 0]
    /\ UNCHANGED <<task, woken, shutting, complete, stopTime, watchdog, exit, idleVars,
                   sinceLong>>

\* The peer hangs up; a brief hold ends by itself too.
EndSession(p) ==
    /\ Counted(p)
    /\ SetSession(p, "closed")
    /\ age' = [age EXCEPT ![p] = 0]
    /\ sinceLong' = IF age[p] > Poll THEN 0 ELSE sinceLong
    /\ UNCHANGED <<task, woken, shutting, complete, stopTime, watchdog, exit, idleVars>>

-----------------------------------------------------------------------------
(* Beginning a shutdown: schedule_forced_exit_after, then shutdown_agent.   *)

\* (mistake: the services' timeouts are left out)
WatchdogDelay_MinimumOnly(minimum) == minimum

WatchdogDelay(minimum) == Greater(minimum, Budget + Margin)

\* Each trigger schedules one; the first to fire ends the process.
Schedule(minimum) ==
    watchdog' = IF watchdog = NoTimer THEN WatchdogDelay(minimum)
                ELSE Lesser(watchdog, WatchdogDelay(minimum))

ConnectRequest(r) ==
    /\ task[r] = "none" /\ Accepts
    /\ SetTask(r, "connected")
    /\ UNCHANGED <<session, woken, shutting, complete, stopTime, watchdog, exit, idleVars, history>>

\* (mistake: the exit that follows the answer is trusted to happen)
RequestShutdown_Unwatched(r) ==
    /\ task[r] = "connected"
    /\ \/ SetTask(r, "begun")
       \/ SetTask(r, "closed")
    /\ UNCHANGED <<session, woken, shutting, complete, stopTime, watchdog, exit, idleVars, history>>

\* Not every connection brings an authorised request, or one at all.
RequestShutdown(r) ==
    /\ task[r] = "connected"
    /\ \/ SetTask(r, "begun") /\ Schedule(Minimum)
       \/ SetTask(r, "closed") /\ UNCHANGED watchdog
    /\ UNCHANGED <<session, woken, shutting, complete, stopTime, exit, idleVars, history>>

Signal ==
    /\ task["signal"] = "none"
    /\ SetTask("signal", "begun") /\ Schedule(Minimum)
    /\ UNCHANGED <<session, woken, shutting, complete, stopTime, exit, idleVars, history>>

\* (mistake: a repeated shutdown returns at once)
ShutdownAgent_NoWait(t) ==
    /\ task[t] = "begun"
    /\ SetTask(t, IF shutting THEN "returned" ELSE "stopping")
    /\ shutting' = TRUE
    /\ UNCHANGED <<session, woken, complete, stopTime, watchdog, exit, idleVars, history>>

\* shutdown_agent: the first one stops the services, the others wait.
ShutdownAgent(t) ==
    /\ task[t] = "begun"
    /\ SetTask(t, IF shutting THEN "late" ELSE "stopping")
    /\ shutting' = TRUE
    /\ UNCHANGED <<session, woken, complete, stopTime, watchdog, exit, idleVars, history>>

FinishStop(t) ==
    /\ task[t] = "stopping"
    /\ SetTask(t, "notifying")
    /\ complete' = TRUE
    /\ UNCHANGED <<session, woken, shutting, stopTime, watchdog, exit, idleVars, history>>

\* notify_waiters reaches the futures that exist, polled or not.
NotifyWaiters(t) ==
    /\ task[t] = "notifying"
    /\ SetTask(t, "returned")
    /\ woken' = {w \in Triggers : task[w] \in {"armed", "parked"}}
    /\ UNCHANGED <<session, shutting, complete, stopTime, watchdog, exit, idleVars, history>>

Arm(t) ==
    /\ task[t] = "late"
    /\ SetTask(t, "armed")
    /\ UNCHANGED <<session, woken, shutting, complete, stopTime, watchdog, exit, idleVars, history>>

\* (mistake: the notification is awaited without a look at the flag)
Park_Unchecked(t) ==
    /\ task[t] = "armed"
    /\ SetTask(t, "parked")
    /\ UNCHANGED <<session, woken, shutting, complete, stopTime, watchdog, exit, idleVars, history>>

Park(t) ==
    /\ task[t] = "armed"
    /\ SetTask(t, IF complete THEN "returned" ELSE "parked")
    /\ UNCHANGED <<session, woken, shutting, complete, stopTime, watchdog, exit, idleVars, history>>

\* A woken task creates a new future and looks again.
Wake(t) ==
    /\ task[t] = "parked" /\ t \in woken
    /\ SetTask(t, "late")
    /\ woken' = woken \ {t}
    /\ UNCHANGED <<session, shutting, complete, stopTime, watchdog, exit, idleVars, history>>

\* The answer is written and the process exits a moment later, or its peer is
\* gone: then the error ends the connection and nothing else.
AnswerShutdown(r) ==
    /\ task[r] = "returned" /\ r \in Requests
    /\ SetTask(r, "exiting") \/ SetTask(r, "gone")
    /\ UNCHANGED <<session, woken, shutting, complete, stopTime, watchdog, exit, idleVars, history>>

ExitGracefully(t) ==
    /\ task[t] = "exiting" \/ (task[t] = "returned" /\ t \notin Requests)
    /\ exit' = "graceful"
    /\ UNCHANGED <<session, task, woken, shutting, complete, stopTime, watchdog, idleVars, history>>

ForceExit ==
    /\ watchdog = 0
    /\ exit' = "forced"
    /\ UNCHANGED <<session, task, woken, shutting, complete, stopTime, watchdog, idleVars, history>>

-----------------------------------------------------------------------------
(* The idle loop.                                                          *)

\* evaluate_idle_state loads both counters first.
LoadCounters ==
    /\ poll = 0 /\ loaded = "none"
    /\ IF shutting
       THEN poll' = NoTimer /\ UNCHANGED loaded
       ELSE /\ loaded' = IF \E p \in Peers : Counted(p) THEN "busy" ELSE "free"
            /\ UNCHANGED poll
    /\ UNCHANGED <<agentVars, action, idleFor, history>>

\* (mistake: idle_since survives an attached session)
StayAttached_Since ==
    /\ loaded = "busy"
    /\ loaded' = "none" /\ poll' = Poll
    /\ UNCHANGED <<agentVars, action, idleFor, history>>

\* Attached, or preserved by a process that idle_cleanup names.
StayAttached ==
    /\ loaded = "busy" \/ (loaded = "free" /\ Preserving)
    /\ loaded' = "none" /\ poll' = Poll /\ idleFor' = NoTimer
    /\ UNCHANGED <<agentVars, action, history>>

StayIdle ==
    /\ loaded = "free" /\ Greater(idleFor, 0) < Grace
    /\ loaded' = "none" /\ poll' = Poll /\ idleFor' = Greater(idleFor, 0)
    /\ UNCHANGED <<agentVars, action, history>>

\* The sessions are not looked at again.
IdleShutdown ==
    /\ action = "exit_container"
    /\ loaded = "free" /\ Greater(idleFor, 0) >= Grace
    /\ SetTask("idle", "begun") /\ Schedule(IdleMinimum)
    /\ loaded' = "none" /\ poll' = NoTimer /\ idleFor' = Greater(idleFor, 0)
    /\ UNCHANGED <<session, woken, shutting, complete, stopTime, exit, action, history>>

\* Reaping starts a new grace.
IdleReap ==
    /\ action = "reap_processes"
    /\ loaded = "free" /\ Greater(idleFor, 0) >= Grace
    /\ loaded' = "none" /\ poll' = Poll /\ idleFor' = 0
    /\ UNCHANGED <<agentVars, action, history>>

-----------------------------------------------------------------------------
(* Time.                                                                   *)

\* What the agent does without waiting for anybody.
AtOnce ==
    \/ \E p \in Peers : session[p] = "granted"
    \/ \E t \in Triggers :
          \/ task[t] \in {"begun", "notifying", "late", "armed", "returned", "exiting"}
          \/ task[t] = "parked" /\ t \in woken
    \/ watchdog = 0
    \/ poll = 0

Older(n, max) == IF n = NoTimer THEN n ELSE Lesser(n + 1, max)

Sooner(n) == IF n = NoTimer THEN n ELSE n - 1

Tick ==
    /\ ~AtOnce
    /\ IF \E t \in Triggers : task[t] = "stopping"
       THEN stopTime < Budget /\ stopTime' = stopTime + 1
       ELSE UNCHANGED stopTime
    /\ watchdog' = Sooner(watchdog)
    /\ poll' = Sooner(poll)
    /\ idleFor' = Older(idleFor, Grace)
    /\ age' = [p \in Peers |-> IF Counted(p) THEN Lesser(age[p] + 1, Poll + 1) ELSE age[p]]
    /\ sinceLong' = Lesser(sinceLong + 1, Grace)
    /\ session' = [p \in Peers |-> IF session[p] = "closed" THEN "none" ELSE session[p]]
    /\ task' = [t \in Triggers |-> IF task[t] = "closed" THEN "none" ELSE task[t]]
    /\ UNCHANGED <<woken, shutting, complete, exit, action, loaded>>

-----------------------------------------------------------------------------

SessionStep ==
    \/ \E h \in Holders : ConnectHolder(h) \/ Disconnect(h) \/ GrantHold(h)
    \/ \E s \in Streams : AcceptStream(s)
    \/ \E p \in Peers : CountSession(p) \/ EndSession(p)

ShutdownStep ==
    \/ \E t \in Triggers :
          \/ ShutdownAgent(t) \/ FinishStop(t) \/ NotifyWaiters(t)
          \/ Arm(t) \/ Park(t) \/ Wake(t) \/ AnswerShutdown(t) \/ ExitGracefully(t)
    \/ ForceExit

IdleStep == LoadCounters \/ StayAttached \/ StayIdle \/ IdleShutdown \/ IdleReap

Next ==
    /\ exit = "no"
    /\ \/ SessionStep \/ ShutdownStep \/ IdleStep \/ Signal \/ Tick
       \/ \E r \in Requests : ConnectRequest(r) \/ RequestShutdown(r)

Spec == Init /\ [][Next]_vars

\* Every task is polled, and time goes on.
Fairness ==
    /\ WF_vars(exit = "no" /\ (ShutdownStep \/ IdleStep))
    /\ \A p \in Peers : WF_vars(exit = "no" /\ CountSession(p))
    /\ WF_vars(exit = "no" /\ Tick)

FairSpec == Spec /\ Fairness

-----------------------------------------------------------------------------
(* Properties.                                                             *)

\* Whoever is told that the agent shuts down, and whoever finds it gone by a
\* regular exit, can rely on its services having been stopped: a repeated
\* request returns with the first one, not before it.
AnsweredAfterStop ==
    /\ \A t \in Triggers : task[t] \in {"returned", "exiting", "gone"} => complete
    /\ exit = "graceful" => complete

\* No watchdog, whichever trigger started it and however late the services stop
\* within their timeouts, cuts a graceful stop short.
StopNotCutShort == exit = "forced" => complete

\* When a watchdog has to end the agent, no trigger is still waiting for a
\* shutdown that is complete: no notification was lost.
NoLostWakeUp == exit = "forced" => \A t \in Triggers : task[t] # "parked"

\* Whatever fails on the way, a shutdown that has begun ends the agent.
ShutdownEnds == shutting ~> exit # "no"

\* Held sessions never take all connections: when there is no permit left, a
\* connection that ends within the read timeout or with its answer has one.
HoldsLeaveRoom ==
    Cardinality(Connections) = MaxConnections =>
        \E c \in Connections : c \in Requests \/ ~Held(c)

IdleBegins == task["idle"] = "none" /\ task'["idle"] = "begun"

\* The idle loop shuts down, or reaps, only when no session that outlasts a poll
\* interval is going on, and none ended less than the grace ago.
LongSessionKeepsGrace ==
    [][IdleBegins \/ IdleReap => sinceLong >= Grace /\ \A p \in Peers : age[p] <= Poll]_vars

=============================================================================
