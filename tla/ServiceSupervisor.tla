-------------------------- MODULE ServiceSupervisor --------------------------
(***************************************************************************)
(* The container agent's services: one supervisor task per service, which  *)
(* waits for the service's dependencies, spawns its process, watches it    *)
(* and restarts it; and stop_services, which ends them all one by one.     *)
(*                                                                         *)
(* A supervisor and the stopper meet in two places only: the stopping flag *)
(* and the child slot, a mutex around the process handle.  Whoever takes   *)
(* the handle out of the slot terminates the process, and holds no lock    *)
(* while it waits for it to exit.                                          *)
(*                                                                         *)
(* Abstracted: durations (a sleep or a timeout ends at some time), backoff *)
(* lengths, logs, environments and users.  A spawn or a health probe may   *)
(* fail at any time.                                                       *)
(***************************************************************************)
EXTENDS Naturals, Sequences

CONSTANTS
    Services,   \* names of the configured services
    DependsOn,  \* [Services -> SUBSET Services], depends_on
    StopOrder,  \* what service_stop_order returns for them
    Policy,     \* [Services -> RestartPolicies], restart
    Probed,     \* services with a tcp or http health check
    Required    \* required services

RestartPolicies == {"never", "on-failure", "always"}

ASSUME ConfigAssumption ==
    /\ DependsOn \in [Services -> SUBSET Services]
    /\ Policy \in [Services -> RestartPolicies]
    /\ Probed \subseteq Services /\ Required \subseteq Services

\* ServiceOrder checks this of service_stop_order: each service once, and none
\* before a service that depends on it.
ASSUME StopOrderAssumption ==
    /\ StopOrder \in Seq(Services)
    /\ \A s \in Services : \E i \in DOMAIN StopOrder : StopOrder[i] = s
    /\ \A i, j \in DOMAIN StopOrder :
          /\ StopOrder[i] = StopOrder[j] => i = j
          /\ StopOrder[j] \in DependsOn[StopOrder[i]] => i < j

VARIABLES
    pc,        \* [Services -> Stages], where the service's supervisor is
    seen,      \* [Services -> dependencies found healthy in this pass]
    proc,      \* [Services -> Processes], the service's process
    owner,     \* [Services -> Owners], who has the process handle
    stopping,  \* services whose stopping flag is set
    stopper,   \* 0, or the place in StopOrder stop_services has reached
    step       \* where ManagedService::stop is for that service

vars == <<pc, seen, proc, owner, stopping, stopper, step>>

Stages == {"top", "gate", "watching", "probing", "tearing", "backoff", "gone"}
Processes == {"none", "up", "succeeded", "failed"}
Owners == {"slot", "supervisor", "stopper"}

TypeOK ==
    /\ pc \in [Services -> Stages]
    /\ seen \in [Services -> SUBSET Services]
    /\ proc \in [Services -> Processes]
    /\ owner \in [Services -> Owners]
    /\ stopping \subseteq Services
    /\ stopper \in 0 .. Len(StopOrder) + 1
    /\ step \in {"mark", "take", "wait"}

Init ==
    /\ pc = [s \in Services |-> "top"]
    /\ seen = [s \in Services |-> {}]
    /\ proc = [s \in Services |-> "none"]
    /\ owner = [s \in Services |-> "slot"]
    /\ stopping = {}
    /\ stopper = 0
    /\ step = "mark"

-----------------------------------------------------------------------------
(* Helpers.                                                                *)

\* The slot holds a handle: the process may have exited, but nobody has reaped it.
InSlot(s) == owner[s] = "slot" /\ proc[s] # "none"

\* What ManagedService::health_check may answer.  The default check looks into
\* the slot (an exited process still exists until it is reaped), a probe needs
\* somebody to answer it.
HealthAnswers(s) ==
    IF s \in Probed
    THEN {FALSE} \cup (IF proc[s] = "up" THEN {TRUE} ELSE {})
    ELSE {InSlot(s)}

\* required_health_restart
HealthRestarts(s) == s \in Required \cap Probed

ShouldRestart(s, success) ==
    Policy[s] = "always" \/ (Policy[s] = "on-failure" /\ ~success)

\* The stopper is past s: ManagedService::stop has returned.
Stopped(s) == \E i \in DOMAIN StopOrder : StopOrder[i] = s /\ i < stopper

Goto(s, stage) == pc' = [pc EXCEPT ![s] = stage]

\* The end of the loop of service_supervisor, once a run of the process is over.
AfterRun(s, success) ==
    Goto(s, IF s \in stopping \/ ~ShouldRestart(s, success) THEN "gone" ELSE "backoff")

-----------------------------------------------------------------------------
(* service_supervisor                                                      *)

\* (mistake: a service that waits for its dependencies does not look at the flag)
BeginPass_FlagUnread(s) ==
    /\ pc[s] = "top"
    /\ Goto(s, "gate")
    /\ seen' = [seen EXCEPT ![s] = {}]
    /\ UNCHANGED <<proc, owner, stopping, stopper, step>>

\* Each pass over the dependencies starts with a look at the flag.
BeginPass(s) ==
    /\ pc[s] = "top"
    /\ Goto(s, IF s \in stopping THEN "gone" ELSE "gate")
    /\ seen' = [seen EXCEPT ![s] = {}]
    /\ UNCHANGED <<proc, owner, stopping, stopper, step>>

\* wait_for_dependencies awaits one answer after the other; after a pass with a
\* miss it sleeps and starts over.
CheckDependency(s) ==
    /\ pc[s] = "gate"
    /\ \E d \in DependsOn[s] \ seen[s] : \E healthy \in HealthAnswers(d) :
          IF healthy
          THEN seen' = [seen EXCEPT ![s] = @ \cup {d}] /\ UNCHANGED pc
          ELSE Goto(s, "top") /\ UNCHANGED seen
    /\ UNCHANGED <<proc, owner, stopping, stopper, step>>

\* (mistake: the flag is not read again once the slot is locked)
StartService_Unchecked(s) ==
    /\ pc[s] = "gate" /\ DependsOn[s] \subseteq seen[s]
    /\ proc' = [proc EXCEPT ![s] = "up"]
    /\ owner' = [owner EXCEPT ![s] = "slot"]
    /\ Goto(s, "watching")
    /\ UNCHANGED <<seen, stopping, stopper, step>>

\* start_service holds the slot from its look at the flag until the handle is in.
StartService(s) ==
    /\ pc[s] = "gate" /\ DependsOn[s] \subseteq seen[s]
    /\ s \notin stopping
    /\ proc' = [proc EXCEPT ![s] = "up"]
    /\ owner' = [owner EXCEPT ![s] = "slot"]
    /\ Goto(s, "watching")
    /\ UNCHANGED <<seen, stopping, stopper, step>>

\* The spawn, or something before it, failed; or the service is stopping.
StartFails(s) ==
    /\ pc[s] = "gate" /\ DependsOn[s] \subseteq seen[s]
    /\ AfterRun(s, FALSE)
    /\ UNCHANGED <<seen, proc, owner, stopping, stopper, step>>

\* wait_for_service_exit_or_unhealthy: an empty slot counts as a success.
ObserveExit(s) ==
    /\ pc[s] = "watching"
    /\ IF InSlot(s)
       THEN /\ proc[s] # "up"
            /\ proc' = [proc EXCEPT ![s] = "none"]
            /\ AfterRun(s, proc[s] = "succeeded")
       ELSE /\ AfterRun(s, TRUE)
            /\ UNCHANGED proc
    /\ UNCHANGED <<seen, owner, stopping, stopper, step>>

\* After the startup timeout, a required service is probed.
BeginProbe(s) ==
    /\ pc[s] = "watching" /\ HealthRestarts(s)
    /\ InSlot(s) /\ proc[s] = "up"
    /\ Goto(s, "probing")
    /\ UNCHANGED <<seen, proc, owner, stopping, stopper, step>>

ProbeSucceeds(s) ==
    /\ pc[s] = "probing" /\ TRUE \in HealthAnswers(s)
    /\ Goto(s, "watching")
    /\ UNCHANGED <<seen, proc, owner, stopping, stopper, step>>

\* (mistake: the restart is scheduled while the old process is being terminated)
ProbeFails_Detached(s) ==
    /\ pc[s] = "probing"
    /\ IF InSlot(s)
       THEN owner' = [owner EXCEPT ![s] = "supervisor"]
       ELSE UNCHANGED owner
    /\ AfterRun(s, FALSE)
    /\ UNCHANGED <<seen, proc, stopping, stopper, step>>

\* The slot may have been emptied while the probe was awaited.
ProbeFails(s) ==
    /\ pc[s] = "probing"
    /\ IF InSlot(s)
       THEN owner' = [owner EXCEPT ![s] = "supervisor"] /\ Goto(s, "tearing")
       ELSE UNCHANGED owner /\ AfterRun(s, FALSE)
    /\ UNCHANGED <<seen, proc, stopping, stopper, step>>

\* stop_child_gracefully returns once the process is reaped, killed if need be.
TornDown(s) ==
    /\ pc[s] = "tearing"
    /\ proc' = [proc EXCEPT ![s] = "none"]
    /\ owner' = [owner EXCEPT ![s] = "slot"]
    /\ AfterRun(s, FALSE)
    /\ UNCHANGED <<seen, stopping, stopper, step>>

EndBackoff(s) ==
    /\ pc[s] = "backoff"
    /\ Goto(s, "top")
    /\ UNCHANGED <<seen, proc, owner, stopping, stopper, step>>

-----------------------------------------------------------------------------
(* stop_services and ManagedService::stop                                  *)

AtStopper(s) == stopper \in DOMAIN StopOrder /\ StopOrder[stopper] = s

NextService == stopper' = stopper + 1 /\ step' = "mark"

BeginStop ==
    /\ stopper = 0
    /\ stopper' = 1
    /\ UNCHANGED <<pc, seen, proc, owner, stopping, step>>

MarkStopping(s) ==
    /\ AtStopper(s) /\ step = "mark"
    /\ stopping' = stopping \cup {s}
    /\ step' = "take"
    /\ UNCHANGED <<pc, seen, proc, owner, stopper>>

\* With the handle goes a SIGTERM.  An empty slot: "service already stopped".
TakeChild(s) ==
    /\ AtStopper(s) /\ step = "take"
    /\ IF InSlot(s)
       THEN /\ owner' = [owner EXCEPT ![s] = "stopper"]
            /\ step' = "wait"
            /\ UNCHANGED stopper
       ELSE NextService /\ UNCHANGED owner
    /\ UNCHANGED <<pc, seen, proc, stopping>>

\* (mistake: SIGTERM is sent to every service before any is waited for)
ChildStopped_NotWaited(s) ==
    /\ AtStopper(s) /\ step = "wait"
    /\ NextService
    /\ UNCHANGED <<pc, seen, proc, owner, stopping>>

ChildStopped(s) ==
    /\ AtStopper(s) /\ step = "wait"
    /\ proc' = [proc EXCEPT ![s] = "none"]
    /\ owner' = [owner EXCEPT ![s] = "slot"]
    /\ NextService
    /\ UNCHANGED <<pc, seen, stopping>>

Exit(s) ==
    /\ proc[s] = "up"
    /\ \E end \in {"succeeded", "failed"} : proc' = [proc EXCEPT ![s] = end]
    /\ UNCHANGED <<pc, seen, owner, stopping, stopper, step>>

-----------------------------------------------------------------------------

Supervise(s) ==
    \/ BeginPass(s) \/ CheckDependency(s) \/ StartService(s) \/ StartFails(s)
    \/ ObserveExit(s) \/ BeginProbe(s) \/ ProbeSucceeds(s) \/ ProbeFails(s)
    \/ TornDown(s) \/ EndBackoff(s)

StopServices == \E s \in Services : MarkStopping(s) \/ TakeChild(s) \/ ChildStopped(s)

Next ==
    \/ \E s \in Services : Supervise(s) \/ Exit(s)
    \/ BeginStop
    \/ StopServices

Spec == Init /\ [][Next]_vars

\* Every task is polled; a process need not exit by itself.
FairSpec ==
    /\ Spec
    /\ \A s \in Services : WF_vars(Supervise(s))
    /\ WF_vars(StopServices)

-----------------------------------------------------------------------------
(* Properties.                                                             *)

Dependents(d) == {s \in Services : d \in DependsOn[s]}

BeingTornDown(s) == owner[s] = "supervisor" /\ pc[s] = "tearing"

\* Once ManagedService::stop has returned for a service, the service has no
\* process any more and never gets one again, wherever its supervisor was when
\* the flag was set: in a backoff, waiting for a dependency, probing, or between
\* its own look at the flag and the spawn.  The one process that may be left is
\* the one its supervisor is terminating as unhealthy.
NoServiceOutlivesStop ==
    \A s \in Services : Stopped(s) => proc[s] = "none" \/ BeingTornDown(s)

\* When stop_services terminates a service, each service that depends on it has
\* been terminated, or is being terminated by its own supervisor: no running
\* service ever loses its dependency to a shutdown.
DependentsStopFirst ==
    \A d \in Services : owner[d] = "stopper" =>
        \A s \in Dependents(d) : proc[s] = "none" \/ BeingTornDown(s)

\* A supervisor that waits to start a process has none: a restart never runs two
\* processes of one service, and never loses a handle nobody else will wait for.
RestartsOnlyTheDead ==
    \A s \in Services :
        /\ pc[s] \in {"top", "gate", "backoff"} => proc[s] = "none"
        /\ owner[s] = "supervisor" <=> pc[s] = "tearing"

\* A shutdown ends: ManagedService::stop returns for every service, every
\* supervisor ends and no process is left, whatever each of them was waiting for
\* when the shutdown began.
ShutdownEnds ==
    stopper # 0 ~> /\ stopper > Len(StopOrder)
                   /\ \A s \in Services : pc[s] = "gone" /\ proc[s] = "none"

=============================================================================
