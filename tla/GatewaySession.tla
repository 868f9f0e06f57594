--------------------------- MODULE GatewaySession ---------------------------
(***************************************************************************)
(* The host gateway's session lifecycle: several operations, hosted by     *)
(* several gateway processes, share ONE container and ONE workspace.       *)
(*                                                                         *)
(* They coordinate through two things only: the lifecycle lock (an flock   *)
(* the kernel drops when its holder dies) and the session markers (files   *)
(* in the workspace's state directory that survive their writer).  Every   *)
(* change to the container is made by the lock holder; dropping a marker   *)
(* is not done under the lock.                                             *)
(*                                                                         *)
(* Abstracted: what a hook, an image or a socket is (a step of them either *)
(* succeeds or, under Faults, fails), the files a lock holder rewrites     *)
(* idempotently (agent config, keys, control-socket directory) and the     *)
(* published-port state, which no property here tells apart.               *)
(***************************************************************************)
EXTENDS Naturals, FiniteSets

CONSTANTS
    Ops,              \* operations; each runs once
    NoOp,             \* "nobody holds the lifecycle lock"
    Gateways,         \* gateway process instances (a CLI run, an HTTP server)
    Host,             \* [Ops -> Gateways], the process an operation runs in
    PidOf,            \* [Gateways -> pids]; two instances may reuse one pid
    Context,          \* [Ops -> sets of key=value atoms], the runtime context
    Kinds,            \* the kinds of operation that may occur
    GatewayIdle,      \* stop_when_idle with a gateway-owned idle_cleanup
    RemoveOnStop,     \* target.remove_on_stop
    Preserve,         \* a configured preserve process may be running
    Ephemeral,        \* the target has a session id
    WorkspaceCleanup, \* target.workspace.cleanup
    Faults,           \* hooks, runtime commands and readiness may fail
    Crashes,          \* a gateway process may be killed at any step
    Exits             \* the container may exit by itself

OpKinds == {"session", "up", "stop", "remove", "status"}

ASSUME OpsAssumption == NoOp \notin Ops
ASSUME HostAssumption == Host \in [Ops -> Gateways] /\ PidOf \in [Gateways -> Nat]
ASSUME KindsAssumption == Kinds \subseteq OpKinds
ASSUME PolicyAssumption ==
    /\ {GatewayIdle, RemoveOnStop, Preserve, Ephemeral} \subseteq BOOLEAN
    /\ {Faults, Crashes, Exits} \subseteq BOOLEAN
    /\ WorkspaceCleanup \in {"never", "success", "always"}

\* config/target.rs refuses every other combination when it loads a target.
ASSUME ValidatedTarget ==
    WorkspaceCleanup # "never" => Ephemeral /\ GatewayIdle /\ ~Preserve

VARIABLES
    kind,       \* [Ops -> Kinds], what the operation is
    pc,         \* [Ops -> Stages], where it is in its handler
    lock,       \* the operation holding the lifecycle lock, or NoOp
    markers,    \* operations whose session marker file exists
    container,  \* "absent", "stopped" or "running"
    label,      \* the context recorded in the container's labels
    workspace,  \* the workspace directory exists
    gateway,    \* [Gateways -> {"new", "live", "dead"}]
    clean,      \* operations that ended with Success or Canceled
    orphan,     \* [Ops -> runtime command still running after its gateway died]
    using,      \* history: live sessions that became ready on this container run
    waived,     \* history: the running container is nobody's to stop
    wiped       \* history: sessions whose marker a late removal of the workspace took

vars == <<kind, pc, lock, markers, container, label, workspace, gateway, clean,
          orphan, using, waived, wiped>>

\* The stages in which an operation holds the lifecycle lock.
Critical == {"ensure", "starting", "reusing", "undo", "stopping", "removing", "wiping",
             "purging"}
Stages == Critical \cup {"start", "sweep", "active", "ending", "grace", "purge", "done", "dead"}

\* The stages in which a session's marker stands for it.
Marked == {"ensure", "starting", "reusing", "undo", "active", "ending"}

TypeOK ==
    /\ kind \in [Ops -> Kinds]
    /\ pc \in [Ops -> Stages]
    /\ lock \in Ops \cup {NoOp}
    /\ markers \subseteq Ops
    /\ container \in {"absent", "stopped", "running"}
    /\ workspace \in BOOLEAN
    /\ gateway \in [Gateways -> {"new", "live", "dead"}]
    /\ clean \subseteq Ops
    /\ orphan \in [Ops -> {"none", "run", "start", "stop", "rm", "wipe"}]
    /\ using \subseteq Ops
    /\ waived \in BOOLEAN
    /\ wiped \subseteq Ops

Init ==
    /\ kind \in [Ops -> Kinds]
    /\ pc = [o \in Ops |-> "start"]
    /\ lock = NoOp
    /\ markers = {}
    /\ container = "absent"
    /\ label = {}
    /\ workspace = FALSE
    /\ gateway = [g \in Gateways |-> "new"]
    /\ clean = {}
    /\ orphan = [o \in Ops |-> "none"]
    /\ using = {}
    /\ waived = FALSE
    /\ wiped = {}

-----------------------------------------------------------------------------
(* Contexts, marker liveness and small helpers.                            *)

\* RuntimeContext::matches_stored: no context is not a wildcard.
Matches(mine, stored) == IF mine = {} THEN stored = {} ELSE mine \subseteq stored

LabelMatches(o) == Matches(Context[o], label)

\* validate_stable_labels passes on whatever inspect finds.
Addressable(o) == container = "absent" \/ LabelMatches(o)

\* (mistakes: any record counts; only the reader's own records count)
RecordActive_Any(o, s) == TRUE
RecordActive_Own(o, s) == PidOf[Host[s]] = PidOf[Host[o]]

\* gateway_record_is_active: the reader's own pid always counts as active; any
\* other record must name a live process with the recorded start time.
RecordActive(o, s) == PidOf[Host[s]] = PidOf[Host[o]] \/ gateway[Host[s]] = "live"

\* active_session_markers_from_dir keeps these and removes every other file.
ActiveMarkers(o) ==
    {s \in markers : RecordActive(o, s) /\ Matches(Context[o], Context[s])}

Goto(o, stage) == pc' = [pc EXCEPT ![o] = stage]

\* Drop of LifecycleLock as the handler leaves its critical section.
Unlock(o, stage) == lock' = NoOp /\ Goto(o, stage)

\* A session whose handler failed still ends through finish_post_session.
AfterEnsure(o) == IF kind[o] = "session" THEN "ending" ELSE "done"

\* Where stop_inspected_container returns to.
AfterStop(o) == IF kind[o] = "session" THEN "purge" ELSE "done"

\* Sessions that lose the container are no longer using it.
ContainerBecomes(c) ==
    /\ container' = c
    /\ using' = IF c = "running" THEN using ELSE {}

ShouldCleanup(o) ==
    \/ WorkspaceCleanup = "always"
    \/ (WorkspaceCleanup = "success" /\ o \in clean)

\* A session that will still run the idle check, or is stopping the container.
Responsible(o) ==
    kind[o] = "session" /\ pc[o] \in Marked \cup {"grace", "stopping"}

CanBegin(o) == pc[o] = "start" /\ gateway[Host[o]] = "live"

\* Nobody outside S will run the idle check on the container.
NobodyOutside(S) == \A p \in Ops \ S : ~Responsible(p)

Holds(o, stage) == lock = o /\ pc[o] = stage

-----------------------------------------------------------------------------
(* begin_ready_session, ensure_ready and ensure_ready_locked.              *)

StartGateway(g) ==
    /\ gateway[g] = "new"
    /\ \A h \in Gateways : gateway[h] = "live" => PidOf[h] # PidOf[g]
    /\ gateway' = [gateway EXCEPT ![g] = "live"]
    /\ UNCHANGED <<wiped, kind, pc, lock, markers, container, label, workspace, clean,
                   orphan, using, waived>>

\* The marker is written under the lock, before the container is looked at;
\* its directory lies in the workspace.
BeginSession(o) ==
    /\ CanBegin(o) /\ kind[o] = "session" /\ lock = NoOp
    /\ lock' = o /\ Goto(o, "ensure")
    /\ markers' = markers \cup {o}
    /\ workspace' = TRUE
    /\ waived' = FALSE
    /\ UNCHANGED <<wiped, kind, container, label, gateway, clean, orphan, using>>

\* The lock or the marker could not be had: no session, so no cleanup either.
AbandonSession(o) ==
    /\ Faults /\ CanBegin(o) /\ kind[o] = "session" /\ lock = NoOp
    /\ workspace' \in {workspace, TRUE}
    /\ Goto(o, "done")
    /\ UNCHANGED <<wiped, kind, lock, markers, container, label, gateway, clean,
                   orphan, using, waived>>

\* A non-listen up leaves no marker.
BeginWarmUp(o) ==
    /\ CanBegin(o) /\ kind[o] = "up" /\ lock = NoOp
    /\ lock' = o /\ Goto(o, "ensure")
    /\ workspace' = TRUE
    /\ UNCHANGED <<wiped, kind, markers, container, label, gateway, clean,
                   orphan, using, waived>>

\* (mistake: a running container is taken as it is)
Reuse_Unvalidated(o) ==
    /\ Holds(o, "ensure") /\ container = "running"
    /\ Goto(o, "reusing")
    /\ UNCHANGED <<wiped, kind, lock, markers, container, label, workspace, gateway,
                   clean, orphan, using, waived>>

\* A running container is validated and taken as it is.
Reuse(o) ==
    /\ Holds(o, "ensure") /\ container = "running" /\ LabelMatches(o)
    /\ Goto(o, "reusing")
    /\ UNCHANGED <<wiped, kind, lock, markers, container, label, workspace, gateway,
                   clean, orphan, using, waived>>

\* Restarts a stopped container or creates the missing one.
StartContainer(o) ==
    /\ Holds(o, "ensure") /\ container # "running"
    /\ Addressable(o)
    /\ container' = "running"
    /\ label' = IF container = "absent" THEN Context[o] ELSE label
    /\ Goto(o, "starting")
    /\ UNCHANGED <<wiped, kind, lock, markers, workspace, gateway, clean,
                   orphan, using, waived>>

\* The runtime was asked to start and failed; run may leave a container behind.
StartFails(o) ==
    /\ Faults /\ Holds(o, "ensure") /\ container # "running"
    /\ Addressable(o)
    /\ \/ UNCHANGED <<container, label>>
       \/ container = "absent" /\ container' = "stopped" /\ label' = Context[o]
    /\ Goto(o, "undo")
    /\ UNCHANGED <<wiped, kind, lock, markers, workspace, gateway, clean,
                   orphan, using, waived>>

\* A failure before the runtime is asked to start anything.
EnsureFails(o) ==
    /\ Holds(o, "ensure")
    /\ Faults \/ ~Addressable(o)
    /\ Unlock(o, AfterEnsure(o))
    /\ UNCHANGED <<wiped, kind, markers, container, label, workspace, gateway, clean,
                   orphan, using, waived>>

\* Readiness ends with a status read, which sweeps the marker directory.
Ready(o) ==
    /\ Holds(o, "starting") \/ Holds(o, "reusing")
    /\ markers' = ActiveMarkers(o)
    /\ IF kind[o] = "session"
       THEN /\ using' = IF container = "running" THEN using \cup {o} ELSE using
            /\ Unlock(o, "active")
            /\ UNCHANGED waived
       ELSE /\ Unlock(o, "done")
            /\ waived' = (waived \/ NobodyOutside({}))
            /\ UNCHANGED using
    /\ UNCHANGED <<wiped, kind, container, label, workspace, gateway, clean, orphan>>

\* Only a start of our own is undone.
ReadyFails(o) ==
    /\ Faults
    /\ \/ Holds(o, "starting") /\ Goto(o, "undo") /\ UNCHANGED <<lock, waived>>
       \/ Holds(o, "reusing") /\ Unlock(o, AfterEnsure(o)) /\ UNCHANGED waived
    /\ markers' \in {markers, ActiveMarkers(o)}
    /\ UNCHANGED <<wiped, kind, container, label, workspace, gateway, clean,
                   orphan, using>>

\* The endpoint of the ready status is read after the result was taken for a
\* success: a failure there returns an error but undoes nothing.
EndpointFails(o) ==
    /\ Faults /\ Holds(o, "starting")
    /\ Unlock(o, AfterEnsure(o))
    /\ markers' = ActiveMarkers(o)
    /\ waived' = (waived \/ NobodyOutside({}))
    /\ UNCHANGED <<wiped, kind, container, label, workspace, gateway, clean,
                   orphan, using>>

\* What a stop (and, with remove_on_stop, a remove) can leave of the container.
StopOutcomes ==
    {IF RemoveOnStop THEN "absent" ELSE "stopped"}
        \cup (IF Faults THEN {container, "stopped"} ELSE {})

\* cleanup_failed_start: best effort, errors are only logged.
Undo(o) ==
    /\ Holds(o, "undo")
    /\ IF container = "absent" \/ ~LabelMatches(o)
       THEN UNCHANGED <<container, label, using>>
       ELSE \E c \in StopOutcomes :
                /\ ContainerBecomes(c)
                /\ label' = IF c = "absent" THEN {} ELSE label
    /\ waived' = (waived \/ NobodyOutside({}))
    /\ Unlock(o, AfterEnsure(o))
    /\ UNCHANGED <<wiped, kind, markers, workspace, gateway, clean, orphan>>

-----------------------------------------------------------------------------
(* The session's body ends: finish_post_session.                           *)

EndBody(o) ==
    /\ pc[o] = "active"
    /\ Goto(o, "ending")
    /\ UNCHANGED <<wiped, kind, lock, markers, container, label, workspace, gateway,
                   clean, orphan, using, waived>>

\* (mistake: the guard outlives the idle check)
DropMarker_Kept(o) ==
    /\ pc[o] = "ending"
    /\ using' = using \ {o}
    /\ clean' \in {clean, clean \cup {o}}
    /\ Goto(o, IF GatewayIdle THEN "grace" ELSE "purge")
    /\ UNCHANGED <<wiped, kind, lock, markers, container, label, workspace,
                   gateway, orphan, waived>>

\* drop(session): no lock is held.  The outcome was Success or Canceled, or not.
DropMarker(o) ==
    /\ pc[o] = "ending"
    /\ markers' = markers \ {o}
    /\ using' = using \ {o}
    /\ clean' \in {clean, clean \cup {o}}
    /\ Goto(o, IF GatewayIdle THEN "grace" ELSE "purge")
    /\ UNCHANGED <<wiped, kind, lock, container, label, workspace, gateway,
                   orphan, waived>>

\* apply_gateway_idle_cleanup, after idle_grace, with the lock: another session
\* is active.
IdleDeferred(o) ==
    /\ pc[o] = "grace" /\ lock = NoOp
    /\ ActiveMarkers(o) # {}
    /\ markers' = ActiveMarkers(o)
    /\ Goto(o, "purge")
    /\ UNCHANGED <<wiped, kind, lock, container, label, workspace, gateway, clean,
                   orphan, using, waived>>

\* ... a preserve process runs, or (Faults) asking for one failed, or the
\* container could not be inspected.
IdlePreserved(o) ==
    /\ pc[o] = "grace" /\ lock = NoOp
    /\ ActiveMarkers(o) = {}
    /\ Faults \/ (Preserve /\ container = "running")
    /\ markers' = {}
    /\ waived' = (waived \/ NobodyOutside({o}))
    /\ Goto(o, "purge")
    /\ UNCHANGED <<wiped, kind, lock, container, label, workspace, gateway,
                   clean, orphan, using>>

\* ... there is no container, or it carries another context.
IdleSkipped(o) ==
    /\ pc[o] = "grace" /\ lock = NoOp
    /\ ActiveMarkers(o) = {}
    /\ container = "absent" \/ ~LabelMatches(o)
    /\ markers' = {}
    /\ Goto(o, "purge")
    /\ UNCHANGED <<wiped, kind, lock, container, label, workspace, gateway, clean,
                   orphan, using, waived>>

\* (mistake: the markers were read before the grace period only)
IdleStop_Unchecked(o) ==
    /\ pc[o] = "grace" /\ lock = NoOp
    /\ container # "absent" /\ LabelMatches(o)
    /\ lock' = o /\ Goto(o, "stopping")
    /\ UNCHANGED <<wiped, kind, markers, container, label, workspace, gateway, clean,
                   orphan, using, waived>>

\* ... and otherwise the container is stopped.
IdleStop(o) ==
    /\ pc[o] = "grace" /\ lock = NoOp
    /\ ActiveMarkers(o) = {}
    /\ container # "absent" /\ LabelMatches(o)
    /\ markers' = {}
    /\ lock' = o /\ Goto(o, "stopping")
    /\ UNCHANGED <<wiped, kind, container, label, workspace, gateway, clean,
                   orphan, using, waived>>

-----------------------------------------------------------------------------
(* stop and remove, and stop_inspected_container, which they share with the *)
(* idle check.                                                              *)

\* operation_stop, operation_remove: the label is validated before anything
\* happens, and again before each runtime command.
BeginTakedown(o) ==
    /\ CanBegin(o) /\ kind[o] \in {"stop", "remove"} /\ lock = NoOp
    /\ container # "absent" /\ LabelMatches(o)
    /\ lock' = o
    /\ Goto(o, IF kind[o] = "remove" /\ container = "stopped" THEN "removing" ELSE "stopping")
    /\ UNCHANGED <<wiped, kind, markers, container, label, workspace, gateway, clean,
                   orphan, using, waived>>

\* should_cleanup_absent_container_workspace: without a container the stored
\* markers are the only proof of context; stale ones count.
AbsentWorkspaceIsOurs(o) ==
    /\ WorkspaceCleanup # "never" /\ Ephemeral
    /\ \/ \E s \in markers : Matches(Context[o], Context[s])
       \/ markers = {} /\ Context[o] = {}

RefuseTakedown(o) ==
    /\ CanBegin(o) /\ kind[o] \in {"stop", "remove"} /\ lock = NoOp
    /\ container = "absent" \/ ~LabelMatches(o)
    /\ IF kind[o] = "remove" /\ container = "absent" /\ AbsentWorkspaceIsOurs(o)
       THEN lock' = o /\ Goto(o, "purging")
       ELSE UNCHANGED lock /\ Goto(o, "done")
    /\ UNCHANGED <<wiped, kind, markers, container, label, workspace, gateway, clean,
                   orphan, using, waived>>

\* An agent shutdown or a runtime stop; a container that exited by itself is
\* taken for stopped.
StopContainer(o) ==
    /\ Holds(o, "stopping") /\ Addressable(o)
    /\ ContainerBecomes(IF container = "absent" THEN "absent" ELSE "stopped")
    /\ IF RemoveOnStop \/ kind[o] = "remove"
       THEN Goto(o, "removing") /\ UNCHANGED lock
       ELSE Unlock(o, AfterStop(o))
    /\ UNCHANGED <<wiped, kind, markers, label, workspace, gateway, clean,
                   orphan, waived>>

\* PreStop, the stop itself or PostStop failed: the rest is abandoned.
StopFails(o) ==
    /\ Holds(o, "stopping")
    /\ Faults \/ ~Addressable(o)
    /\ \/ ContainerBecomes(container)
       \/ container = "running" /\ ContainerBecomes("stopped")
    /\ waived' = (waived \/ NobodyOutside({o}))
    /\ Unlock(o, AfterStop(o))
    /\ UNCHANGED <<wiped, kind, markers, label, workspace, gateway, clean, orphan>>

AfterRemove(o) ==
    IF kind[o] = "remove" THEN Goto(o, "purging") /\ UNCHANGED lock
                          ELSE Unlock(o, AfterStop(o))

RemoveContainer(o) ==
    /\ Holds(o, "removing") /\ container # "running" /\ Addressable(o)
    /\ container' = "absent" /\ label' = {}
    /\ AfterRemove(o)
    /\ UNCHANGED <<wiped, kind, markers, workspace, gateway, clean, orphan,
                   using, waived>>

\* rm refuses a running container; PostStop runs after rm and may fail too.
RemoveFails(o) ==
    /\ Holds(o, "removing")
    /\ Faults \/ container = "running" \/ ~Addressable(o)
    /\ \/ UNCHANGED <<container, label>>
       \/ container # "running" /\ container' = "absent" /\ label' = {}
    /\ waived' = (waived \/ NobodyOutside({o}))
    /\ Unlock(o, AfterStop(o))
    /\ UNCHANGED <<wiped, kind, markers, workspace, gateway, clean, orphan, using>>

\* remove_host_dir_all: recursive, and it may stop half way.
WorkspaceRemoved ==
    \/ workspace' = FALSE /\ markers' = {}
    \/ Faults /\ UNCHANGED workspace /\ markers' \in SUBSET markers

\* A workspace that is ever cleaned up belongs to an ephemeral session.
PurgesOnRemove == WorkspaceCleanup # "never" /\ Ephemeral

\* apply_explicit_remove_workspace_cleanup does not look at the markers.
ExplicitPurge(o) ==
    /\ Holds(o, "purging")
    /\ IF PurgesOnRemove
       THEN WorkspaceRemoved
       ELSE UNCHANGED <<workspace, markers>>
    /\ Unlock(o, "done")
    /\ UNCHANGED <<wiped, kind, container, label, gateway, clean, orphan, using, waived>>

-----------------------------------------------------------------------------
(* The session's workspace: a second critical section after the idle check. *)

PurgeSkipped(o) ==
    /\ pc[o] = "purge" /\ ~ShouldCleanup(o)
    /\ Goto(o, "done")
    /\ UNCHANGED <<wiped, kind, lock, markers, container, label, workspace, gateway,
                   clean, orphan, using, waived>>

PurgeDeferred(o) ==
    /\ pc[o] = "purge" /\ ShouldCleanup(o) /\ lock = NoOp
    /\ ActiveMarkers(o) # {}
    /\ markers' = ActiveMarkers(o)
    /\ Goto(o, "done")
    /\ UNCHANGED <<wiped, kind, lock, container, label, workspace, gateway, clean,
                   orphan, using, waived>>

\* (mistake: the idle check's view of the markers is taken for granted)
PurgeWorkspace_Unchecked(o) ==
    /\ pc[o] = "purge" /\ ShouldCleanup(o) /\ lock = NoOp
    /\ lock' = o /\ Goto(o, "wiping")
    /\ UNCHANGED <<wiped, kind, markers, container, label, workspace, gateway, clean,
                   orphan, using, waived>>

PurgeWorkspace(o) ==
    /\ pc[o] = "purge" /\ ShouldCleanup(o) /\ lock = NoOp
    /\ ActiveMarkers(o) = {}
    /\ markers' = {}
    /\ lock' = o /\ Goto(o, "wiping")
    /\ UNCHANGED <<wiped, kind, container, label, workspace, gateway, clean, orphan,
                   using, waived>>

\* remove_session_workspace, still under the lock.
WipeWorkspace(o) ==
    /\ Holds(o, "wiping")
    /\ WorkspaceRemoved
    /\ Unlock(o, "done")
    /\ UNCHANGED <<wiped, kind, container, label, gateway, clean, orphan, using, waived>>

\* operation_status takes no lock: it inspects and validates the container, asks
\* the agent, and then sweeps the marker directory.
InspectStatus(o) ==
    /\ CanBegin(o) /\ kind[o] = "status"
    /\ Goto(o, IF Addressable(o) THEN "sweep" ELSE "done")
    /\ UNCHANGED <<wiped, kind, lock, markers, container, label, workspace, gateway,
                   clean, orphan, using, waived>>

SweepStatus(o) ==
    /\ pc[o] = "sweep"
    /\ markers' = ActiveMarkers(o)
    /\ Goto(o, "done")
    /\ UNCHANGED <<wiped, kind, lock, container, label, workspace, gateway, clean,
                   orphan, using, waived>>

-----------------------------------------------------------------------------
(* The environment.                                                        *)

Hosted(g) == {o \in Ops : Host[o] = g}

\* The runtime command the lock holder o was waiting for: run_status spawns it
\* without kill_on_drop, so it outlives its gateway.
PendingCommand(o) ==
    CASE pc[o] = "ensure" /\ container = "absent" -> "run"
      [] pc[o] = "ensure" /\ container = "stopped" /\ LabelMatches(o) -> "start"
      [] pc[o] \in {"undo", "stopping"} -> "stop"
      [] pc[o] = "removing" -> "rm"
      [] workspace /\ PurgesOnRemove /\ pc[o] \in {"wiping", "purging"} -> "wipe"
      [] OTHER -> "none"

\* (mistake: a lock file that outlives its writer)
Die_KeepsLock(g) ==
    /\ Crashes /\ gateway[g] = "live"
    /\ gateway' = [gateway EXCEPT ![g] = "dead"]
    /\ pc' = [o \in Ops |-> IF Host[o] = g /\ pc[o] # "done" THEN "dead" ELSE pc[o]]
    /\ using' = using \ Hosted(g)
    /\ waived' = (waived \/ NobodyOutside(Hosted(g)))
    /\ UNCHANGED <<wiped, kind, lock, markers, container, label, workspace,
                   clean, orphan>>

\* A gateway is killed, or exits on a second signal: the kernel drops its lock,
\* nothing drops its markers.
Die(g) ==
    /\ Crashes /\ gateway[g] = "live"
    /\ gateway' = [gateway EXCEPT ![g] = "dead"]
    /\ pc' = [o \in Ops |-> IF Host[o] = g /\ pc[o] # "done" THEN "dead" ELSE pc[o]]
    /\ IF lock \in Hosted(g)
       THEN /\ lock' = NoOp
            /\ \E c \in {"none", PendingCommand(lock)} :
                   orphan' = [orphan EXCEPT ![lock] = c]
       ELSE UNCHANGED <<lock, orphan>>
    /\ using' = using \ Hosted(g)
    /\ waived' = (waived \/ NobodyOutside(Hosted(g)))
    /\ UNCHANGED <<wiped, kind, markers, container, label, workspace, clean>>

\* An orphaned runtime command takes effect, if the container still allows it.
OrphanCompletes(o) ==
    /\ orphan[o] \notin {"none", "wipe"}
    /\ orphan' = [orphan EXCEPT ![o] = "none"]
    /\ \/ /\ \/ orphan[o] = "run" /\ container = "absent" /\ label' = Context[o]
             \/ orphan[o] = "start" /\ container = "stopped" /\ UNCHANGED label
          /\ container' = "running"
          /\ waived' = (waived \/ NobodyOutside({}))
          /\ UNCHANGED using
       \/ /\ orphan[o] = "stop" /\ container = "running"
          /\ ContainerBecomes("stopped")
          /\ UNCHANGED <<label, waived>>
       \/ /\ orphan[o] = "rm" /\ container = "stopped"
          /\ container' = "absent" /\ label' = {}
          /\ UNCHANGED <<using, waived>>
       \/ UNCHANGED <<container, label, using, waived>>
    /\ UNCHANGED <<wiped, kind, pc, lock, markers, workspace, gateway, clean>>

\* An orphaned podman unshare rm -rf goes on deleting what it finds, files written
\* since included, and it may fail over those it has not seen.
WipesLate(o) ==
    /\ orphan[o] = "wipe"
    /\ \/ UNCHANGED <<orphan, workspace>> /\ markers' \in SUBSET markers
       \/ /\ orphan' = [orphan EXCEPT ![o] = "none"]
          /\ \/ workspace' = FALSE /\ markers' = {}
             \/ UNCHANGED workspace /\ markers' \in SUBSET markers
    /\ wiped' = wiped \cup (markers \ markers')
    /\ UNCHANGED <<kind, pc, lock, container, label, gateway, clean, using, waived>>

ContainerExits ==
    /\ Exits /\ container = "running"
    /\ ContainerBecomes("stopped")
    /\ UNCHANGED <<wiped, kind, pc, lock, markers, label, workspace, gateway, clean,
                   orphan, waived>>

-----------------------------------------------------------------------------

Ensure(o) ==
    \/ Reuse(o) \/ StartContainer(o) \/ StartFails(o) \/ EnsureFails(o)
    \/ Ready(o) \/ ReadyFails(o) \/ EndpointFails(o) \/ Undo(o)

IdleCheck(o) == IdleDeferred(o) \/ IdlePreserved(o) \/ IdleSkipped(o) \/ IdleStop(o)

Takedown(o) ==
    \/ StopContainer(o) \/ StopFails(o) \/ RemoveContainer(o) \/ RemoveFails(o)
    \/ ExplicitPurge(o)

Purge(o) ==
    PurgeSkipped(o) \/ PurgeDeferred(o) \/ PurgeWorkspace(o) \/ WipeWorkspace(o)

\* What a live gateway does on its own once an operation has begun.
Proceed(o) ==
    \/ Ensure(o) \/ DropMarker(o) \/ IdleCheck(o) \/ Takedown(o) \/ Purge(o)
    \/ SweepStatus(o)

Begin(o) ==
    \/ BeginSession(o) \/ AbandonSession(o) \/ BeginWarmUp(o)
    \/ BeginTakedown(o) \/ RefuseTakedown(o) \/ InspectStatus(o)

Next ==
    \/ \E o \in Ops : Begin(o) \/ EndBody(o) \/ Proceed(o)
    \/ \E o \in Ops : OrphanCompletes(o) \/ WipesLate(o)
    \/ \E g \in Gateways : StartGateway(g) \/ Die(g)
    \/ ContainerExits

Spec == Init /\ [][Next]_vars

\* A begun operation is polled until it is done.  Nothing makes a caller begin
\* an operation or end a session's body.
FairSpec == Spec /\ \A o \in Ops : WF_vars(Proceed(o))

-----------------------------------------------------------------------------
(* Properties.                                                             *)

\* The lifecycle lock serialises every critical section, and a gateway that
\* died in one does not keep the others out.
LockDiscipline ==
    \A o \in Ops : (pc[o] \in Critical) <=> (lock = o)

\* A session's idle check and the undoing of a failed start never take the
\* container away from a session that is using it: neither the marker an idle
\* check has not seen yet nor the start it takes for its own is another's.
\* (An operator's stop and remove may; and a session whose marker a late removal
\* of the workspace took is not seen.)
LiveSessionKeepsContainer ==
    [][\A o \in Ops :
          /\ kind[o] \in {"session", "up"} /\ pc'[o] # pc[o]
          /\ container = "running" /\ container' # "running"
          => using \subseteq wiped]_vars

\* The workspace is never deleted under a session that uses it, neither by the cleanup
\* after another session nor by an operator's remove, which takes the container first.
\* The one exception is a removal that outlives its gateway, and that too begins when
\* nobody uses the workspace: it is met only by sessions that begin after the kill.
LiveSessionKeepsWorkspace ==
    [][/\ workspace /\ ~workspace' => using \subseteq wiped'
       /\ \A o \in Ops : orphan[o] = "none" /\ orphan'[o] = "wipe" => using' \subseteq wiped]_vars

\* "The later session then owns the next cleanup edge" (interrupted-foreground-
\* cleanup.md): however sessions overlap, crash and defer to each other, a
\* container somebody should stop always has a session that will check it.
CleanupEdgeOwned ==
    GatewayIdle /\ lock = NoOp /\ container = "running" /\ ~waived
    => \E o \in Ops : Responsible(o)

\* The marker of a session whose gateway lives goes away only when the session
\* drops it, or with the workspace of an explicit remove or of one that outlives its
\* gateway: no sweep by a status, an idle check or another session's readiness may
\* take it.
LiveMarkerStands ==
    [][\A s \in markers \ markers' :
          \/ gateway[Host[s]] = "dead"
          \/ pc[s] = "ending" /\ pc'[s] # "ending"
          \/ \E o \in Ops : pc[o] = "purging" /\ pc'[o] = "done"
          \/ s \in wiped']_vars

\* An invocation with no context excludes what is scoped (README.md, contexts): it
\* does not take the marker of a scoped session whose gateway lives.
ScopedMarkerStands ==
    [][\A o \in Ops, s \in markers \ markers' :
          Context[o] = {} /\ Context[s] # {} /\ pc'[o] # pc[o]
          => gateway[Host[s]] = "dead"]_vars

\* A session only ever uses a container whose recorded context its own matches,
\* whatever was removed and recreated before it got the lock: what it validated under
\* the lock is what it joins.
ContextIsolation == \A s \in using : LabelMatches(s)

\* The session's workspace is not deleted while its container still runs and no
\* cleanup of that container was attempted (README.md, workspace.cleanup).
PurgeFollowsContainerCleanup ==
    [][\A o \in Ops :
          pc[o] = "wiping" /\ pc'[o] = "done" /\ workspace /\ ~workspace'
          => container # "running" \/ waived]_vars

\* A session that has ended finishes its cleanup, whoever else holds the lock.
EndedSessionFinishes ==
    \A o \in Ops : pc[o] = "ending" ~> pc[o] \in {"done", "dead"}

-----------------------------------------------------------------------------
(* Refinement: for the users, the container is up when it runs, and a user  *)
(* is a session whose body may run.                                         *)

Use == INSTANCE ContainerUse WITH
           Users <- Ops, up <- (container = "running"), home <- workspace, users <- using

\* Locks, markers and idle checks amount to an open-while-used container that
\* is eventually given back.
ImplementsContainerUse == Use!Spec

=============================================================================
