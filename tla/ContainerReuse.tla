--------------------------- MODULE ContainerReuse ---------------------------
(***************************************************************************)
(* Whether a container that exists may be used.  An invocation prepares    *)
(* what its configuration asks for (the access method, the layout of the   *)
(* workspace, the host sockets to expose), compares that with the labels   *)
(* of the container it finds, and creates or starts one under the          *)
(* lifecycle lock; a status does the same comparison without the lock.     *)
(* Meanwhile the configuration is edited, the host replaces the socket,    *)
(* containers exit, and gateways are killed.                               *)
(*                                                                         *)
(* On Linux a container mounts the inode that is at the socket's path when *)
(* it starts; an Apple runtime reconnects by path.  The number of an inode *)
(* is given to another socket only when nothing mounts it any more.        *)
(* actual.inode, made and raced are what the labels are about: no code     *)
(* reads them.                                                             *)
(***************************************************************************)
EXTENDS Naturals, Sequences

LOCAL INSTANCE SequencesExt

CONSTANTS
    Processes,    \* gateways; a killed one is followed by another of the same name
    Configs,      \* [access, layout, exposures], exposures a set of [host, guest] paths
    MaxInode,     \* bound: inode numbers of the host socket
    RemoveOnStop, \* remove_on_stop
    Nothing

VARIABLES
    apple_runtime,  \* the runtime is Apple's
    sock,           \* inode of the socket at its path, 0 for none
    actual,         \* the container and its labels
    locked_by,      \* holder of the lifecycle lock
    at,             \* [Processes -> ReuseSteps]
    wanted,         \* [Processes -> Configs], as the operation loaded it
    prepared,       \* [Processes -> [manifest, inode]], what was prepared
    inspect,        \* [Processes -> the container as it was inspected]
    attempted,      \* [Processes -> BOOLEAN], runtime_start_attempted
    told            \* whom this step told that the target is ready: what it asked for and saw

reuseVars ==
    <<apple_runtime, sock, actual, locked_by, at, wanted, prepared, inspect, attempted, told>>

ReuseSteps == {"idle", "prepare", "plan", "create", "start", "started", "check", "report", "failed",
         "status", "compare", "probe"}

NoContainer == [state |-> "none"]

-----------------------------------------------------------------------------
(* Preparation                                                             *)

\* The managed directories: of the workspace, the control sockets and the home.
HostDirs == {<<"workspace">>, <<"control">>}
GuestDirs(c) == {<<"home">>, <<"sockets">>, c.layout}

reject_path_overlap(a, b) == IsPrefix(a, b) \/ IsPrefix(b, a)

\* prepare_host_socket_exposures: no path contains another or a managed one.
PathsApart(c) ==
    \A e \in c.exposures :
        /\ \A d \in HostDirs : ~reject_path_overlap(e.host, d)
        /\ \A d \in GuestDirs(c) : ~reject_path_overlap(e.guest, d)
        /\ \A f \in c.exposures \ {e} :
              ~reject_path_overlap(e.host, f.host) /\ ~reject_path_overlap(e.guest, f.guest)

exposure_manifest_NoInode(c) ==  \* (mistake: a replaced socket has the same manifest)
    IF c.exposures = {} THEN Nothing ELSE [exposures |-> c.exposures, inode |-> 0]

\* An inode is part of the manifest where it is pinned.
exposure_manifest(c) ==
    IF c.exposures = {} THEN Nothing
    ELSE [exposures |-> c.exposures, inode |-> IF apple_runtime THEN 0 ELSE sock]

\* PreparedContainerInputs; the inode beside the manifest is for the properties.
NoInputs == [manifest |-> Nothing, inode |-> 0]
Inputs(c) == [manifest |-> exposure_manifest(c),
              inode |-> IF apple_runtime \/ c.exposures = {} THEN 0 ELSE sock]

\* prepare_container_inputs: the source must be a socket now.
Preparable(c) == c.exposures # {} => PathsApart(c) /\ sock # 0

-----------------------------------------------------------------------------
(* Labels.  A container of an older gateway has neither an access nor      *)
(* layout labels.                                                          *)

validate_access_label(c, box) ==
    IF box.legacy THEN c.access = "ssh" ELSE c.access = box.made.access

\* What old containers were made for: the workspace is the home.
LegacyLayout == <<"home">>
LegacyConfig == [access |-> "ssh", layout |-> LegacyLayout, exposures |-> {}]

validate_workspace_layout_labels(c, box) ==
    IF box.legacy THEN c.layout = LegacyLayout ELSE c.layout = box.made.layout

validate_labels(c, box) ==
    validate_access_label(c, box) /\ validate_workspace_layout_labels(c, box)

validate_exposure_manifest(manifest, box) == manifest = box.manifest

-----------------------------------------------------------------------------

\* A configuration is what it asks for, and "no manifest" is no manifest.
ASSUME ReuseAssumption ==
    /\ Configs # {}
    /\ \A c, d \in Configs \cup {LegacyConfig} :
         c.access = d.access /\ c.layout = d.layout /\ c.exposures = d.exposures => c = d
    /\ MaxInode \in Nat \ {0}
    /\ \A c \in Configs, i \in 0 .. MaxInode : Nothing # [exposures |-> c.exposures, inode |-> i]
    /\ Nothing \notin Processes

Goto(g, step) == at' = [at EXCEPT ![g] = step] /\ told' = Nothing

AnyConfig == CHOOSE c \in Configs : TRUE

\* The answer is given, the lock, if it is held, released, and all forgotten.
Reply(g, isReady) ==
    /\ at' = [at EXCEPT ![g] = "idle"]
    /\ told' = IF isReady THEN [wanted |-> wanted[g], prepared |-> prepared[g], box |-> inspect[g]]
               ELSE Nothing
    /\ locked_by' = IF locked_by = g THEN Nothing ELSE locked_by
    /\ wanted' = [wanted EXCEPT ![g] = AnyConfig]
    /\ prepared' = [prepared EXCEPT ![g] = NoInputs]
    /\ inspect' = [inspect EXCEPT ![g] = NoContainer]
    /\ attempted' = [attempted EXCEPT ![g] = FALSE]

\* A step of an operation that is not its last one
Continue(g, step) == Goto(g, step) /\ UNCHANGED <<locked_by, wanted, prepared, inspect, attempted>>

ReuseInit ==
    /\ apple_runtime \in BOOLEAN
    /\ sock = 1
    /\ actual \in {NoContainer,
           [state |-> "stopped", legacy |-> TRUE, manifest |-> Nothing, inode |-> 0,
            raced |-> FALSE, made |-> LegacyConfig]}
    /\ locked_by = Nothing
    /\ at = [g \in Processes |-> "idle"]
    /\ wanted = [g \in Processes |-> AnyConfig]
    /\ prepared = [g \in Processes |-> NoInputs]
    /\ inspect = [g \in Processes |-> NoContainer]
    /\ attempted = [g \in Processes |-> FALSE]
    /\ told = Nothing

\* ensure_ready, from the lock to the inputs
BeginReady(g) ==
    /\ at[g] = "idle" /\ locked_by = Nothing
    /\ locked_by' = g
    /\ \E c \in Configs : wanted' = [wanted EXCEPT ![g] = c]
    /\ Goto(g, "prepare")
    /\ UNCHANGED <<apple_runtime, sock, actual, prepared, inspect, attempted>>

Prepare(g) ==
    /\ at[g] = "prepare"
    /\ \/ /\ Preparable(wanted[g])
          /\ prepared' = [prepared EXCEPT ![g] = Inputs(wanted[g])]
          /\ Goto(g, "plan")
       \/ /\ ~Preparable(wanted[g])
          /\ Goto(g, "failed")
          /\ UNCHANGED prepared
    /\ UNCHANGED <<apple_runtime, sock, actual, locked_by, wanted, inspect, attempted>>

\* readiness_plan, and the checks of ensure_container_for_readiness_plan
Plan(g) ==
    /\ at[g] = "plan"
    /\ inspect' = [inspect EXCEPT ![g] = actual]
    /\ Goto(g, IF actual.state = "none" THEN "create"
               ELSE IF ~(validate_labels(wanted[g], actual)
                         /\ validate_exposure_manifest(prepared[g].manifest, actual)) THEN "failed"
               ELSE IF actual.state = "running" THEN "check" ELSE "start")
    /\ UNCHANGED <<apple_runtime, sock, actual, locked_by, wanted, prepared, attempted>>

\* What is mounted is what is there now, after the hooks of pre_start.
Mounted(box, g) ==
    [box EXCEPT !.state = "running", !.inode = IF box.made.exposures = {} THEN 0 ELSE sock,
                !.raced = ~apple_runtime /\ box.made.exposures # {} /\ sock # prepared[g].inode]

\* The runtime creates the container, fails to, or creates and fails to start it.
Create(g) ==
    /\ at[g] = "create"
    /\ attempted' = [attempted EXCEPT ![g] = TRUE]
    /\ LET box == [state |-> "stopped", legacy |-> FALSE, manifest |-> prepared[g].manifest,
                   inode |-> 0, raced |-> FALSE, made |-> wanted[g]]
       IN  \/ /\ wanted[g].exposures # {} => sock # 0
              /\ actual' = Mounted(box, g)
              /\ Goto(g, "started")
           \/ actual' \in {NoContainer, box} /\ Goto(g, "failed")
    /\ UNCHANGED <<apple_runtime, sock, locked_by, wanted, prepared, inspect>>

Start(g) ==
    /\ at[g] = "start"
    /\ attempted' = [attempted EXCEPT ![g] = TRUE]
    /\ \/ /\ actual.made.exposures # {} => sock # 0
          /\ actual' = Mounted(actual, g)
          /\ Goto(g, "started")
       \/ UNCHANGED actual /\ Goto(g, "failed")
    /\ UNCHANGED <<apple_runtime, sock, locked_by, wanted, prepared, inspect>>

\* inspect_container_after_start and both validations again
Started(g) ==
    /\ at[g] = "started"
    /\ inspect' = [inspect EXCEPT ![g] = actual]
    /\ Goto(g, IF validate_labels(wanted[g], actual)
                  /\ validate_exposure_manifest(prepared[g].manifest, actual)
               THEN "check" ELSE "failed")
    /\ UNCHANGED <<apple_runtime, sock, actual, locked_by, wanted, prepared, attempted>>

\* The container's endpoints are probed in the container there is now.
Reachable(c) == c.exposures = {} \/ actual.state = "running"

\* The probes, and a hook or an agent that fails
Check(g) ==
    /\ at[g] = "check"
    /\ \/ Reachable(wanted[g]) /\ Continue(g, "report")
       \/ Continue(g, "failed")
    /\ UNCHANGED <<apple_runtime, sock, actual>>

\* The status of what was inspected, with a second probe, before it is ready
Report(g) ==
    /\ at[g] = "report"
    /\ \/ /\ wanted[g].exposures # {} => inspect[g].state = "running" /\ Reachable(wanted[g])
          /\ Reply(g, TRUE)
       \/ wanted[g].exposures # {} /\ Continue(g, "failed")
    /\ UNCHANGED <<apple_runtime, sock, actual>>

\* FailedStartCleanup: a container that was started is stopped again.
Fail(g) ==
    /\ at[g] = "failed"
    /\ IF attempted[g] /\ actual.state # "none" /\ validate_labels(wanted[g], actual)
         THEN actual' \in (IF RemoveOnStop THEN {NoContainer} ELSE {})
                 \cup {[actual EXCEPT !.state = "stopped"], actual}
         ELSE UNCHANGED actual
    /\ Reply(g, FALSE)
    /\ UNCHANGED <<apple_runtime, sock>>

-----------------------------------------------------------------------------
(* Status, without the lock                                                *)

\* Runtime::status
BeginStatus(g) ==
    /\ at[g] = "idle"
    /\ \E c \in Configs : wanted' = [wanted EXCEPT ![g] = c]
    /\ inspect' = [inspect EXCEPT ![g] = actual]
    /\ Goto(g, "status")
    /\ UNCHANGED <<apple_runtime, sock, actual, locked_by, prepared, attempted>>

\* current_host_socket_exposure_statuses: without exposures only a label is looked for.
StatusPrepare(g) ==
    /\ at[g] = "status"
    /\ LET c == wanted[g]
           box == inspect[g]
           labels == box.state # "none" => validate_labels(c, box)
       IN  \/ ~(labels /\ Preparable(c)) /\ Reply(g, FALSE)
           \/ /\ labels /\ c.exposures = {}
              /\ Reply(g, box.state = "running" /\ box.manifest = Nothing)
           \/ /\ labels /\ c.exposures # {} /\ Preparable(c)
              /\ prepared' = [prepared EXCEPT ![g] = Inputs(c)]
              /\ Goto(g, "compare")
              /\ UNCHANGED <<locked_by, wanted, inspect, attempted>>
    /\ UNCHANGED <<apple_runtime, sock, actual>>

\* container_absent, recreate_required, container_stopped, or probed
Compare(g) ==
    /\ at[g] = "compare"
    /\ IF /\ inspect[g].state = "running"
          /\ validate_exposure_manifest(prepared[g].manifest, inspect[g])
         THEN Continue(g, "probe")
         ELSE Reply(g, FALSE)
    /\ UNCHANGED <<apple_runtime, sock, actual>>

Probe(g) ==
    /\ at[g] = "probe"
    /\ \/ Reachable(wanted[g]) /\ Reply(g, TRUE)
       \/ Reply(g, FALSE)  \* guest_endpoint_unavailable
    /\ UNCHANGED <<apple_runtime, sock, actual>>

-----------------------------------------------------------------------------
(* Everything else that changes the container or the socket                *)

Silent ==
    /\ told' = Nothing
    /\ UNCHANGED <<apple_runtime, locked_by, at, wanted, prepared, inspect, attempted>>

\* operation_stop and operation_remove check neither access, layout nor manifest.
StopOrRemove ==
    /\ locked_by = Nothing /\ actual.state # "none"
    /\ actual' \in {NoContainer} \cup
          (IF RemoveOnStop THEN {} ELSE {[actual EXCEPT !.state = "stopped"]})
    /\ Silent /\ UNCHANGED sock

ContainerExits ==
    /\ actual.state = "running"
    /\ actual' = [actual EXCEPT !.state = "stopped"]
    /\ Silent /\ UNCHANGED sock

\* The host's service removes its socket or binds a new one.
Rebind ==
    /\ sock' \in 0 .. MaxInode \ {sock}
    /\ actual.state = "running" => sock' # actual.inode \/ sock' = 0
    /\ Silent /\ UNCHANGED actual

Killed(g) ==
    /\ at[g] # "idle"
    /\ Reply(g, FALSE)
    /\ UNCHANGED <<apple_runtime, sock, actual>>

ReuseNext ==
    \/ \E g \in Processes :
         \/ BeginReady(g) \/ Prepare(g) \/ Plan(g) \/ Create(g) \/ Start(g) \/ Started(g)
         \/ Check(g) \/ Report(g) \/ Fail(g)
         \/ BeginStatus(g) \/ StatusPrepare(g) \/ Compare(g) \/ Probe(g)
         \/ Killed(g)
    \/ StopOrRemove \/ ContainerExits \/ Rebind

ReuseSpec == ReuseInit /\ [][ReuseNext]_reuseVars

-----------------------------------------------------------------------------

ReuseTypeOK ==
    /\ apple_runtime \in BOOLEAN /\ sock \in 0 .. MaxInode
    /\ actual.state \in {"none", "stopped", "running"}
    /\ locked_by \in Processes \cup {Nothing}
    /\ at \in [Processes -> ReuseSteps]
    /\ wanted \in [Processes -> Configs]
    /\ attempted \in [Processes -> BOOLEAN]

\* Whoever is told that the target is ready was given a container made for the
\* configuration it loaded, whatever was edited since: the same access method,
\* workspace layout and sockets, and the very socket that stood at the path when
\* it looked; unless the host replaced that one between the preparation and the
\* start of the container, which nobody looks for.
ReadyAsConfigured ==
    told # Nothing =>
        LET box == told.box
        IN  /\ box.state # "none"
            /\ box.made = told.wanted
            /\ box.state = "running" /\ ~apple_runtime /\ ~box.raced =>
                  box.inode = told.prepared.inode

=============================================================================
