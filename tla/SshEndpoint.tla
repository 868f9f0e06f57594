---------------------------- MODULE SshEndpoint -----------------------------
(***************************************************************************)
(* How the host finds the SSH server of a target.  A published port is     *)
(* reserved by binding it, released, given to the runtime, and recorded in *)
(* files of the target's state directory; a local listener is recorded in  *)
(* a status file.  Gateways that start, stop or remove the target hold its *)
(* lifecycle lock; those that ask for an endpoint, or delete a status file *)
(* they take for stale, do not.  Other processes use ports as they please, *)
(* a gateway may be killed between any two steps, and the command it has   *)
(* under way in the runtime then goes on and takes effect later.           *)
(*                                                                         *)
(* An Apple runtime cannot be asked for the port of a container: there the *)
(* recorded port is the only source.                                       *)
(***************************************************************************)
EXTENDS Naturals, FiniteSets

CONSTANTS
    Gateways,   \* processes; a killed one is followed by another of the same name
    Ports,      \* host ports
    Configured, \* the values of local_ssh.port, 0 for none
    Attempts,   \* PUBLISHED_SSH_RUN_ATTEMPTS
    MaxLate,    \* bound: commands of killed gateways that are under way at a time
    None

ASSUME EndpointAssumption ==
    /\ Ports \subseteq Nat \ {0}
    /\ Configured \subseteq Ports \cup {0} /\ 0 \in Configured
    /\ Attempts \in Nat \ {0} /\ MaxLate \in Nat
    /\ None \notin Gateways

VARIABLES
    apple,      \* the runtime is Apple's
    direct,     \* local_ssh.mode is direct, not a listener
    lock,       \* holder of the lifecycle lock
    pc,         \* [Gateways -> Step]
    cfg,        \* [Gateways -> Configured], as the operation loaded it
    attempt,    \* [Gateways -> 0 .. Attempts]
    chosen,     \* [Gateways -> Ports \cup {0}], the port of the attempt
    container,  \* [state : {"none", "running", "stopped"}, port : Ports \cup {0}]
    others,     \* the ports other processes listen on
    late,       \* the commands of killed gateways that are still under way
    portFile, pendingFile,  \* the recorded ports, 0 for no file
    endpointFile,  \* [port, configured], port 0 for no file
    found,      \* [Gateways -> {"none", "running", "stopped"}], the container as inspected
    seen,       \* [Gateways -> SUBSET Ports], of the containers there were since the question
    wrong,      \* someone was told another port than of a container that was there
    listener,   \* the gateways with a live local listener
    status,     \* whom the listener's status file names: a gateway, "dead" or None
    stale,      \* a file may be of another container than there is: it was left
                \* behind by a killed or a late removal, or written late
    swept       \* the live listeners whose status file somebody else has deleted

target == <<container, portFile, pendingFile, endpointFile, stale>>
listening == <<listener, status, swept>>
asked == <<found, wrong>>
fixed == <<apple, direct>>
vars == <<fixed, lock, pc, cfg, attempt, chosen, others, late, seen, asked, target, listening>>

Step == {"idle", "creating", "reserved", "released", "ran", "failed", "removing", "removed",
         "asked", "answered", "binding", "sweeping"}

\* podman run, podman rm and container delete --force, when no gateway waits for them.
LateCommands == [op : {"run"}, port : Ports] \cup [op : {"rm"}, port : {0}]

NoEndpoint == [port |-> 0, configured |-> 0]

TypeOK ==
    /\ apple \in BOOLEAN /\ direct \in BOOLEAN
    /\ lock \in Gateways \cup {None}
    /\ pc \in [Gateways -> Step]
    /\ cfg \in [Gateways -> Configured]
    /\ attempt \in [Gateways -> 0 .. Attempts]
    /\ chosen \in [Gateways -> Ports \cup {0}]
    /\ container \in [state : {"none", "running", "stopped"}, port : Ports \cup {0}]
    /\ others \subseteq Ports /\ late \subseteq LateCommands
    /\ portFile \in Ports \cup {0} /\ pendingFile \in Ports \cup {0}
    /\ endpointFile \in [port : Ports \cup {0}, configured : Configured]
    /\ found \in [Gateways -> {"none", "running", "stopped"}]
    /\ seen \in [Gateways -> SUBSET Ports]
    /\ wrong \in BOOLEAN
    /\ listener \subseteq Gateways
    /\ status \in Gateways \cup {"dead", None}
    /\ stale \in BOOLEAN
    /\ swept \subseteq Gateways

Gone == [state |-> "none", port |-> 0]

Init ==
    /\ apple \in BOOLEAN /\ direct \in BOOLEAN
    /\ lock = None
    /\ pc = [g \in Gateways |-> "idle"]
    /\ cfg = [g \in Gateways |-> 0]
    /\ attempt = [g \in Gateways |-> 0]
    /\ chosen = [g \in Gateways |-> 0]
    /\ container = Gone
    /\ others = {} /\ late = {}
    /\ portFile = 0 /\ pendingFile = 0 /\ endpointFile = NoEndpoint
    /\ found = [g \in Gateways |-> "none"]
    /\ seen = [g \in Gateways |-> {}]
    /\ wrong = FALSE
    /\ listener = {} /\ status = None
    /\ stale = FALSE /\ swept = {}

Goes(g, from, to) == pc[g] = from /\ pc' = [pc EXCEPT ![g] = to]

\* An operation begins with the configuration of its time.
Loads(g) == \E c \in Configured : cfg' = [cfg EXCEPT ![g] = IF direct THEN c ELSE 0]
Forgets(g) == cfg' = [cfg EXCEPT ![g] = 0]

Free(p) == p \notin others /\ ~(container.state = "running" /\ container.port = p)

-----------------------------------------------------------------------------
(* Starting: prepare_published_ssh_host_port_for_create,                   *)
(* start_container_with_explicit_published_ssh_port.                       *)

\* The container is missing: ContainerReadinessPlan::CreateMissing.
BeginCreate(g) ==
    /\ apple \/ direct
    /\ lock = None
    /\ container.state = "none"
    /\ Goes(g, "idle", "creating")
    /\ Loads(g)
    /\ lock' = g
    /\ attempt' = [attempt EXCEPT ![g] = 1]
    /\ UNCHANGED <<fixed, chosen, others, late, seen, asked, target, listening>>

\* The old pending file goes, a port is bound and recorded as pending.  A
\* configured port that is in use ends the start.
Reserve(g) ==
    /\ IF cfg[g] # 0 /\ ~Free(cfg[g])
         THEN /\ Goes(g, "creating", "failed")
              /\ pendingFile' = IF apple THEN 0 ELSE pendingFile
              /\ UNCHANGED chosen
         ELSE \E p \in Ports :
              /\ Free(p) /\ cfg[g] \in {0, p}
              /\ Goes(g, "creating", "reserved")
              /\ chosen' = [chosen EXCEPT ![g] = p]
              /\ pendingFile' = IF apple THEN p ELSE pendingFile
    /\ UNCHANGED <<fixed, lock, cfg, attempt, others, late, seen, asked, container, portFile,
                   endpointFile, stale, listening>>

\* drop(pending): the port is anyone's until the runtime binds it.
Release(g) ==
    /\ Goes(g, "reserved", "released")
    /\ UNCHANGED <<fixed, lock, cfg, attempt, chosen, others, late, seen, asked, target, listening>>

\* A container with port p was there for those who asked.
Seen(p) == seen' = [g \in Gateways |-> IF pc[g] = "asked" THEN seen[g] \cup {p} ELSE seen[g]]

\* A lost race for the port is tried again.
MayRetry(g) == attempt[g] < Attempts

\* run_detached finds the name taken, by a container that a killed gateway's run
\* has made since the inspection; or it gets the port; or it fails on it and may
\* leave a container behind, which is removed before the next attempt.
Run(g) ==
    /\ LET p == chosen[g]
       IN  \/ /\ container.state # "none"
              /\ Goes(g, "released", "failed")
              /\ pendingFile' = IF apple THEN 0 ELSE pendingFile
              /\ UNCHANGED <<attempt, container, seen>>
           \/ /\ container.state = "none" /\ Free(p)
              /\ Goes(g, "released", "ran")
              /\ container' = [state |-> "running", port |-> p]
              /\ Seen(p)
              /\ UNCHANGED <<attempt, pendingFile>>
           \/ /\ container.state = "none" /\ ~Free(p)
              /\ pendingFile' = IF apple THEN 0 ELSE pendingFile
              /\ \/ /\ MayRetry(g)
                    /\ Goes(g, "released", "creating")
                    /\ attempt' = [attempt EXCEPT ![g] = @ + 1]
                    /\ UNCHANGED <<container, seen>>
                 \/ /\ ~MayRetry(g)
                    /\ Goes(g, "released", "failed")
                    /\ \/ UNCHANGED <<container, seen>>
                       \/ container' = [state |-> "stopped", port |-> p] /\ Seen(p)
                    /\ UNCHANGED attempt
    /\ UNCHANGED <<fixed, lock, cfg, chosen, others, late, asked, portFile, endpointFile, stale,
                   listening>>

Settled(g) ==
    /\ lock' = None
    /\ attempt' = [attempt EXCEPT ![g] = 0]
    /\ chosen' = [chosen EXCEPT ![g] = 0]
    /\ Forgets(g)

\* promote_pending_published_ssh_port: a rename.
Promote(g) ==
    /\ Goes(g, "ran", "idle")
    /\ portFile' = IF apple THEN pendingFile ELSE portFile
    /\ pendingFile' = IF apple THEN 0 ELSE pendingFile
    /\ Settled(g)
    /\ UNCHANGED <<fixed, others, late, seen, asked, container, endpointFile, stale, listening>>

\* The port is promoted, and then the target does not become ready.
Unready(g) ==
    /\ Goes(g, "ran", "failed")
    /\ portFile' = IF apple THEN pendingFile ELSE portFile
    /\ pendingFile' = IF apple THEN 0 ELSE pendingFile
    /\ UNCHANGED <<fixed, lock, cfg, attempt, chosen, others, late, seen, asked, container,
                   endpointFile, stale, listening>>

NoFiles == portFile' = 0 /\ pendingFile' = 0 /\ endpointFile' = NoEndpoint /\ stale' = FALSE

\* FailedStartCleanup: all records go with the container, else the pending one.
CleanupFailedStart(g) ==
    /\ Goes(g, "failed", "idle")
    /\ \/ container' = Gone /\ NoFiles
       \/ /\ container.state # "none"
          /\ container' \in {container, [container EXCEPT !.state = "stopped"]}
          /\ pendingFile' = IF apple THEN 0 ELSE pendingFile
          /\ UNCHANGED <<portFile, endpointFile, stale>>
    /\ Settled(g)
    /\ UNCHANGED <<fixed, others, late, seen, asked, listening>>

\* A stopped container is started again with the port it was created with; on
\* Apple only if that port is on record.  A start or stop is done under the lock,
\* but that of a killed gateway comes at any time, as does the container's own end.
Restart(g) ==
    /\ pc[g] = "idle"
    /\ container.state = "stopped"
    /\ apple => portFile # 0
    /\ container.port \notin others
    /\ container' = [container EXCEPT !.state = "running"]
    /\ UNCHANGED <<fixed, lock, pc, cfg, attempt, chosen, others, late, seen, asked, portFile,
                   pendingFile, endpointFile, stale, listening>>

Stop(g) ==
    /\ pc[g] = "idle"
    /\ container.state = "running"
    /\ container' = [container EXCEPT !.state = "stopped"]
    /\ UNCHANGED <<fixed, lock, pc, cfg, attempt, chosen, others, late, seen, asked, portFile,
                   pendingFile, endpointFile, stale, listening>>

\* operation_remove: the container, if there is one, then
\* cleanup_published_ssh_port_state; not that if the removal fails.
BeginRemove(g) ==
    /\ lock = None
    /\ Goes(g, "idle", "removing")
    /\ lock' = g
    /\ UNCHANGED <<fixed, cfg, attempt, chosen, others, late, seen, asked, target, listening>>

Remove(g) ==
    /\ Goes(g, "removing", "removed")
    /\ container' = Gone
    /\ UNCHANGED <<fixed, lock, cfg, attempt, chosen, others, late, seen, asked, portFile,
                   pendingFile, endpointFile, stale, listening>>

RemoveFails(g) ==
    /\ Goes(g, "removing", "idle")
    /\ Settled(g)
    /\ UNCHANGED <<fixed, others, late, seen, asked, target, listening>>

CleanupFiles_EndpointOnly(g) ==  \* (mistake: the recorded port is not removed)
    /\ Goes(g, "removed", "idle")
    /\ pendingFile' = 0 /\ endpointFile' = NoEndpoint
    /\ Settled(g)
    /\ UNCHANGED <<fixed, others, late, seen, asked, container, portFile, stale, listening>>

CleanupFiles(g) ==
    /\ Goes(g, "removed", "idle")
    /\ NoFiles
    /\ Settled(g)
    /\ UNCHANGED <<fixed, others, late, seen, asked, container, listening>>

-----------------------------------------------------------------------------
(* Asking: direct_client_ssh_endpoint, direct_status_ssh_endpoint.         *)

\* The container is inspected, without the lock.
Ask(g) ==
    /\ direct
    /\ Goes(g, "idle", "asked")
    /\ Loads(g)
    /\ found' = [found EXCEPT ![g] = container.state]
    /\ seen' = [seen EXCEPT ![g] = IF container.state = "none" THEN {} ELSE {container.port}]
    /\ UNCHANGED <<fixed, lock, attempt, chosen, others, late, wrong, target, listening>>

\* matches_runtime
Saved(g) == IF endpointFile.configured = cfg[g] THEN endpointFile.port ELSE 0

\* What the runtime, or on Apple the record, says; 0 for nothing or an error.
Authoritative(g) ==
    IF found[g] = "none" THEN 0
    ELSE IF apple /\ found[g] = "stopped" THEN (IF Saved(g) \in {0, portFile} THEN portFile ELSE 0)
    ELSE IF container.state # "running" THEN 0
    ELSE IF apple THEN portFile ELSE container.port

\* The endpoint that is answered, 0 for an error: the authoritative one, else the
\* saved one of a stopped container, which on Apple must be the recorded one;
\* always the configured port if there is one.  Without a container a client is
\* given the configured port, whoever has it; a status says nothing then.
Resolved(g) ==
    LET p == IF found[g] = "none" THEN cfg[g]
             ELSE IF Authoritative(g) # 0 THEN Authoritative(g)
             ELSE IF found[g] = "stopped" /\ ~apple THEN Saved(g)
             ELSE 0
    IN  IF cfg[g] \in {0, p} THEN p ELSE 0

\* Files and runtime are read; an authoritative answer is then saved.
Answer(g) ==
    /\ pc[g] = "asked"
    /\ LET p == Resolved(g)
       IN  /\ pc' = [pc EXCEPT ![g] = IF p # 0 /\ Authoritative(g) # 0 THEN "answered" ELSE "idle"]
           /\ wrong' = (wrong \/ (p # 0 /\ p \notin seen[g] /\ ~stale /\ found[g] # "none"))
           /\ seen' = [seen EXCEPT ![g] = IF p # 0 /\ Authoritative(g) # 0 THEN {p} ELSE {}]
           /\ IF p # 0 /\ Authoritative(g) # 0 THEN UNCHANGED cfg ELSE Forgets(g)
           /\ found' = [found EXCEPT ![g] = "none"]
    /\ UNCHANGED <<fixed, lock, attempt, chosen, others, late, target, listening>>

SaveEndpoint(g) ==
    /\ Goes(g, "answered", "idle")
    /\ \E p \in seen[g] :
          /\ endpointFile' = [port |-> p, configured |-> cfg[g]]
          /\ stale' = (stale \/ container.port # p)
    /\ seen' = [seen EXCEPT ![g] = {}]
    /\ Forgets(g)
    /\ UNCHANGED <<fixed, lock, attempt, chosen, others, late, asked, container, portFile,
                   pendingFile, listening>>

-----------------------------------------------------------------------------
(* The local listener: bind_local_ssh, local_ssh_port, LocalListenerGuard. *)

BindBegin_Unchecked(g) ==  \* (mistake: the status file is not looked at)
    /\ ~direct
    /\ lock = None
    /\ g \notin listener
    /\ Goes(g, "idle", "binding")
    /\ lock' = g
    /\ status' = None
    /\ UNCHANGED <<fixed, cfg, attempt, chosen, others, late, seen, asked, target, listener, swept>>

\* Under the lock: refused if the file names a live process, else it is deleted.
BindBegin(g) ==
    /\ ~direct
    /\ lock = None
    /\ g \notin listener
    /\ status \notin Gateways
    /\ Goes(g, "idle", "binding")
    /\ lock' = g
    /\ status' = None
    /\ UNCHANGED <<fixed, cfg, attempt, chosen, others, late, seen, asked, target, listener, swept>>

BindEnd(g) ==
    /\ Goes(g, "binding", "idle")
    /\ lock' = None
    /\ listener' = listener \cup {g}
    /\ status' = g
    /\ UNCHANGED <<fixed, cfg, attempt, chosen, others, late, seen, asked, target, swept>>

\* A live listener that loses its status file.
Swept == {status} \cap Gateways

\* The guard deletes the file, whosever it is.
StopListening(g) ==
    /\ g \in listener /\ pc[g] = "idle"
    /\ listener' = listener \ {g}
    /\ status' = None
    /\ swept' = (swept \cup Swept) \ {g}
    /\ UNCHANGED <<fixed, lock, pc, cfg, attempt, chosen, others, late, seen, asked, target>>

\* local_ssh_port, without the lock, will delete the record of a dead process, and
\* that of a live one if it has another host than the reader's configuration:
\* 127.0.0.1 and ::1 are both accepted, and the configuration may be edited.
ReadStatus(g) ==
    /\ status # None
    /\ Goes(g, "idle", "sweeping")
    /\ UNCHANGED <<fixed, lock, cfg, attempt, chosen, others, late, seen, asked, target, listening>>

SweepStatus(g) ==
    /\ Goes(g, "sweeping", "idle")
    /\ status' = None
    /\ swept' = swept \cup Swept
    /\ UNCHANGED <<fixed, lock, cfg, attempt, chosen, others, late, seen, asked, target, listener>>

-----------------------------------------------------------------------------

\* What a gateway has under way in the runtime: its run, the removal of what a
\* failed run has left, of a container that did not become ready, or of any.
UnderWay(g) ==
    {c \in LateCommands :
        \/ c.op = "run" /\ c.port = chosen[g] /\ pc[g] = "released"
        \/ c.op = "rm" /\ pc[g] \in {"released", "failed", "removing"}}

Left == portFile # 0 \/ endpointFile # NoEndpoint

\* A gateway is killed; lock, reserved port and listener go with it, its command
\* in the runtime does not (run_status: no kill_on_drop).
Die(g) ==
    /\ pc' = [pc EXCEPT ![g] = "idle"]
    /\ lock' = IF lock = g THEN None ELSE lock
    /\ attempt' = [attempt EXCEPT ![g] = 0]
    /\ chosen' = [chosen EXCEPT ![g] = 0]
    /\ Forgets(g)
    /\ found' = [found EXCEPT ![g] = "none"]
    /\ seen' = [seen EXCEPT ![g] = {}]
    /\ stale' = (stale \/ (pc[g] = "removed" /\ Left))
    /\ \/ UNCHANGED late
       \/ Cardinality(late) < MaxLate /\ \E c \in UnderWay(g) : late' = late \cup {c}
    /\ listener' = listener \ {g}
    /\ status' = IF status = g THEN "dead" ELSE status
    /\ swept' = swept \ {g}
    /\ UNCHANGED <<fixed, others, wrong, container, portFile, pendingFile, endpointFile>>

\* The run of a killed gateway makes its container, if the name and the port are
\* free.  Nobody promotes its port, and the files of a container that is just
\* being removed are not its own.
LateRun(p) ==
    /\ [op |-> "run", port |-> p] \in late
    /\ late' = late \ {[op |-> "run", port |-> p]}
    /\ \/ /\ container.state = "none" /\ Free(p)
          /\ container' = [state |-> "running", port |-> p]
          /\ Seen(p)
          /\ stale' = (stale \/ Left)
       \/ UNCHANGED <<container, seen, stale>>
    /\ UNCHANGED <<fixed, lock, pc, cfg, attempt, chosen, others, asked, portFile, pendingFile,
                   endpointFile, listening>>

\* The removal of a killed gateway takes whatever container has the name: Apple's
\* is forced, Podman refuses a running one.  All records stay.
LateRemove ==
    /\ [op |-> "rm", port |-> 0] \in late
    /\ late' = late \ {[op |-> "rm", port |-> 0]}
    /\ \/ /\ container.state = "stopped" \/ (apple /\ container.state = "running")
          /\ container' = Gone
          /\ stale' = (stale \/ Left \/ pendingFile # 0)
       \/ UNCHANGED <<container, stale>>
    /\ UNCHANGED <<fixed, lock, pc, cfg, attempt, chosen, others, seen, asked, portFile,
                   pendingFile, endpointFile, listening>>

OtherUses(p) ==
    /\ \/ p \in others /\ others' = others \ {p}
       \/ /\ Free(p) /\ \A g \in Gateways : ~(pc[g] = "reserved" /\ chosen[g] = p)
          /\ others' = others \cup {p}
    /\ UNCHANGED <<fixed, lock, pc, cfg, attempt, chosen, late, seen, asked, target, listening>>

Next ==
    \/ \E g \in Gateways :
         \/ BeginCreate(g) \/ Reserve(g) \/ Release(g) \/ Run(g) \/ Promote(g)
         \/ Unready(g) \/ CleanupFailedStart(g) \/ Restart(g) \/ Stop(g)
         \/ BeginRemove(g) \/ Remove(g) \/ RemoveFails(g) \/ CleanupFiles(g)
         \/ Ask(g) \/ Answer(g) \/ SaveEndpoint(g)
         \/ BindBegin(g) \/ BindEnd(g) \/ StopListening(g) \/ ReadStatus(g) \/ SweepStatus(g)
         \/ Die(g)
    \/ \E p \in Ports : OtherUses(p) \/ LateRun(p)
    \/ LateRemove

Spec == Init /\ [][Next]_vars

-----------------------------------------------------------------------------
(* Properties.                                                             *)

\* On Apple the recorded port is the container's.
RecordIsTheContainers ==
    apple /\ ~stale /\ portFile # 0 /\ container.state # "none"
        => portFile = container.port

\* Whoever is told an endpoint while there is a container is told the one of this
\* target's container, and no port of another process, whatever gateways start,
\* stop, remove and die at the same time and whichever of their commands come late;
\* and what an Apple container is found by stays its port, also when starts were
\* retried on other ports, failed or were killed between run and promote.  There are
\* two exceptions: a file that outlived its container, because a gateway was killed
\* between the two, a removal came late or an endpoint was saved late, can mislead
\* until the records are cleaned up; and a client that finds no container is given
\* the configured port unseen, whoever listens on it (direct_client_ssh_endpoint).
AnswersAreRight == ~wrong /\ RecordIsTheContainers

\* A live listener is the one its status file names, so that no second one begins;
\* only one that has lost the file to somebody else is not found.  That takes a
\* reader without the lock, which deletes the file of a live listener when it took
\* it for that of a dead one that has been replaced since, or when its own
\* configuration names another host (local_ssh_port); or the end of a listener that
\* has lost its own file, which deletes that of its successor (LocalListenerGuard).
ListenerIsKnown == \A g \in listener \ swept : status = g

=============================================================================
