----------------------------- MODULE ExecCancel -----------------------------
(***************************************************************************)
(* Commands a gateway runs in a container so that it can take them back:   *)
(* exec_cancelable, exec_capture_cancelable and exec_pty.  The command is  *)
(* wrapped in a shell that records its pid and a token in a marker file of *)
(* the container; a cancellation runs a script in the container that reads *)
(* the marker and kills what it names.  The gateway sees of all this only  *)
(* its own runtime clients: a script, a command and a client each go on    *)
(* when the others are gone.  An operation that captures the output reads  *)
(* the client's pipes to their end before it returns.                      *)
(*                                                                         *)
(* A marker's path is made of the kind, the gateway's pid and a counter    *)
(* that starts again in every process, so two gateways may share paths:    *)
(* the value of a marker stands for the recorded pid and token.            *)
(***************************************************************************)
EXTENDS Naturals, FiniteSets

CONSTANTS
    Commands,   \* commands that may be run
    Gateways,   \* gateway processes
    Owner,      \* [Commands -> Gateways]
    PidsOf,     \* [Gateways -> SUBSET Nat], the pids the host may give to a gateway
    None,       \* no command, no gateway
    Faulty,     \* the commands for which calls of the runtime may fail or hang, and
                \* whose client may leave a process behind that holds its output pipes
    Mortal      \* the gateways that may be killed

ASSUME CancelAssumption ==
    /\ IsFiniteSet(Commands)
    /\ Owner \in [Commands -> Gateways]
    /\ PidsOf \in [Gateways -> SUBSET (Nat \ {0})]
    /\ None \notin Commands \cup Gateways
    /\ Faulty \subseteq Commands /\ Mortal \subseteq Gateways

VARIABLES
    gateway,  \* [Gateways -> {"new", "live", "ready", "dead"}]
    pid,      \* [Gateways -> Nat], 0 before the start; recycled when a process is gone
    sweeper,  \* who sweeps markers, under the lifecycle lock, or None
    stale,    \* the paths that the sweep found stale
    kind,     \* [Commands -> Kinds], how the command is run
    seq,      \* [Commands -> Nat], the counter's value, 0 before the command is run
    op,       \* [Commands -> Phase], what the gateway does about the command
    result,   \* [Commands -> {"none", "completed", "canceled"}]
    client,   \* [Commands -> {"none", "running", "dead"}], the runtime's client
    cmd,      \* [Commands -> {"none", "requested", "shell", "running", "gone"}]
    marker,   \* [Paths -> Commands \cup {None}]
    script,   \* [Commands -> [Tries -> Step]], the cleanup scripts in the container
    victim,   \* [Commands -> [Tries -> Commands \cup {None}]], whom a script kills
    verdict,  \* [Commands -> [Tries -> {"open", "ok", "failed"}]], what the gateway saw
    missed    \* commands one of whose scripts found no marker of theirs

vars == <<gateway, pid, sweeper, stale, kind, seq, op, result, client, cmd, marker, script,
          victim, verdict, missed>>

Tries == {1, 2}  \* "initial" and "post-host-terminate"

Phase == {"idle", "spawned", "removing", "terminating", "joining", "retrying",
          "waiting", "draining", "done", "lost"}

Step == {"none", "begun", "signalled", "killed", "end"}

Kinds == {"exec", "capture", "pty"}

Pids == UNION {PidsOf[g] : g \in Gateways}

\* next_cancel_marker: both ways to run a command without a terminal say "exec".
Paths == {"exec", "pty"} \X Pids \X (1 .. Cardinality(Commands))

Path(c) == <<IF kind[c] = "pty" THEN "pty" ELSE "exec", pid[Owner[c]], seq[c]>>

Started(c) == seq[c] > 0

\* The gateway's part of an operation can go on.
At(c, phase) == op[c] = phase /\ gateway[Owner[c]] = "ready"

TypeOK ==
    /\ gateway \in [Gateways -> {"new", "live", "ready", "dead"}]
    /\ pid \in [Gateways -> {0} \cup Pids]
    /\ sweeper \in Gateways \cup {None}
    /\ stale \subseteq Paths
    /\ kind \in [Commands -> Kinds]
    /\ seq \in [Commands -> Nat]
    /\ \A c \in Commands : seq[c] <= Cardinality({d \in Commands : Owner[d] = Owner[c]})
    /\ op \in [Commands -> Phase]
    /\ result \in [Commands -> {"none", "completed", "canceled"}]
    /\ client \in [Commands -> {"none", "running", "dead"}]
    /\ cmd \in [Commands -> {"none", "requested", "shell", "running", "gone"}]
    /\ marker \in [Paths -> Commands \cup {None}]
    /\ script \in [Commands -> [Tries -> Step]]
    /\ victim \in [Commands -> [Tries -> Commands \cup {None}]]
    /\ verdict \in [Commands -> [Tries -> {"open", "ok", "failed"}]]
    /\ missed \subseteq Commands

Init ==
    /\ gateway = [g \in Gateways |-> "new"]
    /\ pid = [g \in Gateways |-> 0]
    /\ sweeper = None
    /\ stale = {}
    /\ kind = [c \in Commands |-> "exec"]
    /\ seq = [c \in Commands |-> 0]
    /\ op = [c \in Commands |-> "idle"]
    /\ result = [c \in Commands |-> "none"]
    /\ client = [c \in Commands |-> "none"]
    /\ cmd = [c \in Commands |-> "none"]
    /\ marker = [p \in Paths |-> None]
    /\ script = [c \in Commands |-> [t \in Tries |-> "none"]]
    /\ victim = [c \in Commands |-> [t \in Tries |-> None]]
    /\ verdict = [c \in Commands |-> [t \in Tries |-> "open"]]
    /\ missed = {}

-----------------------------------------------------------------------------
(* Gateways.                                                               *)

\* A process with this pid is running, as the host says.
Active(n) == \E g \in Gateways : pid[g] = n /\ gateway[g] \in {"live", "ready"}

\* A start or a script of c is under way in the runtime.
InFlight(c) ==
    \/ client[c] = "running" /\ cmd[c] = "none"
    \/ cmd[c] \in {"requested", "shell"}
    \/ \E t \in Tries : script[c][t] \in {"begun", "signalled", "killed"}

\* The host gives a new process the pid of a dead one, but not so soon that a
\* script or a start of the dead one is still under way: the longest script
\* takes 0.2 s, and a host runs through all its pids first.
StartGateway(g) ==
    /\ gateway[g] = "new"
    /\ \E n \in PidsOf[g] :
         /\ ~Active(n)
         /\ \A c \in Commands : pid[Owner[c]] = n => ~InFlight(c)
         /\ pid' = [pid EXCEPT ![g] = n]
    /\ gateway' = [gateway EXCEPT ![g] = "live"]
    /\ UNCHANGED <<sweeper, stale, kind, seq, op, result, client, cmd, marker, script,
                   victim, verdict, missed>>

\* SIGKILL, or a second signal: std::process::exit in the middle of a cleanup.
\* The runtime's clients live on, the lifecycle lock is released.
Die(g) ==
    /\ g \in Mortal
    /\ gateway[g] \in {"live", "ready"}
    /\ gateway' = [gateway EXCEPT ![g] = "dead"]
    /\ op' = [c \in Commands |->
                IF Owner[c] = g /\ op[c] \notin {"idle", "done"} THEN "lost" ELSE op[c]]
    /\ sweeper' = IF sweeper = g THEN None ELSE sweeper
    /\ stale' = IF sweeper = g THEN {} ELSE stale
    /\ UNCHANGED <<pid, kind, seq, result, client, cmd, marker, script, victim, verdict, missed>>

\* sweep_stale_cancel_markers, first half, once per process, in the readiness
\* of its first operation: list the markers, keep those of processes that are gone.
SweepList_All(g) ==  \* (mistake: a marker is taken for stale without asking the host)
    /\ gateway[g] = "live"
    /\ sweeper = None
    /\ sweeper' = g
    /\ stale' = {p \in Paths : marker[p] # None}
    /\ UNCHANGED <<gateway, pid, kind, seq, op, result, client, cmd, marker, script, victim,
                   verdict, missed>>

SweepList(g) ==
    /\ gateway[g] = "live"
    /\ sweeper = None
    /\ sweeper' = g
    /\ stale' = {p \in Paths : marker[p] # None /\ ~Active(p[2])}
    /\ UNCHANGED <<gateway, pid, kind, seq, op, result, client, cmd, marker, script, victim,
                   verdict, missed>>

\* Second half: remove them; the readiness goes on whether that worked or not.
SweepRemove(g) ==
    /\ sweeper = g
    /\ \/ marker' = [p \in Paths |-> IF p \in stale THEN None ELSE marker[p]]
       \/ Faulty # {} /\ UNCHANGED marker
    /\ gateway' = [gateway EXCEPT ![g] = "ready"]
    /\ sweeper' = None
    /\ stale' = {}
    /\ UNCHANGED <<pid, kind, seq, op, result, client, cmd, script, victim, verdict, missed>>

-----------------------------------------------------------------------------
(* The command and its client.                                             *)

Issued(g) == Cardinality({c \in Commands : Owner[c] = g /\ Started(c)})

\* next_cancel_marker and the spawn of the runtime's client.
Spawn(c) ==
    /\ At(c, "idle")
    /\ \E k \in Kinds : kind' = [kind EXCEPT ![c] = k]
    /\ seq' = [seq EXCEPT ![c] = Issued(Owner[c]) + 1]
    /\ op' = [op EXCEPT ![c] = "spawned"]
    /\ client' = [client EXCEPT ![c] = "running"]
    /\ UNCHANGED <<gateway, pid, sweeper, stale, result, cmd, marker, script, victim,
                   verdict, missed>>

Container(c, from, to) == cmd[c] = from /\ cmd' = [cmd EXCEPT ![c] = to]

\* The client's request reaches the runtime.
Request(c) ==
    /\ client[c] = "running"
    /\ Container(c, "none", "requested")
    /\ UNCHANGED <<gateway, pid, sweeper, stale, kind, seq, op, result, client, marker, script,
                   victim, verdict, missed>>

\* The runtime starts the shell, or has noticed that its client is gone.
StartShell(c) ==
    /\ \/ Container(c, "requested", "shell")
       \/ client[c] = "dead" /\ Container(c, "requested", "gone")
    /\ UNCHANGED <<gateway, pid, sweeper, stale, kind, seq, op, result, client, marker, script,
                   victim, verdict, missed>>

\* wrap_cancelable_command: the shell writes the marker, over any other, and
\* becomes the command; it ends if it cannot write it.
WriteMarker(c) ==
    /\ \/ /\ Container(c, "shell", "running")
          /\ marker' = [marker EXCEPT ![Path(c)] = c]
       \/ /\ c \in Faulty
          /\ Container(c, "shell", "gone")
          /\ UNCHANGED marker
    /\ UNCHANGED <<gateway, pid, sweeper, stale, kind, seq, op, result, client, script, victim,
                   verdict, missed>>

CommandExits(c) ==
    /\ Container(c, "running", "gone")
    /\ UNCHANGED <<gateway, pid, sweeper, stale, kind, seq, op, result, client, marker, script,
                   victim, verdict, missed>>

\* The client ends with its command, or alone when something goes wrong with it.
ClientExits(c) ==
    /\ client[c] = "running"
    /\ cmd[c] = "gone" \/ c \in Faulty \/ gateway[Owner[c]] = "dead"
    /\ client' = [client EXCEPT ![c] = "dead"]
    /\ UNCHANGED <<gateway, pid, sweeper, stale, kind, seq, op, result, cmd, marker, script,
                   victim, verdict, missed>>

-----------------------------------------------------------------------------
(* The gateway's side of an operation that is not canceled.                *)

\* The wait for the client ends first.  A PTY session is then dropped as it is,
\* a capture goes on with its pipes and no longer listens to its token.
Complete(c) ==
    /\ At(c, "spawned")
    /\ client[c] = "dead"
    /\ result' = [result EXCEPT ![c] = "completed"]
    /\ op' = [op EXCEPT ![c] = CASE kind[c] = "exec" -> "removing"
                                    [] kind[c] = "capture" -> "draining"
                                    [] kind[c] = "pty" -> "done"]
    /\ UNCHANGED <<gateway, pid, sweeper, stale, kind, seq, client, cmd, marker, script, victim,
                   verdict, missed>>

\* exec_capture_cancelable, completed or canceled, joins the two tasks that read
\* the client's output.  Nothing bounds this: it takes as long as some process
\* holds the pipes.  An output that cannot be read leaves the marker behind.
Drain(c) ==
    /\ At(c, "draining")
    /\ client[c] = "dead"
    /\ \E next \in IF result[c] = "completed" THEN {"removing", "done"} ELSE {"done"} :
         /\ next = "done" /\ result[c] = "completed" => c \in Faulty
         /\ op' = [op EXCEPT ![c] = next]
    /\ UNCHANGED <<gateway, pid, sweeper, stale, kind, seq, result, client, cmd, marker, script,
                   victim, verdict, missed>>

\* cancel_marker_remove_spec, bounded by a timeout: the marker goes if it is ours.
RemoveMarker(c) ==
    /\ At(c, "removing")
    /\ \/ marker' = [p \in Paths |-> IF p = Path(c) /\ marker[p] = c THEN None ELSE marker[p]]
       \/ c \in Faulty /\ UNCHANGED marker
    /\ op' = [op EXCEPT ![c] = "done"]
    /\ UNCHANGED <<gateway, pid, sweeper, stale, kind, seq, result, client, cmd, script, victim,
                   verdict, missed>>

-----------------------------------------------------------------------------
(* Cancellation: cancel_container_exec_child, ContainerPtySession::terminate. *)

\* The token fires, or the PTY is closed: the initial script is sent for.
Cancel(c) ==
    /\ At(c, "spawned")
    /\ op' = [op EXCEPT ![c] = "terminating"]
    /\ script' = [script EXCEPT ![c][1] = "begun"]
    /\ UNCHANGED <<gateway, pid, sweeper, stale, kind, seq, result, client, cmd, marker, victim,
                   verdict, missed>>

\* After CANCEL_HOST_TERMINATE_DELAY the client is killed, whatever the script does.
TerminateHost(c) ==
    /\ At(c, "terminating")
    /\ op' = [op EXCEPT ![c] = "joining"]
    /\ client' = [client EXCEPT ![c] = "dead"]
    /\ UNCHANGED <<gateway, pid, sweeper, stale, kind, seq, result, cmd, marker, script, victim,
                   verdict, missed>>

\* run_container_cancel_exec: any exit status is a success, an error or a
\* timeout is not; the script may go on after its timeout.
Answer_NoTimeout(c, t) ==  \* (mistake: the script is waited for without a bound)
    script[c][t] = "end" /\ verdict' = [verdict EXCEPT ![c][t] = "ok"]

Answer(c, t) ==
    \/ script[c][t] = "end" /\ verdict' = [verdict EXCEPT ![c][t] = "ok"]
    \/ c \in Faulty /\ verdict' = [verdict EXCEPT ![c][t] = "failed"]

AfterCleanup(c) == IF kind[c] = "pty" THEN "done" ELSE "waiting"

\* Only a script that failed is followed by a second one.
JoinCleanup_NoRetry(c) ==  \* (mistake: the second script is left out)
    /\ At(c, "joining")
    /\ Answer(c, 1)
    /\ op' = [op EXCEPT ![c] = AfterCleanup(c)]
    /\ result' = [result EXCEPT ![c] = "canceled"]
    /\ UNCHANGED <<gateway, pid, sweeper, stale, kind, seq, client, cmd, marker, script, victim, missed>>

JoinCleanup(c) ==
    /\ At(c, "joining")
    /\ Answer(c, 1)
    /\ IF verdict'[c][1] = "ok"
         THEN /\ op' = [op EXCEPT ![c] = AfterCleanup(c)]
              /\ UNCHANGED script
         ELSE /\ op' = [op EXCEPT ![c] = "retrying"]
              /\ script' = [script EXCEPT ![c][2] = "begun"]
    /\ result' = [result EXCEPT ![c] = "canceled"]
    /\ UNCHANGED <<gateway, pid, sweeper, stale, kind, seq, client, cmd, marker, victim, missed>>

RetryCleanup(c) ==
    /\ At(c, "retrying")
    /\ Answer(c, 2)
    /\ op' = [op EXCEPT ![c] = AfterCleanup(c)]
    /\ UNCHANGED <<gateway, pid, sweeper, stale, kind, seq, result, client, cmd, marker, script,
                   victim, missed>>

\* The client has ended or CANCEL_HOST_WAIT_TIMEOUT is over and it is dropped;
\* a capture has its pipes still to read.
AwaitHost(c) ==
    /\ At(c, "waiting")
    /\ op' = [op EXCEPT ![c] = IF kind[c] = "capture" THEN "draining" ELSE "done"]
    /\ UNCHANGED <<gateway, pid, sweeper, stale, kind, seq, result, client, cmd, marker, script,
                   victim, verdict, missed>>

-----------------------------------------------------------------------------
(* cancel_cleanup_spec: the script in the container.                       *)

\* read the marker, leave if there is none or the token is another's; else
\* HUP and TERM to the process it names.
ScriptReads_AnyToken(c, t) ==  \* (mistake: the token is not compared)
    /\ script[c][t] = "begun"
    /\ LET found == marker[Path(c)]
       IN  /\ victim' = [victim EXCEPT ![c][t] = found]
           /\ script' = [script EXCEPT ![c][t] = IF found # None THEN "signalled" ELSE "end"]
           /\ missed' = IF found # None THEN missed ELSE missed \cup {c}
    /\ UNCHANGED <<gateway, pid, sweeper, stale, kind, seq, op, result, client, cmd, marker, verdict>>

ScriptReads(c, t) ==
    /\ script[c][t] = "begun"
    /\ IF marker[Path(c)] = c
         THEN /\ victim' = [victim EXCEPT ![c][t] = c]
              /\ script' = [script EXCEPT ![c][t] = "signalled"]
              /\ UNCHANGED missed
         ELSE /\ script' = [script EXCEPT ![c][t] = "end"]
              /\ missed' = missed \cup {c}
              /\ UNCHANGED victim
    /\ UNCHANGED <<gateway, pid, sweeper, stale, kind, seq, op, result, client, cmd, marker, verdict>>

\* After 0.2 s KILL to the process and all that descended from it.
ScriptKills(c, t) ==
    /\ script[c][t] = "signalled"
    /\ cmd' = [cmd EXCEPT ![victim[c][t]] = "gone"]
    /\ script' = [script EXCEPT ![c][t] = "killed"]
    /\ UNCHANGED <<gateway, pid, sweeper, stale, kind, seq, op, result, client, marker, victim,
                   verdict, missed>>

ScriptRemoves(c, t) ==
    /\ script[c][t] = "killed"
    /\ marker' = [marker EXCEPT ![Path(c)] = None]
    /\ script' = [script EXCEPT ![c][t] = "end"]
    /\ UNCHANGED <<gateway, pid, sweeper, stale, kind, seq, op, result, client, cmd, victim,
                   verdict, missed>>

-----------------------------------------------------------------------------

GatewayStep(c) ==
    \/ Complete(c) \/ RemoveMarker(c) \/ TerminateHost(c)
    \/ JoinCleanup(c) \/ RetryCleanup(c) \/ AwaitHost(c)

ScriptStep(c) ==
    \E t \in Tries : ScriptReads(c, t) \/ ScriptKills(c, t) \/ ScriptRemoves(c, t)

ContainerStep(c) ==
    \/ Request(c) \/ StartShell(c) \/ WriteMarker(c) \/ CommandExits(c) \/ ClientExits(c)
    \/ ScriptStep(c)

Next ==
    \/ \E g \in Gateways : StartGateway(g) \/ Die(g) \/ SweepList(g) \/ SweepRemove(g)
    \/ \E c \in Commands :
         Spawn(c) \/ Cancel(c) \/ GatewayStep(c) \/ Drain(c) \/ ContainerStep(c)

Spec == Init /\ [][Next]_vars

\* A gateway's own steps end by themselves or by a timeout, except that a capture
\* reads its pipes only to the end if no process holds them; nothing is assumed of
\* the commands, nor of the runtime except that it runs the scripts of the commands
\* for which it works.
FairSpec ==
    /\ Spec
    /\ \A c \in Commands : WF_vars(GatewayStep(c))
    /\ \A c \in Commands \ Faulty : WF_vars(ScriptStep(c)) /\ WF_vars(Drain(c))

-----------------------------------------------------------------------------
(* Properties.                                                             *)

\* cancel_cleanup_spec compares the token before it trusts the pid: with the
\* marker of a dead gateway left at the same path, a cancellation kills the
\* process of its own command or none.
OnlyOwnCommandKilled == \A c \in Commands : \A t \in Tries : victim[c][t] \in {None, c}

\* As long as a gateway supervises a command that runs, the command's marker is
\* in place, so that it can be canceled: no sweep, no earlier operation's removal
\* and no script takes it away.
SupervisedCommandIsMarked ==
    \A c \in Commands :
        /\ op[c] \in {"spawned", "terminating", "joining", "retrying"}
        /\ cmd[c] = "running"
        => marker[Path(c)] = c

\* A canceled command is gone when the cancellation returns, except when both
\* scripts failed or one found no marker: that is the whole of what a
\* cancellation may leave behind (cancel_container_exec_child, terminate).
CancelLeavesNothing ==
    \A c \in Commands :
        op[c] \in {"waiting", "draining", "done"} /\ result[c] = "canceled" =>
            \/ cmd[c] = "gone"
            \/ c \in missed
            \/ \A t \in Tries : verdict[c][t] = "failed"

\* A cancellation ends even if the runtime never answers: its scripts, the client
\* and its removal are each given up after a timeout.  One wait has none: a capture
\* that was canceled stays with its output as long as a process its client left
\* behind holds the pipes (the join of stdout_task and stderr_task in
\* exec_capture_cancelable).  Everyone else's cancellation ends.
CancelEnds ==
    \A c \in Commands :
        op[c] = "terminating" ~>
            \/ op[c] \in {"done", "lost"}
            \/ kind[c] = "capture" /\ c \in Faulty /\ op[c] = "draining"

=============================================================================
