# A verification project for aw-gateway

`aw-gateway` runs commands, shells and SSH connections in containers that it
starts on demand and gives back when nobody uses them. A host has many gateway
processes (one per CLI invocation, and HTTP servers) which share nothing but a
state directory and the container runtime; inside each container runs
`aw-container-agent`, which supervises services and may end the container by
itself. There is no daemon that owns the truth. What is right about this
system is therefore a matter of protocols between processes that can be killed
at any time: these are modelled here in TLA+, checked with TLC, and in part
proved with TLAPS.

Paths below are relative to the repository (`src/...` is its Rust source).

## The system

| component | state | operations | who it meets |
|---|---|---|---|
| session lifecycle (`src/gateway/session.rs`, `execution.rs`, `src/gateway.rs`) | marker files `sessions/*.json`, the `flock` lifecycle lock | begin, ready, run, end, interrupt, status sweep | other gateways through the state directory |
| start and stop (`src/gateway/lifecycle.rs`, `ops.rs`, `container_spec.rs`) | the container as the runtime reports it | reuse, start, undo a failed start, idle stop, `stop`, `remove` | the runtime CLI, hooks |
| workspace cleanup (`src/gateway/workspace.rs`) | the workspace directory | cleanup after a session, explicit cleanup | sessions, idle stop |
| context (`src/context.rs`) | a label of the container, a field of a marker | match | reuse, sweeps |
| agent services (`src/agent/service.rs`) | child slot, stopping flag, last error | supervise, probe, restart, stop | each other through dependencies |
| agent control plane (`src/agent/control.rs`, `lifecycle.rs`, `state.rs`) | counters, flags, permits | hold, status, shutdown, reap preview, signal | gateways over a Unix socket |
| agent idle loop, reaper (`src/agent/idle.rs`, `process.rs`) | idle state | poll, shut down, reap | the counters, `/proc` |
| SSH bridge (`src/agent/bridge.rs`) | stream count | accept, copy | sshd |
| container commands (`src/runtime.rs`) | cancel markers in the container | exec, PTY, cancel, sweep | the runtime CLI |
| HTTP server (`src/gateway/http.rs`) | wait token, PTY leases | start, attach, wait, expire, shut down | container commands, sessions |
| published ports (`src/gateway/published_port.rs`) | port files, a bound socket | reserve, promote, reuse | other processes of the host |
| local listener (`src/gateway/listener.rs`, `session.rs`) | a status file | bind, serve, read | other gateways |
| host socket exposures (`src/gateway/host_socket_exposures.rs`) | labels of the container | prepare, compare, probe | the host's services |
| configuration (`src/config*`), templates, launches, SSH dispatch and filter (`src/ssh_dispatch.rs`, `ssh_filter.rs`) | none | load, merge, validate, render, parse, decide | every operation |
| control socket directories, hooks, client config, bootstrap, CLI | files, or none | | |

`PROJECT.json` lists all of them, with what is modelled of each and why the
rest is not, and the hazards of the code line by line.

What is hard: several gateways and the agent act on one container in any
order; a gateway is killed between any two steps and its runtime commands
outlive it; locks are given back between the parts of a cleanup; readers of
the marker directory delete what they take for stale; services are stopped
while their supervisors restart them; several triggers shut the agent down at
once under timers; sessions are counted by sampling.

What makes each part correct, informally:

- a session that uses the container keeps it, and its workspace, until it ends;
- a container that should be stopped always has somebody who will check it;
- a context never reaches a container of another one;
- a stopped service stays stopped, and services stop before what they need;
- a shutdown of the agent stops the services, answers, and ends;
- a cancelled command is gone, once, and no other process with it;
- a lease has one owner: an attach, its expiry, or the server's shutdown;
- a published port is held by the container it was given to;
- a reused container is what the configuration asks for now;
- what the validation of a configuration accepts, the code that uses it can use.

## Modules

| module | models | run by |
|---|---|---|
| `GatewaySession` | gateways, markers, lock, container, workspace | `MCGatewaySession` |
| `ContainerUse` | the abstract promise `GatewaySession` implements | through `GatewaySession` |
| `GatewaySessionProofs` | theorems | TLAPS |
| `ServiceSupervisor` | one supervisor per service and `stop_services` | `MCServiceSupervisor` |
| `ServiceSupervisorProofs` | theorems | TLAPS |
| `ContainerAgent` | sessions, idle loop, shutdown, watchdogs | `MCContainerAgent` |
| `ProcessReaper` | what a reap signals, over recycled pids | `MCContainerAgent` |
| `ContainerAgentProofs` | theorems about both | TLAPS |
| `ExecCancel` | cancelable commands, their markers and scripts | `MCExecCancel` |
| `ExecCancelProofs` | theorems | TLAPS |
| `HttpServer` | waits, PTY leases, attaches, shutdown | `MCHttpServer` |
| `HttpServerProofs` | theorems | TLAPS |
| `SshEndpoint` | published ports and the local listener | `MCContainerChecks` |
| `SshEndpointProofs` | theorems | TLAPS |
| `ContainerReuse` | labels, exposed sockets, reuse or recreation | `MCContainerChecks` |
| `ContainerReuseProofs` | theorems | TLAPS |
| `ServiceOrder` | the two walks over the dependency graph | `MCGatewayFunctions`, `MCServiceSupervisor` |
| `ConfigFiles` | includes and extends | `MCGatewayFunctions` |
| `TemplateChains` | the templates that templates of targets and launches use | `MCGatewayFunctions` |
| `StepPatches` | patches of inherited lists of steps | `MCGatewayFunctions` |
| `ConfigTarget` | the layers of a target, its validation, the agent's file | `MCGatewayFunctions` |
| `ConfigTemplates` | variables of templates, launches | `MCGatewayFunctions` |
| `SshCommands` | the SSH command filter, parsers and dispatch | `MCGatewayFunctions` |
| `ConfigFunctions` | evaluates targets, templates, launches, patches, orders and uses; what they should be | `MCGatewayFunctions` |
| `ConfigFunctionsProofs` | theorems | TLAPS |
| `GatewayFunctions` | adds files and SSH commands; the references | `MCGatewayFunctions` |

How they fit together. `MCServiceSupervisor` gives the supervisor model the
`StopOrder` that `ServiceOrder` computes, so what `ServiceSupervisor` assumes of
the order is what `StopsDependentsFirst` says, for every accepted graph over any
list of services (`StopsDependentsFirstThm`).
`ContainerAgent` assumes of stopping the services that it ends within the sum
of their timeouts, which `ServiceSupervisor` breaks down; that a reap is one
step of it is broken down by `ProcessReaper`. `HttpServer` takes "the command is
canceled" as one step, which need not end: when it does is `CancelEnds` of
`ExecCancel` (a wait captures its output). It takes
"finish the session" as one step, which is the end of a session in
`GatewaySession`. `GatewaySession` takes "reuse" as a comparison of contexts;
the other labels are `ContainerReuse`.

`MCContainerChecks` holds two models that share no variable, `SshEndpoint` and
`ContainerReuse`: `part` says, from the initial state on, which of them moves. No
property is about both, so nothing is lost by leaving out their interleavings. In
`MCContainerAgent`, `part` picks the peers that come, two requests and a holder, or
two holders and a stream; or it lets the agent rest and `ProcessReaper` move.

Operators named `X_Something` that stand before a definition `X` are what `X`
would be with a plausible mistake; `PROJECT.json` says which property catches
which. They are not used by any specification.

### GatewaySession

An *operation* is one command of a gateway: a session (`run`, `launch`, `ssh`,
attach), `up`, `stop`, `remove` or `status`. `Host` says in which gateway
process it runs, so an HTTP server is a gateway with several operations. The
variables are the lock, the marker directory (`markers`: the operations whose
file is there), the container and the context it was created with, the
workspace, and per operation where it is in the code (`pc`). Each critical
section of the code is a sequence of actions between `Holds` and `Unlock`: what
happens under the lock still interleaves with kills, with container exits,
with runtime commands of dead gateways (`orphan`), and with the sweeps that
need no lock. A hook, a check or a runtime command may fail at each place the
code allows for it (`Failures`).

A child process that waits on behalf of a killed gateway is not killed with it
(`run_status` spawns without `kill_on_drop`). That is true of `run`, `start`,
`stop` and `rm`, which take effect later (`OrphanCompletes`), and of the removal of
the workspace, `podman unshare rm -rf` on the mounted state directory: once its
gateway is gone and the lock is free it may go on to delete whatever is there,
the workspace and markers of sessions that began since included (`WipesLate`). The
history variable `wiped` collects the sessions that lost their marker to it.

The end of a session is several steps, as in the code: drop the marker, sleep,
then under the lock read the markers and stop the container, give the lock
back, take it again and read the markers once more for the workspace.

Abstracted: all labels except the context are equal, as with one
configuration; `rm` of a running container is refused, as Podman and Docker do
(Apple's runtime forces it); a marker's own `unlink` does not fail; working
files, control socket directories, keys and published ports are left out.

### ServiceSupervisor, ServiceOrder

`pc[s]` is the loop of `service_supervisor`, `proc[s]` the process, `owner[s]`
who has its handle: the slot (`Mutex<Option<Child>>`), the supervisor while it
terminates an unhealthy process, or `ManagedService::stop`. What the code does
with the slot locked is one action; every `await` without it is a boundary
between two. Health answers are what the checks can see: the default check
looks for a process, which an exited one still is until it is reaped; a probe
may fail at any time and succeeds only on a live process. `stopper` and `step`
are the loop of `stop_services`.

Abstracted: times (a timeout ends some time), backoff lengths, logs,
environments, users; an error of `try_wait` itself.

`ServiceOrder` has the two recursive walks as they are, `visit_service_dependency`
of the configuration and `visit` of `service_stop_order`, against independent
definitions: a graph has a cycle when some set of services each depends on
another of the set; an order is a permutation with dependents first. A walk is a
recursive function of its calls (a name with what is known so far), and its loop
a fold over the list of services, so that it can be proved about.

### ContainerAgent

`session[p]` follows a held session or a bridge stream from its connection to
its end (`granted` is the window in which the peer was told `held: true`, or
the stream was accepted, but the counter is not incremented yet); `task[t]`
follows each trigger of a shutdown through `shutdown_agent` and
`wait_for_shutdown_complete`. `NotifyWaiters` has tokio's semantics: it reaches
every `Notified` future that exists, whether polled or not. The watchdogs of
all triggers are one timer with the least remaining time. The idle loop is two
actions, loading the counters and deciding, because nothing holds the sessions
still in between. `age` and `sinceLong` are history variables that only the
properties read.

Time is discrete and the agent urgent: `Tick` is disabled while there is
something the agent does at once (`AtOnce`). Peers that have hung up come back
a tick later at the earliest, which bounds what happens within an instant.

One detail the model keeps: a hold evaluates `shutting_down` when it begins to
wait for its peer, so a hold that was already waiting when the shutdown began
does not end after a second (`counted`, not `brief`).

Abstracted: authentication, status and reap requests (a connection that ends),
the stream limit of 1024, which processes a reap signals (`ProcessReaper`), and
everything outside the agent's own process.

### ProcessReaper

`proc[p]` is the process with pid `p`: its start time, name, user, parent, and
the signals the reaper sent it, which no code reads. A reap looks up the pid of
each managed service, one locked slot at a time (`LookUp`), then reads the
process table and signals what `build_reap_plan` selects (`Reap`), and leaves a
task behind that kills, after `reap_kill_after`, those of the plan that are still
the same process (`Escalate`). Processes fork, exec, exit and are replaced by
others with their pid in between; a child of a process that exits becomes the
agent's. Preserved processes are the closure of `preserve_processes` under
"child of", stated as the least set; the code computes it by iteration.
`fresh` marks services started after their slot was looked up.

Abstracted: reading `/proc` and sending the signals of a plan are one step; a
process that has exited is waited for at once, so there are no zombies.

### ExecCancel

A cancelable command is wrapped in a shell that writes its pid and a token to a
marker in the container. `op[c]` is the gateway's part (`cancel_container_exec_child`,
`ContainerExecPty::terminate`), `client[c]` the runtime's client on the host,
`cmd[c]` the command in the container, and `script[c][t]` the cleanup script of
the first and the second try; each of them goes on when the others are gone. A
marker's path is made of kind, gateway pid and a counter that restarts in every
process, so a gateway with a recycled pid meets markers of a dead one: `marker`
maps a path to the command whose pid and token it holds. `Faulty` commands are
those whose runtime calls may fail, or hang until the timeout that the code puts
around them; `Mortal` gateways may be killed between any two steps. The sweep of
stale markers is two steps under the lifecycle lock, listing and removing.
`missed` marks a command one of whose scripts found no marker of it.

A command is run with the caller's terminal or streams, or captured (`kind`). A
capture reads both pipes to their end, after a cancellation too, and that join has
no timeout (`draining`, `Drain`): a process that was left behind and holds a pipe
keeps its caller waiting. Commands of `Faulty` may leave such a process.

Abstracted: timeouts end some time; the script's HUP and TERM have no effect
that its KILL does not have; the pid a marker names belongs to the command until
it is gone. Detached commands have no marker.

### HttpServer

Each request handler, operation task, WebSocket task and lease timer has its own
steps; they share the wait token (`waitToken`), the PTY shutdown flag
(`ptyFlag`, a watch channel: a receiver is told of changes after it subscribed,
so what it read at that moment is `seen`), and the map of leases. `phase`
follows `serve`'s shutdown: grace for the waits, cancel them, announce the end to
the PTYs, cancel the leases, drain. `wait[w]` follows `execute_http_wait`, with
its two looks at the token before the command runs, and `caller[w]` the handler
whose drop cancels it. `sock[s]` follows an attach from authentication through
consuming the lease to the loop of `run_attached_pty`, in which a send to the
client or to the command may block (`sending`, `feeding`, `exiting`). `held` and
`finishes` say whose session is to be finished and how often it was.

axum's graceful shutdown has no timeout: `serve` returns when no connection is open
(`Open`). A client is part of that: `caller[w]` and `request[p]` follow its
connection from the request it is still sending (the handlers' `Bytes` extractor
waits for the whole body) to the response it has not read, and it may leave at any
time.

Abstracted: the routes that only read (they answer at once), detached operations,
request decoding, authentication (it succeeds or the attach ends), what is in
frames; a PTY session is finished in one step; the runtime's own calls end, but for
the output of a wait's command (`OutputEnds`).

### SshEndpoint

Gateways start, retry, stop and remove a target under the lifecycle lock, and
others ask for its endpoint without it. A port is reserved by binding it
(`Reserve`), released, handed to the runtime, and the record is written as
pending and promoted; other processes take and give up ports at any time
(`OtherUses`). `portFile`, `pendingFile` and `endpointFile` are the files of the
state directory, `container.port` the port the container really has, `status`
whom the listener's file names. `seen[g]` collects the ports the target had while
`g` was asking, so an answer is wrong when it is none of these. Where the runtime
is Apple's, the recorded port is the only source (`apple`); the mode `direct` or
listener is fixed with the configuration. Who asks in mode `direct` and finds no
container is given the configured port as it is, whoever listens there; `found` says
whether there was one.

A `run` or `rm` that a killed gateway had under way is in `late` and takes effect at
any later time, without the lock (`LateRun`, `LateRemove`); a container may also be
stopped or started again by an operator or the host. A reader of the status file
deletes it when it names a dead process, which may have been replaced since it
looked, and when its own configuration has another host, even if the listener is
alive.

`stale` is raised where a record outlives its container, and `swept` holds the live
listeners whose status file somebody else deleted. The properties are about
everything else, and these cases are in Observations.

### ContainerReuse

An invocation takes the lock (`locked_by`), loads its configuration (`wanted`),
prepares (`Prepare`: paths apart, the socket is there, the manifest of what is
exposed), inspects the container (`actual`), and creates, starts, reuses or refuses
by comparing the labels with what it prepared; it then probes the socket and
reports. A status does the comparison without the lock. Meanwhile
the configuration differs from invocation to invocation, the host replaces the
socket (`Rebind`), containers exit and gateways are killed. On Linux a container
pins the inode it was started with; `actual.made`, `actual.inode` and
`actual.raced` record what it was really made for. `told` is set only in the step that
answers.

### The functions

`ConfigFiles`, `TemplateChains`, `StepPatches`, `ConfigTarget`, `ConfigTemplates`,
`ServiceOrder` and `SshCommands` have no state. `ConfigFunctions` and, extending it, `GatewayFunctions`
take one input of a set and evaluate one function on it; each property compares the
result with a definition of another shape. What is in `ConfigFunctions` is defined
with folds and recursive functions, so its properties are also proved; the other
functions are recursive operators.

- `load_gateway_root` composes included files and merges extended ones, leaf by
  leaf except for what is replaced as a whole: an entry of `host_socket_exposures`
  and a variable of a service's environment (`Atomic`). The reference asks, for each
  leaf or entry (`Unit`), which files of the extends chain say something about it,
  and for a refusal which reachable files are reached twice or unfit;
- `overlay_templates` is a depth first walk; the reference states that some
  set of templates each use another of the set, and positions in the order;
- `merge_target_step_patches` edits a list step by step; the reference states what stands
  next to what in the result;
- layers of a target are merged one over the other, `runtime_exec` dropping SSH
  settings; the reference asks for the last layer in which a setting is visible;
- the validation of a target and the file written for the agent are two pieces
  of code (in two programs): the properties say that what one accepts the other
  takes, and that an agent that idles is told of the sessions;
- the variables that validation lists for a field and those bound where the field
  is rendered are two pieces of code: what is accepted can be rendered;
- SSH command lines are parsed word by word; the reference classifies every
  position of the line (option, value, target, tail).

Data is abstracted as the properties need it: a file is a record of what it
includes, extends and defines; a template is the set of variables in it; a
word of a command is its text, or a text with a value after `=`, or a quoted
command line. Single-field validation (durations, path syntax, names) and the
splitting of a line into words (the `shell_words` library) are left out.

## Runs

| run | instance | shows |
|---|---|---|
| `sessions` | 3 operations of every kind, 2 gateways, failures, kills, exits | live sessions keep container, workspace and marker, but for a removal of the workspace that outlives its gateway; a container to be stopped has somebody who will check it |
| `sessions_use` | 3 sessions or statuses, no failures, fair | overlapping sessions implement `ContainerUse`, liveness included |
| `sessions_contexts` | 3 operations with three contexts, failures, kills, a preserve process | context isolation; ended sessions finish although lock holders die |
| `early_purge`, `foreign_sweep`, `pid_stranded` | see Findings | |
| `services` | a chain of 3 services, restarted always or on failure, probes, failures | stopped services stay stopped, order, restarts, the shutdown ends |
| `agent` | 2 requests, signal, idle loop, 1 holder; or signal, idle loop with both actions, 2 holders for 1 permit, 1 stream; or 3 pids, 3 starts, 1 service | shutdown answers after the stop, watchdogs fire late enough and in time, no lost wake-up, the agent ends; holds leave connections free; long sessions keep their grace; a reap spares agent, preserved and managed processes and kills only what it asked to end |
| `exec_cancel` | 2 gateways with a command each, run or captured, a pid that may be recycled, one faulty command, one mortal gateway | a cancellation kills its own command or none; no sweep takes a supervised command's marker; what may be left behind is exactly the missed or twice failed script; a cancellation ends, but for a capture whose pipes somebody holds open |
| `http` | 1 wait, 1 PTY lease with 2 attaches, clients that stall or leave, a shutdown at any moment | one owner of a lease, abandoned waits end, leases do not stay, attached PTYs notice the end; the shutdown ends unless a late wait, a command's open output or a client's stalled connection holds it |
| `container_checks` | endpoint: 2 gateways, 2 ports, 2 attempts, 1 late command at a time; reuse: 2 gateways, 6 configurations, 2 inodes | answers name this target's container; a listener that kept its file is the one it names; who is told "ready" got what it configured |
| `functions` | all inputs of its bounded sets, about 350 000 | see "The functions"; among them all 65536 graphs on 4 services |

Bounds. Each operation of `GatewaySession` runs once: the interesting schedules
need one session that ends, one that begins or is in its grace, and a third
party (an operator, an `up`, a status, or a session of another process); the
third operation is there so that "another session's marker" and "my own" differ
from "nobody's". Two gateways in `sessions` put two operations in one process,
which is where pids coincide, and let the other process be killed. Services: a
chain of three has a service that is both dependent and dependency. Agent:
the poll interval (2) and grace (3) are long enough for a session to fit
between two polls and for a grace to span polls that are not aligned to it;
`Minimum` < `Budget` + `Margin` makes the services' part of the
watchdog matter. Commands: two gateways with overlapping sets of pids give both
"beside each other" and "one after the other with the same pid", hence both a
live and a dead owner of a marker at the same path. HTTP: two attaches compete
for one lease, and either competes with its expiry and the shutdown; the wait
is there because the shutdown's phases depend on it. Ports: one is configured
and one is chosen, two attempts give one retry, and a gateway operates again
after it was killed, so files of an earlier container are met; one command of a
killed gateway at a time (`MaxLate`) meets every operation of the two that follow.
Inodes: two, so
that a socket can be replaced and its number given again. Reaper: the agent and
two more pids, with two starts: processes beside each other, or one after the
other with the same pid. Functions: three files (one root, one that may extend, one
that may be unfit), three templates and an unknown one, up to two patches, seven
base layers with two single edits each, command lines of up to four words over
the whole vocabulary and up to six where only separators matter.

Deadlock checking is off where a model ends by design (operations run once, a
shutdown is final), and the liveness properties say what must have happened by
then.

### Fairness

- `sessions_use`, `sessions_contexts`: weak fairness of each operation's steps,
  not of beginning one, of users leaving by choice, of kills or of exits. The
  code waits for the lock with `flock` in a blocking task; since every
  operation runs once, the number of others that can get it first is finite and
  weak fairness is enough.
- `services`: each supervisor is a tokio task that is polled, and so is the
  stopper; a process need not exit by itself, a terminated one does
  (`stop_child_gracefully` ends with SIGKILL).
- `agent`: the agent's own steps are taken and time passes. No peer is
  assumed to do anything.
- `exec_cancel`: weak fairness of the gateway's steps, every one of which ends by
  itself or by a timeout, and, for commands that are not `Faulty`, of the scripts
  and of the end of a capture's output (`Drain`), which nothing bounds for the
  others. Nothing is assumed of the commands.
- `http`: weak fairness of the shutdown, of every wait, lease and socket task and
  of the expiry timer, but not of the end of a command's output. Strong fairness of `Observe`, the arms of the attached
  loop's `select!`: it polls its arms in random order, so an arm that is ready
  again and again is taken although output is ready each time. Nothing is
  assumed of callers and clients, which need neither send, nor read, nor leave,
  nor of commands.

## Findings

Where the code and its documentation disagree, a run shows the behaviour:

1. `early_purge`: the idle check of an ended session defers to another session's
   marker, but the workspace cleanup that follows looks again, and by then that
   marker may be gone: the workspace is deleted while the container runs
   (`workspace.rs:28`, README.md:779-784).
2. `foreign_sweep`: a status without context deletes the live marker of a scoped
   session whose container is not created yet (`ScopedMarkerStands`;
   `session.rs:217`, README.md:743-746).
3. `pid_stranded`: the marker of a killed gateway counts as active for a gateway
   with the same pid, whose only idle check then defers to nobody
   (`session.rs:367`, docs/interrupted-foreground-cleanup.md:30-36).

## Observations

Met while modelling. In each case the model contains the behaviour, or the
property names it as an exception, so that the rest is checked without it; none
is stated as a disagreement with a document by a run of its own.

Services and agent:

- a service that its supervisor is terminating has an empty slot and counts as
  stopped, so the shutdown goes on to its dependency (`service.rs:116`;
  README.md:77-78 promises dependents first). `DependentsStopFirst`
  and `NoServiceOutlivesStop` name such a process (`BeingTornDown`);
- a session that begins and ends between two polls of the idle loop does not
  restart the grace (`idle.rs:85`, README.md:2166-2173). `LongSessionKeepsGrace`
  is about sessions that outlast a poll interval;
- a service that is started between the look at its slot and the look at the
  process table is reaped (`fresh`); a process whose parent became preserved
  after the reap is still killed.

Sessions:

- what a session joins was inspected once, under the lock, before the rest of its
  start (`gateway.rs:1894`). Runtime commands outlive the gateway that waited for
  them, so two killed gateways, one during a `rm` and one during a `run` of another
  context, can together replace the container after that look, and the session
  joins it. Four operations are needed, so `sessions_contexts` does not meet it; the
  proof of `ContextIsolation` did, and `ContextIsolationThm` names the exception
  (`NoReplacement`): either command alone does no harm;
- a `podman unshare rm -rf` goes on when the gateway that began it under the lock is
  killed, and deletes the workspace and the markers of sessions that began since; the
  idle check of another session then sees nobody and stops the container they use.
  The properties name both (`wiped`).

Commands and HTTP:

- a cancel script that runs before the command wrote its marker finds nothing and
  exits 0, so there is no second try, and the command goes on (`missed`;
  `runtime.rs:341`, README.md:1535-1550);
- a capture, canceled or not, waits for the end of its output without a timeout
  (`runtime.rs:1527`, `1552`; the variant with a timeout bounds it with
  `EXEC_CAPTURE_DRAIN_TIMEOUT`), and an HTTP wait of that command, its session and the
  server's shutdown wait with it (`CancelEnds`, `AbandonedWaitEnds` and `ShutdownEnds`
  name it);
- the attached PTY loop awaits sends inside its `select!` arms, so a client that
  does not read keeps it from noticing its close or the shutdown
  (`PtyNoticesEnd` names it; README.md:1811-1814);
- a wait that is taken in after the grace found none active is never cancelled, and
  a client that stops in the middle of its request, or does not read its response,
  keeps its connection, and so `serve`, open (`http.rs:86`; `ShutdownEnds` names
  both);
- a lease inserted after `cancel_all` is not finished when the server exits. The model
  contains it, but no property: that one has an owner, the map, is all
  `LeaseHasOneOwner` says, and the map's owner is gone;
- a PTY request dropped while it prepares drops its session without the cleanup
  at its end.

Endpoints and reuse:

- a gateway killed between the run and the promotion leaves, on Apple's runtime, a
  running container with only a pending file; a port or endpoint file can outlive
  its container, which a `run` or `rm` that took effect after its gateway was killed
  brings about as well (`stale`);
- a client in mode `direct` that finds no container is given the configured port,
  whoever listens there (`published_port.rs:254`);
- a reader of a listener's status file deletes that of a live listener when it took
  it for one of a dead process and it was replaced since, or whenever its own
  configuration has the other host of `127.0.0.1` and `::1`; a second listener then
  binds, and the first one's end deletes the second's file (`swept`;
  `session.rs:155`);
- a socket that the host replaces between preparation and start is mounted without
  notice (`raced`; README.md:957-959).

Configuration and SSH:

- an ephemeral target is accepted without `{session_id}` in `ephemeral_name`
  (README.md:708-711); `stop_when_idle = true` without `idle_cleanup` stops nothing;
- an SSH target with `control_socket = false` and agent-owned idle cleanup idles
  without being told of sessions (`IdleIsInformed` names it;
  docs/interrupted-foreground-cleanup.md:40-44); for `runtime_exec` it is refused;
- `lifecycle_steps` are merged by extends by name only; `{session_id}`,
  `{container_pid}` and an optional context key are accepted where they may be
  unbound (`Unbound`); `bootstrap.enabled` with the agent disabled is ignored for
  SSH targets; host socket exposures refuse `{context.*}`;
- the SSH filter is lexical and best effort, as `ssh_filter.rs:102-105` says;
  `aw-gateway` alone is passed to the container; `up --x` and `launch --x` take a
  dashed word as target or name.

## Proofs

TLAPS proves the following for every value of the constants: any sets of
operations, gateways, services, commands, leases, ports, configurations or
pids, any policies, limits and timeouts.

| module | theorems | what they say |
|---|---|---|
| `GatewaySessionProofs` | `CleanupEdgeOwnedThm`, `LiveSessionKeepsContainerThm`, `LiveSessionKeepsWorkspaceThm`, `LiveMarkerStandsThm` | a used container, its workspace and its marker stay, unless a removal of the workspace outlives its gateway; a container to be stopped has somebody who will check it |
| | `ContextIsolationThm` | no session uses a container of another context |
| | `ContainerUseSafe` | the steps of `GatewaySession` are steps of `ContainerUse` |
| `ServiceSupervisorProofs` | `NoServiceOutlivesStopThm`, `RestartsOnlyTheDeadThm`, `DependentsStopFirstThm` | a stopped service stays stopped, after what needs it |
| `ContainerAgentProofs` | `AnsweredAfterStopThm`, `StopNotCutShortThm`, `NoLostWakeUpThm` | a shutdown is answered after the stop, not cut short, and nobody waits for it in vain |
| | `HoldsLeaveRoomThm`, `LongSessionKeepsGraceThm` | the idle loop and the limits on held sessions |
| | `ReapSparesTheRestThm` | a reap signals only what it may |
| `ExecCancelProofs` | `OnlyOwnCommandKilledThm`, `SupervisedCommandIsMarkedThm`, `CancelLeavesNothingThm` | a cancellation reaches its own command or none, and what it leaves is known |
| `HttpServerProofs` | `LeaseHasOneOwnerThm` | a lease has one owner until it is finished, once |
| `SshEndpointProofs` | `AnswersAreRightThm`, `ListenerIsKnownThm` | who asks for an endpoint and found a container is told that container's, unless a file outlived it; of the listeners whose file nobody else deleted there is one at most |
| `ContainerReuseProofs` | `ReadyAsConfiguredThm` | "ready" means made for this configuration and socket |
| `ConfigFunctionsProofs` | `NearestLayerWinsThm`, `IdleIsInformedThm`, `AgentTakesItsFileThm` | the layers of a target; who may stop it, except for an SSH target with `control_socket` off; the file its agent accepts |
| | `TemplatesRenderThm`, `LaunchRunsAsDeclaredThm` | accepted templates render, accepted launches run as declared |
| | `PatchesKeepOrderThm` | patches keep the order of the steps they do not name |
| | `StopsDependentsFirstThm` | exactly the cyclic graphs are refused; of the others every service stops once, after what depends on it |
| | `TemplatesApplyInOrderThm` | exactly unknown and circular uses are refused; a template is applied after those it uses |

Each of these modules but the last also proves the `TypeOK` of its component.

Assumptions. Those of the modules, which TLC evaluates on the instances:
`OpsAssumption`, `HostAssumption`, `KindsAssumption`, `PolicyAssumption`,
`ValidatedTarget`, `ConfigAssumption`, `StopOrderAssumption`,
`LimitsAssumption` (fewer permits for holds than connections),
`DistinctAssumption`, `CancelAssumption` (finitely many commands: the counter in
a marker's path is a cardinality), `HttpAssumption`, `EndpointAssumption`,
`ReuseAssumption` (a configuration is what it asks for), `ReaperAssumption`, and
what the inputs of the functions are: `TargetInputsAssumption`,
`TemplateInputsAssumption`, `LaunchInputsAssumption` (layers of the types the files
are parsed into; field names and modes there are), `PatchInputsAssumption` (no
two inherited steps of one key, patches that were validated; the code refuses
others before it merges), `OrderInputsAssumption` (services depend on services;
the code refuses unknown names first) and `UseInputsAssumption` (finitely many
templates; a target names at least one, and known ones: that one used by a
template may be unknown is part of the theorem). And, where a theorem names them:

- `SameContext`, all invocations use one context (finding 2 shows it is needed);
- `OwnPidsOnly`, no pid is used twice (finding 3 shows it is needed);
- `NoReplacement` in `ContextIsolationThm`: at no time are a `rm` of one killed
  gateway and a `run` of another both still to take effect. Every other kill, failure
  and exit is allowed. It is needed, see Observations;
- `NobodyInterferes` in `ContainerUseSafe`: no container that exits by itself, and no
  operator who stops or removes, which `ContainerUse` does not promise anything
  about. Hooks, checks and runtime commands may fail, and gateways may be killed, as
  long as no start, stop or removal of the workspace takes effect after its gateway
  is gone (`OnlyRmComesLate`).

Each proof has the same shape: the property is a conjunct of an invariant, or
follows from it; the invariant holds initially and every action preserves it, one
lemma per action or group of actions. What the invariants add:

- *Sessions.* That a session keeps its container is not inductive: the step that
  takes the container down has read the markers earlier. `UseInv` adds what ties
  the two moments together: who uses the container has its marker, or lost it to
  a late removal, and a live gateway (`UserIsMarked`, `UnderWayIsLive`), so an idle check that finds no active
  marker knows that nobody uses it; and whoever is about to stop, undo or purge
  holds the lock, so nobody begins to (`TakenDownUnused`). A removal of the workspace
  begins when there is no marker (`NothingToWipe`), so those it meets, if its gateway
  is killed, have begun since. `EdgeInv` is the same for
  the cleanup edge: every marker belongs to an operation that has not run its
  check yet (`MarkerIsUnchecked`), so deferring to one hands the duty on to somebody
  who will see the container (`EdgeIsOwned`). `IsolationInv` adds that what an
  operation validated is still there when it joins, or gone with nobody left who
  could replace it (`ValidatedStays`).
- *Services.* `SlotInv` says that a handle has one owner and that the stopping flag
  is set before the stopper looks into the slot (`StopperHolds`, `StopIsMarked`). A
  supervisor that finds the slot empty then either has no process or sees the
  flag; one that is late to spawn reads the flag with the slot locked and does
  not. `DependentsStopFirst` follows from that and from the order.
- *Agent.* A shutdown that is not complete has somebody who carries it out
  (`StopInv`), and until then the watchdog has the margin and whatever the
  services have not used of their timeouts (`WatchdogInv`), so when it is over the
  stop is complete. Once it is, each parked task was notified or the notifier is
  still on its way (`WaitInv`). `GraceInv` relates the ages of the sessions to the
  time since the last look: while the loop believes itself idle, no session is
  older than that.
- *Commands.* Two commands with the same marker path are of one gateway and equal
  (`Counter`), or of gateways with the same pid, of which one is dead
  (`PidsGiven`) and has nothing under way (`Quiet`). A path that a sweep has listed
  has no gateway that is ready (`SweepSafe`), even if its pid was given again
  since. `ScriptInv` and `VerdictInv` carry the token comparison through to the
  gateway's verdict.
- *HTTP.* The owners exclude each other pairwise, and each of them has a session to
  be finished (`MapOwns`, `TimerOwns`, `ShutdownOwns`, `SocketOwns`); a session to be
  finished has one of them (`HeldIsOwned`).
- *Endpoints.* A port's records change only under the lock (`LockInv`), an endpoint is
  saved by one who has seen its port (`SeenInv`), and the holder of the lock knows
  the container's port (`StageInv`); only commands of killed gateways change the
  container without it, and what records there are is then stale. A record that
  is not stale is of the container there is, or of one whose removal is under way
  (`FilesInv`); so is every record among the ports seen by those who are asking
  (`SeenInv`), although they hold no lock. A listener that begins has found
  no file, so the live ones are in `swept` (`BindInv`).
- *Reuse.* `LabelsTell` is what labels are worth: the manifest and the mounted inode
  come from one number, but for a race. What was validated under the lock is
  unchanged, and not running, when it is started (`FitInv`). Two manifests that
  compare equal then ask for the same sockets and inode (`ManifestTells`).
- *Reaper.* A start time is given once (`StartInv`), so a sleeping escalation
  recognises only processes it signalled before (`TaskInv`); a slot that was looked
  up is in `managed` or was filled since (`ManagedInv`).

- *Functions.* The invariant is only that the result is the function's
  (`EvaluatedThm`); the rest is about the functions, for any number of layers,
  variables, steps, patches, services and templates. A fold of the community
  modules is a recursive
  function over sets of positions. That the function exists is proved by extending
  it one position at a time (`IteratesExists`), which gives a chain from the base to
  the result with one step per element (`Chain`); and what holds of the base and
  survives each step holds of the result, by a smallest counterexample (`Smallest`,
  `UpTo`). So no induction theorem with an operator parameter is needed. For the
  layers of a target the chain keeps which layer a visible setting comes from
  (`Nearest`); for the agent's file and for launches, types; for a command, that its
  elements stand one after the other (`RenderedChain`). For patches it keeps
  `InOrder`: the keys are those kept and those set so far, the kept ones in their old
  order, and each new step is where its patch put it. That is not true of single
  patches without the condition that no two of a layer have the same key
  (`OnlyOnce`): a second one could remove what the first set.
- *Walks.* That a recursive walk exists, and obeys its equation, is proved in the
  same way, over what a call has left to visit: each call makes only calls that have
  less (`VisitExists`). What a visit returns is then an induction over the same
  measure. In a validation, the names a call is for wait for the visited one
  (`WaitsFor`), so one of them that is met again waits for itself, and the services
  on the way are a set in which each depends on another; and no such set can be
  among the services checked off (`NoCycle`). In a shutdown, a service that is
  visited but not in the order yet is one the walk came through: that it is met
  again is a cycle, so in an accepted graph all dependents of a service stand in
  the order before it is appended. A chain of templates is refused for the same two
  reasons, a name that is met again or is unknown; otherwise the order ends with the
  name that was applied, which is why what stands before a template is the last of
  those it uses.

TLC evaluated the invariants of the agent, the commands, the endpoints, reuse and
the reaper on small instances before they were proved.

Only model-checked: `LoadedIsTheComposition` and `DispatchedAsWritten`, whose
definitions are recursive operators, out of the prover's reach; all liveness, which is too, and with it the
fairness part of the refinement of `ContainerUse`; and
`PurgeFollowsContainerCleanup`, which the code does not keep (finding 1).

## Not modelled

- Atomic files and rotating logs (`fileutil.rs`, `logging`): a file is written
  beside its place and renamed, so the modules treat a write as one step; a
  rotation is one process's bookkeeping.
- Bootstrap and privileges: system calls of one process in a fixed order before
  anything else runs.
- HTTP authentication and responses, the command line, client configuration and
  status output: conversions without state.
- Hooks and health checks: that they fail or end is in `GatewaySession`; their
  commands, retries and timeouts are sequential.
- Permissions, ownership and removal of the control socket directories, and the
  path checks before a workspace is deleted: checks of one process on the file
  system's state.
- Validation of single fields.
