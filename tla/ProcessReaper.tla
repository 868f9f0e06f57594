---------------------------- MODULE ProcessReaper ----------------------------
(***************************************************************************)
(* The reaper of the container agent: an idle container with the action    *)
(* reap_processes has its processes ended, except for the agent, the       *)
(* services it manages, the preserved processes with their descendants,    *)
(* and the processes of other users.  Those that are still there after     *)
(* reap_kill_after are killed by a task that only knows what the process   *)
(* table said at first, while processes end, start with the pid of an      *)
(* ended one, change their name with exec and are restarted.               *)
(*                                                                         *)
(* The reading of /proc and the signals that follow it at once are one     *)
(* step; a process that ended is waited for at once.                       *)
(***************************************************************************)
EXTENDS Naturals

CONSTANTS
    Pids,       \* the pids of the container
    AgentPid,   \* the pid of the agent
    Services,   \* the services it manages
    MaxStarts,  \* bound: processes that are started
    None

\* No pid is 0, and None is neither a pid nor a set of services.
ASSUME ReaperAssumption ==
    /\ Pids \subseteq Nat \ {0} /\ AgentPid \in Pids
    /\ MaxStarts \in Nat \ {0}
    /\ None \notin Pids /\ \A ss \in SUBSET Services : ss # None

VARIABLES
    proc,      \* [Pids -> process], with the signals the reaper sent it
    starts,    \* how many processes were started; the start time of the last one
    slot,      \* [Services -> Pids \cup {None}], ManagedService.child
    setting,   \* the agent's user, whether reaping is allowed and escalates
    unread,    \* services whose pid the reaper has yet to look up, None when it is idle
    managed,   \* the pids it has looked up
    fresh,     \* services that were started since: no code reads it
    tasks      \* what the escalations that sleep will signal

reaperVars == <<proc, starts, slot, setting, unread, managed, fresh, tasks>>

Users == {"root", "user"}
Names == {"app", "preserved"}  \* the second one is among preserve_processes

NoProcess == [start |-> 0]

-----------------------------------------------------------------------------

read_process_table == {p \in Pids : proc[p] # NoProcess}

find_preserve_processes == {p \in read_process_table : proc[p].comm = "preserved"}

\* The smallest set with the preserved processes and the children of its members
PreservedPids ==
    LET closed == {ps \in SUBSET read_process_table :
                     /\ find_preserve_processes \subseteq ps
                     /\ \A p \in read_process_table : proc[p].ppid \in ps => p \in ps}
    IN  {p \in read_process_table : \A ps \in closed : p \in ps}

\* The agent signals its own user's processes; as root, all but root's.
MaySignal(uid) == IF setting.uid = "root" THEN uid # "root" ELSE uid = setting.uid

build_reap_plan ==
    {[pid |-> p, comm |-> proc[p].comm, start |-> proc[p].start] :
        p \in {q \in read_process_table \ (managed \cup PreservedPids \cup {AgentPid}) :
                  MaySignal(proc[q].uid)}}

Signalled(ps, signal) ==
    proc' = [p \in Pids |-> IF p \in ps THEN [proc[p] EXCEPT !.signals = @ \cup {signal}]
                            ELSE proc[p]]

-----------------------------------------------------------------------------

ReaperInit ==
    /\ setting \in [uid : Users, dry_run : BOOLEAN, escalates : BOOLEAN]
    /\ ~(setting.dry_run /\ setting.escalates)
    /\ proc = [p \in Pids |-> IF p = AgentPid THEN [start |-> 1, comm |-> "agent", ppid |-> 0,
                                                 uid |-> setting.uid, signals |-> {}]
                              ELSE NoProcess]
    /\ starts = 1
    /\ slot = [s \in Services |-> None]
    /\ unread = None /\ managed = {} /\ fresh = {} /\ tasks = {}

\* The idle loop has found nobody and nothing to preserve for the grace.
BeginReap ==
    /\ unread = None
    /\ find_preserve_processes = {}
    /\ unread' = Services
    /\ UNCHANGED <<proc, starts, slot, setting, managed, fresh, tasks>>

\* managed_service_pids waits for the lock of each slot in turn.
LookUp(s) ==
    /\ unread # None /\ s \in unread
    /\ unread' = unread \ {s}
    /\ managed' = managed \cup ({slot[s]} \ {None})
    /\ fresh' = fresh \ {s}
    /\ UNCHANGED <<proc, starts, slot, setting, tasks>>

\* reap_processes, and the task that sleeps for reap_kill_after
Reap ==
    /\ unread = {}
    /\ IF setting.dry_run THEN UNCHANGED <<proc, tasks>>
       ELSE /\ Signalled({m.pid : m \in build_reap_plan}, "reap")
            /\ tasks' = IF setting.escalates THEN tasks \cup {build_reap_plan} ELSE tasks
    /\ unread' = None /\ managed' = {} /\ fresh' = {}
    /\ UNCHANGED <<starts, slot, setting>>

\* (mistake: a name is enough to know the process again)
signal_matching_processes_ByName(plan) ==
    Signalled({m.pid : m \in {n \in plan : proc[n.pid] # NoProcess /\ proc[n.pid].comm = n.comm}},
              "kill")

signal_matching_processes(plan) ==
    Signalled({m.pid : m \in {n \in plan : /\ proc[n.pid] # NoProcess
                                           /\ proc[n.pid].comm = n.comm
                                           /\ proc[n.pid].start = n.start}},
              "kill")

Escalate(plan) ==
    /\ plan \in tasks
    /\ signal_matching_processes(plan)
    /\ tasks' = tasks \ {plan}
    /\ UNCHANGED <<starts, slot, setting, unread, managed, fresh>>

-----------------------------------------------------------------------------
(* The container's processes, and the services among them                  *)

\* Only root's processes start one for another user.
UsersUnder(ppid) == IF ppid = 0 \/ proc[ppid].uid = "root" THEN Users ELSE {proc[ppid].uid}

Started(p, comm, ppid, uid) ==
    /\ proc[p] = NoProcess /\ starts < MaxStarts
    /\ starts' = starts + 1
    /\ proc' = [proc EXCEPT ![p] = [start |-> starts', comm |-> comm, ppid |-> ppid, uid |-> uid,
                                    signals |-> {}]]

\* A process is started by another one or from outside.
Fork(p) ==
    /\ \E comm \in Names, ppid \in read_process_table \cup {0} : \E uid \in UsersUnder(ppid) :
          Started(p, comm, ppid, uid)
    /\ UNCHANGED <<slot, setting, unread, managed, fresh, tasks>>

Exec(p) ==
    /\ p # AgentPid /\ proc[p] # NoProcess
    /\ \E comm \in Names \ {proc[p].comm} : proc' = [proc EXCEPT ![p].comm = comm]
    /\ UNCHANGED <<starts, slot, setting, unread, managed, fresh, tasks>>

\* Its children become those of the agent, which is the container's first process.
Exit(p) ==
    /\ p # AgentPid /\ proc[p] # NoProcess
    /\ proc' = [q \in Pids |-> IF q = p THEN NoProcess
                               ELSE IF proc[q] # NoProcess /\ proc[q].ppid = p
                                 THEN [proc[q] EXCEPT !.ppid = AgentPid] ELSE proc[q]]
    /\ slot' = [s \in Services |-> IF slot[s] = p THEN None ELSE slot[s]]
    /\ UNCHANGED <<starts, setting, unread, managed, fresh, tasks>>

\* start_service, under the lock of the slot
StartService(s, p) ==
    /\ slot[s] = None
    /\ \E uid \in UsersUnder(AgentPid) : Started(p, "app", AgentPid, uid)
    /\ slot' = [slot EXCEPT ![s] = p]
    /\ fresh' = IF unread # None /\ s \notin unread THEN fresh \cup {s} ELSE fresh
    /\ UNCHANGED <<setting, unread, managed, tasks>>

\* The supervisor takes the child of an unhealthy service to terminate it.
TakeChild(s) ==
    /\ slot[s] # None
    /\ slot' = [slot EXCEPT ![s] = None]
    /\ UNCHANGED <<proc, starts, setting, unread, managed, fresh, tasks>>

ReaperNext ==
    \/ BeginReap \/ Reap
    \/ \E s \in Services : LookUp(s) \/ TakeChild(s) \/ \E p \in Pids : StartService(s, p)
    \/ \E plan \in tasks : Escalate(plan)
    \/ \E p \in Pids : Fork(p) \/ Exec(p) \/ Exit(p)

ReaperSpec == ReaperInit /\ [][ReaperNext]_reaperVars

-----------------------------------------------------------------------------

ReaperTypeOK ==
    /\ \A p \in Pids : proc[p] = NoProcess \/ proc[p].start \in 1 .. MaxStarts
    /\ starts \in 1 .. MaxStarts
    /\ slot \in [Services -> Pids \cup {None}]
    /\ unread = None \/ unread \subseteq Services
    /\ managed \subseteq Pids /\ fresh \subseteq Services

\* The reaper ends nothing else: a process it signals is neither the agent, nor
\* preserved by its name, nor a managed service, but for one that was started
\* between the look at its slot and the look at the process table; and the one it
\* kills is the very process it asked to end before, whoever has the pid by then.
ReapSparesTheRest ==
    [][\A p \in Pids :
         \A signal \in IF proc[p] = NoProcess \/ proc'[p] = NoProcess THEN {}
                       ELSE proc'[p].signals \ proc[p].signals :
            /\ p # AgentPid /\ proc[p].comm # "preserved"
            /\ signal = "kill" => "reap" \in proc[p].signals
            /\ signal = "reap" => \A s \in Services : slot[s] = p => s \in fresh]_reaperVars

=============================================================================
