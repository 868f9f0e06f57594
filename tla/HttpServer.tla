----------------------------- MODULE HttpServer -----------------------------
(***************************************************************************)
(* The gateway's HTTP server: wait operations that are canceled when their *)
(* caller goes away, PTY leases that are prepared by one request and used  *)
(* by a WebSocket, and the graceful shutdown that ends both.  Every        *)
(* request, operation task, socket and lease timer is a task of its own.   *)
(*                                                                         *)
(* The tasks share the wait token, the PTY shutdown flag (a watch channel, *)
(* whose receivers are told only of changes after they subscribed), two    *)
(* counters of active tasks, here the tasks that are counted, and the map  *)
(* of leases.  Whoever takes a lease out of the map owns its execution.    *)
(*                                                                         *)
(* A request has a connection of its own: its client sends the request,    *)
(* perhaps never to its end, and reads the response, or does not.          *)
(***************************************************************************)
EXTENDS Naturals, FiniteSets

CONSTANTS
    Waits,        \* wait mode requests
    Ptys,         \* PTY requests, and the leases they prepare
    Sockets,      \* WebSocket attaches
    PtyOf         \* [Sockets -> Ptys]

ASSUME HttpAssumption ==
    /\ PtyOf \in [Sockets -> Ptys]
    /\ Waits \cap Ptys = {}

VARIABLES
    phase,      \* of the server
    waitToken,  \* WaitShutdown's token is canceled
    ptyFlag,    \* PtyShutdown's flag
    wait,       \* [Waits -> WaitStep], the operation's task
    caller,     \* [Waits -> Caller], the request's handler and connection
    late,       \* the waits that began after the shutdown's grace
    request,    \* [Ptys -> Request], the preparing request's handler and connection
    leases,     \* the map of prepared leases
    expiring,   \* the leases that a timer has taken and not yet finished
    taken,      \* the leases cancel_all has taken and not yet finished
    sock,       \* [Sockets -> SockStep], the attach's task
    seen,       \* [Sockets -> BOOLEAN], the flag when run_attached_pty subscribed
    gone,       \* the attached sockets whose client has closed
    exited,     \* the PTYs whose command has exited
    held,       \* the operations with a session to finish
    finishes    \* [Waits \cup Ptys -> Nat], how often a session was finished

serverVars == <<phase, waitToken, ptyFlag>>
waitVars == <<wait, caller>>
leaseVars == <<request, leases, expiring, taken>>
sockVars == <<sock, seen, gone, exited>>
sessionVars == <<held, finishes>>
vars == <<serverVars, waitVars, leaseVars, sockVars, sessionVars, late>>

Phases == {"serving", "grace", "waits", "ptys", "leases", "draining", "exited"}

WaitStep == {"idle", "admitted", "preparing", "prepared", "running", "draining",
             "cleanup", "ended"}

\* "gone": the client has left its handler behind; "closed": the connection is over.
Caller == {"none", "sending", "waiting", "gone", "closed"}

Request == {"none", "sending", "preparing", "answered", "closed"}

SockStep == {"none", "auth", "authed", "greeting", "loop", "sending", "feeding",
             "terminating", "exiting", "finishing", "closed"}

\* The steps in which a socket owns its lease's execution.
Attached == {"greeting", "loop", "sending", "feeding", "terminating", "exiting",
             "finishing"}

TypeOK ==
    /\ phase \in Phases
    /\ waitToken \in BOOLEAN /\ ptyFlag \in BOOLEAN
    /\ wait \in [Waits -> WaitStep]
    /\ caller \in [Waits -> Caller]
    /\ late \subseteq Waits
    /\ request \in [Ptys -> Request]
    /\ leases \subseteq Ptys /\ expiring \subseteq Ptys /\ taken \subseteq Ptys
    /\ sock \in [Sockets -> SockStep]
    /\ seen \in [Sockets -> BOOLEAN]
    /\ gone \subseteq Sockets
    /\ exited \subseteq Ptys
    /\ held \subseteq Waits \cup Ptys
    /\ finishes \in [Waits \cup Ptys -> 0 .. 1]

Init ==
    /\ phase = "serving" /\ waitToken = FALSE /\ ptyFlag = FALSE
    /\ wait = [w \in Waits |-> "idle"]
    /\ caller = [w \in Waits |-> "none"]
    /\ late = {}
    /\ request = [p \in Ptys |-> "none"]
    /\ leases = {} /\ expiring = {} /\ taken = {}
    /\ sock = [s \in Sockets |-> "none"]
    /\ seen = [s \in Sockets |-> FALSE]
    /\ gone = {} /\ exited = {} /\ held = {}
    /\ finishes = [o \in Waits \cup Ptys |-> 0]

\* axum takes in connections until the shutdown future has ended.
Accepting == phase \notin {"draining", "exited"}

Running == phase # "exited"

\* finish_operation_session: without a marker there is nothing to finish.
FinishSession(o) ==
    /\ held' = held \ {o}
    /\ finishes' = [finishes EXCEPT ![o] = IF o \in held THEN @ + 1 ELSE @]

-----------------------------------------------------------------------------
(* Wait operations: execute_http_wait, run_operation_session_cancelable.   *)

\* The shutdown canceled all waits, or the handler has dropped its guard.
Canceled_ByShutdown(w) ==  \* (mistake: the handler that is dropped cancels nothing)
    waitToken

Canceled(w) == waitToken \/ caller[w] \in {"gone", "closed"}

ActiveWaits == {w \in Waits : wait[w] \notin {"idle", "ended"}}

WaitGoes(w, from, to) == Running /\ wait[w] = from /\ wait' = [wait EXCEPT ![w] = to]

CallerGoes(w, from, to) ==
    Running /\ caller[w] = from /\ caller' = [caller EXCEPT ![w] = to]

\* A client begins to send a request.
ConnectWait(w) ==
    /\ Accepting
    /\ CallerGoes(w, "none", "sending")
    /\ UNCHANGED <<serverVars, wait, leaseVars, sockVars, sessionVars, late>>

\* The body is complete (the extractor Bytes) and the handler begins, also on a
\* connection from before the shutdown's end: authorize_action, parse_body, register.
RequestWait(w) ==
    /\ CallerGoes(w, "sending", "waiting")
    /\ WaitGoes(w, "idle", "admitted")
    /\ late' = IF phase \in {"serving", "grace"} THEN late ELSE late \cup {w}
    /\ UNCHANGED <<serverVars, leaseVars, sockVars, sessionVars>>

\* The connection closes: the handler is dropped and with it its
\* OperationCancelGuard; the operation goes on in its own task.
CallerGone(w) ==
    /\ CallerGoes(w, "waiting", "gone")
    /\ UNCHANGED <<serverVars, wait, leaseVars, sockVars, sessionVars, late>>

\* The client gives up before its request is complete.
CallerLeaves(w) ==
    /\ CallerGoes(w, "sending", "closed")
    /\ UNCHANGED <<serverVars, wait, leaseVars, sockVars, sessionVars, late>>

CheckFirst(w) ==
    /\ WaitGoes(w, "admitted", IF Canceled(w) THEN "cleanup" ELSE "preparing")
    /\ UNCHANGED <<serverVars, caller, leaseVars, sockVars, sessionVars, late>>

\* prepare_operation_session_body is not cut short by a cancellation; it fails
\* before or after it has a session.
PrepareWait(w) ==
    /\ \/ WaitGoes(w, "preparing", "prepared") /\ held' = held \cup {w}
       \/ WaitGoes(w, "preparing", "cleanup") /\ held' \in {held, held \cup {w}}
    /\ UNCHANGED <<serverVars, caller, leaseVars, sockVars, finishes, late>>

CheckSecond(w) ==
    /\ WaitGoes(w, "prepared", IF Canceled(w) THEN "cleanup" ELSE "running")
    /\ UNCHANGED <<serverVars, caller, leaseVars, sockVars, sessionVars, late>>

\* The client of the runtime ends; from here on the cancellation is not looked at.
CommandEnds(w) ==
    /\ WaitGoes(w, "running", "draining")
    /\ UNCHANGED <<serverVars, caller, leaseVars, sockVars, sessionVars, late>>

CancelExec(w) ==
    /\ Canceled(w)
    /\ WaitGoes(w, "running", "draining")
    /\ UNCHANGED <<serverVars, caller, leaseVars, sockVars, sessionVars, late>>

\* The output of the ended or canceled command ends: while a process holds its pipes
\* it does not (exec_capture_cancelable; CancelEnds of ExecCancel says when it does).
OutputEnds(w) ==
    /\ WaitGoes(w, "draining", "cleanup")
    /\ UNCHANGED <<serverVars, caller, leaseVars, sockVars, sessionVars, late>>

FinishWait(w) ==
    /\ WaitGoes(w, "cleanup", "ended")
    /\ FinishSession(w)
    /\ UNCHANGED <<serverVars, caller, leaseVars, sockVars, late>>

\* The handler is given the response and drops its guard; the connection is open
\* until the client has read it, which is this step.
AnswerWait(w) ==
    /\ wait[w] = "ended"
    /\ CallerGoes(w, "waiting", "closed")
    /\ UNCHANGED <<serverVars, wait, leaseVars, sockVars, sessionVars, late>>

-----------------------------------------------------------------------------
(* PTY leases: prepare_pty_run, prepare_pty_launch, PtyLeaseManager.       *)

RequestGoes(p, from, to) ==
    Running /\ request[p] = from /\ request' = [request EXCEPT ![p] = to]

ConnectPty(p) ==
    /\ Accepting
    /\ RequestGoes(p, "none", "sending")
    /\ UNCHANGED <<serverVars, waitVars, leases, expiring, taken, sockVars, sessionVars, late>>

RequestPty(p) ==
    /\ RequestGoes(p, "sending", "preparing")
    /\ UNCHANGED <<serverVars, waitVars, leases, expiring, taken, sockVars, sessionVars, late>>

\* The client has read the response, or gives up before or after the handler.
RequesterLeaves(p) ==
    /\ RequestGoes(p, "sending", "closed") \/ RequestGoes(p, "answered", "closed")
    /\ UNCHANGED <<serverVars, waitVars, leases, expiring, taken, sockVars, sessionVars, late>>

\* The session is ready, the lease is in the map and its timer runs.
InsertLease(p) ==
    /\ RequestGoes(p, "preparing", "answered")
    /\ leases' = leases \cup {p}
    /\ held' = held \cup {p}
    /\ UNCHANGED <<serverVars, waitVars, expiring, taken, sockVars, finishes, late>>

\* The preparation fails and is finished by the request, or the caller goes
\* away and the handler is dropped: the session's guard drops its marker, and
\* nothing is finished.
RequestEnds(p) ==
    /\ RequestGoes(p, "preparing", "answered") \/ RequestGoes(p, "preparing", "closed")
    /\ UNCHANGED <<serverVars, waitVars, leases, expiring, taken, sockVars, sessionVars, late>>

\* After PTY_ATTACH_LEASE_TTL the timer takes the lease if it is still there.
Expire_Leaves(p) ==  \* (mistake: the lease is finished and stays in the map)
    /\ Running
    /\ p \in leases
    /\ expiring' = expiring \cup {p}
    /\ UNCHANGED <<serverVars, waitVars, request, leases, taken, sockVars, sessionVars, late>>

Expire_AtShutdown(p) ==  \* (mistake: only a shutdown looks for leases nobody used)
    /\ Running
    /\ p \in leases /\ ptyFlag
    /\ expiring' = expiring \cup {p}
    /\ leases' = leases \ {p}
    /\ UNCHANGED <<serverVars, waitVars, request, taken, sockVars, sessionVars, late>>

Expire(p) ==
    /\ Running
    /\ p \in leases
    /\ expiring' = expiring \cup {p}
    /\ leases' = leases \ {p}
    /\ UNCHANGED <<serverVars, waitVars, request, taken, sockVars, sessionVars, late>>

FinishExpired(p) ==
    /\ Running
    /\ p \in expiring
    /\ expiring' = expiring \ {p}
    /\ FinishSession(p)
    /\ UNCHANGED <<serverVars, waitVars, request, leases, taken, sockVars, late>>

-----------------------------------------------------------------------------
(* Attached PTYs: pty_attach, handle_pty_socket, run_attached_pty.         *)

SockGoes(s, from, to) == Running /\ sock[s] = from /\ sock' = [sock EXCEPT ![s] = to]

\* The lease is there when the upgrade is answered; the socket's task is counted
\* as active while it runs.
Upgrade(s) ==
    /\ Accepting
    /\ PtyOf[s] \in leases
    /\ SockGoes(s, "none", "auth")
    /\ UNCHANGED <<serverVars, waitVars, leaseVars, seen, gone, exited, sessionVars, late>>

ClientCloses(s) ==
    /\ Running
    /\ sock[s] \in Attached
    /\ s \notin gone
    /\ gone' = gone \cup {s}
    /\ UNCHANGED <<serverVars, waitVars, leaseVars, sock, seen, exited, sessionVars, late>>

\* read_pty_auth_frame: a token, or an end by the client, the shutdown or
\* PTY_ATTACH_AUTH_TIMEOUT.
ReadAuth(s) ==
    /\ \/ ~ptyFlag /\ SockGoes(s, "auth", "authed")
       \/ SockGoes(s, "auth", "closed")
    /\ UNCHANGED <<serverVars, waitVars, leaseVars, seen, gone, exited, sessionVars, late>>

\* consume_if_token, the second subscription to the flag, and spawn_pty, which
\* may fail.  The token is in the response to the request, which was read before.
Consume(s) ==
    /\ \/ /\ PtyOf[s] \in leases /\ request[PtyOf[s]] = "closed"
          /\ SockGoes(s, "authed", "greeting") \/ SockGoes(s, "authed", "finishing")
          /\ leases' = leases \ {PtyOf[s]}
          /\ seen' = [seen EXCEPT ![s] = ptyFlag]
       \/ SockGoes(s, "authed", "closed") /\ UNCHANGED <<leases, seen>>
    /\ UNCHANGED <<serverVars, waitVars, request, expiring, taken, gone, exited, sessionVars, late>>

\* The ready message is sent; a shutdown since before the subscription is only
\* seen here, by looking at the flag.
Greet_Unlooked(s) ==  \* (mistake: the flag is not looked at before the loop)
    /\ SockGoes(s, "greeting", IF s \in gone THEN "terminating" ELSE "loop")
    /\ UNCHANGED <<serverVars, waitVars, leaseVars, seen, gone, exited, sessionVars, late>>

Greet(s) ==
    /\ SockGoes(s, "greeting", IF s \in gone \/ ptyFlag THEN "terminating" ELSE "loop")
    /\ UNCHANGED <<serverVars, waitVars, leaseVars, seen, gone, exited, sessionVars, late>>

\* shutdown.changed()
ObserveShutdown(s) ==
    /\ ptyFlag # seen[s]
    /\ SockGoes(s, "loop", "terminating")
    /\ UNCHANGED <<serverVars, waitVars, leaseVars, seen, gone, exited, sessionVars, late>>

\* A close message, the end of the stream or an error.
ObserveClose(s) ==
    /\ s \in gone
    /\ SockGoes(s, "loop", "terminating")
    /\ UNCHANGED <<serverVars, waitVars, leaseVars, seen, gone, exited, sessionVars, late>>

\* Output is sent inside the loop: nothing else is noticed until the client
\* has taken it or is gone.
Output(s) ==
    /\ SockGoes(s, "loop", "sending")
    /\ UNCHANGED <<serverVars, waitVars, leaseVars, seen, gone, exited, sessionVars, late>>

OutputTaken(s) ==
    /\ SockGoes(s, "sending", "loop")
    /\ s \notin gone
    /\ UNCHANGED <<serverVars, waitVars, leaseVars, seen, gone, exited, sessionVars, late>>

OutputRefused(s) ==
    /\ s \in gone
    /\ SockGoes(s, "sending", "terminating")
    /\ UNCHANGED <<serverVars, waitVars, leaseVars, seen, gone, exited, sessionVars, late>>

\* A binary message or a resize is put into its channel, also inside the loop: it waits
\* there while that is full of what the command or the output pump does not take.
Input(s) ==
    /\ s \notin gone
    /\ SockGoes(s, "loop", "feeding")
    /\ UNCHANGED <<serverVars, waitVars, leaseVars, seen, gone, exited, sessionVars, late>>

InputTaken(s) ==
    /\ PtyOf[s] \notin exited
    /\ SockGoes(s, "feeding", "loop")
    /\ UNCHANGED <<serverVars, waitVars, leaseVars, seen, gone, exited, sessionVars, late>>

\* The writer's thread has ended with the command: terminate, finish_pty_exit.
InputRefused(s) ==
    /\ PtyOf[s] \in exited
    /\ SockGoes(s, "feeding", "exiting")
    /\ UNCHANGED <<serverVars, waitVars, leaseVars, seen, gone, exited, sessionVars, late>>

\* ContainerPtySession::terminate ends within its timeouts.
Terminate(s) ==
    /\ SockGoes(s, "terminating", "finishing")
    /\ exited' = exited \cup {PtyOf[s]}
    /\ UNCHANGED <<serverVars, waitVars, leaseVars, seen, gone, sessionVars, late>>

ObserveExit(s) ==
    /\ PtyOf[s] \in exited
    /\ SockGoes(s, "loop", "exiting")
    /\ UNCHANGED <<serverVars, waitVars, leaseVars, seen, gone, exited, sessionVars, late>>

\* handle_pty_exit: the rest of the output, then the exit message, again sent to
\* a client that takes them or is gone.
SendExit(s) ==
    /\ SockGoes(s, "exiting", "finishing")
    /\ UNCHANGED <<serverVars, waitVars, leaseVars, seen, gone, exited, sessionVars, late>>

FinishSocket(s) ==
    /\ SockGoes(s, "finishing", "closed")
    /\ FinishSession(PtyOf[s])
    /\ gone' = gone \ {s}
    /\ seen' = [seen EXCEPT ![s] = FALSE]
    /\ UNCHANGED <<serverVars, waitVars, leaseVars, exited, late>>

CommandExits(p) ==
    /\ p \notin exited
    /\ \E s \in Sockets : PtyOf[s] = p /\ sock[s] \in Attached
    /\ exited' = exited \cup {p}
    /\ UNCHANGED <<serverVars, waitVars, leaseVars, sock, seen, gone, sessionVars, late>>

-----------------------------------------------------------------------------
(* Shutdown: serve, cancel_active_after_grace, cancel_active_and_wait,     *)
(* cancel_all.                                                             *)

Signal ==
    /\ phase = "serving"
    /\ phase' = "grace"
    /\ UNCHANGED <<waitToken, ptyFlag, waitVars, leaseVars, sockVars, sessionVars, late>>

\* No wait is active and nothing is canceled, or WAIT_SHUTDOWN_GRACE is over.
GraceOver_Unfinished ==  \* (mistake: the token is left alone)
    /\ phase = "grace"
    /\ phase' = IF ActiveWaits = {} THEN "ptys" ELSE "waits"
    /\ ptyFlag' = (ActiveWaits = {})
    /\ UNCHANGED <<waitToken, waitVars, leaseVars, sockVars, sessionVars, late>>

GraceOver ==
    /\ phase = "grace"
    /\ phase' = IF ActiveWaits = {} THEN "ptys" ELSE "waits"
    /\ waitToken' = (ActiveWaits # {})
    /\ ptyFlag' = (ActiveWaits = {})
    /\ UNCHANGED <<waitVars, leaseVars, sockVars, sessionVars, late>>

\* All waits have ended, or WAIT_SHUTDOWN_WAIT_TIMEOUT is over.
WaitsOver ==
    /\ phase = "waits"
    /\ phase' = "ptys"
    /\ ptyFlag' = TRUE
    /\ UNCHANGED <<waitToken, waitVars, leaseVars, sockVars, sessionVars, late>>

\* All sockets have ended, or PTY_SHUTDOWN_WAIT_TIMEOUT is over; the leases are
\* taken out of the map at once.
PtysOver ==
    /\ phase = "ptys"
    /\ phase' = "leases"
    /\ taken' = leases
    /\ leases' = {}
    /\ UNCHANGED <<waitToken, ptyFlag, waitVars, request, expiring, sockVars, sessionVars, late>>

FinishTaken(p) ==
    /\ phase = "leases"
    /\ p \in taken
    /\ taken' = taken \ {p}
    /\ FinishSession(p)
    /\ UNCHANGED <<serverVars, waitVars, request, leases, expiring, sockVars, late>>

LeasesOver ==
    /\ phase = "leases"
    /\ taken = {}
    /\ phase' = "draining"
    /\ UNCHANGED <<waitToken, ptyFlag, waitVars, leaseVars, sockVars, sessionVars, late>>

\* A connection on which a request is sent, handled or answered.
Open(o) ==
    \/ o \in Waits /\ caller[o] \in {"sending", "waiting"}
    \/ o \in Ptys /\ request[o] \in {"sending", "preparing", "answered"}

\* axum waits for every open connection, without a limit, but not for upgraded
\* sockets; what still runs then ends with the process.
Exit ==
    /\ phase = "draining"
    /\ \A o \in Waits \cup Ptys : ~Open(o)
    /\ phase' = "exited"
    /\ UNCHANGED <<waitToken, ptyFlag, waitVars, leaseVars, sockVars, sessionVars, late>>

-----------------------------------------------------------------------------

WaitTask(w) ==
    CheckFirst(w) \/ PrepareWait(w) \/ CheckSecond(w) \/ CancelExec(w) \/ FinishWait(w)

LeaseTask(p) ==
    InsertLease(p) \/ RequestEnds(p) \/ Expire(p) \/ FinishExpired(p) \/ FinishTaken(p)

SockTask(s) ==
    \/ ReadAuth(s) \/ Consume(s) \/ Greet(s) \/ OutputRefused(s) \/ InputRefused(s)
    \/ Terminate(s) \/ (s \in gone /\ SendExit(s)) \/ FinishSocket(s)

Observe(s) == ObserveShutdown(s) \/ ObserveClose(s) \/ ObserveExit(s)

Shutdown == GraceOver \/ WaitsOver \/ PtysOver \/ LeasesOver \/ Exit

Environment ==
    \/ Signal
    \/ \E w \in Waits : ConnectWait(w) \/ RequestWait(w) \/ CallerGone(w) \/ CallerLeaves(w)
                         \/ AnswerWait(w) \/ CommandEnds(w) \/ OutputEnds(w)
    \/ \E p \in Ptys : ConnectPty(p) \/ RequestPty(p) \/ RequesterLeaves(p) \/ CommandExits(p)
    \/ \E s \in Sockets : Upgrade(s) \/ ClientCloses(s) \/ Output(s) \/ OutputTaken(s)
                           \/ Input(s) \/ InputTaken(s) \/ SendExit(s)

Next ==
    \/ Environment
    \/ Shutdown
    \/ \E w \in Waits : WaitTask(w)
    \/ \E p \in Ptys : LeaseTask(p)
    \/ \E s \in Sockets : SockTask(s) \/ Observe(s)

Spec == Init /\ [][Next]_vars

\* Every task of the gateway that can go on does, and its calls of the runtime end,
\* but for the output of an ended command, which a process may hold open.  select!
\* polls its branches in random order, so a branch that is ready again and again is
\* taken.  Nothing is assumed of callers, clients and commands.
FairSpec ==
    /\ Spec
    /\ WF_vars(Shutdown)
    /\ \A w \in Waits : WF_vars(WaitTask(w))
    /\ \A p \in Ptys : WF_vars(LeaseTask(p)) /\ WF_vars(Expire(p))
    /\ \A s \in Sockets : WF_vars(SockTask(s)) /\ SF_vars(Observe(s))

-----------------------------------------------------------------------------
(* Properties.                                                             *)

Owners(p) ==
    (IF p \in leases THEN {"map"} ELSE {})
    \cup (IF p \in expiring THEN {"timer"} ELSE {})
    \cup (IF p \in taken THEN {"shutdown"} ELSE {})
    \cup {s \in Sockets : PtyOf[s] = p /\ sock[s] \in Attached}

\* A prepared PTY session has exactly one owner (the map, an attach, the expiry
\* or the shutdown) until that owner has finished it, and none afterwards: an
\* attach at the moment of the expiry or of the shutdown neither uses a session
\* that is being cleaned up nor leaves one that nobody cleans up.
LeaseHasOneOwner ==
    \A p \in Ptys : Cardinality(Owners(p)) = (IF p \in held THEN 1 ELSE 0)

\* A wait whose caller has gone is noticed at whatever moment that was, and runs to
\* its end: the command is not left running and the session is finished
\* (OperationCancelGuard, execute_http_wait); only one whose command has ended or
\* was canceled, but has left its output open for good, stays with it.
AbandonedWaitEnds ==
    \A w \in Waits :
        caller[w] = "gone" ~>
            \/ phase = "exited"
            \/ wait[w] = "ended" /\ w \notin held
            \/ [](wait[w] = "draining")

\* A prepared lease does not stay in the map: it is attached, expires or is
\* canceled (PTY_ATTACH_LEASE_TTL).
LeaseIsTaken ==
    \A p \in Ptys : p \in leases ~> p \notin leases \/ phase = "exited"

Blocked(s) == sock[s] \in {"sending", "feeding", "exiting"}

\* An attached PTY ends after its client has closed or the server's shutdown was
\* announced, whenever it subscribed; only one that is blocked for good in a send,
\* to a client that does not read or a command that does not, is never ended.
PtyNoticesEnd ==
    \A s \in Sockets :
        sock[s] \in Attached /\ (ptyFlag \/ s \in gone)
            ~> (sock[s] = "closed" \/ phase = "exited" \/ []Blocked(s))

\* A client that stays in the middle of its request, or does not read its response,
\* or an ended or canceled command whose output does not end.
Stalls(o) ==
    \/ o \in Waits /\ wait[o] = "draining"
    \/ o \in Waits /\ caller[o] = "sending"
    \/ o \in Waits /\ caller[o] = "waiting" /\ wait[o] = "ended"
    \/ o \in Ptys /\ request[o] \in {"sending", "answered"}

\* A shutdown ends, with three exceptions, in all of which axum waits without a
\* limit: a wait that was taken in after the grace found none active and that nobody
\* cancels, a wait whose ended or canceled command left its output open, and a client
\* that never ends its request or never reads the response (serve, whose graceful
\* shutdown has no timeout; the handlers' extractor Bytes has none either).
ShutdownEnds ==
    phase = "grace" ~>
        \/ phase = "exited"
        \/ []<>(\E w \in late : wait[w] = "running" /\ ~waitToken)
        \/ [](\E o \in Waits \cup Ptys : Stalls(o))

=============================================================================
