-------------------------- MODULE MCContainerAgent --------------------------
(* One tick is five seconds or so: the poll interval is two, the grace three,  *)
(* and the services may take longer to stop than the least watchdog delay.     *)
(* Either a held session and two requests to shut down, or two holds for one   *)
(* permit and a bridge stream, in a container that is shut down or reaped; or  *)
(* two processes beside the agent, and its reaper.  The reaper shares no       *)
(* variable with the loop that calls it, so their interleavings are left out:  *)
(* while one moves, the other stays in an initial state.                       *)
EXTENDS ContainerAgent, ProcessReaper

CONSTANTS h1, h2, s1, r1, r2

VARIABLE part  \* which of the three, never changed

MCInit ==
    /\ Init /\ ReaperInit
    /\ part \in {"shutdown", "idle", "reaper"}
    /\ part # "idle" => action = "exit_container"
    /\ part # "reaper" => setting = [uid |-> "user", dry_run |-> TRUE, escalates |-> FALSE]

MCNext ==
    /\ IF part = "reaper" THEN ReaperNext /\ UNCHANGED vars ELSE Next /\ UNCHANGED reaperVars
    /\ part = "shutdown" => \A p \in Peers \ {h1} : session'[p] = "none"
    /\ part = "idle" => \A r \in Requests : task'[r] = "none"
    /\ UNCHANGED part

\* Fairness is about the agent's own steps: ShutdownEnds is asked of the other two.
MCSpec == MCInit /\ [][MCNext]_<<part, vars, reaperVars>> /\ Fairness
=============================================================================
