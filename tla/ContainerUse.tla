---------------------------- MODULE ContainerUse ----------------------------
(***************************************************************************)
(* What the gateway's session lifecycle promises its users: a container    *)
(* and its home directory that stay for as long as anybody uses them, and  *)
(* a container that is given back once nobody does.  Locks, markers, grace *)
(* periods and gateway processes are not part of the promise.              *)
(***************************************************************************)
CONSTANT Users

VARIABLES
    up,     \* the container runs
    home,   \* the workspace exists
    users   \* who is using the container

vars == <<up, home, users>>

Init == up = FALSE /\ home = FALSE /\ users = {}

Settle == home' = TRUE /\ UNCHANGED <<up, users>>

Open == ~up /\ home /\ up' = TRUE /\ UNCHANGED <<home, users>>

Join(u) == up /\ home /\ users' = users \cup {u} /\ UNCHANGED <<up, home>>

\* One user at a time, or all that share a process.
Leave == users' \subseteq users /\ UNCHANGED <<up, home>>

Close == up /\ users = {} /\ up' = FALSE /\ UNCHANGED <<home, users>>

\* The workspace may go before the container does.
Wipe == users = {} /\ home' = FALSE /\ UNCHANGED <<up, users>>

Next == Settle \/ Open \/ Close \/ Wipe \/ Leave \/ \E u \in Users : Join(u)

Spec == Init /\ [][Next]_vars /\ WF_vars(Close)

=============================================================================
