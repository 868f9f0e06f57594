------------------------ MODULE GatewaySessionProofs ------------------------
(***************************************************************************)
(* Proofs about GatewaySession for any operations, gateways and policies.  *)
(***************************************************************************)
EXTENDS GatewaySession, TLAPS


-----------------------------------------------------------------------------

USE DEF Critical, Stages, Goto, Unlock

\* TypeOK is inductive by itself.
LEMMA TypeInit == Init => TypeOK
BY DEF Init, TypeOK

LEMMA TypeNext == TypeOK /\ [Next]_vars => TypeOK'
<1> SUFFICES ASSUME TypeOK, [Next]_vars PROVE TypeOK'
  OBVIOUS
<1> USE OpsAssumption DEF TypeOK
<1>1. ASSUME NEW o \in Ops, Begin(o) PROVE TypeOK'
  BY <1>1 DEF Begin, BeginSession, AbandonSession, BeginWarmUp, BeginTakedown, RefuseTakedown,
     InspectStatus
<1>2. ASSUME NEW o \in Ops, EndBody(o) PROVE TypeOK'
  BY <1>2 DEF EndBody
<1>3. ASSUME NEW o \in Ops, Ensure(o) PROVE TypeOK'
  <2>1. CASE Reuse(o) \/ StartContainer(o) \/ StartFails(o) \/ EnsureFails(o)
    BY <2>1 DEF Reuse, StartContainer, StartFails, EnsureFails, Holds, AfterEnsure
  <2>2. CASE Ready(o) \/ ReadyFails(o) \/ EndpointFails(o)
    BY <2>2 DEF Ready, ReadyFails, EndpointFails, ActiveMarkers, Holds, AfterEnsure
  <2>3. CASE Undo(o)
    BY <2>3 DEF Undo, Holds, StopOutcomes, ContainerBecomes, AfterEnsure
  <2> QED BY <1>3, <2>1, <2>2, <2>3 DEF Ensure
<1>4. ASSUME NEW o \in Ops, DropMarker(o) PROVE TypeOK'
  BY <1>4 DEF DropMarker
<1>5. ASSUME NEW o \in Ops, IdleCheck(o) PROVE TypeOK'
  BY <1>5 DEF IdleCheck, IdleDeferred, IdlePreserved, IdleSkipped, IdleStop, ActiveMarkers
<1>6. ASSUME NEW o \in Ops, Takedown(o) PROVE TypeOK'
  <2>1. CASE StopContainer(o) \/ StopFails(o)
    BY <2>1 DEF StopContainer, StopFails, Holds, ContainerBecomes, AfterStop
  <2>2. CASE RemoveContainer(o) \/ RemoveFails(o)
    BY <2>2 DEF RemoveContainer, RemoveFails, AfterRemove, Holds, AfterStop
  <2>3. CASE ExplicitPurge(o)
    BY <2>3 DEF ExplicitPurge, WorkspaceRemoved, Holds
  <2> QED BY <1>6, <2>1, <2>2, <2>3 DEF Takedown
<1>7. ASSUME NEW o \in Ops, Purge(o) \/ SweepStatus(o) PROVE TypeOK'
  BY <1>7 DEF Purge, PurgeSkipped, PurgeDeferred, PurgeWorkspace, WipeWorkspace,
     WorkspaceRemoved, Holds, SweepStatus, ActiveMarkers
<1>8. ASSUME NEW o \in Ops, OrphanCompletes(o) \/ WipesLate(o) PROVE TypeOK'
  BY <1>8 DEF OrphanCompletes, ContainerBecomes, WipesLate
<1>9. ASSUME NEW g \in Gateways, StartGateway(g) \/ Die(g) PROVE TypeOK'
  <2>1. CASE StartGateway(g)
    BY <2>1 DEF StartGateway
  <2>2. CASE Die(g)
    <3>1. \A o \in Ops : PendingCommand(o) \in {"none", "run", "start", "stop", "rm", "wipe"}
      BY DEF PendingCommand
    <3>2. pc' \in [Ops -> Stages] /\ gateway' \in [Gateways -> {"new", "live", "dead"}]
      BY <2>2 DEF Die
    <3>3. orphan' \in [Ops -> {"none", "run", "start", "stop", "rm", "wipe"}] /\ lock' \in Ops \cup {NoOp}
      <4>1. CASE lock \in Hosted(g)
        BY <2>2, <3>1, <4>1 DEF Die, Hosted
      <4>2. CASE lock \notin Hosted(g)
        BY <2>2, <4>2 DEF Die
      <4> QED BY <4>1, <4>2
    <3>4. waived' \in BOOLEAN /\ using' \subseteq Ops
      BY <2>2 DEF Die
    <3> QED BY <2>2, <3>2, <3>3, <3>4 DEF Die
  <2> QED BY <1>9, <2>1, <2>2
<1>10. CASE ContainerExits
  BY <1>10 DEF ContainerExits, ContainerBecomes
<1>11. CASE UNCHANGED vars
  BY <1>11 DEF vars
<1> QED
  BY <1>1, <1>2, <1>3, <1>4, <1>5, <1>6, <1>7, <1>8, <1>9, <1>10, <1>11 DEF Next, Proceed

\* The state variables keep their types in every behaviour of the gateways.
THEOREM TypeCorrect == Spec => []TypeOK
BY TypeInit, TypeNext, PTL DEF Spec

-----------------------------------------------------------------------------
(* Sessions in use.  A session may use the container only while its marker  *)
(* stands and its gateway lives, so an idle check that finds no active      *)
(* marker knows that nobody uses the container; and it keeps the lock until *)
(* the container is down, so nobody begins to.  That argument, stage by     *)
(* stage, is the inductive invariant.                                       *)

\* Sessions of one target run with one context.
SameContext == \A p, q \in Ops : Context[p] = Context[q]

\* Somebody's gateway must be alive for an operation to be under way.
UnderWayIsLive ==
    \A o \in Ops : pc[o] \notin {"start", "done", "dead"} => gateway[Host[o]] = "live"

\* A session that is getting ready has its marker.
ReadyingIsMarked ==
    \A o \in Ops :
        kind[o] = "session" /\ pc[o] \in {"ensure", "starting", "reusing"}
            => o \in markers \cup wiped

UserIsMarked == \A s \in using : s \in markers \cup wiped /\ pc[s] \in {"active", "ending"}

OnlyARunningContainerIsUsed == container # "running" => using = {}

\* Whoever is about to take the container or the workspace away has seen that nobody
\* uses it, but for sessions whose markers were not there to be seen.
TakenDownUnused ==
    \A o \in Ops :
        /\ pc[o] \in {"starting", "undo", "purging"} => using = {}
        /\ \/ pc[o] = "stopping" /\ kind[o] \notin {"stop", "remove"}
           \/ pc[o] = "wiping"
           => using \subseteq wiped

\* A removal of the workspace that began after a look at the markers finds none.
NothingToWipe == \A o \in Ops : pc[o] = "wiping" => markers = {}

UseInv ==
    /\ TypeOK /\ LockDiscipline /\ UnderWayIsLive
    /\ ReadyingIsMarked /\ UserIsMarked
    /\ OnlyARunningContainerIsUsed /\ TakenDownUnused /\ NothingToWipe

LEMMA UsersAreActive ==
    ASSUME SameContext, UseInv, NEW o \in Ops
    PROVE  using \subseteq ActiveMarkers(o) \cup wiped
<1> SUFFICES ASSUME NEW s \in using \ wiped PROVE s \in ActiveMarkers(o)
  OBVIOUS
<1>1. s \in Ops /\ s \in markers /\ gateway[Host[s]] = "live"
  BY DEF UseInv, TypeOK, UserIsMarked, UnderWayIsLive
<1>2. Matches(Context[o], Context[s])
  BY <1>1 DEF SameContext, Matches
<1> QED BY <1>1, <1>2 DEF ActiveMarkers, RecordActive

\* A sweep leaves a session's own marker alone while its gateway lives.
LEMMA LiveMarkerIsActive ==
    ASSUME SameContext, UseInv, NEW o \in Ops, NEW s \in markers, gateway[Host[s]] = "live"
    PROVE  s \in ActiveMarkers(o)
<1>1. s \in Ops
  BY DEF UseInv, TypeOK
<1>2. Matches(Context[o], Context[s])
  BY <1>1 DEF SameContext, Matches
<1> QED BY <1>1, <1>2 DEF ActiveMarkers, RecordActive

LEMMA UseInit == Init => UseInv
BY TypeInit, OpsAssumption
   DEF Init, UseInv, LockDiscipline, UnderWayIsLive, ReadyingIsMarked, UserIsMarked,
       OnlyARunningContainerIsUsed, TakenDownUnused, NothingToWipe

LEMMA UseNext ==
    ASSUME SameContext
    PROVE  UseInv /\ [Next]_vars => UseInv'
<1> SUFFICES ASSUME UseInv, [Next]_vars PROVE UseInv'
  OBVIOUS
<1>t. TypeOK /\ TypeOK'
  BY TypeNext DEF UseInv
<1>a. \A o \in Ops : using \subseteq ActiveMarkers(o) \cup wiped
  BY UsersAreActive
<1>m. \A o \in Ops : \A s \in markers : gateway[Host[s]] = "live" => s \in ActiveMarkers(o)
  BY LiveMarkerIsActive
<1> USE OpsAssumption, HostAssumption, <1>t
    DEF UseInv, LockDiscipline, UnderWayIsLive, ReadyingIsMarked, UserIsMarked,
        OnlyARunningContainerIsUsed, TakenDownUnused, NothingToWipe
<1>1. ASSUME NEW o \in Ops, Begin(o) PROVE UseInv'
  <2>1. CASE BeginSession(o)
    <3>1. pc' = [pc EXCEPT ![o] = "ensure"] /\ lock' = o /\ markers' = markers \cup {o}
      BY <2>1 DEF BeginSession
    <3>2. pc[o] = "start" /\ lock = NoOp /\ gateway[Host[o]] = "live" /\ o \notin using
      BY <2>1 DEF BeginSession, CanBegin
    <3>3. UNCHANGED <<kind, container, gateway, using, wiped>>
      BY <2>1 DEF BeginSession
    <3>4. \A p \in Ops : pc'[p] # "wiping"
      BY <3>1, <3>2 DEF TypeOK
    <3> QED BY <3>1, <3>2, <3>3, <3>4 DEF TypeOK
  <2>2. CASE AbandonSession(o)
    BY <2>2 DEF AbandonSession, CanBegin, TypeOK
  <2>3. CASE BeginWarmUp(o)
    BY <2>3 DEF BeginWarmUp, CanBegin, TypeOK
  <2>4. CASE BeginTakedown(o)
    BY <2>4 DEF BeginTakedown, CanBegin, TypeOK
  <2>5. CASE RefuseTakedown(o)
    BY <2>5 DEF RefuseTakedown, CanBegin, TypeOK
  <2>6. CASE InspectStatus(o)
    BY <2>6 DEF InspectStatus, CanBegin, TypeOK
  <2> QED BY <1>1, <2>1, <2>2, <2>3, <2>4, <2>5, <2>6 DEF Begin
<1>2. ASSUME NEW o \in Ops, EndBody(o) PROVE UseInv'
  BY <1>2 DEF EndBody, TypeOK
<1>3. ASSUME NEW o \in Ops, Ensure(o) PROVE UseInv'
  <2>1. CASE Reuse(o) \/ StartContainer(o) \/ StartFails(o) \/ EnsureFails(o)
    BY <2>1 DEF Reuse, StartContainer, StartFails, EnsureFails, Holds, AfterEnsure, TypeOK
  <2>2. CASE Ready(o)
    BY <2>2, <1>a, <1>m DEF Ready, Holds, TypeOK
  <2>3. CASE ReadyFails(o) \/ EndpointFails(o)
    BY <2>3, <1>a, <1>m DEF ReadyFails, EndpointFails, Holds, AfterEnsure, TypeOK
  <2>4. CASE Undo(o)
    BY <2>4 DEF Undo, Holds, StopOutcomes, ContainerBecomes, AfterEnsure, TypeOK
  <2> QED BY <1>3, <2>1, <2>2, <2>3, <2>4 DEF Ensure
<1>4. ASSUME NEW o \in Ops, DropMarker(o) PROVE UseInv'
  BY <1>4 DEF DropMarker, TypeOK
<1>5. ASSUME NEW o \in Ops, IdleCheck(o) PROVE UseInv'
  BY <1>5, <1>a, <1>m DEF IdleCheck, IdleDeferred, IdlePreserved, IdleSkipped, IdleStop, TypeOK
<1>6. ASSUME NEW o \in Ops, Takedown(o) PROVE UseInv'
  <2>1. CASE StopContainer(o) \/ StopFails(o)
    BY <2>1 DEF StopContainer, StopFails, Holds, ContainerBecomes, AfterStop, TypeOK
  <2>2. CASE RemoveContainer(o) \/ RemoveFails(o)
    BY <2>2 DEF RemoveContainer, RemoveFails, AfterRemove, Holds, AfterStop, TypeOK
  <2>3. CASE ExplicitPurge(o)
    BY <2>3 DEF ExplicitPurge, WorkspaceRemoved, Holds, TypeOK
  <2> QED BY <1>6, <2>1, <2>2, <2>3 DEF Takedown
<1>7. ASSUME NEW o \in Ops, Purge(o) \/ SweepStatus(o) PROVE UseInv'
  <2>1. CASE PurgeSkipped(o)
    BY <2>1 DEF PurgeSkipped, TypeOK
  <2>2. CASE PurgeDeferred(o) \/ SweepStatus(o)
    BY <2>2, <1>a, <1>m DEF PurgeDeferred, SweepStatus, ActiveMarkers, TypeOK
  <2>3. CASE PurgeWorkspace(o)
    BY <2>3, <1>a, <1>m DEF PurgeWorkspace, TypeOK
  <2>4. CASE WipeWorkspace(o)
    BY <2>4 DEF WipeWorkspace, WorkspaceRemoved, Holds, TypeOK
  <2> QED BY <1>7, <2>1, <2>2, <2>3, <2>4 DEF Purge
<1>8. ASSUME NEW o \in Ops, OrphanCompletes(o) \/ WipesLate(o) PROVE UseInv'
  BY <1>8 DEF OrphanCompletes, ContainerBecomes, WipesLate, TypeOK
<1>9. ASSUME NEW g \in Gateways, StartGateway(g) PROVE UseInv'
  BY <1>9 DEF StartGateway, TypeOK
<1>10. ASSUME NEW g \in Gateways, Die(g) PROVE UseInv'
  BY <1>10 DEF Die, Hosted, TypeOK
<1>11. CASE ContainerExits
  BY <1>11 DEF ContainerExits, ContainerBecomes, TypeOK
<1>12. CASE UNCHANGED vars
  BY <1>12 DEF vars, TypeOK
<1> QED
  BY <1>1, <1>2, <1>3, <1>4, <1>5, <1>6, <1>7, <1>8, <1>9, <1>10, <1>11, <1>12 DEF Next, Proceed

-----------------------------------------------------------------------------

\* Under one context, what a session or a warm-up does on its own never takes a
\* container away from a session that uses it (stop_managed_container and
\* cleanup_failed_start), whatever fails, dies or is swept in between,
\* unless a removal of the workspace that outlived its gateway took the session's marker.
THEOREM LiveSessionKeepsContainerThm ==
    ASSUME SameContext
    PROVE  Spec => LiveSessionKeepsContainer
<1> DEFINE Own(o) == /\ kind[o] \in {"session", "up"} /\ pc'[o] # pc[o]
                     /\ container = "running" /\ container' # "running"
<1>1. ASSUME UseInv, Next, NEW p \in Ops, Own(p) PROVE using \subseteq wiped
  <2> USE <1>1 DEF UseInv, TypeOK
  <2>1. ASSUME NEW o \in Ops, Begin(o) \/ EndBody(o) \/ DropMarker(o) \/ IdleCheck(o)
        PROVE FALSE
    BY <2>1 DEF Begin, BeginSession, AbandonSession, BeginWarmUp, BeginTakedown,
       RefuseTakedown, InspectStatus, EndBody, DropMarker, IdleCheck, IdleDeferred,
       IdlePreserved, IdleSkipped, IdleStop
  <2>2. ASSUME NEW o \in Ops, Ensure(o) PROVE using \subseteq wiped
    <3>1. CASE Undo(o)
      BY <3>1 DEF Undo, Holds, TakenDownUnused
    <3>2. CASE ~Undo(o)
      BY <2>2, <3>2 DEF Ensure, Reuse, StartContainer, StartFails, EnsureFails, Ready,
         ReadyFails, EndpointFails
    <3> QED BY <3>1, <3>2
  <2>3. ASSUME NEW o \in Ops, Takedown(o) PROVE using \subseteq wiped
    <3>1. CASE StopContainer(o) \/ StopFails(o)
      <4>1. p = o /\ pc[o] = "stopping"
        BY <3>1 DEF StopContainer, StopFails, Holds
      <4> QED BY <4>1 DEF TakenDownUnused
    <3>2. CASE RemoveContainer(o) \/ RemoveFails(o) \/ ExplicitPurge(o)
      BY <3>2 DEF RemoveContainer, RemoveFails, ExplicitPurge
    <3> QED BY <2>3, <3>1, <3>2 DEF Takedown
  <2>4. ASSUME NEW o \in Ops, Purge(o) \/ SweepStatus(o) PROVE FALSE
    BY <2>4 DEF Purge, PurgeSkipped, PurgeDeferred, PurgeWorkspace, WipeWorkspace,
     WorkspaceRemoved, Holds, SweepStatus
  <2>5. ASSUME NEW o \in Ops, OrphanCompletes(o) \/ WipesLate(o) PROVE FALSE
    BY <2>5 DEF OrphanCompletes, WipesLate
  <2>6. ASSUME NEW g \in Gateways, StartGateway(g) \/ Die(g) PROVE FALSE
    BY <2>6 DEF StartGateway, Die
  <2>7. CASE ContainerExits
    BY <2>7 DEF ContainerExits
  <2> QED BY <2>1, <2>2, <2>3, <2>4, <2>5, <2>6, <2>7 DEF Next, Proceed
<1>2. UseInv /\ [Next]_vars => [\A o \in Ops : Own(o) => using \subseteq wiped]_vars
  BY <1>1
<1> QED
  BY <1>2, UseInit, UseNext, PTL DEF Spec, LiveSessionKeepsContainer

\* Under one context, neither the cleanup after a session nor an operator's remove
\* deletes the workspace under a session that uses it (apply_post_session_cleanup,
\* apply_explicit_remove_workspace_cleanup), whatever fails, dies or completes late; only
\* the removal that a killed gateway left behind does, under sessions that began since.
THEOREM LiveSessionKeepsWorkspaceThm ==
    ASSUME SameContext
    PROVE  Spec => LiveSessionKeepsWorkspace
<1> DEFINE Deletes == workspace /\ ~workspace'
           Left == \E o \in Ops : orphan[o] = "none" /\ orphan'[o] = "wipe"
<1>1. ASSUME UseInv, Next, Deletes PROVE using \subseteq wiped'
  <2> USE <1>1
  <2>1. ASSUME NEW o \in Ops, ExplicitPurge(o) PROVE using \subseteq wiped'
    BY <2>1 DEF ExplicitPurge, Holds, UseInv, TakenDownUnused
  <2>2. ASSUME NEW o \in Ops, WipeWorkspace(o) PROVE using \subseteq wiped'
    BY <2>2 DEF WipeWorkspace, Holds, UseInv, TakenDownUnused
  <2>3. ASSUME NEW o \in Ops, Takedown(o), ~ExplicitPurge(o) PROVE FALSE
    BY <2>3 DEF Takedown, StopContainer, StopFails, RemoveContainer, RemoveFails
  <2>4. ASSUME NEW o \in Ops, Purge(o), ~WipeWorkspace(o) PROVE FALSE
    BY <2>4 DEF Purge, PurgeSkipped, PurgeDeferred, PurgeWorkspace
  <2>5. ASSUME NEW o \in Ops, Begin(o) \/ EndBody(o) \/ DropMarker(o) \/ IdleCheck(o)
        PROVE FALSE
    BY <2>5 DEF Begin, BeginSession, AbandonSession, BeginWarmUp, BeginTakedown,
       RefuseTakedown, InspectStatus, EndBody, DropMarker, IdleCheck, IdleDeferred,
       IdlePreserved, IdleSkipped, IdleStop, UseInv, TypeOK
  <2>6. ASSUME NEW o \in Ops, Ensure(o) \/ SweepStatus(o) \/ OrphanCompletes(o) PROVE FALSE
    BY <2>6 DEF Ensure, Reuse, StartContainer, StartFails, EnsureFails, Ready, ReadyFails,
       EndpointFails, Undo, SweepStatus, OrphanCompletes
  <2>7. ASSUME NEW o \in Ops, WipesLate(o) PROVE using \subseteq wiped'
    BY <2>7 DEF WipesLate, UseInv, UserIsMarked
  <2>8. ASSUME NEW g \in Gateways, StartGateway(g) \/ Die(g) PROVE FALSE
    BY <2>8 DEF StartGateway, Die
  <2>9. CASE ContainerExits
    BY <2>9 DEF ContainerExits
  <2> QED BY <2>1, <2>2, <2>3, <2>4, <2>5, <2>6, <2>7, <2>8, <2>9 DEF Next, Proceed
<1>2. ASSUME UseInv, Next, Left PROVE using' \subseteq wiped
  <2> USE <1>2 DEF UseInv, TypeOK
  <2>1. PICK o \in Ops : orphan[o] = "none" /\ orphan'[o] = "wipe"
    OBVIOUS
  <2>2. PICK g \in Gateways : Die(g)
    <3>1. ASSUME NEW p \in Ops, Begin(p) \/ EndBody(p) \/ DropMarker(p) \/ IdleCheck(p)
          PROVE  UNCHANGED orphan
      BY <3>1 DEF Begin, BeginSession, AbandonSession, BeginWarmUp, BeginTakedown,
         RefuseTakedown, InspectStatus, EndBody, DropMarker, IdleCheck, IdleDeferred,
         IdlePreserved, IdleSkipped, IdleStop
    <3>2. ASSUME NEW p \in Ops, Ensure(p) \/ Takedown(p) \/ Purge(p) \/ SweepStatus(p)
          PROVE  UNCHANGED orphan
      BY <3>2 DEF Ensure, Reuse, StartContainer, StartFails, EnsureFails, Ready, ReadyFails,
         EndpointFails, Undo, Takedown, StopContainer, StopFails, RemoveContainer, RemoveFails,
         ExplicitPurge, Purge, PurgeSkipped, PurgeDeferred, PurgeWorkspace, WipeWorkspace,
         SweepStatus
    <3>3. ASSUME NEW p \in Ops, OrphanCompletes(p) \/ WipesLate(p) PROVE orphan'[o] # "wipe"
      BY <2>1, <3>3 DEF OrphanCompletes, WipesLate
    <3>4. ASSUME NEW g \in Gateways, StartGateway(g) PROVE UNCHANGED orphan
      BY <3>4 DEF StartGateway
    <3>5. ContainerExits => UNCHANGED orphan
      BY DEF ContainerExits
    <3> QED BY <2>1, <3>1, <3>2, <3>3, <3>4, <3>5 DEF Next, Proceed
  <2>3. lock = o /\ PendingCommand(o) = "wipe" /\ using' \subseteq using
    BY <2>1, <2>2 DEF Die
  <2>4. pc[o] \in {"wiping", "purging"}
    BY <2>3 DEF PendingCommand
  <2> QED BY <2>3, <2>4 DEF TakenDownUnused
<1>3. UseInv /\ [Next]_vars
      => [(Deletes => using \subseteq wiped') /\ (Left => using' \subseteq wiped)]_vars
  BY <1>1, <1>2
<1>4. [(Deletes => using \subseteq wiped') /\ (Left => using' \subseteq wiped)]_vars
      => [/\ Deletes => using \subseteq wiped'
          /\ \A o \in Ops : orphan[o] = "none" /\ orphan'[o] = "wipe"
                          => using' \subseteq wiped]_vars
  OBVIOUS
<1> QED
  BY <1>3, <1>4, UseInit, UseNext, PTL DEF Spec, LiveSessionKeepsWorkspace

-----------------------------------------------------------------------------
(* Who stops the container.  An idle check may leave it to another session  *)
(* only because that session's marker is active; so the marker of a live    *)
(* gateway must always belong to a session that has not checked yet.  That  *)
(* needs gateways to have pids of their own (see GatewaySessionPidsStranded *)
(* .cfg for what happens otherwise).                                        *)

OwnPidsOnly == \A g, h \in Gateways : PidOf[g] = PidOf[h] => g = h

MarkerIsUnchecked ==
    \A s \in markers :
        gateway[Host[s]] # "dead" => kind[s] = "session" /\ pc[s] \in Marked

LabelIsContext == container # "absent" => \A o \in Ops : label = Context[o]

\* CleanupEdgeOwned, with the starts and undos a lock holder still answers for.
EdgeIsOwned ==
    GatewayIdle /\ container = "running" /\ ~waived
    => \E o \in Ops : Responsible(o) \/ pc[o] \in {"starting", "undo"}

EdgeInv == UseInv /\ MarkerIsUnchecked /\ LabelIsContext /\ EdgeIsOwned

LEMMA EdgeInit == Init => EdgeInv
BY UseInit DEF Init, EdgeInv, MarkerIsUnchecked, LabelIsContext, EdgeIsOwned

LEMMA MarkerNext ==
    ASSUME UseInv, MarkerIsUnchecked, [Next]_vars
    PROVE  MarkerIsUnchecked'
<1> USE HostAssumption, OpsAssumption DEF UseInv, TypeOK, LockDiscipline, UnderWayIsLive, MarkerIsUnchecked, Marked
<1>1. ASSUME NEW o \in Ops, Begin(o) \/ EndBody(o) PROVE MarkerIsUnchecked'
  <2>1. CASE BeginSession(o)
    <3>1. pc' = [pc EXCEPT ![o] = "ensure"] /\ markers' = markers \cup {o}
      BY <2>1 DEF BeginSession
    <3>2. kind[o] = "session" /\ UNCHANGED <<kind, gateway>>
      BY <2>1 DEF BeginSession
    <3>3. ASSUME NEW s \in markers', gateway'[Host[s]] # "dead"
          PROVE  kind'[s] = "session" /\ pc'[s] \in Marked
      <4>1. CASE s = o
        BY <3>1, <3>2, <4>1
      <4>2. CASE s # o
        BY <3>1, <3>2, <3>3, <4>2
      <4> QED BY <4>1, <4>2
    <3> QED BY <3>3
  <2>2. CASE AbandonSession(o) \/ BeginWarmUp(o)
    <3>1. o \notin markers
      BY <2>2 DEF AbandonSession, BeginWarmUp, CanBegin
    <3>2. UNCHANGED <<kind, gateway, markers>>
      BY <2>2 DEF AbandonSession, BeginWarmUp
    <3>3. pc' = [pc EXCEPT ![o] = "done"] \/ pc' = [pc EXCEPT ![o] = "ensure"]
      BY <2>2 DEF AbandonSession, BeginWarmUp
    <3>4. \A s \in Ops \ {o} : pc'[s] = pc[s]
      BY <3>3
    <3> QED BY <3>1, <3>2, <3>4
  <2>3. CASE BeginTakedown(o)
    BY <2>3 DEF BeginTakedown, CanBegin
  <2>4. CASE RefuseTakedown(o)
    BY <2>4 DEF RefuseTakedown, CanBegin
  <2>5. CASE InspectStatus(o)
    BY <2>5 DEF InspectStatus, CanBegin
  <2>6. CASE EndBody(o)
    BY <2>6 DEF EndBody
  <2> QED BY <1>1, <2>1, <2>2, <2>3, <2>4, <2>5, <2>6 DEF Begin
<1>2. ASSUME NEW o \in Ops, Ensure(o) PROVE MarkerIsUnchecked'
  <2>1. CASE Reuse(o) \/ StartContainer(o) \/ StartFails(o)
    BY <2>1 DEF Reuse, StartContainer, StartFails, Holds
  <2>2. CASE EnsureFails(o) \/ Undo(o)
    BY <2>2 DEF EnsureFails, Undo, Holds, AfterEnsure
  <2>3. CASE Ready(o)
    BY <2>3 DEF Ready, Holds, ActiveMarkers
  <2>4. CASE ReadyFails(o) \/ EndpointFails(o)
    BY <2>4 DEF ReadyFails, EndpointFails, Holds, AfterEnsure, ActiveMarkers
  <2> QED BY <1>2, <2>1, <2>2, <2>3, <2>4 DEF Ensure
<1>3. ASSUME NEW o \in Ops, DropMarker(o) \/ IdleCheck(o) PROVE MarkerIsUnchecked'
  BY <1>3 DEF DropMarker, IdleCheck, IdleDeferred, IdlePreserved, IdleSkipped, IdleStop,
     ActiveMarkers
<1>4. ASSUME NEW o \in Ops, Takedown(o) PROVE MarkerIsUnchecked'
  BY <1>4 DEF Takedown, StopContainer, StopFails, RemoveContainer, RemoveFails, AfterRemove,
     AfterStop, ExplicitPurge, WorkspaceRemoved, Holds
<1>5. ASSUME NEW o \in Ops, Purge(o) \/ SweepStatus(o) \/ OrphanCompletes(o)
             \/ WipesLate(o)
      PROVE MarkerIsUnchecked'
  BY <1>5 DEF Purge, PurgeSkipped, PurgeDeferred, PurgeWorkspace, WipeWorkspace,
     WorkspaceRemoved, Holds, SweepStatus, OrphanCompletes, WipesLate,
     ActiveMarkers
<1>6. ASSUME NEW g \in Gateways, StartGateway(g) \/ Die(g) PROVE MarkerIsUnchecked'
  BY <1>6 DEF StartGateway, Die
<1>7. CASE ContainerExits \/ UNCHANGED vars
  BY <1>7 DEF ContainerExits, vars
<1> QED BY <1>1, <1>2, <1>3, <1>4, <1>5, <1>6, <1>7 DEF Next, Proceed

LEMMA LabelNext ==
    ASSUME SameContext, UseInv, LabelIsContext, [Next]_vars
    PROVE  LabelIsContext'
<1> USE DEF LabelIsContext, SameContext, UseInv, TypeOK
<1>1. ASSUME NEW o \in Ops, Begin(o) \/ EndBody(o) \/ DropMarker(o) \/ IdleCheck(o)
      PROVE LabelIsContext'
  BY <1>1 DEF Begin, EndBody, BeginSession, AbandonSession, BeginWarmUp, BeginTakedown,
     RefuseTakedown, InspectStatus, DropMarker, IdleCheck, IdleDeferred, IdlePreserved,
     IdleSkipped, IdleStop
<1>2. ASSUME NEW o \in Ops, Ensure(o) PROVE LabelIsContext'
  <2>1. CASE Undo(o)
    BY <2>1 DEF Undo, ContainerBecomes, StopOutcomes
  <2>2. CASE ~Undo(o)
    BY <1>2, <2>2 DEF Ensure, Reuse, StartContainer, StartFails, EnsureFails, Ready, ReadyFails,
       EndpointFails
  <2> QED BY <2>1, <2>2
<1>3. ASSUME NEW o \in Ops, Takedown(o) PROVE LabelIsContext'
  BY <1>3 DEF Takedown, StopContainer, StopFails, RemoveContainer, RemoveFails,
     ContainerBecomes, ExplicitPurge
<1>4. ASSUME NEW o \in Ops, Purge(o) \/ SweepStatus(o) \/ OrphanCompletes(o)
             \/ WipesLate(o)
      PROVE LabelIsContext'
  BY <1>4 DEF Purge, PurgeSkipped, PurgeDeferred, PurgeWorkspace, WipeWorkspace,
     WorkspaceRemoved, Holds, SweepStatus, OrphanCompletes, WipesLate,
     ContainerBecomes
<1>5. CASE (\E g \in Gateways : StartGateway(g) \/ Die(g)) \/ ContainerExits \/ UNCHANGED vars
  BY <1>5 DEF StartGateway, Die, ContainerExits, ContainerBecomes, vars
<1> QED BY <1>1, <1>2, <1>3, <1>4, <1>5 DEF Next, Proceed

LEMMA EdgeNext ==
    ASSUME SameContext, OwnPidsOnly, EdgeInv, [Next]_vars
    PROVE  EdgeIsOwned'
<1> USE HostAssumption, OpsAssumption
    DEF EdgeInv, UseInv, TypeOK, LockDiscipline, EdgeIsOwned, Responsible, Marked, NobodyOutside
\* An active marker is that of another session, which still has its check to do.
<1>a. ASSUME NEW o \in Ops, pc[o] = "grace", ActiveMarkers(o) # {}
      PROVE \E s \in Ops \ {o} : Responsible(s)
  <2>1. PICK s \in markers : RecordActive(o, s)
    BY <1>a DEF ActiveMarkers
  <2>2. gateway[Host[s]] = "live"
    BY <2>1, <1>a DEF RecordActive, OwnPidsOnly, UnderWayIsLive
  <2> QED BY <2>1, <2>2, <1>a DEF MarkerIsUnchecked
<1>1. ASSUME NEW o \in Ops, Begin(o) \/ EndBody(o) PROVE EdgeIsOwned'
  <2>1. CASE BeginSession(o)
    BY <2>1 DEF BeginSession
  <2>2. CASE AbandonSession(o)
    BY <2>2 DEF AbandonSession, CanBegin
  <2>3. CASE BeginWarmUp(o)
    BY <2>3 DEF BeginWarmUp, CanBegin
  <2>4. CASE BeginTakedown(o)
    BY <2>4 DEF BeginTakedown, CanBegin
  <2>5. CASE RefuseTakedown(o)
    BY <2>5 DEF RefuseTakedown, CanBegin
  <2>6. CASE InspectStatus(o)
    BY <2>6 DEF InspectStatus, CanBegin
  <2>7. CASE EndBody(o)
    BY <2>7 DEF EndBody
  <2> QED BY <1>1, <2>1, <2>2, <2>3, <2>4, <2>5, <2>6, <2>7 DEF Begin
<1>2. ASSUME NEW o \in Ops, Ensure(o) PROVE EdgeIsOwned'
  <2>1. CASE Reuse(o) \/ StartContainer(o) \/ StartFails(o) \/ EnsureFails(o)
    BY <2>1 DEF Reuse, StartContainer, StartFails, EnsureFails, Holds, AfterEnsure
  <2>2. CASE Ready(o)
    BY <2>2 DEF Ready, Holds
  <2>3. CASE ReadyFails(o) \/ EndpointFails(o)
    BY <2>3 DEF ReadyFails, EndpointFails, Holds, AfterEnsure
  <2>4. CASE Undo(o)
    BY <2>4 DEF Undo, Holds, StopOutcomes, ContainerBecomes, AfterEnsure
  <2> QED BY <1>2, <2>1, <2>2, <2>3, <2>4 DEF Ensure
<1>3. ASSUME NEW o \in Ops, DropMarker(o) PROVE EdgeIsOwned'
  BY <1>3 DEF DropMarker
<1>4. ASSUME NEW o \in Ops, IdleCheck(o) PROVE EdgeIsOwned'
  <2>1. CASE IdleDeferred(o)
    BY <2>1, <1>a DEF IdleDeferred
  <2>2. CASE IdlePreserved(o)
    BY <2>2 DEF IdlePreserved
  <2>3. CASE IdleSkipped(o)
    BY <2>3 DEF IdleSkipped, LabelIsContext, LabelMatches, Matches
  <2>4. CASE IdleStop(o)
    BY <2>4 DEF IdleStop
  <2> QED BY <1>4, <2>1, <2>2, <2>3, <2>4 DEF IdleCheck
<1>5. ASSUME NEW o \in Ops, Takedown(o) PROVE EdgeIsOwned'
  <2>1. CASE StopContainer(o) \/ StopFails(o)
    BY <2>1 DEF StopContainer, StopFails, Holds, ContainerBecomes, AfterStop
  <2>2. CASE RemoveContainer(o) \/ RemoveFails(o)
    BY <2>2 DEF RemoveContainer, RemoveFails, AfterRemove, Holds, AfterStop
  <2>3. CASE ExplicitPurge(o)
    BY <2>3 DEF ExplicitPurge, Holds
  <2> QED BY <1>5, <2>1, <2>2, <2>3 DEF Takedown
<1>6. ASSUME NEW o \in Ops, Purge(o) \/ SweepStatus(o) PROVE EdgeIsOwned'
  <2>1. CASE PurgeSkipped(o)
    BY <2>1 DEF PurgeSkipped
  <2>2. CASE PurgeDeferred(o)
    BY <2>2 DEF PurgeDeferred
  <2>3. CASE PurgeWorkspace(o)
    BY <2>3 DEF PurgeWorkspace
  <2>4. CASE WipeWorkspace(o)
    BY <2>4 DEF WipeWorkspace, Holds
  <2>5. CASE SweepStatus(o)
    BY <2>5 DEF SweepStatus
  <2> QED BY <1>6, <2>1, <2>2, <2>3, <2>4, <2>5 DEF Purge
<1>7. ASSUME NEW o \in Ops, OrphanCompletes(o) PROVE EdgeIsOwned'
  <2>1. UNCHANGED <<kind, pc>>
    BY <1>7 DEF OrphanCompletes
  <2>2. CASE container' = "running" /\ waived' = (waived \/ NobodyOutside({}))
    BY <2>1, <2>2
  <2>3. CASE container' # "running"
    BY <2>3
  <2>4. CASE UNCHANGED <<container, waived>>
    BY <2>1, <2>4
  <2> QED BY <1>7, <2>2, <2>3, <2>4 DEF OrphanCompletes, ContainerBecomes
<1>8. ASSUME NEW g \in Gateways, StartGateway(g) PROVE EdgeIsOwned'
  BY <1>8 DEF StartGateway
<1>9. ASSUME NEW g \in Gateways, Die(g) PROVE EdgeIsOwned'
  BY <1>9 DEF Die, Hosted
<1>10. CASE ContainerExits \/ UNCHANGED vars
  BY <1>10 DEF ContainerExits, ContainerBecomes, vars
<1>11. ASSUME NEW o \in Ops, WipesLate(o) PROVE EdgeIsOwned'
  BY <1>11 DEF WipesLate
<1> QED
  BY <1>1, <1>2, <1>3, <1>4, <1>5, <1>6, <1>7, <1>8, <1>9, <1>10, <1>11 DEF Next, Proceed

\* The lifecycle lock is held exactly by who is in a critical section, across
\* crashes; and with one context and pids of their own, a running container
\* that nobody was allowed to keep always has a session that will check it.
THEOREM CleanupEdgeOwnedThm ==
    ASSUME SameContext, OwnPidsOnly
    PROVE  Spec => [](LockDiscipline /\ CleanupEdgeOwned)
<1>1. EdgeInv /\ [Next]_vars => EdgeInv'
  BY UseNext, MarkerNext, LabelNext, EdgeNext DEF EdgeInv
<1>2. EdgeInv => LockDiscipline /\ CleanupEdgeOwned
  BY OpsAssumption DEF EdgeInv, UseInv, LockDiscipline, EdgeIsOwned, CleanupEdgeOwned
<1> QED
  BY EdgeInit, <1>1, <1>2, PTL DEF Spec

\* Under one context, the marker of a session whose gateway lives is removed by
\* the session itself or by a removal of the workspace, an operator's or one that outlived
\* its gateway, and by no sweep (active_session_markers_from_dir).
THEOREM LiveMarkerStandsThm ==
    ASSUME SameContext
    PROVE  Spec => LiveMarkerStands
<1> DEFINE Inv == UseInv /\ MarkerIsUnchecked
           May(s) == \/ gateway[Host[s]] = "dead"
                     \/ pc[s] = "ending" /\ pc'[s] # "ending"
                     \/ \E o \in Ops : pc[o] = "purging" /\ pc'[o] = "done"
                     \/ s \in wiped'
<1>1. Inv /\ [Next]_vars => Inv'
  BY UseNext, MarkerNext
<1>2. ASSUME Inv, Next, NEW s \in markers \ markers', gateway[Host[s]] # "dead" PROVE May(s)
  <2>1. gateway[Host[s]] = "live" /\ s \in Ops
    BY <1>2, HostAssumption DEF UseInv, TypeOK, MarkerIsUnchecked, Marked, UnderWayIsLive
  <2>2. \A o \in Ops : s \in ActiveMarkers(o)
    BY <1>2, <2>1, LiveMarkerIsActive
  <2> USE <1>2, <2>1 DEF UseInv, TypeOK
  <2>3. ASSUME NEW o \in Ops, DropMarker(o) PROVE May(s)
    BY <2>3 DEF DropMarker
  <2>4. ASSUME NEW o \in Ops, Takedown(o) PROVE May(s)
    <3>1. CASE ExplicitPurge(o)
      BY <3>1 DEF ExplicitPurge, Holds
    <3>2. CASE ~ExplicitPurge(o)
      BY <2>4, <3>2 DEF Takedown, StopContainer, StopFails, RemoveContainer, RemoveFails
    <3> QED BY <3>1, <3>2
  <2>5. ASSUME NEW o \in Ops, IdleCheck(o) \/ Purge(o) \/ SweepStatus(o) PROVE FALSE
    BY <2>5, <2>2 DEF IdleCheck, IdleDeferred, IdlePreserved, IdleSkipped, IdleStop, Purge,
       PurgeSkipped, PurgeDeferred, PurgeWorkspace, WipeWorkspace, Holds, NothingToWipe,
       SweepStatus
  <2>6. ASSUME NEW o \in Ops, Ensure(o) PROVE FALSE
    BY <2>6, <2>2 DEF Ensure, Reuse, StartContainer, StartFails, EnsureFails, Ready, ReadyFails,
       EndpointFails, Undo
  <2>7. ASSUME NEW o \in Ops, Begin(o) \/ EndBody(o) \/ OrphanCompletes(o) PROVE FALSE
    BY <2>7 DEF Begin, BeginSession, AbandonSession, BeginWarmUp, BeginTakedown,
       RefuseTakedown, InspectStatus, EndBody, OrphanCompletes
  <2>8. CASE (\E g \in Gateways : StartGateway(g) \/ Die(g)) \/ ContainerExits
    BY <2>8 DEF StartGateway, Die, ContainerExits
  <2>9. ASSUME NEW o \in Ops, WipesLate(o) PROVE May(s)
    BY <2>9 DEF WipesLate
  <2> QED BY <2>3, <2>4, <2>5, <2>6, <2>7, <2>8, <2>9 DEF Next, Proceed
<1>3. Inv /\ [Next]_vars => [\A s \in markers \ markers' : May(s)]_vars
  BY <1>2
<1>4. Init => Inv
  BY UseInit DEF Init, MarkerIsUnchecked
<1> QED
  BY <1>1, <1>3, <1>4, PTL DEF Spec, LiveMarkerStands

-----------------------------------------------------------------------------
(* Contexts.  An operation looks at the labels when it finds or starts the  *)
(* container, and goes on without another look.  What it looked at cannot   *)
(* be replaced under it: only a lock holder removes a container, except for *)
(* the rm of a gateway that was killed while it waited for it, and only a   *)
(* lock holder creates one, except for the run of such a gateway.  It takes *)
(* both at once, and so two kills, to make a session use a container of     *)
(* another context; four operations are enough for that.                    *)

NoOrphanedRemoval == \A o \in Ops : orphan[o] # "rm"
NoOrphanedRun == \A o \in Ops : orphan[o] # "run"

\* No two killed gateways leave one a removal and the other a creation.
NoReplacement == NoOrphanedRemoval \/ NoOrphanedRun

\* What an operation in its critical section has validated is still there, or it is
\* gone and nobody is left who could put another in its place.
ValidatedStays ==
    \A o \in Ops :
        pc[o] \in {"starting", "reusing"} =>
            \/ container # "absent" /\ LabelMatches(o)
            \/ container = "absent" /\ NoOrphanedRun

IsolationInv ==
    /\ TypeOK /\ LockDiscipline /\ OnlyARunningContainerIsUsed
    /\ ValidatedStays /\ ContextIsolation

LEMMA IsolationNext ==
    ASSUME IsolationInv, NoReplacement, [Next]_vars
    PROVE  IsolationInv'
<1>t. TypeOK /\ TypeOK'
  BY TypeNext DEF IsolationInv
<1> USE OpsAssumption, HostAssumption, <1>t
    DEF IsolationInv, LockDiscipline, OnlyARunningContainerIsUsed, ValidatedStays, ContextIsolation,
        LabelMatches, NoOrphanedRun, TypeOK
<1>s. \A o \in Ops : Matches(Context[o], Context[o])
  BY DEF Matches
<1>1. ASSUME NEW o \in Ops, Begin(o) PROVE IsolationInv'
  <2>1. CASE BeginSession(o) \/ BeginWarmUp(o)
    BY <2>1 DEF BeginSession, BeginWarmUp, CanBegin
  <2>2. CASE AbandonSession(o) \/ InspectStatus(o)
    <3>1. \E stage \in {"done", "sweep"} : pc' = [pc EXCEPT ![o] = stage]
      BY <2>2 DEF AbandonSession, InspectStatus
    <3>2. pc[o] = "start" /\ UNCHANGED <<lock, container, label, orphan, using>>
      BY <2>2 DEF AbandonSession, InspectStatus, CanBegin
    <3> QED BY <3>1, <3>2
  <2>3. CASE BeginTakedown(o)
    BY <2>3 DEF BeginTakedown, CanBegin
  <2>4. CASE RefuseTakedown(o)
    BY <2>4 DEF RefuseTakedown, CanBegin
  <2> QED BY <1>1, <2>1, <2>2, <2>3, <2>4 DEF Begin
<1>2. ASSUME NEW o \in Ops, EndBody(o) \/ DropMarker(o) PROVE IsolationInv'
  BY <1>2 DEF EndBody, DropMarker
<1>3. ASSUME NEW o \in Ops, Ensure(o) PROVE IsolationInv'
  <2>1. CASE Reuse(o) \/ EnsureFails(o)
    BY <2>1 DEF Reuse, EnsureFails, Holds, AfterEnsure
  <2>2. CASE StartContainer(o)
    BY <2>2, <1>s DEF StartContainer, Addressable, Holds
  <2>3. CASE StartFails(o)
    BY <2>3 DEF StartFails, Holds
  <2>4. CASE Ready(o)
    BY <2>4 DEF Ready, Holds
  <2>5. CASE ReadyFails(o) \/ EndpointFails(o)
    BY <2>5 DEF ReadyFails, EndpointFails, Holds, AfterEnsure
  <2>6. CASE Undo(o)
    BY <2>6 DEF Undo, Holds, StopOutcomes, ContainerBecomes, AfterEnsure
  <2> QED BY <1>3, <2>1, <2>2, <2>3, <2>4, <2>5, <2>6 DEF Ensure
<1>4. ASSUME NEW o \in Ops, IdleCheck(o) PROVE IsolationInv'
  BY <1>4 DEF IdleCheck, IdleDeferred, IdlePreserved, IdleSkipped, IdleStop
<1>5. ASSUME NEW o \in Ops, Takedown(o) PROVE IsolationInv'
  <2>1. CASE StopContainer(o) \/ StopFails(o)
    BY <2>1 DEF StopContainer, StopFails, Holds, ContainerBecomes, AfterStop
  <2>2. CASE RemoveContainer(o) \/ RemoveFails(o)
    BY <2>2 DEF RemoveContainer, RemoveFails, AfterRemove, Holds, AfterStop
  <2>3. CASE ExplicitPurge(o)
    BY <2>3 DEF ExplicitPurge, Holds
  <2> QED BY <1>5, <2>1, <2>2, <2>3 DEF Takedown
<1>6. ASSUME NEW o \in Ops, Purge(o) \/ SweepStatus(o) PROVE IsolationInv'
  BY <1>6 DEF Purge, PurgeSkipped, PurgeDeferred, PurgeWorkspace, WipeWorkspace,
     WorkspaceRemoved, Holds, SweepStatus
<1>7. ASSUME NEW o \in Ops, OrphanCompletes(o) \/ WipesLate(o) PROVE IsolationInv'
  BY <1>7 DEF OrphanCompletes, WipesLate, ContainerBecomes, NoOrphanedRemoval, NoReplacement
<1>8. ASSUME NEW g \in Gateways, StartGateway(g) PROVE IsolationInv'
  BY <1>8 DEF StartGateway
<1>9. ASSUME NEW g \in Gateways, Die(g) PROVE IsolationInv'
  BY <1>9 DEF Die, Hosted
<1>10. CASE ContainerExits
  BY <1>10 DEF ContainerExits, ContainerBecomes
<1>11. CASE UNCHANGED vars
  BY <1>11 DEF vars
<1> QED
  BY <1>1, <1>2, <1>3, <1>4, <1>5, <1>6, <1>7, <1>8, <1>9, <1>10, <1>11 DEF Next, Proceed

\* Whatever the contexts, failures and crashes, a session uses only a container whose
\* labels match its context (validate_labels), unless one gateway was killed while the
\* runtime removes a container for it and another while the runtime creates one, and
\* both commands are still to take effect.
THEOREM ContextIsolationThm == Spec /\ []NoReplacement => []ContextIsolation
<1>1. Init => IsolationInv
  BY TypeInit, OpsAssumption
     DEF Init, IsolationInv, LockDiscipline, OnlyARunningContainerIsUsed, ValidatedStays,
     ContextIsolation
<1>2. IsolationInv => ContextIsolation
  BY DEF IsolationInv
<1> QED BY <1>1, <1>2, IsolationNext, PTL DEF Spec

-----------------------------------------------------------------------------
(* Refinement.  Without operators who stop or remove and containers that    *)
(* exit, a container is closed by whoever holds the lock, after an idle     *)
(* check or an undone start, and its home is wiped after a look at the      *)
(* markers.  Gateways may be killed: their sessions leave together.  What   *)
(* the promise does not survive is a start, a stop or a removal of the      *)
(* workspace that takes effect after its gateway was killed.                *)

NobodyInterferes ==
    /\ SameContext /\ ~Exits
    /\ Kinds \subseteq {"session", "up", "status"}

HomeIsThere ==
    \A o \in Ops : pc[o] \in {"ensure", "starting", "reusing", "undo"} => workspace

\* A late rm finds a container that nobody uses, if it finds one.
OnlyRmComesLate == \A o \in Ops : orphan[o] \in {"none", "rm"}

RefinementInv == UseInv /\ HomeIsThere /\ wiped = {}

LEMMA HomeNext ==
    ASSUME UseInv, HomeIsThere, OnlyRmComesLate, [Next]_vars
    PROVE  HomeIsThere'
<1> USE OpsAssumption DEF UseInv, TypeOK, LockDiscipline, HomeIsThere
<1>1. ASSUME NEW o \in Ops, Begin(o) \/ EndBody(o) \/ DropMarker(o) \/ IdleCheck(o)
      PROVE HomeIsThere'
  <2>1. CASE BeginSession(o) \/ BeginWarmUp(o)
    BY <2>1 DEF BeginSession, BeginWarmUp
  <2>2. CASE AbandonSession(o)
    BY <2>2 DEF AbandonSession
  <2>3. CASE BeginTakedown(o) \/ RefuseTakedown(o) \/ InspectStatus(o)
    BY <2>3 DEF BeginTakedown, RefuseTakedown, InspectStatus
  <2>4. CASE EndBody(o) \/ DropMarker(o)
    BY <2>4 DEF EndBody, DropMarker
  <2>5. CASE IdleCheck(o)
    BY <2>5 DEF IdleCheck, IdleDeferred, IdlePreserved, IdleSkipped, IdleStop
  <2> QED BY <1>1, <2>1, <2>2, <2>3, <2>4, <2>5 DEF Begin
<1>2. ASSUME NEW o \in Ops, Ensure(o) PROVE HomeIsThere'
  BY <1>2 DEF Ensure, Reuse, StartContainer, StartFails, EnsureFails, Ready, ReadyFails,
     EndpointFails, Undo, Holds, AfterEnsure
<1>3. ASSUME NEW o \in Ops, Takedown(o) PROVE HomeIsThere'
  BY <1>3 DEF Takedown, StopContainer, StopFails, RemoveContainer, RemoveFails, AfterRemove,
     AfterStop, ExplicitPurge, Holds
<1>4. ASSUME NEW o \in Ops, Purge(o) \/ SweepStatus(o) PROVE HomeIsThere'
  BY <1>4 DEF Purge, PurgeSkipped, PurgeDeferred, PurgeWorkspace, WipeWorkspace,
     WorkspaceRemoved, Holds, SweepStatus
<1>5. ASSUME NEW o \in Ops, OrphanCompletes(o) \/ WipesLate(o) PROVE HomeIsThere'
  BY <1>5 DEF OrphanCompletes, WipesLate, OnlyRmComesLate
<1>6. ASSUME NEW g \in Gateways, StartGateway(g) \/ Die(g) PROVE HomeIsThere'
  BY <1>6 DEF StartGateway, Die
<1>7. CASE ContainerExits \/ UNCHANGED vars
  BY <1>7 DEF ContainerExits, vars
<1> QED BY <1>1, <1>2, <1>3, <1>4, <1>5, <1>6, <1>7 DEF Next, Proceed

\* Only a late removal takes markers that way.
LEMMA WipedNext ==
    ASSUME OnlyRmComesLate, wiped = {}, [Next]_vars
    PROVE  wiped' = {}
<1>1. ASSUME NEW o \in Ops, Begin(o) \/ EndBody(o) \/ DropMarker(o) \/ IdleCheck(o)
      PROVE  UNCHANGED wiped
  BY <1>1 DEF Begin, BeginSession, AbandonSession, BeginWarmUp, BeginTakedown, RefuseTakedown,
     InspectStatus, EndBody, DropMarker, IdleCheck, IdleDeferred, IdlePreserved, IdleSkipped,
     IdleStop
<1>2. ASSUME NEW o \in Ops, Ensure(o) \/ Takedown(o) \/ Purge(o) \/ SweepStatus(o)
      PROVE  UNCHANGED wiped
  BY <1>2 DEF Ensure, Reuse, StartContainer, StartFails, EnsureFails, Ready, ReadyFails,
     EndpointFails, Undo, Takedown, StopContainer, StopFails, RemoveContainer, RemoveFails,
     ExplicitPurge, Purge, PurgeSkipped, PurgeDeferred, PurgeWorkspace, WipeWorkspace,
     SweepStatus
<1>3. ASSUME NEW o \in Ops, OrphanCompletes(o) PROVE UNCHANGED wiped
  BY <1>3 DEF OrphanCompletes
<1>4. \A o \in Ops : ~WipesLate(o)
  BY DEF WipesLate, OnlyRmComesLate
<1>5. CASE (\E g \in Gateways : StartGateway(g) \/ Die(g)) \/ ContainerExits \/ UNCHANGED vars
  BY <1>5 DEF StartGateway, Die, ContainerExits, vars
<1> QED BY <1>1, <1>2, <1>3, <1>4, <1>5 DEF Next, Proceed

\* Every step of the gateways is a step of ContainerUse, or none of its users' business.
LEMMA StepRefines ==
    ASSUME NobodyInterferes, OnlyRmComesLate, RefinementInv, [Next]_vars
    PROVE  [Use!Next]_(Use!vars)
<1> USE DEF RefinementInv, UseInv, TypeOK, Use!Next, Use!vars
<1>k. \A o \in Ops : kind[o] \notin {"stop", "remove"}
  BY DEF NobodyInterferes
<1>1. ASSUME NEW o \in Ops, Begin(o) PROVE Use!Settle \/ UNCHANGED Use!vars
  BY <1>1 DEF Begin, BeginSession, AbandonSession, BeginWarmUp, BeginTakedown, RefuseTakedown,
     InspectStatus, Use!Settle
<1>2. ASSUME NEW o \in Ops, StartContainer(o) PROVE Use!Open
  BY <1>2 DEF StartContainer, Holds, HomeIsThere, Use!Open
<1>3. ASSUME NEW o \in Ops, Ready(o) PROVE Use!Join(o) \/ UNCHANGED Use!vars
  BY <1>3 DEF Ready, Holds, HomeIsThere, Use!Join
<1>4. ASSUME NEW o \in Ops, Undo(o) PROVE Use!Close \/ UNCHANGED Use!vars
  <2>1. using = {} /\ workspace' = workspace
    BY <1>4 DEF Undo, Holds, TakenDownUnused
  <2>2. UNCHANGED <<container, using>> \/ \E c \in StopOutcomes : ContainerBecomes(c)
    BY <1>4 DEF Undo
  <2>3. using' = {} /\ (container' = "running" => container = "running")
    BY <2>1, <2>2 DEF ContainerBecomes, StopOutcomes
  <2> QED BY <2>1, <2>3 DEF Use!Close
<1>5. ASSUME NEW o \in Ops, DropMarker(o) PROVE Use!Leave
  BY <1>5 DEF DropMarker, Use!Leave
<1>6. ASSUME NEW o \in Ops, StopContainer(o) \/ StopFails(o) PROVE Use!Close \/ UNCHANGED Use!vars
  <2>1. using = {}
    BY <1>6, <1>k DEF StopContainer, StopFails, Holds, TakenDownUnused
  <2> QED BY <1>6, <2>1 DEF StopContainer, StopFails, ContainerBecomes, Use!Close
<1>7. ASSUME NEW o \in Ops, RemoveContainer(o) \/ RemoveFails(o) \/ StartFails(o)
      PROVE  UNCHANGED Use!vars
  BY <1>7 DEF RemoveContainer, RemoveFails, StartFails
<1>8. ASSUME NEW o \in Ops, ExplicitPurge(o) PROVE Use!Wipe \/ UNCHANGED Use!vars
  BY <1>8 DEF ExplicitPurge, WorkspaceRemoved, Holds, TakenDownUnused, Use!Wipe
<1>9. ASSUME NEW o \in Ops, WipeWorkspace(o) PROVE Use!Wipe \/ UNCHANGED Use!vars
  BY <1>9 DEF WipeWorkspace, WorkspaceRemoved, Holds, TakenDownUnused, Use!Wipe
<1>10. ASSUME NEW o \in Ops, OrphanCompletes(o) \/ WipesLate(o) PROVE UNCHANGED Use!vars
  BY <1>10 DEF OrphanCompletes, WipesLate, OnlyRmComesLate
<1>11. ASSUME NEW g \in Gateways, StartGateway(g) \/ Die(g)
       PROVE  Use!Leave \/ UNCHANGED Use!vars
  BY <1>11 DEF StartGateway, Die, Use!Leave
<1>12. ~ContainerExits
  BY DEF ContainerExits, NobodyInterferes
<1>13. ASSUME UNCHANGED <<container, workspace, using>> PROVE UNCHANGED Use!vars
  BY <1>13
<1> HIDE DEF Use!vars, RefinementInv, UseInv, TypeOK
<1> QED
  BY <1>1, <1>2, <1>3, <1>4, <1>5, <1>6, <1>7, <1>8, <1>9, <1>10, <1>11, <1>12, <1>13
     DEF Next, vars, Proceed, Ensure, Takedown, Purge, IdleCheck, EndBody, Reuse,
     EnsureFails, ReadyFails, EndpointFails, PurgeSkipped, PurgeDeferred, PurgeWorkspace,
     SweepStatus, IdleDeferred, IdlePreserved, IdleSkipped, IdleStop

\* The safety part of ImplementsContainerUse, whatever fails and whichever gateway is
\* killed: for sessions, warm-ups and status reads of one context the container stays
\* while it is used, is joined only when it and its home are there, and its home is
\* wiped only when nobody uses it (begin_ready_session, apply_gateway_idle_cleanup,
\* apply_post_session_cleanup), unless a start, a stop or a
\* removal of the workspace outlives its gateway.
THEOREM ContainerUseSafe ==
    ASSUME NobodyInterferes
    PROVE  Spec /\ []OnlyRmComesLate => Use!Init /\ [][Use!Next]_(Use!vars)
<1>1. Init => RefinementInv /\ Use!Init
  BY UseInit DEF Init, RefinementInv, HomeIsThere, Use!Init
<1>2. OnlyRmComesLate /\ RefinementInv /\ [Next]_vars => RefinementInv'
  BY UseNext, HomeNext, WipedNext DEF RefinementInv, NobodyInterferes
<1>3. OnlyRmComesLate /\ RefinementInv /\ [Next]_vars => [Use!Next]_(Use!vars)
  BY StepRefines
<1> QED BY <1>1, <1>2, <1>3, PTL DEF Spec

=============================================================================
