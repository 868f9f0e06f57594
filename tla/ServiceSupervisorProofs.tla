------------------------ MODULE ServiceSupervisorProofs ------------------------
(***************************************************************************)
(* Proofs about ServiceSupervisor for any services, dependencies and       *)
(* policies, and any order of the shutdown that lists each service once    *)
(* and after its dependents.                                               *)
(***************************************************************************)
EXTENDS ServiceSupervisor, TLAPS

-----------------------------------------------------------------------------

LEMMA Places == DOMAIN StopOrder = 1 .. Len(StopOrder) /\ Len(StopOrder) \in Nat
BY StopOrderAssumption

\* A dependency is found healthy, or the pass starts over.
LEMMA CheckDependencyEffect ==
    ASSUME NEW s \in Services, CheckDependency(s)
    PROVE  \/ pc' = pc /\ \E d \in DependsOn[s] : seen' = [seen EXCEPT ![s] = @ \cup {d}]
           \/ pc' = [pc EXCEPT ![s] = "top"] /\ seen' = seen
<1>1. PICK d \in DependsOn[s] : \E healthy \in HealthAnswers(d) :
          IF healthy
          THEN seen' = [seen EXCEPT ![s] = @ \cup {d}] /\ UNCHANGED pc
          ELSE Goto(s, "top") /\ UNCHANGED seen
  BY Zenon DEF CheckDependency
<1> QED BY <1>1, Zenon DEF Goto

\* TypeOK is inductive by itself.
LEMMA TypeInit == Init => TypeOK
BY Places DEF Init, TypeOK, Stages, Processes, Owners

LEMMA TypeNext == TypeOK /\ [Next]_vars => TypeOK'
<1> SUFFICES ASSUME TypeOK, [Next]_vars PROVE TypeOK'
  OBVIOUS
<1> USE DEF TypeOK, Stages, Processes, Owners
<1>1. ASSUME NEW s \in Services, Supervise(s) PROVE TypeOK'
  <2>1. CASE BeginPass(s)
    <3>1. {} \in SUBSET Services
      OBVIOUS
    <3> QED BY <2>1, <3>1 DEF BeginPass, Goto
  <2>2. CASE CheckDependency(s)
    <3>1. \A d \in DependsOn[s] : d \in Services
      BY ConfigAssumption
    <3>2. pc' \in [Services -> Stages] /\ seen' \in [Services -> SUBSET Services]
      BY <2>2, <3>1, CheckDependencyEffect
    <3> QED BY <2>2, <3>2 DEF CheckDependency
  <2>3. CASE StartService(s)
    BY <2>3 DEF StartService, Goto
  <2>4. CASE StartFails(s)
    BY <2>4 DEF StartFails, AfterRun, Goto
  <2>5. CASE ObserveExit(s) \/ BeginProbe(s) \/ ProbeSucceeds(s)
    BY <2>5 DEF ObserveExit, BeginProbe, ProbeSucceeds, AfterRun, Goto
  <2>6. CASE ProbeFails(s) \/ TornDown(s) \/ EndBackoff(s)
    BY <2>6 DEF ProbeFails, TornDown, EndBackoff, AfterRun, Goto
  <2> QED BY <1>1, <2>1, <2>2, <2>3, <2>4, <2>5, <2>6 DEF Supervise
<1>2. ASSUME NEW s \in Services, Exit(s) PROVE TypeOK'
  BY <1>2 DEF Exit
<1>3. CASE BeginStop
  BY <1>3, Places DEF BeginStop
<1>4. ASSUME NEW s \in Services, MarkStopping(s) \/ TakeChild(s) \/ ChildStopped(s)
      PROVE  TypeOK'
  BY <1>4, Places DEF MarkStopping, TakeChild, ChildStopped, AtStopper, NextService
<1>5. CASE UNCHANGED vars
  BY <1>5 DEF vars
<1> QED BY <1>1, <1>2, <1>3, <1>4, <1>5 DEF Next, StopServices

\* The state variables keep their types in every behaviour of the agent.
THEOREM ServiceTypeCorrect == Spec => []TypeOK
BY TypeInit, TypeNext, PTL DEF Spec

-----------------------------------------------------------------------------
(* The handle of a process has one owner, and the stopping flag is set      *)
(* before the stopper looks into the slot.  A supervisor that finds the     *)
(* slot empty therefore either has no process or sees the flag, and one     *)
(* that is late to spawn sees it too: it reads the flag with the slot       *)
(* locked.                                                                  *)

\* The stopper has a handle exactly while it waits for that process, and is at
\* the first step before it is at a service.
StopperHolds ==
    /\ \A s \in Services : owner[s] = "stopper" <=> AtStopper(s) /\ step = "wait"
    /\ stopper = 0 => step = "mark"

\* Of the services the stopper has passed, and the one it is about to empty the
\* slot of, the flag is set.
StopIsMarked ==
    \A s \in Services :
        Stopped(s) \/ (AtStopper(s) /\ step # "mark") => s \in stopping

SlotInv ==
    /\ TypeOK /\ RestartsOnlyTheDead /\ StopperHolds /\ StopIsMarked
    /\ NoServiceOutlivesStop

\* Advancing the stopper adds the service it was at to the stopped ones.
LEMMA OneMoreStopped ==
    ASSUME NEW s \in Services, TypeOK, AtStopper(s), stopper' = stopper + 1
    PROVE  /\ \A x \in Services : Stopped(x)' <=> Stopped(x) \/ x = s
           /\ ~AtStopper(s)'
BY StopOrderAssumption, Places DEF Stopped, AtStopper, TypeOK

\* The service the stopper is at has not been stopped yet.
LEMMA NotYetStopped ==
    ASSUME NEW s \in Services, TypeOK, AtStopper(s)
    PROVE  ~Stopped(s) /\ stopper # 0 /\ \A x \in Services : AtStopper(x) => x = s
BY StopOrderAssumption, Places DEF Stopped, AtStopper, TypeOK

\* Where the stopper stays, so do the services it has passed.
LEMMA SamePlace ==
    ASSUME stopper' = stopper
    PROVE  \A x \in Services : (Stopped(x)' <=> Stopped(x)) /\ (AtStopper(x)' <=> AtStopper(x))
BY DEF Stopped, AtStopper

LEMMA SlotInit == Init => SlotInv
<1> SUFFICES ASSUME Init PROVE SlotInv
  OBVIOUS
<1>1. TypeOK
  BY TypeInit
<1>2. stopper = 0 /\ \A i \in DOMAIN StopOrder : ~(i < stopper) /\ i # stopper
  BY Places DEF Init
<1>3. \A s \in Services : ~AtStopper(s) /\ ~Stopped(s)
  BY <1>2 DEF AtStopper, Stopped
<1> QED
  BY <1>1, <1>3 DEF Init, SlotInv, RestartsOnlyTheDead, StopperHolds, StopIsMarked,
     NoServiceOutlivesStop

\* A step of a supervisor, or of a process, at most empties its own slot.
LEMMA SuperviseKeeps ==
    ASSUME NEW s \in Services, SlotInv, TypeOK', Supervise(s)
    PROVE  SlotInv'
<1> USE DEF SlotInv, Stages, Processes, Owners, Goto, AfterRun
<1>0. stopper' = stopper /\ stopping' = stopping /\ step' = step
  BY DEF Supervise, BeginPass, CheckDependency, StartService, StartFails, ObserveExit, BeginProbe,
     ProbeSucceeds, ProbeFails, TornDown, EndBackoff
<1>1. StopIsMarked'
  BY <1>0, SamePlace DEF StopIsMarked
<1>2. ASSUME proc' = proc, owner' = owner, pc[s] # "tearing",
             \E stage \in Stages \ {"tearing"} :
                /\ pc' = [pc EXCEPT ![s] = stage]
                /\ stage \in {"top", "gate", "backoff"} => proc[s] = "none"
      PROVE  SlotInv'
  BY <1>0, <1>1, <1>2, SamePlace
     DEF TypeOK, RestartsOnlyTheDead, StopperHolds, NoServiceOutlivesStop, BeingTornDown
<1>3. CASE BeginPass(s) \/ CheckDependency(s) \/ StartFails(s) \/ BeginProbe(s)
           \/ ProbeSucceeds(s) \/ EndBackoff(s)
  <2>1. CASE BeginPass(s) \/ CheckDependency(s) \/ StartFails(s)
    <3>1. pc[s] \in {"top", "gate"} /\ proc[s] = "none"
      BY <2>1 DEF BeginPass, CheckDependency, StartFails, RestartsOnlyTheDead
    <3>2. \E stage \in Stages \ {"tearing"} : pc' = [pc EXCEPT ![s] = stage]
      <4>1. CASE CheckDependency(s)
        <5>1. pc = [pc EXCEPT ![s] = "gate"]
          BY <4>1 DEF CheckDependency, TypeOK
        <5> QED BY <4>1, <5>1, CheckDependencyEffect
      <4> QED BY <2>1, <4>1 DEF BeginPass, StartFails
    <3>3. proc' = proc /\ owner' = owner
      BY <2>1 DEF BeginPass, CheckDependency, StartFails
    <3> QED BY <1>2, <3>1, <3>2, <3>3
  <2>2. CASE BeginProbe(s) \/ ProbeSucceeds(s) \/ EndBackoff(s)
    BY <1>2, <2>2 DEF BeginProbe, ProbeSucceeds, EndBackoff, RestartsOnlyTheDead
  <2> QED BY <1>3, <2>1, <2>2
<1>4. CASE StartService(s)
  BY <1>0, <1>1, <1>4, SamePlace DEF StartService, TypeOK, RestartsOnlyTheDead, StopperHolds,
     StopIsMarked, NoServiceOutlivesStop, BeingTornDown
<1>5. ASSUME pc[s] \in {"watching", "probing"}, ~InSlot(s), proc' = proc, owner' = owner,
             pc' = [pc EXCEPT ![s] = IF s \in stopping THEN "gone" ELSE "backoff"]
                \/ pc' = [pc EXCEPT ![s] = "gone"]
      PROVE  SlotInv'
  <2>1. s \notin stopping => proc[s] = "none"
    BY <1>5 DEF InSlot, RestartsOnlyTheDead, StopperHolds, StopIsMarked, TypeOK
  <2> QED BY <1>2, <1>5, <2>1
<1>6. CASE ObserveExit(s)
  <2>1. CASE ~InSlot(s)
    BY <1>5, <1>6, <2>1 DEF ObserveExit
  <2>2. CASE InSlot(s)
    BY <1>0, <1>1, <1>6, <2>2, SamePlace DEF ObserveExit, InSlot, TypeOK, RestartsOnlyTheDead,
       StopperHolds, NoServiceOutlivesStop, BeingTornDown
  <2> QED BY <2>1, <2>2
<1>7. CASE ProbeFails(s)
  <2>1. CASE ~InSlot(s)
    BY <1>5, <1>7, <2>1 DEF ProbeFails
  <2>2. CASE InSlot(s)
    BY <1>0, <1>1, <1>7, <2>2, SamePlace DEF ProbeFails, InSlot, TypeOK, RestartsOnlyTheDead,
       StopperHolds, NoServiceOutlivesStop, BeingTornDown
  <2> QED BY <2>1, <2>2
<1>8. CASE TornDown(s)
  BY <1>0, <1>1, <1>8, SamePlace DEF TornDown, TypeOK, RestartsOnlyTheDead, StopperHolds,
     NoServiceOutlivesStop, BeingTornDown
<1> QED BY <1>3, <1>4, <1>6, <1>7, <1>8 DEF Supervise

\* The stopper advances only past a service without a process, or one its
\* supervisor is tearing down.
LEMMA StopKeeps ==
    ASSUME NEW s \in Services, SlotInv, TypeOK',
           MarkStopping(s) \/ TakeChild(s) \/ ChildStopped(s)
    PROVE  SlotInv'
<1> USE DEF SlotInv
<1>1. CASE MarkStopping(s)
  BY <1>1, SamePlace, NotYetStopped DEF MarkStopping, TypeOK, RestartsOnlyTheDead, StopperHolds,
     StopIsMarked, NoServiceOutlivesStop, BeingTornDown
<1>2. CASE TakeChild(s) /\ InSlot(s)
  BY <1>2, SamePlace, NotYetStopped DEF TakeChild, InSlot, TypeOK, RestartsOnlyTheDead,
     StopperHolds, StopIsMarked, NoServiceOutlivesStop, BeingTornDown
<1>3. CASE TakeChild(s) /\ ~InSlot(s)
  <2>1. proc[s] = "none" \/ BeingTornDown(s)
    BY <1>3 DEF TakeChild, InSlot, TypeOK, Owners, RestartsOnlyTheDead, StopperHolds,
       BeingTornDown
  <2> QED
    BY <1>3, <2>1, OneMoreStopped, NotYetStopped DEF TakeChild, NextService, TypeOK,
       RestartsOnlyTheDead, StopperHolds, StopIsMarked, NoServiceOutlivesStop, BeingTornDown
<1>4. CASE ChildStopped(s)
  BY <1>4, OneMoreStopped, NotYetStopped DEF ChildStopped, NextService, TypeOK,
     RestartsOnlyTheDead, StopperHolds, StopIsMarked, NoServiceOutlivesStop, BeingTornDown
<1> QED BY <1>1, <1>2, <1>3, <1>4

LEMMA SlotNext == SlotInv /\ [Next]_vars => SlotInv'
<1> SUFFICES ASSUME SlotInv, [Next]_vars PROVE SlotInv'
  OBVIOUS
<1>0. TypeOK'
  BY TypeNext DEF SlotInv
<1>1. ASSUME NEW s \in Services, Supervise(s) PROVE SlotInv'
  BY <1>0, <1>1, SuperviseKeeps
<1>2. ASSUME NEW s \in Services, Exit(s) PROVE SlotInv'
  BY <1>0, <1>2, SamePlace DEF Exit, SlotInv, TypeOK, RestartsOnlyTheDead, StopperHolds,
     StopIsMarked, NoServiceOutlivesStop, BeingTornDown
<1>3. CASE BeginStop
  <2>1. \A s \in Services : ~Stopped(s)'
    BY <1>3, Places DEF BeginStop, Stopped
  <2> QED
    BY <1>0, <1>3, <2>1, Places DEF BeginStop, SlotInv, TypeOK, RestartsOnlyTheDead, StopperHolds,
       StopIsMarked, NoServiceOutlivesStop, BeingTornDown, AtStopper
<1>4. CASE StopServices
  BY <1>0, <1>4, StopKeeps DEF StopServices
<1>5. CASE UNCHANGED vars
  BY <1>0, <1>5, SamePlace DEF vars, SlotInv, RestartsOnlyTheDead, StopperHolds, StopIsMarked,
     NoServiceOutlivesStop, BeingTornDown
<1> QED BY <1>1, <1>2, <1>3, <1>4, <1>5 DEF Next

\* A service that stop() has returned for never runs again.
THEOREM NoServiceOutlivesStopThm == Spec => []NoServiceOutlivesStop
<1>1. SlotInv => NoServiceOutlivesStop
  BY DEF SlotInv
<1> QED BY <1>1, SlotInit, SlotNext, PTL DEF Spec

\* A restart never finds an old process of its service.
THEOREM RestartsOnlyTheDeadThm == Spec => []RestartsOnlyTheDead
<1>1. SlotInv => RestartsOnlyTheDead
  BY DEF SlotInv
<1> QED BY <1>1, SlotInit, SlotNext, PTL DEF Spec

\* No running service loses its dependency to a shutdown.
THEOREM DependentsStopFirstThm == Spec => []DependentsStopFirst
<1>1. SlotInv => DependentsStopFirst
  <2> SUFFICES ASSUME SlotInv, NEW d \in Services, owner[d] = "stopper",
                      NEW s \in Dependents(d)
               PROVE  proc[s] = "none" \/ BeingTornDown(s)
    BY DEF DependentsStopFirst
  <2>1. s \in Services /\ d \in DependsOn[s]
    BY DEF Dependents
  <2>2. AtStopper(d)
    BY DEF SlotInv, StopperHolds
  <2>3. Stopped(s)
    BY <2>1, <2>2, StopOrderAssumption DEF Stopped, AtStopper
  <2> QED BY <2>1, <2>3 DEF SlotInv, NoServiceOutlivesStop
<1> QED BY <1>1, SlotInit, SlotNext, PTL DEF Spec

=============================================================================
