-------------------------- MODULE SshEndpointProofs --------------------------
(***************************************************************************)
(* Proofs about SshEndpoint: AnswersAreRight and ListenerIsKnown, for any  *)
(* gateways, ports, configured ports and number of attempts.               *)
(***************************************************************************)
EXTENDS SshEndpoint, TLAPS

-----------------------------------------------------------------------------
(* The inductive invariant.                                                *)

Holding == {"creating", "reserved", "released", "ran", "failed", "removing", "removed",
            "binding"}

HolderTypes ==
    /\ apple \in BOOLEAN /\ direct \in BOOLEAN
    /\ lock \in Gateways \cup {None}
    /\ pc \in [Gateways -> Step]
    /\ cfg \in [Gateways -> Configured]
    /\ attempt \in [Gateways -> 0 .. Attempts]
    /\ chosen \in [Gateways -> Ports \cup {0}]

RecordTypes ==
    /\ container \in [state : {"none", "running", "stopped"}, port : Ports \cup {0}]
    /\ others \subseteq Ports /\ late \subseteq LateCommands
    /\ portFile \in Ports \cup {0} /\ pendingFile \in Ports \cup {0}
    /\ endpointFile \in [port : Ports \cup {0}, configured : Configured]
    /\ stale \in BOOLEAN

AskedTypes ==
    /\ found \in [Gateways -> {"none", "running", "stopped"}]
    /\ seen \in [Gateways -> SUBSET Ports]
    /\ wrong \in BOOLEAN

ListenerTypes ==
    /\ listener \subseteq Gateways
    /\ status \in Gateways \cup {"dead", None}
    /\ swept \subseteq Gateways

\* Records are made and removed by the holder of the lock; a container comes and
\* goes without it, when a command of a killed gateway comes late.
LockInv == \A g \in Gateways : pc[g] \in Holding => lock = g

\* What the holder knows of the container and, on Apple, of the pending record.
StageInv ==
    /\ container.state = "none" => container.port = 0
    /\ container.state # "none" => container.port \in Ports
    /\ \A g \in Gateways :
         /\ pc[g] \in {"reserved", "released", "ran"} =>
              chosen[g] \in Ports /\ (apple => pendingFile = chosen[g])
         /\ pc[g] = "ran" /\ apple /\ ~stale =>
              container.state # "none" /\ container.port = chosen[g]

\* A record p is of the container there is, or of one that is being removed.
OfContainer(p) == container.state # "none" /\ p = container.port
BeingRemoved == container.state = "none" /\ \E g \in Gateways : pc[g] = "removed"

FilesInv ==
    ~stale => /\ portFile # 0 => OfContainer(portFile) \/ BeingRemoved
              /\ endpointFile.port # 0 => OfContainer(endpointFile.port) \/ BeingRemoved

\* Who asked and found a container has seen it, any that was there since, and the
\* one that the records are of.
SeenInv ==
    \A g \in Gateways : pc[g] = "asked" /\ found[g] # "none" =>
        /\ container.state # "none" => container.port \in seen[g]
        /\ ~stale => /\ portFile # 0 => portFile \in seen[g]
                     /\ endpointFile.port # 0 => endpointFile.port \in seen[g]

\* While a gateway binds its listener there is none that could be found, and no
\* record of one.
BindInv ==
    \A g \in Gateways : pc[g] = "binding" => listener \subseteq swept /\ status \notin Gateways

Types == HolderTypes /\ RecordTypes /\ AskedTypes /\ ListenerTypes

EndpointInv ==
    /\ Types /\ LockInv /\ StageInv /\ FilesInv /\ SeenInv /\ BindInv
    /\ ~wrong /\ ListenerIsKnown

-----------------------------------------------------------------------------

\* The status file and the listeners are left alone, and nobody begins to bind.
LEMMA ListenerFrame ==
    ASSUME EndpointInv, UNCHANGED listening,
           \A h \in Gateways : pc'[h] = "binding" => pc[h] = "binding"
    PROVE  ListenerTypes' /\ BindInv' /\ ListenerIsKnown'
BY DEF EndpointInv, Types, ListenerTypes, BindInv, ListenerIsKnown, listening

\* The container and its files are left alone, nobody asks, and no holder of the
\* lock goes on but to where less is known.
LEMMA RecordFrame ==
    ASSUME EndpointInv, UNCHANGED <<apple, target, seen, found, others, late>>,
           \A h \in Gateways : pc'[h] \in {"reserved", "released", "ran"} => chosen'[h] = chosen[h],
           \A h \in Gateways : pc'[h] = pc[h] \/ pc'[h] \in {"idle", "answered", "binding", "sweeping"},
           \A h \in Gateways : pc[h] = "removed" => pc'[h] = "removed"
    PROVE  RecordTypes' /\ StageInv' /\ FilesInv' /\ SeenInv'
<1> USE DEF EndpointInv, Types, target
<1>1. RecordTypes'
  BY DEF RecordTypes
<1>2. StageInv'
  BY DEF StageInv
<1>3. FilesInv'
  BY DEF FilesInv, OfContainer, BeingRemoved
<1>4. SeenInv'
  BY DEF SeenInv
<1> QED BY <1>1, <1>2, <1>3, <1>4

LEMMA EndpointInit == Init => EndpointInv
<1> SUFFICES ASSUME Init PROVE EndpointInv
  OBVIOUS
<1> USE EndpointAssumption DEF Init, Gone, NoEndpoint
<1>1. Types
  <2>1. HolderTypes
    BY DEF HolderTypes, Step
  <2>2. RecordTypes
    BY DEF RecordTypes
  <2>3. AskedTypes
    BY DEF AskedTypes
  <2>4. ListenerTypes
    BY DEF ListenerTypes
  <2> QED BY <2>1, <2>2, <2>3, <2>4 DEF Types
<1>2. LockInv /\ StageInv /\ FilesInv /\ SeenInv
  BY DEF LockInv, StageInv, FilesInv, SeenInv, Holding
<1>3. BindInv /\ ~wrong /\ ListenerIsKnown
  BY DEF BindInv, ListenerIsKnown
<1> QED BY <1>1, <1>2, <1>3 DEF EndpointInv

-----------------------------------------------------------------------------
(* Starting.                                                               *)

LEMMA BeginCreateKeeps ==
    ASSUME EndpointInv, NEW g \in Gateways, BeginCreate(g) PROVE EndpointInv'
<1> USE EndpointAssumption DEF BeginCreate, Goes, EndpointInv, Types, fixed, asked, target
<1>1. ListenerTypes' /\ BindInv' /\ ListenerIsKnown'
  BY ListenerFrame DEF HolderTypes
<1>2. HolderTypes' /\ AskedTypes' /\ RecordTypes' /\ ~wrong'
  BY DEF HolderTypes, AskedTypes, RecordTypes, Step, Loads
<1>3. LockInv'
  BY DEF LockInv, HolderTypes, Holding
<1>4. StageInv'
  BY DEF StageInv, HolderTypes
<1>5. FilesInv' /\ SeenInv'
  BY DEF FilesInv, SeenInv, OfContainer, BeingRemoved, HolderTypes
<1> QED BY <1>1, <1>2, <1>3, <1>4, <1>5

LEMMA ReserveKeeps ==
    ASSUME EndpointInv, NEW g \in Gateways, Reserve(g) PROVE EndpointInv'
<1> USE EndpointAssumption DEF Reserve, Goes, EndpointInv, Types, fixed, asked
<1>1. ListenerTypes' /\ BindInv' /\ ListenerIsKnown'
  BY ListenerFrame DEF HolderTypes
<1>2. HolderTypes' /\ AskedTypes' /\ RecordTypes' /\ ~wrong'
  BY DEF HolderTypes, AskedTypes, RecordTypes, Step
<1>3. LockInv'
  BY DEF LockInv, HolderTypes, Holding
<1>4. StageInv'
  BY DEF StageInv, HolderTypes, LockInv, Holding
<1>5. FilesInv' /\ SeenInv'
  BY DEF FilesInv, SeenInv, OfContainer, BeingRemoved, HolderTypes
<1> QED BY <1>1, <1>2, <1>3, <1>4, <1>5

LEMMA ReleaseKeeps ==
    ASSUME EndpointInv, NEW g \in Gateways, Release(g) PROVE EndpointInv'
<1> USE EndpointAssumption DEF Release, Goes, EndpointInv, Types, fixed, asked, target
<1>1. ListenerTypes' /\ BindInv' /\ ListenerIsKnown'
  BY ListenerFrame DEF HolderTypes
<1>2. HolderTypes' /\ AskedTypes' /\ RecordTypes' /\ ~wrong'
  BY DEF HolderTypes, AskedTypes, RecordTypes, Step
<1>3. LockInv'
  BY DEF LockInv, HolderTypes, Holding
<1>4. StageInv'
  BY DEF StageInv, HolderTypes
<1>5. FilesInv' /\ SeenInv'
  BY DEF FilesInv, SeenInv, OfContainer, BeingRemoved, HolderTypes
<1> QED BY <1>1, <1>2, <1>3, <1>4, <1>5

\* The container is made where there was none, with the port that was chosen.
LEMMA RunKeeps ==
    ASSUME EndpointInv, NEW g \in Gateways, Run(g) PROVE EndpointInv'
<1> USE EndpointAssumption DEF EndpointInv, Types
<1>1. /\ pc[g] = "released" /\ lock' = lock
      /\ \E to \in {"ran", "creating", "failed"} : pc' = [pc EXCEPT ![g] = to]
      /\ UNCHANGED <<apple, direct, cfg, chosen, others, late, found, wrong, portFile, endpointFile,
                     stale, listening>>
  BY DEF Run, Goes, fixed, asked
<1>2. lock = g /\ chosen[g] \in Ports /\ \A h \in Gateways : h # g => pc[h] \notin Holding
  BY <1>1 DEF LockInv, StageInv, Holding
<1>3. /\ \/ container' = container
         \/ /\ container.state = "none"
            /\ container' \in [state : {"running", "stopped"}, port : {chosen[g]}]
      /\ pc'[g] = "ran" => container' = [state |-> "running", port |-> chosen[g]]
      /\ attempt' \in [Gateways -> 0 .. Attempts]
      /\ pendingFile' \in {pendingFile, 0}
      /\ pc'[g] = "ran" => pendingFile' = pendingFile
  BY <1>1, <1>2 DEF Run, Goes, HolderTypes, MayRetry, RecordTypes
<1>4. \A h \in Gateways : /\ seen'[h] \in SUBSET Ports /\ seen[h] \subseteq seen'[h]
                          /\ pc[h] = "asked" /\ container' # container => chosen[g] \in seen'[h]
  BY <1>1, <1>2 DEF Run, Seen, AskedTypes
<1>5. ListenerTypes' /\ BindInv' /\ ListenerIsKnown'
  BY <1>1, ListenerFrame DEF HolderTypes
<1>6. HolderTypes'
  BY <1>1, <1>3 DEF HolderTypes, Step
<1>7. RecordTypes'
  BY <1>1, <1>2, <1>3 DEF RecordTypes
<1>8. AskedTypes' /\ ~wrong'
  BY <1>1, <1>2 DEF AskedTypes, Run, Seen
<1>9. LockInv'
  BY <1>1, <1>2 DEF LockInv, HolderTypes, Holding
<1>10. StageInv'
  BY <1>1, <1>2, <1>3 DEF StageInv, HolderTypes, LockInv, Holding
<1>11. FilesInv'
  BY <1>1, <1>2, <1>3 DEF FilesInv, OfContainer, BeingRemoved, HolderTypes, LockInv, Holding
<1>12. SeenInv'
  BY <1>1, <1>2, <1>3, <1>4 DEF SeenInv, HolderTypes
<1> QED BY <1>5, <1>6, <1>7, <1>8, <1>9, <1>10, <1>11, <1>12

\* The pending record is the container's when it becomes the record.
LEMMA PromoteKeeps ==
    ASSUME EndpointInv, NEW g \in Gateways, Promote(g) \/ Unready(g) PROVE EndpointInv'
<1> USE EndpointAssumption DEF EndpointInv, Types
<1>1. /\ pc[g] = "ran"
      /\ \/ pc' = [pc EXCEPT ![g] = "idle"] /\ lock' = None
         \/ pc' = [pc EXCEPT ![g] = "failed"] /\ lock' = lock
      /\ portFile' = (IF apple THEN pendingFile ELSE portFile)
      /\ pendingFile' = (IF apple THEN 0 ELSE pendingFile)
      /\ UNCHANGED <<apple, direct, others, late, seen, found, wrong, container, endpointFile, stale, listening>>
  <2> HIDE DEF EndpointInv, Types
  <2>1. CASE Promote(g)
    BY <2>1, Zenon DEF Promote, Settled, Goes, fixed, asked
  <2>2. CASE Unready(g)
    BY <2>2, Zenon DEF Unready, Goes, fixed, asked
  <2> QED BY <2>1, <2>2
<1>2. /\ lock = g
      /\ apple /\ ~stale => container.state # "none" /\ pendingFile = container.port
  BY <1>1 DEF LockInv, StageInv, Holding
<1>3. \A h \in Gateways : h # g => chosen'[h] = chosen[h]
  BY DEF Promote, Unready, Settled, HolderTypes
<1>4. ListenerTypes' /\ BindInv' /\ ListenerIsKnown'
  BY <1>1, ListenerFrame DEF HolderTypes
<1>5. HolderTypes'
  BY <1>1 DEF HolderTypes, Step, Promote, Unready, Settled, Forgets
<1>6. RecordTypes' /\ AskedTypes' /\ ~wrong'
  BY <1>1 DEF RecordTypes, AskedTypes
<1>7. LockInv'
  BY <1>1, <1>2 DEF LockInv, HolderTypes, Holding
<1>8. StageInv'
  BY <1>1, <1>2, <1>3 DEF StageInv, HolderTypes, LockInv, Holding
<1>9. FilesInv'
  BY <1>1, <1>2 DEF FilesInv, OfContainer, BeingRemoved, HolderTypes
<1>10. SeenInv'
  BY <1>1, <1>2 DEF SeenInv, HolderTypes
<1> QED BY <1>4, <1>5, <1>6, <1>7, <1>8, <1>9, <1>10

LEMMA CleanupFailedStartKeeps ==
    ASSUME EndpointInv, NEW g \in Gateways, CleanupFailedStart(g) PROVE EndpointInv'
<1> USE EndpointAssumption DEF EndpointInv, Types
<1>1. /\ pc[g] = "failed" /\ pc' = [pc EXCEPT ![g] = "idle"] /\ lock' = None
      /\ \A h \in Gateways : h # g => chosen'[h] = chosen[h]
      /\ UNCHANGED <<apple, direct, others, late, seen, found, wrong, listening>>
  BY DEF CleanupFailedStart, Settled, Goes, fixed, asked, HolderTypes
<1>2. lock = g /\ \A h \in Gateways : h # g => pc[h] \notin Holding
  BY <1>1 DEF LockInv, Holding
<1>3. \/ /\ container' = Gone
         /\ portFile' = 0 /\ pendingFile' = 0 /\ endpointFile' = NoEndpoint /\ stale' = FALSE
      \/ /\ container.state # "none" /\ container'.state \in {"running", "stopped"}
         /\ container' \in [state : {"running", "stopped"}, port : {container.port}]
         /\ pendingFile' \in {0, pendingFile}
         /\ portFile' = portFile /\ endpointFile' = endpointFile /\ stale' = stale
  BY DEF CleanupFailedStart, NoFiles, RecordTypes
<1>4. ListenerTypes' /\ BindInv' /\ ListenerIsKnown'
  BY <1>1, ListenerFrame DEF HolderTypes
<1>5. HolderTypes'
  BY <1>1 DEF HolderTypes, Step, CleanupFailedStart, Settled, Forgets
<1>6. AskedTypes' /\ ~wrong'
  BY <1>1 DEF AskedTypes
<1>7. LockInv'
  BY <1>1, <1>2 DEF LockInv, HolderTypes, Holding
<1>8. RecordTypes' /\ StageInv' /\ FilesInv' /\ SeenInv'
  <2>1. CASE container' = Gone /\ portFile' = 0 /\ pendingFile' = 0 /\ endpointFile' = NoEndpoint
             /\ stale' = FALSE
    <3>1. RecordTypes'
      BY <1>1, <2>1 DEF RecordTypes, Gone, NoEndpoint
    <3>2. StageInv' /\ FilesInv' /\ SeenInv'
      BY <1>1, <1>2, <2>1 DEF StageInv, FilesInv, SeenInv, Gone, NoEndpoint, HolderTypes, Holding
    <3> QED BY <3>1, <3>2
  <2>2. CASE /\ container.state # "none" /\ container'.state \in {"running", "stopped"}
             /\ container' \in [state : {"running", "stopped"}, port : {container.port}]
             /\ pendingFile' \in {0, pendingFile}
             /\ portFile' = portFile /\ endpointFile' = endpointFile /\ stale' = stale
    <3>1. RecordTypes'
      BY <1>1, <2>2 DEF RecordTypes
    <3>2. StageInv'
      BY <1>1, <1>2, <2>2 DEF StageInv, HolderTypes, Holding
    <3>3. FilesInv'
      BY <1>1, <1>2, <2>2 DEF FilesInv, OfContainer, BeingRemoved, HolderTypes, Holding
    <3>4. SeenInv'
      BY <1>1, <2>2 DEF SeenInv, HolderTypes
    <3> QED BY <3>1, <3>2, <3>3, <3>4
  <2> QED BY <1>3, <2>1, <2>2
<1> QED BY <1>4, <1>5, <1>6, <1>7, <1>8

\* A stop and a restart leave the container's port as it was.
LEMMA RestartStopKeeps ==
    ASSUME EndpointInv, NEW g \in Gateways, Restart(g) \/ Stop(g) PROVE EndpointInv'
<1> USE EndpointAssumption DEF EndpointInv, Types
<1>1. /\ container.state # "none"
      /\ container' \in [state : {"running", "stopped"}, port : {container.port}]
      /\ UNCHANGED <<apple, direct, lock, pc, cfg, attempt, chosen, others, late, seen, found, wrong, portFile,
                     pendingFile, endpointFile, stale, listening>>
  BY DEF Restart, Stop, fixed, asked, RecordTypes
<1>2. container'.port = container.port /\ container'.state # "none"
  BY <1>1
<1>3. ListenerTypes' /\ BindInv' /\ ListenerIsKnown'
  BY <1>1, ListenerFrame
<1>4. HolderTypes' /\ AskedTypes' /\ ~wrong' /\ LockInv'
  BY <1>1 DEF HolderTypes, AskedTypes, LockInv
<1>5. RecordTypes'
  BY <1>1 DEF RecordTypes
<1>6. StageInv'
  BY <1>1, <1>2 DEF StageInv
<1>7. FilesInv' /\ SeenInv'
  BY <1>1, <1>2 DEF FilesInv, SeenInv, OfContainer, BeingRemoved
<1> QED BY <1>3, <1>4, <1>5, <1>6, <1>7

\* A removal begins, or ends with an error, and leaves all as it was.
LEMMA BeginRemoveKeeps ==
    ASSUME EndpointInv, NEW g \in Gateways, BeginRemove(g) PROVE EndpointInv'
<1> USE EndpointAssumption DEF BeginRemove, Goes, EndpointInv, Types, fixed, asked
<1>1. ListenerTypes' /\ BindInv' /\ ListenerIsKnown'
  BY ListenerFrame DEF HolderTypes
<1>2. HolderTypes' /\ AskedTypes' /\ ~wrong'
  BY DEF HolderTypes, AskedTypes, Step
<1>3. LockInv'
  BY DEF LockInv, HolderTypes, Holding
<1>4. RecordTypes' /\ StageInv' /\ FilesInv' /\ SeenInv'
  BY DEF RecordTypes, StageInv, FilesInv, SeenInv, OfContainer, BeingRemoved, HolderTypes, target
<1> QED BY <1>1, <1>2, <1>3, <1>4

LEMMA RemoveFailsKeeps ==
    ASSUME EndpointInv, NEW g \in Gateways, RemoveFails(g) PROVE EndpointInv'
<1> USE EndpointAssumption DEF RemoveFails, Settled, Forgets, Goes, EndpointInv, Types, fixed, asked
<1>1. ListenerTypes' /\ BindInv' /\ ListenerIsKnown'
  BY ListenerFrame DEF HolderTypes
<1>2. HolderTypes' /\ AskedTypes' /\ ~wrong'
  BY DEF HolderTypes, AskedTypes, Step
<1>3. LockInv'
  BY DEF LockInv, HolderTypes, Holding
<1>4. RecordTypes' /\ StageInv' /\ FilesInv' /\ SeenInv'
  BY DEF RecordTypes, StageInv, FilesInv, SeenInv, OfContainer, BeingRemoved, HolderTypes, target
<1> QED BY <1>1, <1>2, <1>3, <1>4

LEMMA RemoveKeeps ==
    ASSUME EndpointInv, NEW g \in Gateways, Remove(g) PROVE EndpointInv'
<1> USE EndpointAssumption DEF EndpointInv, Types
<1>1. /\ pc[g] = "removing" /\ pc' = [pc EXCEPT ![g] = "removed"]
      /\ container' = [state |-> "none", port |-> 0]
      /\ UNCHANGED <<apple, direct, lock, cfg, attempt, chosen, others, late, seen, found, wrong,
                     portFile, pendingFile, endpointFile, stale, listening>>
  BY DEF Remove, Goes, Gone, fixed, asked
<1>2. lock = g /\ \A h \in Gateways : h # g => pc[h] \notin Holding
  BY <1>1 DEF LockInv, Holding
<1>3. ListenerTypes' /\ BindInv' /\ ListenerIsKnown'
  BY <1>1, ListenerFrame DEF HolderTypes
<1>4. HolderTypes' /\ AskedTypes' /\ ~wrong'
  BY <1>1 DEF HolderTypes, AskedTypes, Step
<1>5. LockInv'
  BY <1>1, <1>2 DEF HolderTypes, LockInv, Holding
<1>6. RecordTypes'
  BY <1>1 DEF RecordTypes
<1>7. StageInv'
  BY <1>1, <1>2 DEF StageInv, Holding, HolderTypes
<1>8. FilesInv' /\ SeenInv'
  BY <1>1 DEF FilesInv, SeenInv, BeingRemoved, HolderTypes
<1> QED BY <1>3, <1>4, <1>5, <1>6, <1>7, <1>8

LEMMA CleanupFilesKeeps ==
    ASSUME EndpointInv, NEW g \in Gateways, CleanupFiles(g) PROVE EndpointInv'
<1> USE EndpointAssumption DEF EndpointInv, Types
<1>1. /\ pc[g] = "removed" /\ pc' = [pc EXCEPT ![g] = "idle"] /\ lock' = None
      /\ \A h \in Gateways : h # g => chosen'[h] = chosen[h]
      /\ portFile' = 0 /\ pendingFile' = 0 /\ endpointFile' = NoEndpoint /\ stale' = FALSE
      /\ UNCHANGED <<apple, direct, others, late, seen, found, wrong, container, listening>>
  BY DEF CleanupFiles, NoFiles, Settled, Goes, fixed, asked, HolderTypes
<1>2. lock = g /\ \A h \in Gateways : h # g => pc[h] \notin Holding
  BY <1>1 DEF LockInv, Holding
<1>3. ListenerTypes' /\ BindInv' /\ ListenerIsKnown'
  BY <1>1, ListenerFrame DEF HolderTypes
<1>4. HolderTypes'
  BY <1>1 DEF HolderTypes, Step, CleanupFiles, Settled, Forgets
<1>5. AskedTypes' /\ ~wrong'
  BY <1>1 DEF AskedTypes
<1>6. LockInv'
  BY <1>1, <1>2 DEF HolderTypes, LockInv, Holding
<1>7. RecordTypes'
  BY <1>1 DEF RecordTypes, NoEndpoint
<1>8. StageInv'
  BY <1>1, <1>2 DEF StageInv, Holding, HolderTypes
<1>9. FilesInv' /\ SeenInv'
  BY <1>1 DEF FilesInv, SeenInv, NoEndpoint, HolderTypes
<1> QED BY <1>3, <1>4, <1>5, <1>6, <1>7, <1>8, <1>9

-----------------------------------------------------------------------------
(* Asking.                                                                 *)

LEMMA AskKeeps ==
    ASSUME EndpointInv, NEW g \in Gateways, Ask(g) PROVE EndpointInv'
<1> USE EndpointAssumption DEF EndpointInv, Types
<1>1. /\ pc[g] = "idle" /\ pc' = [pc EXCEPT ![g] = "asked"]
      /\ found' = [found EXCEPT ![g] = container.state]
      /\ seen' = [seen EXCEPT ![g] = IF container.state = "none" THEN {} ELSE {container.port}]
      /\ UNCHANGED <<apple, direct, lock, attempt, chosen, others, late, wrong, container, portFile,
                     pendingFile, endpointFile, stale, listening>>
  BY DEF Ask, Goes, fixed, target
<1>2. ListenerTypes' /\ BindInv' /\ ListenerIsKnown'
  BY <1>1, ListenerFrame DEF HolderTypes
<1>3. HolderTypes'
  BY <1>1 DEF HolderTypes, Step, Ask, Loads
<1>4. AskedTypes' /\ ~wrong'
  <2>1. found' \in [Gateways -> {"none", "running", "stopped"}]
    BY <1>1 DEF AskedTypes, RecordTypes
  <2>2. container.state # "none" => container.port \in Ports
    BY DEF StageInv
  <2> QED BY <1>1, <2>1, <2>2 DEF AskedTypes
<1>5. LockInv'
  BY <1>1 DEF LockInv, HolderTypes, Holding
<1>6. RecordTypes'
  BY <1>1 DEF RecordTypes
<1>7. StageInv'
  BY <1>1 DEF StageInv, HolderTypes
<1>8. FilesInv'
  BY <1>1 DEF FilesInv, OfContainer, BeingRemoved, HolderTypes
<1>9. SeenInv'
  <2>1. ASSUME NEW h \in Gateways, pc'[h] = "asked", found'[h] # "none", h # g
        PROVE  pc[h] = "asked" /\ found[h] # "none" /\ seen'[h] = seen[h]
    BY <1>1, <2>1 DEF HolderTypes, AskedTypes
  <2>2. found'[g] = container.state /\ (container.state # "none" => seen'[g] = {container.port})
    BY <1>1 DEF AskedTypes
  <2>3. container.state # "none" /\ ~stale =>
          portFile \in {0, container.port} /\ endpointFile.port \in {0, container.port}
    BY DEF FilesInv, OfContainer, BeingRemoved
  <2> QED BY <1>1, <2>1, <2>2, <2>3 DEF SeenInv
<1> QED BY <1>2, <1>3, <1>4, <1>5, <1>6, <1>7, <1>8, <1>9

\* Who found a container is answered no port, or the container's, or one on record.
LEMMA ResolvedIsKnown ==
    ASSUME NEW g \in Gateways, found[g] # "none"
    PROVE  Resolved(g) \in {0, portFile, endpointFile.port}
              \cup (IF container.state = "running" THEN {container.port} ELSE {})
<1>1. Saved(g) \in {0, endpointFile.port}
  BY DEF Saved
<1>2. Authoritative(g) \in {0, portFile}
          \cup (IF container.state = "running" THEN {container.port} ELSE {})
  BY DEF Authoritative
<1> QED BY <1>1, <1>2 DEF Resolved

LEMMA AnswerKeeps ==
    ASSUME EndpointInv, NEW g \in Gateways, Answer(g) PROVE EndpointInv'
<1> USE EndpointAssumption DEF EndpointInv, Types
<1>1. /\ pc[g] = "asked"
      /\ pc' = [pc EXCEPT ![g] = "answered"] \/ pc' = [pc EXCEPT ![g] = "idle"]
      /\ \/ seen' = [seen EXCEPT ![g] = {Resolved(g)}] /\ Resolved(g) # 0
         \/ seen' = [seen EXCEPT ![g] = {}]
      /\ UNCHANGED <<apple, direct, lock, attempt, chosen, others, late, container, portFile, pendingFile,
                     endpointFile, stale, listening>>
  BY DEF Answer, fixed, target
<1>2. Resolved(g) \in Ports \cup {0}
  <2>1. CASE found[g] = "none"
    BY <2>1 DEF Resolved, HolderTypes
  <2>2. CASE found[g] # "none"
    BY <2>2, ResolvedIsKnown DEF RecordTypes
  <2> QED BY <2>1, <2>2
<1>3. found[g] # "none" /\ Resolved(g) # 0 /\ ~stale => Resolved(g) \in seen[g]
  BY <1>1, ResolvedIsKnown DEF SeenInv, StageInv
<1>4. ~wrong'
  BY <1>3 DEF Answer
<1>5. AskedTypes'
  <2>1. found' \in [Gateways -> {"none", "running", "stopped"}]
    BY DEF Answer, AskedTypes
  <2>2. seen' \in [Gateways -> SUBSET Ports]
    BY <1>1, <1>2 DEF AskedTypes
  <2>3. wrong' \in BOOLEAN
    BY DEF Answer
  <2> QED BY <2>1, <2>2, <2>3 DEF AskedTypes
<1>6. ListenerTypes' /\ BindInv' /\ ListenerIsKnown'
  BY <1>1, ListenerFrame DEF HolderTypes
<1>7. HolderTypes'
  <2>1. cfg' \in [Gateways -> Configured]
    BY DEF Answer, Forgets, HolderTypes
  <2> QED BY <1>1, <2>1 DEF HolderTypes, Step
<1>8. LockInv'
  BY <1>1 DEF LockInv, HolderTypes, Holding
<1>9. RecordTypes'
  BY <1>1 DEF RecordTypes
<1>10. StageInv'
  BY <1>1 DEF StageInv, HolderTypes
<1>11. FilesInv'
  BY <1>1 DEF FilesInv, OfContainer, BeingRemoved, HolderTypes
<1>12. SeenInv'
  <2>1. found' = [found EXCEPT ![g] = "none"]
    BY DEF Answer
  <2> QED BY <1>1, <2>1 DEF SeenInv, HolderTypes, AskedTypes
<1> QED BY <1>4, <1>5, <1>6, <1>7, <1>8, <1>9, <1>10, <1>11, <1>12

LEMMA SaveEndpointKeeps ==
    ASSUME EndpointInv, NEW g \in Gateways, SaveEndpoint(g) PROVE EndpointInv'
<1> USE EndpointAssumption DEF EndpointInv, Types
<1>1. /\ pc[g] = "answered" /\ pc' = [pc EXCEPT ![g] = "idle"]
      /\ seen' = [seen EXCEPT ![g] = {}]
      /\ UNCHANGED <<apple, direct, lock, attempt, chosen, others, late, found, wrong, container, portFile,
                     pendingFile, listening>>
  BY DEF SaveEndpoint, Goes, fixed, asked
<1>2. PICK p \in seen[g] : /\ endpointFile' = [port |-> p, configured |-> cfg[g]]
                           /\ stale' = (stale \/ container.port # p)
  BY DEF SaveEndpoint
<1>3. p \in Ports
  BY <1>2 DEF AskedTypes
<1>4. ~stale' => ~stale /\ container.state # "none" /\ container.port = p
  BY <1>2, <1>3 DEF StageInv
<1>5. ListenerTypes' /\ BindInv' /\ ListenerIsKnown'
  BY <1>1, ListenerFrame DEF HolderTypes
<1>6. HolderTypes'
  BY <1>1 DEF HolderTypes, Step, SaveEndpoint, Forgets
<1>7. AskedTypes' /\ ~wrong'
  BY <1>1 DEF AskedTypes
<1>8. LockInv'
  BY <1>1 DEF LockInv, HolderTypes, Holding
<1>9. RecordTypes'
  <2>1. stale' \in BOOLEAN
    BY <1>2
  <2>2. cfg[g] \in Configured
    BY DEF HolderTypes
  <2> QED BY <1>1, <1>2, <1>3, <2>1, <2>2 DEF RecordTypes
<1>10. StageInv'
  BY <1>1, <1>4 DEF StageInv, HolderTypes
<1>11. FilesInv'
  BY <1>1, <1>2, <1>4 DEF FilesInv, OfContainer, BeingRemoved, HolderTypes
<1>12. SeenInv'
  BY <1>1, <1>2, <1>4 DEF SeenInv, HolderTypes, AskedTypes
<1> QED BY <1>5, <1>6, <1>7, <1>8, <1>9, <1>10, <1>11, <1>12

-----------------------------------------------------------------------------
(* The local listener, deaths and other processes.                         *)

LEMMA BindBeginKeeps ==
    ASSUME EndpointInv, NEW g \in Gateways, BindBegin(g) PROVE EndpointInv'
<1> USE EndpointAssumption DEF EndpointInv, Types
<1>1. /\ lock = None /\ status \notin Gateways /\ lock' = g /\ status' = None
      /\ pc[g] = "idle" /\ pc' = [pc EXCEPT ![g] = "binding"]
      /\ UNCHANGED <<apple, direct, cfg, attempt, chosen, others, late, seen, found, wrong, target,
                     listener, swept>>
  BY DEF BindBegin, Goes, fixed, asked
<1>2. listener \subseteq swept
  BY <1>1 DEF ListenerIsKnown, ListenerTypes
<1>3. RecordTypes' /\ StageInv' /\ FilesInv' /\ SeenInv'
  BY <1>1, RecordFrame DEF HolderTypes
<1>4. HolderTypes' /\ AskedTypes' /\ ~wrong'
  BY <1>1 DEF HolderTypes, AskedTypes, Step
<1>5. LockInv'
  BY <1>1 DEF LockInv, HolderTypes
<1>6. ListenerTypes' /\ BindInv' /\ ListenerIsKnown'
  BY <1>1, <1>2 DEF ListenerTypes, BindInv, ListenerIsKnown
<1> QED BY <1>3, <1>4, <1>5, <1>6

LEMMA BindEndKeeps ==
    ASSUME EndpointInv, NEW g \in Gateways, BindEnd(g) PROVE EndpointInv'
<1> USE EndpointAssumption DEF EndpointInv, Types
<1>1. /\ lock' = None /\ listener' = listener \cup {g} /\ status' = g
      /\ pc[g] = "binding" /\ pc' = [pc EXCEPT ![g] = "idle"]
      /\ UNCHANGED <<apple, direct, cfg, attempt, chosen, others, late, seen, found, wrong, target, swept>>
  BY DEF BindEnd, Goes, fixed, asked
<1>2. \A h \in Gateways : h # g => pc[h] \notin Holding
  BY <1>1 DEF LockInv, Holding
<1>3. RecordTypes' /\ StageInv' /\ FilesInv' /\ SeenInv'
  BY <1>1, RecordFrame DEF HolderTypes
<1>4. HolderTypes' /\ AskedTypes' /\ ~wrong'
  BY <1>1 DEF HolderTypes, AskedTypes, Step
<1>5. LockInv'
  BY <1>1, <1>2 DEF LockInv, HolderTypes, Holding
<1>6. ListenerTypes' /\ BindInv' /\ ListenerIsKnown'
  BY <1>1, <1>2 DEF ListenerTypes, BindInv, ListenerIsKnown, Holding, HolderTypes
<1> QED BY <1>3, <1>4, <1>5, <1>6

LEMMA StopListeningKeeps ==
    ASSUME EndpointInv, NEW g \in Gateways, StopListening(g) PROVE EndpointInv'
<1> USE EndpointAssumption DEF EndpointInv, Types
<1>1. /\ g \in listener /\ listener' = listener \ {g} /\ status' = None
      /\ swept' = (swept \cup ({status} \cap Gateways)) \ {g}
      /\ UNCHANGED <<apple, direct, lock, pc, cfg, attempt, chosen, others, late, seen, found, wrong,
                     target>>
  BY DEF StopListening, Swept, fixed, asked
<1>2. RecordTypes' /\ StageInv' /\ FilesInv' /\ SeenInv'
  BY <1>1, RecordFrame DEF HolderTypes
<1>3. HolderTypes' /\ AskedTypes' /\ ~wrong' /\ LockInv'
  BY <1>1 DEF HolderTypes, AskedTypes, LockInv
<1>4. ListenerTypes' /\ BindInv' /\ ListenerIsKnown'
  BY <1>1 DEF ListenerTypes, BindInv, ListenerIsKnown
<1> QED BY <1>2, <1>3, <1>4

\* A live listener whose file a reader deletes is swept.
LEMMA StatusReaderKeeps ==
    ASSUME EndpointInv, NEW g \in Gateways, ReadStatus(g) \/ SweepStatus(g) PROVE EndpointInv'
<1> USE EndpointAssumption DEF EndpointInv, Types
<1>1. /\ \/ pc[g] = "idle" /\ pc' = [pc EXCEPT ![g] = "sweeping"]
         \/ pc[g] = "sweeping" /\ pc' = [pc EXCEPT ![g] = "idle"]
      /\ UNCHANGED <<apple, direct, lock, cfg, attempt, chosen, others, late, seen, found, wrong, target,
                     listener>>
  <2> HIDE DEF EndpointInv, Types
  <2>1. CASE ReadStatus(g)
    BY <2>1, Zenon DEF ReadStatus, Goes, fixed, asked, listening
  <2>2. CASE SweepStatus(g)
    BY <2>2, Zenon DEF SweepStatus, Goes, fixed, asked
  <2> QED BY <2>1, <2>2
<1>2. RecordTypes' /\ StageInv' /\ FilesInv' /\ SeenInv'
  BY <1>1, RecordFrame DEF HolderTypes
<1>3. HolderTypes' /\ AskedTypes' /\ ~wrong'
  BY <1>1 DEF HolderTypes, AskedTypes, Step
<1>4. LockInv'
  BY <1>1 DEF HolderTypes, LockInv, Holding
<1>5. ListenerTypes' /\ BindInv' /\ ListenerIsKnown'
  <2>1. CASE ReadStatus(g)
    BY <1>1, <2>1, ListenerFrame DEF ReadStatus, HolderTypes
  <2>2. CASE SweepStatus(g)
    <3>1. status' = None /\ swept' = swept \cup ({status} \cap Gateways)
      BY <2>2 DEF SweepStatus, Swept
    <3> QED BY <1>1, <3>1 DEF ListenerTypes, BindInv, ListenerIsKnown, HolderTypes
  <2> QED BY <2>1, <2>2
<1> QED BY <1>2, <1>3, <1>4, <1>5

\* Who dies during a removal leaves its records stale.
LEMMA DieKeeps ==
    ASSUME EndpointInv, NEW g \in Gateways, Die(g) PROVE EndpointInv'
<1> USE EndpointAssumption DEF EndpointInv, Types
<1>1. /\ pc' = [pc EXCEPT ![g] = "idle"]
      /\ lock' = (IF lock = g THEN None ELSE lock)
      /\ chosen' = [chosen EXCEPT ![g] = 0]
      /\ seen' = [seen EXCEPT ![g] = {}]
      /\ found' = [found EXCEPT ![g] = "none"]
      /\ late' \subseteq LateCommands
      /\ UNCHANGED <<apple, direct, others, wrong, container, portFile, pendingFile, endpointFile>>
  BY DEF Die, fixed, UnderWay, RecordTypes
<1>2. /\ stale' \in BOOLEAN
      /\ ~stale' => ~stale /\ (pc[g] = "removed" => portFile = 0 /\ endpointFile.port = 0)
  <2>1. stale' = (stale \/ (pc[g] = "removed" /\ (portFile # 0 \/ endpointFile # NoEndpoint)))
    BY DEF Die, Left
  <2>2. NoEndpoint.port = 0
    BY DEF NoEndpoint
  <2> QED BY <2>1, <2>2
<1>3. HolderTypes'
  BY <1>1 DEF HolderTypes, Step, Die, Forgets
<1>4. AskedTypes' /\ ~wrong'
  BY <1>1 DEF AskedTypes, Die
<1>5. RecordTypes'
  BY <1>1, <1>2 DEF RecordTypes
<1>6. LockInv'
  BY <1>1 DEF LockInv, HolderTypes, Holding
<1>7. StageInv'
  BY <1>1, <1>2 DEF StageInv, HolderTypes
<1>8. FilesInv'
  BY <1>1, <1>2 DEF FilesInv, OfContainer, BeingRemoved, HolderTypes
<1>9. SeenInv'
  BY <1>1, <1>2 DEF SeenInv, HolderTypes, AskedTypes
<1>10. ListenerTypes' /\ BindInv' /\ ListenerIsKnown'
  <2>1. /\ listener' = listener \ {g} /\ swept' = swept \ {g}
        /\ status' = (IF status = g THEN "dead" ELSE status)
    BY DEF Die
  <2> QED BY <1>1, <2>1 DEF ListenerTypes, BindInv, ListenerIsKnown, HolderTypes
<1> QED BY <1>3, <1>4, <1>5, <1>6, <1>7, <1>8, <1>9, <1>10

LEMMA NothingLeft == ~Left => portFile = 0 /\ endpointFile.port = 0
BY DEF Left, NoEndpoint

\* The container that a late run makes has been seen, and if it finds records of
\* another one they are stale.
LEMMA LateRunKeeps ==
    ASSUME EndpointInv, NEW p \in Ports, LateRun(p) PROVE EndpointInv'
<1> USE EndpointAssumption DEF EndpointInv, Types
<1>1. /\ late' \subseteq late
      /\ UNCHANGED <<apple, direct, lock, pc, cfg, attempt, chosen, others, found, wrong, portFile,
                     pendingFile, endpointFile, listening>>
  BY DEF LateRun, fixed, asked
<1>2. \/ UNCHANGED <<container, seen, stale>>
      \/ /\ container.state = "none" /\ container' = [state |-> "running", port |-> p]
         /\ seen' = [g \in Gateways |-> IF pc[g] = "asked" THEN seen[g] \cup {p} ELSE seen[g]]
         /\ stale' \in BOOLEAN
         /\ ~stale' => ~stale /\ ~Left
  BY DEF LateRun, Seen, RecordTypes
<1>3. ListenerTypes' /\ BindInv' /\ ListenerIsKnown'
  BY <1>1, ListenerFrame
<1>4. HolderTypes' /\ LockInv' /\ ~wrong'
  BY <1>1 DEF HolderTypes, LockInv
<1>5. RecordTypes' /\ AskedTypes'
  BY <1>1, <1>2 DEF RecordTypes, AskedTypes
<1>6. StageInv'
  BY <1>1, <1>2 DEF StageInv
<1>7. FilesInv'
  BY <1>1, <1>2, NothingLeft DEF FilesInv, OfContainer, BeingRemoved
<1>8. SeenInv'
  BY <1>1, <1>2, NothingLeft DEF SeenInv, AskedTypes
<1> QED BY <1>3, <1>4, <1>5, <1>6, <1>7, <1>8

\* The records of a container that a late removal takes are stale.
LEMMA LateRemoveKeeps == ASSUME EndpointInv, LateRemove PROVE EndpointInv'
<1> USE EndpointAssumption DEF EndpointInv, Types
<1>1. /\ late' \subseteq late
      /\ UNCHANGED <<apple, direct, lock, pc, cfg, attempt, chosen, others, seen, found, wrong,
                     portFile, pendingFile, endpointFile, listening>>
  BY DEF LateRemove, fixed, asked
<1>2. \/ UNCHANGED <<container, stale>>
      \/ /\ container' = [state |-> "none", port |-> 0]
         /\ stale' \in BOOLEAN
         /\ ~stale' => ~stale /\ ~Left /\ pendingFile = 0
  BY DEF LateRemove, Gone, RecordTypes
<1>3. ListenerTypes' /\ BindInv' /\ ListenerIsKnown'
  BY <1>1, ListenerFrame
<1>4. HolderTypes' /\ LockInv' /\ AskedTypes' /\ ~wrong'
  BY <1>1 DEF HolderTypes, LockInv, AskedTypes
<1>5. RecordTypes'
  BY <1>1, <1>2 DEF RecordTypes
<1>6. StageInv'
  BY <1>1, <1>2 DEF StageInv
<1>7. FilesInv' /\ SeenInv'
  BY <1>1, <1>2, NothingLeft DEF FilesInv, SeenInv, OfContainer, BeingRemoved
<1> QED BY <1>3, <1>4, <1>5, <1>6, <1>7

LEMMA OtherUsesKeeps ==
    ASSUME EndpointInv, NEW p \in Ports, OtherUses(p) PROVE EndpointInv'
<1> USE DEF EndpointInv, Types
<1>1. UNCHANGED <<apple, direct, lock, pc, cfg, attempt, chosen, late, seen, found, wrong, container, portFile,
                  pendingFile, endpointFile, stale, listening>>
  BY DEF OtherUses, fixed, asked, target
<1>2. ListenerTypes' /\ BindInv' /\ ListenerIsKnown'
  BY <1>1, ListenerFrame
<1>3. RecordTypes'
  BY <1>1 DEF RecordTypes, OtherUses
<1>4. HolderTypes' /\ AskedTypes' /\ ~wrong'
  BY <1>1 DEF HolderTypes, AskedTypes
<1>5. LockInv' /\ StageInv' /\ SeenInv'
  BY <1>1 DEF LockInv, StageInv, SeenInv
<1>6. FilesInv'
  BY <1>1 DEF FilesInv, OfContainer, BeingRemoved
<1> QED BY <1>2, <1>3, <1>4, <1>5, <1>6

LEMMA EndpointStutters == ASSUME EndpointInv, UNCHANGED vars PROVE EndpointInv'
<1> USE DEF EndpointInv, Types, vars, fixed, asked, target
<1>1. ListenerTypes' /\ BindInv' /\ ListenerIsKnown'
  BY ListenerFrame
<1>2. RecordTypes' /\ StageInv' /\ FilesInv' /\ SeenInv'
  BY RecordFrame
<1>3. HolderTypes' /\ AskedTypes' /\ ~wrong' /\ LockInv'
  BY DEF HolderTypes, AskedTypes, LockInv
<1> QED BY <1>1, <1>2, <1>3

LEMMA EndpointStep == EndpointInv /\ [Next]_vars => EndpointInv'
<1> SUFFICES ASSUME EndpointInv, [Next]_vars PROVE EndpointInv'
  OBVIOUS
<1>1. ASSUME NEW g \in Gateways,
             \/ BeginCreate(g) \/ Reserve(g) \/ Release(g) \/ Run(g) \/ Promote(g)
             \/ Unready(g) \/ CleanupFailedStart(g) \/ Restart(g) \/ Stop(g)
             \/ BeginRemove(g) \/ Remove(g) \/ RemoveFails(g) \/ CleanupFiles(g)
      PROVE  EndpointInv'
  BY <1>1, BeginCreateKeeps, ReserveKeeps, ReleaseKeeps, RunKeeps, PromoteKeeps,
     CleanupFailedStartKeeps, RestartStopKeeps, BeginRemoveKeeps, RemoveKeeps, RemoveFailsKeeps,
     CleanupFilesKeeps
<1>2. ASSUME NEW g \in Gateways,
             \/ Ask(g) \/ Answer(g) \/ SaveEndpoint(g)
             \/ BindBegin(g) \/ BindEnd(g) \/ StopListening(g) \/ ReadStatus(g) \/ SweepStatus(g)
             \/ Die(g)
      PROVE  EndpointInv'
  BY <1>2, AskKeeps, AnswerKeeps, SaveEndpointKeeps, BindBeginKeeps, BindEndKeeps,
     StopListeningKeeps, StatusReaderKeeps, DieKeeps
<1> QED BY <1>1, <1>2, OtherUsesKeeps, LateRunKeeps, LateRemoveKeeps, EndpointStutters DEF Next

LEMMA EndpointInvariant == Spec => []EndpointInv
BY EndpointInit, EndpointStep, PTL DEF Spec

-----------------------------------------------------------------------------

\* TypeOK: what gateways hold, what is on record and what was seen have their types.
THEOREM EndpointTypeCorrect == Spec => []TypeOK
<1>1. EndpointInv => TypeOK
  BY DEF EndpointInv, Types, HolderTypes, RecordTypes, AskedTypes, ListenerTypes, TypeOK
<1> QED BY <1>1, EndpointInvariant, PTL

\* AnswersAreRight: whoever asks for the endpoint of a target and finds a container is
\* told the port of a container there was since the question, and the record of an
\* Apple container is its port, however starts are retried, gateways die and their
\* commands come late; but for files that outlived their container, and for the
\* configured port, which a client is told when there is no container.
THEOREM AnswersAreRightThm == Spec => []AnswersAreRight
<1>1. EndpointInv => AnswersAreRight
  BY DEF EndpointInv, AnswersAreRight, RecordIsTheContainers, StageInv, FilesInv, OfContainer,
     BeingRemoved
<1> QED BY <1>1, EndpointInvariant, PTL

\* ListenerIsKnown: of the live local listeners whose status file nobody else has
\* deleted there is one at most, and the file names it.  A reader that deletes a
\* live one's file (it raced, or is configured with another host), or a listener
\* that has lost its own and ends, lets a second one begin.
THEOREM ListenerIsKnownThm == Spec => []ListenerIsKnown
<1>1. EndpointInv => ListenerIsKnown
  BY DEF EndpointInv
<1> QED BY <1>1, EndpointInvariant, PTL
=============================================================================
