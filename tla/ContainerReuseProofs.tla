------------------------ MODULE ContainerReuseProofs -------------------------
(***************************************************************************)
(* Proofs about ContainerReuse: ReadyAsConfigured, for any gateways,       *)
(* configurations and inodes that ReuseAssumption allows.                  *)
(***************************************************************************)
EXTENDS ContainerReuse, TLAPS

-----------------------------------------------------------------------------
(* The inductive invariant.                                                *)

Made == Configs \cup {LegacyConfig}
Inodes == 0 .. MaxInode
Manifests == {Nothing} \cup [exposures : {c.exposures : c \in Configs}, inode : Inodes]

\* What has been inspected, or is there
Boxes == [state : {"stopped", "running"}, legacy : BOOLEAN, manifest : Manifests, inode : Inodes,
          raced : BOOLEAN, made : Made]

Types ==
    /\ apple_runtime \in BOOLEAN /\ sock \in Inodes
    /\ actual \in Boxes \cup {NoContainer}
    /\ locked_by \in Processes \cup {Nothing}
    /\ at \in [Processes -> ReuseSteps]
    /\ wanted \in [Processes -> Configs]
    /\ prepared \in [Processes -> [manifest : Manifests, inode : Inodes]]
    /\ inspect \in [Processes -> Boxes \cup {NoContainer}]
    /\ attempted \in [Processes -> BOOLEAN]

\* Manifest and inode belong together: one is what the other was made from.
ManifestOf(c, i) == IF c.exposures = {} THEN Nothing ELSE [exposures |-> c.exposures, inode |-> i]

\* A container's labels say what it was made for.  While it runs on Linux, the inode
\* of its manifest is the one it mounts, but for a race with the host.
LabelsTell(box) ==
    /\ box.legacy => box.made = LegacyConfig
    /\ \E i \in Inodes :
         /\ box.manifest = ManifestOf(box.made, i)
         /\ box.made.exposures = {} => i = 0
         /\ box.state = "running" /\ ~apple_runtime /\ ~box.raced => box.inode = i

LabelInv ==
    /\ actual # NoContainer => LabelsTell(actual)
    /\ \A g \in Processes : inspect[g] # NoContainer => LabelsTell(inspect[g])

\* Only the holder of the lock prepares, creates, starts and cleans up.
Locked == {"prepare", "plan", "create", "start", "started", "check", "report", "failed"}

LockInv == \A g \in Processes : at[g] \in Locked => locked_by = g

PreparedInv ==
    \A g \in Processes :
        /\ at[g] \in {"idle", "status", "prepare"} => prepared[g] = NoInputs
        /\ at[g] \notin {"idle", "status", "prepare", "failed"} =>
             /\ prepared[g].manifest = ManifestOf(wanted[g], prepared[g].inode)
             /\ wanted[g].exposures = {} => prepared[g].inode = 0

\* The box has passed both validations.
Fits(g) ==
    /\ inspect[g] # NoContainer
    /\ validate_labels(wanted[g], inspect[g])
    /\ validate_exposure_manifest(prepared[g].manifest, inspect[g])

\* What was validated is still what is there when it is started.
FitInv ==
    \A g \in Processes :
        /\ at[g] \in {"start", "check", "report", "probe"} => Fits(g)
        /\ at[g] = "start" => actual = inspect[g] /\ actual.state # "running"
        /\ at[g] = "started" => actual # NoContainer
        /\ at[g] = "compare" /\ inspect[g] # NoContainer => validate_labels(wanted[g], inspect[g])
        /\ at[g] = "probe" => inspect[g].state = "running"

ReuseInv == Types /\ LabelInv /\ LockInv /\ PreparedInv /\ FitInv /\ ReadyAsConfigured

-----------------------------------------------------------------------------
(* Labels and manifests.                                                   *)

\* What the answer "ready" promises.
Promised(c, prep, box) ==
    /\ box.state # "none"
    /\ box.made = c
    /\ box.state = "running" /\ ~apple_runtime /\ ~box.raced => box.inode = prep.inode

LEMMA BoxIsThere ==
    /\ NoContainer.state = "none"
    /\ \A box \in Boxes : box.state # "none" /\ box # NoContainer
BY DEF NoContainer, Boxes

\* Manifests that are the same ask for the same sockets with the same inode.
LEMMA ManifestTells ==
    ASSUME NEW c \in Made, NEW d \in Made, NEW i \in Inodes, NEW j \in Inodes,
           ManifestOf(c, i) = ManifestOf(d, j),
           c.exposures = {} => i = 0, d.exposures = {} => j = 0
    PROVE  c.exposures = d.exposures /\ i = j
<1>1. \A e \in Made : e.exposures # {} => e \in Configs
  BY DEF Made, LegacyConfig
<1>2. \A e \in Configs, k \in Inodes : Nothing # [exposures |-> e.exposures, inode |-> k]
  BY ReuseAssumption DEF Inodes
<1>3. CASE c.exposures = {} \/ d.exposures = {}
  BY <1>1, <1>2, <1>3 DEF ManifestOf
<1>4. CASE c.exposures # {} /\ d.exposures # {}
  <2>1. [exposures |-> c.exposures, inode |-> i] = [exposures |-> d.exposures, inode |-> j]
    BY <1>4 DEF ManifestOf
  <2> QED BY <2>1
<1> QED BY <1>3, <1>4

\* Labels that match, with the same sockets, are those of a container made for this.
LEMMA LabelsMatch ==
    ASSUME NEW c \in Configs, NEW box, LabelsTell(box), box.made \in Made,
           validate_labels(c, box), c.exposures = box.made.exposures
    PROVE  box.made = c
<1>1. c.access = box.made.access /\ c.layout = box.made.layout
  BY DEF LabelsTell, validate_labels, validate_access_label, validate_workspace_layout_labels,
     LegacyConfig
<1> QED BY <1>1, ReuseAssumption DEF Made

\* Both validations together say what the answer promises.
LEMMA FitKeepsPromise ==
    ASSUME NEW c \in Configs, NEW prep \in [manifest : Manifests, inode : Inodes],
           prep.manifest = ManifestOf(c, prep.inode), c.exposures = {} => prep.inode = 0,
           NEW box \in Boxes, LabelsTell(box),
           validate_labels(c, box), validate_exposure_manifest(prep.manifest, box)
    PROVE  Promised(c, prep, box)
<1>1. PICK i \in Inodes : /\ box.manifest = ManifestOf(box.made, i)
                          /\ box.made.exposures = {} => i = 0
                          /\ box.state = "running" /\ ~apple_runtime /\ ~box.raced => box.inode = i
  BY DEF LabelsTell
<1>2. box.made \in Made /\ c \in Made /\ prep.inode \in Inodes /\ box.state # "none"
  BY BoxIsThere DEF Boxes, Made
<1>3. ManifestOf(c, prep.inode) = ManifestOf(box.made, i)
  BY <1>1 DEF validate_exposure_manifest
<1>4. c.exposures = box.made.exposures /\ prep.inode = i
  BY <1>1, <1>2, <1>3, ManifestTells
<1>5. box.made = c
  BY <1>2, <1>4, LabelsMatch
<1> QED BY <1>1, <1>2, <1>4, <1>5 DEF Promised

LEMMA InputsTell ==
    ASSUME NEW c \in Configs, sock \in Inodes
    PROVE  /\ Inputs(c) \in [manifest : Manifests, inode : Inodes]
           /\ Inputs(c).manifest = ManifestOf(c, Inputs(c).inode)
           /\ c.exposures = {} => Inputs(c).inode = 0
<1>1. 0 \in Inodes
  BY ReuseAssumption DEF Inodes
<1>2. DEFINE k == IF apple_runtime \/ c.exposures = {} THEN 0 ELSE sock
<1>3. k \in Inodes /\ Inputs(c) = [manifest |-> exposure_manifest(c), inode |-> k]
  BY <1>1 DEF Inputs
<1>4. exposure_manifest(c) = ManifestOf(c, k)
  BY DEF exposure_manifest, ManifestOf
<1>5. ManifestOf(c, k) \in Manifests
  BY <1>3 DEF ManifestOf, Manifests
<1> HIDE DEF k
<1>6. c.exposures = {} => k = 0
  BY DEF k
<1> QED BY <1>3, <1>4, <1>5, <1>6

-----------------------------------------------------------------------------

LEMMA ReuseInvInit == ReuseInit => ReuseInv
<1> SUFFICES ASSUME ReuseInit PROVE ReuseInv
  OBVIOUS
<1> USE ReuseAssumption DEF ReuseInit
<1>1. AnyConfig \in Configs /\ NoInputs \in [manifest : Manifests, inode : Inodes]
  BY DEF AnyConfig, NoInputs, Manifests, Inodes
<1>2. actual \in Boxes \cup {NoContainer} /\ sock \in Inodes
  <2>1. 0 \in Inodes /\ 1 \in Inodes
    BY DEF Inodes
  <2>2. Nothing \in Manifests /\ LegacyConfig \in Made
    BY DEF Manifests, Made
  <2>3. actual = NoContainer
           \/ actual = [state |-> "stopped", legacy |-> TRUE, manifest |-> Nothing, inode |-> 0,
                           raced |-> FALSE, made |-> LegacyConfig]
    OBVIOUS
  <2>4. [state |-> "stopped", legacy |-> TRUE, manifest |-> Nothing, inode |-> 0, raced |-> FALSE,
         made |-> LegacyConfig] \in Boxes
    BY <2>1, <2>2 DEF Boxes
  <2>5. sock \in Inodes
    BY <2>1
  <2> QED BY <2>3, <2>4, <2>5
<1>3. Types
  <2>1. /\ at \in [Processes -> ReuseSteps] /\ wanted \in [Processes -> Configs]
        /\ locked_by = Nothing
    BY <1>1 DEF ReuseSteps
  <2>2. /\ prepared \in [Processes -> [manifest : Manifests, inode : Inodes]]
        /\ inspect \in [Processes -> Boxes \cup {NoContainer}]
        /\ attempted \in [Processes -> BOOLEAN]
    BY <1>1
  <2>3. apple_runtime \in BOOLEAN
    OBVIOUS
  <2> QED BY <1>2, <2>1, <2>2, <2>3 DEF Types
<1>4. actual # NoContainer => LabelsTell(actual)
  <2>1. ASSUME actual # NoContainer
        PROVE  /\ actual.manifest = Nothing /\ actual.made = LegacyConfig
               /\ actual.state = "stopped"
    BY <2>1
  <2>2. LegacyConfig.exposures = {} /\ 0 \in Inodes
    BY DEF LegacyConfig, Inodes
  <2> QED BY <2>1, <2>2 DEF LabelsTell, ManifestOf
<1>5. LabelInv /\ LockInv /\ PreparedInv /\ FitInv /\ ReadyAsConfigured
  BY <1>4 DEF LabelInv, LockInv, PreparedInv, FitInv, ReadyAsConfigured, Locked
<1> QED BY <1>3, <1>5 DEF ReuseInv

\* The answer is given: all is forgotten, and what was promised is so.
LEMMA AnswerKeeps ==
    ASSUME ReuseInv, NEW g \in Processes, NEW isReady \in BOOLEAN,
           Reply(g, isReady), UNCHANGED <<apple_runtime, sock>>,
           isReady => Promised(wanted[g], prepared[g], inspect[g]),
           actual' \in Boxes \cup {NoContainer},
           actual' # NoContainer => LabelsTell(actual'),
           actual' = actual \/ at[g] \in Locked
    PROVE  ReuseInv'
<1> USE DEF ReuseInv
<1>1. AnyConfig \in Configs /\ NoInputs \in [manifest : Manifests, inode : Inodes]
  BY ReuseAssumption DEF AnyConfig, NoInputs, Manifests, Inodes
<1>2. /\ at' = [at EXCEPT ![g] = "idle"]
      /\ locked_by' = (IF locked_by = g THEN Nothing ELSE locked_by)
      /\ wanted' = [wanted EXCEPT ![g] = AnyConfig]
      /\ prepared' = [prepared EXCEPT ![g] = NoInputs]
      /\ inspect' = [inspect EXCEPT ![g] = NoContainer]
      /\ attempted' = [attempted EXCEPT ![g] = FALSE]
  BY DEF Reply
<1>3. Types'
  BY <1>1, <1>2 DEF Types, ReuseSteps
<1>4. /\ at'[g] = "idle" /\ prepared'[g] = NoInputs /\ inspect'[g] = NoContainer
      /\ \A h \in Processes : h # g => /\ at'[h] = at[h] /\ wanted'[h] = wanted[h]
                                      /\ prepared'[h] = prepared[h] /\ inspect'[h] = inspect[h]
  BY <1>2 DEF Types
<1>5. LabelInv'
  BY <1>4 DEF LabelInv, LabelsTell
<1>6. LockInv'
  BY <1>2, <1>4 DEF LockInv, Locked
<1>7. PreparedInv'
  BY <1>4 DEF PreparedInv
<1>8. FitInv'
  <2>1. \A h \in Processes : h # g /\ at[h] \in {"start", "started"} => actual' = actual
    BY DEF LockInv, Locked
  <2> QED BY <1>4, <2>1 DEF FitInv, Fits
<1>9. ReadyAsConfigured'
  <2>1. told' = (IF isReady
                 THEN [wanted |-> wanted[g], prepared |-> prepared[g], box |-> inspect[g]]
                 ELSE Nothing)
    BY DEF Reply
  <2>2. CASE isReady
    BY <2>1, <2>2 DEF ReadyAsConfigured, Promised
  <2>3. CASE ~isReady
    BY <2>1, <2>3 DEF ReadyAsConfigured
  <2> QED BY <2>2, <2>3
<1> QED BY <1>3, <1>5, <1>6, <1>7, <1>8, <1>9

-----------------------------------------------------------------------------
(* ensure_ready, under the lock.                                           *)

LEMMA BeginReadyKeeps ==
    ASSUME ReuseInv, NEW g \in Processes, BeginReady(g) PROVE ReuseInv'
<1> USE DEF ReuseInv
<1>1. PICK c \in Configs : wanted' = [wanted EXCEPT ![g] = c]
  BY DEF BeginReady
<1>2. /\ at[g] = "idle" /\ locked_by = Nothing /\ locked_by' = g /\ told' = Nothing
      /\ at' = [at EXCEPT ![g] = "prepare"]
      /\ UNCHANGED <<apple_runtime, sock, actual, prepared, inspect, attempted>>
  BY DEF BeginReady, Goto
<1>3. Types'
  BY <1>1, <1>2 DEF Types, ReuseSteps
<1>4. /\ at'[g] = "prepare"
      /\ \A h \in Processes : h # g => at'[h] = at[h] /\ wanted'[h] = wanted[h]
  BY <1>1, <1>2 DEF Types
<1>5. LabelInv' /\ ReadyAsConfigured'
  BY <1>2 DEF LabelInv, LabelsTell, ReadyAsConfigured
<1>6. LockInv'
  BY <1>2, <1>4, ReuseAssumption DEF LockInv
<1>7. PreparedInv'
  BY <1>2, <1>4 DEF PreparedInv
<1>8. FitInv'
  BY <1>2, <1>4 DEF FitInv, Fits
<1> QED BY <1>3, <1>5, <1>6, <1>7, <1>8

LEMMA PrepareKeeps ==
    ASSUME ReuseInv, NEW g \in Processes, Prepare(g) PROVE ReuseInv'
<1> USE DEF ReuseInv
<1>1. /\ at[g] = "prepare" /\ told' = Nothing
      /\ \/ /\ at' = [at EXCEPT ![g] = "plan"]
            /\ prepared' = [prepared EXCEPT ![g] = Inputs(wanted[g])]
         \/ at' = [at EXCEPT ![g] = "failed"] /\ prepared' = prepared
      /\ UNCHANGED <<apple_runtime, sock, actual, locked_by, wanted, inspect, attempted>>
  BY DEF Prepare, Goto
<1>2. /\ Inputs(wanted[g]) \in [manifest : Manifests, inode : Inodes]
      /\ Inputs(wanted[g]).manifest = ManifestOf(wanted[g], Inputs(wanted[g]).inode)
      /\ wanted[g].exposures = {} => Inputs(wanted[g]).inode = 0
  BY InputsTell DEF Types
<1>3. Types'
  BY <1>1, <1>2 DEF Types, ReuseSteps
<1>4. /\ \/ at'[g] = "plan" /\ prepared'[g] = Inputs(wanted[g])
         \/ at'[g] = "failed"
      /\ \A h \in Processes : h # g => at'[h] = at[h] /\ prepared'[h] = prepared[h]
  BY <1>1 DEF Types
<1>5. LabelInv' /\ ReadyAsConfigured'
  BY <1>1 DEF LabelInv, LabelsTell, ReadyAsConfigured
<1>6. LockInv'
  BY <1>1, <1>4 DEF LockInv, Locked
<1>7. PreparedInv'
  BY <1>1, <1>2, <1>4 DEF PreparedInv
<1>8. FitInv'
  BY <1>1, <1>4 DEF FitInv, Fits
<1> QED BY <1>3, <1>5, <1>6, <1>7, <1>8

\* What is inspected is what was validated: nobody else moves under the lock.
LEMMA PlanKeeps ==
    ASSUME ReuseInv, NEW g \in Processes, Plan(g) \/ Started(g) PROVE ReuseInv'
<1> USE DEF ReuseInv
<1>1. /\ at[g] \in {"plan", "started"} /\ told' = Nothing
      /\ inspect' = [inspect EXCEPT ![g] = actual]
      /\ \E to \in {"create", "failed", "check", "start"} : at' = [at EXCEPT ![g] = to]
      /\ UNCHANGED <<apple_runtime, sock, actual, locked_by, wanted, prepared, attempted>>
  BY DEF Plan, Started, Goto
<1>2. Types'
  BY <1>1 DEF Types, ReuseSteps
<1>3. /\ at'[g] \in {"create", "failed", "check", "start"} /\ inspect'[g] = actual
      /\ \A h \in Processes : h # g => at'[h] = at[h] /\ inspect'[h] = inspect[h]
  BY <1>1 DEF Types
<1>4. at'[g] \in {"check", "start"} =>
          /\ actual # NoContainer
          /\ validate_labels(wanted[g], actual)
          /\ validate_exposure_manifest(prepared[g].manifest, actual)
  <2>1. CASE Plan(g)
    BY <1>3, <2>1, BoxIsThere DEF Plan, Goto, Types
  <2>2. CASE Started(g)
    BY <1>3, <2>2 DEF Started, Goto, Types, FitInv
  <2> QED BY <2>1, <2>2
<1>5. LabelInv' /\ ReadyAsConfigured'
  BY <1>1, <1>3 DEF LabelInv, LabelsTell, ReadyAsConfigured
<1>6. LockInv'
  BY <1>1, <1>3 DEF LockInv, Locked
<1>7. PreparedInv'
  BY <1>1, <1>3 DEF PreparedInv
<1>8. FitInv'
  <2>1. \A h \in Processes : at'[h] \in {"start", "check", "report", "probe"} => Fits(h)'
    BY <1>1, <1>3, <1>4 DEF FitInv, Fits, validate_labels, validate_access_label,
       validate_workspace_layout_labels, validate_exposure_manifest
  <2>2. at'[g] = "start" => actual.state # "running"
    BY <1>1, <1>3 DEF Plan, Started, Goto, Types
  <2> QED BY <1>1, <1>3, <2>1, <2>2 DEF FitInv
<1> QED BY <1>2, <1>5, <1>6, <1>7, <1>8

\* A container that is started mounts the inode of its manifest, or the host raced.
LEMMA MountedTells ==
    ASSUME NEW g \in Processes, NEW box \in Boxes, sock \in Inodes, apple_runtime \in BOOLEAN,
           NEW i \in Inodes, box.manifest = ManifestOf(box.made, i),
           box.made.exposures = {} => i = 0, i = prepared[g].inode,
           box.legacy => box.made = LegacyConfig
    PROVE  Mounted(box, g) \in Boxes /\ LabelsTell(Mounted(box, g))
<1> DEFINE raced == ~apple_runtime /\ box.made.exposures # {} /\ sock # prepared[g].inode
           inode == IF box.made.exposures = {} THEN 0 ELSE sock
           run == [state |-> "running", legacy |-> box.legacy, manifest |-> box.manifest,
                   inode |-> inode, raced |-> raced, made |-> box.made]
<1>1. Mounted(box, g) = run
  <2>1. Mounted(box, g) = [box EXCEPT !.state = "running", !.inode = inode, !.raced = raced]
    BY DEF Mounted
  <2> HIDE DEF raced, inode
  <2> QED BY <2>1 DEF Boxes
<1>2. inode \in Inodes /\ raced \in BOOLEAN
  BY ReuseAssumption DEF Inodes
<1>3. ~apple_runtime /\ ~raced => inode = i
  OBVIOUS
<1> HIDE DEF raced, inode
<1>4. run \in Boxes
  BY <1>2 DEF Boxes
<1>5. LabelsTell(run)
  BY <1>3 DEF LabelsTell
<1> QED BY <1>1, <1>4, <1>5

LEMMA CreateKeeps ==
    ASSUME ReuseInv, NEW g \in Processes, Create(g) \/ Start(g) PROVE ReuseInv'
<1> USE DEF ReuseInv
<1>1. /\ at[g] \in {"create", "start"} /\ told' = Nothing
      /\ attempted' = [attempted EXCEPT ![g] = TRUE]
      /\ at' = [at EXCEPT ![g] = "started"] \/ at' = [at EXCEPT ![g] = "failed"]
      /\ UNCHANGED <<apple_runtime, sock, locked_by, wanted, prepared, inspect>>
  <2>1. CASE Create(g)
    BY <2>1 DEF Create, Goto
  <2>2. CASE Start(g)
    BY <2>2 DEF Start, Goto
  <2> QED BY <2>1, <2>2
<1>2. /\ at'[g] \in {"started", "failed"}
      /\ \A h \in Processes : h # g => at'[h] = at[h] /\ at[h] \notin Locked
  <2>1. locked_by = g /\ \A h \in Processes : h # g => at[h] \notin Locked
    BY <1>1 DEF LockInv, Locked
  <2> QED BY <1>1, <2>1 DEF Types
<1>3. /\ prepared[g] \in [manifest : Manifests, inode : Inodes] /\ wanted[g] \in Configs
      /\ prepared[g].manifest = ManifestOf(wanted[g], prepared[g].inode)
      /\ wanted[g].exposures = {} => prepared[g].inode = 0
      /\ sock \in Inodes /\ apple_runtime \in BOOLEAN
  BY <1>1 DEF PreparedInv, Types
<1>4. /\ actual' \in Boxes \cup {NoContainer}
      /\ actual' # NoContainer => LabelsTell(actual')
      /\ at'[g] = "started" => actual' # NoContainer
  <2>1. CASE Create(g)
    <3> DEFINE box == [state |-> "stopped", legacy |-> FALSE, manifest |-> prepared[g].manifest,
                       inode |-> 0, raced |-> FALSE, made |-> wanted[g]]
    <3>1. box \in Boxes
      BY <1>3, ReuseAssumption DEF Boxes, Inodes, Made
    <3>2. LabelsTell(box)
      BY <1>3 DEF LabelsTell
    <3>3. Mounted(box, g) \in Boxes /\ LabelsTell(Mounted(box, g))
      BY <1>3, <3>1, MountedTells
    <3>4. actual' = Mounted(box, g) \/ (actual' \in {NoContainer, box} /\ at'[g] = "failed")
      BY <2>1 DEF Create, Goto, Types
    <3> HIDE DEF box
    <3> QED BY <3>1, <3>2, <3>3, <3>4, BoxIsThere
  <2>2. CASE Start(g)
    <3>1. at[g] = "start"
      BY <2>2 DEF Start
    <3>2. /\ actual = inspect[g] /\ actual \in Boxes /\ LabelsTell(actual)
          /\ actual.manifest = prepared[g].manifest
      BY <3>1 DEF FitInv, Fits, LabelInv, Types, validate_exposure_manifest
    <3>3. PICK i \in Inodes : /\ actual.manifest = ManifestOf(actual.made, i)
                              /\ actual.made.exposures = {} => i = 0
      BY <3>2 DEF LabelsTell
    <3>4. actual.made \in Made /\ wanted[g] \in Made
      BY <1>3, <3>2 DEF Boxes, Made
    <3>5. i = prepared[g].inode
      <4>1. ManifestOf(wanted[g], prepared[g].inode) = ManifestOf(actual.made, i)
        BY <1>3, <3>2, <3>3
      <4>2. prepared[g].inode \in Inodes
        BY <1>3
      <4> QED BY <1>3, <3>3, <3>4, <4>1, <4>2, ManifestTells
    <3>6. Mounted(actual, g) \in Boxes /\ LabelsTell(Mounted(actual, g))
      BY <1>3, <3>2, <3>3, <3>5, MountedTells DEF LabelsTell
    <3>7. actual' = Mounted(actual, g) \/ (actual' = actual /\ at'[g] = "failed")
      BY <2>2 DEF Start, Goto, Types
    <3> QED BY <3>2, <3>6, <3>7, BoxIsThere
  <2> QED BY <2>1, <2>2
<1>5. Types'
  BY <1>1, <1>4 DEF Types, ReuseSteps
<1>6. LabelInv' /\ ReadyAsConfigured'
  BY <1>1, <1>4 DEF LabelInv, LabelsTell, ReadyAsConfigured
<1>7. LockInv'
  BY <1>1, <1>2 DEF LockInv, Locked
<1>8. PreparedInv'
  BY <1>1, <1>2 DEF PreparedInv
<1>9. FitInv'
  BY <1>1, <1>2, <1>4 DEF FitInv, Fits, Locked
<1> QED BY <1>5, <1>6, <1>7, <1>8, <1>9

\* A step of an operation that changes nothing but where it is
LEMMA ContinueKeeps ==
    ASSUME ReuseInv, NEW g \in Processes, NEW to \in {"report", "failed", "probe"},
           Continue(g, to), UNCHANGED <<apple_runtime, sock, actual>>,
           to \in Locked => at[g] \in Locked,
           to # "failed" => at[g] \in {"check", "compare"} /\ Fits(g),
           to = "probe" => inspect[g].state = "running"
    PROVE  ReuseInv'
<1> USE DEF ReuseInv
<1>1. /\ at' = [at EXCEPT ![g] = to] /\ told' = Nothing
      /\ UNCHANGED <<locked_by, wanted, prepared, inspect, attempted>>
  BY DEF Continue, Goto
<1>2. Types'
  BY <1>1 DEF Types, ReuseSteps
<1>3. at'[g] = to /\ \A h \in Processes : h # g => at'[h] = at[h]
  BY <1>1 DEF Types
<1>4. LabelInv' /\ ReadyAsConfigured'
  BY <1>1 DEF LabelInv, LabelsTell, ReadyAsConfigured
<1>5. LockInv'
  BY <1>1, <1>3 DEF LockInv
<1>6. PreparedInv'
  BY <1>1, <1>3 DEF PreparedInv
<1>7. FitInv'
  BY <1>1, <1>3 DEF FitInv, Fits
<1> QED BY <1>2, <1>4, <1>5, <1>6, <1>7

\* What the answer needs, where it is given
LEMMA FitIsPromise ==
    ASSUME ReuseInv, NEW g \in Processes, at[g] \in {"report", "probe"}
    PROVE  Promised(wanted[g], prepared[g], inspect[g])
<1> USE DEF ReuseInv
<1>1. /\ wanted[g] \in Configs /\ prepared[g] \in [manifest : Manifests, inode : Inodes]
      /\ inspect[g] \in Boxes \cup {NoContainer}
  BY DEF Types
<1>2. /\ prepared[g].manifest = ManifestOf(wanted[g], prepared[g].inode)
      /\ wanted[g].exposures = {} => prepared[g].inode = 0
  BY DEF PreparedInv
<1>3. Fits(g)
  BY DEF FitInv
<1>4. inspect[g] \in Boxes /\ LabelsTell(inspect[g])
  BY <1>1, <1>3 DEF Fits, LabelInv
<1> QED BY <1>1, <1>2, <1>3, <1>4, FitKeepsPromise DEF Fits

LEMMA CheckKeeps ==
    ASSUME ReuseInv, NEW g \in Processes, Check(g) \/ Report(g) PROVE ReuseInv'
<1>1. /\ actual \in Boxes \cup {NoContainer}
      /\ actual # NoContainer => LabelsTell(actual)
      /\ at[g] \in {"check", "report"} => Fits(g)
  BY DEF ReuseInv, Types, LabelInv, FitInv
<1>2. CASE Check(g)
  <2>1. at[g] = "check" /\ (Continue(g, "report") \/ Continue(g, "failed"))
        /\ UNCHANGED <<apple_runtime, sock, actual>>
    BY <1>2 DEF Check
  <2> QED BY <1>1, <2>1, ContinueKeeps DEF Locked
<1>3. CASE Report(g)
  <2>1. at[g] = "report" /\ (Reply(g, TRUE) \/ Continue(g, "failed"))
        /\ UNCHANGED <<apple_runtime, sock, actual>>
    BY <1>3 DEF Report
  <2>2. CASE Reply(g, TRUE)
    BY <1>1, <2>1, <2>2, FitIsPromise, AnswerKeeps
  <2>3. CASE Continue(g, "failed")
    BY <2>1, <2>3, ContinueKeeps DEF Locked
  <2> QED BY <2>1, <2>2, <2>3
<1> QED BY <1>2, <1>3

LEMMA FailKeeps ==
    ASSUME ReuseInv, NEW g \in Processes, Fail(g) PROVE ReuseInv'
<1>1. /\ actual \in Boxes \cup {NoContainer}
      /\ actual # NoContainer => LabelsTell(actual)
  BY DEF ReuseInv, Types, LabelInv
<1>2. at[g] = "failed" /\ Reply(g, FALSE) /\ UNCHANGED <<apple_runtime, sock>>
  BY DEF Fail
<1>3. \/ actual' = actual \/ actual' = NoContainer
      \/ actual # NoContainer /\ actual' = [actual EXCEPT !.state = "stopped"]
  BY BoxIsThere DEF Fail
<1>4. /\ actual' \in Boxes \cup {NoContainer}
      /\ actual' # NoContainer => LabelsTell(actual')
  <2>1. CASE actual # NoContainer /\ actual' = [actual EXCEPT !.state = "stopped"]
    BY <1>1, <2>1 DEF Boxes, LabelsTell
  <2>2. CASE actual' = actual \/ actual' = NoContainer
    BY <1>1, <1>2, <2>2 DEF LabelsTell
  <2> QED BY <1>3, <2>1, <2>2
<1> QED BY <1>2, <1>4, AnswerKeeps DEF Locked

-----------------------------------------------------------------------------
(* status, without the lock, and the rest of the world.                    *)

LEMMA BeginStatusKeeps ==
    ASSUME ReuseInv, NEW g \in Processes, BeginStatus(g) PROVE ReuseInv'
<1> USE DEF ReuseInv
<1>1. PICK c \in Configs : wanted' = [wanted EXCEPT ![g] = c]
  BY DEF BeginStatus
<1>2. /\ at[g] = "idle" /\ told' = Nothing
      /\ inspect' = [inspect EXCEPT ![g] = actual]
      /\ at' = [at EXCEPT ![g] = "status"]
      /\ UNCHANGED <<apple_runtime, sock, actual, locked_by, prepared, attempted>>
  BY DEF BeginStatus, Goto
<1>3. Types'
  BY <1>1, <1>2 DEF Types, ReuseSteps
<1>4. /\ at'[g] = "status" /\ inspect'[g] = actual
      /\ \A h \in Processes :
            h # g => at'[h] = at[h] /\ wanted'[h] = wanted[h] /\ inspect'[h] = inspect[h]
  BY <1>1, <1>2 DEF Types
<1>5. LabelInv' /\ ReadyAsConfigured'
  BY <1>2, <1>4 DEF LabelInv, LabelsTell, ReadyAsConfigured
<1>6. LockInv'
  BY <1>2, <1>4 DEF LockInv, Locked
<1>7. PreparedInv'
  BY <1>2, <1>4 DEF PreparedInv
<1>8. FitInv'
  BY <1>2, <1>4 DEF FitInv, Fits
<1> QED BY <1>3, <1>5, <1>6, <1>7, <1>8

\* Where no socket is asked for, a container without manifest is what is asked for.
LEMMA StatusPrepareKeeps ==
    ASSUME ReuseInv, NEW g \in Processes, StatusPrepare(g) PROVE ReuseInv'
<1>1. /\ actual \in Boxes \cup {NoContainer}
      /\ actual # NoContainer => LabelsTell(actual)
      /\ inspect[g] \in Boxes \cup {NoContainer} /\ wanted[g] \in Configs
      /\ prepared[g] \in [manifest : Manifests, inode : Inodes] /\ sock \in Inodes
  BY DEF ReuseInv, Types, LabelInv
<1>2. at[g] = "status" /\ UNCHANGED <<apple_runtime, sock, actual>>
  BY DEF StatusPrepare
<1> DEFINE labels == inspect[g].state # "none" => validate_labels(wanted[g], inspect[g])
<1>3. CASE Reply(g, FALSE)
  BY <1>1, <1>2, <1>3, AnswerKeeps
<1>4. CASE /\ labels /\ wanted[g].exposures = {}
           /\ Reply(g, inspect[g].state = "running" /\ inspect[g].manifest = Nothing)
  <2> DEFINE isReady == inspect[g].state = "running" /\ inspect[g].manifest = Nothing
  <2>1. ASSUME isReady PROVE Promised(wanted[g], prepared[g], inspect[g])
    <3>1. inspect[g] \in Boxes /\ LabelsTell(inspect[g]) /\ validate_labels(wanted[g], inspect[g])
      BY <1>1, <1>4, <2>1, BoxIsThere DEF ReuseInv, LabelInv
    <3>2. prepared[g].manifest = Nothing /\ prepared[g].inode = 0
      BY <1>2 DEF ReuseInv, PreparedInv, NoInputs
    <3> QED BY <1>1, <1>4, <2>1, <3>1, <3>2, FitKeepsPromise
            DEF ManifestOf, validate_exposure_manifest
  <2>2. isReady \in BOOLEAN /\ Reply(g, isReady)
    BY <1>4
  <2> HIDE DEF isReady
  <2> QED BY <1>1, <1>2, <2>1, <2>2, AnswerKeeps
<1>5. CASE /\ labels /\ wanted[g].exposures # {} /\ Preparable(wanted[g])
           /\ prepared' = [prepared EXCEPT ![g] = Inputs(wanted[g])]
           /\ Goto(g, "compare")
           /\ UNCHANGED <<locked_by, wanted, inspect, attempted>>
  <2> USE DEF ReuseInv
  <2>1. /\ at' = [at EXCEPT ![g] = "compare"] /\ told' = Nothing
    BY <1>5 DEF Goto
  <2>2. /\ Inputs(wanted[g]) \in [manifest : Manifests, inode : Inodes]
        /\ Inputs(wanted[g]).manifest = ManifestOf(wanted[g], Inputs(wanted[g]).inode)
        /\ wanted[g].exposures = {} => Inputs(wanted[g]).inode = 0
    BY <1>1, InputsTell
  <2>3. Types'
    BY <1>2, <1>5, <2>1, <2>2 DEF Types, ReuseSteps
  <2>4. /\ at'[g] = "compare" /\ prepared'[g] = Inputs(wanted[g])
        /\ \A h \in Processes : h # g => at'[h] = at[h] /\ prepared'[h] = prepared[h]
    BY <1>5, <2>1 DEF Types
  <2>5. LabelInv' /\ ReadyAsConfigured'
    BY <1>2, <1>5, <2>1 DEF LabelInv, LabelsTell, ReadyAsConfigured
  <2>6. LockInv'
    BY <1>5, <2>4 DEF LockInv, Locked
  <2>7. PreparedInv'
    BY <1>5, <2>2, <2>4 DEF PreparedInv
  <2>8. FitInv'
    <3>1. inspect[g] # NoContainer => validate_labels(wanted[g], inspect[g])
      BY <1>1, <1>5, BoxIsThere
    <3> QED BY <1>2, <1>5, <2>4, <3>1 DEF FitInv, Fits
  <2> QED BY <2>3, <2>5, <2>6, <2>7, <2>8
<1> QED BY <1>3, <1>4, <1>5 DEF StatusPrepare

LEMMA CompareKeeps ==
    ASSUME ReuseInv, NEW g \in Processes, Compare(g) \/ Probe(g) \/ Killed(g)
    PROVE  ReuseInv'
<1>1. /\ actual \in Boxes \cup {NoContainer}
      /\ actual # NoContainer => LabelsTell(actual)
  BY DEF ReuseInv, Types, LabelInv
<1>2. UNCHANGED <<apple_runtime, sock, actual>>
  BY DEF Compare, Probe, Killed
<1>3. CASE Reply(g, FALSE)
  BY <1>1, <1>2, <1>3, AnswerKeeps
<1>4. CASE at[g] = "probe" /\ Reply(g, TRUE)
  BY <1>1, <1>2, <1>4, FitIsPromise, AnswerKeeps
<1>5. CASE /\ at[g] = "compare" /\ Continue(g, "probe")
           /\ inspect[g].state = "running"
           /\ validate_exposure_manifest(prepared[g].manifest, inspect[g])
  <2>1. Fits(g)
    BY <1>5, BoxIsThere DEF ReuseInv, FitInv, Fits
  <2> QED BY <1>2, <1>5, <2>1, ContinueKeeps DEF Locked
<1> QED BY <1>3, <1>4, <1>5 DEF Compare, Probe, Killed

\* Stops and removals wait for the lock; nobody holds one whose container is stopped
\* but who starts it.
LEMMA WorldKeeps ==
    ASSUME ReuseInv, StopOrRemove \/ ContainerExits \/ Rebind PROVE ReuseInv'
<1> USE DEF ReuseInv
<1>1. /\ told' = Nothing
      /\ UNCHANGED <<apple_runtime, locked_by, at, wanted, prepared, inspect, attempted>>
  BY DEF StopOrRemove, ContainerExits, Rebind, Silent
<1>2. sock' \in Inodes
  BY DEF StopOrRemove, ContainerExits, Rebind, Types, Inodes
<1>3. \/ actual' = actual
      \/ locked_by = Nothing /\ actual' = NoContainer
      \/ /\ actual # NoContainer /\ (locked_by = Nothing \/ actual.state = "running")
         /\ actual' = [actual EXCEPT !.state = "stopped"]
  BY BoxIsThere DEF StopOrRemove, ContainerExits, Rebind
<1>4. /\ actual' \in Boxes \cup {NoContainer}
      /\ actual' # NoContainer => LabelsTell(actual')
  <2>1. CASE actual # NoContainer /\ actual' = [actual EXCEPT !.state = "stopped"]
    BY <1>1, <2>1 DEF Types, LabelInv, Boxes, LabelsTell
  <2>2. CASE actual' = actual \/ actual' = NoContainer
    BY <1>1, <2>2 DEF Types, LabelInv, LabelsTell
  <2> QED BY <1>3, <2>1, <2>2
<1>5. Types'
  BY <1>1, <1>2, <1>4 DEF Types
<1>6. LabelInv' /\ LockInv' /\ PreparedInv' /\ ReadyAsConfigured'
  BY <1>1, <1>4 DEF LabelInv, LabelsTell, LockInv, PreparedInv, ReadyAsConfigured
<1>7. FitInv'
  <2>1. locked_by = Nothing => \A g \in Processes : at[g] \notin {"start", "started"}
    BY ReuseAssumption DEF LockInv, Locked
  <2>2. ASSUME NEW g \in Processes, at[g] = "start" PROVE actual' = actual
    BY <1>3, <2>1, <2>2 DEF FitInv
  <2>3. ASSUME NEW g \in Processes, at[g] = "started" PROVE actual' # NoContainer
    <3>1. actual # NoContainer /\ locked_by # Nothing
      BY <2>1, <2>3 DEF FitInv
    <3>2. CASE actual' = [actual EXCEPT !.state = "stopped"]
      BY <3>1, <3>2 DEF Types, Boxes, NoContainer
    <3> QED BY <1>3, <3>1, <3>2
  <2> QED BY <1>1, <2>2, <2>3 DEF FitInv, Fits
<1> QED BY <1>5, <1>6, <1>7

LEMMA ReuseStutters == ASSUME ReuseInv, UNCHANGED reuseVars PROVE ReuseInv'
<1> USE DEF ReuseInv, reuseVars
<1>1. Types'
  BY DEF Types
<1>2. LabelInv' /\ LockInv' /\ PreparedInv'
  BY DEF LabelInv, LabelsTell, LockInv, PreparedInv
<1>3. FitInv' /\ ReadyAsConfigured'
  BY DEF FitInv, Fits, ReadyAsConfigured
<1> QED BY <1>1, <1>2, <1>3

LEMMA ReuseInvNext == ReuseInv /\ [ReuseNext]_reuseVars => ReuseInv'
<1> SUFFICES ASSUME ReuseInv, [ReuseNext]_reuseVars PROVE ReuseInv'
  OBVIOUS
<1>1. ASSUME NEW g \in Processes,
             \/ BeginReady(g) \/ Prepare(g) \/ Plan(g) \/ Create(g) \/ Start(g) \/ Started(g)
             \/ Check(g) \/ Report(g) \/ Fail(g)
             \/ BeginStatus(g) \/ StatusPrepare(g) \/ Compare(g) \/ Probe(g)
             \/ Killed(g)
      PROVE  ReuseInv'
  BY <1>1, BeginReadyKeeps, PrepareKeeps, PlanKeeps, CreateKeeps, CheckKeeps, FailKeeps,
     BeginStatusKeeps, StatusPrepareKeeps, CompareKeeps
<1> QED BY <1>1, WorldKeeps, ReuseStutters DEF ReuseNext

LEMMA ReuseInvariant == ReuseSpec => []ReuseInv
<1>1. ReuseInit => ReuseInv
  BY ReuseInvInit
<1>2. ReuseInv /\ [ReuseNext]_reuseVars => ReuseInv'
  BY ReuseInvNext
<1> QED BY <1>1, <1>2, PTL DEF ReuseSpec

\* TypeOK: container, lock and what each operation holds have their types.
THEOREM ReuseTypeCorrect == ReuseSpec => []ReuseTypeOK
<1>1. ReuseInv => ReuseTypeOK
  BY DEF ReuseInv, Types, ReuseTypeOK, Inodes, Boxes, NoContainer
<1>2. ReuseSpec => []ReuseInv
  BY ReuseInvariant
<1> QED BY <1>1, <1>2, PTL

\* ReadyAsConfigured: whoever ensure_ready or status tells that the target is ready
\* saw a container made for the configuration it loaded, that mounts the socket it
\* prepared, however configurations are edited, sockets replaced, containers stopped
\* and gateways killed in between; but for a race between preparation and start.
THEOREM ReadyAsConfiguredThm == ReuseSpec => []ReadyAsConfigured
<1>1. ReuseInv => ReadyAsConfigured
  BY DEF ReuseInv
<1>2. ReuseSpec => []ReuseInv
  BY ReuseInvariant
<1> QED BY <1>1, <1>2, PTL
=============================================================================
