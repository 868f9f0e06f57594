-------------------------- MODULE ExecCancelProofs --------------------------
(***************************************************************************)
(* Proofs about ExecCancel for any commands, gateways and pids: gateways   *)
(* beside each other, and any number of them one after the other with the  *)
(* same pid.                                                               *)
(***************************************************************************)
EXTENDS ExecCancel, FiniteSetTheorems, TLAPS

\* TypeOK in four parts, without the bound of the counter, which is Counter below.
GatewayTypes ==
    /\ gateway \in [Gateways -> {"new", "live", "ready", "dead"}]
    /\ pid \in [Gateways -> {0} \cup Pids]
    /\ sweeper \in Gateways \cup {None}
    /\ stale \subseteq Paths
OperationTypes ==
    /\ kind \in [Commands -> Kinds]
    /\ seq \in [Commands -> Nat]
    /\ op \in [Commands -> Phase]
    /\ result \in [Commands -> {"none", "completed", "canceled"}]
ContainerTypes ==
    /\ client \in [Commands -> {"none", "running", "dead"}]
    /\ cmd \in [Commands -> {"none", "requested", "shell", "running", "gone"}]
    /\ marker \in [Paths -> Commands \cup {None}]
ScriptTypes ==
    /\ script \in [Commands -> [Tries -> Step]]
    /\ victim \in [Commands -> [Tries -> Commands \cup {None}]]
    /\ verdict \in [Commands -> [Tries -> {"open", "ok", "failed"}]]
    /\ missed \subseteq Commands

Types == GatewayTypes /\ OperationTypes /\ ContainerTypes /\ ScriptTypes

IssuedBy(g) == {c \in Commands : Owner[c] = g /\ Started(c)}

\* The counter of a gateway counts the commands it has started, so no two commands
\* of one gateway have the same number.
Counter ==
    /\ \A c \in Commands : seq[c] <= Issued(Owner[c])
    /\ \A c, d \in Commands :
          Owner[c] = Owner[d] /\ Started(c) /\ seq[c] = seq[d] => c = d

Live(g) == gateway[g] \in {"live", "ready"}

\* A process has a pid once it was started, and no two live ones share one.
PidsGiven ==
    /\ \A g \in Gateways : gateway[g] # "new" => pid[g] \in Pids
    /\ \A g \in Gateways : gateway[g] = "new" => pid[g] = 0
    /\ \A g, h \in Gateways : Live(g) /\ Live(h) /\ pid[g] = pid[h] => g = h

\* Who sweeps is not ready yet; a path it is about to remove belongs to no gateway
\* that is, although one may have been given the pid since the listing.
SweepSafe ==
    /\ sweeper = None => stale = {}
    /\ sweeper # None => gateway[sweeper] = "live"
    /\ \A p \in stale : \A g \in Gateways : gateway[g] = "ready" => pid[g] # p[2]

\* An operation that goes on has a gateway that is ready; one that has not begun
\* has left no trace.
UnderWay ==
    /\ \A c \in Commands : op[c] \notin {"idle", "done", "lost"} => gateway[Owner[c]] = "ready"
    /\ \A c \in Commands : op[c] # "idle" => Started(c) /\ gateway[Owner[c]] # "new"
    /\ \A c \in Commands : op[c] = "idle" =>
          ~Started(c) /\ cmd[c] = "none" /\ client[c] = "none"
            /\ \A t \in Tries : script[c][t] = "none"
    /\ \A c \in Commands : op[c] = "spawned" => \A t \in Tries : script[c][t] = "none"

ProcessInv == PidsGiven /\ SweepSafe /\ UnderWay

\* Nothing of a gateway's predecessors with the same pid is under way.
Quiet ==
    \A c \in Commands : \A g \in Gateways :
        Live(g) /\ pid[g] = pid[Owner[c]] /\ g # Owner[c] => ~InFlight(c)

\* A script that has killed has killed its own command.
ScriptInv ==
    \A c \in Commands : \A t \in Tries :
        /\ script[c][t] = "signalled" => victim[c][t] = c
        /\ script[c][t] = "killed" => cmd[c] = "gone"
        /\ script[c][t] = "end" => cmd[c] = "gone" \/ c \in missed

\* What the gateway believes of its scripts, and what it has done so far.
VerdictInv ==
    \A c \in Commands :
        /\ \A t \in Tries : verdict[c][t] = "ok" => script[c][t] = "end"
        /\ op[c] \in {"idle", "spawned", "terminating", "joining"} =>
              \A t \in Tries : verdict[c][t] = "open"
        /\ op[c] = "retrying" => verdict[c][1] = "failed" /\ verdict[c][2] = "open"
        /\ op[c] \in {"idle", "spawned"} => result[c] = "none"
        /\ op[c] = "removing" => result[c] = "completed"

-----------------------------------------------------------------------------
(* Types and the counter                                                    *)

LEMMA PidsAreNumbers == Pids \subseteq Nat \ {0} /\ \A g \in Gateways : PidsOf[g] \subseteq Pids
BY CancelAssumption DEF Pids

\* One of a command's two scripts goes on, or is told its victim.
LEMMA ScriptGoes ==
    ASSUME ScriptTypes, NEW c \in Commands, NEW t \in Tries, NEW v \in Step
    PROVE  [script EXCEPT ![c][t] = v] \in [Commands -> [Tries -> Step]]
BY DEF ScriptTypes

LEMMA VictimNamed ==
    ASSUME ScriptTypes, NEW c \in Commands, NEW t \in Tries, NEW v \in Commands \cup {None}
    PROVE  [victim EXCEPT ![c][t] = v] \in [Commands -> [Tries -> Commands \cup {None}]]
BY DEF ScriptTypes

LEMMA VerdictGiven ==
    ASSUME ScriptTypes, NEW c \in Commands, NEW t \in Tries, NEW v \in {"open", "ok", "failed"}
    PROVE  [verdict EXCEPT ![c][t] = v] \in [Commands -> [Tries -> {"open", "ok", "failed"}]]
BY DEF ScriptTypes

LEMMA ScriptIs ==
    ASSUME ScriptTypes, NEW c \in Commands, NEW t \in Tries, NEW v,
           script' = [script EXCEPT ![c][t] = v]
    PROVE  \A d \in Commands : \A u \in Tries :
              script'[d][u] = IF d = c /\ u = t THEN v ELSE script[d][u]
BY DEF ScriptTypes

\* How an operation that was not canceled goes on when its client has ended.
LEMMA CompleteIs ==
    ASSUME OperationTypes, NEW c \in Commands, Complete(c)
    PROVE  /\ \E next \in {"removing", "draining", "done"} : op' = [op EXCEPT ![c] = next]
           /\ At(c, "spawned") /\ result' = [result EXCEPT ![c] = "completed"]
           /\ UNCHANGED <<gateway, pid, sweeper, stale, kind, seq, client, cmd, marker, script,
                          victim, verdict, missed>>
<1>1. kind[c] \in {"exec", "capture", "pty"}
  BY DEF OperationTypes, Kinds
<1> QED BY <1>1 DEF Complete

LEMMA TypesInit == Init => Types
BY DEF Init, Types, GatewayTypes, OperationTypes, ContainerTypes, ScriptTypes, Phase, Kinds, Step

LEMMA GatewayTypesNext == Types /\ [Next]_vars => GatewayTypes'
<1> SUFFICES ASSUME GatewayTypes, [Next]_vars PROVE GatewayTypes'
  BY DEF Types
<1> USE CancelAssumption DEF GatewayTypes
<1>1. ASSUME NEW g \in Gateways, StartGateway(g) PROVE GatewayTypes'
  BY <1>1, PidsAreNumbers DEF StartGateway
<1>2. ASSUME NEW g \in Gateways, Die(g) PROVE GatewayTypes'
  BY <1>2 DEF Die
<1>3. ASSUME NEW g \in Gateways, SweepList(g) \/ SweepRemove(g) PROVE GatewayTypes'
  BY <1>3 DEF SweepList, SweepRemove
<1>4. ASSUME UNCHANGED <<gateway, pid, sweeper, stale>> PROVE GatewayTypes'
  BY <1>4
<1> HIDE DEF GatewayTypes
<1> QED
  BY <1>1, <1>2, <1>3, <1>4
     DEF Next, vars, GatewayStep, ContainerStep, ScriptStep, Spawn, Cancel, Complete, TerminateHost,
     AwaitHost, Drain, RemoveMarker, JoinCleanup, RetryCleanup, Request, StartShell, CommandExits,
     ClientExits, WriteMarker, ScriptReads, ScriptKills, ScriptRemoves

\* What changes the operations: their gateway.
LEMMA OperationTypesNext == Types /\ [Next]_vars => OperationTypes'
<1> SUFFICES ASSUME OperationTypes, [Next]_vars PROVE OperationTypes'
  BY DEF Types
<1> USE CancelAssumption DEF OperationTypes
<1>1. ASSUME NEW g \in Gateways, Die(g) PROVE OperationTypes'
  BY <1>1 DEF Die, Phase
<1>2. ASSUME NEW c \in Commands, Spawn(c) PROVE OperationTypes'
  <2>1. IssuedBy(Owner[c]) \subseteq Commands
    BY DEF IssuedBy
  <2>2. Issued(Owner[c]) \in Nat
    BY <2>1, FS_Subset, FS_CardinalityType DEF Issued, IssuedBy
  <2> QED BY <1>2, <2>2 DEF Spawn, Phase
<1>3. ASSUME NEW c \in Commands, Cancel(c) \/ TerminateHost(c) \/ AwaitHost(c) \/ Drain(c)
                                    \/ RemoveMarker(c)
      PROVE  OperationTypes'
  BY <1>3 DEF Cancel, TerminateHost, AwaitHost, Drain, RemoveMarker, Phase
<1>4. ASSUME NEW c \in Commands, Complete(c) \/ JoinCleanup(c) \/ RetryCleanup(c)
      PROVE  OperationTypes'
  BY <1>4, CompleteIs DEF Complete, JoinCleanup, RetryCleanup, AfterCleanup, Phase
<1>5. ASSUME UNCHANGED <<kind, seq, op, result>> PROVE OperationTypes'
  BY <1>5
<1> HIDE DEF OperationTypes
<1> QED
  BY <1>1, <1>2, <1>3, <1>4, <1>5
     DEF Next, vars, GatewayStep, ContainerStep, ScriptStep, StartGateway, SweepList, SweepRemove,
     Request, StartShell, CommandExits, ClientExits, WriteMarker, ScriptReads, ScriptKills,
     ScriptRemoves

LEMMA ContainerTypesNext == Types /\ [Next]_vars => ContainerTypes'
<1> SUFFICES ASSUME ContainerTypes, [Next]_vars PROVE ContainerTypes'
  BY DEF Types
<1> USE CancelAssumption DEF ContainerTypes
<1>1. ASSUME NEW g \in Gateways, SweepRemove(g) PROVE ContainerTypes'
  BY <1>1 DEF SweepRemove
<1>2. ASSUME NEW c \in Commands, Spawn(c) \/ TerminateHost(c) \/ RemoveMarker(c)
      PROVE  ContainerTypes'
  BY <1>2 DEF Spawn, TerminateHost, RemoveMarker
<1>3. ASSUME NEW c \in Commands, Request(c) \/ StartShell(c) \/ CommandExits(c) \/ ClientExits(c)
      PROVE  ContainerTypes'
  BY <1>3 DEF Request, StartShell, CommandExits, ClientExits, Container
<1>4. ASSUME NEW c \in Commands, WriteMarker(c) PROVE ContainerTypes'
  BY <1>4 DEF WriteMarker, Container
<1>5. ASSUME NEW c \in Commands, NEW t \in Tries, ScriptKills(c, t) \/ ScriptRemoves(c, t)
      PROVE  ContainerTypes'
  BY <1>5 DEF ScriptKills, ScriptRemoves
<1>6. ASSUME UNCHANGED <<client, cmd, marker>> PROVE ContainerTypes'
  BY <1>6
<1> HIDE DEF ContainerTypes
<1> QED
  BY <1>1, <1>2, <1>3, <1>4, <1>5, <1>6
     DEF Next, vars, GatewayStep, ContainerStep, ScriptStep, StartGateway, Die, SweepList, Cancel,
     Complete, AwaitHost, Drain, JoinCleanup, RetryCleanup, ScriptReads

LEMMA ScriptTypesNext == Types /\ [Next]_vars => ScriptTypes'
<1> SUFFICES ASSUME ScriptTypes, [Next]_vars PROVE ScriptTypes'
  BY DEF Types
<1> USE CancelAssumption
<1>1. 1 \in Tries /\ 2 \in Tries /\ \A v \in {"begun", "signalled", "killed", "end"} : v \in Step
  BY DEF Tries, Step
<1>2. ASSUME NEW c \in Commands, Cancel(c) PROVE ScriptTypes'
  <2>1. script' \in [Commands -> [Tries -> Step]]
    BY <1>1, <1>2, ScriptGoes DEF Cancel
  <2> QED BY <1>2, <2>1 DEF Cancel, ScriptTypes
<1>3. ASSUME NEW c \in Commands, NEW t \in Tries, Answer(c, t)
      PROVE  verdict' \in [Commands -> [Tries -> {"open", "ok", "failed"}]]
  BY <1>3, VerdictGiven DEF Answer
<1>4. ASSUME NEW c \in Commands, JoinCleanup(c) PROVE ScriptTypes'
  <2>1. script' = script \/ script' = [script EXCEPT ![c][2] = "begun"]
    BY <1>4 DEF JoinCleanup
  <2>2. [script EXCEPT ![c][2] = "begun"] \in [Commands -> [Tries -> Step]]
    BY <1>1, ScriptGoes
  <2>3. verdict' \in [Commands -> [Tries -> {"open", "ok", "failed"}]]
    BY <1>1, <1>3, <1>4 DEF JoinCleanup
  <2> QED BY <1>4, <2>1, <2>2, <2>3 DEF JoinCleanup, ScriptTypes
<1>5. ASSUME NEW c \in Commands, RetryCleanup(c) PROVE ScriptTypes'
  <2>1. verdict' \in [Commands -> [Tries -> {"open", "ok", "failed"}]]
    BY <1>1, <1>3, <1>5 DEF RetryCleanup
  <2> QED BY <1>5, <2>1 DEF RetryCleanup, ScriptTypes
<1>6. ASSUME NEW c \in Commands, NEW t \in Tries, ScriptReads(c, t) PROVE ScriptTypes'
  <2>1. \E v \in {"signalled", "end"} : script' = [script EXCEPT ![c][t] = v]
    BY <1>6 DEF ScriptReads
  <2>2. script' \in [Commands -> [Tries -> Step]]
    BY <1>1, <2>1, ScriptGoes
  <2>3. victim' = victim \/ victim' = [victim EXCEPT ![c][t] = c]
    BY <1>6 DEF ScriptReads
  <2>4. [victim EXCEPT ![c][t] = c] \in [Commands -> [Tries -> Commands \cup {None}]]
    BY VictimNamed
  <2>5. missed' \subseteq Commands /\ verdict' = verdict
    BY <1>6 DEF ScriptReads, ScriptTypes
  <2> QED BY <2>2, <2>3, <2>4, <2>5 DEF ScriptTypes
<1>7. ASSUME NEW c \in Commands, NEW t \in Tries, ScriptKills(c, t) \/ ScriptRemoves(c, t)
      PROVE  ScriptTypes'
  <2>1. \E v \in {"killed", "end"} : script' = [script EXCEPT ![c][t] = v]
    BY <1>7 DEF ScriptKills, ScriptRemoves
  <2>2. script' \in [Commands -> [Tries -> Step]]
    BY <1>1, <2>1, ScriptGoes
  <2> QED BY <1>7, <2>2 DEF ScriptKills, ScriptRemoves, ScriptTypes
<1>8. ASSUME UNCHANGED <<script, victim, verdict, missed>> PROVE ScriptTypes'
  BY <1>8 DEF ScriptTypes
<1> QED
  BY <1>2, <1>4, <1>5, <1>6, <1>7, <1>8
     DEF Next, vars, GatewayStep, ContainerStep, ScriptStep, StartGateway, Die, SweepList,
     SweepRemove, Spawn, Complete, RemoveMarker, TerminateHost, AwaitHost, Drain, Request, StartShell,
     WriteMarker, CommandExits, ClientExits

LEMMA TypesNext == Types /\ [Next]_vars => Types'
BY GatewayTypesNext, OperationTypesNext, ContainerTypesNext, ScriptTypesNext DEF Types

\* Starting a command counts one more for its gateway and none for the others.
LEMMA IssuedGrows ==
    ASSUME Types, NEW c \in Commands, ~Started(c), NEW n \in Nat \ {0},
           seq' = [seq EXCEPT ![c] = n]
    PROVE  /\ \A g \in Gateways : Issued(g) \in Nat /\ Issued(g)' \in Nat
           /\ Issued(Owner[c])' = Issued(Owner[c]) + 1
           /\ \A g \in Gateways : g # Owner[c] => Issued(g)' = Issued(g)
<1> DEFINE Old(g) == {d \in Commands : Owner[d] = g /\ seq[d] > 0}
           New(g) == {d \in Commands : Owner[d] = g /\ seq'[d] > 0}
<1>1. \A g \in Gateways : Issued(g) = Cardinality(Old(g)) /\ Issued(g)' = Cardinality(New(g))
  BY DEF Issued, Started
<1>2. New(Owner[c]) = Old(Owner[c]) \cup {c} /\ c \notin Old(Owner[c])
  BY DEF Types, OperationTypes, Started
<1>3. \A g \in Gateways : g # Owner[c] => New(g) = Old(g)
  BY DEF Types, OperationTypes
<1>4. \A g \in Gateways : IsFiniteSet(Old(g)) /\ IsFiniteSet(New(g))
  BY CancelAssumption, FS_Subset
<1>5. Owner[c] \in Gateways
  BY CancelAssumption
<1> HIDE DEF Old, New
<1>6. Cardinality(New(Owner[c])) = Cardinality(Old(Owner[c])) + 1
  BY <1>2, <1>4, <1>5, FS_AddElement
<1>7. \A g \in Gateways : Cardinality(Old(g)) \in Nat /\ Cardinality(New(g)) \in Nat
  BY <1>4, FS_CardinalityType
<1> QED BY <1>1, <1>3, <1>5, <1>6, <1>7

LEMMA CounterInit == Init => Counter
<1> SUFFICES ASSUME Init PROVE Counter
  OBVIOUS
<1>1. ASSUME NEW c \in Commands PROVE Issued(Owner[c]) \in Nat
  <2>1. IssuedBy(Owner[c]) \subseteq Commands
    BY DEF IssuedBy
  <2> QED BY <2>1, CancelAssumption, FS_Subset, FS_CardinalityType DEF Issued, IssuedBy
<1> QED BY <1>1 DEF Init, Counter, Started

\* Only Spawn moves the counter.
LEMMA SeqMoves ==
    ASSUME [Next]_vars
    PROVE  seq' = seq \/ \E c \in Commands : Spawn(c)
BY DEF Next, vars, StartGateway, Die, SweepList, SweepRemove, GatewayStep, ContainerStep,
   ScriptStep, Cancel, Complete, TerminateHost, AwaitHost, Drain, RemoveMarker, JoinCleanup,
   RetryCleanup, Request, StartShell, CommandExits, ClientExits, WriteMarker, ScriptReads,
   ScriptKills, ScriptRemoves

LEMMA CounterNext == Types /\ Counter /\ UnderWay /\ [Next]_vars => Counter'
<1> SUFFICES ASSUME Types, Counter, UnderWay, [Next]_vars PROVE Counter'
  OBVIOUS
<1>1. CASE seq' = seq
  BY <1>1 DEF Counter, Issued, Started
<1>2. ASSUME NEW c \in Commands, Spawn(c) PROVE Counter'
  <2>1. Owner[c] \in Gateways /\ \A d \in Commands : Owner[d] \in Gateways
    BY CancelAssumption
  <2>2. ~Started(c)
    BY <1>2 DEF Spawn, At, UnderWay
  <2>3. Issued(Owner[c]) \in Nat
    <3>1. IssuedBy(Owner[c]) \subseteq Commands
      BY DEF IssuedBy
    <3> QED BY <3>1, CancelAssumption, FS_Subset, FS_CardinalityType DEF Issued, IssuedBy
  <2>4. seq' = [seq EXCEPT ![c] = Issued(Owner[c]) + 1]
    BY <1>2 DEF Spawn
  <2>5. /\ \A g \in Gateways : Issued(g) \in Nat /\ Issued(g)' \in Nat
        /\ Issued(Owner[c])' = Issued(Owner[c]) + 1
        /\ \A g \in Gateways : g # Owner[c] => Issued(g)' = Issued(g)
    <3>1. Issued(Owner[c]) + 1 \in Nat \ {0}
      BY <2>3
    <3> HIDE DEF Issued
    <3> QED BY <2>2, <2>4, <3>1, IssuedGrows
  <2>6. \A d \in Commands : seq'[d] = IF d = c THEN Issued(Owner[c]) + 1 ELSE seq[d]
    BY <2>4 DEF Types, OperationTypes
  <2>7. \A d \in Commands : seq'[d] <= Issued(Owner[d])'
    BY <2>1, <2>5, <2>6 DEF Counter, Types, OperationTypes
  <2>8. ASSUME NEW d \in Commands, NEW e \in Commands, Owner[d] = Owner[e], Started(d)',
               seq'[d] = seq'[e]
        PROVE  d = e
    BY <2>1, <2>5, <2>6, <2>8 DEF Counter, Types, OperationTypes, Started
  <2> QED BY <2>7, <2>8 DEF Counter, Started
<1> QED BY <1>1, <1>2, SeqMoves

\* A started command has a path.
LEMMA PathsExist ==
    ASSUME Types, Counter, UnderWay, PidsGiven, NEW c \in Commands, Started(c)
    PROVE  Path(c) \in Paths
<1>1. IssuedBy(Owner[c]) \subseteq Commands
  BY DEF IssuedBy
<1>2. Issued(Owner[c]) <= Cardinality(Commands) /\ Issued(Owner[c]) \in Nat
      /\ Cardinality(Commands) \in Nat
  BY <1>1, CancelAssumption, FS_Subset, FS_CardinalityType DEF Issued, IssuedBy
<1>3. seq[c] \in 1 .. Cardinality(Commands)
  BY <1>2 DEF Counter, Types, OperationTypes, Started
<1>4. pid[Owner[c]] \in Pids
  BY CancelAssumption DEF UnderWay, PidsGiven
<1> QED BY <1>3, <1>4 DEF Path, Paths, Types, OperationTypes

-----------------------------------------------------------------------------
(* Processes                                                                *)

LEMMA ProcessInit == Init => ProcessInv
BY CancelAssumption DEF Init, ProcessInv, PidsGiven, SweepSafe, UnderWay, Started, Live, Tries

\* Pids change when a gateway starts, and no one else is live with the one it gets.
LEMMA PidsGivenNext == Types /\ ProcessInv /\ [Next]_vars => PidsGiven'
<1> SUFFICES ASSUME GatewayTypes, PidsGiven, SweepSafe, [Next]_vars PROVE PidsGiven'
  BY DEF Types, ProcessInv
<1> USE DEF GatewayTypes
<1>1. ASSUME NEW g \in Gateways, StartGateway(g) PROVE PidsGiven'
  BY <1>1, PidsAreNumbers DEF StartGateway, Active, PidsGiven, Live
<1>2. ASSUME NEW g \in Gateways, Die(g) PROVE PidsGiven'
  BY <1>2 DEF Die, PidsGiven, Live
<1>3. ASSUME NEW g \in Gateways, SweepRemove(g) PROVE PidsGiven'
  BY <1>3, CancelAssumption DEF SweepRemove, SweepSafe, PidsGiven, Live
<1>4. ASSUME UNCHANGED <<gateway, pid>> PROVE PidsGiven'
  BY <1>4 DEF PidsGiven, Live
<1> QED
  BY <1>1, <1>2, <1>3, <1>4
     DEF Next, vars, GatewayStep, ContainerStep, ScriptStep, SweepList, Spawn, Cancel, Complete,
     TerminateHost, AwaitHost, Drain, RemoveMarker, JoinCleanup, RetryCleanup, Request, StartShell,
     CommandExits, ClientExits, WriteMarker, ScriptReads, ScriptKills, ScriptRemoves

\* A gateway that is given the pid of a stale path is not ready before the next
\* sweep, which is its own.
LEMMA SweepSafeNext == Types /\ ProcessInv /\ [Next]_vars => SweepSafe'
<1> SUFFICES ASSUME GatewayTypes, PidsGiven, SweepSafe, [Next]_vars PROVE SweepSafe'
  BY DEF Types, ProcessInv
<1> USE CancelAssumption DEF GatewayTypes, SweepSafe
<1>1. ASSUME NEW g \in Gateways, StartGateway(g) PROVE SweepSafe'
  BY <1>1 DEF StartGateway
<1>2. ASSUME NEW g \in Gateways, Die(g) PROVE SweepSafe'
  BY <1>2 DEF Die
<1>3. ASSUME NEW g \in Gateways, SweepList(g) PROVE SweepSafe'
  BY <1>3 DEF SweepList, Active
<1>4. ASSUME NEW g \in Gateways, SweepRemove(g) PROVE SweepSafe'
  BY <1>4 DEF SweepRemove
<1>5. ASSUME UNCHANGED <<gateway, pid, sweeper, stale>> PROVE SweepSafe'
  BY <1>5
<1> HIDE DEF GatewayTypes, SweepSafe
<1> QED
  BY <1>1, <1>2, <1>3, <1>4, <1>5
     DEF Next, vars, GatewayStep, ContainerStep, ScriptStep, Spawn, Cancel, Complete,
     TerminateHost, AwaitHost, Drain, RemoveMarker, JoinCleanup, RetryCleanup, Request, StartShell,
     CommandExits, ClientExits, WriteMarker, ScriptReads, ScriptKills, ScriptRemoves

LEMMA UnderWayNext == Types /\ ProcessInv /\ ScriptInv /\ [Next]_vars => UnderWay'
<1> SUFFICES ASSUME Types, PidsGiven, SweepSafe, UnderWay, ScriptInv, [Next]_vars PROVE UnderWay'
  BY DEF ProcessInv
<1> USE CancelAssumption DEF Types, GatewayTypes, OperationTypes, UnderWay, Started, Phase
<1>1. ASSUME NEW g \in Gateways, StartGateway(g) PROVE UnderWay'
  BY <1>1 DEF StartGateway
<1>2. ASSUME NEW g \in Gateways, Die(g) PROVE UnderWay'
  BY <1>2 DEF Die
<1>3. ASSUME NEW g \in Gateways, SweepRemove(g) PROVE UnderWay'
  BY <1>3 DEF SweepRemove, SweepSafe
<1>4. ASSUME NEW c \in Commands, Spawn(c) PROVE UnderWay'
  <2>1. IssuedBy(Owner[c]) \subseteq Commands
    BY DEF IssuedBy
  <2>2. Issued(Owner[c]) \in Nat
    BY <2>1, FS_Subset, FS_CardinalityType DEF Issued, IssuedBy
  <2> QED BY <1>4, <2>2 DEF Spawn, At, ContainerTypes
<1>5. ASSUME NEW c \in Commands, Complete(c) \/ RemoveMarker(c) \/ AwaitHost(c) \/ Drain(c)
      PROVE  UnderWay'
  <2>1. CASE Complete(c)
    BY <2>1, CompleteIs DEF At
  <2>2. CASE RemoveMarker(c) \/ AwaitHost(c) \/ Drain(c)
    BY <2>2 DEF RemoveMarker, AwaitHost, Drain, At
  <2> QED BY <1>5, <2>1, <2>2
<1>6. ASSUME NEW c \in Commands, TerminateHost(c) PROVE UnderWay'
  BY <1>6 DEF TerminateHost, At, ContainerTypes
<1>7. ASSUME NEW c \in Commands, Cancel(c) PROVE UnderWay'
  BY <1>7 DEF Cancel, At, ScriptTypes
<1>8. ASSUME NEW c \in Commands, JoinCleanup(c) PROVE UnderWay'
  <2>1. \A d \in Commands : \A u \in Tries : d # c => script'[d][u] = script[d][u]
    <3>1. script' = script \/ script' = [script EXCEPT ![c][2] = "begun"]
      BY <1>8 DEF JoinCleanup
    <3>2. 2 \in Tries
      BY DEF Tries
    <3> QED BY <3>1, <3>2 DEF ScriptTypes
  <2> QED BY <1>8, <2>1 DEF JoinCleanup, At, AfterCleanup
<1>9. ASSUME NEW c \in Commands, RetryCleanup(c) PROVE UnderWay'
  BY <1>9 DEF RetryCleanup, At, AfterCleanup
<1>10. ASSUME NEW c \in Commands, Request(c) \/ StartShell(c) \/ CommandExits(c) \/ ClientExits(c)
       PROVE  UnderWay'
  BY <1>10 DEF Request, StartShell, CommandExits, ClientExits, Container, ContainerTypes
<1>11. ASSUME NEW c \in Commands, WriteMarker(c) PROVE UnderWay'
  BY <1>11 DEF WriteMarker, Container, ContainerTypes
<1>12. ASSUME NEW c \in Commands, NEW t \in Tries, ScriptReads(c, t) PROVE UnderWay'
  <2>1. \A d \in Commands : \A u \in Tries : d # c => script'[d][u] = script[d][u]
    <3>1. \E v \in {"signalled", "end"} : script' = [script EXCEPT ![c][t] = v]
      BY <1>12 DEF ScriptReads
    <3> QED BY <3>1 DEF ScriptTypes
  <2> QED BY <1>12, <2>1 DEF ScriptReads
<1>13. ASSUME NEW c \in Commands, NEW t \in Tries, ScriptKills(c, t) PROVE UnderWay'
  <2>1. \A d \in Commands : \A u \in Tries : d # c => script'[d][u] = script[d][u]
    <3>1. script' = [script EXCEPT ![c][t] = "killed"]
      BY <1>13 DEF ScriptKills
    <3> QED BY <3>1 DEF ScriptTypes
  <2>2. cmd' = [cmd EXCEPT ![c] = "gone"]
    <3>1. victim[c][t] = c
      BY <1>13 DEF ScriptKills, ScriptInv
    <3>2. cmd' = [cmd EXCEPT ![victim[c][t]] = "gone"]
      BY <1>13 DEF ScriptKills
    <3> QED BY <3>1, <3>2
  <2> QED BY <1>13, <2>1, <2>2 DEF ScriptKills, ContainerTypes
<1>14. ASSUME NEW c \in Commands, NEW t \in Tries, ScriptRemoves(c, t) PROVE UnderWay'
  BY <1>14 DEF ScriptRemoves, ScriptTypes
<1>15. ASSUME UNCHANGED <<gateway, seq, op, cmd, client, script>> PROVE UnderWay'
  BY <1>15
<1> HIDE DEF Types, UnderWay
<1> QED
  BY <1>1, <1>2, <1>3, <1>4, <1>5, <1>6, <1>7, <1>8, <1>9, <1>10, <1>11, <1>12, <1>13, <1>14, <1>15
     DEF Next, vars, GatewayStep, ContainerStep, ScriptStep, SweepList

-----------------------------------------------------------------------------
(* Scripts                                                                  *)

LEMMA ScriptInit == Init => ScriptInv /\ VerdictInv
BY DEF Init, ScriptInv, VerdictInv, Tries

\* A command that is gone stays gone, a script that missed has missed.
LEMMA GoneForGood ==
    ASSUME Types, ScriptInv, [Next]_vars
    PROVE  /\ \A c \in Commands : cmd[c] = "gone" => cmd'[c] = "gone"
           /\ missed \subseteq missed'
<1> USE DEF Types, ContainerTypes
<1>1. ASSUME NEW c \in Commands, Request(c) \/ StartShell(c) \/ CommandExits(c) \/ WriteMarker(c)
      PROVE  (\A d \in Commands : cmd[d] = "gone" => cmd'[d] = "gone") /\ missed' = missed
  BY <1>1 DEF Request, StartShell, CommandExits, WriteMarker, Container
<1>2. ASSUME NEW c \in Commands, NEW t \in Tries, ScriptKills(c, t)
      PROVE  (\A d \in Commands : cmd[d] = "gone" => cmd'[d] = "gone") /\ missed' = missed
  BY <1>2 DEF ScriptKills
<1>3. ASSUME NEW c \in Commands, NEW t \in Tries, ScriptReads(c, t)
      PROVE  cmd' = cmd /\ missed \subseteq missed'
  BY <1>3 DEF ScriptReads
<1> HIDE DEF Types, ContainerTypes
<1> QED
  BY <1>1, <1>2, <1>3
     DEF Next, vars, GatewayStep, ContainerStep, ScriptStep, StartGateway, Die, SweepList,
     SweepRemove, Spawn, Cancel, Complete, TerminateHost, AwaitHost, Drain, RemoveMarker, JoinCleanup,
     RetryCleanup, ClientExits, ScriptRemoves

LEMMA ScriptNext == Types /\ ScriptInv /\ [Next]_vars => ScriptInv'
<1> SUFFICES ASSUME Types, ScriptTypes, ScriptInv, [Next]_vars PROVE ScriptInv'
  BY DEF Types
<1>0. /\ \A c \in Commands : cmd[c] = "gone" => cmd'[c] = "gone"
      /\ missed \subseteq missed'
  BY GoneForGood
<1>1. ASSUME NEW c \in Commands, Cancel(c) PROVE ScriptInv'
  <2>1. \A d \in Commands : \A u \in Tries :
           script'[d][u] = IF d = c /\ u = 1 THEN "begun" ELSE script[d][u]
    <3>1. script' = [script EXCEPT ![c][1] = "begun"] /\ 1 \in Tries
      BY <1>1 DEF Cancel, Tries
    <3> QED BY <3>1 DEF ScriptTypes
  <2> QED BY <1>0, <1>1, <2>1 DEF Cancel, ScriptInv
<1>2. ASSUME NEW c \in Commands, JoinCleanup(c) PROVE ScriptInv'
  <2>1. CASE script' = script
    BY <1>0, <1>2, <2>1 DEF JoinCleanup, ScriptInv
  <2>2. CASE script' = [script EXCEPT ![c][2] = "begun"]
    <3>1. \A d \in Commands : \A u \in Tries :
             script'[d][u] = IF d = c /\ u = 2 THEN "begun" ELSE script[d][u]
      <4>1. 2 \in Tries
        BY DEF Tries
      <4> QED BY <2>2, <4>1 DEF ScriptTypes
    <3> QED BY <1>0, <1>2, <3>1 DEF JoinCleanup, ScriptInv
  <2> QED BY <1>2, <2>1, <2>2 DEF JoinCleanup
<1>3. ASSUME NEW c \in Commands, NEW t \in Tries, ScriptReads(c, t) PROVE ScriptInv'
  <2>1. CASE marker[Path(c)] = c
    <3>1. \A d \in Commands : \A u \in Tries :
             script'[d][u] = IF d = c /\ u = t THEN "signalled" ELSE script[d][u]
      BY <1>3, <2>1, ScriptIs DEF ScriptReads
    <3>2. \A d \in Commands : \A u \in Tries :
             victim'[d][u] = IF d = c /\ u = t THEN c ELSE victim[d][u]
      BY <1>3, <2>1 DEF ScriptReads, ScriptTypes
    <3> QED BY <1>0, <3>1, <3>2 DEF ScriptInv
  <2>2. CASE marker[Path(c)] # c
    <3>1. \A d \in Commands : \A u \in Tries :
             script'[d][u] = IF d = c /\ u = t THEN "end" ELSE script[d][u]
      BY <1>3, <2>2, ScriptIs DEF ScriptReads
    <3>2. victim' = victim /\ c \in missed'
      BY <1>3, <2>2 DEF ScriptReads
    <3> QED BY <1>0, <3>1, <3>2 DEF ScriptInv
  <2> QED BY <2>1, <2>2
<1>4. ASSUME NEW c \in Commands, NEW t \in Tries, ScriptKills(c, t) PROVE ScriptInv'
  <2>1. \A d \in Commands : \A u \in Tries :
           script'[d][u] = IF d = c /\ u = t THEN "killed" ELSE script[d][u]
    <3>1. script' = [script EXCEPT ![c][t] = "killed"]
      BY <1>4 DEF ScriptKills
    <3> QED BY <3>1 DEF ScriptTypes
  <2>2. cmd'[c] = "gone"
    BY <1>4 DEF ScriptKills, ScriptInv, Types, ContainerTypes
  <2> QED BY <1>0, <1>4, <2>1, <2>2 DEF ScriptKills, ScriptInv
<1>5. ASSUME NEW c \in Commands, NEW t \in Tries, ScriptRemoves(c, t) PROVE ScriptInv'
  <2>1. \A d \in Commands : \A u \in Tries :
           script'[d][u] = IF d = c /\ u = t THEN "end" ELSE script[d][u]
    <3>1. script' = [script EXCEPT ![c][t] = "end"]
      BY <1>5 DEF ScriptRemoves
    <3> QED BY <3>1 DEF ScriptTypes
  <2> QED BY <1>0, <1>5, <2>1 DEF ScriptRemoves, ScriptInv
<1>6. ASSUME UNCHANGED <<script, victim>> PROVE ScriptInv'
  BY <1>0, <1>6 DEF ScriptInv
<1> QED
  BY <1>1, <1>2, <1>3, <1>4, <1>5, <1>6
     DEF Next, vars, GatewayStep, ContainerStep, ScriptStep, StartGateway, Die, SweepList,
     SweepRemove, Spawn, Complete, RemoveMarker, TerminateHost, AwaitHost, Drain, RetryCleanup, Request,
     StartShell, WriteMarker, CommandExits, ClientExits

\* Verdicts are given by Answer, one at a time.
LEMMA AnswerIs ==
    ASSUME ScriptTypes, NEW c \in Commands, NEW t \in Tries, Answer(c, t)
    PROVE  /\ \A d \in Commands : \A u \in Tries :
                 ~(d = c /\ u = t) => verdict'[d][u] = verdict[d][u]
           /\ verdict'[c][t] \in {"ok", "failed"}
           /\ verdict'[c][t] = "ok" => script[c][t] = "end"
BY DEF ScriptTypes, Answer

LEMMA VerdictNext == Types /\ ScriptInv /\ UnderWay /\ VerdictInv /\ [Next]_vars => VerdictInv'
<1> SUFFICES ASSUME Types, OperationTypes, ScriptTypes, UnderWay, VerdictInv, [Next]_vars
             PROVE  VerdictInv'
  BY DEF Types
<1>0. 1 \in Tries /\ 2 \in Tries /\ 1 # 2 /\ \A t \in Tries : t = 1 \/ t = 2
  BY DEF Tries
<1>1. ASSUME NEW g \in Gateways, Die(g) PROVE VerdictInv'
  BY <1>1 DEF Die, VerdictInv, OperationTypes
<1>2. ASSUME NEW c \in Commands, Spawn(c) \/ Complete(c) \/ RemoveMarker(c) \/ TerminateHost(c)
                                    \/ AwaitHost(c) \/ Drain(c)
      PROVE  VerdictInv'
  <2>1. CASE Complete(c)
    BY <2>1, CompleteIs DEF At, VerdictInv, OperationTypes
  <2>2. CASE Spawn(c) \/ RemoveMarker(c) \/ TerminateHost(c) \/ AwaitHost(c) \/ Drain(c)
    BY <2>2 DEF Spawn, RemoveMarker, TerminateHost, AwaitHost, Drain, At, VerdictInv, OperationTypes
  <2> QED BY <1>2, <2>1, <2>2
<1>3. ASSUME NEW c \in Commands, Cancel(c) PROVE VerdictInv'
  <2>1. \A d \in Commands : \A u \in Tries : d # c => script'[d][u] = script[d][u]
    BY <1>3 DEF Cancel, ScriptTypes
  <2> QED BY <1>3, <2>1 DEF Cancel, At, VerdictInv, OperationTypes
<1>4. ASSUME NEW c \in Commands, JoinCleanup(c) PROVE VerdictInv'
  <2>1. /\ \A d \in Commands : \A u \in Tries :
              ~(d = c /\ u = 1) => verdict'[d][u] = verdict[d][u]
        /\ verdict'[c][1] \in {"ok", "failed"}
        /\ verdict'[c][1] = "ok" => script[c][1] = "end"
    BY <1>0, <1>4, AnswerIs DEF JoinCleanup
  <2>2. op[c] = "joining" /\ verdict[c][2] = "open"
    BY <1>0, <1>4 DEF JoinCleanup, At, VerdictInv
  <2>3. \A d \in Commands : d # c => op'[d] = op[d] /\ result'[d] = result[d]
    BY <1>4 DEF JoinCleanup, OperationTypes
  <2>4. CASE verdict'[c][1] = "ok"
    <3>1. script' = script /\ op'[c] \in {"waiting", "draining", "done"}
      BY <1>4, <2>4 DEF JoinCleanup, AfterCleanup, OperationTypes
    <3> QED BY <1>0, <2>1, <2>2, <2>3, <2>4, <3>1 DEF VerdictInv
  <2>5. CASE verdict'[c][1] # "ok"
    <3>1. op'[c] = "retrying"
      BY <1>4, <2>5 DEF JoinCleanup, OperationTypes
    <3>2. \A d \in Commands : \A u \in Tries : d # c => script'[d][u] = script[d][u]
      BY <1>4, <2>5 DEF JoinCleanup, ScriptTypes
    <3> QED BY <1>0, <2>1, <2>2, <2>3, <2>5, <3>1, <3>2 DEF VerdictInv
  <2> QED BY <2>4, <2>5
<1>5. ASSUME NEW c \in Commands, RetryCleanup(c) PROVE VerdictInv'
  <2>1. /\ \A d \in Commands : \A u \in Tries :
              ~(d = c /\ u = 2) => verdict'[d][u] = verdict[d][u]
        /\ verdict'[c][2] \in {"ok", "failed"}
        /\ verdict'[c][2] = "ok" => script[c][2] = "end"
    BY <1>0, <1>5, AnswerIs DEF RetryCleanup
  <2>2. op'[c] \in {"waiting", "draining", "done"} /\ \A d \in Commands : d # c => op'[d] = op[d]
    BY <1>5 DEF RetryCleanup, AfterCleanup, OperationTypes
  <2>3. script' = script /\ result' = result
    BY <1>5 DEF RetryCleanup
  <2> QED BY <1>0, <2>1, <2>2, <2>3 DEF VerdictInv
<1>6. ASSUME NEW c \in Commands, NEW t \in Tries,
             ScriptReads(c, t) \/ ScriptKills(c, t) \/ ScriptRemoves(c, t)
      PROVE  VerdictInv'
  <2>1. /\ script[c][t] # "end"
        /\ \A d \in Commands : \A u \in Tries : ~(d = c /\ u = t) => script'[d][u] = script[d][u]
    <3>1. CASE ScriptReads(c, t)
      BY <3>1 DEF ScriptReads, ScriptTypes
    <3>2. CASE ScriptKills(c, t)
      BY <3>2 DEF ScriptKills, ScriptTypes
    <3>3. CASE ScriptRemoves(c, t)
      BY <3>3 DEF ScriptRemoves, ScriptTypes
    <3> QED BY <1>6, <3>1, <3>2, <3>3
  <2>2. verdict' = verdict /\ op' = op /\ result' = result
    BY <1>6 DEF ScriptReads, ScriptKills, ScriptRemoves
  <2> QED BY <2>1, <2>2 DEF VerdictInv
<1>7. ASSUME UNCHANGED <<op, result, script, verdict>> PROVE VerdictInv'
  BY <1>7 DEF VerdictInv
<1> QED
  BY <1>1, <1>2, <1>3, <1>4, <1>5, <1>6, <1>7
     DEF Next, vars, GatewayStep, ContainerStep, ScriptStep, StartGateway, SweepList,
     SweepRemove, Request, StartShell, WriteMarker, CommandExits, ClientExits

-----------------------------------------------------------------------------
(* What a gateway's predecessors with its pid have left                     *)

LEMMA QuietInit == Init => Quiet
BY DEF Init, Quiet, Live

\* A command whose gateway is not ready, and of which nothing is under way, stays so.
LEMMA StaysQuiet ==
    ASSUME Types, UnderWay, [Next]_vars, NEW c \in Commands, ~InFlight(c),
           gateway[Owner[c]] # "ready"
    PROVE  ~InFlight(c)'
<1> USE DEF InFlight
<1>1. ASSUME NEW d \in Commands, Spawn(d) \/ Cancel(d) \/ GatewayStep(d) \/ Drain(d)
      PROVE  ~InFlight(c)'
  <2>1. d # c /\ gateway[Owner[d]] = "ready"
    BY <1>1 DEF Spawn, Cancel, GatewayStep, Complete, RemoveMarker, TerminateHost, JoinCleanup,
       RetryCleanup, AwaitHost, Drain, At
  <2>2. cmd' = cmd /\ client'[c] = client[c]
    BY <1>1, <2>1 DEF Types, ContainerTypes, Spawn, Cancel, GatewayStep, Complete, RemoveMarker,
       TerminateHost, JoinCleanup, RetryCleanup, AwaitHost, Drain
  <2>3. \A t \in Tries : script'[c][t] = script[c][t]
    <3>1. CASE Cancel(d)
      BY <2>1, <3>1 DEF Types, ScriptTypes, Cancel
    <3>2. CASE JoinCleanup(d)
      <4>1. script' = script \/ script' = [script EXCEPT ![d][2] = "begun"]
        BY <3>2 DEF JoinCleanup
      <4> QED BY <2>1, <4>1 DEF Types, ScriptTypes
    <3>3. CASE script' = script
      BY <3>3
    <3> QED BY <1>1, <3>1, <3>2, <3>3 DEF Spawn, GatewayStep, Complete, RemoveMarker,
       TerminateHost, RetryCleanup, AwaitHost, Drain
  <2> QED BY <2>2, <2>3
<1>2. ASSUME NEW d \in Commands,
             Request(d) \/ StartShell(d) \/ WriteMarker(d) \/ CommandExits(d) \/ ClientExits(d)
      PROVE  ~InFlight(c)'
  BY <1>2 DEF Request, StartShell, WriteMarker, CommandExits, ClientExits, Container, Types,
     ContainerTypes
<1>3. ASSUME NEW d \in Commands, NEW t \in Tries,
             ScriptReads(d, t) \/ ScriptKills(d, t) \/ ScriptRemoves(d, t)
      PROVE  ~InFlight(c)'
  <2>1. d # c
    BY <1>3 DEF ScriptReads, ScriptKills, ScriptRemoves
  <2>2. \A u \in Tries : script'[c][u] = script[c][u]
    <3>1. CASE ScriptReads(d, t)
      BY <2>1, <3>1 DEF ScriptReads, Types, ScriptTypes
    <3>2. CASE ScriptKills(d, t)
      BY <2>1, <3>2 DEF ScriptKills, Types, ScriptTypes
    <3>3. CASE ScriptRemoves(d, t)
      BY <2>1, <3>3 DEF ScriptRemoves, Types, ScriptTypes
    <3> QED BY <1>3, <3>1, <3>2, <3>3
  <2>3. client' = client /\ (cmd'[c] = cmd[c] \/ cmd'[c] = "gone")
    BY <1>3 DEF ScriptReads, ScriptKills, ScriptRemoves, Types, ContainerTypes
  <2> QED BY <2>2, <2>3
<1>4. ASSUME UNCHANGED <<client, cmd, script>> PROVE ~InFlight(c)'
  BY <1>4
<1> HIDE DEF InFlight
<1> QED
  BY <1>1, <1>2, <1>3, <1>4
     DEF Next, vars, ContainerStep, ScriptStep, StartGateway, Die, SweepList, SweepRemove

LEMMA QuietNext == Types /\ ProcessInv /\ Quiet /\ [Next]_vars => Quiet'
<1> SUFFICES ASSUME Types, GatewayTypes, ProcessInv, Quiet, [Next]_vars,
                    NEW c \in Commands, NEW g \in Gateways,
                    Live(g)', pid'[g] = pid'[Owner[c]], g # Owner[c]
             PROVE  ~InFlight(c)'
  BY DEF Types, Quiet
<1>0. Owner[c] \in Gateways
  BY CancelAssumption
<1>1. ASSUME NEW h \in Gateways, StartGateway(h) PROVE ~InFlight(c)'
  <2>1. InFlight(c)' <=> InFlight(c)
    BY <1>1 DEF StartGateway, InFlight
  <2>2. PICK n \in PidsOf[h] : /\ ~Active(n)
                               /\ \A d \in Commands : pid[Owner[d]] = n => ~InFlight(d)
                               /\ pid' = [pid EXCEPT ![h] = n]
    BY <1>1 DEF StartGateway
  <2>3. gateway' = [gateway EXCEPT ![h] = "live"]
    BY <1>1 DEF StartGateway
  <2>4. CASE h = g
    BY <1>0, <2>1, <2>2, <2>4 DEF GatewayTypes
  <2>5. CASE h = Owner[c]
    <3>1. Active(n)
      BY <1>0, <2>2, <2>3, <2>5 DEF GatewayTypes, Active, Live
    <3> QED BY <2>2, <3>1
  <2>6. CASE h # g /\ h # Owner[c]
    BY <1>0, <2>1, <2>2, <2>3, <2>6 DEF GatewayTypes, Quiet, Live
  <2> QED BY <2>4, <2>5, <2>6
<1>2. ASSUME pid' = pid, \A h \in Gateways : Live(h)' => Live(h) PROVE ~InFlight(c)'
  <2>1. ~InFlight(c)
    BY <1>2 DEF Quiet
  <2>2. gateway[Owner[c]] # "ready"
    BY <1>0, <1>2 DEF ProcessInv, PidsGiven, Live
  <2> QED BY <2>1, <2>2, StaysQuiet DEF ProcessInv
<1>3. ASSUME NEW h \in Gateways, Die(h) \/ SweepList(h) \/ SweepRemove(h)
      PROVE  pid' = pid /\ \A x \in Gateways : Live(x)' => Live(x)
  BY <1>3, CancelAssumption DEF Die, SweepList, SweepRemove, Live, GatewayTypes, ProcessInv, SweepSafe
<1>4. ASSUME UNCHANGED <<gateway, pid>>
      PROVE  pid' = pid /\ \A x \in Gateways : Live(x)' => Live(x)
  BY <1>4 DEF Live
<1> QED
  BY <1>1, <1>2, <1>3, <1>4
     DEF Next, vars, GatewayStep, ContainerStep, ScriptStep, Spawn, Cancel, Complete,
     TerminateHost, AwaitHost, Drain, RemoveMarker, JoinCleanup, RetryCleanup, Request, StartShell,
     CommandExits, ClientExits, WriteMarker, ScriptReads, ScriptKills, ScriptRemoves

-----------------------------------------------------------------------------
(* Markers                                                                  *)

Supervised(c) == op[c] \in {"spawned", "terminating", "joining", "retrying"} /\ cmd[c] = "running"

\* No other command of which something is under way has the path of a command
\* that is supervised: one of the same gateway has another number, one of
\* another gateway another pid.
LEMMA PathIsOwn ==
    ASSUME Types, Counter, ProcessInv, Quiet, NEW c \in Commands, NEW d \in Commands,
           Supervised(c), InFlight(d), c # d
    PROVE  Path(c) # Path(d)
<1>1. Owner[c] \in Gateways /\ Owner[d] \in Gateways
  BY CancelAssumption
<1>2. Started(c) /\ gateway[Owner[c]] = "ready"
  BY DEF ProcessInv, UnderWay, Supervised
<1>3. SUFFICES ASSUME pid[Owner[c]] = pid[Owner[d]], seq[c] = seq[d] PROVE FALSE
  BY DEF Path
<1>4. CASE Owner[c] = Owner[d]
  BY <1>2, <1>3, <1>4 DEF Counter
<1>5. CASE Owner[c] # Owner[d]
  BY <1>1, <1>2, <1>3, <1>5 DEF Quiet, Live
<1> QED BY <1>4, <1>5

LEMMA MarkedNext ==
    Types /\ Counter /\ ProcessInv /\ Quiet /\ ScriptInv /\ SupervisedCommandIsMarked /\ [Next]_vars
        => SupervisedCommandIsMarked'
<1> SUFFICES ASSUME Types, Counter, ProcessInv, Quiet, ScriptInv, SupervisedCommandIsMarked,
                    [Next]_vars, NEW c \in Commands, Supervised(c)'
             PROVE  marker'[Path(c)'] = c
  BY DEF SupervisedCommandIsMarked, Supervised
<1> DEFINE Kept == marker'[Path(c)'] = c
<1>1. Owner[c] \in Gateways
  BY CancelAssumption
<1>2. Supervised(c) => /\ marker[Path(c)] = c
                       /\ gateway[Owner[c]] = "ready"
                       /\ Path(c) \in Paths
  BY PathsExist DEF SupervisedCommandIsMarked, Supervised, ProcessInv, UnderWay
<1>3. ASSUME Supervised(c), Path(c)' = Path(c), marker'[Path(c)] = marker[Path(c)] PROVE Kept
  BY <1>2, <1>3
<1>4. ASSUME NEW g \in Gateways, StartGateway(g) PROVE Kept
  <2>1. Supervised(c)
    BY <1>4 DEF StartGateway, Supervised
  <2>2. g # Owner[c]
    BY <1>2, <1>4, <2>1 DEF StartGateway
  <2>3. Path(c)' = Path(c)
    BY <1>1, <1>4, <2>2 DEF StartGateway, Path, Types, GatewayTypes
  <2> QED BY <1>3, <1>4, <2>1, <2>3 DEF StartGateway
<1>5. ASSUME NEW g \in Gateways, Die(g) PROVE Kept
  <2>1. Supervised(c)
    BY <1>5 DEF Die, Supervised
  <2>2. Path(c)' = Path(c) /\ marker' = marker
    BY <1>5 DEF Die, Path
  <2> QED BY <1>3, <2>1, <2>2
<1>6. ASSUME NEW g \in Gateways, SweepRemove(g) PROVE Kept
  <2>1. Supervised(c) /\ Path(c)' = Path(c)
    BY <1>6 DEF SweepRemove, Supervised, Path
  <2>2. Path(c) \notin stale
    BY <1>1, <1>2, <2>1 DEF ProcessInv, SweepSafe, Path
  <2>3. marker'[Path(c)] = marker[Path(c)]
    BY <1>2, <1>6, <2>1, <2>2 DEF SweepRemove
  <2> QED BY <1>3, <2>1, <2>3
<1>7. ASSUME NEW d \in Commands, Spawn(d) PROVE Kept
  <2>1. d # c
    BY <1>7 DEF Spawn, At, Supervised, ProcessInv, UnderWay
  <2>2. Supervised(c) /\ Path(c)' = Path(c) /\ marker' = marker
    BY <1>7, <2>1 DEF Spawn, Supervised, Path, Types, OperationTypes
  <2> QED BY <1>3, <2>2
<1>8. ASSUME NEW d \in Commands, RemoveMarker(d) PROVE Kept
  <2>1. d # c /\ Supervised(c) /\ Path(c)' = Path(c)
    BY <1>8 DEF RemoveMarker, At, Supervised, Path, Types, OperationTypes
  <2>2. marker'[Path(c)] = marker[Path(c)]
    BY <1>2, <1>8, <2>1 DEF RemoveMarker
  <2> QED BY <1>3, <2>1, <2>2
<1>9. ASSUME NEW d \in Commands, WriteMarker(d) PROVE Kept
  <2>1. Path(c)' = Path(c) /\ op' = op
    BY <1>9 DEF WriteMarker, Path
  <2>2. CASE d = c
    <3>1. marker' = [marker EXCEPT ![Path(c)] = c]
      BY <1>9, <2>2 DEF WriteMarker, Container, Supervised, Types, ContainerTypes
    <3>2. Path(c) \in Paths
      BY <2>1, PathsExist DEF Supervised, ProcessInv, UnderWay
    <3> QED BY <2>1, <3>1, <3>2 DEF Types, ContainerTypes
  <2>3. CASE d # c
    <3>1. Supervised(c) /\ InFlight(d)
      BY <1>9, <2>3 DEF WriteMarker, Container, Supervised, InFlight, Types, ContainerTypes
    <3>2. Path(c) # Path(d)
      BY <2>3, <3>1, PathIsOwn
    <3>3. marker' = marker \/ marker' = [marker EXCEPT ![Path(d)] = d]
      BY <1>9 DEF WriteMarker
    <3>4. marker'[Path(c)] = marker[Path(c)]
      BY <1>2, <3>1, <3>2, <3>3 DEF Types, ContainerTypes
    <3> QED BY <1>3, <2>1, <3>1, <3>4
  <2> QED BY <2>2, <2>3
<1>10. ASSUME NEW d \in Commands, NEW t \in Tries, ScriptRemoves(d, t) PROVE Kept
  <2>1. Supervised(c) /\ Path(c)' = Path(c)
    BY <1>10 DEF ScriptRemoves, Supervised, Path
  <2>2. d # c /\ InFlight(d)
    BY <1>10, <2>1 DEF ScriptRemoves, Supervised, ScriptInv, InFlight
  <2>3. Path(c) # Path(d)
    BY <2>1, <2>2, PathIsOwn
  <2>4. marker'[Path(c)] = marker[Path(c)]
    BY <1>2, <1>10, <2>1, <2>3 DEF ScriptRemoves, Types, ContainerTypes
  <2> QED BY <1>3, <2>1, <2>4
<1>11. ASSUME NEW d \in Commands, Request(d) \/ StartShell(d) \/ CommandExits(d) PROVE Kept
  <2>1. Supervised(c) /\ Path(c)' = Path(c) /\ marker' = marker
    BY <1>11 DEF Request, StartShell, CommandExits, Container, Supervised, Path, Types, ContainerTypes
  <2> QED BY <1>3, <2>1
<1>12. ASSUME NEW d \in Commands, Complete(d) \/ Cancel(d) \/ TerminateHost(d) \/ JoinCleanup(d)
                                    \/ RetryCleanup(d) \/ AwaitHost(d) \/ Drain(d)
       PROVE  Kept
  <2>1. Path(c)' = Path(c) /\ marker' = marker /\ cmd' = cmd
    BY <1>12 DEF Complete, Cancel, TerminateHost, JoinCleanup, RetryCleanup, AwaitHost, Drain, Path
  <2>2. Supervised(c)
    BY <1>12, <2>1 DEF Complete, Cancel, TerminateHost, JoinCleanup, RetryCleanup, AwaitHost, Drain, At,
       AfterCleanup, Supervised, Types, OperationTypes
  <2> QED BY <1>3, <2>1, <2>2
<1>13. ASSUME NEW d \in Commands, NEW t \in Tries, ScriptKills(d, t) PROVE Kept
  <2>1. Path(c)' = Path(c) /\ marker' = marker /\ op' = op
    BY <1>13 DEF ScriptKills, Path
  <2>2. Supervised(c)
    BY <1>13, <2>1 DEF ScriptKills, Supervised, Types, ContainerTypes
  <2> QED BY <1>3, <2>1, <2>2
<1>14. ASSUME UNCHANGED <<pid, kind, seq, op, cmd, marker>> PROVE Kept
  <2>1. Supervised(c) /\ Path(c)' = Path(c) /\ marker' = marker
    BY <1>14 DEF Supervised, Path
  <2> QED BY <1>3, <2>1
<1> HIDE DEF Kept
<1>15. Kept
  BY <1>4, <1>5, <1>6, <1>7, <1>8, <1>9, <1>10, <1>11, <1>12, <1>13, <1>14
     DEF Next, vars, GatewayStep, ContainerStep, ScriptStep, SweepList, ClientExits, ScriptReads
<1> QED BY <1>15 DEF Kept

-----------------------------------------------------------------------------
(* Cancellation                                                             *)

LEMMA CancelNext ==
    Types /\ ScriptInv /\ VerdictInv /\ CancelLeavesNothing /\ [Next]_vars => CancelLeavesNothing'
<1> SUFFICES ASSUME Types, OperationTypes, ScriptTypes, ScriptInv, VerdictInv, CancelLeavesNothing,
                    [Next]_vars
             PROVE  CancelLeavesNothing'
  BY DEF Types
<1> DEFINE Excused(c) == cmd[c] = "gone" \/ c \in missed \/ \A t \in Tries : verdict[c][t] = "failed"
           Over(c) == op[c] \in {"waiting", "draining", "done"} /\ result[c] = "canceled"
<1>0. 1 \in Tries /\ 2 \in Tries /\ 1 # 2 /\ \A t \in Tries : t = 1 \/ t = 2
  BY DEF Tries
<1>1. /\ \A c \in Commands : cmd[c] = "gone" => cmd'[c] = "gone"
      /\ missed \subseteq missed'
  BY GoneForGood
<1>2. CancelLeavesNothing <=> \A c \in Commands : Over(c) => Excused(c)
  BY DEF CancelLeavesNothing
<1>3. CancelLeavesNothing' <=> \A c \in Commands : Over(c)' => Excused(c)'
  BY DEF CancelLeavesNothing
<1>4. ASSUME NEW c \in Commands, verdict' = verdict, Excused(c) PROVE Excused(c)'
  BY <1>1, <1>4
<1>5. ASSUME NEW c \in Commands, NEW t \in Tries, verdict'[c][t] = "ok", script[c][t] = "end"
      PROVE  Excused(c)'
  BY <1>1, <1>5 DEF ScriptInv
<1>6. ASSUME verdict' = verdict, \A c \in Commands : Over(c)' => Over(c) PROVE CancelLeavesNothing'
  BY <1>2, <1>3, <1>4, <1>6
<1>7. ASSUME NEW g \in Gateways, Die(g) PROVE CancelLeavesNothing'
  <2>1. verdict' = verdict /\ \A c \in Commands : Over(c)' => Over(c)
    BY <1>7 DEF Die
  <2> QED BY <1>6, <2>1
<1>8. ASSUME NEW c \in Commands,
             Spawn(c) \/ Cancel(c) \/ Complete(c) \/ RemoveMarker(c) \/ TerminateHost(c)
               \/ AwaitHost(c) \/ Drain(c)
      PROVE  CancelLeavesNothing'
  <2>1. verdict' = verdict
    BY <1>8 DEF Spawn, Cancel, Complete, RemoveMarker, TerminateHost, AwaitHost, Drain
  <2>2. \A d \in Commands : Over(d)' => Over(d)
    BY <1>8 DEF Spawn, Cancel, Complete, RemoveMarker, TerminateHost, AwaitHost, Drain, At, VerdictInv,
       OperationTypes
  <2> QED BY <1>6, <2>1, <2>2
<1>9. ASSUME NEW c \in Commands, JoinCleanup(c) PROVE CancelLeavesNothing'
  <2>1. /\ \A d \in Commands : \A u \in Tries :
              ~(d = c /\ u = 1) => verdict'[d][u] = verdict[d][u]
        /\ verdict'[c][1] \in {"ok", "failed"}
        /\ verdict'[c][1] = "ok" => script[c][1] = "end"
    BY <1>0, <1>9, AnswerIs DEF JoinCleanup
  <2>2. ASSUME NEW d \in Commands, d # c, Over(d)' PROVE Excused(d)'
    <3>1. Over(d)
      BY <1>9, <2>2 DEF JoinCleanup, OperationTypes
    <3>2. Excused(d) /\ \A u \in Tries : verdict'[d][u] = verdict[d][u]
      BY <1>2, <2>1, <2>2, <3>1
    <3> QED BY <1>1, <3>2
  <2>3. ASSUME Over(c)' PROVE Excused(c)'
    <3>1. verdict'[c][1] = "ok"
      BY <1>9, <2>3 DEF JoinCleanup, OperationTypes
    <3> QED BY <1>0, <1>5, <2>1, <3>1
  <2> QED BY <1>3, <2>2, <2>3
<1>10. ASSUME NEW c \in Commands, RetryCleanup(c) PROVE CancelLeavesNothing'
  <2>1. /\ \A d \in Commands : \A u \in Tries :
              ~(d = c /\ u = 2) => verdict'[d][u] = verdict[d][u]
        /\ verdict'[c][2] \in {"ok", "failed"}
        /\ verdict'[c][2] = "ok" => script[c][2] = "end"
    BY <1>0, <1>10, AnswerIs DEF RetryCleanup
  <2>2. ASSUME NEW d \in Commands, d # c, Over(d)' PROVE Excused(d)'
    <3>1. Over(d)
      BY <1>10, <2>2 DEF RetryCleanup, OperationTypes
    <3>2. Excused(d) /\ \A u \in Tries : verdict'[d][u] = verdict[d][u]
      BY <1>2, <2>1, <2>2, <3>1
    <3> QED BY <1>1, <3>2
  <2>3. Excused(c)'
    <3>1. verdict'[c][1] = "failed"
      BY <1>0, <1>10, <2>1 DEF RetryCleanup, At, VerdictInv
    <3>2. CASE verdict'[c][2] = "ok"
      BY <1>0, <1>5, <2>1, <3>2
    <3>3. CASE verdict'[c][2] = "failed"
      BY <1>0, <3>1, <3>3
    <3> QED BY <2>1, <3>2, <3>3
  <2> QED BY <1>3, <2>2, <2>3
<1>11. ASSUME UNCHANGED <<op, result, verdict>> PROVE CancelLeavesNothing'
  BY <1>6, <1>11
<1> QED
  BY <1>7, <1>8, <1>9, <1>10, <1>11
     DEF Next, vars, GatewayStep, ContainerStep, ScriptStep, StartGateway, SweepList, SweepRemove,
     Request, StartShell, WriteMarker, CommandExits, ClientExits, ScriptReads, ScriptKills,
     ScriptRemoves

LEMMA VictimNext == ScriptTypes /\ OnlyOwnCommandKilled /\ [Next]_vars => OnlyOwnCommandKilled'
<1> SUFFICES ASSUME ScriptTypes, OnlyOwnCommandKilled, [Next]_vars PROVE OnlyOwnCommandKilled'
  OBVIOUS
<1>1. ASSUME NEW c \in Commands, NEW t \in Tries, ScriptReads(c, t) PROVE OnlyOwnCommandKilled'
  <2>1. victim' = victim \/ victim' = [victim EXCEPT ![c][t] = c]
    BY <1>1 DEF ScriptReads
  <2>2. \A d \in Commands : \A u \in Tries :
           victim'[d][u] = victim[d][u] \/ (d = c /\ victim'[d][u] = c)
    BY <2>1 DEF ScriptTypes
  <2> QED BY <2>2 DEF OnlyOwnCommandKilled
<1>2. ASSUME UNCHANGED victim PROVE OnlyOwnCommandKilled'
  BY <1>2 DEF OnlyOwnCommandKilled
<1> QED
  BY <1>1, <1>2
     DEF Next, vars, GatewayStep, ContainerStep, ScriptStep, StartGateway, Die, SweepList,
     SweepRemove, Spawn, Cancel, Complete, RemoveMarker, TerminateHost, JoinCleanup, RetryCleanup,
     AwaitHost, Drain, Request, StartShell, WriteMarker, CommandExits, ClientExits, ScriptKills,
     ScriptRemoves

-----------------------------------------------------------------------------
(* The inductive invariant and the theorems                                 *)

CancelInv ==
    /\ Types /\ Counter /\ ProcessInv /\ Quiet /\ ScriptInv /\ VerdictInv
    /\ OnlyOwnCommandKilled /\ SupervisedCommandIsMarked /\ CancelLeavesNothing

LEMMA CancelInvInit == Init => CancelInv
<1> SUFFICES ASSUME Init PROVE CancelInv
  OBVIOUS
<1>1. OnlyOwnCommandKilled /\ SupervisedCommandIsMarked /\ CancelLeavesNothing
  BY DEF Init, OnlyOwnCommandKilled, SupervisedCommandIsMarked, CancelLeavesNothing
<1> QED BY <1>1, TypesInit, CounterInit, ProcessInit, QuietInit, ScriptInit DEF CancelInv

LEMMA CancelInvNext == CancelInv /\ [Next]_vars => CancelInv'
<1> SUFFICES ASSUME CancelInv, [Next]_vars PROVE CancelInv'
  OBVIOUS
<1>1. /\ Types /\ Counter /\ ProcessInv /\ Quiet /\ ScriptInv /\ VerdictInv /\ UnderWay /\ ScriptTypes
      /\ OnlyOwnCommandKilled /\ SupervisedCommandIsMarked /\ CancelLeavesNothing
  BY DEF CancelInv, ProcessInv, Types
<1>2. Types' /\ Counter' /\ ScriptInv' /\ VerdictInv' /\ Quiet'
  BY <1>1, TypesNext, CounterNext, ScriptNext, VerdictNext, QuietNext
<1>3. ProcessInv'
  BY <1>1, PidsGivenNext, SweepSafeNext, UnderWayNext DEF ProcessInv
<1>4. OnlyOwnCommandKilled' /\ SupervisedCommandIsMarked' /\ CancelLeavesNothing'
  BY <1>1, VictimNext, MarkedNext, CancelNext
<1> QED BY <1>2, <1>3, <1>4 DEF CancelInv

\* The counter stays within the commands of its gateway.
LEMMA TypeFollows == CancelInv => TypeOK
<1> SUFFICES ASSUME Types, Counter PROVE TypeOK
  BY DEF CancelInv
<1>1. ASSUME NEW c \in Commands
      PROVE  seq[c] <= Cardinality({d \in Commands : Owner[d] = Owner[c]})
  <2> DEFINE Own == {d \in Commands : Owner[d] = Owner[c]}
             Run == {d \in Commands : Owner[d] = Owner[c] /\ Started(d)}
  <2>1. IsFiniteSet(Own) /\ Run \subseteq Own
    BY CancelAssumption, FS_Subset
  <2>2. Cardinality(Run) <= Cardinality(Own) /\ Cardinality(Run) \in Nat /\ Cardinality(Own) \in Nat
    BY <2>1, FS_Subset, FS_CardinalityType
  <2>3. seq[c] <= Cardinality(Run) /\ seq[c] \in Nat
    BY DEF Counter, Issued, Types, OperationTypes
  <2> HIDE DEF Run, Own
  <2>4. seq[c] <= Cardinality(Own)
    BY <2>2, <2>3
  <2> QED BY <2>4 DEF Own
<1> QED BY <1>1 DEF TypeOK, Types, GatewayTypes, OperationTypes, ContainerTypes, ScriptTypes

LEMMA CancelInvariant == Spec => []CancelInv
BY CancelInvInit, CancelInvNext, PTL DEF Spec

\* Every variable has its type; in particular the counter of a gateway never
\* passes the number of commands it has run, so that every marker path a gateway
\* makes is one of Paths (next_cancel_marker).
THEOREM ExecTypeCorrect == Spec => []TypeOK
BY CancelInvariant, TypeFollows, PTL

\* A cancellation kills the process of its own command or none, however many
\* gateways had the same pid and left markers at the same path
\* (cancel_cleanup_spec compares the token).
THEOREM OnlyOwnCommandKilledThm == Spec => []OnlyOwnCommandKilled
<1>1. CancelInv => OnlyOwnCommandKilled
  BY DEF CancelInv
<1> QED BY <1>1, CancelInvariant, PTL

\* A command that runs under the supervision of a gateway has its marker in place:
\* not the sweep of another gateway (sweep_stale_cancel_markers), nor a removal or
\* a script of a command with the same path takes it away.
THEOREM SupervisedCommandIsMarkedThm == Spec => []SupervisedCommandIsMarked
<1>1. CancelInv => SupervisedCommandIsMarked
  BY DEF CancelInv
<1> QED BY <1>1, CancelInvariant, PTL

\* When a cancellation returns the command is gone, or both scripts failed, or one
\* found no marker (cancel_container_exec_child, ContainerPtySession::terminate).
THEOREM CancelLeavesNothingThm == Spec => []CancelLeavesNothing
<1>1. CancelInv => CancelLeavesNothing
  BY DEF CancelInv
<1> QED BY <1>1, CancelInvariant, PTL

=============================================================================
