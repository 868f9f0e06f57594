------------------------ MODULE ConfigFunctionsProofs ------------------------
(***************************************************************************)
(* Theorems about ConfigFunctions: what its functions return holds for any *)
(* number of layers, variables, steps, patches, services and templates.    *)
(* The one inductive invariant, Evaluated, says that the result is that of *)
(* the function; the rest is about the functions, most of which are folds  *)
(* or walk a graph by recursion.                                           *)
(***************************************************************************)
EXTENDS Integers, ConfigFunctions, FiniteSetTheorems, SequenceTheorems, WellFoundedInduction, TLAPS

-----------------------------------------------------------------------------
(* Folds.  A fold of the community modules is the value of a recursive     *)
(* function over sets of positions; the function exists because it can be  *)
(* extended by one position, and what its steps keep its result has.       *)

\* What a fold of the configuration does with one more element.
Step(what, e, x) ==
    CASE what.op = "target"  -> overlay(e, x)
      [] what.op = "launch"  -> overlay_launch(e, x)
      [] what.op = "merge"   -> merge_service(e, x)
      [] what.op = "retain"  -> retain_service(e, x)
      [] what.op = "flatten" -> e \o x
      [] what.op = "patch"   -> Patched(e, x, what.inherits)
      [] what.op = "check"   -> IF e.ok /\ x \in what.names
                                  THEN what.visit[[name |-> x, st |-> e, visiting |-> what.visiting]] ELSE e
      [] what.op = "walk"    -> IF x \in what.names THEN what.visit[[name |-> x, st |-> e]] ELSE e
      [] what.op = "use"     -> LET r == what.visit[[name |-> x, stack |-> what.stack]]
                                IN  [ok |-> e.ok /\ r.ok, order |-> e.order \o r.order]

\* iter is the recursive function MapThenFoldSet builds over the positions of S.
Iterates(iter, what, base, seq, S) ==
    iter = [s \in SUBSET S |->
              IF s = {} THEN base ELSE Step(what, iter[s \ {Max(s)}], seq[Max(s)])]

\* What a fold returns: its recursive function at all the positions.
Folded(what, base, seq) ==
    (CHOOSE iter : Iterates(iter, what, base, seq, DOMAIN seq))[DOMAIN seq]

\* The folds of the modules are Folded: effective_target_from_input, effective_launch,
\* merge_services, the services runtime_exec retains, and merge_target_step_patches.
LEMMA FoldedTarget == \A layers : effective_target_from_input(layers) = Folded([op |-> "target"], builtin_defaults, layers)
  BY DEF effective_target_from_input, FoldLeft, MapThenFoldSet, Folded, Iterates, Step
LEMMA FoldedLaunch == \A layers : effective_launch(layers) = Folded([op |-> "launch"], <<>>, layers)
  BY DEF effective_launch, FoldLeft, MapThenFoldSet, Folded, Iterates, Step
LEMMA FoldedMerge == \A old, new : merge_services(old, new) = Folded([op |-> "merge"], old, new)
  BY DEF merge_services, FoldLeft, MapThenFoldSet, Folded, Iterates, Step
LEMMA FoldedRetain == \A services : FoldLeft(retain_service, <<>>, services) = Folded([op |-> "retain"], <<>>, services)
  BY DEF FoldLeft, MapThenFoldSet, Folded, Iterates, Step
LEMMA FoldedPatches ==
    \A steps, patches, inherits :
        merge_target_step_patches(steps, patches, inherits)
            = Folded([op |-> "patch", inherits |-> inherits], [ok |-> TRUE, steps |-> steps], patches)
  BY DEF merge_target_step_patches, FoldLeft, MapThenFoldSet, Folded, Iterates, Step

\* Every nonempty set of naturals has a smallest element.
LEMMA Smallest == ASSUME NEW T \in SUBSET Nat, T # {} PROVE \E n \in T : \A m \in T : n <= m
<1> DEFINE R == {ss \in Nat \X Nat : ss[1] < ss[2]}
<1>1. IsWellFoundedOn(R, Nat)
  BY NatLessThanWellFounded DEF OpToRel
<1>2. PICK n \in T : \A m \in T : ~ (<<m, n>> \in R)
  BY <1>1, WFMin
<1>3. \A m \in T : <<m, n>> \in Nat \X Nat
  OBVIOUS
<1>4. \A m \in T : ~(m < n)
  BY <1>2, <1>3
<1> QED BY <1>4

\* Induction along an interval, with a set in place of a predicate.
LEMMA UpTo ==
    ASSUME NEW n \in Nat, NEW G, 0 \in G, \A k \in 1 .. n : k - 1 \in G => k \in G
    PROVE  0 .. n \subseteq G
<1> DEFINE T == (0 .. n) \ G
<1> SUFFICES ASSUME T # {} PROVE FALSE
  OBVIOUS
<1>1. PICK m \in T : \A k \in T : m <= k
  <2>1. T \in SUBSET Nat
    OBVIOUS
  <2> HIDE DEF T
  <2> QED BY <2>1, Smallest
<1>2. m \in 0 .. n /\ m # 0
  BY <1>1
<1>3. m \in 1 .. n /\ m - 1 \in 0 .. n /\ ~(m <= m - 1)
  BY <1>2
<1>4. m - 1 \notin T
  BY <1>1, <1>3
<1> QED BY <1>1, <1>3, <1>4

\* The recursive function a fold is defined with exists: extended one position at a time.
LEMMA IteratesExists ==
    ASSUME NEW what, NEW base, NEW seq, NEW n \in Nat
    PROVE  \E iter : Iterates(iter, what, base, seq, 1 .. n)
<1> DEFINE G == {k \in 0 .. n : \E iter : Iterates(iter, what, base, seq, 1 .. k)}
<1>1. 0 \in G
  <2>1. 1 .. 0 = {}
    OBVIOUS
  <2> DEFINE f == [s \in SUBSET {} |-> base]
  <2>2. f = [s \in SUBSET {} |-> IF s = {} THEN base ELSE Step(what, f[s \ {Max(s)}], seq[Max(s)])]
    OBVIOUS
  <2>3. Iterates(f, what, base, seq, {})
    BY <2>2 DEF Iterates
  <2> HIDE DEF f
  <2> QED BY <2>1, <2>3
<1>2. ASSUME NEW k \in 1 .. n, k - 1 \in G PROVE k \in G
  <2>1. PICK f : Iterates(f, what, base, seq, 1 .. (k - 1))
    BY <1>2
  <2> DEFINE g == [s \in SUBSET (1 .. k) |->
                     IF k \in s THEN Step(what, f[s \ {k}], seq[k]) ELSE f[s]]
  <2>2. ASSUME NEW s \in SUBSET (1 .. k)
        PROVE  g[s] = IF s = {} THEN base ELSE Step(what, g[s \ {Max(s)}], seq[Max(s)])
    <3>1. CASE k \in s
      <4>1. Max(s) = k
        <5> HIDE DEF g
        <5>1. \A y \in s : k >= y
          OBVIOUS
        <5>2. ASSUME NEW x \in s, \A y \in s : x >= y PROVE x = k
          <6>1. x >= k /\ x \in 1 .. k /\ k \in Nat
            BY <3>1, <5>2
          <6> QED BY <6>1
        <5> QED BY <3>1, <5>1, <5>2 DEF Max
      <4>2. s \ {k} \in SUBSET (1 .. k) /\ k \notin s \ {k} /\ s # {}
        BY <3>1
      <4>3. g[s \ {k}] = f[s \ {k}]
        BY <4>2
      <4>4. g[s] = Step(what, f[s \ {k}], seq[k])
        BY <3>1
      <4> QED BY <4>1, <4>2, <4>3, <4>4
    <3>2. CASE k \notin s
      <4> DEFINE rest == s \ {Max(s)}
      <4>1. s \in SUBSET (1 .. (k - 1))
        BY <3>2
      <4>2. rest \in SUBSET (1 .. (k - 1)) /\ rest \in SUBSET (1 .. k) /\ k \notin rest
        BY <3>2, <4>1
      <4>3. g[s] = f[s] /\ g[rest] = f[rest]
        BY <3>2, <4>2
      <4>4. f[s] = IF s = {} THEN base ELSE Step(what, f[rest], seq[Max(s)])
        BY <2>1, <4>1, <4>2 DEF Iterates
      <4> QED BY <4>3, <4>4
    <3> QED BY <3>1, <3>2
  <2> HIDE DEF g
  <2>3. Iterates(g, what, base, seq, 1 .. k)
    <3>1. g = [s \in SUBSET (1 .. k) |-> g[s]]
      BY DEF g
    <3> QED BY <2>2, <3>1 DEF Iterates
  <2> QED BY <2>3
<1>3. 0 .. n \subseteq G
  <2> HIDE DEF G
  <2> QED BY <1>1, <1>2, UpTo
<1> QED BY <1>3

\* A fold is a chain of steps from its base to its result, one per element.
IsChain(e, what, base, seq, n) ==
    /\ e[0] = base
    /\ \A k \in 1 .. n : e[k] = Step(what, e[k - 1], seq[k])
    /\ e[n] = Folded(what, base, seq)

\* A fold passes through a chain of values, one step from each to the next.
LEMMA Chain ==
    ASSUME NEW what, NEW base, NEW seq, NEW n \in Nat, DOMAIN seq = 1 .. n
    PROVE  \E e : IsChain(e, what, base, seq, n)
<1>1. PICK iter : Iterates(iter, what, base, seq, 1 .. n) /\ Folded(what, base, seq) = iter[1 .. n]
  BY IteratesExists DEF Folded
<1> DEFINE e == [k \in 0 .. n |-> iter[1 .. k]]
<1>2. e[0] = base
  <2>1. 1 .. 0 = {}
    OBVIOUS
  <2> QED BY <1>1, <2>1 DEF Iterates
<1>3. ASSUME NEW k \in 1 .. n PROVE e[k] = Step(what, e[k - 1], seq[k])
  <2>1. Max(1 .. k) = k
    BY DEF Max
  <2>2. (1 .. k) \ {k} = 1 .. (k - 1) /\ 1 .. k # {} /\ 1 .. k \in SUBSET (1 .. n)
    OBVIOUS
  <2>3. iter[1 .. k] = Step(what, iter[1 .. (k - 1)], seq[k])
    BY <1>1, <2>1, <2>2 DEF Iterates
  <2> QED BY <2>3
<1>4. e[n] = Folded(what, base, seq)
  BY <1>1
<1> HIDE DEF e
<1> QED BY <1>2, <1>3, <1>4 DEF IsChain

\* What every step of a fold keeps, its result has.
LEMMA Stays ==
    ASSUME NEW what, NEW base, NEW seq, NEW n \in Nat, DOMAIN seq = 1 .. n,
           NEW P, base \in P, \A e \in P, k \in 1 .. n : Step(what, e, seq[k]) \in P
    PROVE  Folded(what, base, seq) \in P
<1>1p. PICK e : IsChain(e, what, base, seq, n)
  BY Chain
<1>1. /\ e[0] = base
      /\ \A k \in 1 .. n : e[k] = Step(what, e[k - 1], seq[k])
      /\ e[n] = Folded(what, base, seq)
  BY <1>1p DEF IsChain
<1> DEFINE G == {k \in 0 .. n : e[k] \in P}
<1>2. 0 \in G
  BY <1>1
<1>3. ASSUME NEW k \in 1 .. n, k - 1 \in G PROVE k \in G
  BY <1>1, <1>3
<1>4. 0 .. n \subseteq G
  <2> HIDE DEF G
  <2> QED BY <1>2, <1>3, UpTo
<1> QED BY <1>1, <1>4

\* The loops of the three walks are Folded too.
LEMMA FoldedCheck ==
    \A visit, names, st, visiting :
        CheckEach(visit, names, st, visiting)
            = Folded([op |-> "check", visit |-> visit, names |-> names, visiting |-> visiting], st, configured)
  BY DEF CheckEach, FoldLeft, MapThenFoldSet, Folded, Iterates, Step
LEMMA FoldedUse ==
    \A visit, names, stack :
        ApplyEach(visit, names, stack)
            = Folded([op |-> "use", visit |-> visit, stack |-> stack], [ok |-> TRUE, order |-> <<>>], names)
  BY DEF ApplyEach, FoldLeft, MapThenFoldSet, Folded, Iterates, Step
LEMMA FoldedWalk ==
    \A visit, names, st :
        WalkEach(visit, names, st) = Folded([op |-> "walk", visit |-> visit, names |-> names], st, configured)
  BY DEF WalkEach, FoldLeft, MapThenFoldSet, Folded, Iterates, Step

\* What the first k steps of a fold establish, for each k.
LEMMA StaysUpTo ==
    ASSUME NEW what, NEW base, NEW seq, NEW n \in Nat, DOMAIN seq = 1 .. n,
           NEW P, base \in P[0], \A k \in 1 .. n : \A e \in P[k - 1] : Step(what, e, seq[k]) \in P[k]
    PROVE  Folded(what, base, seq) \in P[n]
<1>1p. PICK e : IsChain(e, what, base, seq, n)
  BY Chain
<1>1. /\ e[0] = base
      /\ \A k \in 1 .. n : e[k] = Step(what, e[k - 1], seq[k])
      /\ e[n] = Folded(what, base, seq)
  BY <1>1p DEF IsChain
<1> DEFINE G == {k \in 0 .. n : e[k] \in P[k]}
<1>2. 0 \in G
  BY <1>1
<1>3. ASSUME NEW k \in 1 .. n, k - 1 \in G PROVE k \in G
  BY <1>1, <1>3
<1>4. 0 .. n \subseteq G
  <2> HIDE DEF G
  <2> QED BY <1>2, <1>3, UpTo
<1> QED BY <1>1, <1>4

\* Two folds with the same steps have the same result.
LEMMA SameFold ==
    ASSUME NEW what, NEW other, NEW base, NEW seq, NEW n \in Nat, DOMAIN seq = 1 .. n,
           NEW P, base \in P, \A e \in P, k \in 1 .. n : /\ Step(what, e, seq[k]) \in P
                                                        /\ Step(other, e, seq[k]) = Step(what, e, seq[k])
    PROVE  Folded(other, base, seq) = Folded(what, base, seq)
<1>1p. PICK e : IsChain(e, what, base, seq, n)
  BY Chain
<1>1. /\ e[0] = base
      /\ \A k \in 1 .. n : e[k] = Step(what, e[k - 1], seq[k])
      /\ e[n] = Folded(what, base, seq)
  BY <1>1p DEF IsChain
<1>2p. PICK f : IsChain(f, other, base, seq, n)
  BY Chain
<1>2. /\ f[0] = base
      /\ \A k \in 1 .. n : f[k] = Step(other, f[k - 1], seq[k])
      /\ f[n] = Folded(other, base, seq)
  BY <1>2p DEF IsChain
<1> DEFINE G == {k \in 0 .. n : e[k] \in P /\ f[k] = e[k]}
<1>3. 0 \in G
  BY <1>1, <1>2
<1>4. ASSUME NEW k \in 1 .. n, k - 1 \in G PROVE k \in G
  BY <1>1, <1>2, <1>4
<1>5. 0 .. n \subseteq G
  <2> HIDE DEF G
  <2> QED BY <1>3, <1>4, UpTo
<1> QED BY <1>1, <1>2, <1>5

-----------------------------------------------------------------------------
(* What has been evaluated.                                                *)

\* The inductive invariant: the result is what the function returns for the input.
Evaluated ==
    /\ kind \in {"none", "target", "template", "launch", "patches", "order", "uses"}
    /\ kind = "target" =>
          /\ input \in TargetInputs
          /\ result = [accepted |-> Accepted(input.layers, input.runtime, input.required),
                       effective |-> effective_target_from_input(input.layers)]
    /\ kind = "template" =>
          /\ input \in TemplateInputs
          /\ result = [accepted |-> AcceptedTemplate(input.field, input.keys, input.declared),
                       bound    |-> Bound(input.field, input.at)]
    /\ kind = "launch" =>
          LET launch == effective_launch(input.layers)
              resolved == resolve_launch_vars(Field(launch, "vars", <<>>), input.supplied)
          IN  /\ input \in LaunchInputs
              /\ result = [accepted |-> AcceptedLaunch(input.layers, {"t"}, {"var.v", "var.w"}),
                           launch   |-> launch,
                           resolved |-> resolved,
                           taken    |-> validate_launch_passthrough_args(launch, input.args),
                           bound    |-> launch_template_vars(input.at, resolved),
                           command  |-> render_launch_command(Field(launch, "command", <<>>), input.args)]
    /\ kind = "patches" =>
          /\ input \in PatchInputs
          /\ result = merge_target_step_patches(input.inherited, input.patches, input.inherits)
    /\ kind = "order" =>
          /\ input \in OrderInputs
          /\ result = [valid |-> ValidGraph(input),
                       order |-> IF ValidGraph(input) THEN service_stop_order(input) ELSE <<>>]
    /\ kind = "uses" =>
          /\ input \in UseInputs
          /\ result = [valid |-> validate_references(input.uses),
                       order |-> overlay_templates(input.uses, input.names)]

\* Whatever has been evaluated is one of the inputs, and its result is what the code
\* computes from it: effective_target_from_input, the template and launch functions,
\* merge_target_step_patches, the two walks over dependencies and TemplateChainResolver.
THEOREM EvaluatedThm == ConfigSpec => []Evaluated
<1>1. Init => Evaluated
  BY DEF Init, Evaluated
<1>2. Evaluated /\ [ConfigNext]_vars => Evaluated'
  <2> SUFFICES ASSUME Evaluated, [ConfigNext]_vars PROVE Evaluated'
    OBVIOUS
  <2>1. CASE ResolveTarget
    BY <2>1 DEF ResolveTarget, Evaluate, Evaluated
  <2>2. CASE RenderTemplate
    BY <2>2 DEF RenderTemplate, Evaluate, Evaluated
  <2>3. CASE RunLaunch
    BY <2>3 DEF RunLaunch, Evaluate, Evaluated
  <2>4. CASE PatchSteps
    BY <2>4 DEF PatchSteps, Evaluate, Evaluated
  <2>5. CASE OrderServices
    BY <2>5 DEF OrderServices, Evaluate, Evaluated
  <2>6. CASE ResolveTemplates
    BY <2>6 DEF ResolveTemplates, Evaluate, Evaluated
  <2>7. CASE UNCHANGED vars
    BY <2>7 DEF vars, Evaluated
  <2> QED BY <2>1, <2>2, <2>3, <2>4, <2>5, <2>6, <2>7 DEF ConfigNext
<1> QED BY <1>1, <1>2, PTL DEF ConfigSpec

-----------------------------------------------------------------------------
(* Who may stop a target.                                                  *)

\* What validation of a target guarantees about who may stop its container.
LEMMA Informed ==
    ASSUME NEW layers, NEW runtime, NEW required, Accepted(layers, runtime, required)
    PROVE  LET c == effective_target_from_input(layers)
               idles == AgentOn(c) /\ IdleLoop(write_container_agent_config(c))
           IN  /\ idles => HoldsSessions(c) \/ (~IsExec(c) /\ ControlSocket(c) = "off")
               /\ local_ssh(c).set /\ local_ssh(c).mode = "direct" => ~idles /\ ~GatewayIdles(c)
               /\ Get(c, "workspace", "cleanup", "never") # "never" => GatewayIdles(c) /\ ~idles
               /\ IsExec(c) => ~ssh_endpoint_configured(c) /\ SshServices(Services(c)) = {}
<1> DEFINE c == effective_target_from_input(layers)
           own == idle_cleanup(c, "idle_cleanup")
           cfg == write_container_agent_config(c)
<1>0. validate(c)
  BY DEF Accepted
<1> HIDE DEF c
<1>1. IdleLoop(cfg) => uses_agent_idle_cleanup(c)
  BY DEF IdleLoop, write_container_agent_config, uses_agent_idle_cleanup,
         effective_agent_idle_cleanup, is_active_agent_idle_cleanup, NoSection
<1>2. AgentOn(c) /\ IdleLoop(cfg) => HoldsSessions(c) \/ (~IsExec(c) /\ ControlSocket(c) = "off")
  BY <1>0, <1>1 DEF HoldsSessions, agent_control_enabled, validate, RuntimeExecValid
<1>3. local_ssh(c).set /\ local_ssh(c).mode = "direct" => ~IdleLoop(cfg) /\ ~GatewayIdles(c)
  BY <1>0, <1>1 DEF validate, DirectValid, GatewayIdles
<1>4. Get(c, "workspace", "cleanup", "never") # "never" => GatewayIdles(c) /\ ~IdleLoop(cfg)
  <2> SUFFICES ASSUME Get(c, "workspace", "cleanup", "never") # "never"
               PROVE  GatewayIdles(c) /\ ~IdleLoop(cfg)
    OBVIOUS
  <2>1. /\ Get(c, "target", "mode", "fixed") = "ephemeral"
        /\ own.set /\ own.owner = "gateway" /\ own.action = "exit_container"
    BY <1>0 DEF validate, WorkspaceCleanupValid
  <2>2. Get(c, "target", "stop_when_idle", FALSE)
    BY <1>0, <2>1 DEF validate, ModeValid
  <2>3. ~uses_agent_idle_cleanup(c)
    BY <2>1 DEF uses_agent_idle_cleanup, effective_agent_idle_cleanup, is_active_agent_idle_cleanup
  <2> QED BY <2>1, <2>2, <2>3, <1>1 DEF GatewayIdles
<1>5. IsExec(c) => ~ssh_endpoint_configured(c) /\ SshServices(Services(c)) = {}
  BY <1>0 DEF validate, RuntimeExecValid, ssh_endpoint_configured
<1> QED BY <1>2, <1>3, <1>4, <1>5 DEF c

\* Nobody stops an accepted target under its sessions: validate_gateway lets a target idle
\* only where the agent is told of the sessions, and deletes a workspace only where the
\* gateway stops the container; but it accepts an SSH target with control_socket off,
\* whose agent idles without being told.
THEOREM IdleIsInformedThm == ConfigSpec => []IdleIsInformed
<1>1. Evaluated => IdleIsInformed
  <2> SUFFICES ASSUME Evaluated, kind = "target", result.accepted
               PROVE  IdleIsInformed
    BY DEF IdleIsInformed
  <2>1. /\ Accepted(input.layers, input.runtime, input.required)
        /\ result.effective = effective_target_from_input(input.layers)
    BY DEF Evaluated
  <2> QED BY <2>1, Informed DEF IdleIsInformed
<1> QED BY <1>1, EvaluatedThm, PTL

-----------------------------------------------------------------------------
(* Templates.                                                              *)

\* Field by field, what a template may use is bound or known to be unbound.
LEMMA AllowedAreBound ==
    ASSUME NEW field \in TemplateFields, NEW at, Running(at), Rendered(field, at)
    PROVE  /\ Allowed(field) \subseteq Bound(field, at) \cup Unbound(at, {})
           /\ field \in ContextFields => at.context \subseteq Bound(field, at)
<1> USE DEF IDENTITY_TEMPLATE_VARS, RUNTIME_TEMPLATE_VARS, AGENT_TEMPLATE_VARS,
            TARGET_WORKSPACE_TEMPLATE_VARS, WORKSPACE_CONTAINER_PATH_TEMPLATE_VARS,
            WORKSPACE_STATE_DIR_TEMPLATE_VARS, CONTROL_SOCKET_TEMPLATE_VARS,
            GATEWAY_LOGGING_TEMPLATE_VARS, GATEWAY_TEMPLATE_VARS_NO_PID, GATEWAY_TEMPLATE_VARS,
            CLIENT_TEMPLATE_VARS, Session, identity_vars, container_name_with_context,
            resolve_target_workspace, render_control_socket_paths, PathVars, runtime_vars,
            client_vars, render_logging_directory, Unbound, Running, ContextFields
<1>1. CASE field = "name"
  BY <1>1 DEF Allowed, Bound
<1>2. CASE field = "ephemeral_name"
  BY <1>2 DEF Allowed, Bound, Rendered
<1>3. CASE field = "workspace.path"
  BY <1>3 DEF Allowed, Bound
<1>4. CASE field = "workspace.container_path"
  BY <1>4 DEF Allowed, Bound
<1>5. CASE field = "workspace.state_dir"
  BY <1>5 DEF Allowed, Bound
<1>6. CASE field = "control_sockets"
  BY <1>6 DEF Allowed, Bound
<1>7. CASE field = "identity"
  BY <1>7 DEF Allowed, Bound
<1>8. CASE field \in {"session_env", "container_env", "container_mounts", "extra_run_args",
                      "host_socket_exposures", "container_bootstrap", "bootstrap_steps", "pre_start"}
  BY <1>8 DEF Allowed, Bound
<1>9. CASE field \in {"post_start_host", "pre_stop", "post_stop", "host_steps"}
  BY <1>9 DEF Allowed, Bound
<1>10. CASE field = "client_config"
  BY <1>10 DEF Allowed, Bound
<1>11. CASE field = "logging"
  BY <1>11 DEF Allowed, Bound
<1>12. CASE field = "docker_host"
  BY <1>12 DEF Allowed, Bound
<1>13. CASE field = "services"
  BY <1>13 DEF Allowed, Bound
<1> QED BY <1>1, <1>2, <1>3, <1>4, <1>5, <1>6, <1>7, <1>8, <1>9, <1>10, <1>11, <1>12, <1>13
        DEF TemplateFields

\* An accepted template renders wherever it is used: what validate_template_with_context
\* allows in a field and what the code binds there agree.
THEOREM TemplatesRenderThm == ConfigSpec => []TemplatesRender
<1>1. Evaluated => TemplatesRender
  <2> DEFINE at == input.at
             optional == input.declared \ input.required
  <2> SUFFICES ASSUME Evaluated, kind = "template", result.accepted,
                      validate_runtime_context(input.declared, input.required, at.context),
                      Rendered(input.field, at)
               PROVE  render(input.keys, result.bound \cup Unbound(at, optional))
    BY DEF TemplatesRender
  <2>1. /\ input.field \in TemplateFields /\ Running(at)
        /\ AcceptedTemplate(input.field, input.keys, input.declared)
        /\ result.bound = Bound(input.field, at)
    BY TemplateInputsAssumption DEF Evaluated
  <2>2. /\ Allowed(input.field) \subseteq result.bound \cup Unbound(at, {})
        /\ input.field \in ContextFields => at.context \subseteq result.bound
    BY <2>1, AllowedAreBound
  <2>3. input.declared \subseteq at.context \cup Unbound(at, optional)
    BY DEF validate_runtime_context, Unbound
  <2>4. Unbound(at, {}) \subseteq Unbound(at, optional)
    BY DEF Unbound
  <2> QED BY <2>1, <2>2, <2>3, <2>4
          DEF render, AcceptedTemplate, validate_template_with_context
<1> QED BY <1>1, EvaluatedThm, PTL

-----------------------------------------------------------------------------
(* Layers.                                                                 *)

\* A layer of runtime_exec hides the SSH settings below it; two lists are merged, not replaced.
Hides(f, layer) == f[1] \in {"local_ssh", "bridge"} /\ IsExec(layer)
Listed == {<<"agent", "services">>, <<"target", "session_env_inherit">>}

\* The first k layers in which f is set and not hidden again.
Visible(seq, k, f) ==
    {i \in 1 .. k : f \in DOMAIN seq[i] /\ ~\E j \in i + 1 .. k : Hides(f, seq[j])}

\* What one more layer sets, keeps and hides.
LEMMA OverlayOne ==
    ASSUME NEW c, NEW x
    PROVE  /\ \A f : f \in DOMAIN overlay(c, x) <=>
                        f \in DOMAIN x \/ (f \in DOMAIN c /\ ~Hides(f, x))
           /\ \A f \in DOMAIN overlay(c, x) \ Listed :
                 overlay(c, x)[f] = IF f \in DOMAIN x THEN x[f] ELSE c[f]
<1> DEFINE base == IF IsExec(x) THEN clear_inherited_ssh_access(c) ELSE c
<1>1. \A f : f \in DOMAIN base <=> f \in DOMAIN c /\ ~Hides(f, x)
  BY DEF clear_inherited_ssh_access, Hides
<1>2. \A f \in DOMAIN base \ Listed : base[f] = c[f]
  BY DEF clear_inherited_ssh_access, Listed
<1>3. overlay(c, x) = [f \in DOMAIN base \cup DOMAIN x |->
            IF f \notin DOMAIN x THEN base[f]
            ELSE IF f \notin DOMAIN base THEN x[f]
            ELSE IF f = <<"agent", "services">> THEN merge_services(base[f], x[f])
            ELSE IF f = <<"target", "session_env_inherit">> THEN base[f] \o x[f]
            ELSE x[f]]
  BY DEF overlay
<1> HIDE DEF base
<1> QED BY <1>1, <1>2, <1>3 DEF Listed

\* What one more layer changes in what is visible.
LEMMA VisibleOne ==
    ASSUME NEW seq, NEW k \in Nat, NEW f
    PROVE  Visible(seq, k + 1, f) =
              (IF Hides(f, seq[k + 1]) THEN {} ELSE Visible(seq, k, f))
                \cup (IF f \in DOMAIN seq[k + 1] THEN {k + 1} ELSE {})
<1>1. ASSUME NEW i \in 1 .. k
      PROVE  (\E j \in i + 1 .. k + 1 : Hides(f, seq[j])) <=>
                Hides(f, seq[k + 1]) \/ \E j \in i + 1 .. k : Hides(f, seq[j])
  <2>1. i + 1 .. k + 1 = (i + 1 .. k) \cup {k + 1}
    OBVIOUS
  <2> QED BY <2>1
<1>2. ~\E j \in (k + 1) + 1 .. k + 1 : Hides(f, seq[j])
  OBVIOUS
<1>3. 1 .. k + 1 = (1 .. k) \cup {k + 1}
  OBVIOUS
<1>4. \A i \in Visible(seq, k + 1, f) :
         i \in (IF Hides(f, seq[k + 1]) THEN {} ELSE Visible(seq, k, f))
                \cup (IF f \in DOMAIN seq[k + 1] THEN {k + 1} ELSE {})
  BY <1>1, <1>3 DEF Visible
<1>5. ~Hides(f, seq[k + 1]) => Visible(seq, k, f) \subseteq Visible(seq, k + 1, f)
  BY <1>1, <1>3 DEF Visible
<1>6. f \in DOMAIN seq[k + 1] => k + 1 \in Visible(seq, k + 1, f)
  BY <1>2, <1>3 DEF Visible
<1> QED BY <1>4, <1>5, <1>6

\* Only the first layer: what it sets.
LEMMA VisibleFirst ==
    ASSUME NEW seq, NEW f
    PROVE  Visible(seq, 1, f) = IF f \in DOMAIN seq[1] THEN {1} ELSE {}
<1>1. 1 .. 1 = {1} /\ 1 + 1 .. 1 = {}
  OBVIOUS
<1> QED BY <1>1 DEF Visible

\* The value of a setting is that of the last layer in which it is visible.
LEMMA Nearest ==
    ASSUME NEW n \in Nat, NEW layers, DOMAIN layers = 1 .. n,
           NEW seq, seq[1] = builtin_defaults, \A k \in 1 .. n : seq[k + 1] = layers[k],
           NEW c, c = effective_target_from_input(layers)
    PROVE  /\ \A f : f \in DOMAIN c <=> Visible(seq, n + 1, f) # {}
           /\ \A f \in DOMAIN c \ Listed :
                 \E i \in Visible(seq, n + 1, f) :
                    /\ \A j \in Visible(seq, n + 1, f) : j <= i
                    /\ c[f] = seq[i][f]
<1>2p. PICK e : IsChain(e, [op |-> "target"], builtin_defaults, layers, n)
  BY Chain
<1>2. /\ e[0] = builtin_defaults
      /\ \A k \in 1 .. n : e[k] = Step([op |-> "target"], e[k - 1], layers[k])
      /\ e[n] = Folded([op |-> "target"], builtin_defaults, layers)
  BY <1>2p DEF IsChain
<1>8. e[n] = c
  BY <1>2, FoldedTarget
<1>3. \A k \in 1 .. n : e[k] = overlay(e[k - 1], layers[k])
  BY <1>2 DEF Step
<1> DEFINE Right(k) ==
              /\ \A f : f \in DOMAIN e[k] <=> Visible(seq, k + 1, f) # {}
              /\ \A f \in DOMAIN e[k] \ Listed :
                    \E i \in Visible(seq, k + 1, f) :
                       /\ \A j \in Visible(seq, k + 1, f) : j <= i
                       /\ e[k][f] = seq[i][f]
           G == {k \in 0 .. n : Right(k)}
<1>4. 0 \in G
  <2>1. ASSUME NEW f PROVE Visible(seq, 1, f) = IF f \in DOMAIN builtin_defaults THEN {1} ELSE {}
    BY VisibleFirst
  <2>2. 0 + 1 = 1
    OBVIOUS
  <2>3. \A f : f \in DOMAIN e[0] <=> Visible(seq, 0 + 1, f) # {}
    BY <1>2, <2>1, <2>2
  <2>4. ASSUME NEW f \in DOMAIN e[0] \ Listed
        PROVE  /\ 1 \in Visible(seq, 0 + 1, f) /\ e[0][f] = seq[1][f]
               /\ \A j \in Visible(seq, 0 + 1, f) : j <= 1
    BY <1>2, <2>1, <2>2
  <2>5. Right(0)
    BY <2>3, <2>4, Zenon
  <2> QED BY <2>5
<1>5. ASSUME NEW k \in 1 .. n, k - 1 \in G PROVE k \in G
  <2> DEFINE x == layers[k]
             old == e[k - 1]
  <2>1. k \in Nat /\ (k - 1) + 1 = k /\ k \in 0 .. n /\ x = seq[k + 1]
    OBVIOUS
  <2>2. Right(k - 1)
    BY <1>5
  <2>3. /\ \A f : f \in DOMAIN old <=> Visible(seq, k, f) # {}
        /\ \A f \in DOMAIN old \ Listed :
              \E i \in Visible(seq, k, f) :
                 (\A j \in Visible(seq, k, f) : j <= i) /\ old[f] = seq[i][f]
    BY <2>1, <2>2
  <2>4. e[k] = overlay(old, x)
    BY <1>3
  <2>5. \A f : Visible(seq, k + 1, f) =
              (IF Hides(f, x) THEN {} ELSE Visible(seq, k, f))
                \cup (IF f \in DOMAIN x THEN {k + 1} ELSE {})
    BY <2>1, VisibleOne
  <2>6. \A f, i : i \in Visible(seq, k, f) => i \in 1 .. k
    BY DEF Visible
  <2> HIDE DEF x, old
  <2>7. \A f : f \in DOMAIN e[k] <=> Visible(seq, k + 1, f) # {}
    <3>1. \A f : f \in DOMAIN e[k] <=> f \in DOMAIN x \/ (f \in DOMAIN old /\ ~Hides(f, x))
      BY <2>4, OverlayOne
    <3> SUFFICES ASSUME NEW f PROVE f \in DOMAIN e[k] <=> Visible(seq, k + 1, f) # {}
      OBVIOUS
    <3>2. f \in DOMAIN old <=> Visible(seq, k, f) # {}
      BY <2>3
    <3>3. Visible(seq, k + 1, f) =
              (IF Hides(f, x) THEN {} ELSE Visible(seq, k, f))
                \cup (IF f \in DOMAIN x THEN {k + 1} ELSE {})
      BY <2>5
    <3> QED BY <3>1, <3>2, <3>3
  <2>8. ASSUME NEW f \in DOMAIN e[k] \ Listed
        PROVE  \E i \in Visible(seq, k + 1, f) :
                  (\A j \in Visible(seq, k + 1, f) : j <= i) /\ e[k][f] = seq[i][f]
    <3>1. CASE f \in DOMAIN x
      <4>1. k + 1 \in Visible(seq, k + 1, f) /\ e[k][f] = x[f]
        <5>1. f \in DOMAIN overlay(old, x) \ Listed
          BY <2>4, <2>8
        <5>2. e[k][f] = x[f]
          BY <3>1, <5>1, <2>4, OverlayOne
        <5> QED BY <3>1, <5>2, <2>5
      <4>2. \A j \in Visible(seq, k + 1, f) : j <= k + 1
        BY <2>1, <2>5, <2>6
      <4> QED BY <4>1, <4>2, <2>1
    <3>2. CASE f \notin DOMAIN x
      <4>1. f \in DOMAIN old /\ ~Hides(f, x) /\ e[k][f] = old[f]
        <5>1. f \in DOMAIN overlay(old, x) \ Listed
          BY <2>4, <2>8
        <5> QED BY <3>2, <5>1, <2>4, OverlayOne
      <4>2. Visible(seq, k + 1, f) = Visible(seq, k, f)
        BY <3>2, <4>1, <2>5
      <4> QED BY <4>1, <4>2, <2>3
    <3> QED BY <3>1, <3>2
  <2> QED BY <2>1, <2>7, <2>8
<1>6. n \in G
  <2> HIDE DEF G
  <2>1. 0 .. n \subseteq G
    BY <1>4, <1>5, UpTo
  <2> QED BY <2>1
<1>7. Right(n)
  BY <1>6
<1> QED BY <1>7, <1>8

\* What a layer sets holds until a later one sets it too, and runtime_exec hides all SSH
\* settings below it for good: effective_target_from_input, for any number of layers.
THEOREM NearestLayerWinsThm == ConfigSpec => []NearestLayerWins
<1>1. Evaluated => NearestLayerWins
  <2> SUFFICES ASSUME Evaluated, kind = "target"
               PROVE  NearestLayerWins
    BY DEF NearestLayerWins
  <2> DEFINE layers == <<builtin_defaults>> \o input.layers
             c == result.effective
             ssh(f) == f[1] \in {"local_ssh", "bridge"}
             visible(f) == {i \in DOMAIN layers :
                /\ f \in DOMAIN layers[i]
                /\ ~(ssh(f) /\ \E j \in i + 1 .. Len(layers) : IsExec(layers[j]))}
             last(f) == CHOOSE i \in visible(f) : \A j \in visible(f) : j <= i
  <2>1. /\ input.layers \in Seq(ToSet(input.layers))
        /\ c = effective_target_from_input(input.layers)
    BY TargetInputsAssumption DEF Evaluated
  <2> DEFINE n == Len(input.layers)
  <2>2. /\ n \in Nat /\ DOMAIN input.layers = 1 .. n
        /\ Len(layers) = n + 1 /\ DOMAIN layers = 1 .. n + 1
        /\ layers[1] = builtin_defaults
        /\ \A k \in 1 .. n : layers[k + 1] = input.layers[k]
    BY <2>1
  <2>3. \A f : visible(f) = Visible(layers, n + 1, f)
    BY <2>2 DEF Visible, Hides
  <2> HIDE DEF n, layers, c
  <2>4. /\ \A f : f \in DOMAIN c <=> Visible(layers, n + 1, f) # {}
        /\ \A f \in DOMAIN c \ Listed :
              \E i \in Visible(layers, n + 1, f) :
                 (\A j \in Visible(layers, n + 1, f) : j <= i) /\ c[f] = layers[i][f]
    BY <2>1, <2>2, Nearest
  <2>5. /\ \A f : f \in DOMAIN c <=> visible(f) # {}
        /\ \A f \in DOMAIN c \ Listed :
              \E i \in visible(f) : (\A j \in visible(f) : j <= i) /\ c[f] = layers[i][f]
    <3> HIDE DEF visible
    <3>1. ASSUME NEW f PROVE f \in DOMAIN c <=> visible(f) # {}
      <4>1. visible(f) = Visible(layers, n + 1, f)
        BY <2>3
      <4> QED BY <2>4, <4>1
    <3>2. ASSUME NEW f \in DOMAIN c \ Listed
          PROVE  \E i \in visible(f) : (\A j \in visible(f) : j <= i) /\ c[f] = layers[i][f]
      <4> DEFINE V == Visible(layers, n + 1, f)
      <4>1. PICK i \in V : (\A j \in V : j <= i) /\ c[f] = layers[i][f]
        BY <2>4
      <4>2. visible(f) = V
        BY <2>3
      <4> HIDE DEF V
      <4>3. i \in visible(f) /\ \A j \in visible(f) : j <= i
        BY <4>1, <4>2
      <4> QED BY <4>1, <4>3
    <3> QED BY <3>1, <3>2, Zenon
  <2>6. DOMAIN c = {f \in UNION {DOMAIN layers[i] : i \in DOMAIN layers} : visible(f) # {}}
    <3>1. ASSUME NEW f, visible(f) # {} PROVE \E i \in DOMAIN layers : f \in DOMAIN layers[i]
      BY <3>1
    <3>2. ASSUME NEW f, visible(f) # {} PROVE f \in UNION {DOMAIN layers[i] : i \in DOMAIN layers}
      BY <3>1, <3>2
    <3> HIDE DEF visible
    <3>3. \A f : f \in DOMAIN c <=> visible(f) # {}
      BY <2>5
    <3> QED BY <3>2, <3>3
  <2>7. ASSUME NEW f \in DOMAIN c \ Listed PROVE c[f] = layers[last(f)][f]
    <3>1. PICK i \in visible(f) : (\A j \in visible(f) : j <= i) /\ c[f] = layers[i][f]
      BY <2>5
    <3>2. visible(f) \subseteq Nat
      BY <2>2
    <3> HIDE DEF visible
    <3>3. last(f) \in visible(f) /\ \A j \in visible(f) : j <= last(f)
      BY <3>1
    <3>4. last(f) = i
      BY <3>1, <3>2, <3>3
    <3> QED BY <3>1, <3>4
  <2> QED BY <2>6, <2>7 DEF NearestLayerWins, layers, c, Listed
<1> QED BY <1>1, EvaluatedThm, PTL

-----------------------------------------------------------------------------
(* The agent's file.                                                       *)

\* An element of a typed sequence.
LEMMA Element ==
    ASSUME NEW S, NEW s \in Seq(S)
    PROVE  \A i \in DOMAIN s : s[i] \in S
OBVIOUS

\* merge_services keeps the type of the services.
LEMMA MergeTyped ==
    ASSUME NEW S, NEW old \in Seq(S), NEW new \in Seq(S)
    PROVE  merge_services(old, new) \in Seq(S)
<1>1. Len(new) \in Nat /\ DOMAIN new = 1 .. Len(new) /\ \A k \in 1 .. Len(new) : new[k] \in S
  OBVIOUS
<1>2. ASSUME NEW acc \in Seq(S), NEW s \in S PROVE Step([op |-> "merge"], acc, s) \in Seq(S)
  <2>1. merge_service(acc, s) \in Seq(S)
    BY DEF merge_service
  <2> QED BY <2>1 DEF Step
<1> DEFINE P == Seq(S)
           n == Len(new)
<1>3. /\ n \in Nat /\ DOMAIN new = 1 .. n /\ old \in P
      /\ \A e \in P, k \in 1 .. n : Step([op |-> "merge"], e, new[k]) \in P
  BY <1>1, <1>2
<1>4. Folded([op |-> "merge"], old, new) \in P
  <2> HIDE DEF P, n
  <2> QED BY <1>3, Stays
<1> QED BY <1>4, FoldedMerge

\* Retaining services keeps their type.
LEMMA RetainTyped ==
    ASSUME NEW S, NEW old \in Seq(S)
    PROVE  FoldLeft(retain_service, <<>>, old) \in Seq(S)
<1>1. Len(old) \in Nat /\ DOMAIN old = 1 .. Len(old) /\ \A k \in 1 .. Len(old) : old[k] \in S
  OBVIOUS
<1>2. ASSUME NEW kept \in Seq(S), NEW s \in S PROVE Step([op |-> "retain"], kept, s) \in Seq(S)
  <2>1. retain_service(kept, s) \in Seq(S)
    BY DEF retain_service
  <2> QED BY <2>1 DEF Step
<1> DEFINE P == Seq(S)
           n == Len(old)
<1>3. /\ n \in Nat /\ DOMAIN old = 1 .. n /\ <<>> \in P
      /\ \A e \in P, k \in 1 .. n : Step([op |-> "retain"], e, old[k]) \in P
  BY <1>1, <1>2
<1>4. Folded([op |-> "retain"], <<>>, old) \in P
  <2> HIDE DEF P, n
  <2> QED BY <1>3, Stays
<1> QED BY <1>4, FoldedRetain

\* A layer keeps the type of the services.
LEMMA OverlayTyped ==
    ASSUME NEW S, NEW c, Services(c) \in Seq(S), NEW x, Services(x) \in Seq(S)
    PROVE  Services(overlay(c, x)) \in Seq(S)
<1> DEFINE f == <<"agent", "services">>
           base == IF IsExec(x) THEN clear_inherited_ssh_access(c) ELSE c
<1>1. /\ f \in DOMAIN base <=> f \in DOMAIN c
      /\ f \in DOMAIN c => base[f] \in Seq(S)
  <2>1. f[1] \notin {"local_ssh", "bridge"}
    OBVIOUS
  <2>2. f \in DOMAIN c => c[f] \in Seq(S)
    BY DEF Services, Get
  <2> HIDE DEF f
  <2>3. f \in DOMAIN clear_inherited_ssh_access(c) <=> f \in DOMAIN c
    BY <2>1 DEF clear_inherited_ssh_access
  <2>4. f \in DOMAIN c => clear_inherited_ssh_access(c)[f] = FoldLeft(retain_service, <<>>, c[f])
    BY <2>1 DEF clear_inherited_ssh_access, f
  <2>5. f \in DOMAIN c => FoldLeft(retain_service, <<>>, c[f]) \in Seq(S)
    BY <2>2, RetainTyped
  <2> QED BY <2>2, <2>3, <2>4, <2>5, Zenon
<1>2. f \in DOMAIN x => x[f] \in Seq(S)
  BY DEF Services, Get
<1>3. /\ f \in DOMAIN overlay(c, x) <=> f \in DOMAIN base \cup DOMAIN x
      /\ f \in DOMAIN overlay(c, x) =>
            overlay(c, x)[f] = IF f \notin DOMAIN x THEN base[f]
                               ELSE IF f \notin DOMAIN base THEN x[f]
                               ELSE merge_services(base[f], x[f])
  BY DEF overlay
<1>4. f \in DOMAIN base /\ f \in DOMAIN x => merge_services(base[f], x[f]) \in Seq(S)
  BY <1>1, <1>2, MergeTyped
<1>5. Services(overlay(c, x)) = IF f \in DOMAIN overlay(c, x) THEN overlay(c, x)[f] ELSE <<>>
  BY DEF Services, Get
<1> HIDE DEF f, base
<1> QED BY <1>1, <1>2, <1>3, <1>4, <1>5

\* An effective target has services of the type its layers have.
LEMMA EffectiveTyped ==
    ASSUME NEW S, NEW n \in Nat, NEW layers, DOMAIN layers = 1 .. n,
           \A k \in 1 .. n : Services(layers[k]) \in Seq(S)
    PROVE  Services(effective_target_from_input(layers)) \in Seq(S)
<1>1p. PICK e : IsChain(e, [op |-> "target"], builtin_defaults, layers, n)
  BY Chain
<1>1. /\ e[0] = builtin_defaults
      /\ \A k \in 1 .. n : e[k] = Step([op |-> "target"], e[k - 1], layers[k])
      /\ e[n] = Folded([op |-> "target"], builtin_defaults, layers)
  BY <1>1p DEF IsChain
<1> DEFINE G == {k \in 0 .. n : Services(e[k]) \in Seq(S)}
<1>2. 0 \in G
  <2>1. Services(builtin_defaults) = <<>>
    BY DEF Services, Get, builtin_defaults
  <2>2. <<>> \in Seq(S)
    OBVIOUS
  <2>3. Services(e[0]) \in Seq(S)
    BY <1>1, <2>1, <2>2, Zenon
  <2> QED BY <2>3
<1>3. ASSUME NEW k \in 1 .. n, k - 1 \in G PROVE k \in G
  <2>1. e[k] = overlay(e[k - 1], layers[k])
    BY <1>1 DEF Step
  <2>2. Services(e[k]) \in Seq(S)
    BY <1>3, <2>1, OverlayTyped
  <2> QED BY <2>2
<1>4. n \in G
  <2> HIDE DEF G
  <2>1. 0 .. n \subseteq G
    BY <1>2, <1>3, UpTo
  <2> QED BY <2>1
<1> QED BY <1>1, <1>4, FoldedTarget

\* A target validate_gateway accepts writes a file the agent accepts.
LEMMA FileIsValid ==
    ASSUME NEW c, validate_gateway(c), AgentOn(c), Services(c) \in Seq([name : STRING, user : STRING])
    PROVE  LET file == write_container_agent_config(c)
           IN  /\ validate_agent_file(file)
               /\ IdleLoop(file) <=> uses_agent_idle_cleanup(c)
<1>2. \A i \in DOMAIN Services(c) : Services(c)[i] \in [name : STRING, user : STRING]
  BY Element
<1> DEFINE file == write_container_agent_config(c)
           rendered(s) == [s EXCEPT !.user = IF @ = "{container_user}" THEN "dev" ELSE @]
           services == Services(c)
<1> DEFINE new == [i \in DOMAIN services |-> rendered(services[i])]
           bridge == IF AgentOn(c) /\ BridgeOn(c) THEN [Bridge(c) EXCEPT !.socket = "path"] ELSE Bridge(c)
           own == idle_cleanup(c, "idle_cleanup")
           agent_idle == idle_cleanup(c, "agent_idle")
           idle == IF ~own.set THEN agent_idle
                   ELSE IF is_active_agent_idle_cleanup(own) THEN own ELSE NoSection
<1>0. /\ file.services = new /\ file.enabled = AgentOn(c)
      /\ file.bridge = bridge /\ file.idle = idle
  <2>1. file = [enabled  |-> AgentOn(c),
                control  |-> IF agent_control_enabled(c) THEN "path" ELSE ControlSocket(c),
                bridge   |-> bridge,
                idle     |-> idle,
                services |-> new]
    BY Zenon DEF write_container_agent_config
  <2> HIDE DEF new, bridge, idle, file
  <2> QED BY <2>1
<1>1. /\ DOMAIN file.services = DOMAIN services
      /\ \A i \in DOMAIN services : file.services[i] = rendered(services[i])
  <2>1. DOMAIN new = DOMAIN services /\ \A i \in DOMAIN services : new[i] = rendered(services[i])
    OBVIOUS
  <2>2. file.services = new
    BY <1>0
  <2> QED BY <2>1, <2>2, Zenon
<1> HIDE DEF file, services, new, bridge, own, agent_idle, idle
<1>3. \A i \in DOMAIN services : /\ rendered(services[i]).name = services[i].name
                                 /\ rendered(services[i]).user # "{container_user}"
  BY <1>2 DEF services
<1>4. \A i, j \in DOMAIN services : services[i].name = services[j].name => i = j
  BY DEF validate_gateway, AgentCommon, ServicesValid, services
<1>5. ServicesValid(file.services, FALSE)
  <2> HIDE DEF rendered
  <2>1. \A i \in DOMAIN services : /\ file.services[i].name = services[i].name
                                   /\ file.services[i].user # "{container_user}"
    BY <1>1, <1>3
  <2>2. DOMAIN file.services = DOMAIN services
    BY <1>1
  <2> QED BY <2>1, <2>2, <1>4 DEF ServicesValid
<1>6. file.bridge.set =>
        /\ file.bridge.enabled => file.bridge.socket # ""
        /\ BridgeValid(file.bridge)
  <2> DEFINE b == Bridge(c)
  <2>1. b.set => b.mode = "0600"
    BY DEF validate_gateway, BridgeValid
  <2>2. file.bridge = IF b.set /\ b.enabled THEN [b EXCEPT !.socket = "path"] ELSE b
    BY <1>0 DEF BridgeOn, bridge
  <2>3. CASE b.set /\ b.enabled
    <3>1. b = [set |-> TRUE, enabled |-> b.enabled, socket |-> b.socket, mode |-> b.mode]
      BY <2>3 DEF Bridge, NoSection
    <3> HIDE DEF b
    <3>2. [b EXCEPT !.socket = "path"].socket = "path" /\ [b EXCEPT !.socket = "path"].mode = b.mode
      BY <3>1
    <3> QED BY <2>1, <2>2, <2>3, <3>2 DEF BridgeValid
  <2>4. CASE ~(b.set /\ b.enabled)
    <3> HIDE DEF b
    <3> QED BY <2>1, <2>2, <2>4 DEF BridgeValid
  <2> QED BY <2>3, <2>4
<1>7. IdleLoop(file) <=> uses_agent_idle_cleanup(c)
  <2>1. file.idle = IF ~own.set THEN agent_idle
                    ELSE IF is_active_agent_idle_cleanup(own) THEN own ELSE NoSection
    BY <1>0 DEF idle
  <2>2. uses_agent_idle_cleanup(c) <=> is_active_agent_idle_cleanup(IF own.set THEN own ELSE agent_idle)
    BY DEF uses_agent_idle_cleanup, effective_agent_idle_cleanup, own, agent_idle
  <2>3. ~is_active_agent_idle_cleanup(NoSection)
    BY DEF is_active_agent_idle_cleanup, NoSection
  <2>4. IdleLoop(file) <=> is_active_agent_idle_cleanup(file.idle)
    BY DEF IdleLoop
  <2> QED BY <2>1, <2>2, <2>3, <2>4
<1>8. validate_agent_file(file)
  BY <1>0, <1>5, <1>6 DEF validate_agent_file
<1> QED BY <1>7, <1>8 DEF file

\* The agent accepts the file the gateway writes for an accepted target, with the socket it
\* needs for an enabled bridge, and both agree whether it idles:
\* write_container_agent_config against the agent's own validation.
THEOREM AgentTakesItsFileThm == ConfigSpec => []AgentTakesItsFile
<1>1. Evaluated => AgentTakesItsFile
  <2> SUFFICES ASSUME Evaluated, kind = "target", result.accepted, AgentOn(result.effective)
               PROVE  AgentTakesItsFile
    BY DEF AgentTakesItsFile
  <2> DEFINE layers == input.layers
             n == Len(layers)
  <2>1. /\ layers \in Seq(ToSet(layers))
        /\ \A layer \in ToSet(layers) : Services(layer) \in Seq([name : STRING, user : STRING])
        /\ Accepted(layers, input.runtime, input.required)
        /\ result.effective = effective_target_from_input(layers)
    BY TargetInputsAssumption DEF Evaluated
  <2>2. /\ n \in Nat /\ DOMAIN layers = 1 .. n
        /\ \A k \in 1 .. n : Services(layers[k]) \in Seq([name : STRING, user : STRING])
    BY <2>1
  <2>3. validate_gateway(result.effective)
    BY <2>1 DEF Accepted, validate
  <2> HIDE DEF layers, n
  <2>4. Services(result.effective) \in Seq([name : STRING, user : STRING])
    BY <2>1, <2>2, EffectiveTyped
  <2> QED BY <2>3, <2>4, FileIsValid DEF AgentTakesItsFile
<1> QED BY <1>1, EvaluatedThm, PTL

-----------------------------------------------------------------------------
(* Launches.                                                               *)

\* One layer over another is a launch.
LEMMA OverlayLaunchTyped ==
    ASSUME NEW earlier, IsLaunch(earlier), NEW later, IsLaunch(later)
    PROVE  IsLaunch(overlay_launch(earlier, later))
<1> DEFINE launch == overlay_launch(earlier, later)
           pick(f, default) == IF f \in DOMAIN later THEN later[f] ELSE Field(earlier, f, default)
<1>1. \A f, default : f \notin {"env", "vars", "steps"} =>
         Field(launch, f, default) = IF f \in DOMAIN later THEN later[f] ELSE Field(earlier, f, default)
  BY DEF overlay_launch, Field
<1>2. Field(launch, "command", <<>>) \in Seq(CommandElements)
  <2>1. Field(launch, "command", <<>>) = pick("command", <<>>)
    BY <1>1
  <2> QED BY <2>1 DEF IsLaunch, Field
<1>3. Field(launch, "allow_args", "unset") \in {"unset", "yes", "no"}
  <2>1. Field(launch, "allow_args", "unset") = pick("allow_args", "unset")
    BY <1>1
  <2> QED BY <2>1 DEF IsLaunch, Field
<1> DEFINE declared(l) == Field(l, "vars", <<>>)
           Good(v) == /\ v.type \in {"string", "enum", "boolean", "number"}
                      /\ v.default \in {Absent} \cup LaunchValues
<1>4. \A v \in DOMAIN declared(launch) :
         \/ v \in DOMAIN declared(later) /\ declared(launch)[v] = declared(later)[v]
         \/ v \in DOMAIN declared(earlier) /\ declared(launch)[v] = declared(earlier)[v]
  <2>1. CASE "vars" \notin DOMAIN later
    BY <2>1 DEF overlay_launch, Field
  <2>2. CASE "vars" \notin DOMAIN earlier
    BY <2>2 DEF overlay_launch, Field
  <2>3. CASE "vars" \in DOMAIN later /\ "vars" \in DOMAIN earlier
    <3>1. declared(launch) = extend(declared(earlier), declared(later))
      BY <2>3 DEF overlay_launch, Field
    <3> QED BY <3>1 DEF extend
  <2> QED BY <2>1, <2>2, <2>3
<1>5. \A v \in DOMAIN declared(launch) : Good(declared(launch)[v])
  <2>1. /\ \A v \in DOMAIN declared(later) : Good(declared(later)[v])
        /\ \A v \in DOMAIN declared(earlier) : Good(declared(earlier)[v])
    BY DEF IsLaunch
  <2> HIDE DEF Good, declared, launch
  <2> QED BY <1>4, <2>1
<1> QED BY <1>2, <1>3, <1>5 DEF IsLaunch

\* An effective launch is a launch.
LEMMA EffectiveLaunchTyped ==
    ASSUME NEW n \in Nat, NEW layers, DOMAIN layers = 1 .. n, \A k \in 1 .. n : IsLaunch(layers[k])
    PROVE  IsLaunch(effective_launch(layers))
<1>1p. PICK e : IsChain(e, [op |-> "launch"], <<>>, layers, n)
  BY Chain
<1>1. /\ e[0] = <<>>
      /\ \A k \in 1 .. n : e[k] = Step([op |-> "launch"], e[k - 1], layers[k])
      /\ e[n] = Folded([op |-> "launch"], <<>>, layers)
  BY <1>1p DEF IsChain
<1> DEFINE G == {k \in 0 .. n : IsLaunch(e[k])}
<1>2. 0 \in G
  <2>1. IsLaunch(<<>>)
    BY DEF IsLaunch, Field
  <2> QED BY <1>1, <2>1
<1>3. ASSUME NEW k \in 1 .. n, k - 1 \in G PROVE k \in G
  <2>1. e[k] = overlay_launch(e[k - 1], layers[k])
    BY <1>1 DEF Step
  <2>2. IsLaunch(e[k])
    BY <1>3, <2>1, OverlayLaunchTyped
  <2> QED BY <2>2
<1>4. n \in G
  <2> HIDE DEF G
  <2>1. 0 .. n \subseteq G
    BY <1>2, <1>3, UpTo
  <2> QED BY <2>1
<1> QED BY <1>1, <1>4, FoldedLaunch

\* Sequences can be appended one after the other.
LEMMA Appended ==
    ASSUME NEW n \in Nat, NEW seqs, DOMAIN seqs = 1 .. n
    PROVE  \E f : f[0] = <<>> /\ \A k \in 1 .. n : f[k] = f[k - 1] \o seqs[k]
<1>1p. PICK f : IsChain(f, [op |-> "flatten"], <<>>, seqs, n)
  BY Chain
<1>1. /\ f[0] = <<>>
      /\ \A k \in 1 .. n : f[k] = Step([op |-> "flatten"], f[k - 1], seqs[k])
      /\ f[n] = Folded([op |-> "flatten"], <<>>, seqs)
  BY <1>1p DEF IsChain
<1>2. \A k \in 1 .. n : f[k] = f[k - 1] \o seqs[k]
  BY <1>1 DEF Step
<1> QED BY <1>1, <1>2

\* The parts of a flattened sequence, one after the other.
LEMMA Flatten ==
    ASSUME NEW n \in Nat \ {0}, NEW E, NEW seqs, DOMAIN seqs = 1 .. n, Len(seqs) = n,
           \A k \in 1 .. n : seqs[k] \in Seq(E)
    PROVE  \E e : /\ e[0] = <<>>
                  /\ \A k \in 1 .. n : e[k] = e[k - 1] \o seqs[k]
                  /\ e[n] = FlattenSeq(seqs)
<1>1. PICK f : f[0] = <<>> /\ \A k \in 1 .. n : f[k] = f[k - 1] \o seqs[k]
  BY Appended, Zenon
<1>2. 1 \in 1 .. n /\ 1 - 1 = 0
  OBVIOUS
<1>3. <<>> \o seqs[1] = seqs[1]
  BY <1>2, ConcatEmptySeq
<1> DEFINE Is(g) == g = [i \in 1 .. n |-> IF i = 1 THEN seqs[i] ELSE g[i - 1] \o seqs[i]]
<1> DEFINE h == [i \in 1 .. n |-> f[i]]
<1>4. Is(h)
  <2> SUFFICES ASSUME NEW i \in 1 .. n PROVE f[i] = IF i = 1 THEN seqs[i] ELSE h[i - 1] \o seqs[i]
    OBVIOUS
  <2>1. CASE i = 1
    <3>1. f[1] = f[0] \o seqs[1]
      BY <1>1, <1>2
    <3> QED BY <2>1, <3>1, <1>1, <1>3
  <2>2. CASE i # 1
    <3>1. i - 1 \in 1 .. n
      BY <2>2
    <3>2. f[i] = f[i - 1] \o seqs[i] /\ h[i - 1] = f[i - 1]
      BY <1>1, <3>1
    <3> QED BY <2>2, <3>2
  <2> QED BY <2>1, <2>2
<1> DEFINE g == CHOOSE g : Is(g)
<1>5. Is(g) /\ FlattenSeq(seqs) = g[n]
  <2>1. Is(g)
    <3> HIDE DEF h
    <3> QED BY <1>4
  <2>2. FlattenSeq(seqs) = g[n]
    BY DEF FlattenSeq
  <2> QED BY <2>1, <2>2
<1> DEFINE e == [k \in 0 .. n |-> IF k = 0 THEN <<>> ELSE g[k]]
<1> HIDE DEF g, h
<1>6. e[0] = <<>> /\ e[n] = FlattenSeq(seqs)
  BY <1>5
<1>7. ASSUME NEW k \in 1 .. n PROVE e[k] = e[k - 1] \o seqs[k]
  <2>1. CASE k = 1
    BY <2>1, <1>3, <1>5
  <2>2. CASE k # 1
    <3>1. k - 1 \in 1 .. n
      BY <2>2
    <3>2. e[k - 1] = g[k - 1] /\ e[k] = g[k]
      BY <2>2, <3>1
    <3>3. g[k] = g[k - 1] \o seqs[k]
      BY <1>5, <2>2
    <3> QED BY <3>2, <3>3
  <2> QED BY <2>1, <2>2
<1> HIDE DEF e
<1> QED BY <1>6, <1>7

\* What a command becomes, element by element.
Parts(command, args) ==
    [i \in DOMAIN command |-> IF command[i].what = "args" THEN args ELSE <<command[i]>>]

\* A rendered command is its elements one after the other, the sentinel replaced.
LEMMA RenderedChain ==
    ASSUME NEW E, NEW command \in Seq(E), NEW args \in Seq(E), command # <<>>
    PROVE  \E e : /\ e[0] = <<>>
                  /\ \A k \in 1 .. Len(command) :
                        e[k] = e[k - 1] \o (IF command[k].what = "args" THEN args ELSE <<command[k]>>)
                  /\ e[Len(command)] = render_launch_command(command, args)
<1> DEFINE n == Len(command)
           seqs == Parts(command, args)
<1>1. n \in Nat \ {0} /\ DOMAIN seqs = 1 .. n
  BY DEF Parts
<1>2. seqs \in Seq(Seq(E)) /\ Len(seqs) = n
  <2>1. \A i \in 1 .. n : seqs[i] \in Seq(E)
    BY DEF Parts
  <2>2. seqs = [i \in 1 .. n |-> IF command[i].what = "args" THEN args ELSE <<command[i]>>]
    BY DEF Parts
  <2>3. seqs \in [1 .. n -> Seq(E)]
    BY <2>1, <2>2
  <2> HIDE DEF seqs, n
  <2> QED BY <1>1, <2>3
<1>3. \A k \in 1 .. n : seqs[k] = IF command[k].what = "args" THEN args ELSE <<command[k]>>
  BY DEF Parts
<1>4. FlattenSeq(seqs) = render_launch_command(command, args)
  BY DEF render_launch_command, Parts
<1>5. \A k \in 1 .. n : seqs[k] \in Seq(E)
  BY <1>1, <1>2, Element
<1> HIDE DEF n, seqs
<1>6. \E e : /\ e[0] = <<>>
             /\ \A k \in 1 .. n : e[k] = e[k - 1] \o seqs[k]
             /\ e[n] = FlattenSeq(seqs)
  BY <1>1, <1>2, <1>5, Flatten
<1>7. PICK e : /\ e[0] = <<>>
               /\ \A k \in 1 .. n : e[k] = e[k - 1] \o seqs[k]
               /\ e[n] = FlattenSeq(seqs)
  BY <1>6
<1>8. /\ \A k \in 1 .. n : e[k] = e[k - 1] \o (IF command[k].what = "args" THEN args ELSE <<command[k]>>)
      /\ e[n] = render_launch_command(command, args)
  BY <1>3, <1>4, <1>7
<1> QED BY <1>7, <1>8 DEF n

\* Up to the sentinel a command stays as it is.
LEMMA PrefixStays ==
    ASSUME NEW E, NEW command \in Seq(E), NEW args, NEW e, e[0] = <<>>,
           NEW p \in 0 .. Len(command),
           \A k \in 1 .. p : e[k] = e[k - 1] \o <<command[k]>>
    PROVE  e[p] = SubSeq(command, 1, p)
<1> DEFINE G == {k \in 0 .. p : e[k] = SubSeq(command, 1, k)}
<1>1. 0 \in G
  <2>1. SubSeq(command, 1, 0) = <<>> /\ 0 \in 0 .. p
    BY SubSeqEmpty
  <2> QED BY <2>1
<1>2. ASSUME NEW k \in 1 .. p, k - 1 \in G PROVE k \in G
  <2>1. 1 \in 1 .. Len(command) /\ k \in 1 .. Len(command)
    OBVIOUS
  <2>2. SubSeq(command, 1, k) = SubSeq(command, 1, k - 1) \o <<command[k]>>
    BY <2>1, SubSeqRecursiveSecond
  <2>3. e[k - 1] = SubSeq(command, 1, k - 1)
    BY <1>2
  <2>4. e[k] = SubSeq(command, 1, k)
    BY <2>2, <2>3
  <2> QED BY <2>4
<1>3. p \in G
  <2> HIDE DEF G
  <2>1. p \in Nat
    OBVIOUS
  <2>2. 0 .. p \subseteq G
    BY <1>1, <1>2, <2>1, UpTo
  <2> QED BY <2>1, <2>2
<1> QED BY <1>3

\* Appending one element to the second of two sequences.
LEMMA AppendedLast ==
    ASSUME NEW S, NEW s \in Seq(S), NEW t \in Seq(S), NEW x \in S
    PROVE  (s \o t) \o <<x>> = s \o (t \o <<x>>)
<1>1. <<x>> \in Seq(S)
  OBVIOUS
<1> QED BY <1>1, ConcatAssociative

\* Behind the sentinel, too.
LEMMA SuffixGrows ==
    ASSUME NEW E, NEW command \in Seq(E), NEW front \in Seq(E), NEW p \in 1 .. Len(command),
           NEW q \in p + 1 .. Len(command)
    PROVE  (front \o SubSeq(command, p + 1, q - 1)) \o <<command[q]>>
              = front \o SubSeq(command, p + 1, q)
<1> DEFINE old == SubSeq(command, p + 1, q - 1)
           x == command[q]
<1>1. p + 1 \in 1 .. Len(command)
  OBVIOUS
<1>2. SubSeq(command, p + 1, q) = old \o <<x>>
  BY <1>1, SubSeqRecursiveSecond
<1>3. old \in Seq(E) /\ x \in E
  <2>1. \A i \in p + 1 .. q - 1 : command[i] \in E
    OBVIOUS
  <2> QED BY <2>1, SubSeqProperties
<1> HIDE DEF old, x
<1>4. (front \o old) \o <<x>> = front \o (old \o <<x>>)
  BY <1>3, AppendedLast
<1> QED BY <1>2, <1>4 DEF old, x

\* ... up to the end of the command.
LEMMA SuffixStays ==
    ASSUME NEW E, NEW command \in Seq(E), NEW e, NEW p \in 1 .. Len(command), e[p] \in Seq(E),
           \A k \in p + 1 .. Len(command) : e[k] = e[k - 1] \o <<command[k]>>
    PROVE  e[Len(command)] = e[p] \o SubSeq(command, p + 1, Len(command))
<1> DEFINE n == Len(command)
           m == n - p
           G == {k \in 0 .. m : e[p + k] = e[p] \o SubSeq(command, p + 1, p + k)}
<1>0. n \in Nat /\ m \in Nat /\ p \in Nat /\ p + m = n
  OBVIOUS
<1>1. 0 \in G
  <2>1. SubSeq(command, p + 1, p) = <<>>
    BY SubSeqEmpty
  <2>2. e[p] \o <<>> = e[p]
    BY ConcatEmptySeq
  <2>3. p + 0 = p /\ 0 \in 0 .. m
    BY <1>0
  <2>4. e[p + 0] = e[p] \o SubSeq(command, p + 1, p + 0)
    BY <2>1, <2>2, <2>3, Zenon
  <2> HIDE DEF m
  <2> QED BY <2>3, <2>4
<1>2. ASSUME NEW k \in 1 .. m, k - 1 \in G PROVE k \in G
  <2> DEFINE q == p + k
  <2>1. q \in p + 1 .. n /\ p + (k - 1) = q - 1 /\ k \in 0 .. m
    BY <1>0
  <2>2. e[q - 1] = e[p] \o SubSeq(command, p + 1, q - 1)
    BY <1>2, <2>1
  <2>3. e[q] = e[q - 1] \o <<command[q]>>
    BY <2>1
  <2> HIDE DEF m
  <2>4. e[q] = e[p] \o SubSeq(command, p + 1, q)
    BY <2>1, <2>2, <2>3, SuffixGrows
  <2> QED BY <2>1, <2>4
<1>3. m \in G
  <2> HIDE DEF G
  <2>1. 0 .. m \subseteq G
    BY <1>0, <1>1, <1>2, UpTo
  <2> QED BY <1>0, <2>1
<1> QED BY <1>0, <1>3

\* With one sentinel, the arguments stand in its place and the rest as declared.
LEMMA Spliced ==
    ASSUME NEW E, NEW command \in Seq(E), NEW args \in Seq(E), NEW p \in 2 .. Len(command),
           command[p].what = "args", \A k \in 1 .. Len(command) : command[k].what = "args" => k = p
    PROVE  render_launch_command(command, args)
              = SubSeq(command, 1, p - 1) \o args \o SubSeq(command, p + 1, Len(command))
<1>1. command # <<>>
  OBVIOUS
<1>2. PICK e : /\ e[0] = <<>>
               /\ \A k \in 1 .. Len(command) :
                     e[k] = e[k - 1] \o (IF command[k].what = "args" THEN args ELSE <<command[k]>>)
               /\ e[Len(command)] = render_launch_command(command, args)
  BY <1>1, RenderedChain
<1>3. /\ \A k \in 1 .. p - 1 : e[k] = e[k - 1] \o <<command[k]>>
      /\ e[p] = e[p - 1] \o args
      /\ \A k \in p + 1 .. Len(command) : e[k] = e[k - 1] \o <<command[k]>>
  <2>1. ASSUME NEW k \in 1 .. Len(command), k # p
        PROVE  e[k] = e[k - 1] \o <<command[k]>>
    BY <1>2, <2>1, Zenon
  <2>2. e[p] = e[p - 1] \o args
    <3>1. p \in 1 .. Len(command)
      OBVIOUS
    <3> QED BY <1>2, <3>1, Zenon
  <2>3. /\ \A k \in 1 .. p - 1 : k \in 1 .. Len(command) /\ k # p
        /\ \A k \in p + 1 .. Len(command) : k \in 1 .. Len(command) /\ k # p
    OBVIOUS
  <2> QED BY <2>1, <2>2, <2>3, Zenon
<1>4. e[p - 1] = SubSeq(command, 1, p - 1)
  <2>1. p - 1 \in 0 .. Len(command)
    OBVIOUS
  <2> QED BY <1>2, <1>3, <2>1, PrefixStays
<1>5. e[p] \in Seq(E)
  <2>1. SubSeq(command, 1, p - 1) \in Seq(E)
    <3>1. \A i \in 1 .. p - 1 : command[i] \in E
      OBVIOUS
    <3> QED BY <3>1, SubSeqProperties
  <2> QED BY <1>3, <1>4, <2>1
<1>6. e[Len(command)] = e[p] \o SubSeq(command, p + 1, Len(command))
  <2>1. p \in 1 .. Len(command)
    OBVIOUS
  <2> QED BY <1>3, <1>5, <2>1, SuffixStays
<1> QED BY <1>2, <1>3, <1>4, <1>6

\* Without a sentinel a command is rendered as declared.
LEMMA Unspliced ==
    ASSUME NEW E, NEW command \in Seq(E), NEW args \in Seq(E), command # <<>>,
           \A k \in 1 .. Len(command) : command[k].what # "args"
    PROVE  render_launch_command(command, args) = command
<1>1. PICK e : /\ e[0] = <<>>
               /\ \A k \in 1 .. Len(command) :
                     e[k] = e[k - 1] \o (IF command[k].what = "args" THEN args ELSE <<command[k]>>)
               /\ e[Len(command)] = render_launch_command(command, args)
  BY RenderedChain
<1>2. \A k \in 1 .. Len(command) : e[k] = e[k - 1] \o <<command[k]>>
  BY <1>1
<1>3. e[Len(command)] = SubSeq(command, 1, Len(command))
  <2>1. Len(command) \in 0 .. Len(command)
    OBVIOUS
  <2> QED BY <1>1, <1>2, <2>1, PrefixStays
<1> QED BY <1>1, <1>3, SubSeqFull

\* Of a set of at most one element any two are the same.
LEMMA AtMostOne ==
    ASSUME NEW n \in Nat, NEW S \in SUBSET (1 .. n), Cardinality(S) <= 1
    PROVE  \A x, y \in S : x = y
<1> SUFFICES ASSUME NEW x \in S, NEW y \in S, x # y PROVE FALSE
  OBVIOUS
<1>1. IsFiniteSet(S)
  <2>1. IsFiniteSet(1 .. n)
    BY FS_Interval
  <2> QED BY <2>1, FS_Subset
<1>2. /\ IsFiniteSet({}) /\ Cardinality({}) = 0 /\ Cardinality({x}) = 1
      /\ IsFiniteSet({x}) /\ Cardinality({x} \cup {y}) = Cardinality({x}) + 1
      /\ IsFiniteSet({x} \cup {y})
  BY FS_EmptySet, FS_Singleton, FS_AddElement
<1>3. Cardinality({x} \cup {y}) <= Cardinality(S)
  BY <1>1, FS_Subset
<1>4. Cardinality(S) \in Nat
  BY <1>1, FS_CardinalityType
<1> QED BY <1>2, <1>3, <1>4

\* A default that validation lets through is taken as a value.
LEMMA DefaultsFit ==
    ASSUME NEW v, VarValid(v), v.type \in {"string", "enum", "boolean", "number"},
           v.default \in LaunchValues
    PROVE  coerce_for_config(v.default, v) # Absent
<1> DEFINE d == v.default
<1>0. d # Absent /\ d.kind = (IF v.type = "enum" THEN "string" ELSE v.type)
  BY LaunchInputsAssumption DEF VarValid
<1>1. CASE v.type = "string"
  BY <1>0, <1>1 DEF VarValid, coerce_for_config
<1>2. CASE v.type = "enum"
  BY <1>0, <1>2 DEF VarValid, coerce_for_config
<1>3. CASE v.type = "boolean"
  <2>1. [kind |-> "boolean", text |-> d.text] \in LaunchValues
    BY DEF LaunchValues
  <2> QED BY <1>0, <1>3, <2>1, LaunchInputsAssumption DEF coerce_for_config
<1>4. CASE v.type = "number"
  <2>1. [kind |-> "number", text |-> d.text] \in LaunchValues
    BY DEF LaunchValues
  <2> QED BY <1>0, <1>4, <2>1, LaunchInputsAssumption DEF coerce_for_config
<1> QED BY <1>1, <1>2, <1>3, <1>4

\* An accepted launch without values fails for a required variable only.
LEMMA ResolvedAlone ==
    ASSUME NEW declared, \A v \in DOMAIN declared :
                        /\ VarValid(declared[v])
                        /\ declared[v].type \in {"string", "enum", "boolean", "number"}
                        /\ declared[v].default \in {Absent} \cup LaunchValues
    PROVE  resolve_launch_vars(declared, <<>>).ok <=> \A v \in DOMAIN declared : ~declared[v].required
<1> DEFINE r == resolve_launch_vars(declared, <<>>)
           defaulted == {v \in DOMAIN declared : declared[v].default # Absent}
<1>1. /\ DOMAIN <<>> = {}
      /\ DOMAIN <<>> \cap DOMAIN declared = {}
      /\ {v \in DOMAIN declared \ {} : declared[v].default # Absent} = defaulted
  OBVIOUS
<1>2. r.ok <=> /\ \A v \in DOMAIN declared : ~declared[v].required
               /\ \A v \in defaulted : coerce_for_config(declared[v].default, declared[v]) # Absent
  BY <1>1 DEF resolve_launch_vars
<1>3. \A v \in defaulted : coerce_for_config(declared[v].default, declared[v]) # Absent
  BY DefaultsFit
<1> QED BY <1>2, <1>3

\* Every variable a resolved launch references has a value.
LEMMA ReferencesBound ==
    ASSUME NEW launch, NEW supplied, NEW at, Running(at), ReferencesValid(launch),
           LaunchKeys(launch) \subseteq GATEWAY_TEMPLATE_VARS \cup DOMAIN Field(launch, "vars", <<>>),
           resolve_launch_vars(Field(launch, "vars", <<>>), supplied).ok
    PROVE  LaunchKeys(launch) \subseteq
              launch_template_vars(at, resolve_launch_vars(Field(launch, "vars", <<>>), supplied))
                 \cup Unbound(at, {})
<1> DEFINE declared == Field(launch, "vars", <<>>)
           r == resolve_launch_vars(declared, supplied)
           given == DOMAIN supplied \cap DOMAIN declared
           defaulted == {v \in DOMAIN declared \ given : declared[v].default # Absent}
<1>1. GATEWAY_TEMPLATE_VARS \subseteq runtime_vars(at, at.pid) \cup Unbound(at, {})
  <2>1. "host_steps" \in TemplateFields /\ Rendered("host_steps", at)
    BY DEF TemplateFields, Rendered
  <2>2. /\ Allowed("host_steps") = GATEWAY_TEMPLATE_VARS
        /\ Bound("host_steps", at) = runtime_vars(at, at.pid)
    BY DEF Allowed, Bound
  <2> QED BY <2>1, <2>2, AllowedAreBound
<1>2. /\ DOMAIN r.values = given \cup defaulted
      /\ \A v \in DOMAIN declared : declared[v].required => v \in given
  BY DEF resolve_launch_vars
<1>3. \A v \in DOMAIN declared : v \in LaunchKeys(launch) => v \in DOMAIN r.values
  BY <1>2 DEF ReferencesValid
<1> QED BY <1>1, <1>3 DEF launch_template_vars

\* An accepted launch fails for no other reason than its request: its variables have values,
\* its defaults fit, and the arguments of the request stand once, together and behind the
\* program: resolve_launch_vars, launch_template_vars and render_launch_command.
THEOREM LaunchRunsAsDeclaredThm == ConfigSpec => []LaunchRunsAsDeclared
<1>1. Evaluated => LaunchRunsAsDeclared
  <2> SUFFICES ASSUME Evaluated, kind = "launch", result.accepted
               PROVE  LaunchRunsAsDeclared
    BY DEF LaunchRunsAsDeclared
  <2> DEFINE layers == input.layers
             n == Len(layers)
             launch == effective_launch(layers)
             command == Field(launch, "command", <<>>)
             declared == Field(launch, "vars", <<>>)
             allow == Field(launch, "allow_args", "unset")
             args == input.args
             at == input.at
  <2>1. /\ input \in LaunchInputs
        /\ AcceptedLaunch(layers, {"t"}, {"var.v", "var.w"})
        /\ result.launch = launch
        /\ result.resolved = resolve_launch_vars(declared, input.supplied)
        /\ result.taken = validate_launch_passthrough_args(launch, args)
        /\ result.bound = launch_template_vars(at, result.resolved)
        /\ result.command = render_launch_command(command, args)
    BY DEF Evaluated
  <2>2. IsLaunch(launch) /\ args \in Seq(CommandElements) /\ Running(at)
    <3>1. n \in Nat /\ DOMAIN layers = 1 .. n /\ \A k \in 1 .. n : IsLaunch(layers[k])
      BY <2>1, LaunchInputsAssumption
    <3>2. IsLaunch(launch)
      <4> HIDE DEF n, layers
      <4> QED BY <3>1, EffectiveLaunchTyped
    <3> QED BY <2>1, <3>2, LaunchInputsAssumption
  <2>3. "command" \in DOMAIN launch /\ validate_launch_shape(launch, {"t"}, {})
    BY <2>1 DEF AcceptedLaunch
  <2> HIDE DEF launch, layers
  <2>4. /\ command # <<>>
        /\ \A v \in DOMAIN declared : VarValid(declared[v])
        /\ LaunchKeys(launch) \subseteq GATEWAY_TEMPLATE_VARS \cup DOMAIN declared
        /\ validate_launch_args_sentinel(command, allow, TRUE)
        /\ ReferencesValid(launch)
    <3>1. {"t"} # {}
      OBVIOUS
    <3> QED BY <2>3, <3>1 DEF validate_launch_shape
  <2>5. command \in Seq(CommandElements) /\ allow \in {"unset", "yes", "no"}
    BY <2>2 DEF IsLaunch
  <2>6. input.supplied = <<>> => (result.resolved.ok <=> \A v \in DOMAIN declared : ~declared[v].required)
    BY <2>1, <2>2, <2>4, ResolvedAlone DEF IsLaunch
  <2>7. result.resolved.ok => render(LaunchKeys(launch), result.bound \cup Unbound(at, {}))
    BY <2>1, <2>2, <2>4, ReferencesBound DEF render
  <2>8. allow = "yes" => \E i \in 1 .. Len(command) - 1 :
           result.command = SubSeq(command, 1, i) \o args \o SubSeq(command, i + 2, Len(command))
    <3> SUFFICES ASSUME allow = "yes"
                 PROVE  \E i \in 1 .. Len(command) - 1 :
           result.command = SubSeq(command, 1, i) \o args \o SubSeq(command, i + 2, Len(command))
      OBVIOUS
    <3> DEFINE S == Elements(command, "args")
    <3>1. 1 \notin S /\ Cardinality(S) <= 1 /\ S # {}
      BY <2>4 DEF validate_launch_args_sentinel
    <3>2. DOMAIN command = 1 .. Len(command) /\ Len(command) \in Nat
      BY <2>5
    <3>3. \A i \in 1 .. Len(command) : i \in S <=> command[i].what = "args"
      BY <3>2 DEF Elements
    <3>4. S \in SUBSET (1 .. Len(command))
      BY <3>2 DEF Elements
    <3> HIDE DEF S, command
    <3>5. PICK p \in S : \A x \in S : x = p
      <4>1. \A x, y \in S : x = y
        BY <3>1, <3>2, <3>4, AtMostOne
      <4> QED BY <3>1, <4>1
    <3>6. /\ p \in 2 .. Len(command) /\ command[p].what = "args"
          /\ \A k \in 1 .. Len(command) : command[k].what = "args" => k = p
      BY <3>1, <3>2, <3>3, <3>4, <3>5
    <3>7. result.command = SubSeq(command, 1, p - 1) \o args \o SubSeq(command, p + 1, Len(command))
      BY <2>1, <2>2, <2>5, <3>6, Spliced
    <3>8. p - 1 \in 1 .. Len(command) - 1 /\ (p - 1) + 2 = p + 1
      BY <3>2, <3>6
    <3> QED BY <3>7, <3>8
  <2>9. allow # "yes" => /\ result.taken <=> args = <<>>
                         /\ result.command = command
    <3> SUFFICES ASSUME allow # "yes" PROVE (result.taken <=> args = <<>>) /\ result.command = command
      OBVIOUS
    <3>1. Elements(command, "args") = {}
      BY <2>4, <2>5 DEF validate_launch_args_sentinel
    <3>2. \A k \in 1 .. Len(command) : command[k].what # "args"
      BY <2>5, <3>1 DEF Elements
    <3>3. render_launch_command(command, args) = command
      BY <2>2, <2>4, <2>5, <3>2, Unspliced
    <3> QED BY <2>1, <3>3 DEF validate_launch_passthrough_args
  <2>10. result.launch.command = command
    BY <2>1, <2>3 DEF Field
  <2> HIDE DEF command, declared, allow, args, at
  <2> QED BY <2>1, <2>6, <2>7, <2>8, <2>9, <2>10
          DEF LaunchRunsAsDeclared, command, declared, allow, args, at
<1> QED BY <1>1, EvaluatedThm, PTL

-----------------------------------------------------------------------------
(* Step patches.                                                           *)

\* A list of steps, no two of one key, and where a key stands in it.
IsSteps(s) == /\ s \in Seq(ToSet(s))
              /\ \A i, j \in DOMAIN s : s[i].key = s[j].key => i = j
Pos(s, key) == CHOOSE i \in DOMAIN s : s[i].key = key

\* A key stands in one place.
LEMMA PosIs ==
    ASSUME NEW s, IsSteps(s), NEW key \in Keys(s)
    PROVE  /\ Pos(s, key) \in DOMAIN s /\ s[Pos(s, key)].key = key
           /\ \A i \in DOMAIN s : s[i].key = key => i = Pos(s, key)
<1>1. \E i \in DOMAIN s : s[i].key = key
  BY DEF Keys
<1>2. Pos(s, key) \in DOMAIN s /\ s[Pos(s, key)].key = key
  BY <1>1 DEF Pos
<1> QED BY <1>2 DEF IsSteps

\* The index the code looks up is that place.
LEMMA Chosen ==
    ASSUME NEW s, IsSteps(s), NEW key \in Keys(s)
    PROVE  (CHOOSE i \in KeyIndexes(s, key) : TRUE) = Pos(s, key)
<1>1. \A i : i \in KeyIndexes(s, key) <=> i = Pos(s, key)
  BY PosIs DEF KeyIndexes
<1> QED BY <1>1

\* A sequence is one over its own elements.
LEMMA SeqOfItself ==
    ASSUME NEW S, NEW s \in Seq(S)
    PROVE  s \in Seq(ToSet(s)) /\ Len(s) \in Nat /\ DOMAIN s = 1 .. Len(s)
<1>1. Len(s) \in Nat /\ DOMAIN s = 1 .. Len(s) /\ s = [i \in 1 .. Len(s) |-> s[i]]
  OBVIOUS
<1>2. \A i \in 1 .. Len(s) : s[i] \in ToSet(s)
  BY <1>1 DEF ToSet
<1>3. s \in [1 .. Len(s) -> ToSet(s)]
  BY <1>1, <1>2
<1> QED BY <1>1, <1>3

\* Vec::remove, element by element.
LEMMA RemoveAtIs ==
    ASSUME NEW S, NEW s \in Seq(S), NEW i \in 1 .. Len(s)
    PROVE  LET t == RemoveAt(s, i)
           IN  /\ t \in Seq(S) /\ Len(t) = Len(s) - 1
               /\ \A j \in 1 .. Len(t) : t[j] = IF j < i THEN s[j] ELSE s[j + 1]
<1> DEFINE a == SubSeq(s, 1, i - 1)
           b == SubSeq(s, i + 1, Len(s))
<1>1. /\ a \in Seq(S) /\ Len(a) = i - 1
      /\ \A j \in 1 .. i - 1 : a[j] = s[j]
  <2>1. \A j \in 1 .. i - 1 : s[j] \in S
    OBVIOUS
  <2> QED BY <2>1, SubSeqProperties
<1>2. /\ b \in Seq(S) /\ Len(b) = Len(s) - i
      /\ \A j \in 1 .. Len(s) - i : b[j] = s[i + j]
  <2>1. \A j \in i + 1 .. Len(s) : s[j] \in S
    OBVIOUS
  <2>2. b \in Seq(S) /\ Len(b) = (IF i + 1 <= Len(s) THEN Len(s) - (i + 1) + 1 ELSE 0)
        /\ \A j \in 1 .. Len(s) - (i + 1) + 1 : b[j] = s[(i + 1) + j - 1]
    BY <2>1, SubSeqProperties
  <2> HIDE DEF b
  <2>3. Len(s) \in Nat
    OBVIOUS
  <2>4. Len(b) = Len(s) - i
    BY <2>2, <2>3
  <2>5. ASSUME NEW j \in 1 .. Len(s) - i PROVE b[j] = s[i + j]
    <3>1. j \in 1 .. Len(s) - (i + 1) + 1 /\ (i + 1) + j - 1 = i + j
      BY <2>3
    <3> QED BY <2>2, <3>1, Zenon
  <2> QED BY <2>2, <2>4, <2>5
<1> HIDE DEF a, b
<1>3. /\ a \o b \in Seq(S) /\ Len(a \o b) = Len(a) + Len(b)
      /\ \A j \in 1 .. Len(a) + Len(b) : (a \o b)[j] = IF j <= Len(a) THEN a[j] ELSE b[j - Len(a)]
  BY <1>1, <1>2, ConcatProperties
<1>4. RemoveAt(s, i) = a \o b
  BY DEF RemoveAt, a, b
<1>5. ASSUME NEW j \in 1 .. Len(s) - 1
      PROVE  (a \o b)[j] = IF j < i THEN s[j] ELSE s[j + 1]
  <2>1. CASE j < i
    BY <1>1, <1>2, <1>3, <2>1
  <2>2. CASE ~(j < i)
    <3>1. (a \o b)[j] = b[j - (i - 1)] /\ j - (i - 1) \in 1 .. Len(s) - i
      BY <1>1, <1>2, <1>3, <2>2
    <3>2. b[j - (i - 1)] = s[i + (j - (i - 1))] /\ i + (j - (i - 1)) = j + 1
      BY <1>2, <3>1
    <3> QED BY <2>2, <3>1, <3>2
  <2> QED BY <2>1, <2>2
<1>6. Len(a \o b) = Len(s) - 1
  BY <1>1, <1>2, <1>3
<1> QED BY <1>3, <1>4, <1>5, <1>6

\* Vec::insert, element by element.
LEMMA InsertAtIs ==
    ASSUME NEW S, NEW s \in Seq(S), NEW x \in S, NEW i \in 1 .. Len(s) + 1
    PROVE  LET t == InsertAt(s, i, x)
           IN  /\ t \in Seq(S) /\ Len(t) = Len(s) + 1
               /\ \A j \in 1 .. Len(t) : t[j] = IF j < i THEN s[j] ELSE IF j = i THEN x ELSE s[j - 1]
<1> DEFINE a == SubSeq(s, 1, i - 1)
           b == SubSeq(s, i, Len(s))
           c == a \o <<x>>
<1>1. /\ a \in Seq(S) /\ Len(a) = i - 1
      /\ \A j \in 1 .. i - 1 : a[j] = s[j]
  <2>1. \A j \in 1 .. i - 1 : s[j] \in S
    OBVIOUS
  <2> QED BY <2>1, SubSeqProperties
<1>2. /\ b \in Seq(S) /\ Len(b) = Len(s) - i + 1
      /\ \A j \in 1 .. Len(s) - i + 1 : b[j] = s[i + j - 1]
  <2>1. \A j \in i .. Len(s) : s[j] \in S
    OBVIOUS
  <2> QED BY <2>1, SubSeqProperties
<1> HIDE DEF a, b
<1>3. c \in Seq(S) /\ Len(c) = i /\ c[i] = x /\ \A j \in 1 .. i - 1 : c[j] = s[j]
  <2>1. <<x>> \in Seq(S) /\ Len(<<x>>) = 1 /\ <<x>>[1] = x
    OBVIOUS
  <2>2. /\ c \in Seq(S) /\ Len(c) = Len(a) + 1
        /\ \A j \in 1 .. Len(a) + 1 : c[j] = IF j <= Len(a) THEN a[j] ELSE <<x>>[j - Len(a)]
    BY <1>1, <2>1, ConcatProperties
  <2>3. Len(a) + 1 = i
    BY <1>1
  <2>4. c[i] = <<x>>[i - Len(a)] /\ i - Len(a) = 1
    BY <1>1, <2>2, <2>3
  <2>5. \A j \in 1 .. i - 1 : c[j] = s[j]
    BY <1>1, <2>2
  <2> HIDE DEF c
  <2> QED BY <2>1, <2>2, <2>3, <2>4, <2>5
<1> HIDE DEF c
<1>4. /\ c \o b \in Seq(S) /\ Len(c \o b) = Len(c) + Len(b)
      /\ \A j \in 1 .. Len(c) + Len(b) : (c \o b)[j] = IF j <= Len(c) THEN c[j] ELSE b[j - Len(c)]
  BY <1>2, <1>3, ConcatProperties
<1>5. InsertAt(s, i, x) = c \o b
  BY DEF InsertAt, a, b, c
<1>6. Len(c \o b) = Len(s) + 1
  BY <1>2, <1>3, <1>4
<1>7. ASSUME NEW j \in 1 .. Len(s) + 1
      PROVE  (c \o b)[j] = IF j < i THEN s[j] ELSE IF j = i THEN x ELSE s[j - 1]
  <2> DEFINE n == Len(s)
             d == c \o b
  <2>0. n \in Nat /\ i \in 1 .. n + 1 /\ j \in 1 .. n + 1
    OBVIOUS
  <2>1. /\ Len(c) = i /\ c[i] = x /\ Len(b) = n - i + 1
        /\ \A k \in 1 .. i - 1 : c[k] = s[k]
        /\ \A k \in 1 .. n - i + 1 : b[k] = s[i + k - 1]
        /\ \A k \in 1 .. Len(c) + Len(b) : d[k] = IF k <= Len(c) THEN c[k] ELSE b[k - Len(c)]
    BY <1>2, <1>3, <1>4
  <2> HIDE DEF n, d
  <2> SUFFICES d[j] = IF j < i THEN s[j] ELSE IF j = i THEN x ELSE s[j - 1]
    BY DEF d
  <2>2. CASE j <= i
    <3>1. d[j] = c[j]
      BY <2>0, <2>1, <2>2
    <3>2. CASE j = i
      BY <2>0, <2>1, <3>1, <3>2
    <3>3. CASE j < i
      <4>1. j \in 1 .. i - 1
        BY <2>0, <3>3
      <4>2. c[j] = s[j]
        BY <2>1, <4>1
      <4> QED BY <3>1, <3>3, <4>2
    <3> QED BY <2>0, <2>2, <3>2, <3>3
  <2>3. CASE j > i
    <3>1. d[j] = b[j - i] /\ j - i \in 1 .. n - i + 1
      BY <2>0, <2>1, <2>3
    <3>2. b[j - i] = s[i + (j - i) - 1] /\ i + (j - i) - 1 = j - 1
      BY <2>0, <2>1, <3>1
    <3> QED BY <2>0, <2>3, <3>1, <3>2
  <2> QED BY <2>0, <2>2, <2>3
<1> QED BY <1>4, <1>5, <1>6, <1>7

\* The step of a key.
At(s, key) == s[Pos(s, key)]

\* What IsSteps gives, in terms of places.
LEMMA Steps ==
    ASSUME NEW s, IsSteps(s)
    PROVE  /\ Len(s) \in Nat /\ DOMAIN s = 1 .. Len(s)
           /\ \A key \in Keys(s) : Pos(s, key) \in 1 .. Len(s) /\ s[Pos(s, key)].key = key
           /\ \A i \in 1 .. Len(s) : s[i].key \in Keys(s) /\ Pos(s, s[i].key) = i
<1>1. Len(s) \in Nat /\ DOMAIN s = 1 .. Len(s)
  BY DEF IsSteps
<1>2. \A i \in 1 .. Len(s) : s[i].key \in Keys(s)
  BY <1>1 DEF Keys
<1>3. \A key \in Keys(s) : /\ Pos(s, key) \in DOMAIN s /\ s[Pos(s, key)].key = key
                           /\ \A i \in DOMAIN s : s[i].key = key => i = Pos(s, key)
  BY PosIs
<1> QED BY <1>1, <1>2, <1>3

\* What gives a list its keys and their places.
Stands(t, n, K, p) ==
    /\ n \in Nat /\ DOMAIN t = 1 .. n /\ t \in Seq(ToSet(t))
    /\ \A a \in K : p[a] \in 1 .. n /\ t[p[a]].key = a
    /\ \A i \in 1 .. n : t[i].key \in K /\ p[t[i].key] = i

\* A list whose keys stand in given places has those keys and places.
LEMMA Known ==
    ASSUME NEW t, NEW n, NEW K, NEW p, Stands(t, n, K, p)
    PROVE  IsSteps(t) /\ Keys(t) = K /\ \A a \in K : Pos(t, a) = p[a]
<1> USE DEF Stands
<1>1. \A i, j \in 1 .. n : t[i].key = t[j].key => i = j
  OBVIOUS
<1>2. IsSteps(t)
  BY <1>1 DEF IsSteps
<1>3. Keys(t) = K
  BY DEF Keys
<1>4. ASSUME NEW a \in K PROVE Pos(t, a) = p[a]
  <2>1. p[a] \in DOMAIN t /\ t[p[a]].key = a
    OBVIOUS
  <2> QED BY <1>2, <1>3, <2>1, PosIs
<1> QED BY <1>2, <1>3, <1>4

\* Removing a step: the ones behind it move up.
LEMMA Removed ==
    ASSUME NEW s, IsSteps(s), NEW i \in 1 .. Len(s)
    PROVE  LET t == RemoveAt(s, i)
           IN  /\ IsSteps(t) /\ Keys(t) = Keys(s) \ {s[i].key}
               /\ \A a \in Keys(t) : /\ Pos(t, a) = IF Pos(s, a) < i THEN Pos(s, a) ELSE Pos(s, a) - 1
                                     /\ Pos(s, a) # i
                                     /\ At(t, a) = At(s, a)
<1> DEFINE t == RemoveAt(s, i)
           n == Len(s)
           K == Keys(s) \ {s[i].key}
           p == [a \in K |-> IF Pos(s, a) < i THEN Pos(s, a) ELSE Pos(s, a) - 1]
<1>1. /\ t \in Seq(ToSet(t)) /\ DOMAIN t = 1 .. n - 1
      /\ \A j \in 1 .. n - 1 : t[j] = IF j < i THEN s[j] ELSE s[j + 1]
  <2>1. s \in Seq(ToSet(s))
    BY DEF IsSteps
  <2>2. /\ t \in Seq(ToSet(s)) /\ Len(t) = n - 1
        /\ \A j \in 1 .. Len(t) : t[j] = IF j < i THEN s[j] ELSE s[j + 1]
    BY <2>1, RemoveAtIs
  <2> HIDE DEF t
  <2>3. t \in Seq(ToSet(t)) /\ DOMAIN t = 1 .. Len(t)
    BY <2>2, SeqOfItself
  <2> QED BY <2>2, <2>3
<1>2. /\ n \in Nat /\ i \in 1 .. n
      /\ \A key \in Keys(s) : Pos(s, key) \in 1 .. n /\ s[Pos(s, key)].key = key
      /\ \A j \in 1 .. n : s[j].key \in Keys(s) /\ Pos(s, s[j].key) = j
  BY Steps
<1> HIDE DEF t, n
<1>3. ASSUME NEW a \in K
      PROVE  p[a] \in 1 .. n - 1 /\ Pos(s, a) # i /\ t[p[a]] = s[Pos(s, a)] /\ s[Pos(s, a)].key = a
  BY <1>1, <1>2
<1>4. ASSUME NEW j \in 1 .. n - 1 PROVE t[j].key \in K /\ p[t[j].key] = j
  <2>1. CASE j < i
    <3>1. t[j] = s[j] /\ j \in 1 .. n /\ j # i
      BY <1>1, <1>2, <2>1
    <3>2. t[j].key \in K /\ Pos(s, t[j].key) = j
      BY <1>2, <3>1
    <3> QED BY <2>1, <3>2
  <2>2. CASE ~(j < i)
    <3>1. t[j] = s[j + 1] /\ j + 1 \in 1 .. n /\ j + 1 # i
      BY <1>1, <1>2, <2>2
    <3>2. t[j].key \in K /\ Pos(s, t[j].key) = j + 1
      BY <1>2, <3>1
    <3> QED BY <1>2, <2>2, <3>2
  <2> QED BY <2>1, <2>2
<1>5. n - 1 \in Nat
  BY <1>2
<1> DEFINE m == n - 1
<1> HIDE DEF p, K
<1>6. IsSteps(t) /\ Keys(t) = K /\ \A a \in K : Pos(t, a) = p[a]
  <2>1. m \in Nat /\ DOMAIN t = 1 .. m /\ t \in Seq(ToSet(t))
    BY <1>1, <1>5
  <2>2. \A a \in K : p[a] \in 1 .. m /\ t[p[a]].key = a
    BY <1>3
  <2>3. \A j \in 1 .. m : t[j].key \in K /\ p[t[j].key] = j
    BY <1>4
  <2> HIDE DEF m
  <2>4. Stands(t, m, K, p)
    BY <2>1, <2>2, <2>3, Zenon DEF Stands
  <2> QED BY <2>4, Known, Zenon
<1> QED BY <1>3, <1>6 DEF p, K, t, At

\* Inserting a step: the ones behind it move down.
LEMMA Inserted ==
    ASSUME NEW s, IsSteps(s), NEW i \in 1 .. Len(s) + 1, NEW x, x.key \notin Keys(s)
    PROVE  LET t == InsertAt(s, i, x)
           IN  /\ IsSteps(t) /\ Keys(t) = Keys(s) \cup {x.key} /\ Pos(t, x.key) = i
               /\ \A a \in Keys(s) : /\ Pos(t, a) = IF Pos(s, a) < i THEN Pos(s, a) ELSE Pos(s, a) + 1
                                     /\ At(t, a) = At(s, a)
<1> DEFINE t == InsertAt(s, i, x)
           n == Len(s)
           K == Keys(s) \cup {x.key}
           p == [a \in K |-> IF a = x.key THEN i ELSE IF Pos(s, a) < i THEN Pos(s, a) ELSE Pos(s, a) + 1]
<1>1. /\ t \in Seq(ToSet(t)) /\ DOMAIN t = 1 .. n + 1
      /\ \A j \in 1 .. n + 1 : t[j] = IF j < i THEN s[j] ELSE IF j = i THEN x ELSE s[j - 1]
  <2> DEFINE S == ToSet(s) \cup {x}
  <2>1. s \in Seq(S) /\ x \in S
    BY DEF IsSteps
  <2> HIDE DEF S
  <2>2. /\ t \in Seq(S) /\ Len(t) = n + 1
        /\ \A j \in 1 .. Len(t) : t[j] = IF j < i THEN s[j] ELSE IF j = i THEN x ELSE s[j - 1]
    BY <2>1, InsertAtIs
  <2> HIDE DEF t
  <2>3. t \in Seq(ToSet(t)) /\ DOMAIN t = 1 .. Len(t)
    BY <2>2, SeqOfItself
  <2> QED BY <2>2, <2>3
<1>2. /\ n \in Nat /\ i \in 1 .. n + 1
      /\ \A key \in Keys(s) : Pos(s, key) \in 1 .. n /\ s[Pos(s, key)].key = key
      /\ \A j \in 1 .. n : s[j].key \in Keys(s) /\ Pos(s, s[j].key) = j
  BY Steps
<1> HIDE DEF t, n
<1>3. ASSUME NEW a \in Keys(s)
      PROVE  p[a] \in 1 .. n + 1 /\ t[p[a]] = s[Pos(s, a)] /\ t[p[a]].key = a
  BY <1>1, <1>2
<1>4. p[x.key] = i /\ t[i] = x
  BY <1>1, <1>2
<1>5. ASSUME NEW j \in 1 .. n + 1 PROVE t[j].key \in K /\ p[t[j].key] = j
  <2>1. CASE j < i
    <3>1. t[j] = s[j] /\ j \in 1 .. n
      BY <1>1, <1>2, <2>1
    <3>2. t[j].key \in Keys(s) /\ Pos(s, t[j].key) = j
      BY <1>2, <3>1
    <3> QED BY <2>1, <3>2
  <2>2. CASE j = i
    BY <1>4, <2>2
  <2>3. CASE j > i
    <3>1. t[j] = s[j - 1] /\ j - 1 \in 1 .. n /\ ~(j - 1 < i)
      BY <1>1, <1>2, <2>3
    <3>2. t[j].key \in Keys(s) /\ Pos(s, t[j].key) = j - 1
      BY <1>2, <3>1
    <3> QED BY <1>2, <3>1, <3>2
  <2> QED BY <1>2, <2>1, <2>2, <2>3
<1>6. n + 1 \in Nat
  BY <1>2
<1>7. \A a \in K : p[a] \in 1 .. n + 1 /\ t[p[a]].key = a
  BY <1>2, <1>3, <1>4
<1> DEFINE m == n + 1
<1> HIDE DEF p, K
<1>8. IsSteps(t) /\ Keys(t) = K /\ \A a \in K : Pos(t, a) = p[a]
  <2>1. m \in Nat /\ DOMAIN t = 1 .. m /\ t \in Seq(ToSet(t))
    BY <1>1, <1>6
  <2>2. \A a \in K : p[a] \in 1 .. m /\ t[p[a]].key = a
    BY <1>7
  <2>3. \A j \in 1 .. m : t[j].key \in K /\ p[t[j].key] = j
    BY <1>5
  <2> HIDE DEF m
  <2>4. Stands(t, m, K, p)
    BY <2>1, <2>2, <2>3, Zenon DEF Stands
  <2> QED BY <2>4, Known, Zenon
<1> QED BY <1>3, <1>4, <1>8 DEF p, K, t, At

\* Replacing a step by one of its key: nothing moves.
LEMMA Replaced ==
    ASSUME NEW s, IsSteps(s), NEW i \in 1 .. Len(s), NEW x, x.key = s[i].key
    PROVE  LET t == [s EXCEPT ![i] = x]
           IN  /\ IsSteps(t) /\ Keys(t) = Keys(s)
               /\ \A a \in Keys(s) : Pos(t, a) = Pos(s, a) /\ (a # x.key => At(t, a) = At(s, a))
<1> DEFINE t == [s EXCEPT ![i] = x]
           n == Len(s)
           p == [a \in Keys(s) |-> Pos(s, a)]
<1>1. /\ t \in Seq(ToSet(t)) /\ DOMAIN t = 1 .. n
      /\ \A j \in 1 .. n : t[j] = IF j = i THEN x ELSE s[j]
  <2>1. s \in Seq(ToSet(s))
    BY DEF IsSteps
  <2>2. DOMAIN t = 1 .. n /\ n \in Nat /\ t = [j \in 1 .. n |-> t[j]]
        /\ \A j \in 1 .. n : t[j] = IF j = i THEN x ELSE s[j]
    BY <2>1
  <2> HIDE DEF t, n
  <2>3. \A j \in 1 .. n : t[j] \in ToSet(t)
    BY <2>2 DEF ToSet
  <2>4. t \in [1 .. n -> ToSet(t)]
    BY <2>2, <2>3
  <2> QED BY <2>2, <2>4
<1>2. /\ n \in Nat /\ i \in 1 .. n
      /\ \A key \in Keys(s) : Pos(s, key) \in 1 .. n /\ s[Pos(s, key)].key = key
      /\ \A j \in 1 .. n : s[j].key \in Keys(s) /\ Pos(s, s[j].key) = j
  BY Steps
<1> HIDE DEF t, n
<1>3. \A j \in 1 .. n : t[j].key = s[j].key
  BY <1>1, <1>2
<1>4. \A a \in Keys(s) : p[a] \in 1 .. n /\ t[p[a]].key = a
  BY <1>2, <1>3
<1>5. \A j \in 1 .. n : t[j].key \in Keys(s) /\ p[t[j].key] = j
  BY <1>2, <1>3
<1> HIDE DEF p
<1>6. IsSteps(t) /\ Keys(t) = Keys(s) /\ \A a \in Keys(s) : Pos(t, a) = p[a]
  <2>1. Stands(t, n, Keys(s), p)
    BY <1>1, <1>2, <1>4, <1>5, Zenon DEF Stands
  <2> DEFINE K == Keys(s)
  <2>2. Stands(t, n, K, p)
    BY <2>1
  <2> HIDE DEF K
  <2>3. IsSteps(t) /\ Keys(t) = K /\ \A a \in K : Pos(t, a) = p[a]
    BY <2>2, Known
  <2> QED BY <2>3 DEF K
<1>7. \A a \in Keys(s) : Pos(t, a) = Pos(s, a)
  BY <1>6 DEF p
<1>8. ASSUME NEW a \in Keys(s), a # x.key PROVE At(t, a) = At(s, a)
  <2>1. Pos(s, a) # i /\ Pos(s, a) \in 1 .. n
    BY <1>2, <1>8
  <2> QED BY <1>1, <1>7, <2>1 DEF At
<1> QED BY <1>6, <1>7, <1>8 DEF t

\* What the first patches have removed and what they have set.
Gone(patches, m) == {patches[j].key : j \in {k \in 1 .. m : ~patches[k].enabled}}
Came(patches, m) == {patches[j].key : j \in {k \in 1 .. m : patches[k].enabled}}
Kept(old, patches, m) == Keys(old) \ Gone(patches, m)

\* A new step stands where its patch puts it among the steps that were kept.
Placed(s, p, kept) ==
    LET here == Pos(s, p.key)
    IN  /\ p.before \in kept =>
             /\ here < Pos(s, p.before)
             /\ \A k \in kept \ {p.before} : ~(here < Pos(s, k) /\ Pos(s, k) < Pos(s, p.before))
        /\ p.after \in kept =>
             /\ Pos(s, p.after) < here
             /\ \A k \in kept \ {p.after} : ~(Pos(s, p.after) < Pos(s, k) /\ Pos(s, k) < here)
        /\ p.before = None /\ p.after = None => \A k \in kept : Pos(s, k) < here

\* Two lists have these keys in the same order.
SameOrder(s, t, K) == \A a, b \in K : Pos(s, a) < Pos(s, b) <=> Pos(t, a) < Pos(t, b)

\* The invariant of merge_target_step_patches after m patches.
InOrder(old, patches, m, s) ==
    /\ IsSteps(s)
    /\ Keys(s) = Kept(old, patches, m) \cup Came(patches, m)
    /\ SameOrder(old, s, Kept(old, patches, m))
    /\ \A a \in Keys(old) : (\A j \in 1 .. m : patches[j].key # a) => At(s, a) = At(old, a)
    /\ \A j \in 1 .. m : patches[j].enabled /\ patches[j].key \notin Keys(old) =>
                            Placed(s, patches[j], Kept(old, patches, m))

\* A placed step stays placed in a list of the same order, of whatever is left.
LEMMA PlacedStays ==
    ASSUME NEW s, NEW t, NEW p, NEW kept, NEW left \in SUBSET kept,
           SameOrder(s, t, kept \cup {p.key}), Placed(s, p, kept)
    PROVE  Placed(t, p, left)
<1> USE DEF SameOrder, Placed
<1>1. p.before \in left =>
             /\ Pos(t, p.key) < Pos(t, p.before)
             /\ \A k \in left \ {p.before} : ~(Pos(t, p.key) < Pos(t, k) /\ Pos(t, k) < Pos(t, p.before))
  OBVIOUS
<1>2. p.after \in left =>
             /\ Pos(t, p.after) < Pos(t, p.key)
             /\ \A k \in left \ {p.after} : ~(Pos(t, p.after) < Pos(t, k) /\ Pos(t, k) < Pos(t, p.key))
  OBVIOUS
<1>3. p.before = None /\ p.after = None => \A k \in left : Pos(t, k) < Pos(t, p.key)
  OBVIOUS
<1> QED BY <1>1, <1>2, <1>3

\* What one more patch adds to both.
LEMMA OneMore ==
    ASSUME NEW patches, NEW m \in Nat, m # 0
    PROVE  /\ Gone(patches, m) = Gone(patches, m - 1)
                                   \cup (IF patches[m].enabled THEN {} ELSE {patches[m].key})
           /\ Came(patches, m) = Came(patches, m - 1)
                                   \cup (IF patches[m].enabled THEN {patches[m].key} ELSE {})
<1>1. m - 1 \in Nat /\ \A j : j \in 1 .. m <=> j \in 1 .. m - 1 \/ j = m
  OBVIOUS
<1>2. m \notin 1 .. m - 1
  OBVIOUS
<1> QED BY <1>1, <1>2, Zenon DEF Gone, Came

\* What one patch must do to the list for the invariant to survive it.
LEMMA Onward ==
    ASSUME NEW old, NEW patches, NEW m \in Nat, m # 0, NEW s, NEW t,
           InOrder(old, patches, m - 1, s), IsSteps(t),
           Keys(t) = Kept(old, patches, m) \cup Came(patches, m),
           SameOrder(s, t, Keys(s) \cap Keys(t)),
           \A a \in (Keys(s) \cap Keys(t)) \ {patches[m].key} : At(t, a) = At(s, a),
           patches[m].enabled /\ patches[m].key \notin Keys(old) =>
              Placed(t, patches[m], Kept(old, patches, m))
    PROVE  InOrder(old, patches, m, t)
<1> DEFINE kept == Kept(old, patches, m - 1)
           left == Kept(old, patches, m)
<1>1. left \subseteq kept /\ left \subseteq Keys(s) \cap Keys(t)
  BY OneMore DEF Kept, InOrder
<1>2. Came(patches, m - 1) \subseteq Keys(s) \cap Keys(t)
  BY OneMore DEF InOrder
<1>3. \A j : j \in 1 .. m <=> j \in 1 .. m - 1 \/ j = m
  OBVIOUS
<1>4. SameOrder(old, t, left)
  <2>1. SameOrder(old, s, kept)
    BY DEF InOrder
  <2> HIDE DEF kept, left
  <2> QED BY <1>1, <2>1, Zenon DEF SameOrder
<1>5. ASSUME NEW a \in Keys(old), \A j \in 1 .. m : patches[j].key # a
      PROVE  At(t, a) = At(old, a)
  <2>1. At(s, a) = At(old, a)
    BY <1>3, <1>5, Zenon DEF InOrder
  <2>2. a # patches[m].key
    BY <1>5
  <2>3. a \in left
    BY <1>5 DEF Kept, Gone
  <2> QED BY <1>1, <2>1, <2>2, <2>3
<1>6. ASSUME NEW j \in 1 .. m, patches[j].enabled, patches[j].key \notin Keys(old)
      PROVE  Placed(t, patches[j], left)
  <2>1. CASE j = m
    BY <1>6, <2>1
  <2>2. CASE j \in 1 .. m - 1
    <3>1. Placed(s, patches[j], kept)
      BY <1>6, <2>2 DEF InOrder
    <3>2. patches[j].key \in Came(patches, m - 1)
      BY <1>6, <2>2 DEF Came
    <3> HIDE DEF kept, left
    <3>3. Placed(s, patches[j], left)
      BY <1>1, <3>1, Zenon DEF Placed
    <3>4. SameOrder(s, t, left \cup {patches[j].key})
      <4>1. left \cup {patches[j].key} \subseteq Keys(s) \cap Keys(t)
        BY <1>1, <1>2, <3>2
      <4> QED BY <4>1, Zenon DEF SameOrder
    <3> QED BY <3>3, <3>4, PlacedStays
  <2> QED BY <1>3, <2>1, <2>2
<1> QED BY <1>4, <1>5, <1>6 DEF InOrder

\* What a patch adds to or takes from what went before it: no other patch has its key.
LEMMA OnlyOnce ==
    ASSUME NEW patches, NEW n \in Nat, DOMAIN patches = 1 .. n, validate_raw_target_steps(patches),
           NEW m \in 1 .. n
    PROVE  /\ patches[m].key \notin Gone(patches, m - 1) \cup Came(patches, m - 1)
           /\ patches[m].before = None \/ patches[m].after = None
<1>1. \A j \in 1 .. m - 1 : j \in 1 .. n /\ j # m
  OBVIOUS
<1>2. \A j \in 1 .. m - 1 : patches[j].key # patches[m].key
  BY <1>1 DEF validate_raw_target_steps
<1> QED BY <1>2 DEF Gone, Came, validate_raw_target_steps

\* The invariant survives a patch that removes a step,
LEMMA RemovesOne ==
    ASSUME NEW old, NEW patches, NEW n \in Nat, DOMAIN patches = 1 .. n,
           validate_raw_target_steps(patches), NEW m \in 1 .. n,
           NEW s, InOrder(old, patches, m - 1, s), patches[m].key \in Keys(s), ~patches[m].enabled
    PROVE  InOrder(old, patches, m, RemoveAt(s, Pos(s, patches[m].key)))
<1> DEFINE key == patches[m].key
           i == Pos(s, key)
           t == RemoveAt(s, i)
<1>1. IsSteps(s) /\ i \in 1 .. Len(s) /\ s[i].key = key
  BY Steps DEF InOrder
<1>2. Len(s) \in Nat /\ \A a \in Keys(s) : Pos(s, a) \in 1 .. Len(s)
  BY <1>1, Steps
<1>3. /\ IsSteps(t) /\ Keys(t) = Keys(s) \ {key}
      /\ \A a \in Keys(t) : /\ Pos(t, a) = IF Pos(s, a) < i THEN Pos(s, a) ELSE Pos(s, a) - 1
                            /\ Pos(s, a) # i
                            /\ At(t, a) = At(s, a)
  BY <1>1, Removed
<1> HIDE DEF t, i
<1>4. Keys(t) = Kept(old, patches, m) \cup Came(patches, m)
  <2>1. /\ Gone(patches, m) = Gone(patches, m - 1) \cup {key}
        /\ Came(patches, m) = Came(patches, m - 1)
    <3>1. m \in Nat /\ m # 0
      OBVIOUS
    <3>2. (IF patches[m].enabled THEN {} ELSE {key}) = {key}
          /\ (IF patches[m].enabled THEN {key} ELSE {}) = {}
      BY Zenon
    <3>3. /\ Gone(patches, m) = Gone(patches, m - 1) \cup (IF patches[m].enabled THEN {} ELSE {key})
          /\ Came(patches, m) = Came(patches, m - 1) \cup (IF patches[m].enabled THEN {key} ELSE {})
      BY <3>1, OneMore
    <3> QED BY <3>2, <3>3
  <2>2. key \notin Came(patches, m - 1)
    BY OnlyOnce
  <2>3. Keys(s) = Kept(old, patches, m - 1) \cup Came(patches, m - 1)
    BY DEF InOrder
  <2> QED BY <1>3, <2>1, <2>2, <2>3 DEF Kept
<1>5. SameOrder(s, t, Keys(s) \cap Keys(t))
  <2> SUFFICES ASSUME NEW a \in Keys(s) \cap Keys(t), NEW b \in Keys(s) \cap Keys(t)
               PROVE  Pos(s, a) < Pos(s, b) <=> Pos(t, a) < Pos(t, b)
    BY DEF SameOrder
  <2>1. /\ Pos(s, a) \in 1 .. Len(s) /\ Pos(s, b) \in 1 .. Len(s) /\ Pos(s, a) # i /\ Pos(s, b) # i
        /\ Pos(t, a) = IF Pos(s, a) < i THEN Pos(s, a) ELSE Pos(s, a) - 1
        /\ Pos(t, b) = IF Pos(s, b) < i THEN Pos(s, b) ELSE Pos(s, b) - 1
    BY <1>2, <1>3
  <2> QED BY <1>1, <1>2, <2>1
<1>6. InOrder(old, patches, m, t)
  BY <1>3, <1>4, <1>5, Onward
<1> QED BY <1>6 DEF t, i

\* ... one that replaces it,
LEMMA ReplacesOne ==
    ASSUME NEW old, NEW patches, NEW n \in Nat, DOMAIN patches = 1 .. n,
           validate_raw_target_steps(patches), NEW m \in 1 .. n,
           NEW s, InOrder(old, patches, m - 1, s), patches[m].key \in Keys(s), patches[m].enabled,
           NEW x, x.key = patches[m].key
    PROVE  InOrder(old, patches, m, [s EXCEPT ![Pos(s, patches[m].key)] = x])
<1> DEFINE key == patches[m].key
           i == Pos(s, key)
           t == [s EXCEPT ![i] = x]
<1>1. IsSteps(s) /\ i \in 1 .. Len(s) /\ s[i].key = key
  BY Steps DEF InOrder
<1>2. /\ IsSteps(t) /\ Keys(t) = Keys(s)
      /\ \A a \in Keys(s) : Pos(t, a) = Pos(s, a) /\ (a # key => At(t, a) = At(s, a))
  BY <1>1, Replaced
<1> HIDE DEF t, i
<1>3. /\ Keys(t) = Kept(old, patches, m) \cup Came(patches, m)
      /\ key \in Keys(old)
  <2>1. /\ Gone(patches, m) = Gone(patches, m - 1)
        /\ Came(patches, m) = Came(patches, m - 1) \cup {key}
    <3>1. m \in Nat /\ m # 0
      OBVIOUS
    <3> QED BY <3>1, OneMore
  <2>2. key \notin Came(patches, m - 1)
    BY OnlyOnce
  <2>3. Keys(s) = Kept(old, patches, m - 1) \cup Came(patches, m - 1)
    BY DEF InOrder
  <2> QED BY <1>2, <2>1, <2>2, <2>3 DEF Kept
<1>4. SameOrder(s, t, Keys(s) \cap Keys(t))
  BY <1>2 DEF SameOrder
<1>5. \A a \in (Keys(s) \cap Keys(t)) \ {patches[m].key} : At(t, a) = At(s, a)
  BY <1>2
<1>6. InOrder(old, patches, m, t)
  <2>1. m \in Nat /\ m # 0
    OBVIOUS
  <2> QED BY <1>2, <1>3, <1>4, <1>5, <2>1, Onward
<1> QED BY <1>6 DEF t, i

\* ... and one that inserts a step.
LEMMA InsertsOne ==
    ASSUME NEW old, None \notin Keys(old),
           NEW patches, NEW n \in Nat, DOMAIN patches = 1 .. n,
           validate_raw_target_steps(patches), NEW m \in 1 .. n,
           NEW s, InOrder(old, patches, m - 1, s), patches[m].key \notin Keys(s), patches[m].enabled,
           \A ref \in {patches[m].before, patches[m].after} \ {None} : ref \in Keys(s),
           NEW x, x.key = patches[m].key
    PROVE  InOrder(old, patches, m, InsertAt(s, Place(s, patches[m]), x))
<1> DEFINE p == patches[m]
           key == p.key
           i == Place(s, p)
           t == InsertAt(s, i, x)
<1>0. IsSteps(s)
  BY DEF InOrder
<1>1. p.before = None \/ p.after = None
  BY OnlyOnce
<1>2. Len(s) \in Nat /\ \A a \in Keys(s) : Pos(s, a) \in 1 .. Len(s)
  BY <1>0, Steps
<1>3. /\ p.before # None => p.before \in Keys(s) /\ i = Pos(s, p.before)
      /\ p.after # None => p.after \in Keys(s) /\ i = 1 + Pos(s, p.after)
      /\ p.before = None /\ p.after = None => i = Len(s) + 1
  BY <1>0, <1>1, Chosen DEF Place
<1> HIDE DEF i
<1>4. i \in 1 .. Len(s) + 1
  BY <1>1, <1>2, <1>3
<1>5. /\ IsSteps(t) /\ Keys(t) = Keys(s) \cup {key} /\ Pos(t, key) = i
      /\ \A a \in Keys(s) : /\ Pos(t, a) = IF Pos(s, a) < i THEN Pos(s, a) ELSE Pos(s, a) + 1
                            /\ At(t, a) = At(s, a)
  BY <1>0, <1>4, Inserted
<1> HIDE DEF t
<1>6. /\ Kept(old, patches, m) = Kept(old, patches, m - 1)
      /\ Came(patches, m) = Came(patches, m - 1) \cup {key}
  BY OneMore DEF Kept
<1>7. /\ Keys(t) = Kept(old, patches, m) \cup Came(patches, m)
      /\ Kept(old, patches, m) \subseteq Keys(s)
  BY <1>5, <1>6 DEF InOrder
<1>8. SameOrder(s, t, Keys(s) \cap Keys(t))
  <2> SUFFICES ASSUME NEW a \in Keys(s) \cap Keys(t), NEW b \in Keys(s) \cap Keys(t)
               PROVE  Pos(s, a) < Pos(s, b) <=> Pos(t, a) < Pos(t, b)
    BY DEF SameOrder
  <2>1. /\ Pos(s, a) \in 1 .. Len(s) /\ Pos(s, b) \in 1 .. Len(s)
        /\ Pos(t, a) = IF Pos(s, a) < i THEN Pos(s, a) ELSE Pos(s, a) + 1
        /\ Pos(t, b) = IF Pos(s, b) < i THEN Pos(s, b) ELSE Pos(s, b) + 1
    BY <1>2, <1>5
  <2> QED BY <1>2, <1>4, <2>1
<1>9. Placed(t, p, Kept(old, patches, m))
  <2> DEFINE kept == Kept(old, patches, m)
  <2>1. ASSUME NEW k \in kept
        PROVE  /\ Pos(s, k) \in 1 .. Len(s)
               /\ Pos(t, k) = IF Pos(s, k) < i THEN Pos(s, k) ELSE Pos(s, k) + 1
    BY <1>2, <1>5, <1>7
  <2>2. None \notin kept
    BY DEF Kept
  <2>3. /\ p.before \in kept => i = Pos(s, p.before)
        /\ p.after \in kept => i = 1 + Pos(s, p.after)
        /\ p.before = None /\ p.after = None => i = Len(s) + 1
    BY <1>3, <2>2
  <2>4. Len(s) \in Nat /\ i \in 1 .. Len(s) + 1 /\ Pos(t, key) = i
    BY <1>2, <1>4, <1>5
  <2> HIDE DEF kept
  <2>5. p.before \in kept =>
             /\ i < Pos(t, p.before)
             /\ \A k \in kept \ {p.before} : ~(i < Pos(t, k) /\ Pos(t, k) < Pos(t, p.before))
    BY <2>1, <2>3, <2>4
  <2>6. p.after \in kept =>
             /\ Pos(t, p.after) < i
             /\ \A k \in kept \ {p.after} : ~(Pos(t, p.after) < Pos(t, k) /\ Pos(t, k) < i)
    BY <2>1, <2>3, <2>4
  <2>7. p.before = None /\ p.after = None => \A k \in kept : Pos(t, k) < i
    BY <2>1, <2>3, <2>4
  <2> HIDE DEF p
  <2>8. Placed(t, p, kept)
    BY <2>4, <2>5, <2>6, <2>7 DEF Placed
  <2> QED BY <2>8 DEF kept
<1>10. \A a \in (Keys(s) \cap Keys(t)) \ {patches[m].key} : At(t, a) = At(s, a)
  BY <1>5
<1>11. InOrder(old, patches, m, t)
  BY <1>5, <1>7, <1>8, <1>9, <1>10, Onward
<1> QED BY <1>11 DEF t, i

\* The state of the merge: whether it has failed, and the steps.
IsList(list) == DOMAIN list = {"ok", "steps"} /\ list.ok \in BOOLEAN

\* The invariant survives every patch, failed or not.
LEMMA OnePatch ==
    ASSUME NEW old, None \notin Keys(old),
           NEW patches, NEW n \in Nat, DOMAIN patches = 1 .. n,
           validate_raw_target_steps(patches), NEW m \in 1 .. n, NEW inherits,
           NEW list, IsList(list), list.ok => InOrder(old, patches, m - 1, list.steps)
    PROVE  LET new == Patched(list, patches[m], inherits)
           IN  IsList(new) /\ (new.ok => InOrder(old, patches, m, new.steps))
<1> DEFINE p == patches[m]
           s == list.steps
           i == CHOOSE k \in KeyIndexes(s, p.key) : TRUE
           kept == to_effective(p, s[i], inherits)
           step == to_effective(p, NoStep, FALSE)
<1> USE DEF IsList
<1>1. IsList(PatchError(list)) /\ ~PatchError(list).ok
  BY DEF PatchError
<1>2. kept.key = p.key /\ step.key = p.key
  BY DEF to_effective
<1>3. CASE ~list.ok
  BY <1>3 DEF Patched
<1>4. CASE list.ok /\ p.key \in Keys(s)
  <2> DEFINE new == Replace(list, p, inherits)
  <2>1. i = Pos(s, p.key)
    BY <1>4, Chosen DEF InOrder
  <2>2. CASE p.before # None \/ p.after # None
    <3>1. new = PatchError(list)
      BY <2>2 DEF Replace
    <3> QED BY <1>1, <1>4, <3>1 DEF Patched
  <2>3. CASE ~(p.before # None \/ p.after # None) /\ ~p.enabled
    <3>1. new = [list EXCEPT !.steps = RemoveAt(@, i)]
      BY <2>3 DEF Replace
    <3>2. IsList(new) /\ new.steps = RemoveAt(s, Pos(s, p.key))
      BY <2>1, <3>1
    <3>3. InOrder(old, patches, m, new.steps)
      BY <1>4, <2>3, <3>2, RemovesOne
    <3> QED BY <1>4, <3>2, <3>3 DEF Patched
  <2>4. CASE ~(p.before # None \/ p.after # None) /\ p.enabled /\ kept.command = None
    <3>1. new = PatchError(list)
      BY <2>4 DEF Replace
    <3> QED BY <1>1, <1>4, <3>1 DEF Patched
  <2>5. CASE ~(p.before # None \/ p.after # None) /\ p.enabled /\ kept.command # None
    <3>1. new = [list EXCEPT !.steps[i] = kept]
      BY <2>5 DEF Replace
    <3>2. IsList(new) /\ new.steps = [s EXCEPT ![Pos(s, p.key)] = kept]
      BY <2>1, <3>1
    <3> HIDE DEF kept
    <3>3. InOrder(old, patches, m, new.steps)
      BY <1>2, <1>4, <2>5, <3>2, ReplacesOne
    <3> QED BY <1>4, <3>2, <3>3 DEF Patched
  <2> QED BY <2>2, <2>3, <2>4, <2>5
<1>5. CASE list.ok /\ p.key \notin Keys(s)
  <2> DEFINE new == Insert(list, p)
             missing == \E ref \in {p.before, p.after} \ {None} : ref \notin Keys(s)
             wrong == ~p.enabled \/ missing \/ step.command = None \/ (p.before # None /\ p.after # None)
  <2>1. CASE wrong
    <3>1. new = PatchError(list)
      BY <2>1 DEF Insert
    <3> QED BY <1>1, <1>5, <3>1 DEF Patched
  <2>2. CASE ~wrong
    <3>1. new = [list EXCEPT !.steps = InsertAt(@, Place(@, p), step)]
      BY <2>2 DEF Insert
    <3>2. IsList(new) /\ new.steps = InsertAt(s, Place(s, p), step)
      BY <3>1
    <3>3. p.enabled /\ \A ref \in {p.before, p.after} \ {None} : ref \in Keys(s)
      BY <2>2
    <3> HIDE DEF step
    <3>4. InOrder(old, patches, m, new.steps)
      BY <1>2, <1>5, <3>2, <3>3, InsertsOne
    <3> QED BY <1>5, <3>2, <3>4 DEF Patched
  <2> QED BY <2>1, <2>2
<1> QED BY <1>3, <1>4, <1>5

\* After all the patches the list is in order.
LEMMA AllPatches ==
    ASSUME NEW old, IsSteps(old), None \notin Keys(old),
           NEW patches, NEW n \in Nat, DOMAIN patches = 1 .. n,
           validate_raw_target_steps(patches), NEW inherits,
           merge_target_step_patches(old, patches, inherits).ok
    PROVE  InOrder(old, patches, n, merge_target_step_patches(old, patches, inherits).steps)
<1> DEFINE what == [op |-> "patch", inherits |-> inherits]
           base == [ok |-> TRUE, steps |-> old]
<1>1. merge_target_step_patches(old, patches, inherits) = Folded(what, base, patches)
  BY FoldedPatches
<1>2p. PICK e : IsChain(e, what, base, patches, n)
  BY Chain
<1>2. /\ e[0] = base
      /\ \A k \in 1 .. n : e[k] = Step(what, e[k - 1], patches[k])
      /\ e[n] = Folded(what, base, patches)
  BY <1>2p DEF IsChain
<1>3. \A k \in 1 .. n : e[k] = Patched(e[k - 1], patches[k], inherits)
  <2>1. \A list, p : Step(what, list, p) = Patched(list, p, inherits)
    BY DEF Step
  <2> HIDE DEF what
  <2> QED BY <1>2, <2>1
<1> DEFINE G == {k \in 0 .. n : IsList(e[k]) /\ (e[k].ok => InOrder(old, patches, k, e[k].steps))}
<1>4. 0 \in G
  <2>1. IsList(base) /\ base.steps = old
    BY DEF IsList
  <2>2. Gone(patches, 0) = {} /\ Came(patches, 0) = {}
    BY DEF Gone, Came
  <2>3. \A j \in 1 .. 0 : FALSE
    OBVIOUS
  <2>4. InOrder(old, patches, 0, old)
    BY <2>2, <2>3 DEF InOrder, SameOrder, Kept
  <2>5. IsList(e[0]) /\ e[0].steps = old
    BY <1>2, <2>1
  <2>6. e[0].ok => InOrder(old, patches, 0, e[0].steps)
    BY <2>4, <2>5
  <2>7. 0 \in 0 .. n
    OBVIOUS
  <2> QED BY <2>5, <2>6, <2>7
<1>5. ASSUME NEW k \in 1 .. n, k - 1 \in G PROVE k \in G
  <2>1. IsList(e[k - 1]) /\ (e[k - 1].ok => InOrder(old, patches, k - 1, e[k - 1].steps))
    BY <1>5
  <2>2. e[k] = Patched(e[k - 1], patches[k], inherits)
    BY <1>3
  <2>3. IsList(e[k]) /\ (e[k].ok => InOrder(old, patches, k, e[k].steps))
    BY <2>1, <2>2, OnePatch
  <2> QED BY <2>3
<1>6. 0 .. n \subseteq G
  <2> HIDE DEF G
  <2> QED BY <1>4, <1>5, UpTo
<1>7. n \in G
  BY <1>6
<1> QED BY <1>1, <1>2, <1>7

\* A list has as many steps as keys.
LEMMA Counted ==
    ASSUME NEW s, IsSteps(s)
    PROVE  Len(s) = Cardinality(Keys(s))
<1> DEFINE f == [i \in 1 .. Len(s) |-> s[i].key]
<1>1. /\ Len(s) \in Nat
      /\ \A key \in Keys(s) : Pos(s, key) \in 1 .. Len(s) /\ s[Pos(s, key)].key = key
      /\ \A i \in 1 .. Len(s) : s[i].key \in Keys(s) /\ Pos(s, s[i].key) = i
  BY Steps
<1>2. f \in Bijection(1 .. Len(s), Keys(s))
  BY <1>1 DEF Bijection, Injection, Surjection, IsInjective
<1>3. ExistsBijection(1 .. Len(s), Keys(s))
  BY <1>2 DEF ExistsBijection
<1>4. IsFiniteSet(1 .. Len(s)) /\ Cardinality(1 .. Len(s)) = Len(s)
  <2> DEFINE n == Len(s)
  <2>1. n \in Nat
    BY <1>1
  <2> HIDE DEF n
  <2>2. IsFiniteSet(1 .. n) /\ Cardinality(1 .. n) = n
    <3>1. 1 \in Int /\ n \in Int
      BY <2>1
    <3>2. IsFiniteSet(1 .. n) /\ Cardinality(1 .. n) = IF 1 > n THEN 0 ELSE n - 1 + 1
      BY <3>1, FS_Interval
    <3> QED BY <2>1, <3>2
  <2> QED BY <2>2 DEF n
<1> QED BY <1>3, <1>4, FS_Bijection

\* The patches of a layer never reorder, drop or duplicate the steps they do not name, and a
\* new step stands next to the one it names: merge_target_step_patches, for lists of any
\* length.
THEOREM PatchesKeepOrderThm == ConfigSpec => []PatchesKeepOrder
<1>1. Evaluated => PatchesKeepOrder
  <2> SUFFICES ASSUME Evaluated, kind = "patches", result.ok PROVE PatchesKeepOrder
    BY DEF PatchesKeepOrder
  <2> DEFINE old == input.inherited
             new == result.steps
             patches == input.patches
             n == Len(patches)
             removed == {patches[i].key : i \in {j \in DOMAIN patches : ~patches[j].enabled}}
             kept == Keys(old) \ removed
  <2>1. /\ IsSteps(old) /\ None \notin Keys(old) /\ n \in Nat /\ DOMAIN patches = 1 .. n
        /\ validate_raw_target_steps(patches)
        /\ result = merge_target_step_patches(old, patches, input.inherits)
    <3>1. input \in PatchInputs /\ result = merge_target_step_patches(old, patches, input.inherits)
      BY DEF Evaluated
    <3> QED BY <3>1, PatchInputsAssumption DEF IsSteps
  <2>2. InOrder(old, patches, n, new)
    BY <2>1, AllPatches
  <2>3. /\ removed = Gone(patches, n) /\ kept = Kept(old, patches, n)
        /\ Came(patches, n) = {patches[i].key : i \in {j \in DOMAIN patches : patches[j].enabled}}
    BY <2>1 DEF Gone, Came, Kept
  <2>4. \A key : (CHOOSE i \in DOMAIN new : new[i].key = key) = Pos(new, key)
    BY DEF Pos
  <2> HIDE DEF old, new, patches, n, removed, kept
  <2>5. IsSteps(new) /\ Keys(new) = kept \cup Came(patches, n) /\ SameOrder(old, new, kept)
    BY <2>2, <2>3 DEF InOrder
  <2>6. Len(new) = Cardinality(Keys(new))
    BY <2>5, Counted
  <2>7. ASSUME NEW i \in DOMAIN old
        PROVE  Pos(old, old[i].key) = i /\ old[i].key \in Keys(old)
    BY <2>1, Steps
  <2>8. ASSUME NEW i \in DOMAIN old, NEW j \in DOMAIN old, i < j, {old[i].key, old[j].key} \subseteq kept
        PROVE  Pos(new, old[i].key) < Pos(new, old[j].key)
    <3>1. old[i].key \in kept /\ old[j].key \in kept
          /\ Pos(old, old[i].key) < Pos(old, old[j].key)
      BY <2>7, <2>8
    <3> QED BY <2>5, <3>1 DEF SameOrder
  <2>9. ASSUME NEW i \in DOMAIN old, {k \in DOMAIN patches : patches[k].key = old[i].key} = {}
        PROVE  old[i] = new[Pos(new, old[i].key)]
    <3>1. \A k \in 1 .. n : patches[k].key # old[i].key
      BY <2>1, <2>9
    <3>2. At(new, old[i].key) = At(old, old[i].key)
      BY <2>2, <2>7, <3>1 DEF InOrder
    <3> QED BY <2>7, <3>2 DEF At
  <2>10. ASSUME NEW i \in DOMAIN patches, patches[i].enabled, patches[i].key \notin Keys(old)
         PROVE  Placed(new, patches[i], kept)
    BY <2>1, <2>2, <2>3, <2>10 DEF InOrder
  <2>11. Keys(new) = kept \cup {patches[i].key : i \in {j \in DOMAIN patches : patches[j].enabled}}
    BY <2>3, <2>5
  <2> DEFINE at(key) == CHOOSE i \in DOMAIN new : new[i].key = key
  <2>12. \A i, j \in DOMAIN old :
            i < j /\ {old[i].key, old[j].key} \subseteq kept => at(old[i].key) < at(old[j].key)
    <3>1. \A key : at(key) = Pos(new, key)
      BY <2>4
    <3> HIDE DEF at
    <3> QED BY <2>8, <3>1, Zenon
  <2>13. \A i \in DOMAIN old : {k \in DOMAIN patches : patches[k].key = old[i].key} = {}
                                 => old[i] = new[at(old[i].key)]
    BY <2>4, <2>9
  <2>14. ASSUME NEW i \in DOMAIN patches, patches[i].enabled, patches[i].key \notin Keys(old)
         PROVE  LET p == patches[i]
                    here == at(p.key)
                IN  /\ p.before \in kept =>
                         /\ here < at(p.before)
                         /\ \A k \in kept \ {p.before} : ~(here < at(k) /\ at(k) < at(p.before))
                    /\ p.after \in kept =>
                         /\ at(p.after) < here
                         /\ \A k \in kept \ {p.after} : ~(at(p.after) < at(k) /\ at(k) < here)
                    /\ p.before = None /\ p.after = None => \A k \in kept : at(k) < here
    <3>1. \A key : at(key) = Pos(new, key)
      BY <2>4
    <3> HIDE DEF at
    <3> QED BY <2>10, <2>14, <3>1, Zenon DEF Placed
  <2> QED
    BY <2>6, <2>11, <2>12, <2>13, <2>14, Zenon DEF PatchesKeepOrder, old, new, patches, removed, kept
<1> QED BY <1>1, EvaluatedThm, PTL

-----------------------------------------------------------------------------
(* The two walks.                                                          *)

\* What a visit does with a call, given the visits of other calls.
CheckOne(deps, visit, at) ==
    IF at.name \in at.st.visited THEN at.st
    ELSE IF at.name \in at.visiting THEN [at.st EXCEPT !.ok = FALSE]
    ELSE LET after == CheckEach(visit, deps[at.name], at.st, at.visiting \cup {at.name})
         IN  IF after.ok THEN [after EXCEPT !.visited = @ \cup {at.name}] ELSE after

StopOne(deps, visit, at) ==
    IF at.name \in at.st.visited THEN at.st
    ELSE LET after == WalkEach(visit, Dependents(deps, at.name),
                               [at.st EXCEPT !.visited = @ \cup {at.name}])
         IN  [after EXCEPT !.ordered = Append(@, at.name)]

UseOne(uses, visit, at) ==
    IF at.name \in at.stack \/ at.name \notin DOMAIN uses THEN [ok |-> FALSE, order |-> <<>>]
    ELSE LET deps == ApplyEach(visit, uses[at.name], at.stack \cup {at.name})
         IN  [ok |-> deps.ok, order |-> Append(deps.order, at.name)]

Body(walk, visit, at) ==
    CASE walk.op = "check" -> CheckOne(walk.deps, visit, at)
      [] walk.op = "walk"  -> StopOne(walk.deps, visit, at)
      [] walk.op = "use"   -> UseOne(walk.deps, visit, at)

IsVisit(visit, walk, Calls) == visit = [at \in Calls |-> Body(walk, visit, at)]

Visit(walk, Calls) == CHOOSE visit : IsVisit(visit, walk, Calls)

\* A walk: the function whose value at each call is Body of the walk.
LEMMA Visits ==
    ASSUME NEW deps
    PROVE  /\ VisitDependency(deps) = Visit([op |-> "check", deps |-> deps], Checks)
           /\ VisitDependents(deps) = Visit([op |-> "walk", deps |-> deps], Walks)
           /\ apply_template(deps) = Visit([op |-> "use", deps |-> deps], Applications(deps))
<1>1. VisitDependency(deps) = Visit([op |-> "check", deps |-> deps], Checks)
  BY DEF VisitDependency, Visit, IsVisit, Body, CheckOne
<1>2. VisitDependents(deps) = Visit([op |-> "walk", deps |-> deps], Walks)
  BY DEF VisitDependents, Visit, IsVisit, Body, StopOne
<1>3. apply_template(deps) = Visit([op |-> "use", deps |-> deps], Applications(deps))
  BY DEF apply_template, Visit, IsVisit, Body, UseOne
<1> QED BY <1>1, <1>2, <1>3

\* a and b agree on the calls that have less left to visit than k.
Agree(a, b, Calls, left, k) == \A at \in Calls : left[at] < k => a[at] = b[at]

\* The recursive function of a walk exists, is the only one and is in V.
LEMMA VisitExists ==
    ASSUME NEW walk, NEW Calls, NEW N \in Nat, NEW left \in [Calls -> 0 .. N], NEW V, NEW first \in V,
           \A v \in V : v = [at \in Calls |-> v[at]],
           \A v \in V : [at \in Calls |-> Body(walk, v, at)] \in V,
           \A v \in V : \A w : \A at \in Calls :
               Agree(v, w, Calls, left, left[at]) => Body(walk, v, at) = Body(walk, w, at)
    PROVE  Visit(walk, Calls) \in V /\ IsVisit(Visit(walk, Calls), walk, Calls)
<1> DEFINE Next1(v) == [at \in Calls |-> Body(walk, v, at)]
           G == {k \in 0 .. N + 1 : \E v \in V : Agree(v, Next1(v), Calls, left, k)}
<1>1. 0 \in G
  <2>1. \A at \in Calls : ~(left[at] < 0)
    OBVIOUS
  <2>2. Agree(first, Next1(first), Calls, left, 0)
    BY <2>1 DEF Agree
  <2> QED BY <2>2
<1>2. ASSUME NEW k \in 1 .. N + 1, k - 1 \in G PROVE k \in G
  <2>1. PICK v \in V : Agree(v, Next1(v), Calls, left, k - 1)
    BY <1>2
  <2> DEFINE w == Next1(v)
  <2>2. w \in V
    OBVIOUS
  <2>3. ASSUME NEW at \in Calls, left[at] < k PROVE w[at] = Next1(w)[at]
    <3>1. Agree(v, w, Calls, left, left[at])
      <4>1. ASSUME NEW p \in Calls, left[p] < left[at] PROVE left[p] < k - 1
        <5>1. left[p] \in Int /\ left[at] \in Int
          OBVIOUS
        <5> QED BY <2>3, <4>1, <5>1
      <4> HIDE DEF w
      <4> QED BY <2>1, <4>1 DEF Agree, w
    <3>2. Body(walk, v, at) = Body(walk, w, at)
      <4> HIDE DEF w
      <4> QED BY <3>1
    <3>3. w[at] = Body(walk, v, at) /\ Next1(w)[at] = Body(walk, w, at)
      OBVIOUS
    <3> QED BY <3>2, <3>3
  <2>4. Agree(w, Next1(w), Calls, left, k)
    <3> HIDE DEF Next1
    <3> QED BY <2>3 DEF Agree
  <2> HIDE DEF w
  <2> QED BY <2>2, <2>4
<1>3. N + 1 \in G
  <2> HIDE DEF G
  <2>1. 0 .. N + 1 \subseteq G
    BY <1>1, <1>2, UpTo
  <2> QED BY <2>1
<1>4. PICK v \in V : Agree(v, Next1(v), Calls, left, N + 1)
  BY <1>3
<1>5. v = Next1(v)
  <2>1. \A at \in Calls : left[at] < N + 1
    OBVIOUS
  <2>2. \A at \in Calls : v[at] = Next1(v)[at]
    <3> HIDE DEF Next1
    <3> QED BY <1>4, <2>1 DEF Agree
  <2>3. v = [at \in Calls |-> v[at]] /\ Next1(v) = [at \in Calls |-> Next1(v)[at]]
    OBVIOUS
  <2> HIDE DEF Next1
  <2> QED BY <2>2, <2>3
<1>6. IsVisit(v, walk, Calls)
  BY <1>5 DEF IsVisit
<1> DEFINE u == Visit(walk, Calls)
<1>7. IsVisit(u, walk, Calls)
  BY <1>6 DEF Visit
<1>8. u = [at \in Calls |-> Body(walk, u, at)]
  <2> HIDE DEF u
  <2> QED BY <1>7 DEF IsVisit
<1> HIDE DEF u
<1> DEFINE H == {k \in 0 .. N + 1 : Agree(v, u, Calls, left, k)}
<1>9. 0 \in H
  <2>1. \A at \in Calls : ~(left[at] < 0)
    OBVIOUS
  <2> QED BY <2>1 DEF Agree
<1>10. ASSUME NEW k \in 1 .. N + 1, k - 1 \in H PROVE k \in H
  <2>1. ASSUME NEW at \in Calls, left[at] < k PROVE v[at] = u[at]
    <3>1. ASSUME NEW p \in Calls, left[p] < left[at] PROVE left[p] < k - 1
      <4>1. left[p] \in Int /\ left[at] \in Int
        OBVIOUS
      <4> QED BY <2>1, <3>1, <4>1
    <3>2. Agree(v, u, Calls, left, left[at])
      BY <1>10, <3>1 DEF Agree
    <3>3. Body(walk, v, at) = Body(walk, u, at)
      BY <3>2
    <3>4. v[at] = Body(walk, v, at)
      BY <1>5
    <3>5. u[at] = Body(walk, u, at)
      BY <1>8
    <3> QED BY <3>3, <3>4, <3>5
  <2> QED BY <2>1 DEF Agree
<1>11. N + 1 \in H
  <2> HIDE DEF H
  <2>1. 0 .. N + 1 \subseteq H
    BY <1>9, <1>10, UpTo
  <2> QED BY <2>1
<1>12. u = v
  <2>1. \A at \in Calls : left[at] < N + 1
    OBVIOUS
  <2>2. \A at \in Calls : v[at] = u[at]
    BY <1>11, <2>1 DEF Agree
  <2>3. v = [at \in Calls |-> v[at]] /\ u = [at \in Calls |-> u[at]]
    BY <1>8
  <2> QED BY <2>2, <2>3
<1> QED BY <1>7, <1>12 DEF u

\* The services as configured.
LEMMA Listing ==
    /\ Len(configured) \in Nat /\ DOMAIN configured = 1 .. Len(configured)
    /\ \A k \in 1 .. Len(configured) : configured[k] \in Service
    /\ \A s \in Service : \E k \in 1 .. Len(configured) : configured[k] = s
    /\ IsFiniteSet(Service) /\ Cardinality(Service) \in Nat
<1>1. Len(configured) \in Nat /\ DOMAIN configured = 1 .. Len(configured)
  BY OrderInputsAssumption
<1>2. Service = {configured[k] : k \in 1 .. Len(configured)}
  BY <1>1 DEF Service, ToSet
<1>3. IsFiniteSet(Service)
  <2> DEFINE n == Len(configured)
             f == [k \in 1 .. n |-> configured[k]]
  <2>1. f \in Surjection(1 .. n, Service)
    BY <1>2 DEF Surjection
  <2>2. n \in Nat
    BY <1>1
  <2> HIDE DEF n
  <2>3. IsFiniteSet(1 .. n)
    <3>1. 1 \in Int /\ n \in Int
      BY <2>2
    <3> QED BY <3>1, FS_Interval
  <2> HIDE DEF f
  <2> QED BY <2>1, <2>3, FS_Surjection
<1>4. Cardinality(Service) \in Nat
  BY <1>3, FS_CardinalityType
<1> QED BY <1>1, <1>2, <1>3, <1>4

\* With each element that is visited one less is left.
LEMMA FewerOf ==
    ASSUME NEW all, IsFiniteSet(all)
    PROVE  /\ Cardinality(all) \in Nat
           /\ \A S : Cardinality(all \ S) \in 0 .. Cardinality(all)
           /\ \A S, T : \A x \in all :
                 S \subseteq T /\ x \in T \ S => Cardinality(all \ T) < Cardinality(all \ S)
<1>1. Cardinality(all) \in Nat
  BY FS_CardinalityType
<1>2. ASSUME NEW S
      PROVE  /\ Cardinality(all \ S) \in Nat /\ Cardinality(all \ S) <= Cardinality(all)
             /\ IsFiniteSet(all \ S)
  BY FS_Subset, FS_CardinalityType
<1>3. \A S : Cardinality(all \ S) \in 0 .. Cardinality(all)
  BY <1>1, <1>2
<1>4. ASSUME NEW S, NEW T, NEW x \in all, S \subseteq T, x \in T \ S
      PROVE  Cardinality(all \ T) < Cardinality(all \ S)
  <2> DEFINE A == all \ S
             B == all \ T
  <2>1. B \in SUBSET A /\ B # A
    BY <1>4
  <2>2. IsFiniteSet(A) /\ Cardinality(A) \in Nat /\ Cardinality(B) \in Nat
    BY <1>2
  <2> HIDE DEF A, B
  <2>3. Cardinality(B) <= Cardinality(A) /\ Cardinality(B) # Cardinality(A)
    BY <2>1, <2>2, FS_Subset
  <2>4. Cardinality(B) < Cardinality(A)
    BY <2>2, <2>3
  <2> QED BY <2>4 DEF A, B
<1>5. \A S, T : \A x \in all :
          S \subseteq T /\ x \in T \ S => Cardinality(all \ T) < Cardinality(all \ S)
  BY <1>4
<1> QED BY <1>1, <1>3, <1>5

\* The number of services that are not in S.
Left(S) == Cardinality(Service \ S)

\* A larger set leaves fewer services out.
LEMMA Fewer ==
    /\ \A S : Left(S) \in 0 .. Cardinality(Service)
    /\ \A S, T : \A x \in Service : S \subseteq T /\ x \in T \ S => Left(T) < Left(S)
BY FewerOf, Listing DEF Left

CheckLeft == [at \in Checks |-> Left(at.visiting)]
WalkLeft == [at \in Walks |-> Left(at.st.visited)]

-----------------------------------------------------------------------------
(* The validation.                                                         *)

\* The call for a name and what the visit of its dependencies starts from.
CheckCall(d, e, visiting) == [name |-> d, st |-> e, visiting |-> visiting]

\* A step of the loop over the dependencies visits one, unless a cycle was met.
LEMMA CheckStep ==
    ASSUME NEW visit, NEW names, NEW visiting, NEW e, NEW x
    PROVE  Step([op |-> "check", visit |-> visit, names |-> names, visiting |-> visiting], e, x)
              = IF e.ok /\ x \in names THEN visit[CheckCall(x, e, visiting)] ELSE e
BY DEF Step, CheckCall

\* Visits that agree on the dependencies take them to the same state.
LEMMA CheckEachSame ==
    ASSUME NEW visit \in [Checks -> Checked], NEW names \in SUBSET Service, NEW st \in Checked,
           NEW visiting \in SUBSET Service, NEW other,
           \A d \in names, e \in Checked :
               visit[CheckCall(d, e, visiting)] = other[CheckCall(d, e, visiting)]
    PROVE  /\ CheckEach(visit, names, st, visiting) \in Checked
           /\ CheckEach(visit, names, st, visiting) = CheckEach(other, names, st, visiting)
<1> DEFINE what == [op |-> "check", visit |-> visit, names |-> names, visiting |-> visiting]
           that == [op |-> "check", visit |-> other, names |-> names, visiting |-> visiting]
           n == Len(configured)
<1>1. ASSUME NEW e \in Checked, NEW x
      PROVE  Step(what, e, x) \in Checked /\ Step(that, e, x) = Step(what, e, x)
  <2>1. \A d \in names : CheckCall(d, e, visiting) \in Checks
    BY DEF CheckCall, Checks
  <2>2. Step(what, e, x) = IF e.ok /\ x \in names THEN visit[CheckCall(x, e, visiting)] ELSE e
    BY CheckStep
  <2>3. Step(that, e, x) = IF e.ok /\ x \in names THEN other[CheckCall(x, e, visiting)] ELSE e
    BY CheckStep
  <2> QED BY <2>1, <2>2, <2>3
<1>2. n \in Nat /\ DOMAIN configured = 1 .. n
  BY Listing
<1> HIDE DEF what, that, n
<1>3. \A e \in Checked, k \in 1 .. n : /\ Step(what, e, configured[k]) \in Checked
                                       /\ Step(that, e, configured[k]) = Step(what, e, configured[k])
  BY <1>1
<1>4. Folded(what, st, configured) \in Checked
  BY <1>2, <1>3, Stays
<1>5. Folded(that, st, configured) = Folded(what, st, configured)
  BY <1>2, <1>3, SameFold
<1> QED BY <1>4, <1>5, FoldedCheck DEF what, that

\* VisitDependency is defined at every call, by its own equation: each call makes
\* only calls that are for more names.
LEMMA CheckWorks ==
    ASSUME NEW deps \in [Service -> SUBSET Service]
    PROVE  /\ VisitDependency(deps) \in [Checks -> Checked]
           /\ \A at \in Checks :
                 VisitDependency(deps)[at] = CheckOne(deps, VisitDependency(deps), at)
<1> DEFINE walk == [op |-> "check", deps |-> deps]
           V == [Checks -> Checked]
           first == [at \in Checks |-> at.st]
           N == Cardinality(Service)
<1>1. \A v, at : Body(walk, v, at) = CheckOne(deps, v, at)
  BY DEF Body
<1> HIDE DEF walk
<1>2. ASSUME NEW v \in V, NEW w, NEW at \in Checks, Agree(v, w, Checks, CheckLeft, CheckLeft[at])
      PROVE  CheckOne(deps, v, at) \in Checked /\ CheckOne(deps, v, at) = CheckOne(deps, w, at)
  <2>0. /\ at.name \in Service /\ at.st \in Checked /\ at.visiting \in SUBSET Service
        /\ at.st.visited \in SUBSET Service
    BY DEF Checks, Checked
  <2>1. CASE at.name \in at.st.visited
    BY <2>0, <2>1 DEF CheckOne
  <2>2. CASE at.name \notin at.st.visited /\ at.name \in at.visiting
    BY <2>0, <2>2 DEF CheckOne, Checked
  <2>3. CASE at.name \notin at.st.visited /\ at.name \notin at.visiting
    <3> DEFINE visiting == at.visiting \cup {at.name}
               names == deps[at.name]
    <3>1. visiting \in SUBSET Service /\ names \in SUBSET Service
      BY <2>0
    <3>2. ASSUME NEW d \in names, NEW e \in Checked
          PROVE  v[CheckCall(d, e, visiting)] = w[CheckCall(d, e, visiting)]
      <4>1. CheckCall(d, e, visiting) \in Checks /\ CheckCall(d, e, visiting).visiting = visiting
        BY <3>1 DEF CheckCall, Checks
      <4>2. Left(visiting) < Left(at.visiting)
        BY <2>0, <2>3, Fewer
      <4>3. CheckLeft[CheckCall(d, e, visiting)] < CheckLeft[at]
        BY <4>1, <4>2 DEF CheckLeft
      <4> QED BY <1>2, <4>1, <4>3 DEF Agree
    <3> DEFINE after == CheckEach(v, names, at.st, visiting)
    <3>3. after \in Checked /\ after = CheckEach(w, names, at.st, visiting)
      <4> HIDE DEF visiting, names
      <4> QED BY <2>0, <3>1, <3>2, CheckEachSame
    <3>4. /\ CheckOne(deps, v, at) = IF after.ok THEN [after EXCEPT !.visited = @ \cup {at.name}] ELSE after
          /\ CheckOne(deps, w, at) = IF after.ok THEN [after EXCEPT !.visited = @ \cup {at.name}] ELSE after
      BY <2>3, <3>3 DEF CheckOne
    <3> HIDE DEF after
    <3>5. [after EXCEPT !.visited = @ \cup {at.name}] \in Checked
      BY <2>0, <3>3 DEF Checked
    <3> QED BY <3>3, <3>4, <3>5
  <2> QED BY <2>1, <2>2, <2>3
<1>3. first \in V
  BY DEF Checks
<1>4. CheckLeft \in [Checks -> 0 .. N] /\ N \in Nat
  BY Fewer, Listing DEF CheckLeft
<1>5. \A v \in V : v = [at \in Checks |-> v[at]]
  OBVIOUS
<1>6. \A v \in V : [at \in Checks |-> Body(walk, v, at)] \in V
  <2>1. ASSUME NEW v \in V, NEW at \in Checks PROVE Body(walk, v, at) \in Checked
    <3>1. Agree(v, v, Checks, CheckLeft, CheckLeft[at])
      BY DEF Agree
    <3> QED BY <1>1, <1>2, <3>1
  <2> QED BY <2>1
<1>7. \A v \in V : \A w : \A at \in Checks :
          Agree(v, w, Checks, CheckLeft, CheckLeft[at]) => Body(walk, v, at) = Body(walk, w, at)
  BY <1>1, <1>2
<1>8. Visit(walk, Checks) \in V /\ IsVisit(Visit(walk, Checks), walk, Checks)
  <2> HIDE DEF V, first, N
  <2> QED BY <1>3, <1>4, <1>5, <1>6, <1>7, VisitExists
<1>9. VisitDependency(deps) = Visit(walk, Checks)
  BY Visits DEF walk
<1> DEFINE visit == VisitDependency(deps)
<1>10. visit = [at \in Checks |-> Body(walk, visit, at)]
  BY <1>8, <1>9 DEF IsVisit
<1>11. \A at \in Checks : visit[at] = Body(walk, visit, at)
  <2> HIDE DEF visit
  <2> QED BY <1>10
<1> QED BY <1>1, <1>8, <1>9, <1>11

\* Every element of S waits for one of it, and some elements of all do so for ever.
Waits(deps, S) == \A x \in S : deps[x] \cap S # {}
Loops(all, deps) == \E S \in SUBSET all : S # {} /\ Waits(deps, S)

\* Cyclic says that some services wait for each other for ever.
LEMMA CyclicIs == \A deps : Cyclic(deps) <=> Loops(Service, deps)
BY DEF Cyclic, Loops, Waits

\* None of the checked services waits for ever.
NoCycle(deps, visited) == \A S \in SUBSET Service : Waits(deps, S) => S \cap visited = {}

\* v waits for name over one or more dependencies: each element of S but the last
\* one waits for another one of it, and the last one for name.
WaitsFor(all, deps, v, name) ==
    \E S \in SUBSET all, last \in all :
        {v, last} \subseteq S /\ name \in deps[last] /\ \A x \in S \ {last} : deps[x] \cap S # {}

\* What waits for itself loops.
LEMMA WaitsForItself ==
    ASSUME NEW all, NEW deps, NEW v, WaitsFor(all, deps, v, v)
    PROVE  Loops(all, deps)
<1>1. PICK S \in SUBSET all, last \in all :
          {v, last} \subseteq S /\ v \in deps[last] /\ \A x \in S \ {last} : deps[x] \cap S # {}
  BY DEF WaitsFor
<1>2. \A x \in S : deps[x] \cap S # {}
  BY <1>1
<1> QED BY <1>1, <1>2 DEF Loops, Waits

\* What waits for a name also waits for what the name depends on.
LEMMA WaitsOn ==
    ASSUME NEW all, NEW deps, NEW v, NEW name \in all, NEW d \in deps[name],
           v = name \/ WaitsFor(all, deps, v, name)
    PROVE  WaitsFor(all, deps, v, d)
<1>1. CASE v = name
  <2>1. {name} \in SUBSET all /\ \A x \in {name} \ {name} : deps[x] \cap {name} # {}
    OBVIOUS
  <2> QED BY <1>1, <2>1 DEF WaitsFor
<1>2. CASE WaitsFor(all, deps, v, name)
  <2>1. PICK S \in SUBSET all, last \in all :
            {v, last} \subseteq S /\ name \in deps[last] /\ \A x \in S \ {last} : deps[x] \cap S # {}
    BY <1>2 DEF WaitsFor
  <2> DEFINE T == S \cup {name}
  <2>2. T \in SUBSET all /\ name \in T /\ v \in T
    BY <2>1
  <2>3. ASSUME NEW x \in T \ {name} PROVE deps[x] \cap T # {}
    BY <2>1
  <2> HIDE DEF T
  <2> QED BY <2>2, <2>3 DEF WaitsFor
<1> QED BY <1>1, <1>2

\* What a visit makes of the state it starts from.
CheckedOff(deps, st, r, names) ==
    /\ r \in Checked
    /\ NoCycle(deps, r.visited)
    /\ st.visited \subseteq r.visited
    /\ r.ok => names \subseteq r.visited
    /\ ~r.ok => Cyclic(deps)

\* The loop checks all names, or meets a cycle, if each of its visits does.
LEMMA CheckEachWorks ==
    ASSUME NEW deps \in [Service -> SUBSET Service], NEW visit \in [Checks -> Checked],
           NEW names \in SUBSET Service, NEW visiting \in SUBSET Service,
           NEW st \in Checked, st.ok, NoCycle(deps, st.visited),
           \A d \in names, e \in Checked : e.ok /\ NoCycle(deps, e.visited) =>
               CheckedOff(deps, e, visit[CheckCall(d, e, visiting)], {d})
    PROVE  CheckedOff(deps, st, CheckEach(visit, names, st, visiting), names)
<1> DEFINE what == [op |-> "check", visit |-> visit, names |-> names, visiting |-> visiting]
           n == Len(configured)
           Upto(k) == {d \in names : \E j \in 1 .. k : configured[j] = d}
           P == [k \in 0 .. n |-> {e \in Checked : CheckedOff(deps, st, e, Upto(k))}]
<1>1. n \in Nat /\ DOMAIN configured = 1 .. n
  BY Listing
<1>2. st \in P[0]
  <2>1. Upto(0) = {}
    OBVIOUS
  <2>2. CheckedOff(deps, st, st, {})
    BY DEF CheckedOff
  <2> QED BY <1>1, <2>1, <2>2
<1>3. ASSUME NEW k \in 1 .. n, NEW e \in P[k - 1] PROVE Step(what, e, configured[k]) \in P[k]
  <2> DEFINE d == configured[k]
             r == Step(what, e, d)
  <2>1. e \in Checked /\ CheckedOff(deps, st, e, Upto(k - 1)) /\ k \in Nat
    BY <1>1, <1>3
  <2>2. r = IF e.ok /\ d \in names THEN visit[CheckCall(d, e, visiting)] ELSE e
    BY CheckStep
  <2>3. Upto(k) \subseteq Upto(k - 1) \cup {d} /\ (d \notin names => Upto(k) = Upto(k - 1))
    <3>1. \A j \in 1 .. k : j \in 1 .. k - 1 \/ j = k
      BY <2>1
    <3>2. \A j \in 1 .. k - 1 : j \in 1 .. k
      BY <2>1
    <3> QED BY <3>1, <3>2
  <2> HIDE DEF d, r, Upto
  <2>4. CheckedOff(deps, st, r, Upto(k))
    <3>1. CASE e.ok /\ d \in names
      <4>1. CheckedOff(deps, e, r, {d})
        BY <2>1, <2>2, <3>1 DEF CheckedOff
      <4> QED BY <2>1, <2>3, <3>1, <4>1 DEF CheckedOff
    <3>2. CASE e.ok /\ d \notin names
      BY <2>1, <2>2, <2>3, <3>2 DEF CheckedOff
    <3>3. CASE ~e.ok
      BY <2>1, <2>2, <3>3 DEF CheckedOff
    <3> QED BY <3>1, <3>2, <3>3
  <2>5. r \in Checked
    BY <2>4 DEF CheckedOff
  <2> QED BY <1>3, <2>4, <2>5 DEF d, r
<1>4. Folded(what, st, configured) \in P[n]
  <2> HIDE DEF what, P, n
  <2> QED BY <1>1, <1>2, <1>3, StaysUpTo
<1>5. Upto(n) = names
  BY Listing
<1>6. CheckEach(visit, names, st, visiting) \in P[n]
  BY <1>4, FoldedCheck
<1>7. P[n] = {e \in Checked : CheckedOff(deps, st, e, Upto(n))}
  BY <1>1
<1> HIDE DEF P, Upto
<1> QED BY <1>5, <1>6, <1>7

\* A visit finds out whether some service waits for ever.
LEMMA CheckCorrect ==
    ASSUME NEW deps \in [Service -> SUBSET Service], NEW at \in Checks,
           at.st.ok, NoCycle(deps, at.st.visited),
           \A v \in at.visiting : WaitsFor(Service, deps, v, at.name)
    PROVE  CheckedOff(deps, at.st, VisitDependency(deps)[at], {at.name})
<1> DEFINE visit == VisitDependency(deps)
           Called(c) == /\ c.st.ok /\ NoCycle(deps, c.st.visited)
                        /\ \A v \in c.visiting : WaitsFor(Service, deps, v, c.name)
           Right(c) == Called(c) => CheckedOff(deps, c.st, visit[c], {c.name})
           N == Cardinality(Service)
           G == {k \in 0 .. N + 1 : \A c \in Checks : CheckLeft[c] < k => Right(c)}
<1>1. visit \in [Checks -> Checked] /\ \A c \in Checks : visit[c] = CheckOne(deps, visit, c)
  BY CheckWorks
<1>2. \A c \in Checks : CheckLeft[c] = Left(c.visiting) /\ CheckLeft[c] \in 0 .. N
  BY Fewer DEF CheckLeft
<1>3. N \in Nat
  BY Listing
<1> HIDE DEF visit, N
<1>4. 0 \in G
  <2>1. \A c \in Checks : ~(CheckLeft[c] < 0)
    BY <1>2
  <2> QED BY <1>3, <2>1
<1>5. ASSUME NEW k \in 1 .. N + 1, k - 1 \in G PROVE k \in G
  <2> SUFFICES ASSUME NEW c \in Checks, CheckLeft[c] < k, Called(c)
               PROVE  CheckedOff(deps, c.st, visit[c], {c.name})
    BY <1>3
  <2>0. /\ c.name \in Service /\ c.st \in Checked /\ c.visiting \in SUBSET Service
        /\ c.st.visited \in SUBSET Service
    BY DEF Checks, Checked
  <2>1. CASE c.name \in c.st.visited
    <3>1. visit[c] = c.st
      BY <1>1, <2>1 DEF CheckOne
    <3> QED BY <2>0, <2>1, <3>1 DEF CheckedOff
  <2>2. CASE c.name \notin c.st.visited /\ c.name \in c.visiting
    <3>1. visit[c] = [c.st EXCEPT !.ok = FALSE]
      BY <1>1, <2>2 DEF CheckOne
    <3>2. Cyclic(deps)
      BY <2>2, WaitsForItself, CyclicIs
    <3>3. visit[c] \in Checked /\ visit[c].visited = c.st.visited /\ ~visit[c].ok
      BY <2>0, <3>1 DEF Checked
    <3> QED BY <2>0, <3>2, <3>3 DEF CheckedOff
  <2>3. CASE c.name \notin c.st.visited /\ c.name \notin c.visiting
    <3> DEFINE visiting == c.visiting \cup {c.name}
               names == deps[c.name]
               after == CheckEach(visit, names, c.st, visiting)
    <3>1. visiting \in SUBSET Service /\ names \in SUBSET Service
      BY <2>0
    <3>2. ASSUME NEW d \in names, NEW e \in Checked, e.ok, NoCycle(deps, e.visited)
          PROVE  CheckedOff(deps, e, visit[CheckCall(d, e, visiting)], {d})
      <4> DEFINE next == CheckCall(d, e, visiting)
      <4>1. /\ next \in Checks /\ next.visiting = visiting /\ next.st = e /\ next.name = d
        BY <3>1 DEF CheckCall, Checks
      <4>2. \A v \in visiting : WaitsFor(Service, deps, v, d)
        BY <2>0, WaitsOn
      <4>3. CheckLeft[next] < k - 1
        <5>1. Left(visiting) < Left(c.visiting)
          <6>1. c.visiting \subseteq visiting /\ c.name \in visiting \ c.visiting
            BY <2>3
          <6> HIDE DEF visiting
          <6> QED BY <2>0, <6>1, Fewer
        <5> HIDE DEF next, visiting
        <5>2. CheckLeft[next] = Left(visiting) /\ CheckLeft[c] = Left(c.visiting)
          BY <1>2, <4>1
        <5>3. CheckLeft[next] \in Int /\ CheckLeft[c] \in Int
          BY <1>2, <1>3, <4>1
        <5> QED BY <5>1, <5>2, <5>3
      <4> HIDE DEF next, visiting
      <4>4. Right(next)
        BY <1>5, <4>1, <4>3
      <4> QED BY <3>2, <4>1, <4>2, <4>4 DEF next
    <3>3. CheckedOff(deps, c.st, after, names)
      <4> HIDE DEF visiting, names
      <4> QED BY <1>1, <2>0, <3>1, <3>2, CheckEachWorks
    <3>4. visit[c] = IF after.ok THEN [after EXCEPT !.visited = @ \cup {c.name}] ELSE after
      BY <1>1, <2>3 DEF CheckOne
    <3> HIDE DEF after
    <3>5. CASE ~after.ok
      BY <3>3, <3>4, <3>5 DEF CheckedOff
    <3>6. CASE after.ok
      <4>1. after \in Checked /\ names \subseteq after.visited /\ NoCycle(deps, after.visited)
        BY <3>3, <3>6 DEF CheckedOff
      <4>2. visit[c] \in Checked /\ visit[c].ok /\ visit[c].visited = after.visited \cup {c.name}
        BY <2>0, <3>4, <3>6, <4>1 DEF Checked
      <4>3. NoCycle(deps, after.visited \cup {c.name})
        <5> SUFFICES ASSUME NEW S \in SUBSET Service, Waits(deps, S) PROVE S \cap (after.visited \cup {c.name}) = {}
          BY DEF NoCycle
        <5>1. S \cap after.visited = {}
          BY <4>1 DEF NoCycle
        <5>2. c.name \notin S
          BY <4>1, <5>1 DEF Waits
        <5> QED BY <5>1, <5>2
      <4> QED BY <3>3, <4>2, <4>3 DEF CheckedOff
    <3> QED BY <3>5, <3>6
  <2> QED BY <2>1, <2>2, <2>3
<1>6. N + 1 \in G
  <2> HIDE DEF G
  <2>1. 0 .. N + 1 \subseteq G
    BY <1>3, <1>4, <1>5, UpTo
  <2> QED BY <1>3, <2>1
<1>7. CheckLeft[at] < N + 1
  BY <1>2, <1>3
<1>8. Right(at)
  BY <1>6, <1>7
<1> QED BY <1>8 DEF visit

\* The validation refuses exactly the graphs with a cycle.
LEMMA ValidGraphIs ==
    ASSUME NEW deps \in [Service -> SUBSET Service]
    PROVE  ValidGraph(deps) <=> ~Cyclic(deps)
<1> DEFINE visit == VisitDependency(deps)
           none == [visited |-> {}, ok |-> TRUE]
           all == CheckEach(visit, Service, none, {})
<1>1. visit \in [Checks -> Checked]
  BY CheckWorks
<1>2. none \in Checked /\ none.ok /\ NoCycle(deps, none.visited)
  BY DEF Checked, NoCycle
<1>3. ASSUME NEW d \in Service, NEW e \in Checked, e.ok, NoCycle(deps, e.visited)
      PROVE  CheckedOff(deps, e, visit[CheckCall(d, e, {})], {d})
  <2> DEFINE at == CheckCall(d, e, {})
  <2>1. at \in Checks /\ at.st = e /\ at.name = d /\ at.visiting = {}
    BY DEF CheckCall, Checks
  <2> HIDE DEF at
  <2>2. CheckedOff(deps, at.st, visit[at], {at.name})
    BY <1>3, <2>1, CheckCorrect
  <2> QED BY <2>1, <2>2 DEF at
<1>4. CheckedOff(deps, none, all, Service)
  <2> HIDE DEF visit, none
  <2> QED BY <1>1, <1>2, <1>3, CheckEachWorks
<1>5. ValidGraph(deps) = all.ok
  BY DEF ValidGraph
<1> HIDE DEF all
<1>6. ASSUME all.ok, Cyclic(deps) PROVE FALSE
  <2>1. PICK S \in SUBSET Service : S # {} /\ Waits(deps, S)
    BY <1>6 DEF Cyclic, Waits
  <2>2. Service \subseteq all.visited /\ NoCycle(deps, all.visited)
    BY <1>4, <1>6 DEF CheckedOff
  <2>3. S \in SUBSET Service /\ S # {}
    BY <2>1
  <2>4. S \cap all.visited = {}
    BY <2>1, <2>2, <2>3 DEF NoCycle
  <2>5. S \subseteq all.visited
    BY <2>2, <2>3
  <2> QED BY <2>3, <2>4, <2>5
<1>7. ~all.ok => Cyclic(deps)
  BY <1>4 DEF CheckedOff
<1>8. all.ok \in BOOLEAN
  BY <1>4 DEF CheckedOff, Checked
<1> QED BY <1>5, <1>6, <1>7, <1>8

-----------------------------------------------------------------------------
(* The order of a shutdown.                                                *)

\* The call for a name and what its visit starts from.
WalkCall(s, e) == [name |-> s, st |-> e]

\* The functions that take a call to a state and forget no visited name.
Visiting == {v \in [Walks -> Ordered] : \A at \in Walks : at.st.visited \subseteq v[at].visited}

\* A step of the loop over the dependents visits one.
LEMMA WalkStep ==
    ASSUME NEW visit, NEW names, NEW e, NEW x
    PROVE  Step([op |-> "walk", visit |-> visit, names |-> names], e, x)
              = IF x \in names THEN visit[WalkCall(x, e)] ELSE e
BY DEF Step, WalkCall

\* Visits that agree on the dependents take them to the same state.
LEMMA WalkEachSame ==
    ASSUME NEW visit \in Visiting, NEW names \in SUBSET Service, NEW st \in Ordered, NEW other,
           \A s \in names, e \in Ordered : st.visited \subseteq e.visited =>
               visit[WalkCall(s, e)] = other[WalkCall(s, e)]
    PROVE  /\ WalkEach(visit, names, st) \in Ordered
           /\ st.visited \subseteq WalkEach(visit, names, st).visited
           /\ WalkEach(visit, names, st) = WalkEach(other, names, st)
<1> DEFINE what == [op |-> "walk", visit |-> visit, names |-> names]
           that == [op |-> "walk", visit |-> other, names |-> names]
           n == Len(configured)
           P == {e \in Ordered : st.visited \subseteq e.visited}
<1>1. ASSUME NEW e \in P, NEW x
      PROVE  Step(what, e, x) \in P /\ Step(that, e, x) = Step(what, e, x)
  <2>1. ASSUME NEW s \in names
        PROVE  /\ visit[WalkCall(s, e)] \in Ordered
               /\ e.visited \subseteq visit[WalkCall(s, e)].visited
    <3>1. WalkCall(s, e) \in Walks /\ WalkCall(s, e).st = e
      BY DEF WalkCall, Walks
    <3> QED BY <3>1 DEF Visiting
  <2>2. Step(what, e, x) = IF x \in names THEN visit[WalkCall(x, e)] ELSE e
    BY WalkStep
  <2>3. Step(that, e, x) = IF x \in names THEN other[WalkCall(x, e)] ELSE e
    BY WalkStep
  <2> QED BY <2>1, <2>2, <2>3
<1>2. n \in Nat /\ DOMAIN configured = 1 .. n
  BY Listing
<1>3. st \in P
  OBVIOUS
<1> HIDE DEF what, that, n, P
<1>4. \A e \in P, k \in 1 .. n : /\ Step(what, e, configured[k]) \in P
                                 /\ Step(that, e, configured[k]) = Step(what, e, configured[k])
  BY <1>1
<1>5. Folded(what, st, configured) \in P
  BY <1>2, <1>3, <1>4, Stays
<1>6. Folded(that, st, configured) = Folded(what, st, configured)
  BY <1>2, <1>3, <1>4, SameFold
<1> QED BY <1>5, <1>6, FoldedWalk DEF what, that, P

\* VisitDependents is defined at every call, by its own equation: each visit marks one
\* more name before it makes calls.
LEMMA WalkWorks ==
    ASSUME NEW deps
    PROVE  /\ VisitDependents(deps) \in Visiting
           /\ \A at \in Walks :
                 VisitDependents(deps)[at] = StopOne(deps, VisitDependents(deps), at)
<1> DEFINE walk == [op |-> "walk", deps |-> deps]
           first == [at \in Walks |-> at.st]
           N == Cardinality(Service)
<1>1. \A v, at : Body(walk, v, at) = StopOne(deps, v, at)
  BY DEF Body
<1> HIDE DEF walk
<1>2. ASSUME NEW v \in Visiting, NEW w, NEW at \in Walks, Agree(v, w, Walks, WalkLeft, WalkLeft[at])
      PROVE  /\ StopOne(deps, v, at) \in Ordered
             /\ at.st.visited \subseteq StopOne(deps, v, at).visited
             /\ StopOne(deps, v, at) = StopOne(deps, w, at)
  <2>0. at.name \in Service /\ at.st \in Ordered /\ at.st.visited \in SUBSET Service
    BY DEF Walks, Ordered
  <2>1. CASE at.name \in at.st.visited
    BY <2>0, <2>1 DEF StopOne
  <2>2. CASE at.name \notin at.st.visited
    <3> DEFINE begun == [at.st EXCEPT !.visited = @ \cup {at.name}]
               names == Dependents(deps, at.name)
               after == WalkEach(v, names, begun)
    <3>1. begun \in Ordered /\ begun.visited = at.st.visited \cup {at.name}
      BY <2>0 DEF Ordered
    <3>2. names \in SUBSET Service
      BY DEF Dependents
    <3> HIDE DEF begun, names
    <3>3. ASSUME NEW s \in names, NEW e \in Ordered, begun.visited \subseteq e.visited
          PROVE  v[WalkCall(s, e)] = w[WalkCall(s, e)]
      <4>1. WalkCall(s, e) \in Walks /\ WalkCall(s, e).st = e
        BY <3>2 DEF WalkCall, Walks
      <4>2. at.st.visited \subseteq e.visited /\ at.name \in e.visited \ at.st.visited
        BY <2>2, <3>1, <3>3
      <4>3. Left(e.visited) < Left(at.st.visited)
        BY <2>0, <4>2, Fewer
      <4>4. WalkLeft[WalkCall(s, e)] < WalkLeft[at]
        BY <4>1, <4>3 DEF WalkLeft
      <4> QED BY <1>2, <4>1, <4>4 DEF Agree
    <3>4. after \in Ordered /\ begun.visited \subseteq after.visited /\ after = WalkEach(w, names, begun)
      BY <3>1, <3>2, <3>3, WalkEachSame
    <3>5. /\ StopOne(deps, v, at) = [after EXCEPT !.ordered = Append(@, at.name)]
          /\ StopOne(deps, w, at) = [after EXCEPT !.ordered = Append(@, at.name)]
      BY <2>2, <3>4 DEF StopOne, begun, names
    <3> HIDE DEF after
    <3>6. /\ [after EXCEPT !.ordered = Append(@, at.name)] \in Ordered
          /\ [after EXCEPT !.ordered = Append(@, at.name)].visited = after.visited
      <4>1. after \in [visited : SUBSET Service, ordered : Seq(Service)]
        BY <3>4 DEF Ordered
      <4>2. Append(after.ordered, at.name) \in Seq(Service)
        BY <2>0, <4>1
      <4> QED BY <4>1, <4>2 DEF Ordered
    <3> QED BY <3>1, <3>4, <3>5, <3>6
  <2> QED BY <2>1, <2>2
<1>3. first \in Visiting
  BY DEF Walks, Visiting
<1>4. WalkLeft \in [Walks -> 0 .. N] /\ N \in Nat
  BY Fewer, Listing DEF WalkLeft
<1>5. \A v \in Visiting : v = [at \in Walks |-> v[at]]
  BY DEF Visiting
<1>6. \A v \in Visiting : [at \in Walks |-> Body(walk, v, at)] \in Visiting
  <2>1. ASSUME NEW v \in Visiting, NEW at \in Walks
        PROVE  Body(walk, v, at) \in Ordered /\ at.st.visited \subseteq Body(walk, v, at).visited
    <3>1. Agree(v, v, Walks, WalkLeft, WalkLeft[at])
      BY DEF Agree
    <3> QED BY <1>1, <1>2, <3>1
  <2> QED BY <2>1 DEF Visiting
<1>7. \A v \in Visiting : \A w : \A at \in Walks :
          Agree(v, w, Walks, WalkLeft, WalkLeft[at]) => Body(walk, v, at) = Body(walk, w, at)
  BY <1>1, <1>2
<1>8. Visit(walk, Walks) \in Visiting /\ IsVisit(Visit(walk, Walks), walk, Walks)
  <2> HIDE DEF first, N
  <2> QED BY <1>3, <1>4, <1>5, <1>6, <1>7, VisitExists
<1>9. VisitDependents(deps) = Visit(walk, Walks)
  BY Visits DEF walk
<1> DEFINE visit == VisitDependents(deps)
<1>10. visit = [at \in Walks |-> Body(walk, visit, at)]
  BY <1>8, <1>9 DEF IsVisit
<1>11. \A at \in Walks : visit[at] = Body(walk, visit, at)
  <2> HIDE DEF visit
  <2> QED BY <1>10
<1> QED BY <1>1, <1>8, <1>9, <1>11

\* A service whose dependency waits for g waits for g.
LEMMA WaitsBefore ==
    ASSUME NEW deps, NEW name, NEW s \in Service, name \in deps[s],
           NEW g, g = name \/ WaitsFor(Service, deps, name, g)
    PROVE  WaitsFor(Service, deps, s, g)
<1>1. CASE g = name
  <2>1. {s} \in SUBSET Service /\ \A x \in {s} \ {s} : deps[x] \cap {s} # {}
    OBVIOUS
  <2> QED BY <1>1, <2>1 DEF WaitsFor
<1>2. CASE WaitsFor(Service, deps, name, g)
  <2>1. PICK S \in SUBSET Service, last \in Service :
            {name, last} \subseteq S /\ g \in deps[last] /\ \A x \in S \ {last} : deps[x] \cap S # {}
    BY <1>2 DEF WaitsFor
  <2> DEFINE T == S \cup {s}
  <2>2. T \in SUBSET Service /\ {s, last} \subseteq T
    BY <2>1
  <2>3. ASSUME NEW x \in T \ {last} PROVE deps[x] \cap T # {}
    BY <2>1
  <2> HIDE DEF T
  <2> QED BY <2>1, <2>2, <2>3 DEF WaitsFor
<1> QED BY <1>1, <1>2

\* The services that are in the order, and those visited that are not yet.
Stops(st) == {st.ordered[i] : i \in 1 .. Len(st.ordered)}
Open(st) == st.visited \ Stops(st)

\* What a shutdown needs of the order so far.
DependentsFirst(deps, st) ==
    /\ Stops(st) \subseteq st.visited
    /\ \A i, j \in 1 .. Len(st.ordered) : st.ordered[i] = st.ordered[j] => i = j
    /\ \A i \in 1 .. Len(st.ordered) : \A s \in Dependents(deps, st.ordered[i]) :
          \E j \in 1 .. i - 1 : st.ordered[j] = s

\* A service goes into the order behind its dependents.
LEMMA Appending ==
    ASSUME NEW deps, NEW st \in Ordered, DependentsFirst(deps, st),
           NEW name \in Service, name \in Open(st), Dependents(deps, name) \subseteq Stops(st)
    PROVE  LET r == [st EXCEPT !.ordered = Append(@, name)]
           IN  /\ r \in Ordered /\ r.visited = st.visited
               /\ DependentsFirst(deps, r)
               /\ Stops(r) = Stops(st) \cup {name}
<1> DEFINE r == [st EXCEPT !.ordered = Append(@, name)]
           s == st.ordered
           t == Append(s, name)
           n == Len(s)
<1>1. st \in [visited : SUBSET Service, ordered : Seq(Service)]
  BY DEF Ordered
<1>2. s \in Seq(Service) /\ n \in Nat /\ DOMAIN s = 1 .. n
  BY <1>1
<1>3. r.ordered = t /\ r.visited = st.visited /\ r \in Ordered
  BY <1>1, <1>2 DEF Ordered
<1> HIDE DEF r, s
<1>4. /\ Len(t) = n + 1 /\ t[n + 1] = name
      /\ \A i \in 1 .. n : t[i] = s[i] /\ i \in 1 .. n + 1
      /\ \A i \in 1 .. n + 1 : i \in 1 .. n \/ i = n + 1
  BY <1>2
<1> HIDE DEF t
<1>5. Stops(st) = {s[i] : i \in 1 .. n}
  BY DEF Stops, s
<1>6. Stops(r) = {t[i] : i \in 1 .. n + 1}
  BY <1>3, <1>4 DEF Stops
<1>7. Stops(r) = Stops(st) \cup {name}
  <2> HIDE DEF n
  <2> QED BY <1>2, <1>4, <1>5, <1>6
<1>8. name \notin Stops(st) /\ name \in st.visited
  BY DEF Open
<1>9. \A i, j \in 1 .. n : s[i] = s[j] => i = j
  BY DEF DependentsFirst, s
<1>10. \A i \in 1 .. n : \A d \in Dependents(deps, s[i]) : \E j \in 1 .. i - 1 : s[j] = d
  BY DEF DependentsFirst, s
<1>11. Stops(r) \subseteq r.visited
  BY <1>3, <1>7, <1>8 DEF DependentsFirst
<1> HIDE DEF n
<1>12. ASSUME NEW i \in 1 .. n + 1, NEW j \in 1 .. n + 1, t[i] = t[j] PROVE i = j
  BY <1>4, <1>5, <1>8, <1>9, <1>12
<1>13. ASSUME NEW i \in 1 .. n + 1, NEW d \in Dependents(deps, t[i])
       PROVE  \E j \in 1 .. i - 1 : t[j] = d
  <2>1. CASE i \in 1 .. n
    <3>1. PICK j \in 1 .. i - 1 : s[j] = d
      BY <1>4, <1>10, <2>1
    <3>2. j \in 1 .. n
      BY <1>2, <2>1
    <3> QED BY <1>4, <3>1, <3>2
  <2>2. CASE i = n + 1
    <3>1. PICK j \in 1 .. n : s[j] = d
      BY <1>4, <1>5, <2>2
    <3>2. j \in 1 .. i - 1
      BY <1>2, <2>2
    <3> QED BY <1>4, <3>1, <3>2
  <2> QED BY <1>4, <2>1, <2>2
<1>14. DependentsFirst(deps, r)
  BY <1>3, <1>4, <1>11, <1>12, <1>13 DEF DependentsFirst
<1> QED BY <1>3, <1>7, <1>14 DEF r, s, t

\* What a visit, or the visits of names, make of the state they start from.
StoppedAfter(deps, st, r, names) ==
    /\ r \in Ordered
    /\ DependentsFirst(deps, r)
    /\ st.visited \subseteq r.visited
    /\ Stops(st) \subseteq Stops(r)
    /\ Open(r) = Open(st)
    /\ names \subseteq Stops(r)

\* The loop stops all names and leaves the open ones open, if each of its visits does.
LEMMA WalkEachWorks ==
    ASSUME NEW deps, NEW visit, NEW names \in SUBSET Service,
           NEW st \in Ordered, DependentsFirst(deps, st),
           \A s \in names, e \in Ordered : StoppedAfter(deps, st, e, {}) =>
               StoppedAfter(deps, e, visit[WalkCall(s, e)], {s})
    PROVE  StoppedAfter(deps, st, WalkEach(visit, names, st), names)
<1> DEFINE what == [op |-> "walk", visit |-> visit, names |-> names]
           n == Len(configured)
           Upto(k) == {s \in names : \E j \in 1 .. k : configured[j] = s}
           P == [k \in 0 .. n |-> {e \in Ordered : StoppedAfter(deps, st, e, Upto(k))}]
<1>1. n \in Nat /\ DOMAIN configured = 1 .. n
  BY Listing
<1>2. st \in P[0]
  <2>1. Upto(0) = {}
    OBVIOUS
  <2>2. StoppedAfter(deps, st, st, {})
    BY DEF StoppedAfter
  <2> QED BY <1>1, <2>1, <2>2
<1>3. ASSUME NEW k \in 1 .. n, NEW e \in P[k - 1] PROVE Step(what, e, configured[k]) \in P[k]
  <2> DEFINE s == configured[k]
             r == Step(what, e, s)
  <2>1. e \in Ordered /\ StoppedAfter(deps, st, e, Upto(k - 1)) /\ k \in Nat
    BY <1>1, <1>3
  <2>2. r = IF s \in names THEN visit[WalkCall(s, e)] ELSE e
    BY WalkStep
  <2>3. Upto(k) \subseteq Upto(k - 1) \cup {s} /\ (s \notin names => Upto(k) = Upto(k - 1))
    <3>1. \A j \in 1 .. k : j \in 1 .. k - 1 \/ j = k
      BY <2>1
    <3>2. \A j \in 1 .. k - 1 : j \in 1 .. k
      BY <2>1
    <3> QED BY <3>1, <3>2
  <2> HIDE DEF s, r, Upto
  <2>4. StoppedAfter(deps, st, r, Upto(k))
    <3>1. CASE s \in names
      <4>1. StoppedAfter(deps, st, e, {})
        BY <2>1 DEF StoppedAfter
      <4>2. StoppedAfter(deps, e, r, {s})
        BY <2>1, <2>2, <3>1, <4>1
      <4> QED BY <2>1, <2>3, <3>1, <4>2 DEF StoppedAfter
    <3>2. CASE s \notin names
      BY <2>1, <2>2, <2>3, <3>2 DEF StoppedAfter
    <3> QED BY <3>1, <3>2
  <2>5. r \in Ordered
    BY <2>4 DEF StoppedAfter
  <2> QED BY <1>3, <2>4, <2>5 DEF s, r
<1>4. Folded(what, st, configured) \in P[n]
  <2> HIDE DEF what, P, n
  <2> QED BY <1>1, <1>2, <1>3, StaysUpTo
<1>5. Upto(n) = names
  BY Listing
<1>6. WalkEach(visit, names, st) \in P[n]
  BY <1>4, FoldedWalk
<1>7. P[n] = {e \in Ordered : StoppedAfter(deps, st, e, Upto(n))}
  BY <1>1
<1> HIDE DEF P, Upto
<1> QED BY <1>5, <1>6, <1>7

\* A visit puts a service into the order, behind its dependents, unless some service
\* waits for itself.
LEMMA WalkCorrect ==
    ASSUME NEW deps \in [Service -> SUBSET Service], ~Cyclic(deps), NEW at \in Walks,
           DependentsFirst(deps, at.st), \A g \in Open(at.st) : WaitsFor(Service, deps, at.name, g)
    PROVE  StoppedAfter(deps, at.st, VisitDependents(deps)[at], {at.name})
<1> DEFINE visit == VisitDependents(deps)
           Called(c) == /\ DependentsFirst(deps, c.st)
                        /\ \A g \in Open(c.st) : WaitsFor(Service, deps, c.name, g)
           Right(c) == Called(c) => StoppedAfter(deps, c.st, visit[c], {c.name})
           N == Cardinality(Service)
           G == {k \in 0 .. N + 1 : \A c \in Walks : WalkLeft[c] < k => Right(c)}
<1>1. visit \in Visiting /\ \A c \in Walks : visit[c] = StopOne(deps, visit, c)
  BY WalkWorks
<1>2. \A c \in Walks : WalkLeft[c] = Left(c.st.visited) /\ WalkLeft[c] \in 0 .. N
  BY Fewer DEF WalkLeft
<1>3. N \in Nat
  BY Listing
<1> HIDE DEF visit, N
<1>4. 0 \in G
  <2>1. \A c \in Walks : ~(WalkLeft[c] < 0)
    BY <1>2
  <2> QED BY <1>3, <2>1
<1>5. ASSUME NEW k \in 1 .. N + 1, k - 1 \in G PROVE k \in G
  <2> SUFFICES ASSUME NEW c \in Walks, WalkLeft[c] < k, Called(c)
               PROVE  StoppedAfter(deps, c.st, visit[c], {c.name})
    BY <1>3
  <2>0. c.name \in Service /\ c.st \in Ordered /\ c.st.visited \in SUBSET Service
    BY DEF Walks, Ordered
  <2>1. CASE c.name \in c.st.visited
    <3>1. visit[c] = c.st
      BY <1>1, <2>1 DEF StopOne
    <3>2. c.name \notin Open(c.st)
      BY WaitsForItself, CyclicIs
    <3>3. c.name \in Stops(c.st)
      BY <2>1, <3>2 DEF Open
    <3> QED BY <2>0, <3>1, <3>3 DEF StoppedAfter
  <2>2. CASE c.name \notin c.st.visited
    <3> DEFINE begun == [c.st EXCEPT !.visited = @ \cup {c.name}]
               names == Dependents(deps, c.name)
               after == WalkEach(visit, names, begun)
    <3>1. /\ begun \in Ordered /\ begun.visited = c.st.visited \cup {c.name}
          /\ begun.ordered = c.st.ordered
      BY <2>0 DEF Ordered
    <3>2. names \in SUBSET Service /\ \A s \in names : c.name \in deps[s]
      BY DEF Dependents
    <3>3. visit[c] = [after EXCEPT !.ordered = Append(@, c.name)]
      BY <1>1, <2>2 DEF StopOne
    <3> HIDE DEF begun, names
    <3>4. Stops(begun) = Stops(c.st)
      BY <3>1 DEF Stops
    <3>5. DependentsFirst(deps, begun)
      BY <3>1, <3>4 DEF DependentsFirst
    <3>6. c.name \notin Stops(c.st) /\ Open(begun) = Open(c.st) \cup {c.name}
      BY <2>2, <3>1, <3>4 DEF DependentsFirst, Open
    <3>7. ASSUME NEW s \in names, NEW e \in Ordered, StoppedAfter(deps, begun, e, {})
          PROVE  StoppedAfter(deps, e, visit[WalkCall(s, e)], {s})
      <4> DEFINE next == WalkCall(s, e)
      <4>1. next \in Walks /\ next.st = e /\ next.name = s
        BY <3>2 DEF WalkCall, Walks
      <4>2. \A g \in Open(e) : WaitsFor(Service, deps, s, g)
        <5>1. Open(e) = Open(c.st) \cup {c.name}
          BY <3>6, <3>7 DEF StoppedAfter
        <5> QED BY <3>2, <5>1, WaitsBefore
      <4>3. DependentsFirst(deps, e) /\ begun.visited \subseteq e.visited
        BY <3>7 DEF StoppedAfter
      <4> HIDE DEF next
      <4>4. WalkLeft[next] < k - 1
        <5>1. Left(e.visited) < Left(c.st.visited)
          <6>1. c.st.visited \subseteq e.visited /\ c.name \in e.visited \ c.st.visited
            BY <2>2, <3>1, <4>3
          <6> QED BY <2>0, <6>1, Fewer
        <5>2. WalkLeft[next] = Left(e.visited) /\ WalkLeft[c] = Left(c.st.visited)
          BY <1>2, <4>1
        <5>3. WalkLeft[next] \in Int /\ WalkLeft[c] \in Int
          BY <1>2, <1>3, <4>1
        <5> QED BY <5>1, <5>2, <5>3
      <4>5. Right(next)
        BY <1>5, <4>1, <4>4
      <4> QED BY <4>1, <4>2, <4>3, <4>5 DEF next
    <3>8. StoppedAfter(deps, begun, after, names)
      BY <3>1, <3>2, <3>5, <3>7, WalkEachWorks
    <3> HIDE DEF after
    <3>9. /\ visit[c] \in Ordered /\ visit[c].visited = after.visited
          /\ DependentsFirst(deps, visit[c])
          /\ Stops(visit[c]) = Stops(after) \cup {c.name}
      <4>1. /\ after \in Ordered /\ DependentsFirst(deps, after)
            /\ c.name \in Open(after) /\ Dependents(deps, c.name) \subseteq Stops(after)
        BY <3>6, <3>8 DEF StoppedAfter, names
      <4> QED BY <2>0, <3>3, <4>1, Appending
    <3>10. Open(visit[c]) = Open(c.st)
      <4>1. Open(after) = Open(c.st) \cup {c.name} /\ c.name \notin Open(c.st)
        BY <2>2, <3>6, <3>8 DEF StoppedAfter, Open
      <4> QED BY <3>9, <4>1 DEF Open
    <3> QED BY <3>1, <3>4, <3>8, <3>9, <3>10 DEF StoppedAfter
  <2> QED BY <2>1, <2>2
<1>6. N + 1 \in G
  <2> HIDE DEF G
  <2>1. 0 .. N + 1 \subseteq G
    BY <1>3, <1>4, <1>5, UpTo
  <2> QED BY <1>3, <2>1
<1>7. WalkLeft[at] < N + 1
  BY <1>2, <1>3
<1>8. Right(at)
  BY <1>6, <1>7
<1> QED BY <1>8 DEF visit

\* The order of a shutdown has every service once, behind those that depend on it.
LEMMA StopOrderIs ==
    ASSUME NEW deps \in [Service -> SUBSET Service], ~Cyclic(deps)
    PROVE  LET order == service_stop_order(deps)
           IN  /\ order \in SetToSeqs(Service)
               /\ \A i, j \in DOMAIN order : order[j] \in deps[order[i]] => i < j
<1> DEFINE visit == VisitDependents(deps)
           none == [visited |-> {}, ordered |-> <<>>]
           all == WalkEach(visit, Service, none)
           order == all.ordered
           n == Len(order)
<1>1. none \in Ordered /\ none.visited = {} /\ none.ordered = <<>>
  BY DEF Ordered
<1> HIDE DEF none
<1>2. DependentsFirst(deps, none) /\ Open(none) = {}
  <2>1. Len(none.ordered) = 0
    BY <1>1
  <2>2. Stops(none) = {}
    BY <2>1 DEF Stops
  <2> QED BY <1>1, <2>1, <2>2 DEF DependentsFirst, Open
<1>3. ASSUME NEW s \in Service, NEW e \in Ordered, StoppedAfter(deps, none, e, {})
      PROVE  StoppedAfter(deps, e, visit[WalkCall(s, e)], {s})
  <2> DEFINE at == WalkCall(s, e)
  <2>1. at \in Walks /\ at.st = e /\ at.name = s
    BY DEF WalkCall, Walks
  <2>2. DependentsFirst(deps, e) /\ Open(e) = {}
    BY <1>2, <1>3 DEF StoppedAfter
  <2> HIDE DEF at
  <2>3. StoppedAfter(deps, at.st, visit[at], {at.name})
    BY <2>1, <2>2, WalkCorrect
  <2> QED BY <2>1, <2>3 DEF at
<1>4. StoppedAfter(deps, none, all, Service)
  <2> HIDE DEF visit
  <2> QED BY <1>1, <1>2, <1>3, WalkEachWorks
<1>5. service_stop_order(deps) = order
  BY DEF service_stop_order, none
<1> HIDE DEF all
<1>6. order \in Seq(Service) /\ n \in Nat /\ DOMAIN order = 1 .. n
  BY <1>4 DEF StoppedAfter, Ordered
<1>7. {order[i] : i \in 1 .. n} = Service
  BY <1>4, <1>6 DEF StoppedAfter, Stops
<1>8. \A i, j \in 1 .. n : order[i] = order[j] => i = j
  BY <1>4 DEF StoppedAfter, DependentsFirst
<1>9. ASSUME NEW i \in 1 .. n, NEW j \in 1 .. n, order[j] \in deps[order[i]] PROVE i < j
  <2>1. order[i] \in Dependents(deps, order[j])
    BY <1>6, <1>9 DEF Dependents
  <2>2. PICK h \in 1 .. j - 1 : order[h] = order[i]
    BY <1>4, <2>1 DEF StoppedAfter, DependentsFirst
  <2>3. h \in 1 .. n /\ h < j
    BY <1>6, <2>2
  <2>4. h = i
    BY <1>8, <2>2, <2>3
  <2> QED BY <2>3, <2>4
<1> HIDE DEF order, n
<1>10. Cardinality(Service) = n
  <2>1. order \in Bijection(1 .. n, Service)
    <3>1. order \in [1 .. n -> Service]
      BY <1>6
    <3> QED BY <1>7, <1>8, <3>1 DEF Bijection, Injection, Surjection, IsInjective
  <2>2. ExistsBijection(1 .. n, Service)
    BY <2>1 DEF ExistsBijection
  <2>3. IsFiniteSet(1 .. n) /\ Cardinality(1 .. n) = n
    <3>1. 1 \in Int /\ n \in Int
      BY <1>6
    <3>2. IsFiniteSet(1 .. n) /\ Cardinality(1 .. n) = IF 1 > n THEN 0 ELSE n - 1 + 1
      BY <3>1, FS_Interval
    <3> QED BY <1>6, <3>2
  <2> QED BY <2>2, <2>3, FS_Bijection
<1>11. order \in SetToSeqs(Service)
  BY <1>6, <1>8, <1>10 DEF SetToSeqs
<1> QED BY <1>5, <1>6, <1>9, <1>11

\* The validation refuses exactly the cyclic dependencies and service_stop_order takes every
\* service of the others once, behind all that depend on it, for any number of services.
THEOREM StopsDependentsFirstThm == ConfigSpec => []StopsDependentsFirst
<1>1. Evaluated => StopsDependentsFirst
  <2> SUFFICES ASSUME Evaluated, kind = "order" PROVE StopsDependentsFirst
    BY DEF StopsDependentsFirst
  <2>1. /\ input \in [Service -> SUBSET Service]
        /\ result.valid = ValidGraph(input)
        /\ ValidGraph(input) => result.order = service_stop_order(input)
    BY OrderInputsAssumption DEF Evaluated
  <2>2. ValidGraph(input) <=> ~Cyclic(input)
    BY <2>1, ValidGraphIs
  <2>3. CASE ValidGraph(input)
    <3>1. /\ service_stop_order(input) \in SetToSeqs(Service)
          /\ \A i, j \in DOMAIN service_stop_order(input) :
                service_stop_order(input)[j] \in input[service_stop_order(input)[i]] => i < j
      BY <2>1, <2>2, <2>3, StopOrderIs
    <3> QED BY <2>1, <2>2, <2>3, <3>1 DEF StopsDependentsFirst
  <2>4. CASE ~ValidGraph(input)
    BY <2>1, <2>2, <2>4 DEF StopsDependentsFirst
  <2> QED BY <2>3, <2>4
<1> QED BY <1>1, EvaluatedThm, PTL

-----------------------------------------------------------------------------
(* The chains of templates.                                                *)

\* What the theorems need of the templates: what UseInputsAssumption says of them.
IsUses(uses) ==
    /\ IsFiniteSet(DOMAIN uses)
    /\ \A t \in DOMAIN uses : uses[t] \in Seq(ToSet(uses[t]))

\* The call for a name and the templates it is applied for.
UseCall(n, stack) == [name |-> n, stack |-> stack]

UseLeft(uses) == [at \in Applications(uses) |-> Cardinality(DOMAIN uses \ at.stack)]

\* What one more name adds to what is applied.
Add(e, r) == [ok |-> e.ok /\ r.ok, order |-> e.order \o r.order]

\* A step of the loop over the names adds what applying one gives.
LEMMA UseStep ==
    ASSUME NEW visit, NEW stack, NEW e, NEW x
    PROVE  Step([op |-> "use", visit |-> visit, stack |-> stack], e, x) = Add(e, visit[UseCall(x, stack)])
BY DEF Step, UseCall, Add

\* Two results add up to a result.
LEMMA AddTyped ==
    ASSUME NEW uses, NEW e \in Applied(uses), NEW r \in Applied(uses)
    PROVE  Add(e, r) \in Applied(uses)
<1>1. e.order \o r.order \in Seq(DOMAIN uses)
  BY DEF Applied
<1> QED BY <1>1 DEF Add, Applied

\* What a template uses are names, in a sequence.
LEMMA UsesOf ==
    ASSUME NEW uses, IsUses(uses), NEW t \in DOMAIN uses
    PROVE  /\ Len(uses[t]) \in Nat /\ DOMAIN uses[t] = 1 .. Len(uses[t])
           /\ \A k \in 1 .. Len(uses[t]) : uses[t][k] \in ToSet(uses[t])
           /\ \A n \in ToSet(uses[t]) : \E k \in 1 .. Len(uses[t]) : uses[t][k] = n
           /\ ToSet(uses[t]) \subseteq Mentioned(uses)
           /\ uses[t] # <<>> => Len(uses[t]) > 0 /\ Last(uses[t]) = uses[t][Len(uses[t])]
<1>1. uses[t] \in Seq(ToSet(uses[t]))
  BY DEF IsUses
<1>2. Len(uses[t]) \in Nat /\ DOMAIN uses[t] = 1 .. Len(uses[t])
  BY <1>1
<1>3. ToSet(uses[t]) = {uses[t][k] : k \in 1 .. Len(uses[t])}
  BY <1>2 DEF ToSet
<1>4. ToSet(uses[t]) \subseteq Mentioned(uses)
  BY DEF Mentioned
<1>5. uses[t] # <<>> => Len(uses[t]) > 0 /\ Last(uses[t]) = uses[t][Len(uses[t])]
  <2> DEFINE s == uses[t]
             A == ToSet(uses[t])
  <2>1. s \in Seq(A) /\ Last(s) = s[Len(s)]
    BY <1>1 DEF Last
  <2> HIDE DEF s, A
  <2>2. s # <<>> => Len(s) > 0
    BY <2>1
  <2> QED BY <2>1, <2>2 DEF s
<1> QED BY <1>2, <1>3, <1>4, <1>5

\* Applications that agree on the names give the same.
LEMMA ApplyEachSame ==
    ASSUME NEW uses, NEW visit, NEW other, NEW names, NEW stack,
           NEW n \in Nat, DOMAIN names = 1 .. n,
           \A k \in 1 .. n : /\ visit[UseCall(names[k], stack)] \in Applied(uses)
                             /\ visit[UseCall(names[k], stack)] = other[UseCall(names[k], stack)]
    PROVE  /\ ApplyEach(visit, names, stack) \in Applied(uses)
           /\ ApplyEach(visit, names, stack) = ApplyEach(other, names, stack)
<1> DEFINE what == [op |-> "use", visit |-> visit, stack |-> stack]
           that == [op |-> "use", visit |-> other, stack |-> stack]
           none == [ok |-> TRUE, order |-> <<>>]
           P == Applied(uses)
<1>1. none \in P
  BY DEF Applied
<1>2. ASSUME NEW e \in P, NEW k \in 1 .. n
      PROVE  Step(what, e, names[k]) \in P /\ Step(that, e, names[k]) = Step(what, e, names[k])
  BY UseStep, AddTyped
<1> HIDE DEF what, that, none, P
<1>3. \A e \in P, k \in 1 .. n : /\ Step(what, e, names[k]) \in P
                                 /\ Step(that, e, names[k]) = Step(what, e, names[k])
  BY <1>2
<1>4. Folded(what, none, names) \in P
  BY <1>1, <1>3, Stays
<1>5. Folded(that, none, names) = Folded(what, none, names)
  BY <1>1, <1>3, SameFold
<1> QED BY <1>4, <1>5, FoldedUse DEF what, that, none, P

\* apply_template is defined at every call, by its own equation: each call makes only
\* calls with a longer stack.
LEMMA UseWorks ==
    ASSUME NEW uses, IsUses(uses)
    PROVE  /\ apply_template(uses) \in [Applications(uses) -> Applied(uses)]
           /\ \A at \in Applications(uses) :
                 apply_template(uses)[at] = UseOne(uses, apply_template(uses), at)
<1> DEFINE walk == [op |-> "use", deps |-> uses]
           Calls == Applications(uses)
           V == [Calls -> Applied(uses)]
           first == [at \in Calls |-> [ok |-> FALSE, order |-> <<>>]]
           left == UseLeft(uses)
           N == Cardinality(DOMAIN uses)
<1>0. IsFiniteSet(DOMAIN uses)
  BY DEF IsUses
<1>1. \A v, at : Body(walk, v, at) = UseOne(uses, v, at)
  BY DEF Body
<1>a. [ok |-> FALSE, order |-> <<>>] \in Applied(uses)
  BY DEF Applied
<1> HIDE DEF walk
<1>2. ASSUME NEW v \in V, NEW w, NEW at \in Calls, Agree(v, w, Calls, left, left[at])
      PROVE  UseOne(uses, v, at) \in Applied(uses) /\ UseOne(uses, v, at) = UseOne(uses, w, at)
  <2>1. CASE at.name \in at.stack \/ at.name \notin DOMAIN uses
    BY <1>a, <2>1 DEF UseOne
  <2>2. CASE at.name \notin at.stack /\ at.name \in DOMAIN uses
    <3> DEFINE stack == at.stack \cup {at.name}
               names == uses[at.name]
               after == ApplyEach(v, names, stack)
    <3>1. stack \in SUBSET DOMAIN uses /\ at.stack \subseteq stack /\ at.name \in stack \ at.stack
      BY <2>2 DEF Applications
    <3>2. /\ Len(names) \in Nat /\ DOMAIN names = 1 .. Len(names)
          /\ \A k \in 1 .. Len(names) : names[k] \in Mentioned(uses)
      BY <2>2, UsesOf
    <3>3. ASSUME NEW k \in 1 .. Len(names)
          PROVE  /\ v[UseCall(names[k], stack)] \in Applied(uses)
                 /\ v[UseCall(names[k], stack)] = w[UseCall(names[k], stack)]
      <4> HIDE DEF stack, names
      <4>1. UseCall(names[k], stack) \in Calls /\ UseCall(names[k], stack).stack = stack
        BY <3>1, <3>2 DEF UseCall, Applications
      <4>2. Cardinality(DOMAIN uses \ stack) < Cardinality(DOMAIN uses \ at.stack)
        BY <1>0, <2>2, <3>1, FewerOf
      <4>3. left[UseCall(names[k], stack)] < left[at]
        BY <4>1, <4>2 DEF UseLeft
      <4> QED BY <1>2, <4>1, <4>3 DEF Agree
    <3>4. after \in Applied(uses) /\ after = ApplyEach(w, names, stack)
      <4> HIDE DEF stack, names
      <4> QED BY <3>2, <3>3, ApplyEachSame
    <3>5. /\ UseOne(uses, v, at) = [ok |-> after.ok, order |-> Append(after.order, at.name)]
          /\ UseOne(uses, w, at) = [ok |-> after.ok, order |-> Append(after.order, at.name)]
      BY <2>2, <3>4 DEF UseOne
    <3> HIDE DEF after
    <3>6. [ok |-> after.ok, order |-> Append(after.order, at.name)] \in Applied(uses)
      <4>1. Append(after.order, at.name) \in Seq(DOMAIN uses) /\ after.ok \in BOOLEAN
        BY <2>2, <3>4 DEF Applied
      <4> QED BY <4>1 DEF Applied
    <3> QED BY <3>5, <3>6
  <2> QED BY <2>1, <2>2
<1>3. first \in V
  BY <1>a
<1>4. left \in [Calls -> 0 .. N] /\ N \in Nat
  BY <1>0, FewerOf DEF UseLeft
<1>5. \A v \in V : v = [at \in Calls |-> v[at]]
  OBVIOUS
<1>6. \A v \in V : [at \in Calls |-> Body(walk, v, at)] \in V
  <2>1. ASSUME NEW v \in V, NEW at \in Calls PROVE Body(walk, v, at) \in Applied(uses)
    <3>1. Agree(v, v, Calls, left, left[at])
      BY DEF Agree
    <3> QED BY <1>1, <1>2, <3>1
  <2> QED BY <2>1
<1>7. \A v \in V : \A w : \A at \in Calls :
          Agree(v, w, Calls, left, left[at]) => Body(walk, v, at) = Body(walk, w, at)
  BY <1>1, <1>2
<1>8. Visit(walk, Calls) \in V /\ IsVisit(Visit(walk, Calls), walk, Calls)
  <2> HIDE DEF V, first, N, left, Calls
  <2> QED BY <1>3, <1>4, <1>5, <1>6, <1>7, VisitExists
<1>9. apply_template(uses) = Visit(walk, Calls)
  BY Visits DEF walk
<1> DEFINE visit == apply_template(uses)
<1>10. visit = [at \in Calls |-> Body(walk, visit, at)]
  BY <1>8, <1>9 DEF IsVisit
<1>11. \A at \in Calls : visit[at] = Body(walk, visit, at)
  <2> HIDE DEF visit
  <2> QED BY <1>10
<1> QED BY <1>1, <1>8, <1>9, <1>11

\* What a template waits for, and why templates are refused.
Uses(uses) == [t \in DOMAIN uses |-> ToSet(uses[t])]
Unknown(uses) == \E t \in DOMAIN uses : ~(ToSet(uses[t]) \subseteq DOMAIN uses)
Refused(uses) == Unknown(uses) \/ Loops(DOMAIN uses, Uses(uses))

\* A template that exists, as those it uses do, and that does not use itself.
Fits(uses, t) ==
    /\ t \in DOMAIN uses
    /\ ToSet(uses[t]) \subseteq DOMAIN uses
    /\ \A S \in SUBSET DOMAIN uses : Waits(Uses(uses), S) => t \notin S

\* The templates of an order, and an order in which each comes behind those it uses.
Members(s) == {s[i] : i \in 1 .. Len(s)}
WellApplied(uses, s) ==
    \A i \in 1 .. Len(s) :
        /\ ToSet(uses[s[i]]) \subseteq {s[j] : j \in 1 .. i - 1}
        /\ uses[s[i]] # <<>> => i > 1 /\ s[i - 1] = Last(uses[s[i]])

\* Two orders that apply templates well do so one after the other.
LEMMA WellConcat ==
    ASSUME NEW uses, NEW T, NEW a \in Seq(T), NEW b \in Seq(T), WellApplied(uses, a), WellApplied(uses, b)
    PROVE  /\ WellApplied(uses, a \o b)
           /\ Members(a \o b) = Members(a) \cup Members(b)
           /\ Len(b) > 0 => Len(a \o b) > 0 /\ (a \o b)[Len(a \o b)] = b[Len(b)]
<1> DEFINE c == a \o b
           m == Len(a)
           n == Len(b)
<1>1. /\ m \in Nat /\ n \in Nat /\ Len(c) = m + n
      /\ \A i \in 1 .. m + n : c[i] = IF i <= m THEN a[i] ELSE b[i - m]
  BY ConcatProperties
<1>2. \A i \in 1 .. m : /\ ToSet(uses[a[i]]) \subseteq {a[j] : j \in 1 .. i - 1}
                        /\ uses[a[i]] # <<>> => i > 1 /\ a[i - 1] = Last(uses[a[i]])
  BY DEF WellApplied
<1>3. \A i \in 1 .. n : /\ ToSet(uses[b[i]]) \subseteq {b[j] : j \in 1 .. i - 1}
                        /\ uses[b[i]] # <<>> => i > 1 /\ b[i - 1] = Last(uses[b[i]])
  BY DEF WellApplied
<1>4. Members(a) = {a[i] : i \in 1 .. m} /\ Members(b) = {b[i] : i \in 1 .. n}
      /\ Members(c) = {c[i] : i \in 1 .. m + n}
  BY <1>1 DEF Members
<1> HIDE DEF c, m, n
<1>5. \A i \in 1 .. m : c[i] = a[i] /\ i \in 1 .. m + n
  BY <1>1
<1>6. \A i \in 1 .. n : c[m + i] = b[i] /\ m + i \in 1 .. m + n
  <2> SUFFICES ASSUME NEW i \in 1 .. n PROVE c[m + i] = b[i] /\ m + i \in 1 .. m + n
    OBVIOUS
  <2>1. m + i \in 1 .. m + n /\ ~(m + i <= m) /\ (m + i) - m = i
    BY <1>1
  <2> QED BY <1>1, <2>1
<1>7. \A i \in 1 .. m + n : i \in 1 .. m \/ \E j \in 1 .. n : i = m + j
  <2> SUFFICES ASSUME NEW i \in 1 .. m + n, i \notin 1 .. m PROVE \E j \in 1 .. n : i = m + j
    OBVIOUS
  <2>1. i - m \in 1 .. n /\ i = m + (i - m)
    BY <1>1
  <2> QED BY <2>1
<1>8. Members(c) = Members(a) \cup Members(b)
  BY <1>4, <1>5, <1>6, <1>7
<1>9. ASSUME NEW i \in 1 .. m + n
      PROVE  /\ ToSet(uses[c[i]]) \subseteq {c[j] : j \in 1 .. i - 1}
             /\ uses[c[i]] # <<>> => i > 1 /\ c[i - 1] = Last(uses[c[i]])
  <2>1. CASE i \in 1 .. m
    <3>1. \A j \in 1 .. i - 1 : c[j] = a[j]
      BY <1>1, <1>5, <2>1
    <3>2. c[i] = a[i]
      BY <1>5, <2>1
    <3>3. ToSet(uses[a[i]]) \subseteq {c[j] : j \in 1 .. i - 1}
      <4>1. {a[j] : j \in 1 .. i - 1} = {c[j] : j \in 1 .. i - 1}
        BY <3>1
      <4> QED BY <1>2, <2>1, <4>1
    <3>4. uses[a[i]] # <<>> => i > 1 /\ c[i - 1] = Last(uses[a[i]])
      <4>1. i > 1 => i - 1 \in 1 .. i - 1
        BY <2>1
      <4> QED BY <1>2, <2>1, <3>1, <4>1
    <3> QED BY <3>2, <3>3, <3>4
  <2>2. CASE \E k \in 1 .. n : i = m + k
    <3>1. PICK k \in 1 .. n : i = m + k
      BY <2>2
    <3>2. c[i] = b[k]
      BY <1>6, <3>1
    <3>3. \A j \in 1 .. k - 1 : c[m + j] = b[j] /\ m + j \in 1 .. i - 1
      <4> SUFFICES ASSUME NEW j \in 1 .. k - 1 PROVE c[m + j] = b[j] /\ m + j \in 1 .. i - 1
        OBVIOUS
      <4>1. j \in 1 .. n /\ m + j \in 1 .. i - 1
        BY <1>1, <3>1
      <4> QED BY <1>6, <4>1
    <3>4. ToSet(uses[b[k]]) \subseteq {c[j] : j \in 1 .. i - 1}
      <4>1. \A j \in 1 .. k - 1 : b[j] \in {c[h] : h \in 1 .. i - 1}
        BY <3>3
      <4> QED BY <1>3, <4>1
    <3>5. uses[b[k]] # <<>> => i > 1 /\ c[i - 1] = Last(uses[b[k]])
      <4>1. k > 1 => k - 1 \in 1 .. k - 1 /\ m + (k - 1) = i - 1 /\ i > 1
        BY <1>1, <3>1
      <4>2. uses[b[k]] # <<>> => k > 1 /\ b[k - 1] = Last(uses[b[k]])
        BY <1>3
      <4>3. k > 1 => c[i - 1] = b[k - 1]
        BY <3>3, <4>1
      <4> QED BY <4>1, <4>2, <4>3
    <3> QED BY <3>2, <3>4, <3>5
  <2> QED BY <1>7, <2>1, <2>2
<1>10. WellApplied(uses, c)
  BY <1>1, <1>9 DEF WellApplied
<1>11. n > 0 => Len(c) > 0 /\ c[Len(c)] = b[n]
  <2>1. n > 0 => n \in 1 .. n /\ m + n > 0
    BY <1>1
  <2> QED BY <1>1, <1>6, <2>1
<1> QED BY <1>8, <1>10, <1>11 DEF c, n

\* A template may be applied after an order that has, at its end, those it uses.
LEMMA WellAppend ==
    ASSUME NEW uses, NEW T, NEW a \in Seq(T), NEW name \in T, WellApplied(uses, a),
           ToSet(uses[name]) \subseteq Members(a),
           uses[name] # <<>> => Len(a) > 0 /\ a[Len(a)] = Last(uses[name])
    PROVE  LET c == Append(a, name)
           IN  WellApplied(uses, c) /\ Len(c) > 0 /\ c[Len(c)] = name
<1> DEFINE c == Append(a, name)
           m == Len(a)
<1>1. /\ m \in Nat /\ Len(c) = m + 1 /\ c[m + 1] = name
      /\ \A i \in 1 .. m : c[i] = a[i]
  OBVIOUS
<1>2. \A i \in 1 .. m : /\ ToSet(uses[a[i]]) \subseteq {a[j] : j \in 1 .. i - 1}
                        /\ uses[a[i]] # <<>> => i > 1 /\ a[i - 1] = Last(uses[a[i]])
  BY DEF WellApplied
<1>3. ToSet(uses[name]) \subseteq {a[j] : j \in 1 .. m}
  BY DEF Members
<1>4. uses[name] # <<>> => m > 0 /\ a[m] = Last(uses[name])
  OBVIOUS
<1> HIDE DEF c, m
<1>5. ASSUME NEW i \in 1 .. m + 1
      PROVE  /\ ToSet(uses[c[i]]) \subseteq {c[j] : j \in 1 .. i - 1}
             /\ uses[c[i]] # <<>> => i > 1 /\ c[i - 1] = Last(uses[c[i]])
  <2>0. \A j \in 1 .. i - 1 : c[j] = a[j] /\ j \in 1 .. m
    BY <1>1
  <2>1. CASE i \in 1 .. m
    <3>1. c[i] = a[i]
      BY <1>1, <2>1
    <3>2. ToSet(uses[a[i]]) \subseteq {c[j] : j \in 1 .. i - 1}
      <4>1. {a[j] : j \in 1 .. i - 1} = {c[j] : j \in 1 .. i - 1}
        BY <2>0
      <4> QED BY <1>2, <2>1, <4>1
    <3>3. uses[a[i]] # <<>> => i > 1 /\ c[i - 1] = Last(uses[a[i]])
      <4>1. i > 1 => i - 1 \in 1 .. i - 1
        BY <2>1
      <4> QED BY <1>2, <2>0, <2>1, <4>1
    <3> QED BY <3>1, <3>2, <3>3
  <2>2. CASE i = m + 1
    <3>1. c[i] = name /\ i - 1 = m
      BY <1>1, <2>2
    <3>2. \A j \in 1 .. m : c[j] = a[j] /\ j \in 1 .. i - 1
      BY <1>1, <3>1
    <3>3. ToSet(uses[name]) \subseteq {c[j] : j \in 1 .. i - 1}
      BY <1>3, <3>2
    <3>4. m > 0 => m \in 1 .. m /\ i > 1
      BY <1>1, <2>2
    <3> QED BY <1>4, <3>1, <3>2, <3>3, <3>4
  <2> QED BY <1>1, <2>1, <2>2
<1>6. WellApplied(uses, c)
  BY <1>1, <1>5 DEF WellApplied
<1> QED BY <1>1, <1>6 DEF c

\* What applying one name gives, and what applying the first k of some names does.
AppliedOne(uses, r, n) ==
    /\ r \in Applied(uses)
    /\ ~r.ok => Refused(uses)
    /\ r.ok => /\ Fits(uses, n) /\ WellApplied(uses, r.order)
               /\ Len(r.order) > 0 /\ r.order[Len(r.order)] = n

\* What has been applied after the first k names.
AppliedUpTo(uses, r, names, k) ==
    /\ r \in Applied(uses)
    /\ ~r.ok => Refused(uses)
    /\ r.ok => /\ WellApplied(uses, r.order)
               /\ \A j \in 1 .. k : Fits(uses, names[j]) /\ names[j] \in Members(r.order)
               /\ k > 0 => Len(r.order) > 0 /\ r.order[Len(r.order)] = names[k]

\* One more name is applied after them.
LEMMA OneMoreApplied ==
    ASSUME NEW uses, NEW names, NEW k \in Nat \ {0}, NEW e, NEW r,
           AppliedUpTo(uses, e, names, k - 1), AppliedOne(uses, r, names[k])
    PROVE  AppliedUpTo(uses, Add(e, r), names, k)
<1> DEFINE c == e.order \o r.order
<1>1. e \in Applied(uses) /\ r \in Applied(uses)
  BY DEF AppliedUpTo, AppliedOne
<1>2. Add(e, r) \in Applied(uses) /\ Add(e, r).ok = (e.ok /\ r.ok) /\ Add(e, r).order = c
  BY <1>1, AddTyped DEF Add
<1>3. e.ok \in BOOLEAN /\ r.ok \in BOOLEAN /\ e.order \in Seq(DOMAIN uses) /\ r.order \in Seq(DOMAIN uses)
  BY <1>1 DEF Applied
<1> HIDE DEF c
<1>4. CASE ~(e.ok /\ r.ok)
  BY <1>2, <1>3, <1>4 DEF AppliedUpTo, AppliedOne
<1>5. CASE e.ok /\ r.ok
  <2>1. /\ WellApplied(uses, e.order) /\ WellApplied(uses, r.order)
        /\ \A j \in 1 .. k - 1 : Fits(uses, names[j]) /\ names[j] \in Members(e.order)
        /\ Fits(uses, names[k]) /\ Len(r.order) > 0 /\ r.order[Len(r.order)] = names[k]
    BY <1>5 DEF AppliedUpTo, AppliedOne
  <2>2. /\ WellApplied(uses, c) /\ Members(c) = Members(e.order) \cup Members(r.order)
        /\ Len(c) > 0 /\ c[Len(c)] = names[k]
    <3> DEFINE a == e.order
               b == r.order
    <3>1. /\ a \in Seq(DOMAIN uses) /\ b \in Seq(DOMAIN uses)
          /\ WellApplied(uses, a) /\ WellApplied(uses, b)
      BY <1>3, <2>1
    <3> HIDE DEF a, b
    <3>2. /\ WellApplied(uses, a \o b)
          /\ Members(a \o b) = Members(a) \cup Members(b)
          /\ Len(b) > 0 => Len(a \o b) > 0 /\ (a \o b)[Len(a \o b)] = b[Len(b)]
      BY <3>1, WellConcat
    <3> QED BY <2>1, <3>2 DEF a, b, c
  <2>3. names[k] \in Members(r.order)
    <3>1. Len(r.order) \in 1 .. Len(r.order)
      BY <1>3, <2>1
    <3> QED BY <2>1, <3>1 DEF Members
  <2>4. \A j \in 1 .. k : j \in 1 .. k - 1 \/ j = k
    OBVIOUS
  <2>5. \A j \in 1 .. k : Fits(uses, names[j]) /\ names[j] \in Members(c)
    BY <2>1, <2>2, <2>3, <2>4
  <2> QED BY <1>2, <1>5, <2>2, <2>5 DEF AppliedUpTo
<1> QED BY <1>4, <1>5

\* The loop applies all names if each of its calls applies one.
LEMMA ApplyEachWorks ==
    ASSUME NEW uses, NEW visit, NEW names, NEW stack, NEW n \in Nat, DOMAIN names = 1 .. n,
           \A k \in 1 .. n : AppliedOne(uses, visit[UseCall(names[k], stack)], names[k])
    PROVE  AppliedUpTo(uses, ApplyEach(visit, names, stack), names, n)
<1> DEFINE what == [op |-> "use", visit |-> visit, stack |-> stack]
           none == [ok |-> TRUE, order |-> <<>>]
           P == [k \in 0 .. n |-> {e \in Applied(uses) : AppliedUpTo(uses, e, names, k)}]
<1>1. none \in P[0]
  <2>1. none \in Applied(uses) /\ none.ok /\ none.order = <<>>
    BY DEF Applied
  <2> HIDE DEF none
  <2>2. WellApplied(uses, none.order)
    BY <2>1 DEF WellApplied
  <2>3. AppliedUpTo(uses, none, names, 0)
    BY <2>1, <2>2 DEF AppliedUpTo
  <2> QED BY <2>1, <2>3
<1>2. ASSUME NEW k \in 1 .. n, NEW e \in P[k - 1] PROVE Step(what, e, names[k]) \in P[k]
  <2> DEFINE r == visit[UseCall(names[k], stack)]
  <2>1. AppliedUpTo(uses, e, names, k - 1) /\ k \in Nat \ {0}
    BY <1>2
  <2>2. Step(what, e, names[k]) = Add(e, r)
    BY UseStep
  <2> HIDE DEF r
  <2>3. AppliedUpTo(uses, Add(e, r), names, k)
    BY <2>1, OneMoreApplied DEF r
  <2>4. Add(e, r) \in Applied(uses)
    BY <2>3 DEF AppliedUpTo
  <2> QED BY <2>2, <2>3, <2>4
<1>3. Folded(what, none, names) \in P[n]
  <2> HIDE DEF what, none, P
  <2> QED BY <1>1, <1>2, StaysUpTo
<1>4. P[n] = {e \in Applied(uses) : AppliedUpTo(uses, e, names, n)}
  OBVIOUS
<1>5. ApplyEach(visit, names, stack) = Folded(what, none, names)
  BY FoldedUse
<1> HIDE DEF P, what, none
<1> QED BY <1>3, <1>4, <1>5

\* Applying a name puts it behind what it uses, unless templates are refused.
LEMMA UseCorrect ==
    ASSUME NEW uses, IsUses(uses), NEW at \in Applications(uses),
           at.name \in DOMAIN uses \/ Unknown(uses),
           \A v \in at.stack : WaitsFor(DOMAIN uses, Uses(uses), v, at.name)
    PROVE  AppliedOne(uses, apply_template(uses)[at], at.name)
<1> DEFINE visit == apply_template(uses)
           T == DOMAIN uses
           Called(c) == /\ c.name \in T \/ Unknown(uses)
                        /\ \A v \in c.stack : WaitsFor(T, Uses(uses), v, c.name)
           Right(c) == Called(c) => AppliedOne(uses, visit[c], c.name)
           left == UseLeft(uses)
           Calls == Applications(uses)
           N == Cardinality(T)
           G == {k \in 0 .. N + 1 : \A c \in Calls : left[c] < k => Right(c)}
<1>1. visit \in [Calls -> Applied(uses)] /\ \A c \in Calls : visit[c] = UseOne(uses, visit, c)
  BY UseWorks
<1>0. IsFiniteSet(T)
  BY DEF IsUses
<1>2. \A c \in Calls : left[c] = Cardinality(T \ c.stack)
  BY DEF UseLeft
<1>3. N \in Nat /\ \A c \in Calls : left[c] \in 0 .. N
  BY <1>0, <1>2, FewerOf
<1> HIDE DEF visit, N, left, Calls
<1>4. 0 \in G
  <2>1. \A c \in Calls : ~(left[c] < 0)
    BY <1>3
  <2> QED BY <1>3, <2>1
<1>5. ASSUME NEW k \in 1 .. N + 1, k - 1 \in G PROVE k \in G
  <2> SUFFICES ASSUME NEW c \in Calls, left[c] < k, Called(c)
               PROVE  AppliedOne(uses, visit[c], c.name)
    BY <1>3
  <2>0. c.name \in Mentioned(uses) /\ c.stack \in SUBSET T /\ visit[c] \in Applied(uses)
    BY <1>1 DEF Applications, Calls
  <2>1. CASE c.name \in c.stack \/ c.name \notin T
    <3>1. ~visit[c].ok
      <4>1. UseOne(uses, visit, c) = [ok |-> FALSE, order |-> <<>>]
        BY <2>1 DEF UseOne
      <4> QED BY <1>1, <4>1
    <3>2. Refused(uses)
      BY <2>1, WaitsForItself DEF Refused
    <3> QED BY <2>0, <3>1, <3>2 DEF AppliedOne
  <2>2. CASE c.name \notin c.stack /\ c.name \in T
    <3> DEFINE stack == c.stack \cup {c.name}
               names == uses[c.name]
               n == Len(names)
               after == ApplyEach(visit, names, stack)
    <3>1. stack \in SUBSET T /\ c.stack \subseteq stack /\ c.name \in stack \ c.stack
      BY <2>0, <2>2
    <3>2. /\ n \in Nat /\ DOMAIN names = 1 .. n
          /\ \A i \in 1 .. n : names[i] \in Mentioned(uses) /\ names[i] \in ToSet(names)
          /\ \A d \in ToSet(names) : \E i \in 1 .. n : names[i] = d
          /\ names # <<>> => n > 0 /\ Last(names) = names[n]
      BY <2>2, UsesOf
    <3>3. visit[c] = [ok |-> after.ok, order |-> Append(after.order, c.name)]
      BY <1>1, <2>2 DEF UseOne
    <3>4. ToSet(names) = Uses(uses)[c.name]
      BY <2>2 DEF Uses
    <3> HIDE DEF n
    <3>5. ASSUME NEW i \in 1 .. n
          PROVE  AppliedOne(uses, visit[UseCall(names[i], stack)], names[i])
      <4> DEFINE d == names[i]
                 next == UseCall(d, stack)
      <4>1. next \in Calls /\ next.name = d /\ next.stack = stack
        BY <3>1, <3>2 DEF UseCall, Applications, Calls
      <4>2. d \in T \/ Unknown(uses)
        BY <2>2, <3>2 DEF Unknown
      <4>3. \A v \in stack : WaitsFor(T, Uses(uses), v, d)
        <5>1. d \in Uses(uses)[c.name]
          BY <3>2, <3>4
        <5> QED BY <2>2, <5>1, WaitsOn
      <4> HIDE DEF next, stack, d
      <4>4. left[next] < k - 1
        <5>1. Cardinality(T \ stack) < Cardinality(T \ c.stack)
          BY <1>0, <2>2, <3>1, FewerOf
        <5>2. left[next] = Cardinality(T \ stack) /\ left[c] = Cardinality(T \ c.stack)
          BY <1>2, <4>1
        <5>3. left[next] \in Int /\ left[c] \in Int
          BY <1>3, <4>1
        <5> QED BY <5>1, <5>2, <5>3
      <4>5. Right(next)
        BY <1>5, <4>1, <4>4
      <4> QED BY <4>1, <4>2, <4>3, <4>5 DEF next, d
    <3>6. AppliedUpTo(uses, after, names, n)
      <4> HIDE DEF stack, names
      <4> QED BY <3>2, <3>5, ApplyEachWorks
    <3> HIDE DEF after, names
    <3>7. visit[c].ok = after.ok /\ visit[c].order = Append(after.order, c.name)
      BY <3>3
    <3>8. CASE ~after.ok
      BY <2>0, <3>6, <3>7, <3>8 DEF AppliedOne, AppliedUpTo
    <3>9. CASE after.ok
      <4>1. /\ after.order \in Seq(T) /\ WellApplied(uses, after.order)
            /\ \A j \in 1 .. n : Fits(uses, names[j]) /\ names[j] \in Members(after.order)
            /\ n > 0 => Len(after.order) > 0 /\ after.order[Len(after.order)] = names[n]
        BY <3>6, <3>9 DEF AppliedUpTo, Applied
      <4>2. ToSet(names) \subseteq Members(after.order) /\ \A d \in ToSet(names) : Fits(uses, d)
        BY <3>2, <4>1
      <4>3. names # <<>> => Len(after.order) > 0 /\ after.order[Len(after.order)] = Last(names)
        BY <3>2, <4>1
      <4>4. LET order == Append(after.order, c.name)
            IN  WellApplied(uses, order) /\ Len(order) > 0 /\ order[Len(order)] = c.name
        BY <2>2, <4>1, <4>2, <4>3, WellAppend DEF names
      <4>5. Fits(uses, c.name)
        <5>1. ToSet(names) \subseteq T
          BY <4>2 DEF Fits
        <5>2. ASSUME NEW S \in SUBSET T, Waits(Uses(uses), S), c.name \in S PROVE FALSE
          <6>1. PICK d \in ToSet(names) : d \in S
            BY <3>4, <5>2 DEF Waits
          <6> QED BY <4>2, <5>2, <6>1 DEF Fits
        <5> QED BY <2>2, <5>1, <5>2 DEF Fits, names
      <4> QED BY <2>0, <3>7, <3>9, <4>4, <4>5 DEF AppliedOne
    <3> QED BY <3>8, <3>9
  <2> QED BY <2>1, <2>2
<1>6. N + 1 \in G
  <2> HIDE DEF G
  <2>1. 0 .. N + 1 \subseteq G
    BY <1>3, <1>4, <1>5, UpTo
  <2> QED BY <1>3, <2>1
<1>7. at \in Calls
  BY DEF Calls
<1>8. left[at] < N + 1
  BY <1>3, <1>7
<1>9. Right(at)
  BY <1>6, <1>7, <1>8
<1> QED BY <1>9 DEF visit

\* A use from outside the templates.
LEMMA UseFirst ==
    ASSUME NEW uses, IsUses(uses), NEW t \in DOMAIN uses
    PROVE  AppliedOne(uses, apply_template(uses)[UseCall(t, {})], t)
<1> DEFINE at == UseCall(t, {})
<1>1. at \in Applications(uses) /\ at.name = t /\ at.stack = {}
  BY DEF UseCall, Applications, Mentioned
<1> HIDE DEF at
<1>2. AppliedOne(uses, apply_template(uses)[at], at.name)
  BY <1>1, UseCorrect
<1> QED BY <1>1, <1>2 DEF at

\* Templates are refused exactly if one uses an unknown one or itself.
LEMMA ValidatedIs ==
    ASSUME NEW uses, IsUses(uses)
    PROVE  validate_references(uses) <=> ~Refused(uses)
<1> DEFINE r(t) == apply_template(uses)[UseCall(t, {})]
<1>1. validate_references(uses) <=> \A t \in DOMAIN uses : r(t).ok
  BY DEF validate_references, UseCall
<1>2. \A t \in DOMAIN uses : AppliedOne(uses, r(t), t)
  BY UseFirst
<1> HIDE DEF r
<1>3. ASSUME \A t \in DOMAIN uses : r(t).ok PROVE ~Refused(uses)
  <2>1. \A t \in DOMAIN uses : Fits(uses, t)
    BY <1>2, <1>3 DEF AppliedOne
  <2>2. ~Unknown(uses)
    BY <2>1 DEF Unknown, Fits
  <2>3. ASSUME Loops(DOMAIN uses, Uses(uses)) PROVE FALSE
    <3>1. PICK S \in SUBSET DOMAIN uses : S # {} /\ Waits(Uses(uses), S)
      BY <2>3 DEF Loops
    <3>2. PICK t \in S : TRUE
      BY <3>1
    <3>3. t \in DOMAIN uses
      OBVIOUS
    <3> QED BY <2>1, <3>1, <3>3 DEF Fits
  <2> QED BY <2>2, <2>3 DEF Refused
<1>4. ASSUME NEW t \in DOMAIN uses, ~r(t).ok PROVE Refused(uses)
  BY <1>2, <1>4 DEF AppliedOne
<1> QED BY <1>1, <1>3, <1>4

\* Templates are refused exactly if one uses an unknown one or itself, and otherwise each is
\* applied behind those it uses and the last one a target names comes last:
\* TemplateChainResolver, for any number of templates.
THEOREM TemplatesApplyInOrderThm == ConfigSpec => []TemplatesApplyInOrder
<1>1. Evaluated => TemplatesApplyInOrder
  <2> SUFFICES ASSUME Evaluated, kind = "uses" PROVE TemplatesApplyInOrder
    BY DEF TemplatesApplyInOrder
  <2> DEFINE uses == input.uses
             names == input.names
             n == Len(names)
             T == DOMAIN uses
             all == overlay_templates(uses, names)
             order == all.order
  <2>1. /\ IsUses(uses) /\ names \in Seq(T) /\ names # <<>>
        /\ result.valid = validate_references(uses) /\ result.order = all
    <3>1. /\ input \in UseInputs
          /\ result = [valid |-> validate_references(uses), order |-> all]
      BY DEF Evaluated
    <3>2. IsUses(uses) /\ names \in Seq(T) /\ names # <<>>
      BY <3>1, UseInputsAssumption DEF IsUses
    <3> QED BY <3>1, <3>2
  <2>2. /\ n \in Nat /\ n > 0 /\ DOMAIN names = 1 .. n /\ Last(names) = names[n]
        /\ \A k \in 1 .. n : names[k] \in T
    BY <2>1 DEF Last
  <2> HIDE DEF uses, names, n
  <2>3. result.valid <=> ~Refused(uses)
    BY <2>1, ValidatedIs
  <2>4. AppliedUpTo(uses, all, names, n)
    <3>1. \A k \in 1 .. n : AppliedOne(uses, apply_template(uses)[UseCall(names[k], {})], names[k])
      BY <2>1, <2>2, UseFirst
    <3> QED BY <2>2, <3>1, ApplyEachWorks DEF overlay_templates
  <2> HIDE DEF all
  <2>5. Refused(uses) <=>
            \/ ~\A t \in T : ToSet(uses[t]) \subseteq T
            \/ \E set \in (SUBSET T) \ {{}} : \A t \in set : ToSet(uses[t]) \cap set # {}
    BY DEF Refused, Unknown, Loops, Waits, Uses
  <2>6. ASSUME result.valid
        PROVE  /\ all.ok /\ ToSet(names) \subseteq ToSet(order) /\ Last(order) = Last(names)
               /\ \A i \in DOMAIN order :
                     /\ ToSet(uses[order[i]]) \subseteq {order[j] : j \in 1 .. i - 1}
                     /\ uses[order[i]] # <<>> => order[i - 1] = Last(uses[order[i]])
    <3>1. all.ok /\ order \in Seq(T)
      BY <2>3, <2>4, <2>6 DEF AppliedUpTo, Applied
    <3>2. /\ WellApplied(uses, order)
          /\ \A j \in 1 .. n : names[j] \in Members(order)
          /\ Len(order) > 0 /\ order[Len(order)] = names[n]
      BY <2>2, <2>4, <3>1 DEF AppliedUpTo
    <3>3. DOMAIN order = 1 .. Len(order) /\ Last(order) = order[Len(order)]
      BY <3>1 DEF Last
    <3> HIDE DEF order
    <3>4. ToSet(names) \subseteq ToSet(order)
      BY <2>2, <3>2, <3>3 DEF ToSet, Members
    <3> QED BY <2>2, <3>1, <3>2, <3>3, <3>4 DEF WellApplied
  <2> QED BY <2>1, <2>3, <2>5, <2>6 DEF TemplatesApplyInOrder, uses, names, T
<1> QED BY <1>1, EvaluatedThm, PTL

=============================================================================
