--------------------------- MODULE ConfigFunctions ---------------------------
(***************************************************************************)
(* How a target is put together, what its templates may use, how a launch  *)
(* is run, how a list of steps is patched, in which order services stop    *)
(* and which templates a target applies, each evaluated on one input: the  *)
(* functions of ConfigTarget, ConfigTemplates, StepPatches, ServiceOrder   *)
(* and TemplateChains with what their results should be.                   *)
(* GatewayFunctions adds those that read files and command lines.          *)
(***************************************************************************)
EXTENDS ConfigTemplates, StepPatches, ServiceOrder, TemplateChains

CONSTANTS
    TargetInputs,   \* the layers of a target, with the runtime and required context
    TemplateInputs, \* a template in its field, with a context and how the target runs
    LaunchInputs,   \* the layers of a launch, with a request for it
    PatchInputs,    \* a list of steps and the patches of one layer
    OrderInputs,    \* what each service depends on
    UseInputs       \* templates, the names each uses and those a target names

\* The services of a layer have a name and a user.
ASSUME TargetInputsAssumption ==
    \A i \in TargetInputs :
        /\ i.layers \in Seq(ToSet(i.layers))
        /\ \A layer \in ToSet(i.layers) : Services(layer) \in Seq([name : STRING, user : STRING])

\* A field that holds templates, and how a target runs.
TemplateFields ==
    {"name", "ephemeral_name", "workspace.path", "workspace.container_path", "workspace.state_dir",
     "control_sockets", "identity", "session_env", "container_env", "container_mounts",
     "extra_run_args", "host_socket_exposures", "container_bootstrap", "bootstrap_steps", "pre_start",
     "post_start_host", "pre_stop", "post_stop", "host_steps", "client_config", "logging",
     "docker_host", "services"}

Running(at) == at.mode \in {"fixed", "ephemeral"} /\ at.pid \in BOOLEAN

ASSUME TemplateInputsAssumption ==
    \A i \in TemplateInputs : i.field \in TemplateFields /\ Running(i.at)

\* What the layers of a launch are made of.
CommandElements == [what : {"text", "args", "part"}, keys : SUBSET STRING]

LaunchValues == [kind : {"string", "boolean", "number"}, text : STRING]

IsLaunch(layer) ==
    /\ Field(layer, "command", <<>>) \in Seq(CommandElements)
    /\ Field(layer, "allow_args", "unset") \in {"unset", "yes", "no"}
    /\ LET declared == Field(layer, "vars", <<>>)
       IN  \A v \in DOMAIN declared : /\ declared[v].type \in {"string", "enum", "boolean", "number"}
                                 /\ declared[v].default \in {Absent} \cup LaunchValues

ASSUME LaunchInputsAssumption ==
    /\ Absent \notin LaunchValues
    /\ \A i \in LaunchInputs :
          /\ i.layers \in Seq(ToSet(i.layers))
          /\ \A layer \in ToSet(i.layers) : IsLaunch(layer)
          /\ i.args \in Seq(CommandElements)
          /\ Running(i.at)

\* Keys of steps are names, and no two of a list are the same.
ASSUME PatchInputsAssumption ==
    \A i \in PatchInputs :
        /\ i.inherited \in Seq(ToSet(i.inherited))
        /\ \A j, k \in DOMAIN i.inherited : i.inherited[j].key = i.inherited[k].key => j = k
        /\ None \notin Keys(i.inherited)
        /\ i.patches \in Seq(ToSet(i.patches))
        /\ validate_raw_target_steps(i.patches)

\* Services depend on each other only: unknown names are refused before.
ASSUME OrderInputsAssumption ==
    /\ configured \in Seq(Service)
    /\ OrderInputs \subseteq [Service -> SUBSET Service]

\* There are finitely many templates, and a target names at least one; a name that
\* is none of theirs is refused as one that a template uses is.
ASSUME UseInputsAssumption ==
    \A i \in UseInputs :
        /\ IsFiniteSet(DOMAIN i.uses)
        /\ \A t \in DOMAIN i.uses : i.uses[t] \in Seq(ToSet(i.uses[t]))
        /\ i.names \in Seq(DOMAIN i.uses) \ {<<>>}

VARIABLES kind, input, result

vars == <<kind, input, result>>

Init == kind = "none" /\ input = Absent /\ result = Absent

Evaluate(k, inputs, F(_)) ==
    /\ kind = "none"
    /\ \E i \in inputs : input' = i /\ result' = F(i)
    /\ kind' = k

ResolveTarget ==
    Evaluate("target", TargetInputs,
             LAMBDA i : [accepted |-> Accepted(i.layers, i.runtime, i.required),
                         effective |-> effective_target_from_input(i.layers)])

RenderTemplate ==
    Evaluate("template", TemplateInputs,
             LAMBDA i : [accepted |-> AcceptedTemplate(i.field, i.keys, i.declared),
                         bound    |-> Bound(i.field, i.at)])

RunLaunch ==
    Evaluate("launch", LaunchInputs,
             LAMBDA i : LET launch == effective_launch(i.layers)
                            resolved == resolve_launch_vars(Field(launch, "vars", <<>>), i.supplied)
                        IN  [accepted |-> AcceptedLaunch(i.layers, {"t"}, {"var.v", "var.w"}),
                             launch   |-> launch,
                             resolved |-> resolved,
                             taken    |-> validate_launch_passthrough_args(launch, i.args),
                             bound    |-> launch_template_vars(i.at, resolved),
                             command  |-> render_launch_command(Field(launch, "command", <<>>), i.args)])

PatchSteps ==
    Evaluate("patches", PatchInputs,
             LAMBDA i : merge_target_step_patches(i.inherited, i.patches, i.inherits))

OrderServices ==
    Evaluate("order", OrderInputs, LAMBDA deps : [valid |-> ValidGraph(deps),
        order |-> IF ValidGraph(deps) THEN service_stop_order(deps) ELSE <<>>])

ResolveTemplates ==
    Evaluate("uses", UseInputs, LAMBDA i : [valid |-> validate_references(i.uses),
                                            order |-> overlay_templates(i.uses, i.names)])

ConfigNext == ResolveTarget \/ RenderTemplate \/ RunLaunch \/ PatchSteps \/ OrderServices
              \/ ResolveTemplates

ConfigSpec == Init /\ [][ConfigNext]_vars

-----------------------------------------------------------------------------
(* Properties.                                                             *)

\* What a layer sets holds until a later one sets it too; a layer that asks for
\* runtime_exec also hides all SSH settings below it, for good.
NearestLayerWins ==
    kind = "target" =>
        LET layers == <<builtin_defaults>> \o input.layers
            ssh(f) == f[1] \in {"local_ssh", "bridge"}
            visible(f) == {i \in DOMAIN layers :
                /\ f \in DOMAIN layers[i]
                /\ ~(ssh(f) /\ \E j \in i + 1 .. Len(layers) : IsExec(layers[j]))}
            last(f) == CHOOSE i \in visible(f) : \A j \in visible(f) : j <= i
            listed == {<<"agent", "services">>, <<"target", "session_env_inherit">>}
        IN  /\ DOMAIN result.effective =
                 {f \in UNION {DOMAIN layers[i] : i \in DOMAIN layers} : visible(f) # {}}
            /\ \A f \in DOMAIN result.effective \ listed :
                 result.effective[f] = layers[last(f)][f]

\* The agent accepts the file the gateway writes for an accepted target, with the
\* socket it needs for an enabled bridge, and both agree whether it idles.
AgentTakesItsFile ==
    kind = "target" /\ result.accepted /\ AgentOn(result.effective) =>
        LET file == write_container_agent_config(result.effective)
        IN  /\ validate_agent_file(file)
            /\ IdleLoop(file) <=> uses_agent_idle_cleanup(result.effective)

\* Nobody stops an accepted target under its sessions: an agent that idles is told
\* of them, a direct target is left running, and a workspace is only deleted by the
\* gateway that stops its container.  Only an SSH target without a control socket
\* may idle uninformed: for runtime_exec that is refused.
IdleIsInformed ==
    kind = "target" /\ result.accepted =>
        LET c == result.effective
            idles == AgentOn(c) /\ IdleLoop(write_container_agent_config(c))
        IN  /\ idles => HoldsSessions(c) \/ (~IsExec(c) /\ ControlSocket(c) = "off")
            /\ local_ssh(c).set /\ local_ssh(c).mode = "direct" => ~idles /\ ~GatewayIdles(c)
            /\ Get(c, "workspace", "cleanup", "never") # "never" => GatewayIdles(c) /\ ~idles
            /\ IsExec(c) => ~ssh_endpoint_configured(c) /\ SshServices(Services(c)) = {}

\* What an operation finds unbound although the configuration was accepted: the
\* session of a fixed target, a pid the runtime does not report, and a context key
\* that need not be supplied.
Unbound(at, optional) ==
    (IF at.mode = "fixed" THEN {"session_id"} ELSE {})
        \cup (IF at.pid THEN {} ELSE {"container_pid"}) \cup (optional \ at.context)

\* A template that was accepted can be rendered wherever it is used: validation and
\* the code that binds the variables list the same ones, field by field.
TemplatesRender ==
    kind = "template" =>
        LET context_ok == validate_runtime_context(input.declared, input.required, input.at.context)
        IN  result.accepted /\ context_ok /\ Rendered(input.field, input.at) =>
                render(input.keys,
                       result.bound \cup Unbound(input.at, input.declared \ input.required))

\* An accepted launch fails for no other reason than its request: every variable
\* its templates reference has a value, a default is always fit, and the arguments
\* of the request stand once, together and behind the program.
LaunchRunsAsDeclared ==
    kind = "launch" /\ result.accepted =>
        LET command == result.launch.command
            declared == Field(result.launch, "vars", <<>>)
            allowed == Field(result.launch, "allow_args", "unset") = "yes"
        IN  /\ input.supplied = <<>> => (result.resolved.ok <=> \A v \in DOMAIN declared : ~declared[v].required)
            /\ result.resolved.ok =>
                  render(LaunchKeys(result.launch), result.bound \cup Unbound(input.at, {}))
            /\ result.taken /\ allowed =>
                  \E i \in 1 .. Len(command) - 1 :
                     result.command = SubSeq(command, 1, i) \o input.args
                                        \o SubSeq(command, i + 2, Len(command))
            /\ ~allowed => (result.taken <=> input.args = <<>>) /\ result.command = command

\* The patches of a layer never reorder, drop or duplicate the steps they do not
\* name: a new step stands next to the one it names, with no inherited step in
\* between, or at the end; a replaced one keeps its place.
PatchesKeepOrder ==
    kind = "patches" /\ result.ok =>
        LET old == input.inherited
            new == result.steps
            at(key) == CHOOSE i \in DOMAIN new : new[i].key = key
            by(key) == {i \in DOMAIN input.patches : input.patches[i].key = key}
            removed == {input.patches[i].key : i \in {j \in DOMAIN input.patches :
                                                         ~input.patches[j].enabled}}
            kept == Keys(old) \ removed
        IN  /\ Len(new) = Cardinality(Keys(new))
            /\ Keys(new) = (Keys(old) \ removed) \cup
                  {input.patches[i].key : i \in {j \in DOMAIN input.patches :
                                                    input.patches[j].enabled}}
            /\ \A i, j \in DOMAIN old :
                  i < j /\ {old[i].key, old[j].key} \subseteq kept => at(old[i].key) < at(old[j].key)
            /\ \A i \in DOMAIN old : by(old[i].key) = {} => old[i] = new[at(old[i].key)]
            /\ \A i \in DOMAIN input.patches :
                  LET p == input.patches[i]
                      here == at(p.key)
                  IN  p.enabled /\ p.key \notin Keys(old) =>
                        /\ p.before \in kept =>
                             /\ here < at(p.before)
                             /\ \A k \in kept \ {p.before} : ~(here < at(k) /\ at(k) < at(p.before))
                        /\ p.after \in kept =>
                             /\ at(p.after) < here
                             /\ \A k \in kept \ {p.after} : ~(at(p.after) < at(k) /\ at(k) < here)
                        /\ p.before = None /\ p.after = None => \A k \in kept : at(k) < here

\* A set of services of which each waits for another one of the set.
Cyclic(deps) == \E set \in (SUBSET Service) \ {{}} : \A s \in set : deps[s] \cap set # {}

\* The validation refuses exactly the configurations some services of which
\* would wait for each other for ever: self dependencies, cycles reached only
\* through an acyclic part, and nothing that is merely shared (a diamond).  Of an
\* accepted one every service is stopped, once, and after all services that
\* depend on it, in whatever order the configuration lists them.
StopsDependentsFirst ==
    kind = "order" =>
        /\ result.valid <=> ~Cyclic(input)
        /\ result.valid =>
              /\ result.order \in SetToSeqs(Service)
              /\ \A i, j \in DOMAIN result.order :
                    result.order[j] \in input[result.order[i]] => i < j

\* The configuration is refused exactly if some template uses an unknown one or
\* itself, also if nothing uses it; otherwise each template is applied after those
\* it uses, and the last one a target names comes last.
TemplatesApplyInOrder ==
    kind = "uses" =>
        LET uses == input.uses
            sets == (SUBSET DOMAIN uses) \ {{}}
            order == result.order.order
        IN  /\ result.valid <=>
                 /\ \A t \in DOMAIN uses : ToSet(uses[t]) \subseteq DOMAIN uses
                 /\ ~\E set \in sets : \A t \in set : ToSet(uses[t]) \cap set # {}
            /\ result.valid =>
                 /\ result.order.ok
                 /\ ToSet(input.names) \subseteq ToSet(order)
                 /\ Last(order) = Last(input.names)
                 /\ \A i \in DOMAIN order :
                      /\ ToSet(uses[order[i]]) \subseteq {order[j] : j \in 1 .. i - 1}
                      /\ uses[order[i]] # <<>> => order[i - 1] = Last(uses[order[i]])

=============================================================================
