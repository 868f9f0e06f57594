-------------------------- MODULE ConfigTemplates ---------------------------
(***************************************************************************)
(* The variables a template may use where it stands in the configuration,  *)
(* the ones that are bound when it is rendered, and how a launch gets its  *)
(* variables and arguments.  A template is the set of the keys it          *)
(* references; keys of a context are written "context.k", of a launch      *)
(* "var.v".                                                                *)
(***************************************************************************)
EXTENDS ConfigTarget, FiniteSets, TLC

CONSTANTS
    Absent,       \* a value that is not given
    ContextKeys   \* all keys "context.k" of a well-formed name

-----------------------------------------------------------------------------
(* What is allowed: the lists of validation.rs                             *)

IDENTITY_TEMPLATE_VARS == {"user", "uid", "gid", "home"}
RUNTIME_TEMPLATE_VARS == {"user", "home"}
AGENT_TEMPLATE_VARS == {"container_state_dir"}

TARGET_WORKSPACE_TEMPLATE_VARS ==
    IDENTITY_TEMPLATE_VARS \cup {"target", "image", "image_slug", "session_id"}

WORKSPACE_CONTAINER_PATH_TEMPLATE_VARS ==
    {"user", "uid", "gid", "container_user", "container_home", "target", "image", "image_slug",
     "container_name", "session_id"}

WORKSPACE_STATE_DIR_TEMPLATE_VARS ==
    WORKSPACE_CONTAINER_PATH_TEMPLATE_VARS \ {"container_user", "container_home"}

CONTROL_SOCKET_TEMPLATE_VARS ==
    WORKSPACE_STATE_DIR_TEMPLATE_VARS \cup {"home", "runtime_id"}

GATEWAY_LOGGING_TEMPLATE_VARS ==
    IDENTITY_TEMPLATE_VARS \cup {"workspace", "state", "state_dir"}

GATEWAY_TEMPLATE_VARS_NO_PID ==
    TARGET_WORKSPACE_TEMPLATE_VARS \cup WORKSPACE_CONTAINER_PATH_TEMPLATE_VARS \cup
    {"workspace", "state", "state_dir", "container_state_dir", "container_state_dir_in_container"}

GATEWAY_TEMPLATE_VARS == GATEWAY_TEMPLATE_VARS_NO_PID \cup {"container_pid"}

CLIENT_TEMPLATE_VARS == (GATEWAY_TEMPLATE_VARS_NO_PID \ {"uid", "gid", "state"}) \cup {"host"}

\* The fields of a configuration that hold templates, and the list of each.
Allowed(field) ==
    CASE field = "name"                      -> {"image_slug"}
      [] field = "ephemeral_name"            -> {"image_slug", "session_id"}
      [] field = "workspace.path"            -> TARGET_WORKSPACE_TEMPLATE_VARS
      [] field = "workspace.container_path"  -> WORKSPACE_CONTAINER_PATH_TEMPLATE_VARS
      [] field = "workspace.state_dir"       -> WORKSPACE_STATE_DIR_TEMPLATE_VARS
      [] field = "control_sockets"           -> CONTROL_SOCKET_TEMPLATE_VARS
      [] field = "identity"                  -> IDENTITY_TEMPLATE_VARS
      [] field \in {"session_env", "container_env", "container_mounts", "extra_run_args",
                    "host_socket_exposures", "container_bootstrap", "bootstrap_steps",
                    "pre_start"}             -> GATEWAY_TEMPLATE_VARS_NO_PID
      [] field \in {"post_start_host", "pre_stop", "post_stop", "host_steps"}
                                             -> GATEWAY_TEMPLATE_VARS
      [] field = "client_config"             -> CLIENT_TEMPLATE_VARS
      [] field = "logging"                   -> GATEWAY_LOGGING_TEMPLATE_VARS
      [] field = "docker_host"               -> RUNTIME_TEMPLATE_VARS
      [] field = "services"                  -> AGENT_TEMPLATE_VARS

\* The fields that may reference the context, by any key while the layers are
\* checked one by one, by a declared one in the end.
ContextFields == {"name", "ephemeral_name", "workspace.path", "workspace.container_path",
                  "workspace.state_dir", "control_sockets", "logging"}

validate_template_with_policy(field, keys) ==
    \A k \in keys : k \in Allowed(field) \/ (field \in ContextFields /\ k \in ContextKeys)

validate_template_with_context(field, keys, declared) ==
    \A k \in keys : k \in Allowed(field) \/ (field \in ContextFields /\ k \in declared)

AcceptedTemplate(field, keys, declared) ==
    /\ validate_template_with_policy(field, keys)
    /\ validate_template_with_context(field, keys, declared)

\* A request's context: declared keys only, and all that are required.
validate_runtime_context(declared, required, supplied) ==
    supplied \subseteq declared /\ required \subseteq supplied

-----------------------------------------------------------------------------
(* What is bound.  at: the target's mode, the context that was supplied,   *)
(* and whether the runtime reported a pid.                                 *)

Session(at) == IF at.mode = "ephemeral" THEN {"session_id"} ELSE {}

identity_vars(at) == {"user", "uid", "gid", "home"} \cup at.context

container_name_with_context(at) == {"image_slug"} \cup Session(at) \cup at.context

resolve_target_workspace(at) ==
    {"user", "uid", "gid", "home", "target", "image", "image_slug"} \cup Session(at) \cup at.context

render_control_socket_paths(at) ==
    resolve_target_workspace(at) \cup {"container_name", "runtime_id"}

\* RuntimePaths::resolve
PathVars(at) ==
    resolve_target_workspace(at)
        \cup {"container_user", "container_home", "workspace", "container_name"}

runtime_vars_NoStateDir(at, pid) ==  \* (mistake: the host's state directory is not bound)
    PathVars(at) \cup {"state", "container_state_dir", "container_state_dir_in_container"}
        \cup (IF pid THEN {"container_pid"} ELSE {})

\* Runtime::vars
runtime_vars(at, pid) ==
    PathVars(at)
        \cup {"state", "state_dir", "container_state_dir", "container_state_dir_in_container"}
        \cup (IF pid THEN {"container_pid"} ELSE {})

client_vars(at) == runtime_vars(at, FALSE) \cup {"target", "host"}

render_logging_directory(at) ==
    {"user", "uid", "gid", "home", "workspace", "state", "state_dir"} \cup at.context

Bound(field, at) ==
    CASE field \in {"name", "ephemeral_name"} -> container_name_with_context(at)
      [] field = "workspace.path"             -> resolve_target_workspace(at)
      [] field \in {"workspace.container_path", "workspace.state_dir"} -> PathVars(at)
      [] field = "control_sockets"            -> render_control_socket_paths(at)
      [] field = "identity"                   -> identity_vars(at)
      [] field \in {"session_env", "container_env", "container_mounts", "extra_run_args",
                    "host_socket_exposures", "container_bootstrap", "bootstrap_steps",
                    "pre_start"}              -> runtime_vars(at, FALSE)
      [] field \in {"post_start_host", "pre_stop", "post_stop", "host_steps"}
                                              -> runtime_vars(at, at.pid)
      [] field = "client_config"              -> client_vars(at)
      [] field = "logging"                    -> render_logging_directory(at)
      [] field = "docker_host"                -> {"user", "home"}
      [] field = "services"                   -> {"container_state_dir"}

\* Only the name that goes with the mode is rendered.
Rendered(field, at) ==
    /\ field = "name" => at.mode = "fixed"
    /\ field = "ephemeral_name" => at.mode = "ephemeral"

render(keys, bound) == keys \subseteq bound

-----------------------------------------------------------------------------
(* Launches.  A layer is a function on the fields it sets.  An element of  *)
(* the command is the sentinel {args}, has it as a "part", or is a         *)
(* template; a variable has a type, may be required, and may have a        *)
(* default and, an enum, values; a value has a kind and a text.            *)

merge_launch_steps(inherited, later) == merge_services(inherited, later)

\* Of a key in both, the later value.
extend(map, entries) ==
    [k \in DOMAIN map \cup DOMAIN entries |-> IF k \in DOMAIN entries THEN entries[k] ELSE map[k]]

overlay_launch(earlier, later) ==
    [f \in DOMAIN earlier \cup DOMAIN later |->
        IF f \notin DOMAIN later THEN earlier[f]
        ELSE IF f \notin DOMAIN earlier THEN later[f]
        ELSE IF f \in {"env", "vars"} THEN extend(earlier[f], later[f])
        ELSE IF f = "steps" THEN merge_launch_steps(earlier[f], later[f])
        ELSE later[f]]

Field(launch, f, default) == IF f \in DOMAIN launch THEN launch[f] ELSE default

effective_launch(layers) == FoldLeft(overlay_launch, <<>>, layers)

Texts(texts) == "lines" \notin texts

VarValid(v) ==
    /\ ~(v.required /\ v.default # Absent)
    /\ v.type # "enum" => v.values = Absent
    /\ v.type = "enum" => v.values \notin {Absent, {}} /\ "" \notin v.values /\ Texts(v.values)
    /\ v.default # Absent =>
         /\ v.default.kind = (IF v.type = "enum" THEN "string" ELSE v.type)
         /\ v.type = "string" => Texts({v.default.text})
         /\ v.type = "enum" => v.default.text \in v.values
         /\ v.type = "number" => v.default.text # "inf"

Elements(command, what) == {i \in DOMAIN command : command[i].what = what}

\* effective: whether allow_args may be left to another layer.
validate_launch_args_sentinel(command, allow_args, effective) ==
    /\ 1 \notin Elements(command, "args")
    /\ Cardinality(Elements(command, "args")) <= 1
    /\ effective /\ allow_args = "yes" => Elements(command, "args") # {}
    /\ (allow_args = "no" \/ (effective /\ allow_args = "unset")) => Elements(command, "args") = {}

\* All keys the launch's templates reference.
LaunchKeys(launch) ==
    LET command == Field(launch, "command", <<>>)
        env == Field(launch, "env", <<>>)
        steps == Field(launch, "steps", <<>>)
    IN  Field(launch, "cwd", {}) \cup UNION {env[k] : k \in DOMAIN env}
        \cup UNION {command[i].keys : i \in DOMAIN command}
        \cup UNION {steps[i].keys : i \in DOMAIN steps}

\* (mistake: an optional variable without a default may be referenced)
ReferencesValid_Optional(launch) == TRUE

\* A referenced variable always has a value.
ReferencesValid(launch) ==
    LET vars == Field(launch, "vars", <<>>)
    IN  \A v \in DOMAIN vars : v \in LaunchKeys(launch) =>
            vars[v].required \/ vars[v].default # Absent

validate_launch_shape(launch, targets, vars_bound) ==
    LET command == Field(launch, "command", <<>>)
        vars == Field(launch, "vars", <<>>)
        steps == Field(launch, "steps", <<>>)
        effective == targets # {}
    IN  /\ effective => Field(launch, "target", "") \in targets
        /\ "command" \in DOMAIN launch => command # <<>>
        /\ \A v \in DOMAIN vars : VarValid(vars[v])
        /\ LaunchKeys(launch) \subseteq GATEWAY_TEMPLATE_VARS \cup DOMAIN vars \cup vars_bound
        /\ Elements(command, "part") = {}
        /\ validate_launch_args_sentinel(command, Field(launch, "allow_args", "unset"), effective)
        /\ Len(steps) = Cardinality(Names(steps))
        /\ effective => ReferencesValid(launch)

\* VarKeys: a single layer may reference any "var.v".
AcceptedLaunch(layers, targets, VarKeys) ==
    LET launch == effective_launch(layers)
    IN  /\ \A i \in DOMAIN layers : validate_launch_shape(layers[i], {}, VarKeys)
        /\ {"target", "command"} \subseteq DOMAIN launch
        /\ validate_launch_shape(launch, targets, {})

coerce_for_config(value, v) ==
    CASE v.type = "string"  -> IF value.kind = "string" /\ Texts({value.text}) THEN value ELSE Absent
      [] v.type = "enum"    -> IF value.kind = "string" /\ v.values # Absent
                                    /\ value.text \in v.values
                                 THEN value ELSE Absent
      [] v.type = "boolean" -> IF value.kind = "boolean" \/ (value.kind = "string"
                                    /\ value.text \in {"true", "false"})
                                 THEN [kind |-> "boolean", text |-> value.text] ELSE Absent
      [] v.type = "number"  -> IF value.kind = "number" \/ (value.kind = "string"
                                    /\ value.text \in {"1"})
                                 THEN [kind |-> "number", text |-> value.text] ELSE Absent

\* The variables that get a value; refused if one is unknown, unfit or missing.
resolve_launch_vars(vars, supplied) ==
    LET given == DOMAIN supplied \cap DOMAIN vars
        defaulted == {v \in DOMAIN vars \ given : vars[v].default # Absent}
        value == [v \in given \cup defaulted |->
                    coerce_for_config(IF v \in given THEN supplied[v] ELSE vars[v].default, vars[v])]
    IN  [ok     |-> /\ DOMAIN supplied \subseteq DOMAIN vars
                    /\ \A v \in DOMAIN vars : vars[v].required => v \in given
                    /\ \A v \in DOMAIN value : value[v] # Absent,
         values |-> value]

validate_launch_passthrough_args(launch, args) ==
    args = <<>> \/ Field(launch, "allow_args", "unset") = "yes"

launch_template_vars(at, resolved) == runtime_vars(at, at.pid) \cup DOMAIN resolved.values

\* The sentinel is replaced by the request's arguments.
render_launch_command(command, args) ==
    FlattenSeq([i \in DOMAIN command |-> IF command[i].what = "args" THEN args ELSE <<command[i]>>])

=============================================================================
