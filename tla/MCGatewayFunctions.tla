------------------------- MODULE MCGatewayFunctions -------------------------
(* Small inputs for each of the functions. *)
EXTENDS GatewayFunctions

MCconfigured == <<"s1", "s2", "s3", "s4">>

MCOrders == [Service -> SUBSET Service]

-----------------------------------------------------------------------------
(* Three files.  1 is the root; 1 and 2 may extend, 3 may be unfit.         *)

Sorted(set) == SetToSortSeq(set, LAMBDA a, b : a < b)

\* Two roots expose one socket and set one variable of a service with other fields.
Exposes(field) == <<"host_socket_exposures", "s", field>> :> 0
Env(field) == <<"env", "E", field>> :> 0

Definitions ==
    {<<>>,
     "a" :> ((<<"x">> :> 1) @@ Exposes("user")),
     ("a" :> ((<<"y">> :> 2) @@ Exposes("relabel"))) @@ ("b" :> (<<"x">> :> 2))}

Item(n, sets) == [name |-> n, sets |-> sets]
Array(f) == <<Item("p", (<<"x">> :> f) @@ Env(f)), Item(f, <<"y">> :> f)>>
Twice == <<Item("p", <<"x">> :> "q"), Item("p", <<"x">> :> "r")>>

MCFiles ==
    {[f \in 1 .. 3 |->
        [includes |-> Sorted(inc[f]), extends |-> ext[f], defs |-> defs[f], array |-> arr[f],
         includable |-> fit \/ f # 3, rootable |-> TRUE]] :
        inc \in {i \in [1 .. 3 -> SUBSET (1 .. 3)] : Cardinality(i[3]) <= 1},
        ext \in {<<None, None, None>>, <<2, None, None>>, <<2, 1, None>>, <<2, 3, None>>},
        defs \in {<<d, e, "c" :> (<<"x">> :> 3)>> : d, e \in Definitions},
        arr \in {<<<<>>, <<>>, <<>>>>, <<Array("q"), Array("r"), <<>>>>, <<Twice, Array("r"), <<>>>>},
        fit \in BOOLEAN}

-----------------------------------------------------------------------------
(* Lists of at most two over three templates and one that does not exist.   *)

Upto2(set) == UNION {[1 .. n -> set] : n \in 0 .. 2}

MCUses == [uses : [{"t1", "t2", "t3"} -> Upto2({"t1", "t2", "t3", "unknown"})],
           names : {<<"t1">>, <<"t1", "t2">>, <<"t2", "t1">>}]

-----------------------------------------------------------------------------
(* One patch of any kind, or two that set a command or remove.              *)

Step(key) == [key |-> key, command |-> "old", required |-> "no", timeout |-> "t0"]

Places == {<<None, None>>} \cup {<<None, k>> : k \in {"a", "b", "n"}}
                           \cup {<<k, None>> : k \in {"a", "b", "n"}}

Patch(keys, commands, others) ==
    {[key |-> k, enabled |-> e, before |-> p[1], after |-> p[2],
      command |-> c, required |-> o[1], timeout |-> o[2]] :
        k \in keys, e \in BOOLEAN, p \in Places, c \in commands, o \in others}

MCPatches ==
    LET ones == Patch({"a", "n"}, {None, "new"}, {None, "yes"} \X {None, "t1"})
        simple == Patch({"a", "b", "n", "m"}, {None, "new"}, {<<None, None>>})
        lists == {<<p>> : p \in ones} \cup {<<p, q>> : p, q \in simple}
    IN  {[inherited |-> old, patches |-> ps, inherits |-> i] :
            old \in {<<>>, <<Step("a"), Step("b")>>, <<Step("b"), Step("c"), Step("a")>>},
            ps \in {l \in lists : validate_raw_target_steps(l)}, i \in BOOLEAN}

-----------------------------------------------------------------------------
(* A preset of target_defaults, then a template and a target with one       *)
(* setting more each; the target has a name.                                *)

Set(section, name, v) == <<section, name>> :> v

Sshd == <<[name |-> "container-sshd", user |-> "root"]>>
App(user) == <<[name |-> "app", user |-> user]>>

Presets ==
    {<<>>,
     Set("local_ssh", "mode", "listen") @@ Set("bridge", "enabled", TRUE)
        @@ Set("agent", "services", Sshd),
     Set("local_ssh", "backend", "published_port") @@ Set("local_ssh", "readiness", "ssh_only")
        @@ Set("agent", "control_socket", "off"),
     Set("target", "mode", "ephemeral") @@ Set("target", "ephemeral_name", {"session_id"})
        @@ Set("target", "stop_when_idle", TRUE) @@ Set("workspace", "cleanup", "on_exit")
        @@ Set("workspace", "path", [keys |-> {"session_id"}, under |-> TRUE])
        @@ Set("idle_cleanup", "owner", "gateway"),
     Set("access", "method", "runtime_exec") @@ Set("idle_cleanup", "owner", "agent"),
     Set("access", "method", "runtime_exec") @@ Set("agent", "enabled", FALSE),
     Set("local_ssh", "mode", "direct") @@ Set("local_ssh", "backend", "published_port")
        @@ Set("target", "session_env_inherit", <<"E">>)}

Edits ==
    {<<>>} \cup
    {Set("target", "mode", v) : v \in {"fixed", "ephemeral"}} \cup
    {Set("target", "stop_when_idle", v) : v \in BOOLEAN} \cup
    {Set("target", "session_env_inherit", v) : v \in {<<"E">>, <<"F">>}} \cup
    {Set("workspace", "cleanup", "on_exit"),
     Set("workspace", "path", [keys |-> {}, under |-> TRUE])} \cup
    {Set("access", "method", v) : v \in {"ssh", "runtime_exec"}} \cup
    {Set("local_ssh", "mode", v) : v \in {"listen", "direct", "proxy_command"}} \cup
    {Set("local_ssh", "backend", v) : v \in {"socket", "published_port"}} \cup
    {Set("local_ssh", "readiness", v) : v \in {"agent_control", "ssh_only"}} \cup
    {Set("local_ssh", "host", v) : v \in {"v6", "name"}} \cup
    {Set(s, "owner", v) : s \in {"idle_cleanup", "agent_idle"}, v \in {"agent", "gateway"}} \cup
    {Set(s, "action", v) : s \in {"idle_cleanup", "agent_idle"}, v \in {"none", "reap_processes"}} \cup
    {Set("idle_cleanup", "preserve", {"p"})} \cup
    {Set("agent", "enabled", v) : v \in BOOLEAN} \cup
    {Set("agent", "services", v) : v \in {Sshd, App("root"), App("{container_user}"), Sshd \o App("root")}} \cup
    {Set("agent", "control_socket", v) : v \in {"path", "on", "off"}} \cup
    {Set("bridge", "enabled", v) : v \in BOOLEAN} \cup
    {Set("bridge", "mode", "0666"), Set("bridge", "socket", "path")} \cup
    {Set("bootstrap", "enabled", TRUE), Set("exposures", "e", "file"), Set("exposures", "e", "none")}

MCTargets ==
    {[layers |-> <<preset, e, Set("target", "name", {"c"}) @@ f>>, runtime |-> r, required |-> {}] :
        preset \in Presets, e \in Edits, f \in Edits, r \in {"podman", "colima", "apple"}} \cup
    {[layers |-> <<preset, Set("target", "name", named)>>, runtime |-> "podman", required |-> {"c"}] :
        preset \in Presets, named \in {{}, {"c"}}}

-----------------------------------------------------------------------------
(* Each key in each field, with a required and an optional context key.     *)

AllFields ==
    ContextFields \cup
    {"identity", "session_env", "container_env", "container_mounts", "extra_run_args",
     "host_socket_exposures", "container_bootstrap", "bootstrap_steps", "pre_start",
     "post_start_host", "pre_stop", "post_stop", "host_steps", "client_config", "docker_host",
     "services"}

MCContextKeys == {"context.req", "context.opt", "context.none"}

AllKeys == GATEWAY_TEMPLATE_VARS \cup MCContextKeys \cup {"runtime_id", "host", "var.v"}

At == [mode : {"fixed", "ephemeral"}, pid : BOOLEAN,
       context : {{}, {"context.req"}, {"context.opt"}, {"context.req", "context.opt"}, {"context.none"}}]

MCTemplates ==
    {[field |-> f, keys |-> {k}, declared |-> {"context.req", "context.opt"},
      required |-> {"context.req"}, at |-> at] : f \in AllFields, k \in AllKeys, at \in At}

-----------------------------------------------------------------------------
(* A launch in two layers with a variable or two.                           *)

Value(kind_, text) == [kind |-> kind_, text |-> text]
Values == {Value("string", t) : t \in {"a", "true", "1", "inf", "lines"}}
            \cup {Value("boolean", "true"), Value("number", "1"), Value("number", "inf")}

Var(type, required, default, values) ==
    [type |-> type, required |-> required, default |-> default, values |-> values]

Variables ==
    {Var(t, r, d, vs) : t \in {"string", "enum", "boolean", "number"}, r \in BOOLEAN,
                        d \in Values \cup {Absent}, vs \in {Absent, {}, {"a"}, {"a", "lines"}}}

Text(keys) == [what |-> "text", keys |-> keys]
Args == [what |-> "args", keys |-> {}]
Part == [what |-> "part", keys |-> {}]

\* One variable of any kind, referenced, and any value for it ...
VariableLaunches ==
    {[layers |-> <<("target" :> "t") @@ ("command" :> <<Text({}), Text({"var.v"})>>),
                   ("vars" :> ("var.v" :> v))>>,
      supplied |-> IF x = Absent THEN <<>> ELSE name :> x, args |-> <<>>,
      at |-> [mode |-> "ephemeral", pid |-> TRUE, context |-> {}]] :
        v \in Variables, x \in Values \cup {Absent}, name \in {"var.v", "var.w"}}

\* ... or any command, allow_args, references and steps in two layers.
ShapedLaunches ==
    LET commands == {<<>>, <<Args>>, <<Text({}), Args>>, <<Text({}), Args, Text({"user"})>>,
                     <<Text({}), Args, Args>>, <<Text({}), Part>>, <<Text({"session_id"})>>}
        v == Var("string", FALSE, Absent, Absent)
        w == Var("string", FALSE, Value("string", "a"), Absent)
        step(n, keys) == <<[name |-> n, keys |-> keys]>>
        base == {("target" :> "t") @@ ("command" :> c) @@ ("allow_args" :> a) @@ ("vars" :> ("var.v" :> v)) :
                    c \in commands, a \in {"yes", "no"}}
        own == {("command" :> c) @@ ("steps" :> step("s", ks)) :
                    c \in commands, ks \in {{}, {"var.w"}}}
               \cup {("allow_args" :> a) @@ e : a \in {"yes", "no"}, e \in {<<>>, "cwd" :> {"var.v"}}}
               \cup {("vars" :> ("var.w" :> w)) @@ ("env" :> ("E" :> ks)) :
                        ks \in {{"var.w"}, {"var.v"}, {"container_pid"}}}
    IN  {[layers |-> <<b, o>>, supplied |-> s, args |-> as,
          at |-> [mode |-> "fixed", pid |-> FALSE, context |-> {}]] :
            b \in base \cup {("target" :> "u") @@ c : c \in base}, o \in own,
            s \in {<<>>, "var.w" :> Value("string", "a")},
            as \in {<<>>, <<Text({})>>, <<Text({}), Text({})>>}}

MCLaunches == VariableLaunches \cup ShapedLaunches

-----------------------------------------------------------------------------
(* Command lines of an action with three words more, with two where not all *)
(* is enabled, longer ones of run and launch; and commands of transfers.    *)

UpTo(n, set) == UNION {[1 .. k -> set] : k \in 0 .. n}

Vocabulary ==
    {W(t) : t \in {"x", "show", "--", "--session-id", "--cwd", "--json", "--all", "--var",
                   "--public-key", "--identity-file", "--rotate-key"}}
    \cup {WithValue("--session-id", W("x")), WithValue("--cwd", W("x")), WithValue("k", W("v")),
          WithValue("--var", WithValue("k", W("v")))}

Separating ==
    {W(t) : t \in {"x", "--", "--session-id", "--cwd"}} \cup {WithValue("--session-id", W("x"))}

Variation == {W(t) : t \in {"--", "--var", "--session-id"}}
    \cup {WithValue("k", W("v")), WithValue("--var", WithValue("k", W("v")))}

Actions_ == {"connect", "up", "run", "launches", "launch", "launch-show", "status", "set-default",
             "help", "add-key", "add-host-key", "client-config", "client-bundle"}

Everything == [allow_interactive_shell |-> TRUE, allow_container_commands |-> TRUE,
               enabled_actions |-> GATEWAY_ACTION_NAMES]

Restricted ==
    {[Everything EXCEPT !.enabled_actions = {"launch", "connect", "status"}],
     [Everything EXCEPT !.enabled_actions = {"launch-show"}],
     [Everything EXCEPT !.allow_interactive_shell = FALSE, !.allow_container_commands = FALSE]}

Cmd(words) == [words |-> words, splits |-> TRUE, oversized |-> FALSE]

AllowAll == [sftp |-> "allow", legacy_scp |-> "allow"]

ShortLines == {<<W(a)>> \o rest : a \in Actions_ \cup {"x", "--"}, rest \in UpTo(2, Vocabulary)}
                \cup {<<>>}

TransferWords ==
    {W(t) : t \in {"scp", "/bin/scp", "internal-sftp", "/lib/sftp-server", "ls", "sh", "--",
                   "-t", "-f", "-tf", "-r", "-c", "connect"}}
    \cup {Tokens(<<"x", "scp">>), Quoted(<<W("scp"), W("-t")>>),
          Quoted(<<W("sh"), W("-lc"), Quoted(<<W("internal-sftp")>>)>>)}

Policies == [sftp : {"allow", "deny"}, legacy_scp : {"allow", "deny", "inbound", "outbound"}]

Enabled(lines) ==
    {[policy |-> AllowAll, command |-> Cmd(l), pty |-> FALSE, cfg |-> Everything] : l \in lines}

MCSsh ==
    {Enabled({<<W(a)>> \o rest : a \in Actions_, rest \in UpTo(3, Vocabulary)}),
     Enabled({<<W("run")>> \o rest : rest \in UpTo(5, Separating)}),
     Enabled({<<W("launch"), W("x")>> \o rest : rest \in UpTo(4, Variation)}),
     Enabled({<<W("aw-gateway")>> \o rest :
                rest \in UpTo(2, {W("aw-gateway"), W("connect"), W("x"), W("--")})}),
     {[policy |-> AllowAll, command |-> Cmd(l), pty |-> p, cfg |-> c] :
        l \in ShortLines, c \in Restricted, p \in BOOLEAN},
     {[policy |-> p, command |-> Cmd(l), pty |-> FALSE, cfg |-> Everything] :
        l \in UpTo(3, TransferWords), p \in Policies},
     {[policy |-> p, command |-> [words |-> <<W("scp"), W("-t")>>, splits |-> s, oversized |-> o],
       pty |-> TRUE, cfg |-> Everything] : p \in Policies, s, o \in BOOLEAN}}
=============================================================================
