---------------------------- MODULE ConfigTarget ----------------------------
(***************************************************************************)
(* How a target's configuration is put together from its layers (built-in  *)
(* defaults, target_defaults, templates, the target itself), when the      *)
(* result is accepted, and what the container agent is then given.         *)
(*                                                                         *)
(* A layer is a function on the fields it sets; a field is a pair of its   *)
(* section and its name.  A template string is the set of the keys it      *)
(* references; a workspace path also says whether it has the component     *)
(* aw-gateway.  Syntax of names, images and durations is left out.         *)
(***************************************************************************)
EXTENDS Naturals, Sequences, SequencesExt

Sets(layer, section) == \E f \in DOMAIN layer : f[1] = section
Get(layer, section, name, default) ==
    IF <<section, name>> \in DOMAIN layer THEN layer[<<section, name>>] ELSE default

Services(layer) == Get(layer, "agent", "services", <<>>)
Names(services) == {services[i].name : i \in DOMAIN services}
SshServices(services) == {i \in DOMAIN services : services[i].name = "container-sshd"}

-----------------------------------------------------------------------------
(* Layers                                                                  *)

builtin_defaults ==
    [f \in {<<"target", "mode">>, <<"workspace", "path">>, <<"workspace", "cleanup">>,
            <<"access", "method">>, <<"target", "stop_when_idle">>, <<"bootstrap", "enabled">>,
            <<"agent", "enabled">>} |->
        CASE f[2] = "mode"    -> "fixed"
          [] f[2] = "path"    -> [keys |-> {}, under |-> FALSE]
          [] f[2] = "cleanup" -> "never"
          [] f[2] = "method"  -> "ssh"
          [] f = <<"agent", "enabled">> -> TRUE
          [] OTHER            -> FALSE]

IsExec(layer) == Get(layer, "access", "method", "") = "runtime_exec"

\* A layer that asks for runtime_exec has no SSH of its own.
validate_runtime_exec_layer(layer) ==
    IsExec(layer) =>
        /\ ~Sets(layer, "local_ssh")
        /\ Sets(layer, "bridge") => ~Get(layer, "bridge", "enabled", TRUE)
        /\ SshServices(Services(layer)) = {}

\* ... and hides the one it inherits.
retain_service(kept, s) == IF s.name = "container-sshd" THEN kept ELSE Append(kept, s)

clear_inherited_ssh_access(layer) ==
    LET kept == {f \in DOMAIN layer : f[1] \notin {"local_ssh", "bridge"}}
    IN  [f \in kept |->
            IF f = <<"agent", "services">> THEN FoldLeft(retain_service, <<>>, layer[f]) ELSE layer[f]]

\* A later service replaces the one of its name in place, or is appended.
merge_service(acc, s) ==
    IF s.name \in Names(acc)
      THEN [i \in DOMAIN acc |-> IF acc[i].name = s.name THEN s ELSE acc[i]]
      ELSE Append(acc, s)

merge_services(inherited, later) == FoldLeft(merge_service, inherited, later)

\* The later layer wins field by field; lists are extended.
overlay_NothingHidden(earlier, later) ==  \* (mistake: inherited SSH is kept)
    [f \in DOMAIN earlier \cup DOMAIN later |->
        IF f \notin DOMAIN later THEN earlier[f]
        ELSE IF f \notin DOMAIN earlier THEN later[f]
        ELSE IF f = <<"agent", "services">> THEN merge_services(earlier[f], later[f])
        ELSE IF f = <<"target", "session_env_inherit">> THEN earlier[f] \o later[f]
        ELSE later[f]]

overlay(earlier, later) ==
    LET base == IF IsExec(later) THEN clear_inherited_ssh_access(earlier) ELSE earlier
    IN  [f \in DOMAIN base \cup DOMAIN later |->
            IF f \notin DOMAIN later THEN base[f]
            ELSE IF f \notin DOMAIN base THEN later[f]
            ELSE IF f = <<"agent", "services">> THEN merge_services(base[f], later[f])
            ELSE IF f = <<"target", "session_env_inherit">> THEN base[f] \o later[f]
            ELSE later[f]]

effective_target_from_input(layers) == FoldLeft(overlay, builtin_defaults, layers)

-----------------------------------------------------------------------------
(* Optional sections, with the defaults of their fields                    *)

NoSection == [set |-> FALSE]

local_ssh(c) ==
    IF ~Sets(c, "local_ssh") THEN NoSection
    ELSE [set |-> TRUE,
          mode |-> Get(c, "local_ssh", "mode", "proxy_command"),
          backend |-> Get(c, "local_ssh", "backend", "socket"),
          readiness |-> Get(c, "local_ssh", "readiness", "agent_control"),
          host |-> Get(c, "local_ssh", "host", "v4")]

idle_cleanup(c, section) ==
    IF ~Sets(c, section) THEN NoSection
    ELSE [set |-> TRUE,
          owner |-> Get(c, section, "owner", "agent"),
          action |-> Get(c, section, "action", "exit_container"),
          preserve |-> Get(c, section, "preserve", {})]

Bridge(c) ==
    IF ~Sets(c, "bridge") THEN NoSection
    ELSE [set |-> TRUE, enabled |-> Get(c, "bridge", "enabled", TRUE),
          socket |-> Get(c, "bridge", "socket", ""), mode |-> Get(c, "bridge", "mode", "0600")]

BridgeOn(c) == Bridge(c).set /\ Bridge(c).enabled

\* "unset", a "path", "on" or "off"
ControlSocket(c) == Get(c, "agent", "control_socket", "unset")

AgentOn(c) == Get(c, "agent", "enabled", TRUE)

is_active_agent_idle_cleanup(cleanup) ==
    cleanup.set /\ cleanup.owner = "agent" /\ cleanup.action # "none"

\* The target's idle_cleanup, if there is one, hides the agent's.
effective_agent_idle_cleanup(c) ==
    LET own == idle_cleanup(c, "idle_cleanup")
    IN  IF own.set THEN own ELSE idle_cleanup(c, "agent_idle")

uses_agent_idle_cleanup(c) == is_active_agent_idle_cleanup(effective_agent_idle_cleanup(c))

-----------------------------------------------------------------------------
(* Validation: every layer by itself, the target they make, the target     *)
(* with the runtime.                                                       *)

LocalSshValid(l) ==
    /\ l.mode = "listen" => l.host \in {"v4", "v6"}
    /\ l.mode = "direct" => l.host = "v4" /\ l.backend = "published_port"
    /\ l.readiness = "ssh_only" => l.backend = "published_port"

\* Only what the layer itself says can be wrong in it.
LocalSshPartial(layer) ==
    LET says(name, v) == Get(layer, "local_ssh", name, v)
    IN  /\ says("mode", "") = "listen" => says("host", "v4") \in {"v4", "v6"}
        /\ says("mode", "") = "direct" =>
              says("host", "v4") = "v4" /\ says("backend", "published_port") = "published_port"

ServicesValid(services, templates) ==
    /\ \A i, j \in DOMAIN services : services[i].name = services[j].name => i = j
    /\ \A i \in DOMAIN services : services[i].user = "{container_user}" => templates

BridgeValid(b) == b.mode = "0600"

validate_partial(layer) ==
    /\ validate_runtime_exec_layer(layer)
    /\ LocalSshPartial(layer)
    /\ ServicesValid(Services(layer), TRUE)
    /\ Bridge(layer).set => Bridge(layer).socket = "" /\ BridgeValid(Bridge(layer))
    /\ ControlSocket(layer) # "path"

\* ContainerAgentConfig::validate_common
AgentCommon(c, templates) ==
    IF ~AgentOn(c)
      THEN /\ Services(c) = <<>>
           /\ ~BridgeOn(c)
           /\ ControlSocket(c) \in {"unset", "off"}
           /\ ~Sets(c, "agent_idle")
      ELSE ServicesValid(Services(c), templates)

validate_gateway(c) ==
    /\ ControlSocket(c) # "path"
    /\ Bridge(c).set => Bridge(c).socket = "" /\ BridgeValid(Bridge(c))
    /\ AgentCommon(c, TRUE)

ModeValid(c) ==
    IF Get(c, "target", "mode", "fixed") = "fixed"
      THEN <<"target", "name">> \in DOMAIN c
      ELSE <<"target", "ephemeral_name">> \in DOMAIN c /\ Get(c, "target", "stop_when_idle", FALSE)

WorkspaceCleanupValid(c) ==
    LET path == Get(c, "workspace", "path", [keys |-> {}, under |-> FALSE])
        cleanup == idle_cleanup(c, "idle_cleanup")
    IN  Get(c, "workspace", "cleanup", "never") # "never" =>
            /\ Get(c, "target", "mode", "fixed") = "ephemeral"
            /\ "session_id" \in path.keys
            /\ path.under
            /\ cleanup.set /\ cleanup.owner = "gateway" /\ cleanup.action = "exit_container"
            /\ cleanup.preserve = {}

\* (mistake: only the target's own idle_cleanup is looked at)
DirectValid_OwnCleanup(c) ==
    LET l == local_ssh(c)
    IN  l.set /\ l.mode = "direct" =>
            /\ ~IsExec(c)
            /\ Get(c, "target", "mode", "fixed") = "fixed"
            /\ ~Get(c, "target", "stop_when_idle", FALSE)
            /\ ~is_active_agent_idle_cleanup(idle_cleanup(c, "idle_cleanup"))

DirectValid(c) ==
    LET l == local_ssh(c)
    IN  l.set /\ l.mode = "direct" =>
            /\ ~IsExec(c)
            /\ Get(c, "target", "mode", "fixed") = "fixed"
            /\ ~Get(c, "target", "stop_when_idle", FALSE)
            /\ ~uses_agent_idle_cleanup(c)

RuntimeExecValid(c) ==
    IsExec(c) =>
        /\ ~local_ssh(c).set
        /\ ~BridgeOn(c)
        /\ SshServices(Services(c)) = {}
        /\ Get(c, "bootstrap", "enabled", FALSE) => AgentOn(c)
        /\ uses_agent_idle_cleanup(c) => AgentOn(c) /\ ControlSocket(c) # "off"

validate(c) ==
    /\ \A i, j \in DOMAIN Get(c, "target", "session_env_inherit", <<>>) :
          LET keys == Get(c, "target", "session_env_inherit", <<>>) IN keys[i] = keys[j] => i = j
    /\ ModeValid(c)
    /\ WorkspaceCleanupValid(c)
    /\ LET cleanup == idle_cleanup(c, "idle_cleanup")
       IN  ~(cleanup.set /\ cleanup.owner = "gateway" /\ cleanup.action = "reap_processes")
    /\ local_ssh(c).set => LocalSshValid(local_ssh(c))
    /\ DirectValid(c)
    /\ RuntimeExecValid(c)
    /\ validate_gateway(c)

\* A fixed target is one container per required context.
validate_required_context_fixed_targets(c, required) ==
    Get(c, "target", "mode", "fixed") = "fixed" =>
        required \subseteq Get(c, "target", "name", {})

validate_target_agent_compatibility(c) ==
    ~AgentOn(c) /\ ~IsExec(c) /\ local_ssh(c).set => local_ssh(c).backend # "published_port"

Exposures(c) == {f \in DOMAIN c : f[1] = "exposures"}

validate_runtime_target_compatibility(c, runtime) ==
    /\ runtime = "colima" => Exposures(c) = {}
    /\ runtime = "apple" =>
         /\ \A f \in Exposures(c) : c[f] = "none"
         /\ IF IsExec(c)
              THEN /\ AgentOn(c) => ControlSocket(c) = "off"
                   /\ ~uses_agent_idle_cleanup(c)
              ELSE /\ local_ssh(c).set
                   /\ local_ssh(c).backend = "published_port"
                   /\ local_ssh(c).readiness = "ssh_only"
                   /\ ControlSocket(c) = "off"

\* GatewayConfig::validate, for one target.
Accepted(layers, runtime, required) ==
    LET c == effective_target_from_input(layers)
    IN  /\ \A i \in DOMAIN layers : validate_partial(layers[i])
        /\ validate(c)
        /\ validate_required_context_fixed_targets(c, required)
        /\ validate_target_agent_compatibility(c)
        /\ validate_runtime_target_compatibility(c, runtime)

-----------------------------------------------------------------------------
(* What the gateway makes of an accepted target                            *)

agent_control_enabled(c) == AgentOn(c) /\ ControlSocket(c) # "off"

ssh_backend(c) == IF local_ssh(c).set THEN local_ssh(c).backend ELSE "socket"

ssh_endpoint_configured(c) ==
    ~IsExec(c) /\ (ssh_backend(c) = "socket" => AgentOn(c) /\ BridgeOn(c))

requires_agent_control(c) ==
    agent_control_enabled(c) /\ (local_ssh(c).set => local_ssh(c).readiness = "agent_control")

\* Whether a session is announced to the agent: Runtime::agent_session_hold.
HoldsSessions(c) == agent_control_enabled(c) /\ uses_agent_idle_cleanup(c)

\* write_container_agent_config: sockets, users and idle_cleanup are filled in.
write_container_agent_config_AsConfigured(c) ==  \* (mistake: service users are not rendered)
    LET own == idle_cleanup(c, "idle_cleanup")
    IN  [enabled  |-> AgentOn(c),
         control  |-> IF agent_control_enabled(c) THEN "path" ELSE ControlSocket(c),
         bridge   |-> IF AgentOn(c) /\ BridgeOn(c) THEN [Bridge(c) EXCEPT !.socket = "path"]
                      ELSE Bridge(c),
         idle     |-> IF ~own.set THEN idle_cleanup(c, "agent_idle")
                      ELSE IF is_active_agent_idle_cleanup(own) THEN own ELSE NoSection,
         services |-> Services(c)]

write_container_agent_config(c) ==
    LET own == idle_cleanup(c, "idle_cleanup")
    IN  [enabled  |-> AgentOn(c),
         control  |-> IF agent_control_enabled(c) THEN "path" ELSE ControlSocket(c),
         bridge   |-> IF AgentOn(c) /\ BridgeOn(c) THEN [Bridge(c) EXCEPT !.socket = "path"]
                      ELSE Bridge(c),
         idle     |-> IF ~own.set THEN idle_cleanup(c, "agent_idle")
                      ELSE IF is_active_agent_idle_cleanup(own) THEN own ELSE NoSection,
         services |-> [i \in DOMAIN Services(c) |->
                         [Services(c)[i] EXCEPT
                             !.user = IF @ = "{container_user}" THEN "dev" ELSE @]]]

\* ContainerAgentFile::validate, when the agent starts.
validate_agent_file(file) ==
    /\ file.bridge.set =>
         /\ file.bridge.enabled => file.bridge.socket # ""
         /\ BridgeValid(file.bridge)
    /\ IF file.enabled THEN ServicesValid(file.services, FALSE)
       ELSE /\ file.services = <<>>
            /\ ~(file.bridge.set /\ file.bridge.enabled)
            /\ file.control \in {"unset", "off"}
            /\ ~file.idle.set

\* The agent runs its idle loop: AgentState::new.
IdleLoop(file) == is_active_agent_idle_cleanup(file.idle)

\* The gateway's own idle cleanup may stop the container.
GatewayIdles(c) ==
    LET own == idle_cleanup(c, "idle_cleanup")
    IN  /\ Get(c, "target", "stop_when_idle", FALSE)
        /\ own.set /\ own.owner = "gateway" /\ own.action # "none"

=============================================================================
