----------------------------- MODULE SshCommands -----------------------------
(***************************************************************************)
(* What a command that came over SSH does: the filter that refuses file    *)
(* transfers, and the dispatch to a gateway action, a command in the       *)
(* container or a shell.                                                   *)
(*                                                                         *)
(* A command is what shell_words makes of it, a sequence of words.  Of a   *)
(* word --flag=v or key=v the text is the part before the =, the value a   *)
(* word for the rest; tokens are its parts between the control characters  *)
(* of a shell; inner is the command it is if a shell is given it with -c.  *)
(* Something optional is a sequence of at most one element.                *)
(***************************************************************************)
EXTENDS Naturals, Sequences, FiniteSets, SequencesExt, TLC

W(t) == [text |-> t, value |-> <<>>, tokens |-> <<t>>, inner |-> <<>>]
WithValue(t, w) == [W(t) EXCEPT !.value = <<w>>, !.tokens = <<"other">>]
Tokens(ts) == [W("other") EXCEPT !.tokens = ts]
Quoted(words) == [W("other") EXCEPT !.inner = words]

\* The words that start with -, and which of the letters c, f and t are in them
Letters == [w \in {"--", "--session-id", "--json", "--all", "--var", "-r"} |-> {}]
    @@ [w \in {"--cwd", "--public-key", "-c", "-lc"} |-> {"c"}]
    @@ ("--identity-file" :> {"f", "t"}) @@ ("--rotate-key" :> {"t"})
    @@ ("-t" :> {"t"}) @@ ("-f" :> {"f"}) @@ ("-tf" :> {"f", "t"})

Dashed(text) == text \in DOMAIN Letters

path_basename(text) == IF text = "/bin/scp" THEN "scp"
                       ELSE IF text = "/lib/sftp-server" THEN "sftp-server" ELSE text

-----------------------------------------------------------------------------
(* The filter of transfers                                                 *)

\* A direction: the letters of the first option that has one
legacy_scp_direction_from_args(args) ==
    LET one(i) == Dashed(args[i]) /\ Letters[args[i]] \cap {"f", "t"} # {}
        stops == {i \in DOMAIN args : args[i] = "--" \/ one(i)}
    IN  IF stops = {} THEN {}
        ELSE LET i == CHOOSE i \in stops : \A j \in stops : i <= j
             IN  Letters[args[i]] \cap {"f", "t"}

legacy_scp_mode_allows(mode, direction) ==
    \/ direction = {"t"} /\ mode \in {"allow", "inbound"}
    \/ direction = {"f"} /\ mode \in {"allow", "outbound"}

Denied(policy, direction) ==
    direction # {} /\ ~legacy_scp_mode_allows(policy.legacy_scp, direction)

Plain(words) == [i \in DOMAIN words |-> words[i].text]

legacy_scp_server_direction(words) ==
    IF path_basename(words[1].text) = "scp"
      THEN legacy_scp_direction_from_args(Tail(Plain(words)))
      ELSE {}

IsSftp(text) == path_basename(text) \in {"sftp-server", "internal-sftp"}

is_shell_interpreter(text) == text \in {"sh", "bash"}

RECURSIVE contains_denied_transfer_invocation(_, _)

\* What a shell is given unquoted is among the tokens.
contains_denied_transfer_invocation(policy, words) ==
    LET tokens == FlattenSeq([i \in DOMAIN words |-> words[i].tokens])
    IN  \/ \E i \in 1 .. Len(words) - 2 :
              /\ is_shell_interpreter(words[i].text)
              /\ Dashed(words[i + 1].text) /\ "c" \in Letters[words[i + 1].text]
              /\ contains_denied_transfer_invocation(policy, words[i + 2].inner)
        \/ \E i \in DOMAIN tokens :
              \/ /\ path_basename(tokens[i]) = "scp"
                 /\ Denied(policy,
                           legacy_scp_direction_from_args(SubSeq(tokens, i + 1, Len(tokens))))
              \/ IsSftp(tokens[i]) /\ policy.sftp = "deny"

\* A command that cannot be split is not looked at.
decide_command(policy, command) ==
    IF command.words = <<>> THEN "login_shell"
    ELSE IF ~command.splits THEN "run"
    ELSE IF Denied(policy, legacy_scp_server_direction(command.words)) THEN "reject_legacy_scp"
    ELSE IF policy.sftp = "deny" /\ IsSftp(command.words[1].text) THEN "reject_sftp"
    ELSE IF contains_denied_transfer_invocation(policy, command.words) THEN "reject_composed"
    ELSE "run"

-----------------------------------------------------------------------------
(* The parsers of the actions' words.  valued: the options with a value,   *)
(* inline: those of them that are also written --option=value, once: those *)
(* refused twice; target: where one may stand; tail: whether -- ends them. *)

Grammar(valued, inline, once, switches, target, tail) ==
    [valued |-> valued, inline |-> inline, once |-> once, switches |-> switches,
     target |-> target, tail |-> tail]

parse_target_session_action ==
    Grammar({"--session-id"}, {"--session-id"}, {"--session-id"}, {}, "any", FALSE)

parse_run_action ==
    Grammar({"--cwd", "--session-id"}, {"--session-id"}, {"--session-id"}, {}, "any", TRUE)

parse_status_action == Grammar({}, {}, {}, {"--all", "--json"}, "first", FALSE)
parse_key_action == Grammar({"--public-key"}, {}, {"--public-key"}, {}, "first", FALSE)
parse_key_source_action == Grammar({"--public-key"}, {}, {"--public-key"}, {}, "no", FALSE)
parse_client_config_action == Grammar({"--identity-file"}, {}, {}, {}, "first", FALSE)
parse_client_bundle_action ==
    Grammar({"--identity-file"}, {}, {}, {"--rotate-key"}, "first", FALSE)

\* After the name, which is any word
parse_launch_run_args_from ==
    Grammar({"--session-id", "--var"}, {"--session-id", "--var"}, {"--session-id"}, {}, "no", TRUE)

NoAction == [ok |-> FALSE, name |-> "", target |-> <<>>, given |-> <<>>, tail |-> <<>>]
Start == [NoAction EXCEPT !.ok = TRUE]

\* An option with its value, if it may be given (again); of a variable key=value
Give(g, acc, flag, v) ==
    [acc EXCEPT !.given = Append(@, [flag |-> flag, value |-> v]),
                !.ok = /\ flag \in g.once => \A i \in DOMAIN acc.given : acc.given[i].flag # flag
                       /\ flag = "--var" => v.value # <<>>]

RECURSIVE ParseFrom(_, _, _, _)

ParseFrom(g, words, i, acc) ==
    IF ~acc.ok \/ i > Len(words) THEN acc
    ELSE LET w == words[i]
         IN  IF w.value # <<>> /\ w.text \in g.inline
               THEN ParseFrom(g, words, i + 1, Give(g, acc, w.text, w.value[1]))
             ELSE IF w = W(w.text) /\ w.text \in g.valued
               THEN IF i = Len(words) THEN NoAction
                    ELSE ParseFrom(g, words, i + 2, Give(g, acc, w.text, words[i + 1]))
             ELSE IF w = W(w.text) /\ w.text \in g.switches
               THEN ParseFrom(g, words, i + 1, Give(g, acc, w.text, w))
             ELSE IF w = W("--") /\ g.tail
               THEN [acc EXCEPT !.tail = <<SubSeq(words, i + 1, Len(words))>>]
             ELSE IF ~Dashed(w.text) /\ (g.target = "any" \/ (g.target = "first" /\ i = 2))
               THEN ParseFrom(g, words, i + 1,
                              [acc EXCEPT !.target = <<w>>, !.ok = acc.target = <<>>])
             ELSE NoAction

GivenFlags(acc) == {acc.given[i].flag : i \in DOMAIN acc.given}

\* --all and a target exclude each other; run needs a command.
Complete(name, acc) ==
    /\ acc.ok
    /\ name = "status" => ~("--all" \in GivenFlags(acc) /\ acc.target # <<>>)
    /\ name = "run" => acc.tail # <<>> /\ acc.tail[1] # <<>>

-----------------------------------------------------------------------------
(* The dispatch                                                            *)

GATEWAY_ACTION_NAMES ==
    {"connect", "up", "run", "launches", "launch-show", "launch", "status", "targets", "stop",
     "remove", "set-default", "show-default", "reset-default", "add-key", "add-host-key",
     "add-container-key", "client-config", "client-bundle", "help"}

GrammarOf ==
    [a \in {"connect", "stop", "remove"} |-> parse_target_session_action]
    @@ [a \in {"add-key", "add-container-key"} |-> parse_key_action]
    @@ ("run" :> parse_run_action) @@ ("status" :> parse_status_action)
    @@ ("add-host-key" :> parse_key_source_action)
    @@ ("client-config" :> parse_client_config_action)
    @@ ("client-bundle" :> parse_client_bundle_action)

Named(name, acc) == IF Complete(name, acc) THEN [acc EXCEPT !.name = name] ELSE NoAction

parse_json_flag(name, words) ==
    IF Len(words) = 1 THEN Named(name, Start)
    ELSE IF Len(words) = 2 /\ words[2] = W("--json")
           THEN Named(name, Give(parse_status_action, Start, "--json", words[2]))
    ELSE NoAction

\* (mistake: whether a launch may be shown is decided by whether it may be run)
parse_launch_action_OneSwitch(words, enabled) ==
    IF Len(words) = 1 \/ "launch" \notin enabled THEN NoAction
    ELSE IF words[2] = W("show")
           THEN IF Len(words) = 3 THEN Named("launch-show", [Start EXCEPT !.target = <<words[3]>>])
                ELSE NoAction
    ELSE Named("launch", ParseFrom(parse_launch_run_args_from, words, 3,
                                   [Start EXCEPT !.target = <<words[2]>>]))

\* The name of the launch stands for its target.
parse_launch_action(words, enabled) ==
    IF Len(words) = 1 THEN NoAction
    ELSE IF words[2] = W("show")
           THEN IF "launch-show" \in enabled /\ Len(words) >= 3
                  THEN LET shown == parse_json_flag("launch-show", SubSeq(words, 3, Len(words)))
                       IN  [shown EXCEPT !.target = IF shown.ok THEN <<words[3]>> ELSE <<>>]
                  ELSE NoAction
    ELSE IF "launch" \in enabled
           THEN Named("launch", ParseFrom(parse_launch_run_args_from, words, 3,
                                          [Start EXCEPT !.target = <<words[2]>>]))
    ELSE NoAction

\* The action these words are, if they are the words of an action
parse_native(words, enabled) ==
    LET name == words[1].text
    IN  IF name = "launch" THEN parse_launch_action(words, enabled)
        ELSE IF name \notin enabled THEN NoAction
        ELSE IF name \in DOMAIN GrammarOf THEN Named(name, ParseFrom(GrammarOf[name], words, 2, Start))
        ELSE IF name \in {"launches", "targets"} THEN parse_json_flag(name, words)
        ELSE IF \/ name = "up" /\ Len(words) <= 2
                \/ name = "set-default" /\ Len(words) = 2
                \/ name \in {"show-default", "reset-default", "help"} /\ Len(words) = 1
               THEN Named(name, [Start EXCEPT !.target = Tail(words)])
        ELSE NoAction

is_gateway_program_word(w) == w = W("aw-gateway")

Rejected == [what |-> "reject", action |-> NoAction]

\* dispatch and parse_gateway_action
dispatch(command, pty, cfg) ==
    IF command.words = <<>>
      THEN IF pty /\ cfg.allow_interactive_shell THEN [Rejected EXCEPT !.what = "shell"] ELSE Rejected
    ELSE IF ~command.splits \/ command.words[1] = W("--") THEN Rejected
    ELSE LET words == IF is_gateway_program_word(command.words[1]) THEN Tail(command.words)
                      ELSE command.words
         IN  IF words # <<>> /\ words[1] = W(words[1].text) /\ words[1].text \in GATEWAY_ACTION_NAMES
               THEN LET action == parse_native(words, cfg.enabled_actions)
                    IN  IF action.ok THEN [what |-> "gateway", action |-> action] ELSE Rejected
             ELSE IF cfg.allow_container_commands THEN [Rejected EXCEPT !.what = "container"]
             ELSE Rejected

\* from_action: the variables of a launch are given once each.
from_action(action) ==
    LET vars == SelectSeq(action.given, LAMBDA o : o.flag = "--var")
    IN  action.name = "launch" =>
            \A i, j \in DOMAIN vars : vars[i].value.text = vars[j].value.text => i = j

\* A command of the host's SSH server: the defaults' filter, then the dispatch
dispatch_from_ssh(policy, command, pty, cfg) ==
    IF command.oversized \/ decide_command(policy, command) \notin {"login_shell", "run"} THEN Rejected
    ELSE LET d == dispatch(command, pty, cfg)
         IN  IF d.what = "gateway" /\ ~from_action(d.action) THEN Rejected ELSE d

-----------------------------------------------------------------------------
(* A command line as one reads it: which words are values of the ones      *)
(* before them, and what the others say.                                   *)

\* The positions of values and of the first -- that is none
ValuesIn(g, words) ==
    CHOOSE vs \in SUBSET (2 .. Len(words)) :
        \A p \in 2 .. Len(words) :
            p \in vs <=>
                /\ p - 1 >= 2 /\ p - 1 \notin vs
                /\ words[p - 1] = W(words[p - 1].text) /\ words[p - 1].text \in g.valued
                /\ g.tail => \A q \in 2 .. p - 2 : words[q] = W("--") => q \in vs

Separators(g, words) ==
    {p \in 2 .. Len(words) : g.tail /\ words[p] = W("--") /\ p \notin ValuesIn(g, words)
        /\ \A q \in 2 .. p - 1 : words[q] = W("--") => q \in ValuesIn(g, words)}

\* Those that neither are values nor come after the separator
OwnWords(g, words) ==
    {p \in 2 .. Len(words) : p \notin ValuesIn(g, words) /\ \A s \in Separators(g, words) : p < s}

\* The positions of an option's values
Given(g, words, flag) ==
    {p \in OwnWords(g, words) :
        words[p].text = flag /\ (IF words[p].value = <<>> THEN flag \in g.valued \cup g.switches
                                 ELSE flag \in g.inline)}

ValueAt(words, p) == IF words[p].value # <<>> THEN words[p].value[1] ELSE words[p + 1]

TargetsIn(g, words) == {p \in OwnWords(g, words) : ~Dashed(words[p].text)}

\* Every word has a meaning, and none is said twice that may not be.
WellFormed(g, words, name) ==
    /\ \A p \in OwnWords(g, words) \ TargetsIn(g, words) : p \in Given(g, words, words[p].text)
    /\ \A p \in OwnWords(g, words) :
          words[p] = W(words[p].text) /\ words[p].text \in g.valued => p < Len(words)
    /\ \A flag \in g.once : Cardinality(Given(g, words, flag)) <= 1
    /\ Cardinality(TargetsIn(g, words)) <= 1
    /\ g.target = "no" => TargetsIn(g, words) = {}
    /\ g.target = "first" => TargetsIn(g, words) \subseteq {2}
    /\ name = "run" => \E s \in Separators(g, words) : s < Len(words)
    /\ name = "status" => TargetsIn(g, words) = {} \/ Given(g, words, "--all") = {}

=============================================================================
