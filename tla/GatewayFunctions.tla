-------------------------- MODULE GatewayFunctions ---------------------------
(***************************************************************************)
(* The parts of the gateway that are functions of their input: how the     *)
(* configuration is read, put together and accepted, and what is derived   *)
(* from it.  Each action evaluates one of them on one input; the           *)
(* properties compare the result with what it should be.                   *)
(***************************************************************************)
EXTENDS ConfigFiles, ConfigFunctions, SshCommands

CONSTANTS
    FileInputs,     \* configuration files, a root and what it includes and extends
    SshInputs       \* sets of commands that came over SSH, with the policy and what is enabled

LoadFiles == Evaluate("files", FileInputs, LAMBDA i : load_gateway_root(i, 1))

DispatchSsh ==
    \E inputs \in SshInputs :
        Evaluate("ssh", inputs, LAMBDA i : dispatch_from_ssh(i.policy, i.command, i.pty, i.cfg))

Next == \/ LoadFiles \/ ConfigNext \/ DispatchSsh

Spec == Init /\ [][Next]_vars

-----------------------------------------------------------------------------
(* Properties.                                                             *)

\* A configuration is loaded exactly if the extended files are no endless or too
\* long chain, no file includes itself, each is fit for its place and no name is
\* defined twice by one root and its includes; and then each leaf is what the
\* nearest root says, and an exposed host socket or a variable of a service's env is
\* as a whole what the nearest root that has it says, whatever files the roots share.
LoadedIsTheComposition ==
    kind = "files" =>
        LET chain == Chain(input, 1, MaxExtendsDepth)
            leaf(n) == Merged([i \in DOMAIN chain |-> Says(input, chain[i], n)])
            entry(n) == Merged([i \in DOMAIN chain |-> Entry(input[chain[i]].array, n)])
        IN  /\ result.ok <=> Loadable(input, chain)
            /\ result.ok =>
                 /\ result.defs = [n \in Defined(input, chain) |-> leaf(n)]
                 /\ Arrays(input, chain) # {} /\ NoRepeats(result.array) =>
                      /\ \A i \in DOMAIN result.array :
                            result.array[i].sets = entry(result.array[i].name)
                      /\ ArrayNames(result.array) =
                            UNION {ArrayNames(input[chain[i]].array) : i \in DOMAIN chain}

\* The ways to put a command into another one.  The scan is lexical and best effort:
\* a shell that is joined to other text by a control character is not seen as one.
Wrapped(words) ==
    {<<W("ls")>> \o words, <<W("scp"), W("--")>> \o words,
     <<W("aw-gateway"), W("run"), W("--")>> \o words,
     <<W("ls"), W("sh"), W("-lc"), Quoted(words)>>}
    \cup (IF is_shell_interpreter(words[1].text) THEN {}
          ELSE {<<Tokens(<<"x">> \o words[1].tokens)>> \o Tail(words)})

\* An action that came over SSH is enabled under its own name and is what its words
\* say: each is the target, an option, the value of the option before it or part of
\* the command behind the first -- that is no such value; a command that says so is
\* not refused, and the name of an action never reaches the container.  A transfer
\* the policy refuses stays refused inside any other command.
DispatchedAsWritten ==
    kind = "ssh" =>
        LET all == input.command.words
            words == IF all # <<>> /\ is_gateway_program_word(all[1]) THEN Tail(all) ELSE all
            first == IF words = <<>> THEN "" ELSE words[1].text
            action == result.action
            launch == action.name = "launch"
            g == IF launch THEN parse_launch_run_args_from ELSE GrammarOf[first]
            said == IF launch THEN Tail(words) ELSE words
            values(flag) == {ValueAt(said, p) : p \in Given(g, said, flag)}
            refused(ws) == decide_command(input.policy, [input.command EXCEPT !.words = ws]) # "run"
        IN  /\ result.what = "gateway" =>
                 /\ action.name \in input.cfg.enabled_actions
                 /\ first = IF action.name = "launch-show" THEN "launch" ELSE action.name
            /\ result.what = "container" => first \notin GATEWAY_ACTION_NAMES
            /\ first \in DOMAIN GrammarOf \cap input.cfg.enabled_actions /\ input.command.splits =>
                 (result.what = "gateway" <=> ~refused(all) /\ WellFormed(g, words, first))
            /\ result.what = "gateway" /\ (launch \/ first \in DOMAIN GrammarOf) =>
                 /\ \A flag \in g.valued :
                       /\ {o.value : o \in {x \in ToSet(action.given) : x.flag = flag}} = values(flag)
                       /\ flag \in g.once => Cardinality(values(flag)) <= 1
                 /\ ToSet(action.target) = IF launch THEN {said[1]}
                                           ELSE {words[p] : p \in TargetsIn(g, words)}
                 /\ ToSet(action.tail) =
                       {SubSeq(said, p + 1, Len(said)) : p \in Separators(g, said)}
            /\ all # <<>> /\ input.command.splits /\ refused(all) =>
                 result.what = "reject" /\ \A ws \in Wrapped(all) : refused(ws)

=============================================================================
