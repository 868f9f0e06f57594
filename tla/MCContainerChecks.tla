------------------------- MODULE MCContainerChecks --------------------------
(* SshEndpoint with two processes and two ports, and ContainerReuse with two  *)
(* processes and one host socket.  They share no variable and no property is  *)
(* about both, so their interleavings are left out: one of them moves, the    *)
(* other stays in an initial state.                                           *)
EXTENDS SshEndpoint, ContainerReuse, TLC

CONSTANTS g1, g2

Expose(guest) == {[host |-> <<"run", "s">>, guest |-> guest]}

\* Each differs from another one in one respect; the last is refused.
MCConfigs ==
    {[access |-> "ssh", layout |-> <<"home">>, exposures |-> {}],
     [access |-> "runtime_exec", layout |-> <<"home">>, exposures |-> {}],
     [access |-> "ssh", layout |-> <<"work">>, exposures |-> {}],
     [access |-> "ssh", layout |-> <<"home">>, exposures |-> Expose(<<"run", "a">>)],
     [access |-> "ssh", layout |-> <<"home">>, exposures |-> Expose(<<"run", "b">>)],
     [access |-> "ssh", layout |-> <<"work">>, exposures |-> Expose(<<"work", "a">>)]}

VARIABLE part  \* the one that moves, never changed

\* The other is left in one initial state.
MCInit ==
    /\ Init /\ ReuseInit
    /\ part \in {"endpoint", "reuse"}
    /\ part # "endpoint" => ~apple /\ ~direct
    /\ part # "reuse" => ~apple_runtime /\ actual.state = "none"

MCNext ==
    /\ IF part = "reuse" THEN ReuseNext /\ UNCHANGED vars ELSE Next /\ UNCHANGED reuseVars
    /\ UNCHANGED part

MCSpec == MCInit /\ [][MCNext]_<<part, vars, reuseVars>>

Symmetry == Permutations({g1, g2})
=============================================================================
