-------------------------- MODULE MCGatewaySession --------------------------
(***************************************************************************)
(* GatewaySession on small instances: three operations in two or three     *)
(* gateway processes.                                                      *)
(***************************************************************************)
EXTENDS GatewaySession, TLC

CONSTANTS o1, o2, o3, g1, g2, g3

\* Two operations share an HTTP server, the third is a CLI invocation.
ServerAndCli == (o1 :> g1) @@ (o2 :> g1) @@ (o3 :> g2)

\* Three CLI invocations.
ThreeClis == (o1 :> g1) @@ (o2 :> g2) @@ (o3 :> g3)

\* No two live or dead gateways share a pid.
OwnPids == [g \in Gateways |-> IF g = g1 THEN 1 ELSE IF g = g2 THEN 2 ELSE 3]

\* The third gateway is given the pid the first one had.
RecycledPid == [g \in Gateways |-> IF g = g2 THEN 2 ELSE 1]

OneContext == [o \in Ops |-> {"tenant"}]

\* An invocation without context, a scoped one, and one scoped more narrowly.
MixedContexts == (o1 :> {}) @@ (o2 :> {"tenant"}) @@ (o3 :> {"tenant", "web"})

=============================================================================
