---- MODULE MCExecCancel ----
(* Two gateways, each with a command: the second one may run beside the first *)
(* or after its death, then with its pid.                                     *)
EXTENDS ExecCancel, TLC

CONSTANTS c1, c2, g1, g2

Owners == (c1 :> g1) @@ (c2 :> g2)
RecycledPids == (g1 :> {1}) @@ (g2 :> {1, 2})
====
