---- MODULE MCServiceSupervisor ----
(* A proxy, a service behind it that is probed and restarted always, and one *)
(* behind that which is restarted when it failed.  The order of the shutdown *)
(* is the one service_stop_order computes.                                   *)
EXTENDS ServiceSupervisor, TLC

CONSTANTS proxy, web, sshd

MCServices == {proxy, web, sshd}

MCChain == (proxy :> {}) @@ (web :> {proxy}) @@ (sshd :> {web})

MCPolicy == (proxy :> "always") @@ (web :> "always") @@ (sshd :> "on-failure")

Order == INSTANCE ServiceOrder WITH configured <- <<proxy, web, sshd>>

MCChainOrder == Order!service_stop_order(MCChain)
====
