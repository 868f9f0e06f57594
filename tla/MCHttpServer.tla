---- MODULE MCHttpServer ----
(* A wait, and a PTY lease for which two sockets compete. *)
EXTENDS HttpServer

CONSTANTS w1, p1, s1, s2

OnePty == [s \in Sockets |-> p1]
====
