------------------------------ MODULE MCDaemon ------------------------------
(* Model values for checking Daemon with TLC. *)
EXTENDS Daemon

CONSTANTS c1, c2, p1, p2

MCClients == {c1, c2}
MCPids == {p1, p2}
====
