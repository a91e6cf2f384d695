----------------------------- MODULE MCService -----------------------------
(* Instances of Service for TLC: one server, at most one CLI command.          *)
EXTENDS Service

CONSTANTS server, cli, x1, t1, t2, s1, s2

=============================================================================
