---------------------------- MODULE MCExecAgent ----------------------------
(* A script that fills the pipe more than once, and two clients.            *)
EXTENDS ExecAgent
CONSTANTS c1, c2
=============================================================================
