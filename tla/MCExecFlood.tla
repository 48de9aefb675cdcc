---------------------------- MODULE MCExecFlood ----------------------------
(* One client, and a script that never stops writing.                       *)
EXTENDS ExecAgent
CONSTANTS c1
=============================================================================
