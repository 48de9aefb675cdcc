---------------------------- MODULE MCJailerRetry ----------------------------
(* One Jailer whose methods are called again after one of them raised. *)
EXTENDS Jailer, TLC
CONSTANTS j1, j2, i1, i2
OneId == [j \in {j1} |-> i1]
=============================================================================
