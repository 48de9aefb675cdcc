---------------------------- MODULE MCJobRunner ----------------------------
(* One connection that the host gave up on and one it waits for; the job's  *)
(* timer can run out before the host's or after it.                         *)
EXTENDS JobRunner
=============================================================================
