---------------------------- MODULE MCJailer ----------------------------
(* Two Jailers with jails of their own under one chroot base, configured    *)
(* with the same firecracker binary or with different ones.                 *)
EXTENDS Jailer, TLC
CONSTANTS j1, j2, i1, i2
DistinctIds == (j1 :> i1) @@ (j2 :> i2)
=============================================================================
