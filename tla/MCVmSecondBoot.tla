--------------------------- MODULE MCVmSecondBoot ---------------------------
(* What README.md says of the balloon at boot, when the object is started a *)
(* second time.                                                             *)
EXTENDS VmSession
=============================================================================
