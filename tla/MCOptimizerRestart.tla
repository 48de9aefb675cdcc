------------------------- MODULE MCOptimizerRestart ------------------------
(* What README.md says of the optimizer at boot, when the VM is stopped or  *)
(* dies and is booted again by the same single caller.                      *)
EXTENDS MemoryOptimizer
=============================================================================
