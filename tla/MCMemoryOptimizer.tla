------------------------- MODULE MCMemoryOptimizer -------------------------
(* Two callers share one optimizer: start races stop, and either races the  *)
(* worker.  Two Thread objects are enough: when one is made every other has *)
(* ended, and at most the other caller still joins one.  The worker gives   *)
(* up at its first failure, so that it ends by itself as soon as it can.    *)
EXTENDS MemoryOptimizer
=============================================================================
