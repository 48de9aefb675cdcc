----------------------------- MODULE MCVmSession ----------------------------
(* run() while another thread calls the same object and programs follow     *)
(* each other, for two objects: one with the memory optimizer on, whose     *)
(* worker polls the VM, and which takes no snapshots, and one with it off,  *)
(* whose snapshots are taken, overwritten, lost and restored, with a device *)
(* that a restore does not give back to the cache.                          *)
EXTENDS VmSession

VARIABLE optimizes      \* which of the two it is

Worked == INSTANCE VmSession WITH UsedDevices <- Ifaces
Pooled == INSTANCE VmSession WITH UsedDevices <- {"vsock"}, OptimizeMemory <- FALSE

MCInit == Init /\ optimizes \in BOOLEAN

MCNext ==
    /\ \/ optimizes /\ Worked!Next /\ UNCHANGED disk
       \/ ~optimizes /\ Pooled!Next
    /\ UNCHANGED optimizes

RunContinuesEither ==
    \/ optimizes /\ Worked!RunContinues
    \/ ~optimizes /\ Pooled!RunContinues

(* The fairness of Spec; without the optimizer there is no worker. *)
MCSpec ==
    /\ MCInit /\ [][MCNext]_<<vars, optimizes>>
    /\ WF_vars(~Blocked("run") /\ RunContinuesEither)
    /\ WF_vars(optimizes /\ Worked!WorkerNotices)
=============================================================================
