---------------------------- MODULE MCJailerRace ----------------------------
(* Two Jailers that were given the same jail id. *)
EXTENDS Jailer, TLC
CONSTANTS j1, j2, i1, i2
SameId == [j \in {j1, j2} |-> i1]
=============================================================================
