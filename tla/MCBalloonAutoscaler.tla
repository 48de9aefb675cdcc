------------------------ MODULE MCBalloonAutoscaler ------------------------
(* A machine of 7 units that keeps 1: the given policy's maximum is cut,    *)
(* the step does not divide the range, and the balloon starts below the     *)
(* policy's minimum or at its maximum.                                      *)
EXTENDS BalloonAutoscaler
SmallPolicy == [min |-> 1, max |-> 9, step |-> 2, low |-> 1, high |-> 2, cooldown |-> 3]
=============================================================================
