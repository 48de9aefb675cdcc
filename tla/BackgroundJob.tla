--------------------------- MODULE BackgroundJob ---------------------------
(***************************************************************************)
(* What a crackerVM promises of its background memory optimizer            *)
(* (BalloonMemoryOptimizer, src/crackersdk/balloon_policy.py), without its *)
(* threads, locks and events: a job that is done by nobody or by one       *)
(* worker.  A worker begins untold; once told to stop, by a caller or by   *)
(* itself, it is told until it ends, and it does end; it ends no other way.*)
(***************************************************************************)
CONSTANT Workers

VARIABLES working,  \* the workers at work
          told      \* they were told to stop

vars == <<working, told>>

Init == working = {} /\ told = FALSE

Start(w) ==
    /\ working = {}
    /\ working' = {w} /\ told' = FALSE

Tell ==
    /\ working # {}
    /\ told' = TRUE /\ UNCHANGED working

End ==
    /\ told
    /\ working' = {} /\ told' = FALSE

Next == (\E w \in Workers : Start(w)) \/ Tell \/ End

Spec == Init /\ [][Next]_vars /\ WF_vars(End)

=============================================================================
