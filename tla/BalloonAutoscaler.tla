------------------------- MODULE BalloonAutoscaler -------------------------
(***************************************************************************)
(* One running VM's balloon, moved by the optimizer's worker               *)
(* (BalloonAutoscaler.reconcile) and by a user's update_balloon() on       *)
(* another thread.  Both talk to Firecracker, whose amount is the truth,   *)
(* and both write the object's cached amount; a read and the write that    *)
(* depends on it are separate steps.                                       *)
(*                                                                         *)
(* Time passes in ticks.  Ages are counted up to Cooldown, beyond which    *)
(* the code cannot tell them apart; a request lasts at most Timeout.  A    *)
(* local variable of the worker is 0 where the code no longer reads it.    *)
(* MaxFailures failed reconciles in a row end the worker for good; what    *)
(* starts another one is in MemoryOptimizer.                               *)
(***************************************************************************)
EXTENDS BalloonPolicy

CONSTANTS
    MemSize,      \* the machine's memory
    GivenPolicy,  \* the constructor's memory_policy
    AskedInitial, \* the constructor's initial_balloon_mib, {} for None
    UserAmounts,  \* amounts a user passes to update_balloon
    Available,    \* host memory readings
    Timeout,      \* longest time a request can take, in ticks
    MaxFailures   \* max_failures, 3 by default

Policy == PolicyForMachine(MemSize, GivenPolicy)
Cooldown == Policy.cooldown
Never == Cooldown + 1   \* _last_change_at is None

ASSUME MachineIsValid ==
    MemSize \in Nat /\ ValidPolicy(GivenPolicy) /\ AskedInitial \subseteq Int
ASSUME UserKeepsHeadroom == UserAmounts \subseteq 0..Room(MemSize)
ASSUME ReadingsAreNatural == Available \subseteq Nat /\ Available # {}
ASSUME TimeoutIsNatural == Timeout \in Nat
ASSUME MaxFailuresIsPositive == MaxFailures \in Nat \ {0}

VARIABLES
    balloon,    \* Firecracker's target amount
    cached,     \* vm._balloon.amount_mib
    at,         \* where the worker is in reconcile(); "ended" for good
    failures,   \* _consecutive_failures
    payload,    \* what GET /balloon answered
    previous,   \* previous_amount
    target,     \* desired_amount
    age,        \* time since _last_change_at
    flight,     \* time since the worker read the clock
    user,       \* the user's thread: "idle", or the amount it has to store
    available,  \* host memory available now
    faults,     \* requests can fail or lose their answer now
    gap         \* history: time since the last confirmed change took effect

workerVars == <<at, failures, payload, previous, target, age, flight>>
vars == <<balloon, cached, workerVars, user, available, faults, gap>>

Idle == -1

Init ==
    /\ balloon \in InitialAmounts(Policy, AskedInitial)
    /\ cached = balloon
    /\ at = "sleep" /\ failures = 0 /\ payload = 0 /\ previous = 0 /\ target = 0
    /\ age = Never /\ flight = 0
    /\ user = Idle
    /\ available \in Available
    /\ faults \in BOOLEAN
    /\ gap = Cooldown

Goto(from, to) == at = from /\ at' = to

(* What _run makes of reconcile()'s result: the counter starts again, or    *)
(* the loop ends at max_failures.                                           *)
Succeed(from) == Goto(from, "sleep") /\ failures' = 0

Fail(from) ==
    /\ failures' = failures + 1
    /\ Goto(from, IF failures' = MaxFailures THEN "ended" ELSE "sleep")

-----------------------------------------------------------------------------
(* reconcile: status() and balloon_config(), which keeps the old value when *)
(* GET /balloon fails and otherwise overwrites the cache with its answer.   *)

GetBalloon ==
    /\ Goto("sleep", "store")
    /\ payload' = balloon
    /\ UNCHANGED <<balloon, cached, failures, previous, target, age, flight, user,
                   available, faults, gap>>

GetFails ==
    /\ faults
    /\ Goto("sleep", "decide")
    /\ previous' = cached
    /\ UNCHANGED <<balloon, cached, failures, payload, target, age, flight, user,
                   available, faults, gap>>

(* Mutant of StoreConfig: the answer is returned and not stored. *)
StoreConfig_NotKept ==
    /\ Goto("store", "decide")
    /\ previous' = payload /\ payload' = 0
    /\ UNCHANGED <<balloon, cached, failures, target, age, flight, user,
                   available, faults, gap>>

StoreConfig ==
    /\ Goto("store", "decide")
    /\ cached' = payload /\ previous' = payload /\ payload' = 0
    /\ UNCHANGED <<balloon, failures, target, age, flight, user, available,
                   faults, gap>>

(* The decision: nothing to do, too early, or a PATCH; the clock is read    *)
(* before the request.  Reading /proc/meminfo may fail.                     *)
CoolingDown == age # Never /\ age < Cooldown

Decide ==
    LET desired == DesiredAmount(Policy, previous, available)
        go == desired # previous /\ ~CoolingDown
    IN
    /\ IF go THEN Goto("decide", "patch") /\ UNCHANGED failures
             ELSE Succeed("decide")    \* "noop" and "cooldown" are successes
    /\ target' = IF go THEN desired ELSE target
    /\ flight' = 0 /\ previous' = 0
    /\ UNCHANGED <<balloon, cached, payload, age, user, available, faults, gap>>

DecideFails ==
    /\ faults
    /\ Fail("decide") /\ previous' = 0
    /\ UNCHANGED <<balloon, cached, payload, target, age, flight, user,
                   available, faults, gap>>

(* update_balloon by the worker: PATCH /balloon, then the cache, then       *)
(* _last_change_at, set to the time read before the request.                *)
Patch ==
    /\ Goto("patch", "record")
    /\ balloon' = target /\ gap' = 0
    /\ UNCHANGED <<cached, failures, payload, previous, target, age, flight, user,
                   available, faults>>

PatchFails ==
    /\ faults
    /\ Fail("patch")
    /\ balloon' \in {balloon, target}    \* refused, or only the answer is lost
    /\ target' = 0 /\ flight' = 0
    /\ UNCHANGED <<cached, payload, previous, age, user, available, faults, gap>>

(* Mutant of Record: _last_change_at is not set. *)
Record_NoClock ==
    /\ Succeed("record")
    /\ cached' = target
    /\ target' = 0 /\ flight' = 0
    /\ UNCHANGED <<balloon, payload, previous, age, user, available, faults, gap>>

Record ==
    /\ Succeed("record")
    /\ cached' = target
    /\ age' = Lesser(flight, Cooldown)
    /\ target' = 0 /\ flight' = 0
    /\ UNCHANGED <<balloon, payload, previous, user, available, faults, gap>>

-----------------------------------------------------------------------------
(* update_balloon by a user. *)

UserPatch(amount) ==
    /\ user = Idle
    /\ balloon' = amount /\ user' = amount
    /\ UNCHANGED <<cached, workerVars, available, faults, gap>>

UserPatchFails(amount) ==
    /\ user = Idle /\ faults
    /\ balloon' = amount    \* the answer is lost
    /\ UNCHANGED <<cached, workerVars, user, available, faults, gap>>

UserStore ==
    /\ user # Idle
    /\ cached' = user /\ user' = Idle
    /\ UNCHANGED <<balloon, workerVars, available, faults, gap>>

-----------------------------------------------------------------------------
(* The host. *)

MemoryChanges ==
    /\ available' \in Available \ {available}
    /\ UNCHANGED <<balloon, cached, workerVars, user, faults, gap>>

FaultsChange ==
    /\ faults' = ~faults
    /\ UNCHANGED <<balloon, cached, workerVars, user, available, gap>>

Later(t, bound) == IF t < bound THEN t + 1 ELSE t

Tick ==
    /\ at \in {"patch", "record"} => flight < Timeout
    /\ flight' = IF at \in {"patch", "record"} THEN flight + 1 ELSE flight
    /\ age' = IF age = Never THEN age ELSE Later(age, Cooldown)
    /\ gap' = Later(gap, Cooldown)
    /\ UNCHANGED <<balloon, cached, at, failures, payload, previous, target,
                   user, available, faults>>

Worker == GetBalloon \/ GetFails \/ StoreConfig \/ Decide \/ DecideFails
              \/ Patch \/ PatchFails \/ Record

User == UserStore \/ \E amount \in UserAmounts : UserPatch(amount) \/ UserPatchFails(amount)

Next == Worker \/ User \/ MemoryChanges \/ FaultsChange \/ Tick

(* The worker is scheduled until its loop ends, a thread inside             *)
(* update_balloon is too, and time passes.                                  *)
Spec == /\ Init /\ [][Next]_vars
        /\ WF_vars(Worker) /\ WF_vars(UserStore) /\ WF_vars(Tick)

-----------------------------------------------------------------------------
TypeOK ==
    /\ balloon \in Nat /\ cached \in Nat /\ payload \in Nat
    /\ previous \in Nat /\ target \in Nat
    /\ at \in {"sleep", "store", "decide", "patch", "record", "ended"}
    /\ failures \in 0..MaxFailures
    /\ age \in 0..Never /\ flight \in Nat /\ gap \in 0..Cooldown
    /\ user \in UserAmounts \cup {Idle}
    /\ available \in Available /\ faults \in BOOLEAN

(* The balloon never eats into the memory the policy leaves to the guest,   *)
(* however the worker's stale reading meets the user's updates.             *)
GuestKeepsHeadroom == balloon <= Room(MemSize)

(* Two changes of the worker that were answered are a cooldown apart, less  *)
(* the time a request takes, the clock being read before it.                *)
CooldownHolds == [][at = "patch" /\ at' = "record" => gap + Timeout >= Cooldown]_vars

(* A worker that is told to give up only by MaxFailures failures in a row,  *)
(* and has not met them, works towards the policy's wish: while requests    *)
(* work, nobody else moves the balloon and the host's memory stays as it    *)
(* is, the balloon reaches the size at which the policy is content, and the *)
(* object knows it.  A worker that has ended promises nothing.              *)
Content(v) == balloon = DesiredAmount(Policy, balloon, v) /\ cached = balloon
Settles ==
    \A v \in Available :
        <>[](~faults /\ user = Idle /\ available = v /\ at # "ended") => <>[]Content(v)

=============================================================================
