---------------------- MODULE BalloonAutoscaler_proofs ----------------------
(* The optimizer's arithmetic and what it guarantees of the balloon, for    *)
(* every machine, policy, host and user.                                    *)
EXTENDS BalloonAutoscaler, TLAPS

(* The policy _memory_policy_for_machine builds passes BalloonPolicy's own  *)
(* checks: constructing it never raises, on the smallest machine either.    *)
LEMMA MachinePolicyIsValid ==
    ASSUME NEW memSize \in Nat, NEW given, ValidPolicy(given)
    PROVE  /\ ValidPolicy(PolicyForMachine(memSize, given))
           /\ PolicyForMachine(memSize, given).max <= Room(memSize)
           /\ Room(memSize) \in Nat
<1>. DEFINE p == PolicyForMachine(memSize, given)
<1>1. Room(memSize) \in Nat
  BY SizesAreNatural DEF Room, Greater
<1>2. given \in Policies /\ given.min <= given.max
  BY DEF ValidPolicy
<1>3. /\ p \in Policies
      /\ p.min = Lesser(given.min, Room(memSize))
      /\ p.max = Lesser(given.max, Room(memSize))
      /\ p.step = given.step /\ p.low = given.low /\ p.high = given.high
  BY <1>1, <1>2 DEF PolicyForMachine, Policies, Lesser
<1>. HIDE DEF p
<1>4. p.min <= p.max /\ p.max <= Room(memSize)
  BY <1>1, <1>2, <1>3 DEF Lesser, Policies
<1>5. ValidPolicy(p)
  BY <1>3, <1>4 DEF ValidPolicy
<1>. QED BY <1>1, <1>4, <1>5 DEF p

(* So does the default one. *)
LEMMA DefaultPolicyIsValid ==
    ASSUME NEW memSize \in Nat
    PROVE  ValidPolicy(DefaultPolicy(memSize))
  BY SizesAreNatural
  DEF ValidPolicy, Policies, DefaultPolicy, Room, Lesser, Greater

(* _desired_amount answers an amount of the policy's range, whatever amount *)
(* it starts from.                                                          *)
LEMMA DesiredAmountInRange ==
    ASSUME NEW p, ValidPolicy(p), NEW current \in Int, NEW v \in Nat
    PROVE  DesiredAmount(p, current, v) \in p.min..p.max
  BY DEF ValidPolicy, Policies, DesiredAmount, Wanted, Lesser, Greater

(* From within the range it moves by at most one step. *)
LEMMA DesiredAmountStep ==
    ASSUME NEW p, ValidPolicy(p), NEW current \in p.min..p.max, NEW v \in Nat
    PROVE  DesiredAmount(p, current, v) - current \in (0 - p.step)..p.step
  BY DEF ValidPolicy, Policies, DesiredAmount, Wanted, Lesser, Greater

(* It never moves against the host's need: no inflation while memory is     *)
(* plentiful, no deflation while it is short.                               *)
LEMMA DesiredAmountDirection ==
    ASSUME NEW p, ValidPolicy(p), NEW current \in p.min..p.max, NEW v \in Nat
    PROVE  /\ v < p.low => DesiredAmount(p, current, v) >= current
           /\ v > p.high => DesiredAmount(p, current, v) <= current
           /\ v \in p.low..p.high => DesiredAmount(p, current, v) = current
  BY DEF ValidPolicy, Policies, DesiredAmount, Wanted, Lesser, Greater

LEMMA PolicyIsValid ==
    /\ ValidPolicy(Policy)
    /\ Policy.min \in Nat /\ Policy.max \in Nat /\ Cooldown \in Nat
    /\ Policy.max <= Room(MemSize) /\ Room(MemSize) \in Nat
  BY MachinePolicyIsValid, MachineIsValid
  DEF Policy, ValidPolicy, Policies, Cooldown

-----------------------------------------------------------------------------
(* A decided target fits the machine until it is sent and recorded. *)
TargetFits == at \in {"patch", "record"} => target <= Room(MemSize)

(* A worker still at work has failures left. *)
MayStillFail == at # "ended" => failures < MaxFailures

IInv == TypeOK /\ GuestKeepsHeadroom /\ TargetFits /\ MayStillFail

LEMMA InitIInv == Init => IInv
<1> SUFFICES ASSUME Init PROVE IInv OBVIOUS
<1>1. balloon \in 0..Policy.max
  <2>1. CASE AskedInitial = {}
    BY <2>1, PolicyIsValid DEF Init, InitialAmounts, ValidPolicy, Policies
  <2>2. CASE AskedInitial # {}
    <3>1. PICK amount \in AskedInitial : balloon = Greater(0, Lesser(amount, Policy.max))
      BY <2>2 DEF Init, InitialAmounts
    <3>2. amount \in Int
      BY MachineIsValid
    <3>. QED BY <3>1, <3>2, PolicyIsValid DEF Greater, Lesser
  <2>. QED BY <2>1, <2>2
<1>. QED
  BY <1>1, PolicyIsValid, MaxFailuresIsPositive DEF Init, IInv, TypeOK, GuestKeepsHeadroom, TargetFits, Never, MayStillFail

LEMMA NextIInv == IInv /\ [Next]_vars => IInv'
<1> SUFFICES ASSUME IInv, [Next]_vars PROVE IInv' OBVIOUS
<1> USE MaxFailuresIsPositive DEF IInv, TypeOK, GuestKeepsHeadroom, TargetFits, MayStillFail,
        Goto, Succeed, Fail
<1>1. CASE GetBalloon BY <1>1 DEF GetBalloon
<1>2. CASE GetFails BY <1>2 DEF GetFails
<1>3. CASE StoreConfig BY <1>3 DEF StoreConfig
<1>4. CASE Decide
  <2>. DEFINE desired == DesiredAmount(Policy, previous, available)
  <2>1. desired \in 0..Room(MemSize)
    <3>1. previous \in Int /\ available \in Nat
      BY ReadingsAreNatural
    <3>2. desired \in Policy.min..Policy.max
      BY <3>1, PolicyIsValid, DesiredAmountInRange
    <3>. QED BY <3>2, PolicyIsValid
  <2>. HIDE DEF desired
  <2>2. target' = target \/ target' = desired
    BY <1>4 DEF Decide, desired
  <2>3. at' = "patch" => target' = desired
    BY <1>4 DEF Decide, desired
  <2>4. /\ at' \in {"patch", "sleep"} /\ flight' = 0 /\ previous' = 0
        /\ at = "decide" /\ failures' \in {0, failures}
    BY <1>4 DEF Decide
  <2>5. UNCHANGED <<balloon, cached, payload, age, user, available, faults, gap>>
    BY <1>4 DEF Decide
  <2>. QED BY <2>1, <2>2, <2>3, <2>4, <2>5, PolicyIsValid
<1>5. CASE DecideFails BY <1>5 DEF DecideFails
<1>6. CASE Patch BY <1>6, PolicyIsValid DEF Patch
<1>7. CASE PatchFails BY <1>7 DEF PatchFails
<1>8. CASE Record BY <1>8, PolicyIsValid DEF Record, Lesser, Never
<1>9. CASE User
  <2>1. CASE UserStore
    BY <2>1, UserKeepsHeadroom, PolicyIsValid DEF UserStore, workerVars, Idle
  <2>2. ASSUME NEW amount \in UserAmounts, UserPatch(amount) \/ UserPatchFails(amount)
        PROVE  IInv'
    BY <2>2, UserKeepsHeadroom, PolicyIsValid DEF UserPatch, UserPatchFails, workerVars
  <2>. QED BY <1>9, <2>1, <2>2 DEF User
<1>10. CASE MemoryChanges BY <1>10 DEF MemoryChanges, workerVars
<1>11. CASE FaultsChange BY <1>11 DEF FaultsChange, workerVars
<1>12. CASE Tick BY <1>12, PolicyIsValid DEF Tick, Later, Never
<1>13. CASE UNCHANGED vars BY <1>13 DEF vars, workerVars
<1>. QED
  BY <1>1, <1>2, <1>3, <1>4, <1>5, <1>6, <1>7, <1>8, <1>9, <1>10, <1>11, <1>12, <1>13
  DEF Next, Worker

(* The cached and the real amounts, the ages and the worker's position keep *)
(* their ranges.                                                            *)
THEOREM TypeCorrect == Spec => []TypeOK
<1>1. IInv => TypeOK BY DEF IInv
<1>. QED BY InitIInv, NextIInv, <1>1, PTL DEF Spec

(* For every machine, policy and user the balloon leaves the guest its      *)
(* headroom.                                                                *)
THEOREM HeadroomKept == Spec => []GuestKeepsHeadroom
<1>1. IInv => GuestKeepsHeadroom BY DEF IInv
<1>. QED BY InitIInv, NextIInv, <1>1, PTL DEF Spec

-----------------------------------------------------------------------------
(* The cooldown.  Outside a recorded change, the last confirmed change is   *)
(* older than _last_change_at says, up to the time its request took; a      *)
(* request under way was allowed by the cooldown.                           *)
ChangeIsOld == at # "record" =>
    IF age = Never THEN gap = Cooldown ELSE gap + Timeout >= age
RequestIsShort == at \in {"patch", "record"} => flight <= Timeout
PatchWasAllowed == at = "patch" => ~CoolingDown

CInv == TypeOK /\ ChangeIsOld /\ RequestIsShort /\ PatchWasAllowed

LEMMA InitCInv == Init => CInv
<1>1. Init => TypeOK BY InitIInv DEF IInv
<1>. QED BY <1>1 DEF Init, CInv, ChangeIsOld, RequestIsShort, PatchWasAllowed

LEMMA NextCInv == IInv /\ CInv /\ [Next]_vars => CInv'
<1> SUFFICES ASSUME IInv, CInv, [Next]_vars PROVE CInv' OBVIOUS
<1>1. TypeOK' BY NextIInv DEF IInv
<1> USE PolicyIsValid, TimeoutIsNatural
        DEF CInv, TypeOK, ChangeIsOld, RequestIsShort, PatchWasAllowed, CoolingDown,
            Never, Goto, Succeed, Fail
<1>2. CASE Worker
  <2>1. CASE GetBalloon \/ GetFails \/ StoreConfig BY <1>1, <2>1 DEF GetBalloon, GetFails, StoreConfig
  <2>2. CASE Decide BY <1>1, <2>2 DEF Decide
  <2>3. CASE DecideFails BY <1>1, <2>3 DEF DecideFails
  <2>4. CASE Patch \/ PatchFails BY <1>1, <2>4 DEF Patch, PatchFails
  <2>5. CASE Record BY <1>1, <2>5 DEF Record, Lesser
  <2>. QED BY <1>2, <2>1, <2>2, <2>3, <2>4, <2>5 DEF Worker
<1>3. CASE User
  BY <1>1, <1>3 DEF User, UserStore, UserPatch, UserPatchFails, workerVars
<1>4. CASE MemoryChanges \/ FaultsChange
  BY <1>1, <1>4 DEF MemoryChanges, FaultsChange, workerVars
<1>5. CASE Tick BY <1>1, <1>5 DEF Tick, Later
<1>6. CASE UNCHANGED vars BY <1>1, <1>6 DEF vars, workerVars
<1>. QED BY <1>2, <1>3, <1>4, <1>5, <1>6 DEF Next

(* Any two answered changes of the worker are a cooldown apart, less the    *)
(* longest time a request takes, for every policy and every timing.         *)
THEOREM CooldownKept == Spec => CooldownHolds
<1>1. CInv => (at = "patch" /\ at' = "record" => gap + Timeout >= Cooldown)
  BY PolicyIsValid, TimeoutIsNatural
  DEF CInv, TypeOK, ChangeIsOld, PatchWasAllowed, CoolingDown, Never
<1>. QED
  BY <1>1, InitIInv, NextIInv, InitCInv, NextCInv, PTL DEF Spec, CooldownHolds

-----------------------------------------------------------------------------
(* Convergence.  Under a reading v the policy is at rest at Rest(v), and    *)
(* Distance(v) is how far the balloon is from it.                           *)
Rest(v) ==
    IF v < Policy.low THEN Policy.max
    ELSE IF v > Policy.high THEN Policy.min
    ELSE Lesser(Policy.max, Greater(Policy.min, balloon))

Distance(v) == Greater(Rest(v) - balloon, balloon - Rest(v))

(* Requests work, no user is inside update_balloon, the host's memory is v. *)
Undisturbed(v) == ~faults /\ user = Idle /\ available = v

(* What the worker has read is what Firecracker has; what it is about to    *)
(* send is the policy's answer to that.                                     *)
Tracks(v) ==
    /\ at = "store" => payload = balloon
    /\ at = "decide" => previous = balloon /\ cached = balloon
    /\ at = "patch" => target = DesiredAmount(Policy, balloon, v) /\ target # balloon
    /\ at = "record" => target = balloon

(* An undisturbed worker is on the track from its next reading on and stays *)
(* there; every change it then makes brings the balloon closer to rest, and *)
(* none takes it from a size the policy is content with.                    *)
Approaches ==
    [][\A v \in Available :
          Undisturbed(v) /\ Undisturbed(v)' =>
             /\ at = "sleep" => Tracks(v)'
             /\ Tracks(v) => /\ Tracks(v)'
                             /\ balloon' # balloon => Distance(v)' < Distance(v)
                             /\ Content(v) => Content(v)']_vars

(* The sizes _desired_amount leaves alone are those at rest. *)
LEMMA ContentIsRest ==
    ASSUME TypeOK, NEW v \in Available
    PROVE  Content(v) <=> Distance(v) = 0 /\ cached = balloon
<1>1. balloon \in Nat /\ v \in Nat /\ ValidPolicy(Policy)
  BY PolicyIsValid, ReadingsAreNatural DEF TypeOK
<1>. QED
  BY <1>1 DEF Content, Distance, Rest, DesiredAmount, Wanted, Lesser, Greater,
              ValidPolicy, Policies

(* One answered change towards the policy's wish shortens the distance. *)
LEMMA ChangeApproaches ==
    ASSUME TypeOK, NEW v \in Available,
           balloon' = DesiredAmount(Policy, balloon, v), balloon' # balloon
    PROVE  Distance(v)' < Distance(v)
<1>1. balloon \in Nat /\ v \in Nat /\ ValidPolicy(Policy) /\ Policy' = Policy
  BY PolicyIsValid, ReadingsAreNatural DEF TypeOK, Policy
<1>. QED
  BY <1>1 DEF Distance, Rest, DesiredAmount, Wanted, Lesser, Greater,
              ValidPolicy, Policies

LEMMA WorkerApproaches ==
    ASSUME TypeOK, Worker, NEW v \in Available, Undisturbed(v)
    PROVE  /\ at = "sleep" => Tracks(v)'
           /\ Tracks(v) => /\ Tracks(v)'
                           /\ balloon' # balloon => Distance(v)' < Distance(v)
                           /\ Content(v) => Content(v)'
<1>. USE DEF Goto, Succeed, Fail, Tracks, Undisturbed, Content
<1>. USE DEF Policy
<1>1. CASE GetBalloon BY <1>1 DEF GetBalloon
<1>2. CASE GetFails BY <1>2 DEF GetFails
<1>3. CASE StoreConfig BY <1>3 DEF StoreConfig
<1>4. CASE Decide BY <1>4 DEF Decide
<1>5. CASE DecideFails BY <1>5 DEF DecideFails
<1>6. CASE Patch BY <1>6, ChangeApproaches DEF Patch
<1>7. CASE PatchFails BY <1>7 DEF PatchFails
<1>8. CASE Record BY <1>8 DEF Record
<1>. QED BY <1>1, <1>2, <1>3, <1>4, <1>5, <1>6, <1>7, <1>8 DEF Worker

LEMMA OthersLeaveTheTrack ==
    ASSUME TypeOK, [Next]_vars, ~Worker, NEW v \in Available,
           Undisturbed(v), Undisturbed(v)'
    PROVE  UNCHANGED <<balloon, cached, at, payload, previous, target>>
<1>1. ASSUME NEW amount \in UserAmounts PROVE ~UserPatch(amount) /\ ~UserPatchFails(amount)
  <2>1. amount # Idle
    BY UserKeepsHeadroom, PolicyIsValid DEF Idle
  <2>. QED BY <2>1 DEF Undisturbed, UserPatch, UserPatchFails
<1>2. ~UserStore
  BY DEF Undisturbed, UserStore
<1>3. ~User BY <1>1, <1>2 DEF User
<1>. QED
  BY <1>3 DEF Next, MemoryChanges, FaultsChange, Tick, vars, workerVars

(* For every machine and policy: no overshoot, no turning back, no drift    *)
(* once at rest, from whatever amounts stale readings, lost answers and     *)
(* users have left.                                                         *)
THEOREM ChangesApproachRest == Spec => Approaches
<1>1. TypeOK /\ [Next]_vars =>
        [\A v \in Available :
          Undisturbed(v) /\ Undisturbed(v)' =>
             /\ at = "sleep" => Tracks(v)'
             /\ Tracks(v) => /\ Tracks(v)'
                             /\ balloon' # balloon => Distance(v)' < Distance(v)
                             /\ Content(v) => Content(v)']_vars
  <2> SUFFICES ASSUME TypeOK, [Next]_vars, NEW v \in Available,
                      Undisturbed(v), Undisturbed(v)'
               PROVE  /\ at = "sleep" /\ vars' # vars => Tracks(v)'
                      /\ Tracks(v) => /\ Tracks(v)'
                                      /\ balloon' # balloon => Distance(v)' < Distance(v)
                                      /\ Content(v) => Content(v)'
    OBVIOUS
  <2>1. CASE Worker BY <2>1, WorkerApproaches
  <2>2. CASE ~Worker
    <3>1. UNCHANGED <<balloon, cached, at, payload, previous, target>>
      BY <2>2, OthersLeaveTheTrack
    <3>. QED BY <3>1 DEF Tracks, Content, Policy
  <2>. QED BY <2>1, <2>2
<1>. QED BY <1>1, TypeCorrect, PTL DEF Spec, Approaches

=============================================================================
