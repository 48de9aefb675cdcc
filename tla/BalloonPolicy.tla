---------------------------- MODULE BalloonPolicy ----------------------------
(***************************************************************************)
(* The arithmetic of the memory optimizer: which policy a machine gets,    *)
(* with how much balloon it boots, and what the next balloon size is       *)
(* (src/crackersdk/balloon_policy.py, src/crackersdk/vm.py).  Sizes are in *)
(* MiB; 128 and 64 of the source are parameters so that TLC can use small  *)
(* numbers.                                                                *)
(***************************************************************************)
EXTENDS Integers

CONSTANTS
    Headroom,   \* 128: what a balloon always leaves to the guest
    DefaultMin  \* 64: smallest balloon of the default policy

ASSUME SizesAreNatural == Headroom \in Nat /\ DefaultMin \in Nat

Lesser(a, b) == IF a < b THEN a ELSE b
Greater(a, b) == IF a > b THEN a ELSE b

(* BalloonPolicy.__post_init__ accepts exactly these. *)
Policies == [min : Nat, max : Nat, step : Nat, low : Nat, high : Nat, cooldown : Nat]
ValidPolicy(p) ==
    /\ p \in Policies
    /\ p.min <= p.max
    /\ p.step > 0
    /\ p.low <= p.high

(* max_balloon_mib of a machine: never below 0. *)
Room(memSize) == Greater(0, memSize - Headroom)

(* _memory_policy_for_machine *)
DefaultPolicy(memSize) ==
    [min |-> Lesser(DefaultMin, Room(memSize)), max |-> Room(memSize),
     step |-> 128, low |-> 2048, high |-> 8192, cooldown |-> 5]

(* Mutant of PolicyForMachine: the given policy is used as it is. *)
PolicyForMachine_Unbounded(memSize, given) == given

PolicyForMachine(memSize, given) ==
    [given EXCEPT !.min = Lesser(given.min, Room(memSize)),
                  !.max = Lesser(given.max, Room(memSize))]

(* _initial_balloon_amount: the policy's minimum, or the amount asked for,  *)
(* which only the maximum bounds.  asked is empty when nothing was asked.   *)
InitialAmounts(policy, asked) ==
    IF asked = {} THEN {policy.min}
    ELSE {Greater(0, Lesser(amount, policy.max)) : amount \in asked}

(* _desired_amount *)
Wanted(policy, current, available) ==
    IF available < policy.low THEN current + policy.step
    ELSE IF available > policy.high THEN current - policy.step
    ELSE current

(* Mutant of DesiredAmount: no lower bound. *)
DesiredAmount_NoMin(policy, current, available) ==
    Lesser(policy.max, Wanted(policy, current, available))

DesiredAmount(policy, current, available) ==
    Lesser(policy.max, Greater(policy.min, Wanted(policy, current, available)))

=============================================================================
