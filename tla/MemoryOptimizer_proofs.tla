----------------------- MODULE MemoryOptimizer_proofs -----------------------
(* One worker at a time, no stop request lost, the refinement of the        *)
(* abstract job, locks that cannot deadlock, and that a worker told to stop *)
(* or left without a VM ends when it is scheduled, for any number of        *)
(* callers, Thread objects and tolerated failures.                          *)
EXTENDS MemoryOptimizer, TLAPS

(* Whoever is in start() holds the optimizer's lock ... *)
Starting(c) == at[c] \in {"check", "clear", "spawn"}
LockIsHeld == \A c \in Callers : Starting(c) => lock = c

(* ... and once it saw no live worker, there is none until it makes one.    *)
(* Only start() makes workers, so the check cannot go stale.                *)
CheckStaysTrue ==
    \A c \in Callers : at[c] \in {"clear", "spawn"} => \A w \in Workers : ~IsAlive(w)

IInv == TypeOK /\ LockIsHeld /\ CheckStaysTrue /\ OneWorker

(* A step of anyone leaves the dead dead, unless it is Spawn. *)
StaysDead == \A w \in Workers : step[w] = "dead" => step'[w] = "dead"

LEMMA InitIInv == Init => IInv
<1> SUFFICES ASSUME Init PROVE IInv OBVIOUS
<1>1. TypeOK
  <2>1. 0 \in 0..MaxFailures BY MaxFailuresIsPositive
  <2>. QED BY <2>1 DEF Init, TypeOK, CallerSteps, WorkerSteps, Methods
<1>2. LockIsHeld /\ CheckStaysTrue
  BY DEF Init, LockIsHeld, Starting, CheckStaysTrue
<1>3. OneWorker
  BY DEF Init, OneWorker, IsAlive
<1>. QED BY <1>1, <1>2, <1>3 DEF IInv

(* Every step of the specification keeps the variables' types. *)
LEMMA NextTypeOK == TypeOK /\ [Next]_vars => TypeOK'
<1> SUFFICES ASSUME TypeOK, [Next]_vars PROVE TypeOK' OBVIOUS
<1> USE DEF TypeOK, CallerSteps, WorkerSteps, Methods
<1>1. ASSUME NEW c \in Callers, Calls(c) PROVE TypeOK'
  BY <1>1 DEF Calls, StartProcess, Status, Boot, Pause, Resume, Stop, Wait,
              Enter, Move, vmVars, optimizerVars, callerVars
<1>2. ASSUME NEW c \in Callers, Acquire(c) PROVE TypeOK'
  BY <1>2 DEF Acquire, LockVm, Lock, ReadOptimizer, SetStop, AfterStop,
              Move, vmVars, optimizerVars, callerVars
<1>3. ASSUME NEW c \in Callers, Proceed(c) PROVE TypeOK'
  <2>1. CASE Spawn(c)
    BY <2>1 DEF Spawn, Return, Move, Unlock, vmVars, optimizerVars
  <2>2. CASE AlreadyAlive(c)
    BY <2>2 DEF AlreadyAlive, Return, Move, Unlock, vmVars, optimizerVars
  <2>3. CASE NotAlive(c) \/ ClearStop(c)
    BY <2>3 DEF NotAlive, ClearStop, Move, vmVars, optimizerVars
  <2>4. CASE SetPaused(c) \/ SetRunning(c) \/ Kill(c) \/ SetExited(c) \/ Join(c)
    BY <2>4 DEF SetPaused, SetRunning, Kill, SetExited, Join, AfterStop,
                Return, Move, vmVars, optimizerVars
  <2>. QED BY <1>3, <2>1, <2>2, <2>3, <2>4 DEF Proceed
<1>4. ASSUME NEW w \in Workers, Record(w) PROVE TypeOK'
  <2>1. failures' \in 0..MaxFailures
    BY <1>4, MaxFailuresIsPositive DEF Record, RecordSuccess, RecordFailure
  <2>2. stopEvent' \in BOOLEAN
    BY <1>4 DEF Record, RecordSuccess, RecordFailure
  <2>3. step' \in [Workers -> WorkerSteps]
    BY <1>4 DEF Record, RecordSuccess, RecordFailure, Advance
  <2>4. UNCHANGED <<vmVars, created, thread, vmLock, lock, callerVars>>
    BY <1>4 DEF Record, RecordSuccess, RecordFailure
  <2>. QED BY <2>1, <2>2, <2>3, <2>4 DEF vmVars, callerVars
<1>5. ASSUME NEW w \in Workers, Turn(w) PROVE TypeOK'
  BY <1>5 DEF Turn, Loop, Poll, Mark, Read, Quit, Reconcile, Sleep, Exit,
              Advance, vmVars, optimizerVars, callerVars
<1>6. CASE ProcessExit
  BY <1>6 DEF ProcessExit, optimizerVars, callerVars
<1>7. CASE UNCHANGED vars
  BY <1>7 DEF vars, vmVars, optimizerVars, callerVars
<1>. QED BY <1>1, <1>2, <1>3, <1>4, <1>5, <1>6, <1>7 DEF Next

(* A worker's own step moves no one else, and leaves callers and locks. *)
LEMMA WorkerStep ==
    ASSUME TypeOK, NEW w \in Workers, Record(w) \/ Turn(w)
    PROVE  /\ UNCHANGED <<at, lock, thread>>
           /\ StaysDead
  BY DEF TypeOK, StaysDead, Record, Turn, RecordSuccess, RecordFailure, Loop, Poll, Mark,
         Read, Quit, Reconcile, Sleep, Exit, Advance, optimizerVars, callerVars, vmVars

LEMMA NextIInv == IInv /\ [Next]_vars => IInv'
<1> SUFFICES ASSUME IInv, [Next]_vars PROVE IInv' OBVIOUS
<1>1. TypeOK /\ TypeOK' BY NextTypeOK DEF IInv
<1> USE NoneIsNoThread
        DEF IInv, LockIsHeld, Starting, CheckStaysTrue, OneWorker, IsAlive
<1>2. ASSUME UNCHANGED <<lock, thread>>, StaysDead,
             \A c \in Callers : at'[c] \in {"check", "clear", "spawn"} => at'[c] = at[c]
      PROVE  IInv'
  BY <1>1, <1>2 DEF StaysDead, TypeOK
<1>3. ASSUME NEW c \in Callers, Calls(c) PROVE IInv'
  BY <1>1, <1>2, <1>3
  DEF StaysDead, Calls, StartProcess, Status, Boot, Pause, Resume, Stop, Wait, Enter,
      Move, optimizerVars, callerVars, TypeOK
<1>4. ASSUME NEW c \in Callers, Acquire(c) PROVE IInv'
  <2>1. CASE Lock(c)
    BY <1>1, <2>1 DEF Lock, Move, optimizerVars, TypeOK
  <2>2. CASE LockVm(c) \/ ReadOptimizer(c) \/ SetStop(c)
    BY <1>1, <1>2, <2>2
    DEF StaysDead, LockVm, ReadOptimizer, SetStop, AfterStop, Move, optimizerVars, TypeOK
  <2>. QED BY <1>4, <2>1, <2>2 DEF Acquire
<1>5. ASSUME NEW c \in Callers, Proceed(c) PROVE IInv'
  <2>1. CASE Spawn(c)
    <3>1. PICK w \in Workers : thread' = w /\ step' = [step EXCEPT ![w] = "loop"]
      BY <2>1 DEF Spawn
    <3>2. lock = c /\ at' = [at EXCEPT ![c] = "idle"] /\ lock' = None
      BY <2>1 DEF Spawn, Return, Move, Unlock
    <3>3. \A d \in Callers : at'[d] \notin {"check", "clear", "spawn"}
      BY <1>1, <3>2 DEF TypeOK
    <3>4. \A v \in Workers : step[v] = "dead"
      BY <2>1 DEF Spawn, Return, Move
    <3>. QED BY <1>1, <3>1, <3>3, <3>4 DEF TypeOK
  <2>2. CASE AlreadyAlive(c)
    BY <1>1, <2>2 DEF AlreadyAlive, Return, Move, Unlock, optimizerVars, TypeOK
  <2>3. CASE NotAlive(c)
    BY <1>1, <2>3 DEF NotAlive, Move, optimizerVars, TypeOK
  <2>4. CASE ClearStop(c)
    BY <1>1, <2>4 DEF ClearStop, Move, TypeOK
  <2>5. CASE SetPaused(c) \/ SetRunning(c) \/ Kill(c) \/ SetExited(c) \/ Join(c)
    BY <1>1, <1>2, <2>5
    DEF StaysDead, SetPaused, SetRunning, Kill, SetExited, Join, AfterStop, Return,
        Move, optimizerVars, TypeOK
  <2>. QED BY <1>5, <2>1, <2>2, <2>3, <2>4, <2>5 DEF Proceed
<1>6. ASSUME NEW w \in Workers, Record(w) \/ Turn(w) PROVE IInv'
  BY <1>1, <1>2, <1>6, WorkerStep
<1>7. CASE ProcessExit \/ UNCHANGED vars
  BY <1>1, <1>2, <1>7
  DEF StaysDead, ProcessExit, vars, optimizerVars, callerVars
<1>. QED BY <1>3, <1>4, <1>5, <1>6, <1>7 DEF Next

-----------------------------------------------------------------------------
(* The variables keep their types. *)
THEOREM TypeCorrect == Spec => []TypeOK
<1>1. IInv => TypeOK BY DEF IInv
<1>. QED BY InitIInv, NextIInv, <1>1, PTL DEF Spec

(* At most one worker is alive and it is the one stop() joins. *)
THEOREM AtMostOneWorker == Spec => []OneWorker
<1>1. IInv => OneWorker BY DEF IInv
<1>. QED BY InitIInv, NextIInv, <1>1, PTL DEF Spec

(* Only ClearStop takes a stop request back, and then no worker is alive. *)
LEMMA OnlyClearStopClears ==
    IInv /\ [Next]_vars => (stopEvent /\ ~stopEvent' => \A w \in Workers : ~IsAlive(w))
<1> SUFFICES ASSUME IInv, [Next]_vars, stopEvent, ~stopEvent'
             PROVE  \A w \in Workers : ~IsAlive(w)
  OBVIOUS
<1>1. ASSUME NEW c \in Callers, Calls(c) \/ Acquire(c) PROVE FALSE
  BY <1>1 DEF Calls, StartProcess, Status, Boot, Pause, Resume, Stop, Wait, Acquire,
              LockVm, Lock, ReadOptimizer, SetStop, optimizerVars
<1>2. ASSUME NEW c \in Callers, Proceed(c) PROVE \A w \in Workers : ~IsAlive(w)
  <2>1. CASE ClearStop(c)
    BY <2>1 DEF ClearStop, Move, IInv, CheckStaysTrue
  <2>2. CASE ~ClearStop(c)
    BY <1>2, <2>2 DEF Proceed, SetPaused, SetRunning, AlreadyAlive, NotAlive, Spawn,
                      Join, Kill, SetExited, optimizerVars
  <2>. QED BY <2>1, <2>2
<1>3. ASSUME NEW w \in Workers, Record(w) \/ Turn(w) PROVE FALSE
  BY <1>3 DEF Record, Turn, RecordSuccess, RecordFailure, Loop, Poll, Mark, Read, Quit,
              Reconcile, Sleep, Exit, optimizerVars
<1>4. CASE ProcessExit \/ UNCHANGED vars
  BY <1>4 DEF ProcessExit, vars, optimizerVars
<1>. QED BY <1>1, <1>2, <1>3, <1>4 DEF Next

(* A stop request is never taken back while a worker is alive. *)
THEOREM StopNotLost == Spec => StopIsNotLost
  BY InitIInv, NextIInv, OnlyClearStopClears, PTL DEF Spec, StopIsNotLost

-----------------------------------------------------------------------------
(* The refinement.  A worker that start() is about to make begins untold:   *)
(* start() holds the lock SetStop needs, and no live worker can set the     *)
(* event by itself.  A worker that is about to end set the event first, and *)
(* only a caller that sees no live worker clears it.                        *)
FreshIsUntold == \A c \in Callers : at[c] = "spawn" => ~stopEvent
ExitingIsTold == \A w \in Workers : step[w] = "exiting" => stopEvent

JobInv == IInv /\ FreshIsUntold /\ ExitingIsTold

LEMMA InitJobInv == Init => JobInv
  BY InitIInv DEF Init, JobInv, FreshIsUntold, ExitingIsTold

LEMMA NextFreshIsUntold ==
    ASSUME JobInv, [Next]_vars
    PROVE  FreshIsUntold'
<1> USE DEF JobInv, FreshIsUntold
<1>1. TypeOK /\ LockIsHeld /\ CheckStaysTrue BY DEF IInv
<1>2. ASSUME NEW c \in Callers, Calls(c) PROVE FreshIsUntold'
  BY <1>1, <1>2 DEF Calls, StartProcess, Status, Boot, Pause, Resume, Stop, Wait, Enter,
                    Move, optimizerVars, callerVars, TypeOK
<1>3. ASSUME NEW c \in Callers, Acquire(c) PROVE FreshIsUntold'
  <2>1. CASE SetStop(c)
    BY <1>1, <2>1, NoneIsNoThread
    DEF SetStop, AfterStop, Move, LockIsHeld, Starting, TypeOK
  <2>2. CASE LockVm(c) \/ Lock(c) \/ ReadOptimizer(c)
    BY <1>1, <2>2 DEF LockVm, Lock, ReadOptimizer, AfterStop, Move, optimizerVars, TypeOK
  <2>. QED BY <1>3, <2>1, <2>2 DEF Acquire
<1>4. ASSUME NEW c \in Callers, Proceed(c) PROVE FreshIsUntold'
  BY <1>1, <1>4 DEF Proceed, SetPaused, SetRunning, AlreadyAlive, NotAlive, ClearStop, Spawn,
                    Join, Kill, SetExited, AfterStop, Return, Move, optimizerVars, TypeOK
<1>5. ASSUME NEW w \in Workers, Record(w) \/ Turn(w) PROVE FreshIsUntold'
  <2>1. step[w] # "dead"
    BY <1>5 DEF Record, Turn, RecordSuccess, RecordFailure, Loop, Poll, Mark, Read, Quit,
                Reconcile, Sleep, Exit, Advance
  <2>2. \A c \in Callers : at[c] # "spawn"
    BY <1>1, <2>1, NoneIsNoThread DEF CheckStaysTrue, IsAlive
  <2>3. UNCHANGED at
    BY <1>1, <1>5, WorkerStep
  <2>. QED BY <2>2, <2>3
<1>6. CASE ProcessExit \/ UNCHANGED vars
  BY <1>6 DEF ProcessExit, vars, optimizerVars, callerVars
<1>. QED BY <1>2, <1>3, <1>4, <1>5, <1>6 DEF Next

LEMMA NextExitingIsTold ==
    ASSUME JobInv, [Next]_vars
    PROVE  ExitingIsTold'
<1> USE DEF JobInv, ExitingIsTold
<1>1. TypeOK /\ CheckStaysTrue BY DEF IInv
<1>2. ASSUME NEW c \in Callers, Calls(c) \/ Acquire(c) PROVE ExitingIsTold'
  BY <1>1, <1>2 DEF Calls, StartProcess, Status, Boot, Pause, Resume, Stop, Wait, Acquire,
                    LockVm, Lock, ReadOptimizer, SetStop, optimizerVars
<1>3. ASSUME NEW c \in Callers, Proceed(c) PROVE ExitingIsTold'
  <2>1. CASE ClearStop(c)
    BY <1>1, <2>1, NoneIsNoThread DEF ClearStop, Move, CheckStaysTrue, IsAlive
  <2>2. CASE Spawn(c)
    BY <1>1, <2>2 DEF Spawn, TypeOK
  <2>3. CASE ~ClearStop(c) /\ ~Spawn(c)
    BY <1>3, <2>3 DEF Proceed, SetPaused, SetRunning, AlreadyAlive, NotAlive, Join, Kill,
                      SetExited, optimizerVars
  <2>. QED BY <2>1, <2>2, <2>3
<1>4. ASSUME NEW w \in Workers, Record(w) \/ Turn(w) PROVE ExitingIsTold'
  BY <1>1, <1>4 DEF Record, Turn, RecordSuccess, RecordFailure, Loop, Poll, Mark, Read, Quit,
                    Reconcile, Sleep, Exit, Advance, optimizerVars, TypeOK
<1>5. CASE ProcessExit \/ UNCHANGED vars
  BY <1>5 DEF ProcessExit, vars, optimizerVars
<1>. QED BY <1>2, <1>3, <1>4, <1>5 DEF Next

LEMMA NextJobInv == JobInv /\ [Next]_vars => JobInv'
  BY NextIInv, NextFreshIsUntold, NextExitingIsTold DEF JobInv

(* A step that leaves the live workers alone is Tell, or nothing. *)
LEMMA TellOrStutter ==
    ASSUME JobInv, AliveWorkers' = AliveWorkers,
           stopEvent' \in {stopEvent, TRUE}
    PROVE  [Job!Next]_(Job!vars)
<1>1. CASE stopEvent' = stopEvent \/ AliveWorkers = {}
  BY <1>1 DEF Job!vars
<1>2. CASE stopEvent' = TRUE /\ AliveWorkers # {}
  BY <1>2 DEF Job!Next, Job!Tell
<1>. QED BY <1>1, <1>2

(* Nobody is alive when the event is cleared, so nothing is seen of it. *)
LEMMA CallerRefines ==
    ASSUME JobInv, NEW c \in Callers, Calls(c) \/ Acquire(c) \/ Proceed(c)
    PROVE  [Job!Next]_(Job!vars)
<1>1. TypeOK /\ CheckStaysTrue BY DEF JobInv, IInv
<1>2. CASE Spawn(c)
  <2>1. PICK w \in Workers : step' = [step EXCEPT ![w] = "loop"]
    BY <1>2 DEF Spawn
  <2>2. AliveWorkers = {} /\ ~stopEvent /\ ~stopEvent'
    BY <1>1, <1>2 DEF Spawn, Return, Move, CheckStaysTrue, JobInv, FreshIsUntold, AliveWorkers
  <2>3. AliveWorkers' = {w}
    BY <1>1, <2>1, <2>2, NoneIsNoThread DEF AliveWorkers, IsAlive, TypeOK
  <2>. QED BY <2>2, <2>3 DEF Job!Next, Job!Start
<1>3. CASE ClearStop(c)
  <2>1. AliveWorkers = {} /\ AliveWorkers' = {}
    BY <1>1, <1>3 DEF ClearStop, Move, CheckStaysTrue, AliveWorkers, IsAlive
  <2>. QED BY <2>1 DEF Job!vars
<1>4. CASE ~Spawn(c) /\ ~ClearStop(c)
  <2>1. UNCHANGED step /\ stopEvent' \in {stopEvent, TRUE}
    BY <1>4 DEF Calls, StartProcess, Status, Boot, Pause, Resume, Stop, Wait, Acquire, LockVm,
                Lock, ReadOptimizer, SetStop, Proceed, SetPaused, SetRunning, AlreadyAlive,
                NotAlive, Join, Kill, SetExited, optimizerVars
  <2>2. AliveWorkers' = AliveWorkers
    BY <2>1 DEF AliveWorkers, IsAlive
  <2>. QED BY <2>1, <2>2, TellOrStutter
<1>. QED BY <1>2, <1>3, <1>4

LEMMA WorkerRefines ==
    ASSUME JobInv, NEW w \in Workers, Record(w) \/ Turn(w)
    PROVE  [Job!Next]_(Job!vars)
<1>1. TypeOK /\ OneWorker BY DEF JobInv, IInv
<1>2. step[w] # "dead" /\ \E to : step' = [step EXCEPT ![w] = to]
  <2>1. CASE Record(w) \/ Reconcile(w)
    BY <2>1 DEF Record, RecordSuccess, RecordFailure, Reconcile, Advance
  <2>2. CASE Loop(w) \/ Poll(w) \/ Mark(w) \/ Read(w)
    BY <2>2 DEF Loop, Poll, Mark, Read, Advance
  <2>3. CASE Quit(w) \/ Sleep(w) \/ Exit(w)
    BY <2>3 DEF Quit, Sleep, Exit, Advance
  <2>. QED BY <2>1, <2>2, <2>3 DEF Turn
<1>3. AliveWorkers = {w}
  BY <1>1, <1>2, NoneIsNoThread DEF OneWorker, AliveWorkers, IsAlive
<1>4. CASE step'[w] = "dead"
  <2>1. stopEvent /\ UNCHANGED stopEvent
    BY <1>4, <1>2, <1>1
    DEF Record, Turn, RecordSuccess, RecordFailure, Loop, Poll, Mark, Read, Quit, Reconcile,
        Sleep, Exit, Advance, optimizerVars, JobInv, ExitingIsTold, TypeOK
  <2>2. AliveWorkers' = {}
    BY <1>2, <1>3, <1>4, <1>1 DEF AliveWorkers, IsAlive, TypeOK
  <2>. QED BY <1>3, <2>1, <2>2 DEF Job!Next, Job!End
<1>5. CASE step'[w] # "dead"
  <2>1. AliveWorkers' = {w}
    BY <1>1, <1>2, <1>3, <1>5, NoneIsNoThread DEF AliveWorkers, IsAlive, TypeOK
  <2>2. stopEvent' \in {stopEvent, TRUE}
    BY <1>1 DEF Record, Turn, RecordSuccess, RecordFailure, Loop, Poll, Mark, Read, Quit,
                Reconcile, Sleep, Exit, optimizerVars, TypeOK
  <2>. QED BY <1>3, <2>1, <2>2, TellOrStutter
<1>. QED BY <1>4, <1>5

LEMMA NextRefines == JobInv /\ [Next]_vars => [Job!Next]_(Job!vars)
<1> SUFFICES ASSUME JobInv, [Next]_vars PROVE [Job!Next]_(Job!vars) OBVIOUS
<1>1. CASE ProcessExit \/ UNCHANGED vars
  <2>1. UNCHANGED <<step, stopEvent>>
    BY <1>1 DEF ProcessExit, vars, optimizerVars
  <2>2. AliveWorkers' = AliveWorkers
    BY <2>1 DEF AliveWorkers, IsAlive
  <2>. QED BY <2>1, <2>2, TellOrStutter
<1>. QED BY <1>1, CallerRefines, WorkerRefines DEF Next

(* Every behaviour of the threads is, seen from outside, a behaviour of the *)
(* abstract job, for any number of callers and Thread objects (its safety   *)
(* part; that a told worker ends is ToldWorkersEnd, below).                 *)
THEOREM RefinesJob == Spec => Job!Init /\ [][Job!Next]_(Job!vars)
<1>1. Init => Job!Init
  <2>1. Init => AliveWorkers = {} /\ ~stopEvent
    BY DEF Init, AliveWorkers, IsAlive
  <2>. QED BY <2>1 DEF Job!Init
<1>. QED BY <1>1, InitJobInv, NextJobInv, NextRefines, PTL DEF Spec

-----------------------------------------------------------------------------
(* The two locks.  The VM's is held from _start_memory_optimizer_if_enabled *)
(* to the end of start(), the optimizer's, inside it, from the check on.    *)
HoldsVmLock(c) == at[c] \in {"lock", "check", "clear", "spawn"}
LocksAreNested == \A c \in Callers : /\ vmLock = c <=> HoldsVmLock(c)
                                     /\ lock = c <=> Starting(c)

(* Nobody who holds a lock waits for one that is taken: the threads cannot  *)
(* block each other for good, whichever of the two locks each needs next.   *)
HoldersAreNotBlocked ==
    /\ lock # None => vmLock = lock
    /\ \A c \in Callers : c \in {vmLock, lock} =>
            Starting(c) \/ (at[c] = "lock" /\ lock = None)

(* start() returns with a live worker.  The worker was told to stop only if *)
(* it was there before, and told before, start() came to look at it.        *)
StartLeavesAWorker ==
    [][\A c \in Callers : Starting(c) /\ at'[c] = "idle" =>
          /\ IsAlive(thread)'
          /\ stopEvent' => stopEvent /\ IsAlive(thread)]_vars

LEMMA NextLocksAreNested ==
    ASSUME TypeOK, LocksAreNested, [Next]_vars
    PROVE  LocksAreNested'
<1> USE NoneIsNoThread DEF LocksAreNested, HoldsVmLock, Starting
<1>1. at \in [Callers -> CallerSteps]
  BY DEF TypeOK
<1>2. ASSUME NEW c \in Callers, Calls(c) PROVE LocksAreNested'
  BY <1>1, <1>2 DEF Calls, StartProcess, Status, Boot, Pause, Resume, Stop, Wait, Enter,
                    Move, callerVars
<1>3. ASSUME NEW c \in Callers, Acquire(c) PROVE LocksAreNested'
  BY <1>1, <1>3 DEF Acquire, LockVm, Lock, ReadOptimizer, SetStop, AfterStop, Move
<1>4. ASSUME NEW c \in Callers, Proceed(c) PROVE LocksAreNested'
  <2>1. CASE Spawn(c) \/ AlreadyAlive(c)
    BY <1>1, <2>1 DEF Spawn, AlreadyAlive, Return, Move, Unlock
  <2>2. CASE NotAlive(c) \/ ClearStop(c)
    BY <1>1, <2>2 DEF NotAlive, ClearStop, Move
  <2>3. CASE SetPaused(c) \/ SetRunning(c) \/ Kill(c) \/ SetExited(c) \/ Join(c)
    BY <1>1, <2>3 DEF SetPaused, SetRunning, Kill, SetExited, Join, AfterStop, Return, Move
  <2>. QED BY <1>4, <2>1, <2>2, <2>3 DEF Proceed
<1>5. ASSUME NEW w \in Workers, Record(w) \/ Turn(w) PROVE LocksAreNested'
  BY <1>5 DEF Record, Turn, RecordSuccess, RecordFailure, Loop, Poll, Mark, Read, Quit,
              Reconcile, Sleep, Exit, callerVars
<1>6. CASE ProcessExit \/ UNCHANGED vars
  BY <1>6 DEF ProcessExit, vars, callerVars
<1>. QED BY <1>2, <1>3, <1>4, <1>5, <1>6 DEF Next

LEMMA LocksStayNested == Spec => [](TypeOK /\ LocksAreNested)
<1>1. Init => LocksAreNested
  <2> SUFFICES ASSUME Init PROVE LocksAreNested
    OBVIOUS
  <2>1. vmLock = None /\ lock = None /\ \A c \in Callers : at[c] = "idle" /\ c # None
    BY NoneIsNoThread DEF Init
  <2>. QED BY <2>1 DEF LocksAreNested, HoldsVmLock, Starting
<1>2. TypeOK /\ LocksAreNested /\ [Next]_vars => LocksAreNested'
  BY NextLocksAreNested
<1>. QED BY <1>1, <1>2, TypeCorrect, PTL DEF Spec

(* The order of the locks excludes a deadlock among boot, resume, stop,     *)
(* wait and the worker (balloon_policy.py's _lock, vm.py's                  *)
(* _memory_optimizer_lock).                                                 *)
THEOREM LocksDoNotDeadlock == Spec => []HoldersAreNotBlocked
<1>1. TypeOK /\ LocksAreNested => HoldersAreNotBlocked
  <2> SUFFICES ASSUME TypeOK, LocksAreNested PROVE HoldersAreNotBlocked
    OBVIOUS
  <2> USE DEF LocksAreNested, HoldsVmLock, Starting, TypeOK
  <2>1. ASSUME lock # None PROVE vmLock = lock
    BY <2>1
  <2>2. ASSUME NEW c \in Callers, c \in {vmLock, lock}
        PROVE  Starting(c) \/ (at[c] = "lock" /\ lock = None)
    <3>1. HoldsVmLock(c)
      BY <2>2
    <3>2. ASSUME at[c] = "lock", lock # None PROVE FALSE
      <4>1. vmLock = lock /\ Starting(lock)
        BY <2>1, <3>2
      <4>. QED BY <3>1, <3>2, <4>1
    <3>. QED BY <3>1, <3>2
  <2>. QED BY <2>1, <2>2 DEF HoldersAreNotBlocked
<1>. QED BY <1>1, LocksStayNested, PTL

(* What boot and resume can rely on, and where the promise of README.md:176 *)
(* ends (RunningVmHasWorker): at an old worker that stop() did not outlast. *)
THEOREM StartsLeaveAWorker == Spec => StartLeavesAWorker
<1>1. ASSUME JobInv, [Next]_vars, NEW c \in Callers, Starting(c), at'[c] = "idle"
      PROVE  /\ IsAlive(thread)'
             /\ stopEvent' => stopEvent /\ IsAlive(thread)
  <2>0. TypeOK
    BY <1>1 DEF JobInv, IInv
  <2>1. PICK d \in Callers : Calls(d) \/ Acquire(d) \/ Proceed(d)
    <3>1. at' # at
      BY <1>1 DEF Starting
    <3>. QED BY <1>1, <2>0, <3>1, WorkerStep DEF Next, ProcessExit, vars, callerVars
  <2>2. d = c
    BY <1>1, <2>0, <2>1
    DEF Starting, TypeOK, Calls, StartProcess, Status, Boot, Pause, Resume, Stop, Wait, Enter,
        Acquire, LockVm, Lock, ReadOptimizer, SetStop, AfterStop, Proceed, SetPaused,
        SetRunning, AlreadyAlive, NotAlive, ClearStop, Spawn, Join, Kill, SetExited, Return,
        Move, callerVars
  <2>3. Spawn(c) \/ AlreadyAlive(c)
    BY <1>1, <2>0, <2>1, <2>2
    DEF Starting, TypeOK, Calls, StartProcess, Status, Boot, Pause, Resume, Stop, Wait, Enter,
        Acquire, LockVm, Lock, ReadOptimizer, SetStop, AfterStop, Proceed, SetPaused,
        SetRunning, NotAlive, ClearStop, Join, Kill, SetExited, Return,
        Move, callerVars
  <2>4. CASE AlreadyAlive(c)
    BY <2>4 DEF AlreadyAlive, IsAlive, optimizerVars
  <2>5. CASE Spawn(c)
    <3>1. ~stopEvent'
      BY <1>1, <2>5 DEF Spawn, Return, Move, JobInv, FreshIsUntold
    <3>2. IsAlive(thread)'
      BY <2>0, <2>5, NoneIsNoThread DEF Spawn, IsAlive, TypeOK
    <3>. QED BY <3>1, <3>2
  <2>. QED BY <2>3, <2>4, <2>5
<1>2. JobInv /\ [Next]_vars =>
        [\A c \in Callers : Starting(c) /\ at'[c] = "idle" =>
            /\ IsAlive(thread)'
            /\ stopEvent' => stopEvent /\ IsAlive(thread)]_vars
  BY <1>1
<1>. QED BY <1>2, InitJobInv, NextJobInv, PTL DEF Spec, StartLeavesAWorker

-----------------------------------------------------------------------------
(***************************************************************************)
(* Liveness.  The prover cannot expand the ENABLED in Spec's fairness; the  *)
(* hypotheses, which TLC can check, say when a thread can take its step. A  *)
(* live worker always can, but for recording a result, which waits for the  *)
(* optimizer's lock.  Each holder gives that back (HoldersGiveItBack); that *)
(* it is then free again and again, LockIsReleased, no matter who the       *)
(* holders are, is a step that the prover's logic lacks.                    *)
(***************************************************************************)
Recording(w) == step[w] \in {"success", "failure"}

WorkersCanProceed ==
    \A w \in Workers :
        /\ IsAlive(w) /\ ~Recording(w) => ENABLED <<Turn(w)>>_vars
        /\ Recording(w) /\ lock = None => ENABLED <<Record(w)>>_vars
LockIsReleased == []<>(lock = None)

Working(w) == Turn(w) \/ Record(w)

(* A live worker takes steps for ever. *)
Scheduled(w) == []<>(~IsAlive(w)) \/ []<><<Working(w)>>_vars

(* How many steps a told worker is away from its end, at most. *)
StepsLeft ==
    [s \in WorkerSteps |->
        CASE s = "dead" -> 0
          [] s = "loop" -> 1
          [] s = "exiting" -> 1
          [] s = "sleep" -> 2
          [] s = "quit" -> 2
          [] s = "success" -> 3
          [] s = "failure" -> 3
          [] s = "reconcile" -> 4
          [] s = "read" -> 5
          [] s = "mark" -> 6
          [] s = "poll" -> 7]

Ending(w, k) == IsAlive(w) /\ stopEvent /\ StepsLeft[step[w]] <= k

LEMMA StepsLeftAre ==
    /\ StepsLeft["dead"] = 0 /\ StepsLeft["loop"] = 1 /\ StepsLeft["exiting"] = 1
    /\ StepsLeft["sleep"] = 2 /\ StepsLeft["quit"] = 2
    /\ StepsLeft["success"] = 3 /\ StepsLeft["failure"] = 3
    /\ StepsLeft["reconcile"] = 4 /\ StepsLeft["read"] = 5
    /\ StepsLeft["mark"] = 6 /\ StepsLeft["poll"] = 7
    /\ \A s \in WorkerSteps : StepsLeft[s] \in 0..7
  BY DEF StepsLeft, WorkerSteps

(* A told worker comes nearer to its end with every step of its own ... *)
LEMMA WorkingEnds ==
    ASSUME JobInv, NEW w \in Workers, NEW k \in 0..6, Ending(w, k + 1), Working(w)
    PROVE  Ending(w, k)' \/ ~IsAlive(w)'
<1>1. /\ step \in [Workers -> WorkerSteps] /\ stopEvent /\ step[w] # "dead"
      /\ w # None /\ vmState \in {"RUNNING", "PAUSED", "EXITED"}
  BY NoneIsNoThread DEF JobInv, IInv, TypeOK, Ending, IsAlive
<1>2. stopEvent'
  BY <1>1 DEF Working, Record, Turn, RecordSuccess, RecordFailure, Loop, Poll, Mark, Read, Quit,
              Reconcile, Sleep, Exit, optimizerVars
<1>3. PICK to \in WorkerSteps :
         /\ step' = [step EXCEPT ![w] = to]
         /\ to = "dead" \/ StepsLeft[to] < StepsLeft[step[w]]
  <2>. DEFINE To(s) == step' = [step EXCEPT ![w] = s]
  <2>1. CASE Loop(w) \/ Exit(w)
    <3>1. To("dead") BY <1>1, <2>1 DEF Loop, Exit, Advance
    <3>. QED BY <3>1 DEF WorkerSteps
  <2>2. CASE Poll(w) \/ Mark(w)
    <3>1. step[w] \in {"poll", "mark"} /\ ((To("mark") /\ step[w] = "poll") \/ To("read"))
      BY <2>2 DEF Poll, Mark, Advance
    <3>. QED BY <3>1, StepsLeftAre DEF WorkerSteps
  <2>3. CASE Read(w)
    <3>1. step[w] = "read" /\ (To("quit") \/ To("sleep") \/ To("reconcile"))
      BY <1>1, <2>3 DEF Read, Advance
    <3>. QED BY <3>1, StepsLeftAre DEF WorkerSteps
  <2>4. CASE Quit(w) \/ Sleep(w)
    <3>1. step[w] \in {"quit", "sleep"} /\ (To("exiting") \/ To("loop"))
      BY <2>4 DEF Quit, Sleep, Advance
    <3>. QED BY <3>1, StepsLeftAre DEF WorkerSteps
  <2>5. CASE Reconcile(w)
    <3>1. step[w] = "reconcile" /\ (To("success") \/ To("failure"))
      BY <2>5 DEF Reconcile, Advance
    <3>. QED BY <3>1, StepsLeftAre DEF WorkerSteps
  <2>6. CASE Record(w)
    <3>1. step[w] \in {"success", "failure"} /\ (To("exiting") \/ To("sleep"))
      BY <2>6 DEF Record, RecordSuccess, RecordFailure, Advance
    <3>. QED BY <3>1, StepsLeftAre DEF WorkerSteps
  <2>. QED BY <2>1, <2>2, <2>3, <2>4, <2>5, <2>6 DEF Working, Turn
<1>4. step'[w] = to
  BY <1>1, <1>3
<1>5. StepsLeft[to] \in Nat /\ StepsLeft[step[w]] \in Nat
  BY <1>1, StepsLeftAre
<1>. QED BY <1>1, <1>2, <1>3, <1>4, <1>5 DEF Ending, IsAlive

(* While a worker lives, nobody else moves it: no caller, and no other      *)
(* worker, for there is none.                                               *)
LEMMA OnlyItselfMovesIt ==
    ASSUME IInv, [Next]_vars, NEW w \in Workers, IsAlive(w), step'[w] # step[w]
    PROVE  Working(w)
<1>1. ASSUME NEW c \in Callers, Calls(c) \/ Acquire(c) \/ Proceed(c) PROVE UNCHANGED step
  <2>1. CASE Spawn(c)
    BY <2>1 DEF Spawn, Return, Move, IInv, CheckStaysTrue
  <2>2. CASE ~Spawn(c)
    BY <1>1, <2>2
    DEF Calls, StartProcess, Status, Boot, Pause, Resume, Stop, Wait, Acquire, LockVm,
        Lock, ReadOptimizer, SetStop, Proceed, SetPaused, SetRunning, AlreadyAlive,
        NotAlive, ClearStop, Join, Kill, SetExited
  <2>. QED BY <2>1, <2>2
<1>2. ASSUME ProcessExit \/ UNCHANGED vars PROVE UNCHANGED step
  BY <1>2 DEF ProcessExit, vars
<1>3. PICK v \in Workers : Working(v)
  BY <1>1, <1>2 DEF Next, Working
<1>4. step[v] # "dead" /\ \E to : step' = [step EXCEPT ![v] = to]
  BY <1>3 DEF Working, Record, Turn, RecordSuccess, RecordFailure, Loop, Poll, Mark, Read,
              Quit, Reconcile, Sleep, Exit, Advance
<1>5. v = w
  BY <1>4, NoneIsNoThread DEF IInv, TypeOK, OneWorker, IsAlive
<1>. QED BY <1>3, <1>5

(* ... and the steps of the others do not push it back. *)
LEMMA OthersDoNotDelay ==
    ASSUME JobInv, [Next]_vars, NEW w \in Workers, NEW k \in 0..6, Ending(w, k + 1)
    PROVE  Ending(w, k + 1)' \/ ~IsAlive(w)'
<1>1. IsAlive(w) /\ stopEvent /\ IInv
  BY DEF Ending, JobInv
<1>2. stopEvent'
  BY <1>1, OnlyClearStopClears DEF IInv, TypeOK
<1>3. CASE step'[w] = step[w]
  BY <1>2, <1>3 DEF Ending, IsAlive
<1>4. CASE step'[w] # step[w]
  <2>1. Ending(w, k)' \/ ~IsAlive(w)'
    BY <1>1, <1>4, OnlyItselfMovesIt, WorkingEnds
  <2>2. StepsLeft[step'[w]] \in Nat \/ ~IsAlive(w)'
    <3>1. TypeOK'
      BY <1>1, NextTypeOK DEF IInv
    <3>. QED BY <3>1, StepsLeftAre DEF TypeOK
  <2>. QED BY <2>1, <2>2 DEF Ending
<1>. QED BY <1>3, <1>4

(* A worker waiting for the lock stays there until it has it, so that the   *)
(* strong fairness of Record lets it go on.                                 *)
LEMMA WorkersAreScheduled ==
    ASSUME NEW w \in Workers
    PROVE  Spec /\ []WorkersCanProceed /\ LockIsReleased => Scheduled(w)
<1>1. Spec => WorkerFairness(w)
  BY DEF Spec
<1>2. WorkersCanProceed =>
        /\ IsAlive(w) /\ ~Recording(w) => ENABLED <<Turn(w)>>_vars
        /\ Recording(w) /\ lock = None => ENABLED <<Record(w)>>_vars
  BY DEF WorkersCanProceed
<1>3. /\ <<Turn(w)>>_vars => <<Working(w)>>_vars
      /\ <<Record(w)>>_vars => <<Working(w)>>_vars
  BY DEF Working
<1>4. JobInv /\ [Next]_vars /\ IsAlive(w) /\ Recording(w)
        => Recording(w)' \/ <<Working(w)>>_vars
  <2> SUFFICES ASSUME JobInv, [Next]_vars, IsAlive(w), Recording(w), ~Recording(w)'
               PROVE  <<Working(w)>>_vars
    OBVIOUS
  <2>1. step'[w] # step[w]
    BY DEF Recording
  <2>2. Working(w)
    BY <2>1, OnlyItselfMovesIt DEF JobInv
  <2>. QED BY <2>1, <2>2 DEF vars
<1>. QED
  BY <1>1, <1>2, <1>3, <1>4, InitJobInv, NextJobInv, PTL
  DEF Spec, WorkerFairness, LockIsReleased, Scheduled

(* A worker that was told to stop ends: however boot, resume, stop and the  *)
(* VM's end interleave, nobody takes the request back or pushes the worker  *)
(* away from its end.                                                       *)
THEOREM ToldWorkersEnd ==
    Spec /\ []WorkersCanProceed /\ LockIsReleased => StopTakesEffect
<1>1. ASSUME NEW w \in Workers
      PROVE  Spec /\ Scheduled(w) => (IsAlive(w) /\ stopEvent ~> ~IsAlive(w))
  <2>1. JobInv /\ IsAlive(w) /\ stopEvent => Ending(w, 7)
    BY StepsLeftAre DEF JobInv, IInv, TypeOK, Ending
  <2>2. JobInv /\ Ending(w, 0) => ~IsAlive(w)
    <3>1. \A s \in WorkerSteps : StepsLeft[s] <= 0 => s = "dead"
      BY StepsLeftAre DEF WorkerSteps
    <3>. QED BY <3>1 DEF JobInv, IInv, TypeOK, Ending, IsAlive
  <2>3. \A k \in 0..6 : JobInv /\ [Next]_vars /\ Ending(w, k + 1) => Ending(w, k + 1)' \/ ~IsAlive(w)'
    BY OthersDoNotDelay
  <2>4. \A k \in 0..6 : JobInv /\ <<Working(w)>>_vars /\ Ending(w, k + 1) => Ending(w, k)' \/ ~IsAlive(w)'
    BY WorkingEnds
  <2>5. JobInv /\ [Next]_vars =>
          /\ Ending(w, 7) => Ending(w, 7)' \/ ~IsAlive(w)'
          /\ Ending(w, 6) => Ending(w, 6)' \/ ~IsAlive(w)'
          /\ Ending(w, 5) => Ending(w, 5)' \/ ~IsAlive(w)'
          /\ Ending(w, 4) => Ending(w, 4)' \/ ~IsAlive(w)'
          /\ Ending(w, 3) => Ending(w, 3)' \/ ~IsAlive(w)'
          /\ Ending(w, 2) => Ending(w, 2)' \/ ~IsAlive(w)'
          /\ Ending(w, 1) => Ending(w, 1)' \/ ~IsAlive(w)'
    BY <2>3
  <2>6. JobInv /\ <<Working(w)>>_vars =>
          /\ Ending(w, 7) => Ending(w, 6)' \/ ~IsAlive(w)'
          /\ Ending(w, 6) => Ending(w, 5)' \/ ~IsAlive(w)'
          /\ Ending(w, 5) => Ending(w, 4)' \/ ~IsAlive(w)'
          /\ Ending(w, 4) => Ending(w, 3)' \/ ~IsAlive(w)'
          /\ Ending(w, 3) => Ending(w, 2)' \/ ~IsAlive(w)'
          /\ Ending(w, 2) => Ending(w, 1)' \/ ~IsAlive(w)'
          /\ Ending(w, 1) => Ending(w, 0)' \/ ~IsAlive(w)'
    BY <2>4
  <2>. QED BY <2>1, <2>2, <2>5, <2>6, InitJobInv, NextJobInv, PTL DEF Spec, Scheduled
<1>. QED BY <1>1, WorkersAreScheduled DEF StopTakesEffect

(* The VM is gone, and no call is about to record that it runs or pauses. *)
VmIsGone == vmm = "off" /\ \A c \in Callers : at[c] \notin {"set_running", "set_paused"}

(* How many steps a worker of a VM that is gone is away from its end; a     *)
(* worker about to read an old state goes round once more before its poll   *)
(* finds out.                                                               *)
StepsToEnd(s, state) ==
    CASE s = "dead" -> 0
      [] s = "exiting" -> 1
      [] s = "quit" -> 2
      [] s = "read" -> IF state = "EXITED" THEN 3 ELSE 10
      [] s = "mark" -> 4
      [] s = "poll" -> 5
      [] s = "loop" -> 6
      [] s = "sleep" -> 7
      [] s = "success" -> 8
      [] s = "failure" -> 8
      [] s = "reconcile" -> 9

States == {"RUNNING", "PAUSED", "EXITED"}
Leaving(w, k) == IsAlive(w) /\ VmIsGone /\ StepsToEnd(step[w], vmState) <= k

Left(w) == ~IsAlive(w) \/ vmm # "off"

LEMMA StepsToEndAre ==
    ASSUME NEW e \in States
    PROVE  /\ StepsToEnd("dead", e) = 0 /\ StepsToEnd("exiting", e) = 1 /\ StepsToEnd("quit", e) = 2
           /\ StepsToEnd("mark", e) = 4 /\ StepsToEnd("poll", e) = 5 /\ StepsToEnd("loop", e) = 6
           /\ StepsToEnd("sleep", e) = 7 /\ StepsToEnd("success", e) = 8
           /\ StepsToEnd("failure", e) = 8 /\ StepsToEnd("reconcile", e) = 9
           /\ StepsToEnd("read", e) = IF e = "EXITED" THEN 3 ELSE 10
           /\ \A s \in WorkerSteps : StepsToEnd(s, e) \in 0..10
  BY DEF StepsToEnd, WorkerSteps

(* Once the VM is gone, it is until the next start(), and recorded as such *)
(* for good once it is. *)
LEMMA GoneStaysGone ==
    ASSUME TypeOK, [Next]_vars, VmIsGone
    PROVE  /\ VmIsGone' \/ vmm' # "off"
           /\ vmState' \in {vmState, "EXITED"}
<1> USE DEF VmIsGone
<1>1. ASSUME NEW c \in Callers, Calls(c) \/ Acquire(c) \/ Proceed(c)
      PROVE  /\ vmm' = "off" => \A d \in Callers : at'[d] \notin {"set_running", "set_paused"}
             /\ vmState' \in {vmState, "EXITED"}
  BY <1>1 DEF TypeOK, Calls, StartProcess, Status, Boot, Pause, Resume, Stop, Wait, Enter,
        Acquire, LockVm, Lock, ReadOptimizer, SetStop, AfterStop, Proceed, SetPaused,
        SetRunning, AlreadyAlive, NotAlive, ClearStop, Spawn, Join, Kill, SetExited, Return,
        Move, callerVars, vmVars
<1>2. ASSUME NEW w \in Workers, Record(w) \/ Turn(w)
      PROVE  UNCHANGED <<vmm, at>> /\ vmState' \in {vmState, "EXITED"}
  BY <1>2 DEF TypeOK, Record, Turn, RecordSuccess, RecordFailure, Loop, Poll, Mark, Read,
              Quit, Reconcile, Sleep, Exit, vmVars, callerVars
<1>3. CASE ProcessExit \/ UNCHANGED vars
  BY <1>3 DEF ProcessExit, vars, vmVars, callerVars
<1>. QED BY <1>1, <1>2, <1>3 DEF Next

LEMMA WorkingLeaves ==
    ASSUME JobInv, NEW w \in Workers, NEW k \in 0..9, Leaving(w, k + 1), Working(w)
    PROVE  Leaving(w, k)' \/ Left(w)'
<1>1. /\ step \in [Workers -> WorkerSteps] /\ step[w] # "dead" /\ w # None
      /\ vmState \in {"RUNNING", "PAUSED", "EXITED"} /\ vmm = "off"
  BY NoneIsNoThread DEF JobInv, IInv, TypeOK, Leaving, IsAlive, VmIsGone
<1>2. /\ VmIsGone' \/ vmm' # "off"
      /\ vmState' \in {vmState, "EXITED"}
      /\ step' \in [Workers -> WorkerSteps]
  <2>1. [Next]_vars /\ TypeOK
    BY DEF JobInv, IInv, Next, Working
  <2>. QED BY <2>1, GoneStaysGone, NextTypeOK DEF Leaving, TypeOK, States
<1>3. /\ vmState \in States /\ vmState' \in States
      /\ StepsToEnd(step[w], vmState) \in Nat /\ StepsToEnd(step'[w], vmState') \in Nat
  <2>1. vmState \in States /\ vmState' \in States
    BY <1>1, <1>2 DEF States
  <2>2. step[w] \in WorkerSteps /\ step'[w] \in WorkerSteps
    BY <1>1, <1>2
  <2>3. StepsToEnd(step[w], vmState) \in 0..10
    BY <2>1, <2>2, StepsToEndAre
  <2>4. StepsToEnd(step'[w], vmState') \in 0..10
    BY <2>1, <2>2, StepsToEndAre
  <2>. QED BY <2>1, <2>3, <2>4
<1>4. step'[w] = "dead" \/ StepsToEnd(step'[w], vmState') < StepsToEnd(step[w], vmState)
  <2>1. CASE Loop(w) \/ Exit(w) \/ Mark(w) \/ Quit(w) \/ Sleep(w)
    <3>1. \/ step[w] = "loop" /\ step'[w] \in {"dead", "poll"}
          \/ step[w] = "exiting" /\ step'[w] = "dead"
          \/ step[w] = "mark" /\ step'[w] = "read" /\ vmState' = "EXITED"
          \/ step[w] = "quit" /\ step'[w] = "exiting"
          \/ step[w] = "sleep" /\ step'[w] = "loop"
      BY <1>1, <2>1 DEF Loop, Exit, Mark, Quit, Sleep, Advance, States
    <3>. QED BY <1>3, <3>1, StepsToEndAre
  <2>2. CASE Poll(w)
    <3>1. step[w] = "poll" /\ step'[w] = "mark"
      BY <1>1, <2>2 DEF Poll, Advance
    <3>. QED BY <1>3, <3>1, StepsToEndAre
  <2>3. CASE Read(w)
    <3>1. /\ step[w] = "read"
          /\ \/ vmState = "EXITED" /\ step'[w] = "quit"
             \/ vmState # "EXITED" /\ step'[w] \in {"sleep", "reconcile"}
      BY <1>1, <2>3 DEF Read, Advance, States
    <3>. QED BY <1>3, <3>1, StepsToEndAre
  <2>4. CASE Reconcile(w) \/ Record(w)
    <3>1. \/ step[w] = "reconcile" /\ step'[w] \in {"success", "failure"}
          \/ step[w] \in {"success", "failure"} /\ step'[w] \in {"sleep", "exiting"}
      BY <1>1, <2>4 DEF Reconcile, Record, RecordSuccess, RecordFailure, Advance
    <3>. QED BY <1>3, <3>1, StepsToEndAre
  <2>. QED BY <2>1, <2>2, <2>3, <2>4 DEF Working, Turn
<1>. QED BY <1>2, <1>3, <1>4 DEF Leaving, Left, IsAlive

LEMMA OthersLetItLeave ==
    ASSUME JobInv, [Next]_vars, NEW w \in Workers, NEW k \in 0..9, Leaving(w, k + 1)
    PROVE  Leaving(w, k + 1)' \/ Left(w)'
<1>1. /\ IsAlive(w) /\ IInv /\ TypeOK /\ step[w] \in WorkerSteps
      /\ VmIsGone' \/ vmm' # "off"
      /\ vmState' \in {vmState, "EXITED"}
      /\ vmState \in States /\ vmState' \in States
  BY GoneStaysGone DEF Leaving, JobInv, IInv, TypeOK, States
<1>2. CASE step'[w] = step[w]
  <2>1. StepsToEnd(step[w], vmState') <= StepsToEnd(step[w], vmState)
    <3>1. CASE vmState' = vmState BY <1>1, <3>1, StepsToEndAre
    <3>2. CASE vmState' = "EXITED"
      <4>1. StepsToEnd(step[w], "EXITED") <= StepsToEnd(step[w], vmState)
        BY <1>1 DEF StepsToEnd, WorkerSteps
      <4>. QED BY <1>1, <3>2, <4>1
    <3>. QED BY <1>1, <3>1, <3>2
  <2>2. StepsToEnd(step[w], vmState') \in Nat /\ StepsToEnd(step[w], vmState) \in Nat
    BY <1>1, StepsToEndAre
  <2>. QED BY <1>1, <1>2, <2>1, <2>2 DEF Leaving, Left, IsAlive
<1>3. CASE step'[w] # step[w]
  <2>3. Leaving(w, k)' \/ Left(w)'
    BY <1>1, <1>3, OnlyItselfMovesIt, WorkingLeaves
  <2>4. StepsToEnd(step'[w], vmState') \in Nat \/ ~IsAlive(w)'
    <3>1. TypeOK'
      BY <1>1, NextTypeOK
    <3>. QED BY <1>1, <3>1, StepsToEndAre DEF TypeOK
  <2>. QED BY <2>3, <2>4 DEF Leaving, Left
<1>. QED BY <1>2, <1>3

(* A worker whose VM is gone ends, unless the VM is started again first. *)
WorkersLeave ==
    \A w \in Workers : (IsAlive(w) /\ VmIsGone) ~> Left(w)

(* However old the state is that the worker last read, and whatever fails   *)
(* meanwhile, it finds out that the process ended, and leaves its loop: what*)
(* NoWorkerOutlivesTheVm rests on.                                          *)
THEOREM WorkersLeaveTheVm ==
    Spec /\ []WorkersCanProceed /\ LockIsReleased => WorkersLeave
<1>1. ASSUME NEW w \in Workers
      PROVE  Spec /\ Scheduled(w) => (IsAlive(w) /\ VmIsGone ~> Left(w))
  <2>1. JobInv /\ IsAlive(w) /\ VmIsGone => Leaving(w, 10)
    BY StepsToEndAre DEF JobInv, IInv, TypeOK, Leaving, States
  <2>2. JobInv /\ Leaving(w, 0) => Left(w)
    <3>1. \A s \in WorkerSteps, e \in States : StepsToEnd(s, e) <= 0 => s = "dead"
      BY DEF StepsToEnd, WorkerSteps
    <3>. QED BY <3>1 DEF JobInv, IInv, TypeOK, Leaving, Left, IsAlive, States
  <2>3. \A k \in 0..9 : JobInv /\ [Next]_vars /\ Leaving(w, k + 1)
                            => Leaving(w, k + 1)' \/ Left(w)'
    BY OthersLetItLeave
  <2>4. \A k \in 0..9 : JobInv /\ <<Working(w)>>_vars /\ Leaving(w, k + 1)
                            => Leaving(w, k)' \/ Left(w)'
    BY WorkingLeaves
  <2>5. JobInv /\ [Next]_vars =>
          /\ Leaving(w, 10) => Leaving(w, 10)' \/ Left(w)'
          /\ Leaving(w, 9) => Leaving(w, 9)' \/ Left(w)'
          /\ Leaving(w, 8) => Leaving(w, 8)' \/ Left(w)'
          /\ Leaving(w, 7) => Leaving(w, 7)' \/ Left(w)'
          /\ Leaving(w, 6) => Leaving(w, 6)' \/ Left(w)'
          /\ Leaving(w, 5) => Leaving(w, 5)' \/ Left(w)'
          /\ Leaving(w, 4) => Leaving(w, 4)' \/ Left(w)'
          /\ Leaving(w, 3) => Leaving(w, 3)' \/ Left(w)'
          /\ Leaving(w, 2) => Leaving(w, 2)' \/ Left(w)'
          /\ Leaving(w, 1) => Leaving(w, 1)' \/ Left(w)'
    BY <2>3
  <2>6. JobInv /\ <<Working(w)>>_vars =>
          /\ Leaving(w, 10) => Leaving(w, 9)' \/ Left(w)'
          /\ Leaving(w, 9) => Leaving(w, 8)' \/ Left(w)'
          /\ Leaving(w, 8) => Leaving(w, 7)' \/ Left(w)'
          /\ Leaving(w, 7) => Leaving(w, 6)' \/ Left(w)'
          /\ Leaving(w, 6) => Leaving(w, 5)' \/ Left(w)'
          /\ Leaving(w, 5) => Leaving(w, 4)' \/ Left(w)'
          /\ Leaving(w, 4) => Leaving(w, 3)' \/ Left(w)'
          /\ Leaving(w, 3) => Leaving(w, 2)' \/ Left(w)'
          /\ Leaving(w, 2) => Leaving(w, 1)' \/ Left(w)'
          /\ Leaving(w, 1) => Leaving(w, 0)' \/ Left(w)'
    BY <2>4
  <2>7. ~IsAlive(w) => Left(w)
    BY DEF Left
  <2>. QED BY <2>1, <2>2, <2>5, <2>6, <2>7, InitJobInv, NextJobInv, PTL DEF Spec, Scheduled
<1>. QED BY <1>1, WorkersAreScheduled DEF WorkersLeave

-----------------------------------------------------------------------------
(* Each holder of the optimizer's lock gives it back: it holds it for three *)
(* steps of start(), none of which waits for another thread but the last,   *)
(* which needs a Thread object.                                             *)
HoldersCanProceed == \A c \in Callers : Starting(c) => ENABLED <<Proceed(c)>>_vars

At(c, s) == at[c] = s
GaveBack(c) == lock # c

LEMMA HolderAdvances ==
    ASSUME TypeOK, LocksAreNested, [Next]_vars, NEW c \in Callers
    PROVE  /\ At(c, "check") => At(c, "check")' \/ At(c, "clear")' \/ GaveBack(c)'
           /\ At(c, "clear") => At(c, "clear")' \/ At(c, "spawn")'
           /\ At(c, "spawn") => At(c, "spawn")' \/ GaveBack(c)'
           /\ <<Proceed(c)>>_vars =>
                /\ At(c, "check") => At(c, "clear")' \/ GaveBack(c)'
                /\ At(c, "clear") => At(c, "spawn")'
                /\ At(c, "spawn") => GaveBack(c)'
<1> USE NoneIsNoThread DEF At, GaveBack, TypeOK
<1>1. Proceed(c) =>
        /\ At(c, "check") => At(c, "clear")' \/ GaveBack(c)'
        /\ At(c, "clear") => At(c, "spawn")'
        /\ At(c, "spawn") => GaveBack(c)'
  BY DEF Proceed, SetPaused, SetRunning, AlreadyAlive, NotAlive, ClearStop, Spawn, Join, Kill,
         SetExited, Move, Return, Unlock
<1>2. at[c] \in {"check", "clear", "spawn"} /\ ~Proceed(c) => at'[c] = at[c]
  <2>1. ASSUME NEW d \in Callers, Calls(d) \/ Acquire(d) \/ Proceed(d)
        PROVE  /\ \A e \in Callers \ {d} : at'[e] = at[e]
               /\ at[d] \in {"check", "clear", "spawn"} /\ ~Proceed(d) => at'[d] = at[d]
    BY <2>1 DEF Calls, StartProcess, Status, Boot, Pause, Resume, Stop, Wait, Acquire, LockVm,
         Lock, ReadOptimizer, SetStop, Proceed, SetPaused, SetRunning, AlreadyAlive, NotAlive,
         ClearStop, Spawn, Join, Kill, SetExited, Enter, Move, Return, callerVars
  <2>2. ASSUME NEW w \in Workers, Record(w) \/ Turn(w) PROVE at' = at
    BY <2>2 DEF Record, RecordSuccess, RecordFailure, Turn, Loop, Poll, Mark, Read, Quit,
         Reconcile, Sleep, Exit, callerVars
  <2>3. CASE ProcessExit \/ UNCHANGED vars BY <2>3 DEF ProcessExit, vars, callerVars
  <2>. QED BY <2>1, <2>2, <2>3 DEF Next
<1>. QED BY <1>1, <1>2

(* Whoever has the optimizer's lock gives it back, for any number of        *)
(* callers, whatever the VM and the worker do meanwhile.                    *)
THEOREM HoldersGiveItBack ==
    Spec /\ []HoldersCanProceed => \A c \in Callers : lock = c ~> lock # c
<1>1. ASSUME NEW c \in Callers
      PROVE  Spec /\ []HoldersCanProceed => (lock = c ~> lock # c)
  <2>1. Spec => CallerFairness(c)
    BY DEF Spec
  <2>2. HoldersCanProceed =>
          (At(c, "check") \/ At(c, "clear") \/ At(c, "spawn") => ENABLED <<Proceed(c)>>_vars)
    BY DEF HoldersCanProceed, Starting, At
  <2>3. TypeOK /\ LocksAreNested /\ [Next]_vars =>
          /\ At(c, "check") => At(c, "check")' \/ At(c, "clear")' \/ GaveBack(c)'
          /\ At(c, "clear") => At(c, "clear")' \/ At(c, "spawn")'
          /\ At(c, "spawn") => At(c, "spawn")' \/ GaveBack(c)'
    BY HolderAdvances
  <2>4. TypeOK /\ LocksAreNested /\ <<Next /\ Proceed(c)>>_vars =>
          /\ At(c, "check") => At(c, "clear")' \/ GaveBack(c)'
          /\ At(c, "clear") => At(c, "spawn")'
          /\ At(c, "spawn") => GaveBack(c)'
    BY HolderAdvances
  <2>5. LocksAreNested => (lock = c <=> At(c, "check") \/ At(c, "clear") \/ At(c, "spawn"))
    BY DEF LocksAreNested, Starting, At
  <2>6. (GaveBack(c) <=> lock # c) /\ (lock # c <=> ~(lock = c))
    BY DEF GaveBack
  <2>7. <<Proceed(c)>>_vars => <<Next /\ Proceed(c)>>_vars
    BY DEF Next
  <2>. QED BY <2>1, <2>2, <2>3, <2>4, <2>5, <2>6, <2>7, LocksStayNested, PTL DEF Spec, CallerFairness
<1>. QED BY <1>1

=============================================================================
