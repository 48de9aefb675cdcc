-------------------------- MODULE MemoryOptimizer --------------------------
(***************************************************************************)
(* The background memory optimizer of a crackerVM                          *)
(* (BalloonMemoryOptimizer, src/crackersdk/balloon_policy.py) and the      *)
(* methods of the VM that start and stop it (src/crackersdk/vm.py), thread *)
(* by thread and step by step: what one thread read may be stale by the    *)
(* time it acts on it.                                                     *)
(*                                                                         *)
(* Callers are threads that use the object: start, boot, pause, resume,    *)
(* stop, wait.  Workers stand for the Thread objects the optimizer makes;  *)
(* a Thread that has ended and that nobody joins any more is used again.   *)
(* The model starts after the balloon was configured, with optimize_memory *)
(* on; requests that fail change nothing here and are left out.            *)
(***************************************************************************)
EXTENDS Naturals

CONSTANTS Callers, Workers, None,
          MaxFailures   \* max_failures, 3 by default

ASSUME MaxFailuresIsPositive == MaxFailures \in Nat \ {0}
ASSUME NoneIsNoThread == None \notin Callers \cup Workers

VARIABLES
    vmState,    \* vm._state
    vmm,        \* the Firecracker process: "off" when there is none
    created,    \* vm._memory_optimizer is not None
    vmLock,     \* holder of vm._memory_optimizer_lock
    lock,       \* holder of the optimizer's _lock
    thread,     \* the optimizer's _thread
    stopEvent,  \* _stop_event.is_set()
    failures,   \* _consecutive_failures, counted up to MaxFailures
    at,         \* where each caller is
    call,       \* the method it is in
    joining,    \* the thread it is joining
    step        \* where each worker is; "dead" is not is_alive()

vmVars == <<vmState, vmm>>
optimizerVars == <<created, thread, stopEvent, failures>>
callerVars == <<at, call, joining>>
vars == <<vmVars, optimizerVars, vmLock, lock, callerVars, step>>

Methods == {"none", "boot", "resume", "pause", "stop", "wait"}
CallerSteps == {"idle", "set_running", "set_paused", "vm_lock", "lock", "check",
                "clear", "spawn", "read", "set_stop", "join", "kill", "set_exited"}
WorkerSteps == {"dead", "loop", "poll", "mark", "read", "quit", "reconcile",
                "success", "failure", "sleep", "exiting"}

Init ==
    /\ vmState = "EXITED" /\ vmm = "off"
    /\ created = FALSE /\ vmLock = None /\ lock = None
    /\ thread = None /\ stopEvent = FALSE /\ failures = 0
    /\ at = [c \in Callers |-> "idle"]
    /\ call = [c \in Callers |-> "none"]
    /\ joining = [c \in Callers |-> None]
    /\ step = [w \in Workers |-> "dead"]

IsAlive(w) == w # None /\ step[w] # "dead"

Move(c, from, to) == at[c] = from /\ at' = [at EXCEPT ![c] = to]
Return(c, from) == Move(c, from, "idle") /\ call' = [call EXCEPT ![c] = "none"]
Enter(c, method, first) == /\ Move(c, "idle", first)
                           /\ call' = [call EXCEPT ![c] = method]

-----------------------------------------------------------------------------
(* Methods that do not reach the optimizer. *)

(* start: a new process, _state is not touched. *)
StartProcess(c) ==
    /\ at[c] = "idle" /\ vmm = "off"
    /\ vmm' = "preboot"
    /\ UNCHANGED <<vmState, optimizerVars, vmLock, lock, callerVars, step>>

Status(c) ==
    /\ at[c] = "idle"
    /\ vmState' = IF vmm = "off" THEN "EXITED" ELSE vmState
    /\ UNCHANGED <<vmm, optimizerVars, vmLock, lock, callerVars, step>>

Pause(c) ==
    /\ vmState = "RUNNING" /\ vmm = "running" /\ vmm' = "paused"
    /\ Enter(c, "pause", "set_paused")
    /\ UNCHANGED <<vmState, optimizerVars, vmLock, lock, joining, step>>

SetPaused(c) ==
    /\ Return(c, "set_paused") /\ vmState' = "PAUSED"
    /\ UNCHANGED <<vmm, optimizerVars, vmLock, lock, joining, step>>

-----------------------------------------------------------------------------
(* boot and resume: the request, _state = RUNNING, then                     *)
(* _start_memory_optimizer_if_enabled, which keeps the VM's lock while the  *)
(* optimizer's start() runs under its own.                                  *)

Boot(c) ==
    /\ vmm = "preboot" /\ vmm' = "running"
    /\ Enter(c, "boot", "set_running")
    /\ UNCHANGED <<vmState, optimizerVars, vmLock, lock, joining, step>>

Resume(c) ==
    /\ vmState = "PAUSED" /\ vmm = "paused" /\ vmm' = "running"
    /\ Enter(c, "resume", "set_running")
    /\ UNCHANGED <<vmState, optimizerVars, vmLock, lock, joining, step>>

SetRunning(c) ==
    /\ Move(c, "set_running", "vm_lock") /\ vmState' = "RUNNING"
    /\ UNCHANGED <<vmm, optimizerVars, vmLock, lock, call, joining, step>>

LockVm(c) ==
    /\ Move(c, "vm_lock", "lock")
    /\ vmLock = None /\ vmLock' = c
    /\ created' = TRUE
    /\ UNCHANGED <<vmVars, thread, stopEvent, failures, lock, call, joining, step>>

(* Mutant of Lock: start() clears the stop event before looking. *)
Lock_ClearsStop(c) ==
    /\ Move(c, "lock", "check")
    /\ lock = None /\ lock' = c
    /\ stopEvent' = FALSE
    /\ UNCHANGED <<vmVars, created, thread, failures, vmLock, call, joining, step>>

Lock(c) ==
    /\ Move(c, "lock", "check")
    /\ lock = None /\ lock' = c
    /\ UNCHANGED <<vmVars, optimizerVars, vmLock, call, joining, step>>

Unlock == vmLock' = None /\ lock' = None

(* A worker that is still alive is left alone, even when told to stop. *)
AlreadyAlive(c) ==
    /\ IsAlive(thread)
    /\ Return(c, "check") /\ Unlock
    /\ UNCHANGED <<vmVars, optimizerVars, joining, step>>

(* Mutant of NotAlive: a worker told to stop is taken for dead. *)
NotAlive_Stopping(c) ==
    /\ ~IsAlive(thread) \/ stopEvent
    /\ Move(c, "check", "clear")
    /\ UNCHANGED <<vmVars, optimizerVars, vmLock, lock, call, joining, step>>

NotAlive(c) ==
    /\ ~IsAlive(thread)
    /\ Move(c, "check", "clear")
    /\ UNCHANGED <<vmVars, optimizerVars, vmLock, lock, call, joining, step>>

ClearStop(c) ==
    /\ Move(c, "clear", "spawn")
    /\ stopEvent' = FALSE
    /\ UNCHANGED <<vmVars, created, thread, failures, vmLock, lock, call, joining, step>>

Spawn(c) ==
    /\ Return(c, "spawn") /\ Unlock
    /\ \E w \in Workers :
        /\ step[w] = "dead" /\ \A d \in Callers : joining[d] # w
        /\ thread' = w
        /\ step' = [step EXCEPT ![w] = "loop"]
    /\ UNCHANGED <<vmVars, created, stopEvent, failures, joining>>

-----------------------------------------------------------------------------
(* stop, and wait once the process ended: _stop_memory_optimizer reads the  *)
(* optimizer under the VM's lock and stops it outside; the join gives up    *)
(* after its timeout.  stop() then ends the process.                        *)

Stop(c) ==
    /\ Enter(c, "stop", "read")
    /\ UNCHANGED <<vmVars, optimizerVars, vmLock, lock, joining, step>>

Wait(c) ==
    /\ vmm = "off"
    /\ Enter(c, "wait", "read")
    /\ UNCHANGED <<vmVars, optimizerVars, vmLock, lock, joining, step>>

AfterStop(c) == IF call[c] = "stop" THEN "kill" ELSE "set_exited"

ReadOptimizer(c) ==
    /\ vmLock = None
    /\ Move(c, "read", IF created THEN "set_stop" ELSE AfterStop(c))
    /\ UNCHANGED <<vmVars, optimizerVars, vmLock, lock, call, joining, step>>

SetStop(c) ==
    /\ lock = None
    /\ Move(c, "set_stop", IF thread = None THEN AfterStop(c) ELSE "join")
    /\ stopEvent' = TRUE
    /\ joining' = [joining EXCEPT ![c] = thread]
    /\ UNCHANGED <<vmVars, created, thread, failures, vmLock, lock, call, step>>

(* The joined thread ended, or the timeout did. *)
Join(c) ==
    /\ Move(c, "join", AfterStop(c))
    /\ joining' = [joining EXCEPT ![c] = None]
    /\ UNCHANGED <<vmVars, optimizerVars, vmLock, lock, call, step>>

Kill(c) ==
    /\ Move(c, "kill", "set_exited") /\ vmm' = "off"
    /\ UNCHANGED <<vmState, optimizerVars, vmLock, lock, call, joining, step>>

SetExited(c) ==
    /\ Return(c, "set_exited") /\ vmState' = "EXITED"
    /\ UNCHANGED <<vmm, optimizerVars, vmLock, lock, joining, step>>

-----------------------------------------------------------------------------
(* _run *)

Advance(w, from, to) == step[w] = from /\ step' = [step EXCEPT ![w] = to]

(* Mutant of Loop: the event only cuts the sleep short. *)
Loop_IgnoresStop(w) ==
    /\ Advance(w, "loop", "poll")
    /\ UNCHANGED <<vmVars, optimizerVars, vmLock, lock, callerVars>>

Loop(w) ==
    /\ Advance(w, "loop", IF stopEvent THEN "dead" ELSE "poll")
    /\ UNCHANGED <<vmVars, optimizerVars, vmLock, lock, callerVars>>

(* vm.status(): poll the process, record EXITED if it ended, read _state. *)
Poll(w) ==
    /\ Advance(w, "poll", IF vmm = "off" THEN "mark" ELSE "read")
    /\ UNCHANGED <<vmVars, optimizerVars, vmLock, lock, callerVars>>

Mark(w) ==
    /\ Advance(w, "mark", "read") /\ vmState' = "EXITED"
    /\ UNCHANGED <<vmm, optimizerVars, vmLock, lock, callerVars>>

(* Mutant of Read: an exited VM is waited for like a paused one. *)
Read_WaitsForExited(w) ==
    /\ Advance(w, "read", IF vmState = "RUNNING" THEN "reconcile" ELSE "sleep")
    /\ UNCHANGED <<vmVars, optimizerVars, vmLock, lock, callerVars>>

Read(w) ==
    /\ Advance(w, "read", CASE vmState = "EXITED" -> "quit"
                            [] vmState = "PAUSED" -> "sleep"
                            [] vmState = "RUNNING" -> "reconcile")
    /\ UNCHANGED <<vmVars, optimizerVars, vmLock, lock, callerVars>>

(* Mutant of Quit: the worker leaves its loop without setting the event. *)
Quit_Untold(w) ==
    /\ Advance(w, "quit", "exiting")
    /\ UNCHANGED <<vmVars, optimizerVars, vmLock, lock, callerVars>>

Quit(w) ==
    /\ Advance(w, "quit", "exiting") /\ stopEvent' = TRUE
    /\ UNCHANGED <<vmVars, created, thread, failures, vmLock, lock, callerVars>>

(* The autoscaler's reconcile() polls the VM again; it can succeed only     *)
(* with a booted Firecracker, and may always fail.                          *)
Reconcile(w) ==
    /\ \/ vmm \in {"running", "paused"} /\ Advance(w, "reconcile", "success")
       \/ Advance(w, "reconcile", "failure")
    /\ vmState' = IF vmm = "off" THEN "EXITED" ELSE vmState
    /\ UNCHANGED <<vmm, optimizerVars, vmLock, lock, callerVars>>

RecordSuccess(w) ==
    /\ lock = None
    /\ Advance(w, "success", "sleep")
    /\ failures' = 0
    /\ UNCHANGED <<vmVars, created, thread, stopEvent, vmLock, lock, callerVars>>

(* Mutant of RecordFailure: one failure more than allowed. *)
RecordFailure_OffByOne(w) ==
    /\ lock = None
    /\ failures' = failures + 1
    /\ LET giveUp == failures' > MaxFailures
       IN /\ Advance(w, "failure", IF giveUp THEN "exiting" ELSE "sleep")
          /\ stopEvent' = (stopEvent \/ giveUp)
    /\ UNCHANGED <<vmVars, created, thread, vmLock, lock, callerVars>>

RecordFailure(w) ==
    /\ lock = None
    /\ failures' = IF failures < MaxFailures THEN failures + 1 ELSE failures
    /\ LET giveUp == failures' = MaxFailures
       IN /\ Advance(w, "failure", IF giveUp THEN "exiting" ELSE "sleep")
          /\ stopEvent' = (stopEvent \/ giveUp)
    /\ UNCHANGED <<vmVars, created, thread, vmLock, lock, callerVars>>

(* _stop_event.wait(interval) returns on the event or after the interval. *)
Sleep(w) ==
    /\ Advance(w, "sleep", "loop")
    /\ UNCHANGED <<vmVars, optimizerVars, vmLock, lock, callerVars>>

Exit(w) ==
    /\ Advance(w, "exiting", "dead")
    /\ UNCHANGED <<vmVars, optimizerVars, vmLock, lock, callerVars>>

ProcessExit ==
    /\ vmm # "off" /\ vmm' = "off"
    /\ UNCHANGED <<vmState, optimizerVars, vmLock, lock, callerVars, step>>

-----------------------------------------------------------------------------
Calls(c) == StartProcess(c) \/ Status(c) \/ Boot(c) \/ Pause(c) \/ Resume(c)
                \/ Stop(c) \/ Wait(c)

Acquire(c) == LockVm(c) \/ Lock(c) \/ ReadOptimizer(c) \/ SetStop(c)

Proceed(c) == SetPaused(c) \/ SetRunning(c) \/ AlreadyAlive(c) \/ NotAlive(c)
                  \/ ClearStop(c) \/ Spawn(c) \/ Join(c) \/ Kill(c) \/ SetExited(c)

Record(w) == RecordSuccess(w) \/ RecordFailure(w)

Turn(w) == Loop(w) \/ Poll(w) \/ Mark(w) \/ Read(w) \/ Quit(w) \/ Reconcile(w)
               \/ Sleep(w) \/ Exit(w)

Next == \/ \E c \in Callers : Calls(c) \/ Acquire(c) \/ Proceed(c)
        \/ \E w \in Workers : Record(w) \/ Turn(w)
        \/ ProcessExit

(* Threads are scheduled, and a thread that finds a lock free again and     *)
(* again gets it; nobody has to call a method.                              *)
CallerFairness(c) == WF_vars(Proceed(c)) /\ SF_vars(Acquire(c))
WorkerFairness(w) == WF_vars(Turn(w)) /\ SF_vars(Record(w))

Spec == /\ Init /\ [][Next]_vars
        /\ \A c \in Callers : CallerFairness(c)
        /\ \A w \in Workers : WorkerFairness(w)

-----------------------------------------------------------------------------
TypeOK ==
    /\ vmState \in {"RUNNING", "PAUSED", "EXITED"}
    /\ vmm \in {"off", "preboot", "running", "paused"}
    /\ created \in BOOLEAN
    /\ vmLock \in Callers \cup {None}
    /\ lock \in Callers \cup {None}
    /\ thread \in Workers \cup {None}
    /\ stopEvent \in BOOLEAN
    /\ failures \in 0..MaxFailures
    /\ at \in [Callers -> CallerSteps]
    /\ call \in [Callers -> Methods]
    /\ joining \in [Callers -> Workers \cup {None}]
    /\ step \in [Workers -> WorkerSteps]

(* However boot, resume, stop and a dying worker interleave, at most one    *)
(* worker drives the balloon, and it is the one stop() would join: a worker *)
(* is never orphaned behind a newer one.                                    *)
OneWorker == \A w \in Workers : IsAlive(w) => thread = w

(* A request to stop is never taken back while a worker that has to obey it *)
(* is alive: start() cannot clear the event under the old worker.           *)
StopIsNotLost ==
    [][stopEvent /\ ~stopEvent' => \A w \in Workers : ~IsAlive(w)]_vars

(* A stop request ends the worker, although join may have given up on it. *)
StopTakesEffect ==
    \A w \in Workers : (IsAlive(w) /\ stopEvent) ~> ~IsAlive(w)

(* A VM that is gone for good leaves no worker polling it. *)
NoWorkerOutlivesTheVm ==
    <>[](vmm = "off") => <>[](\A w \in Workers : ~IsAlive(w))

(* The threads, locks and the event implement one job with at most one      *)
(* worker: whatever boot, resume, stop, wait and a worker that gives up do  *)
(* to each other, a fresh worker is never stillborn under an old stop       *)
(* request, a told one stays told and ends, and none ends untold.           *)
AliveWorkers == {w \in Workers : IsAlive(w)}
Job == INSTANCE BackgroundJob WITH working <- AliveWorkers,
                                   told <- stopEvent /\ AliveWorkers # {}
ImplementsJob == Job!Spec

(* README.md:176: optimize_memory=True "starts the background memory        *)
(* optimizer when the VM boots".  With no call under way, no failure on     *)
(* record and the VM running, a worker that was not told to stop is alive.  *)
RunningVmHasWorker ==
    (/\ \A c \in Callers : at[c] = "idle"
     /\ vmm = "running" /\ vmState = "RUNNING" /\ failures = 0)
        => IsAlive(thread) /\ ~stopEvent

=============================================================================
