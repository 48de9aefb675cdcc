# Verification of cracker-sdk

`cracker-sdk` drives [Firecracker] micro-VMs from Python: a `crackerVM` object
starts the `firecracker` process, configures it over its HTTP-on-Unix-socket
API, boots, pauses, snapshots and stops it; a background thread can shrink and
grow the guest with a balloon; a `Jailer` can wrap the object so that the
process runs in a chroot. Example applications add programs that run inside the
guest and talk to the host over vsock.

The modules here are written from the source, file and line of which
`PROJECT.json` ("map") gives for every definition. Paths below are those of the
repository. TLC checks each module on a small instance; TLAPS proves the main
safety properties for every value of the constants.

## 1. Inventory

| component | state it keeps | operations | interacts with |
|---|---|---|---|
| VM object, `vm.py`, `lifecycle.py` | `_state`, the devices it configured (`_balloon`, `_vsock`, `_entropy_enabled`, `_network_interfaces`), `_machine_config`, the optimizer and its last error | `start`, `wait_until_ready`, `configure_*`, `machine`, `boot_source`, `drive`, `network`, `vsock`, `entropy`, `balloon`, `boot`, `pause`, `resume`, `wait`, `stop`, `status`, `run` | process manager, API wrappers, optimizer (locks, events, join) |
| Snapshots, `vm.py`, `snapshot.py` | three files per path: VM state, memory, manifest | `create_snapshot`, `snapshot`, `load_snapshot`, `restore` | Firecracker writes two of the files, the SDK the third |
| Memory optimizer, `balloon_policy.py` | thread, stop event, failure counter, last error | `start`, `stop`, the worker's `_run` | reads `vm.status()`, calls the autoscaler |
| Balloon policy and autoscaler, `balloon_policy.py`, `balloon.py` | policy, `_last_change_at`, `vm._balloon` | `reconcile`, `balloon_config`, `update_balloon` | `/proc/meminfo`, Firecracker's balloon |
| Process manager, `process.py` | `Popen`, log file, output chunks, reader threads | `start`, `wait`, `stop`, `is_running` | the kernel |
| API wrappers, `boot.py`, `runtime.py`, `networking.py`, `logger.py` | none | validate, send one request | transport |
| HTTP transport, `transport.py` | none | `request` | Firecracker's socket |
| Jailer, `jailer.py`, `launcher.py` | `_context`, the VM's saved settings, host vsock path; on disk the jail and a binary shared by all jails of a base | prepare, `start`, `vsock`, `run`, `stop`, `cleanup`, `__exit__` | the VM object it repoints, other Jailers through the disk |
| Exec sandboxing, `exec_sandboxing/rootfs/agent.c`, `main.py` | one connection, one script, its process group, pipes, files with fixed names | `HEALTH`, `EXEC`, `UPLOAD`, `DOWNLOAD` | host clients over vsock, the script |
| Vsock client, `vsock.py` | a socket | `connect`, `send`, `recv`, `request`, `close` | Firecracker's vsock proxy |
| Job runner, `isolated_python_job_runner/` | one request at a time, a timer on each side, `/workspace/code` | `wait_for_agent`, `VsockTunnel.request`; the agent's `serve`, `run_code` | host tunnel over vsock, the job's processes |
| Warm pool, memory-governed workers, SSH sandbox, quick start | none of their own | scripts over the SDK | the SDK |

### What is hard here

* **The object's view against Firecracker's.** `_state` and the cached devices
  are assigned after an answer. A request can take effect while its answer is
  lost to the socket timeout; the process can exit with nobody looking; the
  object may be started again.
* **Threads.** `run()` on one thread and `pause()` or `stop()` on another use
  one object without a lock (the quick-start example does it). The optimizer's
  worker reads `status()` and writes `_state` through it; `stop()` joins it with
  a timeout that may run out. Nearly every assignment to `_state` comes after a
  poll, a request or the end of a process, and another thread may have replaced
  the process by then.
* **Fields without locks.** `ProcessManager` replaces its process, lists, threads
  and log file while readers and other callers use them.
* **Files without rollback.** A snapshot is three files written by two programs,
  and either can be killed in between.
  A jail is a directory filled step by step, beside a shared binary that is
  unlinked and copied again.
* **A control loop with stale input.** The autoscaler's clock, reading and
  cached balloon can all be older than the balloon it changes.
* **A single-threaded guest agent** that must survive clients that vanish and
  scripts that fork, flood or hang, or that meddle with the files it works on.

### What makes each component correct

* VM object: its state and device cache are Firecracker's, except for what it
  provably cannot know and for a process that was replaced under another thread's
  feet; `run()` returns, and leaves nothing running that nobody else started.
* Snapshots: manifest and image list the same devices, wherever the program that
  wrote them was killed, up to what the object kept from an earlier process or lost
  track of; restoring leaves a true cache.
* Process manager: what it reports as output is complete; `stop()` ends the process it was called for and comes back; only an overlap or
  a reader that was given up on makes anything raise.
* Optimizer: at most one worker; a stop is never lost; no worker outlives the VM.
* Autoscaler: the guest keeps its headroom; changes are a cooldown apart; under
  constant conditions the balloon settles, unless the loop had given up.
* Jailer: the VM is given back; an incomplete jail is never used; what is launched
  is the whole of the Jailer's own binary; one owner per jail.
* Exec agent: no output is lost between script and reply as long as the output file
  takes it; a script is over when it is reported; the agent comes back to `accept`
  unless a script floods it or blocks it with a FIFO.
* Job runner: an answer belongs to the request it reaches; neither side is stuck
  unless a job leaves a FIFO; no job ends the agent while the host listens.

## 2. The modules

| module | models | theorems |
|---|---|---|
| `VmSession` | one `crackerVM` with Firecracker and the snapshot files, over the lives of its program | `VmSession_proofs` |
| `ProcessIO` | `ProcessManager`: processes, callers, reader threads and the log | `ProcessIO_proofs` |
| `BackgroundJob` | what the optimizer promises, without threads, locks and events | |
| `MemoryOptimizer` | optimizer, its worker, the VM's calls to it, lock by lock; implements `BackgroundJob` | `MemoryOptimizer_proofs` |
| `BalloonPolicy` | the arithmetic of policies and balloon sizes | |
| `BalloonAutoscaler` (extends `BalloonPolicy`) | `reconcile` step by step beside a user and the host | `BalloonAutoscaler_proofs` |
| `Jailer` | Jailers and the disk they share | `Jailer_proofs` |
| `ExecAgent` | the guest agent, its clients, its script | `ExecAgent_proofs` |
| `JobRunner` | host and guest of the job runner, both timers, the guest's death | `JobRunner_proofs` |

`MC*` modules give constants to TLC. An operator `X_Suffix` that stands before
`X` and is used by nothing is a deliberately wrong version of `X`, the way a
plausible bug would make it; each property is known to fail when the wrong
version is put in the place of the right one.

### VmSession

State, cache, machine and optimizer are the fields of the object; `vmm` and
`devices` are what the live process has, `disk` the files of each snapshot path.
A request has three outcomes (`Outcome`): it failed, was answered, or took effect
while its answer was lost. `Outcome` allows an effect only where Firecracker
accepts the request in its state (external to the repository, modelled from the
calls the SDK makes). A device whose request failed comes back as an unsuccessful
result, and only `run()` raises for it; the model counts it as a raise.
`snapshot()` is `Pause` followed by `CreateSnapshot`, `restore()` is
`LoadSnapshot`.

Three threads use the object: one inside `run()`, a program with a program counter
whose steps *are* the methods, a second one that may call any of them in between
(`Call`), and the optimizer's worker. A method's request and what the object caches
of its answer are one action. Its assignment to `_state` is a later one (`Record`):
`owes` says which value a thread is about to assign, after its poll (`SeesExit`),
its request (`Boot`, `Pause`, `Resume`, `LoadSnapshot`) or the process it waited
for or killed. `wait()` and `stop()` have stages (`doing`): `wait()` blocks on the
process it began with, closes the log, which may raise while another thread is
closing it, stops the optimizer, and only then records; `stop()` stops the
optimizer, sees to the process, and then records or raises. A thread whose process
is replaced by a new one meanwhile is in `replaced`: its `wait()` ends, its `stop()`
may or may not kill the new process, may wait for it for good (`Blocked`), and the
EXITED it records hits the new process's state.

`ProgramDies` ends the program at any moment, inside `create_snapshot` too, and
starts the next one: a new object over the same snapshot files, as
`warm_snapshot_pool/main.py` does, first without and then with `--restore`. A
Firecracker that was alive lives on out of reach of any object.

`inherited` and `lost` are history variables that only properties and the
manifest's ghost fields read. They name what the object cannot know: devices cached
from an earlier process, requests whose answer was lost, and, as the `"state"` in
`lost`, the state of a process that was started before an exit was observed or
while another thread was in the middle of `wait()`, `stop()` or an assignment. An
object that is used by one thread and looks at its state before it starts again
never loses it but to a lost answer.

### MemoryOptimizer

The same methods, split where a thread can be interrupted: acquiring either lock,
testing `is_alive()`, clearing the event, creating the thread, reading the
process, recording `EXITED`, reading `_state`. `join` may give up at any time.
Failing requests are left out of the callers (they change nothing here) and kept
in the worker, where they are counted. `VmSession` has the same worker as one
thread among three, with its poll, its assignment and its end.

`BackgroundJob` is the specification that a user of the optimizer has in mind: it
is done by nobody or by one worker, who begins untold, ends only when told, and
then does end. `MemoryOptimizer` implements it with the live threads as
`working`, and the stop event, while there is a live thread, as `told`.

### ProcessIO

One step per access of a field of the object: `stop()` reads `_proc` for
`terminate`, for each `wait` and for `kill`; a reader reads `_log_fp` to test, to
write and to flush. Call number *k* of `start()` makes list and readers *k* and,
if `Popen` succeeds, process *k*. Calls of `start()` follow each other, while
`wait()` and `stop()` come from any thread at any time. A process may ignore
`SIGTERM`, and a child of it may keep its pipes open for good. `called`,
`overlapped` and `left` are history variables that only properties read.

### BalloonPolicy and BalloonAutoscaler

Policies and amounts are computed with the code's arithmetic; 128 and 64 MiB of
the source are the constants `Headroom` and `DefaultMin`. The worker's
`reconcile` is split at each request; `gap` is a history clock for the cooldown.
Faults come and go (`faults`), and the host's memory changes at any time. The loop
around `reconcile` counts failures in a row and ends for good at `MaxFailures`
(`at = "ended"`), the code's `max_failures`.

### Jailer

Each file operation that can raise is a step that can fail, leaving what was done
so far; `Crash` ends the program at any step and starts it anew over the same
disk, perhaps with another binary. Every Jailer has a binary of its own
configuration (`binary`) and compares the shared file with that; a file that
differs is unlinked and copied anew, also when another Jailer is about to launch
it, which the history variable `replaced` notes. What overlapping copies of the
shared binary make of it is left open (`Mess`). That the file behind one path
changes while Jailers use it is not modelled.

### ExecAgent

Clients connect, send any part of a request and close at any time. The script,
its children (in its process group or not) and the deadline move on their own
between any two steps of the agent. Output is counted in chunks; stdout and
stderr, treated alike, are one pipe. A chunk that is read from the pipe may fail to
be written to the output file (a full disk; `write_all`'s result is ignored), which
`lost` notes; `file` says that the file was opened and is still the one at its
path. Scripts, and what they left running, own `/workspace`: they may remove or
replace the output file (`ReplaceFile`) and, where `Fifos` holds, put a FIFO at any
path the agent opens, which blocks it until somebody opens the other end
(`Block`, `Unblock`). What a file holds that the agent could not open or that was
replaced is not modelled, and nothing is claimed of it.

### JobRunner

The host has one request under way, over a connection of its own, and goes through
the socket operations of it (`op`: connect, send, the header and the body of the
answer), each with the whole of the socket's timeout (`waited` starts anew). The
agent has the job and a timer for it. A host that gives up closes its end and goes
on to its next request, which waits in the backlog while the agent is still busy.
Writing to a closed connection may raise (or may be too early to notice): the agent
answers an exception with an error frame, and an exception while writing *that*
ends `serve()`; `/init` runs with `set -e` and is process 1, so the guest goes down.
`turn` tells the host's last request from the one before; `abandoned` is a history
variable. `left` says that a job has run: what it left may have put a FIFO where the
next job's program is written, and the agent blocks there.

## 3. What the runs check

| run | instance | shows |
|---|---|---|
| `vm_session` | two objects: one with the memory optimizer and an interface, whose worker runs, without snapshots; one with vsock and 1 snapshot path, optimizer off. `run()`, a second caller, programs one after the other | `StateAgreement`, `CacheIsComplete`, `CacheIsTruthful`; manifests match their images over overwriting, failing, restarting and being killed (`ManifestMatchesImage`); `run()` leaves nothing running (`RunLeavesNothing`) and returns (`RunReturns`); the worker notices a VM nobody asks about (`ExitIsNoticed`) |
| `vm_second_boot` | the smallest object | **violated:** `BalloonConfiguredAtBoot` |
| `optimizer` | 2 callers, 2 threads, gives up at the first failure | `OneWorker`, `StopIsNotLost`, `StopTakesEffect`, `NoWorkerOutlivesTheVm`, and the refinement `ImplementsJob` |
| `optimizer_restart` | 1 caller, 2 threads | **violated:** `RunningVmHasWorker` |
| `autoscaler` | memory 7, headroom 1, step 2, cooldown 3, request time 1, gives up at the second failure in a row, three host readings | `GuestKeepsHeadroom`, `CooldownHolds`, `Settles` |
| `process_io` | 2 callers, 2 processes one after the other, 1 stream with 1 chunk each | `OutputIsComplete`, `FailureHasACause`, `StopKills`, `StopReturns` |
| `jailer` | 2 Jailers, own ids, one base, 2 binaries | `VmIsGivenBack`, `JailIsComplete`, `LaunchesOwnBinary` |
| `jailer_retry` | 1 Jailer | **violated:** `StartsInJail` |
| `jailer_race` | 2 Jailers, one id | **violated:** `OneOwner` |
| `exec_agent` | 2 clients, a pipe of 1 chunk, scripts that write at most 2 and make FIFOs | `OutputIsComplete`, `ScriptIsOver`, `AgentComesBack` |
| `job_runner` | 2 connections, the host's timer 3 ticks, a job's 2 | `DiesOnlyWhenAbandoned`, `AnswerIsOwn`, `HostComesBack`, `AgentComesBack` |
| `exec_flood` | 1 client, an endless script, no FIFOs | **violated:** `TimeoutIsEnforced` |

Every run also checks for deadlock, but two: in `job_runner` `main()` returns and
leaves nothing running, and in `exec_agent` a FIFO that nobody opens can stop
everything. One run of each module checks its `TypeOK`.

**Why these bounds are enough to be interesting.** One interface and one snapshot
path reach every branch of the code, which treats interfaces and paths one by
one; two threads on one object are the smallest instance of every race between
callers, and the worker is a third. `vm_session` has two objects, of
which a behaviour picks one, because all of it in one object is too large a state
space: what snapshots add to the threads is a state and a cache to begin with
(`LoadSnapshot`), what the optimizer adds to snapshots is a balloon in the cache. The
safety proofs of section 4 cover both together; with one device, optimizer and
snapshots in one object the safety properties hold, and with two devices in `run()`
and no snapshots all of them do. Two `Thread` objects suffice because when one
is made every other has ended, and at most the other caller still joins one. Two
processes are what it takes for a reader of one to meet the lists and the log of
the next; the streams of a process share nothing but the log's lock, so one per
process does; with two streams of two chunks and one process the same properties
hold. A
pipe of one chunk and a script of two fill and empty the pipe more than once. Two
binaries are what it takes for one Jailer to replace another's. The autoscaler's step does not divide its range, the given policy exceeds the
machine, and the balloon can start outside the policy's range. Sizes of sets,
pipe and memory are the constants of the proofs, which hold for all of them.
The only caps on counters are `MaxFailures` (where the worker's loop ends),
`MaxWrites` (chunks of one script), `Timeout` (how long a request takes), the
timers of `JobRunner`, and `Cooldown`, `Never` and `gap`, which saturate where the
code's comparisons stop telling values apart.

### Fairness

* `VmSession`: weak fairness of the thread inside `run()`, unless it is in a `stop()`
  that waits for a process it did not kill (`Blocked`, process.py:141, without a
  timeout), and of the worker's steps that find the process gone or record that;
  turns over a healthy VM may repeat for ever. `WaitTimesOut` is why `run()` returns
  although the guest need not exit. No caller is obliged to call, and Firecracker never has to exit.
* `MemoryOptimizer`: weak fairness of each thread's own steps; strong fairness of
  acquiring a lock, because a lock is free again and again rather than for good,
  and the `threading.Lock` of the code is not held for ever by anyone.
* `ProcessIO`: weak fairness of each caller inside `start()` and `stop()` and at
  the end of `wait()`. `join` and the first `wait` of `stop()` time out by
  themselves. No process has to exit, no pipe to close, no reader to read, and a
  caller may stay in `wait()`. `StopReturns` allows one exception, which the code
  has: the wait after `kill()` has no timeout and reads `_proc` again, so it waits
  without end for a process that another thread's later `start()` put there.
* `BalloonAutoscaler`: weak fairness of the worker, until its loop ends, of a user inside
  `update_balloon`, and of time. Faults and the host are unconstrained;
  `Settles` assumes that they eventually stay as they are and that the worker had
  not given up by then.
* `ExecAgent`: weak fairness of the agent, of the deadline's clock and of each
  client's `close`, which the client's socket timeouts bring about. A script need
  not do anything, ever, and nobody has to open the other end of a FIFO. The death
  of a process group after SIGKILL is taken as immediate.
* `JobRunner`: weak fairness of the host's return from a request, of the agent where
  no FIFO blocks it and of time. A command need not do anything, a host need not
  connect or finish sending.

### Findings

1. `vm_second_boot`: `boot()` configures the balloon only when `_balloon` is not
   set; nothing resets it when the process ends. The second boot of an object has
   no balloon, although README.md:176 promises one, and no optimizer error says so.
2. `optimizer_restart`: `stop()` may give up joining a worker that is inside a
   request; `start()` of the restarted VM finds it alive and returns; it then
   obeys the stop. The VM runs without an optimizer.
3. `jailer_retry`: `_context` is set before the VM is repointed. When repointing
   raises, a retried `start()` takes the jail as prepared and launches the process
   outside it.
4. `jailer_race`: the check that a jail does not exist and its creation, with
   `exist_ok=True`, are separated by a copy of the binary: two Jailers with one id
   both pass.
5. `exec_flood`: `drain_available` reads while there is anything to read; a script
   that keeps writing keeps the agent from looking at the deadline.

Some of what the models do is no finding, because no document says otherwise, and is
named in a property or a hazard instead: an EXITED that a poll or a `wait()` of one
thread writes over a VM that another thread started meanwhile, after which the
worker of the new VM ends (`StateAgreement`); a `stop()` that waits for a process it
did not kill (`RunReturns`, `StopReturns`); a manifest that lists devices its image
lacks, after a restart with a full cache (`ManifestMatchesImage`, vm.py:832); another
Jailer's binary in the jail (`LaunchesOwnBinary`); output lost on a full disk and
reported OK (`OutputIsComplete`); an agent blocked by a FIFO (`AgentComesBack`); and
a guest that goes down when an error frame meets a connection the host has left,
which with the defaults, 30 seconds on both sides, is up to chance
(`DiesOnlyWhenAbandoned`).

## 4. What is proved

Each `*_proofs` module states an inductive invariant, `IInv`, shows that `Init`
implies it and every step keeps it, and derives the theorems. They assume only the
named `ASSUME`s of the modules, which TLC evaluates in every run; where a theorem
has a hypothesis of its own, its statement names it.

* **VmSession**: `TypeCorrect`, `StateAgrees`, `CacheTruthful`, `CacheComplete`,
  `ManifestsMatch`, `RunCleansUp`, for any interfaces, snapshot paths and requested
  devices. `IInv` is the conjunction of the type invariant, the safety invariants and
  three strengthenings. `Pending` says what threads may be about to assign while the
  state of a process is not lost: nothing, or what the VM is, and only one of them;
  `ReplacedIsLost` why a thread whose process was replaced cannot break
  `StateAgreement`; `DevicesAreKnown` why a manifest lists what its image has. The
  parts are needed together: restoring takes the cache from a manifest, so
  `CacheIsTruthful` rests on `ManifestMatchesImage`, which in turn rests on the cache
  being true and complete when the manifest was written. The proof shows first that
  a step of any thread is a stage or a method (`StepIsMethod`), so each is treated
  once. `RunCleansUp` has an invariant of its own, `Finished`: a thread past the wait
  or the kill has its process gone or is in `replaced`, through every stage that
  another thread may overtake. `FreshBalloonsAtBoot` delimits finding 1: only a balloon
  *inherited* from an earlier process lets a VM run without one while no error is
  reported (`BalloonIsKnown` is the strengthening).
* **MemoryOptimizer**: `TypeCorrect`, `AtMostOneWorker`, `StopNotLost`, for any
  callers, threads and tolerated failures. `OneWorker` needs that whoever is in
  `start()` holds the optimizer's lock (`LockIsHeld`), and that a caller that saw
  no live worker is still right when it makes one (`CheckStaysTrue`): only
  `start()` makes workers, and the lock admits one caller to it. `StopNotLost`
  follows, since only a caller past the check clears the event. `RefinesJob`
  shows that every step is a step of `BackgroundJob` or leaves it alone; the
  fairness of `BackgroundJob` is part of `ImplementsJob` and stays with TLC.
  `LocksDoNotDeadlock` rests on `LocksAreNested`: each lock's holder is known from
  where the callers are, the optimizer's lock is only held inside the VM's, and
  nothing else is waited for in between. `StartsLeaveAWorker` says what boot and
  resume can rely on, and so where finding 2 begins: the worker they leave was told
  to stop only if it was there, and told, before they looked.
* **ProcessIO**: `TypeCorrect`, `StopsKill`, `FailuresHaveCauses`, `OutputsAreComplete`,
  for any callers, streams, processes and chunks. `StopsKill`
  rests on `StopInv`: as long as the process of a stop is alive it is the current
  one, because `start()` refuses, so that every look at `_proc` finds it. `FailuresHaveCauses` and
  `OutputsAreComplete` speak of calls that follow each other (of the two ways in which
  a log can be closed under somebody, they exclude another `stop()` or `wait()`); `LogInv` says that
  whoever is past the join then works on the current list, whose readers have
  ended or are in `left`.
* **BalloonAutoscaler**: `TypeCorrect`, `HeadroomKept`, `CooldownKept`, for any
  machine, valid policy, host readings and request time. Headroom needs that a
  decided target fits the machine until it was sent and recorded (`TargetFits`).
  The cooldown has an invariant of its own, `CInv`: the last confirmed change is
  as old as `_last_change_at` says, less the time its request took, and a request
  under way was allowed by the cooldown. The lemmas on `DesiredAmount` (its range
  and direction) hold for all amounts. `ChangesApproachRest` is the safety core of
  `Settles`: an undisturbed worker is on the track (`Tracks`: what it holds is what
  Firecracker has, or the policy's answer to it) from its next reading on, each of
  its changes shortens the distance to the size at rest, and none leaves that size.
  What `Settles` adds is that a descending distance ends.
* **Jailer**: `TypeCorrect`, `GivesTheVmBack`, `JailsAreComplete`, `BinaryIsOwn`,
  for any number of Jailers, jails and binaries. `GivesTheVmBack` needs that what is saved is
  never a jail's settings and that no Jailer that is preparing has a context
  (`Saved`). `BinaryIsOwn` follows the shared file: until two copies overlap,
  one Jailer at a time copies, and every Jailer past the copy found or left its own
  binary there, whole and stamped, unless a Jailer with another one came after it
  (`BinaryIsFollowed`; a Jailer with the same binary finds nothing to copy). `JailsAreComplete` also assumes
  `IdsAreDistinct`: two Jailers with one id can share a jail, finding 4.
  `JailsHaveOneOwner` needs no distinct ids but that Jailers of one id do not prepare
  at the same time, `LaunchesAreJailed` that the jailer binary is found whenever a
  jail was filled: findings 4 and 3 take exactly these.
* **ExecAgent**: `TypeCorrect`, `RepliesAreComplete`, `ScriptsEnd`, for any clients, pipe size and script, endless or not.
  `RepliesAreComplete` rests on an account of the chunks (`ChunksAreCounted`):
  as long as no write to the file failed, what was written is in it or still in the
  pipe, so a pipe seen empty
  after the child was waited for means that the file holds all the child wrote.
* **JobRunner**: `TypeCorrect`, `SurvivesJobs`, `AnswersAreOwn`, for any connections
  and timeouts. `SurvivesJobs` rests on `Deserted`: a connection
  the agent still has and the host has left was given up, because the agent closes
  its end with the answer and a host that has its answer hangs up only then.

### Liveness

The prover has no rule to expand `ENABLED`, so `WF` and `SF` say nothing to it by
themselves. What it needs to know is a hypothesis of each theorem: a written-out
guard implies that the fair action is enabled (`AgentReady => ENABLED
<<Agent>>_vars`, and so on). Such a hypothesis is a state predicate, and TLC finds
it to hold in every state of the instances of section 3. From there the proofs use
the fairness of `Spec` itself. They rank the stations of the thread that has to
arrive, show that its own step brings it to a nearer station and that no step of
anybody else, failure or exit takes it back (first-order lemmas), and combine the
finitely many ranks in one temporal step.

| theorem | property | hypotheses besides `Spec` |
|---|---|---|
| `VmSession`: `ExitsAreNoticed` | `ExitIsNoticed` | `WorkerCanTurn` |
| `MemoryOptimizer`: `ToldWorkersEnd` | `StopTakesEffect` | `WorkersCanProceed`, `LockIsReleased` |
| `MemoryOptimizer`: `WorkersLeaveTheVm` | core of `NoWorkerOutlivesTheVm` | `WorkersCanProceed`, `LockIsReleased` |
| `MemoryOptimizer`: `HoldersGiveItBack` | each holder releases the lock | `HoldersCanProceed` |
| `ProcessIO`: `StopsReturn` | `StopReturns` | `CallersCanProceed` |
| `JobRunner`: `HostsComeBack` | `HostComesBack` | `HostCanReturn`, `TimersExpire` |
| `JobRunner`: `AgentsComeBack` | `AgentComesBack` | `HostCanReturn`, `AgentCanStep`, `TimersExpire` |
| `ExecAgent`: `TimeoutsAreEnforced` | `TimeoutIsEnforced` | `AgentCanStep`, `DrainsEnd`, `~Fifos` |
| `ExecAgent`: `AgentsComeBack` | `AgentComesBack` | `AgentCanStep`, `DeadlineCanPass`, `ServedClientCloses`, `DrainsEnd` |

Four hypotheses are temporal. `LockIsReleased` (the optimizer's lock is free again
and again) follows from `HoldersGiveItBack`, and `ServedClientCloses` from the
fairness of the clients, by passing from *each* caller or client to *whichever* it
is under `<>`, which the prover's temporal logic cannot do. `TimersExpire` is an
induction over time. `DrainsEnd` is more than a matter of scheduling: an endless
script falsifies it, which is finding 5, and `TimeoutsAreEnforced` shows that nothing
but a FIFO stands in the timeout's way. For a script with finite output it follows from
`FiniteOutputDrains` (every read and write leaves less to do) by induction.
TLC finds the first three to hold in the same instances, and `DrainsEnd` in
`exec_agent`'s, whose output is finite.

### Model-checked only

* `RunReturns`: the loop over the requested devices is an induction over a set.
  `RunsAdvance` is proved: no step of `run()` repeats or goes back.
* `Settles`: an induction over the distance; `ChangesApproachRest` is proved.
* `NoWorkerOutlivesTheVm`: passes from each worker to all of them under `<>[]`;
  `WorkersLeaveTheVm` is proved for each.
* The fairness of `BackgroundJob` in `ImplementsJob`: it speaks of `ENABLED` of the
  abstract action. `ToldWorkersEnd` is what a user of the job gets from it.
* That the hypotheses above about `ENABLED` hold of the model.

## 5. What is not modelled, and why

* **Two calls of `start()` at the same time**, after which the first process is
  out of the object's reach: nothing in the repository starts one object from two
  threads.
* **The HTTP response's framing, the handshake's bytes and `VsockClient.request`**:
  one request without shared state; what a cut or lost answer means to the object
  is in `VmSession`.
* **Snapshot paths with one stem**, which share a manifest, and a snapshot that one
  program writes while another restores it.
* **Restarting an object with another machine size** (the policy is derived once).
* **The host's socket file** that `put_vsock` and `Jailer.vsock` unlink.
* **Validation of single values** in the wrappers and path checks of the agents:
  no state, and a unit test reaches all of it.
* **Memory-governed workers, SSH sandbox, quick start**: scripts over the SDK; the
  quick start's second thread is `Call` in `VmSession`.
* **Firecracker** is external: what it accepts is in `Outcome` and the guards
  of the requests.
* **The job runner's editor and language detection**.
* **Zombies of orphaned helpers** in the guest are not counted.
* **Memory of the guest**: the job runner's `capture_output` keeps all a job prints; that
  the kernel may then kill the agent is not in the model, `DiesOnlyWhenAbandoned` is
  about exceptions that leave `serve()`.
* **Jail ids** are opaque; that one may be called `assets`, the directory of the
  shared binary, is not in the model.

The hazards in `PROJECT.json` without a property say why each has none.

## 6. Plan

Done: `VmSession` with crashes and restarts of the program, `ProcessIO`,
`MemoryOptimizer` as an implementation of `BackgroundJob`,
`BalloonPolicy`/`BalloonAutoscaler`, `Jailer`, `ExecAgent` and `JobRunner`, each
component with a module of theorems, which cover every safety property the passing
runs check and, up to the hypotheses of section 4, all liveness but `RunReturns`,
`Settles` and `NoWorkerOutlivesTheVm`. Open, in the order of what they would add:

1. Snapshots whose manifests collide, a pool that restores while it snapshots.
2. Restarting an object with another machine size, in `BalloonAutoscaler`.
3. The socket files of `put_vsock`, in `Jailer`.
4. The framing of a response that can be cut anywhere.

[Firecracker]: https://firecracker-microvm.github.io/
