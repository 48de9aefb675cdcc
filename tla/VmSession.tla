----------------------------- MODULE VmSession -----------------------------
(***************************************************************************)
(* One crackerVM object (src/crackersdk/vm.py) driving Firecracker.        *)
(*                                                                         *)
(* The object caches what it believes about the VM: its life-cycle state,  *)
(* the devices it configured, the machine configuration.  Firecracker owns *)
(* the truth, and the two meet only through API requests that can fail, or *)
(* whose answer can be lost after the request took effect, and through     *)
(* polling the process.  Three threads use the object: one inside run(),    *)
(* a small program with a program counter, one other caller                 *)
(* (examples_usecases/quickStart/pause_resume.py has both) and the memory   *)
(* optimizer's worker.  A method's request and what it caches of the answer *)
(* are one action; its assignment to _state comes later than what it rests  *)
(* on (the request, the poll, the process waited for or killed) and is a    *)
(* step of its own, and so are the stages of wait() and stop(): what the    *)
(* other threads do in between, a new process included, is not seen by it.  *)
(* The program can end or be killed at any moment; its next run makes a new *)
(* object that finds the snapshot files the last one left, complete or not  *)
(* (examples_usecases/warm_snapshot_pool/main.py, first without and then    *)
(* with --restore).                                                         *)
(***************************************************************************)
EXTENDS Naturals, FiniteSets

CONSTANTS
    Ifaces,         \* network interface ids
    Snaps,          \* snapshot paths, of different stems; a path stands for
                    \* its state file, its memory file and its manifest
    OptimizeMemory, \* the constructor's optimize_memory
    UsedDevices     \* the devices that callers configure

ASSUME OptimizeMemoryIsBoolean == OptimizeMemory \in BOOLEAN
ASSUME IfacesAreNotFixedDevices ==
    Ifaces \cap {"entropy", "vsock", "balloon", "kernel", "state"} = {}
ASSUME UsedDevicesAreDevices ==
    UsedDevices \subseteq {"entropy", "vsock", "balloon"} \cup Ifaces

VARIABLES
    \* the crackerVM object
    state,       \* self._state
    cached,      \* devices remembered: _entropy_enabled, _vsock, _balloon, ...
    machine,     \* self._machine_config is not None
    optimizer,   \* the BalloonMemoryOptimizer and its thread
    optimizerError, \* self._memory_optimizer_last_error is not None
    \* Firecracker and the disk
    vmm,         \* "none" before the first start, "exited" after a process ended
    devices,     \* what the live process has been given
    disk,        \* per snapshot path: the VM image and the manifest beside it
    \* the thread inside run()
    pc, want,
    \* what each thread is in the middle of
    owes,        \* the value it is about to assign to self._state
    doing,       \* the stage of wait() or stop() it is in
    \* history of the current process, read by properties only
    replaced,    \* threads under way since before the process was started
    inherited,   \* cached devices that are left over from earlier processes
    lost         \* what the object lost track of: "state", or a device's name

object == <<state, cached, machine, optimizer, optimizerError>>
external == <<vmm, devices, disk>>
program == <<pc, want>>
threads == <<owes, doing, replaced>>
history == <<inherited, lost>>
vars == <<object, external, program, threads, history>>

Threads == {"run", "caller", "worker"}

Devices == {"entropy", "vsock", "balloon"} \cup Ifaces
VMState == {"RUNNING", "PAUSED", "EXITED"}
Alive == vmm \in {"preboot", "running", "paused"}
NoFile == [exists |-> FALSE]
Image == [exists : {TRUE}, devices : SUBSET (Devices \cup {"kernel"})]
Manifest == [exists : {TRUE}, devices : SUBSET Devices, machine : BOOLEAN,
             inherited : SUBSET Devices, lost : SUBSET Devices]
RunDevices == UsedDevices \ {"balloon"}     \* run() takes no balloon
RunSteps == {"start", "ready", "logger", "machine", "boot_source",
             "root_drive", "devices", "polled", "wait", "stop", "ends"}

Init ==
    /\ state = "EXITED" /\ cached = {} /\ machine = FALSE
    /\ optimizer = "none" /\ optimizerError = FALSE
    /\ vmm = "none" /\ devices = {}
    /\ disk = [s \in Snaps |-> [image |-> NoFile, manifest |-> NoFile]]
    /\ pc = "idle" /\ want = {}
    /\ owes = [t \in Threads |-> "nothing"] /\ doing = [t \in Threads |-> "nothing"]
    /\ replaced = {} /\ inherited = {} /\ lost = {}

-----------------------------------------------------------------------------
(* An API request: it fails, or takes effect and is answered, or takes      *)
(* effect while its answer is lost (the client's socket timeout).  It takes *)
(* effect only when Firecracker accepts it in its present state.            *)
Outcome(accepted) == {"failed"} \cup (IF accepted THEN {"ok", "lost"} ELSE {})
Applied(o) == o # "failed"
Returned(o) == IF o = "ok" THEN "return" ELSE "raise"

(* _process_state: polling an ended process records EXITED, here at once;   *)
(* SeesExit leaves time between the poll and the assignment.                *)
Synced == IF vmm = "exited" THEN "EXITED" ELSE state

(* Threads in the middle of wait() or stop(), or before their assignment. *)
Busy(t) == owes[t] # "nothing" \/ doing[t] # "nothing"
BusyThreads == {t \in Threads : Busy(t)}

Owe(t, value) == owes' = [owes EXCEPT ![t] = value]
Stage(t, stage) == doing' = [doing EXCEPT ![t] = stage]

(* A process starts, in a state and with the devices of a restored image,   *)
(* beside a cache that has known devices right; stale says that state was   *)
(* wrong already.                                                           *)
NewProcess(status, has, cache, known, stale) ==
    /\ vmm' = status /\ devices' = has
    /\ inherited' = cache \ known
    /\ lost' = (has \ (cache \cup {"kernel"}))
                  \cup (IF stale \/ BusyThreads # {} THEN {"state"} ELSE {})
    /\ replaced' = BusyThreads

(* The process ends: guest reboot or panic, a signal, SDK stop. *)
ProcessGone == /\ vmm' = "exited" /\ devices' = {}
               /\ inherited' = {} /\ lost' = {}
KillIfAlive == IF Alive THEN ProcessGone
                        ELSE UNCHANGED <<vmm, devices, history>>

(* _start_memory_optimizer_if_enabled, given the cache the caller leaves.   *)
(* A worker that is still alive, stopping or not, is left alone.            *)
StartOptimizer(cache, hasMachine) ==
    LET fails == \/ "balloon" \notin cache
                 \/ optimizer = "none" /\ ~hasMachine
        start == OptimizeMemory /\ ~fails
    IN /\ optimizer' = IF start /\ optimizer \in {"none", "stopped"}
                       THEN "running" ELSE optimizer
       /\ optimizerError' = (optimizerError \/ (OptimizeMemory /\ fails))

(* _stop_memory_optimizer: sets the stop event and joins the worker; the    *)
(* join times out while the worker is still inside a request, or before its *)
(* assignment.                                                              *)
StopOptimizer ==
    /\ optimizer' \in (IF optimizer \notin {"running", "stopping"} THEN {optimizer}
                       ELSE IF owes["worker"] = "nothing" THEN {"stopping", "stopped"}
                       ELSE {"stopping"})
    /\ UNCHANGED optimizerError

(* A thread assigns _state, what it was about to.  boot(), resume() and     *)
(* load_snapshot() go on to start the memory optimizer.                     *)
Record(t) ==
    /\ owes[t] # "nothing"
    /\ state' = owes[t] /\ Owe(t, "nothing")
    /\ replaced' = replaced \ {t}
    /\ IF owes[t] = "RUNNING" THEN StartOptimizer(cached, machine)
                              ELSE UNCHANGED <<optimizer, optimizerError>>
    /\ UNCHANGED <<cached, machine, external, history, doing>>

(* A thread polls and finds the process gone; until it records that, another *)
(* thread may start a new one.                                              *)
SeesExit(t) ==
    /\ vmm = "exited"
    /\ Owe(t, "EXITED")
    /\ UNCHANGED <<object, external, history, doing, replaced>>

(* Mutants of PutDevice: the cache is written before the request, never. *)
PutDevice_CachedFirst(d, o) ==
    /\ devices' = IF Applied(o) THEN devices \cup {d} ELSE devices
    /\ cached' = cached \cup {d}
PutDevice_NotCached(d, o) ==
    /\ devices' = IF Applied(o) THEN devices \cup {d} ELSE devices
    /\ cached' = cached

(* PUT of a device, and what the cache keeps of it. *)
PutDevice(d, o) ==
    /\ devices' = IF Applied(o) THEN devices \cup {d} ELSE devices
    /\ cached' = IF o = "ok" THEN cached \cup {d} ELSE cached

-----------------------------------------------------------------------------
(* Methods of crackerVM; ret says whether the method returned normally. *)

(* start: a live process is refused, opening the log or Popen may fail. *)
(* Nothing here touches state, cached or machine.                       *)
Start(ret) ==
    /\ \/ ret = "raise" /\ UNCHANGED <<vmm, devices, history, replaced>>
       \/ /\ ret = "return" /\ ~Alive
          /\ NewProcess("preboot", {}, cached, {}, state # "EXITED")
    /\ UNCHANGED <<object, disk, owes, doing>>

WaitUntilReady(ret) ==
    /\ ret = "return" => Alive
    /\ state' = Synced
    /\ UNCHANGED <<cached, machine, optimizer, optimizerError, external, threads, history>>

(* wait: raises when nothing was ever started, or binds the process there   *)
(* is and waits for that one, whatever is started later.                    *)
WaitCall(t) ==
    /\ vmm # "none"
    /\ Stage(t, "wait")
    /\ UNCHANGED <<object, external, history, owes, replaced>>

WaitRefused == vmm = "none" /\ UNCHANGED <<object, external, threads, history>>

(* Closing the log can fail on another thread that is closing it. *)
MayRaise(t) == \E u \in Threads \ {t} : doing[u] # "nothing"

(* A call of wait() or stop() is over. *)
Leaves(t) == Stage(t, "nothing") /\ replaced' = replaced \ {t}

(* The process that is waited for ended: at the latest when it was replaced. *)
Waited(t, ret) ==
    /\ doing[t] = "wait" /\ (t \in replaced \/ vmm = "exited")
    /\ \/ ret = "return" /\ Stage(t, "join") /\ UNCHANGED replaced
       \/ ret = "raise" /\ MayRaise(t) /\ Leaves(t)
    /\ UNCHANGED <<object, external, history, owes>>

(* Mutant of WaitTimesOut: the timeout is not passed on. *)
WaitTimesOut_Never(t) == FALSE /\ UNCHANGED vars

WaitTimesOut(t) ==
    /\ doing[t] = "wait" /\ t \notin replaced /\ Alive
    /\ Leaves(t)
    /\ UNCHANGED <<object, external, history, owes>>

WaitEnds(t) ==
    /\ doing[t] = "join"
    /\ StopOptimizer
    /\ Stage(t, "nothing") /\ Owe(t, "EXITED")
    /\ UNCHANGED <<state, cached, machine, external, history, replaced>>

(* stop: the memory optimizer first, then the process there is, ... *)
StopCall(t) ==
    /\ StopOptimizer
    /\ Stage(t, "kill")
    /\ UNCHANGED <<state, cached, machine, external, history, owes, replaced>>

(* ... which is gone when stop() ends; of a process started in the meantime *)
(* it sees to that or not, depending on the moment.  Then EXITED is due, or *)
(* closing the log raises.                                                  *)
StopEnds(t, ret) ==
    /\ doing[t] = "kill"
    /\ \/ KillIfAlive
       \/ t \in replaced /\ UNCHANGED <<vmm, devices, history>>
    /\ \/ ret = "return" /\ Stage(t, "nothing") /\ Owe(t, "EXITED") /\ UNCHANGED replaced
       \/ ret = "raise" /\ MayRaise(t) /\ Leaves(t) /\ UNCHANGED owes
    /\ UNCHANGED <<object, disk>>

(* stop() killed the old process and waits, without a timeout, for the new. *)
Blocked(t) == doing[t] = "kill" /\ t \in replaced /\ Alive

(* state, is_running, ..., status, and the calls that only read through it *)
Status ==
    /\ state' = IF Alive THEN state ELSE "EXITED"
    /\ UNCHANGED <<cached, machine, optimizer, optimizerError, external, threads, history>>

(* configure_logger, drive, root_drive, patch_drive, send_ctrl_alt_del:   *)
(* no state of the object, nothing of Firecracker's that matters below.   *)
PlainRequest(ret) ==
    /\ ret = "return" => Alive
    /\ UNCHANGED <<object, external, threads, history>>

Machine(ret) ==
    \E o \in Outcome(vmm = "preboot") :
        /\ ret = Returned(o)
        /\ machine' = (machine \/ o = "ok")
        /\ UNCHANGED <<state, cached, optimizer, optimizerError, external, threads, history>>

(* Mutant of BootSource: the kernel is remembered as a device. *)
BootSource_Cached(ret) ==
    \E o \in Outcome(vmm = "preboot") :
        /\ ret = Returned(o)
        /\ devices' = IF Applied(o) THEN devices \cup {"kernel"} ELSE devices
        /\ cached' = cached \cup (devices' \ devices)
        /\ UNCHANGED <<state, machine, optimizer, optimizerError, vmm, disk, threads, history>>

BootSource(ret) ==
    \E o \in Outcome(vmm = "preboot") :
        /\ ret = Returned(o)
        /\ devices' = IF Applied(o) THEN devices \cup {"kernel"} ELSE devices
        /\ UNCHANGED <<object, vmm, disk, threads, history>>

(* entropy, network, vsock, balloon: refused once booted; a device already  *)
(* cached is returned again, or refused when strict; a failed request is a  *)
(* result with success = False, which this model counts as a raise because  *)
(* run() turns it into one.                                                 *)
Configure(d, strict, ret) ==
    /\ state' = Synced
    /\ \/ /\ \/ Synced # "EXITED" /\ ret = "raise"
             \/ /\ Synced = "EXITED" /\ d \in cached
                /\ ret = IF strict THEN "raise" ELSE "return"
          /\ UNCHANGED <<cached, devices, lost>>
       \/ /\ Synced = "EXITED" /\ d \notin cached
          /\ \E o \in Outcome(vmm = "preboot") :
                /\ ret = Returned(o)
                /\ PutDevice(d, o)
                /\ lost' = IF o = "lost" THEN lost \cup {d} ELSE lost
    /\ UNCHANGED <<machine, optimizer, optimizerError, vmm, disk, threads, inherited>>

(* _configure_memory_optimizer_before_boot raises, before anything is sent. *)
BootRefused ==
    /\ OptimizeMemory /\ "balloon" \notin cached
    /\ \/ ~machine /\ optimizerError' = TRUE /\ UNCHANGED state
       \/ /\ machine /\ Synced # "EXITED"
          /\ state' = Synced /\ UNCHANGED optimizerError
    /\ UNCHANGED <<cached, machine, optimizer, external, threads, history>>

(* boot: b is the outcome of the balloon PUT, whose failure is only noted,  *)
(* o of InstanceStart, which Firecracker accepts once, after a boot source. *)
BootRequest(t, ret) ==
    LET balloonFirst == OptimizeMemory /\ "balloon" \notin cached
    IN
    /\ balloonFirst => machine /\ Synced = "EXITED"
    /\ \E b \in IF balloonFirst THEN Outcome(vmm = "preboot") ELSE {"none"},
          o \in Outcome(vmm = "preboot" /\ "kernel" \in devices) :
        /\ ret = Returned(o)
        /\ IF balloonFirst THEN PutDevice("balloon", b)
                           ELSE UNCHANGED <<cached, devices>>
        /\ vmm' = IF Applied(o) THEN "running" ELSE vmm
        /\ lost' = lost \cup (IF b = "lost" THEN {"balloon"} ELSE {})
                        \cup (IF o = "lost" THEN {"state"} ELSE {})
        /\ state' = IF balloonFirst THEN Synced ELSE state
        /\ owes' = IF o = "ok" THEN [owes EXCEPT ![t] = "RUNNING"] ELSE owes
        /\ optimizerError' = (optimizerError \/ b \in {"failed", "lost"})
    /\ UNCHANGED <<machine, optimizer, disk, doing, replaced, inherited>>

Boot(t, ret) == (ret = "raise" /\ BootRefused) \/ BootRequest(t, ret)

(* Mutant of ChangeVm: the state is set before the request is sent. *)
ChangeVm_StateFirst(from, to, accepted, effect, ret) ==
    /\ Synced = from
    /\ state' = to /\ UNCHANGED owes
    /\ \E o \in Outcome(vmm \in accepted) :
         /\ ret = Returned(o)
         /\ vmm' = IF Applied(o) THEN effect ELSE vmm
         /\ lost' = IF o = "lost" THEN lost \cup {"state"} ELSE lost

(* PATCH /vm: shared by pause and resume. *)
ChangeVm(from, to, accepted, effect, ret) ==
    /\ state' = Synced
    /\ \/ /\ Synced # from
          /\ ret \in {"return", "raise"}     \* not strict, strict
          /\ UNCHANGED <<vmm, owes, lost>>
       \/ /\ Synced = from
          /\ \E o \in Outcome(vmm \in accepted) :
               /\ ret = Returned(o)
               /\ vmm' = IF Applied(o) THEN effect ELSE vmm
               /\ owes' = IF o = "ok" THEN [owes EXCEPT !["caller"] = to] ELSE owes
               /\ lost' = IF o = "lost" THEN lost \cup {"state"} ELSE lost

Pause(ret) ==
    /\ ChangeVm("RUNNING", "PAUSED", {"running", "paused"}, "paused", ret)
    /\ UNCHANGED <<cached, machine, optimizer, optimizerError, devices, disk,
                   doing, replaced, inherited>>

Resume(ret) ==
    /\ ChangeVm("PAUSED", "RUNNING", {"running", "paused"}, "running", ret)
    /\ UNCHANGED <<cached, machine, optimizer, optimizerError, devices, disk,
                   doing, replaced, inherited>>

(* The files a create_snapshot leaves: those of before are unlinked, the    *)
(* image is Firecracker's, the manifest is written after the answer, and    *)
(* writing it may fail.                                                     *)
ImageAfterCreate(o) ==
    IF Applied(o) THEN [exists |-> TRUE, devices |-> devices] ELSE NoFile

NewManifest == [exists |-> TRUE, devices |-> cached, machine |-> machine,
                inherited |-> inherited, lost |-> lost \ {"state"}]

ManifestAfterCreate(s, o, written) ==
    IF o = "ok" /\ written THEN NewManifest ELSE NoFile

(* create_snapshot: without overwrite any old file refuses the call; with   *)
(* it, unlinking fails at a directory, when the state file may be gone.     *)
CreateSnapshot(s, overwrite) ==
    LET taken == disk[s].image.exists \/ disk[s].manifest.exists
    IN
    /\ state' = Synced
    /\ \/ (Synced # "PAUSED" \/ taken) /\ UNCHANGED disk
       \/ /\ Synced = "PAUSED" /\ taken /\ overwrite
          /\ disk' = [disk EXCEPT ![s] = [image |-> NoFile, manifest |-> @.manifest]]
       \/ /\ Synced = "PAUSED" /\ (taken => overwrite)
          /\ \E o \in Outcome(vmm = "paused"), written \in BOOLEAN :
               disk' = [disk EXCEPT ![s] =
                          [image |-> ImageAfterCreate(o),
                           manifest |-> ManifestAfterCreate(s, o, written)]]
    /\ UNCHANGED <<cached, machine, optimizer, optimizerError, vmm, devices, threads, history>>

(* _load_snapshot_metadata: entropy and the interfaces are replaced, the    *)
(* balloon is only ever added, vsock is left to the caller.                 *)
CacheAfterLoad(manifest) ==
    IF ~manifest.exists THEN cached
    ELSE (cached \cap {"vsock", "balloon"}) \cup (manifest.devices \ {"vsock"})

(* The devices a manifest speaks for: those its process really had. *)
ConfirmedBy(manifest) ==
    IF manifest.exists THEN manifest.devices \ manifest.inherited ELSE {}

StateAfterLoad(resume) == IF resume THEN "RUNNING" ELSE "PAUSED"

(* load_snapshot / restore: start, wait_until_ready, configure_logger, PUT  *)
(* /snapshot/load, metadata; the state and the optimizer follow.  A failure *)
(* before, at or after the load stops whatever process there is.            *)
LoadSnapshot(s, resume) ==
    /\ ~Alive /\ disk[s].image.exists
    /\ state' = "EXITED"
    /\ LET manifest == disk[s].manifest
           loaded == IF resume THEN "running" ELSE "paused"
       IN
       \/ /\ cached' = CacheAfterLoad(manifest)
          /\ machine' = (machine \/ (manifest.exists /\ manifest.machine))
          /\ NewProcess(loaded, disk[s].image.devices, cached', ConfirmedBy(manifest), FALSE)
          /\ Owe("caller", StateAfterLoad(resume))
          /\ UNCHANGED <<optimizer, optimizerError, doing>>
       \/ /\ \/ UNCHANGED <<vmm, devices, replaced, history>>     \* Popen failed
             \/ NewProcess("preboot", {}, cached, {}, FALSE)
             \/ NewProcess(loaded, disk[s].image.devices, cached, {}, TRUE)
          /\ StopOptimizer /\ Stage("caller", "kill")
          /\ UNCHANGED <<cached, machine, owes>>
    /\ UNCHANGED disk

-----------------------------------------------------------------------------
(* run(): the methods above in this order, any exception leads to stop().   *)

RunBegin ==
    /\ pc = "idle"
    /\ pc' = "start"
    /\ want' \in SUBSET RunDevices
    /\ UNCHANGED <<object, external, threads, history>>

(* entropy first, then the interfaces, then vsock. *)
NextWanted ==
    IF "entropy" \in want THEN {"entropy"}
    ELSE IF want \cap Ifaces # {} THEN want \cap Ifaces ELSE want

(* Mutant of Goto: an exception ends run() without stop(). *)
Goto_NoStop(ret, next) == /\ pc' = IF ret = "return" THEN next ELSE "idle"
                          /\ UNCHANGED want

Goto(ret, next) == /\ pc' = IF ret = "return" THEN next ELSE "stop"
                   /\ UNCHANGED want

RunDevice(ret) ==
    \E d \in NextWanted :
        /\ Configure(d, d # "entropy", ret)
        /\ pc' = IF ret = "return" THEN "devices" ELSE "stop"
        /\ want' = want \ {d}

(* The process is found gone: wait_until_ready gives up, a device's method, *)
(* or boot() before it configures a balloon, goes on once that is recorded. *)
RunSees ==
    /\ SeesExit("run") /\ UNCHANGED want
    /\ \/ pc = "ready" /\ pc' = "stop"
       \/ /\ pc = "devices" /\ pc' = "polled"
          /\ want # {} \/ (OptimizeMemory /\ "balloon" \notin cached)

RunStep(ret) ==
    \/ pc = "start" /\ Start(ret) /\ Goto(ret, "ready")
    \/ pc = "ready" /\ WaitUntilReady(ret) /\ Goto(ret, "logger")
    \/ pc = "logger" /\ PlainRequest(ret) /\ Goto(ret, "machine")
    \/ pc = "machine" /\ Machine(ret) /\ Goto(ret, "boot_source")
    \/ pc = "boot_source" /\ BootSource(ret) /\ Goto(ret, "root_drive")
    \/ pc = "root_drive" /\ PlainRequest(ret) /\ Goto(ret, "devices")
    \/ pc \in {"devices", "polled"} /\ want # {} /\ RunDevice(ret)
    \/ pc \in {"devices", "polled"} /\ want = {} /\ Boot("run", ret) /\ Goto(ret, "wait")

(* The last calls: wait(), and stop() after any exception.  run() ends when *)
(* they have recorded EXITED, or with the exception of stop().              *)
RunWaits ==
    /\ pc = "wait"
    /\ \/ ~Busy("run") /\ WaitCall("run") /\ UNCHANGED program
       \/ ~Busy("run") /\ WaitRefused /\ Goto("raise", "stop")
       \/ \E ret \in {"return", "raise"} : Waited("run", ret) /\ Goto(ret, "wait")
       \/ WaitTimesOut("run") /\ Goto("raise", "stop")
       \/ WaitEnds("run") /\ pc' = "ends" /\ UNCHANGED want

RunStops ==
    /\ pc = "stop"
    /\ \/ ~Busy("run") /\ StopCall("run") /\ UNCHANGED program
       \/ \E ret \in {"return", "raise"} :
            /\ StopEnds("run", ret)
            /\ pc' = (IF ret = "return" THEN "ends" ELSE "idle") /\ want' = {}

RunRecords == Record("run") /\ pc' = (IF pc = "ends" THEN "idle" ELSE pc) /\ UNCHANGED want

RunContinues ==
    \/ ~Busy("run") /\ (RunSees \/ \E ret \in {"return", "raise"} : RunStep(ret))
    \/ RunWaits \/ RunStops \/ RunRecords

-----------------------------------------------------------------------------
(* A caller of the object, on another thread when run() is under way. *)
Call ==
    /\ ~Busy("caller")
    /\ \/ StopCall("caller") \/ WaitCall("caller") \/ Status \/ SeesExit("caller")
       \/ \E ret \in {"return", "raise"} :
            \/ Start(ret) \/ WaitUntilReady(ret)
            \/ PlainRequest(ret) \/ Machine(ret) \/ BootSource(ret) \/ Boot("caller", ret)
            \/ Pause(ret) \/ Resume(ret)
            \/ \E d \in UsedDevices, strict \in BOOLEAN : Configure(d, strict, ret)
       \/ \E s \in Snaps, flag \in BOOLEAN :
            CreateSnapshot(s, flag) \/ LoadSnapshot(s, flag)
    /\ UNCHANGED program

CallContinues ==
    /\ \/ Record("caller") \/ WaitTimesOut("caller") \/ WaitEnds("caller")
       \/ \E ret \in {"return", "raise"} : Waited("caller", ret) \/ StopEnds("caller", ret)
    /\ UNCHANGED program

(* The guest reboots or panics, Firecracker is killed. *)
ProcessExit == Alive /\ ProcessGone /\ UNCHANGED <<object, disk, program, threads>>

(* What a create_snapshot can leave of a snapshot when its program is       *)
(* killed: the state file unlinked but not yet the manifest, nothing, or    *)
(* Firecracker's image without a manifest; a half-written image, which does *)
(* not load, counts as nothing.                                             *)
CutShort(s) ==
    {[image |-> i, manifest |-> m] :
        i \in {ImageAfterCreate(o) : o \in Outcome(vmm = "paused")},
        m \in {NoFile, disk[s].manifest}}

(* Mutant of Unfinished: the manifest is unlinked after the answer. *)
Unfinished_ManifestLast(s) == CutShort(s)

Unfinished(s) ==
    {files \in CutShort(s) : files.image.exists => ~files.manifest.exists}

(* The program ends or is killed and is run again: a new object, without a  *)
(* process of its own, over the same disk.  A Firecracker that was alive    *)
(* lives on, out of the reach of any object.                                *)
ProgramDies ==
    /\ state' = "EXITED" /\ cached' = {} /\ machine' = FALSE
    /\ optimizer' = "none" /\ optimizerError' = FALSE
    /\ vmm' = "none" /\ devices' = {}
    /\ inherited' = {} /\ lost' = {}
    /\ owes' = [t \in Threads |-> "nothing"] /\ doing' = [t \in Threads |-> "nothing"]
    /\ replaced' = {}
    /\ pc' = "idle" /\ want' = {}
    /\ \/ UNCHANGED disk
       \/ /\ state = "PAUSED" /\ Alive
          /\ \E s \in Snaps : \E files \in Unfinished(s) :
                disk' = [disk EXCEPT ![s] = files]

(* The optimizer's worker reads status(): it finds the process gone, or     *)
(* goes on with the state there is.  It ends when that is EXITED, when it   *)
(* was told to, or after too many failed reconciliations, the last of which *)
(* may fail because the VM just died.                                       *)
WorkerStops ==
    /\ optimizer' = "stopped"
    /\ UNCHANGED <<state, cached, machine, optimizerError, external, threads, history>>

(* Mutant of OptimizerTurn: _state is read without polling the process. *)
OptimizerTurn_NoPoll ==
    /\ optimizer \in {"running", "stopping"} /\ ~Busy("worker")
    /\ optimizer = "stopping" \/ state = "EXITED"
    /\ WorkerStops /\ UNCHANGED program

OptimizerTurn ==
    /\ optimizer \in {"running", "stopping"} /\ ~Busy("worker")
    /\ SeesExit("worker") \/ WorkerStops
    /\ UNCHANGED program

OptimizerRecords == Record("worker") /\ UNCHANGED program

Next == RunBegin \/ RunContinues \/ Call \/ CallContinues \/ ProcessExit
            \/ OptimizerTurn \/ OptimizerRecords \/ ProgramDies

WorkerNotices == ~Alive /\ (OptimizerTurn \/ OptimizerRecords)

(* The thread inside run() and the worker are scheduled; nobody has to call *)
(* the object, and Firecracker never has to exit.  A stop() that waits for  *)
(* a process it did not kill may wait for ever.  A healthy VM's worker may  *)
(* turn for ever, and its turns then change nothing that is modelled:       *)
(* fairness is asked of those that find the process gone.                   *)
Spec ==
    /\ Init /\ [][Next]_vars
    /\ WF_vars(~Blocked("run") /\ RunContinues)
    /\ WF_vars(WorkerNotices)

-----------------------------------------------------------------------------
TypeOK ==
    /\ state \in VMState
    /\ cached \subseteq Devices
    /\ machine \in BOOLEAN
    /\ optimizer \in {"none", "running", "stopping", "stopped"}
    /\ optimizerError \in BOOLEAN
    /\ vmm \in {"none", "exited", "preboot", "running", "paused"}
    /\ devices \subseteq Devices \cup {"kernel"}
    /\ disk \in [Snaps -> [image : {NoFile} \cup Image,
                           manifest : {NoFile} \cup Manifest]]
    /\ pc \in RunSteps \cup {"idle"}
    /\ want \subseteq RunDevices
    /\ owes \in [Threads -> {"nothing"} \cup VMState]
    /\ doing \in [Threads -> {"nothing", "wait", "join", "kill"}]
    /\ replaced \subseteq Threads
    /\ inherited \subseteq Devices
    /\ lost \subseteq Devices \cup {"state"}

(* While no assignment is due, the object's state is Firecracker's: a       *)
(* method that trusts _state instead of asking Firecracker trusts the right *)
(* thing.  It may not be only for a process whose last answer was lost, or  *)
(* which was started before an exit was observed, or while another thread   *)
(* was inside wait() or stop() or between a poll or a request and its       *)
(* assignment (vm.py:1035-1040), which then hits the new process's state.   *)
StateAgreement ==
    Alive /\ "state" \notin lost /\ (\A t \in Threads : owes[t] = "nothing") =>
        state = CASE vmm = "preboot" -> "EXITED"
                  [] vmm = "running" -> "RUNNING"
                  [] vmm = "paused" -> "PAUSED"

(* Whatever the object configured since the process started, or restored    *)
(* with it, Firecracker has: no failed request, lost answer or snapshot     *)
(* leaves a device in the cache that is not there.                          *)
CacheIsTruthful == Alive => cached \ inherited \subseteq devices

(* Before boot every device Firecracker has is in the cache, unless its     *)
(* answer was lost: the "already configured" checks never let a second PUT  *)
(* for the same device through.                                             *)
CacheIsComplete ==
    vmm = "preboot" => devices \ (lost \cup {"kernel"}) \subseteq cached

(* A manifest and the image beside it, whichever program wrote them and     *)
(* wherever in create_snapshot a program was killed, list the same devices. *)
(* They differ only in devices the object had kept in its cache from an     *)
(* earlier process (which __init__ alone empties, vm.py:832 writes them     *)
(* out), and in those it lost track of.                                     *)
ManifestMatchesImage ==
    \A s \in Snaps : disk[s].manifest.exists /\ disk[s].image.exists =>
        LET manifest == disk[s].manifest
            image == disk[s].image
        IN /\ manifest.devices \ manifest.inherited \subseteq image.devices
           /\ image.devices \ {"kernel"} \subseteq manifest.devices \cup manifest.lost

(* README.md:176: with optimize_memory the SDK configures a balloon before  *)
(* boot, unless it reports an optimizer error or lost the answer.           *)
BalloonConfiguredAtBoot ==
    OptimizeMemory /\ state = "RUNNING" /\ vmm = "running"
                   /\ ~optimizerError /\ lost = {}
        => "balloon" \in devices

(* run() hands back a VM that is gone, whichever of its calls failed,       *)
(* raised or timed out, unless another thread started a new process during  *)
(* its last wait() or stop(), which see to the old one.                     *)
RunLeavesNothing ==
    [][pc # "idle" /\ pc' = "idle" => ~Alive' \/ "run" \in replaced]_vars

(* run() comes back even though the guest may never exit: wait times out.   *)
(* Only a stop() whose process another thread replaced may keep it.         *)
RunReturns == pc # "idle" ~> pc = "idle" \/ Blocked("run")

(* A VM that died is noticed by the optimizer's worker even when no caller  *)
(* ever asks, unless a new process was started first or the worker was told *)
(* to stop or gave up after failed requests.                                *)
ExitIsNoticed ==
    (vmm = "exited" /\ optimizer = "running")
        ~> (state = "EXITED" \/ Alive \/ optimizer = "stopped")

=============================================================================
