-------------------------- MODULE VmSession_proofs --------------------------
(* What a crackerVM object knows about Firecracker, how run() and the       *)
(* optimizer's worker get on with it, for any interfaces, snapshots and     *)
(* devices asked for.                                                       *)
EXTENDS VmSession, TLAPS

(* While the state of a process is not lost: nobody is about to assign      *)
(* anything but what the VM is, nobody but the one who changed it last, and *)
(* a second thread only after a boot; wait() has nothing to record.         *)
Pending ==
    Alive /\ "state" \notin lost =>
        /\ \A t \in Threads : \/ owes[t] = "nothing"
                              \/ owes[t] = "RUNNING" /\ vmm = "running"
                              \/ owes[t] = "PAUSED" /\ vmm = "paused"
        /\ \A t, u \in Threads : t = u \/ owes[t] = "nothing" \/ owes[u] = "nothing"
        /\ \A t \in Threads \ {"caller"} : owes[t] = "nothing" \/ state = "EXITED"
        /\ \A t \in Threads : doing[t] # "join"

(* A process that replaced another under some thread's feet has lost its    *)
(* state: why nothing that thread still assigns can break StateAgreement.   *)
ReplacedIsLost == Alive /\ replaced # {} => "state" \in lost

(* While a process lives every device it has is in the cache or was lost:   *)
(* why a manifest lists what the image beside it has.                       *)
DevicesAreKnown == Alive => devices \ (lost \cup {"kernel"}) \subseteq cached

(* The invariant.  Each part needs the types; restoring a snapshot keeps    *)
(* the cache truthful because manifests describe their images, and those    *)
(* do because the cache was truthful and complete when they were written.   *)
IInv == TypeOK /\ ReplacedIsLost /\ Pending /\ StateAgreement /\ CacheIsTruthful
               /\ DevicesAreKnown /\ ManifestMatchesImage

Rets == {"return", "raise"}

(* The stages of the methods that a thread can be in the middle of. *)
ThreadStep(t) ==
    \/ Record(t) \/ WaitTimesOut(t) \/ WaitEnds(t)
    \/ \E ret \in Rets : Waited(t, ret) \/ StopEnds(t, ret)
    \/ /\ ~Busy(t)
       /\ \/ SeesExit(t) \/ WaitCall(t) \/ StopCall(t)
          \/ t # "worker" /\ \E ret \in Rets : Boot(t, ret)

(* The methods, called by run() or by another caller alike. *)
MethodStep ==
    \/ Status
    \/ \E t \in Threads : ThreadStep(t)
    \/ \E ret \in Rets :
         \/ Start(ret) \/ WaitUntilReady(ret)
         \/ PlainRequest(ret) \/ Machine(ret) \/ BootSource(ret)
         \/ ~Busy("caller") /\ (Pause(ret) \/ Resume(ret))
         \/ \E d \in UsedDevices, strict \in BOOLEAN : Configure(d, strict, ret)
    \/ ~Busy("caller") /\ \E s \in Snaps, flag \in BOOLEAN :
         CreateSnapshot(s, flag) \/ LoadSnapshot(s, flag)

(* The variables the invariant is about; run()'s own are not among them. *)
facts == <<object, external, threads, history>>

LEMMA RunStepIsMethod ==
    ASSUME TypeOK, ~Busy("run"), NEW ret \in Rets, RunStep(ret)
    PROVE  MethodStep
<1>1. CASE want # {} /\ RunDevice(ret)
  <2>1. PICK d \in NextWanted : Configure(d, d # "entropy", ret)
    BY <1>1 DEF RunDevice
  <2>2. d \in UsedDevices
    BY DEF NextWanted, TypeOK, RunDevices
  <2>3. (d # "entropy") \in BOOLEAN
    OBVIOUS
  <2>. QED BY <2>1, <2>2, <2>3 DEF MethodStep
<1>2. CASE Boot("run", ret)
  <2>1. ThreadStep("run") BY <1>2 DEF ThreadStep
  <2>. QED BY <2>1 DEF MethodStep, Threads
<1>3. CASE ~(want # {} /\ RunDevice(ret)) /\ ~Boot("run", ret)
  BY <1>3 DEF RunStep, MethodStep
<1>. QED BY <1>1, <1>2, <1>3

(* A step of run() is a step of one of the methods it calls. *)
LEMMA RunContinuesIsMethod ==
    ASSUME TypeOK, RunContinues
    PROVE  MethodStep \/ UNCHANGED facts
<1>1. CASE ThreadStep("run")
  BY <1>1 DEF MethodStep, Threads
<1>2. CASE (~Busy("run") /\ RunSees) \/ RunStops \/ RunRecords
  <2>1. ThreadStep("run")
    BY <1>2 DEF RunSees, RunStops, RunRecords, ThreadStep, Rets
  <2>. QED BY <1>1, <2>1
<1>3. CASE RunWaits
  <2>1. ThreadStep("run") \/ WaitRefused
    BY <1>3 DEF RunWaits, ThreadStep, Rets
  <2>2. CASE WaitRefused BY <2>2 DEF WaitRefused, facts, threads
  <2>. QED BY <1>1, <2>1, <2>2
<1>4. ASSUME ~Busy("run"), NEW ret \in Rets, RunStep(ret) PROVE MethodStep
  BY <1>4, RunStepIsMethod
<1>. QED BY <1>2, <1>3, <1>4 DEF RunContinues, Rets

LEMMA CallIsMethod ==
    ASSUME Call
    PROVE  MethodStep
<1>1. CASE StopCall("caller") \/ WaitCall("caller") \/ SeesExit("caller")
  <2>1. ThreadStep("caller") BY <1>1 DEF ThreadStep, Call
  <2>. QED BY <2>1 DEF MethodStep, Threads
<1>2. ASSUME NEW ret \in Rets, Boot("caller", ret) PROVE MethodStep
  <2>1. ThreadStep("caller") BY <1>2 DEF ThreadStep, Call
  <2>. QED BY <2>1 DEF MethodStep, Threads
<1>. QED BY <1>1, <1>2 DEF Call, MethodStep, Rets

LEMMA StepIsMethod ==
    ASSUME TypeOK, [Next]_vars
    PROVE  \/ MethodStep \/ ProcessExit \/ ProgramDies \/ UNCHANGED facts
           \/ optimizer \in {"running", "stopping"} /\ WorkerStops
<1>1. CASE RunBegin BY <1>1 DEF RunBegin, facts
<1>2. CASE RunContinues BY <1>2, RunContinuesIsMethod
<1>3. CASE Call BY <1>3, CallIsMethod
<1>4. CASE UNCHANGED vars BY <1>4 DEF vars, facts
<1>5. CASE CallContinues
  <2>1. ThreadStep("caller") BY <1>5 DEF CallContinues, ThreadStep, Rets
  <2>. QED BY <2>1 DEF MethodStep, Threads
<1>6. CASE OptimizerTurn \/ OptimizerRecords
  <2>1. ThreadStep("worker") \/ (optimizer \in {"running", "stopping"} /\ WorkerStops)
    BY <1>6 DEF OptimizerTurn, OptimizerRecords, ThreadStep
  <2>. QED BY <2>1 DEF MethodStep, Threads
<1>. QED BY <1>1, <1>2, <1>3, <1>4, <1>5, <1>6 DEF Next

LEMMA InitIInv == Init => IInv
<1> SUFFICES ASSUME Init PROVE IInv OBVIOUS
<1>1. disk \in [Snaps -> [image : {NoFile} \cup Image, manifest : {NoFile} \cup Manifest]]
  BY DEF Init
<1>2. TypeOK BY <1>1 DEF Init, TypeOK, VMState
<1>3. /\ ReplacedIsLost /\ Pending /\ StateAgreement
      /\ CacheIsTruthful /\ DevicesAreKnown
  BY DEF Init, ReplacedIsLost, Pending, StateAgreement, CacheIsTruthful, DevicesAreKnown, Alive
<1>4. ManifestMatchesImage
  BY DEF Init, ManifestMatchesImage, NoFile
<1>. QED BY <1>2, <1>3, <1>4 DEF IInv

-----------------------------------------------------------------------------
(* Types.  The methods' variables and run()'s own apart. *)

DiskTypeOK == disk \in [Snaps -> [image : {NoFile} \cup Image,
                                  manifest : {NoFile} \cup Manifest]]

FactsTypeOK ==
    /\ state \in VMState
    /\ cached \subseteq Devices
    /\ machine \in BOOLEAN
    /\ optimizer \in {"none", "running", "stopping", "stopped"}
    /\ optimizerError \in BOOLEAN
    /\ vmm \in {"none", "exited", "preboot", "running", "paused"}
    /\ devices \subseteq Devices \cup {"kernel"}
    /\ owes \in [Threads -> {"nothing"} \cup VMState]
    /\ doing \in [Threads -> {"nothing", "wait", "join", "kill"}]
    /\ replaced \subseteq Threads
    /\ inherited \subseteq Devices
    /\ lost \subseteq Devices \cup {"state"}
    /\ DiskTypeOK

LEMMA TypeOKFacts == TypeOK => FactsTypeOK
  BY DEF TypeOK, FactsTypeOK, DiskTypeOK

(* A file on disk is absent or of its type. *)
LEMMA SavedFiles ==
    ASSUME DiskTypeOK, NEW s \in Snaps
    PROVE  /\ \/ disk[s].image.exists = FALSE
              \/ /\ disk[s].image.exists = TRUE
                 /\ disk[s].image.devices \subseteq Devices \cup {"kernel"}
           /\ \/ disk[s].manifest.exists = FALSE
              \/ /\ disk[s].manifest.exists = TRUE
                 /\ disk[s].manifest.devices \subseteq Devices
                 /\ disk[s].manifest.machine \in BOOLEAN
<1>. DEFINE i == disk[s].image
            m == disk[s].manifest
<1>1. disk[s] \in [image : {NoFile} \cup Image, manifest : {NoFile} \cup Manifest]
  BY DEF DiskTypeOK
<1>2. i \in {NoFile} \cup Image /\ m \in {NoFile} \cup Manifest
  BY <1>1
<1>. HIDE DEF i, m
<1>3. i = NoFile => i.exists = FALSE
  BY DEF NoFile
<1>4. i \in Image => i.exists = TRUE /\ i.devices \subseteq Devices \cup {"kernel"}
  BY DEF Image
<1>5. m = NoFile => m.exists = FALSE
  BY DEF NoFile
<1>6. m \in Manifest => /\ m.exists = TRUE /\ m.devices \subseteq Devices
                        /\ m.machine \in BOOLEAN
  BY DEF Manifest
<1>. QED BY <1>2, <1>3, <1>4, <1>5, <1>6 DEF i, m

LEMMA StartOptimizerTypes ==
    ASSUME FactsTypeOK, NEW cache, NEW has, StartOptimizer(cache, has)
    PROVE  /\ optimizer' \in {"none", "running", "stopping", "stopped"}
           /\ optimizerError' \in BOOLEAN
  BY DEF FactsTypeOK, StartOptimizer

LEMMA StopOptimizerTypes ==
    ASSUME FactsTypeOK, StopOptimizer
    PROVE  /\ optimizer' \in {"none", "running", "stopping", "stopped"}
           /\ optimizerError' \in BOOLEAN
  BY DEF FactsTypeOK, StopOptimizer

LEMMA NewProcessTypes ==
    ASSUME FactsTypeOK, NEW status \in {"preboot", "running", "paused"},
           NEW has \in SUBSET (Devices \cup {"kernel"}), NEW cache \in SUBSET Devices,
           NEW known, NEW stale, NewProcess(status, has, cache, known, stale)
    PROVE  /\ vmm' \in {"none", "exited", "preboot", "running", "paused"}
           /\ devices' \subseteq Devices \cup {"kernel"}
           /\ replaced' \subseteq Threads
           /\ inherited' \subseteq Devices
           /\ lost' \subseteq Devices \cup {"state"}
<1>1. vmm' \in {"none", "exited", "preboot", "running", "paused"}
  BY DEF NewProcess
<1>2. devices' \subseteq Devices \cup {"kernel"}
  BY DEF NewProcess
<1>3. replaced' \subseteq Threads
  BY DEF NewProcess, BusyThreads, FactsTypeOK
<1>4. inherited' \subseteq Devices
  BY DEF NewProcess
<1>5. lost' \subseteq Devices \cup {"state"}
  BY DEF NewProcess
<1>. QED BY <1>1, <1>2, <1>3, <1>4, <1>5

LEMMA BootTypes ==
    ASSUME FactsTypeOK, NEW t \in Threads, NEW ret, Boot(t, ret)
    PROVE  FactsTypeOK'
<1> USE DEF FactsTypeOK, DiskTypeOK, VMState
<1>1. CASE BootRefused
  BY <1>1 DEF BootRefused, Synced, external, threads, history
<1>2. CASE BootRequest(t, ret)
  <2>1. /\ state' \in VMState
        /\ cached' \subseteq Devices /\ devices' \subseteq Devices \cup {"kernel"}
        /\ vmm' \in {"none", "exited", "preboot", "running", "paused"}
        /\ lost' \subseteq Devices \cup {"state"}
    BY <1>2 DEF BootRequest, PutDevice, Synced, Devices
  <2>2. owes' \in [Threads -> {"nothing"} \cup VMState] /\ optimizerError' \in BOOLEAN
    BY <1>2 DEF BootRequest
  <2>3. UNCHANGED <<machine, optimizer, disk, doing, replaced, inherited>>
    BY <1>2 DEF BootRequest
  <2>. QED BY <2>1, <2>2, <2>3
<1>. QED BY <1>1, <1>2 DEF Boot

LEMMA ThreadTypes ==
    ASSUME FactsTypeOK, NEW t \in Threads, ThreadStep(t)
    PROVE  FactsTypeOK'
<1> USE DEF FactsTypeOK, DiskTypeOK, VMState
<1>1. CASE Record(t)
  <2>1. state' \in VMState
    BY <1>1 DEF Record
  <2>2. /\ optimizer' \in {"none", "running", "stopping", "stopped"}
        /\ optimizerError' \in BOOLEAN
    BY <1>1, StartOptimizerTypes DEF Record
  <2>3. owes' \in [Threads -> {"nothing"} \cup VMState] /\ replaced' \subseteq Threads
    BY <1>1 DEF Record, Owe
  <2>. QED BY <1>1, <2>1, <2>2, <2>3 DEF Record, external, history
<1>2. CASE SeesExit(t)
  BY <1>2 DEF SeesExit, Owe, object, external, history
<1>3. CASE WaitCall(t) \/ WaitTimesOut(t)
  BY <1>3 DEF WaitCall, WaitTimesOut, Leaves, Stage, object, external, history
<1>4. CASE WaitEnds(t) \/ StopCall(t)
  BY <1>4, StopOptimizerTypes DEF WaitEnds, StopCall, Stage, Owe, external, history
<1>5. ASSUME NEW ret, Waited(t, ret) PROVE FactsTypeOK'
  BY <1>5 DEF Waited, Leaves, Stage, object, external, history
<1>6. ASSUME NEW ret, StopEnds(t, ret) PROVE FactsTypeOK'
  <2>1. /\ vmm' \in {"none", "exited", "preboot", "running", "paused"}
        /\ devices' \subseteq Devices \cup {"kernel"}
        /\ inherited' \subseteq Devices /\ lost' \subseteq Devices \cup {"state"}
    BY <1>6 DEF StopEnds, KillIfAlive, ProcessGone, history
  <2>2. /\ owes' \in [Threads -> {"nothing"} \cup VMState]
        /\ doing' \in [Threads -> {"nothing", "wait", "join", "kill"}]
        /\ replaced' \subseteq Threads
    BY <1>6 DEF StopEnds, Leaves, Stage, Owe
  <2>. QED BY <1>6, <2>1, <2>2 DEF StopEnds, object
<1>7. ASSUME NEW ret, Boot(t, ret) PROVE FactsTypeOK'
  BY <1>7, BootTypes
<1>. QED BY <1>1, <1>2, <1>3, <1>4, <1>5, <1>6, <1>7 DEF ThreadStep

LEMMA SnapshotTypes ==
    ASSUME FactsTypeOK, NEW s \in Snaps, NEW flag \in BOOLEAN, CreateSnapshot(s, flag)
    PROVE  FactsTypeOK'
<1> USE DEF FactsTypeOK
<1>1. DiskTypeOK'
  <2>1. CASE UNCHANGED disk BY <2>1 DEF DiskTypeOK
  <2>2. ASSUME NEW i, NEW m, i \in {NoFile} \cup Image, m \in {NoFile} \cup Manifest,
               disk' = [disk EXCEPT ![s] = [image |-> i, manifest |-> m]]
        PROVE  DiskTypeOK'
    BY <2>2 DEF DiskTypeOK
  <2>3. [exists |-> TRUE, devices |-> devices] \in Image
    BY DEF Image
  <2>4. [exists |-> TRUE, devices |-> cached, machine |-> machine,
         inherited |-> inherited, lost |-> lost \ {"state"}] \in Manifest
    BY DEF Manifest
  <2>5. disk[s].manifest \in {NoFile} \cup Manifest
    BY DEF DiskTypeOK
  <2>6. CASE disk' = [disk EXCEPT ![s] = [image |-> NoFile, manifest |-> @.manifest]]
    <3>1. disk' = [disk EXCEPT ![s] = [image |-> NoFile, manifest |-> disk[s].manifest]]
      BY <2>6 DEF DiskTypeOK
    <3>. QED BY <2>2, <2>5, <3>1
  <2>. QED
    BY <2>1, <2>2, <2>3, <2>4, <2>6
    DEF CreateSnapshot, ImageAfterCreate, ManifestAfterCreate, NewManifest
<1>. QED BY <1>1 DEF CreateSnapshot, Synced, VMState, threads, history

(* A killed create_snapshot leaves files of their types, and no manifest    *)
(* beside a new image.                                                      *)
LEMMA UnfinishedFiles ==
    ASSUME FactsTypeOK, NEW s \in Snaps, NEW files \in Unfinished(s)
    PROVE  /\ files \in [image : {NoFile} \cup Image, manifest : {NoFile} \cup Manifest]
           /\ ~(files.image.exists /\ files.manifest.exists)
<1>1. PICK o \in Outcome(vmm = "paused"), m \in {NoFile, disk[s].manifest} :
          files = [image |-> ImageAfterCreate(o), manifest |-> m]
  BY DEF Unfinished, CutShort
<1>2. [exists |-> TRUE, devices |-> devices] \in Image
  BY DEF Image, FactsTypeOK
<1>3. ImageAfterCreate(o) \in {NoFile} \cup Image
  BY <1>2 DEF ImageAfterCreate
<1>4. m \in {NoFile} \cup Manifest
  BY DEF FactsTypeOK, DiskTypeOK
<1>. QED BY <1>1, <1>3, <1>4 DEF Unfinished

LEMMA ProgramDiesTypes ==
    ASSUME FactsTypeOK, ProgramDies
    PROVE  FactsTypeOK'
<1>1. DiskTypeOK'
  <2>1. CASE UNCHANGED disk BY <2>1 DEF FactsTypeOK, DiskTypeOK
  <2>2. ASSUME NEW s \in Snaps, NEW files \in Unfinished(s),
               disk' = [disk EXCEPT ![s] = files]
        PROVE  DiskTypeOK'
    BY <2>2, UnfinishedFiles DEF FactsTypeOK, DiskTypeOK
  <2>. QED BY <2>1, <2>2 DEF ProgramDies
<1>. QED BY <1>1 DEF ProgramDies, FactsTypeOK, VMState

LEMMA LoadTypes ==
    ASSUME FactsTypeOK, NEW s \in Snaps, NEW flag \in BOOLEAN, LoadSnapshot(s, flag)
    PROVE  FactsTypeOK'
<1>. DEFINE manifest == disk[s].manifest
            loaded == IF flag THEN "running" ELSE "paused"
<1>1. disk[s].image.devices \in SUBSET (Devices \cup {"kernel"})
  BY SavedFiles DEF FactsTypeOK, LoadSnapshot
<1>2. CacheAfterLoad(manifest) \in SUBSET Devices
  BY SavedFiles DEF CacheAfterLoad, FactsTypeOK
<1>3. (machine \/ (manifest.exists /\ manifest.machine)) \in BOOLEAN
  BY Zenon
<1>4. cached \in SUBSET Devices /\ {} \in SUBSET (Devices \cup {"kernel"})
  BY DEF FactsTypeOK
<1>5. loaded \in {"preboot", "running", "paused"} /\ "preboot" \in {"preboot", "running", "paused"}
  OBVIOUS
<1>. HIDE DEF manifest, loaded
<1>6. ASSUME cached' = CacheAfterLoad(manifest),
             machine' = (machine \/ (manifest.exists /\ manifest.machine)),
             NewProcess(loaded, disk[s].image.devices, cached', ConfirmedBy(manifest), FALSE),
             Owe("caller", StateAfterLoad(flag)), state' = "EXITED",
             UNCHANGED <<optimizer, optimizerError, doing, disk>>
      PROVE  FactsTypeOK'
  <2>1. cached' \in SUBSET Devices /\ machine' \in BOOLEAN
    BY <1>2, <1>3, <1>6
  <2>2. /\ vmm' \in {"none", "exited", "preboot", "running", "paused"}
        /\ devices' \subseteq Devices \cup {"kernel"}
        /\ replaced' \subseteq Threads
        /\ inherited' \subseteq Devices
        /\ lost' \subseteq Devices \cup {"state"}
    BY <1>1, <1>5, <1>6, <2>1, NewProcessTypes
  <2>3. owes' \in [Threads -> {"nothing"} \cup VMState]
    BY <1>6 DEF Owe, StateAfterLoad, FactsTypeOK, VMState, Threads
  <2>. QED BY <1>6, <2>1, <2>2, <2>3 DEF FactsTypeOK, DiskTypeOK, VMState
<1>7. ASSUME \/ UNCHANGED <<vmm, devices, replaced, history>>
             \/ NewProcess("preboot", {}, cached, {}, FALSE)
             \/ NewProcess(loaded, disk[s].image.devices, cached, {}, TRUE),
             StopOptimizer, Stage("caller", "kill"), state' = "EXITED",
             UNCHANGED <<cached, machine, owes, disk>>
      PROVE  FactsTypeOK'
  <2>1. /\ vmm' \in {"none", "exited", "preboot", "running", "paused"}
        /\ devices' \subseteq Devices \cup {"kernel"}
        /\ replaced' \subseteq Threads
        /\ inherited' \subseteq Devices
        /\ lost' \subseteq Devices \cup {"state"}
    <3>1. CASE UNCHANGED <<vmm, devices, replaced, history>>
      BY <3>1 DEF FactsTypeOK, history
    <3>2. CASE NewProcess("preboot", {}, cached, {}, FALSE)
      BY <1>4, <1>5, <3>2, NewProcessTypes
    <3>3. CASE NewProcess(loaded, disk[s].image.devices, cached, {}, TRUE)
      BY <1>1, <1>4, <1>5, <3>3, NewProcessTypes
    <3>. QED BY <1>7, <3>1, <3>2, <3>3
  <2>2. doing' \in [Threads -> {"nothing", "wait", "join", "kill"}]
    BY <1>7 DEF Stage, FactsTypeOK, Threads
  <2>. QED BY <1>7, <2>1, <2>2, StopOptimizerTypes DEF FactsTypeOK, DiskTypeOK, VMState
<1>. QED BY <1>6, <1>7 DEF LoadSnapshot, manifest, loaded

LEMMA MethodTypes ==
    ASSUME FactsTypeOK, MethodStep
    PROVE  FactsTypeOK'
<1> USE DEF FactsTypeOK, DiskTypeOK, VMState
<1>1. CASE Status BY <1>1 DEF Status, external, threads, history
<1>2. ASSUME NEW t \in Threads, ThreadStep(t) PROVE FactsTypeOK'
  BY <1>2, ThreadTypes
<1>3. ASSUME NEW ret \in Rets, Start(ret) PROVE FactsTypeOK'
  <2>1. CASE UNCHANGED <<vmm, devices, history, replaced>>
    BY <1>3, <2>1 DEF Start, object, history
  <2>2. CASE NewProcess("preboot", {}, cached, {}, state # "EXITED")
    <3>1. /\ vmm' \in {"none", "exited", "preboot", "running", "paused"}
          /\ devices' \subseteq Devices \cup {"kernel"}
          /\ replaced' \subseteq Threads
          /\ inherited' \subseteq Devices
          /\ lost' \subseteq Devices \cup {"state"}
      BY <2>2, NewProcessTypes
    <3>. QED BY <1>3, <3>1 DEF Start, object
  <2>. QED BY <1>3, <2>1, <2>2 DEF Start
<1>4. ASSUME NEW ret \in Rets, WaitUntilReady(ret) \/ PlainRequest(ret) PROVE FactsTypeOK'
  BY <1>4 DEF WaitUntilReady, PlainRequest, Synced, object, external, threads, history
<1>6. ASSUME NEW ret \in Rets, Machine(ret) \/ BootSource(ret) PROVE FactsTypeOK'
  BY <1>6 DEF Machine, BootSource, object, external, threads, history
<1>8. ASSUME NEW ret \in Rets, Pause(ret) \/ Resume(ret) PROVE FactsTypeOK'
  BY <1>8 DEF Pause, Resume, ChangeVm, Synced, Threads
<1>10. ASSUME NEW ret \in Rets, NEW d \in UsedDevices, NEW strict, Configure(d, strict, ret)
       PROVE  FactsTypeOK'
  BY <1>10, UsedDevicesAreDevices DEF Configure, PutDevice, Synced, Devices, threads
<1>11. ASSUME NEW s \in Snaps, NEW flag \in BOOLEAN,
              CreateSnapshot(s, flag) \/ LoadSnapshot(s, flag)
       PROVE  FactsTypeOK'
  BY <1>11, SnapshotTypes, LoadTypes
<1>. QED
  BY <1>1, <1>2, <1>3, <1>4, <1>6, <1>8, <1>10, <1>11 DEF MethodStep

LEMMA NextTypeOK == TypeOK /\ [Next]_vars => TypeOK'
<1> SUFFICES ASSUME TypeOK, [Next]_vars PROVE TypeOK' OBVIOUS
<1>1. FactsTypeOK BY TypeOKFacts
<1>2. FactsTypeOK'
  <2>1. CASE MethodStep BY <1>1, <2>1, MethodTypes
  <2>2. CASE ProcessExit
    BY <1>1, <2>2 DEF ProcessExit, ProcessGone, object, threads, FactsTypeOK, DiskTypeOK
  <2>3. CASE WorkerStops
    BY <1>1, <2>3 DEF WorkerStops, external, threads, history, FactsTypeOK, DiskTypeOK
  <2>4. CASE ProgramDies BY <1>1, <2>4, ProgramDiesTypes
  <2>5. CASE UNCHANGED facts
    BY <1>1, <2>5 DEF facts, object, external, threads, history, FactsTypeOK, DiskTypeOK
  <2>. QED BY <2>1, <2>2, <2>3, <2>4, <2>5, StepIsMethod
<1>3. pc' \in RunSteps \cup {"idle"} /\ want' \subseteq RunDevices
  <2>. USE DEF TypeOK, RunSteps, RunDevices
  <2>1. ASSUME NEW ret, RunStep(ret) PROVE pc' \in RunSteps \cup {"idle"} /\ want' \subseteq RunDevices
    BY <2>1 DEF RunStep, RunDevice, Goto
  <2>2. CASE RunSees \/ RunWaits \/ RunStops \/ RunRecords
    BY <2>2 DEF RunSees, RunWaits, RunStops, RunRecords, Goto, program
  <2>3. CASE ~RunContinues
    BY <2>3
    DEF Next, RunBegin, Call, CallContinues, ProcessExit, OptimizerTurn, OptimizerRecords,
        ProgramDies, vars, program
  <2>. QED BY <2>1, <2>2, <2>3 DEF RunContinues
<1>. QED BY <1>2, <1>3 DEF TypeOK, FactsTypeOK, DiskTypeOK

-----------------------------------------------------------------------------
(* The object's state follows Firecracker's. *)

(* What a new process leaves: no thread under way, or a state that is lost. *)
LEMMA NewProcessLoses ==
    ASSUME NEW status, NEW has, NEW cache, NEW known, NEW stale \in BOOLEAN,
           NewProcess(status, has, cache, known, stale)
    PROVE  \/ "state" \in lost'
           \/ /\ ~stale /\ replaced' = {}
              /\ \A t \in Threads : owes[t] = "nothing" /\ doing[t] = "nothing"
<1>1. CASE stale \/ BusyThreads # {}
  BY <1>1 DEF NewProcess
<1>2. CASE ~stale /\ BusyThreads = {}
  <2>1. replaced' = {} BY <1>2 DEF NewProcess
  <2>2. \A t \in Threads : ~Busy(t) BY <1>2 DEF BusyThreads
  <2>. QED BY <1>2, <2>1, <2>2 DEF Busy
<1>. QED BY <1>1, <1>2

(* The part of the invariant about _state, and what it speaks of. *)
StateInv == ReplacedIsLost /\ Pending /\ StateAgreement

(* A live process keeps what was lost of it, and whose threads it replaced. *)
LEMMA ThreadStateInv ==
    ASSUME TypeOK, StateInv, NEW t \in Threads, ThreadStep(t)
    PROVE  StateInv'
<1> USE DEF TypeOK, StateInv, ReplacedIsLost, Pending, StateAgreement, Alive, VMState
<1>1. CASE Record(t)
  <2>1. \A u \in Threads : owes'[u] = IF u = t THEN "nothing" ELSE owes[u]
    BY <1>1 DEF Record, Owe
  <2>2. /\ state' = owes[t] /\ owes[t] # "nothing" /\ replaced' \subseteq replaced
        /\ UNCHANGED <<vmm, lost, doing>>
    BY <1>1 DEF Record, external, history
  <2>3. ReplacedIsLost' BY <2>2
  <2>4. Pending'
    <3> SUFFICES ASSUME Alive, "state" \notin lost PROVE Pending'
      BY <2>2
    <3>1. \A u \in Threads : \/ owes'[u] = "nothing"
                             \/ owes'[u] = "RUNNING" /\ vmm' = "running"
                             \/ owes'[u] = "PAUSED" /\ vmm' = "paused"
      BY <2>1, <2>2
    <3>2. \A u \in Threads : owes'[u] = "nothing"
      BY <2>1, <2>2
    <3>3. \A u \in Threads : doing'[u] # "join"
      BY <2>2
    <3>. HIDE DEF Alive, ReplacedIsLost, StateAgreement
    <3>. QED BY <3>1, <3>2, <3>3
  <2>5. StateAgreement' BY <2>1, <2>2
  <2>. QED BY <2>3, <2>4, <2>5
<1>2. CASE SeesExit(t)
  BY <1>2 DEF SeesExit, Owe, object, external, history
<1>3. CASE WaitCall(t) \/ WaitTimesOut(t)
  BY <1>3 DEF WaitCall, WaitTimesOut, Leaves, Stage, object, external, history
<1>4. CASE WaitEnds(t)
  BY <1>4 DEF WaitEnds, Stage, Owe, external, history
<1>5. CASE StopCall(t)
  BY <1>5 DEF StopCall, Stage, external, history
<1>6. ASSUME NEW ret, Waited(t, ret) PROVE StateInv'
  BY <1>6 DEF Waited, Leaves, Stage, object, external, history
<1>7. ASSUME NEW ret, StopEnds(t, ret) PROVE StateInv'
  <2>1. CASE ~Alive'
    BY <2>1
  <2>2. CASE Alive'
    <3>1. t \in replaced /\ UNCHANGED <<vmm, devices, history>>
      BY <1>7, <2>2 DEF StopEnds, KillIfAlive, ProcessGone
    <3>. QED BY <1>7, <2>2, <3>1 DEF history
  <2>. QED BY <2>1, <2>2
<1>8. ASSUME NEW ret, Boot(t, ret) PROVE StateInv'
  <2>1. CASE BootRefused
    BY <2>1 DEF BootRefused, Synced, external, threads, history
  <2>2. CASE BootRequest(t, ret)
    BY <2>2 DEF BootRequest, Outcome, Applied, Synced
  <2>. QED BY <1>8, <2>1, <2>2 DEF Boot
<1>. QED BY <1>1, <1>2, <1>3, <1>4, <1>5, <1>6, <1>7, <1>8 DEF ThreadStep

LEMMA LoadStateInv ==
    ASSUME TypeOK, StateInv, NEW s \in Snaps, NEW flag \in BOOLEAN, LoadSnapshot(s, flag)
    PROVE  StateInv'
<1> USE DEF TypeOK, StateInv, ReplacedIsLost, Pending, StateAgreement, Alive, VMState
<1>. DEFINE loaded == IF flag THEN "running" ELSE "paused"
<1>1. ASSUME NEW cache, NEW known,
             NewProcess(loaded, disk[s].image.devices, cache, known, FALSE),
             Owe("caller", StateAfterLoad(flag)), state' = "EXITED", UNCHANGED doing
      PROVE  StateInv'
  <2>1. CASE "state" \in lost' BY <2>1
  <2>2. CASE "state" \notin lost'
    <3>1. /\ replaced' = {}
          /\ \A t \in Threads : owes[t] = "nothing" /\ doing[t] = "nothing"
      BY <1>1, <2>2, NewProcessLoses
    <3>2. vmm' = loaded BY <1>1 DEF NewProcess
    <3>3. \A t \in Threads : /\ doing'[t] = "nothing"
                             /\ owes'[t] = IF t = "caller" THEN StateAfterLoad(flag) ELSE "nothing"
      BY <1>1, <3>1 DEF Owe
    <3>4. ReplacedIsLost' BY <3>1
    <3>5. Pending'
      <4>1. \A t \in Threads : \/ owes'[t] = "nothing"
                               \/ owes'[t] = "RUNNING" /\ vmm' = "running"
                               \/ owes'[t] = "PAUSED" /\ vmm' = "paused"
        BY <3>2, <3>3 DEF StateAfterLoad
      <4>2. \A t, u \in Threads : t = u \/ owes'[t] = "nothing" \/ owes'[u] = "nothing"
        BY <3>3
      <4>3. \A t \in Threads : doing'[t] # "join"
        BY <3>3
      <4>. HIDE DEF Alive, ReplacedIsLost, StateAgreement
      <4>. QED BY <1>1, <4>1, <4>2, <4>3
    <3>6. owes'["caller"] # "nothing" BY <3>3 DEF StateAfterLoad, Threads
    <3>7. StateAgreement' BY <3>6 DEF Threads
    <3>. QED BY <3>4, <3>5, <3>7
  <2>. QED BY <2>1, <2>2
<1>2. ASSUME NewProcess("preboot", {}, cached, {}, FALSE),
             Stage("caller", "kill"), state' = "EXITED", UNCHANGED owes
      PROVE  StateInv'
  <2>1. CASE "state" \in lost' BY <2>1
  <2>2. CASE "state" \notin lost'
    <3>1. /\ replaced' = {}
          /\ \A t \in Threads : owes[t] = "nothing" /\ doing[t] = "nothing"
      BY <1>2, <2>2, NewProcessLoses
    <3>2. vmm' = "preboot" BY <1>2 DEF NewProcess
    <3>3. \A t \in Threads : doing'[t] # "join" /\ owes'[t] = "nothing"
      BY <1>2, <3>1 DEF Stage
    <3>4. Pending'
      <4>. HIDE DEF Alive, ReplacedIsLost, StateAgreement
      <4>. QED BY <3>3
    <3>. QED BY <1>2, <3>1, <3>2, <3>4
  <2>. QED BY <2>1, <2>2
<1>3. ASSUME NEW status, NEW has, NewProcess(status, has, cached, {}, TRUE)
      PROVE  StateInv'
  <2>1. "state" \in lost' BY <1>3, NewProcessLoses
  <2>. QED BY <2>1
<1>4. CASE UNCHANGED <<vmm, devices, replaced, history>>
  BY <1>4 DEF LoadSnapshot
<1>. HIDE DEF StateInv, ReplacedIsLost, Pending, StateAgreement, Alive
<1>. QED BY <1>1, <1>2, <1>3, <1>4 DEF LoadSnapshot

LEMMA NextStateInv ==
    ASSUME TypeOK, StateInv, [Next]_vars
    PROVE  StateInv'
<1> USE DEF TypeOK, StateInv, ReplacedIsLost, Pending, StateAgreement, Alive
<1>1. CASE Status
  BY <1>1 DEF Status, external, threads, history
<1>2. ASSUME NEW t \in Threads, ThreadStep(t) PROVE StateInv'
  BY <1>2, ThreadStateInv
<1>3. ASSUME NEW ret, Start(ret) PROVE StateInv'
  <2>1. CASE UNCHANGED <<vmm, devices, history, replaced>>
    BY <1>3, <2>1 DEF Start, object, history
  <2>2. CASE NewProcess("preboot", {}, cached, {}, state # "EXITED")
    <3>1. (state # "EXITED") \in BOOLEAN OBVIOUS
    <3>2. \/ "state" \in lost'
          \/ /\ ~(state # "EXITED") /\ replaced' = {}
             /\ \A t \in Threads : owes[t] = "nothing" /\ doing[t] = "nothing"
      BY <2>2, <3>1, NewProcessLoses
    <3>3. vmm' = "preboot" BY <2>2 DEF NewProcess
    <3>4. UNCHANGED <<state, owes, doing>> BY <1>3 DEF Start, object
    <3>5. CASE "state" \in lost' BY <3>5
    <3>6. CASE /\ state = "EXITED" /\ replaced' = {}
               /\ \A t \in Threads : owes[t] = "nothing" /\ doing[t] = "nothing"
      <4>1. Pending'
        <5>. HIDE DEF Alive, ReplacedIsLost, StateAgreement
        <5>. QED BY <3>4, <3>6
      <4>. QED BY <3>3, <3>4, <3>6, <4>1
    <3>. QED BY <3>2, <3>5, <3>6
  <2>. QED BY <1>3, <2>1, <2>2 DEF Start
<1>4. ASSUME NEW ret, WaitUntilReady(ret) \/ PlainRequest(ret) PROVE StateInv'
  BY <1>4 DEF WaitUntilReady, PlainRequest, Synced, object, external, threads, history
<1>5. ASSUME NEW ret, Machine(ret) \/ BootSource(ret) PROVE StateInv'
  BY <1>5 DEF Machine, BootSource, object, external, threads, history
<1>6. ASSUME NEW ret, ~Busy("caller"), Pause(ret) \/ Resume(ret) PROVE StateInv'
  BY <1>6 DEF Pause, Resume, ChangeVm, Outcome, Applied, Synced, Busy, Threads
<1>7. ASSUME NEW d \in UsedDevices, NEW strict, NEW ret, Configure(d, strict, ret)
      PROVE  StateInv'
  BY <1>7, IfacesAreNotFixedDevices, UsedDevicesAreDevices
  DEF Configure, Devices, Synced, threads
<1>8. ASSUME NEW s \in Snaps, NEW flag \in BOOLEAN, CreateSnapshot(s, flag) PROVE StateInv'
  BY <1>8 DEF CreateSnapshot, Synced, threads, history
<1>9. ASSUME NEW s \in Snaps, NEW flag \in BOOLEAN, LoadSnapshot(s, flag) PROVE StateInv'
  BY <1>9, LoadStateInv
<1>10. CASE ProcessExit BY <1>10 DEF ProcessExit, ProcessGone
<1>11. CASE WorkerStops BY <1>11 DEF WorkerStops, external, threads, history
<1>12. CASE UNCHANGED facts BY <1>12 DEF facts, object, external, threads, history
<1>13. CASE ProgramDies BY <1>13 DEF ProgramDies
<1>. HIDE DEF StateInv
<1>. QED
  BY <1>1, <1>2, <1>3, <1>4, <1>5, <1>6, <1>7, <1>8, <1>9, <1>10, <1>11, <1>12, <1>13,
     StepIsMethod
  DEF MethodStep

-----------------------------------------------------------------------------
(* The cache and Firecracker's devices. *)

LEMMA PutDeviceKeepsTruth ==
    ASSUME NEW d, NEW o, PutDevice(d, o), cached \ inherited \subseteq devices
    PROVE  cached' \ inherited \subseteq devices'
  BY DEF PutDevice, Applied

(* Both halves: what the cache says is there, and it says what is there. *)
CacheInv == CacheIsTruthful /\ DevicesAreKnown

LEMMA ThreadCacheInv ==
    ASSUME TypeOK, CacheInv, NEW t \in Threads, ThreadStep(t)
    PROVE  CacheInv'
<1> USE DEF CacheInv, CacheIsTruthful, DevicesAreKnown, Alive
<1>1. CASE Record(t)
  BY <1>1 DEF Record, external, history
<1>2. CASE SeesExit(t)
  BY <1>2 DEF SeesExit, object, external, history
<1>3. CASE WaitCall(t) \/ WaitTimesOut(t) \/ WaitEnds(t) \/ StopCall(t)
  BY <1>3 DEF WaitCall, WaitTimesOut, WaitEnds, StopCall, object, external, history
<1>4. ASSUME NEW ret, Waited(t, ret) PROVE CacheInv'
  BY <1>4 DEF Waited, object, external, history
<1>5. ASSUME NEW ret, StopEnds(t, ret) PROVE CacheInv'
  BY <1>5 DEF StopEnds, KillIfAlive, ProcessGone, object, history
<1>6. ASSUME NEW ret, Boot(t, ret) PROVE CacheInv'
  <2>1. CASE BootRefused
    BY <2>1 DEF BootRefused, external, history
  <2>2. CASE BootRequest(t, ret)
    BY <2>2, PutDeviceKeepsTruth DEF BootRequest, PutDevice, Outcome, Applied
  <2>. QED BY <1>6, <2>1, <2>2 DEF Boot
<1>. QED BY <1>1, <1>2, <1>3, <1>4, <1>5, <1>6 DEF ThreadStep

LEMMA NewProcessIsKnown ==
    ASSUME NEW status, NEW has, NEW known \in SUBSET has, NEW stale,
           NewProcess(status, has, cached', known, stale)
    PROVE  CacheInv'
  BY DEF NewProcess, CacheInv, CacheIsTruthful, DevicesAreKnown

LEMMA NextCacheInv ==
    ASSUME TypeOK, CacheInv, ManifestMatchesImage, [Next]_vars
    PROVE  CacheInv'
<1> USE DEF CacheInv, CacheIsTruthful, DevicesAreKnown, Alive
<1>1. CASE Status \/ WorkerStops
  BY <1>1 DEF Status, WorkerStops, external, history
<1>2. ASSUME NEW t \in Threads, ThreadStep(t) PROVE CacheInv'
  BY <1>2, ThreadCacheInv
<1>3. ASSUME NEW ret, Start(ret) PROVE CacheInv'
  <2>1. CASE UNCHANGED <<vmm, devices, history, replaced>>
    BY <1>3, <2>1 DEF Start, object, history
  <2>2. CASE NewProcess("preboot", {}, cached, {}, state # "EXITED")
    <3>1. cached' = cached BY <1>3 DEF Start, object
    <3>. QED BY <2>2, <3>1, NewProcessIsKnown
  <2>. QED BY <1>3, <2>1, <2>2 DEF Start
<1>4. ASSUME NEW ret, \/ WaitUntilReady(ret) \/ PlainRequest(ret)
                      \/ Machine(ret) \/ BootSource(ret)
      PROVE  CacheInv'
  BY <1>4 DEF WaitUntilReady, PlainRequest, Machine, BootSource, object, external, history
<1>5. ASSUME NEW ret, Pause(ret) \/ Resume(ret) PROVE CacheInv'
  BY <1>5 DEF Pause, Resume, ChangeVm, Outcome, Applied
<1>6. ASSUME NEW d \in UsedDevices, NEW strict, NEW ret, Configure(d, strict, ret)
      PROVE  CacheInv'
  BY <1>6, PutDeviceKeepsTruth DEF Configure, PutDevice, Outcome, Applied
<1>7. ASSUME NEW s, NEW flag, CreateSnapshot(s, flag) PROVE CacheInv'
  BY <1>7 DEF CreateSnapshot, history
<1>8. ASSUME NEW s \in Snaps, NEW flag, LoadSnapshot(s, flag) PROVE CacheInv'
  <2>. DEFINE manifest == disk[s].manifest
             loaded == IF flag THEN "running" ELSE "paused"
  <2>1. ConfirmedBy(manifest) \subseteq disk[s].image.devices
    BY <1>8 DEF ManifestMatchesImage, ConfirmedBy, LoadSnapshot
  <2>2. ASSUME NewProcess(loaded, disk[s].image.devices, cached', ConfirmedBy(manifest), FALSE)
        PROVE  CacheInv'
    BY <2>1, <2>2, NewProcessIsKnown
  <2>3. ASSUME UNCHANGED cached,
               \/ NewProcess("preboot", {}, cached, {}, FALSE)
               \/ NewProcess(loaded, disk[s].image.devices, cached, {}, TRUE)
        PROVE  CacheInv'
    <3>1. CASE NewProcess("preboot", {}, cached, {}, FALSE)
      <4>1. NewProcess("preboot", {}, cached', {}, FALSE) BY <2>3, <3>1
      <4>. QED BY <4>1, NewProcessIsKnown
    <3>2. CASE NewProcess(loaded, disk[s].image.devices, cached, {}, TRUE)
      <4>1. NewProcess(loaded, disk[s].image.devices, cached', {}, TRUE) BY <2>3, <3>2
      <4>. QED BY <4>1, NewProcessIsKnown
    <3>. QED BY <2>3, <3>1, <3>2
  <2>4. ASSUME UNCHANGED cached, UNCHANGED <<vmm, devices, replaced, history>>
        PROVE  CacheInv'
    BY <2>4 DEF history
  <2>. HIDE DEF CacheInv
  <2>. QED BY <1>8, <2>2, <2>3, <2>4 DEF LoadSnapshot
<1>9. CASE ProcessExit BY <1>9 DEF ProcessExit, ProcessGone
<1>10. CASE UNCHANGED facts BY <1>10 DEF facts, object, external, history
<1>11. CASE ProgramDies BY <1>11 DEF ProgramDies
<1>. HIDE DEF CacheInv
<1>. QED
  BY <1>1, <1>2, <1>3, <1>4, <1>5, <1>6, <1>7, <1>8, <1>9, <1>10, <1>11, StepIsMethod
  DEF MethodStep

-----------------------------------------------------------------------------
(* Snapshots on disk. *)

LEMMA ThreadKeepsDisk ==
    ASSUME NEW t, ThreadStep(t)
    PROVE  UNCHANGED disk
<1>1. ASSUME NEW ret, Boot(t, ret) PROVE UNCHANGED disk
  BY <1>1 DEF Boot, BootRefused, BootRequest, external
<1>. QED
  BY <1>1 DEF ThreadStep, Record, SeesExit, WaitCall, WaitTimesOut, WaitEnds, StopCall,
              Waited, StopEnds, external

LEMMA NextManifestMatchesImage ==
    ASSUME TypeOK, CacheInv, ManifestMatchesImage, [Next]_vars
    PROVE  ManifestMatchesImage'
<1>1. ASSUME UNCHANGED disk PROVE ManifestMatchesImage'
  BY <1>1 DEF ManifestMatchesImage
<1>2. ASSUME NEW s \in Snaps, NEW flag \in BOOLEAN, CreateSnapshot(s, flag)
      PROVE  ManifestMatchesImage'
  <2>1. CASE UNCHANGED disk BY <1>1, <2>1
  <2>2. ASSUME NEW o \in Outcome(vmm = "paused"), NEW written \in BOOLEAN,
               disk' = [disk EXCEPT ![s] =
                   [image |-> ImageAfterCreate(o),
                    manifest |-> ManifestAfterCreate(s, o, written)]]
        PROVE  ManifestMatchesImage'
    <3>1. ASSUME NEW t \in Snaps, disk'[t].manifest.exists, disk'[t].image.exists
          PROVE  /\ disk'[t].manifest.devices \ disk'[t].manifest.inherited
                        \subseteq disk'[t].image.devices
                 /\ disk'[t].image.devices \ {"kernel"}
                        \subseteq disk'[t].manifest.devices \cup disk'[t].manifest.lost
      <4>1. CASE t # s
        <5>1. disk'[t] = disk[t] BY <2>2, <4>1 DEF TypeOK
        <5>. QED BY <3>1, <5>1 DEF ManifestMatchesImage
      <4>2. CASE t = s
        <5>1. disk'[t].manifest = NewManifest /\ o = "ok"
          BY <2>2, <3>1, <4>2 DEF ManifestAfterCreate, NoFile, TypeOK
        <5>2. disk'[t].image = [exists |-> TRUE, devices |-> devices]
          BY <2>2, <4>2, <5>1 DEF ImageAfterCreate, Applied, TypeOK
        <5>3. vmm = "paused"
          BY <5>1 DEF Outcome
        <5>4. cached \ inherited \subseteq devices
          BY <5>3 DEF CacheInv, CacheIsTruthful, Alive
        <5>5. devices \ {"kernel"} \subseteq cached \cup (lost \ {"state"})
          <6>1. "state" \notin devices
            BY IfacesAreNotFixedDevices DEF TypeOK, Devices
          <6>. QED BY <5>3, <6>1 DEF CacheInv, DevicesAreKnown, Alive
        <5>. QED BY <5>1, <5>2, <5>4, <5>5 DEF NewManifest
      <4>. QED BY <4>1, <4>2
    <3>. QED BY <3>1 DEF ManifestMatchesImage
  <2>3. CASE disk' = [disk EXCEPT ![s] = [image |-> NoFile, manifest |-> @.manifest]]
    <3>1. disk'[s].image.exists = FALSE
      BY <2>3 DEF NoFile, TypeOK
    <3>2. \A t \in Snaps \ {s} : disk'[t] = disk[t]
      BY <2>3 DEF TypeOK
    <3>. QED BY <3>1, <3>2 DEF ManifestMatchesImage
  <2>. QED BY <1>2, <2>1, <2>2, <2>3 DEF CreateSnapshot
<1>3. ASSUME NEW s, NEW flag, LoadSnapshot(s, flag) PROVE UNCHANGED disk
  BY <1>3 DEF LoadSnapshot
<1>4. ASSUME NEW ret, Pause(ret) \/ Resume(ret) PROVE UNCHANGED disk
  BY <1>4 DEF Pause, Resume
<1>5. ASSUME NEW d, NEW strict, NEW ret, Configure(d, strict, ret) PROVE UNCHANGED disk
  BY <1>5 DEF Configure
<1>6. ASSUME NEW ret, \/ Start(ret) \/ WaitUntilReady(ret)
                      \/ PlainRequest(ret) \/ Machine(ret) \/ BootSource(ret)
      PROVE  UNCHANGED disk
  BY <1>6 DEF Start, WaitUntilReady, PlainRequest, Machine, BootSource, external
<1>7. CASE Status \/ ProcessExit \/ WorkerStops \/ UNCHANGED facts
  BY <1>1, <1>7 DEF Status, ProcessExit, WorkerStops, facts, external
<1>8. CASE ProgramDies
  <2>1. CASE UNCHANGED disk BY <1>1, <2>1
  <2>2. ASSUME NEW s \in Snaps, NEW files \in Unfinished(s),
               disk' = [disk EXCEPT ![s] = files]
        PROVE  ManifestMatchesImage'
    <3>1. disk'[s] = files /\ \A t \in Snaps \ {s} : disk'[t] = disk[t]
      BY <2>2 DEF TypeOK
    <3>2. ~(files.image.exists /\ files.manifest.exists)
      BY UnfinishedFiles, TypeOKFacts
    <3>. QED BY <3>1, <3>2 DEF ManifestMatchesImage
  <2>. QED BY <1>8, <2>1, <2>2 DEF ProgramDies
<1>. QED
  BY <1>1, <1>2, <1>3, <1>4, <1>5, <1>6, <1>7, <1>8, StepIsMethod, ThreadKeepsDisk
  DEF MethodStep

LEMMA NextIInv == IInv /\ [Next]_vars => IInv'
  BY NextTypeOK, NextStateInv, NextCacheInv, NextManifestMatchesImage
  DEF IInv, StateInv, CacheInv

LEMMA Invariant == Spec => []IInv
  BY InitIInv, NextIInv, PTL DEF Spec

-----------------------------------------------------------------------------
(* The variables keep their types. *)
THEOREM TypeCorrect == Spec => []TypeOK
<1>1. IInv => TypeOK BY DEF IInv
<1>. QED BY Invariant, <1>1, PTL

(* Whatever is called in whatever order by however many threads, with any   *)
(* request failing: once the assignments that are due are made, state is    *)
(* wrong only after a lost answer, or for a process started before an exit  *)
(* was observed or while another thread was in the middle of a call.        *)
THEOREM StateAgrees == Spec => []StateAgreement
<1>1. IInv => StateAgreement BY DEF IInv
<1>. QED BY Invariant, <1>1, PTL

(* What the object configured or restored in this process, the VM has. *)
THEOREM CacheTruthful == Spec => []CacheIsTruthful
<1>1. IInv => CacheIsTruthful BY DEF IInv
<1>. QED BY Invariant, <1>1, PTL

(* Before boot the VM has no device the object does not know of. *)
THEOREM CacheComplete == Spec => []CacheIsComplete
<1>1. IInv => CacheIsComplete BY DEF IInv, DevicesAreKnown, CacheIsComplete, Alive
<1>. QED BY Invariant, <1>1, PTL

(* A manifest and the image beside it list the same devices, but for those  *)
(* the object remembered from an earlier process or lost track of, also     *)
(* after a program died in the middle of create_snapshot.                   *)
THEOREM ManifestsMatch == Spec => []ManifestMatchesImage
<1>1. IInv => ManifestMatchesImage BY DEF IInv
<1>. QED BY Invariant, <1>1, PTL

-----------------------------------------------------------------------------
(* How run() ends. *)

Gone(t) == ~Alive \/ t \in replaced

(* What a thread waited for is gone, until it has recorded that or raised,  *)
(* or somebody else replaced it.                                            *)
Finished ==
    /\ \A t \in Threads : owes[t] = "nothing" \/ doing[t] = "nothing"
    /\ \A t \in Threads : doing[t] = "join" => Gone(t)
    /\ pc = "ends" => owes["run"] # "nothing" /\ Gone("run")

(* Only start() and load_snapshot() bring a process to life, and they       *)
(* remember the threads that are under way.                                 *)
LEMMA GoneStays ==
    ASSUME TypeOK, MethodStep \/ ProcessExit \/ WorkerStops \/ UNCHANGED facts,
           NEW t \in Threads, Busy(t), Gone(t)
    PROVE  Gone(t)' \/ Record(t) \/ (doing[t] # "nothing" /\ Leaves(t))
<1> USE DEF Gone, Alive
<1>1. ASSUME NEW status, NEW has, NEW cache, NEW known, NEW stale,
             NewProcess(status, has, cache, known, stale)
      PROVE  Gone(t)'
  BY <1>1 DEF NewProcess, BusyThreads
<1>2. ASSUME NEW u \in Threads, ThreadStep(u) PROVE Gone(t)' \/ Record(t) \/ (doing[t] # "nothing" /\ Leaves(t))
  <2>1. CASE Record(u) BY <2>1 DEF Record, external
  <2>2. CASE WaitTimesOut(u) BY <2>2 DEF WaitTimesOut, Leaves, external
  <2>3. CASE WaitEnds(u) BY <2>3 DEF WaitEnds, external
  <2>4. ASSUME NEW ret, Waited(u, ret)
        PROVE  Gone(t)' \/ (doing[t] # "nothing" /\ Leaves(t))
    BY <2>4 DEF Waited, Leaves, external
  <2>5. ASSUME NEW ret, StopEnds(u, ret)
        PROVE  Gone(t)' \/ (doing[t] # "nothing" /\ Leaves(t))
    BY <2>5 DEF StopEnds, Leaves, KillIfAlive, ProcessGone
  <2>6. CASE SeesExit(u) \/ WaitCall(u) \/ StopCall(u)
    BY <2>6 DEF SeesExit, WaitCall, StopCall, external
  <2>7. ASSUME NEW ret, Boot(u, ret) PROVE Gone(t)'
    BY <2>7 DEF Boot, BootRefused, BootRequest, Outcome, Applied, external, threads
  <2>. QED BY <1>2, <2>1, <2>2, <2>3, <2>4, <2>5, <2>6, <2>7 DEF ThreadStep
<1>3. ASSUME NEW ret, Start(ret) PROVE Gone(t)'
  BY <1>1, <1>3 DEF Start
<1>4. ASSUME NEW s, NEW flag, LoadSnapshot(s, flag) PROVE Gone(t)'
  BY <1>1, <1>4 DEF LoadSnapshot
<1>5. ASSUME NEW ret, \/ WaitUntilReady(ret) \/ PlainRequest(ret)
                      \/ Machine(ret) \/ BootSource(ret)
      PROVE  Gone(t)'
  BY <1>5 DEF WaitUntilReady, PlainRequest, Machine, BootSource, external, threads
<1>6. ASSUME NEW ret, Pause(ret) \/ Resume(ret) PROVE Gone(t)'
  BY <1>6 DEF Pause, Resume, ChangeVm, Outcome, Applied
<1>7. ASSUME NEW d, NEW strict, NEW ret, Configure(d, strict, ret) PROVE Gone(t)'
  BY <1>7 DEF Configure, threads
<1>8. ASSUME NEW s, NEW flag, CreateSnapshot(s, flag) PROVE Gone(t)'
  BY <1>8 DEF CreateSnapshot, threads
<1>9. CASE Status \/ ProcessExit \/ WorkerStops \/ UNCHANGED facts
  BY <1>9 DEF Status, ProcessExit, WorkerStops, ProcessGone, facts, external, threads
<1>. HIDE DEF Gone, Alive
<1>. QED BY <1>2, <1>3, <1>4, <1>5, <1>6, <1>7, <1>8, <1>9 DEF MethodStep

(* How a step changes what a thread is doing, or about to assign. *)
LEMMA StagesChange ==
    ASSUME TypeOK, MethodStep \/ ProcessExit \/ WorkerStops \/ UNCHANGED facts,
           NEW t \in Threads, owes[t] = "nothing" \/ doing[t] = "nothing"
    PROVE  /\ owes'[t] = "nothing" \/ doing'[t] = "nothing"
           /\ doing'[t] = "join" =>
                 \/ doing[t] = "join" /\ owes'[t] = owes[t]
                 \/ doing[t] = "wait" /\ Gone(t) /\ UNCHANGED <<vmm, replaced>>
           /\ owes[t] # "nothing" /\ owes'[t] = "nothing" => Record(t)
<1> USE DEF TypeOK, Busy
<1>1. ASSUME NEW u \in Threads, ThreadStep(u)
      PROVE  /\ owes'[t] = "nothing" \/ doing'[t] = "nothing"
             /\ doing'[t] = "join" =>
                   \/ doing[t] = "join" /\ owes'[t] = owes[t]
                   \/ doing[t] = "wait" /\ Gone(t) /\ UNCHANGED <<vmm, replaced>>
             /\ owes[t] # "nothing" /\ owes'[t] = "nothing" => Record(t)
  <2>1. CASE Record(u) BY <2>1 DEF Record, Owe
  <2>2. CASE WaitTimesOut(u) BY <2>2 DEF WaitTimesOut, Leaves, Stage
  <2>3. CASE WaitEnds(u) BY <2>3 DEF WaitEnds, Stage, Owe
  <2>4. ASSUME NEW ret, Waited(u, ret)
        PROVE  /\ UNCHANGED owes
               /\ \/ doing'[t] = doing[t] \/ doing'[t] = "nothing"
                  \/ doing[t] = "wait" /\ Gone(t) /\ UNCHANGED <<vmm, replaced>>
    BY <2>4 DEF Waited, Leaves, Stage, Gone, Alive, external
  <2>5. ASSUME NEW ret, StopEnds(u, ret)
        PROVE  /\ (doing'[t] = doing[t] /\ owes'[t] = owes[t]) \/ doing'[t] = "nothing"
               /\ owes[t] # "nothing" => owes'[t] # "nothing"
    BY <2>5 DEF StopEnds, Leaves, Stage, Owe
  <2>6. CASE ~Busy(u) /\ SeesExit(u)
    BY <2>6 DEF SeesExit, Owe
  <2>7. CASE ~Busy(u) /\ (WaitCall(u) \/ StopCall(u))
    BY <2>7 DEF WaitCall, StopCall, Stage
  <2>8. ASSUME NEW ret, ~Busy(u), Boot(u, ret)
        PROVE  UNCHANGED doing /\ (owes'[t] = owes[t] \/ ~Busy(t))
    BY <2>8 DEF Boot, BootRefused, BootRequest, threads
  <2>. QED BY <1>1, <2>1, <2>2, <2>3, <2>4, <2>5, <2>6, <2>7, <2>8 DEF ThreadStep
<1>2. ASSUME NEW s, NEW flag, ~Busy("caller"), LoadSnapshot(s, flag)
      PROVE  \/ owes'[t] = owes[t] /\ doing'[t] = doing[t]
             \/ t = "caller" /\ (owes'[t] = "nothing" \/ doing'[t] = "nothing") /\ doing'[t] # "join"
  BY <1>2 DEF LoadSnapshot, Owe, Stage
<1>3. ASSUME NEW ret, ~Busy("caller"), Pause(ret) \/ Resume(ret)
      PROVE  UNCHANGED doing /\ (t = "caller" \/ owes'[t] = owes[t])
  BY <1>3 DEF Pause, Resume, ChangeVm
<1>4. ASSUME NEW ret, \/ Start(ret) \/ WaitUntilReady(ret) \/ PlainRequest(ret)
                      \/ Machine(ret) \/ BootSource(ret)
      PROVE  UNCHANGED <<owes, doing>>
  BY <1>4 DEF Start, WaitUntilReady, PlainRequest, Machine, BootSource, threads
<1>5. ASSUME NEW d, NEW strict, NEW ret, Configure(d, strict, ret)
      PROVE  UNCHANGED <<owes, doing>>
  BY <1>5 DEF Configure, threads
<1>6. ASSUME NEW s, NEW flag, CreateSnapshot(s, flag) PROVE UNCHANGED <<owes, doing>>
  BY <1>6 DEF CreateSnapshot, threads
<1>7. CASE Status \/ ProcessExit \/ WorkerStops \/ UNCHANGED facts
  BY <1>7 DEF Status, ProcessExit, WorkerStops, facts, threads
<1>. QED BY <1>1, <1>2, <1>3, <1>4, <1>5, <1>6, <1>7 DEF MethodStep

(* Nobody else touches what the thread inside run() is in the middle of. *)
LEMMA OthersLeaveRun ==
    ASSUME TypeOK, \/ RunBegin \/ Call \/ CallContinues \/ ProcessExit
                   \/ OptimizerTurn \/ OptimizerRecords \/ UNCHANGED vars
    PROVE  owes'["run"] = owes["run"] /\ (RunBegin \/ pc' = pc)
<1> USE DEF TypeOK, Threads, program
<1>1. CASE RunBegin \/ ProcessExit \/ OptimizerTurn \/ OptimizerRecords \/ UNCHANGED vars
  BY <1>1 DEF RunBegin, ProcessExit, OptimizerTurn, OptimizerRecords, SeesExit, WorkerStops,
              Record, Owe, vars, threads
<1>2. CASE CallContinues
  BY <1>2 DEF CallContinues, Record, WaitTimesOut, WaitEnds, Waited, StopEnds, Owe
<1>3. CASE Call
  <2>1. CASE StopCall("caller") \/ WaitCall("caller") \/ Status \/ SeesExit("caller")
    BY <1>3, <2>1 DEF Call, StopCall, WaitCall, Status, SeesExit, Owe, threads
  <2>2. ASSUME NEW ret, \/ Start(ret) \/ WaitUntilReady(ret) \/ PlainRequest(ret)
                        \/ Machine(ret) \/ BootSource(ret)
        PROVE  UNCHANGED owes
    BY <2>2 DEF Start, WaitUntilReady, PlainRequest, Machine, BootSource, threads
  <2>3. ASSUME NEW ret, Boot("caller", ret) \/ Pause(ret) \/ Resume(ret)
        PROVE  owes'["run"] = owes["run"]
    BY <2>3 DEF Boot, BootRefused, BootRequest, Pause, Resume, ChangeVm, threads
  <2>4. ASSUME NEW d, NEW strict, NEW ret, Configure(d, strict, ret) PROVE UNCHANGED owes
    BY <2>4 DEF Configure, threads
  <2>5. ASSUME NEW s, NEW flag, CreateSnapshot(s, flag) \/ LoadSnapshot(s, flag)
        PROVE  owes'["run"] = owes["run"]
    BY <2>5 DEF CreateSnapshot, LoadSnapshot, Owe, threads
  <2>. QED BY <1>3, <2>1, <2>2, <2>3, <2>4, <2>5 DEF Call
<1>. QED BY <1>1, <1>2, <1>3

LEMMA NextFinished ==
    ASSUME TypeOK, Finished, [Next]_vars
    PROVE  Finished'
<1>1. CASE ProgramDies
  BY <1>1 DEF ProgramDies, Finished
<1>2. CASE ~ProgramDies
  <2>1. MethodStep \/ ProcessExit \/ WorkerStops \/ UNCHANGED facts
    BY <1>2, StepIsMethod
  <2>2. \A t \in Threads : owes'[t] = "nothing" \/ doing'[t] = "nothing"
    BY <2>1, StagesChange DEF Finished
  <2>3. ASSUME NEW t \in Threads, doing'[t] = "join" PROVE Gone(t)'
    <3>1. CASE doing[t] = "wait" /\ Gone(t) /\ UNCHANGED <<vmm, replaced>>
      BY <3>1 DEF Gone, Alive
    <3>2. CASE doing[t] = "join" /\ owes'[t] = owes[t]
      <4>1. Busy(t) /\ Gone(t) /\ owes[t] = "nothing" BY <3>2 DEF Busy, Finished
      <4>2. ~Record(t) BY <4>1 DEF Record
      <4>3. ~Leaves(t) BY <2>3 DEF Leaves, Stage, TypeOK
      <4>. QED BY <2>1, <4>1, <4>2, <4>3, GoneStays
    <3>. QED BY <2>1, <2>3, <3>1, <3>2, StagesChange DEF Finished
  <2>4. ASSUME pc' = "ends" PROVE owes'["run"] # "nothing" /\ Gone("run")'
    <3>1. CASE RunContinues /\ pc = "ends"
      <4>1. Busy("run") /\ doing["run"] = "nothing"
        BY <3>1 DEF Finished, Busy, Threads
      <4>2. RunWaits \/ RunStops \/ RunRecords
        BY <3>1, <4>1 DEF RunContinues
      <4>. QED
        BY <2>4, <3>1, <4>1, <4>2
        DEF RunWaits, RunStops, RunRecords, Waited, WaitTimesOut, WaitEnds, StopEnds
    <3>2. CASE RunContinues /\ pc # "ends"
      <4>1. WaitEnds("run") \/ StopEnds("run", "return")
        BY <2>4, <3>2
        DEF RunContinues, RunSees, RunStep, RunDevice, RunWaits, RunStops, RunRecords,
            Goto, program
      <4>2. CASE WaitEnds("run")
        BY <4>2 DEF WaitEnds, Owe, Finished, Gone, Alive, TypeOK, Threads, external
      <4>3. CASE StopEnds("run", "return")
        <5>1. owes'["run"] = "EXITED" /\ UNCHANGED replaced
          BY <4>3 DEF StopEnds, Owe, TypeOK, Threads
        <5>2. ~Alive' \/ "run" \in replaced
          BY <4>3 DEF StopEnds, KillIfAlive, ProcessGone, Alive
        <5>. QED BY <5>1, <5>2 DEF Gone
      <4>. QED BY <4>1, <4>2, <4>3
    <3>3. CASE ~RunContinues
      <4>1. owes'["run"] = owes["run"] /\ (RunBegin \/ pc' = pc)
        BY <1>2, <3>3, OthersLeaveRun DEF Next
      <4>2. pc = "ends" BY <2>4, <4>1 DEF RunBegin
      <4>3. /\ Busy("run") /\ Gone("run")
            /\ owes["run"] # "nothing" /\ doing["run"] = "nothing"
        BY <4>2 DEF Finished, Busy, Threads
      <4>4. ~Record("run") BY <4>1, <4>3 DEF Record, Owe, TypeOK, Threads
      <4>. QED BY <2>1, <4>1, <4>3, <4>4, GoneStays DEF Threads
    <3>. QED BY <3>1, <3>2, <3>3
  <2>. QED BY <2>2, <2>3, <2>4 DEF Finished
<1>. QED BY <1>1, <1>2

(* run() hands back a VM that is gone, unless its last wait() or stop() was *)
(* seeing to a process that another thread replaced meanwhile.              *)
THEOREM RunCleansUp == Spec => RunLeavesNothing
<1>1. Init => Finished
  BY DEF Init, Finished
<1>2. IInv /\ Finished /\ [Next]_vars => Finished'
  BY NextFinished DEF IInv
<1>3. IInv /\ Finished /\ [Next]_vars =>
        [pc # "idle" /\ pc' = "idle" => ~Alive' \/ "run" \in replaced]_vars
  <2> SUFFICES ASSUME TypeOK, Finished, [Next]_vars, pc # "idle", pc' = "idle"
               PROVE  ~Alive' \/ "run" \in replaced
    BY DEF IInv
  <2>1. RunContinues \/ ProgramDies
    BY OthersLeaveRun DEF Next, RunBegin
  <2>2. CASE ProgramDies BY <2>2 DEF ProgramDies, Alive
  <2>3. CASE RunContinues
    <3>1. (RunRecords /\ pc = "ends") \/ StopEnds("run", "raise")
      BY <2>3
      DEF RunContinues, RunSees, RunStep, RunDevice, RunWaits, RunStops, RunRecords,
          Goto, program
    <3>2. CASE RunRecords /\ pc = "ends"
      BY <3>2 DEF RunRecords, Record, Finished, Gone, Alive, external
    <3>3. CASE StopEnds("run", "raise")
      BY <3>3 DEF StopEnds, KillIfAlive, ProcessGone, Alive
    <3>. QED BY <3>1, <3>2, <3>3
  <2>. QED BY <2>1, <2>2, <2>3
<1>. QED BY Invariant, <1>1, <1>2, <1>3, PTL DEF Spec, RunLeavesNothing

-----------------------------------------------------------------------------
(* The balloon of a boot that reported no optimizer error. *)

(* A running VM whose optimizer met no error is one whose balloon the       *)
(* object knows: every way to RUNNING went through                          *)
(* _start_memory_optimizer_if_enabled, and nothing forgets a balloon.       *)
BalloonIsKnown ==
    OptimizeMemory /\ state = "RUNNING" /\ ~optimizerError => "balloon" \in cached

(* README.md:176 holds as long as the object did not know the balloon from  *)
(* an earlier process (what MCVmSecondBoot shows it not to survive).        *)
FreshBalloonAtBoot ==
    OptimizeMemory /\ state = "RUNNING" /\ vmm = "running" /\ ~optimizerError
                   /\ "balloon" \notin inherited
        => "balloon" \in devices

LEMMA NextBalloonIsKnown ==
    ASSUME TypeOK, BalloonIsKnown, [Next]_vars
    PROVE  BalloonIsKnown'
<1> USE DEF TypeOK, BalloonIsKnown
<1>1. CASE Status \/ WorkerStops
  BY <1>1 DEF Status, WorkerStops
<1>2. ASSUME NEW t \in Threads, ThreadStep(t) PROVE BalloonIsKnown'
  <2>1. CASE Record(t) BY <2>1 DEF Record, StartOptimizer
  <2>2. CASE SeesExit(t) \/ WaitCall(t) \/ WaitTimesOut(t) \/ WaitEnds(t) \/ StopCall(t)
    BY <2>2 DEF SeesExit, WaitCall, WaitTimesOut, WaitEnds, StopCall, StopOptimizer, object
  <2>3. ASSUME NEW ret, Waited(t, ret) \/ StopEnds(t, ret) PROVE BalloonIsKnown'
    BY <2>3 DEF Waited, StopEnds, object
  <2>4. ASSUME NEW ret, Boot(t, ret) PROVE BalloonIsKnown'
    BY <2>4 DEF Boot, BootRefused, BootRequest, PutDevice, Synced
  <2>. QED BY <1>2, <2>1, <2>2, <2>3, <2>4 DEF ThreadStep
<1>3. ASSUME NEW ret, Start(ret) \/ WaitUntilReady(ret) PROVE BalloonIsKnown'
  BY <1>3 DEF Start, WaitUntilReady, Synced, object
<1>4. ASSUME NEW ret, PlainRequest(ret) \/ Machine(ret) \/ BootSource(ret)
      PROVE  BalloonIsKnown'
  BY <1>4 DEF PlainRequest, Machine, BootSource, object
<1>5. ASSUME NEW ret, Pause(ret) \/ Resume(ret) PROVE BalloonIsKnown'
  BY <1>5 DEF Pause, Resume, ChangeVm, Synced
<1>6. ASSUME NEW d \in UsedDevices, NEW strict, NEW ret, Configure(d, strict, ret)
      PROVE  BalloonIsKnown'
  BY <1>6 DEF Configure, PutDevice, Synced
<1>7. ASSUME NEW s, NEW flag \in BOOLEAN, CreateSnapshot(s, flag) \/ LoadSnapshot(s, flag)
      PROVE  BalloonIsKnown'
  BY <1>7 DEF CreateSnapshot, LoadSnapshot, Synced
<1>8. CASE ProcessExit \/ UNCHANGED facts
  BY <1>8 DEF ProcessExit, facts, object
<1>9. CASE ProgramDies BY <1>9 DEF ProgramDies
<1>. QED
  BY <1>1, <1>2, <1>3, <1>4, <1>5, <1>6, <1>7, <1>8, <1>9, StepIsMethod
  DEF MethodStep

(* A boot with optimize_memory that reports no optimizer error gave the VM  *)
(* its balloon, whatever failed before and whichever thread booted,         *)
(* paused or restored it.                                                   *)
THEOREM FreshBalloonsAtBoot == Spec => []FreshBalloonAtBoot
<1>1. Init => BalloonIsKnown
  BY DEF Init, BalloonIsKnown
<1>2. IInv /\ BalloonIsKnown => FreshBalloonAtBoot
  BY DEF IInv, BalloonIsKnown, FreshBalloonAtBoot, CacheIsTruthful, Alive
<1>3. IInv /\ BalloonIsKnown /\ [Next]_vars => BalloonIsKnown'
  BY NextBalloonIsKnown DEF IInv
<1>. QED BY Invariant, <1>1, <1>2, <1>3, PTL DEF Spec

-----------------------------------------------------------------------------
(* run() makes progress. *)

(* The order of run()'s steps, ... *)
Place ==
    [p \in RunSteps \cup {"idle"} |->
        CASE p = "start" -> 0
          [] p = "ready" -> 1
          [] p = "logger" -> 2
          [] p = "machine" -> 3
          [] p = "boot_source" -> 4
          [] p = "root_drive" -> 5
          [] p = "devices" -> 6
          [] p = "polled" -> 7
          [] p = "wait" -> 8
          [] p = "stop" -> 9
          [] p = "ends" -> 10
          [] p = "idle" -> 11]

(* ... and of what it is in the middle of at one of them. *)
Progress ==
    CASE owes["run"] # "nothing" -> 0
      [] owes["run"] = "nothing" /\ doing["run"] = "nothing" -> 1
      [] owes["run"] = "nothing" /\ doing["run"] \in {"wait", "kill"} -> 2
      [] owes["run"] = "nothing" /\ doing["run"] = "join" -> 3

(* Each step of run() is a later one, or a later stage of the same, or      *)
(* configures one more of the devices it was asked for: no failure and no   *)
(* other thread makes it go back or repeat itself.                          *)
Advances ==
    \/ Place[pc'] > Place[pc]
    \/ pc' = pc /\ Progress' > Progress
    \/ pc' = "devices" /\ pc \in {"devices", "polled"} /\ want' \subseteq want /\ want' # want

RunAdvances ==
    [][pc # "idle" /\ (RunContinues \/ pc' # pc \/ want' # want) => Advances]_vars

LEMMA PlacesAre ==
    /\ Place["start"] = 0 /\ Place["ready"] = 1 /\ Place["logger"] = 2
    /\ Place["machine"] = 3 /\ Place["boot_source"] = 4 /\ Place["root_drive"] = 5
    /\ Place["devices"] = 6 /\ Place["polled"] = 7 /\ Place["wait"] = 8
    /\ Place["stop"] = 9 /\ Place["ends"] = 10 /\ Place["idle"] = 11
    /\ \A p \in RunSteps : Place[p] \in 0..10
<1>1. /\ Place["start"] = 0 /\ Place["ready"] = 1 /\ Place["logger"] = 2
      /\ Place["machine"] = 3 /\ Place["boot_source"] = 4
  BY DEF Place, RunSteps
<1>2. /\ Place["root_drive"] = 5 /\ Place["devices"] = 6 /\ Place["polled"] = 7
      /\ Place["wait"] = 8
  BY DEF Place, RunSteps
<1>3. /\ Place["stop"] = 9 /\ Place["ends"] = 10 /\ Place["idle"] = 11
  BY DEF Place, RunSteps
<1>. QED BY <1>1, <1>2, <1>3 DEF RunSteps

LEMMA ProgressIs ==
    /\ owes["run"] # "nothing" => Progress = 0
    /\ owes["run"] = "nothing" /\ doing["run"] = "nothing" => Progress = 1
    /\ owes["run"] = "nothing" /\ doing["run"] \in {"wait", "kill"} => Progress = 2
    /\ owes["run"] = "nothing" /\ doing["run"] = "join" => Progress = 3
<1>1. owes["run"] # "nothing" => Progress = 0 BY DEF Progress
<1>2. owes["run"] = "nothing" /\ doing["run"] = "nothing" => Progress = 1 BY DEF Progress
<1>3. owes["run"] = "nothing" /\ doing["run"] \in {"wait", "kill"} => Progress = 2
  BY DEF Progress
<1>4. owes["run"] = "nothing" /\ doing["run"] = "join" => Progress = 3 BY DEF Progress
<1>. QED BY <1>1, <1>2, <1>3, <1>4

(* What RunReturns rests on: run() can only end. *)
THEOREM RunsAdvance == Spec => RunAdvances
<1>1. ASSUME TypeOK, Finished, [Next]_vars, pc # "idle", RunContinues \/ pc' # pc \/ want' # want
      PROVE  Advances
  <2>1. RunContinues \/ ProgramDies
    BY <1>1 DEF Next, RunBegin, Call, CallContinues, ProcessExit, OptimizerTurn,
                OptimizerRecords, vars, program
  <2>2. ASSUME pc' = "idle" PROVE Advances
    <3>1. pc \in RunSteps BY <1>1 DEF TypeOK
    <3>. QED BY <2>2, <3>1, PlacesAre DEF Advances
  <2>3. ASSUME NEW ret, RunStep(ret),
               ~(pc \in {"devices", "polled"} /\ want # {} /\ RunDevice(ret))
        PROVE  Advances
    <3>1. \/ pc = "start" /\ pc' \in {"ready", "stop"}
          \/ pc = "ready" /\ pc' \in {"logger", "stop"}
          \/ pc = "logger" /\ pc' \in {"machine", "stop"}
          \/ pc = "machine" /\ pc' \in {"boot_source", "stop"}
          \/ pc = "boot_source" /\ pc' \in {"root_drive", "stop"}
          \/ pc = "root_drive" /\ pc' \in {"devices", "stop"}
          \/ pc \in {"devices", "polled"} /\ pc' \in {"wait", "stop"}
      BY <2>3 DEF RunStep, Goto
    <3>. QED BY <3>1, PlacesAre DEF Advances
  <2>4. ASSUME NEW ret, pc \in {"devices", "polled"}, want # {}, RunDevice(ret)
        PROVE  Advances
    <3>1. PICK d \in NextWanted : want' = want \ {d} /\ pc' \in {"devices", "stop"}
      BY <2>4 DEF RunDevice
    <3>2. d \in want
      BY <3>1 DEF NextWanted
    <3>. QED BY <2>4, <3>1, <3>2, PlacesAre DEF Advances
  <2>5. CASE RunSees
    <3>1. (pc = "ready" /\ pc' = "stop") \/ (pc = "devices" /\ pc' = "polled")
      BY <2>5 DEF RunSees
    <3>. QED BY <3>1, PlacesAre DEF Advances
  <2>6. CASE RunRecords
    <3>1. CASE pc = "ends"
      BY <2>2, <2>6, <3>1 DEF RunRecords
    <3>2. CASE pc # "ends"
      <4>1. owes["run"] # "nothing" /\ owes'["run"] = "nothing" /\ doing'["run"] = doing["run"]
        BY <1>1, <2>6 DEF RunRecords, Record, Owe, TypeOK, Threads
      <4>2. doing["run"] = "nothing"
        BY <1>1, <4>1 DEF Finished, Threads
      <4>3. Progress = 0 BY <4>1, ProgressIs
      <4>4. Progress' = 1
        <5>1. owes'["run"] = "nothing" /\ doing'["run"] = "nothing" BY <4>1, <4>2
        <5>. QED BY <5>1 DEF Progress
      <4>. QED BY <2>6, <3>2, <4>3, <4>4 DEF RunRecords, Advances
    <3>. QED BY <3>1, <3>2
  <2>7. CASE RunWaits \/ RunStops
    <3>1. CASE pc' # pc
      <4>1. (pc = "wait" /\ pc' \in {"stop", "ends"}) \/ (pc = "stop" /\ pc' \in {"ends", "idle"})
        BY <2>7, <3>1 DEF RunWaits, RunStops, Goto, program
      <4>. QED BY <4>1, PlacesAre DEF Advances
    <3>2. CASE pc' = pc
      <4>1. \/ ~Busy("run") /\ (WaitCall("run") \/ StopCall("run"))
            \/ Waited("run", "return")
        BY <2>7, <3>2 DEF RunWaits, RunStops, Goto
      <4>2. CASE ~Busy("run") /\ (WaitCall("run") \/ StopCall("run"))
        <5>1. owes["run"] = "nothing" /\ doing["run"] = "nothing"
          BY <4>2 DEF Busy
        <5>2. owes'["run"] = "nothing" /\ doing'["run"] \in {"wait", "kill"}
          BY <1>1, <4>2, <5>1 DEF WaitCall, StopCall, Stage, TypeOK, Threads
        <5>3. Progress = 1 BY <5>1, ProgressIs
        <5>4. Progress' = 2 BY <5>2 DEF Progress
        <5>. QED BY <3>2, <5>3, <5>4 DEF Advances
      <4>3. CASE Waited("run", "return")
        <5>1. owes["run"] = "nothing" /\ doing["run"] = "wait"
          BY <1>1, <4>3 DEF Waited, Finished, Threads
        <5>2. owes'["run"] = "nothing" /\ doing'["run"] = "join"
          BY <1>1, <4>3, <5>1 DEF Waited, Stage, TypeOK, Threads
        <5>3. Progress = 2 BY <5>1, ProgressIs
        <5>4. Progress' = 3 BY <5>2 DEF Progress
        <5>. QED BY <3>2, <5>3, <5>4 DEF Advances
      <4>. QED BY <4>1, <4>2, <4>3
    <3>. QED BY <3>1, <3>2
  <2>8. CASE ProgramDies
    BY <2>2, <2>8 DEF ProgramDies
  <2>. QED BY <2>1, <2>3, <2>4, <2>5, <2>6, <2>7, <2>8 DEF RunContinues
<1>2. Init => Finished
  BY DEF Init, Finished
<1>3. IInv /\ Finished /\ [Next]_vars => Finished'
  BY NextFinished DEF IInv
<1>4. IInv /\ Finished /\ [Next]_vars =>
        [pc # "idle" /\ (RunContinues \/ pc' # pc \/ want' # want) => Advances]_vars
  BY <1>1 DEF IInv
<1>. QED BY Invariant, <1>2, <1>3, <1>4, PTL DEF Spec, RunAdvances

-----------------------------------------------------------------------------
(* Liveness.  The prover cannot expand the ENABLED in Spec's fairness, so   *)
(* what it has to know of it is a hypothesis, which TLC can check: a worker *)
(* can always take the turn that finds the process gone, or record that.    *)
WorkerCanTurn ==
    optimizer \in {"running", "stopping"} /\ vmm = "exited" =>
        ENABLED <<WorkerNotices>>_vars

(* The worker has nothing to record but an exit. *)
WorkerOnlySees == owes["worker"] \in {"nothing", "EXITED"}

LEMMA NextWorkerOnlySees ==
    ASSUME TypeOK, WorkerOnlySees, [Next]_vars
    PROVE  WorkerOnlySees'
<1> USE DEF TypeOK, WorkerOnlySees, Threads
<1>1. ASSUME NEW t \in Threads, ThreadStep(t) PROVE WorkerOnlySees'
  <2>1. CASE Record(t) \/ SeesExit(t) \/ WaitCall(t) \/ WaitTimesOut(t)
                \/ WaitEnds(t) \/ StopCall(t)
    BY <2>1 DEF Record, SeesExit, WaitCall, WaitTimesOut, WaitEnds, StopCall, Owe
  <2>2. ASSUME NEW ret, Waited(t, ret) \/ StopEnds(t, ret) PROVE WorkerOnlySees'
    BY <2>2 DEF Waited, StopEnds, Owe
  <2>3. ASSUME NEW ret, t # "worker", Boot(t, ret) PROVE WorkerOnlySees'
    BY <2>3 DEF Boot, BootRefused, BootRequest, threads
  <2>. QED BY <1>1, <2>1, <2>2, <2>3 DEF ThreadStep
<1>2. ASSUME NEW ret, \/ Start(ret) \/ WaitUntilReady(ret) \/ PlainRequest(ret)
                      \/ Machine(ret) \/ BootSource(ret)
      PROVE  UNCHANGED owes
  BY <1>2 DEF Start, WaitUntilReady, PlainRequest, Machine, BootSource, threads
<1>3. ASSUME NEW ret, Pause(ret) \/ Resume(ret) PROVE owes'["worker"] = owes["worker"]
  BY <1>3 DEF Pause, Resume, ChangeVm
<1>4. ASSUME NEW d, NEW strict, NEW ret, Configure(d, strict, ret) PROVE UNCHANGED owes
  BY <1>4 DEF Configure, threads
<1>5. ASSUME NEW s, NEW flag, CreateSnapshot(s, flag) \/ LoadSnapshot(s, flag)
      PROVE  owes'["worker"] = owes["worker"]
  BY <1>5 DEF CreateSnapshot, LoadSnapshot, Owe, threads
<1>6. CASE Status \/ ProcessExit \/ WorkerStops \/ UNCHANGED facts \/ ProgramDies
  BY <1>6 DEF Status, ProcessExit, WorkerStops, ProgramDies, facts, threads
<1>. QED BY <1>1, <1>2, <1>3, <1>4, <1>5, <1>6, StepIsMethod DEF MethodStep

(* The VM is gone under a worker that did not look yet, or that is about to *)
(* record what it saw.                                                      *)
Unwatched == vmm = "exited" /\ optimizer \in {"running", "stopping"}
Unseen == Unwatched /\ owes["worker"] = "nothing"
Seen == Unwatched /\ owes["worker"] = "EXITED"
Noticed == state = "EXITED" \/ Alive \/ optimizer = "stopped"

(* Nobody takes the worker of an exit away but by stopping it, whoever      *)
(* starts a process makes the VM alive again, and what the worker saw it    *)
(* records itself.                                                          *)
LEMMA UnwatchedStays ==
    ASSUME TypeOK, WorkerOnlySees, [Next]_vars, Unwatched
    PROVE  \/ Noticed'
           \/ Unwatched' /\ (owes["worker"] = "EXITED" => owes'["worker"] = "EXITED")
<1> USE DEF TypeOK, WorkerOnlySees, Unwatched, Noticed, Alive, Threads
<1>1. ASSUME NEW status \in {"preboot", "running", "paused"}, NEW has, NEW cache,
             NEW known, NEW stale, NewProcess(status, has, cache, known, stale)
      PROVE  Noticed'
  BY <1>1 DEF NewProcess
<1>2. ASSUME NEW t \in Threads, ThreadStep(t)
      PROVE  \/ Noticed'
             \/ Unwatched' /\ (owes["worker"] = "EXITED" => owes'["worker"] = "EXITED")
  <2>1. CASE Record(t)
    <3>1. CASE t = "worker" BY <2>1, <3>1 DEF Record
    <3>2. CASE t # "worker" BY <2>1, <3>2 DEF Record, Owe, StartOptimizer, external
    <3>. QED BY <3>1, <3>2
  <2>2. CASE SeesExit(t) \/ WaitCall(t) \/ WaitTimesOut(t)
    BY <2>2 DEF SeesExit, WaitCall, WaitTimesOut, Owe, object, external
  <2>3. CASE WaitEnds(t) \/ StopCall(t)
    BY <2>3 DEF WaitEnds, StopCall, StopOptimizer, Owe, external
  <2>4. ASSUME NEW ret, Waited(t, ret) \/ StopEnds(t, ret)
        PROVE  Unwatched' /\ (owes["worker"] = "EXITED" => owes'["worker"] = "EXITED")
    BY <2>4 DEF Waited, StopEnds, KillIfAlive, Owe, object, external
  <2>5. ASSUME NEW ret, t # "worker", Boot(t, ret)
        PROVE  Unwatched' /\ (owes["worker"] = "EXITED" => owes'["worker"] = "EXITED")
    BY <2>5 DEF Boot, BootRefused, BootRequest, Outcome, Applied, external, threads
  <2>. QED BY <1>2, <2>1, <2>2, <2>3, <2>4, <2>5 DEF ThreadStep
<1>3. ASSUME NEW ret, Start(ret) PROVE Noticed' \/ (Unwatched' /\ UNCHANGED owes)
  BY <1>1, <1>3 DEF Start, object
<1>4. ASSUME NEW s, NEW flag, LoadSnapshot(s, flag) PROVE Noticed'
  BY <1>4 DEF LoadSnapshot
<1>5. ASSUME NEW ret, \/ WaitUntilReady(ret) \/ PlainRequest(ret)
                      \/ Machine(ret) \/ BootSource(ret)
      PROVE  Unwatched' /\ UNCHANGED owes
  BY <1>5 DEF WaitUntilReady, PlainRequest, Machine, BootSource, object, external, threads
<1>6. ASSUME NEW ret, Pause(ret) \/ Resume(ret) PROVE Noticed'
  BY <1>6 DEF Pause, Resume, ChangeVm, Synced
<1>7. ASSUME NEW d, NEW strict, NEW ret, Configure(d, strict, ret) PROVE Noticed'
  BY <1>7 DEF Configure, Synced
<1>8. ASSUME NEW s, NEW flag, CreateSnapshot(s, flag) PROVE Noticed'
  BY <1>8 DEF CreateSnapshot, Synced
<1>9. CASE Status \/ WorkerStops \/ ProgramDies
  BY <1>9 DEF Status, WorkerStops, ProgramDies
<1>10. CASE ProcessExit BY <1>10 DEF ProcessExit
<1>11. CASE UNCHANGED facts BY <1>11 DEF facts, object, external, threads
<1>. HIDE DEF Unwatched, Noticed
<1>. QED
  BY <1>2, <1>3, <1>4, <1>5, <1>6, <1>7, <1>8, <1>9, <1>10, <1>11, StepIsMethod
  DEF MethodStep

(* A VM that died is noticed although no caller ever asks: the worker's     *)
(* next turn polls it and records that, unless it was stopped or gave up.   *)
THEOREM ExitsAreNoticed == Spec /\ []WorkerCanTurn => ExitIsNoticed
<1>1. Init => WorkerOnlySees
  BY DEF Init, WorkerOnlySees, Threads
<1>2. IInv /\ WorkerOnlySees /\ [Next]_vars => WorkerOnlySees'
  BY NextWorkerOnlySees DEF IInv
<1>3. WorkerOnlySees /\ vmm = "exited" /\ optimizer = "running" => Unseen \/ Seen
  BY DEF WorkerOnlySees, Unseen, Seen, Unwatched
<1>4. IInv /\ WorkerOnlySees /\ WorkerOnlySees' /\ [Next]_vars => (Unseen => Unseen' \/ Seen' \/ Noticed')
  BY UnwatchedStays DEF IInv, Unseen, Seen, WorkerOnlySees
<1>5. IInv /\ WorkerOnlySees /\ [Next]_vars => (Seen => Seen' \/ Noticed')
  BY UnwatchedStays DEF IInv, Seen
<1>6. IInv /\ WorkerOnlySees /\ <<WorkerNotices>>_vars => (Unseen => Seen' \/ Noticed')
  <2> SUFFICES ASSUME TypeOK, WorkerNotices, Unseen PROVE Seen' \/ Noticed'
    BY DEF IInv
  <2>1. CASE SeesExit("worker")
    BY <2>1 DEF SeesExit, Unseen, Seen, Unwatched, Owe, object, external, TypeOK, Threads
  <2>2. CASE WorkerStops
    BY <2>2 DEF WorkerStops, Noticed
  <2>. QED BY <2>1, <2>2 DEF WorkerNotices, OptimizerTurn, OptimizerRecords, Record, Unseen
<1>7. IInv /\ <<WorkerNotices>>_vars => (Seen => Noticed')
  BY DEF WorkerNotices, OptimizerTurn, OptimizerRecords, Record, Seen, Noticed, Busy
<1>8. WorkerCanTurn /\ (Unseen \/ Seen) => ENABLED <<WorkerNotices>>_vars
  BY DEF Unseen, Seen, Unwatched, WorkerCanTurn
<1>9. Noticed <=> state = "EXITED" \/ Alive \/ optimizer = "stopped"
  BY DEF Noticed
<1>. QED
  BY Invariant, <1>1, <1>2, <1>3, <1>4, <1>5, <1>6, <1>7, <1>8, <1>9, PTL
  DEF Spec, ExitIsNoticed

=============================================================================
