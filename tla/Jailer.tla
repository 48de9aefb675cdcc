------------------------------- MODULE Jailer -------------------------------
(***************************************************************************)
(* The Jailer wrapper (src/crackersdk/jailer.py): the first method that    *)
(* needs it prepares a jail directory on disk and repoints the wrapped     *)
(* crackerVM at it; cleanup() removes the directory and gives the VM back. *)
(*                                                                         *)
(* Preparation is a sequence of file operations without rollback: it can   *)
(* raise anywhere, the program can die anywhere, and other Jailers of the  *)
(* same chroot base work beside it and share one firecracker binary in     *)
(* <base>/firecracker/assets: each compares it with the binary it was      *)
(* configured with, and replaces it if it differs.                         *)
(***************************************************************************)
EXTENDS FiniteSets

CONSTANTS
    Jailers,        \* Jailer objects, each around a crackerVM of its own
    Jails,          \* jail ids; an id stands for its directory
    IdOf,           \* config.jail_id of each Jailer
    Binaries,       \* firecracker binaries that differ in size or in time
    CleanupOnExit   \* config.cleanup_on_exit

ASSUME EveryJailerHasAJail == IdOf \in [Jailers -> Jails]
ASSUME BinariesAreWhole == {"none", "part"} \cap Binaries = {}
ASSUME CleanupIsBoolean == CleanupOnExit \in BOOLEAN

VARIABLES
    binary,      \* config.exec_file, or the VM's binary
    context,     \* self._context is not None
    original,    \* self._original_state: "none", or the settings it saved
    hostVsock,   \* self._host_vsock_path is not None
    settings,    \* the VM's paths, sockets and launcher: "host" or "jail"
    vmm,         \* the VM's process: "none", or the settings it was launched with
    call, pc,    \* the method under way, and how far it is
    jail,        \* per id: the directory is "absent", "partial" or "ready"
    asset,       \* the shared binary: nothing, a part or all of one, and
                 \* whether it has the times of what it was copied from
    overlapped,  \* history: two Jailers copied the binary at the same time
    replaced     \* history: a copy of another binary began after this Jailer's
                 \* comparison

shared == <<asset, overlapped, replaced>>
object == <<binary, context, original, hostVsock>>
vm == <<settings, vmm>>
files == <<jail, shared>>
vars == <<object, vm, call, pc, files>>

Methods == {"none", "prepare", "start", "vsock", "run", "exit"}
Preparing == {"compare", "copy", "stamp", "mkdir", "fill"}
Steps == Preparing \cup {"idle", "prepared", "run", "run_wait", "run_end", "clean"}
NoAsset == [content |-> "none", stamped |-> FALSE]

Init ==
    /\ binary \in [Jailers -> Binaries]
    /\ context = [j \in Jailers |-> FALSE]
    /\ original = [j \in Jailers |-> "none"]
    /\ hostVsock = [j \in Jailers |-> FALSE]
    /\ settings = [j \in Jailers |-> "host"]
    /\ vmm = [j \in Jailers |-> "none"]
    /\ call = [j \in Jailers |-> "none"]
    /\ pc = [j \in Jailers |-> "idle"]
    /\ jail = [i \in Jails |-> "absent"]
    /\ asset = NoAsset
    /\ overlapped = FALSE
    /\ replaced = [j \in Jailers |-> FALSE]

Goto(j, from, to) == pc[j] = from /\ pc' = [pc EXCEPT ![j] = to]
Finish(j, from) == Goto(j, from, "idle") /\ call' = [call EXCEPT ![j] = "none"]

-----------------------------------------------------------------------------
(* _ensure_prepared and _prepare_jail *)

(* A method that needs the jail: nothing to do when there is a context, an  *)
(* error when the directory exists already.                                 *)
Begin(j, method) ==
    /\ pc[j] = "idle"
    /\ context[j] \/ jail[IdOf[j]] = "absent"
    /\ call' = [call EXCEPT ![j] = method]
    /\ pc' = [pc EXCEPT ![j] = IF context[j] THEN "prepared" ELSE "compare"]
    /\ UNCHANGED <<object, vm, files>>

(* Mutant of NeedsCopy: any file at the destination will do. *)
NeedsCopy_IfAbsent(j) == asset.content = "none"

(* _sync_shared_asset compares size and modification time with its source.  *)
NeedsCopy(j) == ~(asset.content = binary[j] /\ asset.stamped)

(* Copies that overlap truncate and unlink each other's file: what comes of *)
(* that is left open.                                                       *)
OthersCopy(j) == \E k \in Jailers \ {j} : pc[k] \in {"copy", "stamp"}
Mess == [content : {"none", "part"} \cup Binaries, stamped : BOOLEAN]

(* The stale file, which others may be about to launch, is unlinked. *)
Unlink(j) ==
    /\ NeedsCopy(j)
    /\ overlapped' = (overlapped \/ OthersCopy(j))
    /\ replaced' = [k \in Jailers |->
                       k # j /\ (replaced[k] \/ binary[k] # binary[j])]

(* A new file is opened for writing in its place. *)
Compare(j) ==
    /\ \/ /\ Goto(j, "compare", "copy") /\ Unlink(j)
          /\ asset' = [content |-> "part", stamped |-> FALSE]
       \/ /\ Goto(j, "compare", "mkdir") /\ ~NeedsCopy(j)
          /\ replaced' = [replaced EXCEPT ![j] = FALSE]
          /\ UNCHANGED <<asset, overlapped>>
    /\ UNCHANGED <<object, vm, call, jail>>

(* The new file cannot be opened once the stale one is gone. *)
CompareFails(j) ==
    /\ Finish(j, "compare") /\ Unlink(j)
    /\ asset' = NoAsset
    /\ UNCHANGED <<object, vm, jail>>

(* shutil.copy2: the contents first, then the times of the source. *)
Copy(j) ==
    /\ Goto(j, "copy", "stamp")
    /\ IF overlapped THEN asset' \in Mess
                     ELSE asset' = [asset EXCEPT !.content = binary[j]]
    /\ UNCHANGED <<object, vm, call, jail, overlapped, replaced>>

Stamp(j) ==
    /\ Goto(j, "stamp", "mkdir")
    /\ IF overlapped THEN asset' \in Mess
                     ELSE asset' = [asset EXCEPT !.stamped = TRUE]
    /\ UNCHANGED <<object, vm, call, jail, overlapped, replaced>>

(* Mutant of Mkdir: self._context is set before the jail is filled. *)
Mkdir_ContextFirst(j) ==
    /\ Goto(j, "mkdir", "fill")
    /\ jail' = [jail EXCEPT ![IdOf[j]] = "partial"]
    /\ context' = [context EXCEPT ![j] = TRUE]
    /\ UNCHANGED <<binary, original, hostVsock, vm, call, shared>>

Mkdir(j) ==
    /\ Goto(j, "mkdir", "fill")
    /\ jail' = [jail EXCEPT ![IdOf[j]] = "partial"]
    /\ UNCHANGED <<object, vm, call, shared>>

(* Mutant of Apply: the settings are saved after the VM was repointed. *)
Apply_SavedLate(j) ==
    /\ settings' = [settings EXCEPT ![j] = "jail"]
    /\ original' = [original EXCEPT ![j] = settings'[j]]
    /\ Goto(j, "fill", "prepared") /\ UNCHANGED call

(* The VM's settings are saved; _apply_jail_context looks up the jailer     *)
(* binary, and when that raises the VM is not repointed.                    *)
Apply(j) ==
    /\ original' = [original EXCEPT ![j] = settings[j]]
    /\ \/ /\ settings' = [settings EXCEPT ![j] = "jail"]
          /\ Goto(j, "fill", "prepared") /\ UNCHANGED call
       \/ /\ Finish(j, "fill") /\ UNCHANGED settings

(* Kernel and rootfs are copied and chowned, self._context is set. *)
Fill(j) ==
    /\ jail' = [jail EXCEPT ![IdOf[j]] = "ready"]
    /\ context' = [context EXCEPT ![j] = TRUE]
    /\ Apply(j)
    /\ UNCHANGED <<binary, hostVsock, vmm, shared>>

(* A file operation raises; everything done so far stays. *)
PrepareFails(j) ==
    /\ pc[j] \in Preparing /\ Finish(j, pc[j])
    /\ UNCHANGED <<object, vm, files>>

Prepare(j) == \/ \E method \in {"prepare", "start", "vsock", "run"} : Begin(j, method)
              \/ Compare(j) \/ CompareFails(j) \/ Copy(j) \/ Stamp(j) \/ Mkdir(j) \/ Fill(j)
              \/ PrepareFails(j)

-----------------------------------------------------------------------------
(* The methods that go on from there *)

(* __enter__ and the path properties *)
Prepared(j) == /\ call[j] = "prepare" /\ Finish(j, "prepared")
               /\ UNCHANGED <<object, vm, files>>

(* vm.start: refused while the process lives, Popen may fail. *)
Launch(j) == /\ vmm[j] = "none"
             /\ vmm' = [vmm EXCEPT ![j] = settings[j]]

Start(j) ==
    /\ call[j] = "start" /\ Finish(j, "prepared")
    /\ Launch(j) \/ UNCHANGED vmm
    /\ UNCHANGED <<object, settings, files>>

(* _prepare_vsock_path: an absolute path is noted, a relative one is not. *)
PrepareVsockPath(j) == hostVsock' \in {hostVsock, [hostVsock EXCEPT ![j] = TRUE]}

Vsock(j) ==
    /\ call[j] = "vsock" /\ Finish(j, "prepared")
    /\ PrepareVsockPath(j)
    /\ UNCHANGED <<binary, context, original, vm, files>>

(* run: what fails before the try block is not followed by cleanup. *)
RunBegin(j) ==
    /\ call[j] = "run"
    /\ PrepareVsockPath(j)
    /\ Finish(j, "prepared") \/ (Goto(j, "prepared", "run") /\ UNCHANGED call)
    /\ UNCHANGED <<binary, context, original, vm, files>>

RunLaunch(j) ==
    /\ \/ Launch(j) /\ Goto(j, "run", "run_wait")
       \/ vmm' = [vmm EXCEPT ![j] = "none"] /\ Goto(j, "run", "run_end")
    /\ UNCHANGED <<object, settings, call, files>>

(* vm.run leaves the process stopped, except on a KeyboardInterrupt. *)
RunWait(j) ==
    /\ Goto(j, "run_wait", "run_end")
    /\ vmm' \in {vmm, [vmm EXCEPT ![j] = "none"]}
    /\ UNCHANGED <<object, settings, call, files>>

(* Mutant of GiveBack: the saved settings are not dropped. *)
GiveBack_KeepsOriginal(j) ==
    /\ settings' = IF original[j] = "none" THEN settings
                   ELSE [settings EXCEPT ![j] = original[j]]
    /\ context' = [context EXCEPT ![j] = FALSE]
    /\ hostVsock' = [hostVsock EXCEPT ![j] = FALSE]
    /\ UNCHANGED <<binary, original>>

(* cleanup: rmtree ignores its errors and may leave some of the jail. *)
GiveBack(j) ==
    /\ settings' = IF original[j] = "none" THEN settings
                   ELSE [settings EXCEPT ![j] = original[j]]
    /\ original' = [original EXCEPT ![j] = "none"]
    /\ context' = [context EXCEPT ![j] = FALSE]
    /\ hostVsock' = [hostVsock EXCEPT ![j] = FALSE]
    /\ UNCHANGED binary

Cleanup(j) ==
    IF context[j]
    THEN /\ jail' \in {[jail EXCEPT ![IdOf[j]] = left] : left \in {"absent", "partial"}}
         /\ GiveBack(j)
    ELSE UNCHANGED <<object, settings, jail>>

RunEnd(j) ==
    /\ Finish(j, "run_end")
    /\ IF CleanupOnExit THEN Cleanup(j) ELSE UNCHANGED <<object, settings, jail>>
    /\ UNCHANGED <<vmm, shared>>

(* stop, which is also how __exit__ begins *)
Stop(j) ==
    /\ pc[j] = "idle"
    /\ vmm' = [vmm EXCEPT ![j] = "none"]
    /\ \/ UNCHANGED <<call, pc>>
       \/ /\ CleanupOnExit
          /\ pc' = [pc EXCEPT ![j] = "clean"] /\ call' = [call EXCEPT ![j] = "exit"]
    /\ UNCHANGED <<object, settings, files>>

ExitCleans(j) == /\ Finish(j, "clean") /\ Cleanup(j)
                 /\ UNCHANGED <<vmm, shared>>

UserCleans(j) == /\ pc[j] = "idle" /\ Cleanup(j)
                 /\ UNCHANGED <<vmm, call, pc, shared>>

Method(j) == \/ Prepared(j) \/ Start(j) \/ Vsock(j)
             \/ RunBegin(j) \/ RunLaunch(j) \/ RunWait(j) \/ RunEnd(j)
             \/ Stop(j) \/ ExitCleans(j) \/ UserCleans(j)

-----------------------------------------------------------------------------
ProcessExit(j) ==
    /\ vmm[j] # "none" /\ vmm' = [vmm EXCEPT ![j] = "none"]
    /\ UNCHANGED <<object, settings, call, pc, files>>

(* The program dies and is started again with a new Jailer, which may be    *)
(* configured with another binary; the directory and the shared binary stay *)
(* as they are, the old process is out of reach.                            *)
Crash(j) ==
    /\ \E b \in Binaries : binary' = [binary EXCEPT ![j] = b]
    /\ context' = [context EXCEPT ![j] = FALSE]
    /\ original' = [original EXCEPT ![j] = "none"]
    /\ hostVsock' = [hostVsock EXCEPT ![j] = FALSE]
    /\ settings' = [settings EXCEPT ![j] = "host"]
    /\ vmm' = [vmm EXCEPT ![j] = "none"]
    /\ call' = [call EXCEPT ![j] = "none"]
    /\ pc' = [pc EXCEPT ![j] = "idle"]
    /\ replaced' = [replaced EXCEPT ![j] = FALSE]
    /\ UNCHANGED <<jail, asset, overlapped>>

(* Somebody removes the directory of a Jailer that no longer exists. *)
RemoveLeftover(i) ==
    /\ jail[i] # "absent" /\ jail' = [jail EXCEPT ![i] = "absent"]
    /\ \A j \in Jailers : IdOf[j] = i => pc[j] = "idle" /\ ~context[j]
    /\ UNCHANGED <<object, vm, call, pc, shared>>

Next == \/ \E j \in Jailers : Prepare(j) \/ Method(j) \/ ProcessExit(j) \/ Crash(j)
        \/ \E i \in Jails : RemoveLeftover(i)

Spec == Init /\ [][Next]_vars

-----------------------------------------------------------------------------
TypeOK ==
    /\ binary \in [Jailers -> Binaries]
    /\ context \in [Jailers -> BOOLEAN]
    /\ original \in [Jailers -> {"none", "host", "jail"}]
    /\ hostVsock \in [Jailers -> BOOLEAN]
    /\ settings \in [Jailers -> {"host", "jail"}]
    /\ vmm \in [Jailers -> {"none", "host", "jail"}]
    /\ call \in [Jailers -> Methods]
    /\ pc \in [Jailers -> Steps]
    /\ jail \in [Jails -> {"absent", "partial", "ready"}]
    /\ asset \in Mess
    /\ overlapped \in BOOLEAN
    /\ replaced \in [Jailers -> BOOLEAN]
    /\ \A j \in Jailers : /\ pc[j] = "idle" <=> call[j] = "none"
                          /\ context[j] <=> original[j] # "none"

(* A Jailer without a context, never prepared, cleaned up or crashed, has a *)
(* VM with the caller's own settings: no number of preparations, failures   *)
(* and cleanups leaves the VM pointing into a jail that is gone.            *)
VmIsGivenBack ==
    \A j \in Jailers : ~context[j] => settings[j] = "host" /\ ~hostVsock[j]

(* A Jailer at the VM has its whole jail on disk: whatever failed before,   *)
(* a half-filled directory is never used, and nobody else's is.             *)
JailIsComplete ==
    \A j \in Jailers : context[j] => jail[IdOf[j]] = "ready"

(* A process is launched from the whole of the binary its own Jailer was    *)
(* configured with, although copies of it are cut short by errors and       *)
(* crashes, and leave others' binaries behind.  It takes two copies at the  *)
(* same time, or a Jailer with another binary that prepares between this    *)
(* one's preparation and its launch, to launch anything else.               *)
LaunchesOwnBinary ==
    [][\A j \in Jailers : vmm[j] # vmm'[j] /\ vmm'[j] = "jail"
            => asset.content = binary[j] \/ overlapped \/ replaced[j]]_vars

(* README.md:220: the Jailer isolates the guest, so what it starts runs     *)
(* inside the jail.                                                         *)
StartsInJail == \A j \in Jailers : vmm[j] # "host"

(* jailer.py:490 refuses a jail that exists already: one owner for each.    *)
OneOwner ==
    \A j, k \in Jailers : context[j] /\ context[k] /\ IdOf[j] = IdOf[k] => j = k

=============================================================================
