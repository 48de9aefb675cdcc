--------------------------- MODULE Jailer_proofs ---------------------------
(***************************************************************************)
(* Proofs about the Jailer, for any number of Jailers and jail ids.        *)
(*                                                                         *)
(* VmIsGivenBack needs that what is saved is never a jail's settings: a    *)
(* Jailer that is preparing has no context, so its VM still has the        *)
(* caller's.  JailIsComplete holds when no two Jailers share an id.  For   *)
(* LaunchesOwnBinary the copies of the shared binary are followed: until   *)
(* two of them overlap, one Jailer at a time copies, and every Jailer past *)
(* the copy found or left its own binary there, whole and stamped, until a *)
(* Jailer with another one replaces it.                                    *)
(***************************************************************************)
EXTENDS Jailer, TLAPS

(* The saved settings are the caller's; nothing is saved while preparing. *)
Saved ==
    \A j \in Jailers :
        /\ original[j] # "jail"
        /\ ~context[j] => settings[j] = "host" /\ ~hostVsock[j]
        /\ pc[j] \in Preparing => ~context[j]
        /\ pc[j] \in {"prepared", "run", "run_wait"} => context[j]

IInv == TypeOK /\ Saved

(* Past the comparison the shared binary is the Jailer's own. *)
PastCopy(j) == pc[j] \in {"mkdir", "fill"} \/ context[j]

BinaryIsFollowed ==
    ~overlapped =>
        /\ \A j \in Jailers : pc[j] = "stamp" => asset.content = binary[j]
        /\ \A j \in Jailers : PastCopy(j) =>
              (asset.content = binary[j] /\ asset.stamped) \/ replaced[j]
        /\ \A j, k \in Jailers :
              pc[j] \in {"copy", "stamp"} /\ pc[k] \in {"copy", "stamp"} => j = k
        /\ \A j \in Jailers : pc[j] \in {"copy", "stamp"} => ~asset.stamped

(* No two Jailers were given the same id. *)
IdsAreDistinct == \A j, k \in Jailers : IdOf[j] = IdOf[k] => j = k

-----------------------------------------------------------------------------
LEMMA InitIInv == Init => IInv /\ BinaryIsFollowed /\ JailIsComplete
<1> SUFFICES ASSUME Init PROVE IInv /\ BinaryIsFollowed /\ JailIsComplete
  OBVIOUS
<1> USE DEF Init, NoAsset, Mess, Methods, Steps, Preparing
<1>1. TypeOK
  BY DEF TypeOK
<1>2. Saved
  BY DEF Saved
<1>3. BinaryIsFollowed
  BY DEF BinaryIsFollowed, PastCopy
<1>4. JailIsComplete
  BY DEF JailIsComplete
<1> QED BY <1>1, <1>2, <1>3, <1>4 DEF IInv

(* What cleanup() leaves of the object, whatever rmtree left on disk. *)
LEMMA CleanupGivesBack ==
  ASSUME IInv, NEW j \in Jailers, Cleanup(j)
  PROVE  /\ context' = [context EXCEPT ![j] = FALSE]
         /\ original' = [original EXCEPT ![j] = "none"]
         /\ hostVsock' = [hostVsock EXCEPT ![j] = FALSE]
         /\ settings' = [settings EXCEPT ![j] = "host"]
         /\ jail' \in [Jails -> {"absent", "partial", "ready"}]
         /\ UNCHANGED binary
<1> USE EveryJailerHasAJail DEF IInv, TypeOK, Saved
<1>1. CASE context[j]
  <2>1. original[j] = "host"
    BY <1>1
  <2> QED BY <1>1, <2>1 DEF Cleanup, GiveBack
<1>2. CASE ~context[j]
  <2>1. original[j] = "none" /\ settings[j] = "host" /\ ~hostVsock[j]
    BY <1>2
  <2> QED BY <1>2, <2>1 DEF Cleanup, object
<1> QED BY <1>1, <1>2

LEMMA CleanupKeepsTypes ==
  ASSUME IInv, NEW j \in Jailers, Cleanup(j)
  PROVE  /\ context' \in [Jailers -> BOOLEAN]
         /\ hostVsock' \in [Jailers -> BOOLEAN]
         /\ original' \in [Jailers -> {"none", "host", "jail"}]
         /\ settings' \in [Jailers -> {"host", "jail"}]
         /\ jail' \in [Jails -> {"absent", "partial", "ready"}]
         /\ \A k \in Jailers : context'[k] <=> original'[k] # "none"
         /\ UNCHANGED binary
<1>1. /\ context \in [Jailers -> BOOLEAN] /\ hostVsock \in [Jailers -> BOOLEAN]
      /\ original \in [Jailers -> {"none", "host", "jail"}]
      /\ settings \in [Jailers -> {"host", "jail"}]
      /\ \A k \in Jailers : context[k] <=> original[k] # "none"
  BY DEF IInv, TypeOK
<1>2. context' \in [Jailers -> BOOLEAN] /\ hostVsock' \in [Jailers -> BOOLEAN]
  BY <1>1, CleanupGivesBack
<1>3. \A k \in Jailers : context'[k] <=> original'[k] # "none"
  <2> SUFFICES ASSUME NEW k \in Jailers PROVE context'[k] <=> original'[k] # "none"
    OBVIOUS
  <2>1. CASE k = j
    BY <1>1, <2>1, CleanupGivesBack
  <2>2. CASE k # j
    <3>1. context'[k] = context[k] /\ original'[k] = original[k]
      BY <1>1, <2>2, CleanupGivesBack
    <3> QED BY <1>1, <3>1
  <2> QED BY <2>1, <2>2
<1> QED BY <1>1, <1>2, <1>3, CleanupGivesBack

LEMMA UnlinkKeepsTypes ==
  ASSUME IInv, NEW j \in Jailers, Unlink(j)
  PROVE  overlapped' \in BOOLEAN /\ replaced' \in [Jailers -> BOOLEAN]
<1>1. overlapped' \in BOOLEAN
  BY Zenon DEF Unlink
<1>2. replaced' \in [Jailers -> BOOLEAN]
  BY DEF Unlink
<1> QED BY <1>1, <1>2

LEMMA NextIInv == IInv /\ [Next]_vars => IInv'
<1> SUFFICES ASSUME IInv, [Next]_vars PROVE IInv'
  OBVIOUS
<1> USE EveryJailerHasAJail DEF IInv, TypeOK, Saved, Methods, Steps, Preparing, Mess
<1>1. CASE UNCHANGED vars
  BY <1>1 DEF vars, object, vm, files, shared
<1>2. ASSUME NEW j \in Jailers, Prepare(j) PROVE IInv'
  <2> USE DEF object, vm, files, shared, Goto, Finish
  <2>1. ASSUME NEW method \in {"prepare", "start", "vsock", "run"}, Begin(j, method)
        PROVE IInv'
    BY <2>1 DEF Begin
  <2>2. CASE Compare(j)
    <3>1. CASE Unlink(j) /\ asset' = [content |-> "part", stamped |-> FALSE]
                         /\ Goto(j, "compare", "copy")
      <4>1. asset' \in Mess
        BY <3>1
      <4> QED BY <2>2, <3>1, <4>1, UnlinkKeepsTypes DEF Compare
    <3>2. CASE UNCHANGED <<asset, overlapped>> /\ Goto(j, "compare", "mkdir")
               /\ replaced' = [replaced EXCEPT ![j] = FALSE]
      BY <2>2, <3>2 DEF Compare
    <3> QED BY <2>2, <3>1, <3>2 DEF Compare
  <2>3. CASE CompareFails(j)
    BY <2>3, UnlinkKeepsTypes DEF CompareFails, NoAsset
  <2>4. CASE Copy(j)
    BY <2>4 DEF Copy
  <2>5. CASE Stamp(j)
    <3>1. asset' \in Mess
      <4>1. CASE overlapped
        BY <2>5, <4>1 DEF Stamp
      <4>2. CASE ~overlapped
        <5>1. asset' = [asset EXCEPT !.stamped = TRUE]
          BY <2>5, <4>2 DEF Stamp
        <5> QED BY <5>1
      <4> QED BY <4>1, <4>2
    <3> QED BY <2>5, <3>1 DEF Stamp
  <2>6. CASE Mkdir(j)
    BY <2>6 DEF Mkdir
  <2>7. CASE Fill(j)
    BY <2>7 DEF Fill, Apply
  <2>8. CASE PrepareFails(j)
    BY <2>8 DEF PrepareFails
  <2> QED BY <1>2, <2>1, <2>2, <2>3, <2>4, <2>5, <2>6, <2>7, <2>8 DEF Prepare
<1>3. ASSUME NEW j \in Jailers, Method(j) PROVE IInv'
  <2> USE DEF object, vm, files, shared, Goto, Finish
  <2>1. CASE Prepared(j)
    BY <2>1 DEF Prepared
  <2>2. CASE Start(j)
    BY <2>2 DEF Start, Launch
  <2>0. PrepareVsockPath(j) => /\ hostVsock' \in [Jailers -> BOOLEAN]
                               /\ \A k \in Jailers \ {j} : hostVsock'[k] = hostVsock[k]
    BY DEF PrepareVsockPath
  <2>3. CASE Vsock(j)
    BY <2>0, <2>3 DEF Vsock
  <2>4. CASE RunBegin(j)
    BY <2>0, <2>4 DEF RunBegin
  <2>5. CASE RunLaunch(j)
    BY <2>5 DEF RunLaunch, Launch
  <2>6. CASE RunWait(j)
    BY <2>6 DEF RunWait
  <2>7. CASE RunEnd(j)
    <3>1. CASE CleanupOnExit
      <4>1. Cleanup(j) /\ UNCHANGED <<vmm, shared>>
        BY <2>7, <3>1 DEF RunEnd
      <4>2. TypeOK'
        <5>1. /\ call' \in [Jailers -> Methods] /\ pc' \in [Jailers -> Steps]
              /\ \A k \in Jailers : pc'[k] = "idle" <=> call'[k] = "none"
          BY <2>7 DEF RunEnd
        <5> QED BY <4>1, <5>1, CleanupKeepsTypes
      <4>3. Saved'
        BY <2>7, <4>1, CleanupGivesBack DEF RunEnd
      <4> QED BY <4>2, <4>3
    <3>2. CASE ~CleanupOnExit
      BY <2>7, <3>2 DEF RunEnd
    <3> QED BY <3>1, <3>2
  <2>8. CASE Stop(j)
    BY <2>8 DEF Stop
  <2>9. CASE ExitCleans(j)
    <3>1. Cleanup(j) /\ UNCHANGED <<vmm, shared>>
      BY <2>9 DEF ExitCleans
    <3>2. TypeOK'
      <4>1. /\ call' \in [Jailers -> Methods] /\ pc' \in [Jailers -> Steps]
            /\ \A k \in Jailers : pc'[k] = "idle" <=> call'[k] = "none"
        BY <2>9 DEF ExitCleans
      <4> QED BY <3>1, <4>1, CleanupKeepsTypes
    <3>3. Saved'
      BY <2>9, <3>1, CleanupGivesBack DEF ExitCleans
    <3> QED BY <3>2, <3>3
  <2>10. CASE UserCleans(j)
    <3>1. Cleanup(j) /\ UNCHANGED <<vmm, shared>>
      BY <2>10 DEF UserCleans
    <3>2. TypeOK'
      <4>1. /\ call' \in [Jailers -> Methods] /\ pc' \in [Jailers -> Steps]
            /\ \A k \in Jailers : pc'[k] = "idle" <=> call'[k] = "none"
        BY <2>10 DEF UserCleans
      <4> QED BY <3>1, <4>1, CleanupKeepsTypes
    <3>3. Saved'
      BY <2>10, <3>1, CleanupGivesBack DEF UserCleans
    <3> QED BY <3>2, <3>3
  <2> QED BY <1>3, <2>1, <2>2, <2>3, <2>4, <2>5, <2>6, <2>7, <2>8, <2>9, <2>10 DEF Method
<1>4. ASSUME NEW j \in Jailers, ProcessExit(j) PROVE IInv'
  BY <1>4 DEF ProcessExit, object, files, shared
<1>5. ASSUME NEW j \in Jailers, Crash(j) PROVE IInv'
  BY <1>5 DEF Crash
<1>6. ASSUME NEW i \in Jails, RemoveLeftover(i) PROVE IInv'
  BY <1>6 DEF RemoveLeftover, object, vm, shared
<1> QED BY <1>1, <1>2, <1>3, <1>4, <1>5, <1>6 DEF Next

(* Every variable of a Jailer keeps its type, through errors and crashes.   *)
THEOREM TypeCorrect == Spec => []TypeOK
<1>1. IInv => TypeOK
  BY DEF IInv
<1> QED BY <1>1, InitIInv, NextIInv, PTL DEF Spec

(* A Jailer that holds no jail has given the caller's VM back (cleanup,     *)
(* jailer.py:412-420), however often preparing it raised.                   *)
THEOREM GivesTheVmBack == Spec => []VmIsGivenBack
<1>1. IInv => VmIsGivenBack
  BY DEF IInv, Saved, VmIsGivenBack
<1> QED BY <1>1, InitIInv, NextIInv, PTL DEF Spec

-----------------------------------------------------------------------------
(* With distinct ids nobody else empties a jail that is in use.             *)
LEMMA NextJailIsComplete ==
  ASSUME IdsAreDistinct
  PROVE  IInv /\ JailIsComplete /\ [Next]_vars => JailIsComplete'
<1> SUFFICES ASSUME IInv, JailIsComplete, [Next]_vars PROVE JailIsComplete'
  OBVIOUS
<1> USE EveryJailerHasAJail
    DEF IInv, TypeOK, Saved, Preparing, JailIsComplete, IdsAreDistinct
<1>1. CASE UNCHANGED <<context, jail>>
  BY <1>1
<1>2. ASSUME NEW j \in Jailers, Mkdir(j) PROVE JailIsComplete'
  BY <1>2 DEF Mkdir, Goto, object
<1>3. ASSUME NEW j \in Jailers, Fill(j) PROVE JailIsComplete'
  BY <1>3 DEF Fill
<1>4. ASSUME NEW j \in Jailers, Cleanup(j) PROVE JailIsComplete'
  BY <1>4 DEF Cleanup, GiveBack, object
<1>5. ASSUME NEW j \in Jailers, Crash(j) PROVE JailIsComplete'
  BY <1>5 DEF Crash
<1>6. ASSUME NEW i \in Jails, RemoveLeftover(i) PROVE JailIsComplete'
  BY <1>6 DEF RemoveLeftover, object
<1> QED
  BY <1>1, <1>2, <1>3, <1>4, <1>5, <1>6
     DEF Next, vars, object, files, shared, vm, Prepare, Method, Begin, Compare, CompareFails,
         Copy, Stamp, PrepareFails, Prepared, Start, Vsock, RunBegin, RunLaunch,
         RunWait, RunEnd, Stop, ExitCleans, UserCleans, ProcessExit

(* A half-filled or vanished jail is never at the VM, when every Jailer of  *)
(* the chroot base has an id of its own (jailer.py:489).                    *)
THEOREM JailsAreComplete ==
  ASSUME IdsAreDistinct
  PROVE  Spec => []JailIsComplete
<1>1. IInv /\ JailIsComplete /\ [Next]_vars => (IInv /\ JailIsComplete)'
  BY NextIInv, NextJailIsComplete
<1> QED BY <1>1, InitIInv, PTL DEF Spec

-----------------------------------------------------------------------------
(* What is unlinked was another Jailer's binary, or none at all. *)
LEMMA UnlinkReplaces ==
  ASSUME IInv, BinaryIsFollowed, NEW j \in Jailers, Unlink(j), ~overlapped'
  PROVE  ~overlapped /\ \A k \in Jailers \ {j} : PastCopy(k) => replaced'[k]
<1>1. ~overlapped
  BY DEF Unlink
<1>2. ASSUME NEW k \in Jailers \ {j}, PastCopy(k) PROVE replaced'[k]
  <2>1. replaced[k] \/ binary[k] # binary[j]
    BY <1>1, <1>2 DEF BinaryIsFollowed, Unlink, NeedsCopy
  <2> QED BY <2>1 DEF Unlink
<1> QED BY <1>1, <1>2

LEMMA NextBinaryIsFollowed ==
  IInv /\ BinaryIsFollowed /\ [Next]_vars => BinaryIsFollowed'
<1> SUFFICES ASSUME IInv, BinaryIsFollowed, [Next]_vars, ~overlapped'
             PROVE  BinaryIsFollowed'
  BY DEF BinaryIsFollowed
<1> USE DEF IInv, TypeOK, Saved, Preparing, Steps, Mess, BinaryIsFollowed, PastCopy
<1>1. ASSUME UNCHANGED <<binary, shared>>,
             \A k \in Jailers : /\ pc'[k] \in {"copy", "stamp"} => pc'[k] = pc[k]
                                /\ PastCopy(k)' => PastCopy(k)
      PROVE  BinaryIsFollowed'
  BY <1>1 DEF shared
<1>2. CASE UNCHANGED vars
  BY <1>1, <1>2 DEF vars, object, files, shared
<1>3. ASSUME NEW j \in Jailers, Prepare(j) PROVE BinaryIsFollowed'
  <2> USE DEF object, vm, files, shared, Goto, Finish
  <2>1. ASSUME NEW method \in {"prepare", "start", "vsock", "run"}, Begin(j, method)
        PROVE BinaryIsFollowed'
    BY <1>1, <2>1 DEF Begin
  <2>2. CASE Compare(j)
    <3>1. CASE Unlink(j) /\ pc' = [pc EXCEPT ![j] = "copy"]
               /\ asset' = [content |-> "part", stamped |-> FALSE]
      <4>1. ~overlapped /\ \A k \in Jailers \ {j} : PastCopy(k) => replaced'[k]
        BY <3>1, UnlinkReplaces
      <4>2. \A k \in Jailers \ {j} : pc[k] \notin {"copy", "stamp"}
        BY <3>1 DEF Unlink, OthersCopy
      <4>3. UNCHANGED <<binary, context>> /\ ~context[j]
        BY <2>2 DEF Compare
      <4> QED BY <3>1, <4>1, <4>2, <4>3
    <3>2. CASE ~NeedsCopy(j) /\ pc' = [pc EXCEPT ![j] = "mkdir"]
               /\ replaced' = [replaced EXCEPT ![j] = FALSE]
               /\ UNCHANGED <<asset, overlapped>>
      <4>1. UNCHANGED <<binary, context>>
        BY <2>2 DEF Compare
      <4> QED BY <3>2, <4>1 DEF NeedsCopy
    <3> QED BY <2>2, <3>1, <3>2 DEF Compare
  <2>3. CASE CompareFails(j)
    <3>1. ~overlapped /\ \A k \in Jailers \ {j} : PastCopy(k) => replaced'[k]
      BY <2>3, UnlinkReplaces DEF CompareFails
    <3>2. /\ asset' = [content |-> "none", stamped |-> FALSE]
          /\ pc' = [pc EXCEPT ![j] = "idle"] /\ UNCHANGED <<binary, context>>
          /\ ~context[j]
      BY <2>3 DEF CompareFails, NoAsset
    <3>3. \A k \in Jailers \ {j} : pc[k] \notin {"copy", "stamp"}
      BY <2>3 DEF CompareFails, Unlink, OthersCopy
    <3> QED BY <3>1, <3>2, <3>3
  <2>4. CASE Copy(j)
    BY <2>4 DEF Copy
  <2>5. CASE Stamp(j)
    BY <2>5 DEF Stamp
  <2>6. CASE Mkdir(j)
    BY <1>1, <2>6 DEF Mkdir
  <2>7. CASE Fill(j)
    BY <1>1, <2>7 DEF Fill, Apply
  <2>8. CASE PrepareFails(j)
    BY <1>1, <2>8 DEF PrepareFails
  <2> QED BY <1>3, <2>1, <2>2, <2>3, <2>4, <2>5, <2>6, <2>7, <2>8 DEF Prepare
<1>4. ASSUME NEW j \in Jailers, Method(j) PROVE BinaryIsFollowed'
  <2>1. /\ UNCHANGED <<binary, shared>>
        /\ \A k \in Jailers : context'[k] => context[k]
        /\ \A k \in Jailers : pc'[k] = pc[k] \/ pc'[k] \notin Preparing
    BY <1>4 DEF Method, Prepared, Start, Vsock, RunBegin, RunLaunch, RunWait, RunEnd,
                Stop, ExitCleans, UserCleans, Cleanup, GiveBack, object, vm, files, shared,
                Goto, Finish
  <2> QED BY <1>1, <2>1
<1>5. ASSUME NEW j \in Jailers, ProcessExit(j) PROVE BinaryIsFollowed'
  BY <1>1, <1>5 DEF ProcessExit, object, files, shared
<1>6. ASSUME NEW j \in Jailers, Crash(j) PROVE BinaryIsFollowed'
  <2>1. /\ UNCHANGED <<asset, overlapped>>
        /\ pc' = [pc EXCEPT ![j] = "idle"] /\ context' = [context EXCEPT ![j] = FALSE]
        /\ \A k \in Jailers \ {j} : binary'[k] = binary[k] /\ replaced'[k] = replaced[k]
    BY <1>6 DEF Crash
  <2> QED BY <2>1
<1>7. ASSUME NEW i \in Jails, RemoveLeftover(i) PROVE BinaryIsFollowed'
  BY <1>1, <1>7 DEF RemoveLeftover, object, vm, shared
<1> QED BY <1>2, <1>3, <1>4, <1>5, <1>6, <1>7 DEF Next

LEMMA LaunchIsOwn ==
  IInv /\ BinaryIsFollowed /\ [Next]_vars =>
    [\A j \in Jailers : vmm[j] # vmm'[j] /\ vmm'[j] = "jail"
          => asset.content = binary[j] \/ overlapped \/ replaced[j]]_vars
<1> SUFFICES ASSUME IInv, BinaryIsFollowed, Next, NEW j \in Jailers,
                    vmm[j] # vmm'[j], vmm'[j] = "jail"
             PROVE  asset.content = binary[j] \/ overlapped \/ replaced[j]
  OBVIOUS
<1>1. PICK k \in Jailers : Launch(k) /\ pc[k] \in {"prepared", "run"}
  BY DEF IInv, TypeOK, Next, Prepare, Method, Begin, Compare, CompareFails, Copy,
         Stamp, Mkdir, Fill, PrepareFails, Prepared, Start, Vsock, RunBegin,
         RunLaunch, RunWait, RunEnd, Stop, ExitCleans, UserCleans, ProcessExit,
         Crash, RemoveLeftover, vm, Goto, Finish
<1>2. k = j
  BY <1>1 DEF Launch, IInv, TypeOK
<1> QED BY <1>1, <1>2 DEF IInv, Saved, BinaryIsFollowed, PastCopy

(* Errors and crashes in the middle of _sync_shared_asset (jailer.py:53),   *)
(* and what other Jailers left there, never lead to a launch of half a      *)
(* binary or of another one, for any Jailers and binaries: that takes two   *)
(* copies at the same time, or another binary's after this one's.           *)
THEOREM BinaryIsOwn == Spec => LaunchesOwnBinary
<1>1. IInv /\ BinaryIsFollowed /\ [Next]_vars => (IInv /\ BinaryIsFollowed)'
  BY NextIInv, NextBinaryIsFollowed
<1> QED BY <1>1, InitIInv, LaunchIsOwn, PTL DEF Spec, LaunchesOwnBinary

-----------------------------------------------------------------------------
(* A process outside the jail (MCJailerRetry) takes a lookup that failed:   *)
(* as long as _apply_jail_context finds the jailer binary, the VM of a      *)
(* Jailer with a context points into its jail.                              *)
LookupSucceeds ==
    \A j \in Jailers : pc[j] = "fill" /\ context'[j] => pc'[j] = "prepared"

VmIsRepointed == \A j \in Jailers : context[j] => settings[j] = "jail"

JailedInv == VmIsRepointed /\ StartsInJail

LEMMA NextJailedInv ==
    IInv /\ JailedInv /\ [Next]_vars /\ [LookupSucceeds]_vars => JailedInv'
<1> SUFFICES ASSUME IInv, JailedInv, [Next]_vars, [LookupSucceeds]_vars PROVE JailedInv'
  OBVIOUS
<1> USE EveryJailerHasAJail
    DEF IInv, TypeOK, Saved, Preparing, JailedInv, VmIsRepointed, StartsInJail
<1>1. CASE UNCHANGED <<context, settings, vmm>>
  BY <1>1
<1>2. ASSUME NEW j \in Jailers, Fill(j) PROVE JailedInv'
  <2>1. pc'[j] = "prepared"
    BY <1>2 DEF LookupSucceeds, Fill, Apply, Finish, Goto, vars
  <2>2. settings' = [settings EXCEPT ![j] = "jail"] /\ UNCHANGED vmm
    BY <1>2, <2>1 DEF Fill, Apply, Finish, Goto
  <2> QED BY <1>2, <2>2 DEF Fill
<1>3. ASSUME NEW j \in Jailers, Cleanup(j), UNCHANGED vmm PROVE JailedInv'
  BY <1>3, CleanupGivesBack
<1>4. ASSUME NEW j \in Jailers, Start(j) \/ RunLaunch(j) PROVE JailedInv'
  <2>1. context[j] /\ UNCHANGED <<context, settings>>
    BY <1>4 DEF Start, RunLaunch, Finish, Goto, object
  <2>2. \A k \in Jailers : vmm'[k] \in {vmm[k], "none", settings[k]}
    BY <1>4 DEF Start, RunLaunch, Launch
  <2>3. \A k \in Jailers : vmm'[k] = vmm[k] \/ vmm'[k] = "none" \/ k = j
    BY <1>4 DEF Start, RunLaunch, Launch
  <2> QED BY <2>1, <2>2, <2>3
<1>5. ASSUME NEW j \in Jailers, Crash(j) PROVE JailedInv'
  BY <1>5 DEF Crash
<1>6. ASSUME UNCHANGED <<context, settings>>,
             \A k \in Jailers : vmm'[k] \in {vmm[k], "none"}
      PROVE  JailedInv'
  BY <1>6
<1>7. ASSUME NEW j \in Jailers, RunWait(j) \/ Stop(j) \/ ProcessExit(j) PROVE JailedInv'
  BY <1>6, <1>7 DEF RunWait, Stop, ProcessExit, object
<1>8. ASSUME NEW j \in Jailers, Prepare(j) PROVE JailedInv'
  BY <1>1, <1>2, <1>8 DEF Prepare, Begin, Compare, CompareFails, Copy, Stamp, Mkdir,
        PrepareFails, object, vm
<1>9. ASSUME NEW j \in Jailers, Method(j) PROVE JailedInv'
  BY <1>1, <1>3, <1>4, <1>7, <1>9 DEF Method, Prepared, Vsock, RunBegin, RunEnd,
        ExitCleans, UserCleans, object, vm
<1>10. ASSUME NEW i \in Jails, RemoveLeftover(i) PROVE JailedInv'
  BY <1>1, <1>10 DEF RemoveLeftover, object, vm, shared
<1> QED BY <1>1, <1>5, <1>7, <1>8, <1>9, <1>10 DEF Next, vars, object, vm

(* README.md:220 holds of every process a Jailer launches unless the jailer *)
(* binary could not be found once: after errors anywhere else in preparing, *)
(* through retries, cleanups and crashes, what runs, runs in the jail.      *)
THEOREM LaunchesAreJailed == Spec /\ [][LookupSucceeds]_vars => []StartsInJail
<1>1. Init => JailedInv
  BY DEF Init, JailedInv, VmIsRepointed, StartsInJail
<1>2. JailedInv => StartsInJail
  BY DEF JailedInv
<1> QED BY <1>1, <1>2, InitIInv, NextIInv, NextJailedInv, PTL DEF Spec

-----------------------------------------------------------------------------
(* Sharing an id (MCJailerRace) does harm only when the two prepare at the  *)
(* same time: if not, the second one finds the directory and is refused.    *)
PreparingAlone ==
    \A j, k \in Jailers :
        pc[j] \in Preparing /\ pc[k] \in Preparing /\ IdOf[j] = IdOf[k] => j = k

(* Who prepares a jail began when there was none: nobody owns it. *)
PreparedIsFree ==
    \A j, k \in Jailers : pc[j] \in Preparing /\ IdOf[j] = IdOf[k] => ~context[k]

OwnerInv == JailIsComplete /\ OneOwner /\ PreparedIsFree

LEMMA NextOwnerInv ==
    IInv /\ OwnerInv /\ [Next]_vars /\ PreparingAlone => OwnerInv'
<1> SUFFICES ASSUME IInv, OwnerInv, [Next]_vars, PreparingAlone PROVE OwnerInv'
  OBVIOUS
<1> USE EveryJailerHasAJail
    DEF IInv, TypeOK, Saved, Preparing, OwnerInv, JailIsComplete, OneOwner, PreparedIsFree
<1>1. ASSUME UNCHANGED <<context, jail>>,
             \A k \in Jailers : pc'[k] \in Preparing => pc[k] \in Preparing
      PROVE  OwnerInv'
  BY <1>1
<1>2. ASSUME NEW j \in Jailers, NEW method, Begin(j, method) PROVE OwnerInv'
  BY <1>2 DEF Begin, object, files, shared
<1>3. ASSUME NEW j \in Jailers, Mkdir(j) PROVE OwnerInv'
  BY <1>3 DEF Mkdir, Goto, object
<1>4. ASSUME NEW j \in Jailers, Fill(j) PROVE OwnerInv'
  <2>1. /\ context' = [context EXCEPT ![j] = TRUE]
        /\ jail' = [jail EXCEPT ![IdOf[j]] = "ready"]
        /\ pc[j] = "fill" /\ pc' \in {[pc EXCEPT ![j] = "idle"], [pc EXCEPT ![j] = "prepared"]}
    BY <1>4 DEF Fill, Apply, Finish, Goto
  <2>2. \A k \in Jailers \ {j} : IdOf[k] = IdOf[j] => ~context[k] /\ pc[k] \notin Preparing
    BY <2>1 DEF PreparingAlone
  <2> QED BY <2>1, <2>2
<1>5. ASSUME NEW j \in Jailers, Cleanup(j),
             \A k \in Jailers : pc'[k] \in Preparing => pc[k] \in Preparing
      PROVE  OwnerInv'
  BY <1>5 DEF Cleanup, GiveBack, object
<1>6. ASSUME NEW j \in Jailers, Crash(j) PROVE OwnerInv'
  BY <1>6 DEF Crash
<1>7. ASSUME NEW i \in Jails, RemoveLeftover(i) PROVE OwnerInv'
  BY <1>7 DEF RemoveLeftover, object
<1>8. ASSUME NEW j \in Jailers, Prepare(j) PROVE OwnerInv'
  <2> USE DEF object, files, shared, Goto, Finish
  <2>1. CASE Compare(j) \/ CompareFails(j) \/ Copy(j) \/ Stamp(j) \/ PrepareFails(j)
    BY <1>1, <2>1 DEF Compare, CompareFails, Copy, Stamp, PrepareFails
  <2> QED BY <1>2, <1>3, <1>4, <1>8, <2>1 DEF Prepare
<1>9. ASSUME NEW j \in Jailers, Method(j) PROVE OwnerInv'
  <2>1. \A k \in Jailers : pc'[k] \in Preparing => pc[k] \in Preparing
    BY <1>9 DEF Method, Prepared, Start, Vsock, RunBegin, RunLaunch, RunWait, RunEnd,
                Stop, ExitCleans, UserCleans, Goto, Finish
  <2>2. Cleanup(j) \/ UNCHANGED <<context, jail>>
    BY <1>9 DEF Method, Prepared, Start, Vsock, RunBegin, RunLaunch, RunWait, RunEnd,
                Stop, ExitCleans, UserCleans, object, files, shared
  <2> QED BY <1>1, <1>5, <2>1, <2>2
<1>10. ASSUME NEW j \in Jailers, ProcessExit(j) PROVE OwnerInv'
  BY <1>1, <1>10 DEF ProcessExit, object, files, shared
<1>11. CASE UNCHANGED vars
  BY <1>1, <1>11 DEF vars, object, files, shared
<1> QED BY <1>6, <1>7, <1>8, <1>9, <1>10, <1>11 DEF Next

(* The check for an existing directory (jailer.py:489) gives each jail one  *)
(* owner, who has it whole, for any assignment of ids, while Jailers of the *)
(* same id do not prepare at the same time.                                 *)
THEOREM JailsHaveOneOwner == Spec /\ []PreparingAlone => [](OneOwner /\ JailIsComplete)
<1>1. Init => OwnerInv
  BY InitIInv DEF Init, OwnerInv, JailIsComplete, OneOwner, PreparedIsFree, Preparing
<1>2. OwnerInv => OneOwner /\ JailIsComplete
  BY DEF OwnerInv
<1> QED BY <1>1, <1>2, InitIInv, NextIInv, NextOwnerInv, PTL DEF Spec

=============================================================================
