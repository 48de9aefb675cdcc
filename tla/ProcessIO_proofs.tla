-------------------------- MODULE ProcessIO_proofs --------------------------
(* What the threads of a ProcessManager can do to each other, and that      *)
(* stop() comes back, for any number of callers, streams, starts and chunks.*)
EXTENDS ProcessIO, TLAPS

(* Steps of callers and of readers, by what they can change. *)
CallerStep(c) == Calls(c) \/ Starting(c) \/ Stopping(c) \/ Finishing(c)
ReaderStep(r) == Reading(r) \/ Write(r) \/ PipeCloses(r)

LEMMA NextCases ==
    ASSUME [Next]_vars
    PROVE  \/ \E c \in Callers : CallerStep(c)
           \/ \E r \in Readers : ReaderStep(r)
           \/ ProcessExit
           \/ UNCHANGED vars
  BY DEF Next, CallerStep, ReaderStep

Places == {"idle", "wait"} \cup StartSteps \cup StopSteps \cup FinishSteps

LEMMA InitTypeOK == Init => TypeOK
<1> SUFFICES ASSUME Init PROVE TypeOK OBVIOUS
<1>1. 0 \in 0..MaxStarts /\ 0 \in 0..MaxChunks
  BY BoundsAreNaturals
<1>2. <<>> \in Seq(Starts)
  OBVIOUS
<1>. QED BY <1>1, <1>2 DEF Init, TypeOK

-----------------------------------------------------------------------------
(* Types: first of what every step of a caller sets, then of the rest. *)

LEMMA PlacesAre ==
    /\ "idle" \in Places /\ "wait" \in Places /\ "reset" \in Places /\ "open" \in Places
    /\ "popen" \in Places /\ "spawn" \in Places /\ "terminate" \in Places
    /\ "reap" \in Places /\ "reaping" \in Places /\ "kill" \in Places
    /\ "await" \in Places /\ "awaiting" \in Places /\ "join" \in Places
    /\ "joining" \in Places /\ "test" \in Places /\ "close" \in Places
    /\ "clear" \in Places /\ "failed" \in Places
  BY DEF Places, StartSteps, StopSteps, FinishSteps

(* What a step of a caller keeps of the callers' types. *)
CallersOK ==
    /\ at \in [Callers -> Places]
    /\ target \in [Callers -> 0..MaxStarts]
    /\ called \in [Callers -> 0..MaxStarts]
    /\ overlapped \in BOOLEAN

RestOK ==
    /\ proc \in 0..MaxStarts /\ list \in 0..MaxStarts
    /\ log \in {"none", "open", "closed"}
    /\ logLock \in Readers \cup {NoReader}
    /\ reader \in [Readers -> {"none", "read", "check", "write", "flush", "done", "failed"}]
    /\ chunks \in [Readers -> Seq(Starts)]
    /\ running \subseteq Starts
    /\ open \subseteq Readers
    /\ written \in [Readers -> 0..MaxChunks]
    /\ left \subseteq Readers

LEMMA TypeParts == TypeOK <=> CallersOK /\ RestOK
  BY DEF TypeOK, CallersOK, RestOK, Places

LEMMA TypePartsNext == TypeOK' <=> CallersOK' /\ RestOK'
  BY DEF TypeOK, CallersOK, RestOK, Places

LEMMA GoTypes ==
    ASSUME CallersOK, NEW c \in Callers, NEW from, NEW to \in Places, Go(c, from, to),
           \/ UNCHANGED target
           \/ \E n \in 0..MaxStarts : target' = [target EXCEPT ![c] = n]
    PROVE  CallersOK'
  BY DEF CallersOK, Go

LEMMA ReturnTypes ==
    ASSUME CallersOK, NEW c \in Callers, NEW from, Return(c, from)
    PROVE  CallersOK'
<1>1. 0 \in 0..MaxStarts BY BoundsAreNaturals
<1>. QED BY <1>1, PlacesAre DEF CallersOK, Return

LEMMA EnterTypes ==
    ASSUME CallersOK, RestOK, NEW c \in Callers, NEW first \in Places,
           NEW n \in 0..MaxStarts, Enter(c, first, n)
    PROVE  CallersOK'
<1>1. proc \in 0..MaxStarts BY DEF RestOK
<1>. QED BY <1>1 DEF CallersOK, Enter

(* One call of start() at a time, and what has been counted and made at    *)
(* each of its steps.                                                       *)
StartsInTurn ==
    /\ proc <= list
    /\ \A c, d \in Callers : at[c] \in StartSteps /\ at[d] \in StartSteps => c = d
    /\ \A c \in Callers :
        /\ at[c] = "reset" => list < MaxStarts
        /\ at[c] \in {"open", "popen"} => proc < list
        /\ at[c] = "spawn" => proc = list

LEMMA CallerTypes ==
    ASSUME TypeOK, StartsInTurn, NEW c \in Callers, CallerStep(c)
    PROVE  TypeOK'
<1>1. CallersOK /\ RestOK
  BY TypeParts
<1>2. 0 \in 0..MaxStarts /\ proc \in 0..MaxStarts /\ list \in 0..MaxStarts
  BY <1>1, BoundsAreNaturals DEF RestOK
<1> SUFFICES CallersOK' /\ RestOK'
  BY TypePartsNext
<1>3. CASE Calls(c)
  <2>1. CASE NotStarted(c)
    BY <2>1, <1>1 DEF NotStarted, vars, CallersOK, RestOK, object, callers, readers, world
  <2>2. CASE StartCall(c) \/ WaitCall(c) \/ StopCall(c)
    <3>1. PICK first \in Places, n \in 0..MaxStarts : Enter(c, first, n)
      BY <2>2, <1>2, PlacesAre DEF StartCall, WaitCall, StopCall
    <3>. QED BY <3>1, <2>2, <1>1, EnterTypes
             DEF StartCall, WaitCall, StopCall, RestOK, object, readers, world
  <2>3. CASE Waited(c) \/ WaitTimeout(c)
    BY <2>3, <1>1, GoTypes, ReturnTypes, PlacesAre
       DEF Waited, WaitTimeout, Move, RestOK, object, readers, world
  <2>. QED BY <1>3, <2>1, <2>2, <2>3 DEF Calls
<1>4. CASE Starting(c)
  <2>1. CASE StartReset(c)
    <3>1. list + 1 \in 0..MaxStarts
      BY <2>1, <1>2, BoundsAreNaturals DEF StartReset, StartsInTurn, Move, Go
    <3>. QED BY <3>1, <2>1, <1>1, GoTypes, PlacesAre DEF StartReset, Move, RestOK, readers, world
  <2>2. CASE StartOpen(c)
    BY <2>2, <1>1, GoTypes, ReturnTypes, PlacesAre DEF StartOpen, Move, RestOK, readers, world
  <2>3. CASE StartPopen(c)
    <3>1. list \in Starts
      BY <2>3, <1>2, BoundsAreNaturals DEF StartPopen, StartsInTurn, Move, Go, Starts
    <3>2. CallersOK'
      BY <2>3, <1>1, <1>2, GoTypes, PlacesAre DEF StartPopen, Move
    <3>3. RestOK'
      BY <2>3, <1>1, <3>1 DEF StartPopen, RestOK, readers, Readers
    <3>. QED BY <3>2, <3>3
  <2>4. CASE StartReaders(c)
    BY <2>4, <1>1, ReturnTypes DEF StartReaders, RestOK, object, world
  <2>. QED BY <1>4, <2>1, <2>2, <2>3, <2>4 DEF Starting
<1>5. CASE Stopping(c)
  <2>1. CallersOK'
    BY <1>5, <1>1, <1>2, GoTypes, PlacesAre
       DEF Stopping, Terminate, Reap, Reaped, ReapTimeout, Kill, Await, Awaited, Move
  <2>2. RestOK'
    BY <1>5, <1>1
       DEF Stopping, Terminate, Reap, Reaped, ReapTimeout, Kill, Await, Awaited, RestOK, object, readers, world
  <2>. QED BY <2>1, <2>2
<1>6. CASE Finishing(c)
  <2>1. CallersOK'
    BY <1>6, <1>1, <1>2, GoTypes, ReturnTypes, PlacesAre
       DEF Finishing, Join, JoinEnds, CloseTest, CloseFails, CloseLog, ClearLog, Recover, Move
  <2>2. RestOK'
    BY <1>6, <1>1
       DEF Finishing, Join, JoinEnds, CloseTest, CloseFails, CloseLog, ClearLog, Recover,
           Joined, RestOK, object, readers, world
  <2>. QED BY <2>1, <2>2
<1>. QED BY <1>3, <1>4, <1>5, <1>6 DEF CallerStep

LEMMA ReaderTypes ==
    ASSUME TypeOK, NEW r \in Readers, ReaderStep(r)
    PROVE  TypeOK'
<1> USE BoundsAreNaturals DEF TypeOK, object, callers, readers, world, Advance
<1>1. CASE Read(r) BY <1>1 DEF Read, Readers
<1>2. CASE ReadEnd(r) \/ ReadCheck(r) BY <1>2 DEF ReadEnd, ReadCheck
<1>3. CASE LogWrite(r)
  <2>1. CASE log = "open" BY <1>3, <2>1 DEF LogWrite
  <2>2. CASE log # "open" BY <1>3, <2>2 DEF LogWrite
  <2>. QED BY <2>1, <2>2
<1>5. CASE LogFlush(r) BY <1>5 DEF LogFlush
<1>4. CASE Write(r)
  <2>1. written[r] + 1 \in 0..MaxChunks BY <1>4 DEF Write
  <2>2. written' \in [Readers -> 0..MaxChunks] BY <2>1, <1>4 DEF Write
  <2>. QED BY <2>2, <1>4 DEF Write
<1>6. CASE PipeCloses(r) BY <1>6 DEF PipeCloses
<1>. QED BY <1>1, <1>2, <1>3, <1>4, <1>5, <1>6 DEF ReaderStep, Reading

LEMMA NextTypeOK ==
    ASSUME TypeOK, StartsInTurn, [Next]_vars
    PROVE  TypeOK'
<1>1. CASE ProcessExit BY <1>1 DEF ProcessExit, TypeOK, object, callers, readers
<1>2. CASE UNCHANGED vars
  BY <1>2 DEF vars, TypeOK, object, callers, readers, world
<1>. QED BY <1>1, <1>2, CallerTypes, ReaderTypes, NextCases

(* Readers and the world leave the calls alone. *)
LEMMA OthersLeaveCalls ==
    ASSUME [Next]_vars, \A c \in Callers : ~CallerStep(c)
    PROVE  UNCHANGED <<object, callers>> /\ running' \subseteq running
  BY NextCases
     DEF ReaderStep, Reading, Read, ReadEnd, ReadCheck, LogWrite, LogFlush, Write,
         PipeCloses, ProcessExit, vars, world

LEMMA NextStartsInTurn ==
    ASSUME TypeOK, StartsInTurn, [Next]_vars
    PROVE  StartsInTurn'
<1>1. CASE \A c \in Callers : ~CallerStep(c)
  BY <1>1, OthersLeaveCalls DEF StartsInTurn, object, callers
<1>2. ASSUME NEW c \in Callers, CallerStep(c) PROVE StartsInTurn'
  <2>0. /\ proc \in Nat /\ list \in Nat /\ MaxStarts \in Nat
        /\ at \in [Callers -> Places]
    BY BoundsAreNaturals DEF TypeOK, Places
  <2>1. CASE Calls(c)
    <3>1. CASE StartCall(c)
      BY <3>1, <2>0 DEF StartCall, Enter, StartsInTurn, StartSteps, object
    <3>2. CASE ~StartCall(c)
      BY <3>2, <2>0, <2>1
         DEF Calls, NotStarted, WaitCall, StopCall, Waited, WaitTimeout, Enter, Move, Go,
             Return, StartsInTurn, StartSteps, object, vars, callers
    <3>. QED BY <3>1, <3>2
  <2>2. CASE Starting(c)
    <3>1. CASE StartReset(c)
      BY <3>1, <2>0 DEF StartReset, Move, Go, StartsInTurn, StartSteps
    <3>2. CASE StartOpen(c)
      BY <3>2, <2>0 DEF StartOpen, Move, Go, Return, StartsInTurn, StartSteps
    <3>3. CASE StartPopen(c)
      BY <3>3, <2>0 DEF StartPopen, Move, Go, StartsInTurn, StartSteps
    <3>4. CASE StartReaders(c)
      BY <3>4, <2>0 DEF StartReaders, Return, StartsInTurn, StartSteps, object
    <3>. QED BY <2>2, <3>1, <3>2, <3>3, <3>4 DEF Starting
  <2>3. CASE Stopping(c) \/ Finishing(c)
    BY <2>3, <2>0
       DEF Stopping, Terminate, Reap, Reaped, ReapTimeout, Kill, Await, Awaited, Finishing, Join, JoinEnds,
           CloseTest, CloseFails, CloseLog, ClearLog, Recover, Move, Go, Return,
           StartsInTurn, StartSteps, object
  <2>. QED BY <1>2, <2>1, <2>2, <2>3 DEF CallerStep
<1>. QED BY <1>1, <1>2

LEMMA TypesAndStarts == Spec => [](TypeOK /\ StartsInTurn)
<1>1. Init => StartsInTurn
  BY DEF Init, StartsInTurn, StartSteps
<1>. QED BY <1>1, InitTypeOK, NextTypeOK, NextStartsInTurn, PTL DEF Spec

(* The variables keep their types. *)
THEOREM TypeCorrect == Spec => []TypeOK
  BY TypesAndStarts, PTL

-----------------------------------------------------------------------------
(* What stop() kills. *)

StopInv ==
    \A c \in Callers :
        /\ at[c] \in {"reset", "open", "popen"} => proc \notin running
        /\ at[c] \in {"idle", "wait"} \cup StartSteps => called[c] = 0
        /\ called[c] <= proc
        /\ at[c] \in {"await", "awaiting"} \cup FinishSteps => called[c] \notin running
        /\ at[c] \in {"terminate", "reap", "kill"} => called[c] = proc \/ called[c] \notin running
        /\ at[c] = "reaping" => \/ called[c] = proc /\ target[c] = called[c]
                               \/ called[c] \notin running

LEMMA NextStopInv ==
    ASSUME TypeOK, StartsInTurn, StopInv, [Next]_vars
    PROVE  StopInv'
<1>0. /\ proc \in Nat /\ list \in Nat /\ running \subseteq Starts /\ 0 \notin running
      /\ at \in [Callers -> Places] /\ target \in [Callers -> Nat]
      /\ called \in [Callers -> Nat]
  BY BoundsAreNaturals DEF TypeOK, Places, Starts
<1>1. CASE \A c \in Callers : ~CallerStep(c)
  BY <1>1, OthersLeaveCalls DEF StopInv, object, callers
<1>2. ASSUME NEW c \in Callers, CallerStep(c) PROVE StopInv'
  <2>1. CASE Calls(c)
    <3>1. CASE StartCall(c)
      BY <3>1, <1>0 DEF StartCall, Enter, StopInv, StartSteps, FinishSteps, object, world
    <3>2. CASE WaitCall(c)
      BY <3>2, <1>0 DEF WaitCall, Enter, StopInv, StartSteps, FinishSteps, object, world
    <3>3. CASE StopCall(c)
      BY <3>3, <1>0 DEF StopCall, Enter, StopInv, StartSteps, FinishSteps, object, world
    <3>4. CASE NotStarted(c) \/ Waited(c) \/ WaitTimeout(c)
      BY <3>4, <1>0
         DEF NotStarted, Waited, WaitTimeout, Move, Go, Return, StopInv, StartSteps,
             FinishSteps, object, world, vars, callers
    <3>. QED BY <2>1, <3>1, <3>2, <3>3, <3>4 DEF Calls
  <2>2. CASE Starting(c)
    <3>1. CASE StartReset(c) \/ StartOpen(c) \/ StartReaders(c)
      BY <3>1, <1>0
         DEF StartReset, StartOpen, StartReaders, Move, Go, Return, StopInv, StartSteps,
             FinishSteps, object, world
    <3>2. CASE StartPopen(c)
      <4>1. CASE UNCHANGED <<proc, running>>
        BY <3>2, <4>1, <1>0 DEF StartPopen, Move, Go, StopInv, StartSteps, FinishSteps
      <4>2. CASE /\ Move(c, "popen", "spawn")
                 /\ proc' = list /\ running' = running \cup {list}
        <5>1. proc < list /\ proc \notin running
          BY <4>2, <1>0 DEF Move, Go, StartsInTurn, StopInv
        <5>2. \A d \in Callers : called'[d] = called[d] /\ called[d] <= proc /\ called[d] # list
          BY <4>2, <5>1, <1>0 DEF Move, Go, StopInv
        <5>3. \A d \in Callers : called[d] \notin running => called[d] \notin running'
          BY <5>2, <4>2
        <5>4. \A d \in Callers \ {c} : at'[d] = at[d] /\ at[d] \notin StartSteps
          BY <4>2, <1>0 DEF Move, Go, StartsInTurn, StartSteps
        <5>5. at'[c] = "spawn" /\ called[c] = 0 /\ UNCHANGED target
          BY <4>2, <1>0 DEF Move, Go, StopInv, StartSteps
        <5>. QED BY <5>1, <5>2, <5>3, <5>4, <5>5, <4>2, <1>0 DEF StopInv, StartSteps, FinishSteps
      <4>. QED BY <3>2, <4>1, <4>2 DEF StartPopen
    <3>. QED BY <2>2, <3>1, <3>2 DEF Starting
  <2>3. CASE Stopping(c)
    BY <2>3, <1>0
       DEF Stopping, Terminate, Reap, Reaped, ReapTimeout, Kill, Await, Awaited, Move, Go, StopInv,
           StartSteps, FinishSteps, object, world
  <2>4. CASE Finishing(c)
    BY <2>4, <1>0
       DEF Finishing, Join, JoinEnds, CloseTest, CloseFails, CloseLog, ClearLog, Recover,
           Move, Go, Return, StopInv, StartSteps, FinishSteps, object, world
  <2>. QED BY <1>2, <2>1, <2>2, <2>3, <2>4 DEF CallerStep
<1>. QED BY <1>1, <1>2

LEMMA InitStopInv == Init => StopInv
<1> SUFFICES ASSUME Init PROVE StopInv
  OBVIOUS
<1>1. \A c \in Callers : at[c] = "idle" /\ called[c] = 0
  BY DEF Init
<1>2. proc = 0 /\ running = {} /\ 0 <= 0
  BY DEF Init
<1>3. "idle" \notin FinishSteps
  BY DEF FinishSteps
<1>. QED BY <1>1, <1>2, <1>3 DEF StopInv

LEMMA StopInvHolds == Spec => []StopInv
  BY InitStopInv, TypesAndStarts, NextStopInv, PTL DEF Spec

(* When stop() is over, the process it was called for is dead. *)
LEMMA StepsThatEndStop ==
    ASSUME TypeOK, StopInv, [Next]_vars, NEW c \in Callers, called[c] # 0, called'[c] = 0
    PROVE  called[c] \notin running'
<1>1. PICK d \in Callers : CallerStep(d)
  BY OthersLeaveCalls DEF callers
<1>2. called \in [Callers -> Nat] /\ at \in [Callers -> Places]
  BY BoundsAreNaturals DEF TypeOK, Places
<1>3. CASE NotStarted(d) \/ StartCall(d) \/ WaitCall(d) \/ StopCall(d)
  BY <1>3, <1>2 DEF NotStarted, StartCall, WaitCall, StopCall, Enter, StopInv, vars, callers
<1>4. CASE Starting(d)
  BY <1>4, <1>2
     DEF Starting, StartReset, StartOpen, StartPopen, StartReaders, Move, Go, Return, StopInv,
         StartSteps
<1>5. CASE Waited(d) \/ Stopping(d)
  BY <1>5, <1>2 DEF Waited, Stopping, Terminate, Reap, Reaped, ReapTimeout, Kill, Await, Awaited, Move, Go
<1>6. CASE WaitTimeout(d) \/ Finishing(d)
  BY <1>6, <1>2
     DEF WaitTimeout, Finishing, Join, JoinEnds, CloseTest, CloseFails, CloseLog, ClearLog,
         Recover, Move, Go, Return, StopInv, StartSteps, FinishSteps, world
<1>. QED BY <1>1, <1>3, <1>4, <1>5, <1>6 DEF CallerStep, Calls

(* stop() kills the process it was called for, whatever other calls do. *)
THEOREM StopsKill == Spec => StopKills
<1>1. TypeOK /\ StopInv /\ [Next]_vars =>
        [\A c \in Callers : called[c] # 0 /\ called'[c] = 0 => called[c] \notin running']_vars
  BY StepsThatEndStop
<1>. QED BY <1>1, TypeCorrect, StopInvHolds, PTL DEF Spec, StopKills

-----------------------------------------------------------------------------
(* Readers and the log while the calls follow each other. *)

(* A reader nobody gave up on belongs to the current list; one that is done *)
(* has read all there was; none exists before its process.                  *)
ReaderInv ==
    \A r \in Readers :
        /\ Live(r) /\ r \notin left => r[1] = list
        /\ reader[r] = "done" => Len(chunks[r]) = written[r] /\ r \notin open
        /\ reader[r] # "none" => r[1] <= proc

LogInv ==
    /\ \A c, d \in Callers : at[c] # "idle" /\ at[d] # "idle" => c = d
    /\ \A c \in Callers :
        /\ at[c] # "failed"
        /\ at[c] \in {"open", "popen", "test", "close", "clear"} =>
                \A r \in Readers : Live(r) => r \in left
        /\ at[c] = "joining" => target[c] = list
        /\ at[c] = "close" => log # "none"
    /\ log = "closed" => \E c \in Callers : at[c] = "clear"
    /\ \A r \in Readers :
        /\ reader[r] \in {"write", "flush"} /\ r \notin left => log = "open"
        /\ reader[r] = "failed" => r \in left

LEMMA NextReaderInv ==
    ASSUME TypeOK, StartsInTurn, ReaderInv, [Next]_vars
    PROVE  ReaderInv'
<1>0. /\ proc \in Nat /\ list \in Nat /\ at \in [Callers -> Places]
      /\ reader \in [Readers -> {"none", "read", "check", "write", "flush", "done", "failed"}]
      /\ chunks \in [Readers -> Seq(Starts)] /\ written \in [Readers -> Nat]
      /\ open \subseteq Readers /\ \A r \in Readers : r[1] \in Nat
  BY BoundsAreNaturals DEF TypeOK, Places, Readers, Starts
<1>1. ASSUME NEW c \in Callers, CallerStep(c) PROVE ReaderInv'
  <2>1. CASE UNCHANGED <<proc, list, reader, chunks, open, written>> /\ left \subseteq left'
    BY <2>1 DEF ReaderInv, Live
  <2>2. CASE StartReset(c)
    BY <2>2, <1>0 DEF StartReset, ReaderInv, Live, readers, world
  <2>3. CASE StartPopen(c)
    <3>1. proc < list
      BY <2>3, <1>0 DEF StartPopen, Move, Go, StartsInTurn
    <3>2. UNCHANGED <<list, left, reader, chunks, written>> /\ (proc' = proc \/ proc' = list)
      BY <2>3 DEF StartPopen, readers
    <3>3. \A r \in Readers : r \in open' => r \in open \/ r[1] = list
      BY <2>3 DEF StartPopen
    <3>4. ASSUME NEW r \in Readers, reader[r] = "done" PROVE r[1] # list /\ r \notin open
      <4>1. reader[r] # "none" BY <3>4
      <4>2. r[1] <= proc /\ r \notin open BY <4>1, <3>4 DEF ReaderInv
      <4>. QED BY <4>2, <3>1, <1>0
    <3>5. \A r \in Readers : reader[r] = "done" => r \notin open'
      BY <3>3, <3>4
    <3>. QED BY <3>1, <3>2, <3>5, <1>0 DEF ReaderInv, Live
  <2>4. CASE StartReaders(c)
    <3>1. proc = list
      BY <2>4, <1>0 DEF StartReaders, Return, StartsInTurn
    <3>2. /\ UNCHANGED <<proc, list, left, chunks, written, open>>
          /\ \A r \in Readers : reader'[r] = IF r[1] = list THEN "read" ELSE reader[r]
      BY <2>4 DEF StartReaders, object, world
    <3>. QED BY <3>1, <3>2, <1>0 DEF ReaderInv, Live
  <2>5. CASE Calls(c) \/ StartOpen(c)
    BY <2>1, <2>5
       DEF Calls, NotStarted, StartCall, WaitCall, StopCall, Waited, WaitTimeout, StartOpen,
           object, readers, world, vars
  <2>6. CASE Stopping(c)
    BY <2>1, <2>6
       DEF Stopping, Terminate, Reap, Reaped, ReapTimeout, Kill, Await, Awaited, object, readers, world
  <2>7. CASE Finishing(c)
    BY <2>1, <2>7
       DEF Finishing, Join, JoinEnds, CloseTest, CloseFails, CloseLog, ClearLog, Recover,
           object, readers, world
  <2>. QED BY <1>1, <2>2, <2>3, <2>4, <2>5, <2>6, <2>7 DEF CallerStep, Starting
<1>2. ASSUME NEW q \in Readers, Read(q) PROVE ReaderInv'
  BY <1>2, <1>0 DEF Read, Advance, ReaderInv, Live, object, world
<1>3. ASSUME NEW q \in Readers, ReadEnd(q) PROVE ReaderInv'
  BY <1>3, <1>0 DEF ReadEnd, Advance, ReaderInv, Live, object, world
<1>4. ASSUME NEW q \in Readers, ReadCheck(q) \/ LogWrite(q) \/ LogFlush(q) PROVE ReaderInv'
  BY <1>4, <1>0 DEF ReadCheck, LogWrite, LogFlush, Advance, ReaderInv, Live, object, world
<1>5. ASSUME NEW q \in Readers, Write(q) \/ PipeCloses(q) PROVE ReaderInv'
  BY <1>5, <1>0 DEF Write, PipeCloses, ReaderInv, Live, object, readers
<1>6. CASE ProcessExit \/ UNCHANGED vars
  BY <1>6 DEF ProcessExit, ReaderInv, Live, object, readers, world, vars
<1>. QED BY <1>1, <1>2, <1>3, <1>4, <1>5, <1>6, NextCases DEF ReaderStep, Reading

LEMMA NextLogInv ==
    ASSUME TypeOK, StartsInTurn, ReaderInv, overlapped \/ LogInv, [Next]_vars
    PROVE  (overlapped \/ LogInv)'
<1> SUFFICES ASSUME LogInv, ~overlapped, ~overlapped' PROVE LogInv'
  <2>1. overlapped => overlapped'
    BY NextCases, OthersLeaveCalls
       DEF CallerStep, Calls, NotStarted, StartCall, WaitCall, StopCall, Waited, WaitTimeout,
           Starting, StartReset, StartOpen, StartPopen, StartReaders, Stopping, Terminate,
           Reap, Reaped, ReapTimeout, Kill, Await, Awaited, Finishing, Join, JoinEnds, CloseTest, CloseFails,
           CloseLog, ClearLog, Recover, Go, Move, Return, Enter, callers, vars
  <2>. QED BY <2>1
<1>0. /\ proc \in Nat /\ list \in Nat /\ at \in [Callers -> Places]
      /\ target \in [Callers -> Nat]
      /\ reader \in [Readers -> {"none", "read", "check", "write", "flush", "done", "failed"}]
  BY BoundsAreNaturals DEF TypeOK, Places
<1>1. ASSUME NEW c \in Callers, CallerStep(c) PROVE LogInv'
  <2>1. CASE Calls(c)
    <3>1. CASE StartCall(c) \/ WaitCall(c) \/ StopCall(c)
      <4>1. \A d \in Callers : at[d] = "idle"
        BY <3>1 DEF StartCall, WaitCall, StopCall, Enter
      <4>2. at'[c] \in {"reset", "wait", "terminate", "join"}
        BY <3>1, <1>0 DEF StartCall, WaitCall, StopCall, Enter
      <4>3. UNCHANGED <<list, log, reader, left>> /\ \A d \in Callers \ {c} : at'[d] = at[d]
        BY <3>1, <1>0 DEF StartCall, WaitCall, StopCall, Enter, object, readers
      <4>. QED BY <4>1, <4>2, <4>3 DEF LogInv, Live
    <3>2. CASE NotStarted(c) \/ Waited(c) \/ WaitTimeout(c)
      BY <3>2, <1>0
         DEF NotStarted, Waited, WaitTimeout, Move, Go, Return, LogInv, Live, object, readers,
             vars, callers
    <3>. QED BY <2>1, <3>1, <3>2 DEF Calls
  <2>2. CASE Starting(c)
    <3>1. CASE StartReset(c)
      BY <3>1, <1>0 DEF StartReset, Move, Go, LogInv, Live, readers
    <3>2. CASE StartOpen(c)
      BY <3>2, <1>0 DEF StartOpen, Move, Go, Return, LogInv, Live, readers
    <3>3. CASE StartPopen(c)
      BY <3>3, <1>0 DEF StartPopen, Move, Go, LogInv, Live, readers
    <3>4. CASE StartReaders(c)
      BY <3>4, <1>0 DEF StartReaders, Return, LogInv, Live, object
    <3>. QED BY <2>2, <3>1, <3>2, <3>3, <3>4 DEF Starting
  <2>3. CASE Stopping(c)
    BY <2>3, <1>0
       DEF Stopping, Terminate, Reap, Reaped, ReapTimeout, Kill, Await, Awaited, Move, Go, LogInv, Live,
           object, readers
  <2>4. CASE Finishing(c)
    <3>1. CASE Join(c)
      BY <3>1, <1>0 DEF Join, Go, LogInv, Live, object, readers
    <3>2. CASE JoinEnds(c)
      <4>1. \A r \in Readers : Live(r) => r \in left'
        BY <3>2, <1>0 DEF JoinEnds, Joined, Move, Go, LogInv, ReaderInv
      <4>. QED BY <4>1, <3>2, <1>0 DEF JoinEnds, Move, Go, LogInv, Live, object, readers
    <3>3. CASE CloseTest(c) \/ CloseFails(c) \/ Recover(c)
      BY <3>3, <1>0
         DEF CloseTest, CloseFails, Recover, Move, Go, Return, LogInv, Live, object, readers
    <3>4. CASE CloseLog(c)
      BY <3>4, <1>0 DEF CloseLog, Move, Go, LogInv, Live, readers
    <3>5. CASE ClearLog(c)
      BY <3>5, <1>0 DEF ClearLog, Return, LogInv, Live, readers
    <3>. QED BY <2>4, <3>1, <3>2, <3>3, <3>4, <3>5 DEF Finishing
  <2>. QED BY <1>1, <2>1, <2>2, <2>3, <2>4 DEF CallerStep
<1>2. ASSUME NEW q \in Readers, Reading(q) PROVE LogInv'
  <2>1. CASE Read(q) \/ ReadEnd(q)
    BY <2>1, <1>0 DEF Read, ReadEnd, Advance, LogInv, Live, object, callers
  <2>2. CASE ReadCheck(q)
    <3>1. log \in {"none", "open"} \/ q \in left
      BY <2>2 DEF ReadCheck, Advance, LogInv, Live, TypeOK
    <3>2. /\ reader'[q] = IF log = "none" THEN "read" ELSE "write"
          /\ \A r \in Readers \ {q} : reader'[r] = reader[r]
          /\ UNCHANGED <<at, target, list, log, left>> /\ reader[q] = "check"
      BY <2>2, <1>0 DEF ReadCheck, Advance, object, callers
    <3>. QED BY <3>1, <3>2 DEF LogInv, Live
  <2>3. CASE LogWrite(q)
    BY <2>3, <1>0 DEF LogWrite, Advance, LogInv, Live, object, callers
  <2>4. CASE LogFlush(q)
    BY <2>4, <1>0 DEF LogFlush, Advance, LogInv, Live, object, callers
  <2>. QED BY <1>2, <2>1, <2>2, <2>3, <2>4 DEF Reading
<1>3. ASSUME NEW q \in Readers, Write(q) \/ PipeCloses(q) PROVE LogInv'
  BY <1>3 DEF Write, PipeCloses, LogInv, Live, object, callers, readers
<1>4. CASE ProcessExit \/ UNCHANGED vars
  BY <1>4 DEF ProcessExit, LogInv, Live, object, callers, readers, vars
<1>. QED BY <1>1, <1>2, <1>3, <1>4, NextCases DEF ReaderStep

LEMMA ReadersAndLog == Spec => [](ReaderInv /\ (overlapped \/ LogInv))
<1>1. Init => ReaderInv /\ LogInv
  BY DEF Init, ReaderInv, LogInv, Live
<1>2. TypeOK /\ StartsInTurn /\ ReaderInv /\ (overlapped \/ LogInv) /\ [Next]_vars
        => ReaderInv' /\ (overlapped \/ LogInv)'
  BY NextReaderInv, NextLogInv
<1>. QED BY <1>1, <1>2, TypesAndStarts, PTL DEF Spec

(* In sequence, neither the calls nor the readers in use fail. *)
THEOREM FailuresHaveCauses == Spec => []FailureHasACause
<1>1. overlapped \/ LogInv => FailureHasACause
  BY DEF LogInv, FailureHasACause
<1>. QED BY <1>1, ReadersAndLog, PTL

(* In sequence, a call that joined its readers returns with all the output. *)
THEOREM OutputsAreComplete == Spec => []OutputIsComplete
<1>1. TypeOK /\ ReaderInv /\ (overlapped \/ LogInv) => OutputIsComplete
  <2> SUFFICES ASSUME TypeOK, ReaderInv, LogInv, NEW c \in Callers, NEW r \in Readers,
                      at[c] \in {"test", "close", "clear"}, reader[r] # "none", r \notin left
               PROVE  Len(chunks[r]) = written[r] /\ r \notin open
    BY DEF OutputIsComplete
  <2>1. reader[r] \in {"none", "read", "check", "write", "flush", "done", "failed"}
    BY DEF TypeOK
  <2>2. ~Live(r) /\ reader[r] # "failed"
    BY DEF LogInv
  <2>. QED BY <2>1, <2>2 DEF ReaderInv, Live
<1>. QED BY <1>1, TypeCorrect, ReadersAndLog, PTL

-----------------------------------------------------------------------------
(***************************************************************************)
(* Liveness.  Ready(c) says when a caller in the middle of a call can take  *)
(* its next step: at once, but for the wait() after kill(), which has no    *)
(* timeout.  That it then can is a hypothesis, CallersCanProceed, which TLC *)
(* can check, because the prover cannot expand the ENABLED in fairness.     *)
(***************************************************************************)
Working(c) == Starting(c) \/ Stopping(c) \/ Finishing(c)
Ready(c) == \/ at[c] \in StartSteps \cup StopSteps \cup FinishSteps /\ at[c] # "awaiting"
            \/ at[c] = "awaiting" /\ target[c] \notin running
CallersCanProceed ==
    \A c \in Callers :
        Ready(c) => ENABLED <<Starting(c) \/ Stopping(c) \/ Finishing(c)>>_vars

(* c is in stop(), and no later process has replaced the one it stops. *)
InStop(c) == called[c] # 0 /\ proc = called[c]
Back(c) == called[c] = 0 \/ proc # called[c]

(* The wait without a timeout is for the process stop() was called for, or  *)
(* a later one. *)
AwaitsNoOlder ==
    \A c \in Callers : at[c] = "awaiting" => called[c] <= target[c] /\ target[c] <= proc

StopsInv == TypeOK /\ StartsInTurn /\ StopInv /\ AwaitsNoOlder

LEMMA NextAwaitsNoOlder ==
    ASSUME TypeOK, StartsInTurn, StopInv, AwaitsNoOlder, [Next]_vars
    PROVE  AwaitsNoOlder'
<1>0. /\ proc \in Nat /\ list \in Nat
      /\ at \in [Callers -> Places] /\ target \in [Callers -> Nat]
      /\ called \in [Callers -> Nat]
  BY BoundsAreNaturals DEF TypeOK, Places
<1>1. CASE \A c \in Callers : ~CallerStep(c)
  BY <1>1, OthersLeaveCalls DEF AwaitsNoOlder, object, callers
<1>2. ASSUME NEW c \in Callers, CallerStep(c) PROVE AwaitsNoOlder'
  <2>1. CASE Calls(c)
    BY <2>1, <1>0
       DEF Calls, NotStarted, StartCall, WaitCall, StopCall, Waited, WaitTimeout, Enter, Move,
           Go, Return, AwaitsNoOlder, StartSteps, object, vars, callers
  <2>2. CASE Starting(c)
    BY <2>2, <1>0
       DEF Starting, StartReset, StartOpen, StartPopen, StartReaders, Move, Go, Return,
           StartsInTurn, StartSteps, AwaitsNoOlder, object
  <2>3. CASE Stopping(c)
    BY <2>3, <1>0
       DEF Stopping, Terminate, Reap, Reaped, ReapTimeout, Kill, Await, Awaited, Move, Go,
           AwaitsNoOlder, StopInv, object
  <2>4. CASE Finishing(c)
    BY <2>4, <1>0
       DEF Finishing, Join, JoinEnds, CloseTest, CloseFails, CloseLog, ClearLog, Recover,
           Move, Go, Return, AwaitsNoOlder, object
  <2>. QED BY <1>2, <2>1, <2>2, <2>3, <2>4 DEF CallerStep
<1>. QED BY <1>1, <1>2

LEMMA InitStopsInv == Init => StopsInv
<1> SUFFICES ASSUME Init PROVE StopsInv OBVIOUS
<1>1. StartsInTurn
  BY DEF Init, StartsInTurn, StartSteps
<1>2. AwaitsNoOlder
  BY DEF Init, AwaitsNoOlder
<1>. QED BY <1>1, <1>2, InitTypeOK, InitStopInv DEF StopsInv

LEMMA NextStopsInv == StopsInv /\ [Next]_vars => StopsInv'
  BY NextTypeOK, NextStartsInTurn, NextStopInv, NextAwaitsNoOlder DEF StopsInv

(* Whom stop() waits for without a timeout is dead, or a later process. *)
LEMMA StopIsReady ==
    ASSUME StopsInv, NEW c \in Callers, InStop(c)
    PROVE  Ready(c) /\ at[c] \in StopSteps \cup FinishSteps
<1>1. at[c] \in StopSteps \cup FinishSteps
  BY DEF StopsInv, TypeOK, StopInv, InStop
<1>2. at[c] = "awaiting" => target[c] \notin running
  <2> SUFFICES ASSUME at[c] = "awaiting" PROVE target[c] \notin running OBVIOUS
  <2>1. target[c] = called[c]
    BY BoundsAreNaturals DEF StopsInv, TypeOK, AwaitsNoOlder, InStop
  <2>. QED BY <2>1 DEF StopsInv, StopInv
<1>. QED BY <1>1, <1>2 DEF Ready

(* How many steps stop() is away from its return, at most. *)
StepsLeft ==
    [s \in StopSteps \cup FinishSteps |->
        CASE s = "terminate" -> 11
          [] s = "reap" -> 10
          [] s = "reaping" -> 9
          [] s = "kill" -> 8
          [] s = "await" -> 7
          [] s = "awaiting" -> 6
          [] s = "join" -> 5
          [] s = "joining" -> 4
          [] s = "test" -> 3
          [] s = "close" -> 2
          [] s = "clear" -> 1
          [] s = "failed" -> 1]

LEMMA StepsLeftAre ==
    /\ StepsLeft["terminate"] = 11 /\ StepsLeft["reap"] = 10 /\ StepsLeft["reaping"] = 9
    /\ StepsLeft["kill"] = 8 /\ StepsLeft["await"] = 7 /\ StepsLeft["awaiting"] = 6
    /\ StepsLeft["join"] = 5 /\ StepsLeft["joining"] = 4 /\ StepsLeft["test"] = 3
    /\ StepsLeft["close"] = 2 /\ StepsLeft["clear"] = 1 /\ StepsLeft["failed"] = 1
    /\ \A s \in StopSteps \cup FinishSteps : StepsLeft[s] \in 1..11
  BY DEF StepsLeft, StopSteps, FinishSteps

Returning(c, k) == InStop(c) /\ StepsLeft[at[c]] <= k

LEMMA WorkingReturns ==
    ASSUME StopsInv, NEW c \in Callers, NEW k \in 0..10, Returning(c, k + 1), Working(c)
    PROVE  Returning(c, k)' \/ Back(c)'
<1>1. /\ at[c] \in StopSteps \cup FinishSteps
      /\ at \in [Callers -> Places] /\ called \in [Callers -> 0..MaxStarts]
  BY StopIsReady DEF Returning, StopsInv, TypeOK, Places
<1>2. CASE Starting(c)
  BY <1>1, <1>2 DEF Starting, StartReset, StartOpen, StartPopen, StartReaders, Move, Go, Return,
                    StopSteps, FinishSteps
<1>3. CASE Stopping(c)
  <2>1. UNCHANGED <<called, proc>>
    BY <1>3 DEF Stopping, Terminate, Reap, Reaped, ReapTimeout, Kill, Await, Awaited, Move, Go, object
  <2>2. \/ at[c] = "terminate" /\ at'[c] = "reap"
        \/ at[c] = "reap" /\ at'[c] = "reaping"
        \/ at[c] = "reaping" /\ at'[c] \in {"join", "kill"}
        \/ at[c] = "kill" /\ at'[c] = "await"
        \/ at[c] = "await" /\ at'[c] = "awaiting"
        \/ at[c] = "awaiting" /\ at'[c] = "join"
    BY <1>1, <1>3 DEF Stopping, Terminate, Reap, Reaped, ReapTimeout, Kill, Await, Awaited, Move, Go
  <2>3. StepsLeft[at'[c]] <= k
    BY <2>2, StepsLeftAre DEF Returning
  <2>. QED BY <2>1, <2>3 DEF Returning, InStop
<1>4. CASE Finishing(c) /\ called'[c] # 0
  <2>1. UNCHANGED proc /\ called'[c] = called[c]
    BY <1>1, <1>4 DEF Finishing, Join, JoinEnds, CloseTest, CloseFails, CloseLog, ClearLog, Recover,
                Move, Go, Return, object
  <2>2. \/ at[c] = "join" /\ at'[c] = "joining"
        \/ at[c] = "joining" /\ at'[c] = "test"
        \/ at[c] = "test" /\ at'[c] = "close"
        \/ at[c] = "close" /\ at'[c] \in {"clear", "failed"}
    BY <1>1, <1>4 DEF Finishing, Join, JoinEnds, CloseTest, CloseFails, CloseLog, ClearLog, Recover,
                Move, Go, Return
  <2>3. StepsLeft[at'[c]] <= k
    BY <2>2, StepsLeftAre DEF Returning
  <2>. QED BY <2>1, <2>3 DEF Returning, InStop
<1>5. CASE called'[c] = 0
  BY <1>5 DEF Back
<1>. QED BY <1>2, <1>3, <1>4, <1>5 DEF Working

LEMMA OthersDoNotDelay ==
    ASSUME StopsInv, [Next]_vars, NEW c \in Callers, NEW k \in 0..10, Returning(c, k + 1)
    PROVE  Returning(c, k + 1)' \/ Back(c)'
<1>1. /\ at[c] \in StopSteps \cup FinishSteps
      /\ at \in [Callers -> Places] /\ called \in [Callers -> 0..MaxStarts]
      /\ StepsLeft[at[c]] \in 1..11
  BY StopIsReady, StepsLeftAre DEF Returning, StopsInv, TypeOK, Places
<1>2. CASE at'[c] = at[c] /\ called'[c] = called[c]
  BY <1>1, <1>2 DEF Returning, InStop, Back
<1>3. CASE Working(c)
  <2>1. Returning(c, k)' \/ Back(c)'
    BY <1>3, WorkingReturns
  <2>2. StopsInv'
    BY NextStopsInv
  <2>3. InStop(c)' => StepsLeft[at'[c]] \in 1..11
    <3>1. InStop(c)' => at'[c] \in StopSteps \cup FinishSteps
      BY <2>2 DEF StopsInv, TypeOK, StopInv, InStop
    <3>. QED BY <3>1, StepsLeftAre
  <2>. QED BY <2>1, <2>3 DEF Returning
<1>4. CASE \A d \in Callers : ~CallerStep(d)
  BY <1>2, <1>4, OthersLeaveCalls DEF callers
<1>5. ASSUME NEW d \in Callers, CallerStep(d), ~Working(c)
      PROVE  at'[c] = at[c] /\ called'[c] = called[c]
  <2>1. CASE d = c
    BY <1>1, <1>5, <2>1 DEF CallerStep, Working, Calls, NotStarted, StartCall, WaitCall, StopCall,
         Waited, WaitTimeout, Enter, Move, Go, Return, vars, callers, StopSteps, FinishSteps
  <2>2. CASE d # c
    <3>1. CASE Calls(d)
      BY <1>1, <2>2, <3>1 DEF Calls, NotStarted, StartCall, WaitCall, StopCall,
           Waited, WaitTimeout, Enter, Move, Go, Return, vars, callers
    <3>2. CASE Starting(d)
      BY <1>1, <2>2, <3>2 DEF Starting, StartReset, StartOpen, StartPopen, StartReaders, Move,
           Go, Return
    <3>3. CASE Stopping(d)
      BY <1>1, <2>2, <3>3 DEF Stopping, Terminate, Reap, Reaped, ReapTimeout, Kill, Await,
           Awaited, Move, Go
    <3>4. CASE Finishing(d)
      BY <1>1, <2>2, <3>4 DEF Finishing, Join, JoinEnds, CloseTest, CloseFails, CloseLog,
           ClearLog, Recover, Move, Go, Return
    <3>. QED BY <1>5, <3>1, <3>2, <3>3, <3>4 DEF CallerStep
  <2>. QED BY <2>1, <2>2
<1>. QED BY <1>2, <1>3, <1>4, <1>5

(* stop() comes back, however the process and its children behave and       *)
(* whatever other calls do meanwhile, unless a start() made a new process.  *)
THEOREM StopsReturn == Spec /\ []CallersCanProceed => StopReturns
<1>1. ASSUME NEW c \in Callers
      PROVE  Spec /\ []CallersCanProceed => (called[c] # 0 ~> (called[c] = 0 \/ proc # called[c]))
  <2>1. StopsInv /\ called[c] # 0 => Returning(c, 11) \/ Back(c)
    <3>1. StopsInv /\ InStop(c) => StepsLeft[at[c]] \in 1..11
      BY StopIsReady, StepsLeftAre
    <3>. QED BY <3>1 DEF Returning, InStop, Back
  <2>2. StopsInv => ~Returning(c, 0)
    <3>1. StopsInv /\ InStop(c) => StepsLeft[at[c]] \in 1..11
      BY StopIsReady, StepsLeftAre
    <3>. QED BY <3>1 DEF Returning
  <2>3. \A k \in 0..10 : StopsInv /\ [Next]_vars /\ Returning(c, k + 1)
                            => Returning(c, k + 1)' \/ Back(c)'
    BY OthersDoNotDelay
  <2>4. \A k \in 0..10 : StopsInv /\ <<Working(c)>>_vars /\ Returning(c, k + 1)
                            => Returning(c, k)' \/ Back(c)'
    BY WorkingReturns
  <2>5. StopsInv /\ [Next]_vars =>
          /\ Returning(c, 11) => Returning(c, 11)' \/ Back(c)'
          /\ Returning(c, 10) => Returning(c, 10)' \/ Back(c)'
          /\ Returning(c, 9) => Returning(c, 9)' \/ Back(c)'
          /\ Returning(c, 8) => Returning(c, 8)' \/ Back(c)'
          /\ Returning(c, 7) => Returning(c, 7)' \/ Back(c)'
          /\ Returning(c, 6) => Returning(c, 6)' \/ Back(c)'
          /\ Returning(c, 5) => Returning(c, 5)' \/ Back(c)'
          /\ Returning(c, 4) => Returning(c, 4)' \/ Back(c)'
          /\ Returning(c, 3) => Returning(c, 3)' \/ Back(c)'
          /\ Returning(c, 2) => Returning(c, 2)' \/ Back(c)'
          /\ Returning(c, 1) => Returning(c, 1)' \/ Back(c)'
    BY <2>3
  <2>6. StopsInv /\ <<Working(c)>>_vars =>
          /\ Returning(c, 11) => Returning(c, 10)' \/ Back(c)'
          /\ Returning(c, 10) => Returning(c, 9)' \/ Back(c)'
          /\ Returning(c, 9) => Returning(c, 8)' \/ Back(c)'
          /\ Returning(c, 8) => Returning(c, 7)' \/ Back(c)'
          /\ Returning(c, 7) => Returning(c, 6)' \/ Back(c)'
          /\ Returning(c, 6) => Returning(c, 5)' \/ Back(c)'
          /\ Returning(c, 5) => Returning(c, 4)' \/ Back(c)'
          /\ Returning(c, 4) => Returning(c, 3)' \/ Back(c)'
          /\ Returning(c, 3) => Returning(c, 2)' \/ Back(c)'
          /\ Returning(c, 2) => Returning(c, 1)' \/ Back(c)'
          /\ Returning(c, 1) => Returning(c, 0)' \/ Back(c)'
    BY <2>4
  <2>7. StopsInv /\ ~Ready(c) => Back(c)
    BY StopIsReady DEF InStop, Back
  <2>8. Back(c) => called[c] = 0 \/ proc # called[c]
    BY DEF Back
  <2>9. Spec => Fairness(c)
    BY DEF Spec
  <2>10. CallersCanProceed =>
            (Ready(c) => ENABLED <<Starting(c) \/ Stopping(c) \/ Finishing(c)>>_vars)
    BY DEF CallersCanProceed
  <2>11. <<Starting(c) \/ Stopping(c) \/ Finishing(c)>>_vars => <<Working(c)>>_vars
    BY DEF Working
  <2>. QED BY <2>1, <2>2, <2>5, <2>6, <2>7, <2>8, <2>9, <2>10, <2>11,
              InitStopsInv, NextStopsInv, PTL
           DEF Spec, Fairness
<1>. QED BY <1>1 DEF StopReturns

=============================================================================
