----------------------------- MODULE ProcessIO -----------------------------
(***************************************************************************)
(* ProcessManager (src/crackersdk/process.py): the Firecracker processes   *)
(* of one object, the threads that read their output into memory and into  *)
(* the mirrored log, and the threads that call start(), wait() and stop(). *)
(* None of the object's fields is guarded: what a thread tested may have   *)
(* been replaced by another one when it is used.                           *)
(*                                                                         *)
(* Call number k of start() makes list number k of chunks and of threads   *)
(* and, when Popen succeeds, process number k.  The calls of start() follow*)
(* each other; wait() and stop() may come from any thread at any time.     *)
(***************************************************************************)
EXTENDS Naturals, Sequences

CONSTANTS
    Callers,
    Streams,    \* stdout and stderr
    MaxStarts,  \* bound on the calls of start()
    MaxChunks   \* bound on what a process writes to a stream

ASSUME BoundsAreNaturals == MaxStarts \in Nat /\ MaxChunks \in Nat

Starts == 1..MaxStarts
Readers == Starts \X Streams

VARIABLES
    \* the object
    proc,       \* self._proc, 0 for None
    list,       \* the list self._stdout_chunks and self._reader_threads are
    log,        \* self._log_fp: "none", or the file is "open" or "closed"
    logLock,    \* the reader that holds self._log_lock
    \* the threads
    at,         \* where each caller is
    target,     \* the process it waits for, then the list of threads it joins
    reader,     \* where each reader is
    chunks,     \* per reader's list: whose chunks were appended to it
    \* the world
    running,    \* the processes that run
    open,       \* the pipes somebody can still write to: the process or a child
    written,    \* how many chunks were written to each pipe
    \* history, read by properties only
    called,     \* the process that was current when stop() was called
    overlapped, \* two calls were in progress at the same time
    left        \* the readers that a call gave up on, or forgot

object == <<proc, list, log>>
callers == <<at, target, called, overlapped>>
readers == <<reader, chunks, logLock>>
world == <<running, open, written>>
vars == <<object, callers, readers, world, left>>

NoReader == <<0, 0>>
Live(r) == reader[r] \in {"read", "check", "write", "flush"}
StartSteps == {"reset", "open", "popen", "spawn"}
StopSteps == {"terminate", "reap", "reaping", "kill", "await", "awaiting"}
FinishSteps == {"join", "joining", "test", "close", "clear", "failed"}

Init ==
    /\ proc = 0 /\ list = 0 /\ log = "none" /\ logLock = NoReader
    /\ at = [c \in Callers |-> "idle"] /\ target = [c \in Callers |-> 0]
    /\ reader = [r \in Readers |-> "none"] /\ chunks = [r \in Readers |-> <<>>]
    /\ running = {} /\ open = {} /\ written = [r \in Readers |-> 0]
    /\ called = [c \in Callers |-> 0] /\ overlapped = FALSE /\ left = {}

-----------------------------------------------------------------------------
Go(c, from, to) ==
    /\ at[c] = from /\ at' = [at EXCEPT ![c] = to]
    /\ UNCHANGED <<called, overlapped>>
Move(c, from, to) == Go(c, from, to) /\ UNCHANGED target

Return(c, from) ==
    /\ at[c] = from /\ at' = [at EXCEPT ![c] = "idle"]
    /\ target' = [target EXCEPT ![c] = 0]
    /\ called' = [called EXCEPT ![c] = 0]
    /\ UNCHANGED overlapped

Enter(c, first, process) ==
    /\ at[c] = "idle" /\ at' = [at EXCEPT ![c] = first]
    /\ target' = [target EXCEPT ![c] = proc]
    /\ called' = [called EXCEPT ![c] = process]
    /\ overlapped' = (overlapped \/ \E d \in Callers : at[d] # "idle")

(* start: refused while the process runs. *)
StartCall(c) ==
    /\ list < MaxStarts
    /\ \A d \in Callers : at[d] \notin StartSteps
    /\ proc \notin running
    /\ Enter(c, "reset", 0)
    /\ UNCHANGED <<object, readers, world, left>>

(* New lists; readers of the old ones that still run are forgotten. *)
StartReset(c) ==
    /\ Move(c, "reset", "open")
    /\ list' = list + 1
    /\ left' = left \cup {r \in Readers : Live(r)}
    /\ UNCHANGED <<proc, log, readers, world>>

(* build_command or open may fail; without mirroring _log_fp is dropped. *)
StartOpen(c) ==
    /\ \/ Return(c, "open") /\ UNCHANGED log
       \/ Move(c, "open", "popen") /\ log' \in {"open", "none"}
    /\ UNCHANGED <<proc, list, readers, world, left>>

StartPopen(c) ==
    /\ \/ /\ Move(c, "popen", "spawn")
          /\ proc' = list /\ running' = running \cup {list}
          /\ open' = open \cup ({list} \X Streams)
       \/ /\ Go(c, "popen", "test")       \* OSError: _close_log
          /\ target' = [target EXCEPT ![c] = 0]
          /\ UNCHANGED <<proc, running, open>>
    /\ UNCHANGED <<list, log, readers, written, left>>

StartReaders(c) ==
    /\ Return(c, "spawn")
    /\ reader' = [r \in Readers |-> IF r[1] = list THEN "read" ELSE reader[r]]
    /\ UNCHANGED <<object, chunks, logLock, world, left>>

-----------------------------------------------------------------------------
(* Before the first process wait() raises and stop() returns. *)
NotStarted(c) == proc = 0 /\ at[c] = "idle" /\ UNCHANGED vars

(* wait: of the process that is current now; the timeout raises. *)
WaitCall(c) ==
    /\ proc # 0 /\ Enter(c, "wait", 0)
    /\ UNCHANGED <<object, readers, world, left>>

(* Mutant of Waited: the log is closed without joining the readers. *)
Waited_NoJoin(c) ==
    /\ target[c] \notin running /\ Move(c, "wait", "test")
    /\ UNCHANGED <<object, readers, world, left>>

Waited(c) ==
    /\ target[c] \notin running /\ Move(c, "wait", "join")
    /\ UNCHANGED <<object, readers, world, left>>

WaitTimeout(c) ==
    /\ target[c] \in running /\ Return(c, "wait")
    /\ UNCHANGED <<object, readers, world, left>>

(* stop: terminate(), wait(), kill() and the second wait(), which has no    *)
(* timeout, each read self._proc again.                                     *)
StopCall(c) ==
    /\ proc # 0 /\ Enter(c, IF proc \in running THEN "terminate" ELSE "join", proc)
    /\ UNCHANGED <<object, readers, world, left>>

Terminate(c) ==
    /\ Move(c, "terminate", "reap")
    /\ running' \in {running, running \ {proc}}
    /\ UNCHANGED <<object, readers, open, written, left>>

Reap(c) ==
    /\ Go(c, "reap", "reaping") /\ target' = [target EXCEPT ![c] = proc]
    /\ UNCHANGED <<object, readers, world, left>>

(* Mutant of Reaped: a process that ignores SIGTERM is left running. *)
Reaped_NoKill(c) ==
    /\ Move(c, "reaping", "join")
    /\ UNCHANGED <<object, readers, world, left>>

Reaped(c) ==
    /\ target[c] \notin running /\ Move(c, "reaping", "join")
    /\ UNCHANGED <<object, readers, world, left>>

ReapTimeout(c) ==
    /\ target[c] \in running /\ Move(c, "reaping", "kill")
    /\ UNCHANGED <<object, readers, world, left>>

Kill(c) ==
    /\ Move(c, "kill", "await")
    /\ running' = running \ {proc}
    /\ UNCHANGED <<object, readers, open, written, left>>

Await(c) ==
    /\ Go(c, "await", "awaiting") /\ target' = [target EXCEPT ![c] = proc]
    /\ UNCHANGED <<object, readers, world, left>>

Awaited(c) ==
    /\ target[c] \notin running /\ Move(c, "awaiting", "join")
    /\ UNCHANGED <<object, readers, world, left>>

-----------------------------------------------------------------------------
(* _join_readers and _close_log, at the end of wait() and stop(). *)

Join(c) ==
    /\ Go(c, "join", "joining") /\ target' = [target EXCEPT ![c] = list]
    /\ UNCHANGED <<object, readers, world, left>>

(* The threads the list has now. *)
Joined(c) == {r \in Readers : r[1] = target[c] /\ Live(r)}

(* Mutant of JoinEnds: join() has no timeout. *)
JoinEnds_Forever(c) ==
    /\ Joined(c) = {} /\ Move(c, "joining", "test")
    /\ left' = left
    /\ UNCHANGED <<object, readers, world>>

(* Each thread has ended, or join(timeout=1.0) gave up on it. *)
JoinEnds(c) ==
    /\ Move(c, "joining", "test")
    /\ left' = left \cup Joined(c)
    /\ UNCHANGED <<object, readers, world>>

CloseTest(c) ==
    /\ \/ log = "none" /\ Return(c, "test")
       \/ log # "none" /\ Move(c, "test", "close")
    /\ UNCHANGED <<object, readers, world, left>>

(* Somebody else made it None since: the AttributeError leaves the call. *)
CloseFails(c) ==
    /\ log = "none" /\ Move(c, "close", "failed")
    /\ UNCHANGED <<object, readers, world, left>>

CloseLog(c) ==
    /\ log # "none" /\ Move(c, "close", "clear")
    /\ log' = "closed"
    /\ UNCHANGED <<proc, list, readers, world, left>>

ClearLog(c) ==
    /\ Return(c, "clear") /\ log' = "none"
    /\ UNCHANGED <<proc, list, readers, world, left>>

(* The caller handles the error and may call again. *)
Recover(c) ==
    /\ Return(c, "failed")
    /\ UNCHANGED <<object, readers, world, left>>

-----------------------------------------------------------------------------
(* _read_stream *)

Advance(r, from, to) == reader[r] = from /\ reader' = [reader EXCEPT ![r] = to]

Read(r) ==
    /\ Advance(r, "read", "check")
    /\ Len(chunks[r]) < written[r]
    /\ chunks' = [chunks EXCEPT ![r] = Append(@, r[1])]
    /\ UNCHANGED <<object, callers, logLock, world, left>>

(* Mutant of ReadEnd: the empty read at the end is taken for a chunk. *)
ReadEnd_Appended(r) ==
    /\ Advance(r, "read", "done")
    /\ Len(chunks[r]) = written[r] /\ r \notin open
    /\ chunks' = [chunks EXCEPT ![r] = Append(@, 0)]
    /\ UNCHANGED <<object, callers, logLock, world, left>>

(* Mutant of ReadEnd: the process has ended, not the pipe. *)
ReadEnd_OnExit(r) ==
    /\ Advance(r, "read", "done")
    /\ r[1] \notin running
    /\ UNCHANGED <<object, callers, chunks, logLock, world, left>>

ReadEnd(r) ==
    /\ Advance(r, "read", "done")
    /\ Len(chunks[r]) = written[r] /\ r \notin open
    /\ UNCHANGED <<object, callers, chunks, logLock, world, left>>

ReadCheck(r) ==
    /\ Advance(r, "check", IF log = "none" THEN "read" ELSE "write")
    /\ UNCHANGED <<object, callers, chunks, logLock, world, left>>

(* write and flush each read self._log_fp again; None and a closed file     *)
(* raise, which ends the thread and closes its stream.                      *)
LogWrite(r) ==
    /\ logLock = NoReader
    /\ IF log = "open" THEN Advance(r, "write", "flush") /\ logLock' = r
                    ELSE Advance(r, "write", "failed") /\ UNCHANGED logLock
    /\ UNCHANGED <<object, callers, chunks, world, left>>

LogFlush(r) ==
    /\ Advance(r, "flush", IF log = "open" THEN "read" ELSE "failed")
    /\ logLock' = NoReader
    /\ UNCHANGED <<object, callers, chunks, world, left>>

-----------------------------------------------------------------------------
(* The process writes and exits; a child may keep its pipes open. *)

Write(r) ==
    /\ r \in open /\ written[r] < MaxChunks
    /\ written' = [written EXCEPT ![r] = @ + 1]
    /\ UNCHANGED <<object, callers, readers, running, open, left>>

ProcessExit ==
    /\ \E p \in running : running' = running \ {p}
    /\ UNCHANGED <<object, callers, readers, open, written, left>>

PipeCloses(r) ==
    /\ r \in open /\ r[1] \notin running
    /\ open' = open \ {r}
    /\ UNCHANGED <<object, callers, readers, running, written, left>>

-----------------------------------------------------------------------------
Starting(c) == StartReset(c) \/ StartOpen(c) \/ StartPopen(c) \/ StartReaders(c)
Stopping(c) == Terminate(c) \/ Reap(c) \/ Reaped(c) \/ ReapTimeout(c) \/ Kill(c)
                   \/ Await(c) \/ Awaited(c)
Finishing(c) == Join(c) \/ JoinEnds(c) \/ CloseTest(c) \/ CloseFails(c)
                    \/ CloseLog(c) \/ ClearLog(c) \/ Recover(c)
Calls(c) == NotStarted(c) \/ StartCall(c) \/ WaitCall(c) \/ StopCall(c) \/ Waited(c)
                \/ WaitTimeout(c)
Reading(r) == Read(r) \/ ReadEnd(r) \/ ReadCheck(r) \/ LogWrite(r) \/ LogFlush(r)

Next ==
    \/ \E c \in Callers : Calls(c) \/ Starting(c) \/ Stopping(c) \/ Finishing(c)
    \/ \E r \in Readers : Reading(r) \/ Write(r) \/ PipeCloses(r)
    \/ ProcessExit

(* Threads are scheduled.  No process has to exit, no pipe to close, no     *)
(* wait() of a caller to time out; readers owe nothing.                     *)
Fairness(c) == WF_vars(Starting(c) \/ Stopping(c) \/ Finishing(c))

Spec == Init /\ [][Next]_vars /\ \A c \in Callers : Fairness(c)

-----------------------------------------------------------------------------
TypeOK ==
    /\ proc \in 0..MaxStarts /\ list \in 0..MaxStarts
    /\ log \in {"none", "open", "closed"}
    /\ logLock \in Readers \cup {NoReader}
    /\ at \in [Callers -> {"idle", "wait"} \cup StartSteps \cup StopSteps \cup FinishSteps]
    /\ target \in [Callers -> 0..MaxStarts]
    /\ reader \in [Readers -> {"none", "read", "check", "write", "flush", "done", "failed"}]
    /\ chunks \in [Readers -> Seq(Starts)]
    /\ running \subseteq Starts
    /\ open \subseteq Readers
    /\ written \in [Readers -> 0..MaxChunks]
    /\ called \in [Callers -> 0..MaxStarts]
    /\ overlapped \in BOOLEAN
    /\ left \subseteq Readers

(* As long as the calls follow each other, wait() and stop() do not raise   *)
(* AttributeError out of _close_log, and no reader loses its log in the     *)
(* middle of a write but one that a join gave up on or start() forgot.      *)
FailureHasACause ==
    overlapped \/ /\ \A r \in Readers : reader[r] = "failed" => r \in left
                  /\ \A c \in Callers : at[c] # "failed"

(* When the readers were joined, neither given up on nor disturbed by       *)
(* another call, everything that was written is in the lists.               *)
OutputIsComplete ==
    \A c \in Callers, r \in Readers :
        (/\ at[c] \in {"test", "close", "clear"} /\ r[1] = target[c]
         /\ reader[r] # "none" /\ r \notin left /\ ~overlapped)
            => Len(chunks[r]) = written[r] /\ r \notin open

(* However start, wait and other stops interfere: when stop() is over, with *)
(* or without an error, the process it was called for is dead.              *)
StopKills ==
    [][\A c \in Callers : called[c] # 0 /\ called'[c] = 0
           => called[c] \notin running']_vars

(* stop() comes back although the process ignores SIGTERM, and a child of   *)
(* it keeps the pipes open for ever.  It may wait without end only for the  *)
(* process of a later start().                                              *)
StopReturns ==
    \A c \in Callers : called[c] # 0 ~> (called[c] = 0 \/ proc # called[c])

=============================================================================
