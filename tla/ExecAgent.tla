----------------------------- MODULE ExecAgent -----------------------------
(***************************************************************************)
(* The exec sandboxing example: the agent that is /init in the guest       *)
(* (examples_usecases/exec_sandboxing/rootfs/agent.c) and its host clients *)
(* (AgentClient in main.py, over VsockClient).                             *)
(*                                                                         *)
(* The agent serves one connection at a time.  EXEC runs a script whose    *)
(* output comes through a pipe into a file and from there into the reply,  *)
(* while the script runs, forks, exits and is killed at its deadline on    *)
(* its own schedule; clients give up when a socket operation times out.    *)
(* stdout and stderr are treated alike and are one pipe here.  waitpid     *)
(* cannot fail, since nothing else reaps the child.                        *)
(*                                                                         *)
(* The agent's files lie in /workspace, where scripts do as they like:     *)
(* they may put a FIFO at a path it opens, which blocks it until somebody  *)
(* opens the other end.  What a file holds that could not be opened or was *)
(* replaced is not modelled (agent.c:391 ignores a failing unlink).        *)
(***************************************************************************)
EXTENDS Naturals

CONSTANTS
    Clients, None,
    PipeSize,    \* chunks the pipe holds
    MaxWrites,   \* chunks a script writes, or up to which they are counted
    Endless,     \* a script may go on writing for ever
    Fifos        \* a script may make FIFOs of the agent's paths

ASSUME SizesArePositive == PipeSize \in Nat \ {0} /\ MaxWrites \in Nat \ {0}
ASSUME ScriptsAreDescribed == Endless \in BOOLEAN /\ Fifos \in BOOLEAN
ASSUME NoneIsNoClient == None \notin Clients

VARIABLES
    conn,      \* per client: "none", in the "backlog", or being "served"
    open,      \* per client: it still has its end open
    kind,      \* per client: the request it makes
    sent,      \* per client: how much of the request has arrived
    reply,     \* per client: status line and body of the response
    pc, cur,   \* the agent, and the client it serves
    child,     \* the script's process; a "zombie" has not been waited for
    helper,    \* a process the script left in the background
    pipe,      \* chunks in the pipe
    written,   \* chunks written to it in this EXEC
    owed,      \* history: those written when the child exited
    saved,     \* chunks copied to the output file
    file,      \* stdout_fd is open, on what is at /workspace/stdout.txt
    lost,      \* history: writing a chunk to it failed
    late,      \* the deadline has passed
    timedOut,  \* timed_out
    left,      \* a script has run, and may have left processes behind
    blocked    \* the agent is inside open or write on a FIFO

client == <<conn, open, kind, sent>>
script == <<child, helper, pipe, written, owed>>
run == <<saved, file, lost, late, timedOut>>
world == <<left, blocked>>
vars == <<client, reply, pc, cur, script, run, world>>

Kinds == {"HEALTH", "EXEC", "UPLOAD", "DOWNLOAD", "unknown"}
AgentSteps == {"accept", "header", "body", "handle", "open", "drain", "poll", "deadline",
               "last_drain", "report"}

Init ==
    /\ conn = [c \in Clients |-> "none"]
    /\ open = [c \in Clients |-> FALSE]
    /\ kind = [c \in Clients |-> "HEALTH"]
    /\ sent = [c \in Clients |-> "nothing"]
    /\ reply = [c \in Clients |-> "none"]
    /\ pc = "accept" /\ cur = None
    /\ child = "none" /\ helper = "none"
    /\ pipe = 0 /\ written = 0 /\ owed = 0
    /\ saved = 0 /\ file = FALSE /\ lost = FALSE
    /\ late = FALSE /\ timedOut = FALSE
    /\ left = FALSE /\ blocked = FALSE

-----------------------------------------------------------------------------
(* Clients *)

(* health, exec, upload and download, each a request of its own. *)
Ask(c) == \E k \in Kinds : kind' = [kind EXCEPT ![c] = k]

Connect(c) ==
    /\ conn[c] = "none" /\ ~open[c]
    /\ conn' = [conn EXCEPT ![c] = "backlog"]
    /\ open' = [open EXCEPT ![c] = TRUE]
    /\ Ask(c)
    /\ sent' = [sent EXCEPT ![c] = "nothing"]
    /\ reply' = [reply EXCEPT ![c] = "none"]
    /\ UNCHANGED <<pc, cur, script, run, world>>

(* The header line arrives before the body of EXEC and UPLOAD. *)
Send(c) ==
    /\ open[c] /\ sent[c] # "all"
    /\ \E part \in {"header", "all"} \ {sent[c]} :
         sent' = [sent EXCEPT ![c] = part]
    /\ UNCHANGED <<conn, open, kind, reply, pc, cur, script, run, world>>

(* The response is read, or the connection ended, or a timeout ran out. *)
Close(c) ==
    /\ open[c] /\ open' = [open EXCEPT ![c] = FALSE]
    /\ UNCHANGED <<conn, kind, sent, reply, pc, cur, script, run, world>>

-----------------------------------------------------------------------------
(* The agent *)

Goto(from, to) == pc = from /\ pc' = to

Accept(c) ==
    /\ Goto("accept", "header")
    /\ conn[c] = "backlog" /\ conn' = [conn EXCEPT ![c] = "served"]
    /\ cur' = c
    /\ UNCHANGED <<open, kind, sent, reply, script, run>>

(* Mutant of Respond: the connection is not closed. *)
Respond_NotClosed(status) ==
    /\ reply' = [reply EXCEPT ![cur] = IF open[cur] THEN status ELSE @]
    /\ pc' = "accept"
    /\ UNCHANGED <<client, cur>>

(* send_response, then close: a client that is gone gets nothing, and the   *)
(* failed write changes nothing, SIGPIPE being ignored by /init.            *)
Respond(status) ==
    /\ reply' = [reply EXCEPT ![cur] = IF open[cur] THEN status ELSE @]
    /\ conn' = [conn EXCEPT ![cur] = "none"]
    /\ pc' = "accept" /\ cur' = None
    /\ UNCHANGED <<open, kind, sent>>

(* read_header_line blocks until the line or the end of the stream is there. *)
ReadHeader ==
    /\ pc = "header"
    /\ \/ /\ sent[cur] # "nothing" /\ kind[cur] \in {"EXEC", "UPLOAD"}
          /\ pc' = "body" /\ UNCHANGED <<client, reply, cur>>
       \/ sent[cur] # "nothing" /\ kind[cur] = "HEALTH" /\ Respond("OK")
       \/ sent[cur] # "nothing" /\ kind[cur] = "DOWNLOAD"
             /\ \E status \in {"OK", "ERR"} : Respond(status)
       \/ sent[cur] # "nothing" /\ Respond("ERR")  \* unknown or invalid
       \/ sent[cur] = "nothing" /\ ~open[cur] /\ Respond("ERR")
    /\ UNCHANGED <<script, run>>

(* Mutant of BodyEnds: the end of the stream is taken for EINTR. *)
BodyEnds_Retried == sent[cur] = "all"

BodyEnds == sent[cur] = "all" \/ ~open[cur]

(* read_exact *)
ReadBody ==
    /\ pc = "body" /\ BodyEnds
    /\ IF sent[cur] = "all"
       THEN pc' = "handle" /\ UNCHANGED <<client, reply, cur>>
       ELSE Respond("ERR")
    /\ UNCHANGED <<script, run>>

(* write_file, of an upload or of the script; EXEC also needs pipes and a fork. *)
Upload ==
    /\ pc = "handle" /\ kind[cur] = "UPLOAD"
    /\ \E status \in {"OK", "ERR"} : Respond(status)
    /\ UNCHANGED <<script, run>>

ExecFails ==
    /\ pc = "handle" /\ kind[cur] = "EXEC" /\ Respond("ERR")
    /\ UNCHANGED <<script, run>>

Fork ==
    /\ Goto("handle", "open") /\ kind[cur] = "EXEC"
    /\ child' = "running"
    /\ UNCHANGED <<client, reply, cur, helper, pipe, written, owed, run>>

(* The script runs by the time its output file is opened, which may fail.   *)
OpenOutput ==
    /\ Goto("open", "drain")
    /\ file' \in BOOLEAN
    /\ UNCHANGED <<client, reply, cur, script, saved, lost, late, timedOut>>

(* drain_available: reads until the pipe is empty at that moment, and does  *)
(* not look at whether the file took a chunk, on a full disk for example.   *)
DrainChunk ==
    /\ pc \in {"drain", "last_drain"} /\ pipe > 0
    /\ pipe' = pipe - 1
    /\ \/ /\ saved' = IF file /\ saved < MaxWrites THEN saved + 1 ELSE saved
          /\ UNCHANGED lost
       \/ file /\ lost' = TRUE /\ UNCHANGED saved
    /\ UNCHANGED <<client, reply, pc, cur, child, helper, written, owed,
                   file, late, timedOut>>

Drained ==
    /\ pipe = 0
    /\ Goto("drain", "poll") \/ Goto("last_drain", "report")
    /\ UNCHANGED <<client, reply, cur, script, run>>

(* Mutant of Poll: nothing is drained once the child has exited. *)
Poll_NoLastDrain ==
    /\ Goto("poll", IF child = "zombie" THEN "report" ELSE "deadline")
    /\ child' = IF child = "zombie" THEN "none" ELSE child
    /\ UNCHANGED <<client, reply, cur, helper, pipe, written, owed, run>>

(* waitpid with WNOHANG *)
Poll ==
    /\ Goto("poll", IF child = "zombie" THEN "last_drain" ELSE "deadline")
    /\ child' = IF child = "zombie" THEN "none" ELSE child
    /\ UNCHANGED <<client, reply, cur, helper, pipe, written, owed, run>>

(* Mutant of Killed: only the child is killed. *)
Killed_ChildOnly(h) == h

(* kill(-child): what is left of a helper that stayed in the group. *)
Killed(h) == IF h = "group" THEN "none" ELSE h

(* After the kill waitpid blocks until the child is reaped. *)
Deadline ==
    /\ \/ ~late /\ Goto("deadline", "drain") /\ UNCHANGED <<child, helper, timedOut>>
       \/ /\ late /\ Goto("deadline", "last_drain")
          /\ timedOut' = TRUE
          /\ child' = "none" /\ helper' = Killed(helper)
    /\ UNCHANGED <<client, reply, cur, pipe, written, owed, saved, file, lost, late>>

(* The pipe is closed: a helper that writes to it again gets SIGPIPE.  The  *)
(* variables of handle_exec end with it.                                    *)
Report ==
    /\ pc = "report" /\ \E status \in {"OK", "ERR"} : Respond(status)
    /\ helper' = "none" /\ pipe' = 0 /\ written' = 0 /\ owed' = 0
    /\ saved' = 0 /\ file' = FALSE /\ lost' = FALSE /\ late' = FALSE /\ timedOut' = FALSE
    /\ UNCHANGED child

Agent ==
    /\ ~blocked
    /\ \/ \E c \in Clients : Accept(c)
       \/ ReadHeader \/ ReadBody \/ Upload \/ ExecFails \/ Fork \/ OpenOutput
       \/ DrainChunk \/ Drained \/ Poll \/ Deadline \/ Report
    /\ left' = (left \/ child' = "running")
    /\ UNCHANGED blocked

-----------------------------------------------------------------------------
(* What scripts, and the processes they left, do to /workspace *)

(* Where the agent opens a path under /workspace, or writes to such a file: *)
(* a download, an upload or script, the output and its copy for the reply.  *)
Opens ==
    \/ pc = "header" /\ kind[cur] = "DOWNLOAD" /\ sent[cur] # "nothing"
    \/ pc \in {"handle", "open", "report"}
    \/ pc \in {"drain", "last_drain"} /\ pipe > 0

(* There is a FIFO, and nobody at its other end. *)
Block ==
    /\ Fifos /\ left /\ Opens /\ ~blocked /\ blocked' = TRUE
    /\ UNCHANGED <<client, reply, pc, cur, script, run, left>>

(* Somebody opens, reads or leaves the other end. *)
Unblock ==
    /\ blocked /\ blocked' = FALSE
    /\ UNCHANGED <<client, reply, pc, cur, script, run, left>>

(* The output file is removed or replaced. *)
ReplaceFile ==
    /\ left /\ file /\ file' = FALSE
    /\ UNCHANGED <<client, reply, pc, cur, script, saved, lost, late, timedOut, world>>

Meddle == Block \/ Unblock \/ ReplaceFile

-----------------------------------------------------------------------------
(* The script and time *)

Write ==
    /\ child = "running" \/ helper # "none"
    /\ pipe < PipeSize /\ (written < MaxWrites \/ Endless)
    /\ pipe' = pipe + 1
    /\ written' = IF written < MaxWrites THEN written + 1 ELSE written
    /\ UNCHANGED <<client, reply, pc, cur, child, helper, owed, run, world>>

(* A background process, in the script's process group or not (setsid). *)
Background ==
    /\ child = "running" /\ helper = "none" /\ helper' \in {"group", "escaped"}
    /\ UNCHANGED <<client, reply, pc, cur, child, pipe, written, owed, run, world>>

HelperExits ==
    /\ helper # "none" /\ helper' = "none"
    /\ UNCHANGED <<client, reply, pc, cur, child, pipe, written, owed, run, world>>

ChildExits ==
    /\ child = "running" /\ child' = "zombie" /\ owed' = written
    /\ UNCHANGED <<client, reply, pc, cur, helper, pipe, written, run, world>>

DeadlinePasses ==
    /\ pc \in {"drain", "poll", "deadline"} /\ ~late /\ late' = TRUE
    /\ UNCHANGED <<client, reply, pc, cur, script, saved, file, lost, timedOut, world>>

Script == Write \/ Background \/ HelperExits \/ ChildExits

Next == \/ \E c \in Clients : Connect(c) \/ Send(c) \/ Close(c)
        \/ Agent \/ Meddle \/ Script \/ DeadlinePasses

(* The agent is scheduled, time passes, and the client's socket timeouts     *)
(* end every connection; a script need not do anything.                     *)
Spec == /\ Init /\ [][Next]_vars
        /\ WF_vars(Agent) /\ WF_vars(DeadlinePasses)
        /\ \A c \in Clients : WF_vars(Close(c))

-----------------------------------------------------------------------------
TypeOK ==
    /\ conn \in [Clients -> {"none", "backlog", "served"}]
    /\ open \in [Clients -> BOOLEAN]
    /\ kind \in [Clients -> Kinds]
    /\ sent \in [Clients -> {"nothing", "header", "all"}]
    /\ reply \in [Clients -> {"none", "OK", "ERR"}]
    /\ pc \in AgentSteps /\ cur \in Clients \cup {None}
    /\ child \in {"none", "running", "zombie"}
    /\ helper \in {"none", "group", "escaped"}
    /\ pipe \in 0 .. PipeSize
    /\ {written, owed, saved} \subseteq 0 .. MaxWrites
    /\ file \in BOOLEAN /\ lost \in BOOLEAN
    /\ late \in BOOLEAN /\ timedOut \in BOOLEAN
    /\ left \in BOOLEAN /\ blocked \in BOOLEAN
    /\ pc = "accept" <=> cur = None

(* A script that was not timed out is reported with all it wrote before it  *)
(* exited, whatever was still in the pipe when waitpid saw it: no chunk is  *)
(* missing from the file the reply is made of, unless the file could not    *)
(* take one or a script took it away.                                       *)
OutputIsComplete ==
    pc = "report" /\ ~timedOut /\ file /\ ~lost => saved >= owed

(* A script is over when its EXEC is reported: the child has been waited    *)
(* for, and after a timeout nothing of its process group is left.           *)
ScriptIsOver ==
    pc \notin {"open", "drain", "poll", "deadline"} =>
        child = "none" /\ (timedOut => helper # "group")

(* Clients that give up anywhere, and scripts that fork, exit or outlive    *)
(* their deadline, do not keep the agent from its next connection: only a   *)
(* script that writes for ever (Endless) does, or one that blocks the agent *)
(* with a FIFO.                                                             *)
AgentComesBack == (pc # "accept") ~> (pc = "accept" \/ blocked)

(* exec_sandboxing/README.md:23: an EXEC has a timeout in seconds, after    *)
(* which its script no longer runs.                                         *)
TimeoutIsEnforced == (late /\ child = "running") ~> (child # "running")

=============================================================================
