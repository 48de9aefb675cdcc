----------------------------- MODULE JobRunner -----------------------------
(***************************************************************************)
(* The isolated Python job runner: the agent in the guest                  *)
(* (examples_usecases/isolated_python_job_runner/rootfs/agent.py) and the  *)
(* host that sends it one request at a time, each over a connection of its *)
(* own (VsockTunnel, wait_for_agent and _run_code in main.py).             *)
(*                                                                         *)
(* Both sides keep a timer: the host gives up on a socket operation after  *)
(* HostTimeout, the agent kills a job after JobTimeout.  A host that gave  *)
(* up goes on to its next request while the agent is still busy with the   *)
(* last one, and an agent that cannot deliver its error frame ends, and    *)
(* with it /init.  /workspace/code is shared by all jobs: what they leave  *)
(* there matters here only if it is a FIFO, which blocks the agent.        *)
(***************************************************************************)
EXTENDS Naturals

CONSTANTS
    Conns, None,
    HostTimeout,    \* VsockTunnel.timeout, in ticks
    JobTimeout      \* timeout_seconds of a job, in ticks

ASSUME TimeoutsAreNatural == HostTimeout \in Nat /\ JobTimeout \in Nat
ASSUME NoneIsNoConnection == None \notin Conns

VARIABLES
    \* the host
    phase,      \* "probe" in wait_for_agent, "serve" in the TUI, "stopped"
    host,       \* the connection whose answer it waits for
    asked,      \* which request that is; requests are told apart by turns
    op,         \* the socket operation it is in
    waited,     \* how long that has taken
    abandoned,  \* history: it gave up on a request
    \* connections
    open,       \* the host's end is open
    conn,       \* the guest's end: "none", in the "backlog", or "served"
    arrived,    \* the request has arrived
    request,    \* what was asked, and by which turn
    frame,      \* the response that arrived at the host's end
    \* the agent
    pc, cur,    \* where serve() is, and the connection it serves
    answer,     \* what handle() returned
    child,      \* the command's process
    helper,     \* a process of the command that holds its output open
    ran,        \* how long the command has been running
    left,       \* a job has run, and may have left files and processes
    blocked     \* the agent is opening a FIFO

hostVars == <<phase, host, asked, op, waited, abandoned>>
connVars == <<open, conn, arrived, request, frame>>
job == <<child, helper, ran>>
guest == <<left, blocked>>
vars == <<hostVars, connVars, pc, cur, answer, job, guest>>

Turns == {0, 1}
Requests == [type : {"healthcheck", "run_code"}, turn : Turns]
Frames == [type : {"ok", "command_result", "error"}, turn : Turns]
NoRequest == [type |-> "healthcheck", turn |-> 0]

Init ==
    /\ phase = "probe" /\ host = None /\ asked = 0 /\ waited = 0
    /\ op = "connect" /\ abandoned = FALSE
    /\ open = [c \in Conns |-> FALSE] /\ conn = [c \in Conns |-> "none"]
    /\ arrived = [c \in Conns |-> FALSE]
    /\ request = [c \in Conns |-> NoRequest]
    /\ frame = [c \in Conns |-> None]
    /\ pc = "accept" /\ cur = None /\ answer = "ok"
    /\ child = "none" /\ helper = FALSE /\ ran = 0
    /\ left = FALSE /\ blocked = FALSE

Lesser(a, b) == IF a < b THEN a ELSE b

-----------------------------------------------------------------------------
(* The host *)

(* Mutant of NewSocket: one client is kept, with what it received late. *)
NewSocket_Kept(c) == frame

(* Every request has a client, and a socket, of its own. *)
NewSocket(c) == [frame EXCEPT ![c] = None]

(* wait_for_agent probes, whatever a probe ends with, until the agent is    *)
(* healthy; from then on the user runs code.                                *)
NextRequest ==
    [type |-> IF phase = "probe" THEN "healthcheck" ELSE "run_code",
     turn |-> 1 - asked]

(* Every operation has the whole of the socket's timeout. *)
Operation(from, to) == op = from /\ op' = to /\ waited' = 0

(* A new request: the guest's kernel accepts it into the backlog, busy as   *)
(* the agent may be.                                                        *)
Connect(c) ==
    /\ phase # "stopped" /\ pc # "dead"
    /\ host = None /\ ~open[c] /\ conn[c] = "none"
    /\ host' = c /\ asked' = 1 - asked /\ op' = "connect" /\ waited' = 0
    /\ open' = [open EXCEPT ![c] = TRUE]
    /\ conn' = [conn EXCEPT ![c] = "backlog"]
    /\ arrived' = [arrived EXCEPT ![c] = FALSE]
    /\ request' = [request EXCEPT ![c] = NextRequest]
    /\ frame' = NewSocket(c)
    /\ UNCHANGED <<phase, abandoned, pc, cur, answer, job, guest>>

(* The OK line of the handshake has come. *)
Connected ==
    /\ host # None /\ Operation("connect", "send")
    /\ UNCHANGED <<phase, host, asked, abandoned, connVars, pc, cur, answer, job, guest>>

Send ==
    /\ host # None /\ Operation("send", "header")
    /\ arrived' = [arrived EXCEPT ![host] = TRUE]
    /\ UNCHANGED <<phase, host, asked, abandoned, open, conn, request, frame,
                   pc, cur, answer, job, guest>>

(* The length of a frame whose rest is still on its way. *)
ReceiveHeader ==
    /\ host # None /\ host = cur /\ pc \in {"write", "error"}
    /\ Operation("header", "body")
    /\ UNCHANGED <<phase, host, asked, abandoned, connVars, pc, cur, answer, job, guest>>

Hangup == /\ host' = None
          /\ open' = [open EXCEPT ![host] = FALSE]

(* The TUI starts with the first healthy answer. *)
Receive ==
    /\ host # None /\ frame[host] # None
    /\ Hangup
    /\ phase' = IF frame[host].type = "ok" THEN "serve" ELSE phase
    /\ UNCHANGED <<asked, op, waited, abandoned, conn, arrived, request, frame,
                   pc, cur, answer, job, guest>>

(* Mutant of GiveUp: the socket has no timeout. *)
GiveUp_Never ==
    /\ host # None /\ frame[host] = None /\ waited > HostTimeout
    /\ Hangup /\ abandoned' = TRUE
    /\ UNCHANGED <<phase, asked, op, waited, conn, arrived, request, frame,
                   pc, cur, answer, job, guest>>

(* The socket's timeout, in whichever operation. *)
GiveUp ==
    /\ host # None /\ frame[host] = None /\ waited = HostTimeout
    /\ Hangup /\ abandoned' = TRUE
    /\ UNCHANGED <<phase, asked, op, waited, conn, arrived, request, frame,
                   pc, cur, answer, job, guest>>

(* The guest went down. *)
Dropped ==
    /\ host # None /\ frame[host] = None /\ pc = "dead"
    /\ Hangup
    /\ UNCHANGED <<phase, asked, op, waited, abandoned, conn, arrived, request, frame,
                   pc, cur, answer, job, guest>>

(* The user quits, or wait_for_agent's deadline passes between two probes:  *)
(* main() stops the VM.                                                     *)
Quit ==
    /\ phase # "stopped" /\ host = None
    /\ phase' = "stopped"
    /\ pc' = "dead" /\ cur' = None /\ child' = "none" /\ helper' = FALSE
    /\ blocked' = FALSE
    /\ conn' = [c \in Conns |-> "none"]
    /\ UNCHANGED <<host, asked, op, waited, abandoned, open, arrived, request, frame,
                   answer, ran, left>>

HostReturns == Receive \/ GiveUp \/ Dropped

-----------------------------------------------------------------------------
(* serve() *)

Goto(from, to) == pc = from /\ pc' = to

Accept(c) ==
    /\ Goto("accept", "read")
    /\ conn[c] = "backlog" /\ conn' = [conn EXCEPT ![c] = "served"]
    /\ cur' = c
    /\ UNCHANGED <<hostVars, open, arrived, request, frame, answer, job>>

(* read_frame waits for the frame or for the end of the stream. *)
ReadFrame ==
    /\ pc = "read"
    /\ \/ arrived[cur] /\ pc' = "handle"
       \/ ~arrived[cur] /\ ~open[cur] /\ pc' = "error"
    /\ UNCHANGED <<hostVars, connVars, cur, answer, job>>

Healthcheck ==
    /\ Goto("handle", "write") /\ request[cur].type = "healthcheck"
    /\ answer' = "ok"
    /\ UNCHANGED <<hostVars, connVars, cur, job>>

(* run_code and run_command, up to the start of the process. *)
RunCommand ==
    /\ Goto("handle", "run") /\ request[cur].type = "run_code"
    /\ child' = "running" /\ ran' = 0
    /\ UNCHANGED <<hostVars, connVars, cur, answer, helper>>

(* The request is not valid, or writing the files or starting the process   *)
(* raises.                                                                  *)
RunCommandFails ==
    /\ Goto("handle", "error") /\ request[cur].type = "run_code"
    /\ UNCHANGED <<hostVars, connVars, cur, answer, job>>

(* subprocess.run returns once the process ended and nobody holds its       *)
(* output open any more; output that is not text raises.                    *)
Completed ==
    /\ pc = "run" /\ child = "exited" /\ ~helper
    /\ pc' \in {"write", "error"}
    /\ answer' = "command_result" /\ child' = "none"
    /\ UNCHANGED <<hostVars, connVars, cur, helper, ran>>

(* Mutant of TimeoutExpired: the timeout is not passed to subprocess.run. *)
TimeoutExpired_Never ==
    /\ pc = "run" /\ ran > JobTimeout
    /\ pc' = "error" /\ child' = "none" /\ helper' = FALSE
    /\ UNCHANGED <<hostVars, connVars, cur, answer, ran>>

(* The process is killed and waited for, but not what it left running,      *)
(* which keeps its output open out of the agent's sight.                    *)
TimeoutExpired ==
    /\ pc = "run" /\ ran = JobTimeout
    /\ pc' = "error" /\ child' = "none" /\ helper' = FALSE
    /\ UNCHANGED <<hostVars, connVars, cur, answer, ran>>

(* Mutant of Deliver: the connection is not closed. *)
Deliver_NotClosed(type) ==
    /\ frame' = [frame EXCEPT ![cur] =
          IF open[cur] THEN [type |-> type, turn |-> request[cur].turn] ELSE @]
    /\ pc' = "accept" /\ cur' = None
    /\ UNCHANGED conn

(* A frame is delivered, and the connection closed. *)
Deliver(type) ==
    /\ frame' = [frame EXCEPT ![cur] =
          IF open[cur] THEN [type |-> type, turn |-> request[cur].turn] ELSE @]
    /\ conn' = [conn EXCEPT ![cur] = "none"]
    /\ pc' = "accept" /\ cur' = None

(* Writing to a connection whose other end is closed raises once the guest  *)
(* has heard of it.                                                         *)
WriteFrame ==
    /\ pc = "write"
    /\ \/ Deliver(answer)
       \/ ~open[cur] /\ pc' = "error" /\ UNCHANGED <<frame, conn, cur>>
    /\ UNCHANGED <<hostVars, open, arrived, request, answer, job>>

(* Mutant of WriteError: nothing is sent in the except clause. *)
WriteError_Raises ==
    /\ pc = "error"
    /\ pc' = "dead" /\ conn' = [conn EXCEPT ![cur] = "none"] /\ cur' = None
    /\ UNCHANGED <<hostVars, open, arrived, request, frame, answer, job>>

(* Nobody catches what is raised inside the except clause: the agent ends,  *)
(* and /init with it.                                                       *)
WriteError ==
    /\ pc = "error"
    /\ \/ Deliver("error")
       \/ /\ ~open[cur]
          /\ pc' = "dead" /\ conn' = [conn EXCEPT ![cur] = "none"] /\ cur' = None
          /\ UNCHANGED frame
    /\ UNCHANGED <<hostVars, open, arrived, request, answer, job>>

Agent ==
    /\ ~blocked
    /\ \/ \E c \in Conns : Accept(c)
       \/ ReadFrame \/ Healthcheck \/ RunCommand \/ RunCommandFails
       \/ Completed \/ TimeoutExpired \/ WriteFrame \/ WriteError
    /\ left' = (left \/ child' = "running")
    /\ UNCHANGED blocked

(* rmtree ignores its errors, and processes of earlier jobs may put back    *)
(* what it removed: safe_write_files opens a FIFO that nobody reads.        *)
Block ==
    /\ left /\ ~blocked /\ blocked' = TRUE
    /\ pc = "handle" /\ request[cur].type = "run_code"
    /\ UNCHANGED <<hostVars, connVars, pc, cur, answer, job, left>>

Unblock ==
    /\ blocked /\ blocked' = FALSE
    /\ UNCHANGED <<hostVars, connVars, pc, cur, answer, job, left>>

-----------------------------------------------------------------------------
(* The command and time *)

ChildExits ==
    /\ child = "running" /\ child' = "exited"
    /\ UNCHANGED <<hostVars, connVars, pc, cur, answer, helper, ran, guest>>

HelperChanges ==
    /\ helper \/ child = "running"
    /\ helper' = ~helper
    /\ UNCHANGED <<hostVars, connVars, pc, cur, answer, child, ran, guest>>

Tick ==
    /\ waited' = IF host = None THEN waited ELSE Lesser(waited + 1, HostTimeout)
    /\ ran' = IF child = "none" THEN ran ELSE Lesser(ran + 1, JobTimeout)
    /\ UNCHANGED <<phase, host, asked, op, abandoned, connVars, pc, cur, answer,
                   child, helper, guest>>

Next == \/ \E c \in Conns : Connect(c)
        \/ Connected \/ Send \/ ReceiveHeader \/ HostReturns \/ Quit
        \/ Agent \/ Block \/ Unblock
        \/ ChildExits \/ HelperChanges \/ Tick

(* The host and the agent are scheduled and time passes; a command need not *)
(* do anything and the user need not ask for anything.                      *)
Spec == Init /\ [][Next]_vars /\ WF_vars(HostReturns) /\ WF_vars(Agent) /\ WF_vars(Tick)

-----------------------------------------------------------------------------
TypeOK ==
    /\ phase \in {"probe", "serve", "stopped"}
    /\ host \in Conns \cup {None} /\ asked \in Turns
    /\ op \in {"connect", "send", "header", "body"}
    /\ waited \in 0 .. HostTimeout /\ abandoned \in BOOLEAN
    /\ open \in [Conns -> BOOLEAN]
    /\ conn \in [Conns -> {"none", "backlog", "served"}]
    /\ arrived \in [Conns -> BOOLEAN]
    /\ request \in [Conns -> Requests]
    /\ frame \in [Conns -> Frames \cup {None}]
    /\ pc \in {"accept", "read", "handle", "run", "write", "error", "dead"}
    /\ cur \in Conns \cup {None}
    /\ answer \in {"ok", "command_result", "error"}
    /\ child \in {"none", "running", "exited"} /\ helper \in BOOLEAN
    /\ ran \in 0 .. JobTimeout
    /\ left \in BOOLEAN /\ blocked \in BOOLEAN
    /\ pc \in {"accept", "dead"} <=> cur = None
    /\ \A c \in Conns : conn[c] = "served" <=> c = cur

(* The guest goes down on its own only when the host gave up on a request   *)
(* before: no job, however it fails, exits or times out, ends the agent     *)
(* while the host keeps listening.                                          *)
DiesOnlyWhenAbandoned == pc = "dead" => phase = "stopped" \/ abandoned

(* The answer at the host's end is to the request it made last, although    *)
(* answers to requests it gave up on may still be written.                  *)
AnswerIsOwn ==
    host # None /\ frame[host] # None => frame[host].turn = asked

(* The host is never stuck in a request. *)
HostComesBack == host # None ~> host = None

(* The agent goes back to its next connection, or down, unless a job made   *)
(* it block on a FIFO.                                                      *)
AgentComesBack == pc # "accept" ~> pc \in {"accept", "dead"} \/ blocked

=============================================================================
