-------------------------- MODULE JobRunner_proofs --------------------------
(***************************************************************************)
(* Proofs about the job runner, for any number of connections and any      *)
(* timeouts.                                                               *)
(*                                                                         *)
(* The guest dies only when an error frame cannot be written, that is on a *)
(* connection whose host end is closed while the agent still has it; a     *)
(* host that got its answer leaves no such connection, because the agent   *)
(* closes its own end with the answer.  The host is never stuck, because   *)
(* each of its four socket operations has a timer; the agent only on a     *)
(* FIFO: the host's hanging up ends its reading, and the job's timer its   *)
(* job.                                                                    *)
(***************************************************************************)
EXTENDS JobRunner, TLAPS

(* What the host knows of the connection it waits on. *)
HostWaits ==
    \A c \in Conns : host = c =>
        /\ open[c] /\ request[c].turn = asked
        /\ frame[c] # None => conn[c] = "none" /\ frame[c].turn = asked

(* Only a host that gave up leaves a connection to the agent alone. *)
Deserted == \A c \in Conns : conn[c] # "none" /\ ~open[c] => abandoned

StoppedIsIdle == phase = "stopped" => host = None

IInv == TypeOK /\ HostWaits /\ Deserted /\ StoppedIsIdle
               /\ DiesOnlyWhenAbandoned

-----------------------------------------------------------------------------
LEMMA InitIInv == Init => IInv
<1> SUFFICES ASSUME Init PROVE IInv
  OBVIOUS
<1> USE TimeoutsAreNatural, NoneIsNoConnection DEF Init, NoRequest, Requests, Turns
<1>1. TypeOK
  <2>1. /\ open \in [Conns -> BOOLEAN] /\ arrived \in [Conns -> BOOLEAN]
        /\ conn \in [Conns -> {"none", "backlog", "served"}]
        /\ frame \in [Conns -> Frames \cup {None}]
    OBVIOUS
  <2>2. request \in [Conns -> Requests]
    OBVIOUS
  <2>3. waited \in 0 .. HostTimeout /\ ran \in 0 .. JobTimeout
    OBVIOUS
  <2> QED BY <2>1, <2>2, <2>3 DEF TypeOK
<1>2. HostWaits /\ Deserted /\ StoppedIsIdle
  BY DEF HostWaits, Deserted, StoppedIsIdle
<1>3. DiesOnlyWhenAbandoned
  BY DEF DiesOnlyWhenAbandoned
<1> QED BY <1>1, <1>2, <1>3 DEF IInv

(* The steps of the host. *)
LEMMA HostKeepsIInv ==
    ASSUME IInv, \/ \E c \in Conns : Connect(c)
                 \/ Connected \/ Send \/ ReceiveHeader \/ HostReturns \/ Quit
    PROVE  IInv'
<1> USE TimeoutsAreNatural, NoneIsNoConnection
    DEF IInv, TypeOK, HostWaits, Deserted, StoppedIsIdle, DiesOnlyWhenAbandoned,
        guest, Turns, Requests, hostVars, connVars, job
<1>1. ASSUME NEW c \in Conns, Connect(c) PROVE IInv'
  <2>1. c # cur
    BY <1>1 DEF Connect, NextRequest
  <2>2. asked' \in Turns
    BY <1>1 DEF Connect, NextRequest
  <2> QED BY <1>1, <2>1, <2>2 DEF Connect, NextRequest, NewSocket
<1>2. CASE Connected \/ Send \/ ReceiveHeader
  <2>1. CASE Connected
    BY <2>1 DEF Connected, Operation
  <2>2. CASE Send
    BY <2>2 DEF Send, Operation
  <2>3. CASE ReceiveHeader
    BY <2>3 DEF ReceiveHeader, Operation
  <2> QED BY <1>2, <2>1, <2>2, <2>3
<1>3. CASE Receive
  <2>1. conn[host] = "none"
    BY <1>3 DEF Receive
  <2> QED BY <1>3, <2>1 DEF Receive, Hangup
<1>4. CASE GiveUp
  BY <1>4 DEF GiveUp, Hangup
<1>5. CASE Dropped
  <2>1. abandoned
    BY <1>5 DEF Dropped
  <2> QED BY <1>5, <2>1 DEF Dropped, Hangup
<1>6. CASE Quit
  BY <1>6 DEF Quit
<1> QED BY <1>1, <1>2, <1>3, <1>4, <1>5, <1>6 DEF HostReturns

(* A delivered frame answers the request of its connection and closes it. *)
LEMMA DeliverKeepsIInv ==
    ASSUME IInv, cur # None, pc # "run", NEW type \in {"ok", "command_result", "error"},
           Deliver(type),
           UNCHANGED <<hostVars, open, arrived, request, answer, job, blocked>>,
           left' = TRUE \/ left' = left
    PROVE  IInv'
<1> USE TimeoutsAreNatural, NoneIsNoConnection
    DEF IInv, TypeOK, HostWaits, Deserted, StoppedIsIdle, DiesOnlyWhenAbandoned,
        guest, hostVars, job, Deliver
<1>1. request[cur].turn \in Turns
  BY DEF Requests
<1>2. frame' \in [Conns -> Frames \cup {None}]
  BY <1>1 DEF Frames
<1>3. TypeOK'
  BY <1>2
<1>4. HostWaits'
  OBVIOUS
<1>5. Deserted' /\ StoppedIsIdle' /\ DiesOnlyWhenAbandoned'
  OBVIOUS
<1> QED BY <1>3, <1>4, <1>5

(* The steps of the agent. *)
LEMMA AgentKeepsIInv ==
    ASSUME IInv, Agent
    PROVE  IInv'
<1> USE TimeoutsAreNatural, NoneIsNoConnection DEF Goto
<1>0. /\ left' \in BOOLEAN /\ blocked' = blocked
      /\ left' = TRUE \/ left' = left
  <2>1. left \in BOOLEAN /\ left' = (left \/ child' = "running") /\ UNCHANGED blocked
    BY DEF IInv, TypeOK, Agent
  <2>. QED BY <2>1
<1>1. ASSUME NEW c \in Conns, Accept(c) PROVE IInv'
  BY <1>0, <1>1 DEF IInv, TypeOK, HostWaits, Deserted, StoppedIsIdle,
              DiesOnlyWhenAbandoned, guest, hostVars, job, Accept
<1>2. CASE ReadFrame \/ Healthcheck \/ RunCommand \/ RunCommandFails
           \/ Completed \/ TimeoutExpired
  <2> USE DEF IInv, TypeOK, HostWaits, Deserted, StoppedIsIdle, DiesOnlyWhenAbandoned,
              guest, hostVars, connVars, job
  <2>1. CASE ReadFrame
    BY <1>0, <2>1 DEF ReadFrame
  <2>2. CASE Healthcheck
    BY <1>0, <2>2 DEF Healthcheck
  <2>3. CASE RunCommand
    BY <1>0, <2>3 DEF RunCommand
  <2>4. CASE RunCommandFails
    BY <1>0, <2>4 DEF RunCommandFails
  <2>5. CASE Completed
    BY <1>0, <2>5 DEF Completed
  <2>6. CASE TimeoutExpired
    BY <1>0, <2>6 DEF TimeoutExpired
  <2> QED BY <1>2, <2>1, <2>2, <2>3, <2>4, <2>5, <2>6
<1>3. CASE WriteFrame
  <2>1. CASE Deliver(answer)
    <3>1. cur # None /\ pc # "run" /\ answer \in {"ok", "command_result", "error"}
      BY <1>3 DEF IInv, TypeOK, WriteFrame
    <3> QED BY <1>0, <1>3, <2>1, <3>1, DeliverKeepsIInv DEF WriteFrame
  <2>2. CASE ~Deliver(answer)
    BY <1>0, <1>3, <2>2 DEF IInv, TypeOK, HostWaits, Deserted, StoppedIsIdle,
              DiesOnlyWhenAbandoned, guest, hostVars, job, WriteFrame
  <2> QED BY <2>1, <2>2
<1>4. CASE WriteError
  <2>1. CASE Deliver("error")
    <3>1. cur # None /\ pc # "run"
      BY <1>4 DEF IInv, TypeOK, WriteError
    <3> QED BY <1>0, <1>4, <2>1, <3>1, DeliverKeepsIInv DEF WriteError
  <2>2. CASE ~Deliver("error")
    <3>1. abandoned /\ cur \in Conns
      BY <1>4, <2>2 DEF IInv, TypeOK, Deserted, WriteError
    <3> QED BY <1>0, <1>4, <2>2, <3>1 DEF IInv, TypeOK, HostWaits, Deserted, StoppedIsIdle,
              DiesOnlyWhenAbandoned, guest, hostVars, job, WriteError
  <2> QED BY <2>1, <2>2
<1> QED BY <1>1, <1>2, <1>3, <1>4 DEF Agent

LEMMA NextIInv == IInv /\ [Next]_vars => IInv'
<1> SUFFICES ASSUME IInv, [Next]_vars PROVE IInv'
  OBVIOUS
<1>1. CASE UNCHANGED vars \/ ChildExits \/ HelperChanges \/ Block \/ Unblock
  <2> USE DEF IInv, TypeOK, HostWaits, Deserted, StoppedIsIdle, DiesOnlyWhenAbandoned,
              guest, hostVars, connVars, job
  <2>1. CASE UNCHANGED vars
    BY <2>1 DEF vars
  <2>2. CASE ChildExits
    BY <2>2 DEF ChildExits
  <2>3. CASE HelperChanges
    BY <2>3 DEF HelperChanges
  <2>4. CASE Block \/ Unblock
    <3>1. blocked' \in BOOLEAN
      BY <2>4, Zenon DEF Block, Unblock
    <3>2. UNCHANGED <<hostVars, connVars, pc, cur, answer, job, left>>
      BY <2>4 DEF Block, Unblock
    <3> HIDE <2>4
    <3> QED BY <3>1, <3>2
  <2> QED BY <1>1, <2>1, <2>2, <2>3, <2>4
<1>2. CASE Tick
  <2>1. waited' \in 0 .. HostTimeout /\ ran' \in 0 .. JobTimeout
    BY <1>2, TimeoutsAreNatural DEF IInv, TypeOK, Tick, Lesser
  <2> QED
    BY <1>2, <2>1 DEF IInv, TypeOK, HostWaits, Deserted, StoppedIsIdle,
              DiesOnlyWhenAbandoned, connVars, guest, Tick
<1> QED BY <1>1, <1>2, HostKeepsIInv, AgentKeepsIInv DEF Next

-----------------------------------------------------------------------------
(* The variables keep their types, and the agent holds one connection       *)
(* exactly while it serves.                                                 *)
THEOREM TypeCorrect == Spec => []TypeOK
<1>1. IInv => TypeOK
  BY DEF IInv
<1> QED BY <1>1, InitIInv, NextIInv, PTL DEF Spec

(* No job ends the guest while the host listens, whatever it does. *)
THEOREM SurvivesJobs == Spec => []DiesOnlyWhenAbandoned
<1>1. IInv => DiesOnlyWhenAbandoned
  BY DEF IInv
<1> QED BY <1>1, InitIInv, NextIInv, PTL DEF Spec

(* No late answer is taken for another request's. *)
THEOREM AnswersAreOwn == Spec => []AnswerIsOwn
<1>1. IInv => AnswerIsOwn
  BY NoneIsNoConnection DEF IInv, TypeOK, HostWaits, AnswerIsOwn
<1> QED BY <1>1, InitIInv, NextIInv, PTL DEF Spec

-----------------------------------------------------------------------------
(***************************************************************************)
(* Liveness.  The prover cannot expand the ENABLED in Spec's fairness, and  *)
(* that a timer reaches an arbitrary timeout is an induction over time: the *)
(* hypotheses, which TLC can check, say when a host and an agent can go on, *)
(* and that timers expire.                                                  *)
(***************************************************************************)
HostReady ==
    host # None /\ (frame[host] # None \/ waited = HostTimeout \/ pc = "dead")
HostCanReturn == HostReady => ENABLED <<HostReturns>>_vars

AgentReady ==
    /\ ~blocked
    /\ \/ pc = "accept" /\ \E c \in Conns : conn[c] = "backlog"
       \/ pc = "read" /\ (arrived[cur] \/ ~open[cur])
       \/ pc = "run" /\ (ran = JobTimeout \/ (child = "exited" /\ ~helper))
       \/ pc \in {"handle", "write", "error"}
AgentCanStep == AgentReady => ENABLED <<Agent>>_vars

TimersExpire == /\ []<>(host = None \/ waited = HostTimeout)
                /\ []<>(pc # "run" \/ ran = JobTimeout)

(* The host's end of a connection is open only while the host waits there. *)
OpenIsAwaited == \A c \in Conns : open[c] => host = c
ServeInv == IInv /\ OpenIsAwaited

LEMMA InitServeInv == Init => ServeInv
<1>1. Init => OpenIsAwaited
  BY DEF Init, OpenIsAwaited
<1>. QED BY <1>1, InitIInv DEF ServeInv

LEMMA NextServeInv == ServeInv /\ [Next]_vars => ServeInv'
<1> SUFFICES ASSUME ServeInv, [Next]_vars PROVE OpenIsAwaited'
  BY NextIInv DEF ServeInv
<1>1. open \in [Conns -> BOOLEAN]
  BY DEF ServeInv, IInv, TypeOK
<1> USE DEF ServeInv, OpenIsAwaited
<1>2. ASSUME NEW c \in Conns, Connect(c) PROVE OpenIsAwaited'
  BY <1>1, <1>2, NoneIsNoConnection DEF Connect
<1>3. CASE HostReturns
  BY <1>1, <1>3, NoneIsNoConnection DEF HostReturns, Receive, GiveUp, Dropped, Hangup
<1>4. CASE Agent
  BY <1>4 DEF Agent, Accept, ReadFrame, Healthcheck, RunCommand, RunCommandFails, Completed,
              TimeoutExpired, WriteFrame, WriteError, hostVars, connVars
<1>5. CASE Connected \/ Send \/ ReceiveHeader \/ Quit \/ ChildExits \/ HelperChanges
           \/ Block \/ Unblock \/ Tick \/ UNCHANGED vars
  BY <1>5 DEF Connected, Send, ReceiveHeader, Quit, ChildExits, HelperChanges, Block, Unblock, Tick,
              vars, hostVars, connVars
<1>. QED BY <1>2, <1>3, <1>4, <1>5 DEF Next

-----------------------------------------------------------------------------
(* A request goes through four operations, each with the whole timeout.  A  *)
(* host whose timer ran out stays ready unless the operation ends after all. *)
In(o) == host # None /\ op = o
Late(o) == In(o) /\ waited = HostTimeout
HostIsBack == host = None
Connecting == In("connect")
Sending == In("send")
AwaitingHeader == In("header")
AwaitingBody == In("body")
LateConnecting == Late("connect")
LateSending == Late("send")
LateForHeader == Late("header")
LateForBody == Late("body")

LEMMA OperationsFollow ==
    ASSUME IInv, [Next]_vars, host # None
    PROVE  \/ host' = None
           \/ host' = host /\ op' = op
              /\ (waited = HostTimeout => waited' = HostTimeout)
           \/ /\ host' = host
              /\ <<op, op'>> \in {<<"connect", "send">>, <<"send", "header">>,
                                  <<"header", "body">>}
<1> USE TimeoutsAreNatural DEF IInv, TypeOK
<1>1. ASSUME NEW c \in Conns, Connect(c) PROVE FALSE
  BY <1>1 DEF Connect
<1>2. CASE HostReturns
  BY <1>2 DEF HostReturns, Receive, GiveUp, Dropped, Hangup
<1>3. CASE Agent
  BY <1>3 DEF Agent, Accept, ReadFrame, Healthcheck, RunCommand, RunCommandFails, Completed,
              TimeoutExpired, WriteFrame, WriteError, hostVars, connVars
<1>4. CASE Connected \/ Send \/ ReceiveHeader
  BY <1>4 DEF Connected, Send, ReceiveHeader, Operation
<1>5. CASE Quit \/ ChildExits \/ HelperChanges \/ Block \/ Unblock \/ UNCHANGED vars
  BY <1>5 DEF Quit, ChildExits, HelperChanges, Block, Unblock, vars, hostVars
<1>6. CASE Tick
  BY <1>6 DEF Tick, Lesser
<1>. QED BY <1>1, <1>2, <1>3, <1>4, <1>5, <1>6 DEF Next

(* The host is never stuck in a request, whatever the agent, the guest and  *)
(* the command do: the timers of its own operations are enough.             *)
THEOREM HostsComeBack == Spec /\ []HostCanReturn /\ TimersExpire => HostComesBack
<1>1. IInv /\ [Next]_vars =>
        /\ Connecting => Connecting' \/ Sending' \/ HostIsBack'
        /\ LateConnecting => LateConnecting' \/ Sending' \/ HostIsBack'
        /\ Sending => Sending' \/ AwaitingHeader' \/ HostIsBack'
        /\ LateSending => LateSending' \/ AwaitingHeader' \/ HostIsBack'
        /\ AwaitingHeader => AwaitingHeader' \/ AwaitingBody' \/ HostIsBack'
        /\ LateForHeader => LateForHeader' \/ AwaitingBody' \/ HostIsBack'
        /\ AwaitingBody => AwaitingBody' \/ HostIsBack'
        /\ LateForBody => LateForBody' \/ HostIsBack'
  BY OperationsFollow
     DEF HostIsBack, In, Late, Connecting, Sending, AwaitingHeader, AwaitingBody,
         LateConnecting, LateSending, LateForHeader, LateForBody
<1>2. <<HostReturns>>_vars => HostIsBack'
  BY DEF HostReturns, Receive, GiveUp, Dropped, Hangup, HostIsBack
<1>3. LateConnecting \/ LateSending \/ LateForHeader \/ LateForBody => HostReady
  BY DEF LateConnecting, LateSending, LateForHeader, LateForBody, Late, In, HostReady
<1>4. host = None \/ waited = HostTimeout =>
        \/ HostIsBack
        \/ /\ Connecting => LateConnecting
           /\ Sending => LateSending
           /\ AwaitingHeader => LateForHeader
           /\ AwaitingBody => LateForBody
  BY DEF HostIsBack, In, Late, Connecting, Sending, AwaitingHeader, AwaitingBody,
         LateConnecting, LateSending, LateForHeader, LateForBody
<1>5. IInv => HostIsBack \/ Connecting \/ Sending \/ AwaitingHeader \/ AwaitingBody
  BY DEF IInv, TypeOK, HostIsBack, In, Connecting, Sending, AwaitingHeader, AwaitingBody
<1>6. HostIsBack <=> host = None
  BY DEF HostIsBack
<1>. QED BY InitIInv, NextIInv, <1>1, <1>2, <1>3, <1>4, <1>5, <1>6, PTL
         DEF Spec, HostCanReturn, TimersExpire, HostComesBack

-----------------------------------------------------------------------------
(* The agent's way back. *)
Reading == pc = "read"
Readable == Reading /\ (arrived[cur] \/ ~open[cur])
Running == pc = "run"
Overdue == Running /\ ran = JobTimeout
Handling == pc = "handle"
Writing == pc = "write"
Failing == pc = "error"
Done == pc \in {"accept", "dead"}
OnFifo == blocked

(* The agent alone moves itself on, but for the end of the VM. *)
LEMMA AgentMovesItself ==
    ASSUME IInv, [Next]_vars, ~Agent
    PROVE  UNCHANGED <<pc, cur>> \/ Done'
<1>. USE DEF Done
<1>1. ASSUME NEW c \in Conns, Connect(c) PROVE UNCHANGED <<pc, cur>>
  BY <1>1 DEF Connect
<1>2. CASE HostReturns \/ Connected \/ Send \/ ReceiveHeader
  BY <1>2 DEF HostReturns, Receive, GiveUp, Dropped, Connected, Send, ReceiveHeader
<1>3. CASE Quit
  BY <1>3 DEF Quit
<1>4. CASE ChildExits \/ HelperChanges \/ Block \/ Unblock \/ Tick \/ UNCHANGED vars
  BY <1>4 DEF ChildExits, HelperChanges, Block, Unblock, Tick, vars
<1>. QED BY <1>1, <1>2, <1>3, <1>4 DEF Next

(* Each step of the agent's is a later one. *)
LEMMA AgentAdvances ==
    ASSUME IInv, Agent
    PROVE  /\ pc = "read" => pc' \in {"handle", "error"}
           /\ pc = "handle" => pc' \in {"run", "write", "error"}
           /\ pc = "run" => pc' \in {"write", "error"}
           /\ pc = "write" => pc' \in {"accept", "error"}
           /\ pc = "error" => pc' \in {"accept", "dead"}
  BY DEF Agent, Accept, ReadFrame, Healthcheck, RunCommand, RunCommandFails, Completed,
         TimeoutExpired, WriteFrame, WriteError, Deliver, Goto

(* What the agent waits for, once there, stays. *)
LEMMA ReadableStays ==
    ASSUME IInv, [Next]_vars, ~Agent, Readable
    PROVE  Readable' \/ Done'
<1>1. CASE Done' BY <1>1
<1>2. CASE UNCHANGED <<pc, cur>>
  <2> USE <1>2 DEF Readable, Reading, IInv, TypeOK
  <2>0. cur \in Conns /\ cur # None /\ conn[cur] = "served"
    BY NoneIsNoConnection
  <2>1. ASSUME NEW c \in Conns, Connect(c) PROVE Readable'
    BY <2>0, <2>1 DEF Connect
  <2>2. CASE HostReturns \/ Connected \/ Send \/ ReceiveHeader
    BY <2>0, <2>2 DEF HostReturns, Receive, GiveUp, Dropped, Hangup, Connected, Send, ReceiveHeader, connVars
  <2>3. CASE Quit
    BY <2>3 DEF Quit
  <2>4. CASE ChildExits \/ HelperChanges \/ Block \/ Unblock \/ Tick \/ UNCHANGED vars
    BY <2>4 DEF ChildExits, HelperChanges, Block, Unblock, Tick, vars, connVars
  <2>. QED BY <2>1, <2>2, <2>3, <2>4 DEF Next
<1>. QED BY <1>1, <1>2, AgentMovesItself

LEMMA OverdueStays ==
    ASSUME IInv, [Next]_vars, ~Agent, Overdue
    PROVE  Overdue' \/ Done'
<1>1. CASE Done' BY <1>1
<1>2. CASE UNCHANGED <<pc, cur>>
  <2> USE <1>2, TimeoutsAreNatural DEF Overdue, Running, IInv, TypeOK
  <2>1. ASSUME NEW c \in Conns, Connect(c) PROVE Overdue'
    BY <2>1 DEF Connect, job
  <2>2. CASE HostReturns \/ Connected \/ Send \/ ReceiveHeader
    BY <2>2 DEF HostReturns, Receive, GiveUp, Dropped, Connected, Send, ReceiveHeader, job
  <2>3. CASE Quit
    BY <2>3 DEF Quit
  <2>4. CASE ChildExits \/ HelperChanges \/ Block \/ Unblock \/ UNCHANGED vars
    BY <2>4 DEF ChildExits, HelperChanges, Block, Unblock, vars, job
  <2>5. CASE Tick
    BY <2>5 DEF Tick, Lesser
  <2>. QED BY <2>1, <2>2, <2>3, <2>4, <2>5 DEF Next
<1>. QED BY <1>1, <1>2, AgentMovesItself

(* An agent that cannot read yet waits for a host that is still there. *)
LEMMA ReadableWithoutHost ==
    ASSUME ServeInv, Reading, host = None
    PROVE  Readable
  BY NoneIsNoConnection DEF ServeInv, IInv, TypeOK, OpenIsAwaited, Readable, Reading

(* The agent always gets back to its next connection, or goes down, unless  *)
(* it opens a FIFO: a host that never sends hangs up in the end, a command  *)
(* that never exits times out, and nothing else is waited for.              *)
THEOREM AgentsComeBack ==
    Spec /\ []HostCanReturn /\ []AgentCanStep /\ TimersExpire => AgentComesBack
<1>1. ServeInv => IInv
  BY DEF ServeInv
<1>2. ServeInv /\ [Next]_vars =>
        /\ Readable => Readable' \/ Done' \/ Handling' \/ Failing'
        /\ Reading => Reading' \/ Done' \/ Handling' \/ Failing'
        /\ Handling => Handling' \/ Done' \/ Running' \/ Writing' \/ Failing'
        /\ Overdue => Overdue' \/ Done' \/ Writing' \/ Failing'
        /\ Running => Running' \/ Done' \/ Writing' \/ Failing'
        /\ Writing => Writing' \/ Done' \/ Failing'
        /\ Failing => Failing' \/ Done'
  <2> SUFFICES ASSUME ServeInv, [Next]_vars
               PROVE  /\ Readable => Readable' \/ Done' \/ Handling' \/ Failing'
                      /\ Reading => Reading' \/ Done' \/ Handling' \/ Failing'
                      /\ Handling => Handling' \/ Done' \/ Running' \/ Writing'
                                            \/ Failing'
                      /\ Overdue => Overdue' \/ Done' \/ Writing' \/ Failing'
                      /\ Running => Running' \/ Done' \/ Writing' \/ Failing'
                      /\ Writing => Writing' \/ Done' \/ Failing'
                      /\ Failing => Failing' \/ Done'
    OBVIOUS
  <2>1. CASE Agent
    BY <1>1, <2>1, AgentAdvances DEF Readable, Reading, Handling, Running, Overdue, Writing, Failing, Done
  <2>2. CASE ~Agent
    BY <1>1, <2>2, AgentMovesItself, ReadableStays, OverdueStays
       DEF Reading, Handling, Running, Writing, Failing
  <2>. QED BY <2>1, <2>2
<1>3. ServeInv /\ <<Agent>>_vars =>
        /\ Reading => Handling' \/ Failing'
        /\ Handling => Running' \/ Writing' \/ Failing'
        /\ Running => Writing' \/ Failing'
        /\ Writing => Done' \/ Failing'
        /\ Failing => Done'
  BY <1>1, AgentAdvances DEF Reading, Handling, Running, Writing, Failing, Done
<1>4. ~OnFifo => /\ Readable => AgentReady
                 /\ Overdue => AgentReady
                 /\ Handling => AgentReady
                 /\ Writing => AgentReady
                 /\ Failing => AgentReady
  BY DEF OnFifo, Readable, Reading, Overdue, Running, Handling, Writing, Failing, AgentReady
<1>5. /\ ServeInv /\ Reading /\ host = None => Readable
      /\ Readable => Reading
      /\ Overdue => Running
      /\ ~(pc # "run" \/ ran = JobTimeout) => Running
      /\ (pc # "run" \/ ran = JobTimeout) /\ Running => Overdue
  BY ReadableWithoutHost DEF Readable, Reading, Overdue, Running
<1>6. ServeInv => Done \/ Reading \/ Handling \/ Running \/ Writing \/ Failing
  BY DEF ServeInv, IInv, TypeOK, Done, Reading, Handling, Running, Writing, Failing
<1>7. Done \/ OnFifo <=> pc \in {"accept", "dead"} \/ blocked
  BY DEF Done, OnFifo
<1>8. Spec /\ []HostCanReturn /\ TimersExpire => (host # None ~> host = None)
  BY HostsComeBack DEF HostComesBack
<1>9. host # None <=> ~(host = None)
  OBVIOUS
<1>. QED BY InitServeInv, NextServeInv, <1>2, <1>3, <1>4, <1>5, <1>6, <1>7, <1>8, <1>9, PTL
         DEF Spec, AgentCanStep, TimersExpire, AgentComesBack

=============================================================================
