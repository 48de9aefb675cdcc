-------------------------- MODULE ExecAgent_proofs --------------------------
(***************************************************************************)
(* Proofs about the exec agent, for any number of clients, any pipe size   *)
(* and any amount of output, endless or not.                               *)
(*                                                                         *)
(* OutputIsComplete rests on an account of the chunks: what was written is *)
(* in the file or still in the pipe, so a pipe seen empty after the child  *)
(* was waited for means that the file holds all that the child wrote.      *)
(* The agent comes back, and kills what is past its deadline, as long as   *)
(* its drains end, which a script that writes for ever can prevent, and it *)
(* is not blocked on a FIFO.                                               *)
(***************************************************************************)
EXTENDS ExecAgent, TLAPS

(* Outside handle_exec's loop there is no script, and no new output file. *)
NoScript ==
    pc \in {"accept", "header", "body", "handle"} =>
        /\ child = "none" /\ helper = "none" /\ pipe = 0 /\ written = 0 /\ owed = 0
        /\ ~late /\ ~timedOut /\ ~file /\ ~lost /\ saved = 0

InScript ==
    /\ pc = "open" => ~late /\ ~file /\ ~lost /\ saved = 0
    /\ pc \in {"open", "drain", "poll", "deadline"} => ~timedOut
    /\ pc \in {"last_drain", "report"} => child = "none" /\ (timedOut => helper # "group")

(* What was written is in the file or in the pipe, unless the file did not  *)
(* take it: nothing is read from the pipe before the file is opened.        *)
ChunksAreCounted ==
    /\ owed <= written
    /\ ~lost /\ (file \/ pc = "open") => written <= saved + pipe
    /\ OutputIsComplete

OnlyFifosBlock == blocked => Fifos

IInv == TypeOK /\ NoScript /\ InScript /\ ChunksAreCounted /\ OnlyFifosBlock

-----------------------------------------------------------------------------
LEMMA InitIInv == Init => IInv
<1> SUFFICES ASSUME Init PROVE IInv
  OBVIOUS
<1> USE SizesArePositive DEF Init
<1>1. TypeOK
  <2>1. /\ conn \in [Clients -> {"none", "backlog", "served"}]
        /\ open \in [Clients -> BOOLEAN] /\ kind \in [Clients -> Kinds]
        /\ sent \in [Clients -> {"nothing", "header", "all"}]
        /\ reply \in [Clients -> {"none", "OK", "ERR"}]
    BY DEF Kinds
  <2>2. {written, owed, saved} \subseteq 0 .. MaxWrites /\ pipe \in 0 .. PipeSize
    OBVIOUS
  <2> QED BY <2>1, <2>2 DEF TypeOK, AgentSteps
<1>2. NoScript /\ InScript /\ ChunksAreCounted /\ OnlyFifosBlock
  BY DEF OnlyFifosBlock, NoScript, InScript, ChunksAreCounted, OutputIsComplete
<1> QED BY <1>1, <1>2 DEF IInv

(* A response ends the service of a client; the locals are the caller's. *)
LEMMA RespondKeepsTypes ==
  ASSUME TypeOK, pc # "accept", NEW status \in {"OK", "ERR"}, Respond(status)
  PROVE  /\ conn' \in [Clients -> {"none", "backlog", "served"}]
         /\ reply' \in [Clients -> {"none", "OK", "ERR"}]
         /\ pc' = "accept" /\ cur' = None
         /\ UNCHANGED <<open, kind, sent>>
  BY DEF TypeOK, Respond

LEMMA NextIInv == IInv /\ [Next]_vars => IInv'
<1> SUFFICES ASSUME IInv, [Next]_vars PROVE IInv'
  OBVIOUS
<1> USE SizesArePositive, NoneIsNoClient, RespondKeepsTypes
    DEF IInv, OnlyFifosBlock, NoScript, InScript, ChunksAreCounted, OutputIsComplete, Kinds, AgentSteps
<1>1. CASE UNCHANGED vars
  BY <1>1 DEF vars, client, script, run, world, TypeOK
<1>2. ASSUME NEW c \in Clients, Connect(c) \/ Send(c) \/ Close(c) PROVE IInv'
  <2> USE DEF script, run, world, TypeOK
  <2>1. CASE Connect(c)
    BY <2>1 DEF Connect, Ask
  <2>2. CASE Send(c)
    BY <2>2 DEF Send
  <2>3. CASE Close(c)
    BY <2>3 DEF Close
  <2> QED BY <1>2, <2>1, <2>2, <2>3
<1>3. CASE Agent
  <2>0. /\ UNCHANGED blocked
        /\ TypeOK => left' \in BOOLEAN
    BY <1>3 DEF Agent, TypeOK
  <2> USE <2>0 DEF client, script, run, Goto
  <2>1. ASSUME NEW c \in Clients, Accept(c) PROVE IInv'
    BY <2>1 DEF Accept, TypeOK
  <2>2. CASE ReadHeader
    <3>1. CASE pc' = "body" /\ UNCHANGED <<client, reply, cur>>
      BY <2>2, <3>1 DEF ReadHeader, TypeOK
    <3>2. ASSUME NEW status \in {"OK", "ERR"}, Respond(status) PROVE IInv'
      <4>1. pc = "header" /\ UNCHANGED <<script, run>>
        BY <2>2 DEF ReadHeader
      <4> QED BY <3>2, <4>1 DEF TypeOK
    <3> QED BY <2>2, <3>1, <3>2 DEF ReadHeader
  <2>3. CASE ReadBody
    <3>1. CASE pc' = "handle" /\ UNCHANGED <<client, reply, cur>>
      BY <2>3, <3>1 DEF ReadBody, TypeOK
    <3>2. CASE Respond("ERR")
      <4>1. pc = "body" /\ UNCHANGED <<script, run>>
        BY <2>3 DEF ReadBody
      <4> QED BY <3>2, <4>1 DEF TypeOK
    <3> QED BY <2>3, <3>1, <3>2 DEF ReadBody
  <2>4. CASE Upload
    BY <2>4 DEF Upload, TypeOK
  <2>5. CASE ExecFails
    BY <2>5 DEF ExecFails, TypeOK
  <2>6. CASE Fork
    BY <2>6 DEF Fork, TypeOK
  <2>7. CASE DrainChunk
    <3>1. CASE lost' = lost
      BY <2>7, <3>1 DEF DrainChunk, TypeOK
    <3>2. CASE lost' = TRUE /\ UNCHANGED saved
      BY <2>7, <3>2 DEF DrainChunk, TypeOK
    <3> QED BY <2>7, <3>1, <3>2 DEF DrainChunk
  <2>8. CASE Drained
    BY <2>8 DEF Drained, TypeOK
  <2>9. CASE Poll
    BY <2>9 DEF Poll, TypeOK
  <2>10. CASE Deadline
    <3>1. CASE ~late
      BY <2>10, <3>1 DEF Deadline, TypeOK
    <3>2. CASE late
      BY <2>10, <3>2 DEF Deadline, Killed, TypeOK
    <3> QED BY <3>1, <3>2
  <2>11. CASE Report
    <3>1. PICK status \in {"OK", "ERR"} : Respond(status)
      BY <2>11 DEF Report
    <3>2. /\ pc' = "accept" /\ cur' = None
          /\ helper' = "none" /\ pipe' = 0 /\ written' = 0 /\ owed' = 0 /\ saved' = 0
          /\ late' = FALSE /\ timedOut' = FALSE /\ child' = "none"
          /\ file' = FALSE /\ lost' = FALSE
      BY <2>11, <3>1 DEF Report, TypeOK
    <3>3. /\ conn' \in [Clients -> {"none", "backlog", "served"}]
          /\ reply' \in [Clients -> {"none", "OK", "ERR"}]
          /\ UNCHANGED <<open, kind, sent>>
      BY <2>11, <3>1 DEF Report
    <3>4. {written, owed, saved}' \subseteq 0 .. MaxWrites /\ pipe' \in 0 .. PipeSize
      BY <3>2
    <3>5. TypeOK'
      BY <3>2, <3>3, <3>4 DEF TypeOK
    <3> QED BY <3>2, <3>5
  <2>12. CASE OpenOutput
    BY <2>12 DEF OpenOutput, TypeOK
  <2> QED BY <1>3, <2>1, <2>2, <2>3, <2>4, <2>5, <2>6, <2>7, <2>8, <2>9, <2>10, <2>11, <2>12
             DEF Agent
<1>4. CASE Script
  <2> USE DEF client, run, world, TypeOK
  <2>1. CASE Write
    BY <2>1 DEF Write
  <2>2. CASE Background
    BY <2>2 DEF Background
  <2>3. CASE HelperExits
    BY <2>3 DEF HelperExits
  <2>4. CASE ChildExits
    BY <2>4 DEF ChildExits
  <2> QED BY <1>4, <2>1, <2>2, <2>3, <2>4 DEF Script
<1>5. CASE DeadlinePasses
  BY <1>5 DEF DeadlinePasses, client, script, world, TypeOK
<1>6. CASE Meddle
  <2> USE DEF client, script, run, world, TypeOK
  <2>1. CASE Block
    BY <2>1 DEF Block
  <2>2. CASE Unblock
    BY <2>2 DEF Unblock
  <2>3. CASE ReplaceFile
    BY <2>3 DEF ReplaceFile
  <2> QED BY <1>6, <2>1, <2>2, <2>3 DEF Meddle
<1> QED BY <1>1, <1>2, <1>3, <1>4, <1>5, <1>6 DEF Next

-----------------------------------------------------------------------------
(* The variables of handle_client and handle_exec keep their types.         *)
THEOREM TypeCorrect == Spec => []TypeOK
<1>1. IInv => TypeOK
  BY DEF IInv
<1> QED BY <1>1, InitIInv, NextIInv, PTL DEF Spec

(* The drain after waitpid leaves nothing of the script's output behind,    *)
(* however the pipe's size and the script's writes fall (agent.c:495-499),  *)
(* unless writing to the output file failed (agent.c:52-53).                *)
THEOREM RepliesAreComplete == Spec => []OutputIsComplete
<1>1. IInv => OutputIsComplete
  BY DEF IInv, ChunksAreCounted
<1> QED BY <1>1, InitIInv, NextIInv, PTL DEF Spec

(* When an EXEC is reported its script is over (agent.c:501-509).           *)
THEOREM ScriptsEnd == Spec => []ScriptIsOver
<1>1. IInv => ScriptIsOver
  BY DEF IInv, TypeOK, AgentSteps, NoScript, InScript, ScriptIsOver
<1> QED BY <1>1, InitIInv, NextIInv, PTL DEF Spec

-----------------------------------------------------------------------------
(***************************************************************************)
(* Liveness.  The prover cannot expand the ENABLED in Spec's fairness:      *)
(* AgentCanStep and DeadlineCanPass say when agent and clock can move, and  *)
(* ServedClientCloses what the fairness of the clients amounts to for the   *)
(* one that is served.  TLC can check all three.  DrainsEnd is no matter of *)
(* scheduling: it is what a script that writes faster than the agent drains *)
(* takes away (TimeoutIsEnforced in MCExecFlood).  A FIFO takes away more,  *)
(* and is named in the statements.                                          *)
(***************************************************************************)
Loop == {"drain", "poll", "deadline"}

AgentReady ==
    /\ ~blocked
    /\ \/ pc = "accept" /\ \E c \in Clients : conn[c] = "backlog"
       \/ pc = "header" /\ (sent[cur] # "nothing" \/ ~open[cur])
       \/ pc = "body" /\ BodyEnds
       \/ pc \in {"handle", "open", "last_drain", "report"} \cup Loop
AgentCanStep == AgentReady => ENABLED <<Agent>>_vars

DeadlineReady == pc \in Loop /\ ~late
DeadlineCanPass == DeadlineReady => ENABLED <<DeadlinePasses>>_vars

ServedClientCloses == []<>(cur = None \/ ~open[cur])

Draining == pc \in {"drain", "last_drain"}
DrainsEnd == []<>(~Draining \/ blocked)

(* The connection the agent works on is its own: no client reuses it. *)
ServedInv == IInv /\ (cur # None => conn[cur] = "served")

(* The agent's stations, in the order in which it passes them. *)
Header == pc = "header"
Body == pc = "body"
HeaderIsThere == Header /\ (sent[cur] # "nothing" \/ ~open[cur])
BodyIsThere == Body /\ BodyEnds
Handling == pc = "handle"
Opening == pc = "open"
InLoop == pc \in Loop
LateDrain == pc = "drain" /\ late
LatePoll == pc = "poll" /\ late
LateDeadline == pc = "deadline" /\ late
LastDrain == pc = "last_drain"
Reporting == pc = "report"
Accepting == pc = "accept"

LEMMA InitServedInv == Init => ServedInv
<1>1. Init => cur = None
  BY DEF Init
<1>. QED BY <1>1, InitIInv DEF ServedInv

(* What a response leaves. *)
LEMMA RespondAccepts ==
    ASSUME NEW status, Respond(status)
    PROVE  pc' = "accept" /\ cur' = None
  BY DEF Respond

(* A step of the agent leads to a later station; only the loop is one. *)
LEMMA AgentAdvances ==
    ASSUME IInv, Agent
    PROVE  /\ Header => Body' \/ Accepting'
           /\ Body => Handling' \/ Accepting'
           /\ Handling => Opening' \/ Accepting'
           /\ Opening => InLoop'
           /\ InLoop => InLoop' \/ LastDrain'
           /\ LateDrain => LateDrain' \/ LatePoll'
           /\ LatePoll => LateDeadline' \/ LastDrain'
           /\ LateDeadline => LastDrain'
           /\ LastDrain => LastDrain' \/ Reporting'
           /\ Reporting => Accepting'
<1> USE RespondAccepts
    DEF Header, Body, Handling, Opening, InLoop, Loop, LateDrain, LatePoll, LateDeadline, LastDrain,
        Reporting, Accepting
<1>1. ASSUME NEW c \in Clients, Accept(c) PROVE pc = "accept"
  BY <1>1 DEF Accept, Goto
<1>2. CASE ReadHeader \/ ReadBody \/ Upload \/ ExecFails
  BY <1>2 DEF ReadHeader, ReadBody, Upload, ExecFails
<1>3. CASE Fork \/ OpenOutput BY <1>3 DEF Fork, OpenOutput, Goto, run
<1>4. CASE DrainChunk \/ Drained BY <1>4 DEF DrainChunk, Drained, Goto, run
<1>5. CASE Poll \/ Deadline BY <1>5 DEF Poll, Deadline, Goto, run
<1>6. CASE Report BY <1>6 DEF Report
<1>. QED BY <1>1, <1>2, <1>3, <1>4, <1>5, <1>6 DEF Agent

(* Nobody else moves the agent, or takes back what it waits for. *)
LEMMA OthersLeaveTheAgent ==
    ASSUME ServedInv, [Next]_vars, ~Agent
    PROVE  /\ UNCHANGED <<pc, cur>>
           /\ HeaderIsThere => HeaderIsThere'
           /\ BodyIsThere => BodyIsThere'
           /\ InLoop /\ late => late'
           /\ cur # None => conn'[cur] = "served"
<1> USE DEF HeaderIsThere, BodyIsThere, BodyEnds, Header, Body, InLoop, Loop
<1>0. /\ (pc \in {"header", "body"} => cur \in Clients /\ conn[cur] = "served")
      /\ cur \in Clients \cup {None} /\ (cur # None => conn[cur] = "served")
      /\ open \in [Clients -> BOOLEAN] /\ sent \in [Clients -> {"nothing", "header", "all"}]
      /\ conn \in [Clients -> {"none", "backlog", "served"}]
  BY NoneIsNoClient DEF ServedInv, IInv, TypeOK
<1>. DEFINE Kept == /\ UNCHANGED <<pc, cur>>
                    /\ HeaderIsThere => HeaderIsThere'
                    /\ BodyIsThere => BodyIsThere'
                    /\ InLoop /\ late => late'
                    /\ cur # None => conn'[cur] = "served"
<1>1. ASSUME NEW c \in Clients, Connect(c) PROVE Kept
  <2>1. c # cur /\ UNCHANGED <<pc, cur, late>>
    BY <1>0, <1>1, NoneIsNoClient DEF Connect, run
  <2>2. cur # None => /\ conn'[cur] = conn[cur] /\ sent'[cur] = sent[cur]
                      /\ open'[cur] = open[cur]
    BY <1>0, <1>1, <2>1 DEF Connect
  <2>. QED BY <1>0, <2>1, <2>2, NoneIsNoClient
<1>2. ASSUME NEW c \in Clients, Send(c) \/ Close(c) PROVE Kept
  BY <1>0, <1>2 DEF Send, Close, run
<1>3. CASE Script
  <2>1. UNCHANGED <<client, pc, cur, late>>
    BY <1>3 DEF Script, Write, Background, HelperExits, ChildExits, run
  <2>. QED BY <1>0, <2>1 DEF client
<1>4. CASE DeadlinePasses
  <2>1. UNCHANGED <<client, pc, cur>> /\ late'
    BY <1>4 DEF DeadlinePasses
  <2>. QED BY <1>0, <2>1 DEF client
<1>5. CASE UNCHANGED vars
  <2>1. UNCHANGED <<client, pc, cur, late>>
    BY <1>5 DEF vars, run
  <2>. QED BY <1>0, <2>1 DEF client
<1>6. CASE Meddle
  <2>1. UNCHANGED <<client, pc, cur, late>>
    BY <1>6 DEF Meddle, Block, Unblock, ReplaceFile, run
  <2>. QED BY <1>0, <2>1 DEF client
<1>. QED BY <1>1, <1>2, <1>3, <1>4, <1>5, <1>6 DEF Next

LEMMA NextServedInv == ServedInv /\ [Next]_vars => ServedInv'
<1> SUFFICES ASSUME ServedInv, [Next]_vars PROVE cur' # None => conn'[cur'] = "served"
  BY NextIInv DEF ServedInv
<1>1. CASE ~Agent
  BY <1>1, OthersLeaveTheAgent
<1>2. CASE Agent
  <2>1. ASSUME NEW c \in Clients, Accept(c) PROVE cur' # None => conn'[cur'] = "served"
    BY <2>1 DEF Accept, ServedInv, IInv, TypeOK
  <2>2. CASE (\E status : Respond(status)) \/ UNCHANGED <<cur, conn>>
    BY <2>2, RespondAccepts DEF ServedInv
  <2>. QED BY <1>2, <2>1, <2>2 DEF Agent, ReadHeader, ReadBody, Upload, ExecFails, Fork,
             OpenOutput, DrainChunk, Drained, Poll, Deadline, Report, client
<1>. QED BY <1>1, <1>2

(* Where each station leads, whoever takes the step. *)
LEMMA StationsFollow ==
    ServedInv /\ [Next]_vars =>
        /\ Header => Header' \/ Body' \/ Accepting'
        /\ Body => Body' \/ Handling' \/ Accepting'
        /\ HeaderIsThere => HeaderIsThere' \/ Body' \/ Accepting'
        /\ BodyIsThere => BodyIsThere' \/ Handling' \/ Accepting'
        /\ Handling => Handling' \/ Opening' \/ Accepting'
        /\ Opening => Opening' \/ InLoop'
        /\ InLoop => InLoop' \/ LastDrain'
        /\ LateDrain => LateDrain' \/ LatePoll'
        /\ LatePoll => LatePoll' \/ LateDeadline' \/ LastDrain'
        /\ LateDeadline => LateDeadline' \/ LastDrain'
        /\ LastDrain => LastDrain' \/ Reporting'
        /\ Reporting => Reporting' \/ Accepting'
<1> SUFFICES ASSUME ServedInv, [Next]_vars
             PROVE  /\ Header => Header' \/ Body' \/ Accepting'
                    /\ Body => Body' \/ Handling' \/ Accepting'
                    /\ HeaderIsThere => HeaderIsThere' \/ Body' \/ Accepting'
                    /\ BodyIsThere => BodyIsThere' \/ Handling' \/ Accepting'
                    /\ Handling => Handling' \/ Opening' \/ Accepting'
                    /\ Opening => Opening' \/ InLoop'
                    /\ InLoop => InLoop' \/ LastDrain'
                    /\ LateDrain => LateDrain' \/ LatePoll'
                    /\ LatePoll => LatePoll' \/ LateDeadline' \/ LastDrain'
                    /\ LateDeadline => LateDeadline' \/ LastDrain'
                    /\ LastDrain => LastDrain' \/ Reporting'
                    /\ Reporting => Reporting' \/ Accepting'
  OBVIOUS
<1>1. CASE Agent
  BY <1>1, AgentAdvances DEF ServedInv, HeaderIsThere, BodyIsThere
<1>2. CASE ~Agent
  BY <1>2, OthersLeaveTheAgent
  DEF Header, Body, Handling, Opening, InLoop, Loop, LateDrain, LatePoll, LateDeadline, LastDrain,
      Reporting, Accepting
<1>. QED BY <1>1, <1>2

LEMMA StationsAre ==
    /\ HeaderIsThere => Header /\ (AgentReady \/ blocked)
    /\ BodyIsThere => Body /\ (AgentReady \/ blocked)
    /\ Handling => AgentReady \/ blocked
    /\ Opening => AgentReady \/ blocked
    /\ InLoop => AgentReady \/ blocked
    /\ LastDrain => AgentReady \/ blocked
    /\ Reporting => AgentReady \/ blocked
    /\ LateDrain => (AgentReady \/ blocked) /\ Draining
    /\ LatePoll => (AgentReady \/ blocked) /\ ~Draining
    /\ LateDeadline => AgentReady \/ blocked
    /\ LastDrain => Draining
    /\ InLoop => DeadlineReady \/ LateDrain \/ LatePoll \/ LateDeadline
    /\ ServedInv /\ Header /\ (cur = None \/ ~open[cur]) => HeaderIsThere
    /\ ServedInv /\ Body /\ (cur = None \/ ~open[cur]) => BodyIsThere
    /\ ServedInv => \/ Accepting \/ Header \/ Body \/ Handling \/ Opening \/ InLoop \/ LastDrain \/ Reporting
<1> USE DEF HeaderIsThere, BodyIsThere, Header, Body, Handling, Opening, InLoop, Loop, LastDrain,
            Reporting, LateDrain, LatePoll, LateDeadline, AgentReady, Draining, DeadlineReady,
            Accepting
<1>1. ServedInv => pc \in AgentSteps /\ (pc = "accept" <=> cur = None)
  BY DEF ServedInv, IInv, TypeOK
<1>2. ServedInv => \/ Accepting \/ Header \/ Body \/ Handling \/ Opening \/ InLoop \/ LastDrain \/ Reporting
  BY <1>1 DEF AgentSteps
<1>3. /\ ServedInv /\ Header /\ (cur = None \/ ~open[cur]) => HeaderIsThere
      /\ ServedInv /\ Body /\ (cur = None \/ ~open[cur]) => BodyIsThere
  BY <1>1 DEF BodyEnds
<1>. QED BY <1>2, <1>3

(* Past its deadline the loop ends, as long as the drains do and no FIFO    *)
(* blocks it.                                                               *)
LEMMA LateLoopsEnd ==
    Spec /\ []AgentCanStep /\ DrainsEnd =>
        (LateDrain \/ LatePoll \/ LateDeadline ~> LastDrain \/ blocked)
<1>1. ServedInv /\ <<Agent>>_vars =>
        /\ LatePoll => LateDeadline' \/ LastDrain'
        /\ LateDeadline => LastDrain'
  BY AgentAdvances DEF ServedInv
<1>. QED BY InitServedInv, NextServedInv, StationsFollow, StationsAre, <1>1, PTL
         DEF Spec, AgentCanStep, DrainsEnd

(* Why a script that does not write for ever lets the drains end: chunks    *)
(* yet to be written count twice, and every write and every read leaves     *)
(* less to do than there was.                                               *)
DrainWork == 2 * (MaxWrites - written) + pipe
DrainsShrink ==
    [][/\ Draining /\ pc' = pc =>
            /\ DrainWork' <= DrainWork
            /\ Agent \/ written' # written => DrainWork' < DrainWork]_vars

(* The rest of DrainsEnd for finite output: no endless descent in Nat.      *)
THEOREM FiniteOutputDrains == ~Endless /\ Spec => DrainsShrink
<1> SUFFICES ASSUME ~Endless PROVE Spec => DrainsShrink
  OBVIOUS
<1>1. ASSUME IInv, [Next]_vars, Draining, pc' = pc
      PROVE  /\ DrainWork' <= DrainWork
             /\ Agent \/ written' # written => DrainWork' < DrainWork
  <2>0. written \in 0 .. MaxWrites /\ pipe \in 0 .. PipeSize /\ MaxWrites \in Nat /\ PipeSize \in Nat
    BY <1>1, SizesArePositive DEF IInv, TypeOK
  <2>1. CASE Agent
    <3>1. DrainChunk
      BY <1>1, <2>1 DEF Draining, Agent, Accept, ReadHeader, ReadBody, Upload, ExecFails, Fork,
                        OpenOutput, Drained, Poll, Deadline, Report, Goto
    <3>. QED BY <2>0, <3>1 DEF DrainChunk, DrainWork
  <2>2. CASE ~Agent /\ Write
    BY <1>1, <2>0, <2>2 DEF Write, DrainWork
  <2>3. CASE ~Agent /\ ~Write
    <3>1. UNCHANGED <<written, pipe>>
      <4>1. ASSUME NEW c \in Clients, Connect(c) \/ Send(c) \/ Close(c)
            PROVE  UNCHANGED <<written, pipe>>
        BY <4>1 DEF Connect, Send, Close, script
      <4>. QED BY <1>1, <2>3, <4>1 DEF Next, Script, Background, HelperExits, ChildExits,
                   DeadlinePasses, Meddle, Block, Unblock, ReplaceFile, vars, script
    <3>. QED BY <2>0, <2>3, <3>1 DEF DrainWork
  <2>. QED BY <2>1, <2>2, <2>3
<1>2. IInv /\ [Next]_vars =>
        [/\ Draining /\ pc' = pc =>
              /\ DrainWork' <= DrainWork
              /\ Agent \/ written' # written => DrainWork' < DrainWork]_vars
  BY <1>1
<1>. QED BY <1>2, InitIInv, NextIInv, PTL DEF Spec, DrainsShrink

(* A script's timeout is enforced: once the deadline has passed the agent   *)
(* kills it, provided the pipe can be drained and scripts make no FIFOs.    *)
THEOREM TimeoutsAreEnforced ==
    ~Fifos /\ Spec /\ []AgentCanStep /\ DrainsEnd => TimeoutIsEnforced
<1> SUFFICES ASSUME ~Fifos
             PROVE  Spec /\ []AgentCanStep /\ DrainsEnd => TimeoutIsEnforced
  OBVIOUS
<1>1. ServedInv /\ late /\ child = "running" => LateDrain \/ LatePoll \/ LateDeadline
  BY DEF ServedInv, IInv, TypeOK, AgentSteps, NoScript, InScript, LateDrain, LatePoll, LateDeadline
<1>2. ServedInv => ~blocked /\ (LastDrain => child # "running")
  BY DEF ServedInv, IInv, InScript, OnlyFifosBlock, LastDrain
<1>. QED BY InitServedInv, NextServedInv, LateLoopsEnd, <1>1, <1>2, PTL
         DEF Spec, TimeoutIsEnforced

(* Wherever clients give up and however scripts fork, exit and outlive      *)
(* their deadline, the agent accepts connections again or is blocked on a   *)
(* FIFO, provided the pipe can be drained.                                  *)
THEOREM AgentsComeBack ==
    Spec /\ []AgentCanStep /\ []DeadlineCanPass /\ ServedClientCloses /\ DrainsEnd
        => AgentComesBack
<1>1. ServedInv /\ <<Agent>>_vars =>
        /\ Header => Body' \/ Accepting'
        /\ Body => Handling' \/ Accepting'
        /\ Handling => Opening' \/ Accepting'
        /\ Opening => InLoop'
        /\ Reporting => Accepting'
  BY AgentAdvances DEF ServedInv
<1>2. <<DeadlinePasses>>_vars => ~DeadlineReady'
  BY DEF DeadlinePasses, DeadlineReady
<1>3. Accepting \/ blocked <=> pc = "accept" \/ blocked
  BY DEF Accepting
<1>4. pc # "accept" <=> ~(pc = "accept")
  OBVIOUS
<1>. QED BY InitServedInv, NextServedInv, LateLoopsEnd, StationsFollow, StationsAre,
            <1>1, <1>2, <1>3, <1>4, PTL
         DEF Spec, AgentCanStep, DeadlineCanPass, ServedClientCloses, DrainsEnd,
             AgentComesBack

=============================================================================
