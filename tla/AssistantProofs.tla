-------------------------- MODULE AssistantProofs ---------------------------
(***************************************************************************)
(* Proofs about Assistant, for any number of clients and any requests of   *)
(* theirs.                                                                 *)
(*                                                                         *)
(* Every step of the clients is a step of the daemon's connections or none *)
(* of the daemon's business, so what is proved of Daemon holds here.  What *)
(* a client is told is right because of two facts about its own call: the  *)
(* request its task works on is the one it made, and the program list was  *)
(* changed for it exactly when its task came to the success it waits for.  *)
(***************************************************************************)
EXTENDS Assistant, DaemonProofs

WorksForIt ==
  \A c \in Conns : pc[c] # "idle" /\ activity[c] \in Op => req[c].op = activity[c]

\* The task has come to its response, written or not, or there is no request.
Resting(c) == pc[c] \in {"idle", "respond"}

DoneIsAnswered ==
  \A c \in Conns :
    /\ done[c] => /\ activity[c] \in Changing
                  /\ Resting(c)
                  /\ reply[c] \in {Expected[activity[c]], "disconnected"}
    /\ activity[c] \in Changing /\ Resting(c) /\ reply[c] = Expected[activity[c]]
         => done[c]

ReplyAtHand ==
  \A c \in Conns : pc[c] = "respond" => reply[c] \notin {"none", "disconnected"}

ClientInv == AssistantTypeOK /\ WorksForIt /\ DoneIsAnswered /\ ReplyAtHand

-----------------------------------------------------------------------------

(* What a client does on a connection is what a client of the daemon may do. *)
LEMMA StepIsDaemonStep == [AssistantNext]_allVars => [DaemonNext]_vars
<1>1. CASE McpNext
  BY <1>1, ClientRequestsAssumption, McpAssumption
  DEF McpNext, AnswerAtOnce, ToolLoad, ToolProgram, ToolState, ToolMap, ToolAsks, Asks,
      DaemonNext
<1>2. ASSUME NEW c \in Conns, CommandNext(c)
      PROVE  DaemonNext
  BY <1>2, ClientRequestsAssumption
  DEF CommandNext, CommandLoad, CommandProgram, CommandState, CommandAuth, CommandMap,
      CommandAsks, Asks, DaemonNext
<1>3. ASSUME NEW c \in Conns,
             ConnectFails(c) \/ ReadsReply(c) \/ Killed(c) \/ DaemonServes(c) \/ DaemonClosed(c)
      PROVE  [DaemonNext]_vars
  BY <1>3 DEF ConnectFails, ReadsReply, Killed, DaemonServes, DaemonClosed, DaemonNext
<1>4. ASSUME NEW c \in Workers, LocalNext(c)
      PROVE  UNCHANGED vars
  BY <1>4
  DEF LocalNext, BuildBegins, BuildEnds, TriggerBegins, TriggerEnds, TraceBegins,
      TraceMissing, TraceDenied, TraceBreaks, LastLine, VmList, VmStop, VmLook,
      IsolatedBegins, IsolatedRefused, IsolatedBoots, IsolatedEnds,
      Works, WorkEnds
<1>5. CASE DaemonAlone \/ DaemonDies
  BY <1>5 DEF DaemonAlone, DaemonDies, DaemonNext
<1>6. CASE UNCHANGED allVars
  BY <1>6 DEF allVars, vars
<1> QED
  BY <1>1, <1>2, <1>3, <1>4, <1>5, <1>6 DEF AssistantNext

(* The clients together with the daemon behave as the daemon alone may, so   *)
(* what is proved of the daemon for whatever its connections ask holds for   *)
(* the MCP server and the command line.                                      *)
THEOREM AssistantImplementsDaemon == AssistantSpec => DaemonSpec
<1>1. AssistantInit => DaemonInit
  BY DEF AssistantInit
<1> QED
  BY <1>1, StepIsDaemonStep, PTL DEF AssistantSpec, DaemonSpec

-----------------------------------------------------------------------------

(* Every handler that changes the program list comes to its success exactly  *)
(* when it has changed it.                                                   *)
LEMMA ChangeIsAnswered ==
  ASSUME LoaderInv, TaskInv, NEW c \in Conns,
         HandleLoad(c) \/ HandleAttach(c) \/ HandleDetach(c) \/ HandleUnload(c)
  PROVE  /\ pc'[c] = "respond"
         /\ (nextId' # nextId \/ ClientPhase' # ClientPhase)
              <=> reply'[c] = Expected[req[c].op]
<1>1. pc[c] = "run" /\ pc'[c] = "respond"
  BY DEF HandleLoad, HandleAttach, HandleDetach, HandleUnload, Runs, Finish, TaskInv,
         TaskTypeOK
<1>2. ResponseIsSo(c)
  BY LoadAnswer, AttachAnswer, DetachAnswer, UnloadAnswer
<1>3. CASE reply'[c] \in ErrorReply
  <2>1. nextId' = nextId /\ ClientPhase' = ClientPhase
    BY <1>1, <1>2, <1>3 DEF ResponseIsSo, Decides
  <2>2. req[c].op \in Changing
    BY DEF HandleLoad, HandleAttach, HandleDetach, HandleUnload, Runs, Changing
  <2>3. reply'[c] # Expected[req[c].op]
    BY <1>3, <2>2 DEF ErrorReply, Expected, Changing
  <2> QED
    BY <1>1, <2>1, <2>3
<1>4. CASE reply'[c] \notin ErrorReply
  <2>1. CASE HandleLoad(c)
    <3>1. PICK result \in LoadResult : \E response \in Replies(result) : Finish(c, response)
      BY <2>1 DEF HandleLoad
    <3>2. reply'[c] = "loaded"
      BY <1>4, <3>1, RepliesTell DEF Finish, TaskInv, TaskTypeOK, Succeeded, LoadResult
    <3>3. nextId' # nextId
      BY <1>1, <1>2, <3>2 DEF ResponseIsSo, Decides
    <3> QED
      BY <1>1, <2>1, <3>2, <3>3 DEF HandleLoad, Runs, Expected
  <2>2. CASE HandleAttach(c)
    <3>1. PICK result \in AttachResult :
            Attach(req[c].id, result) /\ \E response \in Replies(result) : Finish(c, response)
      BY <2>2 DEF HandleAttach
    <3>2. reply'[c] = "attached" /\ result = "attached"
      BY <1>4, <3>1, RepliesTell DEF Finish, TaskInv, TaskTypeOK, Succeeded, AttachResult
    <3>3. req[c].id \in Ids
      BY <2>2, RequestsAssumption DEF HandleAttach, Runs, TaskInv, RequestAtHand, Request
    <3>4. ClientPhase[req[c].id] = "idle" /\ ClientPhase'[req[c].id] = "hooked"
      BY <1>1, <1>2, <3>1, <3>2, <3>3 DEF Attach, ClientPhase, ResponseIsSo, Decides
    <3> QED
      BY <1>1, <2>2, <3>2, <3>4 DEF HandleAttach, Runs, Expected
  <2>3. CASE HandleDetach(c)
    <3>1. PICK result \in DetachResult :
            Detach(req[c].id, result) /\ \E response \in Replies(result) : Finish(c, response)
      BY <2>3 DEF HandleDetach
    <3>2. reply'[c] = "detached" /\ result = "detached"
      BY <1>4, <3>1, RepliesTell DEF Finish, TaskInv, TaskTypeOK, Succeeded, DetachResult
    <3>3. req[c].id \in Ids
      BY <2>3, RequestsAssumption DEF HandleDetach, Runs, TaskInv, RequestAtHand, Request
    <3>4. ClientPhase[req[c].id] = "hooked" /\ ClientPhase'[req[c].id] = "idle"
      BY <1>1, <1>2, <3>1, <3>2, <3>3 DEF Detach, ClientPhase, ResponseIsSo, Decides
    <3> QED
      BY <1>1, <2>3, <3>2, <3>4 DEF HandleDetach, Runs, Expected
  <2>4. CASE HandleUnload(c)
    <3>1. PICK result \in UnloadResult :
            Unload(req[c].id, result) /\ \E response \in Replies(result) : Finish(c, response)
      BY <2>4 DEF HandleUnload
    <3>2. reply'[c] = "unloaded" /\ result = "unloaded"
      BY <1>4, <3>1, RepliesTell DEF Finish, TaskInv, TaskTypeOK, Succeeded, UnloadResult
    <3>3. req[c].id \in Ids
      BY <2>4, RequestsAssumption DEF HandleUnload, Runs, TaskInv, RequestAtHand, Request
    <3>4. ClientPhase[req[c].id] # "absent" /\ ClientPhase'[req[c].id] = "absent"
      BY <1>1, <1>2, <3>1, <3>2, <3>3 DEF Unload, ClientPhase, ResponseIsSo, Decides
    <3> QED
      BY <1>1, <2>4, <3>2, <3>4 DEF HandleUnload, Runs, Expected
  <2> QED
    BY <2>1, <2>2, <2>3, <2>4
<1> QED
  BY <1>3, <1>4

(* A response says something. *)
LEMMA RepliesSaySomething ==
  ASSUME NEW result, NEW response \in Replies(result)
  PROVE  response \notin {"none", "disconnected"}
BY RepliesTell DEF Succeeded, ErrorReply

(* A task's step concerns its own connection: it writes its response, or it   *)
(* keeps its request and may come to a response.                             *)
LEMMA StepConcernsOne ==
  ASSUME TaskInv, NEW c \in Conns, Step(c)
  PROVE  /\ \/ WriteResponse(c) /\ pc[c] = "respond" /\ pc'[c] = "idle"
            \/ /\ ~Resting(c) /\ pc'[c] # "idle" /\ req'[c] = req[c]
               /\ pc'[c] = "respond" => reply'[c] \notin {"none", "disconnected"}
         /\ \A d \in Conns \ {c} : pc'[d] = pc[d] /\ req'[d] = req[d] /\ reply'[d] = reply[d]
<1> DEFINE Responses == (Reply \cup ErrorReply) \ {"none", "disconnected"}
<1>1. CASE \E response \in Responses : Finish(c, response) /\ ~Resting(c)
  BY <1>1 DEF Finish, TaskInv, TaskTypeOK
<1>2. CASE \E location \in Location \ {"idle", "respond"} : Goto(c, location) /\ ~Resting(c)
  BY <1>2 DEF Goto, TaskInv, TaskTypeOK
<1>3. CASE HandleLock(c)
  BY <1>3 DEF HandleLock, Runs, TaskInv, TaskTypeOK, Resting
<1>4. ASSUME NEW action, NEW answer, CheckDone(c, action, answer)
      PROVE  \/ \E response \in Responses : Finish(c, response)
             \/ \E location \in Location \ {"idle", "respond"} : Goto(c, location)
  BY <1>4 DEF CheckDone, ErrorReply, Location
<1>5. CASE CheckHit(c)
  BY <1>1, <1>2, <1>4, <1>5 DEF CheckHit, Resting
<1>6. CASE CheckMiss(c) \/ BeginUnlock(c)
  BY <1>2, <1>6 DEF CheckMiss, BeginUnlock, Location, Resting
<1>7. ASSUME NEW answer \in Answer, PolkitAnswers(c, answer)
      PROVE  CheckDone(c, CheckedAction(req[c]), answer) /\ ~Resting(c)
  BY <1>7 DEF PolkitAnswers, Resting
<1>8. ASSUME NEW answer \in InteractiveAnswer, PromptAnswered(c, answer)
      PROVE  \E response \in Responses : Finish(c, response) /\ ~Resting(c)
  <2>1. answer \in {"authorized", "not_authorized", "error"}
    BY DEF InteractiveAnswer
  <2> QED
    BY <1>8, <2>1 DEF PromptAnswered, Reply, ErrorReply, Resting
<1>9. CASE HandleLoad(c) \/ HandleAttach(c) \/ HandleDetach(c) \/ HandleUnload(c)
  <2>1. \E response \in Responses : Finish(c, response)
    BY <1>9, HandlersFinish, RepliesSaySomething
    DEF HandleLoad, HandleAttach, HandleDetach, HandleUnload, Finish, TaskInv, TaskTypeOK
  <2> QED
    BY <1>1, <1>9, <2>1, HandlersFinish DEF Resting
<1>10. CASE HandleInspect(c) \/ HandleMap(c) \/ HandlePing(c)
  <2>1. \E response \in Responses : Finish(c, response)
    BY <1>10 DEF HandleInspect, HandleMap, HandlePing, MapErrors, Reply, ErrorReply
  <2> QED
    BY <1>1, <1>10, <2>1, HandlersFinish DEF Resting
<1>11. CASE WriteResponse(c)
  BY <1>11 DEF WriteResponse, TaskInv, TaskTypeOK
<1> QED
  BY <1>1, <1>2, <1>3, <1>4, <1>5, <1>6, <1>7, <1>8, <1>9, <1>10, <1>11 DEF Step

(* While a task works on a change, the change is made exactly in the step    *)
(* that comes to the success.                                                *)
LEMMA StepIsAnswered ==
  ASSUME LoaderInv, TaskInv, NEW c \in Conns, Step(c), ~WriteResponse(c),
         req[c].op \in Changing
  PROVE  (nextId' # nextId \/ ClientPhase' # ClientPhase)
           <=> pc'[c] = "respond" /\ reply'[c] = Expected[req[c].op]
<1>1. CASE HandleLoad(c) \/ HandleAttach(c) \/ HandleDetach(c) \/ HandleUnload(c)
  BY <1>1, ChangeIsAnswered
<1>2. ASSUME NEW action, NEW answer, CheckDone(c, action, answer), UNCHANGED <<programs, nextId>>
      PROVE  /\ ~(nextId' # nextId \/ ClientPhase' # ClientPhase)
             /\ ~(pc'[c] = "respond" /\ reply'[c] = Expected[req[c].op])
  <2>1. nextId' = nextId /\ ClientPhase' = ClientPhase
    BY <1>2 DEF ClientPhase
  <2>2. pc'[c] = "respond" => reply'[c] \in {"AuthRequired", "AuthDenied"}
    BY <1>2 DEF CheckDone, Goto, Finish, TaskInv, TaskTypeOK
  <2> QED
    BY <2>1, <2>2 DEF Expected, Changing
<1>3. CASE CheckHit(c)
  BY <1>2, <1>3 DEF CheckHit
<1>4. CASE CheckMiss(c)
  BY <1>4 DEF CheckMiss, Goto, TaskInv, TaskTypeOK, ClientPhase
<1>5. ASSUME NEW answer \in Answer, PolkitAnswers(c, answer)
      PROVE  /\ ~(nextId' # nextId \/ ClientPhase' # ClientPhase)
             /\ ~(pc'[c] = "respond" /\ reply'[c] = Expected[req[c].op])
  BY <1>2, <1>5 DEF PolkitAnswers
<1>6. /\ ~HandleInspect(c) /\ ~HandleMap(c) /\ ~HandlePing(c) /\ ~HandleLock(c)
      /\ ~BeginUnlock(c)
  BY DEF HandleInspect, HandleMap, HandlePing, HandleLock, BeginUnlock, Runs, Changing
<1>7. \A answer \in InteractiveAnswer : ~PromptAnswered(c, answer)
  BY DEF PromptAnswered, TaskInv, RequestAtHand, Changing
<1> QED
  BY <1>1, <1>3, <1>4, <1>5, <1>6, <1>7 DEF Step

-----------------------------------------------------------------------------

(* What a step of the clients must show: their invariant is kept, and the    *)
(* step is one that RemoteCall allows.                                       *)
CallStep == Calls!CallNext \/ UNCHANGED <<CallPhase, done, CutOff, told>>

(* A request that is made begins a call, if it is one that changes something. *)
LEMMA AsksIsCall ==
  ASSUME TaskInv, ClientInv, NEW c \in Conns, NEW r \in Requests, Asks(c, r)
  PROVE  ClientInv' /\ CallStep
<1>1. r.op \in Op
  BY RequestsAssumption DEF Request, Op, Changing
<1>2. /\ activity[c] = "ready" /\ pc[c] = "idle"
      /\ activity' = [activity EXCEPT ![c] = r.op]
      /\ told' = [told EXCEPT ![c] = "nothing"]
      /\ UNCHANGED <<done, vms>>
  BY DEF Asks, Begins, Free
<1>3. /\ pc' \in [Conns -> Location] /\ pc'[c] \in {"check", "run"} /\ req'[c] = r
      /\ \A d \in Conns \ {c} : pc'[d] = pc[d] /\ req'[d] = req[d] /\ reply'[d] = reply[d]
  BY DEF Asks, Receive, TaskInv, TaskTypeOK, Location
<1>4. ClientInv'
  <2>1. AssistantTypeOK'
    BY <1>1, <1>2 DEF ClientInv, AssistantTypeOK, Telling
  <2>2. ~done[c]
    BY <1>2 DEF ClientInv, DoneIsAnswered, Changing
  <2>3. WorksForIt' /\ DoneIsAnswered'
    BY <1>1, <1>2, <1>3, <2>2
    DEF ClientInv, AssistantTypeOK, WorksForIt, DoneIsAnswered, Resting
  <2>4. ReplyAtHand'
    BY <1>3 DEF ClientInv, ReplyAtHand
  <2> QED
    BY <2>1, <2>3, <2>4 DEF ClientInv
<1>5. CallPhase[c] = "ready" /\ CutOff' = CutOff
  <2>1. c \notin CutOff /\ c \notin CutOff'
    BY <1>2, <1>3 DEF CutOff, Changing
  <2>2. \A d \in Conns \ {c} : d \in CutOff' <=> d \in CutOff
    BY <1>2, <1>3 DEF CutOff, ClientInv, AssistantTypeOK
  <2> QED
    BY <1>2, <2>1, <2>2 DEF CallPhase, Changing, CutOff
<1>6. CASE r.op \in Changing
  <2>1. CallPhase' = [CallPhase EXCEPT ![c] = "pending"]
    BY <1>2, <1>3, <1>6 DEF CallPhase, ClientInv, AssistantTypeOK
  <2> QED
    BY <1>2, <1>4, <1>5, <2>1 DEF CallStep, Calls!CallNext, Calls!Begin
<1>7. CASE r.op \notin Changing
  <2>1. CallPhase' = CallPhase
    BY <1>2, <1>3, <1>5, <1>7 DEF CallPhase, ClientInv, AssistantTypeOK
  <2> QED
    BY <1>2, <1>4, <1>5, <2>1 DEF CallStep, Calls!CallNext, Calls!Other, Calls!Telling
<1> QED
  BY <1>6, <1>7

(* A client that is in no request tells its caller something. *)
LEMMA TellsIsOther ==
  ASSUME ClientInv, NEW c \in Conns, activity[c] \notin Op,
         NEW telling \in Telling, Ends(c, telling), UNCHANGED vars,
         vms' = vms \ {c}
  PROVE  ClientInv' /\ CallStep
<1>1. ~done[c] /\ activity[c] \notin Changing
  BY DEF ClientInv, DoneIsAnswered, Op
<1>2. done' = done
  BY <1>1 DEF Ends, ClientInv, AssistantTypeOK
<1>3. UNCHANGED <<pc, req, reply>>
  BY DEF vars
<1>4. ClientInv'
  BY <1>1, <1>2, <1>3
  DEF Ends, ClientInv, AssistantTypeOK, WorksForIt, DoneIsAnswered, ReplyAtHand, Resting,
      Op, Changing, Local
<1>5. CallPhase' = CallPhase /\ CallPhase[c] # "pending" /\ CutOff' = CutOff
  BY <1>1, <1>3 DEF Ends, CallPhase, CutOff, ClientInv, AssistantTypeOK, Changing
<1> QED
  BY <1>2, <1>4, <1>5
  DEF Ends, CallStep, Calls!CallNext, Calls!Other, Calls!Telling, Telling

(* Beginning work of one's own is no call. *)
LEMMA WorksIsOther ==
  ASSUME ClientInv, NEW c \in Conns, NEW what \in Local, Works(c, what)
  PROVE  ClientInv' /\ CallStep
<1>1. /\ activity[c] = "ready" /\ UNCHANGED <<pc, req, reply, done, vms>>
      /\ activity' = [activity EXCEPT ![c] = what]
      /\ told' = [told EXCEPT ![c] = "nothing"]
  BY DEF Works, Begins, Free, vars
<1>2. what \notin Op /\ what \notin Changing
  BY DEF Op, Changing, Local
<1>3. ClientInv'
  BY <1>1, <1>2
  DEF ClientInv, AssistantTypeOK, WorksForIt, DoneIsAnswered, ReplyAtHand, Resting,
      Telling, Changing
<1>4. CallPhase' = CallPhase /\ CallPhase[c] # "pending" /\ CutOff' = CutOff
  BY <1>1, <1>2 DEF CallPhase, CutOff, ClientInv, AssistantTypeOK, Changing
<1> QED
  BY <1>1, <1>3, <1>4 DEF CallStep, Calls!CallNext, Calls!Other, Calls!Telling

(* The reply a client reads says whether its call was done, or that it is lost. *)
LEMMA ReadsIsAnswer ==
  ASSUME TaskInv, ClientInv, NEW c \in Conns, ReadsReply(c)
  PROVE  ClientInv' /\ CallStep
<1> DEFINE telling == CASE reply[c] = Expected[activity[c]] -> "success"
                        [] reply[c] = "disconnected"       -> "lost"
                        [] OTHER                           -> "failure"
<1>1. /\ activity[c] \in Op /\ pc[c] = "idle"
      /\ activity' = [activity EXCEPT ![c] = "ready"]
      /\ told' = [told EXCEPT ![c] = telling]
      /\ done' = [done EXCEPT ![c] = FALSE]
      /\ UNCHANGED <<pc, req, vms>>
      /\ \A d \in Conns \ {c} : reply'[d] = reply[d]
  BY DEF ReadsReply, Hangup, Ends, TaskInv, TaskTypeOK
<1>2. ClientInv'
  <2>1. AssistantTypeOK'
    <3>1. telling \in Telling
      BY DEF Telling
    <3> HIDE DEF telling
    <3> QED
      BY <1>1, <3>1 DEF ClientInv, AssistantTypeOK, Op, Changing
  <2> QED
    BY <1>1, <2>1
    DEF ClientInv, AssistantTypeOK, WorksForIt, DoneIsAnswered, ReplyAtHand, Resting,
        Op, Changing
<1>3. CASE activity[c] \in Changing
  <2>1. CallPhase[c] = "pending" /\ CallPhase' = [CallPhase EXCEPT ![c] = "ready"]
    BY <1>1, <1>3 DEF CallPhase, ClientInv, AssistantTypeOK, Changing
  <2>2. Expected[activity[c]] # "disconnected"
    BY <1>3 DEF Expected, Changing
  <2>3. c \in CutOff <=> reply[c] = "disconnected"
    BY <1>1, <1>3 DEF CutOff
  <2>4. CutOff' = CutOff \ {c}
    BY <1>1 DEF CutOff, ClientInv, AssistantTypeOK, Changing
  <2>5. CASE reply[c] = "disconnected"
    BY <1>1, <1>2, <2>1, <2>2, <2>3, <2>4, <2>5 DEF CallStep, Calls!CallNext, Calls!Lose
  <2>6. CASE reply[c] # "disconnected"
    <3>1. telling = IF done[c] THEN "success" ELSE "failure"
      BY <1>1, <1>3, <2>6 DEF ClientInv, DoneIsAnswered, Resting
    <3>2. c \notin CutOff /\ CutOff' = CutOff
      BY <2>3, <2>4, <2>6
    <3> HIDE DEF telling
    <3> QED
      BY <1>1, <1>2, <2>1, <3>1, <3>2 DEF CallStep, Calls!CallNext, Calls!Answer
  <2> QED
    BY <2>5, <2>6
<1>4. CASE activity[c] \notin Changing
  <2>1. CallPhase' = CallPhase /\ CallPhase[c] # "pending"
    BY <1>1, <1>4 DEF CallPhase, ClientInv, AssistantTypeOK, Changing
  <2>2. done' = done /\ CutOff' = CutOff
    BY <1>1, <1>4 DEF ClientInv, AssistantTypeOK, DoneIsAnswered, CutOff, Changing
  <2>3. telling \in Calls!Telling
    BY DEF Calls!Telling
  <2> HIDE DEF telling
  <2> QED
    BY <1>1, <1>2, <2>1, <2>2, <2>3 DEF CallStep, Calls!CallNext, Calls!Other
<1> QED
  BY <1>3, <1>4

(* A client that dies abandons the call it is in. *)
LEMMA KilledAbandons ==
  ASSUME ClientInv, NEW c \in Conns, Killed(c)
  PROVE  ClientInv' /\ CallStep
<1>1. /\ UNCHANGED vars /\ vms' = vms \ {c}
      /\ Ends(c, "killed")
  BY DEF Killed, ClientInv, AssistantTypeOK
<1>2. CASE activity[c] \notin Op
  BY <1>1, <1>2, TellsIsOther DEF Telling
<1>3. CASE activity[c] \in Op
  <2>1. /\ activity' = [activity EXCEPT ![c] = "ready"]
        /\ told' = [told EXCEPT ![c] = "killed"]
        /\ done' = [done EXCEPT ![c] = FALSE]
        /\ UNCHANGED <<pc, req, reply>>
    BY <1>1 DEF Ends, vars
  <2>2. ClientInv'
    <3>1. AssistantTypeOK'
      BY <1>1, <2>1 DEF ClientInv, AssistantTypeOK, Telling
    <3> QED
      BY <2>1, <3>1
      DEF ClientInv, AssistantTypeOK, WorksForIt, DoneIsAnswered, ReplyAtHand, Resting,
          Op, Changing
  <2>3. CASE activity[c] \in Changing
    <3> DEFINE p == IF Resting(c) THEN "ready" ELSE "abandoned"
    <3>1. CallPhase[c] = "pending"
      BY <2>3 DEF CallPhase
    <3>2. CallPhase' = [CallPhase EXCEPT ![c] = p]
      BY <1>3, <2>1, <2>3
      DEF CallPhase, ClientInv, AssistantTypeOK, WorksForIt, Changing, Resting
    <3>3. p \in {"ready", "abandoned"} /\ (done[c] => p = "ready")
      BY DEF ClientInv, DoneIsAnswered
    <3>4. CutOff' = CutOff \ {c}
      BY <2>1 DEF CutOff, ClientInv, AssistantTypeOK, Changing
    <3> HIDE DEF p
    <3> QED
      BY <2>1, <2>2, <3>1, <3>2, <3>3, <3>4 DEF CallStep, Calls!CallNext, Calls!Abandon
  <2>4. CASE activity[c] \notin Changing
    <3>1. CallPhase' = CallPhase /\ CallPhase[c] # "pending"
      BY <1>3, <2>1, <2>4 DEF CallPhase, ClientInv, AssistantTypeOK, WorksForIt, Changing
    <3>2. done' = done /\ CutOff' = CutOff
      BY <2>1, <2>4 DEF ClientInv, AssistantTypeOK, DoneIsAnswered, CutOff, Changing
    <3> QED
      BY <2>1, <2>2, <3>1, <3>2 DEF CallStep, Calls!CallNext, Calls!Other, Calls!Telling
  <2> QED
    BY <2>3, <2>4
<1> QED
  BY <1>2, <1>3

(* Writing a response changes nothing for the call it answers. *)
LEMMA WritesIsNothing ==
  ASSUME TaskInv, ClientInv, NEW c \in Conns, DaemonServes(c), WriteResponse(c)
  PROVE  ClientInv' /\ CallStep
<1>1. /\ pc[c] = "respond" /\ pc' = [pc EXCEPT ![c] = "idle"]
      /\ UNCHANGED <<programs, nextId, reply>>
      /\ \A d \in Conns \ {c} : pc'[d] = pc[d] /\ req'[d] = req[d]
      /\ pc'[c] = "idle"
  BY DEF WriteResponse, TaskInv, TaskTypeOK
<1>2. done' = done /\ UNCHANGED <<activity, told, vms>>
  <2>1. ~(nextId' # nextId \/ ClientPhase' # ClientPhase)
    BY <1>1 DEF ClientPhase
  <2> QED
    BY <2>1 DEF DaemonServes, ClientInv, AssistantTypeOK
<1>3. reply[c] # "disconnected"
  BY <1>1 DEF ClientInv, ReplyAtHand
<1>4. ClientInv'
  BY <1>1, <1>2
  DEF ClientInv, AssistantTypeOK, WorksForIt, DoneIsAnswered, ReplyAtHand, Resting
<1>5. CallPhase' = CallPhase
  BY <1>1, <1>2 DEF CallPhase
<1>6. CutOff' = CutOff
  BY <1>1, <1>2, <1>3 DEF CutOff
<1> QED
  BY <1>2, <1>4, <1>5, <1>6 DEF CallStep

(* What the daemon does for a call that is pending takes effect, and for one *)
(* that is abandoned settles it.                                             *)
LEMMA ServesIsEffect ==
  ASSUME LoaderInv, TaskInv, TaskInv', ClientInv, NEW c \in Conns, DaemonServes(c)
  PROVE  ClientInv' /\ CallStep
<1> DEFINE changed == nextId' # nextId \/ ClientPhase' # ClientPhase
<1> SUFFICES ASSUME ~WriteResponse(c)
             PROVE  ClientInv' /\ CallStep
  BY WritesIsNothing
<1>1. /\ ~Resting(c) /\ pc'[c] # "idle" /\ req'[c] = req[c]
      /\ pc'[c] = "respond" => reply'[c] \notin {"none", "disconnected"}
      /\ \A d \in Conns \ {c} : pc'[d] = pc[d] /\ req'[d] = req[d] /\ reply'[d] = reply[d]
  BY StepConcernsOne DEF DaemonServes
<1>2. /\ UNCHANGED <<activity, told, vms>>
      /\ done' = [done EXCEPT ![c] = @ \/ (activity[c] \in Changing /\ changed)]
  BY DEF DaemonServes
<1>3. ~done[c]
  BY <1>1 DEF ClientInv, DoneIsAnswered
<1>4. done \in [Conns -> BOOLEAN] /\ activity \in [Conns -> {"ready"} \cup Op \cup Local]
  BY DEF ClientInv, AssistantTypeOK
<1>5. CutOff' = CutOff
  BY <1>1, <1>2 DEF CutOff, Resting
<1>6. ReplyAtHand'
  BY <1>1 DEF ClientInv, ReplyAtHand
<1>7. CASE activity[c] \in Changing
  <2>1. req[c].op = activity[c]
    BY <1>1, <1>7 DEF ClientInv, WorksForIt, Op, Resting
  <2>2. changed <=> pc'[c] = "respond" /\ reply'[c] = Expected[activity[c]]
    BY <1>7, <2>1, StepIsAnswered DEF DaemonServes
  <2>3. done' = [done EXCEPT ![c] = changed]
    BY <1>2, <1>3, <1>4, <1>7
  <2>4. AssistantTypeOK'
    BY <1>2, <2>3 DEF ClientInv, AssistantTypeOK
  <2>5. WorksForIt'
    BY <1>1, <1>2, <2>1 DEF ClientInv, WorksForIt
  <2>6. DoneIsAnswered'
    <3>1. ASSUME NEW d \in Conns \ {c}
          PROVE  /\ done'[d] <=> done[d]
                 /\ activity'[d] = activity[d]
                 /\ pc'[d] = pc[d] /\ reply'[d] = reply[d]
      BY <1>1, <1>2, <1>4, <2>3
    <3>2. (done'[c] <=> changed) /\ activity'[c] = activity[c]
      BY <1>2, <1>4, <2>3
    <3>3. done'[c] <=> pc'[c] = "respond" /\ reply'[c] = Expected[activity[c]]
      BY <2>2, <3>2
    <3> HIDE DEF changed
    <3>4. ASSUME NEW d \in Conns
          PROVE  /\ done'[d] => /\ activity'[d] \in Changing
                                /\ pc'[d] \in {"idle", "respond"}
                                /\ reply'[d] \in {Expected[activity'[d]], "disconnected"}
                 /\ activity'[d] \in Changing /\ pc'[d] \in {"idle", "respond"}
                      /\ reply'[d] = Expected[activity'[d]] => done'[d]
      <4>1. CASE d = c
        BY <1>1, <1>7, <3>2, <3>3, <4>1
      <4>2. CASE d # c
        BY <3>1, <4>2 DEF ClientInv, DoneIsAnswered, Resting
      <4> QED
        BY <4>1, <4>2
    <3> QED
      BY <3>4 DEF DoneIsAnswered, Resting
  <2>7. CallPhase' = CallPhase /\ CallPhase[c] = "pending"
    BY <1>1, <1>2, <1>7 DEF CallPhase
  <2>8. c \notin CutOff
    BY <1>1 DEF CutOff, Resting
  <2>9. CASE changed
    BY <1>2, <1>3, <1>5, <1>6, <2>3, <2>4, <2>5, <2>6, <2>7, <2>8, <2>9
    DEF ClientInv, CallStep, Calls!CallNext, Calls!Do
  <2>10. CASE ~changed
    <3>1. done' = done
      BY <1>3, <1>4, <2>3, <2>10
    <3> QED
      BY <1>2, <1>5, <1>6, <2>4, <2>5, <2>6, <2>7, <3>1 DEF ClientInv, CallStep
  <2> QED
    BY <2>9, <2>10
<1>8. CASE activity[c] \notin Changing
  <2>1. done' = done
    BY <1>2, <1>3, <1>4, <1>8
  <2>2. ClientInv'
    BY <1>1, <1>2, <1>6, <1>8, <2>1
    DEF ClientInv, AssistantTypeOK, WorksForIt, DoneIsAnswered, Resting
  <2>3. CASE pc'[c] # "respond" \/ req[c].op \notin Changing
    <3>1. CallPhase' = CallPhase
      BY <1>1, <1>2, <1>8, <2>3 DEF CallPhase, Resting
    <3> QED
      BY <1>2, <1>5, <2>1, <2>2, <3>1 DEF CallStep
  <2>4. CASE pc'[c] = "respond" /\ req[c].op \in Changing
    <3>1. CallPhase[c] = "abandoned" /\ CallPhase' = [CallPhase EXCEPT ![c] = "ready"]
      BY <1>1, <1>2, <1>8, <2>4 DEF CallPhase, Resting
    <3> QED
      BY <1>2, <1>5, <2>1, <2>2, <3>1 DEF CallStep, Calls!CallNext, Calls!Settle
  <2> QED
    BY <2>3, <2>4
<1> QED
  BY <1>7, <1>8

(* When the daemon dies, no abandoned call takes effect any more, and a      *)
(* pending one is cut off, unless its response has been written.             *)
LEMMA DiesIsCrash ==
  ASSUME TaskInv, ClientInv, DaemonDies
  PROVE  ClientInv' /\ CallStep
<1>1. /\ UNCHANGED clientVars
      /\ pc' = [c \in Conns |-> "idle"]
      /\ reply' = [c \in Conns |-> IF pc[c] = "idle" THEN reply[c] ELSE "disconnected"]
  BY DEF DaemonDies, DaemonRestart
<1>2. ClientInv'
  <2>1. AssistantTypeOK' /\ WorksForIt'
    BY <1>1 DEF clientVars, ClientInv, AssistantTypeOK, WorksForIt
  <2>2. \A c \in Conns : activity[c] \in Changing => Expected[activity[c]] # "disconnected"
    BY DEF Changing, Expected
  <2>3. DoneIsAnswered'
    BY <1>1, <2>2 DEF clientVars, ClientInv, DoneIsAnswered, Resting
  <2>4. ReplyAtHand'
    BY <1>1 DEF ReplyAtHand
  <2> QED
    BY <2>1, <2>3, <2>4 DEF ClientInv
<1>3. CallPhase' = [c \in Conns |->
                      IF CallPhase[c] = "abandoned" THEN "ready" ELSE CallPhase[c]]
  BY <1>1 DEF CallPhase, clientVars
<1>4. \E lost \in SUBSET {c \in Conns : CallPhase[c] = "pending"} : CutOff' = CutOff \cup lost
  <2> DEFINE lost == {c \in Conns : activity[c] \in Changing /\ pc[c] # "idle"}
  <2>1. lost \subseteq {c \in Conns : CallPhase[c] = "pending"}
    BY DEF CallPhase
  <2>2. CutOff' = CutOff \cup lost
    BY <1>1 DEF CutOff, clientVars
  <2> QED
    BY <2>1, <2>2
<1> QED
  BY <1>1, <1>2, <1>3, <1>4 DEF clientVars, CallStep, Calls!CallNext, Calls!Crash

(* A connection nobody waits on closes, and no client notices. *)
LEMMA ClosedIsNothing ==
  ASSUME TaskInv, ClientInv, NEW c \in Conns, DaemonClosed(c)
  PROVE  ClientInv' /\ CallStep
<1>1. /\ UNCHANGED clientVars /\ UNCHANGED <<pc, req>> /\ activity[c] \notin Op
      /\ \A d \in Conns \ {c} : reply'[d] = reply[d]
  BY DEF DaemonClosed, Hangup, TaskInv, TaskTypeOK
<1>2. ClientInv'
  <2>1. pc[c] = "idle"
    BY DEF DaemonClosed, Hangup
  <2> QED
    BY <1>1, <2>1
    DEF clientVars, ClientInv, AssistantTypeOK, WorksForIt, DoneIsAnswered, ReplyAtHand,
        Resting, Op
<1>3. CallPhase' = CallPhase /\ CutOff' = CutOff
  BY <1>1 DEF clientVars, CallPhase, CutOff, Op
<1> QED
  BY <1>1, <1>2, <1>3 DEF clientVars, CallStep

(* Work of one's own ends or not, and is no call. *)
LEMMA LocalIsOther ==
  ASSUME ClientInv, NEW c \in Conns, LocalNext(c)
  PROVE  ClientInv' /\ CallStep
<1>1. ASSUME NEW what \in Local, Works(c, what)
      PROVE  ClientInv' /\ CallStep
  BY <1>1, WorksIsOther
<1>2. ASSUME NEW what \in Local, NEW telling \in Telling, WorkEnds(c, what, telling),
             what # "isolated" \/ c \notin vms
      PROVE  ClientInv' /\ CallStep
  <2>1. c \notin vms /\ activity[c] \notin Op
    BY <1>2 DEF WorkEnds, ClientInv, AssistantTypeOK, Local, Op, Changing
  <2> QED
    BY <1>2, <2>1, TellsIsOther DEF WorkEnds
<1>3. ASSUME NEW telling \in Telling, VmLook(c, telling)
      PROVE  ClientInv' /\ CallStep
  <2>1. c \notin vms /\ activity[c] \notin Op
    BY <1>3 DEF VmLook, Free, ClientInv, AssistantTypeOK, Op, Changing
  <2> QED
    BY <1>3, <2>1, TellsIsOther DEF VmLook
<1>4. CASE IsolatedBoots(c)
  <2>1. UNCHANGED <<activity, told, done, pc, req, reply>>
    BY <1>4 DEF IsolatedBoots, vars
  <2>2. ClientInv'
    BY <1>4, <2>1
    DEF IsolatedBoots, ClientInv, AssistantTypeOK, WorksForIt, DoneIsAnswered, ReplyAtHand,
        Resting
  <2> QED
    BY <2>1, <2>2 DEF CallStep, CallPhase, CutOff
<1>5. CASE IsolatedEnds(c)
  <2>1. activity[c] \notin Op
    BY <1>5 DEF IsolatedEnds, ClientInv, AssistantTypeOK, Op, Changing
  <2> QED
    BY <1>5, <2>1, TellsIsOther DEF IsolatedEnds, Telling
<1>6. CASE BuildBegins(c) \/ TriggerBegins(c) \/ TraceBegins(c) \/ IsolatedBegins(c)
  BY <1>1, <1>6 DEF BuildBegins, TriggerBegins, TraceBegins, IsolatedBegins, Local
<1>7. CASE BuildEnds(c) \/ TriggerEnds(c) \/ TraceMissing(c) \/ TraceDenied(c)
             \/ TraceBreaks(c) \/ LastLine(c) \/ IsolatedRefused(c)
  BY <1>2, <1>7
  DEF BuildEnds, TriggerEnds, TraceMissing, TraceDenied, TraceBreaks, LastLine,
      IsolatedRefused, Local, Telling
<1>8. CASE VmList(c) \/ VmStop(c)
  BY <1>3, <1>8 DEF VmList, VmStop, Telling
<1> QED
  BY <1>4, <1>5, <1>6, <1>7, <1>8 DEF LocalNext

(* Every step keeps the clients' invariant and RemoteCall's promise.         *)
LEMMA EveryStepIsCallStep ==
  ASSUME LoaderInv, TaskInv, TaskInv', ClientInv, [AssistantNext]_allVars
  PROVE  ClientInv' /\ CallStep
<1>1. ASSUME NEW telling \in {"success", "failure"}, AnswerAtOnce(telling)
      PROVE  ClientInv' /\ CallStep
  <2>1. /\ Mcp \in Conns /\ Mcp \notin vms
        /\ activity[Mcp] \notin Op
    BY <1>1, McpAssumption DEF AnswerAtOnce, Free, ClientInv, AssistantTypeOK, Op, Changing
  <2> QED
    BY <1>1, <2>1, TellsIsOther DEF AnswerAtOnce, Telling
<1>2. CASE ToolLoad \/ ToolProgram \/ ToolState \/ ToolMap
  BY <1>2, AsksIsCall, McpAssumption, ClientRequestsAssumption
  DEF ToolLoad, ToolProgram, ToolState, ToolMap, ToolAsks
<1>3. ASSUME NEW c \in Conns, CommandNext(c)
      PROVE  ClientInv' /\ CallStep
  BY <1>3, AsksIsCall, ClientRequestsAssumption
  DEF CommandNext, CommandLoad, CommandProgram, CommandState, CommandAuth, CommandMap,
      CommandAsks
<1>4. ASSUME NEW c \in Conns, ConnectFails(c)
      PROVE  ClientInv' /\ CallStep
  <2>1. c \notin vms /\ activity[c] \notin Op
    BY <1>4 DEF ConnectFails, Free, ClientInv, AssistantTypeOK, Op, Changing
  <2> QED
    BY <1>4, <2>1, TellsIsOther DEF ConnectFails, Telling
<1>5. ASSUME NEW c \in Conns,
             ReadsReply(c) \/ Killed(c) \/ DaemonServes(c) \/ DaemonClosed(c)
      PROVE  ClientInv' /\ CallStep
  BY <1>5, ReadsIsAnswer, KilledAbandons, ServesIsEffect, ClosedIsNothing
<1>6. ASSUME NEW c \in Workers, LocalNext(c)
      PROVE  ClientInv' /\ CallStep
  BY <1>6, LocalIsOther, McpAssumption
<1>7. CASE DaemonAlone \/ UNCHANGED allVars
  <2>1. UNCHANGED clientVars /\ UNCHANGED <<pc, req, reply>>
    BY <1>7 DEF DaemonAlone, CacheExpires, taskVars, allVars, clientVars
  <2> QED
    BY <2>1
    DEF clientVars, ClientInv, AssistantTypeOK, WorksForIt, DoneIsAnswered, ReplyAtHand,
        Resting, CallStep, CallPhase, CutOff
<1> QED
  BY <1>1, <1>2, <1>3, <1>4, <1>5, <1>6, <1>7, DiesIsCrash DEF AssistantNext, McpNext

(* A client begins with nothing made, done or told. *)
LEMMA ClientsBegin == AssistantInit => ClientInv /\ Calls!CallInit
<1>1. ASSUME AssistantInit
      PROVE  ClientInv /\ Calls!CallInit
  <2>1. AssistantTypeOK
    BY <1>1 DEF AssistantInit, AssistantTypeOK, Telling
  <2>2. WorksForIt /\ DoneIsAnswered /\ ReplyAtHand
    BY <1>1 DEF AssistantInit, DaemonInit, WorksForIt, DoneIsAnswered, ReplyAtHand, Changing
  <2>3. Calls!CallInit
    BY <1>1 DEF AssistantInit, DaemonInit, CallPhase, CutOff, Calls!CallInit, Changing
  <2> QED
    BY <2>1, <2>2, <2>3 DEF ClientInv
<1> QED
  BY <1>1

(* The clients' invariant holds of every reachable state. *)
THEOREM AssistantInvariant == AssistantSpec => []ClientInv
<1>1. DaemonInv /\ DaemonInv' /\ ClientInv /\ [AssistantNext]_allVars => ClientInv'
  BY EveryStepIsCallStep DEF DaemonInv
<1> QED
  BY <1>1, ClientsBegin, AssistantImplementsDaemon, DaemonInvariant, PTL DEF AssistantSpec

(* The clients' state keeps its type. *)
THEOREM AssistantTypeCorrect == AssistantSpec => []AssistantTypeOK
BY AssistantInvariant, PTL DEF ClientInv

(* What a command or a tool reports of a change is so, and the answer is lost *)
(* only when the daemon has died on the call, under every interleaving with   *)
(* other clients, a client's death and a daemon's restart.                    *)
THEOREM CallsAreKept == AssistantSpec => CallsKeepPromise
<1>1. DaemonInv /\ DaemonInv' /\ ClientInv /\ [AssistantNext]_allVars
        => [Calls!CallNext]_(Calls!callVars)
  BY EveryStepIsCallStep DEF DaemonInv, CallStep, Calls!callVars
<1> QED
  BY <1>1, ClientsBegin, AssistantInvariant, AssistantImplementsDaemon, DaemonInvariant, PTL
  DEF AssistantSpec, CallsKeepPromise, Calls!CallSpec

-----------------------------------------------------------------------------

(* What is missing for LineToCome is that a task that rests has answered.    *)
Answered ==
  \A c \in Conns : activity[c] \in Op /\ pc[c] = "idle" => reply[c] # "none"

(* A client that asks has a task at work, and the others keep their replies. *)
LEMMA AskingIsAnswered ==
  ASSUME TaskInv, ClientInv, Answered, NEW c \in Conns, NEW r \in Requests, Asks(c, r)
  PROVE  Answered'
<1>1. /\ pc'[c] # "idle"
      /\ \A d \in Conns \ {c} :
           activity'[d] = activity[d] /\ pc'[d] = pc[d] /\ reply'[d] = reply[d]
  BY DEF Asks, Begins, Receive, TaskInv, TaskTypeOK, ClientInv, AssistantTypeOK
<1> QED
  BY <1>1 DEF Answered

(* A client that waits for no line after the step owes nothing by it. *)
LEMMA EndingIsAnswered ==
  ASSUME Answered, NEW c \in Conns, activity'[c] \notin Op, UNCHANGED pc,
         \A d \in Conns \ {c} : activity'[d] = activity[d] /\ reply'[d] = reply[d]
  PROVE  Answered'
BY DEF Answered

(* The daemon's work for one client leaves the others' answers alone. *)
LEMMA ServingIsAnswered ==
  ASSUME TaskInv, ClientInv, Answered, NEW c \in Conns, DaemonServes(c)
  PROVE  Answered'
<1>1. \A d \in Conns \ {c} : pc'[d] = pc[d] /\ reply'[d] = reply[d]
  BY StepConcernsOne DEF DaemonServes
<1>2. pc'[c] = "idle" => reply'[c] # "none"
  BY StepConcernsOne DEF DaemonServes, WriteResponse, ClientInv, ReplyAtHand
<1> QED
  BY <1>1, <1>2 DEF Answered, DaemonServes

(* Work of one's own is no wait for a line. *)
LEMMA LocalIsAnswered ==
  ASSUME ClientInv, Answered, NEW c \in Conns, LocalNext(c)
  PROVE  Answered'
<1>1. UNCHANGED <<pc, reply>>
  BY DEF LocalNext, BuildBegins, BuildEnds, TriggerBegins, TriggerEnds, TraceBegins,
         TraceMissing, TraceDenied, TraceBreaks, LastLine, VmList, VmStop, VmLook,
         IsolatedBegins, IsolatedRefused, IsolatedBoots, IsolatedEnds,
         Works, WorkEnds, vars
<1>2. \/ UNCHANGED activity
      \/ \E what \in {"ready"} \cup Local : activity' = [activity EXCEPT ![c] = what]
  BY DEF LocalNext, BuildBegins, BuildEnds, TriggerBegins, TriggerEnds, TraceBegins,
         TraceMissing, TraceDenied, TraceBreaks, LastLine, VmList, VmStop, VmLook,
         IsolatedBegins, IsolatedRefused, IsolatedBoots, IsolatedEnds,
         Works, WorkEnds, Begins, Ends, Local
<1> QED
  BY <1>1, <1>2 DEF Answered, ClientInv, AssistantTypeOK, Op, Changing, Local

(* No step leaves a client behind whose request was taken and not answered.  *)
LEMMA EveryStepIsAnswered ==
  ASSUME TaskInv, ClientInv, Answered, [AssistantNext]_allVars
  PROVE  Answered'
<1>1. ASSUME NEW c \in Conns, NEW telling, Ends(c, telling), UNCHANGED pc,
             \A d \in Conns \ {c} : reply'[d] = reply[d]
      PROVE  Answered'
  BY <1>1, EndingIsAnswered DEF Ends, ClientInv, AssistantTypeOK, Op, Changing
<1>2. ASSUME NEW telling \in {"success", "failure"}, AnswerAtOnce(telling)
      PROVE  Answered'
  BY <1>1, <1>2, McpAssumption DEF AnswerAtOnce, vars
<1>3. CASE ToolLoad \/ ToolProgram \/ ToolState \/ ToolMap
  BY <1>3, AskingIsAnswered, McpAssumption, ClientRequestsAssumption
  DEF ToolLoad, ToolProgram, ToolState, ToolMap, ToolAsks
<1>4. ASSUME NEW c \in Conns, CommandNext(c)
      PROVE  Answered'
  BY <1>4, AskingIsAnswered, ClientRequestsAssumption
  DEF CommandNext, CommandLoad, CommandProgram, CommandState, CommandAuth, CommandMap,
      CommandAsks
<1>5. ASSUME NEW c \in Conns, ConnectFails(c) \/ Killed(c)
      PROVE  Answered'
  BY <1>1, <1>5 DEF ConnectFails, Killed, vars
<1>6. ASSUME NEW c \in Conns, ReadsReply(c)
      PROVE  Answered'
  <2>1. UNCHANGED pc /\ \A d \in Conns \ {c} : reply'[d] = reply[d]
    BY <1>6 DEF ReadsReply, Hangup, TaskInv, TaskTypeOK
  <2> QED
    BY <1>1, <1>6, <2>1 DEF ReadsReply
<1>7. ASSUME NEW c \in Conns, DaemonClosed(c)
      PROVE  Answered'
  <2>1. /\ UNCHANGED <<pc, activity>> /\ activity[c] \notin Op
        /\ \A d \in Conns \ {c} : reply'[d] = reply[d]
    BY <1>7 DEF DaemonClosed, Hangup, clientVars, TaskInv, TaskTypeOK
  <2> QED
    BY <2>1, EndingIsAnswered
<1>8. ASSUME NEW c \in Workers, LocalNext(c)
      PROVE  Answered'
  BY <1>8, LocalIsAnswered, McpAssumption
<1>9. CASE DaemonDies
  <2>1. /\ UNCHANGED activity
        /\ reply' = [c \in Conns |-> IF pc[c] = "idle" THEN reply[c] ELSE "disconnected"]
    BY <1>9 DEF DaemonDies, DaemonRestart, clientVars
  <2> QED
    BY <2>1 DEF Answered
<1>10. CASE DaemonAlone \/ UNCHANGED allVars
  <2>1. UNCHANGED <<activity, pc, reply>>
    BY <1>10 DEF DaemonAlone, CacheExpires, taskVars, clientVars, allVars
  <2> QED
    BY <2>1 DEF Answered
<1> QED
  BY <1>2, <1>3, <1>4, <1>5, <1>6, <1>7, <1>8, <1>9, <1>10, ServingIsAnswered
  DEF AssistantNext, McpNext

(* A client that waits for its line waits for one that is there, or that the *)
(* daemon is at work on for the request it made: no answer is lost, whatever *)
(* is killed, closed or restarted.  With a scheduler that lets the task and  *)
(* the client go on this is why LinesAnswered holds.                         *)
THEOREM LinesCome == AssistantSpec => []LineToCome
<1>1. AssistantInit => Answered
  BY DEF AssistantInit, Answered, Op, Changing
<1>2. DaemonInv /\ ClientInv /\ Answered /\ [AssistantNext]_allVars => Answered'
  BY EveryStepIsAnswered DEF DaemonInv
<1>3. ClientInv /\ Answered => LineToCome
  BY DEF ClientInv, WorksForIt, Answered, LineToCome
<1> QED
  BY <1>1, <1>2, <1>3, AssistantInvariant, AssistantImplementsDaemon, DaemonInvariant, PTL
  DEF AssistantSpec

=============================================================================
