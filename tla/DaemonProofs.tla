---------------------------- MODULE DaemonProofs ----------------------------
(***************************************************************************)
(* Proofs about Daemon, for any number of connections, any requests, and   *)
(* any object files.                                                       *)
(*                                                                         *)
(* The inductive invariant adds to the type invariant and to the invariant *)
(* of the program table what the State mutex gives: whoever asks polkit or *)
(* the user holds it, so no Lock runs in between; and a task that is about *)
(* to load or to attach carries the verdict on that very action.           *)
(***************************************************************************)
EXTENDS Daemon, LoaderProofs

MutexHeldAcrossQuestions ==
  \A c \in Conns : stateLock = c <=> pc[c] \in {"asking", "prompt"}

RequestAtHand ==
  \A c \in Conns :
    /\ pc[c] \notin {"idle", "respond"} => req[c] \in Requests
    /\ pc[c] \in {"check", "asking"} => req[c].op \in {"load", "attach"}
    /\ pc[c] = "prompt" => req[c].op = "unlock"

ClearedToRun ==
  \A c \in Conns : pc[c] = "run" /\ req[c].op \in {"load", "attach"} =>
    verdict[c] \in [action : {req[c].op}, answer : {"authorized", "error"}]

NoneOvertaken == overtaken = {}

TaskTypeOK ==
  /\ stateLock \in Conns \cup {NoConn}
  /\ pc \in [Conns -> Location]
  /\ req \in [Conns -> Requests \cup {NoRequest}]
  /\ verdict \in [Conns -> Verdict \cup {NoVerdict}]
  /\ reply \in [Conns -> Reply \cup ErrorReply]

TaskInv ==
  /\ TaskTypeOK
  /\ MutexHeldAcrossQuestions
  /\ RequestAtHand
  /\ ClearedToRun
  /\ NoneOvertaken

DaemonInv == LoaderInv /\ AuthTypeOK /\ TaskInv

-----------------------------------------------------------------------------

(* Every response is a reply the protocol knows. *)
LEMMA RepliesType ==
  ASSUME NEW result \in LoadResult \cup AttachResult \cup DetachResult \cup UnloadResult
  PROVE  Replies(result) \subseteq Reply \cup ErrorReply
BY DEF Replies, ErrorCodes, Succeeded, Reply, ErrorReply, LoadResult, AttachResult,
       DetachResult, UnloadResult

(* A task that holds no lock, or lets it go, may finish its request. *)
LEMMA FinishPreserves ==
  ASSUME TaskInv, NEW c \in Conns, NEW response \in Reply \cup ErrorReply,
         Finish(c, response),
         \/ UNCHANGED stateLock /\ pc[c] \notin {"asking", "prompt"}
         \/ stateLock' = NoConn /\ stateLock = c
  PROVE  TaskInv'
<1>1. TaskTypeOK'
  BY DEF Finish, TaskInv, TaskTypeOK, Location
<1>2. MutexHeldAcrossQuestions'
  BY NoConnAssumption DEF Finish, TaskInv, TaskTypeOK, MutexHeldAcrossQuestions
<1>3. RequestAtHand'
  BY DEF Finish, TaskInv, TaskTypeOK, RequestAtHand
<1>4. ClearedToRun'
  BY DEF Finish, TaskInv, TaskTypeOK, ClearedToRun
<1>5. NoneOvertaken'
  BY DEF Finish, TaskInv, NoneOvertaken
<1> QED
  BY <1>1, <1>2, <1>3, <1>4, <1>5 DEF TaskInv

(* A verdict may be recorded when the question, if there was one, is over. *)
LEMMA CheckDonePreserves ==
  ASSUME TaskInv, NEW c \in Conns, NEW answer \in Answer,
         CheckDone(c, CheckedAction(req[c]), answer), pc[c] \in {"check", "asking"},
         \/ UNCHANGED stateLock /\ pc[c] = "check"
         \/ stateLock' = NoConn /\ stateLock = c
  PROVE  TaskInv'
<1>1. CASE ~Passes(answer)
  <2>1. PICK response \in Reply \cup ErrorReply : Finish(c, response)
    BY <1>1 DEF CheckDone, ErrorReply
  <2> QED
    BY <2>1, FinishPreserves
<1>2. CASE Passes(answer)
  <2> DEFINE action == CheckedAction(req[c])
  <2>1. /\ pc' = [pc EXCEPT ![c] = "run"]
        /\ UNCHANGED <<req, reply>>
        /\ verdict' = [verdict EXCEPT ![c] = [action |-> action, answer |-> answer]]
        /\ overtaken' = overtaken \ {c}
    BY <1>2 DEF CheckDone, Goto
  <2>2. action = req[c].op /\ action \in {"load", "attach"}
    BY DEF CheckedAction, TaskInv, RequestAtHand
  <2>3. [action |-> action, answer |-> answer]
          \in [action : {req[c].op}, answer : {"authorized", "error"}] \cap Verdict
    BY <1>2, <2>2 DEF Passes, Verdict, Action
  <2>4. TaskTypeOK'
    BY <2>1, <2>3 DEF TaskInv, TaskTypeOK, Location
  <2>5. MutexHeldAcrossQuestions'
    BY <2>1, NoConnAssumption DEF TaskInv, TaskTypeOK, MutexHeldAcrossQuestions
  <2>6. RequestAtHand'
    BY <2>1 DEF TaskInv, TaskTypeOK, RequestAtHand
  <2>7. ClearedToRun'
    BY <2>1, <2>3 DEF TaskInv, TaskTypeOK, ClearedToRun
  <2>8. NoneOvertaken'
    BY <2>1 DEF TaskInv, NoneOvertaken
  <2> QED
    BY <2>4, <2>5, <2>6, <2>7, <2>8 DEF TaskInv
<1> QED
  BY <1>1, <1>2

(* A line that is refused, or a response that is written, changes no lock. *)
LEMMA ReplyingPreserves ==
  ASSUME TaskInv, NEW c \in Conns, ReceiveInvalid(c) \/ WriteResponse(c)
  PROVE  TaskInv'
<1>1. TaskTypeOK'
  BY DEF ReceiveInvalid, WriteResponse, TaskInv, TaskTypeOK, Location, ErrorReply
<1>2. MutexHeldAcrossQuestions'
  BY DEF ReceiveInvalid, WriteResponse, TaskInv, TaskTypeOK, MutexHeldAcrossQuestions
<1>3. RequestAtHand'
  BY DEF ReceiveInvalid, WriteResponse, TaskInv, TaskTypeOK, RequestAtHand
<1>4. ClearedToRun'
  BY DEF ReceiveInvalid, WriteResponse, TaskInv, TaskTypeOK, ClearedToRun
<1>5. NoneOvertaken'
  BY DEF ReceiveInvalid, WriteResponse, TaskInv, NoneOvertaken
<1> QED
  BY <1>1, <1>2, <1>3, <1>4, <1>5 DEF TaskInv

(* A connection that takes a request keeps the tasks consistent. *)
LEMMA ReceivePreserves ==
  ASSUME TaskInv, NEW c \in Conns, NEW r \in Requests, Receive(c, r)
  PROVE  TaskInv'
<1>1. TaskTypeOK'
  BY DEF Receive, TaskInv, TaskTypeOK, Location, Reply
<1>2. MutexHeldAcrossQuestions'
  BY DEF Receive, TaskInv, TaskTypeOK, MutexHeldAcrossQuestions
<1>3. RequestAtHand'
  BY DEF Receive, TaskInv, TaskTypeOK, RequestAtHand
<1>4. ClearedToRun'
  BY DEF Receive, TaskInv, TaskTypeOK, ClearedToRun
<1>5. NoneOvertaken'
  BY DEF Receive, TaskInv, NoneOvertaken
<1> QED
  BY <1>1, <1>2, <1>3, <1>4, <1>5 DEF TaskInv

(* Taking the mutex to ask polkit, or the user: no other task holds it. *)
LEMMA QuestionPreserves ==
  ASSUME TaskInv, NEW c \in Conns, NEW location,
         stateLock = NoConn, stateLock' = c, Goto(c, location),
         UNCHANGED <<verdict, overtaken>>,
         \/ location = "asking" /\ pc[c] = "check"
         \/ location = "prompt" /\ pc[c] = "run" /\ req[c].op = "unlock"
  PROVE  TaskInv'
<1>1. TaskTypeOK'
  BY DEF Goto, TaskInv, TaskTypeOK, Location
<1>2. MutexHeldAcrossQuestions'
  BY NoConnAssumption DEF Goto, TaskInv, TaskTypeOK, MutexHeldAcrossQuestions
<1>3. RequestAtHand'
  BY DEF Goto, TaskInv, TaskTypeOK, RequestAtHand
<1>4. ClearedToRun'
  BY DEF Goto, TaskInv, TaskTypeOK, ClearedToRun
<1>5. NoneOvertaken'
  BY DEF TaskInv, NoneOvertaken
<1> QED
  BY <1>1, <1>2, <1>3, <1>4, <1>5 DEF TaskInv

(* Lock runs when the mutex is free, so it overtakes no question. *)
LEMMA LockPreserves ==
  ASSUME TaskInv, NEW c \in Conns, HandleLock(c)
  PROVE  TaskInv'
<1>1. overtaken' = {}
  BY NoConnAssumption DEF HandleLock, Runs, TaskInv, MutexHeldAcrossQuestions
<1>2. TaskTypeOK'
  BY DEF HandleLock, Runs, TaskInv, TaskTypeOK, Location, Reply
<1>3. MutexHeldAcrossQuestions'
  BY DEF HandleLock, Runs, TaskInv, TaskTypeOK, MutexHeldAcrossQuestions
<1>4. RequestAtHand'
  BY DEF HandleLock, Runs, TaskInv, TaskTypeOK, RequestAtHand
<1>5. ClearedToRun'
  BY DEF HandleLock, Runs, TaskInv, TaskTypeOK, ClearedToRun
<1> QED
  BY <1>1, <1>2, <1>3, <1>4, <1>5 DEF TaskInv, NoneOvertaken

(* A step that touches no task keeps the tasks consistent. *)
LEMMA TaskStutterPreserves ==
  TaskInv /\ UNCHANGED taskVars => TaskInv'
BY DEF taskVars, TaskInv, TaskTypeOK, MutexHeldAcrossQuestions, RequestAtHand,
       ClearedToRun, NoneOvertaken

(* A connection that closes keeps the tasks consistent. *)
LEMMA HangupPreserves ==
  ASSUME TaskInv, NEW c \in Conns, Hangup(c)
  PROVE  TaskInv'
BY DEF Hangup, TaskInv, TaskTypeOK, MutexHeldAcrossQuestions, RequestAtHand,
       ClearedToRun, NoneOvertaken, Reply

(* After a restart no task holds anything. *)
LEMMA DaemonRestartPreserves == TaskInv /\ DaemonRestart => TaskInv'
BY NoConnAssumption
DEF DaemonRestart, TaskInv, TaskTypeOK, MutexHeldAcrossQuestions, RequestAtHand,
    ClearedToRun, NoneOvertaken, Location, Reply

(* The handlers that work on the table run to their end and finish. *)
LEMMA HandlersFinish ==
  ASSUME NEW c \in Conns,
         \/ HandleLoad(c) \/ HandleAttach(c) \/ HandleDetach(c) \/ HandleUnload(c)
         \/ HandleInspect(c) \/ HandleMap(c) \/ HandlePing(c)
  PROVE  /\ pc[c] = "run"
         /\ UNCHANGED <<stateLock, cache>>
         /\ \E response \in Reply \cup ErrorReply : Finish(c, response)
<1>1. CASE HandleLoad(c)
  BY <1>1, RepliesType DEF HandleLoad, Runs
<1>2. CASE HandleAttach(c)
  BY <1>2, RepliesType DEF HandleAttach, Runs
<1>3. CASE HandleDetach(c)
  BY <1>3, RepliesType DEF HandleDetach, Runs
<1>4. CASE HandleUnload(c)
  BY <1>4, RepliesType DEF HandleUnload, Runs
<1>5. CASE HandleInspect(c)
  BY <1>5 DEF HandleInspect, Runs, Reply
<1>6. CASE HandlePing(c)
  BY <1>6 DEF HandlePing, Reply
<1>7. CASE HandleMap(c)
  BY <1>7 DEF HandleMap, MapErrors, Runs, Reply, ErrorReply
<1> QED
  BY <1>1, <1>2, <1>3, <1>4, <1>5, <1>6, <1>7

-----------------------------------------------------------------------------

(* What an answer does to the cache keeps it a cache of decisions. *)
LEMMA CacheType ==
  ASSUME AuthTypeOK, NEW action \in Action, NEW answer \in Answer,
         CacheAnswer(action, answer) \/ CacheGrant(action, answer)
  PROVE  AuthTypeOK'
BY DEF AuthTypeOK, CacheAnswer, CacheGrant, Decision

(* One step of one task, conjunct by conjunct: its own state and the cache. *)
LEMMA StepPreserves ==
  ASSUME AuthTypeOK, TaskInv, NEW c \in Conns, Step(c)
  PROVE  AuthTypeOK' /\ TaskInv'
<1>1. CASE CheckHit(c)
  <2> DEFINE action == CheckedAction(req[c])
  <2>1. action \in Action
    BY <1>1 DEF CheckHit, CheckedAction, TaskInv, RequestAtHand, Action
  <2>2. cache[action] \in Answer
    BY <1>1, <2>1 DEF CheckHit, CacheHit, AuthTypeOK, Answer
  <2>3. TaskInv'
    BY <1>1, <2>2, CheckDonePreserves DEF CheckHit
  <2> QED
    BY <1>1, <2>3 DEF CheckHit, AuthTypeOK
<1>2. CASE CheckMiss(c)
  BY <1>2, QuestionPreserves DEF CheckMiss, AuthTypeOK
<1>3. ASSUME NEW answer \in Answer, PolkitAnswers(c, answer)
      PROVE  AuthTypeOK' /\ TaskInv'
  <2>1. CheckedAction(req[c]) \in Action
    BY <1>3 DEF PolkitAnswers, CheckedAction, TaskInv, RequestAtHand, Action
  <2>2. stateLock = c
    BY <1>3 DEF PolkitAnswers, TaskInv, MutexHeldAcrossQuestions
  <2>3. TaskInv'
    BY <1>3, <2>2, CheckDonePreserves DEF PolkitAnswers
  <2> QED
    BY <1>3, <2>1, <2>3, CacheType DEF PolkitAnswers
<1>4. CASE \/ HandleLoad(c) \/ HandleAttach(c) \/ HandleDetach(c) \/ HandleUnload(c)
           \/ HandleInspect(c) \/ HandleMap(c) \/ HandlePing(c)
  BY <1>4, HandlersFinish, FinishPreserves DEF AuthTypeOK
<1>5. CASE HandleLock(c)
  BY <1>5, LockPreserves DEF HandleLock, ClearCache, AuthTypeOK
<1>6. CASE BeginUnlock(c)
  BY <1>6, QuestionPreserves DEF BeginUnlock, AuthTypeOK
<1>7. ASSUME NEW answer \in InteractiveAnswer, PromptAnswered(c, answer)
      PROVE  AuthTypeOK' /\ TaskInv'
  <2>1. PICK response \in Reply \cup ErrorReply : Finish(c, response)
    BY <1>7 DEF PromptAnswered, InteractiveAnswer, Reply, ErrorReply
  <2>2. stateLock = c /\ stateLock' = NoConn
    BY <1>7 DEF PromptAnswered, TaskInv, MutexHeldAcrossQuestions
  <2>3. TaskInv'
    BY <2>1, <2>2, FinishPreserves
  <2> QED
    BY <1>7, <2>3, CacheType DEF PromptAnswered, InteractiveAnswer, Answer, Decision, Action
<1>8. CASE WriteResponse(c)
  BY <1>8, ReplyingPreserves DEF WriteResponse, AuthTypeOK
<1> QED
  BY <1>1, <1>2, <1>3, <1>4, <1>5, <1>6, <1>7, <1>8 DEF Step

(* Every step of the daemon is a step of the program table, or leaves it. *)
LEMMA StepIsLoaderStep ==
  ASSUME TaskInv, [DaemonNext]_vars
  PROVE  [LoaderNext]_loaderVars
<1>1. ASSUME NEW c \in Conns, HandleLoad(c)
      PROVE  LoaderNext
  <2>1. req[c] \in Request /\ req[c].op = "load"
    BY <1>1, RequestsAssumption DEF HandleLoad, Runs, TaskInv, RequestAtHand
  <2>2. req[c].object \in Objects /\ req[c].name \in Names \cup {NoName}
    BY <2>1 DEF Request
  <2> QED
    BY <1>1, <2>2 DEF HandleLoad, LoaderNext
<1>2. ASSUME NEW c \in Conns, HandleAttach(c) \/ HandleDetach(c) \/ HandleUnload(c)
      PROVE  LoaderNext
  <2>1. req[c] \in Request /\ req[c].op \in {"attach", "detach", "unload"}
    BY <1>2, RequestsAssumption
    DEF HandleAttach, HandleDetach, HandleUnload, Runs, TaskInv, RequestAtHand
  <2>2. req[c].id \in Ids
    BY <2>1 DEF Request
  <2> QED
    BY <1>2, <2>2 DEF HandleAttach, HandleDetach, HandleUnload, LoaderNext
<1>3. CASE DaemonRestart
  BY <1>3 DEF DaemonRestart, LoaderNext
<1> QED
  BY <1>1, <1>2, <1>3
  DEF DaemonNext, vars, loaderVars, Step, Hangup, Receive, CacheExpires, CheckHit, CheckMiss,
      PolkitAnswers, HandleInspect, HandleMap, HandlePing, HandleLock, BeginUnlock, PromptAnswered,
      ReceiveInvalid, WriteResponse

(* Every step of the daemon keeps the tasks consistent. *)
LEMMA DaemonStepPreserves ==
  ASSUME DaemonInv, [DaemonNext]_vars
  PROVE  DaemonInv'
<1>1. LoaderInv'
  BY StepIsLoaderStep, LoaderStepPreserves DEF DaemonInv
<1>2. ASSUME NEW c \in Conns, NEW r \in Requests, Receive(c, r)
      PROVE  AuthTypeOK' /\ TaskInv'
  BY <1>2, ReceivePreserves DEF DaemonInv, Receive, AuthTypeOK
<1>3. ASSUME NEW c \in Conns, Step(c)
      PROVE  AuthTypeOK' /\ TaskInv'
  BY <1>3, StepPreserves DEF DaemonInv
<1>4. ASSUME NEW action \in Action, CacheExpires(action)
      PROVE  AuthTypeOK' /\ TaskInv'
  BY <1>4, TaskStutterPreserves DEF DaemonInv, CacheExpires, Expire, AuthTypeOK
<1>5. CASE DaemonRestart
  BY <1>1, <1>5, DaemonRestartPreserves
  DEF DaemonInv, DaemonRestart, ClearCache, AuthTypeOK
<1>6. CASE UNCHANGED vars
  BY <1>1, <1>6, TaskStutterPreserves DEF vars, taskVars, DaemonInv, AuthTypeOK
<1>7. ASSUME NEW c \in Conns, Hangup(c)
      PROVE  AuthTypeOK' /\ TaskInv'
  BY <1>7, HangupPreserves DEF DaemonInv, Hangup, AuthTypeOK
<1>8. ASSUME NEW c \in Conns, ReceiveInvalid(c)
      PROVE  AuthTypeOK' /\ TaskInv'
  BY <1>8, ReplyingPreserves DEF DaemonInv, ReceiveInvalid, AuthTypeOK
<1> QED
  BY <1>1, <1>2, <1>3, <1>4, <1>5, <1>6, <1>7, <1>8 DEF DaemonInv, DaemonNext

(* The inductive invariant holds of every reachable state of the daemon. *)
THEOREM DaemonInvariant == DaemonSpec => []DaemonInv
<1>1. DaemonInit => DaemonInv
  <2>1. DaemonInit => LoaderInv
    BY InitEstablishes DEF DaemonInit
  <2>2. DaemonInit => AuthTypeOK
    BY DEF DaemonInit, AuthInit, AuthTypeOK
  <2>3. DaemonInit => TaskInv
    BY NoConnAssumption
    DEF DaemonInit, TaskInv, TaskTypeOK, MutexHeldAcrossQuestions, RequestAtHand,
        ClearedToRun, NoneOvertaken, Location, Reply
  <2> QED
    BY <2>1, <2>2, <2>3 DEF DaemonInv
<1>2. DaemonInv /\ [DaemonNext]_vars => DaemonInv'
  BY DaemonStepPreserves
<1> QED
  BY <1>1, <1>2, PTL DEF DaemonSpec

-----------------------------------------------------------------------------

(* Type correctness of the daemon's State and of its tasks. *)
THEOREM DaemonTypeCorrect == DaemonSpec => []DaemonTypeOK
<1>1. DaemonInv => DaemonTypeOK
  BY DEF DaemonInv, LoaderInv, TaskInv, TaskTypeOK, NoneOvertaken, DaemonTypeOK
<1> QED
  BY <1>1, DaemonInvariant, PTL

(* The program table under concurrent clients behaves as Loader says, so   *)
(* what is proved of Loader holds of the daemon's table.                   *)
THEOREM DaemonImplementsLoader == DaemonSpec => LoaderSpec
<1>1. DaemonInit => LoaderInit
  BY DEF DaemonInit
<1>2. DaemonInv /\ [DaemonNext]_vars => [LoaderNext]_loaderVars
  BY StepIsLoaderStep DEF DaemonInv
<1> QED
  BY <1>1, <1>2, DaemonInvariant, PTL DEF DaemonSpec, LoaderSpec

(* So the lifecycle holds for every client, whatever the others do. *)
THEOREM DaemonKeepsLifecycle == DaemonSpec => ClientLifecycle /\ KernelLifecycle
BY DaemonImplementsLoader, TableImplementsClientView, TableImplementsKernelView, PTL

(* The mutex held across polkit's answer keeps a Lock from being undone by *)
(* an answer that was asked for before it.                                 *)
THEOREM LockForgetsForGood == DaemonSpec => LockIsFinal
<1> DEFINE Stale == \A c \in overtaken : pc[c] \in {"asking", "prompt"} /\ pc'[c] # pc[c]
                      => \A a \in Action : cache'[a] \in {cache[a], "none"}
<1>1. DaemonInv /\ [DaemonNext]_vars => [Stale]_vars
  BY DEF DaemonInv, TaskInv, NoneOvertaken
<1> QED
  BY <1>1, DaemonInvariant, PTL DEF DaemonSpec, LockIsFinal

-----------------------------------------------------------------------------

(* The id counter moves only in a load that succeeds, or in a restart. *)
LEMMA OnlyLoadsCount ==
  ASSUME TaskInv, DaemonNext, nextId' # nextId, issued' # {}
  PROVE  \E c \in Conns : HandleLoad(c)
<1>1. ~LoaderRestart
  BY DEF LoaderRestart
<1> QED
  BY <1>1
  DEF DaemonNext, Step, Hangup, Receive, CacheExpires, CheckHit, CheckMiss, PolkitAnswers,
      HandleAttach, HandleDetach, HandleUnload, HandleInspect, HandleMap, HandlePing, HandleLock,
      BeginUnlock, PromptAnswered, ReceiveInvalid, WriteResponse, DaemonRestart, Attach, Detach, Unload

(* A load, a detach and an unload hook nothing: only an attach does. *)
LEMMA OnlyAttachesHook ==
  ASSUME LoaderInv, TaskInv, DaemonNext, NEW id \in Ids,
         KernelPhase'[id] = "hooked", KernelPhase[id] # "hooked"
  PROVE  \E c \in Conns : HandleAttach(c)
<1>1. ~ UNCHANGED programs
  BY DEF KernelPhase
<1>2. ~LoaderRestart
  BY DEF LoaderRestart, KernelPhase
<1>3. ASSUME NEW c \in Conns, HandleLoad(c)
      PROVE  FALSE
  <2>1. PICK type : Insert(type)
    BY <1>1, <1>3 DEF HandleLoad, Load, loaderVars
  <2> QED
    BY <2>1 DEF Insert, NewProgram, KernelPhase, LoaderInv, LoaderTypeOK
<1>4. ASSUME NEW c \in Conns, HandleDetach(c) \/ HandleUnload(c)
      PROVE  FALSE
  <2>1. req[c] \in Request /\ req[c].op \in {"detach", "unload"}
    BY <1>4, RequestsAssumption DEF HandleDetach, HandleUnload, Runs, TaskInv, RequestAtHand
  <2>2. req[c].id \in Ids
    BY <2>1 DEF Request
  <2>3. CASE HandleDetach(c)
    BY <1>1, <2>2, <2>3, DetachUnhooks DEF HandleDetach
  <2>4. CASE HandleUnload(c)
    BY <1>1, <2>2, <2>4
    DEF HandleUnload, Unload, KernelPhase, LoaderInv, LoaderTypeOK
  <2> QED
    BY <1>4, <2>3, <2>4
<1> QED
  BY <1>1, <1>2, <1>3, <1>4
  DEF DaemonNext, Step, Hangup, Receive, CacheExpires, CheckHit, CheckMiss, PolkitAnswers,
      HandleInspect, HandleMap, HandlePing, HandleLock, BeginUnlock, PromptAnswered,
      ReceiveInvalid, WriteResponse, DaemonRestart

(* Whoever loads or attaches was cleared for that action by its own check, *)
(* whatever other clients did between the check and the operation.         *)
THEOREM EveryChangeIsCleared == DaemonSpec => GateHolds
<1> DEFINE Gate ==
      /\ nextId' # nextId /\ issued' # {} => \E c \in Conns : Cleared(c, "load")
      /\ \A id \in Ids : KernelPhase'[id] = "hooked" /\ KernelPhase[id] # "hooked"
           => \E c \in Conns : Cleared(c, "attach")
<1>1. ASSUME TaskInv, NEW c \in Conns, HandleLoad(c)
      PROVE  Cleared(c, "load")
  BY <1>1 DEF HandleLoad, Runs, Finish, TaskInv, TaskTypeOK, ClearedToRun, Cleared
<1>2. ASSUME TaskInv, NEW c \in Conns, HandleAttach(c)
      PROVE  Cleared(c, "attach")
  BY <1>2 DEF HandleAttach, Runs, Finish, TaskInv, TaskTypeOK, ClearedToRun, Cleared
<1>3. DaemonInv /\ [DaemonNext]_vars => [Gate]_vars
  BY <1>1, <1>2, OnlyLoadsCount, OnlyAttachesHook DEF DaemonInv
<1> QED
  BY <1>3, DaemonInvariant, PTL DEF DaemonSpec, GateHolds

-----------------------------------------------------------------------------

(* An operation that fails answers with an error, one that succeeds with its *)
(* own success.                                                              *)
LEMMA RepliesTell ==
  ASSUME NEW result, NEW response \in Replies(result)
  PROVE  \/ result \in Succeeded /\ response = result
         \/ result \notin Succeeded /\ response \in ErrorReply
BY DEF Replies, ErrorCodes, Succeeded, ErrorReply

(* A code that names the state of a program comes of a look at it. *)
LEMMA CodesTell ==
  ASSUME NEW result \in LoadResult \cup AttachResult \cup DetachResult \cup UnloadResult,
         NEW response \in Replies(result)
  PROVE  /\ response = "ProgramNotFound" => result = "program_not_found"
         /\ response = "AlreadyAttached" => result = "already_attached"
         /\ response = "NotAttached" => result = "not_attached"
BY DEF Replies, ErrorCodes, Succeeded, LoadResult, AttachResult, DetachResult, UnloadResult

(* An error that leaves the phases and the counter alone, and names the state *)
(* of a program only when it is in it, is so.                                 *)
LEMMA ErrorIsSo ==
  ASSUME NEW c \in Conns, reply'[c] \in ErrorReply,
         ClientPhase' = ClientPhase, KernelPhase' = KernelPhase, nextId' = nextId,
         reply'[c] = "ProgramNotFound" => ClientPhase[req[c].id] = "absent",
         reply'[c] = "AlreadyAttached" => ClientPhase[req[c].id] = "hooked",
         reply'[c] = "NotAttached" => ClientPhase[req[c].id] = "idle"
  PROVE  ResponseIsSo(c)
BY DEF ResponseIsSo, Decides, ErrorReply

(* No task answers for another. *)
LEMMA AnswersItself ==
  ASSUME TaskInv, NEW c \in Conns, NEW d \in Conns, c # d, Step(d)
  PROVE  pc'[c] = pc[c] /\ reply'[c] = reply[c]
BY HandlersFinish
DEF Step, CheckHit, CheckMiss, PolkitAnswers, CheckDone, HandleLock, BeginUnlock,
    PromptAnswered, WriteResponse, Goto, Finish, TaskInv, TaskTypeOK

(* The reply to a load is true of the table. *)
LEMMA LoadAnswer ==
  ASSUME LoaderInv, TaskInv, NEW c \in Conns, HandleLoad(c)
  PROVE  ResponseIsSo(c)
<1>1. PICK result \in LoadResult :
        /\ Load(req[c].object, req[c].name, result)
        /\ \E response \in Replies(result) : Finish(c, response)
  BY DEF HandleLoad
<1>2. reply'[c] \in Replies(result)
  BY <1>1 DEF Finish, TaskInv, TaskTypeOK
<1>3. CASE result = "loaded"
  <2>1. reply'[c] = "loaded"
    BY <1>2, <1>3, RepliesTell DEF Succeeded
  <2>2. PICK n \in DOMAIN req[c].object :
          /\ DefaultPolicy(DetectType(req[c].object[n])) # "deny"
          /\ Insert(DetectType(req[c].object[n]))
    BY <1>1, <1>3 DEF Load, Unselected
  <2>3. nextId \in Ids /\ ClientView!Issue(nextId) /\ KernelView!Issue(nextId)
    BY <2>2, InsertIssues DEF LoaderInv, LoaderTypeOK
  <2>4. ClientPhase'[nextId] = "idle" /\ KernelPhase'[nextId] = "idle"
    BY <2>3 DEF ClientView!Issue, KernelView!Issue, ClientPhase, KernelPhase
  <2>5. nextId' # nextId
    BY <2>2, <2>3, IdAfterIsNext DEF Insert
  <2> QED
    BY <2>1, <2>4, <2>5 DEF ResponseIsSo, Decides, ErrorReply
<1>4. CASE result # "loaded"
  <2>1. reply'[c] \in ErrorReply
    BY <1>2, <1>4, RepliesTell DEF Succeeded, LoadResult
  <2>2. UNCHANGED loaderVars
    BY <1>1, <1>4 DEF Load
  <2>3. reply'[c] \notin {"ProgramNotFound", "AlreadyAttached", "NotAttached"}
    BY <1>2, CodesTell, <1>1 DEF LoadResult
  <2> QED
    BY <2>1, <2>2, <2>3, ErrorIsSo DEF loaderVars, ClientPhase, KernelPhase
<1> QED
  BY <1>3, <1>4

(* The reply to an attach is true of the table. *)
LEMMA AttachAnswer ==
  ASSUME LoaderInv, TaskInv, NEW c \in Conns, HandleAttach(c)
  PROVE  ResponseIsSo(c)
<1> DEFINE id == req[c].id
<1>1. PICK result \in AttachResult :
        /\ Attach(id, result)
        /\ \E response \in Replies(result) : Finish(c, response)
  BY DEF HandleAttach
<1>2. reply'[c] \in Replies(result)
  BY <1>1 DEF Finish, TaskInv, TaskTypeOK
<1>3. id \in Ids
  <2>1. req[c] \in Request /\ req[c].op = "attach"
    BY RequestsAssumption DEF HandleAttach, Runs, TaskInv, RequestAtHand
  <2> QED
    BY <2>1 DEF Request
<1>4. CASE result = "attached"
  <2>1. reply'[c] = "attached"
    BY <1>2, <1>4, RepliesTell DEF Succeeded
  <2>2. programs[id] # Vacant /\ programs[id] \in Program
    BY <1>1, <1>3, <1>4 DEF Attach, LoaderInv, LoaderTypeOK
  <2>3. programs' = [programs EXCEPT ![id].fd = TRUE, ![id].link = TRUE,
                                     ![id].attached = TRUE]
    BY <1>1, <1>4 DEF Attach, Hooking
  <2>4. programs'[id] = [programs[id] EXCEPT !.fd = TRUE, !.link = TRUE, !.attached = TRUE]
    BY <1>3, <2>3 DEF LoaderInv, LoaderTypeOK
  <2>5. programs'[id] # Vacant /\ programs'[id].attached = TRUE /\ programs'[id].link = TRUE
    BY <2>2, <2>4, VacantAssumption DEF Program
  <2> QED
    BY <1>3, <2>1, <2>5
    DEF ResponseIsSo, Decides, ErrorReply, ClientPhase, KernelPhase
<1>5. CASE result # "attached"
  <2>1. reply'[c] \in ErrorReply
    BY <1>2, <1>5, RepliesTell DEF Succeeded, AttachResult
  <2>2. nextId' = nextId
    BY <1>1 DEF Attach
  <2>3. \A i \in Ids : /\ (programs'[i] = Vacant) = (programs[i] = Vacant)
                       /\ programs[i] # Vacant =>
                            /\ programs'[i].attached = programs[i].attached
                            /\ programs'[i].link = programs[i].link
    <3>1. CASE UNCHANGED programs
      BY <3>1
    <3>2. CASE ~ UNCHANGED programs
      <4>1. programs[id] # Vacant /\ programs' = [programs EXCEPT ![id].fd = TRUE]
        BY <1>1, <1>5, <3>2 DEF Attach, Hooking
      <4>2. programs[id] \in Program
        BY <1>3, <4>1 DEF LoaderInv, LoaderTypeOK
      <4>3. [programs[id] EXCEPT !.fd = TRUE] \in Program
        BY <4>2 DEF Program
      <4>4. \A i \in Ids : programs'[i] = IF i = id THEN [programs[id] EXCEPT !.fd = TRUE]
                                          ELSE programs[i]
        BY <1>3, <4>1 DEF LoaderInv, LoaderTypeOK
      <4>5. /\ [programs[id] EXCEPT !.fd = TRUE].attached = programs[id].attached
            /\ [programs[id] EXCEPT !.fd = TRUE].link = programs[id].link
        BY <4>2 DEF Program
      <4>6. [programs[id] EXCEPT !.fd = TRUE] # Vacant
        BY <4>3, VacantAssumption
      <4> QED
        BY <4>1, <4>4, <4>5, <4>6
    <3> QED
      BY <3>1, <3>2
  <2>4. ClientPhase' = ClientPhase /\ KernelPhase' = KernelPhase
    BY <2>3 DEF ClientPhase, KernelPhase
  <2>5. /\ reply'[c] = "ProgramNotFound" => programs[id] = Vacant
        /\ reply'[c] = "AlreadyAttached" => programs[id] # Vacant /\ programs[id].attached
        /\ reply'[c] # "NotAttached"
    BY <1>1, <1>2, CodesTell DEF Attach, Hooking, AttachResult
  <2> QED
    BY <1>3, <2>1, <2>2, <2>4, <2>5, ErrorIsSo DEF ClientPhase
<1> QED
  BY <1>4, <1>5

(* The reply to a detach is true of the table. *)
LEMMA DetachAnswer ==
  ASSUME LoaderInv, TaskInv, NEW c \in Conns, HandleDetach(c)
  PROVE  ResponseIsSo(c)
<1> DEFINE id == req[c].id
<1>1. PICK result \in DetachResult :
        /\ Detach(id, result)
        /\ \E response \in Replies(result) : Finish(c, response)
  BY DEF HandleDetach
<1>2. reply'[c] \in Replies(result)
  BY <1>1 DEF Finish, TaskInv, TaskTypeOK
<1>3. id \in Ids
  <2>1. req[c] \in Request /\ req[c].op = "detach"
    BY RequestsAssumption DEF HandleDetach, Runs, TaskInv, RequestAtHand
  <2> QED
    BY <2>1 DEF Request
<1>4. CASE result = "detached"
  <2>1. reply'[c] = "detached"
    BY <1>2, <1>4, RepliesTell DEF Succeeded
  <2>2. /\ programs[id] \in Program
        /\ programs' = [programs EXCEPT ![id].attached = FALSE]
    BY <1>1, <1>3, <1>4 DEF Detach, LoaderInv, LoaderTypeOK
  <2>3. programs'[id] = [programs[id] EXCEPT !.attached = FALSE]
    BY <1>3, <2>2 DEF LoaderInv, LoaderTypeOK
  <2>4. programs'[id] # Vacant /\ programs'[id].attached = FALSE
    <3>1. [programs[id] EXCEPT !.attached = FALSE] \in Program
      BY <2>2 DEF Program
    <3>2. [programs[id] EXCEPT !.attached = FALSE].attached = FALSE
      BY <2>2 DEF Program
    <3> QED
      BY <2>3, <3>1, <3>2, VacantAssumption
  <2>5. /\ [programs[id] EXCEPT !.attached = FALSE].link = programs[id].link
        /\ programs[id] # Vacant
    BY <1>1, <1>4, <2>2 DEF Program, Detach
  <2>6. \A i \in Ids : i # id => programs'[i] = programs[i]
    BY <2>2 DEF LoaderInv, LoaderTypeOK
  <2>7. KernelPhase' = KernelPhase
    BY <2>3, <2>4, <2>5, <2>6 DEF KernelPhase
  <2>8. ClientPhase'[id] = "idle"
    BY <1>3, <2>4 DEF ClientPhase
  <2> QED
    BY <2>1, <2>7, <2>8 DEF ResponseIsSo, Decides, ErrorReply
<1>5. CASE result # "detached"
  <2>1. reply'[c] \in ErrorReply /\ UNCHANGED <<programs, nextId>>
    BY <1>1, <1>2, <1>5, RepliesTell DEF Succeeded, DetachResult, Detach
  <2>2. /\ reply'[c] = "ProgramNotFound" => programs[id] = Vacant
        /\ reply'[c] # "AlreadyAttached"
        /\ reply'[c] = "NotAttached" => programs[id] # Vacant /\ ~programs[id].attached
    BY <1>1, <1>2, CodesTell DEF Detach, DetachResult
  <2> QED
    BY <1>3, <2>1, <2>2, ErrorIsSo DEF ClientPhase, KernelPhase
<1> QED
  BY <1>4, <1>5

(* The reply to an unload is true of the table. *)
LEMMA UnloadAnswer ==
  ASSUME LoaderInv, TaskInv, NEW c \in Conns, HandleUnload(c)
  PROVE  ResponseIsSo(c)
<1> DEFINE id == req[c].id
<1>1. PICK result \in UnloadResult :
        /\ Unload(id, result)
        /\ \E response \in Replies(result) : Finish(c, response)
  BY DEF HandleUnload
<1>2. reply'[c] \in Replies(result)
  BY <1>1 DEF Finish, TaskInv, TaskTypeOK
<1>3. id \in Ids
  <2>1. req[c] \in Request /\ req[c].op = "unload"
    BY RequestsAssumption DEF HandleUnload, Runs, TaskInv, RequestAtHand
  <2> QED
    BY <2>1 DEF Request
<1>4. CASE result = "unloaded"
  <2>1. reply'[c] = "unloaded"
    BY <1>2, <1>4, RepliesTell DEF Succeeded
  <2>2. programs' = [programs EXCEPT ![id] = Vacant]
    BY <1>1, <1>4 DEF Unload
  <2> QED
    BY <1>3, <2>1, <2>2
    DEF ResponseIsSo, Decides, ErrorReply, ClientPhase, LoaderInv, LoaderTypeOK
<1>5. CASE result # "unloaded"
  <2>1. reply'[c] \in ErrorReply /\ UNCHANGED <<programs, nextId>>
    BY <1>1, <1>2, <1>5, RepliesTell DEF Succeeded, UnloadResult, Unload
  <2>2. /\ reply'[c] = "ProgramNotFound" => programs[id] = Vacant
        /\ reply'[c] \notin {"AlreadyAttached", "NotAttached"}
    BY <1>1, <1>2, CodesTell DEF Unload, UnloadResult
  <2> QED
    BY <1>3, <2>1, <2>2, ErrorIsSo DEF ClientPhase, KernelPhase
<1> QED
  BY <1>4, <1>5

(* A task that goes from its operation to waiting for a line has run one of  *)
(* the handlers, and each answers what is so.                                *)
LEMMA ResponseIsSoAlways ==
  ASSUME LoaderInv, TaskInv, DaemonNext, NEW c \in Conns
  PROVE  ResponseIsSo(c)
<1>1. CASE pc[c] # "run" \/ pc'[c] # "respond" \/ reply'[c] = "disconnected"
  BY <1>1 DEF ResponseIsSo, Decides, ErrorReply
<1>2. CASE pc[c] = "run" /\ pc'[c] = "respond" /\ reply'[c] # "disconnected"
  <2>1. Step(c)
    <3>1. ~DaemonRestart
      BY <1>2 DEF DaemonRestart
    <3>2. \A d \in Conns, r \in Requests : ~Receive(d, r)
      BY <1>2 DEF Receive, TaskInv, TaskTypeOK
    <3>3. \A action \in Action : ~CacheExpires(action)
      BY <1>2 DEF CacheExpires, taskVars
    <3>4. \A d \in Conns : ~Hangup(d) /\ ~ReceiveInvalid(d)
      BY <1>2 DEF Hangup, ReceiveInvalid, TaskInv, TaskTypeOK
    <3>5. PICK d \in Conns : Step(d)
      BY <3>1, <3>2, <3>3, <3>4 DEF DaemonNext
    <3> QED
      BY <1>2, <3>5, AnswersItself
  <2>2. CASE HandleInspect(c) \/ HandlePing(c) \/ HandleLock(c)
    <3>1. reply'[c] \in {"inspected", "pong", "locked"}
      BY <2>2 DEF HandleInspect, HandlePing, HandleLock, Finish, TaskInv, TaskTypeOK
    <3> QED
      BY <3>1 DEF ResponseIsSo, Decides, ErrorReply
  <2>3. CASE HandleMap(c)
    <3>1. reply'[c] \in {"map_served", "ProgramNotFound"} \cup MapErrors
      BY <2>3 DEF HandleMap, Finish, TaskInv, TaskTypeOK
    <3>2. UNCHANGED <<programs, nextId>>
      BY <2>3 DEF HandleMap
    <3>3. req[c].id \in Ids
      <4>1. req[c] \in Request /\ req[c].op = "map"
        BY <2>3, RequestsAssumption DEF HandleMap, Runs, TaskInv, RequestAtHand
      <4> QED
        BY <4>1 DEF Request
    <3>4. reply'[c] = "ProgramNotFound" => programs[req[c].id] = Vacant
      BY <2>3 DEF HandleMap, Finish, TaskInv, TaskTypeOK, MapErrors
    <3>5. CASE reply'[c] = "map_served"
      BY <3>5 DEF ResponseIsSo, Decides, ErrorReply
    <3>6. CASE reply'[c] # "map_served"
      BY <3>1, <3>2, <3>3, <3>4, <3>6, ErrorIsSo
      DEF ErrorReply, MapErrors, ClientPhase, KernelPhase
    <3> QED
      BY <3>5, <3>6
  <2>4. ~BeginUnlock(c)
    BY <1>2 DEF BeginUnlock, Goto, TaskInv, TaskTypeOK
  <2>5. /\ ~CheckHit(c) /\ ~CheckMiss(c) /\ ~WriteResponse(c)
        /\ \A answer : ~PolkitAnswers(c, answer) /\ ~PromptAnswered(c, answer)
    BY <1>2 DEF CheckHit, CheckMiss, PolkitAnswers, PromptAnswered, WriteResponse
  <2> QED
    BY <2>1, <2>2, <2>3, <2>4, <2>5, LoadAnswer, AttachAnswer, DetachAnswer, UnloadAnswer
    DEF Step
<1> QED
  BY <1>1, <1>2

(* A response in a task's hands stays what it is until it is written, or is *)
(* lost with the daemon.                                                    *)
LEMMA ResponseIsKeptAlways ==
  ASSUME TaskInv, DaemonNext, NEW c \in Conns
  PROVE  ResponseIsKept(c)
<1> SUFFICES ASSUME pc[c] = "respond"
             PROVE  reply'[c] \in {reply[c], "disconnected"}
  BY DEF ResponseIsKept
<1>1. CASE DaemonRestart
  BY <1>1 DEF DaemonRestart
<1>2. CASE Step(c)
  <2>1. WriteResponse(c)
    BY <1>2
    DEF Step, CheckHit, CheckMiss, PolkitAnswers, HandleLoad, HandleAttach, HandleDetach,
        HandleUnload, HandleInspect, HandleMap, HandlePing, HandleLock, Runs, BeginUnlock,
        PromptAnswered
  <2> QED
    BY <2>1 DEF WriteResponse
<1>3. ASSUME NEW d \in Conns, d # c, Step(d)
      PROVE  reply'[c] = reply[c]
  BY <1>3, AnswersItself
<1>4. ASSUME NEW d \in Conns,
             (\E r \in Requests : Receive(d, r)) \/ ReceiveInvalid(d) \/ Hangup(d)
      PROVE  reply'[c] = reply[c]
  BY <1>4 DEF Receive, ReceiveInvalid, Hangup, TaskInv, TaskTypeOK
<1>5. ASSUME NEW action \in Action, CacheExpires(action)
      PROVE  reply'[c] = reply[c]
  BY <1>5 DEF CacheExpires, taskVars
<1> QED
  BY <1>1, <1>2, <1>3, <1>4, <1>5 DEF DaemonNext

(* Every response is so when its handler comes to it, whatever requests of *)
(* other clients ran between this client's check and its operation, and it *)
(* is this response that is written later.                                 *)
THEOREM RepliesAreSo == DaemonSpec => ReplyMatchesTable
<1>1. DaemonInv /\ [DaemonNext]_vars
        => [\A c \in Conns : ResponseIsSo(c) /\ ResponseIsKept(c)]_vars
  BY ResponseIsSoAlways, ResponseIsKeptAlways DEF DaemonInv
<1> QED
  BY <1>1, DaemonInvariant, PTL
  DEF DaemonSpec, ReplyMatchesTable

=============================================================================
