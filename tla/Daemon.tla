------------------------------- MODULE Daemon -------------------------------
(***************************************************************************)
(* The privileged daemon (ebpf-assistd/src/server.rs and handler.rs): one  *)
(* task per client connection, each handling one request line at a time,   *)
(* over one State (the program table of Loader, the decision cache of      *)
(* Auth) behind one tokio mutex.  A handler lets the mutex go when it has  *)
(* come to its response; writing it to the client is a later step.         *)
(*                                                                         *)
(* Load and Attach take the mutex twice: check_auth takes it, may hold it  *)
(* while polkit answers, and lets it go; the operation takes it again.     *)
(* Unlock holds it while the user answers the prompt.  The four requests   *)
(* on maps are one here; DaemonMaps says what they do to the maps.         *)
(***************************************************************************)
EXTENDS Loader, Auth

CONSTANTS
  Conns,      \* client connections
  Requests,   \* requests a client may send
  NoConn,     \* the mutex is free
  NoRequest,  \* the connection waits for a line
  NoVerdict   \* check_auth has not let the request through

\* A request the daemon can parse; a program id is of the width of NEXT_ID.
Request ==
  [op : {"load"}, object : Objects, name : Names \cup {NoName}]
    \cup [op : {"attach", "detach", "unload", "map"}, id : Ids]
    \cup [op : {"inspect", "ping", "unlock", "lock"}]

ASSUME RequestsAssumption == Requests \subseteq Request

ASSUME NoConnAssumption == NoConn \notin Conns

VARIABLES
  stateLock,  \* who holds the State mutex
  pc,         \* where each connection's task is
  req,        \* the request it handles
  verdict,    \* what its check_auth was told: the action and the answer
  reply,      \* the last response it has come to, "none" when there is none; the
              \* client has it once the task is idle again
  overtaken   \* history: tasks whose question to polkit a Lock has overtaken

taskVars == <<stateLock, pc, req, verdict, reply, overtaken>>
vars == <<programs, nextId, issued, cache, stateLock, pc, req, verdict, reply, overtaken>>

Location == {"idle", "check", "asking", "run", "prompt", "respond"}

DaemonInit ==
  /\ LoaderInit
  /\ AuthInit
  /\ stateLock = NoConn
  /\ pc = [c \in Conns |-> "idle"]
  /\ req = [c \in Conns |-> NoRequest]
  /\ verdict = [c \in Conns |-> NoVerdict]
  /\ reply = [c \in Conns |-> "none"]
  /\ overtaken = {}

-----------------------------------------------------------------------------

(***************************************************************************)
(* error_response: the code is found by looking for phrases in the         *)
(* message, so messages that contain none of them are Internal: some of    *)
(* those that speak of capabilities do not name one.  What the kernel's    *)
(* refusal says is the verifier's log.  A name or a target that a message  *)
(* quotes is taken to contain none of the phrases.                         *)
(***************************************************************************)
ErrorCodes(result) ==
  CASE result = "policy_violation"   -> {"PolicyViolation"}
    [] result = "program_not_found"  -> {"ProgramNotFound"}
    [] result = "no_such_name"       -> {"NotFound"}
    [] result = "no_capability"      -> {"CapabilityError", "Internal"}
    [] result = "rejected_by_kernel" -> {"VerifierError", "Internal"}
    [] result = "already_attached"   -> {"AlreadyAttached"}
    [] result = "not_attached"       -> {"NotAttached"}
    [] OTHER                         -> {"Internal"}

Succeeded == {"loaded", "unloaded", "attached", "detached"}

Replies(result) == IF result \in Succeeded THEN {result} ELSE ErrorCodes(result)

\* handle_request returns: the task has its response and no mutex.
Finish(c, response) ==
  /\ pc' = [pc EXCEPT ![c] = "respond"]
  /\ UNCHANGED req
  /\ verdict' = [verdict EXCEPT ![c] = NoVerdict]
  /\ reply' = [reply EXCEPT ![c] = response]
  /\ overtaken' = overtaken \ {c}

Goto(c, location) ==
  /\ pc' = [pc EXCEPT ![c] = location]
  /\ UNCHANGED <<req, reply>>

\* Task c gets the mutex, does what it has to do and lets it go in one step.
Runs(c, op) ==
  /\ pc[c] = "run"
  /\ req[c].op = op
  /\ stateLock = NoConn
  /\ UNCHANGED stateLock

(***************************************************************************)
(* handle_client reads a line; only Load and Attach begin with a check.    *)
(***************************************************************************)
Receive(c, r) ==
  /\ pc[c] = "idle"
  /\ pc' = [pc EXCEPT ![c] = IF r.op \in {"load", "attach"} THEN "check" ELSE "run"]
  /\ req' = [req EXCEPT ![c] = r]
  /\ reply' = [reply EXCEPT ![c] = "none"]
  /\ UNCHANGED <<programs, nextId, issued, cache, stateLock, verdict, overtaken>>

\* A line that does not parse is answered at once.
ReceiveInvalid(c) ==
  /\ pc[c] = "idle"
  /\ pc' = [pc EXCEPT ![c] = "respond"]
  /\ reply' = [reply EXCEPT ![c] = "InvalidRequest"]
  /\ UNCHANGED <<programs, nextId, issued, cache, stateLock, req, verdict, overtaken>>

(***************************************************************************)
(* The response is written and flushed, and the task waits for the next    *)
(* line.  Whether anybody still reads it makes no difference here.         *)
(***************************************************************************)
WriteResponse(c) ==
  /\ pc[c] = "respond"
  /\ pc' = [pc EXCEPT ![c] = "idle"]
  /\ req' = [req EXCEPT ![c] = NoRequest]
  /\ UNCHANGED <<programs, nextId, issued, cache, stateLock, verdict, reply, overtaken>>

-----------------------------------------------------------------------------

\* Mutant: an attach is checked as a load.
CheckedAsLoad(r) == "load"

CheckedAction(r) == r.op

(***************************************************************************)
(* check_auth lets a request through when the user is authorized and also  *)
(* when polkit cannot be asked.                                            *)
(***************************************************************************)
Passes(answer) == answer \in {"authorized", "error"}

CheckDone(c, action, answer) ==
  IF Passes(answer)
  THEN /\ Goto(c, "run")
       /\ verdict' = [verdict EXCEPT ![c] = [action |-> action, answer |-> answer]]
       /\ overtaken' = overtaken \ {c}
  ELSE Finish(c, IF answer = "challenge" THEN "AuthRequired" ELSE "AuthDenied")

CheckHit(c) ==
  LET action == CheckedAction(req[c]) IN
  /\ pc[c] = "check"
  /\ stateLock = NoConn
  /\ CacheHit(action)
  /\ CheckDone(c, action, cache[action])
  /\ UNCHANGED <<programs, nextId, issued, cache, stateLock>>

\* Mutant: the mutex is not held while polkit is asked.
CheckMissUnlocked(c) ==
  /\ pc[c] = "check"
  /\ stateLock = NoConn
  /\ ~CacheHit(CheckedAction(req[c]))
  /\ Goto(c, "asking")
  /\ UNCHANGED <<programs, nextId, issued, cache, stateLock, verdict, overtaken>>

CheckMiss(c) ==
  /\ pc[c] = "check"
  /\ stateLock = NoConn
  /\ ~CacheHit(CheckedAction(req[c]))
  /\ Goto(c, "asking")
  /\ stateLock' = c
  /\ UNCHANGED <<programs, nextId, issued, cache, verdict, overtaken>>

PolkitAnswers(c, answer) ==
  LET action == CheckedAction(req[c]) IN
  /\ pc[c] = "asking"
  /\ CacheAnswer(action, answer)
  /\ CheckDone(c, action, answer)
  /\ stateLock' = NoConn
  /\ UNCHANGED <<programs, nextId, issued>>

-----------------------------------------------------------------------------

HandleLoad(c) ==
  /\ Runs(c, "load")
  /\ \E result \in LoadResult :
       /\ Load(req[c].object, req[c].name, result)
       /\ \E response \in Replies(result) : Finish(c, response)
  /\ UNCHANGED cache

HandleAttach(c) ==
  /\ Runs(c, "attach")
  /\ \E result \in AttachResult :
       /\ Attach(req[c].id, result)
       /\ \E response \in Replies(result) : Finish(c, response)
  /\ UNCHANGED cache

HandleDetach(c) ==
  /\ Runs(c, "detach")
  /\ \E result \in DetachResult :
       /\ Detach(req[c].id, result)
       /\ \E response \in Replies(result) : Finish(c, response)
  /\ UNCHANGED cache

HandleUnload(c) ==
  /\ Runs(c, "unload")
  /\ \E result \in UnloadResult :
       /\ Unload(req[c].id, result)
       /\ \E response \in Replies(result) : Finish(c, response)
  /\ UNCHANGED cache

\* List, Status and AuthStatus read under the mutex and change nothing.
HandleInspect(c) ==
  /\ Runs(c, "inspect")
  /\ Finish(c, "inspected")
  /\ UNCHANGED <<programs, nextId, issued, cache>>

MapErrors == {"MapNotFound", "InvalidKey", "InvalidValue", "NotFound", "Internal"}

(***************************************************************************)
(* MapList, MapRead, MapWrite and MapDelete need no authorization, and the *)
(* program table stays as it is.                                           *)
(***************************************************************************)
HandleMap(c) ==
  /\ Runs(c, "map")
  /\ \E response \in IF programs[req[c].id] = Vacant THEN {"ProgramNotFound"}
                     ELSE {"map_served"} \cup MapErrors :
       Finish(c, response)
  /\ UNCHANGED <<programs, nextId, issued, cache>>

\* Ping needs no mutex: it is answered whoever holds it.
HandlePing(c) ==
  /\ pc[c] = "run"
  /\ req[c].op = "ping"
  /\ Finish(c, "pong")
  /\ UNCHANGED <<programs, nextId, issued, cache, stateLock>>

(***************************************************************************)
(* Lock clears every entry, since client_uid is None.                      *)
(***************************************************************************)
HandleLock(c) ==
  /\ Runs(c, "lock")
  /\ ClearCache
  /\ pc' = [pc EXCEPT ![c] = "respond"]
  /\ reply' = [reply EXCEPT ![c] = "locked"]
  /\ overtaken' = {d \in Conns : pc[d] \in {"asking", "prompt"}}
  /\ UNCHANGED <<programs, nextId, issued, req, verdict>>

BeginUnlock(c) ==
  /\ pc[c] = "run"
  /\ req[c].op = "unlock"
  /\ stateLock = NoConn
  /\ stateLock' = c
  /\ Goto(c, "prompt")
  /\ UNCHANGED <<programs, nextId, issued, cache, verdict, overtaken>>

\* Mutant: the mutex is kept when the prompt ends in an error.
PromptErrorKeepsLock(c, answer) ==
  /\ pc[c] = "prompt"
  /\ CacheGrant("manage", answer)
  /\ Finish(c, "Internal")
  /\ stateLock' = IF answer = "error" THEN stateLock ELSE NoConn
  /\ UNCHANGED <<programs, nextId, issued>>

(***************************************************************************)
(* The user answers the prompt, or polkit cannot be reached.               *)
(***************************************************************************)
PromptAnswered(c, answer) ==
  /\ pc[c] = "prompt"
  /\ CacheGrant("manage", answer)
  /\ Finish(c, CASE answer = "authorized"     -> "unlocked"
                 [] answer = "not_authorized" -> "AuthDenied"
                 [] answer = "error"          -> "Internal")
  /\ stateLock' = NoConn
  /\ UNCHANGED <<programs, nextId, issued>>

-----------------------------------------------------------------------------

\* Fifteen minutes have passed since the entry was made.
CacheExpires(action) ==
  /\ Expire(action)
  /\ UNCHANGED <<programs, nextId, issued>>
  /\ UNCHANGED taskVars

(***************************************************************************)
(* The process dies with all its tasks and its clients see their           *)
(* connections close, after a response that has been written; one that a   *)
(* task still had in hand is lost, with what it was about done or not.  A  *)
(* new process starts with nothing.                                        *)
(***************************************************************************)
DaemonRestart ==
  /\ LoaderRestart
  /\ ClearCache
  /\ stateLock' = NoConn
  /\ pc' = [c \in Conns |-> "idle"]
  /\ req' = [c \in Conns |-> NoRequest]
  /\ verdict' = [c \in Conns |-> NoVerdict]
  /\ reply' = [c \in Conns |-> IF pc[c] = "idle" THEN reply[c] ELSE "disconnected"]
  /\ overtaken' = {}

\* The client hangs up, and its next connection is a new one.
Hangup(c) ==
  /\ pc[c] = "idle"
  /\ reply[c] # "none"
  /\ reply' = [reply EXCEPT ![c] = "none"]
  /\ UNCHANGED <<programs, nextId, issued, cache, stateLock, pc, req, verdict, overtaken>>

\* What task c does once it has a request.
Step(c) ==
  \/ CheckHit(c) \/ CheckMiss(c)
  \/ \E answer \in Answer : PolkitAnswers(c, answer)
  \/ HandleLoad(c) \/ HandleAttach(c) \/ HandleDetach(c) \/ HandleUnload(c)
  \/ HandleInspect(c) \/ HandleMap(c) \/ HandlePing(c) \/ HandleLock(c)
  \/ BeginUnlock(c)
  \/ \E answer \in InteractiveAnswer : PromptAnswered(c, answer)
  \/ WriteResponse(c)

DaemonNext ==
  \/ \E c \in Conns, r \in Requests : Receive(c, r)
  \/ \E c \in Conns : ReceiveInvalid(c) \/ Step(c) \/ Hangup(c)
  \/ \E action \in Action : CacheExpires(action)
  \/ DaemonRestart

(***************************************************************************)
(* tokio runs every task that can run, and its mutex is a fair queue, so a *)
(* task that waits for the mutex gets it if it is let go again and again.  *)
(* That polkit and the user answer what they are asked is assumed.         *)
(***************************************************************************)
DaemonFairness == \A c \in Conns : SF_vars(Step(c))

DaemonSpec == DaemonInit /\ [][DaemonNext]_vars

FairDaemonSpec == DaemonSpec /\ DaemonFairness

-----------------------------------------------------------------------------

Verdict == [action : Action, answer : Answer]

Reply == {"none", "disconnected", "pong", "inspected", "unlocked", "locked",
          "loaded", "unloaded", "attached", "detached", "map_served"}

ErrorReply == {"PolicyViolation", "ProgramNotFound", "NotFound", "CapabilityError",
               "VerifierError", "AlreadyAttached", "NotAttached", "Internal",
               "AuthRequired", "AuthDenied", "MapNotFound", "InvalidKey", "InvalidValue",
               "InvalidRequest"}

DaemonTypeOK ==
  /\ LoaderTypeOK
  /\ AuthTypeOK
  /\ stateLock \in Conns \cup {NoConn}
  /\ pc \in [Conns -> Location]
  /\ req \in [Conns -> Requests \cup {NoRequest}]
  /\ verdict \in [Conns -> Verdict \cup {NoVerdict}]
  /\ reply \in [Conns -> Reply \cup ErrorReply]
  /\ overtaken \subseteq Conns

(***************************************************************************)
(* A program enters the table, and a hook the kernel, only on behalf of a  *)
(* request whose own check, for that very action, ended in a grant or in   *)
(* polkit being out of reach.  Between the check and the operation the     *)
(* mutex is free and any other client's request may run.                   *)
(***************************************************************************)
Cleared(c, action) ==
  /\ pc[c] = "run" /\ pc'[c] = "respond"
  /\ verdict[c] \in [action : {action}, answer : {"authorized", "error"}]

GateHolds ==
  [][/\ nextId' # nextId /\ issued' # {} => \E c \in Conns : Cleared(c, "load")
     /\ \A id \in Ids : KernelPhase'[id] = "hooked" /\ KernelPhase[id] # "hooked"
          => \E c \in Conns : Cleared(c, "attach")]_vars

(***************************************************************************)
(* Lock forgets for good: an answer to a question that was put to polkit   *)
(* before a Lock is never cached after it.  The mutex held across the      *)
(* D-Bus call is what keeps a Lock from running in between.                *)
(***************************************************************************)
LockIsFinal ==
  [][\A c \in overtaken : pc[c] \in {"asking", "prompt"} /\ pc'[c] # pc[c]
       => \A a \in Action : cache'[a] \in {cache[a], "none"}]_vars

Decides(c, responses) == pc[c] = "run" /\ pc'[c] = "respond" /\ reply'[c] \in responses

ResponseIsSo(c) ==
  /\ Decides(c, {"loaded"}) =>
       /\ ClientPhase'[nextId] = "idle" /\ KernelPhase'[nextId] = "idle"
       /\ nextId' # nextId
  /\ Decides(c, {"attached"}) =>
       ClientPhase'[req[c].id] = "hooked" /\ KernelPhase'[req[c].id] = "hooked"
  /\ Decides(c, {"detached"}) =>
       ClientPhase'[req[c].id] = "idle" /\ KernelPhase' = KernelPhase
  /\ Decides(c, {"unloaded"}) => ClientPhase'[req[c].id] = "absent"
  /\ Decides(c, ErrorReply) =>
       ClientPhase' = ClientPhase /\ KernelPhase' = KernelPhase /\ nextId' = nextId
  /\ Decides(c, {"ProgramNotFound"}) => ClientPhase[req[c].id] = "absent"
  /\ Decides(c, {"AlreadyAttached"}) => ClientPhase[req[c].id] = "hooked"
  /\ Decides(c, {"NotAttached"}) => ClientPhase[req[c].id] = "idle"

\* What is in a task's hands is written, or lost with the daemon.
ResponseIsKept(c) == pc[c] = "respond" => reply'[c] \in {reply[c], "disconnected"}

(***************************************************************************)
(* What a response says is so when its handler comes to it, with the mutex *)
(* still held: a success names the phase the program is now in, for the    *)
(* client and, but for a detach, in the kernel; an error leaves the        *)
(* program list and the kernel's links as they were, even when the kernel  *)
(* failed half way through an attach, and the codes that name the state of *)
(* a program name the one it is in.  When the response is written, later,  *)
(* others may have changed the table, but not the response.                *)
(***************************************************************************)
ReplyMatchesTable ==
  [][\A c \in Conns : ResponseIsSo(c) /\ ResponseIsKept(c)]_vars

(***************************************************************************)
(* Every request is answered, or its connection is lost with the daemon,   *)
(* provided polkit and the user answer what they are asked.                *)
(***************************************************************************)
EveryRequestAnswered ==
  \A c \in Conns : pc[c] # "idle" ~> pc[c] = "idle"

(***************************************************************************)
(* A client whose load or attach was challenged is told to run unlock      *)
(* first, and unlock tells it that it can now load and attach: a granted   *)
(* Unlock leaves no challenge in the cache that would be given again.      *)
(***************************************************************************)
UnlockEndsChallenges ==
  [][\A c \in Conns : pc[c] = "prompt" /\ reply'[c] = "unlocked" =>
       \A a \in {"load", "attach"} : cache'[a] # "challenge"]_vars

=============================================================================
