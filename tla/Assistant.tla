------------------------------ MODULE Assistant ------------------------------
(***************************************************************************)
(* The programs a user or an AI assistant sees, as clients of the daemon   *)
(* of Daemon: the MCP server (ebpf-assist-mcp), which handles one line of  *)
(* its input at a time, and the command line client (ebpf-assist), one     *)
(* process per command.  A tool or a command either makes one request of   *)
(* the daemon, on a connection of its own, or works on its own; the MCP    *)
(* server starts a command line process for that and waits for it.         *)
(*                                                                         *)
(* Mcp is the server; every other connection is a terminal, from which one *)
(* command after the other is run.  Text that is printed is left out: what *)
(* a caller is told is the exit status, or a tool's result or error.       *)
(***************************************************************************)
EXTENDS Daemon

CONSTANTS
  Mcp,          \* the MCP server's connection
  McpRequests,  \* requests its tools make
  CliRequests,  \* requests commands make
  Workers       \* clients that may do work of their own; Conns in the code

ASSUME McpAssumption == Mcp \in Conns /\ Workers \subseteq Conns

\* There is no tool that locks or pings.
ASSUME ClientRequestsAssumption ==
  /\ McpRequests \subseteq {r \in Requests : r.op \notin {"lock", "ping"}}
  /\ CliRequests \subseteq Requests

VARIABLES
  activity,  \* what each client is at: a request's op, or work of its own
  told,      \* what its last command or call has told the caller
  done,      \* history: the daemon changed the program list for the call under way
  vms        \* clients whose process, or child, owns a Firecracker process

clientVars == <<activity, told, done, vms>>
allVars == <<programs, nextId, issued, cache, stateLock, pc, req, verdict, reply, overtaken,
             activity, told, done, vms>>

\* The operations that change the program list.
Changing == {"load", "attach", "detach", "unload"}

Op == Changing \cup {"map", "inspect", "ping", "unlock", "lock"}

\* A child that waits for its own work, for a program it triggers, or for
\* lines of the kernel log: ten of them, or as many as ever come.
Local == {"tool", "trigger", "trace", "endless", "isolated"}

AssistantInit ==
  /\ DaemonInit
  /\ activity = [c \in Conns |-> "ready"]
  /\ told = [c \in Conns |-> "nothing"]
  /\ done = [c \in Conns |-> FALSE]
  /\ vms = {}

-----------------------------------------------------------------------------

\* A client begins one thing after the other, here also after a connection
\* that its killed predecessor has left.
Free(c) == activity[c] = "ready" /\ pc[c] = "idle" /\ reply[c] = "none"

Begins(c, what) ==
  /\ Free(c)
  /\ activity' = [activity EXCEPT ![c] = what]
  /\ told' = [told EXCEPT ![c] = "nothing"]

Ends(c, telling) ==
  /\ activity' = [activity EXCEPT ![c] = "ready"]
  /\ told' = [told EXCEPT ![c] = telling]
  /\ done' = [done EXCEPT ![c] = FALSE]

\* Mutant: the newline that ends the request is not written.
AsksUnended(c, r) ==
  /\ Begins(c, r.op)
  /\ UNCHANGED vars
  /\ UNCHANGED <<done, vms>>

(***************************************************************************)
(* One request on a new connection.                                        *)
(***************************************************************************)
Asks(c, r) ==
  /\ Begins(c, r.op)
  /\ Receive(c, r)
  /\ UNCHANGED <<done, vms>>

\* The daemon does not run, or its socket does not let the client in.
ConnectFails(c) ==
  /\ Free(c)
  /\ Ends(c, "failure")
  /\ UNCHANGED vars
  /\ UNCHANGED vms

\* The one response variant each request's match calls a success.
Expected == [load |-> "loaded", unload |-> "unloaded", attach |-> "attached",
             detach |-> "detached", inspect |-> "inspected", ping |-> "pong",
             unlock |-> "unlocked", lock |-> "locked", map |-> "map_served"]

\* Mutant: whatever is no error is a success, an empty line too.
AnyButAnError(c) ==
  /\ activity[c] \in Op
  /\ Hangup(c)
  /\ Ends(c, IF reply[c] \in ErrorReply THEN "failure" ELSE "success")
  /\ UNCHANGED vms

\* Mutant: the end of the stream is read over and over.
WaitsForALine(c) ==
  /\ activity[c] \in Op
  /\ reply[c] # "disconnected"
  /\ Hangup(c)
  /\ Ends(c, IF reply[c] = Expected[activity[c]] THEN "success" ELSE "failure")
  /\ UNCHANGED vms

(***************************************************************************)
(* The response is read, and the connection closed.  A connection that is  *)
(* lost reads as an empty line, which does not parse: that is an error     *)
(* too, and says so.                                                       *)
(***************************************************************************)
ReadsReply(c) ==
  /\ activity[c] \in Op
  /\ Hangup(c)
  /\ Ends(c, CASE reply[c] = Expected[activity[c]] -> "success"
               [] reply[c] = "disconnected"       -> "lost"
               [] OTHER                           -> "failure")
  /\ UNCHANGED vms

-----------------------------------------------------------------------------

(***************************************************************************)
(* Lines that the server answers out of itself: initialize, tools/list and *)
(* ping with a result, the others with an error.  A notification has no    *)
(* id, so it does not parse, and is answered like one that is no JSON.     *)
(***************************************************************************)
AnswerAtOnce(telling) ==
  /\ Free(Mcp)
  /\ Ends(Mcp, telling)
  /\ UNCHANGED vars
  /\ UNCHANGED vms

ToolAsks(ops) == \E r \in McpRequests : r.op \in ops /\ Asks(Mcp, r)

ToolLoad == ToolAsks({"load"})
ToolProgram == ToolAsks({"unload", "attach", "detach"})
ToolState == ToolAsks({"inspect", "unlock"})
ToolMap == ToolAsks({"map"})

CommandAsks(c, ops) ==
  /\ c # Mcp
  /\ \E r \in CliRequests : r.op \in ops /\ Asks(c, r)

CommandLoad(c) == CommandAsks(c, {"load"})
CommandProgram(c) == CommandAsks(c, {"unload", "attach", "detach"})
CommandState(c) == CommandAsks(c, {"inspect", "ping"})
CommandAuth(c) == CommandAsks(c, {"unlock", "lock"})
CommandMap(c) == CommandAsks(c, {"map"})

-----------------------------------------------------------------------------

\* A command, or the command line process a tool starts, works on its own.
Works(c, what) ==
  /\ Begins(c, what)
  /\ UNCHANGED vars
  /\ UNCHANGED <<done, vms>>

\* It comes to its end, well or not.
WorkEnds(c, what, telling) ==
  /\ activity[c] = what
  /\ Ends(c, telling)
  /\ UNCHANGED vars
  /\ UNCHANGED vms

\* new, compile and vm init.
BuildBegins(c) == Works(c, "tool")
BuildEnds(c) == \E telling \in {"success", "failure"} : WorkEnds(c, "tool", telling)

TriggerBegins(c) == Works(c, "trigger")
TriggerEnds(c) == \E telling \in {"success", "failure"} : WorkEnds(c, "trigger", telling)

(***************************************************************************)
(* A trace call without an arguments object gets zero lines and a timeout  *)
(* of zero, which mean no limit and no timeout, instead of ten and five.   *)
(***************************************************************************)
TraceBegins(c) == \E what \in {"trace", "endless"} : Works(c, what)

(***************************************************************************)
(* A trace looks at its limit and at the clock only when a line has come.  *)
(* The server takes a child that has printed something for a success, and  *)
(* the heading is printed before trace_pipe is opened.                     *)
(***************************************************************************)
TraceMissing(c) == \E what \in {"trace", "endless"} : WorkEnds(c, what, "failure")
TraceDenied(c) ==
  \E what \in {"trace", "endless"} :
    WorkEnds(c, what, IF c = Mcp THEN "success" ELSE "failure")
TraceBreaks(c) == \E what \in {"trace", "endless"} : WorkEnds(c, what, "success")
LastLine(c) == WorkEnds(c, "trace", "success")

(***************************************************************************)
(* vm list, pool, stop and status each make a manager of their own, which  *)
(* knows of no VM: the first two find none, the others fail.               *)
(***************************************************************************)
VmLook(c, telling) ==
  /\ Free(c)
  /\ Ends(c, telling)
  /\ UNCHANGED vars
  /\ UNCHANGED vms

VmList(c) == VmLook(c, "success")
VmStop(c) == VmLook(c, "failure")

-----------------------------------------------------------------------------

IsolatedBegins(c) == Works(c, "isolated")

\* No setup, no KVM, no file; or no VM could be had, and none is left.
IsolatedRefused(c) ==
  /\ c \notin vms
  /\ WorkEnds(c, "isolated", "failure")

IsolatedBoots(c) ==
  /\ activity[c] = "isolated"
  /\ c \notin vms
  /\ vms' = vms \cup {c}
  /\ UNCHANGED vars
  /\ UNCHANGED <<activity, told, done>>

\* Mutant: load_isolated ends and its manager is not dropped.
IsolatedForgets(c) ==
  \E telling \in {"success", "failure"} :
    /\ c \in vms
    /\ activity[c] = "isolated"
    /\ Ends(c, telling)
    /\ UNCHANGED vms
    /\ UNCHANGED vars

(***************************************************************************)
(* The program is loaded in the guest or refused there; load_isolated      *)
(* returns, the manager is dropped, and FirecrackerInstance::drop kills    *)
(* the VM it has just told the caller about.                               *)
(***************************************************************************)
IsolatedEnds(c) ==
  \E telling \in {"success", "failure"} :
    /\ c \in vms
    /\ activity[c] = "isolated"
    /\ Ends(c, telling)
    /\ vms' = vms \ {c}
    /\ UNCHANGED vars

-----------------------------------------------------------------------------

(***************************************************************************)
(* A process is killed by a signal, the MCP server or a child that works   *)
(* for it too: no destructor runs, its VM runs on with no owner, and a     *)
(* request that is under way goes on without it.  A server that ends       *)
(* between two lines, and the next session that starts, change nothing; a  *)
(* child goes on when its server is killed.                                *)
(***************************************************************************)
Killed(c) ==
  /\ activity[c] # "ready"
  /\ Ends(c, "killed")
  /\ vms' = vms \ {c}
  /\ UNCHANGED vars

-----------------------------------------------------------------------------

\* The daemon's own steps; the history says what it did for whom.
DaemonServes(c) ==
  /\ Step(c)
  /\ done' = [done EXCEPT ![c] =
                \/ @
                \/ /\ activity[c] \in Changing
                   /\ nextId' # nextId \/ ClientPhase' # ClientPhase]
  /\ UNCHANGED <<activity, told, vms>>

DaemonAlone ==
  /\ \E action \in Action : CacheExpires(action)
  /\ UNCHANGED clientVars

\* The connection of a client that is gone closes when its task is done.
DaemonClosed(c) ==
  /\ activity[c] \notin Op
  /\ Hangup(c)
  /\ UNCHANGED clientVars

DaemonDies ==
  /\ DaemonRestart
  /\ UNCHANGED clientVars

McpNext ==
  \/ \E telling \in {"success", "failure"} : AnswerAtOnce(telling)
  \/ ToolLoad \/ ToolProgram \/ ToolState \/ ToolMap

CommandNext(c) ==
  \/ CommandLoad(c) \/ CommandProgram(c) \/ CommandState(c)
  \/ CommandAuth(c) \/ CommandMap(c)

LocalNext(c) ==
  \/ BuildBegins(c) \/ BuildEnds(c) \/ TriggerBegins(c) \/ TriggerEnds(c)
  \/ TraceBegins(c) \/ TraceMissing(c) \/ TraceDenied(c) \/ TraceBreaks(c) \/ LastLine(c)
  \/ VmList(c) \/ VmStop(c)
  \/ IsolatedBegins(c) \/ IsolatedRefused(c) \/ IsolatedBoots(c) \/ IsolatedEnds(c)

AssistantNext ==
  \/ McpNext
  \/ \E c \in Conns :
       \/ CommandNext(c) \/ ConnectFails(c) \/ ReadsReply(c) \/ Killed(c)
       \/ DaemonServes(c) \/ DaemonClosed(c)
  \/ \E c \in Workers : LocalNext(c)
  \/ DaemonAlone \/ DaemonDies

AssistantSpec == AssistantInit /\ [][AssistantNext]_allVars

(***************************************************************************)
(* A process that can go on does.  A build ends by itself.  An isolated    *)
(* load waits for a VM with a limit and then for the guest, which sets     *)
(* none: that the guest's agent answers is assumed, as in MicroVm.  A      *)
(* triggered command and a wait for a line of the kernel log need not end. *)
(***************************************************************************)
ClientFairness ==
  \A c \in Conns :
    /\ WF_allVars(ReadsReply(c))
    /\ WF_allVars(BuildEnds(c))
    /\ WF_allVars(IsolatedRefused(c) \/ IsolatedEnds(c))
    /\ WF_allVars(DaemonClosed(c))

FairAssistantSpec == AssistantSpec /\ DaemonFairness /\ ClientFairness

-----------------------------------------------------------------------------

Telling == {"nothing", "success", "failure", "lost", "killed"}

AssistantTypeOK ==
  /\ activity \in [Conns -> {"ready"} \cup Op \cup Local]
  /\ told \in [Conns -> Telling]
  /\ done \in [Conns -> BOOLEAN]
  /\ vms \subseteq {c \in Conns : activity[c] = "isolated"}

(***************************************************************************)
(* What a command or a tool says it did to the program list was done, once *)
(* and for it; what the daemon refused was not done; and a caller is told  *)
(* that the answer is lost, which leaves open what was done, only when the *)
(* daemon has died on a call it had not answered, and then nothing more    *)
(* will be done for it.  So it is whatever the others ask meanwhile and    *)
(* whoever is killed: the clients and the daemon together keep the promise *)
(* of RemoteCall.                                                          *)
(***************************************************************************)
CallPhase == [c \in Conns |->
  IF activity[c] \in Changing THEN "pending"
  ELSE IF pc[c] \notin {"idle", "respond"} /\ req[c].op \in Changing THEN "abandoned"
  ELSE "ready"]

CutOff ==
  {c \in Conns : activity[c] \in Changing /\ pc[c] = "idle" /\ reply[c] = "disconnected"}

Calls == INSTANCE RemoteCall WITH Clients <- Conns, phase <- CallPhase, cut <- CutOff

CallsKeepPromise == Calls!CallSpec

(***************************************************************************)
(* A client that waits for its line waits for one that is there or that    *)
(* the daemon is at work on: the request in its task's hands is the one    *)
(* the client made, or the connection has been lost and reads as such.     *)
(* This is the safety side of LinesAnswered.                               *)
(***************************************************************************)
LineToCome ==
  \A c \in Conns : activity[c] \in Op =>
    reply[c] # "none" \/ (pc[c] # "idle" /\ req[c].op = activity[c])

(***************************************************************************)
(* The server answers one line after the other, so a call that never ends  *)
(* is the last one.  Every call ends unless its child waits for a line of  *)
(* the kernel log, for a program it has triggered, or for a silent guest.  *)
(***************************************************************************)
LinesAnswered ==
  activity[Mcp] \in Op \cup {"tool", "isolated"} ~> activity[Mcp] = "ready"

=============================================================================
