------------------------------ MODULE MicroVm -------------------------------
(***************************************************************************)
(* One MicroVM: the host's MicroVm object (ebpf-assist-vm, manager.rs),    *)
(* the Firecracker process it owns (firecracker.rs), the stream to the     *)
(* guest (vsock_client.rs) and the agent at its other end (GuestAgent).    *)
(*                                                                         *)
(* The object is used through &mut self, so there is one call at a time.   *)
(* A call sends a command and waits for one response; it can be given up   *)
(* while it waits, because its future is dropped or its timeout expires,   *)
(* and the response is then left in the stream.  Commands and responses    *)
(* are whole frames: a future dropped within a frame, and a frame beyond   *)
(* MAX_MESSAGE_SIZE, are left out.                                         *)
(***************************************************************************)
EXTENDS GuestAgent, Sequences

CONSTANTS
  MaxAttempts,   \* connection attempts (10 in the code)
  MaxAbandoned,  \* bound: calls given up while they wait
  NoCall         \* no command waits for its response

ASSUME MicroAssumption ==
  /\ MaxAttempts \in Nat \ {0}
  /\ MaxAbandoned \in Nat
  /\ NoCall \notin Command

VARIABLES
  state,      \* MicroVm.state, and what became of an object that is gone
  step,       \* how far create is
  process,    \* the Firecracker process
  agent,      \* the agent's process in the guest
  stream,     \* the client's stream
  toGuest,    \* commands in the stream
  toHost,     \* responses in the stream, each with the command it answers
  call,       \* the command whose response the host waits for
  mirror,     \* ids in MicroVm.programs
  abandoned,  \* calls given up so far
  clean       \* no call since create or since a reset was reported complete

hostVars == <<state, step, mirror>>
wire == <<stream, toGuest, toHost>>
history == <<abandoned, clean>>
microVars == <<agentVars, hostVars, process, agent, wire, call, history>>

State == {"absent", "starting", "running", "crashed", "stopping",
          "failed", "stopped", "dropped"}

Ping == [op |-> "ping"]
Shutdown == [op |-> "shutdown"]

Waiting == call # NoCall

\* The object is in its owner's hands: nothing asks for its state first.
Usable == state \in {"running", "crashed"}

MicroInit ==
  /\ AgentInit
  /\ state = "absent"
  /\ step = 0
  /\ process = "none"
  /\ agent = "down"
  /\ stream = "closed" /\ toGuest = <<>> /\ toHost = <<>>
  /\ call = NoCall
  /\ mirror = {}
  /\ abandoned = 0
  /\ clean = TRUE

-----------------------------------------------------------------------------
\* Shared steps

Close == stream' = "closed" /\ toGuest' = <<>> /\ toHost' = <<>> /\ call' = NoCall

\* Mutant: the instance has no Drop and its process runs on.
EndDetached(final) ==
  /\ state' = final
  /\ agent' = "gone"
  /\ Close
  /\ UNCHANGED <<agentVars, step, mirror, process, history>>

(***************************************************************************)
(* The object is dropped: the stream is closed and the process killed.     *)
(***************************************************************************)
End(final) ==
  /\ state' = final
  /\ process' = IF process = "running" THEN "killed" ELSE process
  /\ agent' = "gone"
  /\ Close
  /\ UNCHANGED <<agentVars, step, mirror, history>>

Send(cmd) ==
  /\ toGuest' = Append(toGuest, cmd)
  /\ call' = cmd
  /\ UNCHANGED <<stream, toHost>>

\* Mutant: the end of the stream is not noticed.
BrokenUnseen == FALSE

\* A read finds the stream closed once what is left in it has been read.
Broken == stream = "broken" /\ toHost = <<>>

-----------------------------------------------------------------------------
\* create

\* What is put to Firecracker's API: boot source, root drive, machine
\* configuration, vsock device and InstanceStart.
ApiRequests == 5

Connecting == state = "starting" /\ step > ApiRequests

\* A path may be missing or the program not start.
Spawn ==
  /\ state = "absent"
  /\ \/ state' = "failed" /\ UNCHANGED process
     \/ state' = "starting" /\ process' = "running"
  /\ UNCHANGED <<agentVars, step, mirror, agent, wire, call, history>>

\* Step 0 waits for the API socket, steps 1 to ApiRequests are the requests.
Boot ==
  /\ state = "starting" /\ step <= ApiRequests
  /\ \/ /\ process = "running"
        /\ step' = step + 1
        /\ UNCHANGED <<agentVars, state, mirror, process, agent, wire, call, history>>
     \/ End("failed")

\* Mutant: one attempt too many.
AttemptTooMany ==
  IF step <= ApiRequests + MaxAttempts
  THEN /\ Close
       /\ step' = step + 1
       /\ UNCHANGED <<agentVars, state, mirror, process, agent, history>>
  ELSE End("failed")

NextAttempt ==
  IF step < ApiRequests + MaxAttempts
  THEN /\ Close
       /\ step' = step + 1
       /\ UNCHANGED <<agentVars, state, mirror, process, agent, history>>
  ELSE End("failed")

(***************************************************************************)
(* An attempt opens a stream and sends a ping.  A stream that is refused,  *)
(* or whose ping is not answered with Pong, is given up and another is     *)
(* tried.                                                                  *)
(***************************************************************************)
Connect ==
  /\ Connecting
  /\ stream = "closed"
  /\ \/ /\ agent = "up"
        /\ stream' = "open"
        /\ toGuest' = <<Ping>>
        /\ call' = Ping
        /\ UNCHANGED <<agentVars, hostVars, process, agent, toHost, history>>
     \/ NextAttempt

Connected ==
  /\ Connecting
  /\ toHost # <<>>
  /\ IF Head(toHost).answer.is = "pong"
     THEN /\ state' = "running"
          /\ toHost' = Tail(toHost)
          /\ call' = NoCall
          /\ UNCHANGED <<agentVars, step, mirror, process, agent, stream, toGuest, history>>
     ELSE NextAttempt

PingBreaks == Connecting /\ Broken /\ NextAttempt

-----------------------------------------------------------------------------
\* The calls

(***************************************************************************)
(* load_program, unload_program, attach_program, detach_program, the calls *)
(* that change nothing, reset, and the ping of is_healthy.  On a broken    *)
(* stream a call fails at once.                                            *)
(***************************************************************************)
Invoke(cmd) ==
  /\ Usable
  /\ ~Waiting
  /\ stream = "open"
  /\ cmd.op # "shutdown"
  /\ Send(cmd)
  /\ clean' = FALSE
  /\ UNCHANGED <<agentVars, hostVars, process, agent, abandoned>>

\* Mutant: the mirror is not cleared by a reset.
MirroredThroughReset(answer) ==
  CASE call.op = "load" /\ answer.is = "loaded" -> mirror \cup {answer.id}
    [] call.op = "unload" /\ answer.is = "unloaded" -> mirror \ {call.id}
    [] OTHER -> mirror

\* MicroVm.programs after an answer.
Mirrored(answer) ==
  CASE call.op = "load" /\ answer.is = "loaded" -> mirror \cup {answer.id}
    [] call.op = "unload" /\ answer.is = "unloaded" -> mirror \ {call.id}
    [] call.op = "reset" /\ answer.is = "reset" -> {}
    [] OTHER -> mirror

(***************************************************************************)
(* The call takes the next response of the stream for its own.  One it     *)
(* does not expect is an error to its caller.                              *)
(***************************************************************************)
Return ==
  /\ Usable
  /\ Waiting
  /\ toHost # <<>>
  /\ mirror' = Mirrored(Head(toHost).answer)
  /\ clean' = (call.op = "reset" /\ Head(toHost).answer.is = "reset")
  /\ toHost' = Tail(toHost)
  /\ call' = NoCall
  /\ UNCHANGED <<agentVars, state, step, process, agent, stream, toGuest, abandoned>>

CallBreaks ==
  /\ Usable
  /\ Waiting
  /\ Broken
  /\ call' = NoCall
  /\ UNCHANGED <<agentVars, hostVars, process, agent, wire, history>>

Abandon ==
  /\ Usable
  /\ Waiting
  /\ abandoned < MaxAbandoned
  /\ abandoned' = abandoned + 1
  /\ call' = NoCall
  /\ UNCHANGED <<agentVars, hostVars, process, agent, wire, clean>>

\* A process whose status cannot be asked, which counts as crashed, is left out.
CheckHealth ==
  /\ state = "running"
  /\ ~Waiting
  /\ process = "exited"
  /\ state' = "crashed"
  /\ UNCHANGED <<agentVars, step, mirror, process, agent, wire, call, history>>

-----------------------------------------------------------------------------
\* shutdown and drop

ShutdownBegin ==
  /\ Usable
  /\ ~Waiting
  /\ state' = "stopping"
  /\ IF stream = "open" THEN Send(Shutdown) ELSE UNCHANGED <<wire, call>>
  /\ UNCHANGED <<agentVars, step, mirror, process, agent, history>>

\* Whatever comes first is taken for the answer, and ignored.
ShutdownAnswered ==
  /\ state = "stopping"
  /\ Waiting
  /\ \/ toHost # <<>> /\ toHost' = Tail(toHost)
     \/ Broken /\ UNCHANGED toHost
  /\ call' = NoCall
  /\ UNCHANGED <<agentVars, hostVars, process, agent, stream, toGuest, history>>

\* SendCtrlAltDel, two seconds in which the process may exit, and the kill.
Halt ==
  /\ state = "stopping"
  /\ ~Waiting
  /\ End("stopped")

\* A create, a shutdown or the object itself is dropped.
Drop ==
  \/ state = "starting" /\ End("failed")
  \/ (Usable \/ state = "stopping") /\ End("dropped")

-----------------------------------------------------------------------------
\* The guest

AgentStarts ==
  /\ process = "running"
  /\ state # "starting" \/ Connecting
  /\ agent = "down"
  /\ agent' = "up"
  /\ UNCHANGED <<agentVars, hostVars, process, wire, call, history>>

\* Mutant: a command that is refused is handled all the same.
AnswersTwice(cmd, answer) ==
  toHost' = toHost \o [i \in 1 .. (IF answer.is = "error" THEN 2 ELSE 1) |->
                         [to |-> cmd, answer |-> answer]]

Respond(cmd, answer) ==
  toHost' = Append(toHost, [to |-> cmd, answer |-> answer])

(***************************************************************************)
(* One turn of the agent's loop.  It exits when it has answered Shutdown.  *)
(***************************************************************************)
AgentTurn ==
  /\ agent = "up"
  /\ stream = "open"
  /\ toGuest # <<>>
  /\ LET cmd == Head(toGuest) IN
       /\ \E answer \in Answer : Handle(cmd, answer) /\ Respond(cmd, answer)
       /\ IF cmd = Shutdown
          THEN agent' = "gone" /\ stream' = "broken" /\ toGuest' = <<>>
          ELSE toGuest' = Tail(toGuest) /\ UNCHANGED <<agent, stream>>
  /\ UNCHANGED <<hostVars, process, call, history>>

\* Commands under way are lost, and so may be the responses sent last.
Cut ==
  /\ toGuest' = <<>>
  /\ \E n \in 0 .. Len(toHost) : toHost' = SubSeq(toHost, 1, n)

(***************************************************************************)
(* The connection fails while both ends live.  A response may be lost with *)
(* it that tells of a change already made, and the agent then reads no     *)
(* further command of it; the host never opens another.                    *)
(***************************************************************************)
ConnectionBreaks ==
  /\ stream = "open"
  /\ stream' = "broken"
  /\ Cut
  /\ UNCHANGED <<agentVars, hostVars, process, agent, call, history>>

\* Firecracker dies or the guest halts.
ProcessExits ==
  /\ process = "running"
  /\ process' = "exited"
  /\ agent' = "gone"
  /\ stream' = IF stream = "open" THEN "broken" ELSE stream
  /\ Cut
  /\ UNCHANGED <<agentVars, hostVars, call, history>>

-----------------------------------------------------------------------------

HostStep ==
  \/ Boot \/ Connect \/ Connected \/ PingBreaks \/ Return \/ CallBreaks
  \/ ShutdownAnswered \/ Halt

OwnerStep ==
  \/ Spawn \/ Abandon \/ CheckHealth \/ ShutdownBegin \/ Drop
  \/ \E cmd \in Command : Invoke(cmd)

MicroNext ==
  \/ HostStep \/ OwnerStep \/ AgentStarts \/ AgentTurn
  \/ ConnectionBreaks \/ ProcessExits

MicroSpec == MicroInit /\ [][MicroNext]_microVars

\* The host's side is driven by tokio: what can go on does.  Boot waits for
\* Firecracker's API, without a timeout of its own: that it answers, or its
\* socket closes, is assumed here.
HostFairSpec == MicroSpec /\ WF_microVars(HostStep)

\* The guest is scheduled, and the agent answers what it reads.
FairMicroSpec == HostFairSpec /\ WF_microVars(AgentTurn)

-----------------------------------------------------------------------------

MicroTypeOK ==
  /\ AgentTypeOK
  /\ state \in State
  /\ step \in 0 .. (ApiRequests + MaxAttempts)
  /\ process \in {"none", "running", "exited", "killed"}
  /\ agent \in {"down", "up", "gone"}
  /\ stream \in {"closed", "open", "broken"}
  /\ toGuest \in Seq(Command)
  /\ toHost \in Seq([to : Command, answer : Answer])
  /\ call \in Command \cup {NoCall}
  /\ mirror \subseteq GuestIds
  /\ abandoned \in 0 .. MaxAbandoned
  /\ clean \in BOOLEAN

\* The commands whose responses the host has still to read, oldest first.
Outstanding == [i \in 1 .. Len(toHost) |-> toHost[i].to] \o toGuest

(***************************************************************************)
(* Host and agent stay in step (send_command): every response that is      *)
(* under way belongs to a call that was given up or to the one that waits, *)
(* which is the last; with no call given up, it gets its own response.     *)
(***************************************************************************)
InStep ==
  stream = "open" =>
    /\ Len(Outstanding) = abandoned + (IF Waiting THEN 1 ELSE 0)
    /\ Waiting => Outstanding[Len(Outstanding)] = call

(***************************************************************************)
(* Between two calls the host's programs are those in the guest, if no     *)
(* call was given up and the connection holds, whatever the agent refused  *)
(* or failed to do (MicroVm.programs).                                     *)
(***************************************************************************)
MirrorAgrees ==
  abandoned = 0 /\ ~Waiting /\ Usable /\ stream = "open" => mirror = Loaded

(***************************************************************************)
(* When reset has been reported complete and nothing was called since, no  *)
(* program of before is there for the next command: the table is empty, or *)
(* the agent resets it once more first.  It holds even when calls were     *)
(* given up, and is what the manager's warm pool rests on.                 *)
(***************************************************************************)
LeftEmpty ==
  \/ toGuest = <<>> /\ Loaded = {}
  \/ toGuest # <<>> /\ toGuest[Len(toGuest)].op = "reset"

ResetCleans == clean /\ Usable /\ stream = "open" => LeftEmpty

(***************************************************************************)
(* No Firecracker process outlives its object, at whatever step create or  *)
(* shutdown failed or was dropped.                                         *)
(***************************************************************************)
NoOrphan == process = "running" => Usable \/ state \in {"starting", "stopping"}

(***************************************************************************)
(* A call, the first ping and shutdown's too, never waits for nothing: its *)
(* response is in the stream, or the end of the stream is, or the agent is *)
(* up and has a command to answer.  This is the safety side of CallsEnd.   *)
(***************************************************************************)
AnswerToCome ==
  Waiting => \/ toHost # <<>>
             \/ Broken
             \/ agent = "up" /\ stream = "open" /\ toGuest # <<>>

(***************************************************************************)
(* The object keeps the promise of VmLife.  It is handed over when create  *)
(* has returned; until shutdown has ended or it is dropped it is there.    *)
(***************************************************************************)
LifeOf ==
  IF Usable \/ state = "stopping" THEN IF process = "running" THEN "running" ELSE "crashed"
  ELSE IF state \in {"stopped", "dropped"} THEN "gone" ELSE "none"

There == LifeOf \in {"running", "crashed"}

Life == INSTANCE VmLife WITH
  life <- LifeOf,
  clean <- clean /\ Usable,
  answered <- There /\ \E i \in 1 .. Len(toHost) : toHost[i].answer.is = "reset",
  loaded <- LifeOf = "running" /\ stream = "open" /\ ~LeftEmpty

KeepsPromise == Life!LifeSpec

(***************************************************************************)
(* create comes to an end and every call returns, if the agent answers and *)
(* Firecracker's API does.                                                 *)
(***************************************************************************)
CallsEnd ==
  /\ state = "starting" ~> state # "starting"
  /\ Waiting ~> ~Waiting

(***************************************************************************)
(* A shutdown ends, and the process with it.                               *)
(***************************************************************************)
ShutdownEnds == state = "stopping" ~> process # "running"

=============================================================================
