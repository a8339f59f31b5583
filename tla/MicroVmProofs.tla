---------------------------- MODULE MicroVmProofs ----------------------------
(***************************************************************************)
(* Theorems about MicroVm, for any number of programs, targets, attempts   *)
(* and abandoned calls.                                                    *)
(***************************************************************************)
EXTENDS MicroVm, SequenceTheorems, TLAPS

\* The stream and its two ends, and the process around the agent.
Wired ==
  /\ agent = "up" => process = "running"
  /\ stream = "open" => agent = "up"
  /\ stream = "broken" => toGuest = <<>>
  /\ stream = "closed" => toGuest = <<>> /\ toHost = <<>> /\ call = NoCall
  /\ Usable => stream # "closed"

\* Until create has returned nothing but a ping is sent.
Fresh ==
  state \in {"absent", "starting"} =>
    /\ Loaded = {} /\ mirror = {} /\ clean /\ abandoned = 0 /\ call \in {NoCall, Ping}
    /\ Len(toHost) <= 1

Last(s) == s[Len(s)]

\* InStep, by the two halves of the stream.
Lined ==
  stream = "open" =>
    /\ Len(toHost) + Len(toGuest) = abandoned + (IF Waiting THEN 1 ELSE 0)
    /\ Waiting /\ toGuest # <<>> => Last(toGuest) = call
    /\ Waiting /\ toGuest = <<>> => Last(toHost).to = call

\* ResetCleans, from the moment the reset is sent.
Resetting ==
  stream = "open" /\ ((clean /\ Usable) \/ (Waiting /\ call.op = "reset")) =>
    \/ toGuest = <<>> /\ Loaded = {}
    \/ toGuest # <<>> /\ Last(toGuest).op = "reset"

\* MirrorAgrees, while a response is under way as well.
Mirroring ==
  abandoned = 0 /\ Usable /\ stream = "open" =>
    IF toHost = <<>> THEN mirror = Loaded ELSE Mirrored(Head(toHost).answer) = Loaded

MicroInv ==
  /\ MicroTypeOK
  /\ Wired
  /\ Fresh
  /\ Lined
  /\ Resetting
  /\ Mirroring
  /\ NoOrphan
  /\ PointIsHook

-----------------------------------------------------------------------------
\* The agent

(* The arguments of each command. *)
LEMMA CommandArguments ==
  ASSUME NEW cmd \in Command
  PROVE  /\ cmd.op \in {"load", "attach", "detach", "unload", "ping", "inspect",
                        "reset", "shutdown"}
         /\ cmd.op = "load" => cmd.kind \in ObjectKind
         /\ cmd.op \in {"attach", "detach", "unload"} => cmd.id \in GuestIds
         /\ cmd.op = "attach" => cmd.target \in Targets
BY DEF Command

(* A handled command keeps the agent's table well typed. *)
LEMMA HandleTypes ==
  ASSUME AgentTypeOK, NEW cmd \in Command, NEW answer \in Answer, Handle(cmd, answer)
  PROVE  AgentTypeOK'
<1> USE AgentAssumption, NoEntryAssumption
<1>1. \A id \in GuestIds : guest[id] # NoEntry => guest[id] \in Entry
  BY DEF AgentTypeOK
<1>2. CASE AgentLoad(cmd, answer)
  <2>1. CASE UNCHANGED agentVars
    BY <2>1 DEF AgentTypeOK, agentVars
  <2>2. CASE ~UNCHANGED agentVars
    <3>1. /\ nextId \in GuestIds /\ nextId' = nextId + 1
          /\ cmd.kind \in Kind
          /\ guest' = [guest EXCEPT ![nextId] = [kind |-> cmd.kind, fd |-> FALSE,
                                                 point |-> NoTarget, hook |-> NoTarget]]
      BY <1>2, <2>2 DEF AgentLoad
    <3>2. [kind |-> cmd.kind, fd |-> FALSE, point |-> NoTarget, hook |-> NoTarget] \in Entry
      BY <3>1 DEF Entry
    <3>3. nextId' \in 1 .. (MaxLoads + 1)
      BY <3>1 DEF GuestIds
    <3> QED
      BY <3>1, <3>2, <3>3 DEF AgentTypeOK
  <2> QED
    BY <2>1, <2>2
<1>3. CASE AgentAttach(cmd, answer)
  <2>1. cmd.id \in GuestIds /\ cmd.target \in Targets
    BY <1>3, CommandArguments DEF AgentAttach
  <2>2. CASE UNCHANGED guest
    BY <1>3, <2>2 DEF AgentAttach, AgentTypeOK
  <2>3. CASE /\ guest[cmd.id] # NoEntry
             /\ \/ guest' = [guest EXCEPT ![cmd.id].fd = TRUE]
                \/ guest' = [guest EXCEPT ![cmd.id].fd = TRUE, ![cmd.id].point = cmd.target,
                                          ![cmd.id].hook = cmd.target]
    <3>1. guest[cmd.id] \in Entry
      BY <1>1, <2>1, <2>3
    <3>2. /\ [guest[cmd.id] EXCEPT !.fd = TRUE] \in Entry
          /\ [guest[cmd.id] EXCEPT !.fd = TRUE, !.point = cmd.target,
                                   !.hook = cmd.target] \in Entry
      BY <2>1, <3>1 DEF Entry
    <3>3. \/ guest' = [guest EXCEPT ![cmd.id] = [guest[cmd.id] EXCEPT !.fd = TRUE]]
          \/ guest' = [guest EXCEPT ![cmd.id] =
                         [guest[cmd.id] EXCEPT !.fd = TRUE, !.point = cmd.target,
                                               !.hook = cmd.target]]
      BY <2>1, <2>3, <3>1 DEF AgentTypeOK, Entry
    <3> QED
      BY <1>3, <2>1, <3>2, <3>3 DEF AgentAttach, AgentTypeOK
  <2> QED
    BY <1>3, <2>2, <2>3 DEF AgentAttach
<1>4. CASE AgentDetach(cmd, answer)
  <2>1. cmd.id \in GuestIds
    BY <1>4, CommandArguments DEF AgentDetach
  <2>2. CASE guest[cmd.id] # NoEntry
    <3>1. [guest[cmd.id] EXCEPT !.point = NoTarget] \in Entry
      BY <1>1, <2>1, <2>2 DEF Entry
    <3> QED
      BY <1>4, <2>1, <2>2, <3>1 DEF AgentDetach, AgentTypeOK
  <2> QED
    BY <1>4, <2>2 DEF AgentDetach, AgentTypeOK
<1>5. CASE AgentUnload(cmd, answer)
  BY <1>5 DEF AgentUnload, AgentTypeOK
<1>6. CASE AgentReset(cmd, answer)
  BY <1>6 DEF AgentReset, AgentTypeOK
<1>7. CASE AgentReads(cmd, answer)
  BY <1>7 DEF AgentReads, AgentTypeOK, agentVars
<1> QED
  BY <1>2, <1>3, <1>4, <1>5, <1>6, <1>7 DEF Handle

(* What a handled command does to the set of loaded programs. *)
LEMMA HandleLoads ==
  ASSUME AgentTypeOK, NEW cmd \in Command, NEW answer \in Answer, Handle(cmd, answer)
  PROVE  Loaded' = CASE cmd.op = "load" /\ answer.is = "loaded" -> Loaded \cup {answer.id}
                     [] cmd.op = "unload" /\ answer.is = "unloaded" -> Loaded \ {cmd.id}
                     [] cmd.op = "reset" -> {}
                     [] OTHER -> Loaded
<1> USE AgentAssumption, NoEntryAssumption DEF Loaded, Says
<1>1. CASE AgentLoad(cmd, answer)
  <2>1. CASE answer.is = "loaded"
    <3>1. /\ nextId \in GuestIds /\ answer.id = nextId
          /\ cmd.kind \in Kind
          /\ guest' = [guest EXCEPT ![nextId] = [kind |-> cmd.kind, fd |-> FALSE,
                                                 point |-> NoTarget, hook |-> NoTarget]]
      BY <1>1, <2>1 DEF AgentLoad
    <3>2. guest'[nextId] \in Entry
      BY <3>1 DEF AgentTypeOK, Entry
    <3> QED
      BY <1>1, <2>1, <3>1, <3>2 DEF AgentLoad, AgentTypeOK
  <2>2. CASE answer.is # "loaded"
    BY <1>1, <2>2 DEF AgentLoad, agentVars
  <2> QED
    BY <2>1, <2>2
<1>2. CASE AgentAttach(cmd, answer)
  <2>1. \A id \in GuestIds : guest[id] # NoEntry <=> guest'[id] # NoEntry
    <3>1. AgentTypeOK'
      BY HandleTypes
    <3>2. cmd.id \in GuestIds
      BY <1>2, CommandArguments DEF AgentAttach
    <3>3. CASE guest' = guest
      BY <3>3
    <3>4. CASE /\ guest[cmd.id] # NoEntry
               /\ \/ guest' = [guest EXCEPT ![cmd.id].fd = TRUE]
                  \/ guest' = [guest EXCEPT ![cmd.id].fd = TRUE, ![cmd.id].point = cmd.target,
                                            ![cmd.id].hook = cmd.target]
      <4>1. guest[cmd.id] \in Entry
        BY <3>2, <3>4 DEF AgentTypeOK
      <4>2. guest'[cmd.id] \in Entry
        <5>1. cmd.target \in Targets
          BY <1>2, CommandArguments DEF AgentAttach
        <5>2. /\ [guest[cmd.id] EXCEPT !.fd = TRUE] \in Entry
              /\ [guest[cmd.id] EXCEPT !.fd = TRUE, !.point = cmd.target,
                                       !.hook = cmd.target] \in Entry
          BY <4>1, <5>1 DEF Entry
        <5>3. \/ guest'[cmd.id] = [guest[cmd.id] EXCEPT !.fd = TRUE]
              \/ guest'[cmd.id] = [guest[cmd.id] EXCEPT !.fd = TRUE, !.point = cmd.target,
                                                        !.hook = cmd.target]
          BY <3>2, <3>4, <4>1 DEF AgentTypeOK, Entry
        <5> QED
          BY <5>2, <5>3
      <4>3. \A id \in GuestIds \ {cmd.id} : guest'[id] = guest[id]
        BY <3>4 DEF AgentTypeOK
      <4> QED
        BY <3>4, <4>2, <4>3
    <3> QED
      BY <1>2, <3>3, <3>4 DEF AgentAttach
  <2> QED
    BY <1>2, <2>1 DEF AgentAttach
<1>3. CASE AgentDetach(cmd, answer)
  <2>1. cmd.id \in GuestIds
    BY <1>3, CommandArguments DEF AgentDetach
  <2>2. CASE guest[cmd.id] # NoEntry
    <3>1. guest'[cmd.id] \in Entry
      <4>1. guest[cmd.id] \in Entry
        BY <2>1, <2>2 DEF AgentTypeOK
      <4> QED
        BY <1>3, <2>1, <2>2, <4>1 DEF AgentDetach, AgentTypeOK, Entry
    <3>2. \A id \in GuestIds \ {cmd.id} : guest'[id] = guest[id]
      BY <1>3, <2>2 DEF AgentDetach, AgentTypeOK
    <3> QED
      BY <1>3, <2>1, <2>2, <3>1, <3>2 DEF AgentDetach
  <2> QED
    BY <1>3, <2>2 DEF AgentDetach
<1>4. CASE AgentUnload(cmd, answer)
  BY <1>4 DEF AgentUnload, AgentTypeOK
<1>5. CASE AgentReset(cmd, answer)
  BY <1>5 DEF AgentReset
<1>6. CASE AgentReads(cmd, answer)
  BY <1>6 DEF AgentReads, agentVars
<1> QED
  BY <1>1, <1>2, <1>3, <1>4, <1>5, <1>6 DEF Handle

(* PointIsHook is kept by every command. *)
LEMMA HandleHooks ==
  ASSUME AgentTypeOK, PointIsHook, NEW cmd \in Command, NEW answer \in Answer,
         Handle(cmd, answer)
  PROVE  PointIsHook'
<1> USE AgentAssumption, NoEntryAssumption DEF PointIsHook, Loaded
<1>1. \A id \in GuestIds : guest[id] # NoEntry => guest[id] \in Entry
  BY DEF AgentTypeOK
<1>2. CASE AgentLoad(cmd, answer)
  BY <1>2 DEF AgentLoad, AgentTypeOK, agentVars
<1>3. CASE AgentAttach(cmd, answer)
  <2>1. cmd.id \in GuestIds /\ cmd.target \in Targets
    BY <1>3, CommandArguments DEF AgentAttach
  <2>2. CASE guest' = guest
    BY <2>2
  <2>3. CASE /\ guest[cmd.id] # NoEntry /\ guest[cmd.id].point = NoTarget
             /\ guest' = [guest EXCEPT ![cmd.id].fd = TRUE]
    BY <1>1, <2>1, <2>3 DEF AgentTypeOK, Entry
  <2>4. CASE /\ guest[cmd.id] # NoEntry
             /\ guest' = [guest EXCEPT ![cmd.id].fd = TRUE, ![cmd.id].point = cmd.target,
                                       ![cmd.id].hook = cmd.target]
    BY <1>1, <2>1, <2>4 DEF AgentTypeOK, Entry
  <2> QED
    BY <1>3, <2>2, <2>3, <2>4 DEF AgentAttach
<1>4. CASE AgentDetach(cmd, answer)
  <2>1. cmd.id \in GuestIds
    BY <1>4, CommandArguments DEF AgentDetach
  <2> QED
    BY <1>1, <1>4, <2>1 DEF AgentDetach, AgentTypeOK, Entry
<1>5. CASE AgentUnload(cmd, answer)
  BY <1>5 DEF AgentUnload, AgentTypeOK
<1>6. CASE AgentReset(cmd, answer)
  BY <1>6 DEF AgentReset
<1>7. CASE AgentReads(cmd, answer)
  BY <1>7 DEF AgentReads, agentVars
<1> QED
  BY <1>2, <1>3, <1>4, <1>5, <1>6, <1>7 DEF Handle

-----------------------------------------------------------------------------
\* Types

Response == [to : Command, answer : Answer]

(* Sending a command and reading a response keep the stream well typed. *)
LEMMA StreamTypes ==
  ASSUME toGuest \in Seq(Command), toHost \in Seq(Response)
  PROVE  /\ <<>> \in Seq(Command) /\ <<>> \in Seq(Response)
         /\ Ping \in Command /\ Shutdown \in Command
         /\ \A cmd \in Command : Append(toGuest, cmd) \in Seq(Command)
         /\ \A r \in Response : Append(toHost, r) \in Seq(Response)
         /\ toGuest # <<>> => Head(toGuest) \in Command /\ Tail(toGuest) \in Seq(Command)
         /\ toHost # <<>> => /\ Head(toHost) \in Response /\ Tail(toHost) \in Seq(Response)
                            /\ Head(toHost).answer \in Answer
<1>1. Ping \in Command /\ Shutdown \in Command
  BY DEF Ping, Shutdown, Command
<1>2. toHost # <<>> => Head(toHost) \in Response
  OBVIOUS
<1>3. toHost # <<>> => Head(toHost).answer \in Answer
  BY <1>2 DEF Response
<1> QED
  BY <1>1, <1>2, <1>3

(* The type of what both ways to end an object leave. *)
LEMMA EndTypes ==
  ASSUME MicroTypeOK, NEW final \in State, End(final)
  PROVE  MicroTypeOK'
BY StreamTypes DEF MicroTypeOK, End, Close, AgentTypeOK, agentVars, history, Response

(* The type of another attempt. *)
LEMMA AttemptTypes ==
  ASSUME MicroTypeOK, Connecting, NextAttempt
  PROVE  MicroTypeOK'
<1>1. CASE End("failed")
  BY <1>1, EndTypes DEF State
<1>2. CASE ~End("failed")
  <2>1. /\ step < ApiRequests + MaxAttempts
        /\ step' = step + 1
        /\ Close
        /\ UNCHANGED <<agentVars, state, mirror, process, agent, history>>
    BY <1>2 DEF NextAttempt
  <2>2. step' \in 0 .. (ApiRequests + MaxAttempts)
    BY <2>1, MicroAssumption DEF MicroTypeOK, ApiRequests
  <2> QED
    BY <2>1, <2>2, StreamTypes
    DEF MicroTypeOK, Close, AgentTypeOK, agentVars, history, Response
<1> QED
  BY <1>1, <1>2

(* The stream after its process has exited. *)
LEMMA ExitTypes ==
  ASSUME MicroTypeOK, ProcessExits \/ ConnectionBreaks
  PROVE  toHost' \in Seq(Response)
<1>1. PICK n \in 0 .. Len(toHost) : toHost' = SubSeq(toHost, 1, n)
  BY DEF ProcessExits, ConnectionBreaks, Cut
<1>2. toHost \in Seq(Response) /\ n \in Int /\ 1 \in Int
  BY DEF MicroTypeOK, Response
<1>3. \A i \in 1 .. n : toHost[i] \in Response
  BY <1>2
<1> QED
  BY <1>1, <1>2, <1>3, SubSeqProperties

(* Every step keeps the types. *)
LEMMA TypesKept ==
  ASSUME MicroTypeOK, [MicroNext]_microVars
  PROVE  MicroTypeOK'
<1> USE DEF Response
<1>0. /\ toGuest \in Seq(Command) /\ toHost \in Seq(Response)
  BY DEF MicroTypeOK
<1>1. CASE Boot
  <2>1. CASE End("failed")
    BY <2>1, EndTypes DEF State
  <2>2. CASE ~End("failed")
    BY <1>1, <2>2, MicroAssumption
    DEF Boot, MicroTypeOK, AgentTypeOK, agentVars, wire, history, ApiRequests
  <2> QED
    BY <2>1, <2>2
<1>2. CASE Connect
  <2>1. CASE NextAttempt
    BY <1>2, <2>1, AttemptTypes DEF Connect
  <2>2. CASE ~NextAttempt
    <3>1. /\ stream' = "open" /\ toGuest' = <<Ping>> /\ call' = Ping
          /\ UNCHANGED <<agentVars, hostVars, process, agent, toHost, history>>
      BY <1>2, <2>2 DEF Connect
    <3>2. Ping \in Command /\ <<Ping>> \in Seq(Command)
      BY <1>0, StreamTypes
    <3> QED
      BY <3>1, <3>2 DEF MicroTypeOK, AgentTypeOK, agentVars, hostVars, history
  <2> QED
    BY <2>1, <2>2
<1>3. CASE Connected
  <2>1. CASE NextAttempt
    BY <1>3, <2>1, AttemptTypes DEF Connected
  <2>2. CASE ~NextAttempt
    BY <1>0, <1>3, <2>2, StreamTypes
    DEF Connected, MicroTypeOK, AgentTypeOK, agentVars, history, State
  <2> QED
    BY <2>1, <2>2
<1>4. CASE PingBreaks
  BY <1>4, AttemptTypes DEF PingBreaks
<1>5. CASE Return
  <2>1. mirror' \subseteq GuestIds
    <3>1. Head(toHost).answer \in Answer
      BY <1>0, <1>5, StreamTypes DEF Return
    <3>2. Head(toHost).answer.is = "loaded" => Head(toHost).answer.id \in GuestIds
      BY <3>1 DEF Answer
    <3> QED
      BY <1>5, <3>2 DEF Return, MicroTypeOK, Mirrored
  <2>2. toHost' \in Seq(Response) /\ clean' \in BOOLEAN
    BY <1>0, <1>5, StreamTypes DEF Return
  <2> QED
    BY <1>5, <2>1, <2>2 DEF Return, MicroTypeOK, AgentTypeOK, agentVars
<1>6. CASE CallBreaks
  BY <1>6 DEF CallBreaks, MicroTypeOK, AgentTypeOK, agentVars, hostVars, wire, history
<1>7. CASE ShutdownAnswered
  BY <1>0, <1>7, StreamTypes
  DEF ShutdownAnswered, MicroTypeOK, AgentTypeOK, agentVars, hostVars, history
<1>8. CASE Halt
  BY <1>8, EndTypes DEF Halt, State
<1>9. CASE Spawn
  BY <1>9 DEF Spawn, MicroTypeOK, AgentTypeOK, agentVars, wire, history, State
<1>10. CASE Abandon
  BY <1>10, MicroAssumption
  DEF Abandon, MicroTypeOK, AgentTypeOK, agentVars, hostVars, wire
<1>11. CASE CheckHealth
  BY <1>11 DEF CheckHealth, MicroTypeOK, AgentTypeOK, agentVars, wire, history, State
<1>12. CASE ShutdownBegin
  BY <1>0, <1>12, StreamTypes
  DEF ShutdownBegin, Send, MicroTypeOK, AgentTypeOK, agentVars, wire, history, State
<1>13. CASE Drop
  BY <1>13, EndTypes DEF Drop, State
<1>14. ASSUME NEW cmd \in Command, Invoke(cmd) PROVE MicroTypeOK'
  BY <1>0, <1>14, StreamTypes
  DEF Invoke, Send, MicroTypeOK, AgentTypeOK, agentVars, hostVars
<1>15. CASE AgentStarts
  BY <1>15 DEF AgentStarts, MicroTypeOK, AgentTypeOK, agentVars, hostVars, wire, history
<1>16. CASE AgentTurn
  <2>1. Head(toGuest) \in Command /\ Tail(toGuest) \in Seq(Command)
    BY <1>0, <1>16, StreamTypes DEF AgentTurn
  <2>2. PICK answer \in Answer : Handle(Head(toGuest), answer) /\ Respond(Head(toGuest), answer)
    BY <1>16 DEF AgentTurn
  <2>3. AgentTypeOK'
    BY <2>1, <2>2, HandleTypes DEF MicroTypeOK
  <2>4. toHost' \in Seq(Response)
    BY <1>0, <2>1, <2>2 DEF Respond
  <2> QED
    BY <1>0, <1>16, <2>1, <2>3, <2>4, StreamTypes
    DEF AgentTurn, MicroTypeOK, hostVars, history
<1>17. CASE ProcessExits
  BY <1>0, <1>17, ExitTypes, StreamTypes
  DEF ProcessExits, Cut, MicroTypeOK, AgentTypeOK, agentVars, hostVars, history
<1>18. CASE ConnectionBreaks
  BY <1>0, <1>18, ExitTypes, StreamTypes
  DEF ConnectionBreaks, Cut, MicroTypeOK, AgentTypeOK, agentVars, hostVars, history
<1>19. CASE UNCHANGED microVars
  BY <1>19 DEF microVars, MicroTypeOK, AgentTypeOK, agentVars, hostVars, wire, history
<1> QED
  BY <1>1, <1>2, <1>3, <1>4, <1>5, <1>6, <1>7, <1>8, <1>9, <1>10, <1>11, <1>12, <1>13,
     <1>14, <1>15, <1>16, <1>17, <1>18, <1>19 DEF MicroNext, HostStep, OwnerStep

(* The type invariant of MicroVm. *)
THEOREM MicroTypeCorrect == MicroSpec => []MicroTypeOK
<1>1. MicroInit => MicroTypeOK
  BY MicroAssumption, AgentAssumption
  DEF MicroInit, AgentInit, MicroTypeOK, AgentTypeOK, State, ApiRequests, GuestIds
<1> QED
  BY <1>1, TypesKept, PTL DEF MicroSpec

-----------------------------------------------------------------------------
\* The stream

Kept == Wired /\ Fresh /\ Lined /\ Resetting /\ Mirroring /\ NoOrphan

(* An object that is gone leaves nothing behind. *)
LEMMA EndKeeps ==
  ASSUME MicroInv, NEW final \in {"failed", "stopped", "dropped"}, End(final)
  PROVE  Kept'
BY DEF End, Close, Kept, Wired, Fresh, Lined, Resetting, Mirroring, NoOrphan, Usable

(* Neither does an attempt. *)
LEMMA AttemptKeeps ==
  ASSUME MicroInv, Connecting, NextAttempt
  PROVE  Kept'
<1>1. CASE End("failed")
  BY <1>1, EndKeeps
<1>2. CASE ~End("failed")
  <2>1. /\ Close
        /\ UNCHANGED <<guest, state, mirror, process, agent, abandoned, clean>>
        /\ state = "starting"
    BY <1>2 DEF NextAttempt, Connecting, agentVars, history
  <2> QED
    BY <2>1 DEF MicroInv, Close, Kept, Wired, Fresh, Lined, Resetting, Mirroring, NoOrphan,
                Usable, Loaded
<1> QED
  BY <1>1, <1>2

(* The head of the stream to the host. *)
LEMMA ReadOne ==
  ASSUME MicroTypeOK, toHost # <<>>
  PROVE  /\ Head(toHost) = toHost[1]
         /\ Len(Tail(toHost)) = Len(toHost) - 1
         /\ Len(toHost) \in Nat \ {0} /\ Len(toGuest) \in Nat
         /\ toGuest # <<>> => Len(toGuest) > 0
BY DEF MicroTypeOK

(* The answer to the ping, after which the stream is empty. *)
LEMMA ConnectedKeeps ==
  ASSUME MicroInv, Connected
  PROVE  Kept'
<1>1. CASE NextAttempt
  BY <1>1, AttemptKeeps DEF Connected
<1>2. CASE ~NextAttempt
  <2> USE DEF MicroInv
  <2>1. /\ Connecting /\ toHost # <<>> /\ state' = "running"
        /\ toHost' = Tail(toHost) /\ call' = NoCall
        /\ UNCHANGED <<guest, mirror, process, agent, stream, toGuest, abandoned, clean>>
    BY <1>2 DEF Connected, agentVars, history
  <2>2. state = "starting" /\ Loaded' = {} /\ mirror' = {} /\ abandoned = 0
    BY <2>1 DEF Connecting, Fresh, Loaded
  <2>3. stream # "closed" /\ stream \in {"open", "broken"}
    BY <2>1 DEF Wired, MicroTypeOK
  <2>4. stream = "open" => toGuest' = <<>> /\ toHost' = <<>>
    <3> SUFFICES ASSUME stream = "open" PROVE toGuest = <<>> /\ Tail(toHost) = <<>>
      BY <2>1
    <3>1. Len(toHost) + Len(toGuest) \in {0, 1}
      BY <2>2 DEF Lined
    <3>2. Len(toHost) = 1 /\ Len(toGuest) = 0
      BY <2>1, <3>1, ReadOne
    <3>3. toGuest = <<>>
      BY <3>2, ReadOne, <2>1
    <3>4. Tail(toHost) \in Seq(Response) /\ Len(Tail(toHost)) = 0
      BY <2>1, <3>2, ReadOne DEF MicroTypeOK, Response
    <3> QED
      BY <3>3, <3>4, EmptySeq
  <2>5. Wired' /\ Fresh' /\ NoOrphan'
    BY <2>1, <2>3 DEF Wired, Fresh, NoOrphan, Usable
  <2>6. Lined'
    BY <2>1, <2>2, <2>4 DEF Lined, Waiting
  <2>7. Resetting' /\ Mirroring'
    BY <2>1, <2>2, <2>4 DEF Resetting, Mirroring
  <2> QED
    BY <2>5, <2>6, <2>7 DEF Kept
<1> QED
  BY <1>1, <1>2

(* A call takes the next response. *)
LEMMA ReturnKeeps ==
  ASSUME MicroInv, Return
  PROVE  Kept'
<1> USE DEF MicroInv
<1>1. /\ Usable /\ Waiting /\ toHost # <<>>
      /\ mirror' = Mirrored(Head(toHost).answer)
      /\ clean' => call.op = "reset"
      /\ toHost' = Tail(toHost) /\ call' = NoCall
      /\ UNCHANGED <<guest, state, process, agent, stream, toGuest, abandoned>>
  BY DEF Return, agentVars
<1>2. Wired' /\ Fresh' /\ NoOrphan'
  BY <1>1 DEF Wired, Fresh, NoOrphan, Usable
<1>3. Lined'
  <2> SUFFICES ASSUME stream = "open" PROVE Len(Tail(toHost)) + Len(toGuest) = abandoned
    BY <1>1 DEF Lined, Waiting
  <2>1. Len(toHost) + Len(toGuest) = abandoned + 1
    BY <1>1 DEF Lined
  <2> QED
    BY <1>1, <2>1, ReadOne DEF MicroTypeOK
<1>4. Resetting'
  BY <1>1 DEF Resetting, Loaded, Last, Waiting
<1>5. Mirroring'
  <2> SUFFICES ASSUME abandoned = 0, stream = "open" PROVE toHost' = <<>> /\ mirror' = Loaded'
    BY <1>1 DEF Mirroring, Usable
  <2>1. Len(toHost) + Len(toGuest) = 1
    BY <1>1 DEF Lined
  <2>2. Len(Tail(toHost)) = 0
    BY <1>1, <2>1, ReadOne
  <2>3. Tail(toHost) \in Seq(Response)
    BY <1>1 DEF MicroTypeOK, Response
  <2> QED
    BY <1>1, <2>2, <2>3, EmptySeq DEF Mirroring, Loaded
<1> QED
  BY <1>2, <1>3, <1>4, <1>5 DEF Kept

(* A command goes out. *)
LEMMA SendKeeps ==
  ASSUME MicroInv, NEW cmd \in Command, Send(cmd), Usable, ~Waiting, stream = "open",
         UNCHANGED <<guest, process, agent, mirror, abandoned>>,
         \/ state' = state /\ clean' = FALSE
         \/ state' = "stopping" /\ cmd.op = "shutdown"
  PROVE  Kept'
<1> USE DEF MicroInv
<1>1. /\ toGuest' \in Seq(Command) /\ Len(toGuest') = Len(toGuest) + 1
      /\ Last(toGuest') = cmd /\ toGuest' # <<>>
      /\ Len(toGuest) \in Nat /\ Len(toHost) \in Nat
  BY DEF Send, MicroTypeOK, Last
<1>2. /\ call' = cmd /\ stream' = stream /\ toHost' = toHost
      /\ cmd # NoCall
  BY MicroAssumption DEF Send
<1>3. Wired' /\ NoOrphan' /\ Fresh'
  BY <1>2 DEF Wired, NoOrphan, Fresh, Usable
<1>4. Len(toHost) + Len(toGuest) = abandoned
  BY DEF Lined, MicroTypeOK
<1>5. Lined'
  BY <1>1, <1>2, <1>4 DEF Lined, Waiting, MicroTypeOK
<1>6. Resetting'
  BY <1>1, <1>2 DEF Resetting, Usable
<1>7. Mirroring'
  <2> SUFFICES ASSUME abandoned = 0 PROVE toHost = <<>> /\ mirror = Loaded
    BY <1>2 DEF Mirroring, Loaded
  <2>1. toHost = <<>>
    BY <1>1, <1>4, EmptySeq DEF MicroTypeOK
  <2> QED
    BY <2>1 DEF Mirroring
<1> QED
  BY <1>3, <1>5, <1>6, <1>7 DEF Kept

(* The agent answers a reset with nothing else. *)
LEMMA ResetSaysSo ==
  ASSUME NEW cmd, NEW answer, Handle(cmd, answer), cmd.op = "reset"
  PROVE  answer.is = "reset"
<1>1. AgentReset(cmd, answer)
  BY DEF Handle, AgentLoad, AgentAttach, AgentDetach, AgentUnload, AgentReads
<1> QED
  BY <1>1 DEF AgentReset, Says

(* One command is handled. *)
LEMMA TurnKeeps ==
  ASSUME MicroInv, AgentTurn
  PROVE  Kept'
<1> USE DEF MicroInv
<1> DEFINE cmd == Head(toGuest)
<1>1. /\ toGuest \in Seq(Command) /\ toGuest # <<>> /\ cmd \in Command
      /\ toHost \in Seq(Response)
  BY DEF AgentTurn, MicroTypeOK, Response
<1>2. PICK answer \in Answer : Handle(cmd, answer) /\ Respond(cmd, answer)
  BY DEF AgentTurn
<1>3. UNCHANGED <<state, mirror, process, call, abandoned, clean>> /\ stream = "open"
  BY DEF AgentTurn, hostVars, history
<1>4. /\ Len(toGuest) \in Nat \ {0} /\ Len(toHost) \in Nat
      /\ Len(Tail(toGuest)) = Len(toGuest) - 1
      /\ Tail(toGuest) # <<>> => Len(toGuest) > 1 /\ Last(Tail(toGuest)) = Last(toGuest)
      /\ Tail(toGuest) = <<>> => Len(toGuest) = 1 /\ Last(toGuest) = cmd
  <2>1. /\ Len(toGuest) \in Nat \ {0} /\ Len(toHost) \in Nat
        /\ Tail(toGuest) \in Seq(Command)
        /\ Len(Tail(toGuest)) = Len(toGuest) - 1
        /\ \A i \in 1 .. Len(Tail(toGuest)) : Tail(toGuest)[i] = toGuest[i + 1]
        /\ cmd = toGuest[1]
    BY <1>1, EmptySeq, HeadTailProperties
  <2>2. Tail(toGuest) # <<>> => Len(Tail(toGuest)) \in Nat \ {0}
    BY <2>1, EmptySeq
  <2>3. Tail(toGuest) = <<>> => Len(Tail(toGuest)) = 0
    BY EmptySeq
  <2>4. ASSUME Tail(toGuest) # <<>>
        PROVE  Tail(toGuest)[Len(Tail(toGuest))] = toGuest[Len(toGuest)]
    BY <2>1, <2>2, <2>4
  <2> QED
    BY <2>1, <2>2, <2>3, <2>4 DEF Last
<1>5. ASSUME state \in {"absent", "starting"} PROVE cmd = Ping /\ Loaded = {}
  <2>1. abandoned = 0 /\ call \in {NoCall, Ping} /\ Loaded = {}
    BY <1>5 DEF Fresh
  <2>2. Waiting /\ Len(toGuest) = 1
    BY <1>3, <1>4, <2>1 DEF Lined
  <2> QED
    BY <1>1, <1>3, <2>1, <2>2 DEF Lined, Last, Waiting
<1>6. CASE cmd = Shutdown
  <2>1. agent' = "gone" /\ stream' = "broken" /\ toGuest' = <<>>
    BY <1>6 DEF AgentTurn
  <2>2. state \notin {"absent", "starting"}
    BY <1>5, <1>6 DEF Ping, Shutdown
  <2> QED
    BY <1>3, <2>1, <2>2
    DEF Kept, Wired, Fresh, Lined, Resetting, Mirroring, NoOrphan, Usable
<1>7. CASE cmd # Shutdown
  <2>1. UNCHANGED <<agent, stream>> /\ toGuest' = Tail(toGuest)
    BY <1>7 DEF AgentTurn
  <2>2. /\ toHost' = Append(toHost, [to |-> cmd, answer |-> answer])
        /\ Len(toHost') = Len(toHost) + 1
        /\ Last(toHost').to = cmd
        /\ toHost' # <<>>
    <3>1. [to |-> cmd, answer |-> answer] \in Response
      BY <1>1 DEF Response
    <3>2. toHost' = Append(toHost, [to |-> cmd, answer |-> answer])
      BY <1>2 DEF Respond
    <3>3. /\ Len(toHost') = Len(toHost) + 1
          /\ toHost'[Len(toHost) + 1] = [to |-> cmd, answer |-> answer]
      BY <1>1, <3>1, <3>2, AppendProperties
    <3> QED
      BY <1>4, <3>2, <3>3, EmptySeq DEF Last
  <2>4. Wired' /\ NoOrphan'
    BY <1>3, <2>1 DEF Wired, NoOrphan, Usable
  <2>5. Lined'
    BY <1>3, <2>1, <2>2, <1>4 DEF Lined, Waiting, MicroTypeOK
  <2>6. Loaded' = CASE cmd.op = "load" /\ answer.is = "loaded" -> Loaded \cup {answer.id}
                    [] cmd.op = "unload" /\ answer.is = "unloaded" -> Loaded \ {cmd.id}
                    [] cmd.op = "reset" -> {}
                    [] OTHER -> Loaded
    BY <1>1, <1>2, HandleLoads DEF MicroTypeOK
  <2>7. Fresh'
    <3>1. state \in {"absent", "starting"} => Loaded' = Loaded
      BY <1>3, <1>5, <2>6 DEF Ping
    <3>2. state \in {"absent", "starting"} => Len(toHost') <= 1
      BY <1>1, <1>3, <1>4, <2>2 DEF Fresh, Lined, MicroTypeOK
    <3> QED
      BY <1>3, <3>1, <3>2 DEF Fresh
  <2>8. Resetting'
    BY <1>3, <2>1, <1>4, <2>6 DEF Resetting, Usable, Waiting
  <2>9. Mirroring'
    <3> SUFFICES ASSUME abandoned = 0, Usable
                 PROVE  toHost' # <<>> /\ Mirrored(Head(toHost).answer)' = Loaded'
      BY <1>3, <2>2 DEF Mirroring, Usable
    <3>1. Len(toHost) = 0 /\ Len(toGuest) = 1 /\ Waiting
      BY <1>3, <1>4 DEF Lined
    <3>2. toHost = <<>> /\ cmd = call /\ mirror = Loaded
      <4>1. toHost = <<>>
        BY <1>1, <3>1, EmptySeq
      <4>2. Last(toGuest) = cmd
        BY <3>1 DEF Last
      <4> QED
        BY <1>1, <1>3, <3>1, <4>1, <4>2 DEF Lined, Mirroring
    <3>3. Head(toHost').answer = answer
      BY <2>2, <3>2
    <3>4. cmd.op = "reset" => answer.is = "reset"
      BY <1>2, ResetSaysSo
    <3>5. Mirrored(Head(toHost).answer)' =
            CASE call.op = "load" /\ answer.is = "loaded" -> mirror \cup {answer.id}
              [] call.op = "unload" /\ answer.is = "unloaded" -> mirror \ {call.id}
              [] call.op = "reset" /\ answer.is = "reset" -> {}
              [] OTHER -> mirror
      BY <1>3, <3>3 DEF Mirrored
    <3> QED
      BY <2>2, <2>6, <3>2, <3>4, <3>5
  <2> QED
    BY <2>4, <2>5, <2>7, <2>8, <2>9 DEF Kept
<1> QED
  BY <1>6, <1>7

(* The process dies: the stream is broken and the agent gone. *)
LEMMA ExitKeeps ==
  ASSUME MicroInv, ProcessExits
  PROVE  Kept'
<1> USE DEF MicroInv
<1>1. /\ process' = "exited" /\ agent' = "gone" /\ toGuest' = <<>>
      /\ stream' = IF stream = "open" THEN "broken" ELSE stream
      /\ UNCHANGED <<guest, state, mirror, call, abandoned, clean>>
  BY DEF ProcessExits, Cut, agentVars, hostVars, history
<1>2. (toHost = <<>> => toHost' = <<>>) /\ (Len(toHost) <= 1 => Len(toHost') <= 1)
  <2>1. PICK n \in 0 .. Len(toHost) : toHost' = SubSeq(toHost, 1, n)
    BY DEF ProcessExits, Cut
  <2>2. Len(toHost') = n /\ n \in Nat /\ n <= Len(toHost) /\ Len(toHost) \in Nat
    BY <2>1 DEF MicroTypeOK
  <2> QED
    BY <2>1, <2>2, SubSeqEmpty, EmptySeq
<1>3. Wired' /\ NoOrphan' /\ Fresh'
  BY <1>1, <1>2 DEF Wired, NoOrphan, Fresh, Usable, Loaded, MicroTypeOK
<1>4. stream' # "open"
  BY <1>1
<1> QED
  BY <1>3, <1>4 DEF Kept, Lined, Resetting, Mirroring

(* The connection breaks: what was under way to the guest is lost. *)
LEMMA BreakKeeps ==
  ASSUME MicroInv, ConnectionBreaks
  PROVE  Kept'
<1> USE DEF MicroInv
<1>1. /\ stream = "open" /\ stream' = "broken" /\ toGuest' = <<>>
      /\ UNCHANGED <<guest, state, mirror, process, agent, call, abandoned, clean>>
  BY DEF ConnectionBreaks, Cut, agentVars, hostVars, history
<1>2. Len(toHost) <= 1 => Len(toHost') <= 1
  <2>1. PICK n \in 0 .. Len(toHost) : toHost' = SubSeq(toHost, 1, n)
    BY DEF ConnectionBreaks, Cut
  <2>2. Len(toHost') = n /\ n \in Nat /\ n <= Len(toHost) /\ Len(toHost) \in Nat
    BY <2>1 DEF MicroTypeOK
  <2> QED
    BY <2>2
<1>3. Wired' /\ NoOrphan' /\ Fresh'
  BY <1>1, <1>2 DEF Wired, NoOrphan, Fresh, Usable, Loaded, MicroTypeOK
<1> QED
  BY <1>1, <1>3 DEF Kept, Lined, Resetting, Mirroring

(* Every step keeps what is said of the object, the stream and the guest. *)
LEMMA InvKept ==
  ASSUME MicroInv, [MicroNext]_microVars
  PROVE  MicroInv'
<1>1. MicroTypeOK'
  BY TypesKept DEF MicroInv
<1>2. PointIsHook'
  <2>1. CASE AgentTurn
    <3>1. Head(toGuest) \in Command
      BY <2>1, StreamTypes DEF AgentTurn, MicroInv, MicroTypeOK, Response
    <3> QED
      BY <2>1, <3>1, HandleHooks DEF AgentTurn, MicroInv, MicroTypeOK
  <2>2. CASE ~AgentTurn
    <3>1. UNCHANGED guest
      BY <2>2 DEF MicroNext, HostStep, OwnerStep, Boot, Connect, Connected, PingBreaks,
         NextAttempt, End, Return, CallBreaks, ShutdownAnswered, Halt, Spawn, Abandon,
         CheckHealth, ShutdownBegin, Drop, Invoke, AgentStarts, ConnectionBreaks,
         ProcessExits, agentVars, microVars
    <3> QED
      BY <3>1 DEF MicroInv, PointIsHook, Loaded
  <2> QED
    BY <2>1, <2>2
<1>3. Kept'
  <2> USE DEF MicroInv
  <2>1. CASE Boot
    <3>1. CASE End("failed")
      BY <3>1, EndKeeps
    <3>2. CASE ~End("failed")
      <4>1. UNCHANGED <<guest, state, mirror, process, agent, stream, toGuest, toHost, call,
                        abandoned, clean>>
        BY <2>1, <3>2 DEF Boot, agentVars, wire, history
      <4> QED
        BY <4>1 DEF Kept, Wired, Fresh, Lined, Resetting, Mirroring, NoOrphan, Usable, Loaded,
                    Mirrored, Waiting, Last
    <3> QED
      BY <3>1, <3>2
  <2>2. CASE Connect
    <3>1. CASE NextAttempt
      BY <2>2, <3>1, AttemptKeeps DEF Connect
    <3>2. CASE ~NextAttempt
      <4>1. /\ Connecting /\ stream = "closed" /\ agent = "up"
            /\ stream' = "open" /\ toGuest' = <<Ping>> /\ call' = Ping
            /\ UNCHANGED <<guest, state, mirror, process, agent, toHost, abandoned, clean>>
        BY <2>2, <3>2 DEF Connect, agentVars, hostVars, history
      <4>2. state = "starting" /\ abandoned = 0 /\ toHost' = <<>> /\ Ping # NoCall
        BY <4>1, MicroAssumption DEF Connecting, Fresh, Wired, Ping, Command
      <4>3. Len(toGuest') = 1 /\ Last(toGuest') = Ping /\ toGuest' # <<>> /\ Len(toHost') = 0
        BY <4>1, <4>2 DEF Last
      <4>4. Wired' /\ Fresh' /\ NoOrphan'
        BY <4>1, <4>2 DEF Wired, Fresh, NoOrphan, Usable, Loaded
      <4>5. Lined'
        BY <4>1, <4>2, <4>3 DEF Lined, Waiting
      <4>6. Resetting' /\ Mirroring'
        BY <4>1, <4>2 DEF Resetting, Mirroring, Usable, Waiting, Ping
      <4> QED
        BY <4>4, <4>5, <4>6 DEF Kept
    <3> QED
      BY <3>1, <3>2
  <2>3. CASE Connected
    BY <2>3, ConnectedKeeps
  <2>4. CASE PingBreaks
    BY <2>4, AttemptKeeps DEF PingBreaks
  <2>5. CASE Return
    BY <2>5, ReturnKeeps
  <2>6. CASE CallBreaks
    BY <2>6 DEF CallBreaks, Broken, Kept, Wired, Fresh, Lined, Resetting, Mirroring, NoOrphan,
                Usable, Loaded, agentVars, hostVars, wire, history
  <2>7. CASE ShutdownAnswered
    <3>1. /\ state = "stopping" /\ Waiting /\ call' = NoCall
          /\ UNCHANGED <<guest, state, mirror, process, agent, stream, toGuest, abandoned, clean>>
      BY <2>7 DEF ShutdownAnswered, agentVars, hostVars, history
    <3>2. Wired' /\ Fresh' /\ NoOrphan' /\ Resetting' /\ Mirroring'
      <4>1. stream = "closed" => UNCHANGED toHost
        BY <2>7, <3>1 DEF ShutdownAnswered, Wired
      <4> QED
        BY <3>1, <4>1 DEF Wired, Fresh, NoOrphan, Resetting, Mirroring, Usable, Waiting, Loaded
    <3>3. Lined'
      <4> SUFFICES ASSUME stream = "open"
                   PROVE  Len(toHost') + Len(toGuest) = abandoned
        BY <3>1 DEF Lined, Waiting
      <4>1. toHost # <<>> /\ toHost' = Tail(toHost)
        BY <2>7 DEF ShutdownAnswered, Broken
      <4>2. Len(toHost) + Len(toGuest) = abandoned + 1
        BY <3>1 DEF Lined
      <4> QED
        BY <4>1, <4>2, ReadOne DEF MicroTypeOK
    <3> QED
      BY <3>2, <3>3 DEF Kept
  <2>8. CASE Halt
    BY <2>8, EndKeeps DEF Halt
  <2>9. CASE Spawn
    BY <2>9 DEF Spawn, Kept, Wired, Fresh, Lined, Resetting, Mirroring, NoOrphan, Usable,
                Loaded, Mirrored, Waiting, Last, agentVars, wire, history
  <2>10. CASE Abandon
    <3>1. /\ Usable /\ Waiting /\ abandoned' = abandoned + 1 /\ call' = NoCall
          /\ UNCHANGED <<guest, state, mirror, process, agent, stream, toGuest, toHost, clean>>
      BY <2>10 DEF Abandon, agentVars, hostVars, wire
    <3>2. Wired' /\ Fresh' /\ NoOrphan' /\ Lined'
      BY <3>1 DEF Wired, Fresh, NoOrphan, Lined, Usable, Waiting, MicroTypeOK
    <3>3. Resetting'
      BY <3>1 DEF Resetting, Usable, Waiting, Loaded, Last
    <3>4. Mirroring'
      BY <3>1 DEF Mirroring, MicroTypeOK
    <3> QED
      BY <3>2, <3>3, <3>4 DEF Kept
  <2>11. CASE CheckHealth
    BY <2>11 DEF CheckHealth, Kept, Wired, Fresh, Lined, Resetting, Mirroring, NoOrphan, Usable,
                 Loaded, Mirrored, Waiting, Last, agentVars, wire, history
  <2>12. CASE ShutdownBegin
    <3>1. CASE stream = "open"
      BY <2>12, <3>1, SendKeeps, StreamTypes
      DEF ShutdownBegin, agentVars, history, MicroTypeOK, Shutdown, Response
    <3>2. CASE stream # "open"
      BY <2>12, <3>2
      DEF ShutdownBegin, Kept, Wired, Fresh, Lined, Resetting, Mirroring, NoOrphan, Usable,
          agentVars, wire, history
    <3> QED
      BY <3>1, <3>2
  <2>13. CASE Drop
    BY <2>13, EndKeeps DEF Drop
  <2>14. ASSUME NEW cmd \in Command, Invoke(cmd) PROVE Kept'
    BY <2>14, SendKeeps DEF Invoke, agentVars, hostVars
  <2>15. CASE AgentStarts
    BY <2>15 DEF AgentStarts, Kept, Wired, Fresh, Lined, Resetting, Mirroring, NoOrphan, Usable,
                 Loaded, Mirrored, Waiting, Last, agentVars, hostVars, wire, history
  <2>16. CASE AgentTurn
    BY <2>16, TurnKeeps
  <2>17. CASE ProcessExits
    BY <2>17, ExitKeeps
  <2>18. CASE ConnectionBreaks
    BY <2>18, BreakKeeps
  <2>19. CASE UNCHANGED microVars
    BY <2>19 DEF microVars, Kept, Wired, Fresh, Lined, Resetting, Mirroring, NoOrphan, Usable,
                 Loaded, Mirrored, Waiting, Last, agentVars, hostVars, wire, history
  <2> QED
    BY <2>1, <2>2, <2>3, <2>4, <2>5, <2>6, <2>7, <2>8, <2>9, <2>10, <2>11, <2>12, <2>13,
       <2>14, <2>15, <2>16, <2>17, <2>18, <2>19 DEF MicroNext, HostStep, OwnerStep
<1> QED
  BY <1>1, <1>2, <1>3 DEF MicroInv, Kept

(* So all of it holds of MicroVm at any time. *)
LEMMA InvCorrect == MicroSpec => []MicroInv
<1>1. MicroInit => MicroInv
  <2> SUFFICES ASSUME MicroInit PROVE MicroInv
    OBVIOUS
  <2>1. MicroTypeOK
    BY MicroAssumption, AgentAssumption
    DEF MicroInit, AgentInit, MicroTypeOK, AgentTypeOK, State, ApiRequests, GuestIds
  <2>2. Loaded = {}
    BY DEF MicroInit, AgentInit, Loaded
  <2> QED
    BY <2>1, <2>2 DEF MicroInit, MicroInv, Wired, Fresh, Lined, Resetting, Mirroring, NoOrphan,
                      PointIsHook, Usable
<1> QED
  BY <1>1, InvKept, PTL DEF MicroSpec

-----------------------------------------------------------------------------

(* Every response under way belongs to a call that was given up or to the  *)
(* one that waits, which is the last (send_command).                       *)
THEOREM HostAndAgentInStep == MicroSpec => []InStep
<1>1. MicroInv => InStep
  <2> SUFFICES ASSUME MicroInv, stream = "open"
               PROVE  /\ Len(Outstanding) = abandoned + (IF Waiting THEN 1 ELSE 0)
                      /\ Waiting => Outstanding[Len(Outstanding)] = call
    BY DEF InStep
  <2> DEFINE answered == [i \in 1 .. Len(toHost) |-> toHost[i].to]
  <2>1. toHost \in Seq(Response) /\ toGuest \in Seq(Command)
    BY DEF MicroInv, MicroTypeOK, Response
  <2>2. answered \in Seq(Command) /\ Len(answered) = Len(toHost)
    <3>1. ASSUME NEW i \in 1 .. Len(toHost) PROVE toHost[i].to \in Command
      <4>1. toHost[i] \in Response
        BY <2>1, ElementOfSeq
      <4> QED
        BY <4>1 DEF Response
    <3> QED
      BY <2>1, <3>1
  <2>3. /\ Len(answered \o toGuest) = Len(answered) + Len(toGuest)
        /\ \A i \in 1 .. Len(answered) + Len(toGuest) : (answered \o toGuest)[i] =
             IF i <= Len(answered) THEN answered[i] ELSE toGuest[i - Len(answered)]
    BY <2>1, <2>2, ConcatProperties
  <2> HIDE DEF answered
  <2>4. Outstanding = answered \o toGuest
    BY DEF Outstanding, answered
  <2>5. Len(Outstanding) = abandoned + (IF Waiting THEN 1 ELSE 0)
    BY <2>2, <2>3, <2>4 DEF MicroInv, Lined
  <2>6. ASSUME Waiting, toGuest # <<>> PROVE Outstanding[Len(Outstanding)] = call
    BY <2>1, <2>2, <2>3, <2>4, <2>6 DEF MicroInv, Lined, Last
  <2>7. ASSUME Waiting, toGuest = <<>> PROVE Outstanding[Len(Outstanding)] = call
    <3>1. Last(toHost).to = call
      BY <2>7 DEF MicroInv, Lined
    <3>2. Len(toHost) \in Nat /\ Len(toGuest) = 0
      BY <2>1, <2>7
    <3>3. Len(toHost) > 0
      BY <2>5, <2>2, <2>3, <2>4, <2>7, <3>2 DEF MicroInv, MicroTypeOK
    <3>4. Outstanding[Len(Outstanding)] = answered[Len(toHost)]
      BY <2>2, <2>3, <2>4, <3>2, <3>3
    <3> QED
      BY <3>1, <3>2, <3>3, <3>4 DEF Last, answered
  <2> QED
    BY <2>5, <2>6, <2>7
<1> QED
  BY <1>1, InvCorrect, PTL

(* Between two calls, none of them given up, the host's programs are those *)
(* in the guest (MicroVm.programs).                                        *)
THEOREM MirrorIsRight == MicroSpec => []MirrorAgrees
<1>1. MicroInv => MirrorAgrees
  <2> SUFFICES ASSUME MicroInv, abandoned = 0, ~Waiting, Usable, stream = "open"
               PROVE  mirror = Loaded
    BY DEF MirrorAgrees
  <2>1. stream = "open"
    BY DEF MicroInv, Wired, MicroTypeOK
  <2>2. toHost = <<>>
    BY <2>1, EmptySeq DEF MicroInv, Lined, MicroTypeOK
  <2> QED
    BY <2>1, <2>2 DEF MicroInv, Mirroring
<1> QED
  BY <1>1, InvCorrect, PTL

(* A reset that was reported complete leaves no program for the next call, *)
(* even after calls that were given up (reset).                            *)
THEOREM ResetIsClean == MicroSpec => []ResetCleans
<1>1. MicroInv => ResetCleans
  BY DEF MicroInv, ResetCleans, LeftEmpty, Resetting, Wired, MicroTypeOK, Last
<1> QED
  BY <1>1, InvCorrect, PTL

(* No Firecracker process outlives its object (Drop).                      *)
THEOREM ProcessesAreOwned == MicroSpec => []NoOrphan
<1>1. MicroInv => NoOrphan
  BY DEF MicroInv
<1> QED
  BY <1>1, InvCorrect, PTL

(* What the agent lists as attached is hooked to that target (attach).     *)
THEOREM AttachedInGuest == MicroSpec => []PointIsHook
<1>1. MicroInv => PointIsHook
  BY DEF MicroInv
<1> QED
  BY <1>1, InvCorrect, PTL

(* A call that waits has its response in the stream, or its end, or the    *)
(* agent has a command to answer (send_command).                           *)
THEOREM AnswersCome == MicroSpec => []AnswerToCome
<1>1. MicroInv => AnswerToCome
  <2> SUFFICES ASSUME MicroInv, Waiting, toHost = <<>>, stream # "broken"
               PROVE  agent = "up" /\ stream = "open" /\ toGuest # <<>>
    BY DEF AnswerToCome, Broken
  <2>1. stream = "open" /\ agent = "up"
    BY DEF MicroInv, Wired, MicroTypeOK, Waiting
  <2>2. toGuest # <<>>
    BY <2>1 DEF MicroInv, Lined, MicroTypeOK
  <2> QED
    BY <2>1, <2>2
<1> QED
  BY <1>1, InvCorrect, PTL

-----------------------------------------------------------------------------
(* The promise of VmLife.  Resetting says that a clean guest is empty, so    *)
(* what is left to show of a step is what it does to the object's life.      *)

GuestLoaded == LifeOf = "running" /\ stream = "open" /\ ~LeftEmpty

\* A reset was carried out and its answer is in the stream.
ResetAnswered == There /\ \E i \in 1 .. Len(toHost) : toHost[i].answer.is = "reset"

\* The host's view: not used since it was handed over or reset.
CleanNow == clean /\ Usable

(* A clean guest has no program for the next command.                        *)
LEMMA CleanIsUnloaded ==
  ASSUME MicroInv, CleanNow
  PROVE  ~GuestLoaded
BY DEF MicroInv, MicroTypeOK, Wired, Resetting, LeftEmpty, Last, GuestLoaded, CleanNow

(* While the object is there and is not reset, it is used; before and after  *)
(* it is no one's.                                                           *)
LEMMA SameLife ==
  ASSUME MicroInv, MicroInv', LifeOf' = LifeOf, CleanNow' => CleanNow,
         ResetAnswered' => ResetAnswered
  PROVE  [Life!LifeNext]_(Life!lifeVars)
<1>1. CleanNow' => ~GuestLoaded'
  BY DEF MicroInv, MicroTypeOK, Wired, Resetting, LeftEmpty, Last, GuestLoaded, CleanNow
<1>2. CASE There /\ CleanNow'
  <2>1. ~GuestLoaded /\ ~GuestLoaded' /\ CleanNow
    BY <1>1, <1>2, CleanIsUnloaded
  <2>2. CASE ResetAnswered'
    BY <1>2, <2>1, <2>2 DEF Life!lifeVars, GuestLoaded, ResetAnswered, CleanNow
  <2>3. CASE ~ResetAnswered'
    <3>1. Life!Lost
      BY <1>2, <2>1, <2>3 DEF Life!Lost, GuestLoaded, ResetAnswered, CleanNow
    <3> QED
      BY <3>1 DEF Life!LifeNext
  <2> QED
    BY <2>2, <2>3
<1>3. CASE There /\ ~CleanNow'
  <2>1. GuestLoaded' \in BOOLEAN /\ (GuestLoaded' => LifeOf = "running")
    BY DEF GuestLoaded
  <2>2. Life!Use
    BY <1>3, <2>1
    DEF Life!Use, Life!Held, GuestLoaded, ResetAnswered, CleanNow, There
  <2> QED
    BY <2>2 DEF Life!LifeNext
<1>4. CASE ~There
  <2>1. ~Usable /\ ~Usable' /\ ~There'
    BY <1>4 DEF There, LifeOf
  <2> QED
    BY <1>4, <2>1 DEF Life!lifeVars, There
<1> QED
  BY <1>2, <1>3, <1>4

(* A turn of the agent carries out a command, which may be a reset. *)
LEMMA TurnIsLife ==
  ASSUME MicroInv, MicroInv', AgentTurn
  PROVE  [Life!LifeNext]_(Life!lifeVars)
<1>1. /\ UNCHANGED <<state, process, clean>> /\ agent = "up" /\ process = "running"
      /\ toHost \in Seq([to : Command, answer : Answer])
      /\ \E a : toHost' = Append(toHost, a)
  BY DEF AgentTurn, Respond, hostVars, history, MicroInv, MicroTypeOK, Wired
<1>2. LifeOf' = LifeOf /\ There' = There /\ CleanNow' = CleanNow
  BY <1>1 DEF LifeOf, There, CleanNow, Usable
<1>3. ResetAnswered => ResetAnswered'
  BY <1>1, <1>2 DEF ResetAnswered
<1>4. CASE ResetAnswered' <=> ResetAnswered
  BY <1>2, <1>4, SameLife
<1>5. CASE ResetAnswered' /\ ~ResetAnswered
  <2>1. LifeOf = "running"
    BY <1>1, <1>2, <1>5 DEF ResetAnswered, There, LifeOf
  <2>2. CleanNow' => ~GuestLoaded'
    BY DEF MicroInv, MicroTypeOK, Wired, Resetting, LeftEmpty, Last, GuestLoaded, CleanNow
  <2>3. GuestLoaded' \in BOOLEAN
    BY DEF GuestLoaded
  <2>4. Life!Answer
    BY <1>2, <1>5, <2>1, <2>2, <2>3 DEF Life!Answer, GuestLoaded, ResetAnswered, CleanNow
  <2> QED
    BY <2>4 DEF Life!LifeNext
<1> QED
  BY <1>3, <1>4, <1>5

(* A call takes the next response: only that to a reset makes a VM clean. *)
LEMMA ReturnIsLife ==
  ASSUME MicroInv, MicroInv', Return
  PROVE  [Life!LifeNext]_(Life!lifeVars)
<1>1. /\ UNCHANGED <<state, process>> /\ Usable /\ toHost # <<>>
      /\ toHost' = Tail(toHost)
      /\ clean' => Head(toHost).answer.is = "reset"
      /\ toHost \in Seq([to : Command, answer : Answer])
  BY DEF Return, MicroInv, MicroTypeOK
<1>2. LifeOf' = LifeOf /\ There /\ There' /\ Usable'
  BY <1>1 DEF LifeOf, There, Usable
<1>3. ResetAnswered' => ResetAnswered
  <2> SUFFICES ASSUME NEW i \in 1 .. Len(toHost'), toHost'[i].answer.is = "reset"
               PROVE  ResetAnswered
    BY DEF ResetAnswered
  <2>1. i + 1 \in 1 .. Len(toHost) /\ toHost[i + 1] = toHost'[i]
    BY <1>1
  <2> QED
    BY <1>2, <2>1 DEF ResetAnswered
<1>4. CASE clean'
  <2>1. ResetAnswered
    BY <1>1, <1>2, <1>4 DEF ResetAnswered
  <2>2. ~GuestLoaded' /\ CleanNow'
    BY <1>2, <1>4
    DEF MicroInv, MicroTypeOK, Wired, Resetting, LeftEmpty, Last, GuestLoaded, CleanNow
  <2>3. Life!Report
    BY <1>2, <2>1, <2>2
    DEF Life!Report, Life!Held, GuestLoaded, ResetAnswered, CleanNow, There
  <2> QED
    BY <2>3 DEF Life!LifeNext
<1>5. CASE ~clean'
  BY <1>2, <1>3, <1>5, SameLife DEF CleanNow
<1> QED
  BY <1>4, <1>5

(* create hands the object over, or gives it up. *)
LEMMA ConnectedIsLife ==
  ASSUME MicroInv, MicroInv', Connected
  PROVE  [Life!LifeNext]_(Life!lifeVars)
<1>1. state = "starting"
  BY DEF Connected, Connecting
<1>2. CASE state' = "running"
  <2>1. /\ UNCHANGED <<process, agent, clean>>
        /\ clean /\ toHost # <<>> /\ toHost' = Tail(toHost)
    BY <1>1, <1>2 DEF Connected, NextAttempt, End, history, MicroInv, Fresh
  <2>2. LifeOf = "none" /\ LifeOf' \in {"running", "crashed"} /\ ~Usable /\ Usable'
    BY <1>1, <1>2 DEF LifeOf, Usable
  <2>5. toHost' = <<>>
    BY <1>1, <2>1 DEF MicroInv, MicroTypeOK, Fresh
  <2>6. ~ResetAnswered /\ ~ResetAnswered'
    BY <2>2, <2>5 DEF ResetAnswered, There
  <2>3. clean' /\ ~GuestLoaded'
    BY <2>1, <2>2 DEF MicroInv, MicroTypeOK, Wired, Resetting, LeftEmpty, Last, GuestLoaded
  <2>4. Life!Boot
    BY <2>2, <2>3, <2>6 DEF Life!Boot, GuestLoaded, ResetAnswered
  <2> QED
    BY <2>4 DEF Life!LifeNext
<1>3. CASE state' # "running"
  <2>1. state' \in {"starting", "failed"}
    BY <1>1, <1>3 DEF Connected, NextAttempt, End
  <2> QED
    BY <1>1, <2>1, SameLife DEF LifeOf, Usable, There, CleanNow, ResetAnswered
<1> QED
  BY <1>2, <1>3

(* The object is gone: one that was never handed over has not been there. *)
LEMMA EndIsLife ==
  ASSUME MicroInv, MicroInv', NEW final, End(final),
         \/ state = "starting" /\ final = "failed"
         \/ (Usable \/ state = "stopping") /\ final \in {"stopped", "dropped"}
  PROVE  [Life!LifeNext]_(Life!lifeVars)
<1>1. state' = final
  BY DEF End
<1>2. CASE state = "starting" /\ final = "failed"
  BY <1>1, <1>2, SameLife DEF LifeOf, Usable, There, CleanNow, ResetAnswered
<1>3. CASE (Usable \/ state = "stopping") /\ final \in {"stopped", "dropped"}
  <2>1. There /\ LifeOf' = "gone" /\ ~There' /\ ~Usable' /\ ~GuestLoaded'
    BY <1>1, <1>3 DEF LifeOf, There, Usable, GuestLoaded
  <2>2. Life!Stop
    BY <2>1 DEF Life!Stop, Life!Held, There, GuestLoaded
  <2> QED
    BY <2>2 DEF Life!LifeNext
<1> QED
  BY <1>2, <1>3

(* Firecracker dies, in an owner's hands or before. *)
LEMMA ExitIsLife ==
  ASSUME MicroInv, MicroInv', ProcessExits
  PROVE  [Life!LifeNext]_(Life!lifeVars)
<1>1. /\ process = "running" /\ process' = "exited" /\ agent' = "gone"
      /\ UNCHANGED <<state, clean>>
      /\ \E n \in 0 .. Len(toHost) : toHost' = SubSeq(toHost, 1, n)
  BY DEF ProcessExits, Cut, hostVars, history
<1>4. ResetAnswered' => ResetAnswered
  <2>1. PICK n \in 0 .. Len(toHost) : toHost' = SubSeq(toHost, 1, n)
    BY <1>1
  <2>2. toHost \in Seq([to : Command, answer : Answer])
    BY DEF MicroInv, MicroTypeOK
  <2>3. Len(toHost') = n /\ \A i \in 1 .. n : toHost'[i] = toHost[i]
    BY <2>1, <2>2
  <2>4. There' => There
    BY <1>1 DEF There, LifeOf, Usable
  <2> QED
    BY <2>2, <2>3, <2>4 DEF ResetAnswered
<1>2. CASE Usable \/ state = "stopping"
  <2>1. LifeOf = "running" /\ LifeOf' = "crashed" /\ ~GuestLoaded'
    BY <1>1, <1>2 DEF LifeOf, Usable, GuestLoaded
  <2>2. (clean /\ Usable)' = (clean /\ Usable)
    BY <1>1 DEF Usable
  <2>3. Life!Crash
    BY <1>4, <2>1, <2>2 DEF Life!Crash, GuestLoaded, ResetAnswered
  <2> QED
    BY <2>3 DEF Life!LifeNext
<1>3. CASE ~(Usable \/ state = "stopping")
  BY <1>1, <1>3, SameLife DEF LifeOf, Usable, There, CleanNow, ResetAnswered
<1> QED
  BY <1>2, <1>3

(* The connection breaks, and an answer to a reset may be lost with it. *)
LEMMA BreakIsLife ==
  ASSUME MicroInv, MicroInv', ConnectionBreaks
  PROVE  [Life!LifeNext]_(Life!lifeVars)
<1>1. UNCHANGED <<state, process, clean>>
  BY DEF ConnectionBreaks, Cut, hostVars, history
<1>2. LifeOf' = LifeOf /\ There' = There /\ CleanNow' = CleanNow
  BY <1>1 DEF LifeOf, There, CleanNow, Usable
<1>3. ResetAnswered' => ResetAnswered
  <2>1. PICK n \in 0 .. Len(toHost) : toHost' = SubSeq(toHost, 1, n)
    BY DEF ConnectionBreaks, Cut
  <2>2. toHost \in Seq([to : Command, answer : Answer])
    BY DEF MicroInv, MicroTypeOK
  <2>3. Len(toHost') = n /\ \A i \in 1 .. n : toHost'[i] = toHost[i]
    BY <2>1, <2>2
  <2> QED
    BY <1>2, <2>2, <2>3 DEF ResetAnswered
<1> QED
  BY <1>2, <1>3, SameLife

(* A MicroVm keeps the promise of VmLife, over a stream on which commands    *)
(* and responses carry no number and calls are given up: it comes up once    *)
(* and empty, it is reported reset only after the guest carried a reset out, *)
(* and no program is then in it until it is used again.                      *)
THEOREM PromiseIsKept == MicroSpec => KeepsPromise
<1>1. MicroInit => Life!LifeInit
  BY DEF MicroInit, Life!LifeInit, LifeOf, There, Usable
<1>2. MicroInv /\ MicroInv' /\ [MicroNext]_microVars => [Life!LifeNext]_(Life!lifeVars)
  <2> SUFFICES ASSUME MicroInv, MicroInv', [MicroNext]_microVars
               PROVE  [Life!LifeNext]_(Life!lifeVars)
    OBVIOUS
  <2>1. CASE \/ Spawn \/ (\E cmd \in Command : Invoke(cmd))
             \/ CallBreaks \/ Abandon \/ CheckHealth \/ ShutdownBegin
             \/ AgentStarts \/ UNCHANGED microVars
    <3>1. LifeOf' = LifeOf /\ (CleanNow' => CleanNow) /\ toHost' = toHost
      BY <2>1
      DEF Spawn, Invoke, Send, CallBreaks, Abandon, CheckHealth, ShutdownBegin, AgentStarts,
          microVars, hostVars, wire, history, LifeOf, Usable, CleanNow
    <3>2. ResetAnswered' <=> ResetAnswered
      BY <3>1 DEF ResetAnswered, There
    <3> QED
      BY <3>1, <3>2, SameLife
  <2>4. CASE ShutdownAnswered
    <3>1. /\ LifeOf' = LifeOf /\ ~CleanNow' /\ toHost' \in {toHost, Tail(toHost)}
          /\ toHost # <<>> \/ toHost' = toHost
          /\ toHost \in Seq([to : Command, answer : Answer])
      BY <2>4
      DEF ShutdownAnswered, hostVars, history, LifeOf, Usable, CleanNow, MicroInv, MicroTypeOK
    <3>2. ResetAnswered' => ResetAnswered
      <4> SUFFICES ASSUME toHost # <<>>, toHost' = Tail(toHost),
                          NEW i \in 1 .. Len(toHost'), toHost'[i].answer.is = "reset"
                   PROVE  \E j \in 1 .. Len(toHost) : toHost[j].answer.is = "reset"
        BY <3>1 DEF ResetAnswered, There
      <4>1. i + 1 \in 1 .. Len(toHost) /\ toHost[i + 1] = toHost'[i]
        BY <3>1
      <4> QED
        BY <4>1
    <3> QED
      BY <3>1, <3>2, SameLife
  <2>2. CASE Boot \/ Connect \/ PingBreaks
    <3>1. state = "starting" /\ state' \in {"starting", "failed"}
      BY <2>2 DEF Boot, Connect, PingBreaks, Connecting, NextAttempt, End, hostVars
    <3> QED
      BY <3>1, SameLife DEF LifeOf, Usable, There, CleanNow, ResetAnswered
  <2>3. CASE Halt \/ Drop
    BY <2>3, EndIsLife DEF Halt, Drop
  <2> QED
    BY <2>1, <2>2, <2>3, <2>4, ConnectedIsLife, BreakIsLife, ExitIsLife, TurnIsLife,
       ReturnIsLife
    DEF MicroNext, HostStep, OwnerStep
<1> QED
  BY <1>1, <1>2, InvCorrect, PTL DEF MicroSpec, KeepsPromise, Life!LifeSpec

(* What the promise is good for: a VM that is clean is there and is empty.   *)
(* With PromiseIsKept this is ResetIsClean once more, by way of VmLife.      *)
THEOREM PromiseSuffices == KeepsPromise => []Life!CleanIsEmpty
<1>1. Life!LifeInit => Life!CleanIsEmpty
  BY DEF Life!LifeInit, Life!CleanIsEmpty
<1>2. Life!CleanIsEmpty /\ [Life!LifeNext]_(Life!lifeVars) => Life!CleanIsEmpty'
  BY DEF Life!CleanIsEmpty, Life!LifeNext, Life!lifeVars, Life!Boot, Life!Use, Life!Answer,
         Life!Report, Life!Lost, Life!Reset,
         Life!Crash, Life!Stop, Life!Held
<1> QED
  BY <1>1, <1>2, PTL DEF KeepsPromise, Life!LifeSpec

=============================================================================
