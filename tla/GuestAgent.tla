------------------------------ MODULE GuestAgent ------------------------------
(***************************************************************************)
(* The agent in a MicroVM (ebpf-assist-agent): its program table and what  *)
(* it answers to each command.  As in Loader, a table entry owns aya's     *)
(* object, so the guest kernel's side of a program lives in the entry: fd  *)
(* once load() has succeeded, hook the target it is really hooked to.      *)
(* point is the target the agent believes it is attached to.               *)
(*                                                                         *)
(* The agent handles one command at a time, so each is one action.         *)
(* UnloadAll, which the host never sends, is left out.                     *)
(***************************************************************************)
EXTENDS Integers

CONSTANTS
  Targets,   \* attach targets
  NoTarget,  \* not attached, not hooked
  NoEntry,   \* an id with no table entry
  MaxLoads   \* bound: programs the agent can load (2^32 - 1 in the code)

ASSUME AgentAssumption == MaxLoads \in Nat /\ NoTarget \notin Targets

VARIABLES
  guest,   \* ProgramLoader.programs
  nextId   \* ProgramLoader.next_id

agentVars == <<guest, nextId>>

GuestIds == 1 .. MaxLoads

\* What detect_program makes of an object: a program attach has an arm for,
\* one it has none for, or nothing it knows.
Kind == {"probe", "other"}
ObjectKind == Kind \cup {"unsupported"}

Entry == [kind : Kind, fd : BOOLEAN, point : Targets \cup {NoTarget},
          hook : Targets \cup {NoTarget}]

ASSUME NoEntryAssumption == NoEntry \notin Entry

Command ==
  [op : {"load"}, kind : ObjectKind]
    \cup [op : {"attach"}, id : GuestIds, target : Targets]
    \cup [op : {"detach", "unload"}, id : GuestIds]
    \cup [op : {"ping", "inspect", "reset", "shutdown"}]

\* Only Loaded carries an id.
Answer ==
  [is : {"loaded"}, id : GuestIds]
    \cup [is : {"unloaded", "attached", "detached", "pong", "inspected", "reset",
                "shutting_down", "error"}, id : {0}]

Says(answer) == [is |-> answer, id |-> 0]

AgentInit ==
  /\ guest = [id \in GuestIds |-> NoEntry]
  /\ nextId = 1

-----------------------------------------------------------------------------

(***************************************************************************)
(* The object may be refused; a loaded one is not put into the kernel yet. *)
(***************************************************************************)
AgentLoad(cmd, answer) ==
  /\ cmd.op = "load"
  /\ \/ answer = Says("error") /\ UNCHANGED agentVars
     \/ /\ cmd.kind \in Kind
        /\ nextId \in GuestIds
        /\ answer = [is |-> "loaded", id |-> nextId]
        /\ guest' = [guest EXCEPT ![nextId] =
                       [kind |-> cmd.kind, fd |-> FALSE,
                        point |-> NoTarget, hook |-> NoTarget]]
        /\ nextId' = nextId + 1

\* Mutant: attached before the kernel has answered.
AttachPointFirst(cmd, answer) ==
  /\ cmd.op = "attach"
  /\ guest[cmd.id] # NoEntry
  /\ answer = Says("error")
  /\ guest' = [guest EXCEPT ![cmd.id].fd = TRUE, ![cmd.id].point = cmd.target]
  /\ UNCHANGED nextId

(***************************************************************************)
(* A program that is attached already is left as it is and reported as     *)
(* attached.  load() refuses a program that is in the kernel, as it is     *)
(* after a detach and after an attach that failed in the second call.      *)
(***************************************************************************)
AgentAttach(cmd, answer) ==
  /\ cmd.op = "attach"
  /\ \/ /\ guest[cmd.id] = NoEntry
        /\ answer = Says("error")
        /\ UNCHANGED guest
     \/ /\ guest[cmd.id] # NoEntry
        /\ guest[cmd.id].point # NoTarget
        /\ answer = Says("attached")
        /\ UNCHANGED guest
     \/ /\ guest[cmd.id] # NoEntry
        /\ guest[cmd.id].point = NoTarget
        /\ answer = Says("error")
        /\ \/ UNCHANGED guest
           \/ /\ guest[cmd.id].kind = "probe"
              /\ guest' = [guest EXCEPT ![cmd.id].fd = TRUE]
     \/ /\ guest[cmd.id] # NoEntry
        /\ guest[cmd.id].point = NoTarget
        /\ guest[cmd.id].kind = "probe"
        /\ ~guest[cmd.id].fd
        /\ answer = Says("attached")
        /\ guest' = [guest EXCEPT ![cmd.id].fd = TRUE, ![cmd.id].point = cmd.target,
                                  ![cmd.id].hook = cmd.target]
  /\ UNCHANGED nextId

\* Only the mark is removed, and it need not be there.
AgentDetach(cmd, answer) ==
  /\ cmd.op = "detach"
  /\ \/ guest[cmd.id] = NoEntry /\ answer = Says("error") /\ UNCHANGED guest
     \/ /\ guest[cmd.id] # NoEntry
        /\ answer = Says("detached")
        /\ guest' = [guest EXCEPT ![cmd.id].point = NoTarget]
  /\ UNCHANGED nextId

AgentUnload(cmd, answer) ==
  /\ cmd.op = "unload"
  /\ \/ guest[cmd.id] = NoEntry /\ answer = Says("error") /\ UNCHANGED guest
     \/ /\ guest[cmd.id] # NoEntry
        /\ answer = Says("unloaded")
        /\ guest' = [guest EXCEPT ![cmd.id] = NoEntry]
  /\ UNCHANGED nextId

\* Mutant: only the trace buffer is cleared.
ResetKeepsPrograms(cmd, answer) ==
  /\ cmd.op = "reset"
  /\ answer = Says("reset")
  /\ UNCHANGED agentVars

\* The ids go on where they were.
AgentReset(cmd, answer) ==
  /\ cmd.op = "reset"
  /\ answer = Says("reset")
  /\ guest' = [id \in GuestIds |-> NoEntry]
  /\ UNCHANGED nextId

(***************************************************************************)
(* Ping, Status, List, ReadTrace, Trigger and the map commands change no   *)
(* program (the agent's map writes are stubs); Shutdown is only answered.  *)
(***************************************************************************)
AgentReads(cmd, answer) ==
  /\ \/ cmd.op = "ping" /\ answer = Says("pong")
     \/ cmd.op = "inspect" /\ answer \in {Says("inspected"), Says("error")}
     \/ cmd.op = "shutdown" /\ answer = Says("shutting_down")
  /\ UNCHANGED agentVars

Handle(cmd, answer) ==
  \/ AgentLoad(cmd, answer) \/ AgentAttach(cmd, answer) \/ AgentDetach(cmd, answer)
  \/ AgentUnload(cmd, answer) \/ AgentReset(cmd, answer) \/ AgentReads(cmd, answer)

-----------------------------------------------------------------------------

AgentTypeOK ==
  /\ guest \in [GuestIds -> Entry \cup {NoEntry}]
  /\ nextId \in 1 .. (MaxLoads + 1)

Loaded == {id \in GuestIds : guest[id] # NoEntry}

(***************************************************************************)
(* What the agent lists as attached is hooked to that very target, and     *)
(* what is hooked is in the guest's kernel, wherever an attach failed.     *)
(***************************************************************************)
PointIsHook ==
  \A id \in Loaded :
    /\ guest[id].point # NoTarget => guest[id].hook = guest[id].point
    /\ guest[id].hook # NoTarget => guest[id].fd

=============================================================================
