-------------------------- MODULE ProgramLifecycle --------------------------
(***************************************************************************)
(* What the daemon promises a client about the programs it holds, whatever *)
(* the tables behind them: an id is given to one program at a time, the    *)
(* ids are given out one after the other before any of them is given       *)
(* again, and a program is absent, then idle, then hooked to the kernel.   *)
(* phase is one view of the programs: the client's view, from the flags in *)
(* the program list, or the kernel's view, from the links that exist.      *)
(***************************************************************************)
CONSTANT Ids

VARIABLES phase, issued

lifecycleVars == <<phase, issued>>

Phase == {"absent", "idle", "hooked"}

LifecycleInit ==
  /\ phase = [id \in Ids |-> "absent"]
  /\ issued = {}

(***************************************************************************)
(* An id that has not been issued yet, or any id once all have been.       *)
(***************************************************************************)
Issue(id) ==
  /\ id \notin issued \/ issued = Ids
  /\ phase' = [phase EXCEPT ![id] = "idle"]
  /\ issued' = issued \cup {id}

Hook(id) ==
  /\ phase[id] = "idle"
  /\ phase' = [phase EXCEPT ![id] = "hooked"]
  /\ UNCHANGED issued

Unhook(id) ==
  /\ phase[id] = "hooked"
  /\ phase' = [phase EXCEPT ![id] = "idle"]
  /\ UNCHANGED issued

Remove(id) ==
  /\ phase[id] # "absent"
  /\ phase' = [phase EXCEPT ![id] = "absent"]
  /\ UNCHANGED issued

\* The daemon starts over: nothing is left of the programs or of the ids.
StartOver ==
  /\ phase' = [id \in Ids |-> "absent"]
  /\ issued' = {}

LifecycleNext ==
  \/ StartOver
  \/ \E id \in Ids : Issue(id) \/ Hook(id) \/ Unhook(id) \/ Remove(id)

LifecycleSpec == LifecycleInit /\ [][LifecycleNext]_lifecycleVars

=============================================================================
