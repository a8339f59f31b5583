----------------------------- MODULE RemoteCall -----------------------------
(***************************************************************************)
(* What a client of the daemon is promised of a call that changes          *)
(* something: it takes effect at most once, only on behalf of a call that  *)
(* was made, and an answer says whether it did.  A call may be cut off     *)
(* when the serving process dies; then it takes no effect any more, and    *)
(* the client is told that there is no answer, which leaves open whether   *)
(* it had taken effect before.  A client that dies leaves a call that may  *)
(* still take effect, with nobody to tell.                                 *)
(***************************************************************************)
CONSTANT Clients

VARIABLES
  phase,  \* where each client's call is
  done,   \* whether the pending call took effect
  cut,    \* clients whose pending call was cut off
  told    \* what the client's process has told its caller

callVars == <<phase, done, cut, told>>

Phase == {"ready", "pending", "abandoned"}

Telling == {"nothing", "success", "failure", "lost", "killed"}

CallInit ==
  /\ phase = [c \in Clients |-> "ready"]
  /\ done = [c \in Clients |-> FALSE]
  /\ cut = {}
  /\ told = [c \in Clients |-> "nothing"]

Begin(c) ==
  /\ phase[c] = "ready"
  /\ phase' = [phase EXCEPT ![c] = "pending"]
  /\ told' = [told EXCEPT ![c] = "nothing"]
  /\ UNCHANGED <<done, cut>>

Do(c) ==
  /\ phase[c] = "pending"
  /\ ~done[c]
  /\ c \notin cut
  /\ done' = [done EXCEPT ![c] = TRUE]
  /\ UNCHANGED <<phase, cut, told>>

\* An abandoned call takes effect, or is refused.
Settle(c) ==
  /\ phase[c] = "abandoned"
  /\ phase' = [phase EXCEPT ![c] = "ready"]
  /\ UNCHANGED <<done, cut, told>>

Answer(c) ==
  /\ phase[c] = "pending"
  /\ c \notin cut
  /\ phase' = [phase EXCEPT ![c] = "ready"]
  /\ told' = [told EXCEPT ![c] = IF done[c] THEN "success" ELSE "failure"]
  /\ done' = [done EXCEPT ![c] = FALSE]
  /\ UNCHANGED cut

\* The client finds that there will be no answer.
Lose(c) ==
  /\ phase[c] = "pending"
  /\ c \in cut
  /\ phase' = [phase EXCEPT ![c] = "ready"]
  /\ told' = [told EXCEPT ![c] = "lost"]
  /\ done' = [done EXCEPT ![c] = FALSE]
  /\ cut' = cut \ {c}

\* The client dies; a call that has taken effect is over.
Abandon(c) ==
  /\ phase[c] = "pending"
  /\ \E p \in {"ready", "abandoned"} :
       /\ done[c] => p = "ready"
       /\ phase' = [phase EXCEPT ![c] = p]
  /\ told' = [told EXCEPT ![c] = "killed"]
  /\ done' = [done EXCEPT ![c] = FALSE]
  /\ cut' = cut \ {c}

\* Whatever else the client does, it is not in a call.
Other(c) ==
  /\ phase[c] # "pending"
  /\ \E t \in Telling : told' = [told EXCEPT ![c] = t]
  /\ UNCHANGED <<phase, done, cut>>

\* A call whose answer is on its way is not cut off.
Crash ==
  /\ phase' = [c \in Clients |-> IF phase[c] = "abandoned" THEN "ready" ELSE phase[c]]
  /\ \E lost \in SUBSET {c \in Clients : phase[c] = "pending"} : cut' = cut \cup lost
  /\ UNCHANGED <<done, told>>

CallNext ==
  \/ Crash
  \/ \E c \in Clients :
       Begin(c) \/ Do(c) \/ Settle(c) \/ Answer(c) \/ Lose(c) \/ Abandon(c) \/ Other(c)

CallSpec == CallInit /\ [][CallNext]_callVars

=============================================================================
