-------------------------------- MODULE Auth --------------------------------
(***************************************************************************)
(* The daemon's AuthManager (ebpf-assistd/src/auth.rs): its cache of       *)
(* polkit's decisions, and what a check, an interactive request and a      *)
(* clear do to it.  The manager asks polkit over D-Bus in the middle of a  *)
(* check, so a check is a hit, or a question (a miss) and the answer that  *)
(* is cached; Daemon says what can happen in between.                      *)
(*                                                                         *)
(* Every entry is under the daemon's own uid, since client_uid is never    *)
(* set, so the key is the action.  An entry past its expiry is not told    *)
(* from a missing one by any operation: Expire removes it.                 *)
(***************************************************************************)

VARIABLE cache

Action == {"manage", "load", "attach"}

Decision == {"authorized", "not_authorized", "challenge"}

\* What asking polkit may return: a decision, or an error of the D-Bus call.
Answer == Decision \cup {"error"}

\* The interactive query turns every refusal into NotAuthorized.
InteractiveAnswer == {"authorized", "not_authorized", "error"}

AuthTypeOK == cache \in [Action -> Decision \cup {"none"}]

AuthInit == cache = [a \in Action |-> "none"]

CacheHit(action) == cache[action] # "none"

(***************************************************************************)
(* check_authorization after a miss: every decision is cached, also a      *)
(* refusal and a challenge; an error is not.                               *)
(***************************************************************************)
CacheAnswer(action, answer) ==
  cache' = IF answer \in Decision THEN [cache EXCEPT ![action] = answer] ELSE cache

\* Mutant: whatever comes back is cached.
CacheAnyGrant(action, answer) == cache' = [cache EXCEPT ![action] = answer]

(***************************************************************************)
(* request_authorization, called by Unlock with MANAGE: only a grant is    *)
(* cached, and only under the action that was asked for.                   *)
(***************************************************************************)
CacheGrant(action, answer) ==
  cache' = IF answer = "authorized" THEN [cache EXCEPT ![action] = answer] ELSE cache

ClearCache == cache' = [a \in Action |-> "none"]

Expire(action) ==
  /\ CacheHit(action)
  /\ cache' = [cache EXCEPT ![action] = "none"]

=============================================================================
