------------------------------- MODULE VmLife --------------------------------
(***************************************************************************)
(* What one VM promises to the manager that owns it, and what the manager  *)
(* takes for granted: it comes up once, with an empty guest; it may crash  *)
(* and does not come back; a reset counts only when the guest has carried  *)
(* one out and answered, so never that of a VM that crashed before; and    *)
(* from then on no program is in the guest until the VM is used again.     *)
(* MicroVm keeps this promise over its stream, and the manager of VmPool   *)
(* takes no VM for clean but by it.                                        *)
(***************************************************************************)
VARIABLES
  life,      \* whether it is there, and runs
  clean,     \* not used since it came up or since a reset was reported complete
  answered,  \* a reset was carried out, and its answer is under way
  loaded     \* the next command would find a program in the guest

lifeVars == <<life, clean, answered, loaded>>

Life == {"none", "running", "crashed", "gone"}

Held == life \in {"running", "crashed"}

LifeInit ==
  /\ life = "none"
  /\ clean = FALSE
  /\ answered = FALSE
  /\ loaded = FALSE

\* The process may have died by the time create returns.
Boot ==
  /\ life = "none"
  /\ life' \in {"running", "crashed"}
  /\ clean' = TRUE
  /\ loaded' = FALSE
  /\ UNCHANGED answered

\* A call is made, or what was called takes effect.  An answer may be taken
\* for another call's, or be lost.
Use ==
  /\ Held
  /\ clean' = FALSE
  /\ loaded' \in BOOLEAN
  /\ loaded' => life = "running"
  /\ answered' => answered
  /\ UNCHANGED life

\* The guest carries out a reset.
Answer ==
  /\ life = "running"
  /\ answered' = TRUE
  /\ loaded' \in BOOLEAN
  /\ loaded' => ~clean
  /\ UNCHANGED <<life, clean>>

\* The reset is reported complete.  The VM may have crashed meanwhile.
Report ==
  /\ Held
  /\ answered
  /\ clean' = TRUE
  /\ answered' \in BOOLEAN
  /\ loaded' = FALSE
  /\ UNCHANGED life

\* The answer is lost on its way.
Lost == answered' = FALSE /\ UNCHANGED <<life, clean, loaded>>

\* Both at once, for who does not see the stream.
Reset ==
  /\ life = "running"
  /\ clean' = TRUE
  /\ loaded' = FALSE
  /\ UNCHANGED <<life, answered>>

Crash ==
  /\ life = "running"
  /\ life' = "crashed"
  /\ answered' => answered
  /\ loaded' = FALSE
  /\ UNCHANGED clean

Stop ==
  /\ Held
  /\ life' = "gone"
  /\ clean' = FALSE
  /\ answered' = FALSE
  /\ loaded' = FALSE

LifeNext == Boot \/ Use \/ Answer \/ Report \/ Lost \/ Reset \/ Crash \/ Stop

LifeSpec == LifeInit /\ [][LifeNext]_lifeVars

(***************************************************************************)
(* What the warm pool needs of a VM it hands out.                          *)
(***************************************************************************)
CleanIsEmpty == clean => ~loaded /\ Held

=============================================================================
