---------------------------- MODULE LoaderProofs ----------------------------
(***************************************************************************)
(* Proofs about Loader, for every set of object files and names and every  *)
(* id space of at least two ids.                                           *)
(*                                                                         *)
(* The inductive invariant adds to the type invariant what links NEXT_ID   *)
(* to the ids given out: they are an initial piece of 1, 2, ..., 0, and    *)
(* nextId is the one after it, until every id has been given out; and a    *)
(* table entry has an id that was given out.                               *)
(***************************************************************************)
EXTENDS Loader, TLAPS

CounterFollowsIssued ==
  \/ issued = Ids
  \/ nextId = 0 /\ issued = Ids \ {0}
  \/ nextId > 0 /\ issued = 1 .. (nextId - 1)

HeldIsIssued == \A id \in Ids : programs[id] # Vacant => id \in issued

LoaderInv ==
  /\ LoaderTypeOK
  /\ AttachedIsHooked
  /\ CounterFollowsIssued
  /\ HeldIsIssued

-----------------------------------------------------------------------------

(* NEXT_ID stays in its range, and an increment always changes it. *)
LEMMA IdAfterIsNext ==
  ASSUME NEW n \in Ids
  PROVE  /\ IdAfter(n) \in Ids
         /\ IdAfter(n) # n
         /\ IdAfter(n) = IF n = IdSpace - 1 THEN 0 ELSE n + 1
<1>1. IdSpace \in Nat /\ IdSpace > 1 /\ n \in 0 .. (IdSpace - 1)
  BY IdSpaceAssumption DEF Ids
<1>2. CASE n = IdSpace - 1
  <2>1. n + 1 = IdSpace
    BY <1>1, <1>2
  <2>2. IdSpace % IdSpace = 0
    BY <1>1, SMT
  <2> QED
    BY <1>1, <1>2, <2>1, <2>2 DEF IdAfter, Ids
<1>3. CASE n # IdSpace - 1
  <2>1. n + 1 \in Nat /\ n + 1 < IdSpace
    BY <1>1, <1>3
  <2>2. (n + 1) % IdSpace = n + 1
    BY <1>1, <2>1, SMT
  <2> QED
    BY <1>1, <1>3, <2>1, <2>2 DEF IdAfter, Ids
<1> QED
  BY <1>2, <1>3

(* A new entry is a program of its type, neither attached nor in the kernel. *)
LEMMA NewProgramType ==
  ASSUME NEW section
  PROVE  DefaultPolicy(DetectType(section)) # "deny" =>
           NewProgram(DetectType(section)) \in Program
BY DEF DefaultPolicy, DetectType, NewProgram, Program, ProgramType, DetectedDirectly

(* Until every id has been given out, the next one names no program. *)
LEMMA NextIsVacant ==
  LoaderInv /\ issued # Ids => nextId \notin issued /\ programs[nextId] = Vacant
BY DEF LoaderInv, LoaderTypeOK, CounterFollowsIssued, HeldIsIssued, Ids

-----------------------------------------------------------------------------

(* An empty table satisfies the invariant. *)
LEMMA InitEstablishes == LoaderInit => LoaderInv
BY IdSpaceAssumption
DEF LoaderInit, LoaderInv, LoaderTypeOK, AttachedIsHooked, CounterFollowsIssued,
    HeldIsIssued, Ids

(* Giving out the next id keeps the ids an initial piece. *)
LEMMA InsertPreserves ==
  ASSUME LoaderInv, NEW type, NewProgram(type) \in Program, Insert(type)
  PROVE  LoaderInv'
<1> DEFINE next == IdAfter(nextId)
<1>1. nextId \in Ids /\ issued \subseteq Ids
  BY DEF LoaderInv, LoaderTypeOK
<1>2. next \in Ids /\ next = IF nextId = IdSpace - 1 THEN 0 ELSE nextId + 1
  BY <1>1, IdAfterIsNext
<1>3. /\ programs' = [programs EXCEPT ![nextId] = NewProgram(type)]
      /\ nextId' = next
      /\ issued' = issued \cup {nextId}
  BY DEF Insert
<1>4. \A id \in Ids : programs'[id] = IF id = nextId THEN NewProgram(type) ELSE programs[id]
  BY <1>1, <1>3 DEF LoaderInv, LoaderTypeOK
<1>5. LoaderTypeOK'
  BY <1>1, <1>2, <1>3 DEF LoaderInv, LoaderTypeOK
<1>6. AttachedIsHooked'
  BY <1>4 DEF LoaderInv, AttachedIsHooked, NewProgram
<1>7. CounterFollowsIssued'
  <2>1. CASE issued = Ids
    BY <1>1, <1>3, <2>1 DEF CounterFollowsIssued
  <2>2. CASE nextId = 0 /\ issued = Ids \ {0}
    BY <1>1, <1>3, <2>2 DEF CounterFollowsIssued
  <2>3. CASE nextId > 0 /\ issued = 1 .. (nextId - 1)
    <3>1. issued' = 1 .. nextId
      BY <1>1, <1>3, <2>3 DEF Ids
    <3>2. CASE nextId = IdSpace - 1
      <4>1. issued' = Ids \ {0}
        BY <1>1, <3>1, <3>2, IdSpaceAssumption DEF Ids
      <4> QED
        BY <1>2, <1>3, <3>2, <4>1 DEF CounterFollowsIssued
    <3>3. CASE nextId # IdSpace - 1
      <4>1. next > 0 /\ next - 1 = nextId
        BY <1>1, <1>2, <2>3, <3>3, IdSpaceAssumption DEF Ids
      <4> QED
        BY <1>3, <3>1, <4>1 DEF CounterFollowsIssued
    <3> QED
      BY <3>2, <3>3
  <2> QED
    BY <2>1, <2>2, <2>3 DEF LoaderInv, CounterFollowsIssued
<1>8. HeldIsIssued'
  BY <1>3, <1>4 DEF LoaderInv, HeldIsIssued
<1> QED
  BY <1>5, <1>6, <1>7, <1>8 DEF LoaderInv

(* A load keeps the invariant, whatever comes of it. *)
LEMMA LoadPreserves ==
  ASSUME LoaderInv, NEW object, NEW name, NEW result, Load(object, name, result)
  PROVE  LoaderInv'
<1>1. CASE UNCHANGED loaderVars
  BY <1>1 DEF loaderVars, LoaderInv, LoaderTypeOK, AttachedIsHooked,
              CounterFollowsIssued, HeldIsIssued
<1>2. CASE ~ UNCHANGED loaderVars
  <2>1. PICK n \in DOMAIN object : /\ DefaultPolicy(DetectType(object[n])) # "deny"
                                   /\ Insert(DetectType(object[n]))
    BY <1>2 DEF Load
  <2> QED
    BY <2>1, NewProgramType, InsertPreserves
<1> QED
  BY <1>1, <1>2

(* What is left to show of an action that changes one entry and no counter. *)
LEMMA EntryPreserves ==
  ASSUME LoaderInv, UNCHANGED <<nextId, issued>>,
         NEW id \in Ids, programs[id] # Vacant,
         NEW entry \in Program \cup {Vacant},
         entry # Vacant => (entry.attached => entry.link) /\ (entry.link => entry.fd),
         programs' = [programs EXCEPT ![id] = entry]
  PROVE  LoaderInv'
<1>1. \A i \in Ids : programs'[i] = IF i = id THEN entry ELSE programs[i]
  BY DEF LoaderInv, LoaderTypeOK
<1>2. LoaderTypeOK'
  BY DEF LoaderInv, LoaderTypeOK
<1>3. AttachedIsHooked'
  BY <1>1 DEF LoaderInv, AttachedIsHooked
<1>4. CounterFollowsIssued' /\ HeldIsIssued'
  BY <1>1 DEF LoaderInv, CounterFollowsIssued, HeldIsIssued
<1> QED
  BY <1>2, <1>3, <1>4 DEF LoaderInv

(* A step that leaves the table alone keeps the invariant. *)
LEMMA StutterPreserves ==
  LoaderInv /\ UNCHANGED loaderVars => LoaderInv'
BY DEF loaderVars, LoaderInv, LoaderTypeOK, AttachedIsHooked, CounterFollowsIssued,
       HeldIsIssued

(* An attach keeps the invariant, wherever it fails. *)
LEMMA AttachPreserves ==
  ASSUME LoaderInv, NEW id \in Ids, NEW result, Attach(id, result)
  PROVE  LoaderInv'
<1>1. CASE UNCHANGED programs
  BY <1>1, StutterPreserves DEF Attach, loaderVars
<1>2. CASE ~ UNCHANGED programs
  <2>1. programs[id] # Vacant /\ Hooking(id, result) /\ UNCHANGED <<nextId, issued>>
    BY <1>2 DEF Attach
  <2>2. programs[id] \in Program
    BY <2>1 DEF LoaderInv, LoaderTypeOK
  <2>3. CASE programs' = [programs EXCEPT ![id].fd = TRUE]
    <3> DEFINE entry == [programs[id] EXCEPT !.fd = TRUE]
    <3>1. entry \in Program /\ (entry.attached => entry.link) /\ (entry.link => entry.fd)
      BY <2>1, <2>2 DEF Program, LoaderInv, AttachedIsHooked
    <3>2. programs' = [programs EXCEPT ![id] = entry]
      BY <2>3
    <3> QED
      BY <2>1, <3>1, <3>2, EntryPreserves
  <2>4. CASE programs' = [programs EXCEPT ![id].fd = TRUE, ![id].link = TRUE,
                                          ![id].attached = TRUE]
    <3> DEFINE entry == [programs[id] EXCEPT !.fd = TRUE, !.link = TRUE, !.attached = TRUE]
    <3>1. entry \in Program /\ (entry.attached => entry.link) /\ (entry.link => entry.fd)
      BY <2>2 DEF Program
    <3>2. programs' = [programs EXCEPT ![id] = entry]
      BY <2>4 DEF LoaderInv, LoaderTypeOK
    <3> QED
      BY <2>1, <3>1, <3>2, EntryPreserves
  <2> QED
    BY <1>2, <2>1, <2>3, <2>4 DEF Hooking
<1> QED
  BY <1>1, <1>2

(* A detach keeps the invariant. *)
LEMMA DetachPreserves ==
  ASSUME LoaderInv, NEW id \in Ids, NEW result, Detach(id, result)
  PROVE  LoaderInv'
<1>1. CASE UNCHANGED programs
  BY <1>1, StutterPreserves DEF Detach, loaderVars
<1>2. CASE ~ UNCHANGED programs
  <2> DEFINE entry == [programs[id] EXCEPT !.attached = FALSE]
  <2>1. /\ programs[id] # Vacant /\ UNCHANGED <<nextId, issued>>
        /\ programs' = [programs EXCEPT ![id] = entry]
    BY <1>2 DEF Detach
  <2>2. entry \in Program /\ ~entry.attached /\ (entry.link => entry.fd)
    BY <2>1 DEF Program, LoaderInv, LoaderTypeOK, AttachedIsHooked
  <2> QED
    BY <2>1, <2>2, EntryPreserves
<1> QED
  BY <1>1, <1>2

(* An unload keeps the invariant. *)
LEMMA UnloadPreserves ==
  ASSUME LoaderInv, NEW id \in Ids, NEW result, Unload(id, result)
  PROVE  LoaderInv'
<1>1. CASE UNCHANGED programs
  BY <1>1, StutterPreserves DEF Unload, loaderVars
<1>2. CASE ~ UNCHANGED programs
  BY <1>2, EntryPreserves DEF Unload
<1> QED
  BY <1>1, <1>2

(* A restart establishes the invariant again. *)
LEMMA RestartPreserves == LoaderRestart => LoaderInv'
BY IdSpaceAssumption
DEF LoaderRestart, LoaderInv, LoaderTypeOK, AttachedIsHooked, CounterFollowsIssued,
    HeldIsIssued, Ids

-----------------------------------------------------------------------------

(* Every operation, and a restart, preserves the invariant. *)
LEMMA LoaderStepPreserves ==
  ASSUME LoaderInv, [LoaderNext]_loaderVars
  PROVE  LoaderInv'
<1>1. CASE LoaderRestart
  BY <1>1, RestartPreserves
<1>2. ASSUME NEW object \in Objects, NEW name \in Names \cup {NoName},
             NEW result \in LoadResult, Load(object, name, result)
      PROVE  LoaderInv'
  BY <1>2, LoadPreserves
<1>3. ASSUME NEW id \in Ids, NEW result \in AttachResult, Attach(id, result)
      PROVE  LoaderInv'
  BY <1>3, AttachPreserves
<1>4. ASSUME NEW id \in Ids, NEW result \in DetachResult, Detach(id, result)
      PROVE  LoaderInv'
  BY <1>4, DetachPreserves
<1>5. ASSUME NEW id \in Ids, NEW result \in UnloadResult, Unload(id, result)
      PROVE  LoaderInv'
  BY <1>5, UnloadPreserves
<1>6. CASE UNCHANGED loaderVars
  BY <1>6, StutterPreserves
<1> QED
  BY <1>1, <1>2, <1>3, <1>4, <1>5, <1>6 DEF LoaderNext

(* The inductive invariant holds of every reachable state of the table. *)
THEOREM LoaderInvariant == LoaderSpec => []LoaderInv
<1>1. LoaderInv /\ [LoaderNext]_loaderVars => LoaderInv'
  BY LoaderStepPreserves
<1> QED
  BY <1>1, InitEstablishes, PTL DEF LoaderSpec

(* Type correctness of the program table and its counter (loader.rs). *)
THEOREM LoaderTypeCorrect == LoaderSpec => []LoaderTypeOK
<1>1. LoaderInv => LoaderTypeOK
  BY DEF LoaderInv
<1> QED
  BY <1>1, LoaderInvariant, PTL

(* A program that the list shows as attached is hooked into the kernel,    *)
(* however many attaches failed half way and detaches left a hook behind.  *)
THEOREM AttachedImpliesHooked == LoaderSpec => []AttachedIsHooked
<1>1. LoaderInv => AttachedIsHooked
  BY DEF LoaderInv
<1> QED
  BY <1>1, LoaderInvariant, PTL

(* No load drops a program that is in the table before 2^32 ids have been  *)
(* given out (for every number of ids, not only the width in the code).    *)
THEOREM LoadsKeepTheOthers == LoaderSpec => LoadKeepsTheOthers
<1> DEFINE Kept == nextId' = IdAfter(nextId) /\ issued # Ids /\ issued' # {} =>
             \A id \in Ids : programs[id] # Vacant => programs'[id] = programs[id]
<1>1. LoaderInv /\ [LoaderNext]_loaderVars => [Kept]_loaderVars
  <2> SUFFICES ASSUME LoaderInv, LoaderNext, issued # Ids, issued' # {},
                      nextId' = IdAfter(nextId)
               PROVE  \A id \in Ids : programs[id] # Vacant => programs'[id] = programs[id]
    OBVIOUS
  <2>1. nextId' # nextId
    BY IdAfterIsNext DEF LoaderInv, LoaderTypeOK
  <2>2. ~LoaderRestart
    BY DEF LoaderRestart
  <2>3. PICK object \in Objects, name \in Names \cup {NoName}, result \in LoadResult :
          Load(object, name, result)
    BY <2>1, <2>2 DEF LoaderNext, Attach, Detach, Unload
  <2>4. PICK n \in DOMAIN object : Insert(DetectType(object[n]))
    BY <2>1, <2>3 DEF Load, loaderVars
  <2>5. programs[nextId] = Vacant
    BY NextIsVacant
  <2> QED
    BY <2>4, <2>5 DEF Insert, LoaderInv, LoaderTypeOK
<1> QED
  BY <1>1, LoaderInvariant, PTL DEF LoaderSpec, LoadKeepsTheOthers

-----------------------------------------------------------------------------

(* The entry an operation writes, as the two views of the lifecycle see it. *)
LEMMA EntrySteps ==
  ASSUME LoaderInv, NEW id \in Ids, NEW entry,
         programs' = [programs EXCEPT ![id] = entry]
  PROVE  /\ ClientPhase' = [ClientPhase EXCEPT ![id] =
              IF entry = Vacant THEN "absent"
              ELSE IF entry.attached THEN "hooked" ELSE "idle"]
         /\ KernelPhase' = [KernelPhase EXCEPT ![id] =
              IF entry = Vacant THEN "absent"
              ELSE IF entry.link THEN "hooked" ELSE "idle"]
<1>1. \A i \in Ids : programs'[i] = IF i = id THEN entry ELSE programs[i]
  BY DEF LoaderInv, LoaderTypeOK
<1>2. ClientPhase' = [ClientPhase EXCEPT ![id] =
              IF entry = Vacant THEN "absent"
              ELSE IF entry.attached THEN "hooked" ELSE "idle"]
  BY <1>1 DEF ClientPhase
<1>3. KernelPhase' = [KernelPhase EXCEPT ![id] =
              IF entry = Vacant THEN "absent"
              ELSE IF entry.link THEN "hooked" ELSE "idle"]
  BY <1>1 DEF KernelPhase
<1> QED
  BY <1>2, <1>3

(* A load gives out an id of the lifecycle in both views. *)
LEMMA InsertIssues ==
  ASSUME LoaderInv, NEW section, Insert(DetectType(section)),
         DefaultPolicy(DetectType(section)) # "deny"
  PROVE  ClientView!Issue(nextId) /\ KernelView!Issue(nextId)
<1> DEFINE entry == NewProgram(DetectType(section))
<1>1. entry # Vacant /\ entry.attached = FALSE /\ entry.link = FALSE
  BY NewProgramType, VacantAssumption DEF NewProgram
<1>2. nextId \in Ids
  BY DEF LoaderInv, LoaderTypeOK
<1>3. /\ ClientPhase' = [ClientPhase EXCEPT ![nextId] = "idle"]
      /\ KernelPhase' = [KernelPhase EXCEPT ![nextId] = "idle"]
  BY <1>1, <1>2, EntrySteps DEF Insert
<1>4. nextId \notin issued \/ issued = Ids
  BY NextIsVacant
<1> QED
  BY <1>3, <1>4 DEF Insert, ClientView!Issue, KernelView!Issue

(* A step that changes the table's flags or links is a step of both views. *)
LEMMA AttachHooks ==
  ASSUME LoaderInv, NEW id \in Ids, NEW result, Attach(id, result)
  PROVE  /\ ClientView!Hook(id) \/ UNCHANGED <<ClientPhase, issued>>
         /\ KernelView!Hook(id) \/ UNCHANGED <<KernelPhase, issued>>
<1>1. UNCHANGED issued
  BY DEF Attach
<1>2. CASE UNCHANGED programs
  BY <1>1, <1>2 DEF ClientPhase, KernelPhase
<1>3. CASE ~ UNCHANGED programs
  <2>1. programs[id] # Vacant /\ ~programs[id].attached /\ Hooking(id, result)
    BY <1>3 DEF Attach
  <2>2. programs[id] \in Program
    BY <2>1 DEF LoaderInv, LoaderTypeOK
  <2>3. ~programs[id].fd /\ ~programs[id].link
    BY <1>3, <2>1, <2>2 DEF Hooking, LoaderInv, AttachedIsHooked, Program
  <2>4. ClientPhase[id] = "idle" /\ KernelPhase[id] = "idle"
    BY <2>1, <2>3 DEF ClientPhase, KernelPhase
  <2>5. CASE programs' = [programs EXCEPT ![id].fd = TRUE]
    <3> DEFINE entry == [programs[id] EXCEPT !.fd = TRUE]
    <3>1. /\ entry # Vacant /\ entry.attached = programs[id].attached
          /\ entry.link = programs[id].link
      BY <2>2, VacantAssumption DEF Program
    <3>2. programs' = [programs EXCEPT ![id] = entry]
      BY <2>5
    <3>3. /\ ClientPhase' = [ClientPhase EXCEPT ![id] = "idle"]
          /\ KernelPhase' = [KernelPhase EXCEPT ![id] = "idle"]
      BY <2>1, <2>3, <3>1, <3>2, EntrySteps
    <3>4. ClientPhase' = ClientPhase /\ KernelPhase' = KernelPhase
      BY <2>4, <3>3 DEF ClientPhase, KernelPhase
    <3> QED
      BY <1>1, <3>4
  <2>6. CASE programs' = [programs EXCEPT ![id].fd = TRUE, ![id].link = TRUE,
                                          ![id].attached = TRUE]
    <3> DEFINE entry == [programs[id] EXCEPT !.fd = TRUE, !.link = TRUE, !.attached = TRUE]
    <3>1. entry # Vacant /\ entry.attached = TRUE /\ entry.link = TRUE
      BY <2>2, VacantAssumption DEF Program
    <3>2. programs' = [programs EXCEPT ![id] = entry]
      BY <2>6 DEF LoaderInv, LoaderTypeOK
    <3>3. /\ ClientPhase' = [ClientPhase EXCEPT ![id] = "hooked"]
          /\ KernelPhase' = [KernelPhase EXCEPT ![id] = "hooked"]
      BY <3>1, <3>2, EntrySteps
    <3> QED
      BY <1>1, <2>4, <3>3 DEF ClientView!Hook, KernelView!Hook
  <2> QED
    BY <1>3, <2>1, <2>5, <2>6 DEF Hooking
<1> QED
  BY <1>2, <1>3

(* A detach is an unhooking for the client and nothing for the kernel. *)
LEMMA DetachUnhooks ==
  ASSUME LoaderInv, NEW id \in Ids, NEW result, Detach(id, result)
  PROVE  /\ ClientView!Unhook(id) \/ UNCHANGED <<ClientPhase, issued>>
         /\ UNCHANGED <<KernelPhase, issued>>
<1>1. UNCHANGED issued
  BY DEF Detach
<1>2. CASE UNCHANGED programs
  BY <1>1, <1>2 DEF ClientPhase, KernelPhase
<1>3. CASE ~ UNCHANGED programs
  <2> DEFINE entry == [programs[id] EXCEPT !.attached = FALSE]
  <2>1. /\ programs[id] # Vacant /\ programs[id].attached
        /\ programs' = [programs EXCEPT ![id] = entry]
    BY <1>3 DEF Detach
  <2>2. /\ entry # Vacant /\ entry.attached = FALSE
        /\ entry.link = programs[id].link /\ programs[id].link = TRUE
    BY <2>1, VacantAssumption DEF Program, LoaderInv, LoaderTypeOK, AttachedIsHooked
  <2>3. ClientPhase[id] = "hooked" /\ KernelPhase[id] = "hooked"
    BY <2>1, <2>2 DEF ClientPhase, KernelPhase
  <2>4. /\ ClientPhase' = [ClientPhase EXCEPT ![id] = "idle"]
        /\ KernelPhase' = [KernelPhase EXCEPT ![id] = "hooked"]
    BY <2>1, <2>2, EntrySteps
  <2>5. KernelPhase' = KernelPhase
    BY <2>3, <2>4 DEF KernelPhase
  <2> QED
    BY <1>1, <2>3, <2>4, <2>5 DEF ClientView!Unhook
<1> QED
  BY <1>2, <1>3

(* An unload is a removal in both views. *)
LEMMA UnloadRemoves ==
  ASSUME LoaderInv, NEW id \in Ids, NEW result, Unload(id, result)
  PROVE  /\ ClientView!Remove(id) \/ UNCHANGED <<ClientPhase, issued>>
         /\ KernelView!Remove(id) \/ UNCHANGED <<KernelPhase, issued>>
<1>1. UNCHANGED issued
  BY DEF Unload
<1>2. CASE UNCHANGED programs
  BY <1>1, <1>2 DEF ClientPhase, KernelPhase
<1>3. CASE ~ UNCHANGED programs
  <2>1. programs[id] # Vacant /\ programs' = [programs EXCEPT ![id] = Vacant]
    BY <1>3 DEF Unload
  <2>2. /\ ClientPhase' = [ClientPhase EXCEPT ![id] = "absent"]
        /\ KernelPhase' = [KernelPhase EXCEPT ![id] = "absent"]
    BY <2>1, EntrySteps
  <2>3. ClientPhase[id] # "absent" /\ KernelPhase[id] # "absent"
    BY <2>1 DEF ClientPhase, KernelPhase
  <2> QED
    BY <1>1, <2>2, <2>3 DEF ClientView!Remove, KernelView!Remove
<1> QED
  BY <1>2, <1>3

(* Every step of the table is a step of the lifecycle in both views. *)
LEMMA StepRefines ==
  ASSUME LoaderInv, [LoaderNext]_loaderVars
  PROVE  /\ [ClientView!LifecycleNext]_(ClientView!lifecycleVars)
         /\ [KernelView!LifecycleNext]_(KernelView!lifecycleVars)
<1> USE DEF ClientView!lifecycleVars, KernelView!lifecycleVars,
            ClientView!LifecycleNext, KernelView!LifecycleNext
<1>1. CASE UNCHANGED loaderVars
  BY <1>1 DEF loaderVars, ClientPhase, KernelPhase
<1>2. CASE LoaderRestart
  <2>1. /\ ClientPhase' = [id \in Ids |-> "absent"]
        /\ KernelPhase' = [id \in Ids |-> "absent"]
    BY <1>2 DEF LoaderRestart, ClientPhase, KernelPhase
  <2> QED
    BY <1>2, <2>1 DEF LoaderRestart, ClientView!StartOver, KernelView!StartOver
<1>3. ASSUME NEW object \in Objects, NEW name \in Names \cup {NoName},
             NEW result \in LoadResult, Load(object, name, result)
      PROVE  /\ [ClientView!LifecycleNext]_(ClientView!lifecycleVars)
             /\ [KernelView!LifecycleNext]_(KernelView!lifecycleVars)
  <2>1. CASE UNCHANGED loaderVars
    BY <1>1, <2>1
  <2>2. CASE ~ UNCHANGED loaderVars
    <3>1. PICK n \in DOMAIN object : /\ DefaultPolicy(DetectType(object[n])) # "deny"
                                     /\ Insert(DetectType(object[n]))
      BY <1>3, <2>2 DEF Load
    <3>2. ClientView!Issue(nextId) /\ KernelView!Issue(nextId) /\ nextId \in Ids
      BY <3>1, InsertIssues DEF LoaderInv, LoaderTypeOK
    <3> QED
      BY <3>2
  <2> QED
    BY <2>1, <2>2
<1>4. ASSUME NEW id \in Ids, NEW result \in AttachResult, Attach(id, result)
      PROVE  /\ [ClientView!LifecycleNext]_(ClientView!lifecycleVars)
             /\ [KernelView!LifecycleNext]_(KernelView!lifecycleVars)
  BY <1>4, AttachHooks
<1>5. ASSUME NEW id \in Ids, NEW result \in DetachResult, Detach(id, result)
      PROVE  /\ [ClientView!LifecycleNext]_(ClientView!lifecycleVars)
             /\ [KernelView!LifecycleNext]_(KernelView!lifecycleVars)
  BY <1>5, DetachUnhooks
<1>6. ASSUME NEW id \in Ids, NEW result \in UnloadResult, Unload(id, result)
      PROVE  /\ [ClientView!LifecycleNext]_(ClientView!lifecycleVars)
             /\ [KernelView!LifecycleNext]_(KernelView!lifecycleVars)
  BY <1>6, UnloadRemoves
<1> QED
  BY <1>1, <1>2, <1>3, <1>4, <1>5, <1>6 DEF LoaderNext

(* The program table implements the lifecycle a client is promised, as the *)
(* program list shows it.                                                  *)
THEOREM TableImplementsClientView == LoaderSpec => ClientLifecycle
<1>1. LoaderInit => ClientView!LifecycleInit
  BY DEF LoaderInit, ClientPhase, ClientView!LifecycleInit
<1>2. LoaderInv /\ [LoaderNext]_loaderVars
        => [ClientView!LifecycleNext]_(ClientView!lifecycleVars)
  BY StepRefines
<1> QED
  BY <1>1, <1>2, LoaderInvariant, PTL
  DEF LoaderSpec, ClientLifecycle, ClientView!LifecycleSpec

(* ... and as the kernel's links show it: an attach of a detached program, *)
(* whose link is still there, never makes a second one.                    *)
THEOREM TableImplementsKernelView == LoaderSpec => KernelLifecycle
<1>1. LoaderInit => KernelView!LifecycleInit
  BY DEF LoaderInit, KernelPhase, KernelView!LifecycleInit
<1>2. LoaderInv /\ [LoaderNext]_loaderVars
        => [KernelView!LifecycleNext]_(KernelView!lifecycleVars)
  BY StepRefines
<1> QED
  BY <1>1, <1>2, LoaderInvariant, PTL
  DEF LoaderSpec, KernelLifecycle, KernelView!LifecycleSpec

=============================================================================
