------------------------------- MODULE Loader -------------------------------
(***************************************************************************)
(* The daemon's program table (ebpf-assistd/src/loader.rs): loading an     *)
(* object file, attaching, detaching and unloading a program, and what the *)
(* kernel holds for each table entry.  Every operation runs to its end     *)
(* under the daemon's state mutex, so each is one action here; Daemon says *)
(* when they run.                                                          *)
(*                                                                         *)
(* A table entry owns aya's Bpf object, so the kernel side of a program    *)
(* lives in the entry: fd is true once aya's program.load() has put the    *)
(* program into the kernel, link once attach() has hooked it.  Both go     *)
(* only when the entry is dropped.  The name and path of a program are     *)
(* left out.                                                               *)
(***************************************************************************)
EXTENDS Integers, FiniteSets, ProgramTypes

CONSTANTS
  Objects,  \* object files a Load may name: program name -> section type
  IdSpace,  \* number of values of NEXT_ID, 2^32 in the code
  Names,    \* program names a client may ask for
  NoName,   \* a Load that names no program
  Vacant    \* an id with no table entry

ASSUME IdSpaceAssumption == IdSpace \in Nat /\ IdSpace > 1

VARIABLES
  programs,  \* Loader.programs, Vacant where the map has no key
  nextId,    \* NEXT_ID
  issued     \* history: the ids this run of the daemon has given out

loaderVars == <<programs, nextId, issued>>

Ids == 0 .. (IdSpace - 1)

Program == [type : ProgramType, attached : BOOLEAN, fd : BOOLEAN, link : BOOLEAN]

ASSUME VacantAssumption == Vacant \notin Program

LoaderInit ==
  /\ programs = [id \in Ids |-> Vacant]
  /\ nextId = 1
  /\ issued = {}

-----------------------------------------------------------------------------

(***************************************************************************)
(* detect_program: the program a Load selects from an object file.  The    *)
(* name must be there; without one the file must hold exactly one program. *)
(***************************************************************************)
Selects(object, name, n) ==
  /\ n \in DOMAIN object
  /\ \/ name = n
     \/ name = NoName /\ DOMAIN object = {n}

Unselected(object, name) ==
  CASE DOMAIN object = {} -> "no_programs"
    [] DOMAIN object # {} /\ name = NoName -> "several_programs"
    [] OTHER -> "no_such_name"

\* Mutants: a counter wider than an id, and one that wraps one id early.
IdUnwrapped(n) == n + 1
IdWrapsEarly(n) == (n + 1) % (IdSpace - 1)

IdAfter(n) == (n + 1) % IdSpace

NewProgram(type) ==
  [type |-> type, attached |-> FALSE, fd |-> FALSE, link |-> FALSE]

\* Mutant: the id is the size of the table plus one, not a counter.
InsertByCount(type) ==
  LET id == (Cardinality({i \in Ids : programs[i] # Vacant}) + 1) % IdSpace IN
  /\ programs' = [programs EXCEPT ![id] = NewProgram(type)]
  /\ nextId' = IdAfter(nextId)
  /\ issued' = issued \cup {id}

(***************************************************************************)
(* NEXT_ID.fetch_add and the insertion into the map.  fetch_add wraps, and *)
(* insert drops an entry that is there already.                            *)
(***************************************************************************)
Insert(type) ==
  /\ programs' = [programs EXCEPT ![nextId] = NewProgram(type)]
  /\ nextId' = IdAfter(nextId)
  /\ issued' = issued \cup {nextId}

(***************************************************************************)
(* The object is parsed (and its maps created) before the policy is looked *)
(* at; a refused program leaves no entry.  Reading the file may always     *)
(* fail, also for want of a capability.                                    *)
(***************************************************************************)
Load(object, name, result) ==
  \/ /\ result \in {"load_failed", "no_capability"}
     /\ UNCHANGED loaderVars
  \/ /\ \A n \in DOMAIN object : ~Selects(object, name, n)
     /\ result = Unselected(object, name)
     /\ UNCHANGED loaderVars
  \/ \E n \in DOMAIN object :
       LET type == DetectType(object[n]) IN
       /\ Selects(object, name, n)
       /\ \/ /\ DefaultPolicy(type) = "deny"
             /\ result = "policy_violation"
             /\ UNCHANGED loaderVars
          \/ /\ DefaultPolicy(type) # "deny"
             /\ result = "loaded"
             /\ Insert(type)

-----------------------------------------------------------------------------

(***************************************************************************)
(* aya's program.load() and attach(), called with the capabilities raised. *)
(* load() refuses a program that is in the kernel already, which it is     *)
(* after an earlier attach of the same entry, successful or not.           *)
(***************************************************************************)
Hooking(id, result) ==
  \/ /\ programs[id].fd
     /\ result = "already_loaded"
     /\ UNCHANGED programs
  \/ /\ ~programs[id].fd
     /\ result = "rejected_by_kernel"
     /\ UNCHANGED programs
  \/ /\ ~programs[id].fd
     /\ \/ result = "attach_failed"
        \/ result = "bad_target" /\ programs[id].type = "tracepoint"
     /\ programs' = [programs EXCEPT ![id].fd = TRUE]
  \/ /\ ~programs[id].fd
     /\ result = "attached"
     /\ programs' = [programs EXCEPT ![id].fd = TRUE, ![id].link = TRUE,
                                     ![id].attached = TRUE]

\* Mutant: the flag is set before the kernel has answered.
AttachFlagFirst(id, result) ==
  /\ programs[id] # Vacant
  /\ result = "attach_failed"
  /\ programs' = [programs EXCEPT ![id].attached = TRUE]
  /\ UNCHANGED <<nextId, issued>>

Attach(id, result) ==
  /\ \/ /\ programs[id] = Vacant
        /\ result = "program_not_found"
        /\ UNCHANGED programs
     \/ /\ programs[id] # Vacant
        /\ programs[id].attached
        /\ result = "already_attached"
        /\ UNCHANGED programs
     \/ /\ programs[id] # Vacant
        /\ ~programs[id].attached
        /\ \/ /\ result = "no_capability"
              /\ UNCHANGED programs
           \/ /\ programs[id].type \notin AttachableType
              /\ result = "attach_not_implemented"
              /\ UNCHANGED programs
           \/ /\ programs[id].type \in AttachableType
              /\ Hooking(id, result)
  /\ UNCHANGED <<nextId, issued>>

(***************************************************************************)
(* Only the flags change: aya's link is not touched.                       *)
(***************************************************************************)
Detach(id, result) ==
  /\ \/ /\ programs[id] = Vacant
        /\ result = "program_not_found"
        /\ UNCHANGED programs
     \/ /\ programs[id] # Vacant
        /\ ~programs[id].attached
        /\ result = "not_attached"
        /\ UNCHANGED programs
     \/ /\ programs[id] # Vacant
        /\ programs[id].attached
        /\ result = "detached"
        /\ programs' = [programs EXCEPT ![id].attached = FALSE]
  /\ UNCHANGED <<nextId, issued>>

Unload(id, result) ==
  /\ \/ /\ programs[id] = Vacant
        /\ result = "program_not_found"
        /\ UNCHANGED programs
     \/ /\ programs[id] # Vacant
        /\ result = "unloaded"
        /\ programs' = [programs EXCEPT ![id] = Vacant]
  /\ UNCHANGED <<nextId, issued>>

LoadResult == {"load_failed", "no_capability", "no_programs", "several_programs",
               "no_such_name", "policy_violation", "loaded"}
AttachResult == {"program_not_found", "already_attached", "no_capability",
                 "attach_not_implemented", "already_loaded", "rejected_by_kernel",
                 "attach_failed", "bad_target", "attached"}
DetachResult == {"program_not_found", "not_attached", "detached"}
UnloadResult == {"program_not_found", "unloaded"}

(***************************************************************************)
(* The daemon dies and is started again: the kernel closes what the table  *)
(* held, and the static NEXT_ID starts over.                               *)
(***************************************************************************)
LoaderRestart ==
  /\ programs' = [id \in Ids |-> Vacant]
  /\ nextId' = 1
  /\ issued' = {}

LoaderNext ==
  \/ LoaderRestart
  \/ \E object \in Objects, name \in Names \cup {NoName},
       result \in LoadResult : Load(object, name, result)
  \/ \E id \in Ids, result \in AttachResult : Attach(id, result)
  \/ \E id \in Ids, result \in DetachResult : Detach(id, result)
  \/ \E id \in Ids, result \in UnloadResult : Unload(id, result)

LoaderSpec == LoaderInit /\ [][LoaderNext]_loaderVars

-----------------------------------------------------------------------------

LoaderTypeOK ==
  /\ programs \in [Ids -> Program \cup {Vacant}]
  /\ nextId \in Ids
  /\ issued \subseteq Ids

(***************************************************************************)
(* The program list never shows a program as attached that is not hooked   *)
(* into the kernel, and nothing is hooked that is not in the kernel.  The  *)
(* flag is written by attach and detach, the link by aya, and an attach    *)
(* can fail between the two kernel calls.                                  *)
(***************************************************************************)
AttachedIsHooked ==
  \A id \in Ids : programs[id] # Vacant =>
    /\ programs[id].attached => programs[id].link
    /\ programs[id].link => programs[id].fd

(***************************************************************************)
(* README.md says that detach detaches a program from its kernel hook: a   *)
(* program listed as not attached is not hooked.                           *)
(***************************************************************************)
DetachedIsUnhooked ==
  \A id \in Ids : programs[id] # Vacant =>
    (programs[id].link => programs[id].attached)

(***************************************************************************)
(* Loading a program leaves every program already in the table as it was,  *)
(* unless every id has been given out (2^32 loads): HashMap::insert would  *)
(* drop the program that has the id, and its hook with it.  (A restart     *)
(* empties the table; it is not a load.)                                   *)
(***************************************************************************)
LoadKeepsTheOthers ==
  [][nextId' = IdAfter(nextId) /\ issued # Ids /\ issued' # {} =>
       \A id \in Ids : programs[id] # Vacant => programs'[id] = programs[id]]_loaderVars

(***************************************************************************)
(* The abstract program lifecycle, seen through the list's flags and       *)
(* through the kernel's links.  They are two views of one table and        *)
(* neither breaks the lifecycle.                                           *)
(***************************************************************************)
ClientPhase == [id \in Ids |->
  IF programs[id] = Vacant THEN "absent"
  ELSE IF programs[id].attached THEN "hooked" ELSE "idle"]

KernelPhase == [id \in Ids |->
  IF programs[id] = Vacant THEN "absent"
  ELSE IF programs[id].link THEN "hooked" ELSE "idle"]

ClientView == INSTANCE ProgramLifecycle WITH phase <- ClientPhase
KernelView == INSTANCE ProgramLifecycle WITH phase <- KernelPhase

ClientLifecycle == ClientView!LifecycleSpec
KernelLifecycle == KernelView!LifecycleSpec

=============================================================================
