------------------------------- MODULE VmPool -------------------------------
(***************************************************************************)
(* The MicroVM manager (ebpf-assist-vm/src/manager.rs): a table of active  *)
(* VMs and a pool of warm ones, each behind its own tokio mutex, and the   *)
(* calls concurrent tasks make: acquire, release, load_program (and        *)
(* with_vm_async, which holds the table the same way), list_active, stats, *)
(* warm_up and shutdown_all.                                               *)
(*                                                                         *)
(* A call is cut where its task can be made to wait: at each lock, and     *)
(* where it waits for a guest or for Firecracker.  What it does between    *)
(* two such points is one action.  VMs that a task has taken out of the    *)
(* tables live in local variables of its call, and owned holds them.       *)
(***************************************************************************)
EXTENDS Integers, FiniteSets, Sequences

CONSTANTS
  Tasks,       \* tasks that call the manager
  Vms,         \* VM identities; an id is a fresh UUID and is never used again
  MaxTotal,    \* PoolConfig.max_total
  MaxWarm,     \* PoolConfig.max_warm
  WarmCounts,  \* counts warm_up is called with
  NoTask,      \* a lock is free
  NoVm         \* a call that is not about a VM

ASSUME PoolAssumption ==
  /\ MaxTotal \in Nat /\ MaxWarm \in Nat
  /\ WarmCounts \subseteq Nat
  /\ NoTask \notin Tasks /\ NoVm \notin Vms

ASSUME TasksAssumption == IsFiniteSet(Tasks) /\ Tasks # {}

VARIABLES
  active,      \* keys of active_vms
  warm,        \* warm_pool, pushed and popped at its end
  activeLock,  \* who holds active_vms
  poolLock,    \* who holds warm_pool
  pc,          \* where each task is
  target,      \* the VM id its call was given
  left,        \* VMs its warm_up still has to create
  owned,       \* VMs held by its local variables
  vm,          \* the Firecracker process behind each VM
  dirty        \* VMs whose guest has a program loaded

vars == <<active, warm, activeLock, poolLock, pc, target, left, owned, vm, dirty>>

locals == <<pc, target, left, owned>>
tables == <<active, warm>>
locks == <<activeLock, poolLock>>
guests == <<vm, dirty>>

Location ==
  {"idle",
   "acquire_pop", "acquire_take", "acquire_check", "acquire_count",
   "acquire_create", "acquire_insert",
   "release_remove", "release_check", "release_reset", "release_push",
   "release_destroy",
   "use_find", "use_run", "list_read", "stats_active", "stats_pool",
   "warm_count", "warm_create", "warm_push",
   "drain_active", "stop_active", "drain_pool", "stop_pool"}

Process == {"none", "running", "crashed", "gone"}

Pooled == {warm[i] : i \in 1 .. Len(warm)}

PoolInit ==
  /\ active = {}
  /\ warm = <<>>
  /\ activeLock = NoTask
  /\ poolLock = NoTask
  /\ pc = [t \in Tasks |-> "idle"]
  /\ target = [t \in Tasks |-> NoVm]
  /\ left = [t \in Tasks |-> 0]
  /\ owned = [t \in Tasks |-> {}]
  /\ vm = [v \in Vms |-> "none"]
  /\ dirty = {}

-----------------------------------------------------------------------------

Goto(t, location) == pc' = [pc EXCEPT ![t] = location]

Own(t, vms) == owned' = [owned EXCEPT ![t] = vms]

\* The call returns, with a result or with an error.
Return(t) ==
  /\ Goto(t, "idle")
  /\ target' = [target EXCEPT ![t] = NoVm]
  /\ left' = [left EXCEPT ![t] = 0]

ActiveFree == activeLock = NoTask
PoolFree == poolLock = NoTask

(***************************************************************************)
(* MicroVm::create: Firecracker starts, boots and the agent answers.  On   *)
(* any failure the instance is dropped, which kills the process.           *)
(***************************************************************************)
Boot(v) ==
  /\ vm[v] = "none"
  /\ vm' = [vm EXCEPT ![v] = "running"]
  /\ UNCHANGED dirty

\* MicroVm::shutdown, and the drop of the VM at its end.
Stop(v) ==
  /\ vm' = [vm EXCEPT ![v] = "gone"]
  /\ dirty' = dirty \ {v}

Push(v) == warm' = Append(warm, v)

Last == warm[Len(warm)]
Pop == warm' = SubSeq(warm, 1, Len(warm) - 1)

-----------------------------------------------------------------------------

\* A task calls the manager.
Call(t, location, v, n) ==
  /\ pc[t] = "idle"
  /\ Goto(t, location)
  /\ target' = [target EXCEPT ![t] = v]
  /\ left' = [left EXCEPT ![t] = n]
  /\ UNCHANGED <<tables, locks, owned, guests>>

Begin(t) ==
  \/ \E location \in {"acquire_pop", "list_read", "stats_active", "drain_active"} :
       Call(t, location, NoVm, 0)
  \/ \E v \in Vms, location \in {"release_remove", "use_find"} :
       vm[v] # "none" /\ Call(t, location, v, 0)
  \/ \E n \in WarmCounts : Call(t, "warm_count", NoVm, n)

-----------------------------------------------------------------------------
\* acquire

(***************************************************************************)
(* A popped VM goes into the table with the pool still locked.             *)
(***************************************************************************)
AcquirePop(t) ==
  /\ pc[t] = "acquire_pop"
  /\ PoolFree
  /\ IF warm = <<>>
     THEN Goto(t, "acquire_check") /\ UNCHANGED <<warm, poolLock, owned>>
     ELSE /\ Pop
          /\ Own(t, {Last})
          /\ poolLock' = t
          /\ Goto(t, "acquire_take")
  /\ UNCHANGED <<active, activeLock, target, left, guests>>

AcquireTake(t) ==
  /\ pc[t] = "acquire_take"
  /\ ActiveFree
  /\ active' = active \cup owned[t]
  /\ Own(t, {})
  /\ poolLock' = NoTask
  /\ Return(t)
  /\ UNCHANGED <<warm, activeLock, guests>>

AcquireCheck(t) ==
  /\ pc[t] = "acquire_check"
  /\ ActiveFree
  /\ activeLock' = t
  /\ Goto(t, "acquire_count")
  /\ UNCHANGED <<tables, poolLock, target, left, owned, guests>>

Total == Cardinality(active) + Len(warm)

\* Mutants: an exhausted pool keeps the lock; one VM more than the limit.
CountKeepsLock(t) ==
  /\ pc[t] = "acquire_count"
  /\ PoolFree
  /\ IF Total >= MaxTotal
     THEN Return(t) /\ UNCHANGED activeLock
     ELSE Goto(t, "acquire_create") /\ activeLock' = NoTask /\ UNCHANGED <<target, left>>
  /\ UNCHANGED <<tables, poolLock, owned, guests>>
CountOffByOne(t) ==
  /\ pc[t] = "acquire_count"
  /\ PoolFree
  /\ activeLock' = NoTask
  /\ IF Total > MaxTotal
     THEN Return(t)
     ELSE Goto(t, "acquire_create") /\ UNCHANGED <<target, left>>
  /\ UNCHANGED <<tables, poolLock, owned, guests>>

(***************************************************************************)
(* Both locks are let go before the VM is created.                         *)
(***************************************************************************)
AcquireCount(t) ==
  /\ pc[t] = "acquire_count"
  /\ PoolFree
  /\ activeLock' = NoTask
  /\ IF Total >= MaxTotal
     THEN Return(t)
     ELSE Goto(t, "acquire_create") /\ UNCHANGED <<target, left>>
  /\ UNCHANGED <<tables, poolLock, owned, guests>>

\* Mutant: a VM that fails after it has started is left running.
CreateLeaks(t) ==
  /\ pc[t] = "acquire_create"
  /\ \E v \in Vms : Boot(v)
  /\ Return(t)
  /\ UNCHANGED <<tables, locks, owned>>

AcquireCreate(t) ==
  /\ pc[t] = "acquire_create"
  /\ \/ Return(t) /\ UNCHANGED <<owned, guests>>
     \/ \E v \in Vms :
          /\ Boot(v)
          /\ Own(t, {v})
          /\ Goto(t, "acquire_insert")
          /\ UNCHANGED <<target, left>>
  /\ UNCHANGED <<tables, locks>>

AcquireInsert(t) ==
  /\ pc[t] = "acquire_insert"
  /\ ActiveFree
  /\ active' = active \cup owned[t]
  /\ Own(t, {})
  /\ Return(t)
  /\ UNCHANGED <<warm, locks, guests>>

-----------------------------------------------------------------------------
\* release

\* Mutant: the VM is looked up but not removed.
RemoveKeeps(t) ==
  /\ pc[t] = "release_remove"
  /\ ActiveFree
  /\ IF target[t] \in active
     THEN /\ Own(t, {target[t]})
          /\ Goto(t, "release_check")
          /\ UNCHANGED <<target, left>>
     ELSE Return(t) /\ UNCHANGED owned
  /\ UNCHANGED <<tables, locks, guests>>

ReleaseRemove(t) ==
  /\ pc[t] = "release_remove"
  /\ ActiveFree
  /\ IF target[t] \in active
     THEN /\ active' = active \ {target[t]}
          /\ Own(t, {target[t]})
          /\ Goto(t, "release_check")
          /\ UNCHANGED <<target, left>>
     ELSE Return(t) /\ UNCHANGED <<active, owned>>
  /\ UNCHANGED <<warm, locks, guests>>

\* Mutants: no reset before the push, and room in the pool is not asked for.
CheckSkipsReset(t) ==
  /\ pc[t] = "release_check"
  /\ PoolFree
  /\ Goto(t, IF Len(warm) < MaxWarm THEN "release_push" ELSE "release_destroy")
  /\ UNCHANGED <<tables, locks, target, left, owned, guests>>
CheckOffByOne(t) ==
  /\ pc[t] = "release_check"
  /\ PoolFree
  /\ Goto(t, IF Len(warm) <= MaxWarm THEN "release_reset" ELSE "release_destroy")
  /\ UNCHANGED <<tables, locks, target, left, owned, guests>>

ReleaseCheck(t) ==
  /\ pc[t] = "release_check"
  /\ PoolFree
  /\ Goto(t, IF Len(warm) < MaxWarm THEN "release_reset" ELSE "release_destroy")
  /\ UNCHANGED <<tables, locks, target, left, owned, guests>>

\* Mutant: the error of a reset is logged, and the VM pushed all the same.
ResetUnheeded(t) ==
  /\ pc[t] = "release_reset"
  /\ \/ /\ \A v \in owned[t] : vm[v] = "running"
        /\ dirty' = dirty \ owned[t]
     \/ UNCHANGED dirty
  /\ Goto(t, "release_push")
  /\ UNCHANGED <<tables, locks, target, left, owned, vm>>

(***************************************************************************)
(* The guest unloads everything, or the round trip fails, as it must when  *)
(* the VM has crashed.                                                     *)
(***************************************************************************)
ReleaseReset(t) ==
  /\ pc[t] = "release_reset"
  /\ \/ /\ \A v \in owned[t] : vm[v] = "running"
        /\ dirty' = dirty \ owned[t]
        /\ Goto(t, "release_push")
     \/ Goto(t, "release_destroy") /\ UNCHANGED dirty
  /\ UNCHANGED <<tables, locks, target, left, owned, vm>>

ReleasePush(t) ==
  /\ pc[t] = "release_push"
  /\ PoolFree
  /\ \E v \in owned[t] : Push(v)
  /\ Own(t, {})
  /\ Return(t)
  /\ UNCHANGED <<active, locks, guests>>

ReleaseDestroy(t) ==
  /\ pc[t] = "release_destroy"
  /\ \E v \in owned[t] : Stop(v)
  /\ Own(t, {})
  /\ Return(t)
  /\ UNCHANGED <<tables, locks>>

-----------------------------------------------------------------------------
\* load_program and with_vm_async, list_active, stats

\* Mutant: the table is not locked while the guest answers.
FindUnlocks(t) ==
  /\ pc[t] = "use_find"
  /\ ActiveFree
  /\ IF target[t] \in active
     THEN Goto(t, "use_run") /\ UNCHANGED <<target, left>>
     ELSE Return(t)
  /\ UNCHANGED <<tables, locks, owned, guests>>

(***************************************************************************)
(* The table stays locked for as long as the guest takes to answer.        *)
(***************************************************************************)
UseFind(t) ==
  /\ pc[t] = "use_find"
  /\ ActiveFree
  /\ IF target[t] \in active
     THEN Goto(t, "use_run") /\ activeLock' = t /\ UNCHANGED <<target, left>>
     ELSE Return(t) /\ UNCHANGED activeLock
  /\ UNCHANGED <<tables, poolLock, owned, guests>>

UseRun(t) ==
  /\ pc[t] = "use_run"
  /\ \/ vm[target[t]] = "running" /\ dirty' = dirty \cup {target[t]}
     \/ UNCHANGED dirty
  /\ activeLock' = NoTask
  /\ Return(t)
  /\ UNCHANGED <<tables, poolLock, owned, vm>>

ListActive(t) ==
  /\ pc[t] = "list_read"
  /\ ActiveFree
  /\ Return(t)
  /\ UNCHANGED <<tables, locks, owned, guests>>

StatsActive(t) ==
  /\ pc[t] = "stats_active"
  /\ ActiveFree
  /\ activeLock' = t
  /\ Goto(t, "stats_pool")
  /\ UNCHANGED <<tables, poolLock, target, left, owned, guests>>

StatsPool(t) ==
  /\ pc[t] = "stats_pool"
  /\ PoolFree
  /\ activeLock' = NoTask
  /\ Return(t)
  /\ UNCHANGED <<tables, poolLock, owned, guests>>

-----------------------------------------------------------------------------
\* warm_up

\* Mutant: the subtraction does not stop at zero.
CountUnsaturated(t) ==
  /\ pc[t] = "warm_count"
  /\ PoolFree
  /\ left' = [left EXCEPT ![t] = @ - Len(warm)]
  /\ Goto(t, "warm_create")
  /\ UNCHANGED <<tables, locks, target, owned, guests>>

WarmUpCount(t) ==
  LET missing == left[t] - Len(warm) IN  \* saturating_sub
  /\ pc[t] = "warm_count"
  /\ PoolFree
  /\ IF missing > 0
     THEN /\ left' = [left EXCEPT ![t] = missing]
          /\ Goto(t, "warm_create")
          /\ UNCHANGED target
     ELSE Return(t)
  /\ UNCHANGED <<tables, locks, owned, guests>>

\* A VM that cannot be created ends the call.
WarmUpCreate(t) ==
  /\ pc[t] = "warm_create"
  /\ \/ Return(t) /\ UNCHANGED <<owned, guests>>
     \/ \E v \in Vms :
          /\ Boot(v)
          /\ Own(t, {v})
          /\ Goto(t, "warm_push")
          /\ UNCHANGED <<target, left>>
  /\ UNCHANGED <<tables, locks>>

\* Mutant: the loop does not count.
PushUncounted(t) ==
  /\ pc[t] = "warm_push"
  /\ PoolFree
  /\ \E v \in owned[t] : Push(v)
  /\ Own(t, {})
  /\ Goto(t, "warm_create")
  /\ UNCHANGED <<active, locks, target, left, guests>>

WarmUpPush(t) ==
  /\ pc[t] = "warm_push"
  /\ PoolFree
  /\ \E v \in owned[t] : Push(v)
  /\ Own(t, {})
  /\ IF left[t] > 1
     THEN /\ left' = [left EXCEPT ![t] = @ - 1]
          /\ Goto(t, "warm_create")
          /\ UNCHANGED target
     ELSE Return(t)
  /\ UNCHANGED <<active, locks, guests>>

-----------------------------------------------------------------------------
\* shutdown_all

DrainActive(t) ==
  /\ pc[t] = "drain_active"
  /\ ActiveFree
  /\ Own(t, active)
  /\ active' = {}
  /\ Goto(t, "stop_active")
  /\ UNCHANGED <<warm, locks, target, left, guests>>

\* The drained VMs are shut down one after the other, in no given order.
StopActive(t) ==
  /\ pc[t] = "stop_active"
  /\ \/ \E v \in owned[t] : Stop(v) /\ Own(t, owned[t] \ {v}) /\ UNCHANGED pc
     \/ owned[t] = {} /\ Goto(t, "drain_pool") /\ UNCHANGED <<owned, guests>>
  /\ UNCHANGED <<tables, locks, target, left>>

DrainPool(t) ==
  /\ pc[t] = "drain_pool"
  /\ PoolFree
  /\ Own(t, Pooled)
  /\ warm' = <<>>
  /\ Goto(t, "stop_pool")
  /\ UNCHANGED <<active, locks, target, left, guests>>

StopPool(t) ==
  /\ pc[t] = "stop_pool"
  /\ \/ /\ \E v \in owned[t] : Stop(v) /\ Own(t, owned[t] \ {v})
        /\ UNCHANGED <<pc, target, left>>
     \/ owned[t] = {} /\ Return(t) /\ UNCHANGED <<owned, guests>>
  /\ UNCHANGED <<tables, locks>>

-----------------------------------------------------------------------------

\* The guest kernel panics or the Firecracker process is killed.
Crash(v) ==
  /\ vm[v] = "running"
  /\ vm' = [vm EXCEPT ![v] = "crashed"]
  /\ UNCHANGED <<tables, locks, locals, dirty>>

Step(t) ==
  \/ AcquirePop(t) \/ AcquireTake(t) \/ AcquireCheck(t) \/ AcquireCount(t)
  \/ AcquireCreate(t) \/ AcquireInsert(t)
  \/ ReleaseRemove(t) \/ ReleaseCheck(t) \/ ReleaseReset(t)
  \/ ReleasePush(t) \/ ReleaseDestroy(t)
  \/ UseFind(t) \/ UseRun(t) \/ ListActive(t) \/ StatsActive(t) \/ StatsPool(t)
  \/ WarmUpCount(t) \/ WarmUpCreate(t) \/ WarmUpPush(t)
  \/ DrainActive(t) \/ StopActive(t) \/ DrainPool(t) \/ StopPool(t)

PoolNext ==
  \/ \E t \in Tasks : Begin(t) \/ Step(t)
  \/ \E v \in Vms : Crash(v)

PoolSpec == PoolInit /\ [][PoolNext]_vars

(***************************************************************************)
(* tokio runs every task that can run and hands a mutex to its waiters in  *)
(* order.  That a guest answers or its connection breaks is assumed: the   *)
(* manager itself sets no timeout on a round trip.                         *)
(***************************************************************************)
FairPoolSpec == PoolSpec /\ \A t \in Tasks : SF_vars(Step(t))

-----------------------------------------------------------------------------

PoolTypeOK ==
  /\ active \subseteq Vms
  /\ warm \in Seq(Vms)
  /\ activeLock \in Tasks \cup {NoTask}
  /\ poolLock \in Tasks \cup {NoTask}
  /\ pc \in [Tasks -> Location]
  /\ target \in [Tasks -> Vms \cup {NoVm}]
  /\ left \in [Tasks -> Nat]
  /\ owned \in [Tasks -> SUBSET Vms]
  /\ vm \in [Vms -> Process]
  /\ dirty \subseteq Vms

(***************************************************************************)
(* Ownership.  A VM is in at most one place: the table of active VMs, one  *)
(* slot of the pool, or the hands of one call; and a Firecracker process   *)
(* runs exactly for the VMs that are in one.  So no VM is leased twice,    *)
(* none is both leased and warm, none runs on unknown to everybody, and    *)
(* none that was shut down is handed out.                                  *)
(***************************************************************************)
InFlight == UNION {owned[t] : t \in Tasks}

OnePlace ==
  /\ active \cap Pooled = {}
  /\ (active \cup Pooled) \cap InFlight = {}
  /\ \A i, j \in 1 .. Len(warm) : warm[i] = warm[j] => i = j
  /\ \A t, u \in Tasks : t # u => owned[t] \cap owned[u] = {}

Live == {v \in Vms : vm[v] \in {"running", "crashed"}}

Accounted == Live = active \cup Pooled \cup InFlight

(***************************************************************************)
(* Two calls never talk to one guest at the same time: requests and        *)
(* responses on its stream carry no number, so they would be mixed up.     *)
(***************************************************************************)
Talking(t, v) ==
  \/ pc[t] = "use_run" /\ target[t] = v
  \/ pc[t] \in {"release_reset", "release_destroy", "stop_active", "stop_pool"}
       /\ v \in owned[t]

ExclusiveChannel ==
  \A t, u \in Tasks, v \in Vms : Talking(t, v) /\ Talking(u, v) => t = u

(***************************************************************************)
(* A warm VM has no program of its last user left in it.                   *)
(***************************************************************************)
WarmIsClean == Pooled \cap dirty = {}

(***************************************************************************)
(* How far the limits of PoolConfig can be overrun.  acquire counts, lets  *)
(* both locks go and only then creates; release asks for room in the pool, *)
(* lets the lock go and only then pushes.  So every task but one can be    *)
(* past its check when the limit is reached.  warm_up asks for neither.    *)
(***************************************************************************)
Arriving == {t \in Tasks : pc[t] \in {"acquire_take", "acquire_create", "acquire_insert",
                                      "release_check", "release_reset", "release_push"}}
Parking == {t \in Tasks : pc[t] \in {"release_reset", "release_push"}}

OverrunBounded ==
  WarmCounts = {} => Total + Cardinality(Arriving) < MaxTotal + Cardinality(Tasks)

ParkingBounded ==
  WarmCounts = {} => \/ Len(warm) + Cardinality(Parking) < MaxWarm + Cardinality(Tasks)
                     \/ Len(warm) + Cardinality(Parking) <= MaxWarm

(***************************************************************************)
(* config.rs:83 says that max_total is the maximum of warm and active VMs. *)
(***************************************************************************)
TotalWithinLimit == Total <= MaxTotal

(***************************************************************************)
(* acquire holds the pool and waits for the table; a count, in stats or in *)
(* another acquire, holds the table and waits for the pool.                *)
(***************************************************************************)
Deadlocked ==
  \E t, u \in Tasks : /\ pc[t] = "acquire_take"
                      /\ pc[u] \in {"acquire_count", "stats_pool"}

(***************************************************************************)
(* manager.rs:427 says that acquire gets a VM from the warm pool or        *)
(* creates one: it does not wait for a lock that waits for it.             *)
(***************************************************************************)
NoDeadlock == ~Deadlocked

(***************************************************************************)
(* Every call returns, unless acquire and a count have locked each other   *)
(* out: there is no other way for the manager to come to a standstill.     *)
(***************************************************************************)
CallsReturn == \A t \in Tasks : pc[t] # "idle" ~> pc[t] = "idle" \/ Deadlocked

(***************************************************************************)
(* The safety side of CallsReturn.  A task that waits for a lock waits for *)
(* one whose holder can go on: nobody keeps a lock when its call is over,  *)
(* and the only holders that wait for each other are those of Deadlocked.  *)
(***************************************************************************)
\* Where a task asks for active_vms, and where it asks for warm_pool.
AsksTable == {"acquire_take", "acquire_check", "acquire_insert", "release_remove",
              "use_find", "list_read", "stats_active", "drain_active"}
AsksPool == {"acquire_pop", "acquire_count", "release_check", "release_push",
             "stats_pool", "warm_count", "warm_push", "drain_pool"}

Blocked(t) ==
  \/ pc[t] \in AsksTable /\ ~ActiveFree
  \/ pc[t] \in AsksPool /\ ~PoolFree

LocksComeFree ==
  \A t \in Tasks : Blocked(t) =>
    \/ Deadlocked
    \/ \E u \in {activeLock, poolLock} \ {NoTask} : pc[u] # "idle" /\ ~Blocked(u)

(***************************************************************************)
(* No call goes round for ever and none is set back by another: a call     *)
(* under way only moves towards its end, warm_up's loop counts down        *)
(* whatever the others push or pop meanwhile, and shutdown_all puts down   *)
(* one VM after the other of those it has drained.                         *)
(***************************************************************************)
Ahead ==
  [idle |-> 0,
   acquire_pop |-> 5, acquire_check |-> 4, acquire_count |-> 3, acquire_create |-> 2,
   acquire_take |-> 1, acquire_insert |-> 1,
   release_remove |-> 4, release_check |-> 3, release_reset |-> 2, release_push |-> 1,
   release_destroy |-> 1,
   use_find |-> 2, use_run |-> 1, list_read |-> 1, stats_active |-> 2, stats_pool |-> 1,
   warm_count |-> 2, warm_create |-> 1, warm_push |-> 1,
   drain_active |-> 4, stop_active |-> 3, drain_pool |-> 2, stop_pool |-> 1]

Advances(t) ==
  \/ Ahead[pc'[t]] < Ahead[pc[t]]
  \/ pc[t] = "warm_create" /\ pc'[t] = "warm_push" /\ left'[t] = left[t]
  \/ pc[t] = "warm_push" /\ pc'[t] = "warm_create" /\ left'[t] < left[t]
  \/ pc'[t] = pc[t] /\ owned'[t] \subseteq owned[t] /\ owned'[t] # owned[t]

CallsAdvance ==
  [][\A t \in Tasks : pc[t] # "idle" =>
       UNCHANGED <<pc[t], left[t], owned[t]>> \/ Advances(t)]_vars

(***************************************************************************)
(* The manager keeps the promise of VmLease.                               *)
(***************************************************************************)
PlaceOf(v) ==
  IF v \in active THEN "leased"
  ELSE IF v \in Pooled THEN "warm"
  ELSE IF v \in InFlight THEN "held"
  ELSE IF vm[v] = "none" THEN "none" ELSE "gone"

Leases == INSTANCE VmLease WITH place <- [v \in Vms |-> PlaceOf(v)]

KeepsLeases == Leases!LeaseSpec

(***************************************************************************)
(* The manager takes a VM for clean when it may be handed out: it is in    *)
(* the pool, on its way into it, or on its way to an acquire.  It does so  *)
(* only as VmLife allows, which is what MicroVm keeps: when create has     *)
(* returned, or when the guest has carried out and answered a reset, and   *)
(* never because a reset was merely asked for, of a VM that has crashed or *)
(* of one whose guest did not answer.                                      *)
(***************************************************************************)
CleanAt == {"acquire_take", "acquire_insert", "release_push", "warm_push"}

TakenForClean(v) ==
  \/ v \in Pooled
  \/ \E t \in Tasks : v \in owned[t] /\ pc[t] \in CleanAt

Life(v) == INSTANCE VmLife WITH
  life <- vm[v],
  clean <- TakenForClean(v),
  answered <- FALSE,
  loaded <- v \in dirty /\ vm[v] = "running"

LivesBegin == \A v \in Vms : Life(v)!LifeInit

LivesGoOn == \A v \in Vms : [Life(v)!LifeNext]_(Life(v)!lifeVars)

VmsKeepPromise == LivesBegin /\ [][LivesGoOn]_vars

=============================================================================
