---------------------------- MODULE VmPoolProofs ----------------------------
(***************************************************************************)
(* Proofs about VmPool, for any number of tasks and VMs, any limits, and   *)
(* any counts to warm up.                                                  *)
(*                                                                         *)
(* Ownership alone is not inductive: that a VM has one place after a step  *)
(* needs to know who holds which lock, how many VMs each call has in its   *)
(* hands at each point, that a VM a call is using is still in the table,   *)
(* and that the VMs about to be pushed or leased have no program in them.  *)
(***************************************************************************)
EXTENDS VmPool, SequenceTheorems, FiniteSetTheorems, TLAPS

HoldsActive == {"acquire_count", "use_run", "stats_pool"}
HoldsPool == {"acquire_take"}

LocksHeld ==
  \A t \in Tasks : /\ activeLock = t <=> pc[t] \in HoldsActive
                   /\ poolLock = t <=> pc[t] \in HoldsPool

OneInHand == {"acquire_take", "acquire_insert", "release_check", "release_reset",
              "release_push", "release_destroy", "warm_push"}
SomeInHand == {"stop_active", "stop_pool"}

Hands ==
  \A t \in Tasks :
    /\ pc[t] \in OneInHand => \E v \in Vms : owned[t] = {v}
    /\ pc[t] \notin OneInHand \cup SomeInHand => owned[t] = {}

UsedIsActive == \A t \in Tasks : pc[t] = "use_run" => target[t] \in active

DirtyIsLive == dirty \subseteq Live

HandedIsClean ==
  \A t \in Tasks : pc[t] \in CleanAt => owned[t] \cap dirty = {}

PoolInv ==
  /\ PoolTypeOK
  /\ LocksHeld
  /\ Hands
  /\ OnePlace
  /\ Accounted
  /\ UsedIsActive
  /\ DirtyIsLive
  /\ HandedIsClean
  /\ WarmIsClean

NoRepeats(s) == \A i, j \in 1 .. Len(s) : s[i] = s[j] => i = j

-----------------------------------------------------------------------------

(* Vec::push and Vec::pop on a pool without repetitions. *)
LEMMA PushAdds ==
  ASSUME warm \in Seq(Vms), NEW v \in Vms, v \notin Pooled, NoRepeats(warm), Push(v)
  PROVE  warm' \in Seq(Vms) /\ Pooled' = Pooled \cup {v} /\ NoRepeats(warm')
<1>1. /\ warm' \in Seq(Vms) /\ Len(warm') = Len(warm) + 1
      /\ \A i \in 1 .. Len(warm) : warm'[i] = warm[i]
      /\ warm'[Len(warm) + 1] = v
  BY DEF Push
<1>2. Len(warm) \in Nat
  OBVIOUS
<1>3. Pooled' = Pooled \cup {v}
  BY <1>1, <1>2 DEF Pooled
<1>4. NoRepeats(warm')
  BY <1>1, <1>2 DEF NoRepeats, Pooled
<1> QED
  BY <1>1, <1>3, <1>4

(* A prefix of a sequence. *)
LEMMA PrefixProperties ==
  ASSUME NEW S, NEW s \in Seq(S), NEW n \in 0 .. Len(s)
  PROVE  /\ SubSeq(s, 1, n) \in Seq(S)
         /\ Len(SubSeq(s, 1, n)) = n
         /\ \A i \in 1 .. n : SubSeq(s, 1, n)[i] = s[i]
<1>1. n \in Nat /\ 1 \in Int /\ n \in Int /\ \A i \in 1 .. n : s[i] \in S
  OBVIOUS
<1>2. SubSeq(s, 1, n) \in Seq(S)
  BY <1>1, SubSeqProperties
<1>3. Len(SubSeq(s, 1, n)) = n
  OBVIOUS
<1>4. \A i \in 1 .. n : SubSeq(s, 1, n)[i] = s[i]
  OBVIOUS
<1> QED
  BY <1>2, <1>3, <1>4

(* Popping takes the last VM, and only it, out of the pool. *)
LEMMA PopTakes ==
  ASSUME warm \in Seq(Vms), warm # <<>>, NoRepeats(warm), Pop
  PROVE  /\ warm' \in Seq(Vms) /\ NoRepeats(warm')
         /\ Last \in Pooled /\ Last \in Vms
         /\ Pooled' = Pooled \ {Last}
         /\ Len(warm') = Len(warm) - 1
<1>1. Len(warm) \in Nat /\ Len(warm) > 0
  OBVIOUS
<1>2. /\ warm' \in Seq(Vms) /\ Len(warm') = Len(warm) - 1
      /\ \A i \in 1 .. Len(warm) - 1 : warm'[i] = warm[i]
  <2>1. Len(warm) - 1 \in 0 .. Len(warm)
    BY <1>1
  <2>2. PICK n \in 0 .. Len(warm) : n = Len(warm) - 1
    BY <2>1, Zenon
  <2>3. warm' = SubSeq(warm, 1, n)
    BY <2>2, Zenon DEF Pop
  <2>4. /\ warm' \in Seq(Vms) /\ Len(warm') = n
        /\ \A i \in 1 .. n : warm'[i] = warm[i]
    BY <2>3, PrefixProperties, Zenon
  <2> QED
    BY <2>2, <2>4
<1>3. Last \in Pooled /\ Last \in Vms
  BY <1>1 DEF Last, Pooled
<1>4. NoRepeats(warm')
  BY <1>1, <1>2 DEF NoRepeats
<1>5. Pooled' = Pooled \ {Last}
  BY <1>1, <1>2 DEF Pooled, Last, NoRepeats
<1> QED
  BY <1>2, <1>3, <1>4, <1>5

(* Who holds the locks after a step of task t, which may take a free lock    *)
(* and let go of one it holds.                                               *)
LEMMA LocksFollow ==
  ASSUME PoolInv, NEW t \in Tasks, NEW location \in Location, Goto(t, location),
         activeLock' = t <=> location \in HoldsActive,
         poolLock' = t <=> location \in HoldsPool,
         activeLock' = activeLock \/ {activeLock, activeLock'} \subseteq {t, NoTask},
         poolLock' = poolLock \/ {poolLock, poolLock'} \subseteq {t, NoTask}
  PROVE  /\ LocksHeld'
         /\ pc' \in [Tasks -> Location]
         /\ activeLock' \in Tasks \cup {NoTask} /\ poolLock' \in Tasks \cup {NoTask}
BY PoolAssumption DEF PoolInv, PoolTypeOK, LocksHeld, HoldsActive, HoldsPool, Goto

(* What the tasks have in their hands after task t has put down what it had  *)
(* and taken S.                                                              *)
LEMMA HandsFollow ==
  ASSUME PoolInv, NEW t \in Tasks, NEW location, NEW S \in SUBSET Vms,
         Goto(t, location), Own(t, S),
         location \in OneInHand => \E v \in Vms : S = {v},
         location \notin OneInHand \cup SomeInHand => S = {}
  PROVE  /\ Hands'
         /\ owned' \in [Tasks -> SUBSET Vms]
         /\ InFlight' = (InFlight \ owned[t]) \cup S
<1>1. \A u \in Tasks : owned'[u] = IF u = t THEN S ELSE owned[u]
  BY DEF PoolInv, PoolTypeOK, Own
<1>2. Hands'
  BY <1>1 DEF PoolInv, PoolTypeOK, Hands, Goto
<1>3. owned' \in [Tasks -> SUBSET Vms]
  BY DEF PoolInv, PoolTypeOK, Own
<1>4. \A u \in Tasks : u # t => owned[u] \cap owned[t] = {}
  BY DEF PoolInv, OnePlace
<1>5. InFlight' = (InFlight \ owned[t]) \cup S
  BY <1>1, <1>4 DEF InFlight
<1> QED
  BY <1>2, <1>3, <1>5

(* Places are disjoint after a task has exchanged what it had for S. *)
LEMMA PlacesFollow ==
  ASSUME PoolInv, NEW t \in Tasks, NEW S \in SUBSET Vms, Own(t, S),
         S \cap (InFlight \ owned[t]) = {},
         active' \cap Pooled' = {}, NoRepeats(warm'),
         (active' \cup Pooled') \cap ((InFlight \ owned[t]) \cup S) = {}
  PROVE  OnePlace'
<1>1. \A u \in Tasks : owned'[u] = IF u = t THEN S ELSE owned[u]
  BY DEF PoolInv, PoolTypeOK, Own
<1>2. \A u \in Tasks : u # t => owned[u] \cap owned[t] = {} /\ owned[u] \subseteq InFlight
  BY DEF PoolInv, OnePlace, InFlight
<1>3. InFlight' \subseteq (InFlight \ owned[t]) \cup S
  BY <1>1, <1>2 DEF InFlight
<1>4. \A u, w \in Tasks : u # w => owned'[u] \cap owned'[w] = {}
  <2> SUFFICES ASSUME NEW u \in Tasks, NEW w \in Tasks, u # w
               PROVE  owned'[u] \cap owned'[w] = {}
    OBVIOUS
  <2>1. owned[u] \cap owned[w] = {}
    BY DEF PoolInv, OnePlace
  <2> QED
    BY <1>1, <1>2, <2>1
<1> QED
  BY <1>3, <1>4 DEF OnePlace, NoRepeats

(* A step of one task that moves no VM and changes no guest. *)
LEMMA ControlPreserves ==
  ASSUME PoolInv, NEW t \in Tasks, NEW location \in Location, Goto(t, location),
         target' \in [Tasks -> Vms \cup {NoVm}], left' \in [Tasks -> Nat],
         \A u \in Tasks : u # t => target'[u] = target[u],
         UNCHANGED <<active, warm, owned, vm, dirty>>,
         activeLock' = t <=> location \in HoldsActive,
         poolLock' = t <=> location \in HoldsPool,
         activeLock' = activeLock \/ {activeLock, activeLock'} \subseteq {t, NoTask},
         poolLock' = poolLock \/ {poolLock, poolLock'} \subseteq {t, NoTask},
         location \in OneInHand => pc[t] \in OneInHand,
         location \notin OneInHand \cup SomeInHand => owned[t] = {},
         location = "use_run" => target'[t] \in active,
         location \in CleanAt => owned[t] \cap dirty = {}
  PROVE  PoolInv'
<1>1. /\ LocksHeld' /\ pc' \in [Tasks -> Location]
      /\ activeLock' \in Tasks \cup {NoTask} /\ poolLock' \in Tasks \cup {NoTask}
  BY LocksFollow
<1>2. PoolTypeOK'
  BY <1>1 DEF PoolInv, PoolTypeOK
<1>3. Hands'
  BY DEF PoolInv, PoolTypeOK, Hands, Goto
<1>4. OnePlace' /\ Accounted' /\ DirtyIsLive' /\ WarmIsClean'
  <2>1. Pooled' = Pooled /\ InFlight' = InFlight /\ Live' = Live
    BY DEF Pooled, InFlight, Live
  <2>2. OnePlace'
    BY <2>1 DEF PoolInv, OnePlace
  <2>3. Accounted' /\ DirtyIsLive' /\ WarmIsClean'
    BY <2>1 DEF PoolInv, Accounted, DirtyIsLive, WarmIsClean
  <2> QED
    BY <2>2, <2>3
<1>5. UsedIsActive'
  BY DEF PoolInv, PoolTypeOK, UsedIsActive, Goto
<1>6. HandedIsClean'
  BY DEF PoolInv, PoolTypeOK, HandedIsClean, CleanAt, Goto
<1> QED
  BY <1>1, <1>2, <1>3, <1>4, <1>5, <1>6 DEF PoolInv

(* A call goes on, empty-handed or with the VM it has, or it returns. *)
LEMMA GoOnPreserves ==
  ASSUME PoolInv, NEW t \in Tasks, NEW location \in Location, Goto(t, location),
         UNCHANGED <<active, warm, owned, target, left, vm, dirty>>,
         activeLock' = t <=> location \in HoldsActive,
         pc[t] \notin HoldsPool, location \notin HoldsPool, UNCHANGED poolLock,
         activeLock' = activeLock \/ {activeLock, activeLock'} \subseteq {t, NoTask},
         location \in OneInHand => pc[t] \in OneInHand,
         location \notin OneInHand => pc[t] \notin OneInHand \cup SomeInHand,
         location = "use_run" => target[t] \in active,
         location \notin CleanAt
  PROVE  PoolInv'
<1>1. target' \in [Tasks -> Vms \cup {NoVm}] /\ left' \in [Tasks -> Nat]
  BY DEF PoolInv, PoolTypeOK
<1>2. poolLock # t /\ (location \notin OneInHand \cup SomeInHand => owned[t] = {})
  BY DEF PoolInv, LocksHeld, Hands
<1> QED
  BY <1>1, <1>2, ControlPreserves

(* A call returns empty-handed, and may let the table go. *)
LEMMA ReturnPreserves ==
  ASSUME PoolInv, NEW t \in Tasks, Return(t),
         UNCHANGED <<active, warm, owned, vm, dirty>>,
         pc[t] \notin OneInHand \cup SomeInHand \/ owned[t] = {},
         activeLock' = NoTask \/ (activeLock' = activeLock /\ activeLock # t),
         activeLock' = NoTask => activeLock \in {t, NoTask},
         pc[t] \notin HoldsPool, UNCHANGED poolLock
  PROVE  PoolInv'
<1>1. t # NoTask /\ poolLock # t /\ owned[t] = {}
  BY PoolAssumption DEF PoolInv, LocksHeld, Hands
<1>2. "idle" \in Location \ (HoldsActive \cup HoldsPool \cup OneInHand \cup SomeInHand)
  BY DEF Location, HoldsActive, HoldsPool, OneInHand, SomeInHand
<1>3. /\ target' \in [Tasks -> Vms \cup {NoVm}] /\ left' \in [Tasks -> Nat]
      /\ \A u \in Tasks : u # t => target'[u] = target[u]
      /\ Goto(t, "idle")
  BY DEF Return, PoolInv, PoolTypeOK
<1> QED
  BY <1>1, <1>2, <1>3, ControlPreserves

-----------------------------------------------------------------------------

(* A call of any kind begins. *)
LEMMA BeginPreserves ==
  ASSUME PoolInv, NEW t \in Tasks, Begin(t)
  PROVE  PoolInv'
<1>1. PICK location \in {"acquire_pop", "list_read", "stats_active", "drain_active",
                         "release_remove", "use_find", "warm_count"} :
        \E v \in Vms \cup {NoVm}, n \in Nat : Call(t, location, v, n)
  BY PoolAssumption DEF Begin
<1>2. PICK v \in Vms \cup {NoVm}, n \in Nat : Call(t, location, v, n)
  BY <1>1
<1>3. owned[t] = {} /\ activeLock # t /\ poolLock # t
  BY <1>2 DEF Call, PoolInv, Hands, LocksHeld, HoldsActive, HoldsPool, OneInHand, SomeInHand
<1>4. location \in Location \ (HoldsActive \cup HoldsPool \cup OneInHand \cup SomeInHand)
  BY DEF Location, HoldsActive, HoldsPool, OneInHand, SomeInHand
<1>5. /\ target' \in [Tasks -> Vms \cup {NoVm}] /\ left' \in [Tasks -> Nat]
      /\ \A u \in Tasks : u # t => target'[u] = target[u]
      /\ Goto(t, location)
      /\ UNCHANGED <<active, warm, activeLock, poolLock, owned, vm, dirty>>
  BY <1>2 DEF Call, tables, locks, guests, PoolInv, PoolTypeOK
<1> QED
  BY <1>3, <1>4, <1>5, ControlPreserves

-----------------------------------------------------------------------------
(* acquire *)

(* A warm VM goes into the hands of an acquire, or the pool is empty. *)
LEMMA AcquirePopPreserves ==
  ASSUME PoolInv, NEW t \in Tasks, AcquirePop(t)
  PROVE  PoolInv'
<1>1. /\ owned[t] = {} /\ activeLock # t /\ poolLock = NoTask
      /\ t # NoTask
  BY PoolAssumption
  DEF AcquirePop, PoolFree, PoolInv, Hands, LocksHeld, HoldsActive, OneInHand, SomeInHand
<1>2. CASE warm = <<>>
  <2>1. /\ Goto(t, "acquire_check")
        /\ UNCHANGED <<active, warm, owned, vm, dirty, activeLock, poolLock, target, left>>
    BY <1>2 DEF AcquirePop, guests
  <2>2. pc[t] = "acquire_pop"
    BY DEF AcquirePop
  <2> QED
    BY <1>1, <2>1, <2>2, GoOnPreserves
    DEF Location, HoldsActive, HoldsPool, OneInHand, SomeInHand, CleanAt
<1>3. CASE warm # <<>>
  <2>1. /\ Pop /\ Own(t, {Last}) /\ Goto(t, "acquire_take") /\ poolLock' = t
        /\ UNCHANGED <<active, activeLock, target, left, vm, dirty>>
    BY <1>3 DEF AcquirePop, guests
  <2>2. /\ warm' \in Seq(Vms) /\ NoRepeats(warm')
        /\ Last \in Pooled /\ Last \in Vms /\ Pooled' = Pooled \ {Last}
    BY <1>3, <2>1, PopTakes DEF PoolInv, PoolTypeOK, OnePlace, NoRepeats
  <2>3. Hands' /\ owned' \in [Tasks -> SUBSET Vms] /\ InFlight' = InFlight \cup {Last}
    BY <1>1, <2>1, <2>2, HandsFollow DEF OneInHand
  <2>4. /\ LocksHeld' /\ pc' \in [Tasks -> Location]
        /\ activeLock' \in Tasks \cup {NoTask} /\ poolLock' \in Tasks \cup {NoTask}
    BY <1>1, <2>1, LocksFollow DEF Location, HoldsActive, HoldsPool
  <2>5. PoolTypeOK'
    BY <2>1, <2>2, <2>3, <2>4 DEF PoolInv, PoolTypeOK
  <2>6. OnePlace'
    BY <1>1, <2>1, <2>2, PlacesFollow DEF PoolInv, OnePlace
  <2>7. Accounted' /\ DirtyIsLive' /\ WarmIsClean'
    BY <2>1, <2>2, <2>3 DEF PoolInv, Accounted, DirtyIsLive, WarmIsClean, Live
  <2>8. UsedIsActive'
    BY <2>1 DEF PoolInv, PoolTypeOK, UsedIsActive, Goto
  <2>9. HandedIsClean'
    BY <2>1, <2>2 DEF PoolInv, PoolTypeOK, HandedIsClean, WarmIsClean, Goto, Own
  <2> QED
    BY <2>3, <2>4, <2>5, <2>6, <2>7, <2>8, <2>9 DEF PoolInv
<1> QED
  BY <1>2, <1>3

(* A VM goes from the hands of an acquire into the table. *)
LEMMA TablePreserves ==
  ASSUME PoolInv, NEW t \in Tasks, pc[t] \in {"acquire_take", "acquire_insert"},
         active' = active \cup owned[t], Own(t, {}), Return(t),
         UNCHANGED <<warm, activeLock, vm, dirty>>,
         \/ pc[t] = "acquire_take" /\ poolLock' = NoTask
         \/ pc[t] = "acquire_insert" /\ UNCHANGED poolLock
  PROVE  PoolInv'
<1>1. /\ activeLock # t /\ t # NoTask
      /\ poolLock = t <=> pc[t] = "acquire_take"
  BY PoolAssumption DEF PoolInv, LocksHeld, HoldsActive, HoldsPool
<1>2. Hands' /\ owned' \in [Tasks -> SUBSET Vms] /\ InFlight' = InFlight \ owned[t]
  BY HandsFollow DEF Return, OneInHand
<1>3. /\ LocksHeld' /\ pc' \in [Tasks -> Location]
      /\ activeLock' \in Tasks \cup {NoTask} /\ poolLock' \in Tasks \cup {NoTask}
  BY <1>1, LocksFollow DEF Return, Location, HoldsActive, HoldsPool
<1>4. owned[t] \subseteq InFlight /\ owned[t] \subseteq Vms /\ Pooled' = Pooled
  BY DEF InFlight, PoolInv, PoolTypeOK, Pooled
<1>5. PoolTypeOK'
  BY <1>2, <1>3, <1>4 DEF PoolInv, PoolTypeOK, Return
<1>6. OnePlace'
  BY <1>4, PlacesFollow DEF PoolInv, OnePlace, NoRepeats
<1>7. Accounted' /\ DirtyIsLive' /\ WarmIsClean'
  BY <1>2, <1>4 DEF PoolInv, Accounted, DirtyIsLive, WarmIsClean, Live
<1>8. UsedIsActive' /\ HandedIsClean'
  BY DEF PoolInv, PoolTypeOK, UsedIsActive, HandedIsClean, CleanAt, Goto, Return, Own
<1> QED
  BY <1>2, <1>3, <1>5, <1>6, <1>7, <1>8 DEF PoolInv

(* A VM starts and is in the hands of the call that created it. *)
LEMMA BootPreserves ==
  ASSUME PoolInv, NEW t \in Tasks, NEW v \in Vms, NEW location,
         \/ pc[t] = "acquire_create" /\ location = "acquire_insert"
         \/ pc[t] = "warm_create" /\ location = "warm_push",
         Boot(v), Own(t, {v}), Goto(t, location),
         UNCHANGED <<active, warm, activeLock, poolLock, target, left>>
  PROVE  PoolInv'
<1>1. owned[t] = {} /\ activeLock # t /\ poolLock # t
  BY DEF PoolInv, Hands, LocksHeld, HoldsActive, HoldsPool, OneInHand, SomeInHand
<1>2. Hands' /\ owned' \in [Tasks -> SUBSET Vms] /\ InFlight' = InFlight \cup {v}
  BY <1>1, HandsFollow DEF OneInHand
<1>3. /\ LocksHeld' /\ pc' \in [Tasks -> Location]
      /\ activeLock' \in Tasks \cup {NoTask} /\ poolLock' \in Tasks \cup {NoTask}
  BY <1>1, LocksFollow DEF Location, HoldsActive, HoldsPool
<1>4. /\ v \notin Live /\ Live' = Live \cup {v} /\ dirty' = dirty /\ Pooled' = Pooled
      /\ vm' \in [Vms -> Process]
  BY DEF Boot, Live, PoolInv, PoolTypeOK, Process, Pooled
<1>5. PoolTypeOK'
  BY <1>2, <1>3, <1>4 DEF PoolInv, PoolTypeOK
<1>6. OnePlace'
  BY <1>1, <1>4, PlacesFollow DEF PoolInv, OnePlace, NoRepeats, Accounted
<1>7. Accounted' /\ DirtyIsLive' /\ WarmIsClean'
  BY <1>2, <1>4 DEF PoolInv, Accounted, DirtyIsLive, WarmIsClean
<1>8. UsedIsActive' /\ HandedIsClean'
  BY <1>4 DEF PoolInv, PoolTypeOK, UsedIsActive, HandedIsClean, DirtyIsLive, Goto, Own
<1> QED
  BY <1>2, <1>3, <1>5, <1>6, <1>7, <1>8 DEF PoolInv

(* A call that puts one VM into the pool and goes on empty-handed. *)
LEMMA PushPreserves ==
  ASSUME PoolInv, NEW t \in Tasks, pc[t] \in {"release_push", "warm_push"},
         \E v \in owned[t] : Push(v),
         Own(t, {}), UNCHANGED <<active, activeLock, poolLock, vm, dirty>>,
         NEW location \in {"idle", "warm_create"}, Goto(t, location),
         target' \in [Tasks -> Vms \cup {NoVm}], left' \in [Tasks -> Nat],
         \A u \in Tasks : u # t => target'[u] = target[u]
  PROVE  PoolInv'
<1>1. activeLock # t /\ poolLock # t
  BY DEF PoolInv, LocksHeld, HoldsActive, HoldsPool
<1>2. PICK v \in Vms : owned[t] = {v}
  BY DEF PoolInv, Hands, OneInHand
<1>3. v \in InFlight /\ v \notin Pooled /\ v \notin dirty
  BY <1>2 DEF InFlight, PoolInv, OnePlace, HandedIsClean, CleanAt
<1>4. warm' \in Seq(Vms) /\ Pooled' = Pooled \cup {v} /\ NoRepeats(warm')
  BY <1>2, <1>3, PushAdds DEF PoolInv, PoolTypeOK, OnePlace, NoRepeats
<1>5. Hands' /\ owned' \in [Tasks -> SUBSET Vms] /\ InFlight' = InFlight \ {v}
  BY <1>2, HandsFollow DEF OneInHand
<1>6. /\ LocksHeld' /\ pc' \in [Tasks -> Location]
      /\ activeLock' \in Tasks \cup {NoTask} /\ poolLock' \in Tasks \cup {NoTask}
  BY <1>1, LocksFollow DEF Location, HoldsActive, HoldsPool
<1>7. PoolTypeOK'
  BY <1>4, <1>5, <1>6 DEF PoolInv, PoolTypeOK
<1>8. OnePlace'
  BY <1>2, <1>3, <1>4, PlacesFollow DEF PoolInv, OnePlace
<1>9. Accounted' /\ DirtyIsLive' /\ WarmIsClean'
  BY <1>3, <1>4, <1>5 DEF PoolInv, Accounted, DirtyIsLive, WarmIsClean, Live
<1>10. UsedIsActive' /\ HandedIsClean'
  BY DEF PoolInv, PoolTypeOK, UsedIsActive, HandedIsClean, CleanAt, Goto, Own
<1> QED
  BY <1>5, <1>6, <1>7, <1>8, <1>9, <1>10 DEF PoolInv

-----------------------------------------------------------------------------
(* release *)

(* A VM goes from the table into the hands of a release. *)
LEMMA ReleaseRemovePreserves ==
  ASSUME PoolInv, NEW t \in Tasks, ReleaseRemove(t), target[t] \in active
  PROVE  PoolInv'
<1>1. /\ active' = active \ {target[t]} /\ Own(t, {target[t]}) /\ Goto(t, "release_check")
      /\ UNCHANGED <<target, left, warm, activeLock, poolLock, vm, dirty>>
  BY DEF ReleaseRemove, locks, guests
<1>2. /\ owned[t] = {} /\ activeLock = NoTask /\ poolLock # t /\ target[t] \in Vms
      /\ t # NoTask
  BY PoolAssumption
  DEF ReleaseRemove, ActiveFree, PoolInv, PoolTypeOK, Hands, LocksHeld, HoldsPool,
      OneInHand, SomeInHand
<1>3. Hands' /\ owned' \in [Tasks -> SUBSET Vms] /\ InFlight' = InFlight \cup {target[t]}
  BY <1>1, <1>2, HandsFollow DEF OneInHand
<1>4. /\ LocksHeld' /\ pc' \in [Tasks -> Location]
      /\ activeLock' \in Tasks \cup {NoTask} /\ poolLock' \in Tasks \cup {NoTask}
  BY <1>1, <1>2, LocksFollow DEF Location, HoldsActive, HoldsPool
<1>5. PoolTypeOK'
  BY <1>1, <1>3, <1>4 DEF PoolInv, PoolTypeOK
<1>6. Pooled' = Pooled
  BY <1>1 DEF Pooled
<1>7. OnePlace'
  BY <1>1, <1>2, <1>6, PlacesFollow DEF PoolInv, OnePlace, NoRepeats
<1>8. Accounted' /\ DirtyIsLive' /\ WarmIsClean'
  BY <1>1, <1>3, <1>6 DEF PoolInv, Accounted, DirtyIsLive, WarmIsClean, Live
<1>9. \A u \in Tasks : pc'[u] # "use_run"
  BY <1>1, <1>2, PoolAssumption DEF PoolInv, PoolTypeOK, LocksHeld, HoldsActive, Goto
<1>10. UsedIsActive' /\ HandedIsClean'
  BY <1>1, <1>9 DEF PoolInv, PoolTypeOK, UsedIsActive, HandedIsClean, CleanAt, Goto, Own
<1> QED
  BY <1>3, <1>4, <1>5, <1>7, <1>8, <1>10 DEF PoolInv

(* The guest has unloaded everything: the VM in hand is clean. *)
LEMMA ResetPreserves ==
  ASSUME PoolInv, NEW t \in Tasks, pc[t] = "release_reset", Goto(t, "release_push"),
         dirty' = dirty \ owned[t],
         UNCHANGED <<active, warm, activeLock, poolLock, target, left, owned, vm>>
  PROVE  PoolInv'
<1>1. activeLock # t /\ poolLock # t
  BY DEF PoolInv, LocksHeld, HoldsActive, HoldsPool
<1>2. /\ LocksHeld' /\ pc' \in [Tasks -> Location]
      /\ activeLock' \in Tasks \cup {NoTask} /\ poolLock' \in Tasks \cup {NoTask}
  BY <1>1, LocksFollow DEF Location, HoldsActive, HoldsPool
<1>3. Hands'
  BY DEF PoolInv, PoolTypeOK, Hands, Goto, OneInHand
<1>4. PoolTypeOK'
  BY <1>2 DEF PoolInv, PoolTypeOK
<1>5. OnePlace' /\ Accounted' /\ DirtyIsLive' /\ WarmIsClean'
  BY DEF PoolInv, OnePlace, Accounted, DirtyIsLive, WarmIsClean, Pooled, InFlight, Live
<1>6. UsedIsActive' /\ HandedIsClean'
  BY DEF PoolInv, PoolTypeOK, UsedIsActive, HandedIsClean, CleanAt, Goto
<1> QED
  BY <1>2, <1>3, <1>4, <1>5, <1>6 DEF PoolInv

(* A call shuts down a VM it has in its hands: in release, the one it has,   *)
(* in shutdown_all, one after the other.                                     *)
LEMMA StopPreserves ==
  ASSUME PoolInv, NEW t \in Tasks, NEW v \in owned[t], Stop(v), Own(t, owned[t] \ {v}),
         NEW location \in Location, Goto(t, location),
         \/ pc[t] = "release_destroy" /\ location = "idle"
         \/ pc[t] \in SomeInHand /\ location = pc[t],
         UNCHANGED <<active, warm, activeLock, poolLock>>,
         target' \in [Tasks -> Vms \cup {NoVm}], left' \in [Tasks -> Nat],
         \A u \in Tasks : u # t => target'[u] = target[u]
  PROVE  PoolInv'
<1>1. activeLock # t /\ poolLock # t
  BY DEF PoolInv, LocksHeld, HoldsActive, HoldsPool, SomeInHand
<1>2. v \in Vms /\ v \in InFlight /\ owned[t] \subseteq InFlight /\ owned[t] \in SUBSET Vms
  BY DEF PoolInv, PoolTypeOK, InFlight
<1>3. location = "idle" => owned[t] \ {v} = {}
  BY DEF PoolInv, Hands, OneInHand, SomeInHand
<1>4. Hands' /\ owned' \in [Tasks -> SUBSET Vms] /\ InFlight' = InFlight \ {v}
  BY <1>2, <1>3, HandsFollow DEF OneInHand, SomeInHand
<1>5. /\ LocksHeld' /\ pc' \in [Tasks -> Location]
      /\ activeLock' \in Tasks \cup {NoTask} /\ poolLock' \in Tasks \cup {NoTask}
  BY <1>1, LocksFollow DEF HoldsActive, HoldsPool, SomeInHand
<1>6. /\ vm' \in [Vms -> Process] /\ dirty' = dirty \ {v} /\ Live' = Live \ {v}
      /\ Pooled' = Pooled
  BY <1>2 DEF Stop, PoolInv, PoolTypeOK, Process, Live, Pooled
<1>7. PoolTypeOK'
  BY <1>4, <1>5, <1>6 DEF PoolInv, PoolTypeOK
<1>8. OnePlace'
  <2>1. (owned[t] \ {v}) \in SUBSET Vms
    BY <1>2
  <2> QED
    BY <1>2, <1>6, <2>1, PlacesFollow DEF PoolInv, OnePlace, NoRepeats
<1>9. Accounted' /\ DirtyIsLive' /\ WarmIsClean'
  BY <1>2, <1>4, <1>6 DEF PoolInv, OnePlace, Accounted, DirtyIsLive, WarmIsClean
<1>10. UsedIsActive' /\ HandedIsClean'
  BY <1>6 DEF PoolInv, PoolTypeOK, UsedIsActive, HandedIsClean, CleanAt, Goto, Own, SomeInHand
<1> QED
  BY <1>4, <1>5, <1>7, <1>8, <1>9, <1>10 DEF PoolInv

-----------------------------------------------------------------------------
(* load_program *)

(* A guest is used under the lock, and may get a program. *)
LEMMA UseRunPreserves ==
  ASSUME PoolInv, NEW t \in Tasks, UseRun(t)
  PROVE  PoolInv'
<1>1. /\ activeLock = t /\ poolLock # t /\ t # NoTask /\ owned[t] = {}
      /\ target[t] \in active /\ active \subseteq Vms
  BY PoolAssumption
  DEF UseRun, PoolInv, PoolTypeOK, LocksHeld, Hands, UsedIsActive, HoldsActive, HoldsPool,
      OneInHand, SomeInHand
<1>2. /\ Goto(t, "idle") /\ activeLock' = NoTask
      /\ target' = [target EXCEPT ![t] = NoVm] /\ left' = [left EXCEPT ![t] = 0]
      /\ UNCHANGED <<active, warm, poolLock, owned, vm>>
      /\ dirty' \in {dirty, dirty \cup {target[t]}}
  BY DEF UseRun, Return, tables
<1>3. /\ LocksHeld' /\ pc' \in [Tasks -> Location]
      /\ activeLock' \in Tasks \cup {NoTask} /\ poolLock' \in Tasks \cup {NoTask}
  BY <1>1, <1>2, LocksFollow DEF Location, HoldsActive, HoldsPool
<1>4. Hands'
  BY <1>1, <1>2 DEF PoolInv, PoolTypeOK, Hands, Goto, OneInHand, SomeInHand
<1>5. PoolTypeOK'
  BY <1>1, <1>2, <1>3 DEF PoolInv, PoolTypeOK
<1>6. OnePlace' /\ Accounted' /\ DirtyIsLive' /\ WarmIsClean'
  <2>1. Pooled' = Pooled /\ InFlight' = InFlight /\ Live' = Live
    BY <1>2 DEF Pooled, InFlight, Live
  <2>2. OnePlace' /\ Accounted'
    BY <1>2, <2>1 DEF PoolInv, OnePlace, Accounted
  <2>3. target[t] \in Live /\ target[t] \notin Pooled
    BY <1>1 DEF PoolInv, OnePlace, Accounted
  <2>4. DirtyIsLive' /\ WarmIsClean'
    BY <1>2, <2>1, <2>3 DEF PoolInv, DirtyIsLive, WarmIsClean
  <2> QED
    BY <2>2, <2>4
<1>7. UsedIsActive'
  BY <1>2 DEF PoolInv, PoolTypeOK, UsedIsActive, Goto
<1>8. \A u \in Tasks : owned[u] \subseteq InFlight
  BY DEF InFlight
<1>9. HandedIsClean'
  BY <1>1, <1>2, <1>8 DEF PoolInv, PoolTypeOK, HandedIsClean, OnePlace, Goto
<1> QED
  BY <1>3, <1>4, <1>5, <1>6, <1>7, <1>9 DEF PoolInv

-----------------------------------------------------------------------------
(* shutdown_all *)

(* All active VMs go into the hands of a shutdown. *)
LEMMA DrainActivePreserves ==
  ASSUME PoolInv, NEW t \in Tasks, DrainActive(t)
  PROVE  PoolInv'
<1>1. /\ Own(t, active) /\ active' = {} /\ Goto(t, "stop_active")
      /\ UNCHANGED <<warm, activeLock, poolLock, target, left, vm, dirty>>
  BY DEF DrainActive, locks, guests
<1>2. /\ activeLock = NoTask /\ poolLock # t /\ owned[t] = {} /\ t # NoTask
      /\ active \in SUBSET Vms
  BY PoolAssumption
  DEF DrainActive, ActiveFree, PoolInv, PoolTypeOK, LocksHeld, Hands, HoldsPool, OneInHand,
      SomeInHand
<1>3. Hands' /\ owned' \in [Tasks -> SUBSET Vms] /\ InFlight' = InFlight \cup active
  BY <1>1, <1>2, HandsFollow DEF OneInHand, SomeInHand
<1>4. /\ LocksHeld' /\ pc' \in [Tasks -> Location]
      /\ activeLock' \in Tasks \cup {NoTask} /\ poolLock' \in Tasks \cup {NoTask}
  BY <1>1, <1>2, LocksFollow DEF Location, HoldsActive, HoldsPool
<1>5. PoolTypeOK'
  BY <1>1, <1>3, <1>4 DEF PoolInv, PoolTypeOK
<1>6. Pooled' = Pooled
  BY <1>1 DEF Pooled
<1>7. OnePlace'
  BY <1>1, <1>2, <1>6, PlacesFollow DEF PoolInv, OnePlace, NoRepeats
<1>8. Accounted' /\ DirtyIsLive' /\ WarmIsClean'
  BY <1>1, <1>3, <1>6 DEF PoolInv, Accounted, DirtyIsLive, WarmIsClean, Live
<1>9. \A u \in Tasks : pc'[u] # "use_run"
  BY <1>1, <1>2, PoolAssumption DEF PoolInv, PoolTypeOK, LocksHeld, HoldsActive, Goto
<1>10. UsedIsActive' /\ HandedIsClean'
  BY <1>1, <1>9 DEF PoolInv, PoolTypeOK, UsedIsActive, HandedIsClean, CleanAt, Goto, Own
<1> QED
  BY <1>3, <1>4, <1>5, <1>7, <1>8, <1>10 DEF PoolInv

(* All warm VMs go into the hands of a shutdown. *)
LEMMA DrainPoolPreserves ==
  ASSUME PoolInv, NEW t \in Tasks, DrainPool(t)
  PROVE  PoolInv'
<1>1. /\ Own(t, Pooled) /\ warm' = <<>> /\ Goto(t, "stop_pool")
      /\ UNCHANGED <<active, activeLock, poolLock, target, left, vm, dirty>>
  BY DEF DrainPool, locks, guests
<1>2. activeLock # t /\ poolLock # t /\ owned[t] = {} /\ Pooled \in SUBSET Vms
  <2>1. pc[t] = "drain_pool" /\ PoolTypeOK /\ LocksHeld /\ Hands
    BY DEF DrainPool, PoolInv
  <2>2. activeLock # t /\ poolLock # t
    BY <2>1 DEF LocksHeld, HoldsActive, HoldsPool
  <2>3. owned[t] = {}
    BY <2>1 DEF Hands, OneInHand, SomeInHand
  <2>4. Pooled \in SUBSET Vms
    BY <2>1 DEF PoolTypeOK, Pooled
  <2> QED
    BY <2>2, <2>3, <2>4
<1>3. Hands' /\ owned' \in [Tasks -> SUBSET Vms] /\ InFlight' = InFlight \cup Pooled
  BY <1>1, <1>2, HandsFollow DEF OneInHand, SomeInHand
<1>4. /\ LocksHeld' /\ pc' \in [Tasks -> Location]
      /\ activeLock' \in Tasks \cup {NoTask} /\ poolLock' \in Tasks \cup {NoTask}
  BY <1>1, <1>2, LocksFollow DEF Location, HoldsActive, HoldsPool
<1>5. Pooled' = {} /\ NoRepeats(warm') /\ warm' \in Seq(Vms)
  BY <1>1 DEF Pooled, NoRepeats
<1>6. PoolTypeOK'
  BY <1>1, <1>3, <1>4, <1>5 DEF PoolInv, PoolTypeOK
<1>7. OnePlace'
  BY <1>1, <1>2, <1>5, PlacesFollow DEF PoolInv, OnePlace
<1>8. Accounted' /\ DirtyIsLive' /\ WarmIsClean'
  BY <1>1, <1>3, <1>5 DEF PoolInv, Accounted, DirtyIsLive, WarmIsClean, Live
<1>9. UsedIsActive' /\ HandedIsClean'
  BY <1>1 DEF PoolInv, PoolTypeOK, UsedIsActive, HandedIsClean, CleanAt, Goto, Own
<1> QED
  BY <1>3, <1>4, <1>6, <1>7, <1>8, <1>9 DEF PoolInv

-----------------------------------------------------------------------------

(* A crash changes nothing about who has the VM. *)
LEMMA CrashPreserves ==
  ASSUME PoolInv, NEW v \in Vms, Crash(v)
  PROVE  PoolInv'
<1>1. /\ vm' = [vm EXCEPT ![v] = "crashed"] /\ vm[v] = "running"
      /\ UNCHANGED <<active, warm, activeLock, poolLock, pc, target, left, owned, dirty>>
  BY DEF Crash, tables, locks, locals
<1>2. Live' = Live
  BY <1>1 DEF Live, PoolInv, PoolTypeOK
<1>3. PoolTypeOK'
  BY <1>1 DEF PoolInv, PoolTypeOK, Process
<1> QED
  BY <1>1, <1>2, <1>3
  DEF PoolInv, LocksHeld, Hands, OnePlace, Accounted, UsedIsActive, DirtyIsLive,
      HandedIsClean, CleanAt, WarmIsClean, Pooled, InFlight

(* A stuttering step keeps the invariant. *)
LEMMA PoolStutterPreserves ==
  ASSUME PoolInv, UNCHANGED vars
  PROVE  PoolInv'
<1>1. UNCHANGED <<active, warm, activeLock, poolLock, pc, target, left, owned, vm, dirty>>
  BY DEF vars
<1>2. Pooled' = Pooled /\ InFlight' = InFlight /\ Live' = Live
  BY <1>1 DEF Pooled, InFlight, Live
<1>3. PoolTypeOK' /\ LocksHeld' /\ Hands'
  BY <1>1 DEF PoolInv, PoolTypeOK, LocksHeld, Hands
<1> QED
  BY <1>1, <1>2, <1>3
  DEF PoolInv, OnePlace, Accounted, UsedIsActive, DirtyIsLive, HandedIsClean, WarmIsClean

(* A call that has counted both tables lets the first one go and returns. *)
LEMMA CountReturnPreserves ==
  ASSUME PoolInv, NEW t \in Tasks, Return(t), pc[t] \in {"acquire_count", "stats_pool"},
         activeLock' = NoTask, UNCHANGED <<active, warm, poolLock, owned, vm, dirty>>
  PROVE  PoolInv'
<1>1. activeLock = t /\ owned[t] = {} /\ pc[t] \notin HoldsPool
  BY DEF PoolInv, LocksHeld, Hands, HoldsActive, HoldsPool, OneInHand, SomeInHand
<1> QED
  BY <1>1, ReturnPreserves

(* The steps that only move a task on, and may take or let go of a lock. *)
LEMMA ControlStepPreserves ==
  ASSUME PoolInv, NEW t \in Tasks,
         \/ AcquireCheck(t) \/ AcquireCount(t) \/ ReleaseCheck(t) \/ UseFind(t)
         \/ ListActive(t) \/ StatsActive(t) \/ StatsPool(t)
  PROVE  PoolInv'
<1> USE DEF tables, locks, guests, HoldsActive, HoldsPool, OneInHand, SomeInHand
<1>1. t # NoTask /\ (activeLock = t <=> pc[t] \in HoldsActive)
  BY PoolAssumption DEF PoolInv, LocksHeld
<1>2. CASE AcquireCheck(t)
  BY <1>1, <1>2, GoOnPreserves DEF AcquireCheck, ActiveFree, Location,
                                                CleanAt
<1>3. CASE AcquireCount(t)
  <2>1. CASE Total >= MaxTotal
    <3>1. /\ Return(t) /\ pc[t] = "acquire_count"
          /\ activeLock' = NoTask /\ UNCHANGED <<active, warm, poolLock, owned, vm, dirty>>
      BY <1>3, <2>1 DEF AcquireCount
    <3> QED
      BY <3>1, CountReturnPreserves
  <2>2. CASE ~(Total >= MaxTotal)
    BY <1>1, <1>3, <2>2, GoOnPreserves DEF AcquireCount, Location, CleanAt
  <2> QED
    BY <2>1, <2>2
<1>4. CASE ReleaseCheck(t)
  <2>1. PICK location \in {"release_reset", "release_destroy"} : Goto(t, location)
    BY <1>4 DEF ReleaseCheck
  <2> QED
    BY <1>1, <1>4, <2>1, GoOnPreserves DEF ReleaseCheck, Location, CleanAt
<1>5. CASE UseFind(t)
  <2>1. CASE target[t] \in active
    BY <1>1, <1>5, <2>1, GoOnPreserves DEF UseFind, ActiveFree, Location, CleanAt
  <2>2. CASE target[t] \notin active
    BY <1>1, <1>5, <2>2, ReturnPreserves DEF UseFind
  <2> QED
    BY <2>1, <2>2
<1>6. CASE ListActive(t)
  BY <1>1, <1>6, ReturnPreserves DEF ListActive
<1>7. CASE StatsActive(t)
  <2>1. /\ Goto(t, "stats_pool") /\ pc[t] = "stats_active"
        /\ activeLock = NoTask /\ activeLock' = t
        /\ UNCHANGED <<active, warm, poolLock, target, left, owned, vm, dirty>>
    BY <1>7 DEF StatsActive, ActiveFree
  <2> QED
    BY <1>1, <2>1, GoOnPreserves DEF Location, CleanAt
<1>8. CASE StatsPool(t)
  <2>1. /\ Return(t) /\ pc[t] = "stats_pool"
        /\ activeLock' = NoTask /\ UNCHANGED <<active, warm, poolLock, owned, vm, dirty>>
    BY <1>8 DEF StatsPool
  <2> QED
    BY <2>1, CountReturnPreserves
<1> QED
  BY <1>2, <1>3, <1>4, <1>5, <1>6, <1>7, <1>8

(* The steps of acquire that move a VM keep the invariant. *)
LEMMA AcquireStepPreserves ==
  ASSUME PoolInv, NEW t \in Tasks, AcquireTake(t) \/ AcquireCreate(t) \/ AcquireInsert(t)
  PROVE  PoolInv'
<1> USE DEF tables, locks, guests
<1>1. CASE AcquireTake(t)
  BY <1>1, TablePreserves DEF AcquireTake
<1>2. CASE AcquireInsert(t)
  BY <1>2, TablePreserves DEF AcquireInsert
<1>3. CASE AcquireCreate(t)
  <2>1. CASE Return(t) /\ UNCHANGED <<owned, guests>>
    <3>1. activeLock # t /\ pc[t] = "acquire_create"
      BY <1>3 DEF AcquireCreate, PoolInv, LocksHeld, HoldsActive
    <3> QED
      BY <1>3, <2>1, <3>1, ReturnPreserves
      DEF AcquireCreate, HoldsPool, OneInHand, SomeInHand
  <2>2. CASE \E v \in Vms : /\ Boot(v) /\ Own(t, {v}) /\ Goto(t, "acquire_insert")
                            /\ UNCHANGED <<target, left>>
    BY <1>3, <2>2, BootPreserves DEF AcquireCreate
  <2> QED
    BY <1>3, <2>1, <2>2 DEF AcquireCreate
<1> QED
  BY <1>1, <1>2, <1>3

(* The steps of release that move a VM keep the invariant. *)
LEMMA ReleaseStepPreserves ==
  ASSUME PoolInv, NEW t \in Tasks,
         ReleaseRemove(t) \/ ReleaseReset(t) \/ ReleasePush(t) \/ ReleaseDestroy(t)
  PROVE  PoolInv'
<1> USE DEF tables, locks, guests
<1>1. activeLock = t <=> pc[t] \in HoldsActive
  BY DEF PoolInv, LocksHeld
<1>2. Return(t) => /\ target' \in [Tasks -> Vms \cup {NoVm}]
                   /\ left' \in [Tasks -> Nat]
                   /\ \A u \in Tasks : u # t => target'[u] = target[u]
  BY DEF Return, PoolInv, PoolTypeOK
<1>3. CASE ReleaseRemove(t)
  <2>1. CASE target[t] \in active
    BY <1>3, <2>1, ReleaseRemovePreserves
  <2>2. CASE target[t] \notin active
    BY <1>1, <1>3, <2>2, ReturnPreserves
    DEF ReleaseRemove, HoldsActive, HoldsPool, OneInHand, SomeInHand
  <2> QED
    BY <2>1, <2>2
<1>4. CASE ReleaseReset(t)
  <2>1. CASE Goto(t, "release_push") /\ dirty' = dirty \ owned[t]
    BY <1>4, <2>1, ResetPreserves DEF ReleaseReset
  <2>2. CASE Goto(t, "release_destroy") /\ UNCHANGED dirty
    BY <1>1, <1>4, <2>2, GoOnPreserves
    DEF ReleaseReset, HoldsActive, HoldsPool, OneInHand, SomeInHand, Location, CleanAt
  <2> QED
    BY <1>4, <2>1, <2>2 DEF ReleaseReset
<1>5. CASE ReleasePush(t)
  BY <1>2, <1>5, PushPreserves DEF ReleasePush, Return
<1>6. CASE ReleaseDestroy(t)
  <2>1. PICK v \in owned[t] : Stop(v)
    BY <1>6 DEF ReleaseDestroy
  <2>2. owned[t] \ {v} = {}
    BY <1>6, <2>1 DEF ReleaseDestroy, PoolInv, Hands, OneInHand
  <2> QED
    BY <1>2, <1>6, <2>1, <2>2, StopPreserves DEF ReleaseDestroy, Return, Location
<1> QED
  BY <1>3, <1>4, <1>5, <1>6

(* The steps of warm_up keep the invariant. *)
LEMMA WarmUpStepPreserves ==
  ASSUME PoolInv, NEW t \in Tasks, WarmUpCount(t) \/ WarmUpCreate(t) \/ WarmUpPush(t)
  PROVE  PoolInv'
<1> USE DEF tables, locks, guests
<1>1. /\ activeLock = t <=> pc[t] \in HoldsActive
      /\ poolLock = t <=> pc[t] \in HoldsPool
      /\ pc[t] \notin OneInHand \cup SomeInHand => owned[t] = {}
      /\ left[t] \in Nat
  BY DEF PoolInv, PoolTypeOK, LocksHeld, Hands
<1>2. CASE WarmUpCount(t)
  <2> DEFINE missing == left[t] - Len(warm)
  <2>1. CASE missing > 0
    <3>1. missing \in Nat
      BY <1>1, <2>1 DEF PoolInv, PoolTypeOK
    <3>2. /\ UNCHANGED target /\ target' \in [Tasks -> Vms \cup {NoVm}]
          /\ left' \in [Tasks -> Nat] /\ Goto(t, "warm_create")
      BY <1>2, <2>1, <3>1 DEF WarmUpCount, PoolInv, PoolTypeOK
    <3>3. UNCHANGED <<active, warm, activeLock, poolLock, owned, vm, dirty>>
      BY <1>2 DEF WarmUpCount
    <3>4. "warm_create" \in Location \ (HoldsActive \cup HoldsPool \cup OneInHand \cup SomeInHand)
      BY DEF Location, HoldsActive, HoldsPool, OneInHand, SomeInHand
    <3>5. owned[t] = {} /\ activeLock # t /\ poolLock # t
      BY <1>1, <1>2 DEF WarmUpCount, HoldsActive, HoldsPool, OneInHand, SomeInHand
    <3>6. "warm_create" # "use_run"
      OBVIOUS
    <3> QED
      BY <3>2, <3>3, <3>4, <3>5, <3>6, ControlPreserves
  <2>2. CASE ~(missing > 0)
    BY <1>1, <1>2, <2>2, ReturnPreserves
    DEF WarmUpCount, HoldsActive, HoldsPool, OneInHand, SomeInHand
  <2> QED
    BY <2>1, <2>2
<1>3. CASE WarmUpCreate(t)
  <2>1. CASE Return(t) /\ UNCHANGED <<owned, guests>>
    BY <1>1, <1>3, <2>1, ReturnPreserves
    DEF WarmUpCreate, HoldsActive, HoldsPool, OneInHand, SomeInHand
  <2>2. CASE \E v \in Vms : /\ Boot(v) /\ Own(t, {v}) /\ Goto(t, "warm_push")
                            /\ UNCHANGED <<target, left>>
    BY <1>3, <2>2, BootPreserves DEF WarmUpCreate
  <2> QED
    BY <1>3, <2>1, <2>2 DEF WarmUpCreate
<1>4. CASE WarmUpPush(t)
  <2>1. /\ target' \in [Tasks -> Vms \cup {NoVm}] /\ left' \in [Tasks -> Nat]
        /\ \A u \in Tasks : u # t => target'[u] = target[u]
    BY <1>1, <1>4 DEF WarmUpPush, Return, PoolInv, PoolTypeOK
  <2>2. PICK location \in {"idle", "warm_create"} : Goto(t, location)
    BY <1>4 DEF WarmUpPush, Return
  <2> QED
    BY <1>4, <2>1, <2>2, PushPreserves DEF WarmUpPush
<1> QED
  BY <1>2, <1>3, <1>4

(* The steps of shutdown_all keep the invariant. *)
LEMMA ShutdownStepPreserves ==
  ASSUME PoolInv, NEW t \in Tasks, StopActive(t) \/ StopPool(t)
  PROVE  PoolInv'
<1> USE DEF tables, locks, guests
<1>1. activeLock = t <=> pc[t] \in HoldsActive
  BY DEF PoolInv, LocksHeld
<1>2. /\ pc = [pc EXCEPT ![t] = pc[t]] /\ pc[t] \in Location
      /\ target \in [Tasks -> Vms \cup {NoVm}] /\ left \in [Tasks -> Nat]
  BY DEF PoolInv, PoolTypeOK
<1>3. ASSUME NEW v \in owned[t], Stop(v), Own(t, owned[t] \ {v}),
             UNCHANGED <<pc, target, left, active, warm, activeLock, poolLock>>,
             pc[t] \in SomeInHand
      PROVE  PoolInv'
  BY <1>2, <1>3, StopPreserves DEF Goto
<1>4. CASE StopActive(t)
  <2>1. CASE owned[t] = {} /\ Goto(t, "drain_pool") /\ UNCHANGED <<owned, guests>>
    <3>1. /\ UNCHANGED target /\ target' \in [Tasks -> Vms \cup {NoVm}]
          /\ left' \in [Tasks -> Nat]
      BY <1>4 DEF StopActive, PoolInv, PoolTypeOK
    <3>2. activeLock # t /\ poolLock # t
      BY <1>4 DEF StopActive, PoolInv, LocksHeld, HoldsActive, HoldsPool
    <3>3. "drain_pool" \in Location \ (HoldsActive \cup HoldsPool \cup OneInHand \cup SomeInHand)
      BY DEF Location, HoldsActive, HoldsPool, OneInHand, SomeInHand
    <3>4. UNCHANGED <<active, warm, activeLock, poolLock, owned, vm, dirty>>
      BY <1>4, <2>1 DEF StopActive
    <3> QED
      BY <2>1, <3>1, <3>2, <3>3, <3>4, ControlPreserves
  <2> QED
    BY <1>3, <1>4, <2>1 DEF StopActive, SomeInHand
<1>5. CASE StopPool(t)
  <2>1. CASE owned[t] = {} /\ Return(t) /\ UNCHANGED <<owned, guests>>
    BY <1>1, <1>5, <2>1, ReturnPreserves DEF StopPool, HoldsActive, HoldsPool
  <2> QED
    BY <1>3, <1>5, <2>1 DEF StopPool, SomeInHand
<1> QED
  BY <1>4, <1>5

-----------------------------------------------------------------------------

(* Every step of a task keeps the invariant. *)
LEMMA PoolStepPreserves ==
  ASSUME PoolInv, [PoolNext]_vars
  PROVE  PoolInv'
<1>1. ASSUME NEW t \in Tasks, Begin(t)
      PROVE  PoolInv'
  BY <1>1, BeginPreserves
<1>2. ASSUME NEW t \in Tasks, Step(t)
      PROVE  PoolInv'
  BY <1>2, AcquirePopPreserves, AcquireStepPreserves, ReleaseStepPreserves,
     UseRunPreserves, WarmUpStepPreserves, DrainActivePreserves, DrainPoolPreserves,
     ShutdownStepPreserves, ControlStepPreserves DEF Step
<1>3. ASSUME NEW v \in Vms, Crash(v)
      PROVE  PoolInv'
  BY <1>3, CrashPreserves
<1>4. CASE UNCHANGED vars
  BY <1>4, PoolStutterPreserves
<1> QED
  BY <1>1, <1>2, <1>3, <1>4 DEF PoolNext

(* The inductive invariant holds of every reachable state of the manager. *)
THEOREM PoolInvariant == PoolSpec => []PoolInv
<1>1. PoolInit => PoolInv
  BY PoolAssumption
  DEF PoolInit, PoolInv, PoolTypeOK, LocksHeld, Hands, OnePlace, Accounted, UsedIsActive,
      DirtyIsLive, HandedIsClean, WarmIsClean, Pooled, InFlight, Live, Location, Process,
      HoldsActive, HoldsPool, OneInHand, SomeInHand
<1>2. PoolInv /\ [PoolNext]_vars => PoolInv'
  BY PoolStepPreserves
<1> QED
  BY <1>1, <1>2, PTL DEF PoolSpec

(* Type correctness of the manager's tables, locks and calls. *)
THEOREM PoolTypeCorrect == PoolSpec => []PoolTypeOK
<1>1. PoolInv => PoolTypeOK
  BY DEF PoolInv
<1> QED
  BY <1>1, PoolInvariant, PTL

(* A VM has one place at a time, for any number of concurrent calls. *)
THEOREM VmsAreOwned == PoolSpec => []OnePlace
<1>1. PoolInv => OnePlace
  BY DEF PoolInv
<1> QED
  BY <1>1, PoolInvariant, PTL

(* The Firecracker processes that run are those of the VMs that have a       *)
(* place, whatever fails or crashes.                                         *)
THEOREM ProcessesAreAccounted == PoolSpec => []Accounted
<1>1. PoolInv => Accounted
  BY DEF PoolInv
<1> QED
  BY <1>1, PoolInvariant, PTL

(* No two calls talk to one guest at the same time. *)
THEOREM ChannelsAreExclusive == PoolSpec => []ExclusiveChannel
<1>1. PoolInv => ExclusiveChannel
  <2> SUFFICES ASSUME PoolInv, NEW t \in Tasks, NEW u \in Tasks, NEW v \in Vms,
                      Talking(t, v), Talking(u, v), t # u
               PROVE  FALSE
    BY DEF ExclusiveChannel
  <2>1. CASE pc[t] = "use_run" /\ pc[u] = "use_run"
    BY <2>1 DEF PoolInv, LocksHeld, HoldsActive
  <2>2. \A w \in Tasks : /\ pc[w] # "use_run" /\ Talking(w, v) => v \in owned[w] /\ v \in InFlight
                         /\ pc[w] = "use_run" /\ Talking(w, v) => v \in active
    BY DEF Talking, PoolInv, UsedIsActive, InFlight
  <2> QED
    BY <2>1, <2>2 DEF PoolInv, OnePlace
<1> QED
  BY <1>1, PoolInvariant, PTL

(* A VM in the warm pool has no program left in it by its last user. *)
THEOREM WarmVmsAreClean == PoolSpec => []WarmIsClean
<1>1. PoolInv => WarmIsClean
  BY DEF PoolInv
<1> QED
  BY <1>1, PoolInvariant, PTL

-----------------------------------------------------------------------------
(* The limits.  A count is followed by at most as many arrivals as there are *)
(* tasks, and every other step moves a VM from one side of the sum to the    *)
(* other, so both bounds are inductive once no task is in a warm_up.         *)

ArrivingAt == {"acquire_take", "acquire_create", "acquire_insert",
               "release_check", "release_reset", "release_push"}
ParkingAt == {"release_reset", "release_push"}
WarmingUp == {"warm_count", "warm_create", "warm_push"}

One(x, S) == IF x \in S THEN 1 ELSE 0

BoundsInv ==
  WarmCounts = {} => /\ IsFiniteSet(active)
                     /\ \A t \in Tasks : pc[t] \notin WarmingUp
                     /\ OverrunBounded
                     /\ ParkingBounded

(* How many tasks a set has after t has joined or left it. *)
LEMMA CountFollows ==
  ASSUME NEW S \in SUBSET Tasks, NEW T \in SUBSET Tasks, NEW t \in Tasks,
         T = S \cup {t} \/ T = S \ {t}
  PROVE  /\ Cardinality(S) \in Nat /\ Cardinality(T) \in Nat
         /\ Cardinality(Tasks) \in Nat /\ Cardinality(T) <= Cardinality(Tasks)
         /\ Cardinality(T) = Cardinality(S) - One(t, S) + One(t, T)
<1>1. IsFiniteSet(S) /\ IsFiniteSet(T) /\ Cardinality(T) <= Cardinality(Tasks)
  BY TasksAssumption, FS_Subset
<1>2. Cardinality(S) \in Nat /\ Cardinality(T) \in Nat /\ Cardinality(Tasks) \in Nat
  BY <1>1, TasksAssumption, FS_CardinalityType
<1>3. CASE T = S \cup {t}
  <2>1. Cardinality(T) = IF t \in S THEN Cardinality(S) ELSE Cardinality(S) + 1
    BY <1>1, <1>3, FS_AddElement
  <2> QED
    BY <1>1, <1>2, <1>3, <2>1 DEF One
<1>4. CASE T = S \ {t}
  <2>1. Cardinality(T) = IF t \in S THEN Cardinality(S) - 1 ELSE Cardinality(S)
    BY <1>1, <1>4, FS_RemoveElement
  <2> QED
    BY <1>1, <1>2, <1>4, <2>1 DEF One
<1> QED
  BY <1>3, <1>4

(* A step keeps the bounds that moves a VM at most from the hands of its     *)
(* task to the tables, or that has just found room under a limit.            *)
LEMMA BoundsFollow ==
  ASSUME PoolTypeOK, PoolTypeOK', BoundsInv, WarmCounts = {},
         NEW t \in Tasks, NEW location, Goto(t, location),
         location \notin WarmingUp, IsFiniteSet(active'),
         \/ Total' + One(location, ArrivingAt) <= Total + One(pc[t], ArrivingAt)
         \/ Total' < MaxTotal,
         \/ Len(warm') + One(location, ParkingAt) <= Len(warm) + One(pc[t], ParkingAt)
         \/ Len(warm') < MaxWarm
  PROVE  BoundsInv'
<1>1. /\ Arriving' = IF location \in ArrivingAt THEN Arriving \cup {t} ELSE Arriving \ {t}
      /\ t \in Arriving <=> pc[t] \in ArrivingAt
  BY DEF PoolTypeOK, Goto, Arriving, ArrivingAt
<1>2. /\ Parking' = IF location \in ParkingAt THEN Parking \cup {t} ELSE Parking \ {t}
      /\ t \in Parking <=> pc[t] \in ParkingAt
  BY DEF PoolTypeOK, Goto, Parking, ParkingAt
<1>3. /\ Arriving \in SUBSET Tasks /\ Arriving' \in SUBSET Tasks
      /\ Parking \in SUBSET Tasks /\ Parking' \in SUBSET Tasks
  BY DEF Arriving, Parking
<1>4. /\ Cardinality(Arriving) \in Nat /\ Cardinality(Arriving') \in Nat
      /\ Cardinality(Tasks) \in Nat /\ Cardinality(Arriving') <= Cardinality(Tasks)
      /\ Cardinality(Arriving') = Cardinality(Arriving) - One(pc[t], ArrivingAt)
                                    + One(location, ArrivingAt)
  <2>1. Arriving' = Arriving \cup {t} \/ Arriving' = Arriving \ {t}
    BY <1>1
  <2>2. One(t, Arriving) = One(pc[t], ArrivingAt) /\ One(t, Arriving') = One(location, ArrivingAt)
    BY <1>1 DEF One
  <2>3. /\ Cardinality(Arriving) \in Nat /\ Cardinality(Arriving') \in Nat
        /\ Cardinality(Tasks) \in Nat /\ Cardinality(Arriving') <= Cardinality(Tasks)
        /\ Cardinality(Arriving') = Cardinality(Arriving) - One(t, Arriving) + One(t, Arriving')
    BY <1>3, <2>1, CountFollows
  <2> QED
    BY <2>2, <2>3
<1>5. /\ Cardinality(Parking) \in Nat /\ Cardinality(Parking') \in Nat
      /\ Cardinality(Parking') <= Cardinality(Tasks)
      /\ Cardinality(Parking') = Cardinality(Parking) - One(pc[t], ParkingAt)
                                   + One(location, ParkingAt)
  <2>1. Parking' = Parking \cup {t} \/ Parking' = Parking \ {t}
    BY <1>2
  <2>2. One(t, Parking) = One(pc[t], ParkingAt) /\ One(t, Parking') = One(location, ParkingAt)
    BY <1>2 DEF One
  <2>3. /\ Cardinality(Parking) \in Nat /\ Cardinality(Parking') \in Nat
        /\ Cardinality(Tasks) \in Nat /\ Cardinality(Parking') <= Cardinality(Tasks)
        /\ Cardinality(Parking') = Cardinality(Parking) - One(t, Parking) + One(t, Parking')
    BY <1>3, <2>1, CountFollows
  <2> QED
    BY <2>2, <2>3
<1>6. /\ Cardinality(active) \in Nat /\ Cardinality(active') \in Nat
      /\ Len(warm) \in Nat /\ Len(warm') \in Nat
      /\ MaxTotal \in Nat /\ MaxWarm \in Nat
  BY FS_CardinalityType, PoolAssumption DEF BoundsInv, PoolTypeOK
<1>7. /\ Total \in Nat /\ Total' \in Nat
      /\ One(pc[t], ArrivingAt) \in {0, 1} /\ One(location, ArrivingAt) \in {0, 1}
      /\ One(pc[t], ParkingAt) \in {0, 1} /\ One(location, ParkingAt) \in {0, 1}
  BY <1>6 DEF Total, One
<1>8. OverrunBounded'
  <2>1. Total + Cardinality(Arriving) < MaxTotal + Cardinality(Tasks)
    BY DEF BoundsInv, OverrunBounded
  <2>2. Total' + Cardinality(Arriving') < MaxTotal + Cardinality(Tasks)
    <3>1. CASE Total' + One(location, ArrivingAt) <= Total + One(pc[t], ArrivingAt)
      <4>1. Total' + Cardinality(Arriving') <= Total + Cardinality(Arriving)
        BY <1>4, <1>7, <3>1
      <4> QED
        BY <1>4, <1>6, <1>7, <2>1, <4>1
    <3>2. CASE Total' < MaxTotal
      BY <1>4, <1>6, <1>7, <3>2
    <3> QED
      BY <3>1, <3>2
  <2> QED
    BY <2>2 DEF OverrunBounded
<1>9. ParkingBounded'
  <2>1. \/ Len(warm) + Cardinality(Parking) < MaxWarm + Cardinality(Tasks)
        \/ Len(warm) + Cardinality(Parking) <= MaxWarm
    BY DEF BoundsInv, ParkingBounded
  <2>2. CASE Len(warm') < MaxWarm
    BY <1>4, <1>5, <1>6, <2>2 DEF ParkingBounded
  <2>3. CASE Len(warm') + One(location, ParkingAt) <= Len(warm) + One(pc[t], ParkingAt)
    <3>1. Len(warm') + Cardinality(Parking') <= Len(warm) + Cardinality(Parking)
      BY <1>5, <1>6, <1>7, <2>3
    <3> QED
      BY <1>4, <1>5, <1>6, <2>1, <3>1 DEF ParkingBounded
  <2> QED
    BY <2>2, <2>3
<1>10. \A u \in Tasks : pc'[u] \notin WarmingUp
  BY DEF BoundsInv, PoolTypeOK, Goto
<1> QED
  BY <1>8, <1>9, <1>10 DEF BoundsInv

(* A step that moves no VM, and whose task is no nearer to an arrival. *)
LEMMA QuietBounds ==
  ASSUME PoolTypeOK, PoolTypeOK', BoundsInv, WarmCounts = {},
         NEW t \in Tasks, NEW location, Goto(t, location),
         location \notin WarmingUp,
         location \in ArrivingAt => pc[t] \in ArrivingAt,
         location \in ParkingAt => pc[t] \in ParkingAt,
         UNCHANGED <<active, warm>>
  PROVE  BoundsInv'
<1>1. /\ IsFiniteSet(active') /\ Total' = Total /\ Len(warm') = Len(warm)
      /\ Cardinality(active) \in Nat /\ Len(warm) \in Nat /\ Total \in Nat
  BY FS_CardinalityType DEF BoundsInv, Total, PoolTypeOK
<1>2. /\ One(location, ArrivingAt) <= One(pc[t], ArrivingAt)
      /\ One(location, ParkingAt) <= One(pc[t], ParkingAt)
      /\ One(pc[t], ArrivingAt) \in {0, 1} /\ One(location, ArrivingAt) \in {0, 1}
      /\ One(pc[t], ParkingAt) \in {0, 1} /\ One(location, ParkingAt) \in {0, 1}
  BY DEF One
<1>3. /\ Total' + One(location, ArrivingAt) <= Total + One(pc[t], ArrivingAt)
      /\ Len(warm') + One(location, ParkingAt) <= Len(warm) + One(pc[t], ParkingAt)
  BY <1>1, <1>2
<1> QED
  BY <1>1, <1>3, BoundsFollow

(* The steps that only move a task on. *)
LEMMA QuietStepBounds ==
  ASSUME PoolTypeOK, PoolTypeOK', BoundsInv, WarmCounts = {}, NEW t \in Tasks,
         \/ Begin(t) \/ AcquireCheck(t) \/ AcquireCreate(t) \/ ReleaseReset(t)
         \/ ReleaseDestroy(t) \/ UseFind(t) \/ UseRun(t) \/ ListActive(t)
         \/ StatsActive(t) \/ StatsPool(t) \/ StopActive(t) \/ StopPool(t)
  PROVE  BoundsInv'
<1> USE DEF tables, locks, guests, Return
<1>1. CASE Begin(t)
  <2>1. PICK location \in {"acquire_pop", "list_read", "stats_active", "drain_active",
                           "release_remove", "use_find"} :
          /\ Goto(t, location)
          /\ UNCHANGED <<active, warm>>
    BY <1>1 DEF Begin, Call
  <2> QED
    BY <2>1, QuietBounds DEF WarmingUp, ArrivingAt, ParkingAt
<1>2. CASE AcquireCreate(t)
  <2>1. PICK location \in {"idle", "acquire_insert"} : Goto(t, location)
    BY <1>2 DEF AcquireCreate
  <2> QED
    BY <1>2, <2>1, QuietBounds DEF AcquireCreate, WarmingUp, ArrivingAt, ParkingAt
<1>3. CASE ReleaseReset(t)
  <2>1. PICK location \in {"release_push", "release_destroy"} : Goto(t, location)
    BY <1>3 DEF ReleaseReset
  <2> QED
    BY <1>3, <2>1, QuietBounds DEF ReleaseReset, WarmingUp, ArrivingAt, ParkingAt
<1>4. CASE AcquireCheck(t) \/ ReleaseDestroy(t) \/ UseFind(t) \/ UseRun(t)
           \/ ListActive(t) \/ StatsActive(t) \/ StatsPool(t)
  <2>1. PICK location \in {"idle", "acquire_count", "use_run", "stats_pool"} :
          Goto(t, location) /\ UNCHANGED <<active, warm>>
    BY <1>4 DEF AcquireCheck, ReleaseDestroy, UseFind, UseRun, ListActive, StatsActive,
                StatsPool
  <2> QED
    BY <2>1, QuietBounds DEF WarmingUp, ArrivingAt, ParkingAt
<1>5. CASE StopActive(t) \/ StopPool(t)
  <2>1. PICK location \in {"idle", "stop_active", "drain_pool", "stop_pool"} :
          Goto(t, location) /\ UNCHANGED <<active, warm>>
    <3>1. pc = [pc EXCEPT ![t] = pc[t]] /\ UNCHANGED <<active, warm>>
      BY <1>5 DEF PoolTypeOK, StopActive, StopPool
    <3> QED
      BY <1>5, <3>1 DEF StopActive, StopPool, Goto
  <2> QED
    BY <2>1, QuietBounds DEF WarmingUp, ArrivingAt, ParkingAt
<1> QED
  BY <1>1, <1>2, <1>3, <1>4, <1>5

(* The steps of acquire and release that count, or move a VM. *)
LEMMA MovingStepBounds ==
  ASSUME PoolInv, PoolTypeOK', BoundsInv, WarmCounts = {}, NEW t \in Tasks,
         \/ AcquirePop(t) \/ AcquireTake(t) \/ AcquireCount(t) \/ AcquireInsert(t)
         \/ ReleaseRemove(t) \/ ReleaseCheck(t) \/ ReleasePush(t)
         \/ DrainActive(t) \/ DrainPool(t)
  PROVE  BoundsInv'
<1>1. /\ IsFiniteSet(active) /\ Cardinality(active) \in Nat
      /\ Len(warm) \in Nat /\ Len(warm') \in Nat /\ PoolTypeOK
      /\ MaxTotal \in Nat /\ MaxWarm \in Nat
  <2>1. IsFiniteSet(active)
    BY DEF BoundsInv
  <2>2. Cardinality(active) \in Nat
    BY <2>1, FS_CardinalityType
  <2>3. PoolTypeOK
    BY DEF PoolInv
  <2>4. warm \in Seq(Vms) /\ warm' \in Seq(Vms)
    BY <2>3 DEF PoolTypeOK
  <2>5. Len(warm) \in Nat /\ Len(warm') \in Nat
    BY <2>4
  <2> QED
    BY <2>1, <2>2, <2>3, <2>5, PoolAssumption
<1> USE DEF tables, locks, guests, Return
<1>2. CASE AcquirePop(t)
  <2>1. CASE warm = <<>>
    BY <1>1, <1>2, <2>1, QuietBounds DEF AcquirePop, WarmingUp, ArrivingAt, ParkingAt
  <2>2. CASE warm # <<>>
    <3>1. Goto(t, "acquire_take") /\ UNCHANGED active /\ pc[t] = "acquire_pop" /\ Pop
      BY <1>2, <2>2 DEF AcquirePop
    <3>2. Len(warm') = Len(warm) - 1
      BY <2>2, <3>1, PopTakes DEF PoolInv, PoolTypeOK, OnePlace, NoRepeats
    <3> QED
      BY <1>1, <3>1, <3>2, BoundsFollow DEF Total, One, WarmingUp, ArrivingAt, ParkingAt
  <2> QED
    BY <2>1, <2>2
<1>3. CASE AcquireTake(t) \/ AcquireInsert(t)
  <2>1. PICK v \in Vms : owned[t] = {v}
    BY <1>3 DEF AcquireTake, AcquireInsert, PoolInv, Hands, OneInHand
  <2>2. /\ Goto(t, "idle") /\ active' = active \cup {v} /\ UNCHANGED warm
        /\ pc[t] \in ArrivingAt \ ParkingAt
    BY <1>3, <2>1 DEF AcquireTake, AcquireInsert, ArrivingAt, ParkingAt
  <2>3. /\ IsFiniteSet(active') /\ Cardinality(active') \in Nat
        /\ Cardinality(active') <= Cardinality(active) + 1
    <3>1. /\ IsFiniteSet(active')
          /\ Cardinality(active') = IF v \in active THEN Cardinality(active)
                                   ELSE Cardinality(active) + 1
      BY <1>1, <2>2, FS_AddElement
    <3> QED
      BY <1>1, <3>1
  <2>4. Total' + One("idle", ArrivingAt) <= Total + One(pc[t], ArrivingAt)
    BY <1>1, <2>2, <2>3 DEF Total, One, ArrivingAt
  <2>5. Len(warm') + One("idle", ParkingAt) <= Len(warm) + One(pc[t], ParkingAt)
    BY <1>1, <2>2 DEF One, ParkingAt
  <2> QED
    BY <1>1, <2>2, <2>3, <2>4, <2>5, BoundsFollow DEF WarmingUp
<1>4. CASE AcquireCount(t)
  <2>1. UNCHANGED <<active, warm>> /\ pc[t] = "acquire_count"
    BY <1>4 DEF AcquireCount
  <2>2. CASE Total >= MaxTotal
    BY <1>1, <1>4, <2>1, <2>2, QuietBounds
    DEF AcquireCount, WarmingUp, ArrivingAt, ParkingAt
  <2>3. CASE ~(Total >= MaxTotal)
    <3>1. Goto(t, "acquire_create")
      BY <1>4, <2>3 DEF AcquireCount
    <3>2. Total' < MaxTotal /\ IsFiniteSet(active')
      BY <1>1, <2>1, <2>3 DEF Total
    <3> QED
      BY <1>1, <2>1, <3>1, <3>2, BoundsFollow DEF One, WarmingUp, ParkingAt
  <2> QED
    BY <2>2, <2>3
<1>5. CASE ReleaseRemove(t)
  <2>1. CASE target[t] \in active
    <3>1. /\ Goto(t, "release_check") /\ active' = active \ {target[t]} /\ UNCHANGED warm
          /\ pc[t] = "release_remove"
      BY <1>5, <2>1 DEF ReleaseRemove
    <3>2. IsFiniteSet(active') /\ Cardinality(active') = Cardinality(active) - 1
      BY <1>1, <2>1, <3>1, FS_RemoveElement
    <3>3. Total' + One("release_check", ArrivingAt) <= Total + One(pc[t], ArrivingAt)
      BY <1>1, <3>1, <3>2 DEF Total, One, ArrivingAt
    <3>4. Len(warm') + One("release_check", ParkingAt) <= Len(warm) + One(pc[t], ParkingAt)
      BY <1>1, <3>1 DEF One, ParkingAt
    <3> QED
      BY <1>1, <3>1, <3>2, <3>3, <3>4, BoundsFollow DEF WarmingUp
  <2>2. CASE target[t] \notin active
    BY <1>1, <1>5, <2>2, QuietBounds DEF ReleaseRemove, WarmingUp, ArrivingAt, ParkingAt
  <2> QED
    BY <2>1, <2>2
<1>6. CASE ReleaseCheck(t)
  <2>1. UNCHANGED <<active, warm>> /\ pc[t] = "release_check"
    BY <1>6 DEF ReleaseCheck
  <2>2. CASE Len(warm) < MaxWarm
    <3>1. Goto(t, "release_reset")
      BY <1>6, <2>2 DEF ReleaseCheck
    <3>2. Total' = Total /\ Total \in Nat /\ Len(warm') < MaxWarm
      BY <1>1, <2>1, <2>2 DEF Total
    <3> QED
      BY <1>1, <2>1, <3>1, <3>2, BoundsFollow DEF One, WarmingUp, ArrivingAt
  <2>3. CASE ~(Len(warm) < MaxWarm)
    BY <1>1, <1>6, <2>1, <2>3, QuietBounds
    DEF ReleaseCheck, WarmingUp, ArrivingAt, ParkingAt
  <2> QED
    BY <2>2, <2>3
<1>7. CASE ReleasePush(t)
  <2>1. /\ Goto(t, "idle") /\ UNCHANGED active /\ pc[t] = "release_push"
        /\ \E v \in owned[t] : warm' = Append(warm, v)
    BY <1>7 DEF ReleasePush, Push
  <2>2. Len(warm') = Len(warm) + 1
    BY <1>1, <2>1 DEF PoolTypeOK
  <2> QED
    BY <1>1, <2>1, <2>2, BoundsFollow DEF Total, One, WarmingUp, ArrivingAt, ParkingAt
<1>8. CASE DrainActive(t)
  <2>1. /\ Goto(t, "stop_active") /\ active' = {} /\ UNCHANGED warm
        /\ pc[t] = "drain_active"
    BY <1>8 DEF DrainActive
  <2>2. IsFiniteSet(active') /\ Cardinality(active') = 0
    BY <2>1, FS_EmptySet
  <2> QED
    BY <1>1, <2>1, <2>2, BoundsFollow DEF Total, One, WarmingUp, ArrivingAt, ParkingAt
<1>9. CASE DrainPool(t)
  <2>1. /\ Goto(t, "stop_pool") /\ warm' = <<>> /\ UNCHANGED active
        /\ pc[t] = "drain_pool"
    BY <1>9 DEF DrainPool
  <2>2. Len(warm') = 0
    BY <2>1
  <2> QED
    BY <1>1, <2>1, <2>2, BoundsFollow DEF Total, One, WarmingUp, ArrivingAt, ParkingAt
<1> QED
  BY <1>2, <1>3, <1>4, <1>5, <1>6, <1>7, <1>8, <1>9

(* The bounds hold in every reachable state, for any number of tasks. *)
THEOREM PoolBounds == PoolSpec => []BoundsInv
<1>1. PoolInit => BoundsInv
  <2> SUFFICES ASSUME PoolInit, WarmCounts = {}
               PROVE  BoundsInv
    BY DEF BoundsInv
  <2>1. /\ IsFiniteSet(active) /\ Cardinality(active) = 0 /\ Len(warm) = 0
        /\ \A t \in Tasks : pc[t] \notin WarmingUp
    BY FS_EmptySet DEF PoolInit, WarmingUp
  <2>2. Arriving = {} /\ Parking = {}
    BY DEF PoolInit, Arriving, Parking
  <2>3. Cardinality(Arriving) = 0 /\ Cardinality(Parking) = 0
    BY <2>2, FS_EmptySet
  <2>4. Cardinality(Tasks) \in Nat /\ Cardinality(Tasks) # 0
    BY TasksAssumption, FS_CardinalityType, FS_EmptySet
  <2> QED
    BY <2>1, <2>3, <2>4, PoolAssumption
    DEF BoundsInv, OverrunBounded, ParkingBounded, Total
<1>2. PoolInv /\ PoolInv' /\ BoundsInv /\ [PoolNext]_vars => BoundsInv'
  <2> SUFFICES ASSUME PoolInv, PoolInv', BoundsInv, [PoolNext]_vars, WarmCounts = {}
               PROVE  BoundsInv'
    BY DEF BoundsInv
  <2>1. PoolTypeOK /\ PoolTypeOK'
    BY DEF PoolInv
  <2>2. ASSUME UNCHANGED <<active, warm, pc>>
        PROVE  BoundsInv'
    BY <2>2 DEF BoundsInv, OverrunBounded, ParkingBounded, Total, Arriving, Parking
  <2>3. ASSUME NEW t \in Tasks, Begin(t) \/ Step(t)
        PROVE  BoundsInv'
    <3>1. ~(WarmUpCount(t) \/ WarmUpCreate(t) \/ WarmUpPush(t))
      BY DEF BoundsInv, WarmingUp, WarmUpCount, WarmUpCreate, WarmUpPush
    <3> QED
      BY <2>1, <2>3, <3>1, QuietStepBounds, MovingStepBounds DEF Step
  <2>4. ASSUME NEW v \in Vms, Crash(v)
        PROVE  BoundsInv'
    BY <2>2, <2>4 DEF Crash, tables, locals
  <2>5. CASE UNCHANGED vars
    BY <2>2, <2>5 DEF vars
  <2> QED
    BY <2>3, <2>4, <2>5 DEF PoolNext
<1> QED
  BY <1>1, <1>2, PoolInvariant, PTL DEF PoolSpec

(* However many tasks acquire and release at once, what they overrun         *)
(* max_total by is less than one VM for each of them.                        *)
THEOREM OverrunIsBounded == PoolSpec => []OverrunBounded
<1>1. BoundsInv => OverrunBounded
  BY DEF BoundsInv, OverrunBounded
<1> QED
  BY <1>1, PoolBounds, PTL

(* The warm pool outgrows max_warm by less than one VM for each task. *)
THEOREM ParkingIsBounded == PoolSpec => []ParkingBounded
<1>1. BoundsInv => ParkingBounded
  BY DEF BoundsInv, ParkingBounded
<1> QED
  BY <1>1, PoolBounds, PTL

-----------------------------------------------------------------------------
(* The manager keeps the promise of VmLease.  By OnePlace and Accounted the  *)
(* sets that PlaceOf looks into, one after the other, exclude each other, so *)
(* a step moves exactly the VMs that leave one of them for another.          *)

Outside(S) ==
  \A w \in Vms \ S : /\ w \in active' <=> w \in active
                     /\ w \in Pooled' <=> w \in Pooled
                     /\ w \in InFlight' <=> w \in InFlight
                     /\ vm'[w] = "none" <=> vm[w] = "none"

(* A VM that has no place anywhere either never had one or has lost it. *)
LEMMA PlacesExclude ==
  ASSUME PoolInv, NEW v \in Vms
  PROVE  /\ v \in active => PlaceOf(v) = "leased"
         /\ v \in Pooled => PlaceOf(v) = "warm"
         /\ v \in InFlight => PlaceOf(v) = "held"
         /\ vm[v] = "none" => PlaceOf(v) = "none"
         /\ vm[v] = "gone" => PlaceOf(v) = "gone"
BY DEF PoolInv, OnePlace, Accounted, Live, PlaceOf

(* The VMs of S go from one place to another, and no other one moves. *)
LEMMA LeaseMoves ==
  ASSUME NEW S \in SUBSET Vms, NEW from, NEW to, Outside(S),
         \A v \in S : PlaceOf(v) = from /\ PlaceOf(v)' = to
  PROVE  Leases!Move(S, from, to)
<1>1. \A v \in Vms \ S : PlaceOf(v)' = PlaceOf(v)
  BY DEF Outside, PlaceOf
<1>2. \A v \in S : [w \in Vms |-> PlaceOf(w)][v] = from
  OBVIOUS
<1>3. [w \in Vms |-> PlaceOf(w)']
        = [w \in Vms |-> IF w \in S THEN to ELSE [u \in Vms |-> PlaceOf(u)][w]]
  BY <1>1
<1> QED
  BY <1>2, <1>3 DEF Leases!Move

(* A step that moves no VM and changes no guest's programs. *)
LEMMA LeaseStutters ==
  ASSUME Outside({}), UNCHANGED dirty
  PROVE  UNCHANGED Leases!leaseVars
<1>1. \A v \in Vms : PlaceOf(v)' = PlaceOf(v)
  BY DEF Outside, PlaceOf
<1> QED
  BY <1>1 DEF Leases!leaseVars

(* What the calls hold after task t has put down what it had and taken S. *)
LEMMA FlightFollows ==
  ASSUME PoolInv, NEW t \in Tasks, NEW S, Own(t, S)
  PROVE  InFlight' = (InFlight \ owned[t]) \cup S
<1>1. \A u \in Tasks : owned'[u] = IF u = t THEN S ELSE owned[u]
  BY DEF PoolInv, PoolTypeOK, Own
<1>2. \A u \in Tasks : u # t => owned[u] \cap owned[t] = {}
  BY DEF PoolInv, OnePlace
<1> QED
  BY <1>1, <1>2 DEF InFlight

(* The steps that take VMs out of the tables. *)
LEMMA TakingLeases ==
  ASSUME PoolInv, PoolInv', NEW t \in Tasks,
         AcquirePop(t) \/ ReleaseRemove(t) \/ DrainActive(t) \/ DrainPool(t)
  PROVE  [Leases!LeaseNext]_(Leases!leaseVars)
<1> USE DEF tables, locks, guests, Return
<1>1. owned[t] = {}
  BY DEF AcquirePop, ReleaseRemove, DrainActive, DrainPool, PoolInv, Hands, OneInHand,
         SomeInHand
<1>2. ASSUME NEW S \in SUBSET Vms, Own(t, S), S = Pooled \ Pooled', Pooled' \subseteq Pooled,
             UNCHANGED <<active, vm, dirty>>
      PROVE  Leases!LeaseNext
  <2>1. InFlight' = InFlight \cup S
    BY <1>1, <1>2, FlightFollows
  <2>2. Outside(S) /\ \A v \in S : v \in Pooled /\ v \in InFlight'
    BY <1>2, <2>1 DEF Outside
  <2>3. \A v \in S : PlaceOf(v) = "warm" /\ PlaceOf(v)' = "held"
    BY <2>2, PlacesExclude DEF PoolInv, OnePlace, PlaceOf
  <2>4. Leases!Move(S, "warm", "held")
    BY <2>2, <2>3, LeaseMoves
  <2> QED
    BY <1>2, <2>4 DEF Leases!LeaseNext, Leases!Unpark
<1>3. ASSUME NEW S \in SUBSET Vms, Own(t, S), S \subseteq active, active' = active \ S,
             UNCHANGED <<warm, vm, dirty>>
      PROVE  Leases!LeaseNext
  <2>1. InFlight' = InFlight \cup S /\ Pooled' = Pooled
    BY <1>1, <1>3, FlightFollows DEF Pooled
  <2>2. Outside(S) /\ \A v \in S : v \in active /\ v \in InFlight'
    BY <1>3, <2>1 DEF Outside
  <2>3. \A v \in S : PlaceOf(v) = "leased" /\ PlaceOf(v)' = "held"
    BY <2>2, PlacesExclude DEF PoolInv, OnePlace, PlaceOf
  <2>4. Leases!Move(S, "leased", "held")
    BY <2>2, <2>3, LeaseMoves
  <2> QED
    BY <1>3, <2>4 DEF Leases!LeaseNext, Leases!Reclaim
<1>4. ASSUME UNCHANGED <<active, warm, owned, vm, dirty>>
      PROVE  UNCHANGED Leases!leaseVars
  BY <1>4, LeaseStutters DEF Outside, Pooled, InFlight
<1>5. CASE AcquirePop(t)
  <2>1. CASE warm = <<>>
    BY <1>4, <1>5, <2>1 DEF AcquirePop
  <2>2. CASE warm # <<>>
    <3>1. Pop /\ Own(t, {Last}) /\ UNCHANGED <<active, vm, dirty>>
      BY <1>5, <2>2 DEF AcquirePop
    <3>2. Pooled' = Pooled \ {Last} /\ Last \in Pooled /\ Last \in Vms
      BY <2>2, <3>1, PopTakes DEF PoolInv, PoolTypeOK, OnePlace, NoRepeats
    <3> QED
      BY <1>2, <3>1, <3>2
  <2> QED
    BY <2>1, <2>2
<1>6. CASE ReleaseRemove(t)
  <2>1. CASE target[t] \in active
    <3>1. /\ {target[t]} \in SUBSET Vms /\ {target[t]} \subseteq active
          /\ Own(t, {target[t]}) /\ active' = active \ {target[t]}
          /\ UNCHANGED <<warm, vm, dirty>>
      BY <1>6, <2>1 DEF ReleaseRemove, PoolInv, PoolTypeOK
    <3> QED
      BY <1>3, <3>1
  <2>2. CASE target[t] \notin active
    BY <1>4, <1>6, <2>2 DEF ReleaseRemove
  <2> QED
    BY <2>1, <2>2
<1>7. CASE DrainActive(t)
  BY <1>3, <1>7 DEF DrainActive, PoolInv, PoolTypeOK
<1>8. CASE DrainPool(t)
  <2>1. Pooled' = {} /\ Pooled \in SUBSET Vms
    BY <1>8 DEF DrainPool, Pooled, PoolInv, PoolTypeOK
  <2> QED
    BY <1>2, <1>8, <2>1 DEF DrainPool
<1> QED
  BY <1>5, <1>6, <1>7, <1>8

(* The steps that put a VM into a table. *)
LEMMA PuttingLeases ==
  ASSUME PoolInv, PoolInv', NEW t \in Tasks,
         AcquireTake(t) \/ AcquireInsert(t) \/ ReleasePush(t) \/ WarmUpPush(t)
  PROVE  Leases!LeaseNext
<1> USE DEF tables, locks, guests
<1>1. PICK v \in Vms : owned[t] = {v}
  BY DEF AcquireTake, AcquireInsert, ReleasePush, WarmUpPush, PoolInv, Hands, OneInHand
<1>2. v \in InFlight
  BY <1>1 DEF InFlight
<1>3. UNCHANGED <<vm, dirty>> /\ InFlight' = InFlight \ {v} /\ PlaceOf(v) = "held"
  BY <1>1, <1>2, FlightFollows, PlacesExclude
  DEF AcquireTake, AcquireInsert, ReleasePush, WarmUpPush
<1>4. CASE AcquireTake(t) \/ AcquireInsert(t)
  <2>1. active' = active \cup {v} /\ Pooled' = Pooled
    BY <1>1, <1>4 DEF AcquireTake, AcquireInsert, Pooled
  <2>2. Outside({v}) /\ PlaceOf(v)' = "leased"
    BY <1>3, <2>1 DEF Outside, PlaceOf
  <2>3. Leases!Move({v}, "held", "leased")
    BY <1>3, <2>2, LeaseMoves
  <2> QED
    BY <1>3, <2>3 DEF Leases!LeaseNext, Leases!Lease
<1>5. CASE ReleasePush(t) \/ WarmUpPush(t)
  <2>1. Push(v) /\ UNCHANGED active
    BY <1>1, <1>5 DEF ReleasePush, WarmUpPush
  <2>2. v \notin Pooled /\ v \notin active /\ v \notin dirty
    BY <1>1, <1>2, <1>5
    DEF ReleasePush, WarmUpPush, PoolInv, OnePlace, HandedIsClean, CleanAt
  <2>3. Pooled' = Pooled \cup {v}
    BY <2>1, <2>2, PushAdds DEF PoolInv, PoolTypeOK, OnePlace, NoRepeats
  <2>4. Outside({v}) /\ PlaceOf(v)' = "warm"
    BY <1>3, <2>1, <2>2, <2>3 DEF Outside, PlaceOf
  <2>5. Leases!Move({v}, "held", "warm")
    BY <1>3, <2>4, LeaseMoves
  <2> QED
    BY <1>3, <2>2, <2>5 DEF Leases!LeaseNext, Leases!Park
<1> QED
  BY <1>4, <1>5

(* The steps that start, reset or stop a VM, or load a program into it. *)
LEMMA GuestLeases ==
  ASSUME PoolInv, PoolInv', NEW t \in Tasks,
         \/ AcquireCreate(t) \/ WarmUpCreate(t) \/ ReleaseReset(t) \/ ReleaseDestroy(t)
         \/ StopActive(t) \/ StopPool(t) \/ UseRun(t)
  PROVE  [Leases!LeaseNext]_(Leases!leaseVars)
<1> USE DEF tables, locks, guests
<1>1. UNCHANGED <<active, warm>> /\ Pooled' = Pooled
  BY DEF AcquireCreate, WarmUpCreate, ReleaseReset, ReleaseDestroy, StopActive, StopPool,
         UseRun, Pooled
<1>2. ASSUME UNCHANGED <<owned, vm, dirty>>
      PROVE  UNCHANGED Leases!leaseVars
  BY <1>1, <1>2, LeaseStutters DEF Outside, InFlight
<1>3. ASSUME NEW v \in Vms, Boot(v), Own(t, {v}), owned[t] = {}
      PROVE  Leases!LeaseNext
  <2>1. InFlight' = InFlight \cup {v}
    BY <1>3, FlightFollows
  <2>2. Outside({v}) /\ PlaceOf(v) = "none"
    BY <1>1, <1>3, <2>1, PlacesExclude DEF Outside, Boot, PoolInv, PoolTypeOK
  <2>3. PlaceOf(v)' = "held"
    BY <2>1 DEF PlaceOf, PoolInv, OnePlace
  <2>4. Leases!Move({v}, "none", "held")
    BY <2>2, <2>3, LeaseMoves
  <2> QED
    BY <1>3, <2>4 DEF Boot, Leases!LeaseNext, Leases!Create
<1>4. ASSUME NEW v \in owned[t], Stop(v), Own(t, owned[t] \ {v})
      PROVE  Leases!LeaseNext
  <2>1. v \in Vms /\ v \in InFlight /\ owned[t] \subseteq InFlight
    BY DEF PoolInv, PoolTypeOK, InFlight
  <2>2. InFlight' = InFlight \ {v}
    BY <1>4, <2>1, FlightFollows
  <2>3. Outside({v}) /\ PlaceOf(v) = "held" /\ vm'[v] = "gone"
    BY <1>1, <1>4, <2>1, <2>2, PlacesExclude DEF Outside, Stop, PoolInv, PoolTypeOK
  <2>4. PlaceOf(v)' = "gone"
    BY <2>1, <2>2, <2>3, <1>1 DEF PlaceOf, PoolInv, OnePlace
  <2>5. Leases!Move({v}, "held", "gone")
    BY <2>1, <2>3, <2>4, LeaseMoves
  <2> QED
    BY <1>4, <2>1, <2>5 DEF Stop, Leases!LeaseNext, Leases!Destroy
<1>5. CASE AcquireCreate(t) \/ WarmUpCreate(t)
  <2>1. owned[t] = {}
    BY <1>5 DEF AcquireCreate, WarmUpCreate, PoolInv, Hands, OneInHand, SomeInHand
  <2> QED
    BY <1>2, <1>3, <1>5, <2>1 DEF AcquireCreate, WarmUpCreate
<1>6. CASE ReleaseDestroy(t)
  <2>1. PICK v \in owned[t] : Stop(v)
    BY <1>6 DEF ReleaseDestroy
  <2>2. owned[t] \ {v} = {}
    BY <1>6, <2>1 DEF ReleaseDestroy, PoolInv, Hands, OneInHand
  <2> QED
    BY <1>4, <1>6, <2>1, <2>2 DEF ReleaseDestroy
<1>7. CASE StopActive(t) \/ StopPool(t)
  BY <1>2, <1>4, <1>7 DEF StopActive, StopPool
<1>8. CASE ReleaseReset(t) \/ UseRun(t)
  <2>1. UNCHANGED <<owned, vm>>
    BY <1>8 DEF ReleaseReset, UseRun
  <2>2. UNCHANGED [w \in Vms |-> PlaceOf(w)]
    BY <1>1, <2>1 DEF PlaceOf, InFlight
  <2>3. CASE ReleaseReset(t) /\ dirty' # dirty
    <3>1. PICK v \in Vms : owned[t] = {v}
      BY <2>3 DEF ReleaseReset, PoolInv, Hands, OneInHand
    <3>2. dirty' = dirty \ {v} /\ PlaceOf(v) = "held"
      BY <2>3, <3>1, PlacesExclude DEF ReleaseReset, InFlight
    <3> QED
      BY <2>2, <3>2 DEF Leases!LeaseNext, Leases!Reset
  <2>4. CASE UseRun(t) /\ dirty' # dirty
    <3>1. /\ target[t] \in active /\ target[t] \in Vms
          /\ dirty' = dirty \cup {target[t]}
      BY <2>4 DEF UseRun, PoolInv, PoolTypeOK, UsedIsActive
    <3>2. PlaceOf(target[t]) = "leased"
      BY <3>1, PlacesExclude
    <3> QED
      BY <2>2, <3>1, <3>2 DEF Leases!LeaseNext, Leases!Load
  <2> QED
    BY <1>2, <1>8, <2>1, <2>3, <2>4
<1> QED
  BY <1>5, <1>6, <1>7, <1>8

(* Every VM is leased, kept, reset and stopped as VmLease says, whatever the *)
(* calls do between each other's steps: a leased VM is no other caller's,    *)
(* and no VM goes back into the pool with a program in it.                   *)
THEOREM LeasesAreKept == PoolSpec => KeepsLeases
<1>1. PoolInit => Leases!LeaseInit
  <2> SUFFICES ASSUME PoolInit
               PROVE  Leases!LeaseInit
    OBVIOUS
  <2>1. active = {} /\ Pooled = {} /\ InFlight = {} /\ dirty = {}
        /\ \A v \in Vms : vm[v] = "none"
    BY DEF PoolInit, Pooled, InFlight
  <2> QED
    BY <2>1 DEF Leases!LeaseInit, PlaceOf
<1>2. PoolInv /\ PoolInv' /\ [PoolNext]_vars => [Leases!LeaseNext]_(Leases!leaseVars)
  <2> SUFFICES ASSUME PoolInv, PoolInv', [PoolNext]_vars
               PROVE  [Leases!LeaseNext]_(Leases!leaseVars)
    OBVIOUS
  <2> USE DEF tables, locks, guests, locals
  <2>1. ASSUME UNCHANGED <<active, warm, owned, vm, dirty>>
        PROVE  UNCHANGED Leases!leaseVars
    BY <2>1, LeaseStutters DEF Outside, Pooled, InFlight
  <2>2. ASSUME NEW t \in Tasks, Begin(t)
        PROVE  UNCHANGED Leases!leaseVars
    BY <2>1, <2>2 DEF Begin, Call
  <2>3. ASSUME NEW t \in Tasks,
               \/ AcquireCheck(t) \/ AcquireCount(t) \/ ReleaseCheck(t) \/ UseFind(t)
               \/ ListActive(t) \/ StatsActive(t) \/ StatsPool(t) \/ WarmUpCount(t)
        PROVE  UNCHANGED Leases!leaseVars
    BY <2>1, <2>3
    DEF AcquireCheck, AcquireCount, ReleaseCheck, UseFind, ListActive, StatsActive,
        StatsPool, WarmUpCount
  <2>4. ASSUME NEW t \in Tasks, Step(t)
        PROVE  [Leases!LeaseNext]_(Leases!leaseVars)
    BY <2>3, <2>4, TakingLeases, PuttingLeases, GuestLeases DEF Step
  <2>5. ASSUME NEW v \in Vms, Crash(v)
        PROVE  UNCHANGED Leases!leaseVars
    <3>1. /\ UNCHANGED <<active, warm, owned, dirty>>
          /\ \A w \in Vms : vm'[w] = "none" <=> vm[w] = "none"
      BY <2>5 DEF Crash, PoolInv, PoolTypeOK
    <3> QED
      BY <3>1, LeaseStutters DEF Outside, Pooled, InFlight
  <2>6. CASE UNCHANGED vars
    BY <2>1, <2>6 DEF vars
  <2> QED
    BY <2>2, <2>4, <2>5, <2>6 DEF PoolNext
<1> QED
  BY <1>1, <1>2, PoolInvariant, PTL DEF PoolSpec, KeepsLeases, Leases!LeaseSpec

-----------------------------------------------------------------------------
(* What CallsReturn rests on, short of fairness.  LocksHeld says where the   *)
(* holder of each lock is, and whether it asks for the other one.            *)

(* Whoever holds the table and is blocked asks for a pool that acquire keeps *)
(* while it waits for the table.                                             *)
LEMMA TableComesFree ==
  ASSUME PoolInv, ~ActiveFree
  PROVE  /\ activeLock \in {activeLock, poolLock} \ {NoTask}
         /\ pc[activeLock] # "idle"
         /\ Deadlocked \/ ~Blocked(activeLock)
<1>1. /\ activeLock \in Tasks /\ activeLock # NoTask
      /\ pc[activeLock] \in {"acquire_count", "use_run", "stats_pool"}
  BY DEF PoolInv, PoolTypeOK, LocksHeld, HoldsActive, ActiveFree
<1>2. CASE pc[activeLock] = "use_run" \/ PoolFree
  BY <1>1, <1>2 DEF Blocked, AsksTable, AsksPool
<1>3. CASE pc[activeLock] # "use_run" /\ ~PoolFree
  <2>1. poolLock \in Tasks /\ pc[poolLock] = "acquire_take"
    BY <1>3 DEF PoolInv, PoolTypeOK, LocksHeld, HoldsPool, PoolFree
  <2> QED
    BY <1>1, <1>3, <2>1 DEF Deadlocked
<1> QED
  BY <1>1, <1>2, <1>3

(* The only standstill is the one of acquire and a count: otherwise a holder *)
(* of a lock that somebody waits for can go on, however many calls there are.*)
THEOREM OnlyDeadlockStops == PoolSpec => []LocksComeFree
<1>1. PoolInv => LocksComeFree
  <2> SUFFICES ASSUME PoolInv, NEW t \in Tasks, Blocked(t), ~Deadlocked
               PROVE  \E u \in {activeLock, poolLock} \ {NoTask} : pc[u] # "idle" /\ ~Blocked(u)
    BY DEF LocksComeFree
  <2>1. CASE ~ActiveFree
    BY <2>1, TableComesFree
  <2>2. CASE ActiveFree
    <3>1. ~PoolFree
      BY <2>2 DEF Blocked
    <3>2. poolLock \in Tasks /\ poolLock # NoTask /\ pc[poolLock] = "acquire_take"
      BY <3>1 DEF PoolInv, PoolTypeOK, LocksHeld, HoldsPool, PoolFree
    <3> QED
      BY <2>2, <3>2 DEF Blocked, AsksPool
  <2> QED
    BY <2>1, <2>2
<1> QED
  BY <1>1, PoolInvariant, PTL

(* A call's step leaves the place and the locals of the other calls alone. *)
LEMMA OthersRest ==
  ASSUME PoolInv, NEW t \in Tasks, Begin(t) \/ Step(t), NEW u \in Tasks, u # t
  PROVE  UNCHANGED <<pc[u], left[u], owned[u]>>
<1> USE DEF locals, Goto, Own, Return
<1>1. pc \in [Tasks -> Location] /\ owned \in [Tasks -> SUBSET Vms] /\ left \in [Tasks -> Nat]
  BY DEF PoolInv, PoolTypeOK
<1>2. CASE Begin(t)
  BY <1>1, <1>2 DEF Begin, Call
<1>3. CASE \/ AcquirePop(t) \/ AcquireTake(t) \/ AcquireCheck(t) \/ AcquireCount(t)
           \/ AcquireCreate(t) \/ AcquireInsert(t)
  BY <1>1, <1>3
  DEF AcquirePop, AcquireTake, AcquireCheck, AcquireCount, AcquireCreate, AcquireInsert
<1>4. CASE \/ ReleaseRemove(t) \/ ReleaseCheck(t) \/ ReleaseReset(t) \/ ReleasePush(t)
           \/ ReleaseDestroy(t)
  BY <1>1, <1>4 DEF ReleaseRemove, ReleaseCheck, ReleaseReset, ReleasePush, ReleaseDestroy
<1>5. CASE UseFind(t) \/ UseRun(t) \/ ListActive(t) \/ StatsActive(t) \/ StatsPool(t)
  BY <1>1, <1>5 DEF UseFind, UseRun, ListActive, StatsActive, StatsPool
<1>6. CASE WarmUpCount(t) \/ WarmUpCreate(t) \/ WarmUpPush(t)
  BY <1>1, <1>6 DEF WarmUpCount, WarmUpCreate, WarmUpPush
<1>7. CASE DrainActive(t) \/ StopActive(t) \/ DrainPool(t) \/ StopPool(t)
  BY <1>1, <1>7 DEF DrainActive, StopActive, DrainPool, StopPool
<1> QED
  BY <1>2, <1>3, <1>4, <1>5, <1>6, <1>7 DEF Step

(* A call's own step brings it further. *)
LEMMA StepAdvances ==
  ASSUME PoolInv, NEW t \in Tasks, Step(t)
  PROVE  Advances(t)
<1>1. pc \in [Tasks -> Location] /\ owned \in [Tasks -> SUBSET Vms] /\ left \in [Tasks -> Nat]
  BY DEF PoolInv, PoolTypeOK
<1>2. \A location : Goto(t, location) => pc'[t] = location
  BY <1>1 DEF Goto
<1>3. Return(t) => pc'[t] = "idle"
  BY <1>2 DEF Return
<1>4. ASSUME pc[t] # "idle", Return(t)
      PROVE  Advances(t)
  BY <1>1, <1>3, <1>4 DEF Advances, Ahead, Location
<1>5. ASSUME NEW location \in Location, Goto(t, location), Ahead[location] < Ahead[pc[t]]
      PROVE  Advances(t)
  BY <1>2, <1>5 DEF Advances
<1>6. ASSUME NEW v \in owned[t], Own(t, owned[t] \ {v}), UNCHANGED pc
      PROVE  Advances(t)
  BY <1>1, <1>6 DEF Advances, Own
<1>7. CASE \/ AcquireTake(t) \/ AcquireInsert(t) \/ ReleasePush(t) \/ ReleaseDestroy(t)
           \/ UseRun(t) \/ ListActive(t) \/ StatsPool(t)
  BY <1>4, <1>7
  DEF AcquireTake, AcquireInsert, ReleasePush, ReleaseDestroy, UseRun, ListActive, StatsPool
<1>8. CASE AcquirePop(t) \/ AcquireCheck(t) \/ AcquireCount(t) \/ AcquireCreate(t)
  <2> USE DEF Ahead, Location
  <2>1. CASE AcquirePop(t)
    BY <1>5, <2>1 DEF AcquirePop
  <2>2. CASE AcquireCheck(t)
    BY <1>5, <2>2 DEF AcquireCheck
  <2>3. CASE AcquireCount(t)
    <3>1. pc[t] = "acquire_count" /\ (Return(t) \/ Goto(t, "acquire_create"))
      BY <2>3 DEF AcquireCount
    <3> QED
      BY <1>4, <1>5, <3>1
  <2>4. CASE AcquireCreate(t)
    <3>1. pc[t] = "acquire_create" /\ (Return(t) \/ Goto(t, "acquire_insert"))
      BY <2>4 DEF AcquireCreate
    <3> QED
      BY <1>4, <1>5, <3>1
  <2> QED
    BY <1>8, <2>1, <2>2, <2>3, <2>4
<1>9. CASE ReleaseRemove(t) \/ ReleaseCheck(t) \/ ReleaseReset(t)
  BY <1>4, <1>5, <1>9 DEF ReleaseRemove, ReleaseCheck, ReleaseReset, Ahead, Location
<1>10. CASE UseFind(t) \/ StatsActive(t) \/ WarmUpCount(t) \/ DrainActive(t) \/ DrainPool(t)
  BY <1>4, <1>5, <1>10
  DEF UseFind, StatsActive, WarmUpCount, DrainActive, DrainPool, Ahead, Location
<1>11. CASE WarmUpCreate(t)
  BY <1>2, <1>4, <1>11 DEF WarmUpCreate, Advances
<1>12. CASE WarmUpPush(t)
  <2>1. CASE left[t] > 1
    <3>1. pc[t] = "warm_push" /\ pc'[t] = "warm_create" /\ left'[t] = left[t] - 1
      BY <1>1, <1>2, <1>12, <2>1 DEF WarmUpPush
    <3> QED
      BY <1>1, <3>1 DEF Advances
  <2> QED
    BY <1>4, <1>12, <2>1 DEF WarmUpPush
<1>13. CASE StopActive(t) \/ StopPool(t)
  <2>1. CASE owned[t] = {}
    BY <1>4, <1>5, <1>13, <2>1 DEF StopActive, StopPool, Ahead, Location
  <2>2. CASE owned[t] # {}
    BY <1>6, <1>13, <2>2 DEF StopActive, StopPool
  <2> QED
    BY <2>1, <2>2
<1> QED
  BY <1>7, <1>8, <1>9, <1>10, <1>11, <1>12, <1>13 DEF Step

(* Every call moves on to its end, whatever other calls do to the tables. *)
THEOREM CallsGoForward == PoolSpec => CallsAdvance
<1>1. ASSUME PoolInv, [PoolNext]_vars, NEW t \in Tasks, pc[t] # "idle"
      PROVE  UNCHANGED <<pc[t], left[t], owned[t]>> \/ Advances(t)
  <2>1. ASSUME Step(t)
        PROVE  Advances(t)
    BY <1>1, <2>1, StepAdvances
  <2>2. ~Begin(t)
    BY <1>1 DEF Begin, Call
  <2>3. ASSUME NEW u \in Tasks, u # t, Begin(u) \/ Step(u)
        PROVE  UNCHANGED <<pc[t], left[t], owned[t]>>
    BY <1>1, <2>3, OthersRest
  <2>4. ASSUME (\E v \in Vms : Crash(v)) \/ UNCHANGED vars
        PROVE  UNCHANGED <<pc[t], left[t], owned[t]>>
    BY <2>4 DEF Crash, locals, vars
  <2> QED
    BY <1>1, <2>1, <2>2, <2>3, <2>4 DEF PoolNext
<1>2. PoolInv /\ [PoolNext]_vars =>
        [\A t \in Tasks : pc[t] # "idle" =>
           UNCHANGED <<pc[t], left[t], owned[t]>> \/ Advances(t)]_vars
  BY <1>1
<1> QED
  BY <1>2, PoolInvariant, PTL DEF PoolSpec, CallsAdvance

-----------------------------------------------------------------------------
(* What the manager takes of a VM for granted is what VmLife allows, which   *)
(* is what a MicroVm keeps.                                                  *)

(* A VM that is taken for clean is there, and has no program in it.          *)
LEMMA CleanIsThere ==
  ASSUME PoolInv, NEW w \in Vms, TakenForClean(w)
  PROVE  w \in Live /\ w \notin dirty
BY DEF PoolInv, Accounted, InFlight, WarmIsClean, HandedIsClean, CleanAt, TakenForClean

(* A VM whose process and guest are left alone, and which is not taken for   *)
(* clean if it was not, has been used at most.                               *)
LEMMA LeftAloneIsLife ==
  ASSUME PoolInv, NEW w \in Vms, vm'[w] = vm[w], w \in dirty' <=> w \in dirty,
         TakenForClean(w)' => TakenForClean(w)
  PROVE  [Life(w)!LifeNext]_(Life(w)!lifeVars)
<1>1. CASE TakenForClean(w)' <=> TakenForClean(w)
  <2>1. TakenForClean(w)' = TakenForClean(w)
    BY <1>1 DEF TakenForClean
  <2> QED
    BY <2>1 DEF Life!lifeVars
<1>2. CASE TakenForClean(w) /\ ~TakenForClean(w)'
  <2>1. vm[w] \in {"running", "crashed"}
    BY <1>2, CleanIsThere DEF Live
  <2>2. Life(w)!Use
    BY <1>2, <2>1 DEF Life!Use, Life!Held
  <2> QED
    BY <2>2 DEF Life!LifeNext
<1> QED
  BY <1>1, <1>2

(* By a step of a call a VM comes to be taken for clean in two ways: the     *)
(* call pushes it or has it in its hands.                                    *)
LEMMA CleanFollows ==
  ASSUME PoolInv, NEW t \in Tasks, Begin(t) \/ Step(t),
         NEW w \in Vms, TakenForClean(w)', ~TakenForClean(w)
  PROVE  \/ w \in Pooled' /\ w \notin Pooled
         \/ w \in owned'[t] /\ pc'[t] \in CleanAt
BY OthersRest DEF TakenForClean

(* A VM is taken for clean when it has started or its guest was reset.       *)
LEMMA CleanByReset ==
  ASSUME PoolInv, NEW t \in Tasks, Begin(t) \/ Step(t),
         NEW w \in Vms, TakenForClean(w)', ~TakenForClean(w)
  PROVE  Boot(w) \/ (ReleaseReset(t) /\ w \in owned[t] /\ pc'[t] = "release_push")
<1>1. pc \in [Tasks -> Location] /\ owned \in [Tasks -> SUBSET Vms]
  BY DEF PoolInv, PoolTypeOK
<1>2. \A location : Goto(t, location) => pc'[t] = location
  BY <1>1 DEF Goto
<1>3. Return(t) => pc'[t] = "idle"
  BY <1>2 DEF Return
<1>4. UNCHANGED warm => w \in owned'[t] /\ pc'[t] \in CleanAt
  BY CleanFollows DEF Pooled
<1>5. CASE AcquirePop(t)
  <2>1. CASE warm = <<>>
    BY <1>2, <1>4, <1>5, <2>1 DEF AcquirePop, CleanAt
  <2>2. CASE warm # <<>>
    <3>1. Pop /\ Own(t, {Last})
      BY <1>5, <2>2 DEF AcquirePop
    <3>2. Last \in Pooled /\ Pooled' = Pooled \ {Last}
      BY <2>2, <3>1, PopTakes DEF PoolInv, PoolTypeOK, OnePlace, NoRepeats
    <3>3. w = Last
      BY <1>1, <3>1, <3>2, CleanFollows DEF Own
    <3> QED
      BY <3>2, <3>3 DEF TakenForClean
  <2> QED
    BY <2>1, <2>2
<1>6. CASE ReleasePush(t) \/ WarmUpPush(t)
  <2>1. /\ pc[t] \in CleanAt /\ pc'[t] \notin CleanAt
        /\ \E v \in owned[t] : Push(v)
    BY <1>2, <1>3, <1>6 DEF ReleasePush, WarmUpPush, CleanAt
  <2>2. PICK v \in owned[t] : Push(v)
    BY <2>1
  <2>3. v \in Vms /\ v \notin Pooled
    BY <1>1, <2>2 DEF PoolInv, OnePlace, InFlight
  <2>4. Pooled' = Pooled \cup {v}
    BY <2>2, <2>3, PushAdds DEF PoolInv, PoolTypeOK, OnePlace, NoRepeats
  <2>5. w = v
    BY <2>1, <2>4, CleanFollows
  <2> QED
    BY <2>1, <2>2, <2>5 DEF TakenForClean
<1>7. CASE DrainPool(t)
  <2>1. Pooled' = {} /\ pc'[t] = "stop_pool"
    BY <1>2, <1>7 DEF DrainPool, Pooled
  <2> QED
    BY <2>1, CleanFollows DEF CleanAt
<1>8. CASE AcquireCreate(t) \/ WarmUpCreate(t)
  <2>1. pc'[t] # "idle"
    BY <1>4, <1>8 DEF AcquireCreate, WarmUpCreate, tables, CleanAt
  <2>2. \E v \in Vms : Boot(v) /\ Own(t, {v})
    BY <1>3, <1>8, <2>1 DEF AcquireCreate, WarmUpCreate
  <2>3. w \in owned'[t]
    BY <1>4, <1>8 DEF AcquireCreate, WarmUpCreate, tables
  <2> QED
    BY <1>1, <2>2, <2>3 DEF Own
<1>9. CASE ReleaseReset(t)
  BY <1>2, <1>4, <1>9 DEF ReleaseReset, tables, CleanAt
<1>10. CASE \/ AcquireTake(t) \/ AcquireCheck(t) \/ AcquireCount(t) \/ AcquireInsert(t)
            \/ ReleaseRemove(t) \/ ReleaseCheck(t) \/ ReleaseDestroy(t)
            \/ UseFind(t) \/ UseRun(t) \/ ListActive(t) \/ StatsActive(t) \/ StatsPool(t)
            \/ WarmUpCount(t) \/ DrainActive(t) \/ StopActive(t) \/ StopPool(t)
  <2>1. UNCHANGED warm /\ pc'[t] \notin CleanAt
    BY <1>2, <1>3, <1>10
    DEF AcquireTake, AcquireCheck, AcquireCount, AcquireInsert, ReleaseRemove, ReleaseCheck,
        ReleaseDestroy, UseFind, UseRun, ListActive, StatsActive, StatsPool, WarmUpCount,
        DrainActive, StopActive, StopPool, tables, CleanAt
  <2> QED
    BY <1>4, <2>1
<1>11. CASE Begin(t)
  <2>1. UNCHANGED warm /\ pc'[t] \notin CleanAt
    BY <1>2, <1>11 DEF Begin, Call, tables, CleanAt
  <2> QED
    BY <1>4, <2>1
<1> QED
  BY <1>5, <1>6, <1>7, <1>8, <1>9, <1>10, <1>11 DEF Step

(* A VM starts, with nothing in its guest, and another is left alone. *)
LEMMA BootIsLife ==
  ASSUME PoolInv, NEW t \in Tasks, NEW v \in Vms, Boot(v),
         v \in owned'[t], pc'[t] \in CleanAt,
         NEW w \in Vms, w # v /\ TakenForClean(w)' => TakenForClean(w)
  PROVE  [Life(w)!LifeNext]_(Life(w)!lifeVars)
<1>1. vm \in [Vms -> Process] /\ v \notin dirty /\ vm[v] = "none"
  BY DEF Boot, PoolInv, PoolTypeOK, DirtyIsLive, Live
<1>2. CASE w = v
  <2>1. TakenForClean(w)'
    BY <1>2 DEF TakenForClean
  <2>2. Life(w)!Boot
    BY <1>1, <1>2, <2>1 DEF Life!Boot, Boot
  <2> QED
    BY <2>2 DEF Life!LifeNext
<1>3. CASE w # v
  BY <1>1, <1>3, LeftAloneIsLife DEF Boot
<1> QED
  BY <1>2, <1>3

(* A VM that some call has in its hands is shut down. *)
LEMMA StopIsLife ==
  ASSUME PoolInv, PoolInv', NEW t \in Tasks, NEW v \in owned[t], Stop(v),
         NEW w \in Vms, TakenForClean(w)' => TakenForClean(w)
  PROVE  [Life(w)!LifeNext]_(Life(w)!lifeVars)
<1>1. vm \in [Vms -> Process] /\ v \in Live /\ v \in Vms
  BY DEF PoolInv, PoolTypeOK, Accounted, InFlight
<1>2. CASE w = v
  <2>1. v \notin Live'
    BY <1>1 DEF Stop, Live
  <2>2. ~TakenForClean(w)'
    BY <1>2, <2>1 DEF PoolInv, Accounted, InFlight, TakenForClean
  <2>3. Life(w)!Stop
    BY <1>1, <1>2, <2>2 DEF Life!Stop, Life!Held, Stop, Live
  <2> QED
    BY <2>3 DEF Life!LifeNext
<1>3. CASE w # v
  BY <1>1, <1>3, LeftAloneIsLife DEF Stop
<1> QED
  BY <1>2, <1>3

(* A guest has unloaded everything and has answered, so it runs. *)
LEMMA ResetIsLife ==
  ASSUME PoolInv, NEW t \in Tasks, ReleaseReset(t), NEW w \in Vms
  PROVE  [Life(w)!LifeNext]_(Life(w)!lifeVars)
<1>1. UNCHANGED <<vm, owned>> /\ pc \in [Tasks -> Location] /\ pc[t] = "release_reset"
  BY DEF ReleaseReset, PoolInv, PoolTypeOK
<1>2. CASE w \in owned[t] /\ Goto(t, "release_push")
  <2>1. vm[w] = "running" /\ dirty' = dirty \ owned[t] /\ pc'[t] = "release_push"
    BY <1>1, <1>2 DEF ReleaseReset, Goto
  <2>2. TakenForClean(w)'
    BY <1>1, <1>2, <2>1 DEF TakenForClean, CleanAt
  <2>3. Life(w)!Reset
    BY <1>1, <1>2, <2>1, <2>2 DEF Life!Reset
  <2> QED
    BY <2>3 DEF Life!LifeNext
<1>3. CASE ~(w \in owned[t] /\ Goto(t, "release_push"))
  <2>1. (w \in dirty' <=> w \in dirty) /\ ~Boot(w)
    BY <1>1, <1>3 DEF ReleaseReset, Boot, PoolInv, PoolTypeOK
  <2>2. pc'[t] = "release_push" => Goto(t, "release_push")
    BY <1>1 DEF ReleaseReset, Goto
  <2>3. TakenForClean(w)' => TakenForClean(w)
    BY <1>3, <2>1, <2>2, CleanByReset DEF Step
  <2> QED
    BY <1>1, <2>1, <2>3, LeftAloneIsLife
<1> QED
  BY <1>2, <1>3

(* A call is made of the guest of a leased VM. *)
LEMMA UseIsLife ==
  ASSUME PoolInv, PoolInv', NEW t \in Tasks, UseRun(t),
         NEW w \in Vms, TakenForClean(w)' => TakenForClean(w)
  PROVE  [Life(w)!LifeNext]_(Life(w)!lifeVars)
<1>1. UNCHANGED <<vm, active>> /\ target[t] \in active
  BY DEF UseRun, tables, PoolInv, UsedIsActive
<1>2. CASE w = target[t] /\ vm[w] = "running" /\ dirty' = dirty \cup {w}
  <2>1. ~TakenForClean(w)'
    BY <1>1, <1>2 DEF PoolInv, OnePlace, InFlight, TakenForClean
  <2>2. Life(w)!Use
    BY <1>1, <1>2, <2>1 DEF Life!Use, Life!Held
  <2> QED
    BY <2>2 DEF Life!LifeNext
<1>3. CASE ~(w = target[t] /\ vm[w] = "running" /\ dirty' = dirty \cup {w})
  <2>1. w \in dirty' <=> w \in dirty
    BY <1>3 DEF UseRun
  <2> QED
    BY <1>1, <2>1, LeftAloneIsLife
<1> QED
  BY <1>2, <1>3

(* A guest kernel panics, or a Firecracker process is killed. *)
LEMMA CrashIsLife ==
  ASSUME PoolInv, NEW v \in Vms, Crash(v), NEW w \in Vms
  PROVE  [Life(w)!LifeNext]_(Life(w)!lifeVars)
<1>1. vm \in [Vms -> Process]
  BY DEF PoolInv, PoolTypeOK
<1>2. TakenForClean(w)' = TakenForClean(w)
  BY DEF Crash, tables, locals, TakenForClean, Pooled
<1>3. CASE w = v
  <2>1. Life(w)!Crash
    BY <1>1, <1>2, <1>3 DEF Life!Crash, Crash
  <2> QED
    BY <2>1 DEF Life!LifeNext
<1>4. CASE w # v
  BY <1>1, <1>2, <1>4, LeftAloneIsLife DEF Crash
<1> QED
  BY <1>3, <1>4

(* A step of a call is one in the life of every VM. *)
LEMMA StepIsLife ==
  ASSUME PoolInv, PoolInv', NEW t \in Tasks, Begin(t) \/ Step(t), NEW w \in Vms
  PROVE  [Life(w)!LifeNext]_(Life(w)!lifeVars)
<1> USE DEF tables, locks, guests, locals
<1>1. CASE ReleaseReset(t)
  BY <1>1, ResetIsLife
<1>2. ASSUME ~ReleaseReset(t), ~Boot(w)
      PROVE  TakenForClean(w)' => TakenForClean(w)
  BY <1>2, CleanByReset
<1>3. CASE AcquireCreate(t) \/ WarmUpCreate(t)
  <2>1. ~ReleaseReset(t)
    BY <1>3 DEF AcquireCreate, WarmUpCreate, ReleaseReset
  <2>2. CASE \E v \in Vms : Boot(v) /\ Own(t, {v})
                           /\ (Goto(t, "acquire_insert") \/ Goto(t, "warm_push"))
    <3>1. PICK v \in Vms : Boot(v) /\ Own(t, {v})
                          /\ (Goto(t, "acquire_insert") \/ Goto(t, "warm_push"))
      BY <2>2
    <3>2. v \in owned'[t] /\ pc'[t] \in CleanAt
      BY <3>1 DEF PoolInv, PoolTypeOK, Own, Goto, CleanAt
    <3>3. w # v => ~Boot(w)
      BY <3>1 DEF Boot, PoolInv, PoolTypeOK
    <3> QED
      BY <1>2, <2>1, <3>1, <3>2, <3>3, BootIsLife
  <2>3. CASE UNCHANGED <<vm, dirty>>
    <3>1. ~Boot(w)
      BY <2>3 DEF Boot, PoolInv, PoolTypeOK
    <3> QED
      BY <1>2, <2>1, <2>3, <3>1, LeftAloneIsLife
  <2> QED
    BY <1>3, <2>2, <2>3 DEF AcquireCreate, WarmUpCreate
<1>4. CASE ReleaseDestroy(t) \/ StopActive(t) \/ StopPool(t)
  <2>1. UNCHANGED <<vm, dirty>> \/ \E v \in owned[t] : Stop(v)
    BY <1>4 DEF ReleaseDestroy, StopActive, StopPool
  <2>2. ~ReleaseReset(t) /\ ~Boot(w)
    BY <1>4, <2>1
    DEF ReleaseDestroy, StopActive, StopPool, ReleaseReset, Stop, Boot, PoolInv, PoolTypeOK
  <2> QED
    BY <1>2, <2>1, <2>2, StopIsLife, LeftAloneIsLife
<1>5. CASE UseRun(t)
  <2>1. ~ReleaseReset(t) /\ ~Boot(w)
    BY <1>5 DEF UseRun, ReleaseReset, Boot, PoolInv, PoolTypeOK
  <2> QED
    BY <1>2, <1>5, <2>1, UseIsLife
<1>6. CASE \/ Begin(t) \/ AcquirePop(t) \/ AcquireTake(t) \/ AcquireCheck(t)
           \/ AcquireCount(t) \/ AcquireInsert(t) \/ ReleaseRemove(t) \/ ReleaseCheck(t)
           \/ ReleasePush(t) \/ UseFind(t) \/ ListActive(t) \/ StatsActive(t)
           \/ StatsPool(t) \/ WarmUpCount(t) \/ WarmUpPush(t) \/ DrainActive(t)
           \/ DrainPool(t)
  <2>1. UNCHANGED <<vm, dirty>>
    BY <1>6
    DEF Begin, Call, AcquirePop, AcquireTake, AcquireCheck, AcquireCount, AcquireInsert,
        ReleaseRemove, ReleaseCheck, ReleasePush, UseFind, ListActive, StatsActive,
        StatsPool, WarmUpCount, WarmUpPush, DrainActive, DrainPool
  <2>2. ~Boot(w)
    BY <2>1 DEF Boot, PoolInv, PoolTypeOK
  <2> QED
    BY <1>1, <1>2, <2>1, <2>2, LeftAloneIsLife
<1> QED
  BY <1>1, <1>3, <1>4, <1>5, <1>6 DEF Step

(* The manager takes a VM for clean only as VmLife allows: when it has been  *)
(* created, or when its guest has carried out and answered a reset.          *)
THEOREM VmsAreAsPromised == PoolSpec => VmsKeepPromise
<1>1. PoolInit => LivesBegin
  BY DEF PoolInit, LivesBegin, Life!LifeInit, TakenForClean, Pooled
<1>2. ASSUME PoolInv, PoolInv', [PoolNext]_vars, NEW w \in Vms
      PROVE  [Life(w)!LifeNext]_(Life(w)!lifeVars)
  <2>1. CASE UNCHANGED vars
    <3>1. UNCHANGED <<vm, dirty>> /\ (TakenForClean(w)' <=> TakenForClean(w))
      BY <2>1 DEF vars, TakenForClean, Pooled
    <3> QED
      BY <1>2, <3>1, LeftAloneIsLife
  <2> QED
    BY <1>2, <2>1, StepIsLife, CrashIsLife DEF PoolNext
<1>3. PoolInv /\ PoolInv' /\ [PoolNext]_vars => [LivesGoOn]_vars
  BY <1>2 DEF LivesGoOn
<1> QED
  BY <1>1, <1>3, PoolInvariant, PTL DEF PoolSpec, VmsKeepPromise

=============================================================================
