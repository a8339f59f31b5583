------------------------------ MODULE VmLease -------------------------------
(***************************************************************************)
(* What the VM manager promises about each VM, whatever its tables and     *)
(* locks: a VM is created once, is leased to callers or kept warm or in    *)
(* the hands of one call, programs are loaded only into leased VMs, and a  *)
(* VM is put back into the pool only with no program left in it.           *)
(***************************************************************************)
CONSTANT Vms

VARIABLES place, dirty

leaseVars == <<place, dirty>>

Place == {"none", "held", "leased", "warm", "gone"}

LeaseInit ==
  /\ place = [v \in Vms |-> "none"]
  /\ dirty = {}

\* The VMs of set S go from one place to another together.
Move(S, from, to) ==
  /\ \A v \in S : place[v] = from
  /\ place' = [v \in Vms |-> IF v \in S THEN to ELSE place[v]]

Create(v)  == Move({v}, "none", "held") /\ UNCHANGED dirty
Lease(v)   == Move({v}, "held", "leased") /\ UNCHANGED dirty
Reclaim(S) == Move(S, "leased", "held") /\ UNCHANGED dirty
Unpark(S)  == Move(S, "warm", "held") /\ UNCHANGED dirty
Park(v)    == v \notin dirty /\ Move({v}, "held", "warm") /\ UNCHANGED dirty
Destroy(v) == Move({v}, "held", "gone") /\ dirty' = dirty \ {v}

Load(v) ==
  /\ place[v] = "leased"
  /\ dirty' = dirty \cup {v}
  /\ UNCHANGED place

Reset(v) ==
  /\ place[v] = "held"
  /\ dirty' = dirty \ {v}
  /\ UNCHANGED place

LeaseNext ==
  \/ \E v \in Vms : Create(v) \/ Lease(v) \/ Park(v) \/ Destroy(v) \/ Load(v) \/ Reset(v)
  \/ \E S \in SUBSET Vms : Reclaim(S) \/ Unpark(S)

LeaseSpec == LeaseInit /\ [][LeaseNext]_leaseVars

=============================================================================
