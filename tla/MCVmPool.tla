------------------------------ MODULE MCVmPool ------------------------------
(***************************************************************************)
(* Small instances of VmPool for TLC.                                      *)
(***************************************************************************)
EXTENDS VmPool, TLC

MCSymmetry == Permutations(Tasks) \cup Permutations(Vms)

=============================================================================
