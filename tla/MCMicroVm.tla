----------------------------- MODULE MCMicroVm ------------------------------
(***************************************************************************)
(* Small instances of MicroVm for TLC.                                     *)
(***************************************************************************)
EXTENDS MicroVm, TLC

MCSymmetry == Permutations(Targets)

=============================================================================
