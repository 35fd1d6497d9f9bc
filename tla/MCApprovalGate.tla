--------------------------- MODULE MCApprovalGate ---------------------------
(***************************************************************************)
(* ApprovalGate for TLC.  The .cfg files give the constants; the symmetry  *)
(* set is for the runs that check safety only.                             *)
(***************************************************************************)
EXTENDS ApprovalGate, TLC

GateSymmetry == Permutations(Actions) \cup Permutations(Threads)

=============================================================================
