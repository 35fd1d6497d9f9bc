-------------------------- MODULE MCWorkflowSession --------------------------
(***************************************************************************)
(* WorkflowSession for TLC.  Symmetry is for the runs that check safety    *)
(* only.                                                                   *)
(***************************************************************************)
EXTENDS WorkflowSession, TLC

SessionSymmetry == Permutations(Ids)

=============================================================================
