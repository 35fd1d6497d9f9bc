------------------------- MODULE MCWorkflowExecutor -------------------------
(***************************************************************************)
(* WorkflowExecutor for TLC.  The step ids are interchangeable, the        *)
(* symmetry set is for the run that checks safety only.                    *)
(***************************************************************************)
EXTENDS WorkflowExecutor, TLC

IdSymmetry == Permutations(Ids)

=============================================================================
