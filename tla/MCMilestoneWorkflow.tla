------------------------ MODULE MCMilestoneWorkflow ------------------------
(***************************************************************************)
(* MilestoneWorkflow for TLC.                                              *)
(***************************************************************************)
EXTENDS MilestoneWorkflow, TLC

CommandSymmetry == Permutations(Commands)


=============================================================================
