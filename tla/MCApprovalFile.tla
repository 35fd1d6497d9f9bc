--------------------------- MODULE MCApprovalFile ---------------------------
(***************************************************************************)
(* ApprovalFile for TLC.                                                   *)
(***************************************************************************)
EXTENDS ApprovalFile, TLC

FileSymmetry ==
    Permutations(Actions) \cup Permutations(Threads) \cup Permutations(Sessions)

=============================================================================
