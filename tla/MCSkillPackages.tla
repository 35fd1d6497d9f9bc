-------------------------- MODULE MCSkillPackages --------------------------
(***************************************************************************)
(* SkillPackages for TLC.                                                  *)
(***************************************************************************)
EXTENDS SkillPackages, TLC

Symmetry ==
    Permutations(Users) \cup Permutations(Requests) \cup
    Permutations(Revisions) \cup Permutations(Contexts)

=============================================================================
