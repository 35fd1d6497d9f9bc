-------------------------- MODULE MilestoneStates --------------------------
(***************************************************************************)
(* The transition rules of a development milestone                         *)
(* (scripts/dev_workflow/state_machine.py): the states, who may record     *)
(* which of them, and validate_transition(), which every change of a       *)
(* milestone record goes through.                                          *)
(***************************************************************************)

States ==
    {"DRAFT", "AWAITING_USER_APPROVAL", "ACCEPTED", "IMPLEMENTING",
     "AUDITING", "FIXING", "VERIFYING", "VERIFIED", "NOT_VERIFIED",
     "COMPLETE", "BLOCKED", "WORKER_FAILED", "WAITING_FOR_QUOTA",
     "WAITING_FOR_CLAUDE", "WAITING_FOR_ANTIGRAVITY", "WAITING_FOR_MODEL",
     "READY_TO_RESUME"}

\* Gemma, Qwen and Codex have no transition of their own: the engine records
\* their work as Antigravity's.
Actors == {"User", "Claude", "Antigravity", "Gemma", "Qwen", "Codex"}

\* VALID_TRANSITIONS.
ValidTransitions(s) ==
    CASE s = "DRAFT" ->
            {"DRAFT", "AWAITING_USER_APPROVAL", "ACCEPTED", "BLOCKED"}
      [] s = "AWAITING_USER_APPROVAL" -> {"ACCEPTED", "DRAFT", "BLOCKED"}
      [] s = "ACCEPTED" ->
            {"DRAFT", "IMPLEMENTING", "BLOCKED", "WAITING_FOR_QUOTA",
             "WORKER_FAILED"}
      [] s = "IMPLEMENTING" ->
            {"AUDITING", "WORKER_FAILED", "WAITING_FOR_QUOTA",
             "WAITING_FOR_MODEL", "BLOCKED"}
      [] s = "AUDITING" ->
            {"AUDITING", "FIXING", "VERIFYING", "WAITING_FOR_CLAUDE",
             "WAITING_FOR_ANTIGRAVITY", "WAITING_FOR_MODEL", "BLOCKED"}
      [] s = "FIXING" ->
            {"AUDITING", "WORKER_FAILED", "WAITING_FOR_MODEL", "BLOCKED"}
      [] s = "VERIFYING" ->
            {"VERIFIED", "NOT_VERIFIED", "FIXING", "AUDITING", "BLOCKED",
             "WAITING_FOR_CLAUDE", "WAITING_FOR_MODEL"}
      [] s = "VERIFIED" -> {"COMPLETE", "BLOCKED"}
      [] s = "NOT_VERIFIED" -> {"FIXING", "BLOCKED", "DRAFT"}
      [] s = "COMPLETE" -> {"DRAFT"}
      [] s = "BLOCKED" -> {"READY_TO_RESUME", "DRAFT", "ACCEPTED", "FIXING"}
      [] s = "WORKER_FAILED" ->
            {"READY_TO_RESUME", "IMPLEMENTING", "BLOCKED"}
      [] s = "WAITING_FOR_QUOTA" ->
            {"READY_TO_RESUME", "IMPLEMENTING", "AUDITING", "VERIFYING",
             "BLOCKED"}
      [] s = "WAITING_FOR_CLAUDE" ->
            {"READY_TO_RESUME", "VERIFYING", "BLOCKED"}
      [] s = "WAITING_FOR_ANTIGRAVITY" ->
            {"READY_TO_RESUME", "AUDITING", "FIXING", "BLOCKED"}
      [] s = "WAITING_FOR_MODEL" -> {"READY_TO_RESUME", "BLOCKED"}
      [] s = "READY_TO_RESUME" ->
            {"IMPLEMENTING", "AUDITING", "FIXING", "VERIFYING", "DRAFT",
             "BLOCKED"}

\* ACTOR_PERMITTED_TRANSITIONS.
PermittedTo(actor) ==
    CASE actor = "User" ->
            {"ACCEPTED", "AWAITING_USER_APPROVAL", "DRAFT", "BLOCKED",
             "READY_TO_RESUME"}
      [] actor = "Claude" ->
            {"DRAFT", "AWAITING_USER_APPROVAL", "ACCEPTED", "VERIFYING",
             "VERIFIED", "NOT_VERIFIED", "COMPLETE", "BLOCKED",
             "WAITING_FOR_CLAUDE", "WAITING_FOR_MODEL", "READY_TO_RESUME"}
      [] actor = "Antigravity" ->
            {"IMPLEMENTING", "AUDITING", "FIXING", "VERIFYING", "BLOCKED",
             "WORKER_FAILED", "WAITING_FOR_QUOTA", "WAITING_FOR_CLAUDE",
             "WAITING_FOR_ANTIGRAVITY", "WAITING_FOR_MODEL",
             "READY_TO_RESUME"}
      [] OTHER -> {}

\* Mutant: the state graph is left to the named rules.
ValidByRules(from, to, actor) ==
    /\ to = "ACCEPTED" => actor = "User"
    /\ to \in {"VERIFIED", "NOT_VERIFIED"} => actor = "Claude"
    /\ to = "IMPLEMENTING" =>
          from \in {"ACCEPTED", "READY_TO_RESUME", "WORKER_FAILED"}
    /\ to = "COMPLETE" => from = "VERIFIED" /\ actor = "Claude"
    /\ to \in PermittedTo(actor)

\* Mutant: Antigravity may hand an implementation over without an audit.
ValidWithoutAudit(from, to, actor) ==
    \/ /\ from = "IMPLEMENTING" /\ to = "VERIFYING"
       /\ actor = "Antigravity"
    \/ /\ to = "ACCEPTED" => actor = "User"
       /\ to \in {"VERIFIED", "NOT_VERIFIED"} => actor = "Claude"
       /\ to \in ValidTransitions(from)
       /\ to \in PermittedTo(actor)

\* validate_transition().  MilestoneStateRecord.transition() never passes
\* standing_auto_approval, so rule 1 lets nobody but the User accept; rule 2
\* is about Qwen, who is permitted nothing anyway.
Valid(from, to, actor) ==
    /\ to = "ACCEPTED" => actor = "User"
    /\ to \in {"VERIFIED", "NOT_VERIFIED"} => actor = "Claude"
    /\ to = "IMPLEMENTING" =>
          from \in {"ACCEPTED", "READY_TO_RESUME", "WORKER_FAILED"}
    /\ to = "COMPLETE" => from = "VERIFIED" /\ actor = "Claude"
    /\ to \in ValidTransitions(from)
    /\ to \in PermittedTo(actor)

=============================================================================
