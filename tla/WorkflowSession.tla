--------------------------- MODULE WorkflowSession ---------------------------
(***************************************************************************)
(* One chat session with one workflow the language model has composed      *)
(* (uri_core/core/orchestrator.py, state.py and workflow_recovery.py): the *)
(* executor of WorkflowExecutor.tla, the actions its steps propose, the    *)
(* session's copy of the workflow and the copy in the session's file.      *)
(*                                                                         *)
(* The workflow is changed in place while it runs; the file is written     *)
(* afterwards.  The server may die at any point and loads the file again.  *)
(* A turn that is answered elsewhere (canonical_execution.py:784) saves    *)
(* the session as it is, also in the middle of a run.  A message to a      *)
(* workflow that waits resumes it, or is answered elsewhere and leaves it, *)
(* or makes the server drop it (server.py:1715-1752).  The requests that   *)
(* touch the workflow come one at a time.                                  *)
(***************************************************************************)
EXTENDS WorkflowExecutor

CONSTANTS
    Gated,      \* capabilities that need an approval
    Open,       \* capabilities that do not
    Actions,    \* bound: pool of action ids
    MaxCrashes, \* bound: how often the server may die
    None        \* no action, no decision

ASSUME SessionAssumption == Gated \cap Open = {} /\ MaxCrashes \in Nat

VARIABLES
    cap,        \* cap[i]: the capability of step i
    phase,      \* what the request under way is about to do
    active,     \* active_workflow_status, "none" without active workflow
    recovered,  \* active_workflow_recovered: it was loaded from the file
    disk,       \* the workflow part of the session's file
    forgotten,  \* history: a workflow was dropped and nothing saved since
    action,     \* action[a]: the proposed action a, or None
    decision,   \* the decision being carried back to the workflow, or None
    begun,      \* the user has asked for the workflow
    calls,      \* history: how often the handler of a step was called
    crashes,    \* history: how often the server has died
    savedMidRun \* history: another turn has saved the session during a run

stateVars   == <<cap, action, decision, begun>>
historyVars == <<calls, crashes, savedMidRun>>

fileVars    == <<disk, forgotten>>

sessionVars == <<vars, stateVars, phase, active, recovered, fileVars,
                 historyVars>>

-----------------------------------------------------------------------------
Capabilities == Gated \cup Open

\* step = 0: proposed by a turn of its own, outside the workflow.
Action   == [step : 0 .. N, cap : Gated, open : BOOLEAN]
Decision == [action : Actions, success : BOOLEAN]
Active   == {"none", "waiting_for_input", "recovery_review"}

ASSUME NoneAssumption == None \notin Action \cup Decision

\* The workflow part of a session's file: without an active workflow it is
\* empty.
Blank == [active |-> "none", step |-> [i \in Steps |-> "pending"],
          count |-> [i \in Steps |-> 0], wf |-> "planned"]

Snapshot ==
    IF active = "none"
      THEN Blank
      ELSE [active |-> active, step |-> step, count |-> count, wf |-> wf]

\* The validator wants unique ids, known dependencies and no cycle ...
SoundPlan ==
    /\ \A i, j \in Steps : id[i] = id[j] => i = j
    /\ \A i \in Steps : \A k \in DOMAIN deps[i] : Carriers(deps[i][k]) # {}
    /\ \A S \in (SUBSET Steps) \ {{}} :
        \E i \in S : \A k \in DOMAIN deps[i] : Mapped(deps[i][k]) \notin S

\* ... and statuses that go together.
Valid ==
    /\ SoundPlan
    /\ wf = "waiting_for_input" => Waiting # {}
    /\ wf = "failed" => \E i \in Steps : step[i] = "failed"
    /\ wf = "completed" => \A i \in Steps : step[i] = "completed"
    /\ wf \in {"completed", "failed", "blocked"} =>
            \A i \in Steps : step[i] # "running"

RecoveryAction ==
    CASE ~Valid -> "reject"
      [] Valid /\ wf \in {"planned", "waiting_for_input"} -> "resume"
      [] Valid /\ wf = "running"   -> "recovery_review"
      [] Valid /\ wf = "completed" -> "already_complete"
      [] OTHER -> wf

SessionTypeOK ==
    /\ TypeOK
    /\ cap \in [Steps -> Capabilities]
    /\ phase \in {"idle", "execute", "settle", "decided", "dropped"}
    /\ active \in Active
    /\ recovered \in BOOLEAN
    /\ disk.active \in Active
    /\ DOMAIN disk.step = Steps /\ DOMAIN disk.count = Steps
    /\ action \in [Actions -> Action \cup {None}]
    /\ forgotten \in BOOLEAN
    /\ decision \in Decision \cup {None}
    /\ (decision # None) = (phase = "decided")
    /\ begun \in BOOLEAN
    /\ calls \in [Steps -> Nat]
    /\ crashes \in 0 .. MaxCrashes
    /\ savedMidRun \in BOOLEAN

-----------------------------------------------------------------------------
(* Saving and loading.                                                     *)

\* Mutant: only the status is brought up to date in the file.
PersistStatus ==
    /\ disk' = [disk EXCEPT !.active = active', !.wf = wf']
    /\ forgotten' = FALSE

\* _persist_session, at the end of the step that changes the session.
Persist ==
    /\ disk' = Snapshot'
    /\ forgotten' = FALSE

\* A turn that canonical execution answers saves the session as it stands.
OtherTurnSaves ==
    /\ disk # Snapshot
    /\ savedMidRun' = (savedMidRun \/ phase \in {"execute", "settle"})
    /\ UNCHANGED <<vars, stateVars, phase, active, recovered, calls, crashes>>
    /\ Persist

\* Mutant: only a step that waits keeps its place.
LoadedAfresh(saved) ==
    [i \in Steps |-> IF saved.step[i] = "waiting_for_input"
                       THEN saved.step[i] ELSE "pending"]

Loaded(saved) == saved.step

\* The server dies and loads what the file has.  A save it dies in leaves a
\* file that cannot be parsed, which loads as a new session (state.py:678-680).
Crash ==
    /\ crashes < MaxCrashes
    /\ crashes' = crashes + 1
    /\ disk' \in {disk, Blank}
    /\ forgotten' = FALSE
    /\ active' = disk'.active
    /\ recovered' = (disk'.active # "none")
    /\ step' = Loaded(disk')
    /\ count' = disk'.count
    /\ wf' = disk'.wf
    /\ cursor' = 0
    /\ calling' = FALSE
    /\ progress' = FALSE
    /\ phase' = "idle"
    /\ decision' = None
    /\ UNCHANGED <<plan, cap, action, begun, calls, savedMidRun>>

-----------------------------------------------------------------------------
(* Turns of the user.                                                      *)

\* A turn for which the model proposes the workflow: execute() it.
Begin ==
    /\ phase = "idle"
    /\ active = "none"
    /\ ~begun
    /\ Execute
    /\ begun' = TRUE
    /\ phase' = "execute"
    /\ UNCHANGED <<cap, action, decision, active, recovered, fileVars,
                   historyVars>>

\* An action gets a new id.  Which one makes no difference.
IsNew(a) ==
    /\ action[a] = None
    /\ a = CHOOSE b \in Actions : action[b] = None

\* A turn outside the workflow may propose an action of its own.
MayPropose ==
    \/ UNCHANGED action
    \/ \E a \in Actions, c \in Gated :
        /\ IsNew(a)
        /\ action' = [action EXCEPT ![a] =
                        [step |-> 0, cap |-> c, open |-> TRUE]]

\* A turn that is answered without the workflow, which may be waiting all the
\* same: canonical execution answers before the orchestrator resumes it.  The
\* session is saved, unless the turn fails.
AnswerElsewhere ==
    /\ phase = "idle"
    /\ MayPropose
    /\ UNCHANGED <<vars, cap, decision, begun, phase, active, recovered,
                   historyVars>>
    /\ Persist \/ UNCHANGED fileVars

\* A message that canonical execution, which is asked first, does not take for
\* an answer to the workflow that waits: _clear_active_workflow, in memory only.
\* What canonical execution did with the message before, it has saved.
Drop ==
    /\ phase = "idle"
    /\ active = "waiting_for_input"
    /\ active' = "none"
    /\ phase' = "dropped"
    /\ MayPropose
    /\ UNCHANGED <<vars, cap, decision, begun, recovered, fileVars,
                   historyVars>>

\* The message is then answered once more, without the workflow, and the session
\* saved; or the answer fails in the broad except of process_user_input, which
\* saves nothing.
AnswerDropped ==
    /\ phase = "dropped"
    /\ phase' = "idle"
    /\ MayPropose
    /\ UNCHANGED <<vars, cap, decision, begun, active, recovered, historyVars>>
    /\ \/ Persist
       \/ UNCHANGED disk /\ forgotten' = (disk.active # "none")

\* A message that gets as far as the orchestrator while a workflow waits resumes
\* it.  One that answers a question (required_field) becomes a fact and is saved
\* first.
Message(answers) ==
    /\ phase = "idle"
    /\ active = "waiting_for_input"
    /\ recovered => RecoveryAction = "resume"
    /\ Execute
    /\ phase' = "execute"
    /\ recovered' = (recovered /\ ~answers)
    /\ UNCHANGED <<stateVars, active, historyVars>>
    /\ IF answers THEN Persist ELSE UNCHANGED fileVars

\* A message to a session whose workflow was loaded from the file and is not
\* fit to go on.  What is complete is forgotten; what was running is put under
\* review; everything else is only reported, in this turn and in every other.
MessageRefused ==
    /\ phase = "idle"
    /\ active # "none"
    /\ recovered
    /\ RecoveryAction \in {"already_complete", "recovery_review"}
    /\ active' = IF RecoveryAction = "already_complete" THEN "none"
                                                        ELSE "recovery_review"
    /\ UNCHANGED <<vars, stateVars, phase, recovered, historyVars>>
    /\ Persist

-----------------------------------------------------------------------------
(* Execution.                                                              *)

\* The handler of step i.  An open capability runs; a gated one proposes an
\* action and the step pauses.
Handled(i) ==
    \/ /\ cap[i] \in Open
       /\ Succeed(i) \/ Pause(i)
       /\ UNCHANGED action
    \/ /\ cap[i] \in Gated
       /\ Pause(i)
       /\ \E a \in Actions :
            /\ IsNew(a)
            /\ action' = [action EXCEPT ![a] =
                            [step |-> i, cap |-> cap[i], open |-> TRUE]]
    \/ /\ Fail(i)
       /\ UNCHANGED action

Passing(i) == PassOver(i) \/ BlockStep(i) \/ Start(i)

ExecuteOn ==
    /\ phase = "execute"
    /\ \/ /\ EndOfPass \/ \E i \in Steps : Passing(i)
          /\ UNCHANGED action
       \/ \E i \in Steps : Handled(i)
    /\ calls' = IF calling' /\ ~calling
                  THEN [calls EXCEPT ![cursor] = @ + 1] ELSE calls
    /\ phase' = IF cursor' = 0 THEN "settle" ELSE "execute"
    /\ UNCHANGED <<cap, decision, begun, active, recovered, fileVars, crashes,
                   savedMidRun>>

\* Mutant: the status of the result is stored, whatever it is.
SettleMirrors ==
    /\ phase = "settle"
    /\ active' = wf
    /\ recovered' = (recovered /\ wf # "waiting_for_input")
    /\ phase' = "idle"
    /\ UNCHANGED <<vars, stateVars, historyVars>>
    /\ Persist

\* Mutant: the session is not saved after the workflow was cleared.
SettleUnsaved ==
    /\ phase = "settle"
    /\ active' = IF wf = "waiting_for_input" THEN wf ELSE "none"
    /\ recovered' = (recovered /\ wf # "waiting_for_input")
    /\ phase' = "idle"
    /\ UNCHANGED <<vars, stateVars, historyVars>>
    /\ IF wf = "waiting_for_input" THEN Persist ELSE UNCHANGED fileVars

\* What the turn does with the result: _save_paused_workflow for a paused
\* workflow, _clear_active_workflow for any other, and save the session.
Settle ==
    /\ phase = "settle"
    /\ active' = IF wf = "waiting_for_input" THEN wf ELSE "none"
    /\ recovered' = (recovered /\ wf # "waiting_for_input")
    /\ phase' = "idle"
    /\ UNCHANGED <<vars, stateVars, historyVars>>
    /\ Persist

-----------------------------------------------------------------------------
(* Decisions.                                                              *)

\* decide_action: the gate decides, and runs what was approved
\* (ApprovalGate.tla); a decision of what is not pending is refused with an
\* error.
Decide(a, approved, worked) ==
    /\ phase = "idle"
    /\ action[a] # None
    /\ action' = [action EXCEPT ![a].open = FALSE]
    /\ decision' = [action |-> a,
                    success |-> action[a].open /\ approved /\ worked]
    /\ phase' = "decided"
    /\ UNCHANGED <<vars, cap, begun, active, recovered, fileVars, historyVars>>

\* Mutant: the first waiting step, whatever its capability.
DecidedAnyStep == Waiting

\* The waiting steps a decision is taken for.
DecidedSteps == {i \in Waiting : cap[i] = action[decision.action].cap}

DecidedStep == CHOOSE i \in DecidedSteps : \A j \in DecidedSteps : i <= j

\* _resume_model_workflow_after_decision: complete the step and go on, or fail
\* it and clear the workflow.
Continue ==
    /\ phase = "decided"
    /\ decision' = None
    /\ IF active # "waiting_for_input" \/ DecidedSteps = {}
         THEN phase' = "idle" /\ UNCHANGED vars
         ELSE IF ~decision.success
           THEN phase' = "settle" /\ FailFromOutside(DecidedStep)
           ELSE IF Found(id[DecidedStep]) \notin Waiting
             THEN phase' = "idle" /\ UNCHANGED vars
             ELSE phase' = "execute" /\ CompleteAndCall(DecidedStep)
    /\ UNCHANGED <<cap, action, begun, active, recovered, fileVars,
                   historyVars>>

-----------------------------------------------------------------------------
SessionInit ==
    /\ Init
    /\ cap \in [Steps -> Capabilities]
    /\ phase = "idle"
    /\ active = "none"
    /\ recovered = FALSE
    /\ disk = Snapshot
    /\ forgotten = FALSE
    /\ action = [a \in Actions |-> None]
    /\ decision = None
    /\ begun = FALSE
    /\ calls = [i \in Steps |-> 0]
    /\ crashes = 0
    /\ savedMidRun = FALSE

Proceed == ExecuteOn \/ Settle \/ Continue \/ AnswerDropped

SessionNext ==
    \/ Proceed
    \/ Begin
    \/ AnswerElsewhere
    \/ Drop
    \/ \E answers \in BOOLEAN : Message(answers)
    \/ MessageRefused
    \/ \E a \in Actions, approved, worked \in BOOLEAN :
        Decide(a, approved, worked)
    \/ OtherTurnSaves
    \/ Crash

SessionSpec == SessionInit /\ [][SessionNext]_sessionVars

\* A request that can go on goes on; users, other turns and crashes owe nothing.
SessionFairSpec == SessionSpec /\ WF_sessionVars(Proceed)

-----------------------------------------------------------------------------
(* Safety.                                                                 *)

\* Between the requests the file is up to date: a server that dies while no
\* request is under way and nothing is being saved loses nothing of the
\* workflow and brings nothing back, and the session is marked as waiting when
\* its workflow waits.  The one exception is a workflow that a message made the
\* server drop in a turn that failed: it is still in the file, and a restart
\* brings it back, until something saves the session.
QuietMeansSaved ==
    phase = "idle" =>
        /\ disk.active = active \/ (forgotten /\ active = "none")
        /\ active # "none" => disk = Snapshot
        /\ (active = "waiting_for_input" /\ ~recovered) =>
                wf = "waiting_for_input"

\* What the file knows to be completed is never done again, whatever happens
\* between two saves: the server may die and the workflow be resumed from the
\* file (orchestrator.py:5866-5870, state.py:664-674).
SavedCompletionKept ==
    [][\A i \in Steps :
        (disk.active # "none" /\ disk.step[i] = "completed") =>
            calls'[i] = calls[i]]_sessionVars

\* A decision reaches the step that proposed the action, and no other one.
Misdirected ==
    \E i \in Steps : /\ phase = "decided"
                     /\ step'[i] # step[i]
                     /\ action[decision.action].step # i

DecisionReachesOwnStep == [][Continue => ~Misdirected]_sessionVars

\* The only ways to miss it: the capability or the id is shared, the action was
\* proposed outside the workflow.
DecisionMissesOnlyBy ==
    [][(Continue /\ Misdirected) =>
        \/ action[decision.action].step = 0
        \/ \E i, j \in Steps : i # j /\ (cap[i] = cap[j] \/ id[i] = id[j])
      ]_sessionVars

\* A restart leaves the session with a workflow that the orchestrator refuses
\* every further message for, only if the plan was unsound from the start or
\* another turn saved the session in the middle of a run.
Refusing ==
    /\ phase = "idle"
    /\ active # "none"
    /\ recovered
    /\ RecoveryAction \notin {"resume", "already_complete"}

RefusesOnlyBadPlan == Refusing => ~SoundPlan \/ savedMidRun

(* Liveness, under SessionFairSpec.                                        *)

\* Every request comes to its end, with the workflow paused or gone.
RequestEnds == (phase # "idle") ~> (phase = "idle")

=============================================================================
