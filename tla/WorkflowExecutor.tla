-------------------------- MODULE WorkflowExecutor --------------------------
(***************************************************************************)
(* One workflow under WorkflowExecutor (uri_core/core/workflow_executor.py)*)
(* as the orchestrator drives it: execute() for a new or a paused          *)
(* workflow, and complete_step_externally() or fail_step_externally() when *)
(* the approval a step waits for is decided.                               *)
(*                                                                         *)
(* The plan comes from the language model and is not validated beyond its  *)
(* shape (orchestrator.py:1160-1226): two steps may carry one id, a step   *)
(* may depend on an id no step has, on itself or on a cycle.  Init takes   *)
(* every such plan of N steps.                                             *)
(*                                                                         *)
(* execute() is split at the calls of the handlers: they are slow, they    *)
(* run foreign code, and their result is anyone's guess.                   *)
(***************************************************************************)
EXTENDS Naturals, FiniteSets, SequencesExt

CONSTANTS
    N,          \* number of steps of the workflow, in list order
    Ids,        \* step ids a plan may use
    MaxDeps,    \* bound: longest depends_on list
    MaxCalls    \* bound: execute() is not called again for a step that has
                \* been started so often

ASSUME SizeAssumption == N \in Nat /\ MaxDeps \in Nat /\ MaxCalls \in Nat

VARIABLES
    id,         \* id[i]: step_id of step i
    deps,       \* deps[i]: its depends_on list
    asks,       \* the steps with requires_user_input
    step,       \* step[i]: its status
    count,      \* count[i]: its execution_count
    wf,         \* the status of the workflow
    cursor,     \* the step execute() is at; 0 when it is not running
    calling,    \* execute() waits for the handler of that step
    progress    \* progress_made

plan == <<id, deps, asks>>
vars == <<plan, step, count, wf, cursor, calling, progress>>

Steps == 1 .. N

-----------------------------------------------------------------------------
\* The step an id stands for: step_map keeps the last one, the search of the
\* external calls finds the first one.
Carriers(d) == {i \in Steps : id[i] = d}
Mapped(d)   == CHOOSE i \in Carriers(d) : \A j \in Carriers(d) : j <= i
Found(d)    == CHOOSE i \in Carriers(d) : \A j \in Carriers(d) : i <= j

Done(d) == Carriers(d) # {} /\ step[Mapped(d)] = "completed"

\* Mutant: it is enough that the dependencies exist.
ReadyWhenKnown(i) == \A k \in DOMAIN deps[i] : Carriers(deps[i][k]) # {}

Ready(i) == \A k \in DOMAIN deps[i] : Done(deps[i][k])

\* The first dependency that is not completed, in list order, decides what
\* becomes of a step: here it is one that no step has.
Missing(i) ==
    \E k \in DOMAIN deps[i] :
        /\ Carriers(deps[i][k]) = {}
        /\ \A j \in 1 .. k - 1 : Done(deps[i][j])

Waiting == {i \in Steps : step[i] = "waiting_for_input"}

\* One type invariant for the module; execute() works on one step at a time.
TypeOK ==
    /\ id \in [Steps -> Ids]
    /\ \A i \in Steps : deps[i] \in Seq(Ids)
    /\ asks \subseteq Steps
    /\ step \in [Steps -> {"pending", "running", "waiting_for_input",
                           "completed", "failed", "blocked"}]
    /\ count \in [Steps -> Nat]
    /\ wf \in {"planned", "running", "waiting_for_input", "completed",
               "failed", "blocked"}
    /\ cursor \in 0 .. N + 1
    /\ calling \in BOOLEAN
    /\ progress \in BOOLEAN

-----------------------------------------------------------------------------
(* execute().                                                              *)

Enter ==
    /\ cursor' = 1
    /\ calling' = FALSE
    /\ progress' = FALSE

\* execute() is called.
Call ==
    /\ cursor = 0
    /\ \A i \in Steps : count[i] < MaxCalls
    /\ Enter
    /\ UNCHANGED <<plan, step, count, wf>>

\* A new workflow, or a paused one that the user's next message resumes.
Execute == wf \in {"planned", "waiting_for_input"} /\ Call

\* execute() returns, leaving the workflow with this status.
Return(status) ==
    /\ wf' = status
    /\ cursor' = 0
    /\ calling' = FALSE
    /\ progress' = FALSE

Advance ==
    /\ cursor' = cursor + 1
    /\ calling' = FALSE
    /\ UNCHANGED wf

At(i) == cursor = i /\ ~calling

Resumable(i) == step[i] \in {"pending", "waiting_for_input"}

\* A step that is finished, or whose dependencies are not, is passed over.  A
\* waiting one becomes pending all the same.
PassOver(i) ==
    /\ At(i)
    /\ ~Resumable(i) \/ (~Ready(i) /\ ~Missing(i))
    /\ step' = IF Resumable(i) THEN [step EXCEPT ![i] = "pending"] ELSE step
    /\ Advance
    /\ UNCHANGED <<plan, count, progress>>

\* Mutant: the status of the recovery metadata.
BlockStepRejected(i) ==
    /\ At(i)
    /\ Resumable(i)
    /\ Missing(i)
    /\ step' = [step EXCEPT ![i] = "rejected"]
    /\ Return("blocked")
    /\ UNCHANGED <<plan, count>>

\* _mark_step_blocked: the whole call ends.
BlockStep(i) ==
    /\ At(i)
    /\ Resumable(i)
    /\ Missing(i)
    /\ step' = [step EXCEPT ![i] = "blocked"]
    /\ Return("blocked")
    /\ UNCHANGED <<plan, count>>

\* The step starts.  One that needs the user's input pauses the workflow the
\* first time; otherwise its handler is called.
Start(i) ==
    /\ At(i)
    /\ Resumable(i)
    /\ Ready(i)
    /\ count' = [count EXCEPT ![i] = @ + 1]
    /\ IF i \in asks /\ step[i] = "pending"
         THEN /\ step' = [step EXCEPT ![i] = "waiting_for_input"]
              /\ Return("waiting_for_input")
         ELSE /\ step' = [step EXCEPT ![i] = "running"]
              /\ wf' = "running"
              /\ calling' = TRUE
              /\ UNCHANGED <<cursor, progress>>
    /\ UNCHANGED plan

Calling(i) == cursor = i /\ calling

\* The handler comes back with "success" or "degraded".
Succeed(i) ==
    /\ Calling(i)
    /\ step' = [step EXCEPT ![i] = "completed"]
    /\ progress' = TRUE
    /\ Advance
    /\ UNCHANGED <<plan, count>>

\* Mutants: the workflow is not marked; execute() goes on to the next step.
PauseUnmarked(i) ==
    /\ Calling(i)
    /\ step' = [step EXCEPT ![i] = "waiting_for_input"]
    /\ Return("planned")
    /\ UNCHANGED <<plan, count>>

PauseAndGoOn(i) ==
    /\ Calling(i)
    /\ step' = [step EXCEPT ![i] = "waiting_for_input"]
    /\ Advance
    /\ UNCHANGED <<plan, count, progress>>

\* ... with "waiting_for_input" or "awaiting_approval" (_pause_for_input).
Pause(i) ==
    /\ Calling(i)
    /\ step' = [step EXCEPT ![i] = "waiting_for_input"]
    /\ Return("waiting_for_input")
    /\ UNCHANGED <<plan, count>>

\* ... or with anything else, an exception included.
Fail(i) ==
    /\ Calling(i)
    /\ step' = [step EXCEPT ![i] = "failed"]
    /\ Return("failed")
    /\ UNCHANGED <<plan, count>>

\* Mutant: one pass over the steps has to do.
EndOfPassOnce ==
    /\ cursor = N + 1
    /\ Return(IF \A i \in Steps : step[i] = "completed"
                THEN "completed" ELSE "blocked")
    /\ UNCHANGED <<plan, step, count>>

\* Mutant: progress_made is not reset before the next pass.
EndOfPassStale ==
    /\ cursor = N + 1
    /\ IF progress
         THEN /\ cursor' = 1
              /\ UNCHANGED <<wf, calling, progress>>
         ELSE Return(IF \A i \in Steps : step[i] = "completed"
                       THEN "completed" ELSE "blocked")
    /\ UNCHANGED <<plan, step, count>>

\* The end of the for loop: another pass after progress, else the verdict.
EndOfPass ==
    /\ cursor = N + 1
    /\ IF progress
         THEN /\ Enter
              /\ UNCHANGED wf
         ELSE Return(IF \A i \in Steps : step[i] = "completed"
                       THEN "completed" ELSE "blocked")
    /\ UNCHANGED <<plan, step, count>>

-----------------------------------------------------------------------------
(* The decision of an approval (orchestrator.py:5894-5981).                *)

\* complete_step_externally and execute() for the id of step i.  Nothing at all
\* happens when the first step of that id is not a paused one.
CompleteAndCall(i) ==
    /\ cursor = 0
    /\ Found(id[i]) \in Waiting
    /\ step' = [step EXCEPT ![Found(id[i])] = "completed"]
    /\ wf' = IF wf = "waiting_for_input" THEN "planned" ELSE wf
    /\ Enter
    /\ UNCHANGED <<plan, count>>

\* fail_step_externally marks the first step of that id, whatever its status.
FailFromOutside(i) ==
    /\ cursor = 0
    /\ step' = [step EXCEPT ![Found(id[i])] = "failed"]
    /\ wf' = "failed"
    /\ UNCHANGED <<plan, count, cursor, calling, progress>>

\* The orchestrator calls them for a step that waits in a paused workflow.
CompleteExternally(i) ==
    wf = "waiting_for_input" /\ i \in Waiting /\ CompleteAndCall(i)

FailExternally(i) ==
    wf = "waiting_for_input" /\ i \in Waiting /\ FailFromOutside(i)

-----------------------------------------------------------------------------
Init ==
    /\ id \in [Steps -> Ids]
    /\ deps \in [Steps -> BoundedSeq(Ids, MaxDeps)]
    /\ asks \in SUBSET Steps
    /\ step = [i \in Steps |-> "pending"]
    /\ count = [i \in Steps |-> 0]
    /\ wf = "planned"
    /\ cursor = 0
    /\ calling = FALSE
    /\ progress = FALSE

\* What execute() does next, once it was called.
Run ==
    \/ EndOfPass
    \/ \E i \in Steps :
        \/ PassOver(i) \/ BlockStep(i) \/ Start(i)
        \/ Succeed(i) \/ Pause(i) \/ Fail(i)

Next ==
    \/ Run
    \/ Execute
    \/ \E i \in Steps : CompleteExternally(i) \/ FailExternally(i)

Spec == Init /\ [][Next]_vars

\* execute() keeps going and every handler returns: the tools it calls have
\* timeouts of their own.
FairSpec == Spec /\ WF_vars(Run)

-----------------------------------------------------------------------------
(* Safety.                                                                 *)

\* A step is started, waits and completes only on top of completed
\* dependencies, across pauses, resumptions, passes and external completions
\* (workflow_executor.py:659-688).
DependenciesFirst ==
    wf # "failed" =>
        \A i \in Steps :
            step[i] \in {"running", "waiting_for_input", "completed"} =>
                \A k \in DOMAIN deps[i] :
                    /\ Carriers(deps[i][k]) # {}
                    /\ step[Mapped(deps[i][k])] = "completed"

\* A plan in which every step comes after the steps it depends on.
InListOrder ==
    \A i \in Steps : \A k \in DOMAIN deps[i] :
        Carriers(deps[i][k]) # {} /\ Mapped(deps[i][k]) < i

\* One question at a time, if the plan is in list order: no two steps wait for
\* the user, nor does one wait while another one's handler runs.  The session
\* keeps a single question, and the decision of an approval takes the first
\* waiting step (orchestrator.py:5905-5916).  Without the order both fail: a
\* step that a later one unblocked starts when the paused one is resumed.
OneQuestion ==
    (InListOrder /\ wf # "failed") =>
        Cardinality({i \in Steps :
            step[i] \in {"running", "waiting_for_input"}}) <= 1

\* Between the calls no step is left running, a paused workflow has a step that
\* waits, and, if the plan is in list order, a workflow that was given up has
\* no step left waiting for an answer, unless that step was failed from
\* outside under an id it shares.
NothingLeftHanging ==
    cursor = 0 =>
        /\ \A i \in Steps : step[i] # "running"
        /\ wf = "waiting_for_input" => Waiting # {}
        /\ InListOrder /\ Waiting # {} => wf \in {"waiting_for_input", "failed"}

\* execute() never gives up on a sound plan: if it ends as blocked, the plan has
\* a set of steps each of which depends on another one of the set or on an id
\* that no step has.
BlockedOnlyByBadPlan ==
    (cursor = 0 /\ wf = "blocked") =>
        \E S \in (SUBSET Steps) \ {{}} :
            \A i \in S : \E k \in DOMAIN deps[i] :
                Carriers(deps[i][k]) = {} \/ Mapped(deps[i][k]) \in S

(* Liveness, under FairSpec.                                               *)

\* A call of execute() returns, whatever cycles the plan has.
ExecuteReturns == (cursor # 0) ~> (cursor = 0)

=============================================================================
