# URI: a verification project

URI (`src/uri_core`) is a personal assistant: a FastAPI server that lets a
language model propose work and keeps every decision that matters - may this
capability run, did the user approve it, where does this workflow stand - in
deterministic code.  This directory models that code in TLA+, checks it with
TLC and proves the most important facts with TLAPS.  Paths below are relative to
`src/uri_core` unless they begin with `src/`.

## 1. Inventory

| Component | State | Operations | Talks to |
|---|---|---|---|
| Approval store (`core/approval_store.py`) | `approvals.json`: a list of proposed actions with status pending, approved, rejected, consumed, expired | `propose`, `get`, `list_pending`, `decide`, `consume`; each loads and saves the whole file | used by the gate, the resumption and the canonical execution |
| Approval gate (`core/approval_gate.py`) | none of its own | `execute_tool` (grant check, run or propose), `decide` (decide, consume, dispatch) | store, grants, dispatcher, audit trail |
| Approval resumption (`core/approval_resumption.py`) | none | a bare yes or no in a new turn decides the one pending action of the session | store, gate, multi-action dispatch |
| Capability grants (`core/capability_resolver.py`) | grants per user | `set_grants`, `is_allowed` | both gates; the administrator |
| Multi-action capabilities (`core/multi_action_dispatch.py`, `capabilities/`) | none | `dispatch`, `dispatch_explicit`, chains | grants, Gmail and others |
| Workflow executor (`core/workflow_executor.py`) | the workflow dict: status, and per step status, execution count, output | `execute`, `complete_step_externally`, `fail_step_externally` | step handlers, i.e. the gate |
| Workflow session (`core/orchestrator.py`, `core/state.py`, `core/workflow_recovery.py`) | the active workflow, its status and question, in memory and in the session's file | start, pause, resume, recover after a restart, continue after a decision | executor, gate, session manager |
| Decision engine, canonical execution (`core/decision_engine.py`, `core/canonical_execution.py`) | none | turns a model's answer into one of a few outcomes; proposes gated multi-actions | store, multi-action dispatch |
| Streaming tool loop (`core/stream_tool_loop.py`) | event queue, worker thread, capacity slot | produce, consume, cancel, join | model gateway, client |
| Operation store (`external/operation_store.py`) | long-running jobs: pending, outcome_unknown, completed, consumed | `create`, `complete`, `claim_completion`, rehydration | external adapters |
| External capability lifecycle (`external/store.py`, `external/lifecycle.py`, `external/runtime_lifecycle.py`, `external/packages/`) | a record per user and skill (revision, configured, enabled) in a file per user; a registry per context; a cache of artifacts shared by all users | install, update, configure, enable, disable, remove from a user's message; run by a turn | contexts of the server, registry bridge, permission binding, npm |
| Login sessions (`core/auth_session.py`) | token records in a file | issue, resolve, revoke, prune | every endpoint |
| Development workflow (`src/scripts/dev_workflow`) | a milestone's record (state, history table, plan hash, audit report, verdict) in one Markdown file | accept, modify, start, audit, verify, record a verdict, release, resume; authorised file writes | User, Claude, Antigravity and the workers, each a process of its own |
| Model gateway, memory, graph, evidence, audit, edge runtime, client | records and remote calls | see `PROJECT.json` | - |

Interaction.  FastAPI runs the (synchronous) handlers in a pool of threads, so
two requests of one user interleave anywhere.  The requests of a user share one
`_UserContext` (orchestrator, sessions, stores); the stores share files.  There
is no lock around the approval store.  A workflow step whose capability needs an
approval proposes an action and pauses; the decision of that action comes back
through `decide_action`, which completes or fails the step from outside and
executes the rest.

What is hard, and what makes each part correct:

* **Approval.**  Several buttons and messages race for one action; time passes
  between its decision and its consumption; the server may die at any point;
  sessions, grants and arguments may have changed.  Correct: one approval is
  worth at most one run; only the proposing session decides, once; a rejected,
  expired or unapproved action never runs; an approval that was accepted takes
  effect; a decision that was reported is not lost.
* **Workflows.**  Plans come from a language model and are not validated; a
  workflow pauses and resumes, sometimes from outside; handlers may do anything.
  Correct: a step starts only on top of completed dependencies; nothing completed
  is repeated; nobody is left waiting after the workflow has ended; `execute`
  returns; it gives up only on a plan that is really defective.
* **Sessions and recovery.**  What is on disk is older than what ran.  Correct:
  nothing is replayed on its own after a restart; a decision reaches the step it
  was asked for; a session does not get stuck.
* **External skills.**  A user's requests share a context and its lock, unless
  there are two contexts; users share the cache and no lock; a request that
  enables is two critical sections.  Correct: nothing is enabled that was not
  configured; what is switched off stays off; no removal deletes an artifact that
  somebody else's record points to; turns run what the store says.
* **Milestones.**  Commands load the record, wait minutes for a model, and
  replace the file.  Pause states have edges of their own.  Correct: no work
  before the User's acceptance, no release without the verdict on the audited
  work, no writes under a plan nobody accepted, no history lost.
* **Streams, jobs, logins.**  Slots are not exceeded, a completion is reported
  once, a revoked token stays revoked.

The complete list of hazards, each at its line, is in `PROJECT.json`.

## 2. Modules

| Module | Role |
|---|---|
| `ApprovalContract` | abstract specification of an action's life: what the gate promises |
| `ApprovalGate` | the gate, the store's operations as single steps, the requests that use them; the refinement mapping to `ApprovalContract` |
| `ApprovalGateProofs`, `ApprovalServiceProofs` | theorems about `ApprovalGate`: who may run what, and what becomes of an accepted approval |
| `ApprovalStore` | abstract specification of the store as its callers take it: each operation at one point in time, a list that may be lost |
| `ApprovalStoreProofs` | theorems about `ApprovalStore` |
| `ApprovalFile` | the same store operations split into load, truncate and write; the refinement mapping to `ApprovalStore` |
| `ApprovalFileProofs` | theorems about `ApprovalFile`, the refinement among them |
| `WorkflowExecutor` | `execute()` over every small plan |
| `WorkflowProofs` | theorems about `WorkflowExecutor`, for plans of any size |
| `WorkflowSession` | the workflow in its session: proposals, decisions, saves, restarts; composes `WorkflowExecutor` |
| `WorkflowSessionProofs` | theorems about `WorkflowSession`; they use the lemmas of `WorkflowProofs` |
| `MilestoneStates` | `validate_transition()`: the states, edges and actors of a milestone |
| `MilestoneWorkflow` | the engine's commands, as processes that load, work and save; the authorised writes; extends `MilestoneStates` |
| `MilestoneProofs` | theorems about `MilestoneWorkflow` |
| `SkillPackages` | the lifecycle of an installable skill, its turns, contexts and cache |
| `SkillPackagesProofs` | theorems about `SkillPackages` |
| `MCApprovalGate`, `MCApprovalFile`, `MCWorkflowExecutor`, `MCWorkflowSession`, `MCMilestoneWorkflow`, `MCSkillPackages` | instances for TLC; the `.cfg` files give the constants |

### ApprovalGate

`status[a]` and `record[a]` are one record of `approvals.json`; an action that was
never proposed is `"unknown"`.  `pc[t]` is the next store call of the request
that thread `t` serves.

| Action | Code |
|---|---|
| `Propose` | `ApprovalGate.execute_tool` up to `propose()`; `_propose_durable_gmail_approval` |
| `PressButton` | POST `/approve`, POST `/cancel` arrive (`app/server.py:2101-2169`) |
| `SayYesOrNo` | a turn that is just yes or no (`approval_resumption.py:137-165`) |
| `Decide` | the first `ApprovalStore.decide` of the request |
| `Redecide` | the second one, of a yes to a legacy action (`approval_resumption.py:191`) |
| `Consume` | `ApprovalStore.consume` |
| `Dispatch` | `ToolDispatcher.execute_tool`, or `dispatch_explicit` |
| `Tick`, `SetGrants`, `Crash` | the clock, the administrator, the death of the process |

Data.  Arguments are abstracted to what the fingerprint distinguishes: JSON
values; values that include the live `PrincipalContext`; and the dict that
`json.load` returns for it.  A legacy capability (`Legacy`) is one the
`ToolDispatcher` knows, a multi-action capability (`Multi`) one of
`MultiActionDispatch`.  A crash marks approved and consumed actions whose request
it cut short (`orphans`), so that the properties can say "unless the server
died".  `verdict` and `runs` are history variables.

### ApprovalFile

`file` is the content of `approvals.json` or `TORN` (unparsable, which loads as
the empty list).  Every operation is `Load` (with its checks and its change to
the local copy), `Truncate` (`open(..., "w")`) and `Write`; two writers that have
the file open at once may leave either copy or a mixture.  Expiry and grants are
left to `ApprovalGate`.  `overlapped` becomes true when an operation begins
between the load and the save of another one: the guarantees that hold only
without overlap say so.  `SaveFails` is a `json.dump` that raises, on a value it
cannot write or on a full disk: the request ends with an error and the file is torn.
`cutShort` remembers that, or a crash in a save, has happened.

`ApprovalStore` has the same operations as single steps, and `Lose` for a save that
was cut short.  The mapping puts an operation at the end of its save, where the file
is whole again and the caller gets the answer: `Known` is the list in the file or,
while somebody writes, that copy with its own change undone; `AboutToRun` are the
actions of the requests at their dispatch.  `AtomicUnlessOverlap` says that each step
is then a step of `ApprovalStore`, or none, until an operation begins within
another one.

### WorkflowExecutor

`Init` takes every plan of `N` steps: any ids (duplicates included), any
`depends_on` lists up to `MaxDeps` (unknown ids, self references and cycles
included), any set of steps with `requires_user_input`.  One action is one turn of
the `for` loop for a step, or the return of its handler, which may succeed, pause
or fail.  `CompleteExternally` and `FailExternally` are what the orchestrator does
with a decided approval.  `Mapped` and `Found` keep a detail that matters: with
duplicate ids `step_map` holds the last step of an id and the external calls find
the first.

### WorkflowSession

`WorkflowSession` extends `WorkflowExecutor`: the executor's actions are its
`ExecuteOn` and the session adds what the orchestrator keeps around them.  The
variables of the executor are the workflow dict in memory, `active` and
`recovered` are the session's `active_workflow_status` and
`active_workflow_recovered`, `disk` is the workflow part of the session's file,
`action[a]` an action with the step whose handler proposed it (0 for a turn of its
own; a new one takes the first id that is free, as ids differ in nothing else),
`decision` a decision on its way from the gate to the workflow.

| Action | Code |
|---|---|
| `Begin`, `Message`, `MessageRefused` | `process_user_input`: a composed workflow; the resumption of a paused one; the answer of the recovery validator |
| `AnswerElsewhere` | a turn that is answered without the workflow, by canonical execution (`run_canonical_for_ask`) or by the orchestrator; it may propose an action |
| `Drop`, `AnswerDropped` | `/ask` while a workflow waits (`app/server.py:1705-1752`): the message is not taken for an answer to it; what becomes of the message then |
| `ExecuteOn`, `Handled` | `WorkflowExecutor.execute` and the step handlers: an open capability runs, a gated one proposes an action and pauses |
| `Settle` | `_save_paused_workflow` or `_clear_active_workflow`, and the save |
| `Decide`, `Continue` | `decide_action`, `_resume_model_workflow_after_decision` |
| `OtherTurnSaves` | a turn that canonical execution answers saves the session (`canonical_execution.py:784`), also in the middle of a run |
| `Crash` | the server dies; the next `get_session` loads the file, or starts a new session if a save was cut short |

A message to a workflow that waits goes to canonical execution first
(`workflow_continuation_mode_enabled`, on by default).  If that takes it for an
answer to the workflow and answers it, the session is saved and the workflow goes on
waiting (`AnswerElsewhere`); if it falls back, the orchestrator resumes the workflow
(`Message`).  If it takes the message for anything else, the server clears the
workflow in memory and does not save (`Drop`), throws the answer away and has the
same message answered a second time: canonical execution may run or propose twice
what was asked once.  The second answer normally ends with a save.  If it falls back
and `process_user_input` ends in its broad except (`orchestrator.py:5823`), nothing
is saved, and the file still has the dropped workflow: `forgotten` remembers that, the
one exception of `QuietMeansSaved`.  A restart then brings the workflow back; any save
before it clears the file.

A message that the validator refuses and that changes nothing (an invalid, failed
or blocked workflow) is no step: `Refusing` describes those states.  The workflow is
asked for once, the requests that touch it come one at a time, and a save does not
fail while the server lives.

### MilestoneWorkflow

`file` is `docs/plans/<ID>_STATE.md`; `copy[c]` is the record that command `c`
holds and will save, `at[c]` where it is.  A command is a process: each load and
each save is a step, and it may be killed before any of them.  `write[w]` is how far
the write of writer `w` is.

| Action | Code |
|---|---|
| `UserAcceptPlan`, `UserModifyPlan`, `StartImplementation`, `PerformAudit`, `VerifyMilestone`, `RecordVerification`, `ReleaseMilestone`, `ResumeFromInterruption` | the methods of `WorkflowEngine`: the load and the checks before the first save |
| `Save` | `StateFileManager.save()` |
| `CheckPlan`, `WorkerAnswers` | `start_implementation()` after its first save: the plan file and its hash; the worker's report or failure |
| `Inspect` | the auditor's look at the working tree and its report |
| `BridgeFails`, `BridgeAnswers` | `claude_verifier.py`: the copy loaded before waits, or the record is loaded again and judged |
| `Kill` | the process is killed |
| `Authorize`, `ReadScope`, `MatchPlan`, `SafeWrite` | `safe_write_file()` in its steps: the record is loaded (`workflow_engine.py:80-98`), the plan is read for its scope, its hash is compared (`file_authority.py:242-260`), the file is written (`:428-457`) |
| `KillWriter` | the process of a write is killed |
| `EditPlan` | an edit of the plan file, at any time, since nothing guards it |

Data.  The plan and the working tree are version numbers.  The history table is
`log`, a set of rows, each with its state (those in `LogRows` are kept) and with whether
its note is on one line.  `to_row` writes a note as it is (`state_manager.py:33-34`),
and `parse_content` keeps the lines that are whole rows (`:268-272`): a row whose note has a newline
is cut, so `Readable` drops it at every load, and the next save writes the table
without it.  Which notes may have one: an answer of Claude, a worker's or an auditor's
words, what is typed after `--notes`.  Notes that end the table early (`---` or `##` at the
start of a line) or that themselves look like a row are left out.
`past`, `reviewed` and `byHand` are history parts of the record: the states moved to
since the last move to `DRAFT`, the report whoever gave
the verdict had read, and whether a resume command stepped along the cycle itself.
`stale[c]` says that what `c` read has changed since, `raced` that a stale
command has saved or answered, or that a writer whose record is no longer the one in the
file has written.  `edited` of a write says that the plan was edited after the write
had read it for its scope: nothing holds the plan from there, over the comparison, to
the write.  The recovery packet, the workers' reports, the
scope of a plan and who wrote a row are left out.

The code differs from its documentation in four places the properties have to
allow for.  A draft that was blocked may be resumed, and reaches work without an
acceptance (hence `BLOCKED` in `AcceptedOrBlocked`).  `resume_from_interruption()`
takes any state as its start, interrupted or not (`byHand`).  The history table is
"append-only" by its own heading (`state_manager.py:600-601`), but a stale save
removes rows of it, and so does any load and save after a note of several lines:
`RowsSurviveUnlessRaced` promises the other rows only.
`cli.py`'s `--decision NOT_VERIFIED` is refused, since the engine knows the word
`NOT VERIFIED`; a refusal is no step.

### SkillPackages

`store[u]` is user `u`'s record of the skill, `ctx[u]` the entry of
`_user_contexts`, `live[u][c]` and `lock[u][c]` the registry and the
`external_lifecycle_lock` of context `c`, `cache` the shared artifacts.  `at[r]` is
where request `r` is.

| Action | Code |
|---|---|
| `Begin`, `Build`, `StoreContext` | `/ask` arrives; `_get_user_context` looks, builds and stores without a lock (`app/server.py:642-650`) |
| `DropContext` | PUT `/modes`, PUT `/providers/active-brain` |
| `Enter`, `Stage`, `Publish`, `FetchFails` | `install_and_register`, `update_and_refresh`: the lock, the staging directory, npm, the rename |
| `Load`, `Refused`, `Save`, `DeleteCredential` | `LifecycleController` and `ExternalCapabilityStore`: the document loaded, changed and replaced |
| `Refresh` | `refresh_user_external_lifecycle`: a new registry; `configure` then goes on to `enable` under the lock anew (`lifecycle_intent.py:116-124`) |
| `Scan`, `Collect` | `_garbage_collect_if_unreferenced` |
| `PickRegistry`, `Permit`, `Run` | a turn: the registry, the permission resolver, the handler |
| `Restart` | the server is restarted |

The module follows `strip_json_comments`; `yt_dlp` has the same operations without
staging and collection.  The reviewed descriptors always qualify, and nothing in
the server reports health or authenticates, so a record is its revision and two
flags.  Messages reach the lifecycle only with `URI_ENABLE_LIFECYCLE_INTENT_SEAM`;
without it the module's other half, the turns, is all that is left.  A user asks
for the newest reviewed revision; several revisions stand for versions of the
server that shared the cache.  The two reads of the permission resolver are one.

The history variables name the cases the code leaves open.  `doubled`: a user has
had two contexts at a time, and so two locks and two registries.  `clashed`: an
artifact was found unreferenced while another request, of any user, was about to
record it.  `unrefreshed`: a removal failed on the credential, after the record was
gone and before the registry was refreshed; the permission resolver still denies.
`FetchFails` includes an error the code means to catch: when two requests stage
one artifact, the second rename meets a directory that is not empty, which is not
the `FileExistsError` of "Another user/process completed the same immutable
artifact first", and the installation fails.

## 3. What the runs check

| Run | Question | Result |
|---|---|---|
| `approval_gate` | three requests race for one action, with expiry, grants, crashes, logged in or not | holds |
| `stranded_by_principal` | is an approved action ever left unusable? | yes: logged-in legacy proposals |
| `stranded_by_yes` | the same without a login, with yes/no turns | yes: decided twice |
| `button_on_multi` | does an accepted approval run? | not when the button is pressed for a multi-action capability |
| `approval_file` | two actions, two threads, file steps, crashes, failing saves; is the file an atomic store? | holds without overlap |
| `double_run` | is one approval worth one run, with overlap? | no |
| `cancel_undone` | does a cancelled action stay cancelled, with overlap? | no |
| `workflow_executor` | every plan of three steps | holds |
| `workflow_session` | every plan of two steps in a session with messages that resume, leave or drop the workflow, decisions, mid-run saves and one restart, with the file whole or torn | holds |
| `decision_misdirected` | does a decision reach the step that proposed the action? | not if another waiting step has its capability |
| `milestone_workflow` | two commands of one milestone and a write that checks before it writes, with plan edits and kills | holds |
| `skill_packages` | two requests, of one user or of two, with dropped contexts and restarts | holds |

The runs that find a violation each check one sentence of the code's own
documentation; the findings in `PROJECT.json` quote it.  The passing runs state
what remains true: `StrandedOnlyBy` and `UnservedOnlyIfMulti` say that the
approvals that come to nothing are exactly those of the findings, the
`...UnlessOverlap` properties that the file is only wrong through overlap,
`DecisionMissesOnlyBy` that a decision goes astray only when a capability or an id
is shared or the action comes from outside the workflow, and
`RefusesOnlyBadPlan` that a restart wedges a session only with an unsound plan or
a save in the middle of a run.

Bounds, and why they are enough.

* `ApprovalGate.cfg`: one action, three threads.  Actions do not interact in this
  module except through `Pending`, so races need several requests for one action:
  three give two that race while a third arrives late (for instance after a
  crash or an expiry).  `MaxTime` 2 with `Expiry` 1 reaches every
  side of the expiry comparison at every call.  One session and `NoSession` are
  two session ids, enough for a mismatch.
* `ApprovalFile.cfg`: two actions in one list are needed for a save to undo the
  other's decision; two threads for an overlap.  `MaxApprovals` 1 bounds how often
  an action whose approval was accepted is approved again; `DoubleRun.cfg` raises it.
* `WorkflowExecutor.cfg`: three steps are the smallest plan with a chain, a fork, a
  join of passes, a cycle beside a runnable step, and a duplicate id beside a
  third step.  `MaxCalls` 2 lets every step start, pause and resume.
  Deadlock is not checked: a workflow that has ended stays so.
* `WorkflowSession.cfg`: two steps, which share an id, a capability or a dependency in
  every way; two actions, so that a resumed step proposes a second one or a turn
  proposes one of its own; one crash.  576 plans are initial states.
  `DecisionMisdirected.cfg` needs no crash.

* `MilestoneWorkflow.cfg`: two commands, since every race here is a load, another
  command's save and a stale save; one writer, for the writes do not look at each
  other.  `MaxCommands` 5, commands given and writes begun together, is the length of
  the cycle (accept, start, audit, verify, release), or of its first part with a write
  or a detour in it.  `LogRows` keeps the rows of one state, `FIXING`, whose note is
  an auditor's or Claude's own words and so the one most likely to have two lines; its rows
  are lost, read and written again like any other.  The states that the properties ask about
  are in `Rows`, and counted apart from the table.  `MaxPlans` 2 and `MaxWork` 2 tell the accepted plan
  and the audited work from later ones.
* `SkillPackages.cfg`: two users for the shared cache, two requests for the lock and
  for two contexts, two revisions so that an update leaves something to collect.
  `MaxGiven` 4 is install, enable, and two that race.

Fairness.  `MilestoneWorkflow` and `SkillPackages` state none: a command or an
npm run may never end, and nothing is promised about that.  `ApprovalGate` assumes weak fairness of each thread's next call: the
handlers are straight-line code without locks, so a thread that can continue
does.  Nothing is assumed of users, administrators, the clock or crashes.
`WorkflowExecutor` assumes weak fairness of `Run`: `execute()` keeps going and
handlers return, since the tools they call have timeouts.  `WorkflowSession` assumes
the same of `Proceed`, which is one request: it runs, settles, continues or answers.
`ExecuteReturns` and `RequestEnds` are the properties that a cycle, or progress
reported wrongly, would break.

## 4. What is proved

### The approval gate

`ApprovalGateProofs`, and for the last four `ApprovalServiceProofs`, prove for any sets of actions, sessions, capabilities and
threads, any expiry and any duration, from the assumptions
`ClockAssumption`, `CapabilityAssumption` and `ContextAssumption` at most:

| Theorem | Statement |
|---|---|
| `TypeCorrect` | `Spec => []TypeOK` |
| `GateInvariant` | `Spec => []GateInv` |
| `SingleUseHolds` | `Spec => []SingleUse` |
| `OnlyApprovedRuns` | `Spec => []RunsOnlyWhatItsSessionApproved` |
| `DecisionFinal` | `Spec => DecidedOnce` |
| `NoBanking` | `Spec => NothingConsumedAfterExpiry` |
| `GateImplementsContract` | `Spec => ImplementsContract` |
| `ServeInvariant` | `Spec => []ServeInv` |
| `StrandedOnlyByHolds` | `Spec => []StrandedOnlyBy` |
| `UnservedOnlyIfMultiHolds` | `Spec => []UnservedOnlyIfMulti` |
| `OnlyGrantedRuns` | `Spec => RunsOnlyWhileGranted` |

The argument.  `SingleUse` is not inductive: it says nothing of a thread that is
about to consume.  `GateInv` adds what makes it so.  The status in the file agrees
with the answers the users gave (`StatusAgrees`), so a pending action has no
verdict yet and only a consumed one may have run; and a thread that dispatches an
action holds a consumed action that has not run, alone (`DispatchAlone`): consumption
accepts only the status approved and leaves it, so a second thread cannot follow.
`Redecide` needs one more fact, that only approvals get there.  The lemmas about
`CallDecide` are shared by the two actions that call `decide()`; the `Quiet` lemmas
cover the steps that leave statuses, verdicts and runs alone.

What becomes of an approval needs a second invariant, `ServeInv`.  Each request knows
something of its action at each call (`RequestInv`): after `decide()` the action is
decided and of the request's session; only a yes to a legacy action gets to the
second `decide()`, which therefore always fails; a dispatch found the arguments the
fingerprint is of.  And each approval is accounted for (`ActionInv`): an approved
action has a request at `consume()`, or a crash, its arguments or the second
`decide()` took that away; a consumed one that has not run has a request at its
dispatch, or lost it to a crash, or its capability is a multi-action one.  `StoreMonotone`, that a record never
changes and nothing decided becomes undecided, is why other requests cannot
invalidate what one knows.  `OnlyGrantedRuns` combines the two: a legacy action of
a logged-in user never reaches the dispatch, because its fingerprint is lost, and a
multi-action one is checked there.

### Milestones

`MilestoneProofs` proves, for any commands, targets of a resumption and bounds:

| Theorem | Statement |
|---|---|
| `TypeCorrect` | `Spec => []TypeOK` |
| `Invariance` | `Spec => []Inv` |
| `NoWorkBeforeAcceptanceHolds` | `Spec => []NoWorkBeforeAcceptance` |
| `NoVerdictWithoutAuditHolds` | `Spec => []NoVerdictWithoutAudit` |
| `VerdictIsOfThisAuditHolds` | `Spec => []VerdictIsOfThisAudit` |
| `VerifiedWorkWasAuditedHolds` | `Spec => []VerifiedWorkWasAudited` |
| `WritesFollowAnAcceptedPlanHolds` | `Spec => WritesFollowAnAcceptedPlan` |
| `RowsSurviveUnlessRacedHolds` | `Spec => RowsSurviveUnlessRaced` |
| `FileFollowsTheGraph` | `Spec => [][file'.state = file.state \/ Edge(file.state, file'.state) \/ \E c : Save(c) /\ stale[c]]_vars` |

The argument.  A save puts a copy into the file whatever has happened since, so
what is claimed of the file must hold of every copy that may still be saved
(`RecordInv`), the stale ones included; that is why acceptance and audit survive
the races.  `PlaceInv` says which states a copy can have at each place.
The properties that exclude races need more: a copy that is not stale has the rows
that can be read from the file, and its acceptance (`FreshInv`), a write that is under
way and not stale has the hash of the record in the file, which allows writes, and
once past `MatchPlan` that hash is none or the plan's, unless that was edited since (`WriterInv`),
an accepted hash was agreed
to (`HashInv`), a verdict that is being saved is of the report the copy has
(`ReviewInv`), and while the milestone is under review or released nothing may be
written but by a write that was let pass before and is stale by now, so without a race
the audited work is the work there is (`WorkInv`).  `WaysIn` reads
the edges of `validate_transition()` once, for all commands; `CommandMade` and
`StepMade` say what record a command makes, and `BeginInv`, `AheadInv` and
`SaveInv` what becomes of it.

`FileFollowsTheGraph` is about the distance between check and use: a transition is
checked against the copy, and what replaces the file is the copy.  `EdgeInv` and
`SourceInv` say that, unless the copy is stale, the record a command will save is
one edge of `validate_transition()` away from the one in the file, or is in the
same state; `OwnEdges` are the edges that the engine takes after its load.  TLC finds the
formula true on the instance of `MilestoneWorkflow.cfg`, and false there without
its last disjunct: the save of a stale copy may take the file anywhere.

### External skills

`SkillPackagesProofs` proves, for any users, requests, contexts and revisions:

| Theorem | Statement |
|---|---|
| `TypeCorrect` | `Spec => []TypeOK` |
| `Invariance` | `Spec => []Inv` |
| `EnabledIsConfigured` | `Spec => []EnabledMeansConfigured` |
| `ArtifactsExist` | `Spec => []RecordedArtifactsExist` |
| `RegistryIsCurrent` | `Spec => []LiveRegistryIsCurrent` |
| `SwitchedOffStaysOff` | `Spec => []OffStaysOff` |
| `SavesAreOperations` | `Spec => [][\A u \in Users \ doubled : store'[u] = store[u] \/ \E r \in Requests : Applied(r, u)]_vars` |

The argument.  `LockInv` is the core: unless a user is `doubled`, the requests of
that user that are inside an operation hold the lock of the user's only context,
hence there is one of them at most, and the document it loaded is still what the
file holds.  `JobInv` ties each place to the jobs that get there.  `RecordInv` says of
every record, saved or about to be, that enabled implies configured: that does
not need the lock, because each save replaces the whole record with one made from a
whole record.  `ArtifactInv` accounts for each artifact that is recorded or about to
be: it is in the cache, and nobody is about to delete it, or it has clashed.
`RegistryInv` says when the registry may lag: only between a save and its refresh.
`OffInv` and `StoredOff` say that after switching off no operation that could enable
is under way, and which turns had already passed the permission.

`SavesAreOperations` says what the lock is for: a save is the operation of its
request on the record the file has at that moment, so no update is lost and the
refusals of `enable()` still hold when the record is written.  `ApplyInv` carries
what `Load` checked to the save: by `LockInv` nobody else saves in between.  TLC
finds it true on the instance of `SkillPackages.cfg`, and false for a user who is
`doubled`.

### The approvals file

`ApprovalFileProofs` proves, for any actions, threads and bounds, from
`TornAssumption` (an unparsable file is not a list of actions):

| Theorem | Statement |
|---|---|
| `TypeCorrect` | `Spec => []TypeOK` |
| `Invariance` | `Spec => []Inv` |
| `SingleUseUnlessOverlapHolds` | `Spec => []SingleUseUnlessOverlap` |
| `DecisionsSurviveHolds` | `Spec => []DecisionsSurvive` |
| `CancelledNeverRunsHolds` | `Spec => []CancelledNeverRunsUnlessOverlap` |

`ApprovalStoreProofs` proves of the atomic store, for any actions and sessions and
from no assumption, the first four of these, `ApprovalFileProofs` the others:

| Theorem | Statement |
|---|---|
| `StoreInvariance` | `StoreSpec => []StoreInv` |
| `RunOnceHolds` | `StoreSpec => []RunOnce` |
| `AnsweredOnceHolds` | `StoreSpec => AnsweredOnce` |
| `RejectedNeverRunsHolds` | `StoreSpec => RejectedNeverRuns` |
| `AtomicUnlessOverlapHolds` | `Spec => AtomicUnlessOverlap` |
| `SerializedImplementsStore` | `Init /\ [][Next /\ ~overlapped']_vars => Store!StoreSpec` |
| `SerializedKeepsPromises` | the same hypothesis `=> []Store!RunOnce /\ Store!AnsweredOnce /\ Store!RejectedNeverRuns` |

The argument.  Without overlap one thread at most is between its load and the end
of its save (`AloneInv`), so its copy is the file with its own change (`CopyInv`),
also while the file is truncated.  `FileInv` and `UseInv` tie the statuses in the
file to the answers reported and the runs started, `NewInv` says that what was never
proposed has no history, and `LossInv` that a file that lacks an answer was torn by a
save cut short.  All of them are conditional on `~overlapped`: `DoubleRun.cfg` and
`CancelUndone.cfg` show what becomes of them otherwise.

The refinement needs one invariant more, `SourceInv`: a copy that will be saved is
what its operation makes of a list that accepted it, and that list is the one in
the file until the thread truncates it.  `UndoChanged` says that `Undone` takes a
change back, which for a proposal rests on `NewInv`: the id was not in the list.  So
`Load` and `Truncate` change nothing that is known, `Write` is the operation,
`Dispatch` the run, and a failed save or a crash in one loses the list.
`SerializedImplementsStore` is what a lock around each operation would buy: the
atomic store that `ApprovalGate` and its proofs start from, whose promises
`SerializedKeepsPromises` then takes over from `ApprovalStoreProofs` without another
induction over the steps of the file.  A `Lose` may empty the list at any time; that
no action runs twice all the same is `RecordInv`, which ties the run to the answer
and not to the record.

### The workflow executor

`WorkflowProofs` proves, for plans of any size, with duplicate ids, unknown
dependencies and cycles, from `SizeAssumption`:

| Theorem | Statement |
|---|---|
| `TypeCorrect` | `Spec => []TypeOK` |
| `Invariance` | `Spec => []Inv` |
| `DependenciesFirstHolds` | `Spec => []DependenciesFirst` |
| `OneQuestionHolds` | `Spec => []OneQuestion` |
| `NothingLeftHangingHolds` | `Spec => []NothingLeftHanging` |
| `BlockedOnlyByBadPlanHolds` | `Spec => []BlockedOnlyByBadPlan` |
| `ExecuteDescends` | `Spec => [](Rounds \in Nat /\ Rest \in Nat) /\ [][cursor # 0 /\ cursor' # 0 => Descends]_vars` |

The argument.  `CallInv`, `EndInv` and `PauseInv` say what a running handler, an
ended workflow and a paused one look like.  `StuckInv` is the loop invariant of a
pass: as long as there was no progress, everything the cursor has passed is
completed or not ready.  At the end of such a pass the steps that are not completed
form the set `BlockedOnlyByBadPlan` asks for, since each of them depends on an unknown
id or on another one of them.  `PrefixInv` is the loop invariant of a plan in list
order: what is done is a prefix of the list, so at most one step is open.
`MappedCarries`, that an id which some step has stands for one of its steps,
rests on the well-foundedness of the order of the naturals.

`ExecuteDescends` is why `execute()` returns.  `Rounds` counts the steps that are not
completed, plus one while there is progress to follow up; `Rest` is what is left of
the pass, where a step counts once to start and once to return.  A step of the loop
lowers `Rest` and raises no `Rounds`, a completion trades a step for the progress
flag, and a pass is repeated only at the price of that flag.

### The session

`WorkflowSessionProofs` proves, for plans of any size, any number of actions,
decisions and restarts, from `SizeAssumption`, `SessionAssumption` and
`NoneAssumption`:

| Theorem | Statement |
|---|---|
| `SessionTypeCorrect` | `SessionSpec => []SessionTypeOK` |
| `SessionInvariance` | `SessionSpec => []SessionInv` |
| `QuietMeansSavedHolds` | `SessionSpec => []QuietMeansSaved` |
| `RefusesOnlyBadPlanHolds` | `SessionSpec => []RefusesOnlyBadPlan` |
| `SavedCompletionKeptHolds` | `SessionSpec => SavedCompletionKept` |
| `DecisionMissesOnlyByHolds` | `SessionSpec => DecisionMissesOnlyBy` |
| `SessionDrivesExecutor` | `SessionSpec => [][savedMidRun \/ Crash \/ [Next]_vars]_sessionVars` |
| `ExecutorSafeInSessions` | `SessionSpec => [](~savedMidRun => DependenciesFirst /\ OneQuestion /\ NothingLeftHanging /\ BlockedOnlyByBadPlan)` |
| `GroundedThroughRestarts` | `SessionSpec => [](UniqueIds => Grounded(step))` |
| `RequestsDescend` | `Stages`, `Rounds`, `Rest` are naturals and each step of a request lowers them |

The argument.  After a save in the middle of a run the invariant of
`WorkflowExecutor` does not carry over: a restart can then leave a step running that
nobody runs.  What the session
needs of the executor is less, and `Driven` collects the calls it makes: they keep
the types, the plan and `PauseInv`, and leave what is completed or failed as it is
(`OverStays`).  `SavedInv` extends `QuietMeansSaved` to the moment a decision is carried
back and to the moment after a drop, and says that what is dropped or forgotten is no
longer in the session; `SavedAside` follows: the turns that leave the workflow alone
leave its file alone or clear it.  `WaitInv` says that, unless a run was saved half way, what is in the file waits
for an answer: so a restart finds a workflow the validator lets go on, if its plan is
sound.  `KeptInv` relates the file to the workflow in memory: a step the file has as
completed is completed or failed there, hence never started.  `ActionInv` ties an
action to the capability of the step that proposed it.

Without such a save everything does carry over.  `SessionDrivesExecutor` is the
composition: what a session does to its workflow is a step of `WorkflowExecutor`,
restarts apart.  A restart puts back what was saved, so `ExecutorInv` carries the
executor's invariant for the workflow in the file as well (`FileRests`), and
`ExecutorSafeInSessions` are its properties.  With such a save one thing is left,
and it matters most: `GroundedThroughRestarts`, that a step which ever started rests
on completed dependencies.  It is an induction of its own (`GroundInv`), over memory
and file at once, and needs unique ids only, since `Found` and `Mapped` then agree.
`RequestsDescend` puts the stages of a request (run, settle, decide, continue) before
the variant of `execute()`; no other turn raises it.

### Only model-checked

Liveness (`ApprovalTakesEffect`, `ExecuteReturns`, `RequestEnds`), which is out of
the prover's reach: for the last two the variant is proved (`ExecuteDescends`,
`RequestsDescend`), and what is left to TLC is that fairness and a variant make an
end.  Every safety property that a passing run checks is proved.

## 5. What could come next

In this order, the most important first.  Each needs a model of its own, and the
first a change to the state of an existing one: `cursor` and `calling` become
functions of the thread, and so do the invariants that speak of them.

1. Two threads in one session.  While a resumed workflow runs, the session still says
   `waiting_for_input`, so a second message executes the same dict again
   (`orchestrator.py:4443`).
   `WorkflowSession` gets a cursor per thread.  A contrast of the decision path with
   the validator: after a restart it executes a workflow nobody has validated
   (`orchestrator.py:5962` against `state.py:664-670`).
2. `StreamLoop`: producer, queue, cancellation, the join with its timeout and the
   capacity slot, with the promise that streams never exceed slots and that every
   consumer comes to an end.  The promise will need a condition: the join gives up
   after five seconds (`core/stream_tool_loop.py:278`), and the slot is released while
   a worker that executes a tool goes on.
3. `AuthSessions`: issue, resolve, revoke and prune over one file.
4. Chains of actions (`capabilities/executor.py`), which halt half way and are retried.

## 6. Not modelled, and why

Models' answers, tool results and remote services are nondeterministic inputs.
Wording, audit records, telemetry and narrative drafting change no state that a
decision reads.  The stores for memory, profile, graph and evidence are records
with no protocol of their own; their load-modify-save shape is that of
`ApprovalFile`.  The edge runtime and the client are I/O.  Nothing in
the server creates or completes an operation of the operation store: only its tests
do, and a model would be of the tests.  Of the development workflow the scope of a
plan, the workers' prompts and reports and the recovery packet are text;
`write_text()` is taken to be one step.
