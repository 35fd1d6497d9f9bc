------------------------- MODULE MilestoneWorkflow -------------------------
(***************************************************************************)
(* The engine of the development workflow (scripts/dev_workflow).          *)
(*                                                                         *)
(* A milestone lives in one file, docs/plans/<ID>_STATE.md.  Every command *)
(* (cli.py, or a call of WorkflowEngine) is a process of its own: it loads *)
(* the whole record, works on its copy, for minutes when it asks a model,  *)
(* and writes the whole copy back, without looking at the file again.      *)
(* User, Claude and Antigravity give their commands independently, so this *)
(* module has one step per load and per save, and a command may be killed  *)
(* at any of them.  So may a write of a file, which looks at the record    *)
(* and at the plan one after the other before it writes.                   *)
(*                                                                         *)
(* The log says which kinds of rows the history table has, and whether     *)
(* their notes are on one line.  The plan and the working tree are version *)
(* numbers.  The milestone's id is a canonical one, the paths written are  *)
(* in the plan's scope.  A command that is refused raises before it saves, *)
(* and is no step here.                                                    *)
(***************************************************************************)
EXTENDS Naturals, MilestoneStates

CONSTANTS
    Commands,       \* processes that run commands
    Writers,        \* processes that write files of the working tree
    Rows,           \* the states whose rows `past' counts
    LogRows,        \* the states whose rows the model's log keeps
    ResumeTargets,  \* the states that are named to the resume command
    MaxPlans,       \* bound: versions of the plan file
    MaxWork,        \* bound: versions of the working tree
    MaxCommands     \* bound: commands given and writes begun

ASSUME RowsAssumption ==
    /\ Rows \subseteq States /\ LogRows \subseteq States
    /\ ResumeTargets \subseteq States
    /\ {"ACCEPTED", "BLOCKED", "AUDITING", "READY_TO_RESUME",
        "WAITING_FOR_QUOTA", "WAITING_FOR_CLAUDE"} \subseteq Rows

ASSUME BoundsAssumption ==
    /\ MaxPlans \in Nat /\ MaxWork \in Nat \ {0} /\ MaxCommands \in Nat

VARIABLES
    file,       \* the milestone's record on disk
    plan,       \* version of the plan file; 0: there is none
    work,       \* version of the working tree
    at,         \* at[c]: where command c is
    copy,       \* copy[c]: its copy of the record, as it would save it
    stale,      \* history: stale[c]: what c has read has changed since
    write,      \* write[w]: how far writer w is
    raced,      \* history: a command or a write went on although stale
    agreed,     \* history: plan versions whose acceptance was saved
    given       \* how many commands have been given and writes begun

vars == <<file, plan, work, at, copy, stale, write, raced, agreed, given>>

-----------------------------------------------------------------------------
Verdicts == {"pending", "VERIFIED", "NOT VERIFIED"}

\* A row of the history table.
Row == [state : LogRows, oneLine : BOOLEAN]

\* hash: the plan version accepted (0: no Plan SHA-256 line); audit: the work
\* the audit report is about (0: no report).  The others are history.  past:
\* the states moved to since the last move to DRAFT; reviewed: the audit
\* report whoever gave the verdict has read; byHand: a resume command has
\* stepped along the cycle itself since that move to DRAFT.
Record == [state : States, log : SUBSET Row, hash : 0..MaxPlans,
           audit : 0..MaxWork, verdict : Verdicts,
           past : SUBSET Rows, reviewed : 0..MaxWork, byHand : BOOLEAN]

\* create_initial_state().
NewRecord == [state |-> "DRAFT", log |-> {}, hash |-> 0, audit |-> 0,
              verdict |-> "pending",
              past |-> {}, reviewed |-> 0, byHand |-> FALSE]

\* hash: of the record the writer has loaded.  stale and edited are history:
\* since then the record, or since its look at it the plan, has changed.
Writing == [at : {"idle", "scoping", "matching", "writing"},
            hash : 0..MaxPlans, stale : BOOLEAN, edited : BOOLEAN]

NotWriting == [at |-> "idle", hash |-> 0, stale |-> FALSE, edited |-> FALSE]

Places == {"idle", "saving", "starting", "checking", "working", "opening",
           "auditing", "inspected", "reviewing", "rejecting"}

TypeOK ==
    /\ file \in Record
    /\ plan \in 0..MaxPlans
    /\ work \in 1..MaxWork
    /\ at \in [Commands -> Places]
    /\ copy \in [Commands -> Record]
    /\ stale \in [Commands -> BOOLEAN]
    /\ write \in [Writers -> Writing]
    /\ raced \in BOOLEAN
    /\ agreed \subseteq 1..MaxPlans
    /\ given \in 0..MaxCommands

Init ==
    /\ file = NewRecord
    /\ plan = 0
    /\ work = 1
    /\ at = [c \in Commands |-> "idle"]
    /\ copy = [c \in Commands |-> NewRecord]
    /\ stale = [c \in Commands |-> FALSE]
    /\ write = [w \in Writers |-> NotWriting]
    /\ raced = FALSE
    /\ agreed = {}
    /\ given = 0

-----------------------------------------------------------------------------
(* The record.                                                             *)

Interrupted ==
    {"BLOCKED", "WORKER_FAILED", "WAITING_FOR_QUOTA", "WAITING_FOR_CLAUDE",
     "WAITING_FOR_ANTIGRAVITY", "WAITING_FOR_MODEL", "READY_TO_RESUME"}

\* The rows that a load finds: to_row() writes the note as it is, and a row
\* whose note has a second line has no line with all its bars.
Readable(log) == {row \in log : row.oneLine}

\* StateFileManager.load().
Loaded == [file EXCEPT !.log = Readable(@)]

\* Mutant: the history table is replaced by the newest row.
MovedLastRow(r, to, oneLine) ==
    [r EXCEPT !.state  = to,
              !.log    = {row \in Row : /\ row.state = to
                                       /\ row.oneLine = oneLine},
              !.past   = IF to = "DRAFT" THEN {} ELSE @ \cup ({to} \cap Rows),
              !.byHand = IF to = "DRAFT" THEN FALSE ELSE @]

\* transition(): the new state and its row, whose note is on one line or not.
Moved(r, to, oneLine) ==
    [r EXCEPT !.state  = to,
              !.log    = @ \cup {row \in Row : /\ row.state = to
                                              /\ row.oneLine = oneLine},
              !.past   = IF to = "DRAFT" THEN {} ELSE @ \cup ({to} \cap Rows),
              !.byHand = IF to = "DRAFT" THEN FALSE ELSE @]

\* resume_from_interruption() takes any state, interrupted or not.
Resumed(r, to, oneLine) ==
    [Moved(r, to, oneLine) EXCEPT
        !.byHand = IF /\ r.state \notin Interrupted
                      /\ to \notin Interrupted \cup {"DRAFT"}
                   THEN TRUE ELSE @]

\* Mutant: the verdict in the words of cli.py's --decision.
JudgedAsTyped(r, verdict, reviewed, oneLine) ==
    [Moved(r, IF verdict = "VERIFIED" THEN "VERIFIED" ELSE "NOT_VERIFIED",
           oneLine)
        EXCEPT !.verdict = IF verdict = "VERIFIED" THEN verdict
                                                   ELSE "NOT_VERIFIED",
               !.reviewed = reviewed]

\* Mutant: the state is moved, the decision is not recorded.
JudgedByState(r, verdict, reviewed, oneLine) ==
    [Moved(r, IF verdict = "VERIFIED" THEN "VERIFIED" ELSE "NOT_VERIFIED",
           oneLine)
        EXCEPT !.reviewed = reviewed]

\* record_claude_verification(): the decision and the state it stands for.
Judged(r, verdict, reviewed, oneLine) ==
    [Moved(r, IF verdict = "VERIFIED" THEN "VERIFIED" ELSE "NOT_VERIFIED",
           oneLine)
        EXCEPT !.verdict = verdict, !.reviewed = reviewed]

\* The plan on disk is the accepted one, or none has been accepted yet.
PlanIntact(r) == r.hash \in {0, plan}

\* Mutant: fixes may go on while Claude reviews.
WritableInReview ==
    {"ACCEPTED", "IMPLEMENTING", "AUDITING", "FIXING", "VERIFYING",
     "READY_TO_RESUME"}

\* The active states of authorize_write().
Writable ==
    {"ACCEPTED", "IMPLEMENTING", "AUDITING", "FIXING", "READY_TO_RESUME"}

-----------------------------------------------------------------------------
(* Commands: the load, with the checks that come before the first save.    *)

\* Command c begins: it has loaded the file and made r of it.
Begin(c, place, r) ==
    /\ at[c] = "idle"
    /\ given < MaxCommands
    /\ given' = given + 1
    /\ at' = [at EXCEPT ![c] = place]
    /\ copy' = [copy EXCEPT ![c] = r]
    /\ stale' = [stale EXCEPT ![c] = FALSE]
    /\ UNCHANGED <<file, plan, work, write, raced, agreed>>

UserAcceptPlan(c) ==
    /\ Valid(file.state, "ACCEPTED", "User")
    /\ \E oneLine \in BOOLEAN :
          Begin(c, "saving",
                Moved([Loaded EXCEPT !.hash = IF plan = 0 THEN @ ELSE plan],
                      "ACCEPTED", oneLine))

UserModifyPlan(c) ==
    /\ Valid(file.state, "DRAFT", "User")
    /\ \E oneLine \in BOOLEAN :
          Begin(c, "saving", Moved(Loaded, "DRAFT", oneLine))

StartImplementation(c) ==
    /\ file.state \in {"ACCEPTED", "READY_TO_RESUME", "WORKER_FAILED"}
    /\ Valid(file.state, "IMPLEMENTING", "Antigravity")
    /\ Begin(c, "starting", Moved(Loaded, "IMPLEMENTING", TRUE))

\* The audit opens with a row of its own unless the state is AUDITING already.
PerformAudit(c) ==
    \/ /\ file.state # "AUDITING"
       /\ Valid(file.state, "AUDITING", "Antigravity")
       /\ Begin(c, "opening", Moved(Loaded, "AUDITING", TRUE))
    \/ /\ file.state = "AUDITING"
       /\ Begin(c, "auditing", Loaded)

\* verify_milestone(), up to the request that goes to Claude.
VerifyMilestone(c) ==
    /\ file.state = "VERIFYING"
    /\ plan = 0 \/ PlanIntact(file)
    /\ Begin(c, "reviewing", Loaded)

\* record_claude_verification(), called for a verdict given by hand.
RecordVerification(c) ==
    /\ Valid(file.state, "VERIFIED", "Claude")
    /\ \E verdict \in Verdicts \ {"pending"}, oneLine \in BOOLEAN :
          Begin(c, "saving", Judged(Loaded, verdict, file.audit, oneLine))

ReleaseMilestone(c) ==
    /\ Valid(file.state, "COMPLETE", "Claude")
    /\ Begin(c, "saving", Moved(Loaded, "COMPLETE", TRUE))

ResumeFromInterruption(c) ==
    \E to \in ResumeTargets, actor \in Actors, oneLine \in BOOLEAN :
        /\ Valid(file.state, to, actor)
        /\ Begin(c, "saving", Resumed(Loaded, to, oneLine))

-----------------------------------------------------------------------------
(* What a command does after its load.                                     *)

\* c goes on, with the record r as what it will save.
Continue(c, place, r) ==
    /\ at' = [at EXCEPT ![c] = place]
    /\ copy' = [copy EXCEPT ![c] = r]
    /\ UNCHANGED <<file, plan, work, write, agreed, given>>

\* c is over, by its end, by an exception or because it is killed.
End(c) ==
    /\ at' = [at EXCEPT ![c] = "idle"]
    /\ copy' = [copy EXCEPT ![c] = NewRecord]
    /\ stale' = [stale EXCEPT ![c] = FALSE]

\* StateFileManager.save(): the copy replaces the file; whoever else is in a
\* command or a write has read what is no longer there.
Save(c) ==
    /\ at[c] \in {"saving", "starting", "opening", "inspected", "rejecting"}
    /\ file' = copy[c]
    /\ agreed' = agreed \cup ({copy[c].hash} \ {0})
    /\ raced' = (raced \/ stale[c])
    /\ stale' = [d \in Commands |-> d # c /\ at[d] # "idle"]
    /\ write' = [w \in Writers |->
                    [write[w] EXCEPT !.stale = write[w].at # "idle"]]
    /\ at' = [at EXCEPT ![c] =
                CASE at[c] = "starting"  -> "checking"
                  [] at[c] = "opening"   -> "auditing"
                  [] at[c] = "rejecting" -> "saving"
                  [] OTHER               -> "idle"]
    /\ \E oneLine \in BOOLEAN :
          copy' = [copy EXCEPT ![c] =
                     CASE at[c] = "rejecting" -> Moved(@, "FIXING", oneLine)
                       [] at[c] \in {"saving", "inspected"} -> NewRecord
                       [] OTHER               -> @]
    /\ UNCHANGED <<plan, work, given>>

\* start_implementation() after its first save: no plan file, and the
\* milestone is blocked; another plan than the accepted one, and the command
\* raises, leaving the file at IMPLEMENTING.
CheckPlan(c) ==
    /\ at[c] = "checking"
    /\ \/ /\ plan = 0
          /\ Continue(c, "saving", Moved(copy[c], "BLOCKED", TRUE))
          /\ UNCHANGED <<stale, raced>>
       \/ /\ plan # 0 /\ ~PlanIntact(copy[c])
          /\ End(c)
          /\ UNCHANGED <<file, plan, work, write, raced, agreed, given>>
       \/ /\ plan # 0 /\ PlanIntact(copy[c])
          /\ Continue(c, "working", copy[c])
          /\ UNCHANGED <<stale, raced>>

\* The worker's report is saved with the copy loaded before it was asked, or
\* its failure is.  The audit that may follow loads the file again: it is a
\* command of its own here.
WorkerAnswers(c) ==
    /\ at[c] = "working"
    /\ \/ Continue(c, "saving", copy[c])
       \/ \E oneLine \in BOOLEAN :
             Continue(c, "saving", Moved(copy[c], "WORKER_FAILED", oneLine))
    /\ UNCHANGED <<stale, raced>>

\* The auditor looks at the working tree and reports; the gaps it finds are
\* the note.
Inspect(c) ==
    /\ at[c] = "auditing"
    /\ \E to \in {"VERIFYING", "FIXING"}, oneLine \in BOOLEAN :
          /\ to = "VERIFYING" => oneLine
          /\ Continue(c, "inspected",
                      Moved([copy[c] EXCEPT !.audit = work], to, oneLine))
    /\ UNCHANGED <<stale, raced>>

\* The bridge to Claude fails or times out: the copy loaded before waits.
BridgeFails(c) ==
    /\ at[c] = "reviewing"
    /\ \E oneLine \in BOOLEAN :
          Continue(c, "saving",
                   Moved(copy[c], "WAITING_FOR_CLAUDE", oneLine))
    /\ UNCHANGED <<stale, raced>>

\* Claude answers: record_claude_verification() loads the file once more and
\* raises when the milestone is no longer VERIFYING.  A rejection is saved,
\* and then moved on to FIXING.
BridgeAnswers(c) ==
    /\ at[c] = "reviewing"
    /\ \/ /\ Valid(file.state, "VERIFIED", "Claude")
          /\ \E oneLine \in BOOLEAN :
                \/ Continue(c, "saving",
                            Judged(Loaded, "VERIFIED", copy[c].audit,
                                   oneLine))
                \/ Continue(c, "rejecting",
                            Judged(Loaded, "NOT VERIFIED", copy[c].audit,
                                   oneLine))
          /\ raced' = (raced \/ stale[c])
          /\ stale' = [stale EXCEPT ![c] = FALSE]
       \/ /\ ~Valid(file.state, "VERIFIED", "Claude")
          /\ End(c)
          /\ UNCHANGED <<file, plan, work, write, raced, agreed, given>>

\* The command's process is killed.
Kill(c) ==
    /\ at[c] # "idle"
    /\ End(c)
    /\ UNCHANGED <<file, plan, work, write, raced, agreed, given>>

-----------------------------------------------------------------------------
(* Writes of files: safe_write_file(), by the implementer of a running     *)
(* command or by an agent that fixes or resumes.                           *)

\* Writer w goes on to the next look, or is over.
WriterGoesOn(w, place) ==
    /\ write' = [write EXCEPT ![w].at = place]
    /\ UNCHANGED <<file, plan, work, at, copy, stale, raced, agreed, given>>

WriterEnds(w) ==
    /\ write' = [write EXCEPT ![w] = NotWriting]
    /\ UNCHANGED <<file, plan, at, copy, agreed, given>>

\* The record is loaded, and its state is one to write in.
Authorize(w) ==
    /\ write[w].at = "idle"
    /\ work < MaxWork /\ given < MaxCommands
    /\ file.state \in Writable
    /\ given' = given + 1
    /\ write' = [write EXCEPT ![w] = [NotWriting EXCEPT !.at = "scoping",
                                                       !.hash = file.hash]]
    /\ UNCHANGED <<file, plan, work, at, copy, stale, raced, agreed>>

\* The plan is read for its scope; without one the write is rejected.
ReadScope(w) ==
    /\ write[w].at = "scoping"
    /\ \/ plan # 0 /\ WriterGoesOn(w, "matching")
       \/ plan = 0 /\ WriterEnds(w) /\ UNCHANGED <<work, stale, raced>>

\* Mutant: the plan is read, and not compared with the accepted one.
MatchAnyPlan(w) ==
    /\ write[w].at = "matching"
    /\ WriterGoesOn(w, "writing")

\* The plan is read again and compared with the accepted one, if there is one.
MatchPlan(w) ==
    /\ write[w].at = "matching"
    /\ \/ write[w].hash \in {0, plan} /\ WriterGoesOn(w, "writing")
       \/ /\ write[w].hash \notin {0, plan}
          /\ WriterEnds(w)
          /\ UNCHANGED <<work, stale, raced>>

\* The file is written, whatever has happened since.  An audit that has looked
\* already has not seen it.
SafeWrite(w) ==
    /\ write[w].at = "writing"
    /\ work < MaxWork
    /\ work' = work + 1
    /\ raced' = (raced \/ write[w].stale)
    /\ stale' = [c \in Commands |-> stale[c] \/ at[c] = "inspected"]
    /\ WriterEnds(w)

\* The writer's process is killed, or the write fails.
KillWriter(w) ==
    /\ write[w].at # "idle"
    /\ WriterEnds(w)
    /\ UNCHANGED <<work, stale, raced>>

-----------------------------------------------------------------------------
(* The rest of the team.                                                   *)

\* Claude or the User writes the plan file, whatever the state, a new version
\* of it or an earlier one.
EditPlan ==
    /\ plan' \in 1..MaxPlans \ {plan}
    /\ write' = [w \in Writers |->
                    [write[w] EXCEPT
                        !.edited = @ \/ write[w].at \in {"matching",
                                                         "writing"}]]
    /\ UNCHANGED <<file, work, at, copy, stale, raced, agreed, given>>

Command(c) ==
    \/ UserAcceptPlan(c)
    \/ UserModifyPlan(c)
    \/ StartImplementation(c)
    \/ PerformAudit(c)
    \/ VerifyMilestone(c)
    \/ RecordVerification(c)
    \/ ReleaseMilestone(c)
    \/ ResumeFromInterruption(c)

Step(c) ==
    \/ Save(c)
    \/ CheckPlan(c)
    \/ WorkerAnswers(c)
    \/ Inspect(c)
    \/ BridgeFails(c)
    \/ BridgeAnswers(c)

Write(w) ==
    \/ Authorize(w)
    \/ ReadScope(w)
    \/ MatchPlan(w)
    \/ SafeWrite(w)
    \/ KillWriter(w)

Next ==
    \/ \E c \in Commands : Command(c) \/ Step(c) \/ Kill(c)
    \/ \E w \in Writers : Write(w)
    \/ EditPlan

Spec == Init /\ [][Next]_vars

-----------------------------------------------------------------------------
(* Properties.                                                             *)

BeforeAcceptance == {"DRAFT", "AWAITING_USER_APPROVAL"}

\* "A milestone must NEVER enter IMPLEMENTING unless current state is ACCEPTED
\* (or retry/resume)" (state_machine.py:352-353): the rule looks at the last
\* state only.  The one way past the User's acceptance is a draft that was
\* blocked and resumed, whatever the commands overwrite.
AcceptedOrBlocked(r) ==
    r.state \notin BeforeAcceptance =>
        r.past \cap {"ACCEPTED", "BLOCKED"} # {}

NoWorkBeforeAcceptance == AcceptedOrBlocked(file)

\* "Its audit gate is not bypassed" (the Continuity Notes that
\* create_initial_state writes into every record, state_manager.py:739):
\* the only ways to a verdict without an audit are a resumption and a wait
\* for quota.
AuditedOrResumed(r) ==
    r.state \in {"VERIFYING", "VERIFIED", "NOT_VERIFIED", "COMPLETE"} =>
        r.past \cap {"AUDITING", "READY_TO_RESUME", "WAITING_FOR_QUOTA"} # {}

NoVerdictWithoutAudit == AuditedOrResumed(file)

\* A milestone is VERIFIED or released on a verdict in its record, unless it
\* was stepped there by hand; and unless a command raced with another one the
\* verdict is about the audit report in the record.
VerdictInRecord(r) ==
    r.state \in {"VERIFIED", "COMPLETE"} /\ ~r.byHand =>
        r.verdict = "VERIFIED"

VerdictIsOfThisAudit ==
    /\ VerdictInRecord(file)
    /\ file.state \in {"VERIFIED", "COMPLETE"} /\ ~file.byHand /\ ~raced =>
          file.reviewed = file.audit

\* What is verified and released is what was audited: nothing is written
\* between the audit and the release, not even by a write that was authorized
\* before the audit, unless a command or a write raced with a save, or the
\* milestone went back to VERIFYING by one of the detours.
VerifiedWorkWasAudited ==
    /\ ~raced
    /\ ~file.byHand
    /\ file.state \in {"VERIFYING", "VERIFIED", "COMPLETE"}
    /\ file.past \cap {"READY_TO_RESUME", "WAITING_FOR_QUOTA",
                       "WAITING_FOR_CLAUDE"} = {}
    => file.audit = work

\* Once a plan has been accepted nothing is written under a plan that never
\* was, unless a command or a write raced with a save, or the plan file was
\* edited after this write had read it for its scope: from there over the
\* comparison to the write nothing holds the plan.
WritesFollowAnAcceptedPlan ==
    [][\A w \in Writers :
          SafeWrite(w) /\ agreed # {} /\ ~raced' /\ ~write[w].edited =>
              plan \in agreed]_vars

\* "Append-only. One row per state transition. Do not edit or delete prior
\* rows" (state_manager.py:600-601): that much holds of rows on one line, which
\* are lost only by the save of a copy that is out of date.  A row with a
\* note of several lines is not found by the next load, and the save after
\* that load deletes it.
RowsSurviveUnlessRaced ==
    [][\/ Readable(file.log) \subseteq file'.log
       \/ \E c \in Commands : Save(c) /\ stale[c]]_vars

=============================================================================
