------------------------ MODULE WorkflowSessionProofs ------------------------
(***************************************************************************)
(* Theorems about WorkflowSession, for sessions of any length with any     *)
(* number of restarts.                                                     *)
(***************************************************************************)
EXTENDS WorkflowSession, WorkflowProofs

-----------------------------------------------------------------------------
(* The inductive invariant.                                                *)

StepStatus == {"pending", "running", "waiting_for_input", "completed",
               "failed", "blocked"}

WorkflowStatus == {"planned", "running", "waiting_for_input", "completed",
                   "failed", "blocked"}

\* What can be in the file; without an active workflow nothing waits there.
DiskInv ==
    /\ disk \in [active : Active, step : [Steps -> StepStatus],
                 count : [Steps -> Nat], wf : WorkflowStatus]
    /\ disk.active = "none" => disk.wf = "planned"

\* A request that is not executing has left execute().
PhaseInv == phase = "execute" <=> cursor # 0

\* After a restart a step may be left running: CallInv does not hold here.
HandlerInv == calling => cursor \in Steps /\ step[cursor] = "running"

\* Also while a decision is carried back the file is up to date, and what is
\* dropped or forgotten is no longer in the session.
SavedInv ==
    /\ phase \in {"idle", "decided"} =>
        /\ disk.active = active \/ forgotten
        /\ active # "none" => disk = Snapshot
        /\ (active = "waiting_for_input" /\ ~recovered) =>
                wf = "waiting_for_input"
    /\ phase = "dropped" \/ forgotten => active = "none"

\* Unless a run was saved half way, what is in the file waits for an answer.
DiskWaits ==
    disk.active # "none" =>
        /\ disk.active = "waiting_for_input"
        /\ disk.wf = "waiting_for_input"
        /\ \E i \in Steps : disk.step[i] = "waiting_for_input"

WaitInv ==
    ~savedMidRun =>
        /\ DiskWaits
        /\ PauseInv

\* What the file has as completed is not to be taken up again.
KeptInv ==
    disk.active # "none" =>
        \A i \in Steps : disk.step[i] = "completed" =>
            step[i] \in {"completed", "failed"}

\* A step's action asks for the step's capability, and a decision is about an
\* action.
ActionInv ==
    /\ \A a \in Actions :
          action[a] # None /\ action[a].step # 0 =>
              action[a].cap = cap[action[a].step]
    /\ decision # None => action[decision.action] # None

SessionInv ==
    /\ SessionTypeOK
    /\ DiskInv
    /\ PhaseInv
    /\ HandlerInv
    /\ SavedInv
    /\ WaitInv
    /\ KeptInv
    /\ ActionInv

-----------------------------------------------------------------------------
(* Calls of the executor.                                                  *)

\* What the session has the executor do.
Driven ==
    \/ Run
    \/ Execute
    \/ \E i : CompleteAndCall(i) \/ FailFromOutside(i)

LEMMA DrivenTyped == TypeOK /\ Driven => TypeOK'
<1> SUFFICES ASSUME TypeOK, Driven PROVE TypeOK'
    OBVIOUS
<1>1. CASE Run \/ Execute
    BY <1>1, TypeStep DEF Next
<1>2. ASSUME NEW i, CompleteAndCall(i) PROVE TypeOK'
  <2>1. 1 \in 0 .. N + 1
      BY SizeAssumption
  <2> QED
      BY <1>2, <2>1 DEF CompleteAndCall, Enter, plan, TypeOK
<1>3. ASSUME NEW i, FailFromOutside(i) PROVE TypeOK'
    BY <1>3 DEF FailFromOutside, plan, TypeOK
<1> QED
    BY <1>1, <1>2, <1>3 DEF Driven

LEMMA DrivenPlan == Driven => UNCHANGED plan
BY DEF Driven, Run, EndOfPass, PassOver, BlockStep, Start, Succeed, Pause,
       Fail, Execute, Call, CompleteAndCall, FailFromOutside

LEMMA DrivenPause == TypeOK /\ PauseInv /\ Driven => PauseInv'
<1> SUFFICES ASSUME TypeOK, PauseInv, Driven PROVE PauseInv'
    OBVIOUS
<1>1. CASE Run \/ Execute
    BY <1>1, PauseStep DEF Next
<1>2. ASSUME NEW i, CompleteAndCall(i) PROVE PauseInv'
    BY <1>2 DEF CompleteAndCall, Enter, PauseInv
<1>3. ASSUME NEW i, FailFromOutside(i) PROVE PauseInv'
    BY <1>3 DEF FailFromOutside, PauseInv
<1> QED
    BY <1>1, <1>2, <1>3 DEF Driven

LEMMA DrivenHandler == TypeOK /\ HandlerInv /\ Driven => HandlerInv'
<1> SUFFICES ASSUME TypeOK, HandlerInv, Driven PROVE HandlerInv'
    OBVIOUS
<1>0. Steps' = Steps /\ 0 \notin Steps
    BY SizeAssumption DEF Steps
<1> USE DEF TypeOK, HandlerInv
<1>1. CASE EndOfPass \/ Execute
    BY <1>0, <1>1 DEF EndOfPass, Execute, Call, Enter, Return
<1>2. ASSUME NEW i \in Steps, PassOver(i) \/ BlockStep(i) \/ Start(i)
      PROVE  HandlerInv'
    BY <1>0, <1>2 DEF PassOver, BlockStep, Start, At, Advance, Return
<1>3. ASSUME NEW i \in Steps, Succeed(i) \/ Pause(i) \/ Fail(i)
      PROVE  HandlerInv'
    BY <1>0, <1>3 DEF Succeed, Pause, Fail, Advance, Return
<1>4. ASSUME NEW i, CompleteAndCall(i) PROVE HandlerInv'
    BY <1>4 DEF CompleteAndCall, Enter
<1>5. ASSUME NEW i, FailFromOutside(i), ~calling PROVE HandlerInv'
    BY <1>5 DEF FailFromOutside
<1>6. ASSUME NEW i, FailFromOutside(i), calling PROVE FALSE
    BY <1>0, <1>6 DEF FailFromOutside
<1> QED
    BY <1>1, <1>2, <1>3, <1>4, <1>5, <1>6 DEF Driven, Run

\* What is completed may fail from outside, under an id it shares, and what is
\* over is not taken up again.
LEMMA OverStays ==
    ASSUME TypeOK, HandlerInv, Driven, NEW i \in Steps,
           step[i] \in {"completed", "failed"}
    PROVE  step'[i] \in {"completed", "failed"}
<1> USE DEF TypeOK
<1>1. CASE EndOfPass \/ Execute
    BY <1>1 DEF EndOfPass, Execute, Call
<1>2. ASSUME NEW j \in Steps, PassOver(j) \/ BlockStep(j) \/ Start(j)
      PROVE  step'[i] \in {"completed", "failed"}
    BY <1>2 DEF PassOver, BlockStep, Start, Resumable
<1>3. ASSUME NEW j \in Steps, Succeed(j) \/ Pause(j) \/ Fail(j)
      PROVE  step'[i] \in {"completed", "failed"}
    BY <1>3 DEF Succeed, Pause, Fail, Calling, HandlerInv
<1>4. ASSUME NEW j, CompleteAndCall(j) \/ FailFromOutside(j)
      PROVE  step'[i] \in {"completed", "failed"}
    BY <1>4 DEF CompleteAndCall, FailFromOutside
<1> QED
    BY <1>1, <1>2, <1>3, <1>4 DEF Driven, Run

\* Only execute() moves its cursor.
LEMMA ExecuteDrives ==
    ASSUME ExecuteOn
    PROVE  /\ Run /\ phase = "execute"
           /\ phase' = IF cursor' = 0 THEN "settle" ELSE "execute"
           /\ UNCHANGED <<cap, decision, begun, active, recovered, disk,
                          forgotten, crashes, savedMidRun>>
BY DEF ExecuteOn, Passing, Handled, Run, fileVars

\* What a step of the session has the executor do, if it changes the workflow.
Ordinary ==
    \/ ExecuteOn \/ Settle \/ Continue \/ AnswerDropped \/ Begin
    \/ AnswerElsewhere \/ Drop
    \/ \E answers \in BOOLEAN : Message(answers)
    \/ MessageRefused
    \/ \E a \in Actions, approved, worked \in BOOLEAN :
        Decide(a, approved, worked)
    \/ OtherTurnSaves
    \/ UNCHANGED sessionVars

LEMMA OrdinaryOrCrash == [SessionNext]_sessionVars => Ordinary \/ Crash
BY DEF SessionNext, Proceed, Ordinary

LEMMA OrdinaryDrives == Ordinary => Driven \/ UNCHANGED vars
<1> SUFFICES ASSUME Ordinary PROVE Driven \/ UNCHANGED vars
    OBVIOUS
<1>1. CASE ExecuteOn
    BY <1>1, ExecuteDrives DEF Driven
<1>2. CASE Continue
    BY <1>2 DEF Continue, Driven
<1>3. CASE Begin \/ \E answers \in BOOLEAN : Message(answers)
    BY <1>3 DEF Begin, Message, Driven
<1> QED
    BY <1>1, <1>2, <1>3
    DEF Ordinary, Settle, AnswerElsewhere, Drop, AnswerDropped,
        MessageRefused, Decide, OtherTurnSaves, sessionVars

LEMMA OrdinaryFile ==
    ASSUME Ordinary
    PROVE  disk' = disk \/ disk' = Snapshot'
BY DEF Ordinary, Persist, ExecuteOn, Settle, Continue, Begin, AnswerElsewhere,
       Drop, AnswerDropped, Message, MessageRefused, Decide, OtherTurnSaves,
       fileVars, sessionVars

\* A turn of no run saves what is in the file already, or clears it.
LEMMA SavedAtRest ==
    ASSUME SavedInv, phase \notin {"execute", "settle"}, SessionTypeOK,
           disk' = Snapshot', UNCHANGED vars,
           active' = active \/ active' = "none"
    PROVE  disk' = disk \/ disk' = Blank
<1>1. CASE active' = "none"
    BY <1>1 DEF Snapshot, Blank
<1>2. CASE active' = active /\ active # "none"
  <2>1. phase # "dropped" /\ disk = Snapshot
      BY <1>2 DEF SavedInv, SessionTypeOK
  <2>2. Snapshot' = Snapshot
      BY <1>2 DEF Snapshot, vars, Blank
  <2> QED
      BY <2>1, <2>2
<1> QED
    BY <1>1, <1>2

-----------------------------------------------------------------------------
(* Types.                                                                  *)

\* What a restarted server finds in the file.
LEMMA CrashLoads ==
    ASSUME DiskInv, Crash
    PROVE  /\ DiskInv'
           /\ disk' \in {disk, Blank}
           /\ disk'.active # "none" => disk' = disk
<1>1. CASE disk' = disk
    BY <1>1 DEF DiskInv
<1>2. CASE disk' = Blank
  <2>1. disk' = [active |-> "none", step |-> [i \in Steps |-> "pending"],
                 count |-> [i \in Steps |-> 0], wf |-> "planned"]
      BY <1>2 DEF Blank
  <2>2. disk'.active = "none" /\ disk'.wf = "planned"
      BY <2>1
  <2>3. DiskInv'
      BY <2>1, <2>2 DEF DiskInv, StepStatus, WorkflowStatus, Active
  <2> QED
      BY <1>2, <2>2, <2>3
<1> QED
    BY <1>1, <1>2 DEF Crash

LEMMA WorkflowTyped ==
    ASSUME SessionTypeOK, DiskInv, [SessionNext]_sessionVars
    PROVE  TypeOK'
<1>1. CASE Ordinary
    BY <1>1, OrdinaryDrives, DrivenTyped DEF SessionTypeOK, vars, plan, TypeOK
<1>2. CASE Crash
  <2>1. /\ disk'.step \in [Steps -> StepStatus]
        /\ disk'.count \in [Steps -> Nat]
        /\ disk'.wf \in WorkflowStatus
      BY <1>2, CrashLoads DEF DiskInv
  <2>2. /\ step' = disk'.step /\ count' = disk'.count /\ wf' = disk'.wf
        /\ cursor' = 0 /\ calling' = FALSE /\ progress' = FALSE
        /\ id' = id /\ deps' = deps /\ asks' = asks
      BY <1>2 DEF Crash, Loaded, plan
  <2>3. 0 \in 0 .. N + 1
      BY SizeAssumption
  <2> QED
      BY <2>1, <2>2, <2>3
      DEF StepStatus, WorkflowStatus, SessionTypeOK, TypeOK
<1> QED
    BY <1>1, <1>2, OrdinaryOrCrash

LEMMA SessionTyped ==
    ASSUME SessionTypeOK, DiskInv, [SessionNext]_sessionVars
    PROVE  /\ cap' = cap
           /\ phase' \in {"idle", "execute", "settle", "decided", "dropped"}
           /\ forgotten' \in BOOLEAN
           /\ active' \in Active
           /\ recovered' \in BOOLEAN
           /\ begun' \in BOOLEAN
           /\ calls' \in [Steps -> Nat]
           /\ crashes' \in 0 .. MaxCrashes
           /\ savedMidRun' \in BOOLEAN
<1> USE DEF SessionTypeOK
<1>1. CASE ExecuteOn
  <2>1. \/ calls' = calls
        \/ calls' = [calls EXCEPT ![cursor] = @ + 1]
      BY <1>1 DEF ExecuteOn
  <2>2. calls' \in [Steps -> Nat]
      BY <2>1
  <2> QED
      BY <1>1, <2>2, ExecuteDrives
<1> USE DEF Persist, fileVars
<1>2. CASE Settle \/ Continue
    BY <1>2 DEF Settle, Continue, stateVars, historyVars, Active
<1>3. CASE Begin \/ \E answers \in BOOLEAN : Message(answers)
    BY <1>3 DEF Begin, Message, stateVars, historyVars
<1>4. CASE MessageRefused \/ OtherTurnSaves
    BY <1>4 DEF MessageRefused, OtherTurnSaves, stateVars, historyVars, Active
<1>5. CASE \/ AnswerElsewhere \/ Drop \/ AnswerDropped
           \/ \E a \in Actions, approved, worked \in BOOLEAN :
                  Decide(a, approved, worked)
    BY <1>5 DEF AnswerElsewhere, Drop, AnswerDropped, Decide, historyVars,
                Active
<1>6. CASE Crash
  <2>1. crashes' \in 0 .. MaxCrashes
      BY <1>6, SessionAssumption DEF Crash
  <2>2. active' \in Active
      BY <1>6, CrashLoads DEF Crash, DiskInv
  <2> QED
      BY <1>6, <2>1, <2>2 DEF Crash
<1>7. CASE UNCHANGED sessionVars
    BY <1>7 DEF sessionVars, stateVars, historyVars
<1> QED
    BY <1>1, <1>2, <1>3, <1>4, <1>5, <1>6, <1>7 DEF SessionNext, Proceed

LEMMA ActionStep ==
    ASSUME SessionTypeOK, ActionInv, [SessionNext]_sessionVars
    PROVE  /\ action' \in [Actions -> Action \cup {None}]
           /\ ActionInv'
<1> USE DEF SessionTypeOK
<1>0. None \notin Action
    BY NoneAssumption
<1>1. CASE /\ UNCHANGED <<action, cap>>
           /\ decision' = decision \/ decision' = None
    BY <1>1 DEF ActionInv
<1>2. ASSUME NEW a \in Actions, NEW i \in Steps, cap[i] \in Gated,
             action[a] = None, UNCHANGED <<cap, decision>>,
             action' = [action EXCEPT ![a] =
                           [step |-> i, cap |-> cap[i], open |-> TRUE]]
      PROVE  /\ action' \in [Actions -> Action \cup {None}]
             /\ ActionInv'
  <2> DEFINE new == [step |-> i, cap |-> cap[i], open |-> TRUE]
  <2>1. new \in Action
      BY <1>2, SizeAssumption DEF Action, Steps
  <2>2. action' \in [Actions -> Action \cup {None}]
      BY <1>2, <2>1
  <2>3. \A b \in Actions : action'[b] = IF b = a THEN new ELSE action[b]
      BY <1>2
  <2>4. new.step = i /\ new.cap = cap[i] /\ new # None
      BY <1>0, <2>1
  <2> HIDE DEF new
  <2> QED
      BY <1>2, <2>2, <2>3, <2>4 DEF ActionInv, Decision
<1>3. ASSUME NEW a \in Actions, NEW c \in Gated, action[a] = None,
             UNCHANGED <<cap, decision>>,
             action' = [action EXCEPT ![a] =
                           [step |-> 0, cap |-> c, open |-> TRUE]]
      PROVE  /\ action' \in [Actions -> Action \cup {None}]
             /\ ActionInv'
  <2> DEFINE new == [step |-> 0, cap |-> c, open |-> TRUE]
  <2>1. new \in Action
      BY SizeAssumption DEF Action
  <2>2. /\ action' = [action EXCEPT ![a] = new]
        /\ UNCHANGED <<cap, decision>>
      BY <1>3
  <2>3. \A b \in Actions : action'[b] = IF b = a THEN new ELSE action[b]
      BY <2>2
  <2>4. new.step = 0 /\ new # None
      BY <1>0, <2>1
  <2>5. action' \in [Actions -> Action \cup {None}]
      BY <2>1, <2>2
  <2> HIDE DEF new
  <2> QED
      BY <2>2, <2>3, <2>4, <2>5 DEF ActionInv, Decision
<1>4. ASSUME NEW a \in Actions, NEW approved \in BOOLEAN,
             NEW worked \in BOOLEAN, Decide(a, approved, worked)
      PROVE  /\ action' \in [Actions -> Action \cup {None}]
             /\ ActionInv'
  <2>1. /\ action[a] # None
        /\ action' = [action EXCEPT ![a].open = FALSE]
        /\ cap' = cap
        /\ decision' = [action |-> a,
                        success |-> action[a].open /\ approved /\ worked]
      BY <1>4 DEF Decide
  <2>2. PICK r \in Action : r = action[a]
      BY <2>1
  <2>3. [r EXCEPT !.open = FALSE] \in Action
      BY DEF Action
  <2>4. [r EXCEPT !.open = FALSE].step = r.step
      BY DEF Action
  <2>5. [r EXCEPT !.open = FALSE].cap = r.cap
      BY DEF Action
  <2>6. PICK q \in Action : /\ q = [r EXCEPT !.open = FALSE]
                            /\ q.step = r.step /\ q.cap = r.cap
      BY <2>3, <2>4, <2>5
  <2>7. \A b \in Actions : action'[b] = IF b = a THEN q ELSE action[b]
      BY <2>1, <2>2, <2>6
  <2>8. action' \in [Actions -> Action \cup {None}]
      BY <2>1, <2>2, <2>6
  <2>9. decision'.action = a /\ action'[a] # None
      BY <1>0, <2>1, <2>6, <2>7
  <2>10. ASSUME NEW b \in Actions, action'[b] # None, action'[b].step # 0
         PROVE  action'[b].cap = cap[action'[b].step]
    <3>1. CASE b = a
        BY <2>1, <2>2, <2>6, <2>7, <2>10, <3>1 DEF ActionInv
    <3>2. CASE b # a
        BY <2>7, <2>10, <3>2 DEF ActionInv
    <3> QED
        BY <3>1, <3>2
  <2> QED
      BY <2>1, <2>8, <2>9, <2>10 DEF ActionInv
<1>5. CASE ExecuteOn
  <2>1. \/ UNCHANGED action
        \/ \E i \in Steps : Handled(i)
      BY <1>5 DEF ExecuteOn
  <2>2. UNCHANGED <<cap, decision>>
      BY <1>5 DEF ExecuteOn
  <2>3. \/ UNCHANGED action
        \/ \E i \in Steps, a \in Actions :
              /\ cap[i] \in Gated
              /\ action[a] = None
              /\ action' = [action EXCEPT ![a] =
                               [step |-> i, cap |-> cap[i], open |-> TRUE]]
      BY <2>1 DEF Handled, IsNew
  <2> QED
      BY <1>1, <1>2, <2>2, <2>3
<1>6. CASE Settle \/ Continue \/ Begin \/ MessageRefused \/ OtherTurnSaves
    BY <1>1, <1>6 DEF Settle, Continue, Begin, MessageRefused, OtherTurnSaves,
       stateVars
<1>7. CASE \/ \E answers \in BOOLEAN : Message(answers)
           \/ Crash
           \/ UNCHANGED sessionVars
    BY <1>1, <1>7 DEF Message, Crash, stateVars, sessionVars
<1>8. CASE AnswerElsewhere \/ Drop \/ AnswerDropped
  <2>1. MayPropose /\ UNCHANGED <<cap, decision>>
      BY <1>8 DEF AnswerElsewhere, Drop, AnswerDropped
  <2> QED
      BY <1>1, <1>3, <2>1 DEF MayPropose, IsNew
<1> QED
    BY <1>4, <1>5, <1>6, <1>7, <1>8 DEF SessionNext, Proceed

LEMMA DecisionTyped ==
    ASSUME SessionTypeOK, [SessionNext]_sessionVars
    PROVE  /\ decision' \in Decision \cup {None}
           /\ (decision' # None) = (phase' = "decided")
<1> USE DEF SessionTypeOK
<1>1. ASSUME NEW a \in Actions, NEW approved \in BOOLEAN,
             NEW worked \in BOOLEAN, Decide(a, approved, worked)
      PROVE  /\ decision' \in Decision \cup {None}
             /\ (decision' # None) = (phase' = "decided")
  <2>1. /\ action[a] \in Action
        /\ decision' = [action |-> a,
                        success |-> action[a].open /\ approved /\ worked]
        /\ phase' = "decided"
      BY <1>1 DEF Decide
  <2>2. action[a].open \in BOOLEAN
      BY <2>1 DEF Action
  <2>3. decision' \in Decision
      BY <2>1, <2>2 DEF Decision
  <2> QED
      BY <2>1, <2>3, NoneAssumption
<1>2. CASE ExecuteOn
    BY <1>2, ExecuteDrives
<1>3. CASE Settle \/ Continue \/ Begin \/ MessageRefused \/ OtherTurnSaves
    BY <1>3 DEF Settle, Continue, Begin, MessageRefused, OtherTurnSaves,
       stateVars
<1>4. CASE \/ \E answers \in BOOLEAN : Message(answers)
           \/ AnswerElsewhere \/ Drop \/ AnswerDropped
           \/ Crash
           \/ UNCHANGED sessionVars
    BY <1>4 DEF Message, AnswerElsewhere, Drop, AnswerDropped, Crash,
                stateVars, sessionVars
<1> QED
    BY <1>1, <1>2, <1>3, <1>4 DEF SessionNext, Proceed

-----------------------------------------------------------------------------
(* The file and the workflow.                                              *)

LEMMA DiskStep ==
    ASSUME SessionTypeOK, DiskInv, [SessionNext]_sessionVars
    PROVE  DiskInv'
<1>1. TypeOK' /\ active' \in Active
    BY WorkflowTyped, SessionTyped
<1>2. CASE disk' = disk
    BY <1>2 DEF DiskInv
<1>3. CASE disk' = Snapshot' /\ active' = "none"
  <2>1. disk' = [active |-> "none", step |-> [i \in Steps |-> "pending"],
                 count |-> [i \in Steps |-> 0], wf |-> "planned"]
      BY <1>3 DEF Snapshot, Blank
  <2>2. disk'.wf = "planned"
      BY <2>1
  <2> QED
      BY <2>1, <2>2 DEF DiskInv, StepStatus, WorkflowStatus, Active
<1>4. CASE disk' = Snapshot' /\ active' # "none"
  <2>1. disk' = [active |-> active', step |-> step', count |-> count',
                 wf |-> wf']
      BY <1>4 DEF Snapshot
  <2>2. disk'.active # "none"
      BY <1>4, <2>1
  <2>3. /\ step' \in [Steps -> StepStatus] /\ count' \in [Steps -> Nat]
        /\ wf' \in WorkflowStatus
      BY <1>1 DEF TypeOK, StepStatus, WorkflowStatus
  <2> QED
      BY <1>1, <2>1, <2>2, <2>3 DEF DiskInv
<1> QED
    BY <1>2, <1>3, <1>4, OrdinaryOrCrash, OrdinaryFile, CrashLoads

LEMMA PhaseStep ==
    ASSUME PhaseInv, [SessionNext]_sessionVars
    PROVE  PhaseInv'
<1> USE DEF PhaseInv
<1>1. CASE ExecuteOn
    BY <1>1, ExecuteDrives
<1>2. CASE Settle \/ MessageRefused \/ OtherTurnSaves
    BY <1>2 DEF Settle, MessageRefused, OtherTurnSaves, vars
<1>3. CASE Continue
    BY <1>3 DEF Continue, vars, CompleteAndCall, FailFromOutside, Enter
<1>4. CASE Begin \/ \E answers \in BOOLEAN : Message(answers)
    BY <1>4 DEF Begin, Message, Execute, Call, Enter
<1>5. CASE \/ AnswerElsewhere \/ Drop \/ AnswerDropped
           \/ \E a \in Actions, approved, worked \in BOOLEAN :
                  Decide(a, approved, worked)
           \/ Crash
           \/ UNCHANGED sessionVars
    BY <1>5 DEF AnswerElsewhere, Drop, AnswerDropped, Decide, Crash, vars,
                sessionVars
<1> QED
    BY <1>1, <1>2, <1>3, <1>4, <1>5 DEF SessionNext, Proceed

LEMMA HandlerStep ==
    ASSUME SessionTypeOK, HandlerInv, [SessionNext]_sessionVars
    PROVE  HandlerInv'
<1>1. CASE Ordinary
    BY <1>1, OrdinaryDrives, DrivenHandler DEF HandlerInv, vars, SessionTypeOK
<1>2. CASE Crash
    BY <1>2 DEF Crash, HandlerInv
<1> QED
    BY <1>1, <1>2, OrdinaryOrCrash

LEMMA KeptStep ==
    ASSUME SessionTypeOK, DiskInv, HandlerInv, KeptInv,
           [SessionNext]_sessionVars
    PROVE  KeptInv'
<1>1. ASSUME Ordinary, NEW i \in Steps, step[i] \in {"completed", "failed"}
      PROVE  step'[i] \in {"completed", "failed"}
    BY <1>1, OrdinaryDrives, OverStays DEF SessionTypeOK, vars
<1>2. CASE Ordinary /\ disk' = disk
    BY <1>1, <1>2 DEF KeptInv
<1>3. CASE disk' = Snapshot'
  <2>1. CASE active' = "none"
    <3>1. disk'.active = "none"
        BY <1>3, <2>1 DEF Snapshot, Blank
    <3> QED
        BY <3>1 DEF KeptInv
  <2>2. CASE active' # "none"
    <3>1. disk'.step = step'
        BY <1>3, <2>2 DEF Snapshot
    <3> QED
        BY <3>1 DEF KeptInv
  <2> QED
      BY <2>1, <2>2
<1>4. CASE Crash
  <2>1. step' = disk'.step
      BY <1>4 DEF Crash, Loaded
  <2> QED
      BY <2>1 DEF KeptInv
<1> QED
    BY <1>2, <1>3, <1>4, OrdinaryOrCrash, OrdinaryFile

\* What Snapshot writes.
LEMMA Saved ==
    ASSUME disk' = Snapshot'
    PROVE  /\ disk'.active = active'
           /\ active' # "none" => disk'.step = step' /\ disk'.wf = wf'
<1>1. CASE active' = "none"
    BY <1>1 DEF Snapshot, Blank
<1>2. CASE active' # "none"
    BY <1>2 DEF Snapshot
<1> QED
    BY <1>1, <1>2

LEMMA SavedStep ==
    ASSUME SessionTypeOK, DiskInv, SavedInv, [SessionNext]_sessionVars
    PROVE  SavedInv'
<1> USE DEF SavedInv, fileVars
<1>1. CASE ExecuteOn
    BY <1>1, ExecuteDrives
<1>2. CASE Settle
    BY <1>2, Saved DEF Settle, Persist, vars
<1>3. CASE MessageRefused
    BY <1>3, Saved DEF MessageRefused, Persist
<1>4. CASE OtherTurnSaves
    BY <1>4, Saved DEF OtherTurnSaves, Persist, vars
<1>5. CASE Begin \/ \E answers \in BOOLEAN : Message(answers)
    BY <1>5 DEF Begin, Message, Persist
<1>6. CASE Continue
    BY <1>6 DEF Continue, Snapshot, Blank, vars
<1>7. CASE \/ \E a \in Actions, approved, worked \in BOOLEAN :
                  Decide(a, approved, worked)
           \/ UNCHANGED sessionVars
    BY <1>7 DEF Decide, sessionVars, Snapshot, Blank, vars
<1>8. CASE Crash
  <2>1. /\ active' = disk'.active /\ step' = disk'.step
        /\ count' = disk'.count /\ wf' = disk'.wf
        /\ recovered' = (disk'.active # "none")
        /\ ~forgotten' /\ phase' = "idle"
      BY <1>8 DEF Crash, Loaded
  <2>2. disk' = [active |-> disk'.active, step |-> disk'.step,
                 count |-> disk'.count, wf |-> disk'.wf]
      BY <1>8, CrashLoads DEF DiskInv
  <2>3. active' # "none" => disk' = Snapshot'
      BY <2>1, <2>2 DEF Snapshot
  <2>4. active' # "none" => recovered'
      BY <2>1
  <2> QED
      BY <2>1, <2>3, <2>4
<1>9. CASE AnswerElsewhere
  <2>1. /\ phase = "idle" /\ UNCHANGED <<vars, phase, active, recovered>>
        /\ Persist \/ UNCHANGED <<disk, forgotten>>
      BY <1>9 DEF AnswerElsewhere
  <2>2. CASE Persist
      BY <2>1, <2>2, Saved DEF Persist, vars
  <2>3. CASE UNCHANGED <<disk, forgotten>>
      BY <2>1, <2>3 DEF Snapshot, Blank, vars
  <2> QED
      BY <2>1, <2>2, <2>3
<1>10. CASE Drop
    BY <1>10 DEF Drop
<1>11. CASE AnswerDropped
  <2>1. /\ active = "none" /\ active' = "none"
        /\ \/ Persist
           \/ UNCHANGED disk /\ forgotten' = (disk.active # "none")
      BY <1>11 DEF AnswerDropped
  <2>2. CASE Persist
      BY <2>1, <2>2, Saved DEF Persist
  <2>3. CASE UNCHANGED disk /\ forgotten' = (disk.active # "none")
      BY <2>1, <2>3
  <2> QED
      BY <2>1, <2>2, <2>3
<1> QED
    BY <1>1, <1>2, <1>3, <1>4, <1>5, <1>6, <1>7, <1>8, <1>9, <1>10, <1>11
    DEF SessionNext, Proceed

\* Another turn that saves the session in the middle of a run is remembered;
\* any other one finds in the file what it saves, or clears it.
LEMMA SavedBefore ==
    ASSUME SessionTypeOK, [SessionNext]_sessionVars, ~savedMidRun'
    PROVE  /\ ~savedMidRun
           /\ OtherTurnSaves => phase \notin {"execute", "settle"}
BY DEF SessionNext, Proceed, ExecuteOn, Settle, Continue, Begin,
       AnswerElsewhere, Drop, AnswerDropped, Message, MessageRefused, Decide,
       OtherTurnSaves, Crash, historyVars, sessionVars, SessionTypeOK

\* The turns that leave the workflow alone leave its file alone or clear it.
LEMMA SavedAside ==
    ASSUME SessionTypeOK, SavedInv,
           \/ AnswerElsewhere \/ Drop \/ AnswerDropped
           \/ OtherTurnSaves /\ phase \notin {"execute", "settle"}
    PROVE  disk' = disk \/ disk' = Blank
<1>1. /\ phase \notin {"execute", "settle"}
      /\ UNCHANGED vars
      /\ active' = active \/ active' = "none"
      /\ disk' = disk \/ disk' = Snapshot'
    BY DEF AnswerElsewhere, Drop, AnswerDropped, OtherTurnSaves, Persist,
           fileVars
<1> QED
    BY <1>1, SavedAtRest

LEMMA WaitStep ==
    ASSUME SessionTypeOK, DiskInv, SavedInv, PhaseInv, WaitInv,
           [SessionNext]_sessionVars
    PROVE  WaitInv'
<1> SUFFICES ASSUME ~savedMidRun' PROVE (DiskWaits /\ PauseInv)'
    BY DEF WaitInv
<1>1. /\ ~savedMidRun
      /\ OtherTurnSaves => phase \notin {"execute", "settle"}
    BY SavedBefore
<1>2. DiskWaits /\ PauseInv
    BY <1>1 DEF WaitInv
<1>3. ASSUME Ordinary PROVE PauseInv'
    BY <1>2, <1>3, OrdinaryDrives, DrivenPause
    DEF SessionTypeOK, PauseInv, Waiting, vars
<1>4. CASE disk' = disk /\ Ordinary
    BY <1>2, <1>3, <1>4 DEF DiskWaits
<1>5. CASE Crash
  <2>1. /\ step' = disk'.step /\ wf' = disk'.wf
      BY <1>5 DEF Crash, Loaded
  <2>2. DiskWaits'
      BY <1>2, <1>5, CrashLoads DEF DiskWaits
  <2>3. disk'.wf = "waiting_for_input" =>
            \E i \in Steps : disk'.step[i] = "waiting_for_input"
      BY <1>5, <2>2, CrashLoads DEF DiskInv, DiskWaits
  <2>4. PauseInv'
      BY <2>1, <2>3 DEF PauseInv, Waiting
  <2> QED
      BY <2>2, <2>4
<1>6. CASE Settle
  <2>1. /\ disk' = Snapshot' /\ cursor = 0
        /\ active' # "none" =>
              active' = "waiting_for_input" /\ wf = "waiting_for_input"
        /\ wf' = wf /\ step' = step
      BY <1>6 DEF Settle, Persist, PhaseInv, vars
  <2>2. wf = "waiting_for_input" =>
            \E i \in Steps : step[i] = "waiting_for_input"
      BY <1>2, <2>1 DEF PauseInv, Waiting
  <2>3. DiskWaits'
      BY <2>1, <2>2, Saved DEF DiskWaits
  <2> QED
      BY <1>3, <1>6, <2>3 DEF Ordinary
<1>7. ASSUME NEW answers \in BOOLEAN, Message(answers), disk' = Snapshot'
      PROVE  (DiskWaits /\ PauseInv)'
  <2>1. /\ disk.active = active /\ active = "waiting_for_input"
        /\ disk = Snapshot
        /\ active' = active /\ step' = step /\ wf' = wf
      BY <1>7 DEF Message, SavedInv, Execute, Call, Snapshot
  <2>2. disk.step = step /\ disk.wf = wf
      BY <2>1 DEF Snapshot
  <2>3. DiskWaits'
      BY <1>2, <1>7, <2>1, <2>2, Saved DEF DiskWaits
  <2> QED
      BY <1>3, <1>7, <2>3 DEF Ordinary
<1>8. ~MessageRefused
  <2> SUFFICES ASSUME MessageRefused PROVE FALSE
      OBVIOUS
  <2>1. active # "none" /\ disk.active = active /\ disk = Snapshot
      BY DEF MessageRefused, SavedInv, Snapshot
  <2>2. wf = "waiting_for_input"
      BY <1>2, <2>1 DEF DiskWaits, Snapshot
  <2>3. RecoveryAction \in {"reject", "resume"}
      BY <2>2 DEF RecoveryAction
  <2> QED
      BY <2>3 DEF MessageRefused
<1>9. CASE ExecuteOn \/ Continue \/ Begin
    BY <1>4, <1>9, ExecuteDrives DEF Continue, Begin, Ordinary, fileVars
<1>10. ASSUME NEW answers \in BOOLEAN, Message(answers)
       PROVE  (DiskWaits /\ PauseInv)'
    BY <1>4, <1>7, <1>10 DEF Message, Persist, Ordinary, fileVars
<1>11. CASE \/ \E a \in Actions, approved, worked \in BOOLEAN :
                   Decide(a, approved, worked)
            \/ UNCHANGED sessionVars
  <2>1. disk' = disk
      BY <1>11 DEF Decide, sessionVars, fileVars
  <2> QED
      BY <1>4, <1>11, <2>1 DEF Ordinary
<1>12. CASE AnswerElsewhere \/ Drop \/ AnswerDropped \/ OtherTurnSaves
  <2>1. disk' = disk \/ disk' = Blank
      BY <1>1, <1>12, SavedAside
  <2>2. Ordinary
      BY <1>12 DEF Ordinary
  <2>3. disk' = Blank => DiskWaits'
      BY DEF DiskWaits, Blank
  <2> QED
      BY <1>3, <1>4, <2>1, <2>2, <2>3
<1> QED
    BY <1>1, <1>5, <1>6, <1>8, <1>9, <1>10, <1>11, <1>12
    DEF SessionNext, Proceed

-----------------------------------------------------------------------------
(* The theorems.                                                           *)

LEMMA SessionInitInv == SessionInit => SessionInv
<1> SUFFICES ASSUME SessionInit PROVE SessionInv
    OBVIOUS
<1>1. TypeOK /\ cursor = 0 /\ wf = "planned" /\ calling = FALSE
    BY InitTyped DEF SessionInit, Init
<1>2. disk = [active |-> "none", step |-> [i \in Steps |-> "pending"],
              count |-> [i \in Steps |-> 0], wf |-> "planned"]
    BY DEF SessionInit, Snapshot, Blank
<1>3. /\ disk.active = "none" /\ disk.wf = "planned"
      /\ DOMAIN disk.step = Steps /\ DOMAIN disk.count = Steps
    BY <1>2
<1>4. DiskInv
    BY <1>2, <1>3 DEF DiskInv, StepStatus, WorkflowStatus, Active
<1>5. SessionTypeOK
  <2>1. /\ 0 \in 0 .. MaxCrashes
        /\ [i \in Steps |-> 0] \in [Steps -> Nat]
        /\ [a \in Actions |-> None] \in [Actions -> Action \cup {None}]
      BY SessionAssumption
  <2> QED
      BY <1>1, <1>3, <2>1 DEF SessionInit, SessionTypeOK, Active
<1>6. PhaseInv /\ HandlerInv /\ SavedInv /\ WaitInv /\ KeptInv /\ ActionInv
    BY <1>1, <1>3
    DEF SessionInit, PhaseInv, HandlerInv, SavedInv, WaitInv, DiskWaits,
        PauseInv, KeptInv, ActionInv
<1> QED
    BY <1>4, <1>5, <1>6 DEF SessionInv

LEMMA SessionTypeStep ==
    ASSUME SessionTypeOK, DiskInv, ActionInv, [SessionNext]_sessionVars
    PROVE  SessionTypeOK'
<1>1. DOMAIN disk'.step = Steps /\ DOMAIN disk'.count = Steps
      /\ disk'.active \in Active
    BY DiskStep DEF DiskInv
<1> QED
    BY <1>1, WorkflowTyped, SessionTyped, ActionStep, DecisionTyped
    DEF SessionTypeOK

\* The inductive invariant holds in every reachable state of the session.
THEOREM SessionInvariance == SessionSpec => []SessionInv
<1>1. SessionInit => SessionInv
    BY SessionInitInv
<1>2. SessionInv /\ [SessionNext]_sessionVars => SessionInv'
    BY SessionTypeStep, DiskStep, PhaseStep, HandlerStep, SavedStep, WaitStep,
       KeptStep, ActionStep DEF SessionInv
<1> QED
    BY <1>1, <1>2, PTL DEF SessionSpec

\* The session, its file, its actions and its decisions keep their types.
THEOREM SessionTypeCorrect == SessionSpec => []SessionTypeOK
<1>1. SessionInv => SessionTypeOK
    BY DEF SessionInv
<1> QED
    BY <1>1, SessionInvariance, PTL

\* Between the requests the file has what the session has, after any number of
\* restarts: all but a workflow that was dropped in a turn that failed.
THEOREM QuietMeansSavedHolds == SessionSpec => []QuietMeansSaved
<1>1. SessionInv => QuietMeansSaved
    BY DEF SessionInv, SavedInv, QuietMeansSaved
<1> QED
    BY <1>1, SessionInvariance, PTL

\* A session is left refusing every message only by an unsound plan or by a
\* save in the middle of a run.
THEOREM RefusesOnlyBadPlanHolds == SessionSpec => []RefusesOnlyBadPlan
<1>1. ASSUME SessionInv, Refusing, SoundPlan, ~savedMidRun PROVE FALSE
  <2>1. disk = Snapshot /\ disk.active = active /\ active # "none"
      BY <1>1 DEF SessionInv, SavedInv, Refusing, Snapshot
  <2>2. disk.wf = wf /\ disk.step = step
      BY <2>1 DEF Snapshot
  <2>3. wf = "waiting_for_input" /\ Waiting # {}
      BY <1>1, <2>1, <2>2 DEF SessionInv, WaitInv, DiskWaits, Waiting
  <2>4. Valid
      BY <1>1, <2>3 DEF Valid
  <2>5. RecoveryAction = "resume"
      BY <2>3, <2>4 DEF RecoveryAction
  <2> QED
      BY <1>1, <2>5 DEF Refusing
<1>2. SessionInv => RefusesOnlyBadPlan
    BY <1>1 DEF RefusesOnlyBadPlan
<1> QED
    BY <1>2, SessionInvariance, PTL

\* The handler of a step that the file has as completed is not called again,
\* whatever was lost between two saves.
THEOREM SavedCompletionKeptHolds == SessionSpec => SavedCompletionKept
<1>1. ASSUME SessionInv, [SessionNext]_sessionVars, NEW i \in Steps,
             disk.active # "none", disk.step[i] = "completed"
      PROVE  calls'[i] = calls[i]
  <2>1. step[i] \in {"completed", "failed"}
      BY <1>1 DEF SessionInv, KeptInv
  <2>2. CASE ExecuteOn /\ calling' /\ ~calling
    <3>1. PICK j \in Steps : Start(j)
        BY <1>1, <2>2
        DEF ExecuteOn, EndOfPass, Enter, Return, Passing, PassOver, BlockStep,
            Advance, Handled, Succeed, Pause, Fail
    <3>2. cursor = j /\ j # i
        BY <2>1, <3>1 DEF Start, At, Resumable
    <3>3. calls' = [calls EXCEPT ![cursor] = @ + 1]
        BY <2>2 DEF ExecuteOn
    <3> QED
        BY <1>1, <3>2, <3>3 DEF SessionInv, SessionTypeOK
  <2>3. CASE ~(ExecuteOn /\ calling' /\ ~calling)
    <3>1. calls' = calls
        BY <1>1, <2>3
        DEF SessionNext, Proceed, ExecuteOn, Settle, Continue, Begin,
            AnswerElsewhere, Drop, AnswerDropped, Message, MessageRefused,
            Decide, OtherTurnSaves, Crash, historyVars, sessionVars
    <3> QED
        BY <3>1
  <2> QED
      BY <2>2, <2>3
<1>2. SessionInv /\ [SessionNext]_sessionVars =>
          [\A i \in Steps :
              (disk.active # "none" /\ disk.step[i] = "completed") =>
                  calls'[i] = calls[i]]_sessionVars
    BY <1>1
<1> QED
    BY <1>2, SessionInvariance, PTL DEF SessionSpec, SavedCompletionKept

\* A decision misses the step that proposed its action only if that action was
\* proposed outside the workflow or two steps share a capability or an id.
THEOREM DecisionMissesOnlyByHolds == SessionSpec => DecisionMissesOnlyBy
<1>1. ASSUME SessionInv, Continue, Misdirected,
             action[decision.action].step # 0,
             \A i, j \in Steps : i # j => cap[i] # cap[j] /\ id[i] # id[j]
      PROVE  FALSE
  <2> DEFINE s == action[decision.action].step
  <2>1. /\ phase = "decided" /\ decision # None
        /\ decision.action \in Actions
      BY <1>1 DEF Misdirected, SessionInv, SessionTypeOK, Decision
  <2>2. action[decision.action] \in Action
      BY <1>1, <2>1 DEF SessionInv, SessionTypeOK, ActionInv
  <2>3. s \in Steps /\ action[decision.action].cap = cap[s]
      BY <1>1, <2>1, <2>2, SizeAssumption
      DEF SessionInv, ActionInv, Action, Steps
  <2> HIDE DEF s
  <2>4. DecidedSteps \subseteq {s}
      BY <1>1, <2>3 DEF DecidedSteps, Waiting
  <2>5. ASSUME DecidedSteps # {} PROVE DecidedStep = s
    <3>1. DecidedSteps = {s}
        BY <2>4, <2>5
    <3>2. s <= s
        BY <2>3 DEF Steps
    <3> QED
        BY <3>1, <3>2 DEF DecidedStep
  <2>6. Found(id[s]) = s
    <3>1. Carriers(id[s]) = {s} /\ s <= s
        BY <1>1, <2>3 DEF Carriers, Steps
    <3> QED
        BY <3>1 DEF Found
  <2>7. PICK i \in Steps : step'[i] # step[i] /\ i # s
      BY <1>1 DEF Misdirected, s
  <2>8. step' # step
      BY <2>7
  <2>9. DecidedSteps # {} /\ \E v : step' = [step EXCEPT ![s] = v]
      BY <1>1, <2>5, <2>6, <2>8
      DEF Continue, CompleteAndCall, FailFromOutside, vars
  <2> QED
      BY <1>1, <2>7, <2>9 DEF SessionInv, SessionTypeOK, TypeOK
<1>2. SessionInv /\ [SessionNext]_sessionVars =>
          [(Continue /\ Misdirected) =>
              \/ action[decision.action].step = 0
              \/ \E i, j \in Steps :
                    i # j /\ (cap[i] = cap[j] \/ id[i] = id[j])]_sessionVars
    BY <1>1
<1> QED
    BY <1>2, SessionInvariance, PTL DEF SessionSpec, DecisionMissesOnlyBy

-----------------------------------------------------------------------------
(* The session and the executor.                                           *)

\* Statuses in which execute() may leave a paused workflow: nothing is under
\* way or given up, and what is begun rests on what is completed.
RestingAt(s) ==
    /\ \A i \in Steps : s[i] \in {"pending", "waiting_for_input", "completed"}
    /\ \A i \in Steps : s[i] # "pending" =>
          \A k \in DOMAIN deps[i] : /\ Carriers(deps[i][k]) # {}
                                    /\ s[Mapped(deps[i][k])] = "completed"
    /\ InListOrder =>
          \A i \in Steps : s[i] # "pending" =>
              \A j \in Steps : j < i => s[j] = "completed"

\* The file has a paused workflow or none.
FileRests ==
    IF disk.active = "none"
      THEN \A i \in Steps : disk.step[i] = "pending"
      ELSE RestingAt(disk.step)

\* Unless a run was saved half way, the executor's invariant holds in the
\* session, whatever was lost in restarts.
ExecutorInv == ~savedMidRun => Inv /\ FileRests

\* The plan stays, so what is in the file stays at rest.
LEMMA RestKept ==
    ASSUME UNCHANGED plan, NEW CONSTANT s, RestingAt(s)
    PROVE  RestingAt(s)'
<1>1. Steps' = Steps /\ deps' = deps
    BY DEF plan, Steps
<1> QED
    BY <1>1, SamePlan DEF RestingAt

\* execute() has left the workflow paused.
LEMMA PausedRests ==
    ASSUME Inv, cursor = 0, wf = "waiting_for_input"
    PROVE  RestingAt(step)
<1>1. ASSUME NEW i \in Steps
      PROVE  step[i] \in {"pending", "waiting_for_input", "completed"}
  <2>1. i # 0
      BY SizeAssumption DEF Steps
  <2> QED
      BY <2>1 DEF Inv, CallInv, EndInv, TypeOK
<1>2. ASSUME NEW i \in Steps, step[i] # "pending"
      PROVE  \A k \in DOMAIN deps[i] :
                /\ Carriers(deps[i][k]) # {}
                /\ step[Mapped(deps[i][k])] = "completed"
    BY <1>1, <1>2 DEF Inv, DependenciesFirst
<1>3. ASSUME InListOrder, NEW i \in Steps, step[i] # "pending"
      PROVE  \A j \in Steps : j < i => step[j] = "completed"
    BY <1>1, <1>3 DEF Inv, PrefixInv
<1> QED
    BY <1>1, <1>2, <1>3 DEF RestingAt

LEMMA PausedStored ==
    ASSUME Inv, cursor = 0, UNCHANGED plan, step' = step, disk' = Snapshot',
           active' # "none" => wf = "waiting_for_input"
    PROVE  FileRests'
<1>0. Steps' = Steps
    BY DEF Steps
<1>1. CASE active' = "none"
  <2>1. disk'.active = "none" /\ disk'.step = [i \in Steps |-> "pending"]
      BY <1>0, <1>1 DEF Snapshot, Blank
  <2> QED
      BY <1>0, <2>1 DEF FileRests
<1>2. CASE active' # "none"
  <2>1. disk'.active # "none" /\ disk'.step = step
      BY <1>2, Saved
  <2>2. PICK s : s = step
      OBVIOUS
  <2>3. RestingAt(s)
      BY <1>2, <2>2, PausedRests
  <2>4. RestingAt(s)'
      BY <2>3, RestKept
  <2>5. RestingAt(disk.step)'
      BY <2>1, <2>2, <2>4 DEF RestingAt
  <2> QED
      BY <2>1, <2>5 DEF FileRests
<1> QED
    BY <1>1, <1>2

LEMMA FileKept ==
    ASSUME FileRests, UNCHANGED plan, disk' = disk
    PROVE  FileRests'
<1>0. Steps' = Steps
    BY DEF Steps
<1>1. PICK s : s = disk.step
    OBVIOUS
<1>2. CASE disk.active = "none"
    BY <1>0, <1>2 DEF FileRests
<1>3. CASE disk.active # "none"
  <2>1. RestingAt(s)
      BY <1>1, <1>3 DEF FileRests
  <2>2. RestingAt(s)'
      BY <2>1, RestKept
  <2>3. RestingAt(disk.step)'
      BY <1>1, <2>2 DEF RestingAt
  <2> QED
      BY <1>3, <2>3 DEF FileRests
<1> QED
    BY <1>2, <1>3

LEMMA BlankRests == disk' = Blank => FileRests'
<1> SUFFICES ASSUME disk' = Blank PROVE FileRests'
    OBVIOUS
<1>1. disk'.active = "none" /\ disk'.step = [i \in Steps |-> "pending"]
    BY DEF Blank
<1>2. Steps' = Steps
    BY DEF Steps
<1> QED
    BY <1>1, <1>2 DEF FileRests

\* A workflow that is loaded from such a file is one execute() may resume.
LEMMA RestingLoads ==
    TypeOK /\ cursor = 0 /\ ~calling /\ PauseInv
        /\ wf = "waiting_for_input" /\ RestingAt(step) => Inv
<1> SUFFICES ASSUME TypeOK, cursor = 0, ~calling, PauseInv,
                    wf = "waiting_for_input", RestingAt(step)
             PROVE  Inv
    OBVIOUS
<1>1. CallInv /\ EndInv /\ StuckInv /\ BlockedOnlyByBadPlan
    BY DEF RestingAt, CallInv, EndInv, StuckInv, BlockedOnlyByBadPlan
<1>2. DependenciesFirst
    BY DEF RestingAt, DependenciesFirst
<1>3. \A i \in Steps : ~(i < 0)
    BY SizeAssumption DEF Steps
<1>4. PrefixInv
    BY <1>3 DEF RestingAt, PrefixInv
<1> QED
    BY <1>1, <1>2, <1>4 DEF Inv

\* A session without a workflow in its file starts again from nothing.
LEMMA BlankLoads ==
    TypeOK /\ cursor = 0 /\ ~calling /\ wf = "planned"
        /\ (\A i \in Steps : step[i] = "pending") => Inv
<1> SUFFICES ASSUME TypeOK, cursor = 0, ~calling, wf = "planned",
                    \A i \in Steps : step[i] = "pending"
             PROVE  Inv
    OBVIOUS
<1>1. Waiting = {} /\ \A i \in Steps : ~(i < 0)
    BY SizeAssumption DEF Waiting, Steps
<1> QED
    BY <1>1 DEF Inv, CallInv, EndInv, PauseInv, StuckInv, PrefixInv,
                DependenciesFirst, BlockedOnlyByBadPlan

\* The decision of an action has a step, if one waits for its capability.
LEMMA LeastDecided ==
    ASSUME DecidedSteps # {}
    PROVE  DecidedStep \in DecidedSteps
<1>1. DecidedSteps \subseteq Nat
    BY SizeAssumption DEF DecidedSteps, Waiting, Steps
<1>2. PICK m \in DecidedSteps :
          \A y \in DecidedSteps : ~(<<y, m>> \in OpToRel(<, Nat))
    BY <1>1, NatLessThanWellFounded, WFMin
<1>3. \A y \in DecidedSteps : ~(y < m)
    BY <1>1, <1>2 DEF OpToRel
<1>4. \A y \in DecidedSteps : m <= y
    BY <1>1, <1>3
<1> QED
    BY <1>4 DEF DecidedStep

\* Whatever the session does to the workflow, the executor allows it: it is
\* called for a new or a paused workflow only, and what is decided from outside
\* is a step that waits in a paused one.
LEMMA OrdinaryAllowed ==
    ASSUME SessionInv, ~savedMidRun, Ordinary
    PROVE  [Next]_vars
<1>1. CASE ExecuteOn
    BY <1>1, ExecuteDrives DEF Next
<1>2. CASE Continue /\ ~(UNCHANGED vars)
  <2>1. active = "waiting_for_input" /\ DecidedSteps # {}
      BY <1>2 DEF Continue
  <2>2. /\ phase = "decided"
        /\ CompleteAndCall(DecidedStep) \/ FailFromOutside(DecidedStep)
      BY <1>2 DEF Continue
  <2>3. disk = Snapshot /\ disk.active # "none"
      BY <2>1, <2>2 DEF SessionInv, SavedInv, Snapshot
  <2>4. disk.wf = wf
      BY <2>1, <2>3 DEF Snapshot
  <2>5. wf = "waiting_for_input"
      BY <2>3, <2>4 DEF SessionInv, WaitInv, DiskWaits
  <2>6. DecidedStep \in Waiting /\ DecidedStep \in Steps
      BY <2>1, LeastDecided DEF DecidedSteps, Waiting
  <2> QED
      BY <2>2, <2>5, <2>6 DEF Next, CompleteExternally, FailExternally
<1>3. CASE Begin \/ \E answers \in BOOLEAN : Message(answers)
    BY <1>3 DEF Begin, Message, Next
<1>4. CASE \/ Settle \/ MessageRefused \/ OtherTurnSaves
           \/ AnswerElsewhere \/ Drop \/ AnswerDropped
           \/ \E a \in Actions, approved, worked \in BOOLEAN :
                  Decide(a, approved, worked)
           \/ UNCHANGED sessionVars
    BY <1>4 DEF Settle, AnswerElsewhere, Drop, AnswerDropped, MessageRefused,
                Decide, OtherTurnSaves, sessionVars
<1> QED
    BY <1>1, <1>2, <1>3, <1>4 DEF Ordinary

\* The executor's invariant through a step of the session that is not a crash.
LEMMA ExecutorStep ==
    ASSUME SessionInv, Inv, FileRests, Ordinary, ~savedMidRun,
           OtherTurnSaves => phase \notin {"execute", "settle"}
    PROVE  Inv' /\ FileRests'
<1>1. Inv' /\ UNCHANGED plan
    BY OrdinaryAllowed, NextInv, PlanKept
<1>2. CASE disk' = disk
    BY <1>1, <1>2, FileKept
<1>3. CASE Settle
  <2>1. /\ disk' = Snapshot' /\ cursor = 0 /\ step' = step
        /\ active' # "none" => wf = "waiting_for_input"
      BY <1>3 DEF Settle, Persist, PhaseInv, SessionInv, vars
  <2> QED
      BY <1>1, <2>1, PausedStored
<1>4. ASSUME NEW answers \in BOOLEAN, Message(answers), disk' = Snapshot'
      PROVE  FileRests'
  <2>1. /\ cursor = 0 /\ step' = step
        /\ active = "waiting_for_input" /\ phase = "idle"
      BY <1>4 DEF Message, Execute, Call
  <2>2. disk.active = active /\ disk = Snapshot
      BY <2>1 DEF SessionInv, SavedInv, Snapshot
  <2>3. disk.wf = wf
      BY <2>1, <2>2 DEF Snapshot
  <2>4. wf = "waiting_for_input"
      BY <2>1, <2>2, <2>3 DEF SessionInv, WaitInv, DiskWaits
  <2> QED
      BY <1>1, <1>4, <2>1, <2>4, PausedStored
<1>5. ~MessageRefused
  <2> SUFFICES ASSUME MessageRefused PROVE FALSE
      OBVIOUS
  <2>1. active # "none" /\ disk.active = active /\ disk = Snapshot
      BY DEF MessageRefused, SessionInv, SavedInv, Snapshot
  <2>2. disk.wf = wf
      BY <2>1 DEF Snapshot
  <2>3. wf = "waiting_for_input"
      BY <2>1, <2>2 DEF SessionInv, WaitInv, DiskWaits
  <2>4. RecoveryAction \in {"reject", "resume"}
      BY <2>3 DEF RecoveryAction
  <2> QED
      BY <2>4 DEF MessageRefused
<1>6. \/ disk' = disk
      \/ Settle
      \/ \E answers \in BOOLEAN : Message(answers) /\ disk' = Snapshot'
      \/ AnswerElsewhere \/ Drop \/ AnswerDropped \/ OtherTurnSaves
    BY <1>5 DEF Ordinary, ExecuteOn, Continue, Begin, Message, Decide, Persist,
                fileVars, sessionVars
<1>7. CASE AnswerElsewhere \/ Drop \/ AnswerDropped \/ OtherTurnSaves
  <2>1. disk' = disk \/ disk' = Blank
      BY <1>7, SavedAside DEF SessionInv
  <2> QED
      BY <1>1, <1>2, <2>1, BlankRests
<1> QED
    BY <1>1, <1>2, <1>3, <1>4, <1>6, <1>7

\* ... and through a crash.
LEMMA ExecutorCrash ==
    ASSUME SessionInv, SessionInv', FileRests, Crash, ~savedMidRun,
           ~savedMidRun'
    PROVE  Inv' /\ FileRests'
<1>1. /\ UNCHANGED plan /\ cursor' = 0 /\ ~calling' /\ Steps' = Steps
      /\ step' = disk'.step /\ wf' = disk'.wf /\ TypeOK' /\ PauseInv'
    BY DEF Crash, Loaded, SessionInv, SessionTypeOK, WaitInv, Steps
<1>2. FileRests'
  <2>1. CASE disk' = disk
      BY <1>1, <2>1, FileKept
  <2>2. CASE disk' = Blank
      BY <2>2, BlankRests
  <2> QED
      BY <2>1, <2>2, CrashLoads DEF SessionInv
<1>3. CASE disk'.active # "none"
  <2>1. RestingAt(disk.step)'
      BY <1>2, <1>3 DEF FileRests
  <2>2. RestingAt(step)'
      BY <1>1, <2>1 DEF RestingAt
  <2>3. wf' = "waiting_for_input"
      BY <1>1, <1>3 DEF SessionInv, WaitInv, DiskWaits
  <2>4. (TypeOK /\ cursor = 0 /\ ~calling /\ PauseInv
            /\ wf = "waiting_for_input" /\ RestingAt(step) => Inv)'
      BY RestingLoads, PTL
  <2> QED
      BY <1>1, <1>2, <2>2, <2>3, <2>4
<1>4. CASE disk'.active = "none"
  <2>1. wf' = "planned" /\ \A i \in Steps : step'[i] = "pending"
      BY <1>1, <1>2, <1>4 DEF FileRests, SessionInv, DiskInv
  <2>2. (TypeOK /\ cursor = 0 /\ ~calling /\ wf = "planned"
            /\ (\A i \in Steps : step[i] = "pending") => Inv)'
      BY BlankLoads, PTL
  <2> QED
      BY <1>1, <1>2, <2>1, <2>2
<1> QED
    BY <1>3, <1>4

LEMMA ExecutorInvStep ==
    SessionInv /\ SessionInv' /\ ExecutorInv /\ [SessionNext]_sessionVars =>
        ExecutorInv'
<1> SUFFICES ASSUME SessionInv, SessionInv', ExecutorInv,
                    [SessionNext]_sessionVars, ~savedMidRun'
             PROVE  Inv' /\ FileRests'
    BY DEF ExecutorInv
<1>1. ~savedMidRun /\ (OtherTurnSaves => phase \notin {"execute", "settle"})
    BY SavedBefore DEF SessionInv
<1>2. Inv /\ FileRests
    BY <1>1 DEF ExecutorInv
<1> QED
    BY <1>1, <1>2, OrdinaryOrCrash, ExecutorStep, ExecutorCrash

LEMMA ExecutorInvInit == SessionInit => ExecutorInv
<1> SUFFICES ASSUME SessionInit PROVE Inv /\ FileRests
    BY DEF ExecutorInv
<1>1. /\ disk.active = "none"
      /\ disk.step = [i \in Steps |-> "pending"]
    BY DEF SessionInit, Snapshot, Blank
<1>2. FileRests
    BY <1>1 DEF FileRests
<1> QED
    BY <1>2, InitInv DEF SessionInit

\* The invariant of the executor's own specification, in every session.
LEMMA ExecutorInvariance == SessionSpec => []ExecutorInv
<1>1. SessionInit => ExecutorInv
    BY ExecutorInvInit
<1> QED
    BY <1>1, ExecutorInvStep, SessionInvariance, PTL DEF SessionSpec

\* A session drives the executor as WorkflowExecutor allows it: as long as no
\* other turn has saved it in the middle of a run, what a session does to its
\* workflow, other than to load it again, is a step of that specification
\* (orchestrator.py:5894-5981 and the turns that call execute()).
THEOREM SessionDrivesExecutor ==
    SessionSpec => [][savedMidRun \/ Crash \/ [Next]_vars]_sessionVars
<1>1. SessionInv /\ [SessionNext]_sessionVars =>
          [savedMidRun \/ Crash \/ [Next]_vars]_sessionVars
    BY OrdinaryOrCrash, OrdinaryAllowed
<1> QED
    BY <1>1, SessionInvariance, PTL DEF SessionSpec

\* What WorkflowExecutor guarantees of a workflow that never leaves the memory,
\* a session guarantees through restarts that lose what was not saved: unless
\* another turn has saved it in the middle of a run.
THEOREM ExecutorSafeInSessions ==
    SessionSpec => [](~savedMidRun => /\ DependenciesFirst
                                      /\ OneQuestion
                                      /\ NothingLeftHanging
                                      /\ BlockedOnlyByBadPlan)
<1>1. ExecutorInv => (~savedMidRun => /\ DependenciesFirst
                                      /\ OneQuestion
                                      /\ NothingLeftHanging
                                      /\ BlockedOnlyByBadPlan)
    BY InvOneQuestion, InvNothingLeftHanging DEF ExecutorInv, Inv
<1> QED
    BY <1>1, ExecutorInvariance, PTL

-----------------------------------------------------------------------------
(* What is begun rests on what is completed, also after a save in the      *)
(* middle of a run.                                                        *)

UniqueIds == \A i, j \in Steps : id[i] = id[j] => i = j

Grounded(s) ==
    \A i \in Steps : s[i] \in {"running", "waiting_for_input", "completed"} =>
        \A k \in DOMAIN deps[i] : /\ Carriers(deps[i][k]) # {}
                                  /\ s[Mapped(deps[i][k])] = "completed"

GroundInv == UniqueIds => Grounded(step) /\ Grounded(disk.step)

LEMMA GroundKept ==
    ASSUME UNCHANGED plan, NEW CONSTANT s, Grounded(s)
    PROVE  Grounded(s)'
<1>1. Steps' = Steps /\ deps' = deps
    BY DEF plan, Steps
<1> QED
    BY <1>1, SamePlan DEF Grounded

LEMMA FoundUnique ==
    ASSUME UniqueIds, NEW i \in Steps
    PROVE  Found(id[i]) = i
<1>1. Carriers(id[i]) = {i} /\ i <= i
    BY DEF UniqueIds, Carriers, Steps
<1> QED
    BY <1>1 DEF Found

\* What the session does to the statuses: a completed step stays completed, and
\* what is begun was ready.
LEMMA OrdinaryGround ==
    ASSUME SessionInv, Ordinary, UniqueIds, NEW i \in Steps
    PROVE  /\ step[i] = "completed" => step'[i] = "completed"
           /\ Begun(i)' => Begun(i) \/ Ready(i)
<1> USE DEF SessionInv, SessionTypeOK, TypeOK, Begun
<1>1. CASE EndOfPass \/ Execute \/ UNCHANGED vars
    BY <1>1 DEF EndOfPass, Execute, Call, vars
<1>2. ASSUME NEW j \in Steps, PassOver(j) \/ BlockStep(j) \/ Start(j)
      PROVE  /\ step[i] = "completed" => step'[i] = "completed"
             /\ Begun(i)' => Begun(i) \/ Ready(i)
    BY <1>2 DEF PassOver, BlockStep, Start, Resumable
<1>3. ASSUME NEW j \in Steps, Succeed(j) \/ Pause(j) \/ Fail(j)
      PROVE  /\ step[i] = "completed" => step'[i] = "completed"
             /\ Begun(i)' => Begun(i) \/ Ready(i)
    BY <1>3 DEF Succeed, Pause, Fail, Calling, HandlerInv
<1>4. CASE Continue /\ ~(UNCHANGED vars)
  <2>1. /\ DecidedSteps # {}
        /\ CompleteAndCall(DecidedStep) \/ FailFromOutside(DecidedStep)
      BY <1>4 DEF Continue
  <2>2. DecidedStep \in Steps /\ step[DecidedStep] = "waiting_for_input"
      BY <2>1, LeastDecided DEF DecidedSteps, Waiting
  <2>3. Found(id[DecidedStep]) = DecidedStep
      BY <2>2, FoundUnique
  <2> QED
      BY <2>1, <2>2, <2>3 DEF CompleteAndCall, FailFromOutside
<1>5. \/ Run \/ Execute \/ UNCHANGED vars
      \/ Continue /\ ~(UNCHANGED vars)
    BY ExecuteDrives
    DEF Ordinary, Begin, Message, Settle, AnswerElsewhere, Drop, AnswerDropped,
        MessageRefused, Decide, OtherTurnSaves, sessionVars
<1> QED
    BY <1>1, <1>2, <1>3, <1>4, <1>5 DEF Run

LEMMA GroundOrdinary ==
    ASSUME SessionInv, Ordinary, UniqueIds, Grounded(step)
    PROVE  Grounded(step)'
<1>1. UNCHANGED plan
    BY OrdinaryDrives, DrivenPlan DEF vars
<1>2. Steps' = Steps /\ deps' = deps
    BY <1>1 DEF plan, Steps
<1>3. ASSUME NEW i \in Steps, Begun(i)', NEW k \in DOMAIN deps[i],
             NEW d, d = deps[i][k]
      PROVE  Carriers(d) # {} /\ step'[Mapped(d)] = "completed"
  <2>1. Begun(i) \/ Ready(i)
      BY <1>3, OrdinaryGround
  <2>2. Carriers(d) # {} /\ step[Mapped(d)] = "completed"
      BY <1>3, <2>1 DEF Grounded, Begun, Ready, Done
  <2> QED
      BY <2>2, MappedCarries, OrdinaryGround
<1> QED
    BY <1>1, <1>2, <1>3, SamePlan DEF Grounded, Begun

LEMMA GroundStep ==
    SessionInv /\ GroundInv /\ [SessionNext]_sessionVars => GroundInv'
<1> SUFFICES ASSUME SessionInv, GroundInv, [SessionNext]_sessionVars,
                    UniqueIds'
             PROVE  (Grounded(step) /\ Grounded(disk.step))'
    BY DEF GroundInv
<1>1. UNCHANGED plan /\ Steps' = Steps
    BY OrdinaryOrCrash, OrdinaryDrives, DrivenPlan DEF Crash, vars, Steps
<1>2. UniqueIds /\ Grounded(step) /\ Grounded(disk.step)
    BY <1>1 DEF plan, UniqueIds, GroundInv
<1>3. ASSUME disk' = disk PROVE Grounded(disk.step)'
  <2>1. PICK s : s = disk.step
      OBVIOUS
  <2>2. Grounded(s)'
      BY <1>1, <1>2, <2>1, GroundKept
  <2> QED
      BY <1>3, <2>1, <2>2 DEF Grounded
<1>4. ASSUME disk'.step = [i \in Steps |-> "pending"]
      PROVE  Grounded(disk.step)'
    BY <1>1, <1>4 DEF Grounded
<1>5. CASE Ordinary
  <2>1. Grounded(step)'
      BY <1>2, <1>5, GroundOrdinary
  <2>2. CASE disk' = Snapshot' /\ active' # "none"
    <3>1. disk'.step = step'
        BY <2>2, Saved
    <3> QED
        BY <2>1, <3>1 DEF Grounded
  <2>3. CASE disk' = Snapshot' /\ active' = "none"
    <3>1. disk'.step = [i \in Steps |-> "pending"]
        BY <1>1, <2>3 DEF Snapshot, Blank
    <3> QED
        BY <1>4, <2>1, <3>1
  <2> QED
      BY <1>3, <1>5, <2>1, <2>2, <2>3, OrdinaryFile
<1>6. CASE Crash
  <2>1. step' = disk'.step
      BY <1>6 DEF Crash, Loaded
  <2>2. disk' = disk \/ disk'.step = [i \in Steps |-> "pending"]
      BY <1>6 DEF Crash, Blank
  <2>3. Grounded(disk.step)'
      BY <1>3, <1>4, <2>2
  <2> QED
      BY <2>1, <2>3 DEF Grounded
<1> QED
    BY <1>5, <1>6, OrdinaryOrCrash

\* With unique ids, no save in the middle of a run, no crash and no decision
\* that comes after it leave a step that has run, runs or waits without the
\* results it rests on: DependenciesFirst without its exception for workflows
\* that failed, and whatever the session has lost (state.py:664-674).
THEOREM GroundedThroughRestarts ==
    SessionSpec => [](UniqueIds => Grounded(step))
<1>1. SessionInit => GroundInv
  <2>1. ASSUME SessionInit, NEW i \in Steps
        PROVE  step[i] = "pending" /\ disk.step[i] = "pending"
      BY <2>1 DEF SessionInit, Init, Snapshot, Blank
  <2> QED
      BY <2>1 DEF GroundInv, Grounded
<1>2. GroundInv => (UniqueIds => Grounded(step))
    BY DEF GroundInv
<1> QED
    BY <1>1, <1>2, GroundStep, SessionInvariance, PTL DEF SessionSpec

-----------------------------------------------------------------------------
(* Termination of a request.                                               *)

\* How many stages a request has before it.
Stages ==
    CASE phase = "decided" -> 3
      [] phase = "execute" -> 2
      [] phase \in {"settle", "dropped"} -> 1
      [] phase = "idle"    -> 0

LEMMA StagesTyped == SessionTypeOK => Stages \in Nat
BY DEF SessionTypeOK, Stages

RequestDescends == Stages' < Stages \/ (Stages' = Stages /\ Descends)

\* A request comes to its end in finitely many steps, whatever the executor, the
\* decision and the user's other turns do: each step of its own is a step down,
\* and no other step takes it back up.
THEOREM RequestsDescend ==
    SessionSpec =>
        /\ [](Stages \in Nat /\ Rounds \in Nat /\ Rest \in Nat)
        /\ [][phase # "idle" =>
                 /\ Proceed => RequestDescends
                 /\ ~Proceed => UNCHANGED <<phase, vars>> \/ phase' = "idle"
             ]_sessionVars
<1>1. SessionInv => Stages \in Nat /\ Rounds \in Nat /\ Rest \in Nat
    BY VariantTyped, StagesTyped DEF SessionInv, SessionTypeOK, HandlerInv
<1>2. ASSUME SessionInv, ExecuteOn PROVE RequestDescends
  <2>1. CASE cursor' # 0
    <3>1. Stages' = Stages
        BY <1>2, <2>1, ExecuteDrives DEF Stages
    <3>2. Descends
        BY <1>2, <2>1, ExecuteDrives, RunDescends
        DEF SessionInv, SessionTypeOK, HandlerInv
    <3> QED
        BY <3>1, <3>2 DEF RequestDescends
  <2>2. CASE cursor' = 0
      BY <1>2, <2>2, ExecuteDrives DEF Stages, RequestDescends
  <2> QED
      BY <2>1, <2>2
<1>3. ASSUME Settle \/ Continue \/ AnswerDropped PROVE RequestDescends
    BY <1>3 DEF Settle, Continue, AnswerDropped, Stages, RequestDescends
<1>4. ASSUME SessionNext, phase # "idle", ~Proceed
      PROVE  UNCHANGED <<phase, vars>> \/ phase' = "idle"
    BY <1>4 DEF SessionNext, Begin, AnswerElsewhere, Drop, Message,
                MessageRefused, Decide, OtherTurnSaves, Crash
<1>5. SessionInv /\ [SessionNext]_sessionVars =>
          [phase # "idle" =>
              /\ Proceed => RequestDescends
              /\ ~Proceed => UNCHANGED <<phase, vars>> \/ phase' = "idle"
          ]_sessionVars
    BY <1>2, <1>3, <1>4 DEF Proceed
<1> QED
    BY <1>1, <1>5, SessionInvariance, PTL DEF SessionSpec

=============================================================================
