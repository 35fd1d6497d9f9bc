--------------------------- MODULE WorkflowProofs ---------------------------
(***************************************************************************)
(* Theorems about WorkflowExecutor.                                        *)
(***************************************************************************)
EXTENDS WorkflowExecutor, FiniteSetTheorems, WellFoundedInduction, TLAPS

-----------------------------------------------------------------------------
(* The inductive invariant.                                                *)

\* A handler runs for the step execute() is at, and for no other.
CallInv ==
    /\ calling => cursor \in Steps /\ step[cursor] = "running"
    /\ \A i \in Steps : step[i] = "running" => calling /\ i = cursor

\* What has failed or is blocked has ended the workflow.
EndInv ==
    /\ cursor # 0 => wf \in {"planned", "running", "waiting_for_input"}
    /\ \A i \in Steps : /\ step[i] = "failed" => wf = "failed"
                        /\ step[i] = "blocked" => wf = "blocked"
    /\ cursor = 0 => wf # "running"

\* A paused workflow has its question.
PauseInv == cursor = 0 /\ wf = "waiting_for_input" => Waiting # {}

\* A pass that has made no progress has left nothing behind that was ready.
StuckInv ==
    cursor # 0 /\ ~progress =>
        \A i \in Steps : i < cursor => step[i] = "completed" \/ ~Ready(i)

\* A plan in list order is worked off from its first step on.
PrefixInv ==
    InListOrder =>
        /\ \A i \in Steps : i < cursor => step[i] = "completed"
        /\ wf # "failed" =>
              \A i \in Steps :
                  step[i] \in {"running", "waiting_for_input", "completed"} =>
                      \A j \in Steps : j < i => step[j] = "completed"
        /\ cursor = 0 /\ Waiting # {} =>
              wf \in {"waiting_for_input", "failed"}

Inv ==
    /\ TypeOK
    /\ CallInv
    /\ EndInv
    /\ PauseInv
    /\ StuckInv
    /\ PrefixInv
    /\ DependenciesFirst
    /\ BlockedOnlyByBadPlan

-----------------------------------------------------------------------------
(* The step an id stands for.                                              *)

\* step_map has an entry for every id that some step has.
LEMMA MappedCarries ==
    ASSUME NEW d, Carriers(d) # {}
    PROVE  Mapped(d) \in Carriers(d) /\ Mapped(d) \in Steps
<1> DEFINE T == {N - i : i \in Carriers(d)}
<1>1. /\ N \in Nat
      /\ \A i \in Carriers(d) : i \in Nat /\ i <= N /\ N - i \in Nat
    BY SizeAssumption DEF Carriers, Steps
<1>2. T \subseteq Nat /\ T # {}
    BY <1>1
<1>3. PICK m \in T : \A y \in T : ~(<<y, m>> \in OpToRel(<, Nat))
    BY <1>2, NatLessThanWellFounded, WFMin
<1>4. \A y \in T : ~(y < m)
    BY <1>2, <1>3 DEF OpToRel
<1>5. PICK i \in Carriers(d) : m = N - i
    BY <1>3
<1>6. \A j \in Carriers(d) : j <= i
    BY <1>1, <1>4, <1>5
<1>7. Mapped(d) \in Carriers(d)
    BY <1>6 DEF Mapped
<1> QED
    BY <1>7 DEF Carriers

\* No step changes the plan, so an id stands for the same step throughout.
LEMMA SamePlan ==
    ASSUME UNCHANGED plan
    PROVE  /\ \A d : Carriers(d)' = Carriers(d)
           /\ \A d : Mapped(d)' = Mapped(d)
           /\ InListOrder' <=> InListOrder
<1>1. id' = id /\ deps' = deps /\ asks' = asks
    BY DEF plan
<1>2. \A d : Carriers(d)' = Carriers(d)
    BY <1>1 DEF Carriers
<1>3. \A d : Mapped(d)' = Mapped(d)
    BY <1>1 DEF Mapped, Carriers
<1>4. InListOrder' <=> InListOrder
    BY <1>1, <1>2, <1>3 DEF InListOrder
<1> QED
    BY <1>2, <1>3, <1>4

-----------------------------------------------------------------------------
(* Types.                                                                  *)

LEMMA InitTyped == Init => TypeOK
<1> SUFFICES ASSUME Init PROVE TypeOK
    OBVIOUS
<1>1. ASSUME NEW i \in Steps PROVE deps[i] \in Seq(Ids)
  <2>1. deps[i] \in BoundedSeq(Ids, MaxDeps)
      BY DEF Init
  <2>2. PICK m \in 0 .. MaxDeps : deps[i] \in [1 .. m -> Ids]
      BY <2>1 DEF BoundedSeq, SeqOf
  <2> QED
      BY <2>2, SizeAssumption
<1>2. 0 \in 0 .. N + 1
    BY SizeAssumption
<1> QED
    BY <1>1, <1>2 DEF Init, TypeOK

LEMMA TypeStep == TypeOK /\ [Next]_vars => TypeOK'
<1> SUFFICES ASSUME TypeOK, [Next]_vars PROVE TypeOK'
    OBVIOUS
<1>0. /\ \A i \in Steps : i + 1 \in 0 .. N + 1
      /\ 0 \in 0 .. N + 1 /\ 1 \in 0 .. N + 1
    BY SizeAssumption DEF Steps
<1>1. CASE UNCHANGED vars
    BY <1>1 DEF vars, plan, TypeOK
<1>2. CASE EndOfPass
    BY <1>0, <1>2 DEF EndOfPass, Enter, Return, plan, TypeOK
<1>3. ASSUME NEW i \in Steps, PassOver(i) PROVE TypeOK'
    BY <1>0, <1>3 DEF PassOver, At, Advance, plan, TypeOK
<1>4. ASSUME NEW i \in Steps, BlockStep(i) PROVE TypeOK'
    BY <1>0, <1>4 DEF BlockStep, Return, plan, TypeOK
<1>5. ASSUME NEW i \in Steps, Start(i) PROVE TypeOK'
  <2>1. count' \in [Steps -> Nat]
      BY <1>5 DEF Start, TypeOK
  <2> QED
      BY <1>0, <1>5, <2>1 DEF Start, Return, plan, TypeOK
<1>6. ASSUME NEW i \in Steps, Succeed(i) PROVE TypeOK'
    BY <1>0, <1>6 DEF Succeed, Calling, Advance, plan, TypeOK
<1>7. ASSUME NEW i \in Steps, Pause(i) PROVE TypeOK'
    BY <1>0, <1>7 DEF Pause, Return, plan, TypeOK
<1>8. ASSUME NEW i \in Steps, Fail(i) PROVE TypeOK'
    BY <1>0, <1>8 DEF Fail, Return, plan, TypeOK
<1>9. CASE Execute
    BY <1>0, <1>9 DEF Execute, Call, Enter, plan, TypeOK
<1>10. ASSUME NEW i \in Steps, CompleteExternally(i) PROVE TypeOK'
    BY <1>0, <1>10 DEF CompleteExternally, CompleteAndCall, Enter, plan, TypeOK
<1>11. ASSUME NEW i \in Steps, FailExternally(i) PROVE TypeOK'
    BY <1>0, <1>11 DEF FailExternally, FailFromOutside, plan, TypeOK
<1> QED
    BY <1>1, <1>2, <1>3, <1>4, <1>5, <1>6, <1>7, <1>8, <1>9, <1>10, <1>11
    DEF Next, Run

LEMMA PlanKept == [Next]_vars => UNCHANGED plan
BY DEF Next, Run, EndOfPass, PassOver, BlockStep, Start, Succeed, Pause, Fail,
       Execute, Call, CompleteExternally, CompleteAndCall, FailExternally,
       FailFromOutside, vars

-----------------------------------------------------------------------------
(* The parts of the invariant, one after the other.                        *)

LEMMA CallStep == TypeOK /\ CallInv /\ [Next]_vars => CallInv'
<1> SUFFICES ASSUME TypeOK, CallInv, [Next]_vars PROVE CallInv'
    OBVIOUS
<1>0. Steps' = Steps /\ \A i \in Steps : i # 0 /\ i # N + 1
    BY SizeAssumption DEF Steps
<1> USE DEF TypeOK, CallInv
<1>1. CASE UNCHANGED vars
    BY <1>0, <1>1 DEF vars
<1>2. CASE EndOfPass
    BY <1>0, <1>2 DEF EndOfPass, Enter, Return
<1>3. ASSUME NEW i \in Steps, PassOver(i) PROVE CallInv'
    BY <1>0, <1>3 DEF PassOver, At, Advance
<1>4. ASSUME NEW i \in Steps, BlockStep(i) PROVE CallInv'
    BY <1>0, <1>4 DEF BlockStep, At, Return
<1>5. ASSUME NEW i \in Steps, Start(i) PROVE CallInv'
    BY <1>0, <1>5 DEF Start, At, Return
<1>6. ASSUME NEW i \in Steps, Succeed(i) PROVE CallInv'
    BY <1>0, <1>6 DEF Succeed, Calling, Advance
<1>7. ASSUME NEW i \in Steps, Pause(i) PROVE CallInv'
    BY <1>0, <1>7 DEF Pause, Calling, Return
<1>8. ASSUME NEW i \in Steps, Fail(i) PROVE CallInv'
    BY <1>0, <1>8 DEF Fail, Calling, Return
<1>9. CASE Execute
    BY <1>0, <1>9 DEF Execute, Call, Enter
<1>10. ASSUME NEW i \in Steps, CompleteExternally(i) PROVE CallInv'
    BY <1>0, <1>10 DEF CompleteExternally, CompleteAndCall, Enter
<1>11. ASSUME NEW i \in Steps, FailExternally(i) PROVE CallInv'
    BY <1>0, <1>11 DEF FailExternally, FailFromOutside
<1> QED
    BY <1>1, <1>2, <1>3, <1>4, <1>5, <1>6, <1>7, <1>8, <1>9, <1>10, <1>11
    DEF Next, Run

LEMMA EndStep == TypeOK /\ CallInv /\ EndInv /\ [Next]_vars => EndInv'
<1> SUFFICES ASSUME TypeOK, CallInv, EndInv, [Next]_vars PROVE EndInv'
    OBVIOUS
<1>0. Steps' = Steps /\ \A i \in Steps : i # 0 /\ i # N + 1 /\ i + 1 # 0
    BY SizeAssumption DEF Steps
<1>1. N + 1 # 0
    BY SizeAssumption
<1> USE DEF TypeOK, CallInv, EndInv
<1>2. CASE UNCHANGED vars
    BY <1>0, <1>2 DEF vars
<1>3. CASE EndOfPass
    BY <1>0, <1>1, <1>3 DEF EndOfPass, Enter, Return
<1>4. ASSUME NEW i \in Steps, PassOver(i) PROVE EndInv'
    BY <1>0, <1>4 DEF PassOver, At, Advance
<1>5. ASSUME NEW i \in Steps, BlockStep(i) PROVE EndInv'
    BY <1>0, <1>5 DEF BlockStep, At, Return
<1>6. ASSUME NEW i \in Steps, Start(i) PROVE EndInv'
    BY <1>0, <1>6 DEF Start, At, Return
<1>7. ASSUME NEW i \in Steps, Succeed(i) PROVE EndInv'
    BY <1>0, <1>7 DEF Succeed, Calling, Advance
<1>8. ASSUME NEW i \in Steps, Pause(i) PROVE EndInv'
    BY <1>0, <1>8 DEF Pause, Calling, Return
<1>9. ASSUME NEW i \in Steps, Fail(i) PROVE EndInv'
    BY <1>0, <1>9 DEF Fail, Calling, Return
<1>10. CASE Execute
    BY <1>0, <1>10 DEF Execute, Call, Enter
<1>11. ASSUME NEW i \in Steps, CompleteExternally(i) PROVE EndInv'
    BY <1>0, <1>11 DEF CompleteExternally, CompleteAndCall, Enter
<1>12. ASSUME NEW i \in Steps, FailExternally(i) PROVE EndInv'
    BY <1>0, <1>12 DEF FailExternally, FailFromOutside
<1> QED
    BY <1>2, <1>3, <1>4, <1>5, <1>6, <1>7, <1>8, <1>9, <1>10, <1>11, <1>12
    DEF Next, Run

\* Nothing changes what waits, unless execute() is on its way.
LEMMA PauseStep == TypeOK /\ PauseInv /\ [Next]_vars => PauseInv'
<1> SUFFICES ASSUME TypeOK, PauseInv, [Next]_vars PROVE PauseInv'
    OBVIOUS
<1>0. Steps' = Steps /\ \A i \in Steps : i # 0 /\ i + 1 # 0
    BY SizeAssumption DEF Steps
<1>1. N + 1 # 0
    BY SizeAssumption
<1> USE DEF TypeOK, PauseInv, Waiting
<1>2. CASE UNCHANGED vars
    BY <1>0, <1>2 DEF vars
<1>3. CASE EndOfPass
    BY <1>0, <1>1, <1>3 DEF EndOfPass, Enter, Return
<1>4. ASSUME NEW i \in Steps, PassOver(i) PROVE PauseInv'
    BY <1>0, <1>4 DEF PassOver, At, Advance
<1>5. ASSUME NEW i \in Steps, BlockStep(i) PROVE PauseInv'
    BY <1>0, <1>5 DEF BlockStep, Return
<1>6. ASSUME NEW i \in Steps, Start(i) PROVE PauseInv'
    BY <1>0, <1>6 DEF Start, At, Return
<1>7. ASSUME NEW i \in Steps, Succeed(i) PROVE PauseInv'
    BY <1>0, <1>7 DEF Succeed, Calling, Advance
<1>8. ASSUME NEW i \in Steps, Pause(i) PROVE PauseInv'
    BY <1>0, <1>8 DEF Pause, Return
<1>9. ASSUME NEW i \in Steps, Fail(i) PROVE PauseInv'
    BY <1>0, <1>9 DEF Fail, Return
<1>10. CASE Execute
    BY <1>0, <1>10 DEF Execute, Call, Enter
<1>11. ASSUME NEW i \in Steps, CompleteExternally(i) PROVE PauseInv'
    BY <1>0, <1>11 DEF CompleteExternally, CompleteAndCall, Enter
<1>12. ASSUME NEW i \in Steps, FailExternally(i) PROVE PauseInv'
    BY <1>0, <1>12 DEF FailExternally, FailFromOutside
<1> QED
    BY <1>2, <1>3, <1>4, <1>5, <1>6, <1>7, <1>8, <1>9, <1>10, <1>11, <1>12
    DEF Next, Run

\* A completed step stays so until the workflow fails.
LEMMA CompletedStays ==
    ASSUME TypeOK, CallInv, [Next]_vars, NEW i \in Steps,
           step[i] = "completed", wf' # "failed"
    PROVE  step'[i] = "completed"
<1> USE DEF TypeOK
<1>1. CASE UNCHANGED vars \/ EndOfPass \/ Execute
    BY <1>1 DEF vars, EndOfPass, Execute, Call
<1>2. ASSUME NEW j \in Steps,
             PassOver(j) \/ BlockStep(j) \/ Start(j)
      PROVE  step'[i] = "completed"
    BY <1>2 DEF PassOver, BlockStep, Start, Resumable
<1>3. ASSUME NEW j \in Steps, Succeed(j) \/ Pause(j)
      PROVE  step'[i] = "completed"
    BY <1>3 DEF Succeed, Pause, Calling, CallInv
<1>4. ASSUME NEW j \in Steps, Fail(j) \/ FailExternally(j) PROVE FALSE
    BY <1>4 DEF Fail, FailExternally, FailFromOutside, Return
<1>5. ASSUME NEW j \in Steps, CompleteExternally(j)
      PROVE  step'[i] = "completed"
    BY <1>5 DEF CompleteExternally, CompleteAndCall
<1> QED
    BY <1>1, <1>2, <1>3, <1>4, <1>5 DEF Next, Run

\* A dependency that was met stays so.
LEMMA DoneStays ==
    ASSUME TypeOK, CallInv, [Next]_vars, NEW d, Done(d), wf' # "failed"
    PROVE  Done(d)'
<1>1. Carriers(d)' = Carriers(d) /\ Mapped(d)' = Mapped(d)
    BY PlanKept, SamePlan
<1>2. Mapped(d) \in Steps
    BY MappedCarries DEF Done
<1>3. step'[Mapped(d)] = "completed"
    BY <1>2, CompletedStays DEF Done
<1> QED
    BY <1>1, <1>3 DEF Done

\* What execute() has got as far as, or got past.
Begun(i) == step[i] \in {"running", "waiting_for_input", "completed"}

\* A step gets there only when execute() has come to it and it is ready.
LEMMA BegunFrom ==
    ASSUME TypeOK, CallInv, [Next]_vars, NEW i \in Steps, Begun(i)'
    PROVE  Begun(i) \/ (Ready(i) /\ cursor = i)
<1> USE DEF TypeOK, Begun
<1>1. CASE UNCHANGED vars \/ EndOfPass \/ Execute
    BY <1>1 DEF vars, EndOfPass, Execute, Call
<1>2. ASSUME NEW j \in Steps, PassOver(j) \/ BlockStep(j)
      PROVE  Begun(i)
    BY <1>2 DEF PassOver, BlockStep
<1>3. ASSUME NEW j \in Steps, Start(j)
      PROVE  Begun(i) \/ (Ready(i) /\ cursor = i)
    BY <1>3 DEF Start, At
<1>4. ASSUME NEW j \in Steps, Succeed(j) \/ Pause(j) \/ Fail(j)
      PROVE  Begun(i)
    BY <1>4 DEF Succeed, Pause, Fail, Calling, CallInv
<1>5. ASSUME NEW j \in Steps, CompleteExternally(j) \/ FailExternally(j)
      PROVE  Begun(i)
    BY <1>5 DEF CompleteExternally, CompleteAndCall, FailExternally,
                FailFromOutside, Waiting
<1> QED
    BY <1>1, <1>2, <1>3, <1>4, <1>5 DEF Next, Run

\* A failed workflow stays failed.
LEMMA FailedStays ==
    ASSUME TypeOK, CallInv, EndInv, [Next]_vars, wf = "failed"
    PROVE  wf' = "failed"
<1>1. cursor = 0 /\ \A i \in Steps : i # 0
    BY SizeAssumption DEF EndInv, Steps
<1>2. N + 1 # 0
    BY SizeAssumption
<1> QED
    BY <1>1, <1>2
    DEF Next, Run, EndOfPass, PassOver, BlockStep, Start, Succeed, Pause,
        Fail, At, Calling, Execute, CompleteExternally, FailExternally, vars

LEMMA DependencyStep ==
    TypeOK /\ CallInv /\ EndInv /\ DependenciesFirst /\ [Next]_vars =>
        DependenciesFirst'
<1> SUFFICES ASSUME TypeOK, CallInv, EndInv, DependenciesFirst, [Next]_vars
             PROVE  DependenciesFirst'
    OBVIOUS
<1>1. Steps' = Steps /\ deps' = deps
    BY PlanKept DEF plan, Steps
<1>2. ASSUME wf' # "failed", NEW i \in Steps, Begun(i)',
             NEW k \in DOMAIN deps[i], NEW d, d = deps[i][k]
      PROVE  Done(d)'
  <2>1. wf # "failed"
      BY <1>2, FailedStays
  <2>2. Begun(i) => Done(d)
      BY <1>2, <2>1 DEF DependenciesFirst, Begun, Done
  <2>3. Done(d)
      BY <1>2, <2>2, BegunFrom DEF Ready
  <2> QED
      BY <1>2, <2>3, DoneStays
<1>3. ASSUME wf' # "failed", NEW i \in Steps, Begun(i)',
             NEW k \in DOMAIN deps'[i]
      PROVE  /\ Carriers(deps[i][k])' # {}
             /\ step'[Mapped(deps[i][k])'] = "completed"
    BY <1>1, <1>2, <1>3 DEF Done
<1> QED
    BY <1>1, <1>3 DEF DependenciesFirst, Begun

\* Where nothing is completed nothing becomes ready.
LEMMA ReadyFrom ==
    ASSUME UNCHANGED plan, NEW i \in Steps, Ready(i)',
           \A j \in Steps : step'[j] = "completed" => step[j] = "completed"
    PROVE  Ready(i)
<1>1. deps' = deps
    BY DEF plan
<1>2. ASSUME NEW d, Done(d)' PROVE Done(d)
  <2>1. Carriers(d)' = Carriers(d) /\ Mapped(d)' = Mapped(d)
      BY SamePlan
  <2>2. Carriers(d) # {} /\ step'[Mapped(d)] = "completed"
      BY <1>2, <2>1 DEF Done
  <2>3. Mapped(d) \in Steps
      BY <2>2, MappedCarries
  <2> QED
      BY <2>2, <2>3 DEF Done
<1>3. ASSUME NEW k \in DOMAIN deps[i], NEW d, d = deps[i][k]
      PROVE  Done(d)
  <2>1. Done(d)'
      BY <1>1, <1>3 DEF Ready, Done
  <2> QED
      BY <1>2, <2>1
<1> QED
    BY <1>3 DEF Ready

LEMMA StuckStep ==
    TypeOK /\ CallInv /\ EndInv /\ StuckInv /\ [Next]_vars => StuckInv'
<1> SUFFICES ASSUME TypeOK, CallInv, EndInv, StuckInv, [Next]_vars,
                    cursor' # 0, ~progress',
                    NEW i \in Steps, i < cursor', step'[i] # "completed"
             PROVE  ~Ready(i)'
  <2>1. Steps' = Steps
      BY DEF Steps
  <2> QED
      BY <2>1 DEF StuckInv
<1>0. /\ UNCHANGED plan /\ ~(i < 1) /\ ~(i < 0) /\ i \in Nat
      /\ \A j \in Steps : j \in Nat
    BY PlanKept, SizeAssumption DEF Steps
<1>1. CASE UNCHANGED vars
  <2>1. ~Ready(i)
      BY <1>1 DEF StuckInv, vars
  <2>2. \A j \in Steps : step'[j] = "completed" => step[j] = "completed"
      BY <1>1 DEF vars
  <2> QED
      BY <1>0, <2>1, <2>2, ReadyFrom
<1>2. CASE EndOfPass \/ Execute
    BY <1>0, <1>2 DEF EndOfPass, Execute, Call, Enter, Return
<1>3. ASSUME NEW j \in Steps, PassOver(j) PROVE ~Ready(i)'
  <2>1. cursor = j /\ cursor' = j + 1 /\ ~calling /\ ~progress
      BY <1>3 DEF PassOver, At, Advance
  <2>2. \A h \in Steps : step'[h] = "completed" => step[h] = "completed"
      BY <1>3 DEF PassOver, TypeOK
  <2>3. ~Ready(i)
    <3>1. CASE i = j
      <4>1. step[j] \notin {"running", "failed", "blocked"}
          BY <1>0, <2>1 DEF CallInv, EndInv
      <4>2. step[j] # "completed"
          BY <1>3, <3>1 DEF PassOver, Resumable
      <4>3. Resumable(j)
          BY <4>1, <4>2 DEF Resumable, TypeOK
      <4> QED
          BY <1>3, <3>1, <4>3 DEF PassOver
    <3>2. CASE i # j
      <4>1. i < cursor /\ cursor # 0
          BY <1>0, <2>1, <3>2
      <4>2. step[i] # "completed"
          BY <1>3, <3>2 DEF PassOver, TypeOK
      <4> QED
          BY <2>1, <4>1, <4>2 DEF StuckInv
    <3> QED
        BY <3>1, <3>2
  <2> QED
      BY <1>0, <2>2, <2>3, ReadyFrom
<1>4. ASSUME NEW j \in Steps, Start(j) PROVE ~Ready(i)'
  <2>1. /\ cursor' = cursor /\ progress' = progress /\ cursor = j
      BY <1>4 DEF Start, At, Return
  <2>2. \A h \in Steps : step'[h] = "completed" => step[h] = "completed"
      BY <1>4 DEF Start, TypeOK
  <2>3. step[i] # "completed"
      BY <1>0, <1>4, <2>1 DEF Start, TypeOK
  <2> QED
      BY <1>0, <2>1, <2>2, <2>3, ReadyFrom DEF StuckInv
<1>5. ASSUME NEW j \in Steps,
             BlockStep(j) \/ Succeed(j) \/ Pause(j) \/ Fail(j)
      PROVE  FALSE
    BY <1>5 DEF BlockStep, Succeed, Pause, Fail, Return
<1>6. ASSUME NEW j \in Steps, CompleteExternally(j) \/ FailExternally(j)
      PROVE  FALSE
    BY <1>0, <1>6 DEF CompleteExternally, CompleteAndCall, Enter,
                      FailExternally, FailFromOutside
<1> QED
    BY <1>1, <1>2, <1>3, <1>4, <1>5, <1>6 DEF Next, Run

\* In list order a step is ready once the steps before it are completed.
LEMMA ReadyInOrder ==
    ASSUME InListOrder, NEW i \in Steps,
           \A j \in Steps : j < i => step[j] = "completed"
    PROVE  Ready(i) /\ ~Missing(i)
<1>1. ASSUME NEW k \in DOMAIN deps[i]
      PROVE  Done(deps[i][k]) /\ Carriers(deps[i][k]) # {}
  <2>1. Carriers(deps[i][k]) # {} /\ Mapped(deps[i][k]) < i
      BY DEF InListOrder
  <2>2. Mapped(deps[i][k]) \in Steps
      BY <2>1, MappedCarries
  <2> QED
      BY <2>1, <2>2 DEF Done
<1> QED
    BY <1>1 DEF Ready, Missing

LEMMA PrefixStep ==
    TypeOK /\ CallInv /\ EndInv /\ PrefixInv /\ [Next]_vars => PrefixInv'
<1> SUFFICES ASSUME TypeOK, CallInv, EndInv, PrefixInv, [Next]_vars
             PROVE  PrefixInv'
    OBVIOUS
<1> SUFFICES ASSUME InListOrder PROVE PrefixInv'
  <2>1. InListOrder' <=> InListOrder
      BY PlanKept, SamePlan
  <2> QED
      BY <2>1 DEF PrefixInv
<1>0. /\ Steps' = Steps
      /\ \A j \in Steps : /\ j \in Nat /\ ~(j < 1) /\ ~(j < 0)
                          /\ j < N + 1 /\ j + 1 # 0
    BY SizeAssumption DEF Steps
<1>1. ASSUME NEW j \in Steps, cursor = j
      PROVE  Ready(j) /\ ~Missing(j)
    BY <1>1, ReadyInOrder DEF PrefixInv
<1>2. ASSUME NEW i \in Steps, i < cursor' PROVE step'[i] = "completed"
  <2>1. CASE UNCHANGED vars
      BY <1>2, <2>1 DEF PrefixInv, vars
  <2>2. CASE EndOfPass \/ Execute
      BY <1>0, <1>2, <2>2 DEF EndOfPass, Execute, Call, Enter, Return
  <2>3. ASSUME NEW j \in Steps, PassOver(j) PROVE step'[i] = "completed"
    <3>1. cursor = j /\ cursor' = j + 1 /\ ~calling
        BY <2>3 DEF PassOver, At, Advance
    <3>2. ~Resumable(j) /\ step' = step
        BY <1>1, <2>3, <3>1 DEF PassOver
    <3>3. step[j] = "completed"
        BY <1>0, <3>1, <3>2 DEF Resumable, CallInv, EndInv, TypeOK
    <3> QED
        BY <1>0, <1>2, <3>1, <3>2, <3>3 DEF PrefixInv
  <2>4. ASSUME NEW j \in Steps, Start(j) PROVE step'[i] = "completed"
    <3>1. cursor = j /\ i < j
        BY <1>0, <1>2, <2>4 DEF Start, At, Return
    <3>2. step'[i] = step[i]
        BY <1>0, <2>4, <3>1 DEF Start, TypeOK
    <3> QED
        BY <3>1, <3>2 DEF PrefixInv
  <2>5. ASSUME NEW j \in Steps, Succeed(j) PROVE step'[i] = "completed"
    <3>1. cursor = j /\ cursor' = j + 1
        BY <2>5 DEF Succeed, Calling, Advance
    <3> QED
        BY <1>0, <1>2, <2>5, <3>1 DEF Succeed, PrefixInv, TypeOK
  <2>6. ASSUME NEW j \in Steps, BlockStep(j) \/ Pause(j) \/ Fail(j)
        PROVE  FALSE
      BY <1>0, <1>2, <2>6 DEF BlockStep, Pause, Fail, Return
  <2>7. ASSUME NEW j \in Steps, CompleteExternally(j) \/ FailExternally(j)
        PROVE  FALSE
      BY <1>0, <1>2, <2>7 DEF CompleteExternally, CompleteAndCall, Enter,
                              FailExternally, FailFromOutside
  <2> QED
      BY <2>1, <2>2, <2>3, <2>4, <2>5, <2>6, <2>7 DEF Next, Run
<1>3. ASSUME wf' # "failed", NEW i \in Steps, Begun(i)',
             NEW j \in Steps, j < i
      PROVE  step'[j] = "completed"
  <2>1. wf # "failed"
      BY <1>3, FailedStays
  <2>2. Begun(i) \/ cursor = i
      BY <1>3, BegunFrom
  <2>3. step[j] = "completed"
      BY <1>3, <2>1, <2>2 DEF PrefixInv, Begun
  <2> QED
      BY <1>3, <2>3, CompletedStays
<1>4. ASSUME cursor' = 0, Waiting' # {}
      PROVE  wf' \in {"waiting_for_input", "failed"}
  <2>1. CASE UNCHANGED vars
      BY <1>0, <1>4, <2>1 DEF PrefixInv, Waiting, vars
  <2>2. CASE EndOfPass
    <3>1. \A i \in Steps : step'[i] = "completed"
        BY <1>0, <2>2 DEF EndOfPass, PrefixInv
    <3> QED
        BY <1>0, <1>4, <3>1 DEF Waiting
  <2>3. ASSUME NEW j \in Steps, PassOver(j) \/ Succeed(j) PROVE FALSE
      BY <1>0, <1>4, <2>3 DEF PassOver, At, Succeed, Calling, Advance
  <2>4. ASSUME NEW j \in Steps, BlockStep(j) PROVE FALSE
      BY <1>1, <2>4 DEF BlockStep, At
  <2>5. ASSUME NEW j \in Steps, Start(j) \/ Pause(j) \/ Fail(j)
        PROVE  wf' \in {"waiting_for_input", "failed"}
    <3>1. j # 0
        BY <1>0
    <3> QED
        BY <1>4, <2>5, <3>1 DEF Start, At, Pause, Fail, Return
  <2>6. CASE Execute
      BY <1>4, <2>6 DEF Execute, Call, Enter
  <2>7. ASSUME NEW j \in Steps, CompleteExternally(j) \/ FailExternally(j)
        PROVE  wf' \in {"waiting_for_input", "failed"}
      BY <1>4, <2>7 DEF CompleteExternally, CompleteAndCall, Enter,
                        FailExternally, FailFromOutside
  <2> QED
      BY <2>1, <2>2, <2>3, <2>4, <2>5, <2>6, <2>7 DEF Next, Run
<1> QED
    BY <1>0, <1>2, <1>3, <1>4 DEF PrefixInv, Begun

\* The defect of a plan that BlockedOnlyByBadPlan speaks of.
BadPlan ==
    \E S \in (SUBSET Steps) \ {{}} :
        \A i \in S : \E k \in DOMAIN deps[i] :
            Carriers(deps[i][k]) = {} \/ Mapped(deps[i][k]) \in S

LEMMA BlockedStep ==
    TypeOK /\ EndInv /\ StuckInv /\ BlockedOnlyByBadPlan /\ [Next]_vars =>
        BlockedOnlyByBadPlan'
<1> SUFFICES ASSUME TypeOK, EndInv, StuckInv, BlockedOnlyByBadPlan,
                    [Next]_vars
             PROVE  BlockedOnlyByBadPlan'
    OBVIOUS
<1>0. /\ Steps' = Steps
      /\ \A j \in Steps : /\ j \in Nat /\ j # 0 /\ j + 1 # 0
                          /\ j < N + 1
    BY SizeAssumption DEF Steps
<1> SUFFICES ASSUME cursor' = 0, wf' = "blocked" PROVE BadPlan
  <2>1. /\ deps' = deps
        /\ \A d : Carriers(d)' = Carriers(d) /\ Mapped(d)' = Mapped(d)
      BY PlanKept, SamePlan DEF plan
  <2>2. BadPlan' <=> BadPlan
      BY <1>0, <2>1 DEF BadPlan
  <2> QED
      BY <2>2 DEF BlockedOnlyByBadPlan, BadPlan
<1>1. CASE UNCHANGED vars
    BY <1>1 DEF BlockedOnlyByBadPlan, BadPlan, vars
<1>2. CASE EndOfPass
  <2> DEFINE S == {i \in Steps : step[i] # "completed"}
  <2>1. cursor = N + 1 /\ ~progress /\ S # {} /\ cursor # 0
    <3>1. N + 1 # 0
        BY SizeAssumption
    <3> QED
        BY <1>2, <3>1 DEF EndOfPass, Enter, Return
  <2>2. ASSUME NEW i \in S
        PROVE  \E k \in DOMAIN deps[i] :
                  Carriers(deps[i][k]) = {} \/ Mapped(deps[i][k]) \in S
    <3>1. ~Ready(i)
        BY <1>0, <2>1 DEF StuckInv
    <3>2. PICK k \in DOMAIN deps[i] : ~Done(deps[i][k])
        BY <3>1 DEF Ready
    <3> QED
        BY <3>2, MappedCarries DEF Done
  <2> QED
      BY <2>1, <2>2 DEF BadPlan
<1>3. ASSUME NEW j \in Steps, BlockStep(j) PROVE BadPlan
  <2>1. \E k \in DOMAIN deps[j] : Carriers(deps[j][k]) = {}
      BY <1>3 DEF BlockStep, Missing
  <2>2. {j} \in (SUBSET Steps) \ {{}}
      OBVIOUS
  <2> QED
      BY <2>1, <2>2 DEF BadPlan
<1>4. ASSUME NEW j \in Steps, PassOver(j) \/ Succeed(j) PROVE FALSE
    BY <1>0, <1>4 DEF PassOver, At, Succeed, Calling, Advance
<1>5. ASSUME NEW j \in Steps, Start(j) \/ Pause(j) \/ Fail(j) PROVE FALSE
    BY <1>0, <1>5 DEF Start, At, Pause, Fail, Return
<1>6. CASE Execute
    BY <1>6 DEF Execute, Call, Enter
<1>7. ASSUME NEW j \in Steps, CompleteExternally(j) \/ FailExternally(j)
      PROVE  FALSE
    BY <1>7 DEF CompleteExternally, CompleteAndCall, Enter,
                FailExternally, FailFromOutside
<1> QED
    BY <1>1, <1>2, <1>3, <1>4, <1>5, <1>6, <1>7 DEF Next, Run

-----------------------------------------------------------------------------
(* The theorems.                                                           *)

LEMMA InitInv == Init => Inv
<1> SUFFICES ASSUME Init PROVE Inv
    OBVIOUS
<1>1. /\ cursor = 0 /\ ~calling /\ wf = "planned"
      /\ \A i \in Steps : step[i] = "pending" /\ ~(i < 0)
    BY SizeAssumption DEF Init, Steps
<1>2. Waiting = {}
    BY <1>1 DEF Waiting
<1> QED
    BY <1>1, <1>2, InitTyped
    DEF Inv, CallInv, EndInv, PauseInv, StuckInv, PrefixInv,
        DependenciesFirst, BlockedOnlyByBadPlan

LEMMA NextInv == Inv /\ [Next]_vars => Inv'
BY TypeStep, CallStep, EndStep, PauseStep, StuckStep, PrefixStep,
   DependencyStep, BlockedStep DEF Inv

\* The inductive invariant: where execute() is, what it has left behind, and
\* what every started step rests on.
THEOREM Invariance == Spec => []Inv
BY InitInv, NextInv, PTL DEF Spec

\* The workflow and the place execute() is at keep their types.
THEOREM TypeCorrect == Spec => []TypeOK
<1>1. Inv => TypeOK
    BY DEF Inv
<1> QED
    BY <1>1, Invariance, PTL

\* For plans of any size, defective ones included, nothing is started, waits or
\* completes but on top of completed dependencies.
THEOREM DependenciesFirstHolds == Spec => []DependenciesFirst
<1>1. Inv => DependenciesFirst
    BY DEF Inv
<1> QED
    BY <1>1, Invariance, PTL

\* In list order everything before the step that is asked about is completed.
LEMMA InvOneQuestion == Inv => OneQuestion
<1>1. ASSUME Inv, InListOrder, wf # "failed"
      PROVE  Cardinality({i \in Steps :
                 step[i] \in {"running", "waiting_for_input"}}) <= 1
  <2> DEFINE Q == {i \in Steps : step[i] \in {"running", "waiting_for_input"}}
  <2>1. ASSUME NEW i \in Q, NEW j \in Q PROVE i = j
    <3>1. ~(i < j) /\ ~(j < i)
        BY <1>1 DEF Inv, PrefixInv
    <3>2. i \in Nat /\ j \in Nat
        BY DEF Steps
    <3> QED
        BY <3>1, <3>2
  <2>2. CASE Q = {}
      BY <2>2, FS_EmptySet
  <2>3. CASE Q # {}
    <3>1. PICK i \in Q : TRUE
        BY <2>3
    <3>2. Q = {i}
        BY <2>1, <3>1
    <3>3. Cardinality(Q) = 1
        BY <3>2, FS_Singleton
    <3> QED
        BY <3>3
  <2> QED
      BY <2>2, <2>3
<1> QED
    BY <1>1 DEF OneQuestion

\* A plan in list order asks one question at a time.
THEOREM OneQuestionHolds == Spec => []OneQuestion
BY InvOneQuestion, Invariance, PTL

LEMMA InvNothingLeftHanging == Inv => NothingLeftHanging
<1>1. ASSUME Inv, cursor = 0
      PROVE  /\ \A i \in Steps : step[i] # "running"
             /\ wf = "waiting_for_input" => Waiting # {}
             /\ InListOrder /\ Waiting # {} =>
                   wf \in {"waiting_for_input", "failed"}
  <2>1. \A i \in Steps : i # 0
      BY SizeAssumption DEF Steps
  <2> QED
      BY <1>1, <2>1 DEF Inv, CallInv, PauseInv, PrefixInv
<1> QED
    BY <1>1 DEF NothingLeftHanging

\* Between the calls nothing runs, what is paused has its question, and what
\* was given up has none, if the plan is in list order.
THEOREM NothingLeftHangingHolds == Spec => []NothingLeftHanging
BY InvNothingLeftHanging, Invariance, PTL

\* execute() gives up on a plan only if the plan has a cycle or an unknown id.
THEOREM BlockedOnlyByBadPlanHolds == Spec => []BlockedOnlyByBadPlan
<1>1. Inv => BlockedOnlyByBadPlan
    BY DEF Inv
<1> QED
    BY <1>1, Invariance, PTL

-----------------------------------------------------------------------------
(* Termination.  That execute() returns is a matter of fairness; that it   *)
(* cannot go round for ever is not.                                        *)

Left == {i \in Steps : step[i] # "completed"}

\* The passes execute() may still begin, and what remains of this one.
Rounds == Cardinality(Left) + (IF progress THEN 1 ELSE 0)

Rest == 2 * (N + 1 - cursor) - (IF calling THEN 1 ELSE 0)

Descends == Rounds' < Rounds \/ (Rounds' = Rounds /\ Rest' < Rest)

LEMMA LeftFinite == IsFiniteSet(Left) /\ Cardinality(Left) \in Nat
<1>1. IsFiniteSet(Steps)
    BY SizeAssumption, FS_Interval DEF Steps
<1>2. IsFiniteSet(Left)
    BY <1>1, FS_Subset DEF Left
<1> QED
    BY <1>2, FS_CardinalityType

LEMMA VariantTyped ==
    TypeOK /\ (calling => cursor \in Steps) => Rounds \in Nat /\ Rest \in Nat
<1> SUFFICES ASSUME TypeOK, calling => cursor \in Steps
             PROVE  Rounds \in Nat /\ Rest \in Nat
    OBVIOUS
<1>1. Rounds \in Nat
    BY LeftFinite DEF Rounds
<1>2. cursor \in 0 .. N + 1 /\ (calling => cursor <= N)
    BY DEF TypeOK, Steps
<1>3. Rest \in Nat
    BY <1>2, SizeAssumption DEF Rest
<1> QED
    BY <1>1, <1>3

\* Every step of execute() but the one that returns brings its end nearer: a
\* handler that comes back with a result takes a step off the list, and another
\* pass is begun only after that.
LEMMA RunDescends ==
    ASSUME TypeOK, calling => cursor \in Steps /\ step[cursor] = "running",
           Run, cursor' # 0
    PROVE  Descends
<1>0. /\ N \in Nat /\ cursor \in 0 .. N + 1 /\ Steps' = Steps
      /\ \A i \in Steps : i \in Nat /\ i <= N
      /\ Cardinality(Left) \in Nat
    BY SizeAssumption, LeftFinite DEF TypeOK, Steps
<1>1. CASE EndOfPass
  <2>1. progress /\ ~progress' /\ Left' = Left
      BY <1>0, <1>1 DEF EndOfPass, Enter, Return, Left
  <2> QED
      BY <1>0, <2>1 DEF Descends, Rounds
<1>2. ASSUME NEW i \in Steps, PassOver(i)
      PROVE  Descends
  <2>1. /\ cursor' = cursor + 1 /\ ~calling /\ ~calling'
        /\ progress' = progress
      BY <1>2 DEF PassOver, At, Advance
  <2>2. Left' = Left
      BY <1>0, <1>2 DEF PassOver, Resumable, Left, TypeOK
  <2>3. Rounds' = Rounds
      BY <2>1, <2>2 DEF Rounds
  <2>4. Rest' < Rest
      BY <1>0, <2>1 DEF Rest
  <2> QED
      BY <2>3, <2>4 DEF Descends
<1>3. ASSUME NEW i \in Steps, Start(i)
      PROVE  Descends
  <2>1. /\ cursor' = cursor /\ ~calling /\ calling'
        /\ progress' = progress
        /\ step' = [step EXCEPT ![i] = "running"] /\ step[i] # "completed"
      BY <1>3 DEF Start, At, Return, Resumable
  <2>2. Left' = Left
      BY <1>0, <2>1 DEF Left, TypeOK
  <2>3. Rounds' = Rounds
      BY <2>1, <2>2 DEF Rounds
  <2>4. Rest' < Rest
      BY <1>0, <2>1 DEF Rest
  <2> QED
      BY <2>3, <2>4 DEF Descends
<1>4. ASSUME NEW i \in Steps, Succeed(i)
      PROVE  Descends
  <2>1. /\ cursor' = cursor + 1 /\ calling /\ ~calling' /\ progress'
        /\ step' = [step EXCEPT ![i] = "completed"] /\ step[i] = "running"
      BY <1>4 DEF Succeed, Calling, Advance
  <2>2. Left' = Left \ {i} /\ i \in Left
      BY <1>0, <2>1 DEF Left, TypeOK
  <2>3. Cardinality(Left') = Cardinality(Left) - 1
      BY <2>2, LeftFinite, FS_RemoveElement
  <2>4. Rounds' = Cardinality(Left)
      BY <1>0, <2>1, <2>3 DEF Rounds
  <2>5. Rest' < Rest
      BY <1>0, <2>1 DEF Rest
  <2> QED
      BY <1>0, <2>4, <2>5 DEF Descends, Rounds
<1>5. ASSUME NEW i \in Steps, BlockStep(i) \/ Pause(i) \/ Fail(i)
      PROVE  FALSE
    BY <1>5 DEF BlockStep, Pause, Fail, Return
<1> QED
    BY <1>1, <1>2, <1>3, <1>4, <1>5 DEF Run

\* A call of execute() is finite, whatever the plan and the handlers do: of two
\* natural numbers in lexicographic order each step within the call makes the
\* pair smaller.  With a handler that always returns, that is ExecuteReturns.
THEOREM ExecuteDescends ==
    Spec => /\ [](Rounds \in Nat /\ Rest \in Nat)
            /\ [][cursor # 0 /\ cursor' # 0 => Descends]_vars
<1>1. Inv => Rounds \in Nat /\ Rest \in Nat
    BY VariantTyped DEF Inv, CallInv
<1>2. ASSUME Inv, Next, cursor # 0, cursor' # 0
      PROVE  Descends
  <2>1. Run
      BY <1>2 DEF Next, Execute, Call, CompleteExternally, CompleteAndCall,
                  FailExternally, FailFromOutside
  <2> QED
      BY <1>2, <2>1, RunDescends DEF Inv, CallInv
<1>3. Inv /\ [Next]_vars => [cursor # 0 /\ cursor' # 0 => Descends]_vars
    BY <1>2
<1> QED
    BY <1>1, <1>3, Invariance, PTL DEF Spec

=============================================================================
