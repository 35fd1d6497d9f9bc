------------------------ MODULE ApprovalStoreProofs ------------------------
(***************************************************************************)
(* Theorems about ApprovalStore.  By SerializedImplementsStore             *)
(* (ApprovalFileProofs) they are theorems about the file as well, for as   *)
(* long as no operation begins within another one.                         *)
(***************************************************************************)
EXTENDS ApprovalStore, TLAPS

Statuses == {"absent", "pending", "approved", "rejected", "consumed"}

StoreTypes ==
    /\ records \in [Actions -> [status : Statuses,
                                session : Sessions \cup {"none"}]]
    /\ answers \in [Actions -> SUBSET {"approved", "rejected"}]
    /\ due \subseteq Actions
    /\ runs \in [Actions -> {0, 1}]

\* a has run or is about to.
Served(a) == a \in due \/ runs[a] = 1

\* What is recorded of a agrees with what was answered; what was served was
\* approved and is not on offer again, even if its record is lost.
RecordInv(a) ==
    /\ a \in due => runs[a] = 0
    /\ records[a].status = "pending" => answers[a] = {}
    /\ records[a].status = "approved" =>
          answers[a] = {"approved"} /\ ~Served(a)
    /\ records[a].status = "consumed" => answers[a] = {"approved"}
    /\ Served(a) => answers[a] = {"approved"}

StoreInv == StoreTypes /\ \A a \in Actions : RecordInv(a)

-----------------------------------------------------------------------------
LEMMA StoreInvInitially == StoreInit => StoreInv
BY DEF StoreInit, StoreInv, StoreTypes, RecordInv, Served, Absent, Statuses

LEMMA ProposedInv ==
    ASSUME StoreInv, NEW a \in Actions, NEW s \in Sessions, BeProposed(a, s)
    PROVE  StoreInv'
<1>1. StoreTypes'
    BY DEF StoreInv, StoreTypes, BeProposed, Statuses
<1>2. ASSUME NEW b \in Actions PROVE RecordInv(b)'
  <2>1. CASE b = a
    <3>1. records'[a].status = "pending" /\ answers'[a] = {}
        BY DEF StoreInv, StoreTypes, BeProposed
    <3>2. ~Served(a)'
        BY DEF StoreInv, RecordInv, BeProposed, Served
    <3> QED
        BY <2>1, <3>1, <3>2 DEF RecordInv, Served
  <2>2. CASE b # a
      BY <2>2 DEF StoreInv, StoreTypes, RecordInv, BeProposed, Served
  <2> QED
      BY <2>1, <2>2
<1> QED
    BY <1>1, <1>2 DEF StoreInv

LEMMA DecidedInv ==
    ASSUME StoreInv, NEW a \in Actions, NEW s \in Sessions,
           NEW answer \in {"approved", "rejected"}, BeDecided(a, s, answer)
    PROVE  StoreInv'
<1>1. records[a].status = "pending" /\ answers[a] = {}
    BY DEF BeDecided, StoreInv, RecordInv
<1>2. records'[a].status = answer /\ answers'[a] = {answer}
    BY <1>1 DEF BeDecided, StoreInv, StoreTypes
<1>3. StoreTypes'
    BY DEF StoreInv, StoreTypes, BeDecided, Statuses
<1>4. ASSUME NEW b \in Actions PROVE RecordInv(b)'
  <2>1. CASE b = a
    <3>1. ~Served(a)'
        BY <1>1 DEF BeDecided, StoreInv, RecordInv, Served
    <3> QED
        BY <1>2, <2>1, <3>1 DEF RecordInv, Served
  <2>2. CASE b # a
      BY <2>2 DEF StoreInv, StoreTypes, RecordInv, BeDecided, Served
  <2> QED
      BY <2>1, <2>2
<1> QED
    BY <1>3, <1>4 DEF StoreInv

LEMMA ConsumedInv ==
    ASSUME StoreInv, NEW a \in Actions, NEW s \in Sessions, BeConsumed(a, s)
    PROVE  StoreInv'
<1>1. records[a].status = "approved" /\ answers[a] = {"approved"}
      /\ ~Served(a)
    BY DEF BeConsumed, StoreInv, RecordInv
<1>2. records'[a].status = "consumed"
    BY DEF BeConsumed, StoreInv, StoreTypes
<1>3. runs[a] = 0
    BY <1>1 DEF StoreInv, StoreTypes, Served
<1>4. StoreTypes'
    BY DEF StoreInv, StoreTypes, BeConsumed, Statuses
<1>5. ASSUME NEW b \in Actions PROVE RecordInv(b)'
  <2>1. CASE b = a
      BY <1>1, <1>2, <1>3, <2>1 DEF BeConsumed, RecordInv
  <2>2. CASE b # a
      BY <2>2 DEF StoreInv, StoreTypes, RecordInv, BeConsumed, Served
  <2> QED
      BY <2>1, <2>2
<1> QED
    BY <1>4, <1>5 DEF StoreInv

LEMMA RunInv ==
    ASSUME StoreInv, NEW a \in Actions, Run(a)
    PROVE  StoreInv'
<1>1. runs[a] = 0 /\ Served(a)
    BY DEF Run, StoreInv, RecordInv, Served
<1>2. runs'[a] = 1 /\ \A b \in Actions \ {a} : runs'[b] = runs[b]
    BY <1>1 DEF Run, StoreInv, StoreTypes
<1>3. StoreTypes'
    BY <1>1 DEF StoreInv, StoreTypes, Run
<1>4. ASSUME NEW b \in Actions PROVE RecordInv(b)'
    BY <1>1, <1>2 DEF StoreInv, RecordInv, Run, Served
<1> QED
    BY <1>3, <1>4 DEF StoreInv

LEMMA FailureInv ==
    ASSUME StoreInv, Lose \/ Restart
    PROVE  StoreInv'
<1>1. due' \subseteq due /\ UNCHANGED <<answers, runs>>
    BY DEF Lose, Restart
<1>2. StoreTypes'
    BY <1>1 DEF StoreInv, StoreTypes, Lose, Restart, Absent, Statuses
<1>3. ASSUME NEW b \in Actions PROVE RecordInv(b)'
  <2>1. records'[b] = records[b] \/ records'[b].status = "absent"
      BY DEF Lose, Restart, Absent
  <2> QED
      BY <1>1, <2>1 DEF StoreInv, RecordInv, Served
<1> QED
    BY <1>2, <1>3 DEF StoreInv

LEMMA StoreInvStep == StoreInv /\ [StoreNext]_storeVars => StoreInv'
<1> SUFFICES ASSUME StoreInv, [StoreNext]_storeVars PROVE StoreInv'
    OBVIOUS
<1>1. CASE UNCHANGED storeVars
    BY <1>1 DEF storeVars, StoreInv, StoreTypes, RecordInv, Served
<1>2. CASE StoreNext
    BY <1>2, ProposedInv, DecidedInv, ConsumedInv, RunInv, FailureInv
    DEF StoreNext
<1> QED
    BY <1>1, <1>2

\* The inductive invariant of the atomic store.
THEOREM StoreInvariance == StoreSpec => []StoreInv
BY StoreInvInitially, StoreInvStep, PTL DEF StoreSpec

\* An action is worth one run at most, however often the list was lost.
THEOREM RunOnceHolds == StoreSpec => []RunOnce
<1>1. ASSUME StoreInv, NEW a \in Actions
      PROVE  runs[a] + (IF a \in due THEN 1 ELSE 0) <= 1
  <2>1. runs[a] \in {0, 1} /\ (a \in due => runs[a] = 0)
      BY <1>1 DEF StoreInv, StoreTypes, RecordInv
  <2> QED
      BY <2>1
<1>2. StoreInv => RunOnce
    BY <1>1 DEF RunOnce
<1> QED
    BY <1>2, StoreInvariance, PTL

\* No later step adds to the answer that was given for an action.
THEOREM AnsweredOnceHolds == StoreSpec => AnsweredOnce
<1>1. ASSUME StoreInv, [StoreNext]_storeVars, NEW a \in Actions,
             answers[a] # {}
      PROVE  answers'[a] = answers[a]
  <2>1. ASSUME NEW b \in Actions, NEW s, NEW answer, BeDecided(b, s, answer)
        PROVE  answers'[a] = answers[a]
    <3>1. a # b
        BY <1>1, <2>1 DEF BeDecided, StoreInv, RecordInv
    <3> QED
        BY <1>1, <2>1, <3>1 DEF BeDecided, StoreInv, StoreTypes
  <2> QED
      BY <1>1, <2>1
      DEF StoreNext, BeProposed, BeConsumed, Run, Lose, Restart, storeVars
<1>2. StoreInv /\ [StoreNext]_storeVars =>
          [\A a \in Actions : answers[a] # {} =>
              answers'[a] = answers[a]]_storeVars
    BY <1>1
<1> QED
    BY <1>2, StoreInvariance, PTL DEF StoreSpec, AnsweredOnce

\* What the user was told is rejected does not run.
THEOREM RejectedNeverRunsHolds == StoreSpec => RejectedNeverRuns
<1>1. ASSUME StoreInv, [StoreNext]_storeVars, NEW a \in Actions,
             "rejected" \in answers[a]
      PROVE  runs'[a] = runs[a]
  <2>1. a \notin due
      BY <1>1 DEF StoreInv, RecordInv, Served
  <2>2. ASSUME NEW b \in Actions, Run(b) PROVE runs'[a] = runs[a]
      BY <1>1, <2>1, <2>2 DEF Run, StoreInv, StoreTypes
  <2> QED
      BY <1>1, <2>2
      DEF StoreNext, BeProposed, BeDecided, BeConsumed, Lose, Restart,
          storeVars
<1>2. StoreInv /\ [StoreNext]_storeVars =>
          [\A a \in Actions : "rejected" \in answers[a] =>
              runs'[a] = runs[a]]_storeVars
    BY <1>1
<1> QED
    BY <1>2, StoreInvariance, PTL DEF StoreSpec, RejectedNeverRuns

=============================================================================
