------------------------- MODULE ApprovalGateProofs -------------------------
(***************************************************************************)
(* Theorems about ApprovalGate, for any sets of actions, sessions,         *)
(* capabilities and threads, any expiry and any duration.                  *)
(***************************************************************************)
EXTENDS ApprovalGate, TLAPS

-----------------------------------------------------------------------------
(* Type correctness.                                                       *)

\* A call of decide() by a request keeps the types.
LEMMA CallDecideTypes ==
    ASSUME TypeOK, NEW t \in Threads, pc[t] # "idle",
           NEW approved \in BOOLEAN, NEW next \in Pc,
           CallDecide(t, approved, next)
    PROVE  TypeOK'
<1> DEFINE a == req[t].action
           s == req[t].session
<1>1. /\ a \in Actions
      /\ s \in SessionIds
      /\ req[t].approved \in BOOLEAN
      /\ req[t] \in Request
    BY DEF TypeOK, Request
<1>2. StatusAfterDecide(a, s, approved) \in Status
    BY <1>1 DEF TypeOK, StatusAfterDecide, Status
<1>3. status[a] = "unknown" => StatusAfterDecide(a, s, approved) = "unknown"
    BY <1>1 DEF StatusAfterDecide, DecideAccepts
<1>4. /\ status' \in [Actions -> Status]
      /\ \A b \in Actions : status'[b] # "unknown" => record'[b] \in Record
    BY <1>1, <1>2, <1>3 DEF TypeOK, CallDecide
<1>5. verdict' \in [Actions -> Verdicts]
    BY <1>1 DEF TypeOK, CallDecide, Verdicts
<1>6. /\ pc' \in [Threads -> Pc]
      /\ req' \in [Threads -> Request \cup {NoRequest}]
      /\ \A u \in Threads : pc'[u] # "idle" => req'[u] \in Request
    BY DEF TypeOK, CallDecide, Goto, Pc
<1>7. UNCHANGED <<loggedIn, granted, now, record, runs, orphans>>
    BY DEF CallDecide, envVars
<1> QED
    BY <1>4, <1>5, <1>6, <1>7 DEF TypeOK

\* Every state of the gate is well formed (approval_store.py:150-168): the
\* state is of the shape the code's records, statuses and requests have.
THEOREM TypeCorrect == Spec => []TypeOK
<1>1. Init => TypeOK
    BY ContextAssumption
    DEF Init, TypeOK, Status, Pc, Verdicts, NoVerdict, SessionIds, Capabilities
<1>2. TypeOK /\ [Next]_vars => TypeOK'
  <2> SUFFICES ASSUME TypeOK, [Next]_vars
               PROVE  TypeOK'
      OBVIOUS
  <2>1. CASE Tick
      BY <2>1 DEF Tick, TypeOK, storeVars
  <2>2. CASE SetGrants
      BY <2>2 DEF SetGrants, TypeOK, storeVars
  <2>3. CASE Crash
      BY <2>3 DEF Crash, TypeOK, storeVars, envVars, Pc
  <2>4. ASSUME NEW a \in Actions, NEW c \in Capabilities,
               NEW s \in SessionIds, Propose(a, c, s)
        PROVE  TypeOK'
    <3> DEFINE args == IF loggedIn /\ c \in Legacy THEN "principal_object"
                                                   ELSE "json"
               new  == [session |-> s, capability |-> c,
                        args |-> Persisted(args), fingerprint |-> args,
                        created |-> now]
    <3>1. new \in Record
        BY DEF TypeOK, Record, Persisted, Arguments
    <3>2. /\ status' = [status EXCEPT ![a] = "pending"]
          /\ record' = [record EXCEPT ![a] = new]
          /\ UNCHANGED <<loggedIn, granted, now, pc, req, verdict, runs,
                         orphans>>
        BY <2>4 DEF Propose, envVars
    <3> HIDE DEF new
    <3> QED
        BY <3>1, <3>2 DEF TypeOK, Status
  <2>5. ASSUME NEW t \in Threads, NEW request \in Request, Serve(t, request)
        PROVE  TypeOK'
      BY <2>5 DEF Serve, TypeOK, envVars, storeVars, Pc
  <2>6. ASSUME NEW t \in Threads, NEW s \in SessionIds,
               NEW approved \in BOOLEAN, NEW a \in Actions,
               PressButton(t, a, s, approved)
        PROVE  TypeOK'
      BY <2>5, <2>6 DEF PressButton, Request
  <2>7. ASSUME NEW t \in Threads, NEW s \in SessionIds,
               NEW approved \in BOOLEAN, SayYesOrNo(t, s, approved)
        PROVE  TypeOK'
      BY <2>5, <2>7 DEF SayYesOrNo, Request, Pending
  <2>8. ASSUME NEW t \in Threads, Decide(t)
        PROVE  TypeOK'
    <3>1. req[t].approved \in BOOLEAN
        BY <2>8 DEF Decide, TypeOK, Request
    <3> QED
        BY <2>8, <3>1, CallDecideTypes DEF Decide, Pc
  <2>9. ASSUME NEW t \in Threads, Redecide(t)
        PROVE  TypeOK'
      BY <2>9, CallDecideTypes DEF Redecide, Pc
  <2>10. ASSUME NEW t \in Threads, Consume(t)
         PROVE  TypeOK'
    <3> DEFINE a == req[t].action
               s == req[t].session
    <3>1. a \in Actions
        BY <2>10 DEF Consume, TypeOK, Request
    <3>2. /\ StatusAfterConsume(a, s) \in Status
          /\ status[a] = "unknown" => StatusAfterConsume(a, s) = "unknown"
        BY <3>1 DEF TypeOK, StatusAfterConsume, ConsumeAccepts, Status
    <3>3. /\ pc' \in [Threads -> Pc]
          /\ req' \in [Threads -> Request \cup {NoRequest}]
          /\ \A u \in Threads : pc'[u] # "idle" => req'[u] \in Request
        BY <2>10 DEF TypeOK, Consume, Goto, Pc
    <3> QED
        BY <2>10, <3>1, <3>2, <3>3 DEF Consume, TypeOK, envVars
  <2>11. ASSUME NEW t \in Threads, Dispatch(t)
         PROVE  TypeOK'
    <3>1. req[t].action \in Actions
        BY <2>11 DEF Dispatch, TypeOK, Request
    <3> QED
        BY <2>11, <3>1 DEF Dispatch, TypeOK, Goto, Pc, envVars, storeVars
  <2>12. CASE UNCHANGED vars
      BY <2>12 DEF TypeOK, vars
  <2> QED
      BY <2>1, <2>2, <2>3, <2>4, <2>6, <2>7, <2>8, <2>9, <2>10, <2>11, <2>12
      DEF Next, Work
<1> QED
    BY <1>1, <1>2, PTL DEF Spec

-----------------------------------------------------------------------------
(* The inductive invariant.                                                *)

\* A call of decide() keeps the agreement: it changes a status only from
\* pending, and records the user's answer with it.
LEMMA CallDecideGateInv ==
    ASSUME TypeOK, GateInv, NEW t \in Threads, pc[t] \in {"decide", "redecide"},
           NEW next \in {"idle", "redecide", "consume"},
           next = "redecide" => req[t].approved,
           CallDecide(t, req[t].approved, next)
    PROVE  GateInv'
<1> DEFINE a == req[t].action
           s == req[t].session
           approved == req[t].approved
           after == StatusAfterDecide(a, s, approved)
<1>1. /\ a \in Actions
      /\ approved \in BOOLEAN
    BY DEF TypeOK, Request
<1>2. /\ status' = [status EXCEPT ![a] = after]
      /\ status \in [Actions -> Status]
      /\ UNCHANGED <<record, runs>>
    BY DEF CallDecide, TypeOK
<1>3. /\ DecideAccepts(a, s) =>
            /\ status[a] = "pending"
            /\ record[a].session = s
            /\ after = IF approved THEN "approved" ELSE "rejected"
            /\ verdict'[a] = [answer |-> IF approved THEN "approved"
                                                    ELSE "rejected",
                              session |-> s]
      /\ ~DecideAccepts(a, s) =>
            /\ after = status[a] \/ (status[a] = "pending" /\ after = "expired")
            /\ verdict'[a] = verdict[a]
      /\ \A b \in Actions \ {a} : verdict'[b] = verdict[b]
    BY <1>1 DEF TypeOK, CallDecide, StatusAfterDecide, DecideAccepts
<1>4. \A b \in Actions : StatusAgrees(b)'
  <2> SUFFICES ASSUME NEW b \in Actions
               PROVE  StatusAgrees(b)'
      OBVIOUS
  <2>1. StatusAgrees(b)
      BY DEF GateInv
  <2>2. CASE b # a
      BY <1>1, <1>2, <1>3, <2>1, <2>2 DEF StatusAgrees
  <2>3. CASE b = a
    <3> HIDE DEF a, s, approved, after
    <3>1. CASE DecideAccepts(a, s)
        BY <1>1, <1>2, <1>3, <2>1, <2>3, <3>1 DEF StatusAgrees
    <3>2. CASE ~DecideAccepts(a, s)
        BY <1>1, <1>2, <1>3, <2>1, <2>3, <3>2 DEF StatusAgrees
    <3> QED
        BY <3>1, <3>2
  <2> QED
      BY <2>2, <2>3
<1>5. /\ pc'[t] \in {"idle", "redecide", "consume"}
      /\ pc'[t] = "redecide" => req'[t] = req[t] /\ req[t].approved
      /\ \A u \in Threads \ {t} : pc'[u] = pc[u] /\ req'[u] = req[u]
    BY DEF TypeOK, CallDecide, Goto
<1>6. \A u \in Threads : DispatchAlone(u)'
  <2> SUFFICES ASSUME NEW u \in Threads, pc'[u] = "dispatch"
               PROVE  DispatchAlone(u)'
      BY DEF DispatchAlone
  <2>1. /\ u # t
        /\ pc[u] = "dispatch"
        /\ req'[u] = req[u]
        /\ req[u].action \in Actions
      BY <1>5 DEF TypeOK, Request
  <2>2. /\ status[req[u].action] = "consumed"
        /\ runs[req[u].action] = 0
        /\ \A v \in Threads : Dispatching(v, req[u].action) => v = u
      BY <2>1 DEF GateInv, DispatchAlone
  <2>3. status'[req[u].action] = "consumed"
      BY <1>1, <1>2, <1>3, <2>1, <2>2
  <2>4. \A v \in Threads : Dispatching(v, req[u].action)' => v = u
      BY <1>5, <2>1, <2>2 DEF Dispatching
  <2> QED
      BY <1>2, <2>1, <2>2, <2>3, <2>4 DEF DispatchAlone
<1> QED
    BY <1>4, <1>5, <1>6 DEF GateInv

\* Steps that leave the store and the runs alone and bring no thread to the
\* dispatch or to the second decide() keep the invariant.
LEMMA QuietGateInv ==
    ASSUME GateInv, UNCHANGED <<status, record, verdict, runs>>,
           \A u \in Threads :
              \/ pc'[u] = pc[u] /\ req'[u] = req[u]
              \/ pc'[u] \in {"idle", "decide"}
    PROVE  GateInv'
<1>1. \A a \in Actions : StatusAgrees(a)'
    BY DEF GateInv, StatusAgrees
<1>2. \A t \in Threads : DispatchAlone(t)'
    BY DEF GateInv, DispatchAlone, Dispatching
<1>3. \A t \in Threads : pc'[t] = "redecide" => req'[t].approved
    BY DEF GateInv
<1> QED
    BY <1>1, <1>2, <1>3 DEF GateInv

THEOREM GateInvariant == Spec => []GateInv
<1>1. Init => GateInv
    BY DEF Init, GateInv, StatusAgrees, DispatchAlone, NoVerdict
<1>2. TypeOK /\ GateInv /\ [Next]_vars => GateInv'
  <2> SUFFICES ASSUME TypeOK, GateInv, [Next]_vars
               PROVE  GateInv'
      OBVIOUS
  <2>1. CASE Tick
      BY <2>1, QuietGateInv DEF Tick, storeVars
  <2>2. CASE SetGrants
      BY <2>2, QuietGateInv DEF SetGrants, storeVars
  <2>3. CASE Crash
      BY <2>3, QuietGateInv DEF Crash, storeVars
  <2>4. ASSUME NEW a \in Actions, NEW c \in Capabilities,
               NEW s \in SessionIds, Propose(a, c, s)
        PROVE  GateInv'
    <3>1. /\ status[a] = "unknown"
          /\ status'[a] = "pending"
          /\ \A b \in Actions \ {a} : status'[b] = status[b]
                                     /\ record'[b] = record[b]
          /\ UNCHANGED <<pc, req, verdict, runs>>
        BY <2>4 DEF Propose, TypeOK
    <3>2. \A b \in Actions : StatusAgrees(b)'
        BY <3>1 DEF GateInv, StatusAgrees
    <3>3. \A t \in Threads : DispatchAlone(t)'
      <4> SUFFICES ASSUME NEW t \in Threads, pc[t] = "dispatch"
                   PROVE  DispatchAlone(t)'
          BY <3>1 DEF DispatchAlone
      <4>1. req[t].action \in Actions \ {a}
          BY <3>1 DEF TypeOK, Request, GateInv, DispatchAlone
      <4> QED
          BY <3>1, <4>1 DEF GateInv, DispatchAlone, Dispatching
    <3> QED
        BY <3>1, <3>2, <3>3 DEF GateInv
  <2>5. ASSUME NEW t \in Threads, NEW request, Serve(t, request)
        PROVE  GateInv'
    <3>1. \A u \in Threads :
             \/ pc'[u] = pc[u] /\ req'[u] = req[u]
             \/ pc'[u] \in {"idle", "decide"}
        BY <2>5 DEF Serve, TypeOK
    <3> QED
        BY <2>5, <3>1, QuietGateInv DEF Serve, storeVars
  <2>6. ASSUME NEW t \in Threads, NEW s \in SessionIds,
               NEW approved \in BOOLEAN, NEW a \in Actions,
               PressButton(t, a, s, approved)
        PROVE  GateInv'
      BY <2>5, <2>6 DEF PressButton
  <2>7. ASSUME NEW t \in Threads, NEW s \in SessionIds,
               NEW approved \in BOOLEAN, SayYesOrNo(t, s, approved)
        PROVE  GateInv'
      BY <2>5, <2>7 DEF SayYesOrNo
  <2>8. ASSUME NEW t \in Threads, Decide(t)
        PROVE  GateInv'
      BY <2>8, CallDecideGateInv DEF Decide
  <2>9. ASSUME NEW t \in Threads, Redecide(t)
        PROVE  GateInv'
    <3>1. req[t].approved = TRUE
        BY <2>9 DEF Redecide, GateInv, TypeOK, Request
    <3> QED
        BY <2>9, <3>1, CallDecideGateInv DEF Redecide
  <2>10. ASSUME NEW t \in Threads, Consume(t)
         PROVE  GateInv'
    <3> DEFINE a == req[t].action
               s == req[t].session
    <3>1. /\ a \in Actions
          /\ pc[t] = "consume"
          /\ UNCHANGED <<record, verdict, runs>>
        BY <2>10 DEF Consume, TypeOK, Request
    <3>2. /\ ConsumeAccepts(a, s) =>
                /\ status[a] = "approved"
                /\ status'[a] = "consumed"
                /\ pc'[t] = "dispatch"
                /\ req'[t] = req[t]
          /\ ~ConsumeAccepts(a, s) =>
                /\ status'[a] = status[a]
                   \/ (status[a] = "approved" /\ status'[a] = "expired")
                /\ pc'[t] = "idle"
          /\ \A b \in Actions \ {a} : status'[b] = status[b]
          /\ \A u \in Threads \ {t} : pc'[u] = pc[u] /\ req'[u] = req[u]
        BY <2>10, <3>1
        DEF Consume, TypeOK, StatusAfterConsume, ConsumeAccepts, Goto
    <3> HIDE DEF a, s
    <3>3. \A b \in Actions : StatusAgrees(b)'
        BY <3>1, <3>2 DEF GateInv, StatusAgrees
    <3>4. \A u \in Threads : DispatchAlone(u)'
      <4>1. ASSUME NEW u \in Threads, pc[u] = "dispatch"
            PROVE  /\ u # t
                   /\ req[u].action \in Actions
                   /\ status[req[u].action] = "consumed"
                   /\ status'[req[u].action] = "consumed"
                   /\ status[a] = "approved" => req[u].action # a
          BY <3>1, <3>2, <4>1 DEF GateInv, DispatchAlone, TypeOK, Request
      <4>2. ASSUME NEW u \in Threads \ {t}, pc'[u] = "dispatch"
            PROVE  DispatchAlone(u)'
        <5>1. pc[u] = "dispatch" /\ req'[u] = req[u]
            BY <3>2, <4>2
        <5>2. \A v \in Threads : Dispatching(v, req[u].action)' => v = u
            BY <3>1, <3>2, <4>1, <5>1
            DEF GateInv, DispatchAlone, Dispatching, a
        <5> QED
            BY <3>1, <4>1, <5>1, <5>2 DEF GateInv, DispatchAlone
      <4>3. ASSUME pc'[t] = "dispatch"
            PROVE  DispatchAlone(t)'
        <5>1. /\ status[a] = "approved"
              /\ status'[a] = "consumed"
              /\ req'[t] = req[t]
            BY <3>2, <4>3
        <5>2. runs'[a] = 0
            BY <3>1, <5>1 DEF GateInv, StatusAgrees
        <5>3. \A v \in Threads :
                 (pc'[v] = "dispatch" /\ req'[v].action = a) => v = t
            BY <3>2, <4>1, <5>1
        <5> QED
            BY <5>1, <5>2, <5>3 DEF DispatchAlone, Dispatching, a
      <4> QED
          BY <4>2, <4>3 DEF DispatchAlone
    <3>5. \A u \in Threads : pc'[u] = "redecide" => req'[u].approved
        BY <3>2 DEF GateInv
    <3> QED
        BY <3>3, <3>4, <3>5 DEF GateInv
  <2>11. ASSUME NEW t \in Threads, Dispatch(t)
         PROVE  GateInv'
    <3> DEFINE a == req[t].action
    <3>1. /\ a \in Actions
          /\ status[a] = "consumed"
          /\ runs[a] = 0
          /\ \A u \in Threads : Dispatching(u, a) => u = t
        BY <2>11 DEF Dispatch, TypeOK, Request, GateInv, DispatchAlone
    <3>2. /\ UNCHANGED <<status, record, verdict>>
          /\ runs'[a] \in {0, 1}
          /\ \A b \in Actions \ {a} : runs'[b] = runs[b]
          /\ pc'[t] = "idle"
          /\ \A u \in Threads \ {t} : pc'[u] = pc[u] /\ req'[u] = req[u]
        BY <2>11, <3>1 DEF Dispatch, TypeOK, Goto, storeVars
    <3> HIDE DEF a
    <3>3. \A b \in Actions : StatusAgrees(b)'
        BY <3>1, <3>2 DEF GateInv, StatusAgrees
    <3>4. \A u \in Threads : DispatchAlone(u)'
      <4> SUFFICES ASSUME NEW u \in Threads, pc'[u] = "dispatch"
                   PROVE  DispatchAlone(u)'
          BY DEF DispatchAlone
      <4>1. /\ u # t
            /\ pc[u] = "dispatch"
            /\ req'[u] = req[u]
            /\ req[u].action \in Actions \ {a}
          BY <3>1, <3>2 DEF TypeOK, Request, Dispatching
      <4> QED
          BY <3>2, <4>1 DEF GateInv, DispatchAlone, Dispatching
    <3> QED
        BY <3>2, <3>3, <3>4 DEF GateInv
  <2>12. CASE UNCHANGED vars
      BY <2>12, QuietGateInv DEF vars
  <2> QED
      BY <2>1, <2>2, <2>3, <2>4, <2>6, <2>7, <2>8, <2>9, <2>10, <2>11, <2>12
      DEF Next, Work
<1> QED
    BY <1>1, <1>2, TypeCorrect, PTL DEF Spec

-----------------------------------------------------------------------------
(* What follows from it.                                                   *)

\* However many requests race for an action and wherever the server crashes,
\* a capability runs for it at most once (approval_store.py:26-28, 305-308).
THEOREM SingleUseHolds == Spec => []SingleUse
<1>1. TypeOK /\ GateInv => SingleUse
    BY DEF TypeOK, GateInv, StatusAgrees, DispatchAlone, Dispatching,
           SingleUse, Request
<1> QED
    BY <1>1, TypeCorrect, GateInvariant, PTL

\* What runs was approved by the session that proposed it (approval_store.py:
\* 12-26).
THEOREM OnlyApprovedRuns == Spec => []RunsOnlyWhatItsSessionApproved
<1>1. TypeOK /\ GateInv => RunsOnlyWhatItsSessionApproved
  <2> SUFFICES ASSUME TypeOK, GateInv, NEW a \in Actions,
                      runs[a] > 0 \/ \E t \in Threads : Dispatching(t, a)
               PROVE  /\ verdict[a].answer = "approved"
                      /\ verdict[a].session = record[a].session
      BY DEF RunsOnlyWhatItsSessionApproved
  <2>1. status[a] = "consumed"
      BY DEF GateInv, StatusAgrees, DispatchAlone, Dispatching
  <2> QED
      BY <2>1 DEF GateInv, StatusAgrees
<1> QED
    BY <1>1, TypeCorrect, GateInvariant, PTL

\* A decision, once accepted, is final (approval_store.py:239-244).
THEOREM DecisionFinal == Spec => DecidedOnce
<1> DEFINE Final == \A a \in Actions :
                       verdict[a].answer # "none" => verdict'[a] = verdict[a]
<1>1. TypeOK /\ GateInv /\ [Next]_vars => [Final]_vars
  <2> SUFFICES ASSUME TypeOK, GateInv, [Next]_vars
               PROVE  Final
      OBVIOUS
  <2>1. ASSUME NEW t \in Threads, pc[t] # "idle", NEW approved, NEW next,
               CallDecide(t, approved, next)
        PROVE  Final
    <3>1. req[t].action \in Actions
        BY <2>1 DEF TypeOK, Request
    <3> QED
        BY <2>1, <3>1
        DEF CallDecide, DecideAccepts, TypeOK, GateInv, StatusAgrees
  <2>2. ASSUME NEW t \in Threads, Work(t)
        PROVE  Final
      BY <2>1, <2>2
      DEF Work, Decide, Redecide, Consume, Dispatch, storeVars
  <2> QED
      BY <2>2
      DEF Next, vars, Tick, SetGrants, Crash, Propose, PressButton, SayYesOrNo,
          Serve, storeVars
<1> QED
    BY <1>1, TypeCorrect, GateInvariant, PTL DEF Spec, DecidedOnce

\* An approval cannot be banked (approval_store.py:59-63).
THEOREM NoBanking == Spec => NothingConsumedAfterExpiry
<1> DEFINE Fresh == \A a \in Actions :
                       (status[a] \in {"pending", "approved"} /\ Expired(a)) =>
                           status'[a] # "consumed"
<1>1. TypeOK /\ [Next]_vars => [Fresh]_vars
  <2> SUFFICES ASSUME TypeOK, [Next]_vars
               PROVE  Fresh
      OBVIOUS
  <2>1. ASSUME NEW t \in Threads, pc[t] # "idle", NEW approved, NEW next,
               CallDecide(t, approved, next)
        PROVE  Fresh
    <3>1. req[t].action \in Actions
        BY <2>1 DEF TypeOK, Request
    <3> QED
        BY <2>1, <3>1 DEF CallDecide, StatusAfterDecide, DecideAccepts, TypeOK
  <2>2. ASSUME NEW t \in Threads, Consume(t)
        PROVE  Fresh
    <3>1. req[t].action \in Actions
        BY <2>2 DEF Consume, TypeOK, Request
    <3> QED
        BY <2>2, <3>1 DEF Consume, StatusAfterConsume, ConsumeAccepts, TypeOK
  <2>3. ASSUME NEW t \in Threads, Work(t)
        PROVE  Fresh
      BY <2>1, <2>2, <2>3 DEF Work, Decide, Redecide, Dispatch, storeVars
  <2>4. ASSUME NEW a \in Actions, NEW c \in Capabilities,
               NEW s \in SessionIds, Propose(a, c, s)
        PROVE  Fresh
      BY <2>4 DEF Propose, TypeOK
  <2> QED
      BY <2>3, <2>4
      DEF Next, vars, Tick, SetGrants, Crash, PressButton, SayYesOrNo,
          Serve, storeVars
<1> QED
    BY <1>1, TypeCorrect, PTL DEF Spec, NothingConsumedAfterExpiry

-----------------------------------------------------------------------------
(* The gate implements its contract.                                       *)

\* Steps that change neither a status nor a count of runs are stutters of the
\* contract.
LEMMA QuietRefines ==
    ASSUME UNCHANGED <<status, runs>>
    PROVE  [Contract!ContractNext]_(Contract!contractVars)
BY DEF Contract!contractVars

\* A call of decide() approves, rejects, expires or leaves the action alone.
LEMMA CallDecideRefines ==
    ASSUME TypeOK, NEW t \in Threads, pc[t] # "idle",
           NEW approved \in BOOLEAN, NEW next, CallDecide(t, approved, next)
    PROVE  [Contract!ContractNext]_(Contract!contractVars)
<1> DEFINE a == req[t].action
<1>1. a \in Actions
    BY DEF TypeOK, Request
<1>2. /\ UNCHANGED runs
      /\ status' = [status EXCEPT ![a] =
                      StatusAfterDecide(a, req[t].session, approved)]
    BY DEF CallDecide
<1>3. \/ /\ status[a] = "pending"
         /\ \/ status' = [status EXCEPT ![a] = "approved"]
            \/ status' = [status EXCEPT ![a] = "rejected"]
            \/ status' = [status EXCEPT ![a] = "expired"]
      \/ UNCHANGED status
    BY <1>1, <1>2 DEF StatusAfterDecide, DecideAccepts, TypeOK
<1> HIDE DEF a
<1>4. CASE UNCHANGED status
    BY <1>2, <1>4, QuietRefines
<1>5. CASE status[a] = "pending" /\ status' = [status EXCEPT ![a] = "approved"]
    BY <1>1, <1>2, <1>5
    DEF Contract!ContractNext, Contract!BeApproved, Contract!Moves
<1>6. CASE status[a] = "pending" /\ status' = [status EXCEPT ![a] = "rejected"]
    BY <1>1, <1>2, <1>6
    DEF Contract!ContractNext, Contract!BeRejected, Contract!Moves
<1>7. CASE status[a] = "pending" /\ status' = [status EXCEPT ![a] = "expired"]
    BY <1>1, <1>2, <1>7
    DEF Contract!ContractNext, Contract!BeExpired, Contract!Moves
<1> QED
    BY <1>3, <1>4, <1>5, <1>6, <1>7

\* The requests, proposals, clock and crashes of the gate do to an action only
\* what the contract allows (approval_store.py:12-33).
THEOREM GateImplementsContract == Spec => ImplementsContract
<1>1. Init => Contract!ContractInit
    BY DEF Init, Contract!ContractInit
<1>2. TypeOK /\ GateInv /\ [Next]_vars
        => [Contract!ContractNext]_(Contract!contractVars)
  <2> SUFFICES ASSUME TypeOK, GateInv, [Next]_vars
               PROVE  [Contract!ContractNext]_(Contract!contractVars)
      OBVIOUS
  <2>1. ASSUME NEW a \in Actions, NEW c \in Capabilities,
               NEW s \in SessionIds, Propose(a, c, s)
        PROVE  Contract!ContractNext
      BY <2>1 DEF Propose, Contract!ContractNext, Contract!BeProposed,
                  Contract!Moves
  <2>2. ASSUME NEW t \in Threads, Decide(t)
        PROVE  [Contract!ContractNext]_(Contract!contractVars)
      BY <2>2, CallDecideRefines DEF Decide, TypeOK, Request
  <2>3. ASSUME NEW t \in Threads, Redecide(t)
        PROVE  [Contract!ContractNext]_(Contract!contractVars)
      BY <2>3, CallDecideRefines DEF Redecide
  <2>4. ASSUME NEW t \in Threads, Consume(t)
        PROVE  [Contract!ContractNext]_(Contract!contractVars)
    <3> DEFINE a == req[t].action
    <3>1. a \in Actions
        BY <2>4 DEF Consume, TypeOK, Request
    <3>2. /\ UNCHANGED runs
          /\ \/ /\ status[a] = "approved"
                /\ \/ status' = [status EXCEPT ![a] = "consumed"]
                   \/ status' = [status EXCEPT ![a] = "expired"]
             \/ UNCHANGED status
        BY <2>4, <3>1
        DEF Consume, StatusAfterConsume, ConsumeAccepts, TypeOK
    <3> HIDE DEF a
    <3>3. CASE UNCHANGED status
        BY <3>2, <3>3, QuietRefines
    <3>4. CASE /\ status[a] = "approved"
               /\ status' = [status EXCEPT ![a] = "consumed"]
        BY <3>1, <3>2, <3>4
        DEF Contract!ContractNext, Contract!BeConsumed, Contract!Moves
    <3>5. CASE /\ status[a] = "approved"
               /\ status' = [status EXCEPT ![a] = "expired"]
        BY <3>1, <3>2, <3>5
        DEF Contract!ContractNext, Contract!BeExpired, Contract!Moves
    <3> QED
        BY <3>2, <3>3, <3>4, <3>5
  <2>5. ASSUME NEW t \in Threads, Dispatch(t)
        PROVE  [Contract!ContractNext]_(Contract!contractVars)
    <3> DEFINE a == req[t].action
    <3>1. /\ a \in Actions
          /\ status[a] = "consumed"
          /\ runs[a] = 0
          /\ UNCHANGED status
        BY <2>5 DEF Dispatch, TypeOK, Request, GateInv, DispatchAlone, storeVars
    <3>2. UNCHANGED runs \/ runs' = [runs EXCEPT ![a] = 1]
        BY <2>5, <3>1 DEF Dispatch, TypeOK
    <3> HIDE DEF a
    <3>3. CASE UNCHANGED runs
        BY <3>1, <3>3, QuietRefines
    <3>4. CASE runs' = [runs EXCEPT ![a] = 1]
        BY <3>1, <3>4 DEF Contract!ContractNext, Contract!Run
    <3> QED
        BY <3>2, <3>3, <3>4
  <2>6. CASE \/ Tick \/ SetGrants \/ Crash \/ UNCHANGED vars
             \/ \E t \in Threads, s \in SessionIds, approved \in BOOLEAN :
                  \/ \E a \in Actions : PressButton(t, a, s, approved)
                  \/ SayYesOrNo(t, s, approved)
      BY <2>6, QuietRefines
      DEF Tick, SetGrants, Crash, PressButton, SayYesOrNo, Serve, storeVars,
          vars
  <2> QED
      BY <2>1, <2>2, <2>3, <2>4, <2>5, <2>6 DEF Next, Work
<1> QED
    BY <1>1, <1>2, TypeCorrect, GateInvariant, PTL
    DEF Spec, ImplementsContract, Contract!ContractSpec

=============================================================================
