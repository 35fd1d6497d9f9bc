------------------------ MODULE ApprovalServiceProofs ------------------------
(***************************************************************************)
(* Theorems about what ApprovalGate does with an approval it accepted:     *)
(* who serves it, when it can be left unserved and what may run.           *)
(***************************************************************************)
EXTENDS ApprovalGateProofs

-----------------------------------------------------------------------------
(* The inductive invariant.                                                *)

Decided(a)  == status[a] \notin {"unknown", "pending"}
ArgsLost(a) == record[a].args # record[a].fingerprint
ByYes(a)    == ResumptionEnabled /\ record[a].capability \in Legacy

\* What a request knows of the action it has had decided, at each call.
RequestInv(t) ==
    LET a == req[t].action
    IN  /\ pc[t] # "idle" /\ req[t].via = "message" => ResumptionEnabled
        /\ pc[t] \in {"redecide", "consume", "dispatch"} =>
              /\ Decided(a)
              /\ record[a].session = req[t].session
        /\ pc[t] = "redecide" => ByYes(a)
        /\ pc[t] \in {"consume", "dispatch"} /\ req[t].via = "message" =>
              record[a].capability \in Multi
        /\ pc[t] = "dispatch" => ~ArgsLost(a)

\* Why an approved action has not been consumed, and a consumed one has not
\* run; and that the fingerprint of a principal is lost.
ActionInv(a) ==
    /\ status[a] = "approved" =>
          \/ a \in orphans \/ ArgsLost(a) \/ ByYes(a)
          \/ \E t \in Threads : pc[t] = "consume" /\ req[t].action = a
    /\ status[a] = "consumed" /\ runs[a] = 0 =>
          \/ a \in orphans \/ record[a].capability \in Multi
          \/ \E t \in Threads : Dispatching(t, a)
    /\ status[a] # "unknown" /\ loggedIn /\ record[a].capability \in Legacy =>
          ArgsLost(a)

ServeInv ==
    /\ \A t \in Threads : RequestInv(t)
    /\ \A a \in Actions : ActionInv(a)

-----------------------------------------------------------------------------
(* What every step keeps.                                                  *)

\* A record never changes once it exists, and what is decided stays decided:
\* the only writers of a status are propose(), decide() and consume().
LEMMA StoreMonotone ==
    ASSUME TypeOK, [Next]_vars, NEW a \in Actions, status[a] # "unknown"
    PROVE  /\ record'[a] = record[a]
           /\ status'[a] # "unknown"
           /\ Decided(a) => Decided(a)'
<1>1. ASSUME NEW t \in Threads, pc[t] # "idle", NEW approved, NEW next,
             CallDecide(t, approved, next)
      PROVE  /\ record'[a] = record[a]
             /\ status'[a] # "unknown"
             /\ Decided(a) => Decided(a)'
    BY <1>1
    DEF CallDecide, StatusAfterDecide, DecideAccepts, Decided, TypeOK, Request
<1>2. ASSUME NEW t \in Threads, Consume(t)
      PROVE  /\ record'[a] = record[a]
             /\ status'[a] # "unknown"
             /\ Decided(a) => Decided(a)'
    BY <1>2
    DEF Consume, StatusAfterConsume, ConsumeAccepts, Decided, TypeOK, Request
<1>3. ASSUME NEW t \in Threads, Work(t)
      PROVE  /\ record'[a] = record[a]
             /\ status'[a] # "unknown"
             /\ Decided(a) => Decided(a)'
    BY <1>1, <1>2, <1>3 DEF Work, Decide, Redecide, Dispatch, storeVars, Decided
<1>4. ASSUME NEW b \in Actions, NEW c \in Capabilities, NEW s \in SessionIds,
             Propose(b, c, s)
      PROVE  /\ record'[a] = record[a]
             /\ status'[a] # "unknown"
             /\ Decided(a) => Decided(a)'
    BY <1>4 DEF Propose, TypeOK, Decided
<1>5. CASE UNCHANGED <<status, record>>
    BY <1>5 DEF Decided
<1> QED
    BY <1>3, <1>4, <1>5
    DEF Next, vars, Tick, SetGrants, Crash, PressButton, SayYesOrNo, Serve,
        storeVars

\* Hence what a request knows stays true while the request stays where it is.
LEMMA RequestStays ==
    ASSUME TypeOK, [Next]_vars, NEW t \in Threads, RequestInv(t),
           pc'[t] = pc[t], req'[t] = req[t]
    PROVE  RequestInv(t)'
<1>1. CASE pc[t] \in {"redecide", "consume", "dispatch"}
  <2> DEFINE a == req[t].action
  <2>1. a \in Actions /\ Decided(a)
      BY <1>1 DEF TypeOK, Request, RequestInv
  <2>2. record'[a] = record[a] /\ Decided(a)'
      BY <2>1, StoreMonotone DEF Decided
  <2> QED
      BY <2>2 DEF RequestInv, ByYes, ArgsLost, Decided
<1>2. CASE pc[t] \notin {"redecide", "consume", "dispatch"}
    BY <1>2 DEF RequestInv
<1> QED
    BY <1>1, <1>2

\* A request that ends, or that has yet to make its first call, knows nothing.
LEMMA RequestFresh ==
    ASSUME NEW t \in Threads, pc'[t] \in {"idle", "decide"},
           pc'[t] = "idle" \/ req'[t].via = "button" \/ ResumptionEnabled
    PROVE  RequestInv(t)'
BY DEF RequestInv

-----------------------------------------------------------------------------
(* The two parts of the invariant, one step at a time.                     *)

\* An accepted decision leaves a request with a decided action of its own
\* session, and only a "yes" for a legacy action goes to the second decide().
LEMMA DecideKeepsRequest ==
    ASSUME TypeOK, NEW t \in Threads, RequestInv(t), Decide(t)
    PROVE  RequestInv(t)'
<1> DEFINE a == req[t].action
           s == req[t].session
<1>1. /\ a \in Actions
      /\ req[t] \in Request
      /\ req[t].approved \in BOOLEAN
      /\ record' = record
      /\ pc[t] = "decide"
    BY DEF Decide, CallDecide, TypeOK, Request
<1>2. CASE pc'[t] = "idle"
    BY <1>2, RequestFresh
<1>3. CASE pc'[t] # "idle"
  <2>1. DecideAccepts(a, s) /\ req[t].approved /\ req'[t] = req[t]
      BY <1>1, <1>3 DEF Decide, CallDecide, Goto, TypeOK
  <2>2. status[a] = "pending" /\ status'[a] = "approved"
      BY <1>1, <2>1
      DEF Decide, CallDecide, StatusAfterDecide, DecideAccepts, TypeOK
  <2>3. record[a].session = s /\ record[a].capability \in Legacy \cup Multi
      BY <1>1, <2>1, <2>2 DEF DecideAccepts, TypeOK, Record, Capabilities
  <2>4. /\ pc'[t] \in {"redecide", "consume"}
        /\ pc'[t] = "redecide" =>
              req[t].via = "message" /\ record[a].capability \in Legacy
        /\ pc'[t] = "consume" =>
              ~(req[t].via = "message" /\ record[a].capability \in Legacy)
      BY <1>1, <2>1 DEF Decide, CallDecide, Goto, TypeOK
  <2> QED
      BY <1>1, <2>1, <2>2, <2>3, <2>4 DEF RequestInv, Decided, ByYes
<1> QED
    BY <1>2, <1>3

\* The second decide() always finds the action decided already: it changes
\* nothing and the request ends with an error.
LEMMA RedecideFails ==
    ASSUME TypeOK, NEW t \in Threads, RequestInv(t), Redecide(t)
    PROVE  /\ UNCHANGED <<status, record, runs, orphans, loggedIn>>
           /\ pc'[t] = "idle"
<1> DEFINE a == req[t].action
           s == req[t].session
<1>1. a \in Actions /\ status[a] # "pending"
    BY DEF Redecide, RequestInv, Decided, TypeOK, Request
<1>2. ~DecideAccepts(a, s) /\ StatusAfterDecide(a, s, TRUE) = status[a]
    BY <1>1 DEF DecideAccepts, StatusAfterDecide
<1> QED
    BY <1>1, <1>2 DEF Redecide, CallDecide, Goto, TypeOK, envVars

\* A consumption that is accepted found the arguments the fingerprint is of.
LEMMA ConsumeKeepsRequest ==
    ASSUME TypeOK, NEW t \in Threads, RequestInv(t), Consume(t)
    PROVE  RequestInv(t)'
<1> DEFINE a == req[t].action
           s == req[t].session
<1>1. a \in Actions /\ record' = record
    BY DEF Consume, TypeOK, Request
<1>2. CASE ConsumeAccepts(a, s)
  <2>1. /\ status'[a] = "consumed"
        /\ pc[t] = "consume"
        /\ pc'[t] = "dispatch"
        /\ req'[t] = req[t]
        /\ ~ArgsLost(a)
      BY <1>1, <1>2
      DEF Consume, StatusAfterConsume, ConsumeAccepts, Goto, TypeOK, ArgsLost
  <2> QED
      BY <1>1, <2>1 DEF RequestInv, Decided, ArgsLost
<1>3. CASE ~ConsumeAccepts(a, s)
  <2>1. pc'[t] = "idle"
      BY <1>3 DEF Consume, Goto, TypeOK
  <2> QED
      BY <2>1, RequestFresh
<1> QED
    BY <1>2, <1>3

\* Every step keeps what every request knows.
LEMMA StepKeepsRequests ==
    ASSUME TypeOK, ServeInv, [Next]_vars, NEW u \in Threads
    PROVE  RequestInv(u)'
<1> USE DEF ServeInv
<1>1. CASE pc'[u] = pc[u] /\ req'[u] = req[u]
    BY <1>1, RequestStays
<1>2. ASSUME NEW t \in Threads, NEW s \in SessionIds, NEW approved \in BOOLEAN,
             NEW a \in Actions, PressButton(t, a, s, approved)
      PROVE  RequestInv(u)'
  <2>1. CASE u = t
    <3>1. pc'[t] = "decide" /\ req'[t].via = "button"
        BY <1>2 DEF PressButton, Serve, TypeOK
    <3> QED
        BY <2>1, <3>1, RequestFresh
  <2>2. CASE u # t
      BY <1>1, <1>2, <2>2 DEF PressButton, Serve, TypeOK
  <2> QED
      BY <2>1, <2>2
<1>3. ASSUME NEW t \in Threads, NEW s \in SessionIds, NEW approved \in BOOLEAN,
             SayYesOrNo(t, s, approved)
      PROVE  RequestInv(u)'
  <2>1. CASE u = t
    <3>1. pc'[t] = "decide" /\ ResumptionEnabled
        BY <1>3 DEF SayYesOrNo, Serve, TypeOK
    <3> QED
        BY <2>1, <3>1, RequestFresh
  <2>2. CASE u # t
      BY <1>1, <1>3, <2>2 DEF SayYesOrNo, Serve, TypeOK
  <2> QED
      BY <2>1, <2>2
<1>4. ASSUME NEW t \in Threads, Work(t)
      PROVE  RequestInv(u)'
  <2>1. CASE u # t
      BY <1>1, <1>4, <2>1
      DEF Work, Decide, Redecide, Consume, Dispatch, CallDecide, Goto, TypeOK
  <2>2. CASE u = t /\ Decide(t)
      BY <2>2, DecideKeepsRequest
  <2>3. CASE u = t /\ Redecide(t)
      BY <2>3, RedecideFails, RequestFresh
  <2>4. CASE u = t /\ Consume(t)
      BY <2>4, ConsumeKeepsRequest
  <2>5. CASE u = t /\ Dispatch(t)
    <3>1. pc'[t] = "idle"
        BY <2>5 DEF Dispatch, Goto, TypeOK
    <3> QED
        BY <2>5, <3>1, RequestFresh
  <2> QED
      BY <1>4, <2>1, <2>2, <2>3, <2>4, <2>5 DEF Work
<1>5. CASE Crash
  <2>1. pc'[u] = "idle"
      BY <1>5 DEF Crash
  <2> QED
      BY <2>1, RequestFresh
<1>6. CASE \/ Tick \/ SetGrants \/ UNCHANGED vars
           \/ \E a \in Actions, c \in Capabilities, s \in SessionIds :
                 Propose(a, c, s)
    BY <1>1, <1>6 DEF Tick, SetGrants, Propose, vars
<1> QED
    BY <1>2, <1>3, <1>4, <1>5, <1>6 DEF Next

\* A step that leaves the action's own state alone, and the requests that
\* still have to serve it, keeps its part of the invariant.
LEMMA ActionStays ==
    ASSUME NEW a \in Actions, ActionInv(a),
           status'[a] = status[a], record'[a] = record[a], runs'[a] = runs[a],
           orphans \subseteq orphans', loggedIn' = loggedIn,
           \A t \in Threads :
              (pc[t] \in {"consume", "dispatch"} /\ req[t].action = a) =>
                 \/ pc'[t] = pc[t] /\ req'[t] = req[t]
                 \/ a \in orphans'
    PROVE  ActionInv(a)'
BY DEF ActionInv, ArgsLost, ByYes, Dispatching

\* The call of decide() that approves an action leaves somebody to serve it.
LEMMA DecideKeepsAction ==
    ASSUME TypeOK, NEW t \in Threads, RequestInv(t), Decide(t),
           NEW b \in Actions, ActionInv(b)
    PROVE  ActionInv(b)'
<1> DEFINE a == req[t].action
           s == req[t].session
<1>1. /\ a \in Actions
      /\ req[t].approved \in BOOLEAN
      /\ pc[t] = "decide"
      /\ status' = [status EXCEPT ![a] =
                      StatusAfterDecide(a, s, req[t].approved)]
      /\ UNCHANGED <<record, runs, orphans, loggedIn>>
      /\ \A u \in Threads \ {t} : pc'[u] = pc[u] /\ req'[u] = req[u]
    BY DEF Decide, CallDecide, Goto, TypeOK, Request, envVars
<1>2. CASE status'[b] = status[b]
    BY <1>1, <1>2, ActionStays
<1>3. CASE status'[b] # status[b]
  <2>1. b = a /\ status[a] = "pending"
      BY <1>1, <1>3 DEF StatusAfterDecide, DecideAccepts, TypeOK
  <2>2. status'[b] \in {"approved", "rejected", "expired"}
      BY <1>1, <1>3, <2>1 DEF StatusAfterDecide, TypeOK
  <2>3. ASSUME status'[b] = "approved"
        PROVE  \/ ByYes(b)
               \/ pc'[t] = "consume" /\ req'[t].action = b
    <3>1. DecideAccepts(a, s) /\ req[t].approved
        BY <1>1, <2>1, <2>3 DEF StatusAfterDecide, TypeOK
    <3>2. /\ pc'[t] \in {"redecide", "consume"}
          /\ req'[t] = req[t]
          /\ pc'[t] = "redecide" =>
                req[t].via = "message" /\ record[a].capability \in Legacy
        BY <1>1, <3>1 DEF Decide, CallDecide, Goto, TypeOK
    <3>3. pc'[t] = "redecide" => ResumptionEnabled
        BY <1>1, <3>2 DEF RequestInv
    <3> QED
        BY <2>1, <3>2, <3>3 DEF ByYes
  <2> QED
      BY <1>1, <2>1, <2>2, <2>3 DEF ActionInv, ArgsLost, ByYes
<1> QED
    BY <1>2, <1>3

\* The call of consume() takes the action to its dispatch, or to "expired", or
\* leaves it approved because the arguments it reads are not those proposed.
LEMMA ConsumeKeepsAction ==
    ASSUME TypeOK, NEW t \in Threads, RequestInv(t), Consume(t),
           NEW b \in Actions, ActionInv(b)
    PROVE  ActionInv(b)'
<1> DEFINE a == req[t].action
           s == req[t].session
<1>1. /\ a \in Actions
      /\ pc[t] = "consume"
      /\ status' = [status EXCEPT ![a] = StatusAfterConsume(a, s)]
      /\ UNCHANGED <<record, runs, orphans, loggedIn>>
      /\ \A u \in Threads \ {t} : pc'[u] = pc[u] /\ req'[u] = req[u]
    BY DEF Consume, Goto, TypeOK, Request, envVars
<1>2. CASE b # a
  <2>1. status'[b] = status[b]
      BY <1>1, <1>2 DEF TypeOK
  <2> QED
      BY <1>1, <1>2, <2>1, ActionStays
<1>3. CASE b = a /\ ConsumeAccepts(a, s)
  <2>1. status'[a] = "consumed" /\ pc'[t] = "dispatch" /\ req'[t] = req[t]
      BY <1>1, <1>3 DEF Consume, StatusAfterConsume, Goto, TypeOK
  <2>2. Dispatching(t, a)'
      BY <2>1 DEF Dispatching
  <2>3. status[a] = "approved"
      BY <1>3 DEF ConsumeAccepts
  <2> QED
      BY <1>1, <1>3, <2>1, <2>2, <2>3 DEF ActionInv, ArgsLost
<1>4. CASE b = a /\ ~ConsumeAccepts(a, s)
  <2>1. record[a].session = s
      BY <1>1 DEF RequestInv
  <2>2. \/ status'[a] = "expired" /\ status[a] = "approved"
        \/ status'[a] = status[a] /\ (status[a] = "approved" => ArgsLost(a))
      BY <1>1, <1>4, <2>1
      DEF StatusAfterConsume, ConsumeAccepts, ArgsLost, TypeOK
  <2>3. \A u \in Threads : Dispatching(u, b) => Dispatching(u, b)'
      BY <1>1 DEF Dispatching
  <2> QED
      BY <1>1, <1>4, <2>2, <2>3 DEF ActionInv, ArgsLost, ByYes
<1> QED
    BY <1>2, <1>3, <1>4

\* A dispatch that runs nothing is one of a multi-action capability.
LEMMA DispatchKeepsAction ==
    ASSUME TypeOK, GateInv, NEW t \in Threads, RequestInv(t), Dispatch(t),
           NEW b \in Actions, ActionInv(b)
    PROVE  ActionInv(b)'
<1> DEFINE a == req[t].action
           c == record[a].capability
<1>1. /\ a \in Actions
      /\ req[t].via \in {"button", "message"}
      /\ pc[t] = "dispatch"
      /\ status[a] = "consumed"
      /\ runs[a] = 0
      /\ UNCHANGED <<status, record, orphans, loggedIn>>
      /\ \A u \in Threads \ {t} : pc'[u] = pc[u] /\ req'[u] = req[u]
    BY DEF Dispatch, Goto, TypeOK, Request, envVars, storeVars, GateInv,
           DispatchAlone
<1>2. c \in Legacy \cup Multi
    BY <1>1 DEF TypeOK, Record, Capabilities
<1>3. CASE b # a
  <2>1. runs'[b] = runs[b]
      BY <1>1, <1>3 DEF Dispatch, TypeOK
  <2> QED
      BY <1>1, <1>3, <2>1, ActionStays
<1>4. CASE b = a /\ Reaches(t)
  <2>1. runs'[a] = 1
      BY <1>1, <1>4 DEF Dispatch, TypeOK
  <2> QED
      BY <1>1, <1>4, <2>1 DEF ActionInv, ArgsLost
<1>5. CASE b = a /\ ~Reaches(t)
  <2>1. c \in Multi
      BY <1>1, <1>2, <1>5 DEF Reaches, RequestInv
  <2> QED
      BY <1>1, <1>5, <2>1 DEF ActionInv, ArgsLost
<1> QED
    BY <1>3, <1>4, <1>5

\* A proposal of a logged-in user's legacy action has lost its arguments.
LEMMA ProposeKeepsAction ==
    ASSUME TypeOK, NEW a \in Actions, NEW c \in Capabilities,
           NEW s \in SessionIds, Propose(a, c, s),
           NEW b \in Actions, ActionInv(b)
    PROVE  ActionInv(b)'
<1>1. CASE b # a
  <2>1. /\ status'[b] = status[b]
        /\ record'[b] = record[b]
        /\ UNCHANGED <<runs, orphans, loggedIn, pc, req>>
      BY <1>1 DEF Propose, TypeOK, envVars
  <2> QED
      BY <2>1, ActionStays
<1>2. CASE b = a
  <2>1. status'[a] = "pending" /\ loggedIn' = loggedIn
      BY DEF Propose, TypeOK, envVars
  <2>2. (loggedIn /\ record'[a].capability \in Legacy) => ArgsLost(a)'
      BY DEF Propose, TypeOK, Persisted, ArgsLost
  <2> QED
      BY <1>2, <2>1, <2>2 DEF ActionInv
<1> QED
    BY <1>1, <1>2

\* Every step keeps the account of every action.
LEMMA StepKeepsActions ==
    ASSUME TypeOK, GateInv, ServeInv, [Next]_vars, NEW b \in Actions
    PROVE  ActionInv(b)'
<1>1. ActionInv(b) /\ \A t \in Threads : RequestInv(t)
    BY DEF ServeInv
<1>2. ASSUME NEW t \in Threads, Work(t)
      PROVE  ActionInv(b)'
  <2>1. CASE Decide(t)
      BY <1>1, <2>1, DecideKeepsAction
  <2>2. CASE Redecide(t)
    <3>1. /\ UNCHANGED <<status, record, runs, orphans, loggedIn>>
          /\ pc[t] = "redecide"
          /\ \A u \in Threads \ {t} : pc'[u] = pc[u] /\ req'[u] = req[u]
        BY <1>1, <2>2, RedecideFails DEF Redecide, CallDecide, Goto, TypeOK
    <3> QED
        BY <1>1, <3>1, ActionStays
  <2>3. CASE Consume(t)
      BY <1>1, <2>3, ConsumeKeepsAction
  <2>4. CASE Dispatch(t)
      BY <1>1, <2>4, DispatchKeepsAction
  <2> QED
      BY <1>2, <2>1, <2>2, <2>3, <2>4 DEF Work
<1>3. ASSUME NEW a \in Actions, NEW c \in Capabilities, NEW s \in SessionIds,
             Propose(a, c, s)
      PROVE  ActionInv(b)'
    BY <1>1, <1>3, ProposeKeepsAction
<1>4. ASSUME NEW t \in Threads, NEW request, Serve(t, request)
      PROVE  ActionInv(b)'
  <2>1. /\ UNCHANGED <<status, record, runs, orphans, loggedIn>>
        /\ pc[t] = "idle"
        /\ \A u \in Threads \ {t} : pc'[u] = pc[u] /\ req'[u] = req[u]
      BY <1>4 DEF Serve, TypeOK, envVars, storeVars
  <2> QED
      BY <1>1, <2>1, ActionStays
<1>5. ASSUME NEW t \in Threads, NEW s \in SessionIds, NEW approved \in BOOLEAN
      PROVE  /\ SayYesOrNo(t, s, approved) => ActionInv(b)'
             /\ \A a \in Actions :
                   PressButton(t, a, s, approved) => ActionInv(b)'
    BY <1>4 DEF SayYesOrNo, PressButton
<1>6. CASE Crash
  <2>1. UNCHANGED <<status, record, runs, loggedIn>>
      BY <1>6 DEF Crash, envVars, storeVars
  <2>2. orphans \subseteq orphans'
      BY <1>6 DEF Crash
  <2>3. \A t \in Threads :
           (pc[t] \in {"consume", "dispatch"} /\ req[t].action = b) =>
               \/ b \in orphans'
               \/ status[b] \notin {"approved", "consumed"}
      BY <1>6 DEF Crash, InFlight
  <2> QED
      BY <1>1, <2>1, <2>2, <2>3 DEF ActionInv, ArgsLost, ByYes, Dispatching
<1>7. CASE Tick \/ SetGrants \/ UNCHANGED vars
  <2>1. UNCHANGED <<status, record, runs, orphans, loggedIn, pc, req>>
      BY <1>7 DEF Tick, SetGrants, vars, storeVars
  <2> QED
      BY <1>1, <2>1, ActionStays
<1> QED
    BY <1>2, <1>3, <1>5, <1>6, <1>7 DEF Next

\* Each request knows the action it has had decided, and each approval is
\* accounted for, in every reachable state.
THEOREM ServeInvariant == Spec => []ServeInv
<1>1. Init => ServeInv
    BY DEF Init, ServeInv, RequestInv, ActionInv
<1>2. TypeOK /\ GateInv /\ ServeInv /\ [Next]_vars => ServeInv'
    BY StepKeepsRequests, StepKeepsActions DEF ServeInv
<1> QED
    BY <1>1, <1>2, TypeCorrect, GateInvariant, PTL DEF Spec

-----------------------------------------------------------------------------
(* What follows from it.                                                   *)

\* An approval that nobody serves any more was stranded by its arguments or by
\* a "yes" to a legacy action; a race of requests never does it
\* (approval_store.py:246-253).
THEOREM StrandedOnlyByHolds == Spec => []StrandedOnlyBy
<1>1. ServeInv => StrandedOnlyBy
  <2> SUFFICES ASSUME ServeInv, NEW a \in Actions, Stranded(a)
               PROVE  ArgsLost(a) \/ ByYes(a)
      BY DEF StrandedOnlyBy, ArgsLost, ByYes
  <2> QED
      BY DEF ServeInv, ActionInv, Stranded, InFlight
<1> QED
    BY <1>1, ServeInvariant, PTL

\* A consumed action whose request ended without a crash has run, unless it is
\* one of a multi-action capability (server.py:2107-2112).
THEOREM UnservedOnlyIfMultiHolds == Spec => []UnservedOnlyIfMulti
<1>1. ServeInv => UnservedOnlyIfMulti
    BY DEF ServeInv, ActionInv, UnservedOnlyIfMulti, Unserved, InFlight,
           Dispatching
<1> QED
    BY <1>1, ServeInvariant, PTL

\* No capability runs for a logged-in user without a grant that still stands
\* (multi_action_dispatch.py:232, approval_store.py:276-283).
THEOREM OnlyGrantedRuns == Spec => RunsOnlyWhileGranted
<1> DEFINE Granted == \A a \in Actions :
                         (loggedIn /\ runs'[a] > runs[a]) =>
                             record[a].capability \in granted
<1>1. TypeOK /\ GateInv /\ ServeInv /\ [Next]_vars => [Granted]_vars
  <2> SUFFICES ASSUME TypeOK, GateInv, ServeInv, [Next]_vars,
                      NEW a \in Actions, loggedIn, runs'[a] > runs[a]
               PROVE  record[a].capability \in granted
      OBVIOUS
  <2>1. PICK t \in Threads : Dispatch(t)
    <3>1. ~UNCHANGED runs
        BY DEF TypeOK
    <3> QED
        BY <3>1
        DEF Next, vars, Tick, SetGrants, Crash, Propose, PressButton,
            SayYesOrNo, Serve, Work, Decide, Redecide, CallDecide, Consume
  <2>2. /\ req[t].action = a
        /\ Reaches(t)
        /\ pc[t] = "dispatch"
      BY <2>1 DEF Dispatch, TypeOK, Request
  <2>3. record[a].capability \notin Legacy
    <3>1. status[a] = "consumed" /\ ~ArgsLost(a)
        BY <2>2 DEF GateInv, DispatchAlone, ServeInv, RequestInv
    <3> QED
        BY <3>1 DEF ServeInv, ActionInv
  <2> QED
      BY <2>2, <2>3 DEF Reaches, Allowed
<1> QED
    BY <1>1, TypeCorrect, GateInvariant, ServeInvariant, PTL
    DEF Spec, RunsOnlyWhileGranted

=============================================================================
