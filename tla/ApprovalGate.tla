---------------------------- MODULE ApprovalGate ----------------------------
(***************************************************************************)
(* The approval gate of one user context (uri_core/core/approval_gate.py,  *)
(* approval_store.py, approval_resumption.py and the /approve, /cancel and *)
(* /ask handlers of uri_core/app/server.py).                               *)
(*                                                                         *)
(* A capability that needs the user's approval is not run when it is       *)
(* asked for: the gate proposes an action and the user decides it later,   *)
(* with the buttons (POST /approve, POST /cancel) or with a bare "yes" or  *)
(* "no" sent as a new turn.  FastAPI runs these handlers in a pool of      *)
(* threads, so the requests of one user interleave.  Here every call of    *)
(* an ApprovalStore operation is one step and the requests interleave      *)
(* between the calls; ApprovalFile.tla splits the operations themselves    *)
(* into the reads and writes of the JSON file.                             *)
(***************************************************************************)
EXTENDS Naturals, FiniteSets

CONSTANTS
    Actions,        \* pool of action ids (uuid4, approval_store.py:191)
    Sessions,       \* the session ids a client may send
    NoSession,      \* a request without a session id
    Legacy,         \* gated capabilities of the ToolDispatcher
    Multi,          \* gated capabilities of the MultiActionDispatch
    Threads,        \* worker threads serving this user's requests
    Expiry,         \* DEFAULT_EXPIRY_SECONDS, in ticks of the model's clock
    MaxTime,        \* bound: the clock stops here
    Contexts,       \* which contexts to start from: logged in or ambient
    ResumptionEnabled,  \* URI_ENABLE_APPROVAL_RESUMPTION = "1"
    NoRecord,       \* no proposed action with this id
    NoRequest       \* what an idle thread serves

ASSUME ClockAssumption == Expiry \in Nat /\ MaxTime \in Nat
ASSUME CapabilityAssumption == Legacy \cap Multi = {}
ASSUME ContextAssumption ==
    Contexts \subseteq BOOLEAN /\ ResumptionEnabled \in BOOLEAN

VARIABLES
    loggedIn,   \* TRUE: a user's own context; FALSE: the ambient one
    granted,    \* capabilities the administrator grants this user
    now,        \* the clock
    status,     \* status[a] of the record in approvals.json
    record,     \* record[a]: the immutable part of that record
    pc,         \* pc[t]: the next call of the request thread t serves
    req,        \* req[t]: that request
    verdict,    \* history: what the user answered when a's decision was
                \* accepted, and in which session
    runs,       \* history: how often a capability ran on behalf of a
    orphans     \* history: approved or consumed actions whose request a
                \* crash of the server may have cut short

vars == <<loggedIn, granted, now, status, record, pc, req,
          verdict, runs, orphans>>

storeVars == <<status, record, verdict>>
envVars   == <<loggedIn, granted, now>>

-----------------------------------------------------------------------------
(* Types.                                                                  *)

Capabilities == Legacy \cup Multi
SessionIds   == Sessions \cup {NoSession}
Status       == {"unknown", "pending", "approved", "rejected",
                 "consumed", "expired"}

\* The arguments of an action, as far as the fingerprint can tell them apart:
\* JSON values; JSON values and the live PrincipalContext of the request;
\* and what json.load gives back for the latter (a dict in its place).
Arguments == {"json", "principal_object", "principal_dict"}

Record == [session : SessionIds, capability : Capabilities, args : Arguments,
           fingerprint : Arguments, created : Nat]

Request == [action : Actions, session : SessionIds, approved : BOOLEAN,
            via : {"button", "message"}]

Pc == {"idle", "decide", "redecide", "consume", "dispatch"}

Verdicts == [answer : {"none", "approved", "rejected"}, session : SessionIds]
NoVerdict == [answer |-> "none", session |-> NoSession]

\* One type invariant for the module: every variable keeps its shape, and a
\* record exists exactly for the ids that were proposed (approval_store.py:
\* 150-168).
TypeOK ==
    /\ loggedIn \in BOOLEAN
    /\ granted \subseteq Capabilities
    /\ now \in Nat
    /\ status \in [Actions -> Status]
    /\ record \in [Actions -> Record \cup {NoRecord}]
    /\ \A a \in Actions : status[a] # "unknown" => record[a] \in Record
    /\ pc \in [Threads -> Pc]
    /\ req \in [Threads -> Request \cup {NoRequest}]
    /\ \A t \in Threads : pc[t] # "idle" => req[t] \in Request
    /\ verdict \in [Actions -> Verdicts]
    /\ runs \in [Actions -> Nat]
    /\ orphans \subseteq Actions

-----------------------------------------------------------------------------
(* The store's own operators.                                              *)

Expired(a) == now - record[a].created > Expiry

\* asdict() and json.dump() turn a PrincipalContext into a JSON object.
Persisted(args) == IF args = "principal_object" THEN "principal_dict" ELSE args

\* Mutants of decide(): it forgets that an action was consumed, that it was
\* approved, or to compare the sessions.
DecideAcceptsConsumed(a, s) ==
    /\ status[a] \in {"pending", "consumed"}
    /\ record[a].session = s
    /\ ~Expired(a)

DecideAcceptsApproved(a, s) ==
    /\ status[a] \in {"pending", "approved"}
    /\ record[a].session = s
    /\ ~Expired(a)

DecideAcceptsAnySession(a, s) ==
    /\ status[a] = "pending"
    /\ ~Expired(a)

\* ApprovalStore.decide(a, approved, s): does it accept the decision, and with
\* which status does it leave the record?
DecideAccepts(a, s) ==
    /\ status[a] = "pending"
    /\ record[a].session = s
    /\ ~Expired(a)

\* Mutant: a status the rest of the code does not know.
StatusAfterDecideDenied(a, s, approved) ==
    IF DecideAccepts(a, s) /\ ~approved THEN "denied" ELSE status[a]

StatusAfterDecide(a, s, approved) ==
    IF DecideAccepts(a, s)
      THEN IF approved THEN "approved" ELSE "rejected"
      ELSE IF status[a] = "pending" /\ record[a].session = s
             THEN "expired"
             ELSE status[a]

\* Mutant: consume() no longer looks at the clock.
ConsumeAcceptsExpired(a, s) ==
    /\ status[a] = "approved"
    /\ record[a].session = s
    /\ record[a].args = record[a].fingerprint

\* ApprovalStore.consume() with the arguments of the record that decide()
\* returned, i.e. as they were read back from the file.
ConsumeAccepts(a, s) ==
    /\ status[a] = "approved"
    /\ ~Expired(a)
    /\ record[a].session = s
    /\ record[a].args = record[a].fingerprint

\* Mutant: the consumption is not saved.
StatusAfterConsumeUnsaved(a, s) ==
    IF status[a] = "approved" /\ Expired(a) THEN "expired" ELSE status[a]

StatusAfterConsume(a, s) ==
    IF ConsumeAccepts(a, s)
      THEN "consumed"
      ELSE IF status[a] = "approved" /\ Expired(a) THEN "expired" ELSE status[a]

Pending(s) == {a \in Actions : /\ status[a] = "pending"
                               /\ ~Expired(a)
                               /\ record[a].session = s}

-----------------------------------------------------------------------------
(* The environment: time, grants and crashes.                              *)

Tick ==
    /\ now < MaxTime
    /\ now' = now + 1
    /\ UNCHANGED <<loggedIn, granted, storeVars, pc, req, runs, orphans>>

\* CapabilityGrantsStore.set_grants replaces a user's grants.
SetGrants ==
    /\ loggedIn
    /\ granted' \in SUBSET Capabilities
    /\ UNCHANGED <<loggedIn, now, storeVars, pc, req, runs, orphans>>

InFlight(a) == \E t \in Threads : pc[t] # "idle" /\ req[t].action = a

\* The server process dies: every request in flight is gone, the file stays.
Crash ==
    /\ \E t \in Threads : pc[t] # "idle"
    /\ pc' = [t \in Threads |-> "idle"]
    /\ req' = [t \in Threads |-> NoRequest]
    /\ orphans' = orphans \cup
         {a \in Actions : InFlight(a) /\ status[a] \in {"approved", "consumed"}}
    /\ UNCHANGED <<envVars, storeVars, runs>>

-----------------------------------------------------------------------------
(* Proposals.                                                              *)

\* ApprovalGate.execute_tool for a capability that needs approval, and
\* _propose_durable_gmail_approval for an action of a multi-action capability.
\* A grant is needed by everybody who is logged in; without a login the
\* legacy capabilities are open and the multi-action ones are not reachable.
\* A logged-in user's legacy arguments carry the PrincipalContext.
Allowed(c) == IF loggedIn THEN c \in granted ELSE c \in Legacy

Propose(a, c, s) ==
    LET args == IF loggedIn /\ c \in Legacy THEN "principal_object" ELSE "json"
    IN  /\ status[a] = "unknown"
        /\ Allowed(c)
        /\ status' = [status EXCEPT ![a] = "pending"]
        /\ record' = [record EXCEPT ![a] =
                        [session |-> s, capability |-> c,
                         args |-> Persisted(args), fingerprint |-> args,
                         created |-> now]]
        /\ UNCHANGED <<envVars, pc, req, verdict, runs, orphans>>

-----------------------------------------------------------------------------
(* A decision arrives.                                                     *)

Serve(t, request) ==
    /\ pc[t] = "idle"
    /\ pc' = [pc EXCEPT ![t] = "decide"]
    /\ req' = [req EXCEPT ![t] = request]
    /\ UNCHANGED <<envVars, storeVars, runs, orphans>>

\* POST /approve and POST /cancel, with any action id and any session.
PressButton(t, a, s, approved) ==
    Serve(t, [action |-> a, session |-> s, approved |-> approved,
              via |-> "button"])

\* A turn that says just "yes" or "no": resumes the one action pending in this
\* session; with none, or with several, it decides nothing.
SayYesOrNo(t, s, approved) ==
    /\ ResumptionEnabled
    /\ s # NoSession
    /\ Cardinality(Pending(s)) = 1
    /\ \E a \in Pending(s) :
        Serve(t, [action |-> a, session |-> s, approved |-> approved,
                  via |-> "message"])

-----------------------------------------------------------------------------
(* The calls a request makes, one per step.                                *)

Goto(t, next) ==
    /\ pc' = [pc EXCEPT ![t] = next]
    /\ req' = IF next = "idle" THEN [req EXCEPT ![t] = NoRequest] ELSE req

\* The call of ApprovalStore.decide; next is where the request goes when the
\* decision was accepted.  A refused decision ends the request with an error.
CallDecide(t, approved, next) ==
    LET a == req[t].action
        s == req[t].session
    IN  /\ status' = [status EXCEPT ![a] = StatusAfterDecide(a, s, approved)]
        /\ verdict' =
             IF DecideAccepts(a, s)
               THEN [verdict EXCEPT ![a] =
                       [answer |-> IF req[t].approved THEN "approved"
                                                       ELSE "rejected",
                        session |-> s]]
               ELSE verdict
        /\ Goto(t, IF DecideAccepts(a, s) THEN next ELSE "idle")
        /\ UNCHANGED <<envVars, record, runs, orphans>>

\* Mutant: the handler of /cancel calls decide() with approved=True.
DecideAlwaysApproves(t) ==
    /\ pc[t] = "decide"
    /\ CallDecide(t, TRUE, "consume")

\* The first decide().  A rejection is the end of the request.  An approval
\* goes on to consume(), except that a "yes" for a legacy action hands over to
\* ApprovalGate.decide(), which starts with decide() again.
Decide(t) ==
    /\ pc[t] = "decide"
    /\ CallDecide(t, req[t].approved,
         IF ~req[t].approved THEN "idle"
         ELSE IF /\ req[t].via = "message"
                 /\ record[req[t].action].capability \in Legacy
              THEN "redecide" ELSE "consume")

Redecide(t) ==
    /\ pc[t] = "redecide"
    /\ CallDecide(t, TRUE, "consume")

Consume(t) ==
    LET a == req[t].action
        s == req[t].session
    IN  /\ pc[t] = "consume"
        /\ status' = [status EXCEPT ![a] = StatusAfterConsume(a, s)]
        /\ Goto(t, IF ConsumeAccepts(a, s) THEN "dispatch" ELSE "idle")
        /\ UNCHANGED <<envVars, record, verdict, runs, orphans>>

\* Mutants: dispatch_explicit trusts the grant of the proposal; or every
\* consumed action is handed to dispatch_explicit.
ReachesUngranted(t) ==
    LET c == record[req[t].action].capability
    IN  IF req[t].via = "button" THEN c \in Legacy ELSE TRUE

ReachesMultiOnly(t) ==
    LET c == record[req[t].action].capability
    IN  c \in Multi /\ Allowed(c)

\* The dispatch of a consumed action.  A button ends in ToolDispatcher, which
\* knows only the legacy tools; a "yes" for a multi-action capability ends in
\* dispatch_explicit, which checks the grant once more.
Reaches(t) ==
    LET c == record[req[t].action].capability
    IN  IF req[t].via = "button" THEN c \in Legacy ELSE Allowed(c)

Dispatch(t) ==
    /\ pc[t] = "dispatch"
    /\ runs' = IF Reaches(t)
                 THEN [runs EXCEPT ![req[t].action] = @ + 1] ELSE runs
    /\ Goto(t, "idle")
    /\ UNCHANGED <<envVars, storeVars, orphans>>

-----------------------------------------------------------------------------
Init ==
    /\ loggedIn \in Contexts
    /\ granted = IF loggedIn THEN Capabilities ELSE {}
    /\ now = 0
    /\ status = [a \in Actions |-> "unknown"]
    /\ record = [a \in Actions |-> NoRecord]
    /\ pc = [t \in Threads |-> "idle"]
    /\ req = [t \in Threads |-> NoRequest]
    /\ verdict = [a \in Actions |-> NoVerdict]
    /\ runs = [a \in Actions |-> 0]
    /\ orphans = {}

\* What a thread that serves a request does next.
Work(t) == Decide(t) \/ Redecide(t) \/ Consume(t) \/ Dispatch(t)

Next ==
    \/ Tick
    \/ SetGrants
    \/ Crash
    \/ \E a \in Actions, c \in Capabilities, s \in SessionIds : Propose(a, c, s)
    \/ \E t \in Threads, s \in SessionIds, approved \in BOOLEAN :
        \/ \E a \in Actions : PressButton(t, a, s, approved)
        \/ SayYesOrNo(t, s, approved)
    \/ \E t \in Threads : Work(t)

Spec == Init /\ [][Next]_vars

\* A worker thread that has a call to make makes it; users, administrators and
\* the clock owe nothing.
FairSpec == Spec /\ \A t \in Threads : WF_vars(Work(t))

-----------------------------------------------------------------------------
(* Safety.                                                                 *)

Dispatching(t, a) == pc[t] = "dispatch" /\ req[t].action = a

\* Replay prevention (approval_store.py:26-28, 305-308): however many buttons
\* and messages race for one action, and wherever the server crashes, at most
\* one run of a capability comes of it, counting the run a thread is about to
\* start.
SingleUse ==
    \A a \in Actions :
        /\ runs[a] <= 1
        /\ runs[a] = 1 => \A t \in Threads : ~Dispatching(t, a)
        /\ \A t, u \in Threads : Dispatching(t, a) /\ Dispatching(u, a) => t = u

\* The inductive part of it, and what the proofs start from: the file agrees
\* with what the users decided and with what has run, and whoever dispatches
\* an action is alone with a consumed action that has not run yet.
StatusAgrees(a) ==
    /\ status[a] \in {"unknown", "pending"} => verdict[a].answer = "none"
    /\ status[a] \in {"approved", "consumed"} =>
          /\ verdict[a].answer = "approved"
          /\ verdict[a].session = record[a].session
    /\ status[a] # "consumed" => runs[a] = 0
    /\ runs[a] <= 1

DispatchAlone(t) ==
    pc[t] = "dispatch" =>
        /\ status[req[t].action] = "consumed"
        /\ runs[req[t].action] = 0
        /\ \A u \in Threads : Dispatching(u, req[t].action) => u = t

GateInv ==
    /\ \A a \in Actions : StatusAgrees(a)
    /\ \A t \in Threads : DispatchAlone(t)
    /\ \A t \in Threads : pc[t] = "redecide" => req[t].approved

\* An approval is bound to the session it was proposed in (approval_store.py:
\* 12-26): what runs, or is about to, was approved by a decision of the very
\* session that proposed it, and was never rejected.
RunsOnlyWhatItsSessionApproved ==
    \A a \in Actions :
        (runs[a] > 0 \/ \E t \in Threads : Dispatching(t, a)) =>
            /\ verdict[a].answer = "approved"
            /\ verdict[a].session = record[a].session

\* A decision is recorded once (approval_store.py:239-244): no later button,
\* message, crash or expiry changes what was decided for an action.
DecidedOnce ==
    [][\A a \in Actions :
        verdict[a].answer # "none" => verdict'[a] = verdict[a]]_vars

\* An approval cannot be banked (approval_store.py:59-63): once an action's
\* time is over, no request that is still under way can turn its approval
\* into permission to run.
NothingConsumedAfterExpiry ==
    [][\A a \in Actions :
        (status[a] \in {"pending", "approved"} /\ Expired(a)) =>
            status'[a] # "consumed"]_vars

\* The comment at decide() (approval_store.py:246-253) is concerned with an
\* action "permanently stranded" as approved: nobody can decide it again and
\* nobody will consume it.
Stranded(a) ==
    status[a] = "approved" /\ ~InFlight(a) /\ a \notin orphans

NoStrandedApproval == \A a \in Actions : ~Stranded(a)

\* The only ways the code has to strand an approved action: its arguments do
\* not survive the trip through the file, or the approval was a "yes" to a
\* legacy action.
StrandedOnlyBy ==
    \A a \in Actions :
        Stranded(a) =>
            \/ record[a].fingerprint # record[a].args
            \/ ResumptionEnabled /\ record[a].capability \in Legacy

\* POST /approve promises to execute what it accepts "immediately"
\* (server.py:2107-2112): an action that was consumed, and whose request has
\* ended without a crash, has run.
Unserved(a) ==
    status[a] = "consumed" /\ runs[a] = 0 /\ ~InFlight(a) /\ a \notin orphans

NoApprovalUnserved == \A a \in Actions : ~Unserved(a)

\* Only a multi-action capability can be left so: a button does not reach it,
\* and a "yes" reaches it only while it is granted.
UnservedOnlyIfMulti ==
    \A a \in Actions : Unserved(a) => record[a].capability \in Multi

\* A logged-in user's capability runs only while it is granted: the grant an
\* administrator withdrew after the proposal no longer counts.  For a
\* multi-action capability dispatch_explicit looks at the grant again
\* (multi_action_dispatch.py:232); for a legacy one nobody does, and it is the
\* fingerprint that never lets such an action get so far.
RunsOnlyWhileGranted ==
    [][\A a \in Actions :
        (loggedIn /\ runs'[a] > runs[a]) =>
            record[a].capability \in granted]_vars

(* Liveness, under FairSpec.                                               *)

\* A button press that approves a legacy action of the ambient context while
\* it is pending ends with the capability having run, or with the action
\* expired on the way, or with the server crashed under it.
ApprovalTakesEffect ==
    \A a \in Actions :
        (/\ status[a] = "approved"
         /\ ~loggedIn
         /\ \E t \in Threads : pc[t] = "consume" /\ req[t].action = a)
        ~> (runs[a] = 1 \/ status[a] = "expired" \/ a \in orphans)

-----------------------------------------------------------------------------
(* Refinement: the store's status is the action's standing.                *)

Contract == INSTANCE ApprovalContract WITH life <- status

ImplementsContract == Contract!ContractSpec

=============================================================================
