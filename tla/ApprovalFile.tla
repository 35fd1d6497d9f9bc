---------------------------- MODULE ApprovalFile ----------------------------
(***************************************************************************)
(* The file behind ApprovalStore (uri_core/core/approval_store.py).        *)
(*                                                                         *)
(* ApprovalGate.tla takes propose(), decide() and consume() as single      *)
(* steps.  They are not: each one loads the whole list from                *)
(* approvals.json, changes its own copy, truncates the file (open(...,     *)
(* "w")) and writes the copy back, with no lock and no temporary file.     *)
(* This module has one step for each of these, for the requests of several *)
(* threads, and a server that may die between any two of them.  A list     *)
(* that cannot be parsed loads as the empty list.                          *)
(*                                                                         *)
(* Requests are proposals and the two buttons; expiry, grants and the      *)
(* arguments are in ApprovalGate.tla.                                      *)
(***************************************************************************)
EXTENDS Naturals, FiniteSets

CONSTANTS
    Actions,    \* pool of action ids
    Sessions,   \* the session ids a client may send
    Threads,    \* worker threads serving this user's requests
    MaxApprovals,   \* bound: POST /approve is sent while fewer approvals of
                    \* the action have been accepted
    TORN        \* a file that does not parse: truncated or half written

ASSUME ApprovalsAssumption == MaxApprovals \in Nat

VARIABLES
    file,       \* approvals.json: a list of records, or TORN
    pc,         \* pc[t]: the next step of the request thread t serves
    req,        \* req[t]: that request
    local,      \* local[t]: t's own copy of the list, as it will be saved
    disturbed,  \* writers whose open file another writer has truncated
    proposed,   \* history: the ids handed out (a uuid4 is never reused)
    answers,    \* history: answers[a]: decisions the store reported for a
    cancelled,  \* history: actions whose POST /cancel succeeded while no other
                \* request for them was under way
    approvals,  \* history: how many requests had an approval of a accepted
    runs,       \* history: how often a capability ran on behalf of a
    overlapped, \* history: an operation has begun within another one
    cutShort    \* history: a save was cut short by a crash or an error

history == <<proposed, answers, cancelled, approvals, runs, overlapped,
             cutShort>>

vars == <<file, pc, req, local, disturbed, history>>

-----------------------------------------------------------------------------
Op      == {"propose", "approve", "reject", "consume"}
Status  == {"pending", "approved", "rejected", "consumed"}
Absent  == [status |-> "absent", session |-> "none"]
Records == [status : Status, session : Sessions] \cup {Absent}
Lists   == [Actions -> Records]
Empty   == [a \in Actions |-> Absent]
Request == [op : Op, action : Actions, session : Sessions]

ASSUME TornAssumption == TORN \notin Lists

\* One type invariant for the module; TORN occurs in the file only, since
\* _load() never returns it.
TypeOK ==
    /\ file \in Lists \cup {TORN}
    /\ pc \in [Threads -> {"idle", "load", "truncate", "write", "dispatch"}]
    /\ req \in [Threads -> Request \cup {TORN}]
    /\ \A t \in Threads : pc[t] # "idle" => req[t] \in Request
    /\ local \in [Threads -> Lists]
    /\ disturbed \subseteq {t \in Threads : pc[t] = "write"}
    /\ proposed \subseteq Actions
    /\ answers \in [Actions -> SUBSET {"approved", "rejected"}]
    /\ cancelled \subseteq Actions
    /\ approvals \in [Actions -> Nat]
    /\ runs \in [Actions -> Nat]
    /\ overlapped \in BOOLEAN
    /\ cutShort \in BOOLEAN

-----------------------------------------------------------------------------
(* What each operation accepts and what it changes in its copy.            *)

\* Mutant: decide() may be repeated.
AcceptsAgain(list, r) ==
    CASE r.op = "propose" -> TRUE
      [] r.op \in {"approve", "reject"} -> list[r.action].session = r.session
      [] r.op = "consume" ->
            list[r.action] = [status |-> "approved", session |-> r.session]

Accepts(list, r) ==
    CASE r.op = "propose" -> TRUE
      [] r.op \in {"approve", "reject"} ->
            list[r.action] = [status |-> "pending", session |-> r.session]
      [] r.op = "consume" ->
            list[r.action] = [status |-> "approved", session |-> r.session]

\* Mutant: the word of the response to POST /cancel instead of the status.
StatusAfterCancelled(op) ==
    CASE op = "propose" -> "pending"
      [] op = "approve" -> "approved"
      [] op = "reject"  -> "cancelled"
      [] op = "consume" -> "consumed"

StatusAfter(op) ==
    CASE op = "propose" -> "pending"
      [] op = "approve" -> "approved"
      [] op = "reject"  -> "rejected"
      [] op = "consume" -> "consumed"

-----------------------------------------------------------------------------
(* Requests arrive.                                                        *)

Arrive(t, op, a, s) ==
    /\ pc[t] = "idle"
    /\ pc' = [pc EXCEPT ![t] = "load"]
    /\ req' = [req EXCEPT ![t] = [op |-> op, action |-> a, session |-> s]]

Propose(t, a, s) ==
    /\ a \notin proposed
    /\ Arrive(t, "propose", a, s)
    /\ proposed' = proposed \cup {a}
    /\ UNCHANGED <<file, local, disturbed, answers, cancelled, approvals,
                   runs, overlapped, cutShort>>

PressButton(t, op, a, s) ==
    /\ op \in {"approve", "reject"}
    /\ a \in proposed
    /\ op = "approve" => approvals[a] < MaxApprovals
    /\ Arrive(t, op, a, s)
    /\ UNCHANGED <<file, local, disturbed, history>>

-----------------------------------------------------------------------------
(* The steps of one operation.                                             *)

Stop(t) ==
    /\ pc' = [pc EXCEPT ![t] = "idle"]
    /\ req' = [req EXCEPT ![t] = TORN]

\* Mutant: a rejection is answered but not recorded.
ChangedUnlessRejected(list, r) ==
    CASE r.op = "propose" -> [list EXCEPT ![r.action] =
              [status |-> "pending", session |-> r.session]]
      [] r.op = "reject" -> list
      [] OTHER -> [list EXCEPT ![r.action].status = StatusAfter(r.op)]

\* The list in memory after the operation, before it is saved.
Changed(list, r) ==
    IF r.op = "propose"
      THEN [list EXCEPT ![r.action] =
              [status |-> "pending", session |-> r.session]]
      ELSE [list EXCEPT ![r.action].status = StatusAfter(r.op)]

\* _load().
Stored == IF file = TORN THEN Empty ELSE file

\* The list is loaded and, if the checks accept it, changed in memory.
Load(t) ==
    /\ pc[t] = "load"
    /\ IF Accepts(Stored, req[t])
         THEN /\ local' = [local EXCEPT ![t] = Changed(Stored, req[t])]
              /\ pc' = [pc EXCEPT ![t] = "truncate"]
              /\ UNCHANGED req
         ELSE /\ Stop(t)
              /\ UNCHANGED local
    /\ overlapped' = (overlapped \/ \E u \in Threads :
                                       pc[u] \in {"truncate", "write"})
    /\ UNCHANGED <<file, disturbed, proposed, answers, cancelled, approvals,
                   runs, cutShort>>

Writers == {t \in Threads : pc[t] = "write"}

\* open(storage_path, "w") empties the file, also under those who write it.
Truncate(t) ==
    /\ pc[t] = "truncate"
    /\ file' = TORN
    /\ pc' = [pc EXCEPT ![t] = "write"]
    /\ disturbed' = IF Writers = {} THEN disturbed
                                    ELSE disturbed \cup Writers \cup {t}
    /\ UNCHANGED <<req, local, history>>

\* Mutant: the operation saves the record it changed and nothing else.
SavedAlone(t) ==
    LET a == req[t].action
    IN  {[Empty EXCEPT ![a] = local[t][a]]}

\* json.dump() and close.  Two files open at once may leave a mixture.
Saved(t) == IF t \in disturbed THEN {local[t], TORN} ELSE {local[t]}

\* Where the request goes when its operation is saved: decide(approved=True)
\* is followed by consume(), consume() by the dispatch.
AfterSave(t) ==
    CASE req[t].op = "approve" ->
            /\ pc' = [pc EXCEPT ![t] = "load"]
            /\ req' = [req EXCEPT ![t].op = "consume"]
      [] req[t].op = "consume" ->
            /\ pc' = [pc EXCEPT ![t] = "dispatch"]
            /\ UNCHANGED req
      [] OTHER -> Stop(t)

Write(t) ==
    LET a == req[t].action
    IN  /\ pc[t] = "write"
        /\ file' \in Saved(t)
        /\ disturbed' = disturbed \ {t}
        /\ answers' =
             IF req[t].op \in {"approve", "reject"}
               THEN [answers EXCEPT ![a] = @ \cup {StatusAfter(req[t].op)}]
               ELSE answers
        /\ cancelled' =
             IF /\ req[t].op = "reject"
                /\ \A u \in Threads \ {t} : pc[u] # "idle" => req[u].action # a
               THEN cancelled \cup {a} ELSE cancelled
        /\ approvals' = IF req[t].op = "approve"
                          THEN [approvals EXCEPT ![a] = @ + 1] ELSE approvals
        /\ AfterSave(t)
        /\ local' = [local EXCEPT ![t] = Empty]
        /\ UNCHANGED <<proposed, runs, overlapped, cutShort>>

Dispatch(t) ==
    /\ pc[t] = "dispatch"
    /\ runs' = [runs EXCEPT ![req[t].action] = @ + 1]
    /\ Stop(t)
    /\ UNCHANGED <<file, local, disturbed, proposed, answers, cancelled,
                   approvals, overlapped, cutShort>>

\* json.dump() raises, on a value or on a full disk: the request ends with the
\* error, and what is left of the file cannot be parsed.
SaveFails(t) ==
    /\ pc[t] = "write"
    /\ file' \in IF t \in disturbed THEN {file, TORN} ELSE {TORN}
    /\ disturbed' = disturbed \ {t}
    /\ local' = [local EXCEPT ![t] = Empty]
    /\ cutShort' = TRUE
    /\ Stop(t)
    /\ UNCHANGED <<proposed, answers, cancelled, approvals, runs, overlapped>>

\* The server dies and comes back: what is on the disk is all there is.
Crash ==
    /\ \E t \in Threads : pc[t] # "idle"
    /\ pc' = [t \in Threads |-> "idle"]
    /\ req' = [t \in Threads |-> TORN]
    /\ local' = [t \in Threads |-> Empty]
    /\ disturbed' = {}
    /\ cutShort' = (cutShort \/ Writers # {})
    /\ UNCHANGED <<file, proposed, answers, cancelled, approvals, runs,
                   overlapped>>

-----------------------------------------------------------------------------
Init ==
    /\ file = Empty
    /\ pc = [t \in Threads |-> "idle"]
    /\ req = [t \in Threads |-> TORN]
    /\ local = [t \in Threads |-> Empty]
    /\ disturbed = {}
    /\ proposed = {}
    /\ answers = [a \in Actions |-> {}]
    /\ cancelled = {}
    /\ approvals = [a \in Actions |-> 0]
    /\ runs = [a \in Actions |-> 0]
    /\ overlapped = FALSE
    /\ cutShort = FALSE

Step(t) == \/ Load(t) \/ Truncate(t) \/ Write(t) \/ SaveFails(t)
           \/ Dispatch(t)

Next ==
    \/ Crash
    \/ \E t \in Threads :
        \/ \E a \in Actions, s \in Sessions :
            \/ Propose(t, a, s)
            \/ \E op \in {"approve", "reject"} : PressButton(t, op, a, s)
        \/ Step(t)

Spec == Init /\ [][Next]_vars

-----------------------------------------------------------------------------
(* Safety.                                                                 *)

RunsOf(a) ==
    runs[a] + Cardinality({t \in Threads : pc[t] = "dispatch" /\
                                           req[t].action = a})

\* Consumption is single-use (approval_store.py:26-28): one approval is worth
\* at most one run, counting those about to start.
SingleUse == \A a \in Actions : RunsOf(a) <= 1

\* The same, as long as no operation has begun between the load and the save
\* of another one; a crash or an error in a save makes no difference.
SingleUseUnlessOverlap == ~overlapped => SingleUse

\* "The action is marked rejected and never executes" (server.py:2150-2154):
\* once POST /cancel has succeeded, and no other request for the action was
\* under way, no run of the action starts.
CancelledNeverRuns ==
    [][\A a \in cancelled : runs'[a] = runs[a]]_vars

\* The same, even with other requests for the action under way, as long as no
\* operation has begun within another one.
CancelledNeverRunsUnlessOverlap ==
    [][\A a \in Actions :
        "rejected" \in answers[a] /\ ~overlapped => runs'[a] = runs[a]]_vars

\* What a request was told the store still knows: a decision that was reported
\* is in the file whenever nobody is writing it, unless operations overlapped
\* or a save was cut short (approval_store.py:427-436 keeps no second copy).
DecisionsSurvive ==
    \A a \in Actions :
        (answers[a] # {} /\ Writers = {} /\ ~overlapped /\ ~cutShort) =>
            /\ file # TORN
            /\ IF "approved" \in answers[a]
                 THEN file[a].status \in {"approved", "consumed"}
                 ELSE file[a].status = "rejected"

-----------------------------------------------------------------------------
(* Refinement: an operation happens when its save is complete.  Until then *)
(* its callers know the list as it was before it.                          *)

StatusBefore(op) == IF op = "consume" THEN "approved" ELSE "pending"

Undone(list, r) ==
    IF r.op = "propose"
      THEN [list EXCEPT ![r.action] = Absent]
      ELSE [list EXCEPT ![r.action].status = StatusBefore(r.op)]

Known ==
    IF Writers = {}
      THEN Stored
      ELSE LET t == CHOOSE u \in Writers : TRUE IN Undone(local[t], req[t])

AboutToRun == {req[t].action : t \in {u \in Threads : pc[u] = "dispatch"}}

Store == INSTANCE ApprovalStore WITH records <- Known, due <- AboutToRun

\* Loading, truncating and writing the file is, for its callers, one step of an
\* atomic store that may lose everything in a save that is cut short: for as
\* long as no operation has begun within another one.
AtomicUnlessOverlap ==
    /\ Store!StoreInit
    /\ [][overlapped' \/ Store!StoreNext]_(Store!storeVars)

=============================================================================
