--------------------------- MODULE ApprovalStore ---------------------------
(***************************************************************************)
(* ApprovalStore (uri_core/core/approval_store.py) as its callers take it: *)
(* propose(), decide() and consume() each happen at one point in time and  *)
(* then are in the store, or are refused and change nothing.  That is how  *)
(* ApprovalGate.tla uses it.  The one thing its callers may meet besides   *)
(* is that a save was cut short: then the whole list is gone, for a list   *)
(* that cannot be parsed loads as the empty one.                           *)
(*                                                                         *)
(* ApprovalFile.tla, which loads, truncates and writes the file in steps   *)
(* of their own, implements this specification as long as no operation     *)
(* begins within another one.                                              *)
(***************************************************************************)
EXTENDS Naturals

CONSTANTS
    Actions,    \* pool of action ids
    Sessions    \* the session ids a client may send

VARIABLES
    records,    \* records[a]: status and session of action a
    answers,    \* answers[a]: the decisions that were reported for a
    due,        \* actions that were consumed and are about to run
    runs        \* runs[a]: how often a capability ran on behalf of a

storeVars == <<records, answers, due, runs>>

Absent == [status |-> "absent", session |-> "none"]

StoreInit ==
    /\ records = [a \in Actions |-> Absent]
    /\ answers = [a \in Actions |-> {}]
    /\ due = {}
    /\ runs = [a \in Actions |-> 0]

\* propose(): the id is new.
BeProposed(a, s) ==
    /\ records[a] = Absent
    /\ answers[a] = {}
    /\ records' = [records EXCEPT ![a] = [status |-> "pending", session |-> s]]
    /\ UNCHANGED <<answers, due, runs>>

\* decide(): the only way out of "pending", from the session that proposed it.
BeDecided(a, s, answer) ==
    /\ records[a] = [status |-> "pending", session |-> s]
    /\ records' = [records EXCEPT ![a].status = answer]
    /\ answers' = [answers EXCEPT ![a] = @ \cup {answer}]
    /\ UNCHANGED <<due, runs>>

\* consume(): an approval is turned into the permission to run once.
BeConsumed(a, s) ==
    /\ records[a] = [status |-> "approved", session |-> s]
    /\ records' = [records EXCEPT ![a].status = "consumed"]
    /\ due' = due \cup {a}
    /\ UNCHANGED <<answers, runs>>

Run(a) ==
    /\ a \in due
    /\ due' = due \ {a}
    /\ runs' = [runs EXCEPT ![a] = @ + 1]
    /\ UNCHANGED <<records, answers>>

\* A save was cut short, by an error or by the end of the server.
Lose ==
    /\ records' = [a \in Actions |-> Absent]
    /\ due' \in {due, {}}
    /\ UNCHANGED <<answers, runs>>

\* The server dies; what was about to run will not.
Restart ==
    /\ due' = {}
    /\ UNCHANGED <<records, answers, runs>>

StoreNext ==
    \/ \E a \in Actions :
        \/ \E s \in Sessions :
            \/ BeProposed(a, s)
            \/ \E answer \in {"approved", "rejected"} : BeDecided(a, s, answer)
            \/ BeConsumed(a, s)
        \/ Run(a)
    \/ Lose
    \/ Restart

StoreSpec == StoreInit /\ [][StoreNext]_storeVars

-----------------------------------------------------------------------------
\* "Consumption is single-use" (approval_store.py:26-28), also after the list
\* was lost: an action is about to run or has run once at most.
RunOnce == \A a \in Actions : runs[a] + (IF a \in due THEN 1 ELSE 0) <= 1

\* decide() answers for an action once, whatever was lost in between.
AnsweredOnce ==
    [][\A a \in Actions : answers[a] # {} => answers'[a] = answers[a]]_storeVars

\* An action whose rejection was reported does not run.
RejectedNeverRuns ==
    [][\A a \in Actions :
        "rejected" \in answers[a] => runs'[a] = runs[a]]_storeVars

=============================================================================
