-------------------------- MODULE ApprovalContract --------------------------
(***************************************************************************)
(* What URI promises about one proposed action, stated without requests,   *)
(* threads, clocks or files (uri_core/core/approval_store.py:12-33):       *)
(*                                                                         *)
(*   - an action is decided once, by an approval or by a rejection;        *)
(*   - only an approved action is consumed, and it is consumed once;       *)
(*   - a capability runs for an action only after that action was          *)
(*     consumed, and runs for it at most once;                             *)
(*   - what is not yet consumed may expire, and then never runs.           *)
(*                                                                         *)
(* ApprovalGate.tla is the detailed design; it implements this             *)
(* specification under the mapping given there.                            *)
(***************************************************************************)
EXTENDS Naturals

CONSTANT Actions        \* the action ids of one user's approvals.json

VARIABLES
    life,               \* life[a]: where action a stands
    runs                \* runs[a]: how often a capability ran for a

contractVars == <<life, runs>>

Life == {"unknown", "pending", "approved", "rejected", "consumed", "expired"}

ContractInit ==
    /\ life = [a \in Actions |-> "unknown"]
    /\ runs = [a \in Actions |-> 0]

\* a moves from one of the standings in From to the standing to.
Moves(a, From, to) ==
    /\ life[a] \in From
    /\ life' = [life EXCEPT ![a] = to]
    /\ UNCHANGED runs

BeProposed(a) == Moves(a, {"unknown"}, "pending")
BeApproved(a) == Moves(a, {"pending"}, "approved")
BeRejected(a) == Moves(a, {"pending"}, "rejected")
BeConsumed(a) == Moves(a, {"approved"}, "consumed")
BeExpired(a)  == Moves(a, {"pending", "approved"}, "expired")

Run(a) ==
    /\ life[a] = "consumed"
    /\ runs[a] = 0
    /\ runs' = [runs EXCEPT ![a] = 1]
    /\ UNCHANGED life

ContractNext ==
    \E a \in Actions :
        \/ BeProposed(a) \/ BeApproved(a) \/ BeRejected(a)
        \/ BeConsumed(a) \/ BeExpired(a)  \/ Run(a)

ContractSpec == ContractInit /\ [][ContractNext]_contractVars

=============================================================================
