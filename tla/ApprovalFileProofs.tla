------------------------- MODULE ApprovalFileProofs -------------------------
(***************************************************************************)
(* Theorems about ApprovalFile.                                            *)
(***************************************************************************)
EXTENDS ApprovalFile, FiniteSetTheorems, TLAPS

-----------------------------------------------------------------------------
(* The inductive invariant.                                                *)

\* t has a copy that it will save.
Saving(t) == pc[t] \in {"truncate", "write"}

\* A run of a has started or is about to.
Served(a) ==
    runs[a] # 0 \/ \E t \in Threads : pc[t] = "dispatch" /\ req[t].action = a

\* The answers that were given for an action with this status.
Said(status) ==
    CASE status = "pending"  -> {}
      [] status = "rejected" -> {"rejected"}
      [] OTHER               -> {"approved"}

\* The record of a agrees with what was answered and with what ran.
Agrees(record, a) ==
    record # Absent =>
        /\ answers[a] = Said(record.status)
        /\ Served(a) => record.status = "consumed"

FileInv == file # TORN => \A a \in Actions : Agrees(file[a], a)

\* Nobody saves a copy older than another one's.
AloneInv ==
    /\ \A t, u \in Threads : Saving(t) /\ Saving(u) => t = u
    /\ disturbed = {}

\* A copy differs from what is known in the operation that made it.
CopyInv(t) ==
    Saving(t) =>
        /\ local[t][req[t].action].status = StatusAfter(req[t].op)
        /\ answers[req[t].action] =
              IF req[t].op = "consume" THEN {"approved"} ELSE {}
        /\ ~Served(req[t].action)
        /\ \A b \in Actions \ {req[t].action} : Agrees(local[t][b], b)

UseInv(a) ==
    /\ runs[a] \in {0, 1}
    /\ Served(a) => answers[a] = {"approved"}
    /\ \A t \in Threads : pc[t] = "dispatch" /\ req[t].action = a =>
          /\ runs[a] = 0
          /\ \A u \in Threads : pc[u] = "dispatch" /\ req[u].action = a =>
                u = t

Proposing(t, a) ==
    /\ pc[t] \in {"load", "truncate", "write"}
    /\ req[t].op = "propose" /\ req[t].action = a

\* Nobody but the threads T has come across a.
Blank(a, T) ==
    /\ answers[a] = {}
    /\ ~Served(a)
    /\ file # TORN => file[a] = Absent
    /\ \A u \in Threads \ T :
          /\ Saving(u) => req[u].action # a /\ local[u][a] = Absent
          /\ ~Proposing(u, a)

NewInv ==
    /\ \A a \in Actions \ proposed : Blank(a, {})
    /\ \A t \in Threads, a \in Actions : Proposing(t, a) => Blank(a, {t})

\* An answer that was given is lost in a save that is cut short only.
LossInv ==
    ~cutShort =>
        /\ file = TORN => Writers # {}
        /\ \A a \in Actions : answers[a] # {} =>
              /\ file # TORN => file[a] # Absent
              /\ \A t \in Threads : Saving(t) => local[t][a] # Absent

\* All of it, for as long as no operation has begun within another one.
SequentialInv ==
    /\ FileInv
    /\ AloneInv
    /\ \A t \in Threads : CopyInv(t)
    /\ \A a \in Actions : UseInv(a)
    /\ NewInv
    /\ LossInv

Inv == TypeOK /\ (~overlapped => SequentialInv)

-----------------------------------------------------------------------------
(* Types.                                                                  *)

LEMMA EmptyTyped == Empty \in Lists /\ \A a \in Actions : Empty[a] = Absent
BY DEF Empty, Lists, Records

LEMMA Absence == Absent.status = "absent"
BY DEF Absent

\* What an operation makes of a list it accepts.
LEMMA ChangedTyped ==
    ASSUME NEW list \in Lists, NEW r \in Request, Accepts(list, r)
    PROVE  /\ Changed(list, r) \in Lists
           /\ Changed(list, r)[r.action].status = StatusAfter(r.op)
           /\ \A b \in Actions \ {r.action} : Changed(list, r)[b] = list[b]
<1>1. r.op \in Op /\ r.action \in Actions /\ r.session \in Sessions
    BY DEF Request
<1>2. CASE r.op = "propose"
  <2>1. Changed(list, r) = [list EXCEPT ![r.action] =
              [status |-> "pending", session |-> r.session]]
      BY <1>2 DEF Changed
  <2>2. [status |-> "pending", session |-> r.session] \in Records
      BY <1>1 DEF Records, Status
  <2>3. StatusAfter(r.op) = "pending"
      BY <1>2 DEF StatusAfter
  <2> QED
      BY <1>1, <2>1, <2>2, <2>3 DEF Lists
<1>3. CASE r.op # "propose"
  <2>1. Changed(list, r) = [list EXCEPT ![r.action].status =
                                StatusAfter(r.op)]
      BY <1>3 DEF Changed
  <2>2. /\ list[r.action] \in [status : Status, session : Sessions]
        /\ StatusAfter(r.op) \in Status
    <3>1. r.op \in {"approve", "reject", "consume"}
        BY <1>1, <1>3 DEF Op
    <3>2. \E s \in Status : list[r.action] = [status |-> s,
                                               session |-> r.session]
        BY <3>1 DEF Accepts, Status
    <3>3. StatusAfter(r.op) \in Status
        BY <3>1 DEF StatusAfter, Status
    <3> QED
        BY <1>1, <3>2, <3>3
  <2>3. [list[r.action] EXCEPT !.status = StatusAfter(r.op)] \in Records
      BY <2>2 DEF Records
  <2>4. Changed(list, r) = [list EXCEPT ![r.action] =
                    [list[r.action] EXCEPT !.status = StatusAfter(r.op)]]
      BY <2>1
  <2> QED
      BY <1>1, <2>2, <2>3, <2>4 DEF Lists
<1> QED
    BY <1>2, <1>3

\* Where a request goes after its save.
LEMMA SaveEnds ==
    ASSUME TypeOK, NEW t \in Threads, pc[t] = "write", AfterSave(t)
    PROVE  /\ \E p \in {"idle", "load", "dispatch"},
                 q \in Request \cup {TORN} :
                 /\ pc' = [pc EXCEPT ![t] = p] /\ req' = [req EXCEPT ![t] = q]
                 /\ p # "idle" => q \in Request /\ q.action = req[t].action
                 /\ req[t].op = "approve" => p = "load" /\ q.op = "consume"
                 /\ req[t].op = "consume" => p = "dispatch"
                 /\ req[t].op \in {"propose", "reject"} => p = "idle"
<1>1. req[t] \in Request
    BY DEF TypeOK
<1>2. CASE req[t].op = "approve"
  <2>1. [req[t] EXCEPT !.op = "consume"] \in Request
      BY <1>1 DEF Request, Op
  <2>2. /\ pc' = [pc EXCEPT ![t] = "load"]
        /\ req' = [req EXCEPT ![t] = [req[t] EXCEPT !.op = "consume"]]
      BY <1>2 DEF AfterSave
  <2> QED
      BY <1>1, <1>2, <2>1, <2>2 DEF Request
<1>3. CASE req[t].op = "consume"
  <2>1. pc' = [pc EXCEPT ![t] = "dispatch"] /\ req' = req
      BY <1>3 DEF AfterSave
  <2>2. req' = [req EXCEPT ![t] = req[t]]
      BY <2>1 DEF TypeOK
  <2> QED
      BY <1>1, <1>3, <2>1, <2>2
<1>4. CASE req[t].op \notin {"approve", "consume"}
  <2>1. Stop(t)
      BY <1>4 DEF AfterSave
  <2> QED
      BY <1>4, <2>1 DEF Stop
<1> QED
    BY <1>2, <1>3, <1>4

LEMMA TypeStep == TypeOK /\ [Next]_vars => TypeOK'
<1> SUFFICES ASSUME TypeOK, [Next]_vars PROVE TypeOK'
    OBVIOUS
<1>1. CASE UNCHANGED vars
    BY <1>1 DEF vars, history, TypeOK
<1>2. CASE Crash
    BY <1>2, EmptyTyped DEF Crash, TypeOK
<1>3. ASSUME NEW t \in Threads, NEW a \in Actions, NEW s \in Sessions,
             NEW op \in Op, Arrive(t, op, a, s),
             UNCHANGED <<file, local, disturbed, answers, cancelled,
                         approvals, runs, overlapped, cutShort>>,
             proposed' \subseteq Actions
      PROVE  TypeOK'
  <2>1. [op |-> op, action |-> a, session |-> s] \in Request
      BY DEF Request
  <2> QED
      BY <1>3, <2>1 DEF Arrive, TypeOK
<1>4. ASSUME NEW t \in Threads, NEW a \in Actions, NEW s \in Sessions,
             Propose(t, a, s)
      PROVE  TypeOK'
    BY <1>3, <1>4 DEF Propose, Op, TypeOK
<1>5. ASSUME NEW t \in Threads, NEW a \in Actions, NEW s \in Sessions,
             NEW op \in {"approve", "reject"}, PressButton(t, op, a, s)
      PROVE  TypeOK'
    BY <1>3, <1>5 DEF PressButton, Op, TypeOK, history
<1>6. ASSUME NEW t \in Threads, Load(t)
      PROVE  TypeOK'
  <2> DEFINE list == Stored
  <2>1. list \in Lists /\ req[t] \in Request
      BY <1>6, EmptyTyped DEF TypeOK, Load, Stored
  <2>2. CASE Accepts(list, req[t])
    <3>1. Changed(list, req[t]) \in Lists
        BY <2>1, <2>2, ChangedTyped
    <3>2. /\ local' = [local EXCEPT ![t] = Changed(list, req[t])]
          /\ pc' = [pc EXCEPT ![t] = "truncate"]
          /\ UNCHANGED <<file, req, disturbed, proposed, answers, cancelled,
                         approvals, runs, cutShort>>
        BY <1>6, <2>2 DEF Load
    <3>3. pc[t] = "load" /\ overlapped' \in BOOLEAN
        BY <1>6 DEF Load, TypeOK
    <3> HIDE DEF list
    <3> QED
        BY <2>1, <3>1, <3>2, <3>3 DEF TypeOK
  <2>3. CASE ~Accepts(list, req[t])
    <3>1. /\ pc' = [pc EXCEPT ![t] = "idle"]
          /\ req' = [req EXCEPT ![t] = TORN]
          /\ UNCHANGED <<file, local, disturbed, proposed, answers,
                         cancelled, approvals, runs, cutShort>>
        BY <1>6, <2>3 DEF Load, Stop
    <3>2. pc[t] = "load" /\ overlapped' \in BOOLEAN
        BY <1>6 DEF Load, TypeOK
    <3> QED
        BY <3>1, <3>2 DEF TypeOK
  <2> QED
      BY <2>2, <2>3
<1>7. ASSUME NEW t \in Threads, Truncate(t)
      PROVE  TypeOK'
    BY <1>7 DEF Truncate, TypeOK, history, Writers
<1>8. ASSUME NEW t \in Threads, Write(t)
      PROVE  TypeOK'
  <2>1. pc[t] = "write" /\ req[t] \in Request
      BY <1>8 DEF Write, TypeOK
  <2>2. PICK p \in {"idle", "load", "dispatch"}, q \in Request \cup {TORN} :
              /\ pc' = [pc EXCEPT ![t] = p] /\ req' = [req EXCEPT ![t] = q]
              /\ p # "idle" => q \in Request
      BY <1>8, <2>1, SaveEnds DEF Write
  <2>3. file' \in Lists \cup {TORN}
      BY <1>8 DEF Write, Saved, TypeOK
  <2>4. /\ local' = [local EXCEPT ![t] = Empty]
        /\ disturbed' = disturbed \ {t}
        /\ UNCHANGED <<proposed, runs, overlapped, cutShort>>
      BY <1>8 DEF Write
  <2>5. req[t].action \in Actions /\ req[t].op \in Op
      BY <2>1 DEF Request
  <2>6. answers' \in [Actions -> SUBSET {"approved", "rejected"}]
    <3>1. req[t].op \in {"approve", "reject"} =>
              StatusAfter(req[t].op) \in {"approved", "rejected"}
        BY DEF StatusAfter
    <3> QED
        BY <1>8, <2>5, <3>1 DEF Write, TypeOK
  <2>7. cancelled' \subseteq Actions
      BY <1>8, <2>5 DEF Write, TypeOK
  <2>8. approvals' \in [Actions -> Nat]
      BY <1>8, <2>5 DEF Write, TypeOK
  <2>9. /\ pc' \in [Threads -> {"idle", "load", "truncate", "write",
                                "dispatch"}]
        /\ req' \in [Threads -> Request \cup {TORN}]
        /\ \A u \in Threads : pc'[u] # "idle" => req'[u] \in Request
      BY <2>2 DEF TypeOK
  <2>10. local' \in [Threads -> Lists]
      BY <2>4, EmptyTyped DEF TypeOK
  <2>11. disturbed' \subseteq {u \in Threads : pc'[u] = "write"}
      BY <2>2, <2>4 DEF TypeOK
  <2> QED
      BY <2>3, <2>4, <2>6, <2>7, <2>8, <2>9, <2>10, <2>11 DEF TypeOK
<1>9. ASSUME NEW t \in Threads, SaveFails(t)
      PROVE  TypeOK'
    BY <1>9, EmptyTyped DEF SaveFails, Stop, TypeOK
<1>10. ASSUME NEW t \in Threads, Dispatch(t)
       PROVE  TypeOK'
  <2>1. req[t].action \in Actions
      BY <1>10 DEF Dispatch, TypeOK, Request
  <2> QED
      BY <1>10, <2>1 DEF Dispatch, Stop, TypeOK
<1> QED
    BY <1>1, <1>2, <1>4, <1>5, <1>6, <1>7, <1>8, <1>9, <1>10 DEF Next, Step

-----------------------------------------------------------------------------
(* The steps of a request, without overlap.                                *)

\* A request arrives.
LEMMA ArriveStep ==
    ASSUME TypeOK, SequentialInv,
           NEW t \in Threads, NEW op \in Op, NEW b \in Actions,
           NEW s \in Sessions, Arrive(t, op, b, s),
           UNCHANGED <<file, local, disturbed, answers, runs, cutShort>>,
           \/ op # "propose" /\ b \in proposed /\ proposed' = proposed
           \/ b \notin proposed /\ proposed' = proposed \cup {b}
    PROVE  SequentialInv'
<1>1. /\ pc[t] = "idle" /\ pc'[t] = "load"
      /\ req'[t] = [op |-> op, action |-> b, session |-> s]
      /\ \A u \in Threads \ {t} : pc'[u] = pc[u] /\ req'[u] = req[u]
    BY DEF Arrive, TypeOK
<1>2. \A u \in Threads : /\ Saving(u)' <=> Saving(u)
                         /\ pc'[u] = "dispatch" <=> pc[u] = "dispatch"
                         /\ pc'[u] = "write" <=> pc[u] = "write"
                         /\ Saving(u) \/ pc[u] = "dispatch" =>
                               req'[u] = req[u]
    BY <1>1 DEF Saving
<1>3. \A a \in Actions : Served(a)' <=> Served(a)
    BY <1>2 DEF Served
<1>4. FileInv'
    BY <1>3 DEF SequentialInv, FileInv, Agrees
<1>5. AloneInv'
    BY <1>2 DEF SequentialInv, AloneInv
<1>6. ASSUME NEW u \in Threads PROVE CopyInv(u)'
  <2>1. Saving(u) => req[u].action \in Actions
      BY DEF TypeOK, Saving, Request
  <2> QED
      BY <1>2, <1>3, <2>1 DEF SequentialInv, CopyInv, Agrees
<1>7. ASSUME NEW a \in Actions PROVE UseInv(a)'
    BY <1>2, <1>3 DEF SequentialInv, UseInv
<1>8. NewInv'
  <2>1. ASSUME NEW a \in Actions, NEW T, Blank(a, T), t \in T \/ a # b
        PROVE  Blank(a, T)'
    <3>1. \A u \in Threads \ T : Proposing(u, a)' => Proposing(u, a)
        BY <1>1, <2>1 DEF Proposing
    <3> QED
        BY <1>2, <1>3, <2>1, <3>1 DEF Blank
  <2>2. ASSUME NEW a \in Actions \ proposed' PROVE Blank(a, {})'
      BY <2>1 DEF SequentialInv, NewInv
  <2>3. ASSUME NEW u \in Threads, NEW a \in Actions, Proposing(u, a)'
        PROVE  Blank(a, {u})'
    <3>1. CASE u = t
      <4>1. a = b /\ op = "propose"
          BY <1>1, <2>3, <3>1 DEF Proposing
      <4>2. Blank(a, {t})
          BY <4>1 DEF SequentialInv, NewInv, Blank
      <4> QED
          BY <2>1, <3>1, <4>2
    <3>2. CASE u # t
      <4>1. Proposing(u, a)
          BY <1>1, <2>3, <3>2 DEF Proposing
      <4>2. Blank(a, {u})
          BY <4>1 DEF SequentialInv, NewInv
      <4>3. op = "propose" => a # b
          BY <4>1 DEF SequentialInv, NewInv, Blank
      <4>4. ~Proposing(t, a)'
          BY <1>1, <4>3 DEF Proposing
      <4>5. \A v \in Threads \ {u} : Proposing(v, a)' => Proposing(v, a)
          BY <1>1, <4>4 DEF Proposing
      <4> QED
          BY <1>2, <1>3, <4>2, <4>5 DEF Blank
    <3> QED
        BY <3>1, <3>2
  <2> QED
      BY <2>2, <2>3 DEF NewInv
<1>9. LossInv'
    BY <1>2 DEF SequentialInv, LossInv, Writers
<1> QED
    BY <1>4, <1>5, <1>6, <1>7, <1>8, <1>9 DEF SequentialInv

\* A request ends before it has a copy.
LEMMA StopStep ==
    ASSUME TypeOK, SequentialInv, NEW t \in Threads, pc[t] = "load", Stop(t),
           UNCHANGED <<file, local, disturbed, answers, proposed, runs,
                       cutShort>>
    PROVE  SequentialInv'
<1>1. /\ pc'[t] = "idle"
      /\ \A u \in Threads \ {t} : pc'[u] = pc[u] /\ req'[u] = req[u]
    BY DEF Stop, TypeOK
<1>2. \A u \in Threads : /\ Saving(u)' <=> Saving(u)
                         /\ pc'[u] = "dispatch" <=> pc[u] = "dispatch"
                         /\ pc'[u] = "write" <=> pc[u] = "write"
                         /\ Saving(u) \/ pc[u] = "dispatch" =>
                               req'[u] = req[u]
    BY <1>1 DEF Saving
<1>3. \A a \in Actions : Served(a)' <=> Served(a)
    BY <1>2 DEF Served
<1>4. FileInv'
    BY <1>3 DEF SequentialInv, FileInv, Agrees
<1>5. AloneInv'
    BY <1>2 DEF SequentialInv, AloneInv
<1>6. ASSUME NEW u \in Threads PROVE CopyInv(u)'
  <2>1. Saving(u) => req[u].action \in Actions
      BY DEF TypeOK, Saving, Request
  <2> QED
      BY <1>2, <1>3, <2>1 DEF SequentialInv, CopyInv, Agrees
<1>7. ASSUME NEW a \in Actions PROVE UseInv(a)'
    BY <1>2, <1>3 DEF SequentialInv, UseInv
<1>8. NewInv'
  <2>1. \A u \in Threads, a \in Actions : Proposing(u, a)' => Proposing(u, a)
      BY <1>1 DEF Proposing
  <2>2. ASSUME NEW a \in Actions, NEW T, Blank(a, T) PROVE Blank(a, T)'
      BY <1>2, <1>3, <2>1, <2>2 DEF Blank
  <2> QED
      BY <2>1, <2>2 DEF SequentialInv, NewInv
<1>9. LossInv'
    BY <1>2 DEF SequentialInv, LossInv, Writers
<1> QED
    BY <1>4, <1>5, <1>6, <1>7, <1>8, <1>9 DEF SequentialInv

\* A request has loaded the list, nobody else having a copy, and changed it.
LEMMA LoadStep ==
    ASSUME TypeOK, SequentialInv, NEW t \in Threads, Load(t), ~overlapped'
    PROVE  SequentialInv'
<1> DEFINE list == Stored
<1>1. list \in Lists /\ req[t] \in Request /\ pc[t] = "load"
    BY EmptyTyped DEF TypeOK, Load, Stored
<1>2. \A u \in Threads : ~Saving(u)
    BY DEF Load, Saving
<1>3. UNCHANGED <<file, disturbed, proposed, answers, cancelled, approvals,
                  runs, cutShort>>
    BY DEF Load
<1>4. CASE ~Accepts(list, req[t])
    BY <1>1, <1>3, <1>4, StopStep DEF Load
<1>5. CASE Accepts(list, req[t])
  <2> DEFINE b == req[t].action
             copy == Changed(list, req[t])
  <2>1. /\ local' = [local EXCEPT ![t] = copy]
        /\ pc' = [pc EXCEPT ![t] = "truncate"]
        /\ req' = req
      BY <1>5 DEF Load
  <2>2. /\ copy[b].status = StatusAfter(req[t].op)
        /\ \A a \in Actions \ {b} : copy[a] = list[a]
        /\ copy \in Lists /\ b \in Actions
      BY <1>1, <1>5, ChangedTyped DEF Request
  <2>3. local'[t] = copy /\ pc'[t] = "truncate"
      BY <2>1 DEF TypeOK
  <2>4. \A u \in Threads \ {t} : pc'[u] = pc[u] /\ ~Saving(u)'
      BY <1>2, <2>1 DEF TypeOK, Saving
  <2>5. \A u \in Threads : pc'[u] = "dispatch" <=> pc[u] = "dispatch"
      BY <1>1, <2>3, <2>4
  <2>6. \A a \in Actions : Served(a)' <=> Served(a)
      BY <1>3, <2>1, <2>5 DEF Served
  <2>7. \A a \in Actions : Agrees(list[a], a)
      BY EmptyTyped DEF SequentialInv, FileInv, Agrees, Stored
  <2>8. /\ answers[b] = IF req[t].op = "consume" THEN {"approved"} ELSE {}
        /\ ~Served(b)
    <3>1. CASE req[t].op = "propose"
      <4>1. Blank(b, {t})
          BY <1>1, <2>2, <3>1 DEF SequentialInv, NewInv, Proposing
      <4> QED
          BY <3>1, <4>1 DEF Blank
    <3>2. CASE req[t].op \in {"approve", "reject"}
      <4>1. list[b] = [status |-> "pending", session |-> req[t].session]
          BY <1>5, <3>2 DEF Accepts
      <4>2. list[b].status = "pending"
          BY <4>1
      <4> QED
          BY <2>2, <2>7, <3>2, <4>2, Absence DEF Agrees, Said
    <3>3. CASE req[t].op = "consume"
      <4>1. list[b].status = "approved"
          BY <1>5, <3>3 DEF Accepts
      <4> QED
          BY <2>2, <2>7, <3>3, <4>1, Absence DEF Agrees, Said
    <3> QED
        BY <1>1, <3>1, <3>2, <3>3 DEF Request, Op
  <2> HIDE DEF list, b, copy
  <2>9. FileInv'
      BY <1>3, <2>6 DEF SequentialInv, FileInv, Agrees
  <2>10. AloneInv'
      BY <1>3, <2>4 DEF SequentialInv, AloneInv
  <2>11. ASSUME NEW u \in Threads PROVE CopyInv(u)'
    <3>1. CASE u = t
      <4>1. \A a \in Actions \ {b} : Agrees(local[t][a], a)'
          BY <1>3, <2>2, <2>3, <2>6, <2>7 DEF Agrees
      <4> QED
          BY <1>3, <2>1, <2>2, <2>3, <2>6, <2>8, <3>1, <4>1
          DEF CopyInv, b
    <3> QED
        BY <2>4, <3>1 DEF CopyInv
  <2>12. ASSUME NEW a \in Actions PROVE UseInv(a)'
      BY <1>3, <2>1, <2>5, <2>6 DEF SequentialInv, UseInv
  <2>13. NewInv'
    <3>1. \A u \in Threads, a \in Actions :
              Proposing(u, a)' <=> Proposing(u, a)
        BY <1>1, <2>1, <2>3, <2>4 DEF Proposing
    <3>2. ASSUME NEW a \in Actions, NEW T, Blank(a, T), t \in T \/ a # b
          PROVE  Blank(a, T)'
      <4>1. list[a] = Absent
          BY <3>2, EmptyTyped DEF Blank, list, Stored
      <4>2. t \notin T => req'[t].action # a /\ local'[t][a] = Absent
          BY <2>1, <2>2, <2>3, <3>2, <4>1 DEF b
      <4> QED
          BY <1>3, <2>4, <2>6, <3>1, <3>2, <4>2 DEF Blank
    <3>3. ASSUME NEW a \in Actions, NEW T, Blank(a, T), t \notin T
          PROVE  a # b
      <4>1. list[a] = Absent /\ ~Proposing(t, a)
          BY <3>3, EmptyTyped DEF Blank, list, Stored
      <4>2. a = b => req[t].op = "propose"
        <5>1. req[t].op \in {"approve", "reject", "consume"} =>
                  list[b].status \in {"pending", "approved"}
          <6>1. req[t].op \in {"approve", "reject"} =>
                    list[b] = [status |-> "pending",
                               session |-> req[t].session]
              BY <1>5 DEF Accepts, b
          <6>2. req[t].op = "consume" =>
                    list[b] = [status |-> "approved",
                               session |-> req[t].session]
              BY <1>5 DEF Accepts, b
          <6> QED
              BY <6>1, <6>2
        <5> QED
            BY <1>1, <4>1, <5>1, Absence DEF Request, Op
      <4> QED
          BY <1>1, <4>1, <4>2 DEF Proposing, b
    <3>4. ASSUME NEW a \in Actions, NEW T, Blank(a, T) PROVE Blank(a, T)'
        BY <3>2, <3>3, <3>4
    <3> QED
        BY <1>3, <3>1, <3>4 DEF SequentialInv, NewInv
  <2>14. LossInv'
    <3>1. ASSUME ~cutShort PROVE file # TORN
        BY <1>2, <3>1 DEF SequentialInv, LossInv, Writers, Saving
    <3>2. ASSUME NEW a \in Actions, answers[a] # {}, ~cutShort
          PROVE  copy[a] # Absent
      <4>1. list[a] # Absent
          BY <3>1, <3>2 DEF SequentialInv, LossInv, list, Stored
      <4>2. copy[b] # Absent
          BY <1>1, <2>2, Absence DEF StatusAfter, Request, Op
      <4> QED
          BY <2>2, <4>1, <4>2
    <3> QED
        BY <1>3, <2>3, <2>4, <3>1, <3>2 DEF SequentialInv, LossInv
  <2> QED
      BY <2>9, <2>10, <2>11, <2>12, <2>13, <2>14 DEF SequentialInv
<1> QED
    BY <1>4, <1>5

\* A save fails: the file is torn, and the only copy is gone.
LEMMA FailStep ==
    ASSUME TypeOK, SequentialInv, NEW t \in Threads, SaveFails(t)
    PROVE  SequentialInv'
<1>1. /\ pc[t] = "write" /\ pc'[t] = "idle" /\ file' = TORN /\ cutShort'
      /\ disturbed' = {}
      /\ \A u \in Threads \ {t} : pc'[u] = pc[u] /\ req'[u] = req[u]
      /\ UNCHANGED <<proposed, answers, runs>>
    BY DEF SaveFails, Stop, TypeOK, SequentialInv, AloneInv
<1>2. \A u \in Threads : /\ ~Saving(u)'
                         /\ pc'[u] = "dispatch" <=> pc[u] = "dispatch"
                         /\ pc[u] = "dispatch" => req'[u] = req[u]
    BY <1>1 DEF SequentialInv, AloneInv, Saving
<1>3. \A a \in Actions : Served(a)' <=> Served(a)
    BY <1>1, <1>2 DEF Served
<1>4. FileInv' /\ AloneInv' /\ LossInv'
    BY <1>1, <1>2 DEF FileInv, AloneInv, LossInv
<1>5. ASSUME NEW u \in Threads PROVE CopyInv(u)'
    BY <1>2 DEF CopyInv
<1>6. ASSUME NEW a \in Actions PROVE UseInv(a)'
    BY <1>1, <1>2, <1>3 DEF SequentialInv, UseInv
<1>7. NewInv'
  <2>1. \A u \in Threads, a \in Actions : Proposing(u, a)' => Proposing(u, a)
      BY <1>1 DEF Proposing
  <2>2. ASSUME NEW a \in Actions, NEW T, Blank(a, T) PROVE Blank(a, T)'
      BY <1>1, <1>2, <1>3, <2>1, <2>2 DEF Blank
  <2> QED
      BY <1>1, <2>1, <2>2 DEF SequentialInv, NewInv
<1> QED
    BY <1>4, <1>5, <1>6, <1>7 DEF SequentialInv

LEMMA TruncateStep ==
    ASSUME TypeOK, SequentialInv, NEW t \in Threads, Truncate(t)
    PROVE  SequentialInv'
<1>1. /\ pc[t] = "truncate" /\ pc'[t] = "write" /\ file' = TORN
      /\ \A u \in Threads \ {t} : pc'[u] = pc[u]
      /\ UNCHANGED <<req, local, proposed, answers, runs, cutShort>>
    BY DEF Truncate, TypeOK, history
<1>2. \A u \in Threads : /\ Saving(u)' <=> Saving(u)
                         /\ pc'[u] = "dispatch" <=> pc[u] = "dispatch"
    BY <1>1 DEF Saving
<1>3. \A a \in Actions : Served(a)' <=> Served(a)
    BY <1>1, <1>2 DEF Served
<1>4. FileInv'
    BY <1>1 DEF FileInv
<1>5. AloneInv'
  <2>1. Writers = {}
      BY <1>1 DEF SequentialInv, AloneInv, Writers, Saving
  <2> QED
      BY <1>2, <2>1 DEF SequentialInv, AloneInv, Truncate
<1>6. ASSUME NEW u \in Threads PROVE CopyInv(u)'
  <2>1. Saving(u) => req[u].action \in Actions
      BY DEF TypeOK, Saving, Request
  <2> QED
      BY <1>1, <1>2, <1>3, <2>1 DEF SequentialInv, CopyInv, Agrees
<1>7. ASSUME NEW a \in Actions PROVE UseInv(a)'
    BY <1>1, <1>2, <1>3 DEF SequentialInv, UseInv
<1>8. NewInv'
  <2>1. \A u \in Threads, a \in Actions : Proposing(u, a)' <=> Proposing(u, a)
      BY <1>1 DEF Proposing
  <2>2. ASSUME NEW a \in Actions, NEW T, Blank(a, T) PROVE Blank(a, T)'
      BY <1>1, <1>2, <1>3, <2>1, <2>2 DEF Blank
  <2> QED
      BY <1>1, <2>1, <2>2 DEF SequentialInv, NewInv
<1>9. LossInv'
  <2>1. t \in Writers'
      BY <1>1 DEF Writers
  <2> QED
      BY <1>1, <1>2, <2>1 DEF SequentialInv, LossInv
<1> QED
    BY <1>4, <1>5, <1>6, <1>7, <1>8, <1>9 DEF SequentialInv

LEMMA WriteStep ==
    ASSUME TypeOK, SequentialInv, NEW t \in Threads, Write(t)
    PROVE  SequentialInv'
<1>0. pc[t] = "write" /\ req[t] \in Request
    BY DEF Write, TypeOK
<1> PICK b \in Actions, op \in Op : b = req[t].action /\ op = req[t].op
    BY <1>0 DEF Request
<1>1. pc[t] = "write" /\ Saving(t)
    BY <1>0 DEF Saving
<1>2. /\ file' = local[t] /\ disturbed' = {}
      /\ UNCHANGED <<proposed, runs, overlapped, cutShort>>
      /\ local[t] \in Lists
    BY DEF Write, Saved, SequentialInv, AloneInv, TypeOK
<1>3. PICK p \in {"idle", "load", "dispatch"}, q \in Request \cup {TORN} :
              /\ pc' = [pc EXCEPT ![t] = p] /\ req' = [req EXCEPT ![t] = q]
              /\ p # "idle" => q \in Request /\ q.action = b
              /\ op = "approve" => p = "load" /\ q.op = "consume"
              /\ op = "consume" => p = "dispatch"
              /\ op \in {"propose", "reject"} => p = "idle"
    BY <1>1, SaveEnds DEF Write
<1>4. /\ pc'[t] = p /\ req'[t] = q
      /\ \A u \in Threads \ {t} : pc'[u] = pc[u] /\ req'[u] = req[u]
    BY <1>3 DEF TypeOK
<1>5. \A u \in Threads : ~Saving(u)' /\ (u # t => ~Saving(u))
    BY <1>1, <1>4 DEF SequentialInv, AloneInv, Saving
<1>6. /\ \A a \in Actions \ {b} : answers'[a] = answers[a]
      /\ answers'[b] = Said(local[t][b].status)
  <2>1. /\ local[t][b].status = StatusAfter(op)
        /\ answers[b] = IF op = "consume" THEN {"approved"} ELSE {}
      BY <1>1 DEF SequentialInv, CopyInv
  <2>2. CASE op \in {"approve", "reject"}
    <3>1. answers' = [answers EXCEPT ![b] = @ \cup {StatusAfter(op)}]
        BY <2>2 DEF Write
    <3>2. answers'[b] = {StatusAfter(op)}
        BY <1>1, <2>1, <2>2, <3>1 DEF TypeOK
    <3>3. \A a \in Actions \ {b} : answers'[a] = answers[a]
        BY <3>1 DEF TypeOK
    <3>4. Said(StatusAfter(op)) = {StatusAfter(op)}
        BY <2>2 DEF Said, StatusAfter
    <3> QED
        BY <2>1, <3>2, <3>3, <3>4
  <2>3. CASE op \in {"propose", "consume"}
    <3>1. answers' = answers
        BY <2>3 DEF Write
    <3> QED
        BY <2>1, <2>3, <3>1 DEF Said, StatusAfter
  <2> QED
      BY <1>1, <2>2, <2>3 DEF Op
<1>7. ~Served(b) /\ local[t][b].status = StatusAfter(op)
    BY <1>1 DEF SequentialInv, CopyInv
<1>8. \A a \in Actions \ {b} : Served(a)' <=> Served(a)
    BY <1>1, <1>2, <1>3, <1>4 DEF Served
<1>9. /\ Served(b)' => op = "consume" /\ pc'[t] = "dispatch"
      /\ \A u \in Threads :
            pc'[u] = "dispatch" /\ req'[u].action = b => u = t
  <2>1. \A u \in Threads \ {t} : ~(pc[u] = "dispatch" /\ req[u].action = b)
      BY <1>7 DEF Served
  <2>2. runs[b] = 0
      BY <1>7 DEF Served
  <2>3. p = "dispatch" => op = "consume"
      BY <1>1, <1>3 DEF Op
  <2> QED
      BY <1>2, <1>4, <2>1, <2>2, <2>3 DEF Served
<1>10. op = "consume" => StatusAfter(op) = "consumed"
    BY DEF StatusAfter
<1>11. FileInv'
  <2>1. ASSUME NEW a \in Actions \ {b} PROVE Agrees(file[a], a)'
    <3>1. Agrees(local[t][a], a)
        BY <1>1 DEF SequentialInv, CopyInv
    <3> QED
        BY <1>2, <1>6, <1>8, <3>1 DEF FileInv, Agrees
  <2> QED
      BY <1>2, <1>6, <1>7, <1>9, <1>10, <2>1 DEF FileInv, Agrees
<1>12. AloneInv'
    BY <1>2, <1>5 DEF AloneInv
<1>13. ASSUME NEW u \in Threads PROVE CopyInv(u)'
    BY <1>5 DEF CopyInv
<1>14. ASSUME NEW a \in Actions PROVE UseInv(a)'
  <2>1. CASE a = b
    <3>1. Served(b)' => answers'[b] = {"approved"}
        BY <1>6, <1>7, <1>9, <1>10 DEF Said
    <3>2. runs[b] = 0
        BY <1>7 DEF Served
    <3> QED
        BY <1>2, <1>9, <2>1, <3>1, <3>2 DEF UseInv
  <2>2. CASE a # b
    <3>1. \A u \in Threads : pc'[u] = "dispatch" /\ req'[u].action = a =>
              pc[u] = "dispatch" /\ req[u].action = a
        BY <1>3, <1>4, <2>2
    <3> QED
        BY <1>2, <1>6, <1>8, <2>2, <3>1 DEF SequentialInv, UseInv
  <2> QED
      BY <2>1, <2>2
<1>15. NewInv'
  <2>1. \A u \in Threads, a \in Actions :
            Proposing(u, a)' => Proposing(u, a) /\ u # t
      BY <1>1, <1>3, <1>4 DEF Proposing, Op
  <2>2. ASSUME NEW a \in Actions, NEW T, Blank(a, T), t \notin T
        PROVE  Blank(a, T)'
    <3>1. a # b /\ local[t][a] = Absent
        BY <1>1, <2>2 DEF Blank
    <3> QED
        BY <1>2, <1>5, <1>6, <1>8, <2>1, <2>2, <3>1 DEF Blank
  <2> QED
      BY <1>2, <2>1, <2>2 DEF SequentialInv, NewInv
<1>16. LossInv'
  <2>1. local[t][b] # Absent
      BY <1>1, <1>7, Absence DEF StatusAfter, Op
  <2>2. ASSUME ~cutShort PROVE local[t] # TORN
      BY <1>2, TornAssumption
  <2> QED
      BY <1>1, <1>2, <1>5, <1>6, <2>1, <2>2 DEF SequentialInv, LossInv
<1> QED
    BY <1>11, <1>12, <1>13, <1>14, <1>15, <1>16 DEF SequentialInv

LEMMA DispatchStep ==
    ASSUME TypeOK, SequentialInv, NEW t \in Threads, Dispatch(t)
    PROVE  SequentialInv'
<1>0. pc[t] = "dispatch" /\ req[t] \in Request
    BY DEF Dispatch, TypeOK
<1> PICK b \in Actions : b = req[t].action
    BY <1>0 DEF Request
<1>1. /\ pc'[t] = "idle" /\ req'[t] = TORN
      /\ \A u \in Threads \ {t} : pc'[u] = pc[u] /\ req'[u] = req[u]
      /\ UNCHANGED <<file, local, disturbed, proposed, answers, cutShort>>
    BY DEF Dispatch, Stop, TypeOK
<1>2. /\ runs'[b] = runs[b] + 1
      /\ \A a \in Actions \ {b} : runs'[a] = runs[a]
    BY DEF Dispatch, TypeOK
<1>3. \A u \in Threads : /\ Saving(u)' <=> Saving(u)
                         /\ pc'[u] = "write" <=> pc[u] = "write"
                         /\ Saving(u) => req'[u] = req[u]
    BY <1>0, <1>1 DEF Saving
<1>4. /\ runs[b] = 0 /\ runs'[b] = 1 /\ Served(b)
      /\ \A u \in Threads : ~(pc'[u] = "dispatch" /\ req'[u].action = b)
    BY <1>0, <1>1, <1>2 DEF SequentialInv, UseInv, Served
<1>5. \A a \in Actions : Served(a)' <=> Served(a)
  <2>1. Served(b)'
      BY <1>4 DEF Served
  <2>2. ASSUME NEW a \in Actions \ {b} PROVE Served(a)' <=> Served(a)
    <3>1. \A u \in Threads : pc'[u] = "dispatch" /\ req'[u].action = a <=>
                             pc[u] = "dispatch" /\ req[u].action = a
        BY <1>1
    <3> QED
        BY <1>2, <3>1 DEF Served
  <2> QED
      BY <1>4, <2>1, <2>2
<1>6. FileInv'
    BY <1>1, <1>5 DEF SequentialInv, FileInv, Agrees
<1>7. AloneInv'
    BY <1>1, <1>3 DEF SequentialInv, AloneInv
<1>8. ASSUME NEW u \in Threads PROVE CopyInv(u)'
  <2>1. Saving(u) => req[u].action \in Actions
      BY DEF TypeOK, Saving, Request
  <2> QED
      BY <1>1, <1>3, <1>5, <2>1 DEF SequentialInv, CopyInv, Agrees
<1>9. ASSUME NEW a \in Actions PROVE UseInv(a)'
    BY <1>1, <1>2, <1>4, <1>5 DEF SequentialInv, UseInv
<1>10. NewInv'
  <2>1. \A u \in Threads, a \in Actions : Proposing(u, a)' => Proposing(u, a)
      BY <1>0, <1>1 DEF Proposing
  <2>2. ASSUME NEW a \in Actions, NEW T, Blank(a, T) PROVE Blank(a, T)'
      BY <1>1, <1>3, <1>5, <2>1, <2>2 DEF Blank
  <2> QED
      BY <1>1, <2>1, <2>2 DEF SequentialInv, NewInv
<1>11. LossInv'
    BY <1>1, <1>3 DEF SequentialInv, LossInv, Writers
<1> QED
    BY <1>6, <1>7, <1>8, <1>9, <1>10, <1>11 DEF SequentialInv

\* After a crash the file is what it was, and nobody is at work.
LEMMA CrashStep ==
    ASSUME TypeOK, SequentialInv, Crash
    PROVE  SequentialInv'
<1>1. /\ \A t \in Threads : pc'[t] = "idle"
      /\ UNCHANGED <<file, proposed, answers, runs>> /\ disturbed' = {}
      /\ ~cutShort' => ~cutShort /\ Writers = {}
    BY DEF Crash
<1>2. \A t \in Threads : ~Saving(t)'
    BY <1>1 DEF Saving
<1>3. \A a \in Actions : Served(a)' => Served(a)
    BY <1>1 DEF Served
<1>4. FileInv'
    BY <1>1, <1>3 DEF SequentialInv, FileInv, Agrees
<1>5. \A a \in Actions : UseInv(a)'
    BY <1>1, <1>3 DEF SequentialInv, UseInv
<1>6. NewInv'
  <2>1. \A u \in Threads, a \in Actions : ~Proposing(u, a)'
      BY <1>1 DEF Proposing
  <2> QED
      BY <1>1, <1>2, <1>3, <2>1 DEF SequentialInv, NewInv, Blank
<1>7. LossInv'
    BY <1>1, <1>2 DEF SequentialInv, LossInv
<1> QED
    BY <1>1, <1>2, <1>4, <1>5, <1>6, <1>7
    DEF SequentialInv, AloneInv, CopyInv

-----------------------------------------------------------------------------
(* The invariant.                                                          *)

LEMMA InitInv == Init => Inv
<1> SUFFICES ASSUME Init PROVE Inv
    OBVIOUS
<1>1. TypeOK
    BY EmptyTyped DEF Init, TypeOK
<1>2. \A t \in Threads : pc[t] = "idle" /\ ~Saving(t)
    BY DEF Init, Saving
<1>3. \A a \in Actions : ~Served(a) /\ answers[a] = {} /\ runs[a] = 0
    BY DEF Init, Served
<1>4. file # TORN /\ \A a \in Actions : file[a] = Absent
    BY EmptyTyped, TornAssumption DEF Init
<1>5. FileInv /\ LossInv
    BY <1>3, <1>4 DEF FileInv, Agrees, LossInv
<1>6. AloneInv /\ \A t \in Threads : CopyInv(t)
    BY <1>2 DEF Init, AloneInv, CopyInv
<1>7. \A a \in Actions : UseInv(a)
    BY <1>2, <1>3 DEF UseInv
<1>8. NewInv
    BY <1>2, <1>3, <1>4 DEF NewInv, Blank, Proposing
<1> QED
    BY <1>1, <1>5, <1>6, <1>7, <1>8 DEF Inv, SequentialInv

LEMMA NextInv == Inv /\ [Next]_vars => Inv'
<1> SUFFICES ASSUME Inv, [Next]_vars, ~overlapped', TypeOK'
             PROVE  SequentialInv'
    BY TypeStep DEF Inv
<1>1. ~overlapped
  <2>1. overlapped \in BOOLEAN
      BY DEF Inv, TypeOK
  <2> QED
      BY <2>1 DEF Next, Crash, Propose, PressButton, Step, Load, Truncate,
                  Write, SaveFails, Dispatch, history, vars
<1>2. TypeOK /\ SequentialInv
    BY <1>1 DEF Inv
<1>3. CASE UNCHANGED vars
    BY <1>2, <1>3
    DEF vars, history, SequentialInv, FileInv, AloneInv, CopyInv, UseInv,
        NewInv, LossInv, Agrees, Served, Blank, Proposing, Saving, Writers
<1>4. CASE Crash
    BY <1>2, <1>4, CrashStep
<1>5. ASSUME NEW t \in Threads, NEW a \in Actions, NEW s \in Sessions,
             Propose(t, a, s)
      PROVE  SequentialInv'
    BY <1>2, <1>5, ArriveStep DEF Propose, Op
<1>6. ASSUME NEW t \in Threads, NEW a \in Actions, NEW s \in Sessions,
             NEW op \in {"approve", "reject"}, PressButton(t, op, a, s)
      PROVE  SequentialInv'
    BY <1>2, <1>6, ArriveStep DEF PressButton, Op, history
<1>7. ASSUME NEW t \in Threads, Step(t) PROVE SequentialInv'
    BY <1>2, <1>7, LoadStep, TruncateStep, WriteStep, FailStep,
       DispatchStep DEF Step
<1> QED
    BY <1>3, <1>4, <1>5, <1>6, <1>7 DEF Next

\* The inductive invariant: as long as no operation has begun within another
\* one, the file, the copies and the answers agree.
THEOREM Invariance == Spec => []Inv
<1>1. Init => Inv
    BY InitInv
<1>2. Inv /\ [Next]_vars => Inv'
    BY NextInv
<1> QED
    BY <1>1, <1>2, PTL DEF Spec

\* The file, the copies and the requests keep their types.
THEOREM TypeCorrect == Spec => []TypeOK
<1>1. Inv => TypeOK
    BY DEF Inv
<1> QED
    BY <1>1, Invariance, PTL

\* For any number of threads and actions, an approval is worth one run at
\* most, unless operations overlapped; crashes and errors make no difference.
THEOREM SingleUseUnlessOverlapHolds == Spec => []SingleUseUnlessOverlap
<1>1. ASSUME Inv, ~overlapped, NEW a \in Actions PROVE RunsOf(a) <= 1
  <2> DEFINE D == {t \in Threads : pc[t] = "dispatch" /\ req[t].action = a}
  <2>1. UseInv(a)
      BY <1>1 DEF Inv, SequentialInv
  <2>2. CASE D = {}
      BY <2>1, <2>2, FS_EmptySet DEF UseInv, RunsOf
  <2>3. CASE D # {}
    <3>1. PICK t \in D : TRUE
        BY <2>3
    <3>2. D = {t} /\ runs[a] = 0
        BY <2>1, <3>1 DEF UseInv
    <3>3. Cardinality(D) = 1
        BY <3>2, FS_Singleton
    <3> QED
        BY <3>2, <3>3 DEF RunsOf
  <2> QED
      BY <2>2, <2>3
<1>2. Inv => SingleUseUnlessOverlap
    BY <1>1 DEF SingleUseUnlessOverlap, SingleUse
<1> QED
    BY <1>2, Invariance, PTL

\* A decision that was reported is in the file whenever nobody is writing it,
\* unless operations overlapped or a save was cut short.
THEOREM DecisionsSurviveHolds == Spec => []DecisionsSurvive
<1>1. ASSUME Inv, NEW a \in Actions, answers[a] # {}, Writers = {},
             ~overlapped, ~cutShort
      PROVE  /\ file # TORN
             /\ IF "approved" \in answers[a]
                  THEN file[a].status \in {"approved", "consumed"}
                  ELSE file[a].status = "rejected"
  <2>1. file # TORN /\ file[a] # Absent
      BY <1>1 DEF Inv, SequentialInv, LossInv
  <2>2. answers[a] = Said(file[a].status)
      BY <1>1, <2>1 DEF Inv, SequentialInv, FileInv, Agrees
  <2>3. file[a].status \in Status
      BY <1>1, <2>1 DEF Inv, TypeOK, Lists, Records
  <2> QED
      BY <1>1, <2>1, <2>2, <2>3 DEF Said, Status
<1>2. Inv => DecisionsSurvive
    BY <1>1 DEF DecisionsSurvive
<1> QED
    BY <1>2, Invariance, PTL

\* No run of a rejected action starts, unless operations overlapped.
THEOREM CancelledNeverRunsHolds == Spec => CancelledNeverRunsUnlessOverlap
<1>1. ASSUME Inv, [Next]_vars, NEW a \in Actions, "rejected" \in answers[a],
             ~overlapped
      PROVE  runs'[a] = runs[a]
  <2>1. \A t \in Threads : ~(pc[t] = "dispatch" /\ req[t].action = a)
      BY <1>1 DEF Inv, SequentialInv, UseInv, Served
  <2>2. ASSUME NEW t \in Threads, Dispatch(t) PROVE runs'[a] = runs[a]
      BY <1>1, <2>1, <2>2 DEF Dispatch, Inv, TypeOK
  <2> QED
      BY <1>1, <2>2
      DEF Next, Crash, Propose, PressButton, Step, Load, Truncate, Write,
          SaveFails, Stop,
          history, vars
<1>2. Inv /\ [Next]_vars =>
          [\A a \in Actions : "rejected" \in answers[a] /\ ~overlapped =>
              runs'[a] = runs[a]]_vars
    BY <1>1
<1> QED
    BY <1>2, Invariance, PTL DEF Spec, CancelledNeverRunsUnlessOverlap

-----------------------------------------------------------------------------
(* Refinement: an operation of ApprovalStore happens in Write.             *)

\* The copy t will save is what its operation makes of the list it loaded,
\* which is still the one in the file when t truncates it.  From then on the
\* file is torn until t has saved.
SourceInv(t) ==
    Saving(t) =>
        /\ Undone(local[t], req[t]) \in Lists
        /\ Accepts(Undone(local[t], req[t]), req[t])
        /\ local[t] = Changed(Undone(local[t], req[t]), req[t])
        /\ pc[t] = "truncate" => Stored = Undone(local[t], req[t])
        /\ pc[t] = "write" => file = TORN

RefinementInv == Inv /\ (~overlapped => \A t \in Threads : SourceInv(t))

\* Undone takes back what Changed did to a list that accepted the operation,
\* a proposal being for an action the list does not have.
LEMMA UndoChanged ==
    ASSUME NEW list \in Lists, NEW r \in Request, Accepts(list, r),
           r.op = "propose" => list[r.action] = Absent
    PROVE  Undone(Changed(list, r), r) = list
<1>1. r.op \in Op /\ r.action \in Actions /\ r.session \in Sessions
    BY DEF Request
<1>2. list = [b \in Actions |-> list[b]]
    BY DEF Lists
<1>3. CASE r.op = "propose"
  <2> DEFINE p == [status |-> "pending", session |-> r.session]
  <2>1. Changed(list, r) = [list EXCEPT ![r.action] = p]
      BY <1>3 DEF Changed
  <2>2. Undone(Changed(list, r), r) =
            [Changed(list, r) EXCEPT ![r.action] = Absent]
      BY <1>3 DEF Undone
  <2> HIDE DEF p
  <2>3. Undone(Changed(list, r), r) = [list EXCEPT ![r.action] = Absent]
      BY <1>1, <1>2, <2>1, <2>2 DEF Lists
  <2> QED
      BY <1>1, <1>2, <1>3, <2>3 DEF Lists
<1>4. CASE r.op # "propose"
  <2>1. list[r.action] = [status |-> StatusBefore(r.op),
                          session |-> r.session]
      BY <1>1, <1>4 DEF Accepts, StatusBefore, Op
  <2>2. Changed(list, r) = [list EXCEPT ![r.action] =
                    [list[r.action] EXCEPT !.status = StatusAfter(r.op)]]
      BY <1>4 DEF Changed
  <2>3. [list[r.action] EXCEPT !.status = StatusAfter(r.op)] =
            [status |-> StatusAfter(r.op), session |-> r.session]
      BY <2>1
  <2> DEFINE q == [status |-> StatusAfter(r.op), session |-> r.session]
  <2>4. Changed(list, r) = [list EXCEPT ![r.action] = q]
      BY <2>2, <2>3
  <2>5. [q EXCEPT !.status = StatusBefore(r.op)] = list[r.action]
      BY <2>1
  <2>6. Undone(Changed(list, r), r) =
            [Changed(list, r) EXCEPT ![r.action] =
                [Changed(list, r)[r.action] EXCEPT
                    !.status = StatusBefore(r.op)]]
      BY <1>4 DEF Undone
  <2> HIDE DEF q
  <2>7. Changed(list, r)[r.action] = q
      BY <1>1, <2>4 DEF Lists
  <2>8. Undone(Changed(list, r), r) =
            [Changed(list, r) EXCEPT ![r.action] = list[r.action]]
      BY <2>5, <2>6, <2>7
  <2>9. Undone(Changed(list, r), r) =
            [list EXCEPT ![r.action] = list[r.action]]
      BY <1>1, <1>2, <2>4, <2>8 DEF Lists
  <2> QED
      BY <1>1, <1>2, <2>9 DEF Lists
<1> QED
    BY <1>3, <1>4

\* A list that accepts a proposal does not have the action yet.
LEMMA NewIsAbsent ==
    ASSUME Inv, ~overlapped, NEW t \in Threads, pc[t] = "load",
           req[t].op = "propose"
    PROVE  Stored[req[t].action] = Absent
<1>1. req[t].action \in Actions /\ Proposing(t, req[t].action)
    BY DEF Inv, TypeOK, Request, Proposing
<1>2. file # TORN => file[req[t].action] = Absent
    BY <1>1 DEF Inv, SequentialInv, NewInv, Blank
<1> QED
    BY <1>1, <1>2, EmptyTyped DEF Stored

\* A copy that nobody has touched, and its file, are as they were.
LEMMA SourceKept ==
    ASSUME NEW t \in Threads, SourceInv(t), Saving(t)' => Saving(t),
           Saving(t) => /\ req'[t] = req[t] /\ local'[t] = local[t]
                        /\ pc'[t] = pc[t] /\ file' = file
    PROVE  SourceInv(t)'
BY DEF SourceInv, Saving, Stored

LEMMA SourceStep == RefinementInv /\ [Next]_vars => RefinementInv'
<1> SUFFICES ASSUME RefinementInv, [Next]_vars, ~overlapped', Inv',
                    NEW t \in Threads
             PROVE  SourceInv(t)'
    BY NextInv DEF RefinementInv
<1>1. ~overlapped
  <2>1. overlapped \in BOOLEAN
      BY DEF RefinementInv, Inv, TypeOK
  <2> QED
      BY <2>1 DEF Next, Crash, Propose, PressButton, Step, Load, Truncate,
                  Write, SaveFails, Dispatch, history, vars
<1>2. TypeOK /\ SequentialInv /\ SourceInv(t) /\ Inv
    BY <1>1 DEF RefinementInv, Inv
<1>3. CASE UNCHANGED vars
    BY <1>2, <1>3, SourceKept DEF vars, history, Saving
<1>4. CASE Crash
    BY <1>2, <1>4 DEF Crash, Saving, SourceInv
<1>5. ASSUME NEW u \in Threads, NEW op \in Op, NEW a \in Actions,
             NEW s \in Sessions, Arrive(u, op, a, s),
             UNCHANGED <<file, local>>
      PROVE  SourceInv(t)'
    BY <1>2, <1>5, SourceKept DEF Arrive, Saving, TypeOK
<1>6. ASSUME NEW u \in Threads, NEW a \in Actions, NEW s \in Sessions,
             Propose(u, a, s)
      PROVE  SourceInv(t)'
    BY <1>5, <1>6 DEF Propose, Op
<1>7. ASSUME NEW u \in Threads, NEW a \in Actions, NEW s \in Sessions,
             NEW op \in {"approve", "reject"}, PressButton(u, op, a, s)
      PROVE  SourceInv(t)'
    BY <1>5, <1>7 DEF PressButton, Op
<1>8. ASSUME NEW u \in Threads, Load(u) PROVE SourceInv(t)'
  <2>1. Stored \in Lists /\ req[u] \in Request /\ pc[u] = "load"
      BY <1>2, <1>8, EmptyTyped DEF TypeOK, Load, Stored
  <2>2. file' = file
      BY <1>8 DEF Load
  <2>3. CASE t = u /\ Accepts(Stored, req[t])
    <3>1. /\ local'[t] = Changed(Stored, req[t]) /\ pc'[t] = "truncate"
          /\ req' = req
        BY <1>2, <1>8, <2>3 DEF Load, TypeOK
    <3>2. Undone(local'[t], req[t]) = Stored
        BY <1>1, <1>2, <2>1, <2>3, <3>1, NewIsAbsent, UndoChanged
    <3>3. Stored' = Stored
        BY <2>2 DEF Stored
    <3> QED
        BY <2>1, <2>3, <3>1, <3>2, <3>3 DEF SourceInv
  <2>4. CASE t # u \/ ~Accepts(Stored, req[u])
    <3>1. Saving(t)' => Saving(t) /\ t # u
        BY <1>2, <1>8, <2>4 DEF Load, Stop, Saving, TypeOK
    <3>2. t # u => /\ pc'[t] = pc[t] /\ req'[t] = req[t]
                   /\ local'[t] = local[t]
        BY <1>2, <1>8 DEF Load, Stop, TypeOK
    <3> QED
        BY <1>2, <2>1, <2>2, <3>1, <3>2, SourceKept DEF Saving
  <2> QED
      BY <2>3, <2>4
<1>9. ASSUME NEW u \in Threads, Truncate(u) PROVE SourceInv(t)'
  <2>1. pc' = [pc EXCEPT ![u] = "write"] /\ pc[u] = "truncate"
        /\ UNCHANGED <<req, local>>
      BY <1>9 DEF Truncate
  <2>2. Saving(t) => t = u
      BY <1>2, <2>1 DEF SequentialInv, AloneInv, Saving
  <2>3. CASE t = u
      BY <1>2, <1>9, <2>1, <2>3 DEF Truncate, SourceInv, Saving, TypeOK
  <2>4. CASE t # u
    <3>1. pc'[t] = pc[t] /\ ~Saving(t)
        BY <1>2, <2>1, <2>2, <2>4 DEF TypeOK
    <3> QED
        BY <3>1 DEF SourceInv, Saving
  <2> QED
      BY <2>3, <2>4
<1>10. ASSUME NEW u \in Threads, Write(u) \/ SaveFails(u)
       PROVE  SourceInv(t)'
  <2>1. pc[u] = "write"
      BY <1>10 DEF Write, SaveFails
  <2>2. ~(pc'[u] \in {"truncate", "write"})
    <3>1. CASE Write(u)
        BY <1>2, <2>1, <3>1, SaveEnds DEF Write, TypeOK
    <3>2. CASE SaveFails(u)
        BY <1>2, <3>2 DEF SaveFails, Stop, TypeOK
    <3> QED
        BY <1>10, <3>1, <3>2
  <2>3. t # u => pc'[t] = pc[t]
    <3>1. CASE Write(u)
        BY <1>2, <2>1, <3>1, SaveEnds DEF Write, TypeOK
    <3>2. CASE SaveFails(u)
        BY <1>2, <3>2 DEF SaveFails, Stop, TypeOK
    <3> QED
        BY <1>10, <3>1, <3>2
  <2>4. ~Saving(t)'
      BY <1>2, <2>1, <2>2, <2>3 DEF SequentialInv, AloneInv, Saving
  <2> QED
      BY <2>4 DEF SourceInv
<1>11. ASSUME NEW u \in Threads, Dispatch(u) PROVE SourceInv(t)'
    BY <1>2, <1>11, SourceKept DEF Dispatch, Stop, Saving, TypeOK
<1> QED
    BY <1>3, <1>4, <1>6, <1>7, <1>8, <1>9, <1>10, <1>11 DEF Next, Step

LEMMA SourceInitially == Init => RefinementInv
<1>1. Init => \A t \in Threads : ~Saving(t)
    BY DEF Init, Saving
<1> QED
    BY <1>1, InitInv DEF RefinementInv, SourceInv

LEMMA RefinementInvariance == Spec => []RefinementInv
BY SourceInitially, SourceStep, PTL DEF Spec

\* While t writes, nobody else does.
LEMMA KnownWhileWriting ==
    ASSUME NEW t \in Threads
    PROVE  AloneInv /\ pc[t] = "write" => Known = Undone(local[t], req[t])
<1> SUFFICES ASSUME AloneInv, pc[t] = "write"
             PROVE  Known = Undone(local[t], req[t])
    OBVIOUS
<1>1. Writers = {t}
    BY DEF AloneInv, Saving, Writers
<1> QED
    BY <1>1 DEF Known

LEMMA KnownAtRest == Writers = {} => Known = Stored
BY DEF Known

\* What is known depends on the file and the writers only.
LEMMA KnownKept ==
    ASSUME UNCHANGED file, Writers' = Writers,
           \A t \in Writers : local'[t] = local[t] /\ req'[t] = req[t]
    PROVE  Known' = Known
<1>1. CASE Writers = {}
    BY <1>1 DEF Known, Stored
<1>2. CASE Writers # {}
  <2> PICK t \in Writers : t = CHOOSE u \in Writers : TRUE
      BY <1>2
  <2>1. Known = Undone(local[t], req[t])
      BY <1>2 DEF Known
  <2>2. t = CHOOSE u \in Writers' : TRUE
      OBVIOUS
  <2>3. Known' = Undone(local'[t], req'[t])
      BY <1>2, <2>2 DEF Known
  <2> QED
      BY <2>1, <2>3
<1> QED
    BY <1>1, <1>2

\* A step that neither a writer nor a dispatch takes part in is a stutter.
LEMMA QuietStep ==
    ASSUME UNCHANGED <<file, answers, runs>>,
           \A u \in Threads :
              /\ pc'[u] = "write" <=> pc[u] = "write"
              /\ pc'[u] = "dispatch" <=> pc[u] = "dispatch"
              /\ pc[u] \in {"write", "dispatch"} => req'[u] = req[u]
              /\ pc[u] = "write" => local'[u] = local[u]
    PROVE  UNCHANGED Store!storeVars
<1>1. Writers' = Writers
    BY DEF Writers
<1>2. AboutToRun' = AboutToRun
    BY DEF AboutToRun
<1>3. Known' = Known
    BY <1>1, KnownKept DEF Writers
<1> QED
    BY <1>2, <1>3 DEF Store!storeVars

\* Truncating the file changes nothing that is known.
LEMMA TruncateIsSilent ==
    ASSUME Inv, ~overlapped, NEW t \in Threads, SourceInv(t), Truncate(t)
    PROVE  UNCHANGED Store!storeVars
<1>1. /\ pc[t] = "truncate" /\ pc'[t] = "write"
      /\ \A u \in Threads \ {t} : pc'[u] = pc[u]
      /\ UNCHANGED <<req, local, answers, runs>>
    BY DEF Truncate, Inv, TypeOK, history
<1>2. \A u \in Threads : pc[u] # "write" /\ (pc'[u] = "write" <=> u = t)
    BY <1>1 DEF Inv, SequentialInv, AloneInv, Saving
<1>3. Writers = {} /\ Writers' = {t}
    BY <1>2 DEF Writers
<1>4. Known = Undone(local[t], req[t])
    BY <1>1, <1>3, KnownAtRest DEF SourceInv, Saving
<1>5. Known' = Undone(local[t], req[t])
    BY <1>1, <1>3 DEF Known
<1>6. AboutToRun' = AboutToRun
    BY <1>1 DEF AboutToRun
<1> QED
    BY <1>1, <1>4, <1>5, <1>6 DEF Store!storeVars

\* The save of a copy is the operation.
LEMMA WriteIsTheOperation ==
    ASSUME Inv, Inv', ~overlapped, ~overlapped', NEW t \in Threads,
           SourceInv(t), Write(t)
    PROVE  Store!StoreNext
<1> PICK r \in Request : r = req[t]
    BY DEF Inv, TypeOK, Write
<1> PICK b \in Actions, s \in Sessions : b = r.action /\ s = r.session
    BY DEF Request
<1>0. pc[t] = "write" /\ Saving(t) /\ r.op \in Op /\ TypeOK
    BY DEF Write, Saving, Request, Inv
<1>1. /\ Known = Undone(local[t], r) /\ Known \in Lists
      /\ Accepts(Known, r) /\ local[t] = Changed(Known, r)
    BY <1>0, KnownWhileWriting DEF SourceInv, Inv, SequentialInv
<1>2. /\ file' = local[t] /\ UNCHANGED runs
      /\ local[t] \in Lists
    BY DEF Write, Saved, Inv, SequentialInv, AloneInv, TypeOK
<1>3. PICK p \in {"idle", "load", "dispatch"}, q \in Request \cup {TORN} :
              /\ pc' = [pc EXCEPT ![t] = p] /\ req' = [req EXCEPT ![t] = q]
              /\ p # "idle" => q \in Request /\ q.action = b
              /\ r.op = "approve" => p = "load"
              /\ r.op = "consume" => p = "dispatch"
              /\ r.op \in {"propose", "reject"} => p = "idle"
    BY <1>0, SaveEnds DEF Write
<1>4. /\ pc'[t] = p /\ req'[t] = q
      /\ \A u \in Threads \ {t} : pc'[u] = pc[u] /\ req'[u] = req[u]
    BY <1>0, <1>3 DEF TypeOK
<1>5. Known' = Changed(Known, r)
  <2>1. \A u \in Threads : pc'[u] # "write"
      BY <1>0, <1>4 DEF Inv, SequentialInv, AloneInv, Saving
  <2>2. Known' = Stored'
      BY <2>1 DEF Known, Writers
  <2>3. Stored' = local[t]
      BY <1>2, TornAssumption DEF Stored
  <2> QED
      BY <1>1, <2>2, <2>3
<1>6. p # "dispatch" => AboutToRun' = AboutToRun
    BY <1>0, <1>4 DEF AboutToRun
<1>7. p = "dispatch" => AboutToRun' = AboutToRun \cup {b}
  <2>1. SUFFICES ASSUME p = "dispatch"
                 PROVE  AboutToRun' = AboutToRun \cup {b}
      OBVIOUS
  <2>2. {u \in Threads : pc'[u] = "dispatch"} =
            {u \in Threads : pc[u] = "dispatch"} \cup {t}
      BY <1>4, <2>1
  <2>3. req'[t].action = b
      BY <1>3, <1>4, <2>1
  <2>4. \A u \in Threads : pc[u] = "dispatch" => req'[u] = req[u]
      BY <1>0, <1>4
  <2> QED
      BY <2>2, <2>3, <2>4 DEF AboutToRun
<1>8. CASE r.op = "propose"
  <2>1. Known[b] = Absent
      BY <1>0, <1>1, <1>8 DEF Undone, Inv, TypeOK, Lists, SourceInv
  <2>2. answers[b] = {} /\ answers' = answers
      BY <1>0, <1>8 DEF Write, Inv, SequentialInv, CopyInv
  <2>3. Known' = [Known EXCEPT ![b] = [status |-> "pending",
                                       session |-> s]]
      BY <1>5, <1>8 DEF Changed
  <2>4. Store!BeProposed(b, s)
      BY <1>2, <1>3, <1>6, <1>8, <2>1, <2>2, <2>3
      DEF Store!BeProposed, Store!Absent, Absent
  <2> QED
      BY <2>4 DEF Store!StoreNext
<1>9. CASE r.op \in {"approve", "reject"}
  <2> DEFINE answer == StatusAfter(r.op)
  <2>1. Known[b] = [status |-> "pending", session |-> s]
      BY <1>1, <1>9 DEF Accepts
  <2>2. answers' = [answers EXCEPT ![b] = @ \cup {answer}]
      BY <1>9 DEF Write
  <2>3. Known' = [Known EXCEPT ![b].status = answer]
      BY <1>5, <1>9 DEF Changed
  <2>4. AboutToRun' = AboutToRun
      BY <1>3, <1>6, <1>9
  <2>5. answer \in {"approved", "rejected"}
      BY <1>9 DEF StatusAfter
  <2> HIDE DEF answer
  <2>6. Store!BeDecided(b, s, answer)
      BY <1>2, <2>1, <2>2, <2>3, <2>4 DEF Store!BeDecided
  <2> QED
      BY <2>5, <2>6 DEF Store!StoreNext
<1>10. CASE r.op = "consume"
  <2>1. Known[b] = [status |-> "approved", session |-> s]
      BY <1>1, <1>10 DEF Accepts
  <2>2. Known' = [Known EXCEPT ![b].status = "consumed"]
      BY <1>5, <1>10 DEF Changed, StatusAfter
  <2>3. answers' = answers
      BY <1>10 DEF Write
  <2>4. AboutToRun' = AboutToRun \cup {b}
      BY <1>3, <1>7, <1>10
  <2>5. Store!BeConsumed(b, s)
      BY <1>2, <2>1, <2>2, <2>3, <2>4 DEF Store!BeConsumed
  <2> QED
      BY <2>5 DEF Store!StoreNext
<1> QED
    BY <1>0, <1>8, <1>9, <1>10 DEF Op

\* A dispatch is the run of an action that no other dispatch is for.
LEMMA DispatchIsTheRun ==
    ASSUME Inv, ~overlapped, NEW t \in Threads, Dispatch(t)
    PROVE  Store!StoreNext
<1> PICK b \in Actions : b = req[t].action
    BY DEF Dispatch, Inv, TypeOK, Request
<1>1. /\ pc[t] = "dispatch" /\ pc'[t] = "idle"
      /\ \A u \in Threads \ {t} : pc'[u] = pc[u] /\ req'[u] = req[u]
      /\ UNCHANGED <<file, local, answers>>
      /\ runs' = [runs EXCEPT ![b] = @ + 1]
    BY DEF Dispatch, Stop, Inv, TypeOK
<1>2. Writers' = Writers /\ \A u \in Writers : req'[u] = req[u]
    BY <1>1 DEF Writers
<1>3. Known' = Known
    BY <1>1, <1>2, KnownKept
<1>4. b \in AboutToRun
    BY <1>1 DEF AboutToRun
<1>5. \A u \in Threads \ {t} : pc[u] = "dispatch" => req[u].action # b
    BY <1>1 DEF Inv, SequentialInv, UseInv
<1>6. AboutToRun' = AboutToRun \ {b}
    BY <1>1, <1>5 DEF AboutToRun
<1>7. Store!Run(b)
    BY <1>1, <1>3, <1>4, <1>6 DEF Store!Run
<1> QED
    BY <1>7 DEF Store!StoreNext

\* A save that fails, and a crash while somebody writes, lose the list; any
\* other crash is a restart.
LEMMA FailureIsTheLoss ==
    ASSUME Inv, ~overlapped, NEW t \in Threads, SaveFails(t)
    PROVE  Store!StoreNext
<1>1. /\ pc[t] = "write" /\ pc'[t] = "idle" /\ file' = TORN
      /\ \A u \in Threads \ {t} : pc'[u] = pc[u] /\ req'[u] = req[u]
      /\ UNCHANGED <<answers, runs>>
    BY DEF SaveFails, Stop, Inv, TypeOK, SequentialInv, AloneInv
<1>2. \A u \in Threads : pc'[u] # "write"
    BY <1>1 DEF Inv, SequentialInv, AloneInv, Saving
<1>3. Known' = Empty
    BY <1>1, <1>2 DEF Known, Writers, Stored
<1>4. AboutToRun' = AboutToRun
    BY <1>1 DEF AboutToRun
<1>5. Store!Lose
    BY <1>1, <1>3, <1>4
    DEF Store!Lose, Store!Absent, Empty, Absent
<1> QED
    BY <1>5 DEF Store!StoreNext

LEMMA CrashIsTheRestart ==
    ASSUME Inv, ~overlapped, \A t \in Threads : SourceInv(t), Crash
    PROVE  Store!StoreNext
<1>1. /\ \A u \in Threads : pc'[u] = "idle"
      /\ UNCHANGED <<file, answers, runs>>
    BY DEF Crash
<1>2. Known' = Stored /\ AboutToRun' = {}
    BY <1>1 DEF Known, Writers, Stored, AboutToRun
<1>3. CASE Writers = {}
  <2>1. Store!Restart
      BY <1>1, <1>2, <1>3, KnownAtRest DEF Store!Restart
  <2> QED
      BY <2>1 DEF Store!StoreNext
<1>4. CASE Writers # {}
  <2>1. file = TORN
      BY <1>4 DEF Writers, SourceInv, Saving
  <2>2. Store!Lose
      BY <1>1, <1>2, <2>1 DEF Store!Lose, Store!Absent, Empty, Absent, Stored
  <2> QED
      BY <2>2 DEF Store!StoreNext
<1> QED
    BY <1>3, <1>4

LEMMA RefinementStep ==
    RefinementInv /\ [Next]_vars /\ ~overlapped' =>
        [Store!StoreNext]_(Store!storeVars)
<1> SUFFICES ASSUME RefinementInv, RefinementInv', [Next]_vars, ~overlapped'
             PROVE  Store!StoreNext \/ UNCHANGED Store!storeVars
    BY SourceStep
<1>1. ~overlapped
  <2>1. overlapped \in BOOLEAN
      BY DEF RefinementInv, Inv, TypeOK
  <2> QED
      BY <2>1 DEF Next, Crash, Propose, PressButton, Step, Load, Truncate,
                  Write, SaveFails, Dispatch, history, vars
<1>2. Inv /\ Inv' /\ TypeOK /\ \A t \in Threads : SourceInv(t)
    BY <1>1 DEF RefinementInv, Inv
<1>3. CASE UNCHANGED vars
    BY <1>3, QuietStep DEF vars, history
<1>4. CASE Crash
    BY <1>1, <1>2, <1>4, CrashIsTheRestart
<1>5. ASSUME NEW t \in Threads, NEW op \in Op, NEW a \in Actions,
             NEW s \in Sessions, Arrive(t, op, a, s),
             UNCHANGED <<file, local, answers, runs>>
      PROVE  UNCHANGED Store!storeVars
    BY <1>2, <1>5, QuietStep DEF Arrive, TypeOK
<1>6. ASSUME NEW t \in Threads, NEW a \in Actions, NEW s \in Sessions,
             Propose(t, a, s)
      PROVE  UNCHANGED Store!storeVars
    BY <1>5, <1>6 DEF Propose, Op
<1>7. ASSUME NEW t \in Threads, NEW a \in Actions, NEW s \in Sessions,
             NEW op \in {"approve", "reject"}, PressButton(t, op, a, s)
      PROVE  UNCHANGED Store!storeVars
    BY <1>5, <1>7 DEF PressButton, Op, history
<1>8. ASSUME NEW t \in Threads, Load(t) PROVE UNCHANGED Store!storeVars
  <2>1. \E p \in {"idle", "truncate"} :
            /\ pc[t] = "load" /\ pc' = [pc EXCEPT ![t] = p]
            /\ \A u \in Threads \ {t} : /\ req'[u] = req[u]
                                        /\ local'[u] = local[u]
            /\ UNCHANGED <<file, answers, runs>>
      BY <1>2, <1>8 DEF Load, Stop, TypeOK
  <2> QED
      BY <1>2, <2>1, QuietStep DEF TypeOK
<1>9. ASSUME NEW t \in Threads, Step(t), ~Load(t)
      PROVE  Store!StoreNext \/ UNCHANGED Store!storeVars
    BY <1>1, <1>2, <1>9, TruncateIsSilent, WriteIsTheOperation,
       DispatchIsTheRun, FailureIsTheLoss DEF Step
<1> QED
    BY <1>3, <1>4, <1>6, <1>7, <1>8, <1>9 DEF Next

LEMMA StoreInitially == Init => Store!StoreInit
<1> SUFFICES ASSUME Init PROVE Store!StoreInit
    OBVIOUS
<1>1. Known = Empty /\ AboutToRun = {}
    BY DEF Init, Known, Writers, Stored, AboutToRun
<1> QED
    BY <1>1 DEF Init, Store!StoreInit, Store!Absent, Empty, Absent

\* For any number of threads, actions and sessions: loading, truncating and
\* writing the file implements the atomic store, step by step, up to the step
\* in which an operation begins within another one.
THEOREM AtomicUnlessOverlapHolds == Spec => AtomicUnlessOverlap
<1>1. RefinementInv /\ [Next]_vars =>
          [overlapped' \/ Store!StoreNext]_(Store!storeVars)
    BY RefinementStep
<1> QED
    BY <1>1, StoreInitially, RefinementInvariance, PTL
    DEF Spec, AtomicUnlessOverlap

\* If the operations on one user's store were serialized, as by a lock around
\* each, it would be the atomic store, crashes and failed saves included.
THEOREM SerializedImplementsStore ==
    Init /\ [][Next /\ ~overlapped']_vars => Store!StoreSpec
<1>1. RefinementInv /\ [Next /\ ~overlapped']_vars =>
          RefinementInv' /\ [Store!StoreNext]_(Store!storeVars)
  <2>1. SUFFICES ASSUME RefinementInv, [Next /\ ~overlapped']_vars
                 PROVE  RefinementInv' /\ [Store!StoreNext]_(Store!storeVars)
      OBVIOUS
  <2>2. [Next]_vars
      BY <2>1
  <2>3. CASE UNCHANGED vars
      BY <2>1, <2>2, <2>3, SourceStep, QuietStep DEF vars, history
  <2>4. CASE Next /\ ~overlapped'
      BY <2>1, <2>2, <2>4, SourceStep, RefinementStep
  <2> QED
      BY <2>1, <2>3, <2>4
<1> QED
    BY <1>1, SourceInitially, StoreInitially, PTL DEF Store!StoreSpec

About == INSTANCE ApprovalStoreProofs WITH records <- Known,
                                           due <- AboutToRun

\* So what is proved of the atomic store holds of the file whose operations are
\* serialized: one run at most, one answer, and no run after a rejection.
THEOREM SerializedKeepsPromises ==
    Init /\ [][Next /\ ~overlapped']_vars =>
        []Store!RunOnce /\ Store!AnsweredOnce /\ Store!RejectedNeverRuns
<1>1. Store!StoreInit => About!StoreInit
    BY DEF Store!StoreInit, About!StoreInit, Store!Absent, About!Absent
<1>2. [Store!StoreNext]_(Store!storeVars) =>
          [About!StoreNext]_(About!storeVars)
    BY DEF Store!StoreNext, About!StoreNext, Store!storeVars,
           About!storeVars, Store!Absent, About!Absent,
           Store!BeProposed, About!BeProposed, Store!BeDecided,
           About!BeDecided, Store!BeConsumed, About!BeConsumed, Store!Run,
           About!Run, Store!Lose, About!Lose, Store!Restart, About!Restart
<1>3. Store!StoreSpec => About!StoreSpec
    BY <1>1, <1>2, PTL DEF Store!StoreSpec, About!StoreSpec
<1>4. About!RunOnce => Store!RunOnce
    BY DEF Store!RunOnce, About!RunOnce
<1>5. [\A a \in Actions : answers[a] # {} =>
          answers'[a] = answers[a]]_(About!storeVars) =>
      [\A a \in Actions : answers[a] # {} =>
          answers'[a] = answers[a]]_(Store!storeVars)
    BY DEF Store!storeVars, About!storeVars
<1>6. [\A a \in Actions : "rejected" \in answers[a] =>
          runs'[a] = runs[a]]_(About!storeVars) =>
      [\A a \in Actions : "rejected" \in answers[a] =>
          runs'[a] = runs[a]]_(Store!storeVars)
    BY DEF Store!storeVars, About!storeVars
<1>7. About!StoreSpec => []About!RunOnce
    BY About!RunOnceHolds
<1>8. About!StoreSpec => About!AnsweredOnce
    BY About!AnsweredOnceHolds
<1>9. About!StoreSpec => About!RejectedNeverRuns
    BY About!RejectedNeverRunsHolds
<1> QED
    BY <1>3, <1>4, <1>5, <1>6, <1>7, <1>8, <1>9, SerializedImplementsStore,
       PTL
    DEF Store!AnsweredOnce, About!AnsweredOnce, Store!RejectedNeverRuns,
        About!RejectedNeverRuns

=============================================================================
