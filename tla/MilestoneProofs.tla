-------------------------- MODULE MilestoneProofs --------------------------
(***************************************************************************)
(* Theorems about the development workflow.                                *)
(***************************************************************************)
EXTENDS MilestoneWorkflow, TLAPS

-----------------------------------------------------------------------------
(* The inductive invariants.                                               *)

\* The states a copy may have at a place where its command is to go on.
Fits(place, s) ==
    /\ place \in {"starting", "checking", "working"} => s = "IMPLEMENTING"
    /\ place \in {"opening", "auditing"} => s = "AUDITING"
    /\ place = "reviewing" => s = "VERIFYING"
    /\ place = "inspected" => s \in {"VERIFYING", "FIXING"}
    /\ place = "rejecting" => s = "NOT_VERIFIED"

PlaceInv(c) == Fits(at[c], copy[c].state)

\* Whatever can become a verdict has been audited or resumed already.
Ladder(r) ==
    r.state \in {"AUDITING", "WAITING_FOR_CLAUDE", "READY_TO_RESUME",
                 "WAITING_FOR_QUOTA", "VERIFYING", "VERIFIED",
                 "NOT_VERIFIED", "COMPLETE"} =>
        r.past \cap {"AUDITING", "READY_TO_RESUME", "WAITING_FOR_QUOTA"} # {}

\* An interruption has its row.
RowOfWait(r) ==
    r.state \in {"READY_TO_RESUME", "WAITING_FOR_QUOTA",
                 "WAITING_FOR_CLAUDE"} => r.state \in r.past

\* What holds of a record whatever is overwritten.
RecordInv(r) ==
    AcceptedOrBlocked(r) /\ Ladder(r) /\ RowOfWait(r) /\ VerdictInRecord(r)

\* A copy that is up to date has the rows and the acceptance of the file, and
\* what is sent to Claude is the file's report.
FreshInv(c) ==
    at[c] # "idle" /\ ~stale[c] =>
        /\ Readable(file.log) \subseteq copy[c].log
        /\ file.hash # 0 => copy[c].hash # 0
        /\ at[c] = "reviewing" => copy[c].audit = file.audit

\* What has been accepted is in the file, unless it was overwritten.
HashInv ==
    /\ file.hash # 0 => file.hash \in agreed
    /\ agreed # {} /\ ~raced => file.hash # 0

\* The verdict is about the report in the record.
Reviewed(r) ==
    r.state \in {"VERIFIED", "COMPLETE"} /\ ~r.byHand =>
        r.reviewed = r.audit

ReviewInv ==
    ~raced => Reviewed(file) /\ \A c \in Commands : Reviewed(copy[c])

\* A record that was moved towards its release along the cycle.
Straight(r) ==
    /\ r.state \in {"VERIFYING", "VERIFIED", "COMPLETE"}
    /\ ~r.byHand
    /\ r.past \cap {"READY_TO_RESUME", "WAITING_FOR_QUOTA",
                    "WAITING_FOR_CLAUDE"} = {}

\* Such a record has the last audit, in a copy that is up to date too, and
\* unless the copy is an audit's own nobody may write meanwhile.
WorkInv ==
    ~raced =>
        /\ Straight(file) => file.audit = work
        /\ \A c \in Commands :
              /\ at[c] \in {"saving", "inspected", "rejecting"}
              /\ ~stale[c]
              /\ Straight(copy[c])
              => /\ copy[c].audit = work
                 /\ at[c] # "inspected" => file.state \notin Writable

\* A write that is up to date was authorized by the record in the file, and
\* matched the plan that is there.
WriterInv(w) ==
    write[w].at # "idle" /\ ~write[w].stale =>
        /\ file.state \in Writable
        /\ write[w].hash = file.hash
        /\ write[w].at = "writing" /\ ~write[w].edited =>
              write[w].hash \in {0, plan}

Inv == /\ TypeOK
       /\ RecordInv(file)
       /\ \A c \in Commands : /\ PlaceInv(c)
                              /\ RecordInv(copy[c])
                              /\ FreshInv(c)
       /\ \A w \in Writers : WriterInv(w)
       /\ HashInv
       /\ ReviewInv
       /\ WorkInv

-----------------------------------------------------------------------------
(* The record.                                                             *)

\* A row changes the state, the log and the mark of a resumption by hand.
LEMMA MovedFields ==
    ASSUME NEW r \in Record, NEW to \in States, NEW b
    PROVE  /\ Moved(r, to, b) \in Record
           /\ Moved(r, to, b).state = to
           /\ to = "DRAFT" => Moved(r, to, b).past = {}
           /\ to # "DRAFT" =>
                 Moved(r, to, b).past = r.past \cup ({to} \cap Rows)
           /\ r.log \subseteq Moved(r, to, b).log
           /\ Moved(r, to, b).hash = r.hash
           /\ Moved(r, to, b).audit = r.audit
           /\ Moved(r, to, b).verdict = r.verdict
           /\ Moved(r, to, b).reviewed = r.reviewed
<1> DEFINE log == r.log \cup {row \in Row : row.state = to /\ row.oneLine = b}
           past == IF to = "DRAFT" THEN {} ELSE r.past \cup ({to} \cap Rows)
           byHand == IF to = "DRAFT" THEN FALSE ELSE r.byHand
<1>1. log \in SUBSET Row /\ past \in SUBSET Rows /\ byHand \in BOOLEAN
    BY DEF Record
<1>2. /\ r.log \subseteq log
      /\ to = "DRAFT" => past = {}
      /\ to # "DRAFT" => past = r.past \cup ({to} \cap Rows)
    OBVIOUS
<1>3. Moved(r, to, b) = [r EXCEPT !.state = to, !.log = log, !.past = past,
                                  !.byHand = byHand]
    BY DEF Moved, Record
<1> HIDE DEF log, past, byHand
<1> QED
    BY <1>1, <1>2, <1>3 DEF Record

\* A row is no resumption by hand.
LEMMA MovedByHand ==
    ASSUME NEW r \in Record, NEW to \in States, NEW b
    PROVE  Moved(r, to, b).byHand <=> to # "DRAFT" /\ r.byHand
BY DEF Moved, Record

\* A resumption changes no more than a row does.
LEMMA ResumedFields ==
    ASSUME NEW r \in Record, NEW to \in States, NEW b
    PROVE  /\ Resumed(r, to, b) \in Record
           /\ Resumed(r, to, b).state = to
           /\ Resumed(r, to, b).past = Moved(r, to, b).past
           /\ r.log \subseteq Resumed(r, to, b).log
           /\ Resumed(r, to, b).hash = r.hash
           /\ Resumed(r, to, b).audit = r.audit
           /\ Resumed(r, to, b).verdict = r.verdict
           /\ Resumed(r, to, b).reviewed = r.reviewed
<1> DEFINE m == Moved(r, to, b)
<1>1. /\ m \in Record /\ m.state = to
      /\ r.log \subseteq m.log
      /\ m.hash = r.hash /\ m.audit = r.audit
      /\ m.verdict = r.verdict /\ m.reviewed = r.reviewed
    BY MovedFields
<1>2. \E h \in BOOLEAN : Resumed(r, to, b) = [m EXCEPT !.byHand = h]
    BY <1>1 DEF Resumed, Record
<1> HIDE DEF m
<1> QED
    BY <1>1, <1>2 DEF Record, m

\* A resumption notes when it steps along the cycle itself.
LEMMA ResumedByHand ==
    ASSUME NEW r \in Record, NEW to \in States, NEW b
    PROVE  Resumed(r, to, b).byHand <=>
              \/ to # "DRAFT" /\ r.byHand
              \/ /\ r.state \notin Interrupted
                 /\ to \notin Interrupted \cup {"DRAFT"}
<1>1. Moved(r, to, b) \in Record
    BY MovedFields
<1> QED
    BY <1>1, MovedByHand DEF Resumed, Record

\* The state that a verdict stands for.
VerdictState(verdict) ==
    IF verdict = "VERIFIED" THEN "VERIFIED" ELSE "NOT_VERIFIED"

\* A verdict is recorded with the state it stands for.
LEMMA JudgedFields ==
    ASSUME NEW r \in Record, NEW verdict \in Verdicts \ {"pending"},
           NEW reviewed \in 0..MaxWork, NEW b
    PROVE  /\ Judged(r, verdict, reviewed, b) \in Record
           /\ Judged(r, verdict, reviewed, b).state = VerdictState(verdict)
           /\ Judged(r, verdict, reviewed, b).past =
                 Moved(r, VerdictState(verdict), b).past
           /\ r.log \subseteq Judged(r, verdict, reviewed, b).log
           /\ Judged(r, verdict, reviewed, b).hash = r.hash
           /\ Judged(r, verdict, reviewed, b).audit = r.audit
           /\ Judged(r, verdict, reviewed, b).verdict = verdict
           /\ Judged(r, verdict, reviewed, b).reviewed = reviewed
<1> DEFINE m == Moved(r, VerdictState(verdict), b)
<1>1. VerdictState(verdict) \in States
    BY DEF States, VerdictState
<1>2. /\ m \in Record
      /\ m.state = VerdictState(verdict)
      /\ r.log \subseteq m.log
      /\ m.hash = r.hash /\ m.audit = r.audit
    BY <1>1, MovedFields
<1>3. verdict \in Verdicts
    OBVIOUS
<1>4. Judged(r, verdict, reviewed, b) =
          [m EXCEPT !.verdict = verdict, !.reviewed = reviewed]
    BY DEF Judged, VerdictState
<1> HIDE DEF m
<1> QED
    BY <1>2, <1>3, <1>4 DEF Record, m

\* Nor is a verdict.
LEMMA JudgedByHand ==
    ASSUME NEW r \in Record, NEW verdict \in Verdicts \ {"pending"},
           NEW reviewed \in 0..MaxWork, NEW b
    PROVE  Judged(r, verdict, reviewed, b).byHand <=> r.byHand
<1> DEFINE m == Moved(r, VerdictState(verdict), b)
<1>1. VerdictState(verdict) \in States /\ VerdictState(verdict) # "DRAFT"
    BY DEF States, VerdictState
<1>2. m \in Record
    BY <1>1, MovedFields
<1>3. m.byHand <=> r.byHand
    BY <1>1, MovedByHand
<1>4. Judged(r, verdict, reviewed, b) =
          [m EXCEPT !.verdict = verdict, !.reviewed = reviewed]
    BY DEF Judged, VerdictState
<1> HIDE DEF m
<1> QED
    BY <1>2, <1>3, <1>4 DEF Record

-----------------------------------------------------------------------------
(* What the transition rules give.                                         *)

\* The ways into a state of VALID_TRANSITIONS that the invariants rest on.
LEMMA WaysIn ==
    ASSUME NEW s \in States, NEW to \in ValidTransitions(s)
    PROVE  /\ to \in States
           /\ s \in BeforeAcceptance =>
                 to \in BeforeAcceptance \cup {"ACCEPTED", "BLOCKED"}
           /\ to \in {"VERIFYING", "WAITING_FOR_CLAUDE"} =>
                 s \in {"AUDITING", "VERIFYING", "WAITING_FOR_QUOTA",
                       "WAITING_FOR_CLAUDE", "READY_TO_RESUME"}
           /\ to = "VERIFYING" => s # "VERIFYING"
           /\ to \in {"VERIFIED", "NOT_VERIFIED"} => s = "VERIFYING"
           /\ to = "COMPLETE" => s = "VERIFIED"
<1>1. CASE s \in {"DRAFT", "AWAITING_USER_APPROVAL", "ACCEPTED",
                  "IMPLEMENTING"}
    BY <1>1 DEF ValidTransitions, States, BeforeAcceptance
<1>2. CASE s \in {"AUDITING", "FIXING", "VERIFYING", "VERIFIED"}
    BY <1>2 DEF ValidTransitions, States, BeforeAcceptance
<1>3. CASE s \in {"NOT_VERIFIED", "COMPLETE", "BLOCKED", "WORKER_FAILED"}
    BY <1>3 DEF ValidTransitions, States, BeforeAcceptance
<1>4. CASE s \in {"WAITING_FOR_QUOTA", "WAITING_FOR_CLAUDE",
                  "WAITING_FOR_ANTIGRAVITY", "WAITING_FOR_MODEL",
                  "READY_TO_RESUME"}
    BY <1>4 DEF ValidTransitions, States, BeforeAcceptance
<1> QED
    BY <1>1, <1>2, <1>3, <1>4 DEF States

\* A row that the rules allow keeps the promises about the past.
LEMMA PastKept ==
    ASSUME NEW r \in Record, RecordInv(r),
           NEW to \in ValidTransitions(r.state), NEW b
    PROVE  /\ AcceptedOrBlocked(Moved(r, to, b)) /\ Ladder(Moved(r, to, b))
           /\ RowOfWait(Moved(r, to, b))
<1>1. r.state \in States
    BY DEF Record
<1>2. to \in States
    BY <1>1, WaysIn
<1>3. /\ Moved(r, to, b).state = to
      /\ to # "DRAFT" => Moved(r, to, b).past = r.past \cup ({to} \cap Rows)
    BY <1>2, MovedFields
<1>4. AcceptedOrBlocked(Moved(r, to, b))
  <2>1. CASE r.state \in BeforeAcceptance
      BY <1>1, <1>3, <2>1, WaysIn, RowsAssumption
      DEF AcceptedOrBlocked, BeforeAcceptance
  <2>2. CASE r.state \notin BeforeAcceptance
      BY <1>3, <2>2 DEF AcceptedOrBlocked, RecordInv, BeforeAcceptance
  <2> QED
      BY <2>1, <2>2
<1>5. Ladder(Moved(r, to, b))
  <2>1. CASE to \in {"AUDITING", "READY_TO_RESUME", "WAITING_FOR_QUOTA"}
      BY <1>3, <2>1, RowsAssumption DEF Ladder
  <2>2. CASE to \in {"VERIFYING", "WAITING_FOR_CLAUDE", "VERIFIED",
                     "NOT_VERIFIED", "COMPLETE"}
    <3>1. r.state \in {"AUDITING", "VERIFYING", "WAITING_FOR_QUOTA",
                      "WAITING_FOR_CLAUDE", "READY_TO_RESUME", "VERIFIED"}
        BY <1>1, <2>2, WaysIn
    <3>2. r.past \cap {"AUDITING", "READY_TO_RESUME", "WAITING_FOR_QUOTA"} # {}
        BY <3>1 DEF RecordInv, Ladder
    <3> QED
        BY <1>3, <2>2, <3>2 DEF Ladder
  <2> QED
      BY <1>3, <2>1, <2>2 DEF Ladder
<1>6. RowOfWait(Moved(r, to, b))
    BY <1>3, RowsAssumption DEF RowOfWait
<1> QED
    BY <1>4, <1>5, <1>6

\* A row other than the verdict keeps them all.
LEMMA MovedInv ==
    ASSUME NEW r \in Record, RecordInv(r),
           NEW to \in ValidTransitions(r.state), to # "VERIFIED", NEW b
    PROVE  RecordInv(Moved(r, to, b))
<1>1. r.state \in States
    BY DEF Record
<1>2. to \in States /\ (to = "COMPLETE" => r.state = "VERIFIED")
    BY <1>1, WaysIn
<1>3. Moved(r, to, b).state = to /\ Moved(r, to, b).verdict = r.verdict
    BY <1>2, MovedFields
<1>4. VerdictInRecord(Moved(r, to, b))
    BY <1>2, <1>3, MovedByHand DEF RecordInv, VerdictInRecord
<1> QED
    BY <1>4, PastKept DEF RecordInv

\* So does a resumption.
LEMMA ResumedInv ==
    ASSUME NEW r \in Record, RecordInv(r),
           NEW to \in ValidTransitions(r.state), NEW b
    PROVE  RecordInv(Resumed(r, to, b))
<1>1. r.state \in States
    BY DEF Record
<1>2. /\ to \in States
      /\ to = "VERIFIED" => r.state = "VERIFYING"
      /\ to = "COMPLETE" => r.state = "VERIFIED"
    BY <1>1, WaysIn
<1>3. /\ Resumed(r, to, b).state = to
      /\ Moved(r, to, b).state = to
      /\ Resumed(r, to, b).past = Moved(r, to, b).past
    BY <1>2, ResumedFields, MovedFields
<1>4. /\ AcceptedOrBlocked(Resumed(r, to, b)) /\ Ladder(Resumed(r, to, b))
      /\ RowOfWait(Resumed(r, to, b))
    BY <1>3, PastKept DEF AcceptedOrBlocked, Ladder, RowOfWait
<1>5. VerdictInRecord(Resumed(r, to, b))
    BY <1>2, <1>3, ResumedByHand DEF VerdictInRecord, Interrupted
<1> QED
    BY <1>4, <1>5 DEF RecordInv

\* So does a verdict on a milestone that is being verified.
LEMMA JudgedInv ==
    ASSUME NEW r \in Record, RecordInv(r), r.state = "VERIFYING",
           NEW verdict \in Verdicts \ {"pending"}, NEW reviewed \in 0..MaxWork,
           NEW b
    PROVE  RecordInv(Judged(r, verdict, reviewed, b))
<1> DEFINE to == VerdictState(verdict)
           j == Judged(r, verdict, reviewed, b)
<1>1. to \in ValidTransitions(r.state) /\ to \in States
    BY DEF ValidTransitions, States, VerdictState
<1>2. /\ j.state = to /\ j.past = Moved(r, to, b).past /\ j.verdict = verdict
      /\ Moved(r, to, b).state = to
  <2>1. j.state = to /\ j.past = Moved(r, to, b).past /\ j.verdict = verdict
      BY JudgedFields
  <2>2. Moved(r, to, b).state = to
      BY <1>1, MovedFields
  <2> QED
      BY <2>1, <2>2
<1>3. AcceptedOrBlocked(j) /\ Ladder(j) /\ RowOfWait(j)
    BY <1>1, <1>2, PastKept DEF AcceptedOrBlocked, Ladder, RowOfWait
<1>4. VerdictInRecord(j)
    BY <1>2 DEF VerdictInRecord, Verdicts, VerdictState
<1> QED
    BY <1>3, <1>4 DEF RecordInv

-----------------------------------------------------------------------------
(* What the commands make of the records they load.                        *)

\* r has the readable rows and the acceptance of from.
Keeps(r, from) ==
    /\ Readable(from.log) \subseteq r.log
    /\ from.hash # 0 => r.hash # 0

\* The accepted plan is no part of what RecordInv says.
LEMMA SameButPlan ==
    ASSUME NEW r \in Record, RecordInv(r), NEW h \in 0..MaxPlans
    PROVE  /\ [r EXCEPT !.hash = h] \in Record
           /\ [r EXCEPT !.hash = h].state = r.state
           /\ [r EXCEPT !.hash = h].past = r.past
           /\ [r EXCEPT !.hash = h].log = r.log
           /\ [r EXCEPT !.hash = h].hash = h
           /\ RecordInv([r EXCEPT !.hash = h])
<1>1. /\ [r EXCEPT !.hash = h] \in Record
      /\ [r EXCEPT !.hash = h].state = r.state
      /\ [r EXCEPT !.hash = h].past = r.past
      /\ [r EXCEPT !.hash = h].log = r.log
      /\ [r EXCEPT !.hash = h].hash = h
      /\ [r EXCEPT !.hash = h].verdict = r.verdict
    BY DEF Record
<1>2. [r EXCEPT !.hash = h].byHand <=> r.byHand
    BY DEF Record
<1>3. RecordInv([r EXCEPT !.hash = h])
    BY <1>1, <1>2
    DEF RecordInv, AcceptedOrBlocked, Ladder, RowOfWait, VerdictInRecord
<1> QED
    BY <1>1, <1>3

\* Nor is the audit report.
LEMMA SameButAudit ==
    ASSUME NEW r \in Record, RecordInv(r), NEW a \in 0..MaxWork
    PROVE  /\ [r EXCEPT !.audit = a] \in Record
           /\ [r EXCEPT !.audit = a].state = r.state
           /\ [r EXCEPT !.audit = a].past = r.past
           /\ [r EXCEPT !.audit = a].log = r.log
           /\ [r EXCEPT !.audit = a].audit = a
           /\ [r EXCEPT !.audit = a].hash = r.hash
           /\ RecordInv([r EXCEPT !.audit = a])
<1>1. /\ [r EXCEPT !.audit = a] \in Record
      /\ [r EXCEPT !.audit = a].state = r.state
      /\ [r EXCEPT !.audit = a].past = r.past
      /\ [r EXCEPT !.audit = a].log = r.log
      /\ [r EXCEPT !.audit = a].audit = a
      /\ [r EXCEPT !.audit = a].hash = r.hash
      /\ [r EXCEPT !.audit = a].verdict = r.verdict
    BY DEF Record
<1>2. [r EXCEPT !.audit = a].byHand <=> r.byHand
    BY DEF Record
<1>3. RecordInv([r EXCEPT !.audit = a])
    BY <1>1, <1>2
    DEF RecordInv, AcceptedOrBlocked, Ladder, RowOfWait, VerdictInRecord
<1> QED
    BY <1>1, <1>3

\* A load finds the record as it was saved, but for rows of several lines.
LEMMA LoadedFields ==
    ASSUME file \in Record
    PROVE  /\ Loaded \in Record
           /\ Loaded.state = file.state
           /\ Loaded.past = file.past
           /\ Readable(file.log) \subseteq Loaded.log
           /\ Loaded.hash = file.hash
           /\ Loaded.audit = file.audit
           /\ Loaded.verdict = file.verdict
           /\ Loaded.reviewed = file.reviewed
           /\ Loaded.byHand = file.byHand
           /\ RecordInv(file) => RecordInv(Loaded)
           /\ Reviewed(file) => Reviewed(Loaded)
           /\ Straight(Loaded) => Straight(file)
<1>1. Readable(file.log) \in SUBSET Row
    BY DEF Readable, Record
<1>2. /\ Loaded \in Record
      /\ Loaded.state = file.state
      /\ Loaded.past = file.past
      /\ Readable(file.log) = Loaded.log
      /\ Loaded.hash = file.hash
      /\ Loaded.audit = file.audit
      /\ Loaded.verdict = file.verdict
      /\ Loaded.reviewed = file.reviewed
      /\ Loaded.byHand = file.byHand
    BY <1>1 DEF Loaded, Record
<1>3. RecordInv(file) => RecordInv(Loaded)
    BY <1>2
    DEF RecordInv, AcceptedOrBlocked, Ladder, RowOfWait, VerdictInRecord
<1>4. /\ Reviewed(file) => Reviewed(Loaded)
      /\ Straight(Loaded) => Straight(file)
    BY <1>2 DEF Reviewed, Straight
<1> QED
    BY <1>2, <1>3, <1>4

\* What a command will save, r at place, is as good as the file it has read;
\* if it is on its way to a release, nobody may write.
Good(place, r) ==
    /\ r \in Record
    /\ RecordInv(r)
    /\ Fits(place, r.state)
    /\ Keeps(r, file)
    /\ place = "reviewing" => r.audit = file.audit
    /\ Reviewed(file) => Reviewed(r)
    /\ place = "saving" /\ Straight(r) =>
          /\ file.state \notin Writable
          /\ Straight(file)
          /\ r.audit = file.audit
    /\ place \notin {"idle", "inspected", "rejecting"}

\* A row of a state that is no release is good.
LEMMA GoodMove ==
    ASSUME NEW r \in Record, RecordInv(r), Readable(file.log) \subseteq r.log,
           file.hash # 0 => r.hash # 0,
           NEW to \in ValidTransitions(r.state),
           to \notin {"VERIFYING", "VERIFIED", "COMPLETE"},
           NEW place \in {"saving", "starting", "opening"}, Fits(place, to),
           NEW b
    PROVE  Good(place, Moved(r, to, b))
<1>1. r.state \in States
    BY DEF Record
<1>2. to \in States
    BY <1>1, WaysIn
<1>3. /\ Moved(r, to, b) \in Record /\ Moved(r, to, b).state = to
      /\ RecordInv(Moved(r, to, b))
    BY <1>2, MovedFields, MovedInv
<1>4. Keeps(Moved(r, to, b), file)
  <2>1. Moved(r, to, b).state = to /\ Moved(r, to, b).hash = r.hash
      BY <1>2, MovedFields
  <2>2. r.log \subseteq Moved(r, to, b).log
      BY <1>2, MovedFields
  <2> QED
      BY <2>1, <2>2 DEF Keeps
<1>5. Reviewed(Moved(r, to, b)) /\ ~Straight(Moved(r, to, b))
    BY <1>3 DEF Reviewed, Straight
<1> QED
    BY <1>3, <1>4, <1>5 DEF Good

\* A release is good.
LEMMA GoodRelease ==
    ASSUME file \in Record, RecordInv(file), file.state = "VERIFIED", NEW b
    PROVE  Good("saving", Moved(Loaded, "COMPLETE", b))
<1> DEFINE f == Loaded
           r == Moved(f, "COMPLETE", b)
<1>1. "COMPLETE" \in States /\ "COMPLETE" \in ValidTransitions(file.state)
    BY DEF States, ValidTransitions
<1>2. /\ f \in Record /\ RecordInv(f) /\ f.state = file.state
      /\ Readable(file.log) \subseteq f.log
      /\ f.hash = file.hash /\ f.audit = file.audit
      /\ Reviewed(file) => Reviewed(f)
      /\ Straight(f) => Straight(file)
    BY LoadedFields
<1> HIDE DEF f
<1>3. /\ r \in Record /\ r.state = "COMPLETE"
      /\ f.past \subseteq r.past /\ f.log \subseteq r.log
      /\ r.hash = f.hash /\ r.audit = f.audit
      /\ r.reviewed = f.reviewed
    BY <1>1, <1>2, MovedFields
<1>4. r.byHand <=> f.byHand
    BY <1>1, <1>2, MovedByHand
<1>5. RecordInv(r)
    BY <1>1, <1>2, MovedInv
<1> HIDE DEF r
<1>6. Reviewed(f) => Reviewed(r)
    BY <1>2, <1>3, <1>4 DEF Reviewed
<1>7. Straight(r) => Straight(f)
    BY <1>2, <1>3, <1>4 DEF Straight
<1>8. Keeps(r, file) /\ file.state \notin Writable
    BY <1>2, <1>3 DEF Keeps, Writable
<1> QED
    BY <1>2, <1>3, <1>5, <1>6, <1>7, <1>8 DEF Good, Fits, r, f

\* What a verdict makes of a record that is being verified.
LEMMA VerdictMade ==
    ASSUME NEW f \in Record, RecordInv(f), f.state = "VERIFYING",
           NEW verdict \in Verdicts \ {"pending"}, NEW a \in 0..MaxWork,
           NEW b
    PROVE  /\ Judged(f, verdict, a, b) \in Record
           /\ Judged(f, verdict, a, b).state = VerdictState(verdict)
           /\ f.past \subseteq Judged(f, verdict, a, b).past
           /\ f.log \subseteq Judged(f, verdict, a, b).log
           /\ Judged(f, verdict, a, b).hash = f.hash
           /\ Judged(f, verdict, a, b).audit = f.audit
           /\ Judged(f, verdict, a, b).reviewed = a
           /\ RecordInv(Judged(f, verdict, a, b))
           /\ Straight(Judged(f, verdict, a, b)) => Straight(f)
<1> DEFINE r == Judged(f, verdict, a, b)
           to == VerdictState(verdict)
<1>1. to \in States /\ to # "DRAFT"
    BY DEF States, VerdictState
<1>2. /\ r \in Record /\ r.state = to /\ r.past = Moved(f, to, b).past
      /\ f.log \subseteq r.log
      /\ r.hash = f.hash /\ r.audit = f.audit /\ r.reviewed = a
    BY JudgedFields
<1>3. r.byHand <=> f.byHand
    BY JudgedByHand
<1>4. f.past \subseteq r.past
    BY <1>1, <1>2, MovedFields
<1>5. RecordInv(r)
    BY JudgedInv
<1> HIDE DEF r
<1>6. Straight(r) => Straight(f)
    BY <1>3, <1>4 DEF Straight
<1> QED
    BY <1>2, <1>4, <1>5, <1>6 DEF r

\* A verdict, for the report that is in the file, is good.
LEMMA GoodVerdict ==
    ASSUME file \in Record, RecordInv(file), file.state = "VERIFYING",
           NEW verdict \in Verdicts \ {"pending"}, NEW b
    PROVE  Good("saving", Judged(Loaded, verdict, file.audit, b))
<1> DEFINE f == Loaded
           r == Judged(f, verdict, file.audit, b)
<1>1. file.audit \in 0..MaxWork
    BY DEF Record
<1>2. /\ f \in Record /\ RecordInv(f) /\ f.state = "VERIFYING"
      /\ Readable(file.log) \subseteq f.log
      /\ f.hash = file.hash /\ f.audit = file.audit
      /\ Straight(f) => Straight(file)
    BY LoadedFields
<1> HIDE DEF f
<1>3. /\ r \in Record /\ RecordInv(r) /\ f.log \subseteq r.log
      /\ r.hash = f.hash /\ r.audit = f.audit
      /\ r.reviewed = file.audit
      /\ Straight(r) => Straight(f)
    BY <1>1, <1>2, VerdictMade
<1> HIDE DEF r
<1>4. Reviewed(r) /\ Keeps(r, file) /\ file.state \notin Writable
    BY <1>2, <1>3 DEF Reviewed, Keeps, Writable
<1> QED
    BY <1>2, <1>3, <1>4 DEF Good, Fits, r, f

\* So is a resumption.
LEMMA GoodResumption ==
    ASSUME file \in Record, RecordInv(file),
           NEW to \in ValidTransitions(file.state), NEW b
    PROVE  Good("saving", Resumed(Loaded, to, b))
<1> DEFINE f == Loaded
           r == Resumed(f, to, b)
<1>1. /\ f \in Record /\ RecordInv(f) /\ f.state = file.state
      /\ Readable(file.log) \subseteq f.log /\ f.hash = file.hash
    BY LoadedFields
<1>2. f.state \in States /\ to \in ValidTransitions(f.state)
    BY <1>1 DEF Record
<1> HIDE DEF f
<1>3. /\ to \in States
      /\ to = "VERIFYING" =>
            f.state \in {"AUDITING", "WAITING_FOR_QUOTA",
                        "WAITING_FOR_CLAUDE", "READY_TO_RESUME"}
      /\ to = "VERIFIED" => f.state = "VERIFYING"
      /\ to = "COMPLETE" => f.state = "VERIFIED"
    BY <1>2, WaysIn
<1>4. /\ r \in Record /\ r.state = to /\ r.past = Moved(f, to, b).past
      /\ r.hash = f.hash /\ f.log \subseteq r.log
    BY <1>1, <1>3, ResumedFields
<1>5. to # "DRAFT" => f.past \subseteq r.past
    BY <1>1, <1>3, <1>4, MovedFields
<1>6. RecordInv(r)
    BY <1>1, <1>2, ResumedInv
<1>7. /\ to \in {"VERIFIED", "COMPLETE"} => r.byHand
      /\ to = "VERIFYING" /\ f.state = "AUDITING" => r.byHand
    BY <1>1, <1>3, ResumedByHand DEF Interrupted
<1> HIDE DEF r
<1>8. Reviewed(r)
    BY <1>4, <1>7 DEF Reviewed
<1>9. ~Straight(r)
  <2>1. CASE to = "VERIFYING" /\ f.state # "AUDITING"
    <3>1. f.state \in f.past
        BY <1>1, <1>3, <2>1 DEF RecordInv, RowOfWait
    <3> QED
        BY <1>3, <1>5, <2>1, <3>1 DEF Straight
  <2> QED
      BY <1>4, <1>7, <2>1 DEF Straight
<1>10. Keeps(r, file)
    BY <1>1, <1>4 DEF Keeps
<1> QED
    BY <1>4, <1>6, <1>8, <1>9, <1>10 DEF Good, Fits, r, f

\* Every command begins with a copy that is good.
LEMMA CommandMade ==
    ASSUME TypeOK, RecordInv(file), NEW c \in Commands, Command(c)
    PROVE  \E place \in Places, r \in Record :
              Good(place, r) /\ Begin(c, place, r)
<1> USE DEF Places
<1>1. file \in Record /\ plan \in 0..MaxPlans /\ file.state \in States
    BY DEF TypeOK, Record
<1>0. /\ Loaded \in Record /\ RecordInv(Loaded)
      /\ Loaded.state = file.state
      /\ Readable(file.log) \subseteq Loaded.log
      /\ Loaded.hash = file.hash /\ Loaded.audit = file.audit
      /\ Reviewed(file) => Reviewed(Loaded)
    BY <1>1, LoadedFields
<1>2. CASE UserAcceptPlan(c)
  <2> DEFINE h == IF plan = 0 THEN Loaded.hash ELSE plan
             r == [Loaded EXCEPT !.hash = IF plan = 0 THEN @ ELSE plan]
  <2>1. h \in 0..MaxPlans /\ r = [Loaded EXCEPT !.hash = h]
      BY <1>0, <1>1 DEF Record
  <2>2. PICK b \in BOOLEAN : Begin(c, "saving", Moved(r, "ACCEPTED", b))
      BY <1>2 DEF UserAcceptPlan
  <2>3. file.hash # 0 => h # 0
      BY <1>0
  <2> HIDE DEF r, h
  <2>4. /\ r \in Record /\ RecordInv(r) /\ r.log = Loaded.log
        /\ r.state = Loaded.state /\ r.hash = h
      BY <1>0, <2>1, SameButPlan
  <2>5. "ACCEPTED" \in ValidTransitions(r.state)
      BY <1>0, <1>2, <2>4 DEF UserAcceptPlan, Valid
  <2>6. Good("saving", Moved(r, "ACCEPTED", b))
      BY <1>0, <2>4, <2>5, <2>3, GoodMove DEF Fits
  <2> QED
      BY <2>2, <2>6 DEF Good
<1>3. CASE UserModifyPlan(c)
  <2>1. PICK b \in BOOLEAN : Begin(c, "saving", Moved(Loaded, "DRAFT", b))
      BY <1>3 DEF UserModifyPlan
  <2>2. Good("saving", Moved(Loaded, "DRAFT", b))
      BY <1>0, <1>3, GoodMove DEF UserModifyPlan, Valid, Fits
  <2> QED
      BY <2>1, <2>2 DEF Good
<1>4. CASE StartImplementation(c)
  <2>1. Good("starting", Moved(Loaded, "IMPLEMENTING", TRUE))
      BY <1>0, <1>4, GoodMove DEF StartImplementation, Valid, Fits
  <2> QED
      BY <1>4, <2>1 DEF StartImplementation, Good
<1>5. CASE PerformAudit(c)
  <2>1. ASSUME file.state # "AUDITING",
               Valid(file.state, "AUDITING", "Antigravity")
        PROVE  Good("opening", Moved(Loaded, "AUDITING", TRUE))
      BY <1>0, <2>1, GoodMove DEF Valid, Fits
  <2>2. file.state = "AUDITING" => Good("auditing", Loaded)
      BY <1>0 DEF Good, Keeps, Fits
  <2> QED
      BY <1>5, <2>1, <2>2 DEF PerformAudit, Good
<1>6. CASE VerifyMilestone(c)
  <2>1. Good("reviewing", Loaded)
      BY <1>0, <1>6 DEF VerifyMilestone, Good, Keeps, Fits
  <2> QED
      BY <1>6, <2>1 DEF VerifyMilestone, Good
<1>7. CASE RecordVerification(c)
  <2>1. file.state = "VERIFYING"
      BY <1>1, <1>7, WaysIn DEF RecordVerification, Valid
  <2>2. PICK verdict \in Verdicts \ {"pending"}, b \in BOOLEAN :
            Begin(c, "saving", Judged(Loaded, verdict, file.audit, b))
      BY <1>7 DEF RecordVerification
  <2> QED
      BY <1>1, <2>1, <2>2, GoodVerdict DEF Good
<1>8. CASE ReleaseMilestone(c)
  <2>1. file.state = "VERIFIED"
      BY <1>8 DEF ReleaseMilestone, Valid
  <2> QED
      BY <1>1, <1>8, <2>1, GoodRelease DEF ReleaseMilestone, Good
<1>9. CASE ResumeFromInterruption(c)
  <2>1. PICK to \in ResumeTargets, actor \in Actors, b \in BOOLEAN :
            /\ Valid(file.state, to, actor)
            /\ Begin(c, "saving", Resumed(Loaded, to, b))
      BY <1>9 DEF ResumeFromInterruption
  <2>2. to \in ValidTransitions(file.state)
      BY <2>1 DEF Valid
  <2> QED
      BY <1>1, <2>1, <2>2, GoodResumption DEF Good
<1> QED
    BY <1>2, <1>3, <1>4, <1>5, <1>6, <1>7, <1>8, <1>9 DEF Command

-----------------------------------------------------------------------------
(* What a command does after its load.                                     *)

\* c goes on to place with r: a record that keeps what its copy has, and that
\* is on its way to a release only after a look at the working tree.
Ahead(c, place, r) ==
    /\ r \in Record
    /\ RecordInv(r)
    /\ Fits(place, r.state)
    /\ place \in {"saving", "working", "inspected"}
    /\ copy[c].log \subseteq r.log
    /\ r.hash = copy[c].hash
    /\ r.state \notin {"VERIFIED", "COMPLETE"}
    /\ Straight(r) => place = "inspected" /\ r.audit = work
    /\ at[c] # "idle"

\* What the steps after a load, short of a save, make of a copy.
LEMMA StepMade ==
    ASSUME TypeOK, NEW c \in Commands, RecordInv(copy[c]), PlaceInv(c),
           CheckPlan(c) \/ WorkerAnswers(c) \/ Inspect(c) \/ BridgeFails(c)
    PROVE  \/ /\ End(c)
              /\ UNCHANGED <<file, plan, work, write, raced, agreed, given>>
           \/ \E place \in Places, r \in Record :
                 /\ Ahead(c, place, r)
                 /\ Continue(c, place, r)
                 /\ UNCHANGED <<stale, raced>>
<1> USE DEF Places
<1>1. copy[c] \in Record
    BY DEF TypeOK
<1>2. ASSUME NEW from \in Record, RecordInv(from), from.log = copy[c].log,
             from.state = copy[c].state, from.hash = copy[c].hash,
             at[c] # "idle", NEW b,
             NEW to \in ValidTransitions(from.state),
             to \notin {"VERIFIED", "COMPLETE", "DRAFT"},
             NEW place \in {"saving", "inspected"}, Fits(place, to),
             to = "VERIFYING" => place = "inspected" /\ from.audit = work
      PROVE  Ahead(c, place, Moved(from, to, b))
  <2>1. to \in States
      BY <1>2, WaysIn DEF Record
  <2>2. RecordInv(Moved(from, to, b))
      BY <1>2, MovedInv
  <2>3. /\ Moved(from, to, b) \in Record /\ Moved(from, to, b).state = to
        /\ Moved(from, to, b).hash = from.hash
        /\ Moved(from, to, b).audit = from.audit
      BY <2>1, MovedFields
  <2>4. from.log \subseteq Moved(from, to, b).log
      BY <1>2, <2>1, MovedFields
  <2> QED
      BY <1>2, <2>2, <2>3, <2>4 DEF Ahead, Straight
<1>3. CASE CheckPlan(c)
  <2>1. at[c] = "checking" /\ copy[c].state = "IMPLEMENTING"
      BY <1>3 DEF CheckPlan, PlaceInv, Fits
  <2>2. "BLOCKED" \in ValidTransitions(copy[c].state)
      BY <2>1 DEF ValidTransitions
  <2>3. Ahead(c, "saving", Moved(copy[c], "BLOCKED", TRUE))
      BY <1>1, <1>2, <2>1, <2>2 DEF Fits
  <2>4. Ahead(c, "working", copy[c])
      BY <1>1, <2>1 DEF Ahead, Fits, Straight
  <2>5. Moved(copy[c], "BLOCKED", TRUE) \in Record
      BY <2>3 DEF Ahead
  <2> QED
      BY <1>1, <1>3, <2>3, <2>4, <2>5 DEF CheckPlan
<1>4. CASE WorkerAnswers(c)
  <2>1. at[c] = "working" /\ copy[c].state = "IMPLEMENTING"
      BY <1>4 DEF WorkerAnswers, PlaceInv, Fits
  <2>2. "WORKER_FAILED" \in ValidTransitions(copy[c].state)
      BY <2>1 DEF ValidTransitions
  <2>3. ASSUME NEW b
        PROVE  Ahead(c, "saving", Moved(copy[c], "WORKER_FAILED", b))
      BY <1>1, <1>2, <2>1, <2>2 DEF Fits
  <2>4. Ahead(c, "saving", copy[c])
      BY <1>1, <2>1 DEF Ahead, Fits, Straight
  <2>5. ASSUME NEW b PROVE Moved(copy[c], "WORKER_FAILED", b) \in Record
      BY <2>3 DEF Ahead
  <2> QED
      BY <1>1, <1>4, <2>3, <2>4, <2>5 DEF WorkerAnswers
<1>5. CASE Inspect(c)
  <2>1. at[c] = "auditing" /\ copy[c].state = "AUDITING"
      BY <1>5 DEF Inspect, PlaceInv, Fits
  <2>2. PICK to \in {"VERIFYING", "FIXING"}, b \in BOOLEAN :
            /\ Continue(c, "inspected",
                        Moved([copy[c] EXCEPT !.audit = work], to, b))
            /\ UNCHANGED <<stale, raced>>
      BY <1>5 DEF Inspect
  <2>3. to \in ValidTransitions("AUDITING")
      BY DEF ValidTransitions
  <2>4. work \in 0..MaxWork
      BY BoundsAssumption DEF TypeOK
  <2> DEFINE from == [copy[c] EXCEPT !.audit = work]
  <2>5. Continue(c, "inspected", Moved(from, to, b))
      BY <2>2
  <2>6. /\ from \in Record /\ RecordInv(from) /\ from.audit = work
        /\ from.log = copy[c].log /\ from.state = copy[c].state
        /\ from.hash = copy[c].hash
      BY <1>1, <2>4, SameButAudit
  <2> HIDE DEF from
  <2>7. Ahead(c, "inspected", Moved(from, to, b))
      BY <1>2, <2>1, <2>3, <2>6 DEF Fits
  <2>8. Moved(from, to, b) \in Record
      BY <2>7 DEF Ahead
  <2> QED
      BY <2>2, <2>5, <2>7, <2>8
<1>6. CASE BridgeFails(c)
  <2>1. at[c] = "reviewing" /\ copy[c].state = "VERIFYING"
      BY <1>6 DEF BridgeFails, PlaceInv, Fits
  <2>2. "WAITING_FOR_CLAUDE" \in ValidTransitions(copy[c].state)
      BY <2>1 DEF ValidTransitions
  <2>3. PICK b \in BOOLEAN :
            /\ Continue(c, "saving", Moved(copy[c], "WAITING_FOR_CLAUDE", b))
            /\ UNCHANGED <<stale, raced>>
      BY <1>6 DEF BridgeFails
  <2>4. Ahead(c, "saving", Moved(copy[c], "WAITING_FOR_CLAUDE", b))
      BY <1>1, <1>2, <2>1, <2>2 DEF Fits
  <2>5. Moved(copy[c], "WAITING_FOR_CLAUDE", b) \in Record
      BY <2>4 DEF Ahead
  <2> QED
      BY <2>3, <2>4, <2>5
<1> QED
    BY <1>3, <1>4, <1>5, <1>6

-----------------------------------------------------------------------------
(* Every step keeps the invariant.                                         *)

\* A command that begins.
LEMMA BeginInv ==
    ASSUME Inv, NEW c \in Commands, NEW place \in Places, NEW r \in Record,
           Good(place, r), Begin(c, place, r)
    PROVE  Inv'
<1>1. /\ UNCHANGED <<file, plan, work, write, raced, agreed>>
      /\ at' = [at EXCEPT ![c] = place]
      /\ copy' = [copy EXCEPT ![c] = r]
      /\ stale' = [stale EXCEPT ![c] = FALSE]
    BY DEF Begin
<1>2. TypeOK'
  <2>1. given' \in 0..MaxCommands
      BY BoundsAssumption DEF Begin, Inv, TypeOK
  <2> QED
      BY <1>1, <2>1 DEF Inv, TypeOK
<1>3. /\ at'[c] = place /\ copy'[c] = r /\ ~stale'[c]
      /\ \A d \in Commands \ {c} :
            at'[d] = at[d] /\ copy'[d] = copy[d] /\ (stale'[d] <=> stale[d])
    BY <1>1 DEF Inv, TypeOK
<1>4. RecordInv(file')
    BY <1>1 DEF Inv
<1>5. ASSUME NEW d \in Commands
      PROVE  Fits(at'[d], copy'[d].state) /\ RecordInv(copy'[d])
    BY <1>3 DEF Inv, PlaceInv, Good
<1>6. ASSUME NEW d \in Commands PROVE FreshInv(d)'
    BY <1>1, <1>3 DEF Inv, FreshInv, Good, Keeps
<1>7. HashInv'
    BY <1>1 DEF Inv, HashInv
<1>8. ~raced' => Reviewed(file') /\ \A d \in Commands : Reviewed(copy'[d])
    BY <1>1, <1>3 DEF Inv, ReviewInv, Good
<1>9. WorkInv'
    BY <1>1, <1>3 DEF Inv, WorkInv, Good
<1>13. ASSUME NEW w \in Writers PROVE WriterInv(w)'
    BY <1>1 DEF Inv, WriterInv
<1> QED
    BY <1>2, <1>4, <1>5, <1>6, <1>7, <1>8, <1>9, <1>13
    DEF Inv, PlaceInv, ReviewInv

\* A command that goes on.
LEMMA AheadInv ==
    ASSUME Inv, NEW c \in Commands, NEW place \in Places, NEW r \in Record,
           Ahead(c, place, r), Continue(c, place, r),
           UNCHANGED <<stale, raced>>
    PROVE  Inv'
<1>1. /\ UNCHANGED <<file, plan, work, write, raced, agreed, given, stale>>
      /\ at' = [at EXCEPT ![c] = place]
      /\ copy' = [copy EXCEPT ![c] = r]
    BY DEF Continue
<1>2. TypeOK'
    BY <1>1 DEF Inv, TypeOK
<1>3. /\ at'[c] = place /\ copy'[c] = r
      /\ \A d \in Commands \ {c} : at'[d] = at[d] /\ copy'[d] = copy[d]
    BY <1>1 DEF Inv, TypeOK
<1>4. RecordInv(file')
    BY <1>1 DEF Inv
<1>5. ASSUME NEW d \in Commands
      PROVE  Fits(at'[d], copy'[d].state) /\ RecordInv(copy'[d])
    BY <1>3 DEF Inv, PlaceInv, Ahead
<1>6. ASSUME NEW d \in Commands PROVE FreshInv(d)'
    BY <1>1, <1>3 DEF Inv, FreshInv, Ahead
<1>7. HashInv'
    BY <1>1 DEF Inv, HashInv
<1>8. Reviewed(r)
    BY DEF Ahead, Reviewed
<1>9. ~raced' => Reviewed(file') /\ \A d \in Commands : Reviewed(copy'[d])
    BY <1>1, <1>3, <1>8 DEF Inv, ReviewInv
<1>10. WorkInv'
    BY <1>1, <1>3 DEF Inv, WorkInv, Ahead
<1>13. ASSUME NEW w \in Writers PROVE WriterInv(w)'
    BY <1>1 DEF Inv, WriterInv
<1> QED
    BY <1>2, <1>4, <1>5, <1>6, <1>7, <1>9, <1>10, <1>13
    DEF Inv, PlaceInv, ReviewInv

\* A new record holds nothing that could be wrong.
LEMMA NewRecordOK ==
    /\ NewRecord \in Record /\ RecordInv(NewRecord)
    /\ Reviewed(NewRecord) /\ ~Straight(NewRecord)
    /\ \A s \in States : Fits("idle", s)
<1>1. NewRecord \in Record
    BY BoundsAssumption DEF NewRecord, Record, States, Verdicts
<1>2. NewRecord.state = "DRAFT"
    BY DEF NewRecord
<1>3. RecordInv(NewRecord)
    BY <1>2
    DEF RecordInv, AcceptedOrBlocked, BeforeAcceptance, Ladder, RowOfWait,
        VerdictInRecord
<1>4. Reviewed(NewRecord) /\ ~Straight(NewRecord)
    BY <1>2 DEF Reviewed, Straight
<1> QED
    BY <1>1, <1>3, <1>4 DEF Fits

\* A command that ends, or is killed.
LEMMA EndInv ==
    ASSUME Inv, NEW c \in Commands, End(c),
           UNCHANGED <<file, plan, work, write, raced, agreed, given>>
    PROVE  Inv'
<1>1. /\ at' = [at EXCEPT ![c] = "idle"]
      /\ copy' = [copy EXCEPT ![c] = NewRecord]
      /\ stale' = [stale EXCEPT ![c] = FALSE]
    BY DEF End
<1>2. TypeOK'
    BY <1>1, NewRecordOK DEF Inv, TypeOK, Places
<1>3. /\ at'[c] = "idle" /\ copy'[c] = NewRecord
      /\ \A d \in Commands \ {c} :
            at'[d] = at[d] /\ copy'[d] = copy[d] /\ (stale'[d] <=> stale[d])
    BY <1>1 DEF Inv, TypeOK
<1>4. RecordInv(file')
    BY <1>1 DEF Inv
<1>5. ASSUME NEW d \in Commands
      PROVE  Fits(at'[d], copy'[d].state) /\ RecordInv(copy'[d])
    BY <1>3, NewRecordOK DEF Inv, PlaceInv, Fits
<1>6. ASSUME NEW d \in Commands PROVE FreshInv(d)'
    BY <1>1, <1>3 DEF Inv, FreshInv
<1>7. HashInv'
    BY <1>1 DEF Inv, HashInv
<1>8. ~raced' => Reviewed(file') /\ \A d \in Commands : Reviewed(copy'[d])
    BY <1>1, <1>3, NewRecordOK DEF Inv, ReviewInv
<1>9. WorkInv'
    BY <1>1, <1>3, NewRecordOK DEF Inv, WorkInv
<1>13. ASSUME NEW w \in Writers PROVE WriterInv(w)'
    BY DEF Inv, WriterInv
<1> QED
    BY <1>2, <1>4, <1>5, <1>6, <1>7, <1>8, <1>9, <1>13
    DEF Inv, PlaceInv, ReviewInv

\* c has loaded the file once more, with what it had read at hand.
Reloaded(c) ==
    /\ raced' = (raced \/ stale[c])
    /\ stale' = [stale EXCEPT ![c] = FALSE]

\* c goes on to place with r: a verdict, in the record that it has loaded.
Answered(c, place, r) ==
    /\ r \in Record
    /\ RecordInv(r)
    /\ place \in {"saving", "rejecting"} /\ Fits(place, r.state)
    /\ at[c] = "reviewing" /\ file.state = "VERIFYING"
    /\ \E verdict \in Verdicts : r.state = VerdictState(verdict)
    /\ Readable(file.log) \subseteq r.log
    /\ r.hash = file.hash /\ r.audit = file.audit
    /\ r.reviewed = copy[c].audit
    /\ Straight(r) => Straight(file)

\* What the answer of Claude makes of the record it loads.
LEMMA AnswerMade ==
    ASSUME TypeOK, RecordInv(file), NEW c \in Commands, BridgeAnswers(c)
    PROVE  \/ /\ End(c)
              /\ UNCHANGED <<file, plan, work, write, raced, agreed, given>>
           \/ /\ Valid(file.state, "VERIFIED", "Claude")
              /\ \E place \in Places, r \in Record :
                    /\ Answered(c, place, r)
                    /\ Continue(c, place, r)
                    /\ Reloaded(c)
<1>1. /\ file \in Record /\ copy[c].audit \in 0..MaxWork
      /\ file.state \in States /\ at[c] = "reviewing"
      /\ "saving" \in Places /\ "rejecting" \in Places
    BY DEF TypeOK, Record, Places, BridgeAnswers
<1>2. ASSUME Valid(file.state, "VERIFIED", "Claude"),
             NEW verdict \in Verdicts \ {"pending"}, NEW b,
             NEW place \in {"saving", "rejecting"},
             place = "rejecting" => verdict = "NOT VERIFIED"
      PROVE  LET r == Judged(Loaded, verdict, copy[c].audit, b)
             IN  Answered(c, place, r) /\ r \in Record
  <2> DEFINE f == Loaded
             a == copy[c].audit
             r == Judged(f, verdict, a, b)
  <2>1. file.state = "VERIFYING"
      BY <1>1, <1>2, WaysIn DEF Valid
  <2>2. /\ f \in Record /\ RecordInv(f) /\ f.state = "VERIFYING"
        /\ Readable(file.log) \subseteq f.log
        /\ f.hash = file.hash /\ f.audit = file.audit
        /\ Straight(f) => Straight(file)
        /\ a \in 0..MaxWork
      BY <1>1, <2>1, LoadedFields
  <2> HIDE DEF f, a
  <2>3. /\ r \in Record /\ r.state = VerdictState(verdict)
        /\ f.log \subseteq r.log
        /\ r.hash = f.hash /\ r.audit = f.audit
        /\ r.reviewed = a
        /\ RecordInv(r) /\ (Straight(r) => Straight(f))
      BY <2>2, VerdictMade
  <2>4. Fits(place, VerdictState(verdict))
      BY <1>2 DEF Fits, VerdictState
  <2> HIDE DEF r
  <2>5. Answered(c, place, r)
      BY <1>1, <2>1, <2>2, <2>3, <2>4 DEF Answered, a
  <2> QED
      BY <2>3, <2>5 DEF r, f, a
<1>3. "VERIFIED" \in Verdicts \ {"pending"}
      /\ "NOT VERIFIED" \in Verdicts \ {"pending"}
    BY DEF Verdicts
<1>4. CASE Valid(file.state, "VERIFIED", "Claude")
  <2>1. ASSUME NEW b
        PROVE  LET r == Judged(Loaded, "VERIFIED", copy[c].audit, b)
               IN  Answered(c, "saving", r) /\ r \in Record
      BY <1>2, <1>3, <1>4
  <2>2. ASSUME NEW b
        PROVE  LET r == Judged(Loaded, "NOT VERIFIED", copy[c].audit, b)
               IN  Answered(c, "rejecting", r) /\ r \in Record
      BY <1>2, <1>3, <1>4
  <2> QED
      BY <1>1, <1>4, <2>1, <2>2 DEF BridgeAnswers, Reloaded
<1>5. CASE ~Valid(file.state, "VERIFIED", "Claude")
    BY <1>5 DEF BridgeAnswers
<1> QED
    BY <1>4, <1>5

\* The answer of Claude, to a milestone that is still VERIFYING.
LEMMA AnswerInv ==
    ASSUME Inv, NEW c \in Commands, NEW place \in Places, NEW r \in Record,
           Answered(c, place, r), Continue(c, place, r), Reloaded(c)
    PROVE  Inv'
<1>1. /\ UNCHANGED <<file, plan, work, write, agreed, given>>
      /\ at' = [at EXCEPT ![c] = place]
      /\ copy' = [copy EXCEPT ![c] = r]
    BY DEF Continue
<1>2. file.state = "VERIFYING" /\ at[c] = "reviewing"
    BY DEF Answered
<1>3. /\ Readable(file.log) \subseteq r.log
      /\ r.hash = file.hash /\ r.audit = file.audit
      /\ r.reviewed = copy[c].audit
      /\ RecordInv(r) /\ (Straight(r) => Straight(file))
      /\ Fits(place, r.state) /\ place \in {"saving", "rejecting"}
    BY DEF Answered
<1>5. TypeOK'
  <2>1. raced' \in BOOLEAN /\ stale' \in [Commands -> BOOLEAN]
      BY DEF Reloaded, Inv, TypeOK
  <2> QED
      BY <1>1, <1>3, <2>1 DEF Inv, TypeOK, Places
<1>6. /\ at'[c] = place /\ copy'[c] = r
       /\ \A d \in Commands \ {c} :
             at'[d] = at[d] /\ copy'[d] = copy[d] /\ (stale'[d] <=> stale[d])
    BY <1>1 DEF Inv, TypeOK, Reloaded
<1>7. RecordInv(file')
    BY <1>1 DEF Inv
<1>8. ASSUME NEW d \in Commands
       PROVE  Fits(at'[d], copy'[d].state) /\ RecordInv(copy'[d])
    BY <1>3, <1>6 DEF Inv, PlaceInv
<1>9. ASSUME NEW d \in Commands PROVE FreshInv(d)'
    BY <1>1, <1>3, <1>6 DEF Inv, FreshInv, Keeps
<1>10. HashInv'
    BY <1>1 DEF Inv, HashInv, Reloaded
<1>11. ASSUME ~raced'
       PROVE  Reviewed(file') /\ \A d \in Commands : Reviewed(copy'[d])
  <2>1. ~raced /\ ~stale[c]
      BY <1>11 DEF Reloaded
  <2>2. copy[c].audit = file.audit
      BY <1>2, <2>1 DEF Inv, FreshInv
  <2>3. Reviewed(r)
      BY <1>3, <2>2 DEF Reviewed
  <2> QED
      BY <1>1, <1>6, <2>1, <2>3 DEF Inv, ReviewInv
<1>12. WorkInv'
  <2>1. file.state \notin Writable
      BY <1>2 DEF Writable
  <2>2. ~raced' => ~raced
      BY DEF Reloaded
  <2> QED
      BY <1>1, <1>3, <1>6, <2>1, <2>2 DEF Inv, WorkInv
<1>13. ASSUME NEW w \in Writers PROVE WriterInv(w)'
    BY <1>1 DEF Inv, WriterInv
<1> QED
    BY <1>13, <1>5, <1>7, <1>8, <1>9, <1>10, <1>11, <1>12
    DEF Inv, PlaceInv, ReviewInv

\* Where a save leaves its command, and with which copy.
LEMMA SavedCopy ==
    ASSUME Inv, NEW c \in Commands, Save(c)
    PROVE  /\ copy'[c] \in Record /\ at'[c] \in Places
           /\ RecordInv(copy'[c])
           /\ Fits(at'[c], copy'[c].state)
           /\ at'[c] # "idle" =>
                 /\ copy[c].log \subseteq copy'[c].log
                 /\ copy'[c].hash = copy[c].hash
           /\ at'[c] \notin {"reviewing", "inspected", "rejecting"}
           /\ at'[c] = "saving" => ~Straight(copy'[c])
           /\ Reviewed(copy[c]) => Reviewed(copy'[c])
<1>1. copy[c] \in Record /\ RecordInv(copy[c]) /\ PlaceInv(c)
    BY DEF Inv, TypeOK
<1>2. CASE at[c] = "rejecting"
  <2>1. copy[c].state = "NOT_VERIFIED"
      BY <1>1, <1>2 DEF PlaceInv, Fits
  <2>2. "FIXING" \in ValidTransitions(copy[c].state) /\ "FIXING" \in States
      BY <2>1 DEF ValidTransitions, States
  <2>3. PICK b \in BOOLEAN :
            at'[c] = "saving" /\ copy'[c] = Moved(copy[c], "FIXING", b)
      BY <1>2 DEF Save, Inv, TypeOK
  <2>4. RecordInv(Moved(copy[c], "FIXING", b))
      BY <1>1, <2>2, MovedInv
  <2>5. /\ Moved(copy[c], "FIXING", b) \in Record
        /\ Moved(copy[c], "FIXING", b).state = "FIXING"
        /\ Moved(copy[c], "FIXING", b).hash = copy[c].hash
        /\ copy[c].log \subseteq Moved(copy[c], "FIXING", b).log
      BY <1>1, <2>2, MovedFields
  <2> QED
      BY <2>3, <2>4, <2>5 DEF Fits, Straight, Reviewed, Places
<1>3. CASE at[c] \in {"saving", "inspected"}
  <2>1. at'[c] = "idle" /\ copy'[c] = NewRecord
      BY <1>3 DEF Save, Inv, TypeOK
  <2> QED
      BY <2>1, NewRecordOK DEF Places, Fits
<1>4. CASE at[c] \in {"starting", "opening"}
  <2>1. /\ at'[c] \in {"checking", "auditing"} /\ copy'[c] = copy[c]
        /\ at[c] = "starting" => at'[c] = "checking"
        /\ at[c] = "opening" => at'[c] = "auditing"
      BY <1>4 DEF Save, Inv, TypeOK
  <2> QED
      BY <1>1, <1>4, <2>1 DEF PlaceInv, Fits, Places
<1> QED
    BY <1>2, <1>3, <1>4 DEF Save

\* A copy that replaces the file.
LEMMA SaveInv ==
    ASSUME Inv, NEW c \in Commands, Save(c)
    PROVE  Inv'
<1>1. /\ file' = copy[c]
      /\ agreed' = agreed \cup ({copy[c].hash} \ {0})
      /\ UNCHANGED <<plan, work, given>>
    BY DEF Save
<1>2. /\ copy[c] \in Record /\ RecordInv(copy[c]) /\ PlaceInv(c)
      /\ FreshInv(c) /\ HashInv
      /\ at[c] \in {"saving", "starting", "opening", "inspected", "rejecting"}
    BY DEF Inv, TypeOK, Save
<1>3. /\ copy'[c] \in Record /\ at'[c] \in Places
      /\ RecordInv(copy'[c])
      /\ Fits(at'[c], copy'[c].state)
      /\ at'[c] # "idle" =>
            /\ copy[c].log \subseteq copy'[c].log
            /\ copy'[c].hash = copy[c].hash
      /\ at'[c] \notin {"reviewing", "inspected", "rejecting"}
      /\ at'[c] = "saving" => ~Straight(copy'[c])
      /\ Reviewed(copy[c]) => Reviewed(copy'[c])
    BY SavedCopy
<1>4. \A d \in Commands \ {c} : at'[d] = at[d] /\ copy'[d] = copy[d]
    BY DEF Save, Inv, TypeOK
<1>5. \A d \in Commands \ {c} : at[d] # "idle" => stale'[d]
    BY DEF Save
<1>6. ~raced' => ~raced /\ ~stale[c]
    BY DEF Save
<1>7. TypeOK'
  <2>1. raced' \in BOOLEAN /\ stale' \in [Commands -> BOOLEAN]
      BY DEF Save
  <2>2. at' \in [Commands -> Places]
      BY <1>3 DEF Save, Inv, TypeOK
  <2>3. copy' \in [Commands -> Record]
    <3>1. copy' = [copy EXCEPT ![c] = copy'[c]]
        BY DEF Save, Inv, TypeOK
    <3> QED
        BY <1>3, <3>1 DEF Inv, TypeOK
  <2>4. agreed' \subseteq 1..MaxPlans
    <3>1. copy[c].hash \in 0..MaxPlans
        BY <1>2 DEF Record
    <3>2. {copy[c].hash} \ {0} \subseteq 1..MaxPlans
        BY <3>1, BoundsAssumption
    <3> QED
        BY <1>1, <3>2 DEF Inv, TypeOK
  <2>5. write' \in [Writers -> Writing]
    <3>1. ASSUME NEW w \in Writers
          PROVE  [write[w] EXCEPT !.stale = write[w].at # "idle"] \in Writing
        BY DEF Inv, TypeOK, Writing
    <3> QED
        BY <3>1 DEF Save
  <2> QED
      BY <1>1, <1>2, <2>1, <2>2, <2>3, <2>4, <2>5 DEF Inv, TypeOK
<1>8. ASSUME NEW d \in Commands
      PROVE  Fits(at'[d], copy'[d].state) /\ RecordInv(copy'[d])
    BY <1>3, <1>4 DEF Inv, PlaceInv
<1>9. ASSUME NEW d \in Commands PROVE FreshInv(d)'
    BY <1>1, <1>3, <1>4, <1>5 DEF FreshInv, Readable
<1>10. HashInv'
    BY <1>1, <1>2, <1>6 DEF HashInv, FreshInv
<1>11. ~raced' => Reviewed(file') /\ \A d \in Commands : Reviewed(copy'[d])
    BY <1>1, <1>3, <1>4, <1>6 DEF Inv, ReviewInv
<1>12. WorkInv'
  <2>1. ASSUME ~raced', Straight(copy[c]) PROVE copy[c].audit = work
    <3>1. at[c] \in {"saving", "inspected", "rejecting"}
        BY <1>2, <2>1 DEF PlaceInv, Fits, Straight
    <3> QED
        BY <1>6, <2>1, <3>1 DEF Inv, WorkInv
  <2>2. ASSUME NEW d \in Commands,
               at'[d] \in {"saving", "inspected", "rejecting"},
               ~stale'[d], Straight(copy'[d])
        PROVE  FALSE
      BY <1>3, <1>4, <1>5, <2>2
  <2> QED
      BY <1>1, <2>1, <2>2 DEF WorkInv
<1>13. ASSUME NEW w \in Writers PROVE WriterInv(w)'
  <2>1. write[w] \in Writing
      BY DEF Inv, TypeOK
  <2>2. write'[w].at = write[w].at /\ (write[w].at # "idle" => write'[w].stale)
      BY <2>1 DEF Save, Writing
  <2> QED
      BY <2>2 DEF WriterInv
<1> QED
    BY <1>13, <1>1, <1>2, <1>7, <1>8, <1>9, <1>10, <1>11, <1>12
    DEF Inv, PlaceInv, ReviewInv

\* What a writer's looks change is the writer.
LEMMA LookInv ==
    ASSUME Inv, write' \in [Writers -> Writing],
           given' \in 0..MaxCommands, plan' \in 0..MaxPlans,
           UNCHANGED <<file, work, at, copy, stale, raced, agreed>>,
           \A w \in Writers : WriterInv(w)'
    PROVE  Inv'
<1>1. TypeOK'
    BY DEF Inv, TypeOK
<1>2. ASSUME NEW c \in Commands PROVE FreshInv(c)'
    BY DEF Inv, FreshInv
<1>3. WorkInv'
    BY DEF Inv, WorkInv
<1> QED
    BY <1>1, <1>2, <1>3 DEF Inv, PlaceInv, HashInv, ReviewInv

\* A writer that is over, or has not begun, promises nothing.
LEMMA NotWritingOK ==
    NotWriting \in Writing /\ NotWriting.at = "idle"
<1>1. 0 \in 0..MaxPlans
    BY BoundsAssumption
<1> QED
    BY <1>1 DEF NotWriting, Writing

\* A writer loads the record.
LEMMA AuthorizeInv ==
    ASSUME Inv, NEW w \in Writers, Authorize(w)
    PROVE  Inv'
<1> DEFINE r == [NotWriting EXCEPT !.at = "scoping", !.hash = file.hash]
<1>1. file.hash \in 0..MaxPlans
    BY DEF Inv, TypeOK, Record
<1>2. r \in Writing /\ r.at = "scoping" /\ r.hash = file.hash
    BY <1>1 DEF NotWriting, Writing
<1>3. /\ write' = [write EXCEPT ![w] = r]
      /\ given' = given + 1 /\ given < MaxCommands
      /\ file.state \in Writable
      /\ UNCHANGED <<file, plan, work, at, copy, stale, raced, agreed>>
    BY DEF Authorize
<1> HIDE DEF r
<1>4. write' \in [Writers -> Writing]
    BY <1>2, <1>3 DEF Inv, TypeOK
<1>5. given' \in 0..MaxCommands /\ plan' \in 0..MaxPlans
    BY <1>3, BoundsAssumption DEF Inv, TypeOK
<1>6. write'[w] = r /\ \A v \in Writers \ {w} : write'[v] = write[v]
    BY <1>3 DEF Inv, TypeOK
<1>7. ASSUME NEW v \in Writers PROVE WriterInv(v)'
    BY <1>2, <1>3, <1>6 DEF Inv, WriterInv
<1> QED
    BY <1>3, <1>4, <1>5, <1>7, LookInv

\* A writer goes on to its next look; to the write only with a match.
LEMMA GoesOnInv ==
    ASSUME Inv, NEW w \in Writers, write[w].at # "idle",
           NEW place \in {"matching", "writing"}, WriterGoesOn(w, place),
           place = "writing" /\ ~write[w].edited =>
               write[w].hash \in {0, plan}
    PROVE  Inv'
<1>1. /\ write' = [write EXCEPT ![w].at = place]
      /\ UNCHANGED <<file, plan, work, at, copy, stale, raced, agreed, given>>
    BY DEF WriterGoesOn
<1>2. write[w] \in Writing /\ write \in [Writers -> Writing]
    BY DEF Inv, TypeOK
<1>3. /\ write'[w] \in Writing
      /\ write'[w].at = place
      /\ write'[w].hash = write[w].hash
      /\ write'[w].stale = write[w].stale
      /\ write'[w].edited = write[w].edited
      /\ \A v \in Writers \ {w} : write'[v] = write[v]
    BY <1>1, <1>2 DEF Writing
<1>4. write' = [write EXCEPT ![w] = write'[w]]
    BY <1>1, <1>2
<1>5. write' \in [Writers -> Writing]
    BY <1>2, <1>3, <1>4
<1>6. given' \in 0..MaxCommands /\ plan' \in 0..MaxPlans
    BY <1>1 DEF Inv, TypeOK
<1>7. ASSUME NEW v \in Writers PROVE WriterInv(v)'
    BY <1>1, <1>3 DEF Inv, WriterInv
<1> QED
    BY <1>1, <1>5, <1>6, <1>7, LookInv

\* A writer that is over without having written.
LEMMA WriterEndsInv ==
    ASSUME Inv, NEW w \in Writers, WriterEnds(w),
           UNCHANGED <<work, stale, raced>>
    PROVE  Inv'
<1>1. /\ write' = [write EXCEPT ![w] = NotWriting]
      /\ UNCHANGED <<file, plan, work, at, copy, stale, raced, agreed, given>>
    BY DEF WriterEnds
<1>2. write' \in [Writers -> Writing]
    BY <1>1, NotWritingOK DEF Inv, TypeOK
<1>3. write'[w] = NotWriting /\ \A v \in Writers \ {w} : write'[v] = write[v]
    BY <1>1 DEF Inv, TypeOK
<1>4. given' \in 0..MaxCommands /\ plan' \in 0..MaxPlans
    BY <1>1 DEF Inv, TypeOK
<1>5. ASSUME NEW v \in Writers PROVE WriterInv(v)'
    BY <1>1, <1>3, NotWritingOK DEF Inv, WriterInv
<1> QED
    BY <1>1, <1>2, <1>4, <1>5, LookInv

\* A write that is up to date takes place in an active state, one that is not
\* has raced; and an audit that has looked already is out of date then.
LEMMA SafeWriteInv ==
    ASSUME Inv, NEW w \in Writers, SafeWrite(w)
    PROVE  Inv'
<1>1. /\ UNCHANGED <<file, plan, at, copy, agreed, given>>
      /\ work' = work + 1 /\ work < MaxWork
      /\ raced' = (raced \/ write[w].stale)
      /\ write' = [write EXCEPT ![w] = NotWriting]
      /\ write[w].at = "writing"
    BY DEF SafeWrite, WriterEnds
<1>2. \A c \in Commands : ~stale'[c] => ~stale[c] /\ at[c] # "inspected"
    BY DEF SafeWrite
<1>3. ~raced' => ~raced /\ file.state \in Writable
    BY <1>1 DEF Inv, WriterInv
<1>4. TypeOK'
  <2>1. stale' \in [Commands -> BOOLEAN]
      BY DEF SafeWrite
  <2>2. work' \in 1..MaxWork
      BY <1>1, BoundsAssumption DEF Inv, TypeOK
  <2>3. write' \in [Writers -> Writing]
      BY <1>1, NotWritingOK DEF Inv, TypeOK
  <2>4. raced' \in BOOLEAN
      BY <1>1, NotWritingOK DEF Inv, TypeOK, Writing
  <2> QED
      BY <1>1, <2>1, <2>2, <2>3, <2>4 DEF Inv, TypeOK
<1>5. ASSUME NEW c \in Commands PROVE FreshInv(c)'
    BY <1>1, <1>2 DEF Inv, FreshInv
<1>6. WorkInv'
  <2>1. ~raced' => ~Straight(file)
      BY <1>3 DEF Straight, Writable
  <2> QED
      BY <1>1, <1>2, <1>3, <2>1 DEF Inv, WorkInv
<1>7. write'[w] = NotWriting /\ \A v \in Writers \ {w} : write'[v] = write[v]
    BY <1>1 DEF Inv, TypeOK
<1>8. ASSUME NEW v \in Writers PROVE WriterInv(v)'
    BY <1>1, <1>7, NotWritingOK DEF Inv, WriterInv
<1> QED
    BY <1>1, <1>3, <1>4, <1>5, <1>6, <1>8
    DEF Inv, PlaceInv, HashInv, ReviewInv

\* Every step of a writer keeps the invariant.
LEMMA WriteInv ==
    ASSUME Inv, NEW w \in Writers, Write(w)
    PROVE  Inv'
<1>1. CASE Authorize(w)
    BY <1>1, AuthorizeInv
<1>2. CASE ReadScope(w)
  <2>1. write[w].at # "idle"
      BY <1>2 DEF ReadScope
  <2> QED
      BY <1>2, <2>1, GoesOnInv, WriterEndsInv DEF ReadScope
<1>3. CASE MatchPlan(w)
  <2>1. write[w].at # "idle"
      BY <1>3 DEF MatchPlan
  <2>2. CASE WriterEnds(w) /\ UNCHANGED <<work, stale, raced>>
      BY <2>2, WriterEndsInv
  <2>3. CASE write[w].hash \in {0, plan} /\ WriterGoesOn(w, "writing")
      BY <2>1, <2>3, GoesOnInv
  <2> QED
      BY <1>3, <2>2, <2>3 DEF MatchPlan
<1>4. CASE SafeWrite(w)
    BY <1>4, SafeWriteInv
<1>5. CASE KillWriter(w)
    BY <1>5, WriterEndsInv DEF KillWriter
<1> QED
    BY <1>1, <1>2, <1>3, <1>4, <1>5 DEF Write

\* A write of the working tree leaves the record and the commands alone.
LEMMA WriteKeepsFile ==
    ASSUME NEW w \in Writers, Write(w)
    PROVE  /\ file' = file /\ at' = at /\ copy' = copy
           /\ \A c \in Commands : stale[c] => stale'[c]
<1>1. CASE SafeWrite(w)
    BY <1>1 DEF SafeWrite, WriterEnds
<1>2. CASE Authorize(w) \/ ReadScope(w) \/ MatchPlan(w) \/ KillWriter(w)
    BY <1>2
    DEF Authorize, ReadScope, MatchPlan, KillWriter, WriterGoesOn, WriterEnds
<1> QED
    BY <1>1, <1>2 DEF Write

\* The plan is edited: what a writer has seen of it is out of date.
LEMMA EditInv ==
    ASSUME Inv, EditPlan
    PROVE  Inv'
<1>1. /\ UNCHANGED <<file, work, at, copy, stale, raced, agreed, given>>
      /\ plan' \in 0..MaxPlans
    BY BoundsAssumption DEF EditPlan
<1>2. ASSUME NEW w \in Writers
      PROVE  /\ write'[w] \in Writing
             /\ write'[w].at = write[w].at
             /\ write'[w].hash = write[w].hash
             /\ write'[w].stale = write[w].stale
             /\ write[w].at = "writing" => write'[w].edited
    BY DEF EditPlan, Inv, TypeOK, Writing
<1>3. write' \in [Writers -> Writing]
    BY <1>2 DEF EditPlan
<1>4. given' \in 0..MaxCommands
    BY <1>1 DEF Inv, TypeOK
<1>5. ASSUME NEW w \in Writers PROVE WriterInv(w)'
    BY <1>1, <1>2 DEF Inv, WriterInv
<1> QED
    BY <1>1, <1>3, <1>4, <1>5, LookInv

\* A milestone starts with a new record and no command.
LEMMA InitInv == Init => Inv
<1> SUFFICES ASSUME Init PROVE Inv
    OBVIOUS
<1>1. TypeOK
  <2>1. plan \in 0..MaxPlans /\ work \in 1..MaxWork /\ given \in 0..MaxCommands
      BY BoundsAssumption DEF Init
  <2>2. /\ file \in Record /\ at \in [Commands -> Places]
        /\ copy \in [Commands -> Record] /\ agreed \subseteq 1..MaxPlans
      BY NewRecordOK DEF Init, Places
  <2>3. stale \in [Commands -> BOOLEAN] /\ raced \in BOOLEAN
      BY DEF Init
  <2>4. write \in [Writers -> Writing]
      BY NotWritingOK DEF Init
  <2> QED
      BY <2>1, <2>2, <2>3, <2>4 DEF TypeOK
<1>2. NewRecord.state = "DRAFT" /\ NewRecord.hash = 0
    BY DEF NewRecord
<1>3. \A w \in Writers : WriterInv(w)
    BY NotWritingOK DEF Init, WriterInv
<1>4. Readable({}) = {}
    BY DEF Readable
<1> QED
    BY <1>1, <1>2, <1>3, <1>4, NewRecordOK
    DEF Init, Inv, PlaceInv, FreshInv, HashInv, ReviewInv, WorkInv, Fits

\* Every step of a command, a write or an edit keeps the invariant.
LEMMA NextInv == Inv /\ [Next]_vars => Inv'
<1> SUFFICES ASSUME Inv, [Next]_vars PROVE Inv'
    OBVIOUS
<1>1. ASSUME NEW c \in Commands, Command(c) PROVE Inv'
  <2>1. PICK place \in Places, r \in Record :
            Good(place, r) /\ Begin(c, place, r)
      BY <1>1, CommandMade DEF Inv
  <2> QED
      BY <2>1, BeginInv
<1>2. ASSUME NEW c \in Commands,
             CheckPlan(c) \/ WorkerAnswers(c) \/ Inspect(c) \/ BridgeFails(c)
      PROVE  Inv'
    BY <1>2, StepMade, AheadInv, EndInv DEF Inv
<1>3. ASSUME NEW c \in Commands, BridgeAnswers(c) PROVE Inv'
    BY <1>3, AnswerMade, AnswerInv, EndInv DEF Inv
<1>4. ASSUME NEW c \in Commands, Save(c) \/ Kill(c) PROVE Inv'
    BY <1>4, SaveInv, EndInv DEF Kill
<1>5. ASSUME NEW w \in Writers, Write(w) PROVE Inv'
    BY <1>5, WriteInv
<1>6. CASE EditPlan
    BY <1>6, EditInv
<1>7. CASE UNCHANGED vars
    BY <1>7
    DEF vars, Inv, TypeOK, PlaceInv, FreshInv, WriterInv, HashInv, ReviewInv,
        WorkInv
<1> QED
    BY <1>1, <1>2, <1>3, <1>4, <1>5, <1>6, <1>7 DEF Next, Step

-----------------------------------------------------------------------------
(* The theorems.                                                           *)

\* The invariant holds of every state of the workflow.
THEOREM Invariance == Spec => []Inv
BY InitInv, NextInv, PTL DEF Spec

\* The record, the copies and the versions keep their types through every
\* command, however commands interleave or die (state_manager.py,
\* workflow_engine.py).
THEOREM TypeCorrect == Spec => []TypeOK
<1>1. Inv => TypeOK
    BY DEF Inv
<1> QED
    BY <1>1, Invariance, PTL

\* No milestone gets past its draft without a row of the User's acceptance or
\* of a block, whichever copies overwrite the record (state_machine.py
\* validate_transition).
THEOREM NoWorkBeforeAcceptanceHolds == Spec => []NoWorkBeforeAcceptance
<1>1. Inv => NoWorkBeforeAcceptance
    BY DEF Inv, RecordInv, NoWorkBeforeAcceptance
<1> QED
    BY <1>1, Invariance, PTL

\* No verdict is given on a milestone that was neither audited nor resumed
\* (state_machine.py VALID_TRANSITIONS, workflow_engine.py perform_audit).
THEOREM NoVerdictWithoutAuditHolds == Spec => []NoVerdictWithoutAudit
<1>1. Inv => NoVerdictWithoutAudit
    BY DEF Inv, RecordInv, Ladder, NoVerdictWithoutAudit, AuditedOrResumed
<1> QED
    BY <1>1, Invariance, PTL

\* The verdict in a released record is about the audit report in it
\* (claude_verifier.py verify_milestone, workflow_engine.py
\* record_claude_verification).
THEOREM VerdictIsOfThisAuditHolds == Spec => []VerdictIsOfThisAudit
<1>1. Inv => VerdictIsOfThisAudit
    BY DEF Inv, RecordInv, ReviewInv, Reviewed, VerdictIsOfThisAudit
<1> QED
    BY <1>1, Invariance, PTL

\* Nothing is written between the audit and the release, but for races and
\* detours (file_authority.py authorize_write).
THEOREM VerifiedWorkWasAuditedHolds == Spec => []VerifiedWorkWasAudited
<1>1. Inv => VerifiedWorkWasAudited
    BY DEF Inv, WorkInv, Straight, VerifiedWorkWasAudited
<1> QED
    BY <1>1, Invariance, PTL

\* A write that is not overtaken by a save or by an edit of the plan takes
\* place under a plan that was accepted (file_authority.py authorize_write,
\* safe_write).
THEOREM WritesFollowAnAcceptedPlanHolds == Spec => WritesFollowAnAcceptedPlan
<1>1. Inv /\ [Next]_vars =>
        [\A w \in Writers :
            SafeWrite(w) /\ agreed # {} /\ ~raced' /\ ~write[w].edited =>
                plan \in agreed]_vars
  <2> SUFFICES ASSUME Inv, NEW w \in Writers, SafeWrite(w), agreed # {},
                      ~raced', ~write[w].edited
               PROVE  plan \in agreed
      OBVIOUS
  <2>1. write[w].at = "writing" /\ ~raced /\ ~write[w].stale
      BY DEF SafeWrite
  <2>2. file.hash \in {0, plan}
      BY <2>1 DEF Inv, WriterInv
  <2>3. file.hash # 0 /\ file.hash \in agreed
      BY <2>1 DEF Inv, HashInv
  <2> QED
      BY <2>2, <2>3
<1> QED
    BY <1>1, Invariance, PTL DEF Spec, WritesFollowAnAcceptedPlan

\* A row on one line is lost only to a copy that is out of date
\* (state_manager.py to_row, parse_content, save).
THEOREM RowsSurviveUnlessRacedHolds == Spec => RowsSurviveUnlessRaced
<1>1. Inv /\ [Next]_vars =>
        [\/ Readable(file.log) \subseteq file'.log
         \/ \E c \in Commands : Save(c) /\ stale[c]]_vars
  <2> SUFFICES ASSUME Inv, [Next]_vars,
                      \A c \in Commands : Save(c) => ~stale[c]
               PROVE  Readable(file.log) \subseteq file'.log
      OBVIOUS
  <2>0. Readable(file.log) \subseteq file.log
      BY DEF Readable
  <2>1. ASSUME NEW c \in Commands, Save(c)
        PROVE  Readable(file.log) \subseteq file'.log
      BY <2>1 DEF Save, Inv, FreshInv
  <2>2. ASSUME NEW c \in Commands, Command(c) PROVE file' = file
      BY <2>2, CommandMade DEF Inv, Begin
  <2>3. ASSUME NEW c \in Commands, Step(c) \/ Kill(c)
        PROVE  file' = file \/ Save(c)
      BY <2>3
      DEF Step, Kill, CheckPlan, WorkerAnswers, Inspect, BridgeFails,
          BridgeAnswers, Continue
  <2>4. ASSUME NEW w \in Writers, Write(w) PROVE file' = file
      BY <2>4, WriteKeepsFile
  <2> QED
      BY <2>0, <2>1, <2>2, <2>3, <2>4 DEF Next, EditPlan, vars
<1> QED
    BY <1>1, Invariance, PTL DEF Spec, RowsSurviveUnlessRaced

-----------------------------------------------------------------------------
(* The file follows the graph.                                             *)

\* Somebody may move a milestone from the one state to the other.
Edge(from, to) == \E actor \in Actors : Valid(from, to, actor)

\* What a command checked when it loaded the record holds when it saves: an
\* edge leads from the file to its copy, or the copy is where the file is.
SourceInv(c) ==
    at[c] # "idle" /\ ~stale[c] =>
        \/ file.state = copy[c].state
        \/ /\ at[c] \notin {"checking", "working", "auditing", "reviewing"}
           /\ Edge(file.state, copy[c].state)

EdgeInv == Inv /\ \A c \in Commands : SourceInv(c)

\* The edges the engine takes without asking validate_transition() about the
\* record in the file.
LEMMA OwnEdges ==
    /\ Edge("IMPLEMENTING", "BLOCKED") /\ Edge("IMPLEMENTING", "WORKER_FAILED")
    /\ Edge("AUDITING", "VERIFYING") /\ Edge("AUDITING", "FIXING")
    /\ Edge("VERIFYING", "WAITING_FOR_CLAUDE")
    /\ Edge("NOT_VERIFIED", "FIXING")
<1>1. "Antigravity" \in Actors /\ "Claude" \in Actors
    BY DEF Actors
<1>2. /\ Valid("IMPLEMENTING", "BLOCKED", "Antigravity")
      /\ Valid("IMPLEMENTING", "WORKER_FAILED", "Antigravity")
      /\ Valid("AUDITING", "VERIFYING", "Antigravity")
      /\ Valid("AUDITING", "FIXING", "Antigravity")
      /\ Valid("VERIFYING", "WAITING_FOR_CLAUDE", "Antigravity")
      /\ Valid("NOT_VERIFIED", "FIXING", "Antigravity")
    BY DEF Valid, ValidTransitions, PermittedTo
<1> QED
    BY <1>1, <1>2 DEF Edge

\* Whoever may verify a milestone may also reject it.
LEMMA VerdictEdges ==
    ASSUME NEW s \in States, Valid(s, "VERIFIED", "Claude"), NEW verdict
    PROVE  Edge(s, VerdictState(verdict))
<1>1. "VERIFIED" \in ValidTransitions(s)
    BY DEF Valid
<1>2. s = "VERIFYING"
    BY <1>1 DEF States, ValidTransitions
<1>3. "Claude" \in Actors /\ Valid("VERIFYING", "NOT_VERIFIED", "Claude")
    BY DEF Actors, Valid, ValidTransitions, PermittedTo
<1> QED
    BY <1>2, <1>3 DEF Edge, VerdictState

\* Each command makes of the file a record that is an edge away, or its own.
LEMMA CommandEdge ==
    ASSUME Inv, NEW c \in Commands, Command(c)
    PROVE  \E place \in Places, r \in Record :
              /\ Begin(c, place, r)
              /\ \/ file.state = r.state
                 \/ /\ place \notin {"checking", "working", "auditing",
                                     "reviewing"}
                    /\ Edge(file.state, r.state)
<1> DEFINE Fine(place, r) ==
        /\ r \in Record
        /\ \/ file.state = r.state
           \/ /\ place \notin {"checking", "working", "auditing", "reviewing"}
              /\ Edge(file.state, r.state)
<1>0. /\ file.state \in States
      /\ file.audit \in 0..MaxWork
      /\ {"ACCEPTED", "DRAFT", "IMPLEMENTING", "AUDITING", "COMPLETE"}
            \subseteq States
      /\ {"saving", "starting", "opening", "auditing", "reviewing"}
            \subseteq Places
      /\ {"User", "Antigravity", "Claude"} \subseteq Actors
    BY DEF Inv, TypeOK, Record, States, Places, Actors
<1>10. Loaded \in Record /\ Loaded.state = file.state
    BY LoadedFields DEF Inv, TypeOK
<1>1. ASSUME NEW r \in Record, NEW to \in States, NEW actor \in Actors,
             r.state = file.state, Valid(r.state, to, actor),
             NEW place \in {"saving", "starting", "opening"}, NEW b
      PROVE  Fine(place, Moved(r, to, b))
    BY <1>1, MovedFields DEF Edge
<1>2. CASE UserAcceptPlan(c)
  <2> DEFINE r == [Loaded EXCEPT !.hash = IF plan = 0 THEN @ ELSE plan]
  <2>1. r \in Record /\ r.state = file.state
      BY <1>10 DEF Inv, TypeOK, Record
  <2>2. PICK b \in BOOLEAN :
            /\ Valid(file.state, "ACCEPTED", "User")
            /\ Begin(c, "saving", Moved(r, "ACCEPTED", b))
      BY <1>2 DEF UserAcceptPlan
  <2> HIDE DEF r
  <2> QED
      BY <1>0, <1>1, <2>1, <2>2
<1>3. CASE UserModifyPlan(c)
    BY <1>0, <1>10, <1>1, <1>3 DEF UserModifyPlan
<1>4. CASE StartImplementation(c)
    BY <1>0, <1>10, <1>1, <1>4 DEF StartImplementation
<1>5. CASE PerformAudit(c)
    BY <1>0, <1>10, <1>1, <1>5 DEF PerformAudit
<1>6. CASE VerifyMilestone(c)
    BY <1>0, <1>10, <1>6 DEF VerifyMilestone
<1>7. CASE RecordVerification(c)
  <2>1. PICK verdict \in Verdicts \ {"pending"}, b \in BOOLEAN :
            Begin(c, "saving", Judged(Loaded, verdict, file.audit, b))
      BY <1>7 DEF RecordVerification
  <2>2. Fine("saving", Judged(Loaded, verdict, file.audit, b))
      BY <1>0, <1>10, <1>7, JudgedFields, VerdictEdges DEF RecordVerification
  <2> QED
      BY <1>0, <2>1, <2>2
<1>8. CASE ReleaseMilestone(c)
    BY <1>0, <1>10, <1>1, <1>8 DEF ReleaseMilestone
<1>9. CASE ResumeFromInterruption(c)
  <2>1. PICK to \in ResumeTargets, actor \in Actors, b \in BOOLEAN :
            /\ Valid(file.state, to, actor)
            /\ Begin(c, "saving", Resumed(Loaded, to, b))
      BY <1>9 DEF ResumeFromInterruption
  <2>2. to \in States
      BY RowsAssumption
  <2>3. Fine("saving", Resumed(Loaded, to, b))
      BY <1>0, <1>10, <2>1, <2>2, ResumedFields DEF Edge
  <2> QED
      BY <1>0, <2>1, <2>3
<1> QED
    BY <1>2, <1>3, <1>4, <1>5, <1>6, <1>7, <1>8, <1>9 DEF Command

\* A command that goes on takes one of its own edges.
LEMMA StepEdge ==
    ASSUME EdgeInv, NEW c \in Commands,
           CheckPlan(c) \/ WorkerAnswers(c) \/ Inspect(c) \/ BridgeFails(c)
    PROVE  \/ End(c) /\ UNCHANGED file
           \/ \E place \in Places : \E r :
                 /\ Continue(c, place, r) /\ UNCHANGED stale
                 /\ ~stale[c] =>
                       \/ file.state = r.state
                       \/ /\ place \in {"saving", "inspected"}
                          /\ Edge(file.state, r.state)
<1>0. /\ copy[c] \in Record /\ PlaceInv(c) /\ SourceInv(c)
      /\ "saving" \in Places /\ "working" \in Places
      /\ "inspected" \in Places
    BY DEF EdgeInv, Inv, TypeOK, Places, States
<1>1. at[c] \in {"checking", "working", "auditing", "reviewing"}
    BY DEF CheckPlan, WorkerAnswers, Inspect, BridgeFails
<1>2. ~stale[c] => file.state = copy[c].state
    BY <1>0, <1>1 DEF SourceInv
<1>3. /\ at[c] \in {"checking", "working"} => copy[c].state = "IMPLEMENTING"
      /\ at[c] = "auditing" => copy[c].state = "AUDITING"
      /\ at[c] = "reviewing" => copy[c].state = "VERIFYING"
    BY <1>0 DEF PlaceInv, Fits
<1> DEFINE Targets == {"BLOCKED", "WORKER_FAILED", "WAITING_FOR_CLAUDE",
                       "VERIFYING", "FIXING"}
<1>9. ASSUME NEW r \in Record, NEW to \in Targets, NEW b
      PROVE  Moved(r, to, b).state = to
  <2>1. to \in States
      BY DEF States
  <2> QED
      BY <2>1, MovedFields
<1>10. ASSUME NEW b
       PROVE  /\ Moved(copy[c], "BLOCKED", b).state = "BLOCKED"
              /\ Moved(copy[c], "WORKER_FAILED", b).state = "WORKER_FAILED"
              /\ Moved(copy[c], "WAITING_FOR_CLAUDE", b).state =
                    "WAITING_FOR_CLAUDE"
    BY <1>0, <1>9
<1> DEFINE Onward(place, r) ==
        /\ Continue(c, place, r) /\ UNCHANGED stale
        /\ ~stale[c] =>
              \/ file.state = r.state
              \/ /\ place \in {"saving", "inspected"}
                 /\ Edge(file.state, r.state)
<1>4. ASSUME CheckPlan(c), ~End(c)
      PROVE  \/ Continue(c, "saving", Moved(copy[c], "BLOCKED", TRUE))
                /\ UNCHANGED stale
             \/ Continue(c, "working", copy[c]) /\ UNCHANGED stale
    BY <1>4 DEF CheckPlan
<1>5. CASE CheckPlan(c)
  <2>1. at[c] = "checking"
      BY <1>5 DEF CheckPlan
  <2>2. CASE End(c)
      BY <1>5, <2>2 DEF CheckPlan, Continue
  <2>3. CASE ~End(c)
    <3>1. CASE Continue(c, "working", copy[c]) /\ UNCHANGED stale
      <4>1. Onward("working", copy[c])
          BY <1>2, <3>1
      <4> QED
          BY <1>0, <4>1
    <3>2. CASE Continue(c, "saving", Moved(copy[c], "BLOCKED", TRUE))
                  /\ UNCHANGED stale
      <4>1. Onward("saving", Moved(copy[c], "BLOCKED", TRUE))
          BY <1>2, <1>3, <1>10, <2>1, <3>2, OwnEdges
      <4> QED
          BY <1>0, <4>1
    <3> QED
        BY <1>4, <1>5, <2>3, <3>1, <3>2
  <2> QED
      BY <2>2, <2>3
<1>6. CASE WorkerAnswers(c)
  <2>0. \E b \in BOOLEAN :
            \E r \in {copy[c], Moved(copy[c], "WORKER_FAILED", b)} :
                Continue(c, "saving", r) /\ UNCHANGED stale
      BY <1>6 DEF WorkerAnswers
  <2>5. PICK b \in BOOLEAN :
            \E r \in {copy[c], Moved(copy[c], "WORKER_FAILED", b)} :
                Continue(c, "saving", r) /\ UNCHANGED stale
      BY <2>0
  <2>1. PICK r \in {copy[c], Moved(copy[c], "WORKER_FAILED", b)} :
            Continue(c, "saving", r) /\ UNCHANGED stale
      BY <2>5
  <2>2. at[c] = "working"
      BY <1>6 DEF WorkerAnswers
  <2>3. ~stale[c] => \/ file.state = r.state
                     \/ Edge(file.state, r.state)
      BY <1>2, <1>3, <1>10, <2>1, <2>2, OwnEdges
  <2>4. Onward("saving", r)
      BY <2>1, <2>3
  <2> QED
      BY <1>0, <2>4
<1>7. CASE Inspect(c)
  <2>1. PICK to \in {"VERIFYING", "FIXING"}, b \in BOOLEAN :
            /\ Continue(c, "inspected",
                        Moved([copy[c] EXCEPT !.audit = work], to, b))
            /\ UNCHANGED stale /\ at[c] = "auditing"
      BY <1>7 DEF Inspect
  <2>2. [copy[c] EXCEPT !.audit = work] \in Record
      BY <1>0 DEF EdgeInv, Inv, TypeOK, Record
  <2>3. Moved([copy[c] EXCEPT !.audit = work], to, b).state = to
      BY <1>9, <2>2
  <2>4. Onward("inspected", Moved([copy[c] EXCEPT !.audit = work], to, b))
      BY <1>2, <1>3, <2>1, <2>3, OwnEdges
  <2> QED
      BY <1>0, <2>4
<1>8. CASE BridgeFails(c)
  <2>1. PICK b \in BOOLEAN :
            /\ Continue(c, "saving", Moved(copy[c], "WAITING_FOR_CLAUDE", b))
            /\ UNCHANGED stale /\ at[c] = "reviewing"
      BY <1>8 DEF BridgeFails
  <2>2. Onward("saving", Moved(copy[c], "WAITING_FOR_CLAUDE", b))
      BY <1>2, <1>3, <1>10, <2>1, OwnEdges
  <2> QED
      BY <1>0, <2>2
<1> QED
    BY <1>5, <1>6, <1>7, <1>8

\* Neither the file nor what concerns d has changed.
LEMMA SourceKept ==
    ASSUME NEW d \in Commands, SourceInv(d), UNCHANGED file,
           at'[d] = at[d], copy'[d] = copy[d], stale[d] => stale'[d]
    PROVE  SourceInv(d)'
BY DEF SourceInv

LEMMA EdgeStep == EdgeInv /\ [Next]_vars => EdgeInv'
<1> SUFFICES ASSUME EdgeInv, [Next]_vars, Inv', NEW d \in Commands
             PROVE  SourceInv(d)'
    BY NextInv DEF EdgeInv
<1>0. /\ TypeOK /\ SourceInv(d) /\ Inv
      /\ at \in [Commands -> Places] /\ copy \in [Commands -> Record]
      /\ stale \in [Commands -> BOOLEAN]
    BY DEF EdgeInv, Inv, TypeOK
<1>1. ASSUME NEW c \in Commands, Command(c) PROVE SourceInv(d)'
  <2>1. PICK place \in Places, r \in Record :
            /\ Begin(c, place, r)
            /\ \/ file.state = r.state
               \/ /\ place \notin {"checking", "working", "auditing",
                                   "reviewing"}
                  /\ Edge(file.state, r.state)
      BY <1>0, <1>1, CommandEdge
  <2>2. CASE d = c
    <3>1. at'[d] = place /\ copy'[d] = r /\ file' = file
        BY <1>0, <2>1, <2>2 DEF Begin
    <3> QED
        BY <2>1, <3>1 DEF SourceInv
  <2>3. CASE d # c
      BY <1>0, <2>1, <2>3, SourceKept DEF Begin
  <2> QED
      BY <2>2, <2>3
<1>2. ASSUME NEW c \in Commands, End(c), UNCHANGED file
      PROVE  SourceInv(d)'
  <2>1. CASE d = c
      BY <1>0, <1>2, <2>1 DEF End, SourceInv
  <2>2. CASE d # c
      BY <1>0, <1>2, <2>2, SourceKept DEF End
  <2> QED
      BY <2>1, <2>2
<1>3. ASSUME NEW c \in Commands,
             CheckPlan(c) \/ WorkerAnswers(c) \/ Inspect(c) \/ BridgeFails(c)
      PROVE  SourceInv(d)'
  <2>1. CASE End(c) /\ UNCHANGED file
      BY <1>2, <2>1
  <2>2. ASSUME NEW place \in Places, NEW r,
               Continue(c, place, r), UNCHANGED stale,
               ~stale[c] =>
                  \/ file.state = r.state
                  \/ /\ place \in {"saving", "inspected"}
                     /\ Edge(file.state, r.state)
        PROVE  SourceInv(d)'
    <3>1. CASE d = c
      <4>1. at'[d] = place /\ copy'[d] = r /\ file' = file
            /\ stale'[d] = stale[d]
          BY <1>0, <2>2, <3>1 DEF Continue
      <4> QED
          BY <2>2, <3>1, <4>1 DEF SourceInv
    <3>2. CASE d # c
        BY <1>0, <2>2, <3>2, SourceKept DEF Continue
    <3> QED
        BY <3>1, <3>2
  <2> QED
      BY <1>3, <2>1, <2>2, StepEdge
<1>4. ASSUME NEW c \in Commands, BridgeAnswers(c) PROVE SourceInv(d)'
  <2>1. CASE End(c) /\ UNCHANGED file
      BY <1>2, <2>1
  <2>2. ASSUME Valid(file.state, "VERIFIED", "Claude"),
               NEW place \in Places, NEW r \in Record,
               Answered(c, place, r), Continue(c, place, r), Reloaded(c)
        PROVE  SourceInv(d)'
    <3>1. file.state \in States
        BY <1>0 DEF TypeOK, Record
    <3>2. Edge(file.state, r.state) /\ place \in {"saving", "rejecting"}
        BY <2>2, <3>1, VerdictEdges DEF Answered
    <3>3. CASE d = c
      <4>1. at'[d] = place /\ file' = file /\ copy'[d] = r
          BY <1>0, <2>2, <3>3 DEF Continue
      <4> QED
          BY <3>2, <4>1 DEF SourceInv
    <3>4. CASE d # c
        BY <1>0, <2>2, <3>4, SourceKept DEF Continue, Reloaded
    <3> QED
        BY <3>3, <3>4
  <2> QED
      BY <1>0, <1>4, <2>1, <2>2, AnswerMade DEF Inv
<1>5. ASSUME NEW c \in Commands, Save(c) PROVE SourceInv(d)'
  <2>1. /\ file' = copy[c]
        /\ stale' = [e \in Commands |-> e # c /\ at[e] # "idle"]
        /\ d # c => at'[d] = at[d]
      BY <1>0, <1>5 DEF Save
  <2>2. CASE d # c
      BY <2>1, <2>2 DEF SourceInv
  <2>3. CASE d = c
    <3>1. CASE at[c] \in {"saving", "inspected"}
        BY <1>0, <1>5, <2>3, <3>1 DEF Save, SourceInv
    <3>2. CASE at[c] \in {"starting", "opening"}
        BY <1>0, <1>5, <2>3, <3>2 DEF Save, SourceInv
    <3>3. CASE at[c] = "rejecting"
      <4>1. PICK b \in BOOLEAN :
                /\ at'[c] = "saving" /\ copy'[c] = Moved(copy[c], "FIXING", b)
                /\ copy[c].state = "NOT_VERIFIED"
          BY <1>0, <1>5, <3>3 DEF Save, Inv, PlaceInv, Fits
      <4>2. Moved(copy[c], "FIXING", b).state = "FIXING"
        <5>1. copy[c] \in Record /\ "FIXING" \in States
            BY <1>0 DEF States
        <5> QED
            BY <5>1, MovedFields
      <4> QED
          BY <2>1, <2>3, <4>1, <4>2, OwnEdges DEF SourceInv
    <3> QED
        BY <1>5, <3>1, <3>2, <3>3 DEF Save
  <2> QED
      BY <2>2, <2>3
<1>6. ASSUME NEW w \in Writers, Write(w) PROVE SourceInv(d)'
    BY <1>0, <1>6, SourceKept, WriteKeepsFile
<1>8. CASE EditPlan
    BY <1>0, <1>8, SourceKept DEF EditPlan
<1>7. CASE UNCHANGED vars
    BY <1>0, <1>7, SourceKept DEF vars
<1> QED
    BY <1>1, <1>2, <1>3, <1>4, <1>5, <1>6, <1>7, <1>8 DEF Next, Step, Kill

\* validate_transition() is asked about the copy, minutes before the file is
\* replaced (state_manager.py transition, save): all the same the milestone in
\* the file only moves along the edges that somebody may take, whatever
\* the commands do, unless a copy that is out of date is saved.
THEOREM FileFollowsTheGraph ==
    Spec => [][\/ file'.state = file.state
               \/ Edge(file.state, file'.state)
               \/ \E c \in Commands : Save(c) /\ stale[c]]_vars
<1>1. Init => EdgeInv
    BY InitInv DEF Init, EdgeInv, SourceInv
<1>2. EdgeInv /\ [Next]_vars =>
        [\/ file'.state = file.state
         \/ Edge(file.state, file'.state)
         \/ \E c \in Commands : Save(c) /\ stale[c]]_vars
  <2> SUFFICES ASSUME EdgeInv, [Next]_vars,
                      \A c \in Commands : Save(c) => ~stale[c]
               PROVE  file'.state = file.state \/ Edge(file.state, file'.state)
      OBVIOUS
  <2>1. ASSUME NEW c \in Commands, Save(c)
        PROVE  file'.state = file.state \/ Edge(file.state, file'.state)
      BY <2>1 DEF Save, EdgeInv, SourceInv
  <2>2. ASSUME NEW c \in Commands, Command(c) PROVE file' = file
      BY <2>2, CommandMade DEF EdgeInv, Inv, Begin
  <2>3. ASSUME NEW c \in Commands, Step(c) \/ Kill(c)
        PROVE  file' = file \/ Save(c)
      BY <2>3
      DEF Step, Kill, CheckPlan, WorkerAnswers, Inspect, BridgeFails,
          BridgeAnswers, Continue
  <2>4. ASSUME NEW w \in Writers, Write(w) PROVE file' = file
      BY <2>4, WriteKeepsFile
  <2> QED
      BY <2>1, <2>2, <2>3, <2>4 DEF Next, EditPlan, vars
<1> QED
    BY <1>1, <1>2, EdgeStep, PTL DEF Spec

=============================================================================
