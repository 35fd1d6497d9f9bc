------------------------ MODULE SkillPackagesProofs ------------------------
(***************************************************************************)
(* Theorems about the lifecycle of installable skills.                     *)
(***************************************************************************)
EXTENDS SkillPackages, TLAPS

-----------------------------------------------------------------------------
(* The inductive invariants.                                               *)

\* The places inside the lock.
Section == {"staging", "fetching", "loading", "saving", "credentials",
            "refreshing", "scanning", "collecting"}

\* Where a request can be with its job.
JobInv(r) ==
    /\ at[r] = "idle" => req[r].job = "run"
    /\ req[r].job \in {"install", "update"} => req[r].rev \in Revisions
    /\ at[r] \in {"staging", "fetching"} =>
          req[r].job \in {"install", "update"}
    /\ at[r] = "credentials" => req[r].job = "remove"
    /\ at[r] \in {"scanning", "collecting"} =>
          req[r].job \in {"update", "remove"}
    /\ at[r] = "collecting" => prior[r] # None
    /\ at[r] \in Section => req[r].job # "run"

\* enabled means configured in what is about to be saved, too.
Coherent(skill) == skill.enabled => skill.configured /\ skill.rev # None

RecordInv ==
    /\ \A u \in Users : Coherent(store[u])
    /\ \A r \in Requests : at[r] = "saving" => Coherent(doc[r])

\* A revision that is recorded, or about to be, has its artifact; and nobody
\* records the one that is about to be collected.
ArtifactInv ==
    /\ \A u \in Users : store[u].rev \in cache \cup clashed \cup {None}
    /\ \A r \in Requests : Pending(r) \in cache \cup clashed \cup {None}
    /\ \A r \in Requests : at[r] = "collecting" /\ prior[r] \notin clashed =>
          /\ \A u \in Users : store[u].rev # prior[r]
          /\ \A o \in Requests : Pending(o) # prior[r]

\* Nobody else has a context that is not yet stored.
Own(r) ==
    /\ using[r] # ctx[req[r].user]
    /\ \A o \in Requests \ {r} :
          req[o].user = req[r].user => using[o] # using[r]

\* Who is inside has the lock of the context it works in, and a user who has
\* had one context at a time works in that one.
LockInv ==
    /\ \A r \in Requests : at[r] \in Section =>
          lock[req[r].user][using[r]] = r
    /\ \A r \in Requests : at[r] \notin {"idle", "building", "built"} =>
          req[r].user \in doubled \/ using[r] = ctx[req[r].user]
    /\ \A r \in Requests : at[r] = "built" => Own(r)

\* The registry of a user's only context lags behind the store between a save
\* and the refresh; a context that is not yet stored is up to date.
RegistryInv ==
    /\ \A u \in Users \ (doubled \cup unrefreshed) :
          ctx[u] # None =>
             \/ live[u][ctx[u]] = Published(store[u])
             \/ \E r \in Requests : /\ req[r].user = u
                                    /\ at[r] \in {"credentials", "refreshing"}
    /\ \A r \in Requests : /\ at[r] = "built"
                           /\ ctx[req[r].user] = None
                           /\ req[r].user \notin doubled
                           =>
          live[req[r].user][using[r]] = Published(store[req[r].user])

\* What is off stays off, in the store and in what is about to be saved, and
\* is off already when the request that switches it off has yet to end.
OffInv ==
    \A u \in Users \ doubled, r \in Requests :
        req[r].user = u =>
            /\ /\ req[r].job \in {"disable", "remove"}
               /\ at[r] \in {"credentials", "refreshing", "scanning",
                             "collecting"}
               => ~store[u].enabled
            /\ at[r] = "saving" /\ req[r].job \in {"disable", "remove"} =>
                  ~doc[r].enabled
            /\ u \in off =>
                  /\ req[r].job \notin {"configure", "enable"}
                  /\ at[r] = "saving" => ~doc[r].enabled
                  /\ at[r] = "running" => r \in early

StoredOff == \A u \in off \ doubled : ~store[u].enabled

-----------------------------------------------------------------------------
(* Types.                                                                  *)

\* A request that is over leaves well-typed variables.
LEMMA OverTyped ==
    ASSUME TypeOK, NEW r \in Requests, at[r] \notin {"idle", "building"},
           Over(r)
    PROVE  /\ lock' \in [Users -> [Contexts -> Requests \cup {None}]]
           /\ req' \in [Requests -> Request]
           /\ at' \in [Requests -> Places]
           /\ using' \in [Requests -> Contexts \cup {None}]
           /\ prior' \in [Requests -> Revisions \cup {None}]
           /\ doc' \in [Requests -> Skill]
           /\ \A o \in Requests :
                 /\ at'[o] # "idle" => req'[o].user \in Users
                 /\ at'[o] \notin {"idle", "building"} =>
                       using'[o] \in Contexts
<1>1. req[r].user \in Users /\ using[r] \in Contexts
    BY DEF TypeOK
<1>2. lock' \in [Users -> [Contexts -> Requests \cup {None}]]
    BY <1>1 DEF TypeOK, Over, Released
<1>3. NoRequest \in Request /\ Nothing \in Skill /\ "idle" \in Places
    BY DEF NoRequest, Nothing, Request, Skill, Jobs, Places
<1> QED
    BY <1>2, <1>3 DEF TypeOK, Over

\* So does configure when it goes on to enable.
LEMMA GoOnTyped ==
    ASSUME TypeOK, NEW r \in Requests, at[r] \notin {"idle", "building"},
           GoOnToEnable(r)
    PROVE  /\ lock' \in [Users -> [Contexts -> Requests \cup {None}]]
           /\ req' \in [Requests -> Request]
           /\ at' \in [Requests -> Places]
           /\ doc' \in [Requests -> Skill]
           /\ \A o \in Requests :
                 /\ at'[o] # "idle" => req'[o].user \in Users
                 /\ at'[o] \notin {"idle", "building"} =>
                       using'[o] \in Contexts
<1>1. req[r].user \in Users /\ using[r] \in Contexts /\ req[r] \in Request
    BY DEF TypeOK
<1>2. lock' \in [Users -> [Contexts -> Requests \cup {None}]]
    BY <1>1 DEF TypeOK, GoOnToEnable
<1>3. Nothing \in Skill /\ "ready" \in Places
    BY DEF Nothing, Skill, Places
<1>4. PICK j \in Jobs : req' = [req EXCEPT ![r].job = j]
    BY DEF GoOnToEnable, Jobs
<1>5. req' \in [Requests -> Request]
    BY <1>1, <1>4 DEF TypeOK, Request
<1>6. \A o \in Requests : req'[o].user = req[o].user
    BY <1>1, <1>4 DEF TypeOK, Request
<1> QED
    BY <1>2, <1>3, <1>5, <1>6 DEF TypeOK, GoOnToEnable

\* So do the notes of who has switched off.
LEMMA EndOffTyped ==
    ASSUME TypeOK, NEW r \in Requests, req[r].user \in Users, EndOff(r)
    PROVE  off' \subseteq Users /\ early' \subseteq Requests
BY DEF TypeOK, EndOff, Others

\* A record that is changed by an operation stays a record.
LEMMA ChangedTyped ==
    ASSUME NEW job \in Jobs, NEW skill \in Skill,
           NEW v \in Revisions \cup {None}
    PROVE  Changed(job, skill, v) \in Skill
<1>1. Nothing \in Skill
    BY DEF Nothing, Skill
<1> QED
    BY <1>1 DEF Changed, Skill, Nothing

\* Every step keeps the types, and the requests where their jobs may take them.
LEMMA TypeStep ==
    ASSUME TypeOK, \A r \in Requests : JobInv(r), [Next]_vars
    PROVE  TypeOK'
<1> USE DEF request, memory, history
<1>1. ASSUME NEW r \in Requests, NEW u \in Users, Begin(r, u)
      PROVE  TypeOK'
  <2>1. PICK job \in Jobs, v \in Revisions \cup {None} :
          req' = [req EXCEPT ![r] = [user |-> u, job |-> job, rev |-> v]]
      BY <1>1 DEF Begin
  <2>2. off' \subseteq Users
      BY <1>1 DEF Begin, TypeOK
  <2>3. [user |-> u, job |-> job, rev |-> v] \in Request
      BY <2>1 DEF Request
  <2>4. given' \in 0..MaxGiven
      BY <1>1, GivenAssumption DEF Begin, TypeOK
  <2>5. at' \in [Requests -> Places] /\ at'[r] \in {"building", "ready"}
      BY <1>1 DEF Begin, TypeOK, Places
  <2>6. using' \in [Requests -> Contexts \cup {None}]
      BY <1>1 DEF Begin, TypeOK
  <2>7. /\ req'[r].user \in Users
        /\ at'[r] = "ready" => using'[r] \in Contexts
      BY <1>1, <2>1 DEF Begin, TypeOK
  <2> QED
      BY <1>1, <2>1, <2>2, <2>3, <2>4, <2>5, <2>6, <2>7 DEF Begin, TypeOK
<1>2. ASSUME NEW r \in Requests, Build(r) PROVE TypeOK'
  <2>1. Published(store[req[r].user]) \in Revisions \cup {None}
      BY <1>2 DEF Build, TypeOK, Published, Skill
  <2>2. /\ live' \in [Users -> [Contexts -> Revisions \cup {None}]]
        /\ using' \in [Requests -> Contexts \cup {None}]
        /\ using'[r] \in Contexts
      BY <1>2, <2>1 DEF Build, TypeOK
  <2>3. \A o \in Requests \ {r} : using'[o] = using[o]
      BY <1>2 DEF Build, TypeOK
  <2> QED
      BY <1>2, <2>2, <2>3 DEF Build, TypeOK, Places
<1>3. ASSUME NEW r \in Requests, StoreContext(r) PROVE TypeOK'
    BY <1>3 DEF StoreContext, TypeOK, Places
<1>4. ASSUME NEW r \in Requests, Enter(r) PROVE TypeOK'
  <2>1. /\ req[r].user \in Users /\ using[r] \in Contexts
        /\ store[req[r].user].rev \in Revisions \cup {None}
      BY <1>4 DEF Enter, TypeOK, Skill
  <2>2. lock' \in [Users -> [Contexts -> Requests \cup {None}]]
      BY <1>4, <2>1 DEF Enter, TypeOK
  <2>3. prior' \in [Requests -> Revisions \cup {None}]
      BY <1>4, <2>1 DEF Enter, TypeOK
  <2> QED
      BY <1>4, <2>1, <2>2, <2>3 DEF Enter, TypeOK, Places
<1>5. ASSUME NEW r \in Requests, Stage(r) \/ Publish(r) PROVE TypeOK'
  <2>1. req[r].rev \in Revisions
      BY <1>5 DEF JobInv, Stage, Publish
  <2> QED
      BY <1>5, <2>1 DEF Stage, Publish, TypeOK, Places
<1>6. ASSUME NEW r \in Requests, FetchFails(r) \/ Run(r) PROVE TypeOK'
    BY <1>6, OverTyped DEF FetchFails, Run, End, TypeOK
<1>7. ASSUME NEW r \in Requests, Load(r) PROVE TypeOK'
  <2>1. Changed(req[r].job, store[req[r].user], req[r].rev) \in Skill
      BY <1>7, ChangedTyped DEF Load, TypeOK, Request
  <2> QED
      BY <1>7, <2>1 DEF Load, TypeOK, Places
<1>8. ASSUME NEW r \in Requests, Refused(r) PROVE TypeOK'
    BY <1>8, OverTyped, GoOnTyped, EndOffTyped
    DEF Refused, EndOff, GoOnToEnable, TypeOK
<1>9. ASSUME NEW r \in Requests, Save(r) PROVE TypeOK'
    BY <1>9 DEF Save, TypeOK, Places
<1>10. ASSUME NEW r \in Requests, DeleteCredential(r) PROVE TypeOK'
  <2>1. CASE /\ at' = [at EXCEPT ![r] = "refreshing"]
             /\ UNCHANGED <<lock, req, using, prior, doc, early, unrefreshed>>
      BY <1>10, <2>1 DEF DeleteCredential, TypeOK, Places
  <2>2. CASE unrefreshed' = unrefreshed \cup {req[r].user} /\ End(r)
      BY <1>10, <2>2, OverTyped DEF DeleteCredential, End, TypeOK
  <2> QED
      BY <1>10, <2>1, <2>2 DEF DeleteCredential
<1>11. ASSUME NEW r \in Requests, Refresh(r) PROVE TypeOK'
  <2>1. Published(store[req[r].user]) \in Revisions \cup {None}
      BY <1>11 DEF Refresh, TypeOK, Published, Skill
  <2>2. live' \in [Users -> [Contexts -> Revisions \cup {None}]]
      BY <1>11, <2>1 DEF Refresh, TypeOK
  <2>3. CASE /\ at' = [at EXCEPT ![r] = "scanning"]
             /\ UNCHANGED <<lock, req, using, prior, doc, early, off>>
      BY <1>11, <2>2, <2>3 DEF Refresh, TypeOK, Places
  <2>4. CASE GoOnToEnable(r)
      BY <1>11, <2>2, <2>4, GoOnTyped DEF Refresh, GoOnToEnable, TypeOK
  <2>5. CASE EndOff(r)
      BY <1>11, <2>2, <2>5, OverTyped, EndOffTyped DEF Refresh, EndOff, TypeOK
  <2> QED
      BY <1>11, <2>3, <2>4, <2>5 DEF Refresh
<1>12. ASSUME NEW r \in Requests, Scan(r) PROVE TypeOK'
  <2>1. CASE EndOff(r) /\ UNCHANGED clashed
      BY <1>12, <2>1, OverTyped, EndOffTyped DEF Scan, EndOff, TypeOK
  <2>2. CASE /\ prior[r] # None
             /\ at' = [at EXCEPT ![r] = "collecting"]
             /\ clashed' \in {clashed, clashed \cup {prior[r]}}
             /\ UNCHANGED <<lock, req, using, prior, doc, early, off>>
      BY <1>12, <2>2 DEF Scan, TypeOK, Places
  <2> QED
      BY <1>12, <2>1, <2>2 DEF Scan
<1>13. ASSUME NEW r \in Requests, Collect(r) PROVE TypeOK'
    BY <1>13, OverTyped, EndOffTyped DEF Collect, EndOff, TypeOK
<1>14. ASSUME NEW r \in Requests, PickRegistry(r) \/ Permit(r) PROVE TypeOK'
  <2>1. CASE End(r)
      BY <1>14, <2>1, OverTyped DEF PickRegistry, Permit, End, TypeOK
  <2>2. CASE /\ at' \in {[at EXCEPT ![r] = "permitting"],
                         [at EXCEPT ![r] = "running"]}
             /\ UNCHANGED <<lock, req, using, prior, doc, early>>
      BY <1>14, <2>2 DEF PickRegistry, Permit, TypeOK, Places
  <2> QED
      BY <1>14, <2>1, <2>2 DEF PickRegistry, Permit
<1>15. CASE Restart
    BY <1>15
    DEF Restart, TypeOK, NoContext, NoRequest, Nothing, Request, Skill, Jobs,
        Places
<1>16. ASSUME NEW u \in Users, DropContext(u) PROVE TypeOK'
    BY <1>16 DEF DropContext, TypeOK
<1>17. CASE UNCHANGED vars
    BY <1>17 DEF vars, TypeOK
<1> QED
    BY <1>1, <1>2, <1>3, <1>4, <1>5, <1>6, <1>7, <1>8, <1>9, <1>10, <1>11,
       <1>12, <1>13, <1>14, <1>15, <1>16, <1>17
    DEF Next, Step

-----------------------------------------------------------------------------
(* What a step leaves alone.                                               *)

\* The job of a request that goes on to enable, and of one that is over.
LEMMA JobAfter ==
    ASSUME TypeOK, NEW r \in Requests
    PROVE  /\ GoOnToEnable(r) =>
                 /\ req'[r].user = req[r].user /\ req'[r].rev = req[r].rev
                 /\ req'[r].job = "enable"
           /\ Over(r) => /\ req'[r].user = None /\ req'[r].job = "run"
<1>1. req[r] \in Request
    BY DEF TypeOK
<1> QED
    BY <1>1 DEF TypeOK, GoOnToEnable, Over, NoRequest, Request

\* A request moves itself only.
LEMMA OthersStay ==
    ASSUME TypeOK, NEW r \in Requests, Step(r) \/ \E u \in Users : Begin(r, u),
           NEW o \in Requests \ {r}
    PROVE  /\ at'[o] = at[o] /\ req'[o] = req[o] /\ using'[o] = using[o]
           /\ prior'[o] = prior[o] /\ doc'[o] = doc[o]
<1> USE DEF request, memory, history
<1>1. ASSUME Over(r) \/ GoOnToEnable(r)
      PROVE  /\ at'[o] = at[o] /\ req'[o] = req[o] /\ using'[o] = using[o]
             /\ prior'[o] = prior[o] /\ doc'[o] = doc[o]
    BY <1>1 DEF Over, GoOnToEnable, TypeOK
<1>2. CASE \E u \in Users : Begin(r, u)
    BY <1>2 DEF Begin, TypeOK
<1>3. CASE Build(r) \/ StoreContext(r) \/ Enter(r) \/ Stage(r) \/ Publish(r)
    BY <1>3 DEF Build, StoreContext, Enter, Stage, Publish, TypeOK
<1>4. CASE Load(r) \/ Save(r)
    BY <1>4 DEF Load, Save, TypeOK
<1>5. CASE FetchFails(r) \/ Refused(r) \/ DeleteCredential(r) \/ Run(r)
    BY <1>1, <1>5
    DEF FetchFails, Refused, DeleteCredential, Run, End, EndOff, TypeOK
<1>6. CASE Refresh(r) \/ Scan(r) \/ Collect(r)
    BY <1>1, <1>6 DEF Refresh, Scan, Collect, EndOff, TypeOK
<1>7. CASE PickRegistry(r) \/ Permit(r)
    BY <1>1, <1>7 DEF PickRegistry, Permit, End, TypeOK
<1> QED
    BY <1>2, <1>3, <1>4, <1>5, <1>6, <1>7 DEF Step

\* A request is only where its job takes it.
LEMMA JobStep ==
    ASSUME TypeOK, [Next]_vars, NEW o \in Requests, JobInv(o)
    PROVE  JobInv(o)'
<1> USE DEF request, memory, history
<1>1. ASSUME NEW r \in Requests, Step(r) \/ \E u \in Users : Begin(r, u), o # r
      PROVE  JobInv(o)'
    BY <1>1, OthersStay DEF JobInv
<1>2. ASSUME NEW u \in Users, Begin(o, u) PROVE JobInv(o)'
    BY <1>2 DEF Begin, JobInv, TypeOK, Section
<1>3. CASE Over(o)
    BY <1>3, JobAfter DEF Over, JobInv, TypeOK, Section
<1>4. CASE GoOnToEnable(o)
    BY <1>4, JobAfter DEF GoOnToEnable, JobInv, TypeOK, Section
<1>5. CASE Build(o) \/ StoreContext(o) \/ Enter(o)
    BY <1>5 DEF Build, StoreContext, Enter, JobInv, TypeOK, Section
<1>6. CASE Stage(o) \/ Publish(o) \/ Load(o) \/ Save(o)
    BY <1>6 DEF Stage, Publish, Load, Save, JobInv, TypeOK, Section
<1>7. CASE FetchFails(o) \/ Refused(o) \/ DeleteCredential(o) \/ Run(o)
    BY <1>3, <1>4, <1>7
    DEF FetchFails, Refused, DeleteCredential, Run, End, EndOff, TypeOK,
        JobInv, Section
<1>8. CASE Refresh(o) \/ Scan(o) \/ Collect(o)
    BY <1>3, <1>4, <1>8
    DEF Refresh, Scan, Collect, EndOff, TypeOK, JobInv, Section
<1>9. CASE PickRegistry(o) \/ Permit(o)
    BY <1>3, <1>9 DEF PickRegistry, Permit, End, TypeOK, JobInv, Section
<1>10. CASE Restart
    BY <1>10 DEF Restart, JobInv, NoRequest, Section
<1>11. CASE UNCHANGED vars \/ \E u \in Users : DropContext(u)
    BY <1>11 DEF vars, DropContext, JobInv
<1> QED
    BY <1>1, <1>2, <1>5, <1>6, <1>7, <1>8, <1>9, <1>10, <1>11 DEF Next, Step

-----------------------------------------------------------------------------
(* Enabled means configured.                                               *)

\* Only a save changes the store.
LEMMA StoreAfter ==
    ASSUME TypeOK, [Next]_vars
    PROVE  store' = store \/ \E r \in Requests : Save(r)
<1> USE DEF request, memory, history
<1>1. ASSUME NEW r \in Requests, Step(r) \/ \E u \in Users : Begin(r, u)
      PROVE  store' = store \/ Save(r)
  <2>1. CASE \E u \in Users : Begin(r, u)
      BY <2>1 DEF Begin
  <2>2. CASE Build(r) \/ StoreContext(r) \/ Enter(r) \/ Stage(r)
      BY <2>2 DEF Build, StoreContext, Enter, Stage
  <2>3. CASE Publish(r) \/ Load(r) \/ FetchFails(r) \/ Refused(r)
      BY <2>3 DEF Publish, Load, FetchFails, Refused
  <2>4. CASE DeleteCredential(r) \/ Run(r) \/ Refresh(r) \/ Scan(r)
      BY <2>4 DEF DeleteCredential, Run, Refresh, Scan
  <2>5. CASE Collect(r) \/ PickRegistry(r) \/ Permit(r)
      BY <2>5 DEF Collect, PickRegistry, Permit
  <2> QED
      BY <1>1, <2>1, <2>2, <2>3, <2>4, <2>5 DEF Step
<1> QED
    BY <1>1 DEF Next, DropContext, Restart, vars

\* A document that is about to be saved was so before, or has been loaded.
LEMMA SavingAfter ==
    ASSUME TypeOK, [Next]_vars, NEW r \in Requests, at'[r] = "saving"
    PROVE  \/ at[r] = "saving" /\ doc'[r] = doc[r] /\ req'[r] = req[r]
           \/ Load(r)
<1> USE DEF request, memory, history
<1>1. ASSUME NEW o \in Requests, Step(o) \/ \E u \in Users : Begin(o, u),
             o # r
      PROVE  at[r] = "saving" /\ doc'[r] = doc[r] /\ req'[r] = req[r]
    BY <1>1, OthersStay
<1>2. ASSUME Over(r) \/ GoOnToEnable(r) PROVE FALSE
    BY <1>2 DEF Over, GoOnToEnable, TypeOK
<1>3. CASE \E u \in Users : Begin(r, u)
    BY <1>3 DEF Begin, TypeOK
<1>4. CASE Build(r) \/ StoreContext(r) \/ Enter(r) \/ Stage(r) \/ Publish(r)
    BY <1>4 DEF Build, StoreContext, Enter, Stage, Publish, TypeOK
<1>5. CASE Save(r)
    BY <1>5 DEF Save, TypeOK
<1>6. CASE FetchFails(r) \/ Refused(r) \/ DeleteCredential(r) \/ Run(r)
    BY <1>2, <1>6
    DEF FetchFails, Refused, DeleteCredential, Run, End, EndOff, TypeOK
<1>7. CASE Refresh(r) \/ Scan(r) \/ Collect(r)
    BY <1>2, <1>7 DEF Refresh, Scan, Collect, EndOff, TypeOK
<1>8. CASE PickRegistry(r) \/ Permit(r)
    BY <1>2, <1>8 DEF PickRegistry, Permit, End, TypeOK
<1>9. CASE Restart
    BY <1>9 DEF Restart
<1>10. CASE UNCHANGED vars \/ \E u \in Users : DropContext(u)
    BY <1>10 DEF vars, DropContext
<1> QED
    BY <1>1, <1>3, <1>4, <1>5, <1>6, <1>7, <1>8, <1>9, <1>10 DEF Next, Step

\* No operation that is allowed enables what is not configured.
LEMMA ChangedCoherent ==
    ASSUME NEW job \in Jobs, NEW skill \in Skill, NEW v,
           Coherent(skill), Allowed(job, skill),
           job \in {"install", "update"} => v \in Revisions
    PROVE  Coherent(Changed(job, skill, v))
<1>1. CASE job = "install"
    BY <1>1 DEF Coherent, Changed, Nothing
<1>2. CASE job = "update"
    BY <1>2, NoneAssumption DEF Coherent, Changed, Skill
<1>3. CASE job \in {"configure", "enable", "disable"}
    BY <1>3 DEF Coherent, Changed, Allowed, Skill
<1>4. CASE job \in {"remove", "run"}
    BY <1>4 DEF Coherent, Changed, Nothing
<1> QED
    BY <1>1, <1>2, <1>3, <1>4 DEF Jobs

\* Neither what is recorded nor what will be is enabled unconfigured.
LEMMA RecordStep ==
    ASSUME TypeOK, \A r \in Requests : JobInv(r), RecordInv, [Next]_vars
    PROVE  RecordInv'
<1>1. ASSUME NEW u \in Users PROVE Coherent(store'[u])
  <2>1. CASE store' = store
      BY <2>1 DEF RecordInv
  <2>2. ASSUME NEW r \in Requests, Save(r) PROVE Coherent(store'[u])
      BY <2>2 DEF Save, RecordInv, TypeOK
  <2> QED
      BY <2>1, <2>2, StoreAfter
<1>2. ASSUME NEW r \in Requests, at'[r] = "saving" PROVE Coherent(doc'[r])
  <2>1. CASE at[r] = "saving" /\ doc'[r] = doc[r]
      BY <2>1 DEF RecordInv
  <2>2. CASE Load(r)
    <3>1. /\ doc'[r] = Changed(req[r].job, store[req[r].user], req[r].rev)
          /\ Allowed(req[r].job, store[req[r].user])
          /\ req[r].user \in Users /\ req[r] \in Request
        BY <2>2 DEF Load, TypeOK
    <3>2. req[r].job \in Jobs /\ store[req[r].user] \in Skill
        BY <3>1 DEF TypeOK, Request
    <3>3. Coherent(store[req[r].user])
        BY <3>1 DEF RecordInv
    <3>4. req[r].job \in {"install", "update"} => req[r].rev \in Revisions
        BY DEF JobInv
    <3>5. Coherent(Changed(req[r].job, store[req[r].user], req[r].rev))
        BY <3>1, <3>2, <3>3, <3>4, ChangedCoherent
    <3> QED
        BY <3>1, <3>5
  <2> QED
      BY <1>2, <2>1, <2>2, SavingAfter
<1> QED
    BY <1>1, <1>2 DEF RecordInv

-----------------------------------------------------------------------------
(* Recorded artifacts exist.                                               *)

\* Only the collection takes from the cache.
LEMMA CacheAfter ==
    ASSUME [Next]_vars
    PROVE  /\ clashed \subseteq clashed'
           /\ cache \subseteq cache' \/ \E r \in Requests : Collect(r)
<1> USE DEF request, memory, history
<1>1. ASSUME NEW r \in Requests, Step(r) \/ \E u \in Users : Begin(r, u)
      PROVE  /\ clashed \subseteq clashed'
             /\ cache \subseteq cache' \/ Collect(r)
  <2>1. CASE \E u \in Users : Begin(r, u)
      BY <2>1 DEF Begin
  <2>2. CASE Build(r) \/ StoreContext(r) \/ Enter(r) \/ Stage(r)
      BY <2>2 DEF Build, StoreContext, Enter, Stage
  <2>3. CASE Publish(r) \/ Load(r) \/ FetchFails(r) \/ Refused(r)
      BY <2>3 DEF Publish, Load, FetchFails, Refused
  <2>4. CASE DeleteCredential(r) \/ Run(r) \/ Refresh(r) \/ Scan(r)
      BY <2>4 DEF DeleteCredential, Run, Refresh, Scan
  <2>5. CASE Collect(r) \/ PickRegistry(r) \/ Permit(r) \/ Save(r)
      BY <2>5 DEF Collect, PickRegistry, Permit, Save
  <2> QED
      BY <1>1, <2>1, <2>2, <2>3, <2>4, <2>5 DEF Step
<1> QED
    BY <1>1 DEF Next, DropContext, Restart, vars

\* Who collects was collecting, or has looked at the files.
LEMMA CollectingAfter ==
    ASSUME TypeOK, [Next]_vars, NEW r \in Requests, at'[r] = "collecting"
    PROVE  (at[r] = "collecting" /\ prior'[r] = prior[r]) \/ Scan(r)
<1> USE DEF request, memory, history
<1>1. ASSUME NEW o \in Requests, Step(o) \/ \E u \in Users : Begin(o, u),
             o # r
      PROVE  at[r] = "collecting" /\ prior'[r] = prior[r]
    BY <1>1, OthersStay
<1>2. ASSUME Over(r) \/ GoOnToEnable(r) PROVE FALSE
    BY <1>2 DEF Over, GoOnToEnable, TypeOK
<1>3. CASE \E u \in Users : Begin(r, u)
    BY <1>3 DEF Begin, TypeOK
<1>4. CASE Build(r) \/ StoreContext(r) \/ Enter(r) \/ Stage(r) \/ Publish(r)
    BY <1>4 DEF Build, StoreContext, Enter, Stage, Publish, TypeOK
<1>5. CASE Save(r) \/ Load(r)
    BY <1>5 DEF Save, Load, TypeOK
<1>6. CASE FetchFails(r) \/ Refused(r) \/ DeleteCredential(r) \/ Run(r)
    BY <1>2, <1>6
    DEF FetchFails, Refused, DeleteCredential, Run, End, EndOff, TypeOK
<1>7. CASE Refresh(r) \/ Collect(r)
    BY <1>2, <1>7 DEF Refresh, Collect, EndOff, TypeOK
<1>8. CASE PickRegistry(r) \/ Permit(r)
    BY <1>2, <1>8 DEF PickRegistry, Permit, End, TypeOK
<1>9. CASE Restart
    BY <1>9 DEF Restart
<1>10. CASE UNCHANGED vars \/ \E u \in Users : DropContext(u)
    BY <1>10 DEF vars, DropContext
<1> QED
    BY <1>1, <1>3, <1>4, <1>5, <1>6, <1>7, <1>8, <1>9, <1>10 DEF Next, Step

\* The revision a request will have recorded changes when it is staged and
\* when the record is loaded.
LEMMA PendingAfter ==
    ASSUME TypeOK, [Next]_vars, NEW r \in Requests
    PROVE  \/ Pending(r)' \in {Pending(r), None}
           \/ Stage(r) \/ Publish(r) \/ Load(r)
<1> USE DEF request, memory, history
<1>1. ASSUME NEW o \in Requests, Step(o) \/ \E u \in Users : Begin(o, u),
             o # r
      PROVE  Pending(r)' = Pending(r)
    BY <1>1, OthersStay DEF Pending
<1>2. ASSUME Over(r) \/ GoOnToEnable(r) PROVE Pending(r)' = None
    BY <1>2 DEF Over, GoOnToEnable, TypeOK, Pending
<1>3. CASE \E u \in Users : Begin(r, u)
    BY <1>3 DEF Begin, TypeOK, Pending
<1>4. CASE Build(r) \/ StoreContext(r) \/ Enter(r)
    BY <1>4 DEF Build, StoreContext, Enter, TypeOK, Pending
<1>5. CASE Save(r)
    BY <1>5 DEF Save, TypeOK, Pending
<1>6. CASE FetchFails(r) \/ Refused(r) \/ DeleteCredential(r) \/ Run(r)
    BY <1>2, <1>6
    DEF FetchFails, Refused, DeleteCredential, Run, End, EndOff, TypeOK,
        Pending
<1>7. CASE Refresh(r) \/ Scan(r) \/ Collect(r)
    BY <1>2, <1>7 DEF Refresh, Scan, Collect, EndOff, TypeOK, Pending
<1>8. CASE PickRegistry(r) \/ Permit(r)
    BY <1>2, <1>8 DEF PickRegistry, Permit, End, TypeOK, Pending
<1>9. CASE Restart
    BY <1>9 DEF Restart, Pending
<1>10. CASE UNCHANGED vars \/ \E u \in Users : DropContext(u)
    BY <1>10 DEF vars, DropContext, Pending
<1> QED
    BY <1>1, <1>3, <1>4, <1>5, <1>6, <1>7, <1>8, <1>9, <1>10 DEF Next, Step

\* What a loaded record points to was recorded, or was to be.
LEMMA LoadedPending ==
    ASSUME TypeOK, NEW r \in Requests, JobInv(r), Load(r)
    PROVE  Pending(r)' \in {Pending(r), store[req[r].user].rev, None}
<1>1. /\ at[r] = "loading" /\ at'[r] = "saving"
      /\ doc'[r] = Changed(req[r].job, store[req[r].user], req[r].rev)
      /\ req[r].user \in Users /\ req[r] \in Request
    BY DEF Load, TypeOK
<1>2. req[r].job \in Jobs /\ store[req[r].user] \in Skill
    BY <1>1 DEF TypeOK, Request
<1>3. Pending(r)' = doc'[r].rev
    BY <1>1 DEF Pending
<1>4. CASE req[r].job = "install"
    BY <1>1, <1>3, <1>4 DEF Pending, Changed, Nothing
<1>5. CASE req[r].job = "update"
    BY <1>1, <1>2, <1>3, <1>5 DEF Pending, Changed, Skill
<1>6. CASE req[r].job \in {"configure", "enable", "disable"}
    BY <1>1, <1>2, <1>3, <1>6 DEF Changed, Skill
<1>7. CASE req[r].job \in {"remove", "run"}
    BY <1>1, <1>3, <1>7 DEF Changed, Nothing
<1> QED
    BY <1>2, <1>4, <1>5, <1>6, <1>7 DEF Jobs

\* The artifacts of what is recorded, or will be, stay in the cache.
LEMMA ArtifactStep ==
    ASSUME TypeOK, \A r \in Requests : JobInv(r), ArtifactInv, [Next]_vars
    PROVE  ArtifactInv'
<1>1. ASSUME NEW v, v \in cache \cup clashed \cup {None},
             \A r \in Requests : Collect(r) =>
                prior[r] \in clashed \/ v # prior[r]
      PROVE  v \in (cache \cup clashed)' \cup {None}
  <2>1. ASSUME NEW r \in Requests, Collect(r)
        PROVE  v \in (cache \cup clashed)' \cup {None}
      BY <1>1, <2>1, CacheAfter DEF Collect
  <2> QED
      BY <1>1, <2>1, CacheAfter
<1>2. ASSUME NEW u \in Users
      PROVE  store'[u].rev \in (cache \cup clashed)' \cup {None}
  <2>1. CASE store' = store
      BY <1>1, <2>1 DEF ArtifactInv, Collect
  <2>2. ASSUME NEW r \in Requests, Save(r)
        PROVE  store'[u].rev \in (cache \cup clashed)' \cup {None}
    <3>1. Pending(r) = doc[r].rev
        BY <2>2 DEF Save, Pending
    <3>2. store'[u].rev \in {store[u].rev, Pending(r)}
        BY <2>2, <3>1 DEF Save, TypeOK
    <3>3. UNCHANGED <<cache, clashed>>
        BY <2>2 DEF Save, history
    <3> QED
        BY <3>2, <3>3 DEF ArtifactInv
  <2> QED
      BY <2>1, <2>2, StoreAfter
<1>3. ASSUME NEW r \in Requests
      PROVE  Pending(r)' \in (cache \cup clashed)' \cup {None}
  <2>1. CASE Pending(r)' \in {Pending(r), None}
      BY <1>1, <2>1 DEF ArtifactInv, Collect
  <2>2. CASE Stage(r) \/ Publish(r)
    <3>1. Pending(r)' \in {req[r].rev, None}
        BY <2>2 DEF Stage, Publish, Pending, TypeOK, request
    <3>2. at'[r] = "loading" => req[r].rev \in cache'
        BY <2>2 DEF Stage, Publish, TypeOK
    <3>3. at'[r] # "loading" => Pending(r)' = None
        BY <2>2 DEF Stage, Publish, Pending, TypeOK
    <3> QED
        BY <3>1, <3>2, <3>3
  <2>3. CASE Load(r)
    <3>1. Pending(r)' \in {Pending(r), store[req[r].user].rev, None}
        BY <2>3, LoadedPending
    <3>2. UNCHANGED <<cache, clashed>> /\ req[r].user \in Users
        BY <2>3 DEF Load, history, TypeOK
    <3> QED
        BY <3>1, <3>2 DEF ArtifactInv
  <2> QED
      BY <2>1, <2>2, <2>3, PendingAfter
<1>4. ASSUME NEW r \in Requests, at'[r] = "collecting",
             prior'[r] \notin clashed'
      PROVE  /\ \A u \in Users : store'[u].rev # prior'[r]
             /\ \A o \in Requests : Pending(o)' # prior'[r]
  <2>1. CASE at[r] = "collecting" /\ prior'[r] = prior[r]
    <3>1. /\ \A u \in Users : store[u].rev # prior[r]
          /\ \A o \in Requests : Pending(o) # prior[r]
          /\ prior[r] # None
        BY <1>4, <2>1, CacheAfter DEF ArtifactInv, JobInv
    <3>2. ASSUME NEW u \in Users PROVE store'[u].rev # prior[r]
      <4>1. ASSUME NEW o \in Requests, Save(o)
            PROVE  store'[u].rev # prior[r]
          BY <3>1, <4>1 DEF Save, Pending, TypeOK
      <4> QED
          BY <3>1, <4>1, StoreAfter
    <3>3. ASSUME NEW o \in Requests PROVE Pending(o)' # prior[r]
      <4>1. CASE Pending(o)' \in {Pending(o), None}
          BY <3>1, <4>1
      <4>2. CASE Stage(o) \/ Publish(o)
        <5>1. Pending(o)' \in {req[o].rev, None}
            BY <4>2 DEF Stage, Publish, Pending, TypeOK, request
        <5>2. CASE at'[o] = "loading" /\ req[o].rev = prior[r]
            BY <1>4, <2>1, <4>2, <5>2
            DEF Stage, Publish, BeingCollected, TypeOK
        <5>3. at'[o] # "loading" => Pending(o)' = None
            BY <4>2 DEF Stage, Publish, Pending, TypeOK
        <5> QED
            BY <3>1, <5>1, <5>2, <5>3
      <4>3. CASE Load(o)
          BY <3>1, <4>3, LoadedPending DEF Load, TypeOK
      <4> QED
          BY <4>1, <4>2, <4>3, PendingAfter
    <3> QED
        BY <2>1, <3>2, <3>3
  <2>2. CASE Scan(r)
    <3>1. /\ prior[r] # None /\ ~Referenced(r) /\ prior' = prior
          /\ \A o \in Requests : Pending(o) # prior[r]
        BY <1>4, <2>2 DEF Scan, EndOff, Over, TypeOK
    <3>2. UNCHANGED <<store, req, doc>>
        BY <1>4, <2>2 DEF Scan, EndOff, Over, TypeOK
    <3>3. ASSUME NEW o \in Requests PROVE Pending(o)' \in {Pending(o), None}
        BY <1>4, <2>2, <3>2, OthersStay DEF Pending, Step
    <3> QED
        BY <3>1, <3>2, <3>3 DEF Referenced
  <2> QED
      BY <1>4, <2>1, <2>2, CollectingAfter
<1> QED
    BY <1>2, <1>3, <1>4 DEF ArtifactInv

-----------------------------------------------------------------------------
(* The locks, and the registry that turns run from.                        *)

\* Which steps move a lock, a context, a registry or the list of users whose
\* removal failed.
LEMMA MemoryAfter ==
    ASSUME NEW r \in Requests, Step(r) \/ \E u \in Users : Begin(r, u)
    PROVE  /\ UNCHANGED <<ctx, doubled>> \/ StoreContext(r)
           /\ \/ lock' = lock
              \/ Enter(r) \/ Over(r)
              \/ at[r] \in Section /\ GoOnToEnable(r)
           /\ live' = live \/ Build(r) \/ Refresh(r)
           /\ \/ unrefreshed' = unrefreshed
              \/ Refresh(r)
              \/ unrefreshed' = unrefreshed \cup {req[r].user}
<1> USE DEF request, memory, history
<1>1. CASE \E u \in Users : Begin(r, u)
    BY <1>1 DEF Begin
<1>2. CASE Build(r) \/ StoreContext(r) \/ Enter(r) \/ Stage(r)
    BY <1>2 DEF Build, StoreContext, Enter, Stage
<1>3. CASE Publish(r) \/ Load(r) \/ FetchFails(r) \/ Refused(r)
    BY <1>3 DEF Publish, Load, FetchFails, Refused, End, EndOff, Section
<1>4. CASE DeleteCredential(r) \/ Run(r) \/ Scan(r)
    BY <1>4 DEF DeleteCredential, Run, Scan, End, EndOff
<1>5. CASE Refresh(r)
    BY <1>5 DEF Refresh, EndOff, Section
<1>6. CASE Collect(r) \/ PickRegistry(r) \/ Permit(r) \/ Save(r)
    BY <1>6 DEF Collect, PickRegistry, Permit, Save, End, EndOff
<1> QED
    BY <1>1, <1>2, <1>3, <1>4, <1>5, <1>6 DEF Step

\* A request works for one user, in one context, from its beginning to its
\* end, and enters the lock by Enter.
LEMMA PlaceAfter ==
    ASSUME TypeOK, NEW r \in Requests, Step(r)
    PROVE  /\ at[r] # "idle"
           /\ \/ Over(r) /\ at'[r] = "idle" /\ req'[r].user = None
              \/ /\ at'[r] \notin {"idle", "building"}
                 /\ req'[r].user = req[r].user
                 /\ using'[r] = using[r] \/ Build(r)
           /\ at'[r] \in Section => at[r] \in Section \/ Enter(r)
           /\ at'[r] = "built" => Build(r)
           /\ at[r] \in {"building", "built"} =>
                 Build(r) \/ StoreContext(r)
<1> USE DEF request, memory, history
<1>1. CASE Build(r) \/ StoreContext(r) \/ Enter(r) \/ Stage(r)
    BY <1>1 DEF Build, StoreContext, Enter, Stage, TypeOK, Section
<1>2. CASE Publish(r) \/ Load(r) \/ Save(r)
    BY <1>2 DEF Publish, Load, Save, TypeOK, Section
<1>3. ASSUME Over(r)
      PROVE  at'[r] = "idle" /\ req'[r].user = None
    BY <1>3, JobAfter DEF Over, TypeOK
<1>4. ASSUME GoOnToEnable(r)
      PROVE  at'[r] = "ready" /\ req'[r].user = req[r].user
    BY <1>4, JobAfter DEF GoOnToEnable, TypeOK
<1>5. CASE FetchFails(r) \/ Refused(r) \/ DeleteCredential(r) \/ Run(r)
    BY <1>3, <1>4, <1>5
    DEF FetchFails, Refused, DeleteCredential, Run, End, EndOff, TypeOK,
        Section, GoOnToEnable
<1>6. CASE Refresh(r) \/ Scan(r) \/ Collect(r)
    BY <1>3, <1>4, <1>6
    DEF Refresh, Scan, Collect, EndOff, TypeOK, Section, GoOnToEnable
<1>7. CASE PickRegistry(r) \/ Permit(r)
    BY <1>3, <1>7 DEF PickRegistry, Permit, End, TypeOK, Section
<1> QED
    BY <1>1, <1>2, <1>5, <1>6, <1>7 DEF Step

\* The lock that a request holds is taken from it by itself only.
LEMMA LockStays ==
    ASSUME TypeOK, LockInv, NEW r \in Requests, at[r] \in Section,
           NEW o \in Requests \ {r}, Step(o) \/ \E u \in Users : Begin(o, u)
    PROVE  lock'[req[r].user][using[r]] = r
<1> DEFINE u == req[r].user
           c == using[r]
<1>1. lock[u][c] = r /\ u \in Users /\ c \in Contexts /\ r # None
    BY NoneAssumption DEF LockInv, TypeOK, Section
<1>2. CASE lock' = lock
    BY <1>1, <1>2
<1>3. CASE Enter(o)
  <2>1. /\ lock[req[o].user][using[o]] = None
        /\ lock' = [lock EXCEPT ![req[o].user][using[o]] = o]
      BY <1>3 DEF Enter
  <2> QED
      BY <1>1, <2>1 DEF TypeOK
<1>4. CASE Over(o)
  <2>1. \/ lock' = lock
        \/ /\ lock[req[o].user][using[o]] = o
           /\ lock' = [lock EXCEPT ![req[o].user][using[o]] = None]
      BY <1>4 DEF Over, Released
  <2> QED
      BY <1>1, <2>1 DEF TypeOK
<1>5. CASE at[o] \in Section /\ GoOnToEnable(o)
  <2>1. /\ lock[req[o].user][using[o]] = o
        /\ lock' = [lock EXCEPT ![req[o].user][using[o]] = None]
      BY <1>5 DEF GoOnToEnable, LockInv
  <2> QED
      BY <1>1, <2>1 DEF TypeOK
<1> QED
    BY <1>2, <1>3, <1>4, <1>5, MemoryAfter

\* Who is inside has the lock, of the only context if there is one.
LEMMA LockStep ==
    ASSUME TypeOK, LockInv, [Next]_vars
    PROVE  LockInv'
<1> USE DEF request, memory, history
<1>1. ASSUME NEW r \in Requests, NEW u \in Users, Begin(r, u)
      PROVE  LockInv'
  <2>1. /\ UNCHANGED <<ctx, lock, doubled>>
        /\ at'[r] = IF ctx[u] = None THEN "building" ELSE "ready"
        /\ using'[r] = ctx[u] /\ req'[r].user = u
      BY <1>1 DEF Begin, TypeOK
  <2>2. \A o \in Requests \ {r} :
            at'[o] = at[o] /\ req'[o] = req[o] /\ using'[o] = using[o]
      BY <1>1, OthersStay
  <2>3. ASSUME NEW o \in Requests, at'[o] = "built"
        PROVE  Own(o)'
    <3>1. o # r /\ at[o] = "built" /\ Own(o)
        BY <2>1, <2>2, <2>3 DEF LockInv
    <3> QED
        BY <2>1, <2>2, <3>1 DEF Own
  <2> QED
      BY <2>1, <2>2, <2>3, NoneAssumption DEF LockInv, Section
<1>2. ASSUME NEW r \in Requests, Step(r)
      PROVE  LockInv'
  <2>1. \A o \in Requests \ {r} :
            at'[o] = at[o] /\ req'[o] = req[o] /\ using'[o] = using[o]
      BY <1>2, OthersStay
  <2>2. \A o \in Requests : at'[o] \in Section =>
            lock'[req'[o].user][using'[o]] = o
    <3>1. ASSUME NEW o \in Requests \ {r}, at'[o] \in Section
          PROVE  lock'[req'[o].user][using'[o]] = o
        BY <1>2, <2>1, <3>1, LockStays
    <3>2. ASSUME Enter(r), at'[r] \in Section
          PROVE  lock'[req'[r].user][using'[r]] = r
        BY <3>2 DEF Enter, TypeOK
    <3>3. ASSUME at'[r] \in Section, at[r] \in Section
          PROVE  lock'[req'[r].user][using'[r]] = r
      <4>1. ~Over(r) /\ ~GoOnToEnable(r) /\ ~Enter(r) /\ ~Build(r)
          BY <3>3 DEF Over, GoOnToEnable, Enter, Build, TypeOK, Section
      <4>2. lock' = lock /\ req'[r].user = req[r].user /\ using'[r] = using[r]
          BY <1>2, <4>1, MemoryAfter, PlaceAfter
      <4> QED
          BY <3>3, <4>2 DEF LockInv
    <3> QED
        BY <1>2, <3>1, <3>2, <3>3, PlaceAfter
  <2>3. \A o \in Requests : at'[o] \notin {"idle", "building", "built"} =>
            req'[o].user \in doubled' \/ using'[o] = ctx'[req'[o].user]
    <3>1. CASE StoreContext(r)
        BY <2>1, <3>1, NoneAssumption DEF StoreContext, LockInv, TypeOK
    <3>2. CASE Build(r)
        BY <2>1, <3>2 DEF Build, LockInv, TypeOK
    <3>3. CASE at[r] \notin {"building", "built"}
      <4>1. \/ at'[r] = "idle"
            \/ req'[r].user = req[r].user /\ using'[r] = using[r]
          BY <1>2, <3>3, PlaceAfter DEF Build
      <4>2. at[r] # "idle"
          BY <1>2, PlaceAfter
      <4>3. UNCHANGED <<ctx, doubled>>
          BY <1>2, <3>3, MemoryAfter DEF StoreContext
      <4> QED
          BY <2>1, <3>3, <4>1, <4>2, <4>3 DEF LockInv
    <3> QED
        BY <1>2, <3>1, <3>2, <3>3, PlaceAfter
  <2>4. ASSUME NEW o \in Requests, at'[o] = "built"
        PROVE  Own(o)'
    <3>1. CASE o = r
      <4>1. Build(r)
          BY <1>2, <2>4, <3>1, PlaceAfter
      <4>2. PICK c \in Contexts :
                /\ c # ctx[req[r].user] /\ \A p \in Others(r) : using[p] # c
                /\ using' = [using EXCEPT ![r] = c]
          BY <4>1 DEF Build
      <4>3. using'[r] = c /\ UNCHANGED <<ctx, req>>
          BY <4>1, <4>2 DEF Build, TypeOK
      <4> QED
          BY <2>1, <3>1, <4>2, <4>3 DEF Own, Others
    <3>2. CASE o # r
      <4>1. /\ at[o] = "built" /\ Own(o)
            /\ req'[o] = req[o] /\ using'[o] = using[o]
            /\ req[o].user \in Users
          BY <2>1, <2>4, <3>2 DEF LockInv, TypeOK
      <4>2. ctx'[req[o].user] # using[o]
        <5>1. CASE StoreContext(r)
            BY <3>2, <4>1, <5>1 DEF StoreContext, Own, TypeOK
        <5>2. CASE ctx' = ctx
            BY <4>1, <5>2 DEF Own
        <5> QED
            BY <1>2, <5>1, <5>2, MemoryAfter
      <4>3. req'[r].user = req[o].user => using'[r] # using[o]
        <5>1. CASE Build(r)
            BY <3>2, <4>1, <5>1 DEF Build, Others, TypeOK
        <5>2. CASE at'[r] = "idle" /\ req'[r].user = None
            BY <4>1, <5>2, NoneAssumption
        <5>3. CASE req'[r].user = req[r].user /\ using'[r] = using[r]
            BY <3>2, <4>1, <5>3 DEF Own
        <5> QED
            BY <1>2, <5>1, <5>2, <5>3, PlaceAfter
      <4> QED
          BY <2>1, <3>2, <4>1, <4>2, <4>3 DEF Own
    <3> QED
        BY <3>1, <3>2
  <2> QED
      BY <2>2, <2>3, <2>4 DEF LockInv
<1>3. ASSUME NEW u \in Users, DropContext(u)
      PROVE  LockInv'
  <2>1. /\ UNCHANGED <<lock, req, at, using>>
        /\ ctx' = [ctx EXCEPT ![u] = None]
        /\ doubled \subseteq doubled'
        /\ \A r \in Requests : req[r].user = u => u \in doubled'
      BY <1>3 DEF DropContext
  <2>2. ASSUME NEW r \in Requests, at[r] = "built"
        PROVE  Own(r)'
      BY <2>1, <2>2, NoneAssumption DEF LockInv, Own, TypeOK
  <2> QED
      BY <2>1, <2>2 DEF LockInv, TypeOK
<1>4. CASE Restart
    BY <1>4 DEF Restart, LockInv, Section
<1>5. CASE UNCHANGED vars
    BY <1>5 DEF vars, LockInv, Own
<1> QED
    BY <1>1, <1>2, <1>3, <1>4, <1>5 DEF Next

\* Of a user who has had one context at a time, one request is inside.
LEMMA Mutex ==
    ASSUME TypeOK, LockInv, NEW r \in Requests, NEW o \in Requests,
           at[r] \in Section, at[o] \in Section,
           req[r].user = req[o].user, req[r].user \notin doubled
    PROVE  r = o
<1>1. using[r] = ctx[req[r].user] /\ using[o] = ctx[req[r].user]
    BY DEF LockInv, Section
<1> QED
    BY <1>1 DEF LockInv

\* The registry that a context not yet stored publishes stays up to date.
LEMMA BuiltStep ==
    ASSUME TypeOK, LockInv, RegistryInv, [Next]_vars,
           NEW r \in Requests, at'[r] = "built", ctx'[req'[r].user] = None,
           req'[r].user \notin doubled'
    PROVE  live'[req'[r].user][using'[r]] = Published(store'[req'[r].user])
<1> USE DEF request, memory, history
<1>1. CASE Build(r)
    BY <1>1 DEF Build, TypeOK
<1>2. ASSUME NEW o \in Requests \ {r}, Step(o) \/ \E u \in Users : Begin(o, u)
      PROVE  live'[req'[r].user][using'[r]] = Published(store'[req'[r].user])
  <2> DEFINE u == req[r].user
  <2>1. /\ at[r] = "built" /\ req'[r] = req[r] /\ u \in Users
        /\ using'[r] = using[r] /\ using[r] \in Contexts
      BY <1>2, OthersStay DEF TypeOK
  <2>2. ctx[u] = None /\ u \notin doubled
      BY <1>2, <2>1, MemoryAfter, NoneAssumption DEF StoreContext, TypeOK
  <2>3. live[u][using[r]] = Published(store[u])
      BY <2>1, <2>2 DEF RegistryInv
  <2>4. ASSUME NEW p \in Requests, req[p].user = u
        PROVE  at[p] \notin {"saving", "refreshing"}
      BY <2>2, <2>4, NoneAssumption DEF LockInv, TypeOK
  <2>5. store'[u] = store[u]
    <3>1. CASE store' = store
        BY <3>1
    <3>2. ASSUME NEW p \in Requests, Save(p)
          PROVE  store'[u] = store[u]
        BY <2>1, <2>4, <3>2 DEF Save, TypeOK
    <3> QED
        BY <3>1, <3>2, StoreAfter
  <2>6. live'[u][using[r]] = live[u][using[r]]
    <3>1. CASE live' = live
        BY <3>1
    <3>2. CASE Build(o)
      <4>1. req[o].user = u => r \in Others(o)
          BY <1>2 DEF Others
      <4> QED
          BY <2>1, <3>2, <4>1 DEF Build, TypeOK
    <3>3. CASE Refresh(o)
        BY <2>1, <2>4, <3>3 DEF Refresh, TypeOK
    <3> QED
        BY <1>2, <3>1, <3>2, <3>3, MemoryAfter
  <2> QED
      BY <2>1, <2>3, <2>5, <2>6
<1>3. CASE Restart
    BY <1>3 DEF Restart
<1>4. CASE UNCHANGED vars
    BY <1>4 DEF vars, RegistryInv
<1>5. ASSUME Step(r) PROVE Build(r)
    BY <1>5, PlaceAfter
<1>6. ASSUME NEW u \in Users, Begin(r, u) PROVE FALSE
    BY <1>6 DEF Begin, TypeOK
<1>7. ASSUME NEW u \in Users, DropContext(u)
      PROVE  live'[req'[r].user][using'[r]] = Published(store'[req'[r].user])
    BY <1>7 DEF DropContext, RegistryInv, TypeOK
<1> QED
    BY <1>1, <1>2, <1>3, <1>4, <1>5, <1>6, <1>7 DEF Next

\* A registry lags behind the store only while a request is to refresh it.
LEMMA RegistryStep ==
    ASSUME TypeOK, LockInv, RegistryInv, [Next]_vars
    PROVE  RegistryInv'
<1> USE DEF request, memory, history
<1> DEFINE Lag(u) == \E r \in Requests :
              req[r].user = u /\ at[r] \in {"credentials", "refreshing"}
<1>1. ASSUME NEW u \in Users, u \notin doubled', u \notin unrefreshed',
             ctx'[u] # None
      PROVE  live'[u][ctx'[u]] = Published(store'[u]) \/ Lag(u)'
  <2>1. ASSUME NEW r \in Requests,
               Step(r) \/ \E w \in Users : Begin(r, w)
        PROVE  live'[u][ctx'[u]] = Published(store'[u]) \/ Lag(u)'
    <3>1. CASE StoreContext(r) /\ req[r].user = u
        BY <1>1, <3>1 DEF StoreContext, RegistryInv, TypeOK
    <3>2. ASSUME ~(StoreContext(r) /\ req[r].user = u)
          PROVE  /\ ctx'[u] = ctx[u] /\ ctx[u] # None /\ u \notin doubled
        BY <1>1, <2>1, <3>2, MemoryAfter DEF StoreContext, TypeOK
    <3>3. CASE Refresh(r) /\ req[r].user = u
      <4>1. at[r] = "refreshing"
          BY <3>3 DEF Refresh
      <4>2. ctx'[u] = ctx[u] /\ u \notin doubled
          BY <3>2, <4>1 DEF StoreContext
      <4>3. using[r] = ctx[u]
          BY <3>3, <4>1, <4>2 DEF LockInv
      <4> QED
          BY <3>3, <4>2, <4>3 DEF Refresh, TypeOK
    <3>4. CASE Save(r) /\ req[r].user = u
      <4>1. at'[r] \in {"credentials", "refreshing"} /\ req' = req
          BY <3>4 DEF Save, TypeOK
      <4> QED
          BY <3>4, <4>1
    <3>5. ASSUME ~(StoreContext(r) /\ req[r].user = u),
                 ~(Refresh(r) /\ req[r].user = u),
                 ~(Save(r) /\ req[r].user = u)
          PROVE  live'[u][ctx'[u]] = Published(store'[u]) \/ Lag(u)'
      <4>1. ctx'[u] = ctx[u] /\ ctx[u] # None /\ u \notin doubled
          BY <3>2, <3>5
      <4>2. u \notin unrefreshed
          BY <1>1, <2>1, <3>5, MemoryAfter DEF Refresh
      <4>3. store'[u] = store[u]
        <5>1. CASE store' = store
            BY <5>1
        <5>2. ASSUME NEW p \in Requests, Save(p)
              PROVE  store'[u] = store[u]
          <6>1. at'[p] # at[p]
              BY <5>2 DEF Save, TypeOK
          <6>2. p = r
              BY <2>1, <6>1, OthersStay
          <6> QED
              BY <3>5, <5>2, <6>2 DEF Save, TypeOK
        <5> QED
            BY <5>1, <5>2, StoreAfter
      <4>4. CASE Lag(u)
        <5>1. PICK o \in Requests : /\ req[o].user = u
                                     /\ at[o] \in {"credentials", "refreshing"}
            BY <4>4
        <5>2. CASE o # r
            BY <2>1, <5>1, <5>2, OthersStay
        <5>3. CASE o = r
          <6>1. CASE DeleteCredential(r)
            <7>1. \/ at'[r] = "refreshing" /\ req' = req
                  \/ u \in unrefreshed'
                BY <5>1, <5>3, <6>1 DEF DeleteCredential, TypeOK
            <7> QED
                BY <1>1, <5>1, <5>3, <7>1
          <6>2. ASSUME Step(r) PROVE DeleteCredential(r) \/ Refresh(r)
              BY <5>1, <5>3, <6>2
              DEF Step, Build, StoreContext, Enter, Stage, Publish,
                  FetchFails, Load, Refused, Save, Scan, Collect,
                  PickRegistry, Permit, Run
          <6>3. ASSUME NEW w \in Users, Begin(r, w) PROVE FALSE
              BY <5>1, <5>3, <6>3 DEF Begin
          <6> QED
              BY <2>1, <3>5, <5>1, <5>3, <6>1, <6>2, <6>3
        <5> QED
            BY <5>2, <5>3
      <4>5. CASE live[u][ctx[u]] = Published(store[u])
        <5>1. CASE live' = live
            BY <4>1, <4>3, <4>5, <5>1
        <5>2. CASE Build(r)
          <6>1. PICK c \in Contexts :
                    /\ c # ctx[req[r].user]
                    /\ live' = [live EXCEPT ![req[r].user][c] =
                                  Published(store[req[r].user])]
              BY <5>2 DEF Build
          <6>2. req[r].user \in Users
              BY <5>2 DEF Build, TypeOK
          <6> QED
              BY <4>1, <4>3, <4>5, <6>1, <6>2 DEF TypeOK
        <5>3. CASE Refresh(r)
            BY <3>5, <4>1, <4>3, <4>5, <5>3 DEF Refresh, TypeOK
        <5> QED
            BY <2>1, <5>1, <5>2, <5>3, MemoryAfter
      <4> QED
          BY <4>1, <4>2, <4>4, <4>5 DEF RegistryInv
    <3> QED
        BY <3>1, <3>3, <3>4, <3>5
  <2>2. CASE Restart
      BY <1>1, <2>2 DEF Restart
  <2>3. CASE UNCHANGED vars
      BY <1>1, <2>3 DEF vars, RegistryInv
  <2>4. ASSUME NEW w \in Users, DropContext(w)
        PROVE  live'[u][ctx'[u]] = Published(store'[u]) \/ Lag(u)'
    <3>1. /\ u # w /\ ctx'[u] = ctx[u] /\ u \notin doubled
          /\ u \notin unrefreshed
        BY <1>1, <2>4 DEF DropContext, TypeOK
    <3> QED
        BY <1>1, <2>4, <3>1 DEF DropContext, RegistryInv
  <2> QED
      BY <2>1, <2>2, <2>3, <2>4 DEF Next
<1> QED
    BY <1>1, BuiltStep DEF RegistryInv

-----------------------------------------------------------------------------
(* What is switched off stays off.                                         *)

\* A user switches off when a request to disable or remove is over, and the
\* runs under way are noted then.
LEMMA OffAfter ==
    ASSUME NEW r \in Requests, Step(r)
    PROVE  /\ early \ {r} \subseteq early'
           /\ \/ off' = off
              \/ /\ SwitchedOff(r) /\ Over(r)
                 /\ off' = off \cup {req[r].user}
                 /\ Others(r) \subseteq early'
                 /\ \/ at[r] \in {"refreshing", "scanning", "collecting"}
                    \/ Refused(r)
                 /\ UNCHANGED store
<1> USE DEF request, memory, history
<1>1. ASSUME EndOff(r)
      PROVE  /\ early \ {r} \subseteq early' /\ Over(r)
             /\ \/ off' = off
                \/ /\ SwitchedOff(r) /\ off' = off \cup {req[r].user}
                   /\ Others(r) \subseteq early'
    BY <1>1 DEF EndOff, Others
<1>2. CASE Build(r) \/ StoreContext(r) \/ Enter(r) \/ Stage(r)
    BY <1>2 DEF Build, StoreContext, Enter, Stage
<1>3. CASE Publish(r) \/ Load(r) \/ FetchFails(r) \/ Save(r)
    BY <1>3 DEF Publish, Load, FetchFails, Save, End
<1>4. CASE DeleteCredential(r) \/ Run(r)
    BY <1>4 DEF DeleteCredential, Run, End
<1>5. CASE PickRegistry(r) \/ Permit(r)
    BY <1>5 DEF PickRegistry, Permit, End
<1>6. CASE Refused(r)
    BY <1>1, <1>6 DEF Refused, GoOnToEnable
<1>7. CASE Refresh(r)
    BY <1>1, <1>7 DEF Refresh, GoOnToEnable
<1>8. CASE Scan(r) \/ Collect(r)
    BY <1>1, <1>8 DEF Scan, Collect
<1> QED
    BY <1>2, <1>3, <1>4, <1>5, <1>6, <1>7, <1>8 DEF Step

\* A document to disable or to remove is off; so is one that is loaded from a
\* record that is off, unless it enables.
LEMMA LoadedOff ==
    ASSUME TypeOK, NEW r \in Requests, Load(r), JobInv(r)
    PROVE  /\ req[r].job \in {"disable", "remove"} => ~doc'[r].enabled
           /\ /\ req[r].job \notin {"configure", "enable"}
              /\ ~store[req[r].user].enabled
              => ~doc'[r].enabled
<1>1. /\ doc'[r] = Changed(req[r].job, store[req[r].user], req[r].rev)
      /\ req[r].user \in Users /\ req[r] \in Request /\ at[r] = "loading"
    BY DEF Load, TypeOK
<1>2. req[r].job \in Jobs /\ store[req[r].user] \in Skill
    BY <1>1 DEF TypeOK, Request
<1>3. CASE req[r].job = "install"
    BY <1>1, <1>3 DEF Changed, Nothing
<1>4. CASE req[r].job = "update"
    BY <1>1, <1>2, <1>4 DEF Changed, Skill
<1>5. CASE req[r].job = "disable"
    BY <1>1, <1>2, <1>5 DEF Changed, Skill
<1>6. CASE req[r].job \in {"remove", "run"}
    BY <1>1, <1>6 DEF Changed, Nothing
<1> QED
    BY <1>2, <1>3, <1>4, <1>5, <1>6 DEF Jobs

\* What a request to disable or remove has saved is still so until it ends.
LEMMA StillOff ==
    ASSUME TypeOK, LockInv, OffInv, [Next]_vars, NEW r \in Requests,
           NEW u \in Users, u \notin doubled, req[r].user = u,
           at[r] \in {"credentials", "refreshing", "scanning", "collecting"},
           req[r].job \in {"disable", "remove"}
    PROVE  ~store'[u].enabled
<1>1. ~store[u].enabled
    BY DEF OffInv
<1>2. ASSUME NEW o \in Requests, Save(o) PROVE store'[u] = store[u]
  <2>1. at[o] = "saving" /\ store' = [store EXCEPT ![req[o].user] = doc[o]]
      BY <1>2 DEF Save
  <2>2. req[o].user # u
      BY <2>1, Mutex DEF Section
  <2> QED
      BY <2>1, <2>2 DEF TypeOK
<1> QED
    BY <1>1, <1>2, StoreAfter

\* A job becomes another only from configure to enable; what follows the save
\* and the run have one way in.
LEMMA WayIn ==
    ASSUME TypeOK, NEW r \in Requests, Step(r), ~Over(r)
    PROVE  /\ \/ req'[r] = req[r]
              \/ /\ req[r].job = "configure" /\ req'[r].job = "enable"
                 /\ req'[r].user = req[r].user /\ at'[r] = "ready"
           /\ at'[r] \in {"credentials", "refreshing", "scanning",
                          "collecting"} =>
                 \/ at[r] \in {"credentials", "refreshing", "scanning",
                               "collecting"}
                 \/ Save(r)
           /\ at'[r] = "running" => Permit(r)
<1> USE DEF request, memory, history
<1>1. CASE Build(r) \/ StoreContext(r) \/ Enter(r) \/ Stage(r)
    BY <1>1 DEF Build, StoreContext, Enter, Stage, TypeOK
<1>2. CASE Publish(r) \/ Load(r) \/ Save(r) \/ Permit(r)
    BY <1>2 DEF Publish, Load, Save, Permit, End, TypeOK
<1>3. ASSUME GoOnToEnable(r)
      PROVE  /\ at'[r] = "ready" /\ req'[r].user = req[r].user
             /\ req'[r].job = "enable"
    BY <1>3, JobAfter DEF GoOnToEnable, TypeOK
<1>4. CASE Refused(r) \/ Refresh(r)
    BY <1>3, <1>4 DEF Refused, Refresh, EndOff, TypeOK
<1>5. CASE FetchFails(r) \/ DeleteCredential(r) \/ Run(r)
    BY <1>5 DEF FetchFails, DeleteCredential, Run, End, EndOff, TypeOK
<1>6. CASE Scan(r) \/ Collect(r) \/ PickRegistry(r)
    BY <1>6 DEF Scan, Collect, PickRegistry, End, EndOff, TypeOK
<1> QED
    BY <1>1, <1>2, <1>4, <1>5, <1>6 DEF Step

\* A user who has had two contexts is remembered.
LEMMA DoubledGrows ==
    ASSUME [Next]_vars
    PROVE  doubled \subseteq doubled'
<1>1. ASSUME NEW r \in Requests, Step(r) \/ \E u \in Users : Begin(r, u)
      PROVE  doubled \subseteq doubled'
    BY <1>1, MemoryAfter DEF StoreContext
<1> QED
    BY <1>1 DEF Next, DropContext, Restart, vars, history

\* No request that is under way brings back what is off.
LEMMA OffStep ==
    ASSUME TypeOK, \A r \in Requests : JobInv(r), LockInv, OffInv, StoredOff,
           [Next]_vars
    PROVE  OffInv'
<1> DEFINE After == {"credentials", "refreshing", "scanning", "collecting"}
<1> SUFFICES ASSUME NEW u \in Users, u \notin doubled',
                    NEW r \in Requests, req'[r].user = u
             PROVE  /\ /\ req'[r].job \in {"disable", "remove"}
                       /\ at'[r] \in After
                       => ~store'[u].enabled
                    /\ /\ at'[r] = "saving"
                       /\ req'[r].job \in {"disable", "remove"}
                       => ~doc'[r].enabled
                    /\ u \in off' =>
                          /\ req'[r].job \notin {"configure", "enable"}
                          /\ at'[r] = "saving" => ~doc'[r].enabled
                          /\ at'[r] = "running" => r \in early'
    BY DEF OffInv
<1>1. u \notin doubled
    BY DoubledGrows
<1>2. ASSUME NEW w \in Users, Begin(r, w)
      PROVE  /\ at'[r] \in {"building", "ready"}
             /\ u \in off' => req'[r].job \notin {"configure", "enable"}
  <2>1. PICK job \in Jobs \ {"enable"}, v \in Revisions \cup {None} :
            /\ req' = [req EXCEPT ![r] = [user |-> w, job |-> job, rev |-> v]]
            /\ job = "configure" => off' = off \ {w}
      BY <1>2 DEF Begin
  <2>2. req'[r].user = w /\ req'[r].job = job
      BY <2>1 DEF TypeOK
  <2>3. at'[r] \in {"building", "ready"}
      BY <1>2 DEF Begin, TypeOK
  <2> QED
      BY <2>1, <2>2, <2>3
<1>3. ASSUME NEW o \in Requests \ {r},
             Step(o) \/ \E w \in Users : Begin(o, w)
      PROVE  /\ /\ req'[r].job \in {"disable", "remove"}
                /\ at'[r] \in After
                => ~store'[u].enabled
             /\ /\ at'[r] = "saving"
                /\ req'[r].job \in {"disable", "remove"}
                => ~doc'[r].enabled
             /\ u \in off' =>
                   /\ req'[r].job \notin {"configure", "enable"}
                   /\ at'[r] = "saving" => ~doc'[r].enabled
                   /\ at'[r] = "running" => r \in early'
  <2>1. at'[r] = at[r] /\ req'[r] = req[r] /\ doc'[r] = doc[r]
      BY <1>3, OthersStay
  <2>2. r \in early => r \in early'
    <3>1. ASSUME NEW w \in Users, Begin(o, w) PROVE early' = early
        BY <3>1 DEF Begin
    <3> QED
        BY <1>3, <3>1, OffAfter
  <2>3. ASSUME u \in off', u \notin off
        PROVE  /\ req[r].job \notin {"configure", "enable"}
               /\ at[r] # "saving"
               /\ at[r] = "running" => r \in early'
    <3>1. ASSUME NEW w \in Users, Begin(o, w) PROVE FALSE
        BY <2>3, <3>1 DEF Begin
    <3>2. /\ SwitchedOff(o) /\ req[o].user = u /\ Others(o) \subseteq early'
          /\ at[o] \in Section
        BY <1>3, <2>3, <3>1, OffAfter DEF Refused, Section
    <3>3. r \in Others(o)
        BY <2>1, <3>2 DEF Others
    <3>4. at[r] # "saving"
        BY <1>1, <1>3, <2>1, <3>2, Mutex DEF Section
    <3> QED
        BY <3>2, <3>3, <3>4 DEF SwitchedOff
  <2> QED
      BY <1>1, <2>1, <2>2, <2>3, StillOff DEF OffInv
<1>4. ASSUME Step(r)
      PROVE  /\ /\ req'[r].job \in {"disable", "remove"}
                /\ at'[r] \in After
                => ~store'[u].enabled
             /\ /\ at'[r] = "saving"
                /\ req'[r].job \in {"disable", "remove"}
                => ~doc'[r].enabled
             /\ u \in off' =>
                   /\ req'[r].job \notin {"configure", "enable"}
                   /\ at'[r] = "saving" => ~doc'[r].enabled
                   /\ at'[r] = "running" => r \in early'
  <2>1. ~Over(r)
      BY JobAfter, NoneAssumption
  <2>2. req[r].user = u /\ off' = off
      BY <1>4, <2>1, WayIn, OffAfter
  <2>3. ASSUME req'[r].job \in {"disable", "remove"}, at'[r] \in After
        PROVE  ~store'[u].enabled
    <3>1. req'[r] = req[r]
        BY <1>4, <2>1, <2>3, WayIn
    <3>2. CASE at[r] \in After
        BY <1>1, <2>2, <2>3, <3>1, <3>2, StillOff
    <3>3. CASE Save(r)
      <4>1. at[r] = "saving" /\ store'[u] = doc[r]
          BY <2>2, <3>3 DEF Save, TypeOK
      <4> QED
          BY <1>1, <2>2, <2>3, <3>1, <4>1 DEF OffInv
    <3> QED
        BY <1>4, <2>1, <2>3, <3>2, <3>3, WayIn
  <2>4. ASSUME at'[r] = "saving"
        PROVE  /\ req'[r].job \in {"disable", "remove"} => ~doc'[r].enabled
               /\ u \in off' => ~doc'[r].enabled
    <3>1. CASE at[r] = "saving" /\ doc'[r] = doc[r] /\ req'[r] = req[r]
        BY <1>1, <2>2, <3>1 DEF OffInv
    <3>2. CASE Load(r)
      <4>1. req' = req
          BY <3>2 DEF Load, request
      <4>2. u \in off => /\ req[r].job \notin {"configure", "enable"}
                         /\ ~store[u].enabled
          BY <1>1, <2>2 DEF OffInv, StoredOff
      <4> QED
          BY <2>2, <3>2, <4>1, <4>2, LoadedOff
    <3> QED
        BY <2>4, <3>1, <3>2, SavingAfter
  <2>5. ASSUME u \in off'
        PROVE  /\ req'[r].job \notin {"configure", "enable"}
               /\ at'[r] = "running" => r \in early'
    <3>1. req[r].job \notin {"configure", "enable"} /\ ~store[u].enabled
        BY <1>1, <2>2, <2>5 DEF OffInv, StoredOff
    <3>2. req'[r] = req[r]
        BY <1>4, <2>1, <3>1, WayIn
    <3>3. at'[r] = "running" => Permit(r)
        BY <1>4, <2>1, WayIn
    <3>4. ~(at'[r] = "running" /\ Permit(r))
        BY <2>1, <2>2, <3>1 DEF Permit, End
    <3> QED
        BY <3>1, <3>2, <3>3, <3>4
  <2> QED
      BY <2>3, <2>4, <2>5
<1>5. CASE Restart
    BY <1>5, NoneAssumption DEF Restart, NoRequest
<1>6. CASE UNCHANGED vars \/ \E w \in Users : DropContext(w)
    BY <1>1, <1>6 DEF vars, DropContext, OffInv, request, history
<1> QED
    BY <1>2, <1>3, <1>4, <1>5, <1>6 DEF Next

\* What is off in the store stays off.
LEMMA StoredOffStep ==
    ASSUME TypeOK, RecordInv, OffInv, StoredOff, [Next]_vars, TypeOK'
    PROVE  StoredOff'
<1> SUFFICES ASSUME NEW u \in Users, u \in off', u \notin doubled'
             PROVE  ~store'[u].enabled
    BY DEF StoredOff, TypeOK
<1>1. u \notin doubled
    BY DoubledGrows
<1>2. CASE u \in off
  <2>1. ~store[u].enabled
      BY <1>1, <1>2 DEF StoredOff
  <2>2. ASSUME NEW r \in Requests, Save(r) PROVE ~store'[u].enabled
    <3>1. /\ at[r] = "saving" /\ req[r].user \in Users
          /\ store' = [store EXCEPT ![req[r].user] = doc[r]]
        BY <2>2 DEF Save, TypeOK
    <3>2. CASE req[r].user = u
      <4>1. ~doc[r].enabled
          BY <1>1, <1>2, <3>1, <3>2 DEF OffInv
      <4>2. store'[u] = doc[r]
          BY <3>1, <3>2 DEF TypeOK
      <4> QED
          BY <4>1, <4>2
    <3>3. CASE req[r].user # u
      <4>1. store'[u] = store[u]
          BY <3>1, <3>3 DEF TypeOK
      <4> QED
          BY <2>1, <4>1
    <3> QED
        BY <3>2, <3>3
  <2> QED
      BY <2>1, <2>2, StoreAfter
<1>3. CASE u \notin off
  <2>1. ASSUME NEW r \in Requests, NEW w \in Users, Begin(r, w) PROVE FALSE
      BY <1>3, <2>1 DEF Begin
  <2>2. ASSUME NEW r \in Requests, Step(r) PROVE ~store'[u].enabled
    <3>1. /\ SwitchedOff(r) /\ req[r].user = u /\ store' = store
          /\ at[r] \in {"refreshing", "scanning", "collecting"} \/ Refused(r)
        BY <1>3, <2>2, OffAfter
    <3>2. CASE Refused(r)
      <4>1. ~Allowed(req[r].job, store[u])
          BY <3>1, <3>2 DEF Refused
      <4>2. store[u].rev = None
          BY <3>1, <4>1 DEF Allowed, SwitchedOff
      <4> QED
          BY <3>1, <4>2 DEF RecordInv, Coherent
    <3>3. CASE at[r] \in {"refreshing", "scanning", "collecting"}
        BY <1>1, <3>1, <3>3 DEF OffInv, SwitchedOff
    <3> QED
        BY <3>1, <3>2, <3>3
  <2> QED
      BY <1>3, <2>1, <2>2 DEF Next, DropContext, Restart, vars, history
<1> QED
    BY <1>2, <1>3

-----------------------------------------------------------------------------
(* The theorems.                                                           *)

Inv == /\ TypeOK
       /\ \A r \in Requests : JobInv(r)
       /\ RecordInv
       /\ ArtifactInv
       /\ LockInv
       /\ RegistryInv
       /\ OffInv
       /\ StoredOff

\* The server starts with nothing installed and no request.
LEMMA InitInv == Init => Inv
<1> SUFFICES ASSUME Init PROVE Inv
    OBVIOUS
<1>1. TypeOK
    BY GivenAssumption DEF Init, TypeOK, NoContext, NoRequest, Nothing,
       Request, Skill, Jobs, Places
<1>2. \A r \in Requests : JobInv(r)
    BY DEF Init, JobInv, NoRequest, Section
<1>3. RecordInv
    BY DEF Init, RecordInv, Coherent, Nothing
<1>4. ArtifactInv
    BY DEF Init, ArtifactInv, Pending, Nothing
<1>5. LockInv
    BY DEF Init, LockInv, Section
<1>6. RegistryInv
    BY DEF Init, RegistryInv
<1>7. OffInv /\ StoredOff
    BY NoneAssumption DEF Init, OffInv, StoredOff, NoRequest
<1> QED
    BY <1>1, <1>2, <1>3, <1>4, <1>5, <1>6, <1>7 DEF Inv

\* Every step of the server keeps the invariant.
LEMMA NextInv == Inv /\ [Next]_vars => Inv'
<1> SUFFICES ASSUME Inv, [Next]_vars PROVE Inv'
    OBVIOUS
<1> USE DEF Inv
<1>1. TypeOK'
    BY TypeStep
<1>2. \A r \in Requests : JobInv(r)'
    BY JobStep
<1>3. RecordInv' /\ ArtifactInv'
    BY RecordStep, ArtifactStep
<1>4. LockInv' /\ RegistryInv'
    BY LockStep, RegistryStep
<1>5. OffInv' /\ StoredOff'
    BY <1>1, OffStep, StoredOffStep
<1> QED
    BY <1>1, <1>2, <1>3, <1>4, <1>5

\* The invariant holds of every state of the server.
THEOREM Invariance == Spec => []Inv
BY InitInv, NextInv, PTL DEF Spec

\* The records, contexts, locks and requests keep their types through every
\* lifecycle operation and restart (runtime_lifecycle.py, server.py).
THEOREM TypeCorrect == Spec => []TypeOK
<1>1. Inv => TypeOK
    BY DEF Inv
<1> QED
    BY <1>1, Invariance, PTL

\* The store never says enabled of a skill that is not configured or not
\* installed (lifecycle.py enable, store.py replace_qualified_descriptor).
THEOREM EnabledIsConfigured == Spec => []EnabledMeansConfigured
<1>1. Inv => EnabledMeansConfigured
    BY DEF Inv, RecordInv, Coherent, EnabledMeansConfigured
<1> QED
    BY <1>1, Invariance, PTL

\* Garbage collection takes no artifact that a user's record points to, but
\* for the clash it does not lock out (strip_json_comments.py
\* _garbage_collect_if_unreferenced).
THEOREM ArtifactsExist == Spec => []RecordedArtifactsExist
<1>1. Inv => RecordedArtifactsExist
    BY DEF Inv, ArtifactInv, RecordedArtifactsExist
<1> QED
    BY <1>1, Invariance, PTL

\* A registry that turns run from is up to date whenever its lock is free
\* (runtime_lifecycle.py, server.py refresh_user_external_lifecycle).
THEOREM RegistryIsCurrent == Spec => []LiveRegistryIsCurrent
<1>1. Inv => LiveRegistryIsCurrent
  <2> SUFFICES ASSUME Inv, NEW u \in Users, ctx[u] # None,
                      lock[u][ctx[u]] = None,
                      u \notin doubled, u \notin unrefreshed
               PROVE  live[u][ctx[u]] = Published(store[u])
      BY DEF LiveRegistryIsCurrent
  <2>1. ASSUME NEW r \in Requests, req[r].user = u,
               at[r] \in {"credentials", "refreshing"}
        PROVE  FALSE
    <3>1. lock[u][using[r]] = r /\ using[r] = ctx[u]
        BY <2>1 DEF Inv, LockInv, Section
    <3> QED
        BY <3>1, NoneAssumption
  <2> QED
      BY <2>1 DEF Inv, RegistryInv
<1> QED
    BY <1>1, Invariance, PTL

\* A skill that is switched off is not brought back or run by what was under
\* way (lifecycle.py disable and remove, strip_json_comments.py update).
THEOREM SwitchedOffStaysOff == Spec => []OffStaysOff
<1>1. Inv => OffStaysOff
    BY DEF Inv, TypeOK, OffInv, StoredOff, OffStaysOff
<1> QED
    BY <1>1, Invariance, PTL

-----------------------------------------------------------------------------
(* No update is lost.                                                      *)

\* What is about to be saved was made from the record there still is.
ApplyInv ==
    \A r \in Requests : at[r] = "saving" /\ req[r].user \notin doubled =>
        /\ Allowed(req[r].job, store[req[r].user])
        /\ doc[r] = Changed(req[r].job, store[req[r].user], req[r].rev)

\* Request r makes of u's record what its job makes of the record there is.
Applied(r, u) ==
    /\ req[r].user = u /\ at[r] = "saving"
    /\ Allowed(req[r].job, store[u])
    /\ store'[u] = Changed(req[r].job, store[u], req[r].rev)

\* Between the load and the save of a request nobody else saves.
LEMMA ApplyStep == Inv /\ ApplyInv /\ [Next]_vars => ApplyInv'
<1> SUFFICES ASSUME Inv, ApplyInv, [Next]_vars,
                    NEW r \in Requests, at'[r] = "saving",
                    req'[r].user \notin doubled'
             PROVE  /\ Allowed(req'[r].job, store'[req'[r].user])
                    /\ doc'[r] = Changed(req'[r].job, store'[req'[r].user],
                                         req'[r].rev)
    BY DEF ApplyInv
<1>1. TypeOK /\ LockInv
    BY DEF Inv
<1>2. req'[r].user \notin doubled
    BY DoubledGrows
<1>3. CASE at[r] = "saving" /\ doc'[r] = doc[r] /\ req'[r] = req[r]
  <2>1. ASSUME NEW o \in Requests, Save(o)
        PROVE  store'[req[r].user] = store[req[r].user]
    <3>1. /\ at[o] = "saving" /\ at'[o] # "saving"
          /\ store' = [store EXCEPT ![req[o].user] = doc[o]]
        BY <1>1, <2>1 DEF Save, TypeOK
    <3>2. req[o].user # req[r].user
        BY <1>1, <1>2, <1>3, <3>1, Mutex DEF Section
    <3> QED
        BY <1>1, <3>1, <3>2 DEF TypeOK
  <2>2. store'[req[r].user] = store[req[r].user]
      BY <1>1, <2>1, StoreAfter
  <2> QED
      BY <1>2, <1>3, <2>2 DEF ApplyInv
<1>4. CASE Load(r)
  <2>1. /\ Allowed(req[r].job, store[req[r].user])
        /\ doc' = [doc EXCEPT ![r] = Changed(req[r].job, store[req[r].user],
                                             req[r].rev)]
        /\ store' = store /\ req' = req
      BY <1>4 DEF Load
  <2>2. doc'[r] = Changed(req[r].job, store[req[r].user], req[r].rev)
      BY <1>1, <2>1 DEF TypeOK
  <2> QED
      BY <2>1, <2>2
<1> QED
    BY <1>1, <1>3, <1>4, SavingAfter

\* Although the store is a document that is loaded, changed and written back,
\* no operation of a user with one context is lost or works on a record that
\* is no longer there: each save is the operation itself, on the record of
\* that moment (runtime_lifecycle.py, store.py).
THEOREM SavesAreOperations ==
    Spec => [][\A u \in Users \ doubled :
                  store'[u] = store[u] \/ \E r \in Requests : Applied(r, u)
              ]_vars
<1>1. Init => ApplyInv
    BY DEF Init, ApplyInv
<1>2. Spec => []ApplyInv
    BY <1>1, ApplyStep, Invariance, PTL DEF Spec
<1>3. Inv /\ ApplyInv /\ [Next]_vars =>
          [\A u \in Users \ doubled :
              store'[u] = store[u] \/ \E r \in Requests : Applied(r, u)]_vars
  <2> SUFFICES ASSUME TypeOK, ApplyInv, [Next]_vars,
                      NEW u \in Users \ doubled, store'[u] # store[u]
               PROVE  \E r \in Requests : Applied(r, u)
      BY DEF Inv
  <2>1. PICK r \in Requests : Save(r)
      BY StoreAfter
  <2>2. /\ at[r] = "saving"
        /\ store' = [store EXCEPT ![req[r].user] = doc[r]]
      BY <2>1 DEF Save
  <2>3. req[r].user = u /\ store'[u] = doc[r]
      BY <2>2 DEF TypeOK
  <2> QED
      BY <2>2, <2>3 DEF ApplyInv, Applied
<1> QED
    BY <1>2, <1>3, Invariance, PTL DEF Spec

=============================================================================
