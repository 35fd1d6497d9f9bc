--------------------------- MODULE SkillPackages ---------------------------
(***************************************************************************)
(* The lifecycle of an installable skill (external/runtime_lifecycle.py,   *)
(* external/packages/strip_json_comments.py), asked for in a user's        *)
(* messages, and the turns that run the skill meanwhile.                   *)
(*                                                                         *)
(* Each user has a record of the skill in a file of the user's own, and    *)
(* one context in the server's memory, with a lock and with the registry   *)
(* that turns run from.  The artifacts the records point to are in one     *)
(* cache that all users share and nobody locks.                            *)
(*                                                                         *)
(* A request is one /ask.  A user has two contexts, with a lock and a      *)
(* registry each, when two requests begin before either has stored its     *)
(* own, and when the user's context is dropped while a request works in    *)
(* it.                                                                     *)
(*                                                                         *)
(* The reviewed descriptors always qualify, and nothing in the server      *)
(* reports health or authenticates a skill: a record is its revision and   *)
(* whether it is configured and enabled.                                   *)
(***************************************************************************)
EXTENDS Naturals

CONSTANTS
    Users,
    Requests,       \* requests the server works on at a time
    Contexts,       \* a user's contexts; one for each request are enough
    Revisions,      \* reviewed revisions of the package
    None,
    MaxGiven        \* bound: requests received

ASSUME NoneAssumption ==
    None \notin Revisions \cup Users \cup Requests \cup Contexts

ASSUME GivenAssumption == MaxGiven \in Nat

VARIABLES
    store,      \* store[u]: u's record, in external_capabilities.json
    cache,      \* revisions whose artifact is in external_artifact_cache
    ctx,        \* ctx[u]: u's context in _user_contexts
    live,       \* live[u][c]: what the registry of context c publishes
    lock,       \* lock[u][c]: who holds external_lifecycle_lock of c
    req,        \* req[r]: what request r is asked for
    at,         \* at[r]: where it is
    using,      \* using[r]: the context it works in
    prior,      \* prior[r]: the revision that was recorded before
    doc,        \* doc[r]: the record it will save
    doubled,    \* history: users who have had two contexts at a time
    early,      \* history: runs under way when their user switched it off
    unrefreshed,    \* history: users whose last removal failed half way
    off,        \* history: users who have last switched the skill off
    clashed,    \* history: revisions collected while one was to record it
    given       \* how many requests have been received

request == <<req, at, using, prior, doc>>
memory  == <<ctx, live, lock>>
history == <<doubled, early, unrefreshed, off, clashed>>

vars == <<store, cache, memory, request, history, given>>

-----------------------------------------------------------------------------
Skill == [rev : Revisions \cup {None}, configured : BOOLEAN,
          enabled : BOOLEAN]

Nothing == [rev |-> None, configured |-> FALSE, enabled |-> FALSE]

\* The message "enable skill" is the job configure and then the job enable.
Jobs == {"install", "update", "remove", "configure", "enable", "disable",
         "run"}

Places == {"idle", "building", "built", "ready", "staging", "fetching",
           "loading", "saving", "credentials", "refreshing", "scanning",
           "collecting", "permitting", "running"}

\* rev: the revision to install.
Request == [user : Users \cup {None}, job : Jobs,
            rev : Revisions \cup {None}]

NoRequest == [user |-> None, job |-> "run", rev |-> None]

TypeOK ==
    /\ store \in [Users -> Skill]
    /\ cache \subseteq Revisions
    /\ ctx \in [Users -> Contexts \cup {None}]
    /\ live \in [Users -> [Contexts -> Revisions \cup {None}]]
    /\ lock \in [Users -> [Contexts -> Requests \cup {None}]]
    /\ req \in [Requests -> Request]
    /\ at \in [Requests -> Places]
    /\ using \in [Requests -> Contexts \cup {None}]
    /\ prior \in [Requests -> Revisions \cup {None}]
    /\ doc \in [Requests -> Skill]
    /\ \A r \in Requests :
          /\ at[r] # "idle" => req[r].user \in Users
          /\ at[r] \notin {"idle", "building"} => using[r] \in Contexts
    /\ doubled \subseteq Users
    /\ early \subseteq Requests
    /\ unrefreshed \subseteq Users
    /\ off \subseteq Users
    /\ clashed \subseteq Revisions
    /\ given \in 0..MaxGiven

NoContext == [u \in Users |-> [c \in Contexts |-> None]]

Init ==
    /\ store = [u \in Users |-> Nothing]
    /\ cache = {}
    /\ ctx = [u \in Users |-> None]
    /\ live = NoContext
    /\ lock = NoContext
    /\ req = [r \in Requests |-> NoRequest]
    /\ at = [r \in Requests |-> "idle"]
    /\ using = [r \in Requests |-> None]
    /\ prior = [r \in Requests |-> None]
    /\ doc = [r \in Requests |-> Nothing]
    /\ doubled = {}
    /\ early = {}
    /\ unrefreshed = {}
    /\ off = {}
    /\ clashed = {}
    /\ given = 0

-----------------------------------------------------------------------------
(* Requests and contexts.                                                  *)

\* What publish() registers of a record.
Published(skill) == IF skill.enabled THEN skill.rev ELSE None

\* A message with a lifecycle command, or a turn that runs the skill.
Begin(r, u) ==
    /\ at[r] = "idle"
    /\ given < MaxGiven
    /\ given' = given + 1
    /\ \E job \in Jobs \ {"enable"}, v \in Revisions :
          /\ req' = [req EXCEPT ![r] =
                [user |-> u, job |-> job,
                 rev |-> IF job \in {"install", "update"} THEN v ELSE None]]
          /\ off' = IF job = "configure" THEN off \ {u} ELSE off
    /\ at' = [at EXCEPT ![r] = IF ctx[u] = None THEN "building" ELSE "ready"]
    /\ using' = [using EXCEPT ![r] = ctx[u]]
    /\ UNCHANGED <<store, cache, memory, prior, doc, doubled, early,
                   unrefreshed, clashed>>

\* The other requests of r's user.
Others(r) == {o \in Requests \ {r} : req[o].user = req[r].user}

\* _build_user_context() makes a context of its own, and publishes in it what
\* is enabled in the store.
Build(r) ==
    LET u == req[r].user IN
    /\ at[r] = "building"
    /\ \E c \in Contexts :
          /\ c # ctx[u] /\ \A o \in Others(r) : using[o] # c
          /\ live' = [live EXCEPT ![u][c] = Published(store[u])]
          /\ using' = [using EXCEPT ![r] = c]
    /\ at' = [at EXCEPT ![r] = "built"]
    /\ UNCHANGED <<store, cache, ctx, lock, req, prior, doc, history, given>>

\* _get_user_context() stores the context, over another one or not.
StoreContext(r) ==
    LET u == req[r].user IN
    /\ at[r] = "built"
    /\ ctx' = [ctx EXCEPT ![u] = using[r]]
    /\ doubled' = IF ctx[u] = None THEN doubled ELSE doubled \cup {u}
    /\ at' = [at EXCEPT ![r] = "ready"]
    /\ UNCHANGED <<store, cache, live, lock, req, using, prior, doc, early,
                   unrefreshed, off, clashed, given>>

\* The user changes the mode or the active brain: the context is dropped, and
\* the next request builds another one, whoever still works in this one.
DropContext(u) ==
    /\ ctx[u] # None
    /\ ctx' = [ctx EXCEPT ![u] = None]
    /\ doubled' = IF \E r \in Requests : req[r].user = u
                  THEN doubled \cup {u} ELSE doubled
    /\ unrefreshed' = unrefreshed \ {u}
    /\ UNCHANGED <<store, cache, live, lock, request, early, off, clashed,
                   given>>

\* The locks when r has left the one it may hold.
Released(r) ==
    LET u == req[r].user
        c == using[r]
    IN  IF lock[u][c] = r THEN [lock EXCEPT ![u][c] = None] ELSE lock

Over(r) ==
    /\ lock' = Released(r)
    /\ req' = [req EXCEPT ![r] = NoRequest]
    /\ at' = [at EXCEPT ![r] = "idle"]
    /\ using' = [using EXCEPT ![r] = None]
    /\ prior' = [prior EXCEPT ![r] = None]
    /\ doc' = [doc EXCEPT ![r] = Nothing]

\* Request r is over.
End(r) ==
    /\ Over(r)
    /\ early' = early \ {r}

\* A request to disable or to remove has done so.  Nobody says that the
\* skill is off while a request to enable it is under way.
SwitchedOff(r) ==
    /\ req[r].job \in {"disable", "remove"}
    /\ \A o \in Others(r) : req[o].job \notin {"configure", "enable"}

EndOff(r) ==
    /\ Over(r)
    /\ \/ /\ SwitchedOff(r)
          /\ off' = off \cup {req[r].user}
          /\ early' = (early \cup Others(r)) \ {r}
       \/ /\ ~SwitchedOff(r)
          /\ early' = early \ {r}
          /\ UNCHANGED off

-----------------------------------------------------------------------------
(* A lifecycle operation, under the lock of the request's context.         *)

\* Mutant: update_and_refresh() does not take the lock.
EnterUpdatesFree(r) ==
    LET u == req[r].user
        c == using[r]
        free == req[r].job = "update"
    IN
    /\ at[r] = "ready" /\ req[r].job # "run"
    /\ lock[u][c] = None \/ free
    /\ lock' = IF free THEN lock ELSE [lock EXCEPT ![u][c] = r]
    /\ at' = [at EXCEPT ![r] = IF req[r].job \in {"install", "update"}
                               THEN "staging" ELSE "loading"]
    /\ prior' = [prior EXCEPT ![r] = IF req[r].job \in {"update", "remove"}
                                     THEN store[u].rev ELSE None]
    /\ UNCHANGED <<store, cache, ctx, live, req, using, doc, history, given>>

\* The lock is free; update and remove read the record they will replace.
Enter(r) ==
    LET u == req[r].user
        c == using[r]
    IN
    /\ at[r] = "ready" /\ req[r].job # "run"
    /\ lock[u][c] = None
    /\ lock' = [lock EXCEPT ![u][c] = r]
    /\ at' = [at EXCEPT ![r] = IF req[r].job \in {"install", "update"}
                               THEN "staging" ELSE "loading"]
    /\ prior' = [prior EXCEPT ![r] = IF req[r].job \in {"update", "remove"}
                                     THEN store[u].rev ELSE None]
    /\ UNCHANGED <<store, cache, ctx, live, req, using, doc, history, given>>

\* Somebody has found the artifact of v unreferenced and will delete it.
BeingCollected(v) ==
    \E o \in Requests : at[o] = "collecting" /\ prior[o] = v

\* stage_install(): an artifact that is in the cache is taken as it is.
Stage(r) ==
    /\ at[r] = "staging"
    /\ \/ /\ req[r].rev \in cache
          /\ at' = [at EXCEPT ![r] = "loading"]
          /\ clashed' = IF BeingCollected(req[r].rev)
                        THEN clashed \cup {req[r].rev} ELSE clashed
       \/ /\ req[r].rev \notin cache
          /\ at' = [at EXCEPT ![r] = "fetching"]
          /\ UNCHANGED clashed
    /\ UNCHANGED <<store, cache, memory, req, using, prior, doc, doubled,
                   early, unrefreshed, off, given>>

\* npm is done, and the staging directory becomes the artifact.
Publish(r) ==
    /\ at[r] = "fetching"
    /\ req[r].rev \notin cache
    /\ cache' = cache \cup {req[r].rev}
    /\ at' = [at EXCEPT ![r] = "loading"]
    /\ clashed' = IF BeingCollected(req[r].rev)
                  THEN clashed \cup {req[r].rev} ELSE clashed
    /\ UNCHANGED <<store, memory, req, using, prior, doc, doubled, early,
                   unrefreshed, off, given>>

\* npm fails; or somebody else has published the artifact meanwhile, and the
\* rename onto a directory that is not empty fails with another error than
\* the FileExistsError that is caught.
FetchFails(r) ==
    /\ at[r] = "fetching"
    /\ End(r)
    /\ UNCHANGED <<store, cache, ctx, live, doubled, unrefreshed, off,
                   clashed, given>>

\* Mutant: enable() asks for the qualification only.
AllowedIfQualified(job, skill) ==
    job \in {"install", "update"} \/ skill.rev # None

\* There is a record to change; enable() insists on configuration.
Allowed(job, skill) ==
    \/ job \in {"install", "update"}
    \/ skill.rev # None /\ (job = "enable" => skill.configured)

\* Mutant: update rebuilds the record, and leaves a field out.
ChangedByParts(job, skill, v) ==
    CASE job = "install"   -> [Nothing EXCEPT !.rev = v]
      [] job = "update"    ->
            [rev |-> v, enabled |-> IF skill.configured THEN skill.enabled
                                                        ELSE FALSE]
      [] job = "configure" -> [skill EXCEPT !.configured = TRUE]
      [] job = "enable"    -> [skill EXCEPT !.enabled = TRUE]
      [] job = "disable"   -> [skill EXCEPT !.enabled = FALSE]
      [] OTHER             -> Nothing

\* The record that replaces skill.
Changed(job, skill, v) ==
    CASE job = "install"   -> [Nothing EXCEPT !.rev = v]
      [] job = "update"    ->
            [skill EXCEPT !.rev = v,
                          !.enabled = IF skill.configured THEN @ ELSE FALSE]
      [] job = "configure" -> [skill EXCEPT !.configured = TRUE]
      [] job = "enable"    -> [skill EXCEPT !.enabled = TRUE]
      [] job = "disable"   -> [skill EXCEPT !.enabled = FALSE]
      [] OTHER             -> Nothing

\* The store loads the document and changes the record in it.
Load(r) ==
    LET skill == store[req[r].user] IN
    /\ at[r] = "loading"
    /\ Allowed(req[r].job, skill)
    /\ doc' = [doc EXCEPT ![r] = Changed(req[r].job, skill, req[r].rev)]
    /\ at' = [at EXCEPT ![r] = "saving"]
    /\ UNCHANGED <<store, cache, memory, req, using, prior, history, given>>

\* configure is done, and enable takes the lock anew.
GoOnToEnable(r) ==
    /\ lock' = [lock EXCEPT ![req[r].user][using[r]] = None]
    /\ req' = [req EXCEPT ![r].job = "enable"]
    /\ at' = [at EXCEPT ![r] = "ready"]
    /\ doc' = [doc EXCEPT ![r] = Nothing]
    /\ UNCHANGED <<using, prior, early, off>>

\* There is nothing to change, or enable() raises.
Refused(r) ==
    /\ at[r] = "loading"
    /\ ~Allowed(req[r].job, store[req[r].user])
    /\ \/ /\ req[r].job = "configure"
          /\ GoOnToEnable(r)
       \/ /\ req[r].job # "configure"
          /\ EndOff(r)
    /\ UNCHANGED <<store, cache, ctx, live, doubled, unrefreshed, clashed,
                   given>>

\* The whole document replaces the file.
Save(r) ==
    /\ at[r] = "saving"
    /\ store' = [store EXCEPT ![req[r].user] = doc[r]]
    /\ at' = [at EXCEPT ![r] = IF req[r].job = "remove"
                               THEN "credentials" ELSE "refreshing"]
    /\ UNCHANGED <<cache, memory, req, using, prior, doc, history, given>>

\* remove() deletes the credential after the record.  When that fails the
\* exception leaves both critical sections: nothing is refreshed.
DeleteCredential(r) ==
    /\ at[r] = "credentials"
    /\ \/ /\ at' = [at EXCEPT ![r] = "refreshing"]
          /\ UNCHANGED <<lock, req, using, prior, doc, early, unrefreshed>>
       \/ /\ unrefreshed' = unrefreshed \cup {req[r].user}
          /\ End(r)
    /\ UNCHANGED <<store, cache, ctx, live, doubled, off, clashed, given>>

\* Mutant: only what switches the skill on or off refreshes the registry.
RefreshOnSwitch(r) ==
    LET u == req[r].user IN
    /\ at[r] = "refreshing"
    /\ live' = IF req[r].job \in {"enable", "disable"}
               THEN [live EXCEPT ![u][using[r]] = Published(store[u])]
               ELSE live
    /\ unrefreshed' = unrefreshed \ {u}
    /\ \/ /\ req[r].job \in {"update", "remove"}
          /\ at' = [at EXCEPT ![r] = "scanning"]
          /\ UNCHANGED <<lock, req, using, prior, doc, early, off>>
       \/ /\ req[r].job = "configure"
          /\ GoOnToEnable(r)
       \/ /\ req[r].job \in {"install", "enable", "disable"}
          /\ EndOff(r)
    /\ UNCHANGED <<store, cache, ctx, doubled, clashed, given>>

\* refresh_user_external_lifecycle(): a new registry takes the place of the
\* context's.
Refresh(r) ==
    LET u == req[r].user IN
    /\ at[r] = "refreshing"
    /\ live' = [live EXCEPT ![u][using[r]] = Published(store[u])]
    /\ unrefreshed' = unrefreshed \ {u}
    /\ \/ /\ req[r].job \in {"update", "remove"}
          /\ at' = [at EXCEPT ![r] = "scanning"]
          /\ UNCHANGED <<lock, req, using, prior, doc, early, off>>
       \/ /\ req[r].job = "configure"
          /\ GoOnToEnable(r)
       \/ /\ req[r].job \in {"install", "enable", "disable"}
          /\ EndOff(r)
    /\ UNCHANGED <<store, cache, ctx, doubled, clashed, given>>

\* Mutant: only the user's own file is looked at.
ReferencedByUser(r) == store[req[r].user].rev = prior[r]

\* _artifact_is_referenced(), over the files of all users.
Referenced(r) == \E u \in Users : store[u].rev = prior[r]

\* The revision that request o is about to have recorded.
Pending(o) ==
    CASE at[o] = "loading" /\ req[o].job \in {"install", "update"} ->
            req[o].rev
      [] at[o] = "saving" -> doc[o].rev
      [] OTHER -> None

\* _garbage_collect_if_unreferenced(): the look at the files.
Scan(r) ==
    /\ at[r] = "scanning"
    /\ \/ /\ prior[r] = None \/ Referenced(r)
          /\ EndOff(r)
          /\ UNCHANGED clashed
       \/ /\ prior[r] # None /\ ~Referenced(r)
          /\ at' = [at EXCEPT ![r] = "collecting"]
          /\ clashed' = IF \E o \in Requests : Pending(o) = prior[r]
                        THEN clashed \cup {prior[r]} ELSE clashed
          /\ UNCHANGED <<lock, req, using, prior, doc, early, off>>
    /\ UNCHANGED <<store, cache, ctx, live, doubled, unrefreshed, given>>

\* The artifact is deleted.
Collect(r) ==
    /\ at[r] = "collecting"
    /\ cache' = cache \ {prior[r]}
    /\ EndOff(r)
    /\ UNCHANGED <<store, ctx, live, doubled, unrefreshed, clashed, given>>

-----------------------------------------------------------------------------
(* A turn that runs the skill.                                             *)

\* The turn takes the registry as it is now; a skill that is not in it is
\* not run.
PickRegistry(r) ==
    LET v == live[req[r].user][using[r]] IN
    /\ at[r] = "ready" /\ req[r].job = "run"
    /\ \/ /\ v = None
          /\ End(r)
       \/ /\ v # None
          /\ at' = [at EXCEPT ![r] = "permitting"]
          /\ UNCHANGED <<lock, req, using, prior, doc, early>>
    /\ UNCHANGED <<store, cache, ctx, live, doubled, unrefreshed, off,
                   clashed, given>>

\* The permission resolver reads the store again, not the registry.
Permit(r) ==
    /\ at[r] = "permitting"
    /\ \/ /\ ~store[req[r].user].enabled
          /\ End(r)
       \/ /\ store[req[r].user].enabled
          /\ at' = [at EXCEPT ![r] = "running"]
          /\ UNCHANGED <<lock, req, using, prior, doc, early>>
    /\ UNCHANGED <<store, cache, ctx, live, doubled, unrefreshed, off,
                   clashed, given>>

\* The handler has run the artifact, or has found it gone.
Run(r) ==
    /\ at[r] = "running"
    /\ End(r)
    /\ UNCHANGED <<store, cache, ctx, live, doubled, unrefreshed, off,
                   clashed, given>>

-----------------------------------------------------------------------------
\* The server is restarted: the files and the cache are what is left.
Restart ==
    /\ ctx' = [u \in Users |-> None]
    /\ live' = NoContext
    /\ lock' = NoContext
    /\ req' = [r \in Requests |-> NoRequest]
    /\ at' = [r \in Requests |-> "idle"]
    /\ using' = [r \in Requests |-> None]
    /\ prior' = [r \in Requests |-> None]
    /\ doc' = [r \in Requests |-> Nothing]
    /\ early' = {}
    /\ unrefreshed' = {}
    /\ UNCHANGED <<store, cache, doubled, off, clashed, given>>

Step(r) ==
    \/ Build(r)
    \/ StoreContext(r)
    \/ Enter(r)
    \/ Stage(r)
    \/ Publish(r)
    \/ FetchFails(r)
    \/ Load(r)
    \/ Refused(r)
    \/ Save(r)
    \/ DeleteCredential(r)
    \/ Refresh(r)
    \/ Scan(r)
    \/ Collect(r)
    \/ PickRegistry(r)
    \/ Permit(r)
    \/ Run(r)

Next ==
    \/ \E r \in Requests : Step(r) \/ \E u \in Users : Begin(r, u)
    \/ \E u \in Users : DropContext(u)
    \/ Restart

Spec == Init /\ [][Next]_vars

-----------------------------------------------------------------------------
(* Properties.                                                             *)

\* enabled is "the product of a deliberate, explicit operator action (detect
\* -> qualify -> configure -> enable, each a separate step LifecycleController
\* refuses to skip)" (permission_binding.py:6-9), although the message that
\* enables leaves the lock after configure, and others may reinstall.
EnabledMeansConfigured ==
    \A u \in Users :
        store[u].enabled => store[u].configured /\ store[u].rev # None

\* When nobody is inside a lifecycle operation the user's registry publishes
\* what the store says, after a restart too; unless there were two contexts,
\* or the last removal failed on the credential.
LiveRegistryIsCurrent ==
    \A u \in Users :
        /\ ctx[u] # None
        /\ lock[u][ctx[u]] = None
        /\ u \notin doubled
        /\ u \notin unrefreshed
        => live[u][ctx[u]] = Published(store[u])

\* The artifact of a record is in the cache ("collect only unreferenced cache
\* data", strip_json_comments.py:293): no other user's removal or update takes
\* it away, unless it was collected while a request that had staged it, or
\* loaded its record, was about to save.
RecordedArtifactsExist ==
    \A u \in Users : store[u].rev \in cache \cup clashed \cup {None}

\* Once a user has switched the skill off, and until the user asks to enable
\* it, no operation brings it back, an update that was under way included,
\* and only turns that were under way may still run it; unless there were two
\* contexts.
OffStaysOff ==
    \A u \in off \ doubled :
        /\ ~store[u].enabled
        /\ \A r \in Requests :
              req[r].user = u /\ at[r] = "running" => r \in early

=============================================================================
