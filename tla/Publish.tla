------------------------------- MODULE Publish -------------------------------
(***************************************************************************)
(* Publishing of one website: the publish and rollback requests, the lock  *)
(* they take, the background goroutine that runs a deployment, the tables  *)
(* it writes, the directory the site is served from and the git repository *)
(* it is pushed to (internal/publish, internal/httpapi/handlers_publish).  *)
(*                                                                         *)
(* Lock key, site directory and settings row are keyed by the website, and *)
(* so is the name of a repository it creates.  Only a repository that is   *)
(* typed into the settings can be pushed to by others: another website, or *)
(* a person.  They are actors of their own; one website is enough.         *)
(*                                                                         *)
(* A draft stands for everything a build renders: pages, sections, media   *)
(* and the website's name.  Rows of content_snapshots are never updated or *)
(* deleted, so a snapshot id is replaced by the snapshot it names.  Time   *)
(* is a Tick that ages every timer by one unit.                            *)
(***************************************************************************)
EXTENDS Naturals, Sequences, FiniteSets

CONSTANTS
  Deployments,      \* rows the deployments table can get (a bound)
  Requests,         \* HTTP requests served at the same time
  Drafts,           \* versions of the website's content, its name included
  Blank,            \* the drafts that have no visible page
  Repos,            \* GitHub repositories
  RepoName,         \* the repository derived from the name a draft carries
  TypedRepos,       \* those an administrator types into the settings form
  OtherDrafts,      \* content that others push to a repository
  OtherPushes,      \* how many commits of theirs a branch gets (a bound)
  Nil,
  LockTTL,          \* lockTTL
  PublishTimeout,   \* publishTimeout
  InsertDelay,      \* longest time a request keeps the lock before its worker
  Overrun,          \* longest a worker runs on once its context has expired
  SharedCache,      \* TRUE: Redis, several processes; FALSE: in-process cache
  UseGitHub,        \* GITHUB_TOKEN and GITHUB_OWNER are set
  UseCloudflare,    \* ... and the Cloudflare settings are
  Faults            \* what may go wrong, see FaultKinds

FaultKinds == {"db", "cache", "client", "io", "git", "pages", "crash"}

ASSUME PublishAssumption ==
  /\ Blank \subseteq Drafts
  /\ RepoName \in [Drafts -> Repos]
  /\ TypedRepos \subseteq Repos
  /\ OtherDrafts \subseteq Drafts
  /\ OtherPushes \in Nat
  /\ Nil \notin Drafts \cup Repos
  /\ LockTTL \in Nat \ {0}
  /\ PublishTimeout \in Nat \ {0}
  /\ InsertDelay \in Nat
  /\ Overrun \in Nat
  /\ {SharedCache, UseGitHub, UseCloudflare} \subseteq BOOLEAN
  /\ Faults \subseteq FaultKinds

VARIABLES
  website,      \* the websites row: its draft content and github_repo setting
  lock,         \* remaining life of deploylock:<id>, 0 when the key is absent
  deployments,  \* the deployments table
  requests,     \* the requests inside StartPublish
  workers,      \* the goroutine of each deployment
  site,         \* the draft var/sites/<id> shows in full, Nil when none
  commits       \* the main branch of each repository

vars == <<website, lock, deployments, requests, workers, site, commits>>

Snapshot == [draft : Drafts, repo : Repos \cup {Nil}]
\* ours: made by this website's publisher.
Commit == [draft : Drafts, ours : BOOLEAN, pages : {"building", "live", "failed"}]

Status == {"none", "queued", "building", "deploying", "succeeded", "failed"}
Final == {"succeeded", "failed"}

Row == [status : Status, snap : Snapshot \cup {Nil},
        repo : Repos \cup {Nil}, commit : Nat]

RequestPC == {"idle", "lock", "insert", "unlock"}
Request == [pc : RequestPC, snap : Snapshot \cup {Nil}, wait : 0..InsertDelay]

WorkerPC == {"none", "start", "build", "clear", "write", "deploy", "save",
             "clone", "push", "record", "await", "finish", "fail", "release",
             "done", "dead"}
Worker == [pc : WorkerPC, budget : 0..PublishTimeout, over : 0..Overrun,
           head : Nat, hash : Nat]

TypeOK ==
  /\ website \in Snapshot
  /\ lock \in 0..LockTTL
  /\ deployments \in [Deployments -> Row]
  /\ requests \in [Requests -> Request]
  /\ workers \in [Deployments -> Worker]
  /\ site \in Drafts \cup {Nil}
  /\ commits \in [Repos -> Seq(Commit)]

\* A goroutine not started yet, or ended, has no state of its own.
NoWorker(pc) == [pc |-> pc, budget |-> 0, over |-> 0, head |-> 0, hash |-> 0]

Idle == [pc |-> "idle", snap |-> Nil, wait |-> 0]

Init ==
  /\ website \in [draft : Drafts, repo : {Nil}]
  /\ lock = 0
  /\ deployments = [d \in Deployments |->
       [status |-> "none", snap |-> Nil, repo |-> Nil, commit |-> 0]]
  /\ requests = [r \in Requests |-> Idle]
  /\ workers = [d \in Deployments |-> NoWorker("none")]
  /\ site = Nil
  /\ commits = [r \in Repos |-> <<>>]

-----------------------------------------------------------------------------
(* Who holds the lock: a request between SetNX and the end of StartPublish, *)
(* then the goroutine it started.                                           *)

Holding(r) == requests[r].pc \in {"insert", "unlock"}
Live(d) == workers[d].pc \notin {"none", "done", "dead"}
Unused == {d \in Deployments : deployments[d].status = "none"}

(***************************************************************************)
(* What a call bound to worker d's context may do: take effect and be      *)
(* acknowledged, take effect and lose its reply, or not take effect.  Once *)
(* the ten minutes are over every such call is refused.                    *)
(***************************************************************************)
Call(d, kind) ==
  IF workers[d].budget = 0 THEN {"refused"}
  ELSE {"ok"} \cup (IF kind \in Faults THEN {"lost", "refused"} ELSE {})

Applied(o) == o \in {"ok", "lost"}

\* Calls to Redis lose their effect or their reply, those made for a request
\* also when its client goes away; the in-process cache has neither fault.
CacheFails(kinds) == SharedCache /\ kinds \cap Faults # {}

Goto(d, pc) == workers' = [workers EXCEPT ![d].pc = pc]

SetStatus(d, o, s) ==
  deployments' =
    IF Applied(o) THEN [deployments EXCEPT ![d].status = s] ELSE deployments

SnapOf(d) == deployments[d].snap

\* The repository a deployment is pushed to: the setting frozen in its
\* snapshot, else the one derived from the name in it.
Target(d) ==
  IF SnapOf(d).repo = Nil THEN RepoName[SnapOf(d).draft] ELSE SnapOf(d).repo

-----------------------------------------------------------------------------
(* Editing.  A save of pages, sections or media keeps the name.  The        *)
(* settings form sends the name and every setting: github_repo as typed, or *)
(* as it was when the tab was loaded: now, or before a publish saved one.   *)

EditContent(c) ==
  /\ RepoName[c] = RepoName[website.draft]
  /\ website' = [website EXCEPT !.draft = c]
  /\ UNCHANGED <<lock, deployments, requests, workers, site, commits>>

SaveSettings(c) ==
  /\ \E repo \in {website.repo, Nil} \cup TypedRepos :
       website' = [draft |-> c, repo |-> repo]
  /\ UNCHANGED <<lock, deployments, requests, workers, site, commits>>

-----------------------------------------------------------------------------
(* Requests.                                                                *)

Submit(r, snap) ==
  /\ requests[r].pc = "idle"
  /\ requests' = [requests EXCEPT ![r] = [@ EXCEPT !.pc = "lock", !.snap = snap]]
  /\ UNCHANGED <<website, lock, deployments, workers, site, commits>>

HandlePublish(r) ==
  /\ website.draft \notin Blank
  /\ Submit(r, website)

HandleRollback(r, d) ==
  /\ deployments[d].status = "succeeded"
  /\ Submit(r, SnapOf(d))

\* Variant: the answer of SetNX is not looked at.
AcquireLockUnchecked(r) ==
  /\ requests[r].pc = "lock"
  /\ Unused # {}
  /\ lock' = LockTTL
  /\ requests' = [requests EXCEPT ![r].pc = "insert"]
  /\ UNCHANGED <<website, deployments, workers, site, commits>>

\* Variant: the lock is released on every early return, refused or not.
AcquireLockDropped(r) ==
  /\ requests[r].pc = "lock"
  /\ \/ /\ lock = 0
        /\ Unused # {}
        /\ lock' = LockTTL
        /\ requests' = [requests EXCEPT ![r].pc = "insert"]
     \/ /\ lock > 0
        /\ lock' = 0
        /\ requests' = [requests EXCEPT ![r] = Idle]
  /\ UNCHANGED <<website, deployments, workers, site, commits>>

\* SetNX: acquired, answered "in progress", or no answer from Redis, which
\* StartPublish also takes for "in progress" whether or not the key was set.
AcquireLock(r) ==
  /\ requests[r].pc = "lock"
  /\ \/ /\ lock = 0
        /\ Unused # {}
        /\ lock' = LockTTL
        /\ requests' = [requests EXCEPT ![r].pc = "insert"]
     \/ /\ lock > 0
        /\ requests' = [requests EXCEPT ![r] = Idle]
        /\ UNCHANGED lock
     \/ /\ CacheFails({"cache", "client"})
        /\ requests' = [requests EXCEPT ![r] = Idle]
        /\ lock' \in {lock, IF lock = 0 THEN LockTTL ELSE lock}
  /\ UNCHANGED <<website, deployments, workers, site, commits>>

NewRow(d, snap) ==
  deployments' = [deployments EXCEPT ![d] =
    [status |-> "queued", snap |-> snap, repo |-> Nil, commit |-> 0]]

\* Variant: the worker's context is given lockTTL.
StartDeploymentTooLong(r, d) ==
  /\ requests[r].pc = "insert"
  /\ d \in Unused
  /\ NewRow(d, requests[r].snap)
  /\ workers' = [workers EXCEPT ![d] =
       [NoWorker("start") EXCEPT !.budget = LockTTL]]
  /\ requests' = [requests EXCEPT ![r] = Idle]
  /\ UNCHANGED <<website, lock, site, commits>>

StartDeployment(r, d) ==
  /\ requests[r].pc = "insert"
  /\ d \in Unused
  /\ NewRow(d, requests[r].snap)
  /\ workers' = [workers EXCEPT ![d] =
       [NoWorker("start") EXCEPT !.budget = PublishTimeout]]
  /\ requests' = [requests EXCEPT ![r] = Idle]
  /\ UNCHANGED <<website, lock, site, commits>>

\* The INSERT fails, or is applied and its reply lost: a row nobody works on.
InsertFails(r) ==
  /\ requests[r].pc = "insert"
  /\ Faults \cap {"db", "client"} # {}
  /\ \/ UNCHANGED deployments
     \/ \E d \in Unused : NewRow(d, requests[r].snap)
  /\ requests' = [requests EXCEPT ![r].pc = "unlock"]
  /\ UNCHANGED <<website, lock, workers, site, commits>>

\* Delete(lockKey), whose error is ignored.
DeleteLock(kinds) ==
  lock' \in {0} \cup (IF CacheFails(kinds) THEN {lock} ELSE {})

\* Variant: the lock is not given back when the INSERT fails.
AbandonLockKept(r) ==
  /\ requests[r].pc = "unlock"
  /\ requests' = [requests EXCEPT ![r] = Idle]
  /\ UNCHANGED <<website, lock, deployments, workers, site, commits>>

\* The Delete is given the context of the request, which may be why the
\* INSERT failed.
AbandonLock(r) ==
  /\ requests[r].pc = "unlock"
  /\ DeleteLock({"cache", "client"})
  /\ requests' = [requests EXCEPT ![r] = Idle]
  /\ UNCHANGED <<website, deployments, workers, site, commits>>

-----------------------------------------------------------------------------
(* The worker: run, and the goroutine around it.                            *)

StartBuilding(d) ==
  /\ workers[d].pc = "start"
  /\ \E o \in Call(d, "db") : SetStatus(d, o, "building")
  /\ Goto(d, "build")
  /\ UNCHANGED <<website, lock, requests, site, commits>>

\* Load the snapshot and generate into a temporary directory.
Build(d) ==
  /\ workers[d].pc = "build"
  /\ \/ /\ "ok" \in Call(d, "db")
        /\ Goto(d, "clear")
     \/ /\ "refused" \in Call(d, "db") \cup Call(d, "io")
        /\ Goto(d, "fail")
  /\ UNCHANGED <<website, lock, deployments, requests, site, commits>>

\* Generate into var/sites/<id>: first everything there is removed ...
ClearSite(d) ==
  /\ workers[d].pc = "clear"
  /\ \/ /\ site' = Nil
        /\ Goto(d, "write")
     \/ /\ "io" \in Faults
        /\ site' \in {site, Nil}
        /\ Goto(d, "fail")
  /\ UNCHANGED <<website, lock, deployments, requests, commits>>

\* Variant: the error of the second Generate is not looked at.
WriteSiteUnchecked(d) ==
  /\ workers[d].pc = "write"
  /\ site' \in {SnapOf(d).draft} \cup (IF "io" \in Faults THEN {site} ELSE {})
  /\ Goto(d, IF UseGitHub THEN "deploy" ELSE "finish")
  /\ UNCHANGED <<website, lock, deployments, requests, commits>>

\* ... then the files are written one by one.
WriteSite(d) ==
  /\ workers[d].pc = "write"
  /\ \/ /\ site' = SnapOf(d).draft
        /\ Goto(d, IF UseGitHub THEN "deploy" ELSE "finish")
     \/ /\ "io" \in Faults
        /\ Goto(d, "fail")
        /\ UNCHANGED site
  /\ UNCHANGED <<website, lock, deployments, requests, commits>>

StartDeploying(d) ==
  /\ workers[d].pc = "deploy"
  /\ \E o \in Call(d, "db") : SetStatus(d, o, "deploying")
  /\ Goto(d, IF SnapOf(d).repo = Nil THEN "save" ELSE "clone")
  /\ UNCHANGED <<website, lock, requests, site, commits>>

SaveRepo(d) ==
  /\ workers[d].pc = "save"
  /\ \E o \in Call(d, "db") :
       /\ website' = IF Applied(o) THEN [website EXCEPT !.repo = Target(d)]
                     ELSE website
       /\ Goto(d, IF o = "ok" THEN "clone" ELSE "fail")
  /\ UNCHANGED <<lock, deployments, requests, site, commits>>

\* Variant: an error of EnsureRepo ends the run without being returned.
CloneRepoSilent(d) ==
  /\ workers[d].pc = "clone"
  /\ \/ /\ "ok" \in Call(d, "git")
        /\ workers' = [workers EXCEPT ![d] =
             [@ EXCEPT !.pc = "push", !.head = Len(commits[Target(d)])]]
     \/ /\ "refused" \in Call(d, "git")
        /\ Goto(d, "release")
  /\ UNCHANGED <<website, lock, deployments, requests, site, commits>>

\* EnsureRepo, then clone.  A repository not yet created and an empty one
\* have the same history.  When the clone fails, whatever the reason, Push
\* goes on with a fresh local repository, whose head is no commit at all.
CloneRepo(d) ==
  /\ workers[d].pc = "clone"
  /\ \/ /\ "ok" \in Call(d, "git")
        /\ \E head \in {Len(commits[Target(d)])}
                         \cup (IF "git" \in Faults THEN {0} ELSE {}) :
             workers' = [workers EXCEPT ![d] = [@ EXCEPT !.pc = "push", !.head = head]]
     \/ /\ "refused" \in Call(d, "git")
        /\ Goto(d, "fail")
  /\ UNCHANGED <<website, lock, deployments, requests, site, commits>>

\* The remote accepts a push that extends its branch and refuses any other.
FastForward(d) == workers[d].head = Len(commits[Target(d)])

\* Variant: any cloned head counts as this build.
NothingToCommitEver(d) == workers[d].head \in DOMAIN commits[Target(d)]

NothingToCommit(d) ==
  LET head == workers[d].head
  IN  /\ head \in DOMAIN commits[Target(d)]
      /\ commits[Target(d)][head].draft = SnapOf(d).draft

\* The commit a worker makes of its build.
OwnCommit(d) == [draft |-> SnapOf(d).draft, ours |-> TRUE, pages |-> "building"]

\* Push is done: the local repository is at head, and hash is what it returns.
Returns(d, head, hash) ==
  workers' = [workers EXCEPT ![d] =
    [@ EXCEPT !.pc = "record", !.head = head, !.hash = hash]]

\* Variant: push --force of a repository made from scratch.
PushCommitForced(d) ==
  /\ workers[d].pc = "push"
  /\ ~NothingToCommit(d)
  /\ commits' = [commits EXCEPT ![Target(d)] = <<OwnCommit(d)>>]
  /\ Returns(d, 1, 1)
  /\ UNCHANGED <<website, lock, deployments, requests, site>>

\* Variant: a rejected push is not noticed.
PushCommitUnchecked(d) ==
  /\ workers[d].pc = "push"
  /\ ~NothingToCommit(d)
  /\ commits' =
       IF FastForward(d)
       THEN [commits EXCEPT ![Target(d)] = Append(@, OwnCommit(d))]
       ELSE commits
  /\ Returns(d, workers[d].head + 1, workers[d].head + 1)
  /\ UNCHANGED <<website, lock, deployments, requests, site>>

\* Commit and push; the commit id is its place in the branch.
PushCommit(d) ==
  /\ workers[d].pc = "push"
  /\ ~NothingToCommit(d)
  /\ \E o \in Call(d, "git") :
       /\ commits' =
            IF Applied(o) /\ FastForward(d)
            THEN [commits EXCEPT ![Target(d)] = Append(@, OwnCommit(d))]
            ELSE commits
       /\ IF o = "ok" /\ FastForward(d)
          THEN Returns(d, workers[d].head + 1, workers[d].head + 1)
          ELSE Goto(d, "fail")
  /\ UNCHANGED <<website, lock, deployments, requests, site>>

\* "nothing to commit": the head that was cloned is returned as pushed.  The
\* error of the rev-parse that names it is dropped; what it printed then (0)
\* is no commit's name.
PushNothing(d) ==
  /\ workers[d].pc = "push"
  /\ NothingToCommit(d)
  /\ \/ /\ "ok" \in Call(d, "git")
        /\ \E hash \in {workers[d].head} \cup (IF "git" \in Faults THEN {0} ELSE {}) :
             Returns(d, workers[d].head, hash)
     \/ "refused" \in Call(d, "git") /\ Goto(d, "fail")
  /\ UNCHANGED <<website, lock, deployments, requests, site, commits>>

RecordCommit(d) ==
  /\ workers[d].pc = "record"
  /\ \E o \in Call(d, "db") :
       /\ deployments' =
            IF Applied(o)
            THEN [deployments EXCEPT ![d] =
                    [@ EXCEPT !.repo = Target(d), !.commit = workers[d].hash]]
            ELSE deployments
       /\ Goto(d, CASE o # "ok" -> "fail"
                    [] o = "ok" /\ UseCloudflare -> "await"
                    [] OTHER -> "finish")
  /\ UNCHANGED <<website, lock, requests, site, commits>>

\* The Pages build that carries this name, none if no commit does.
PagesOf(repo, hash) ==
  IF hash \in DOMAIN commits[repo] THEN commits[repo][hash].pages ELSE "building"

\* Variant: polls until Cloudflare is done, with no limit of its own.
AwaitPagesForever(d) ==
  /\ workers[d].pc = "await"
  /\ LET pages == PagesOf(Target(d), workers[d].hash)
     IN  /\ pages # "building"
         /\ Goto(d, IF pages = "live" THEN "finish" ELSE "fail")
  /\ UNCHANGED <<website, lock, deployments, requests, site, commits>>

\* Variant: an error of the Pages API ends the run without being returned.
AwaitPagesSilent(d) ==
  /\ workers[d].pc = "await"
  /\ Goto(d, "release")
  /\ UNCHANGED <<website, lock, deployments, requests, site, commits>>

\* AwaitDeployment: the outcome for this commit, or no outcome in time,
\* which counts as success.
AwaitPages(d) ==
  /\ workers[d].pc = "await"
  /\ LET pages == PagesOf(Target(d), workers[d].hash)
     IN  \/ /\ pages # "failed"
            /\ "ok" \in Call(d, "pages")
            /\ Goto(d, "finish")
         \/ /\ pages = "failed" \/ "refused" \in Call(d, "pages")
            /\ Goto(d, "fail")
  /\ UNCHANGED <<website, lock, deployments, requests, site, commits>>

\* Variant: an error after the UPDATE (of the audit log, say) is returned.
FinishThenFail(d) ==
  /\ workers[d].pc = "finish"
  /\ \E o \in Call(d, "db") : SetStatus(d, o, "succeeded")
  /\ Goto(d, "fail")
  /\ UNCHANGED <<website, lock, requests, site, commits>>

Finish(d) ==
  /\ workers[d].pc = "finish"
  /\ \E o \in Call(d, "db") :
       /\ SetStatus(d, o, "succeeded")
       /\ Goto(d, IF o = "ok" THEN "release" ELSE "fail")
  /\ UNCHANGED <<website, lock, requests, site, commits>>

\* Variant: the run goes on after its failure was recorded.
FailThenFinish(d) ==
  /\ workers[d].pc = "fail"
  /\ \E o \in Call(d, "db") : SetStatus(d, o, "failed")
  /\ Goto(d, "finish")
  /\ UNCHANGED <<website, lock, requests, site, commits>>

\* fail is given the worker's own context, expired or not.
Fail(d) ==
  /\ workers[d].pc = "fail"
  /\ \E o \in Call(d, "db") : SetStatus(d, o, "failed")
  /\ Goto(d, "release")
  /\ UNCHANGED <<website, lock, requests, site, commits>>

\* The deferred Delete: whatever lock is there goes, its value is not read.
Release(d) ==
  /\ workers[d].pc = "release"
  /\ DeleteLock({"cache"})
  /\ workers' = [workers EXCEPT ![d] = NoWorker("done")]
  /\ UNCHANGED <<website, deployments, requests, site, commits>>

-----------------------------------------------------------------------------
(* The environment.                                                         *)

\* Cloudflare ends the Pages build of a commit (looked at only when its
\* settings are there).
PagesOutcome(repo, i) ==
  /\ UseCloudflare
  /\ i \in DOMAIN commits[repo]
  /\ commits[repo][i].pages = "building"
  /\ \E p \in {"live", "failed"} :
       commits' = [commits EXCEPT ![repo][i].pages = p]
  /\ UNCHANGED <<website, lock, deployments, requests, workers, site>>

\* Another website whose settings name the repository, or a person, extends
\* its branch, perhaps back to content it had before.  Nobody pushes by force.
OtherPush(repo, c) ==
  /\ UseGitHub
  /\ Cardinality({i \in DOMAIN commits[repo] : ~commits[repo][i].ours}) < OtherPushes
  /\ commits' = [commits EXCEPT ![repo] =
       Append(@, [draft |-> c, ours |-> FALSE, pages |-> "building"])]
  /\ UNCHANGED <<website, lock, deployments, requests, workers, site>>

\* A process stops or is stopped; Shutdown does not wait for goroutines and
\* nothing resumes them.  Redis keeps the lock, a process's own cache does not.
Crash(R, D) ==
  /\ "crash" \in Faults
  /\ SharedCache \/ (R = Requests /\ D = Deployments)
  /\ \E d \in D : Live(d) \/ \E r \in R : requests[r].pc # "idle"
  /\ requests' = [r \in Requests |-> IF r \in R THEN Idle ELSE requests[r]]
  /\ workers' = [d \in Deployments |->
       IF d \in D /\ Live(d) THEN NoWorker("dead") ELSE workers[d]]
  /\ lock' = IF SharedCache THEN lock ELSE 0
  /\ UNCHANGED <<website, deployments, site, commits>>

\* Variant: the lock is set without a TTL.
TickNoExpiry ==
  /\ \A d \in Deployments :
       Live(d) /\ workers[d].budget = 0 => workers[d].over < Overrun
  /\ workers' = [d \in Deployments |->
       IF ~Live(d) THEN workers[d]
       ELSE IF workers[d].budget > 0 THEN [workers[d] EXCEPT !.budget = @ - 1]
       ELSE [workers[d] EXCEPT !.over = @ + 1]]
  /\ UNCHANGED <<website, lock, deployments, requests, site, commits>>

\* InsertDelay and Overrun bound how late a request and a worker may be.
Tick ==
  /\ \A r \in Requests : Holding(r) => requests[r].wait < InsertDelay
  /\ \A d \in Deployments :
       Live(d) /\ workers[d].budget = 0 => workers[d].over < Overrun
  /\ lock' = IF lock > 0 THEN lock - 1 ELSE 0
  /\ requests' = [r \in Requests |->
       IF Holding(r) THEN [requests[r] EXCEPT !.wait = @ + 1] ELSE requests[r]]
  /\ workers' = [d \in Deployments |->
       IF ~Live(d) THEN workers[d]
       ELSE IF workers[d].budget > 0 THEN [workers[d] EXCEPT !.budget = @ - 1]
       ELSE [workers[d] EXCEPT !.over = @ + 1]]
  /\ UNCHANGED <<website, deployments, site, commits>>

-----------------------------------------------------------------------------

RequestStep(r) ==
  \/ AcquireLock(r)
  \/ \E d \in Deployments : StartDeployment(r, d)
  \/ InsertFails(r)
  \/ AbandonLock(r)

WorkerStep(d) ==
  \/ StartBuilding(d)
  \/ Build(d)
  \/ ClearSite(d)
  \/ WriteSite(d)
  \/ StartDeploying(d)
  \/ SaveRepo(d)
  \/ CloneRepo(d)
  \/ PushCommit(d)
  \/ PushNothing(d)
  \/ RecordCommit(d)
  \/ AwaitPages(d)
  \/ Finish(d)
  \/ Fail(d)
  \/ Release(d)

UserStep ==
  \/ \E c \in Drafts : EditContent(c) \/ SaveSettings(c)
  \/ \E r \in Requests :
       HandlePublish(r) \/ \E d \in Deployments : HandleRollback(r, d)

Environment ==
  \/ \E repo \in Repos :
       \/ \E i \in 1..Len(commits[repo]) : PagesOutcome(repo, i)
       \/ \E c \in OtherDrafts : OtherPush(repo, c)
  \/ \E R \in SUBSET Requests, D \in SUBSET Deployments : Crash(R, D)
  \/ Tick

Next ==
  \/ UserStep
  \/ \E r \in Requests : RequestStep(r)
  \/ \E d \in Deployments : WorkerStep(d)
  \/ Environment

\* Time passes, and the runtime schedules every request and goroutine.
Fairness ==
  /\ WF_vars(Tick)
  /\ \A r \in Requests : WF_vars(RequestStep(r))
  /\ \A d \in Deployments : WF_vars(WorkerStep(d))

Spec == Init /\ [][Next]_vars /\ Fairness

-----------------------------------------------------------------------------
(* Requests, rows and workers only exist with the snapshot they publish.    *)

HasSnapshot ==
  /\ \A r \in Requests :
       requests[r].pc # "idle" => requests[r].snap \in Snapshot
  /\ \A d \in Deployments :
       deployments[d].status # "none" => deployments[d].snap \in Snapshot
  /\ \A d \in Deployments :
       workers[d].pc # "none" => deployments[d].status # "none"

-----------------------------------------------------------------------------
(* The fifteen minutes of the lock cover the ten of a publish only if the   *)
(* INSERT before it and the steps that ignore its context stay within what  *)
(* is left.                                                                 *)

LockTiming == LockTTL > InsertDelay + PublishTimeout + Overrun

-----------------------------------------------------------------------------
(* Safety.                                                                  *)

\* At most one request or worker is between taking the lock and releasing
\* it ("A per-website lock prevents concurrent publishes").
MutualExclusion ==
  /\ \A r, s \in Requests : Holding(r) /\ Holding(s) => r = s
  /\ \A d, e \in Deployments : Live(d) /\ Live(e) => d = e
  /\ \A r \in Requests, d \in Deployments : ~(Holding(r) /\ Live(d))

\* The key outlives its holder: what is left of the fifteen minutes exceeds
\* all the time the holder may still take.
LockOutlivesHolder ==
  /\ \A r \in Requests : Holding(r) =>
       lock > (InsertDelay - requests[r].wait) + PublishTimeout + Overrun
  /\ \A d \in Deployments : Live(d) =>
       lock > workers[d].budget + (Overrun - workers[d].over)

\* Unless a process stops or Redis misses a call, every path through
\* StartPublish and the goroutine gives the lock back: a 409 is only ever
\* answered while a publish really is under way.
NoStrayLock ==
  ("crash" \notin Faults /\ ~CacheFails({"cache", "client"}) /\ lock > 0) =>
    \/ \E r \in Requests : Holding(r)
    \/ \E d \in Deployments : Live(d)

\* A worker that gets to its end within the ten minutes, the database
\* answering, leaves a final status behind.
OutcomeRecorded ==
  "db" \notin Faults =>
    \A d \in Deployments :
      workers[d].pc = "release" /\ workers[d].budget > 0 =>
        deployments[d].status \in Final

\* The commits of a branch that hold a draft.
CommitsOf(repo, c) == {i \in DOMAIN commits[repo] : commits[repo][i].draft = c}

\* A deployment that reports success on GitHub has its own snapshot in a
\* commit of its repository, and its row names such a commit.  The code falls
\* short of the second half in one case, excepted here: a git call failed, and
\* it may have been the rev-parse whose error Push drops ("Returns the commit
\* hash"); then the row may name nothing, never a commit of other content.
SuccessIsPushed ==
  UseGitHub =>
    \A d \in Deployments : deployments[d].status = "succeeded" =>
      LET row == deployments[d]
      IN  /\ row.repo \in Repos
          /\ CommitsOf(row.repo, row.snap.draft) # {}
          /\ \/ row.commit \in CommitsOf(row.repo, row.snap.draft)
             \/ row.commit = 0 /\ "git" \in Faults

\* Commits, those of others included, are never rewritten: "Cloning (rather
\* than force-push from scratch) preserves deployment history in git".
HistoryPreserved ==
  [][\A r \in Repos : \A i \in DOMAIN commits[r] :
       /\ i \in DOMAIN commits'[r]
       /\ commits'[r][i].draft = commits[r][i].draft]_vars

\* A deployment reported failed stays failed, so it can never be rolled
\* back to; with a reliable database a reported success stays one as well.
FinalStatusKept ==
  [][\A d \in Deployments :
       /\ deployments[d].status = "failed" => deployments'[d].status = "failed"
       /\ deployments[d].status = "succeeded" /\ "db" \notin Faults =>
            deployments'[d].status = "succeeded"]_vars

-----------------------------------------------------------------------------
(* Statements of the documentation.                                         *)

\* "A failed build never touches the previously published site": once a
\* deployment has succeeded and no publish is under way, the site is that of
\* a deployment that succeeded.
PublishedSiteSurvives ==
  (\E d \in Deployments : deployments[d].status = "succeeded") =>
    \/ \E d \in Deployments : Live(d)
    \/ \E d \in Deployments : /\ deployments[d].status = "succeeded"
                              /\ SnapOf(d).draft = site

\* "Any returned error marks it failed": a goroutine that has ended leaves
\* its deployment succeeded or failed.
EndedIsFinal ==
  \A d \in Deployments :
    workers[d].pc = "done" => deployments[d].status \in Final

\* "One GitHub repository per website": a publish requested after the website
\* has been pushed goes to the repository it was pushed to.
OneRepository ==
  [][\A r \in Requests, d \in Deployments :
       HandlePublish(r) /\ deployments[d].repo # Nil =>
         deployments[d].repo =
           IF website.repo = Nil THEN RepoName[website.draft] ELSE website.repo]_vars

-----------------------------------------------------------------------------
(* Liveness.                                                                *)

\* Every worker ends, one way or another.
WorkerEnds == \A d \in Deployments : Live(d) ~> ~Live(d)

\* A lock is always given up, by its holder or by its TTL when the holder
\* crashed or its Delete was lost.
LockFreed == lock > 0 ~> lock = 0

-----------------------------------------------------------------------------
(* Publish implements SerialPublish.                                        *)

Phase == [d \in Deployments |->
  CASE workers[d].pc = "none" -> "new"
    [] Live(d) -> "running"
    [] OTHER -> "over"]

Content == [d \in Deployments |->
  IF workers[d].pc = "none" THEN Nil ELSE SnapOf(d).draft]

Result == [d \in Deployments |->
  IF deployments[d].status \in Final THEN deployments[d].status ELSE "open"]

Branches == [r \in Repos |->
  [i \in DOMAIN commits[r] |->
     [draft |-> commits[r][i].draft, ours |-> commits[r][i].ours]]]

Serial == INSTANCE SerialPublish WITH
  phase <- Phase, content <- Content, result <- Result, branches <- Branches

\* Deployments run one at a time; only the running one changes the site and
\* the branches; success means its snapshot is served and pushed.
SerialSpec == Serial!Spec
=============================================================================
