---------------------------- MODULE SerialProofs ----------------------------
(***************************************************************************)
(* Publish implements SerialPublish: the proof of the refinement.          *)
(***************************************************************************)
EXTENDS StatusProofs, CommitProofs, SequenceTheorems

-----------------------------------------------------------------------------
(* The invariant of a worker that the abstract guards rest on.              *)

GitHubPC == {"deploy", "save", "clone", "push", "record", "await"}

\* From the end of its build on, a worker sees its own content served.
Rendered(d) ==
  workers[d].pc \in GitHubPC \cup {"finish"} => site = SnapOf(d).draft

OnGitHub(d) == workers[d].pc \in GitHubPC => UseGitHub

\* From its clone on, a worker's head is nothing, or a place of the branch
\* after which only others have added to it.
LastOfOurs(d) ==
  \A i \in DOMAIN commits[Target(d)] :
    i > workers[d].head => ~commits[Target(d)][i].ours

AtTip(d) ==
  workers[d].pc \in {"push", "record", "await"} \cup (IF UseGitHub THEN {"finish"} ELSE {})
    => workers[d].head = 0 \/ LastOfOurs(d)

RefInv(d) == Rendered(d) /\ OnGitHub(d) /\ AtTip(d)

\* Whatever happens to a branch, the publisher adds nothing to it.
NoneOfOursAdded(repo) ==
  \A i \in DOMAIN commits'[repo] :
    commits'[repo][i].ours => i \in DOMAIN commits[repo] /\ commits[repo][i].ours

\* Where nothing a worker looks at has changed.
LEMMA RefInvFrame ==
  ASSUME NEW d \in Deployments, RefInv(d), site' = site,
         workers'[d].pc = workers[d].pc, workers'[d].head = workers[d].head,
         deployments'[d].snap = deployments[d].snap,
         commits' = commits \/ NoneOfOursAdded(Target(d))
  PROVE  RefInv(d)'
<1>1. Target(d)' = Target(d) /\ SnapOf(d)' = SnapOf(d)
  BY DEF Target, SnapOf
<1>2. LastOfOurs(d) => LastOfOurs(d)'
  BY <1>1 DEF LastOfOurs, NoneOfOursAdded
<1> QED
  BY <1>1, <1>2 DEF RefInv, Rendered, OnGitHub, AtTip

\* A worker that is not alive is at none of these points.
LEMMA RefInvNotLive ==
  ASSUME NEW d \in Deployments, ~Live(d)'
  PROVE  RefInv(d)'
BY DEF Live, RefInv, Rendered, OnGitHub, AtTip, GitHubPC

\* A worker's own step: the build makes the site its own, the clone puts its
\* head at the end of the branch and its push, which the remote takes only
\* there, puts it at the new end.
LEMMA WorkerRefInv ==
  ASSUME TypeOK, HasSnapshot, NEW d \in Deployments, RefInv(d), WorkerStep(d)
  PROVE  RefInv(d)'
<1>1. /\ Target(d)' = Target(d) /\ SnapOf(d)' = SnapOf(d)
      /\ \A pc : Goto(d, pc) =>
           workers'[d].pc = pc /\ workers'[d].head = workers[d].head
      /\ \A head, hash : Returns(d, head, hash) =>
           workers'[d].pc = "record" /\ workers'[d].head = head
  BY WorkerRow, ReturnsFrame
<1>2. Target(d) \in Repos
  <2>1. workers[d].pc # "none"
    BY WorkerFrame DEF Live
  <2> QED
    BY <2>1, WorkerTarget
<1>3. Rendered(d) /\ OnGitHub(d) /\ AtTip(d)
  BY DEF RefInv
<1>4. ASSUME workers'[d].pc \notin GitHubPC \cup {"finish"}
      PROVE  RefInv(d)'
  BY <1>4 DEF RefInv, Rendered, OnGitHub, AtTip, GitHubPC
<1>5. CASE StartBuilding(d) \/ Build(d) \/ ClearSite(d) \/ Fail(d)
  <2>1. workers'[d].pc \in {"build", "clear", "write", "fail", "release"}
    BY <1>1, <1>5 DEF StartBuilding, Build, ClearSite, Fail
  <2> QED
    BY <1>4, <2>1 DEF GitHubPC
<1>6. CASE Release(d)
  <2>1. workers'[d].pc = "done"
    BY <1>6 DEF Release, NoWorker, TypeOK
  <2> QED
    BY <1>4, <2>1 DEF GitHubPC
<1>7. CASE WriteSite(d)
  <2>1. \/ workers'[d].pc = "fail"
        \/ /\ site' = SnapOf(d).draft
           /\ workers'[d].pc = IF UseGitHub THEN "deploy" ELSE "finish"
    BY <1>1, <1>7 DEF WriteSite
  <2> QED
    BY <1>1, <2>1 DEF RefInv, Rendered, OnGitHub, AtTip, GitHubPC
<1>8. CASE StartDeploying(d) \/ SaveRepo(d)
  <2>1. /\ workers[d].pc \in {"deploy", "save"}
        /\ workers'[d].pc \in {"save", "clone", "fail"}
        /\ site' = site
    BY <1>1, <1>8 DEF StartDeploying, SaveRepo
  <2> QED
    BY <1>1, <1>3, <2>1 DEF RefInv, Rendered, OnGitHub, AtTip, GitHubPC
<1>9. CASE CloneRepo(d)
  <2>1. \A head : workers' = [workers EXCEPT ![d] =
                                [@ EXCEPT !.pc = "push", !.head = head]]
                    => workers'[d].pc = "push" /\ workers'[d].head = head
    BY DEF TypeOK, Worker
  <2>2. CASE Goto(d, "fail")
    BY <1>1, <1>4, <2>2 DEF GitHubPC
  <2>3. CASE ~Goto(d, "fail")
    <3>1. /\ workers'[d].pc = "push"
          /\ workers'[d].head \in {0, Len(commits[Target(d)])}
          /\ workers[d].pc = "clone"
          /\ UNCHANGED <<site, commits>>
      BY <1>9, <2>1, <2>3 DEF CloneRepo
    <3>2. AtTip(d)'
      BY <1>1, <1>2, <3>1 DEF AtTip, LastOfOurs, TypeOK
    <3> QED
      BY <1>1, <1>3, <3>1, <3>2 DEF RefInv, Rendered, OnGitHub, GitHubPC
  <2> QED
    BY <2>2, <2>3
<1>10. CASE PushNothing(d) \/ AwaitPages(d) \/ RecordCommit(d)
  <2>1. /\ workers[d].pc \in {"push", "await", "record"}
        /\ workers'[d].pc \in {"record", "await", "finish", "fail"}
        /\ workers'[d].head = workers[d].head
        /\ UNCHANGED <<site, commits>>
    BY <1>1, <1>10 DEF PushNothing, AwaitPages, RecordCommit
  <2>2. AtTip(d)'
    BY <1>1, <1>3, <2>1 DEF AtTip, LastOfOurs
  <2> QED
    BY <1>1, <1>3, <2>1, <2>2 DEF RefInv, Rendered, OnGitHub, GitHubPC
<1>11. CASE PushCommit(d)
  <2> DEFINE c == OwnCommit(d)
             moved == Returns(d, workers[d].head + 1, workers[d].head + 1)
  <2>1. CASE Goto(d, "fail")
    BY <1>1, <1>4, <2>1 DEF GitHubPC
  <2>2. CASE /\ FastForward(d)
             /\ moved
             /\ commits' = [commits EXCEPT ![Target(d)] = Append(@, c)]
    <3>1. commits \in [Repos -> Seq(Commit)] /\ workers \in [Deployments -> Worker]
      BY DEF TypeOK
    <3>2. workers'[d].pc = "record" /\ workers'[d].head = workers[d].head + 1
      BY <1>1, <2>2
    <3>3. commits'[Target(d)] = Append(commits[Target(d)], c)
      BY <1>2, <2>2, <3>1
    <3>4. Len(commits'[Target(d)]) = Len(commits[Target(d)]) + 1
      BY <1>2, <3>1, <3>3
    <3>5. workers'[d].head = Len(commits'[Target(d)])
      BY <2>2, <3>2, <3>4 DEF FastForward
    <3>6. workers[d].pc = "push" /\ site' = site
      BY <1>11 DEF PushCommit
    <3>7. c \in Commit
      BY <3>6, WorkerTarget DEF OwnCommit, Commit
    <3>8. DOMAIN commits'[Target(d)] = 1..Len(commits'[Target(d)])
      BY <1>2, <3>1, <3>3, <3>7
    <3>9. AtTip(d)'
      BY <1>1, <3>1, <3>4, <3>5, <3>8 DEF AtTip, LastOfOurs
    <3> QED
      BY <1>1, <1>3, <3>2, <3>6, <3>9 DEF RefInv, Rendered, OnGitHub, GitHubPC
  <2> QED
    BY <1>11, <2>1, <2>2 DEF PushCommit, Applied
<1>12. CASE Finish(d)
  <2>1. workers'[d].pc \in {"release", "fail"}
    BY <1>1, <1>12 DEF Finish
  <2> QED
    BY <1>4, <2>1 DEF GitHubPC
<1> QED
  BY <1>5, <1>6, <1>7, <1>8, <1>9, <1>10, <1>11, <1>12 DEF WorkerStep

\* The outcome of a Pages build leaves what a branch holds, and from whom.
LEMMA OutcomeKeepsBranches ==
  ASSUME TypeOK, NEW repo \in Repos, NEW i \in 1..Len(commits[repo]),
         PagesOutcome(repo, i)
  PROVE  \A r \in Repos :
           /\ DOMAIN commits'[r] = DOMAIN commits[r]
           /\ \A j \in DOMAIN commits[r] :
                /\ commits'[r][j].draft = commits[r][j].draft
                /\ commits'[r][j].ours = commits[r][j].ours
<1>1. commits \in [Repos -> Seq(Commit)] /\ i \in DOMAIN commits[repo]
  BY DEF TypeOK, PagesOutcome
<1>2. PICK p \in {"live", "failed"} :
        commits' = [commits EXCEPT ![repo][i].pages = p]
  BY DEF PagesOutcome
<1>3. \A r \in Repos : r # repo => commits'[r] = commits[r]
  BY <1>1, <1>2
<1> DEFINE c == [commits[repo][i] EXCEPT !.pages = p]
<1>4. commits'[repo] = [commits[repo] EXCEPT ![i] = c]
  BY <1>1, <1>2, Zenon
<1>5. commits[repo] \in Seq(Commit) /\ commits[repo][i] \in Commit
  BY <1>1
<1>6. c \in Commit /\ c.draft = commits[repo][i].draft /\ c.ours = commits[repo][i].ours
  BY <1>5 DEF Commit
<1> HIDE DEF c
<1>7. /\ DOMAIN commits'[repo] = DOMAIN commits[repo]
      /\ commits'[repo][i] = c
      /\ \A j \in DOMAIN commits[repo] : j # i => commits'[repo][j] = commits[repo][j]
  BY <1>1, <1>4, <1>5, <1>6
<1> QED
  BY <1>3, <1>6, <1>7

\* Steps of requests, of users and of the environment move no live worker.
LEMMA OthersRefInv ==
  ASSUME TypeOK, HasSnapshot, \A d \in Deployments : RefInv(d),
         \/ UserStep \/ Environment \/ UNCHANGED vars
         \/ \E r \in Requests : RequestStep(r)
  PROVE  \A d \in Deployments : RefInv(d)'
<1>1. ASSUME UNCHANGED <<workers, site, commits>>,
             \A d \in Deployments :
               deployments[d].status # "none" =>
                 deployments'[d].snap = deployments[d].snap
      PROVE  \A d \in Deployments : RefInv(d)'
  <2> SUFFICES ASSUME NEW d \in Deployments
               PROVE  RefInv(d)'
    OBVIOUS
  <2>1. CASE deployments[d].status = "none"
    <3>1. workers[d].pc = "none"
      BY <2>1 DEF HasSnapshot
    <3>2. ~Live(d)'
      BY <1>1, <3>1 DEF Live
    <3> QED
      BY <3>2, RefInvNotLive
  <2>2. CASE deployments[d].status # "none"
    BY <1>1, <2>2, RefInvFrame
  <2> QED
    BY <2>1, <2>2
<1>2. ASSUME NEW r \in Requests, NEW e \in Deployments, StartDeployment(r, e)
      PROVE  \A d \in Deployments : RefInv(d)'
  <2>1. /\ workers'[e].pc = "start"
        /\ UNCHANGED <<site, commits>>
        /\ \A d \in Deployments : d # e =>
             deployments'[d] = deployments[d] /\ workers'[d] = workers[d]
    BY <1>2 DEF StartDeployment, NewRow, NoWorker, TypeOK
  <2>2. RefInv(e)'
    BY <2>1 DEF RefInv, Rendered, OnGitHub, AtTip, GitHubPC
  <2> QED
    BY <2>1, <2>2, RefInvFrame
<1>3. ASSUME NEW r \in Requests, InsertFails(r)
      PROVE  \A d \in Deployments : RefInv(d)'
  <2>1. \A d \in Deployments :
          deployments[d].status # "none" => deployments'[d].snap = deployments[d].snap
    BY <1>3 DEF InsertFails, Unused, NewRow, TypeOK
  <2> QED
    BY <1>1, <1>3, <2>1 DEF InsertFails
<1>4. CASE Tick
  <2>1. ASSUME NEW d \in Deployments
        PROVE  workers'[d].pc = workers[d].pc /\ workers'[d].head = workers[d].head
    <3>1. workers[d] \in Worker
      BY DEF TypeOK
    <3> QED
      BY <1>4, <3>1 DEF Tick, Worker
  <2> QED
    BY <1>4, <2>1, RefInvFrame DEF Tick
<1>5. ASSUME NEW R \in SUBSET Requests, NEW D \in SUBSET Deployments, Crash(R, D)
      PROVE  \A d \in Deployments : RefInv(d)'
  <2>1. \A d \in Deployments :
          workers'[d] = workers[d] \/ workers'[d] = NoWorker("dead")
    BY <1>5, CrashFrame
  <2>2. \A d \in Deployments : workers'[d] = NoWorker("dead") => ~Live(d)'
    BY DEF NoWorker, Live
  <2>3. UNCHANGED <<deployments, site, commits>>
    BY <1>5 DEF Crash
  <2> QED
    BY <2>1, <2>2, <2>3, RefInvFrame, RefInvNotLive
<1>6. ASSUME NEW repo \in Repos, NEW i \in 1..Len(commits[repo]),
             PagesOutcome(repo, i)
      PROVE  \A d \in Deployments : RefInv(d)'
  <2>1. \A r \in Repos : NoneOfOursAdded(r)
    BY <1>6, OutcomeKeepsBranches DEF NoneOfOursAdded
  <2>2. UNCHANGED <<deployments, workers, site>>
    BY <1>6 DEF PagesOutcome
  <2> SUFFICES ASSUME NEW d \in Deployments
               PROVE  RefInv(d)'
    OBVIOUS
  <2>3. CASE workers[d].pc = "none"
    BY <2>2, <2>3, RefInvNotLive DEF Live
  <2>4. CASE workers[d].pc # "none"
    BY <2>1, <2>2, <2>4, WorkerTarget, RefInvFrame
  <2> QED
    BY <2>3, <2>4
<1>7. CASE \/ UserStep \/ UNCHANGED vars
           \/ \E r \in Requests : AcquireLock(r) \/ AbandonLock(r)
  <2>1. UNCHANGED <<deployments, workers, site, commits>>
    BY <1>7 DEF UserStep, EditContent, SaveSettings, HandlePublish,
       HandleRollback, Submit, vars, AcquireLock, AbandonLock
  <2> QED
    BY <1>1, <2>1
<1>8. ASSUME NEW repo \in Repos, NEW c \in OtherDrafts, OtherPush(repo, c)
      PROVE  \A d \in Deployments : RefInv(d)'
  <2>1. PICK o \in Commit : ~o.ours /\ Grows(repo, o)
    BY <1>8, OtherPushFrame DEF Grows
  <2>2. \A r \in Repos : NoneOfOursAdded(r)
    <3>1. commits \in [Repos -> Seq(Commit)]
      BY DEF TypeOK
    <3>2. \A r \in Repos : r # repo => commits'[r] = commits[r]
      BY <2>1, <3>1 DEF Grows
    <3>3. commits'[repo] = Append(commits[repo], o)
      BY <2>1, <3>1 DEF Grows
    <3>4. NoneOfOursAdded(repo)
      BY <2>1, <3>1, <3>3 DEF NoneOfOursAdded
    <3> QED
      BY <3>2, <3>4 DEF NoneOfOursAdded
  <2>3. UNCHANGED <<deployments, workers, site>>
    BY <1>8, OtherPushFrame
  <2> SUFFICES ASSUME NEW d \in Deployments
               PROVE  RefInv(d)'
    OBVIOUS
  <2>4. CASE workers[d].pc = "none"
    BY <2>3, <2>4, RefInvNotLive DEF Live
  <2>5. CASE workers[d].pc # "none"
    BY <2>2, <2>3, <2>5, WorkerTarget, RefInvFrame
  <2> QED
    BY <2>4, <2>5
<1> QED
  BY <1>2, <1>3, <1>4, <1>5, <1>6, <1>7, <1>8 DEF Environment, RequestStep

\* Mutual exclusion is what lets a worker rely on the site and the branch: no
\* other worker moves.
LEMMA RefInvStep ==
  ASSUME TypeOK, HasSnapshot, MutualExclusion,
         \A d \in Deployments : RefInv(d), [Next]_vars
  PROVE  \A d \in Deployments : RefInv(d)'
<1>1. ASSUME NEW e \in Deployments, WorkerStep(e)
      PROVE  \A d \in Deployments : RefInv(d)'
  <2>1. \A d \in Deployments : d # e => ~Live(d) /\ workers'[d] = workers[d]
    BY <1>1, WorkerFrame DEF MutualExclusion, Advances, Ends
  <2>2. \A d \in Deployments : d # e => ~Live(d)'
    BY <2>1 DEF Live
  <2> QED
    BY <1>1, <2>2, WorkerRefInv, RefInvNotLive
<1> QED
  BY <1>1, OthersRefInv DEF Next

LEMMA RefInvInit ==
  ASSUME Init
  PROVE  \A d \in Deployments : RefInv(d)
BY DEF Init, NoWorker, RefInv, Rendered, OnGitHub, AtTip, GitHubPC

AllRefInv == \A d \in Deployments : RefInv(d)

LEMMA AlwaysRefInv == ASSUME LockTiming PROVE Spec => []AllRefInv
  <1>1. Init => AllRefInv
    BY RefInvInit DEF AllRefInv
  <1>2. TypeOK /\ HasSnapshot /\ MutualExclusion /\ AllRefInv /\ [Next]_vars
          => AllRefInv'
    BY RefInvStep DEF AllRefInv
  <1> QED
    BY <1>1, <1>2, TypeCorrect, OnePublishAtATime, PTL DEF Spec

-----------------------------------------------------------------------------
(* The mapping.  Which steps leave which abstract variable alone.           *)

LEMMA PhaseSame ==
  ASSUME \A d \in Deployments :
           /\ workers'[d].pc = "none" <=> workers[d].pc = "none"
           /\ Live(d)' <=> Live(d)
  PROVE  Phase' = Phase
BY DEF Phase

LEMMA ContentSame ==
  ASSUME \A d \in Deployments :
           /\ workers'[d].pc = "none" <=> workers[d].pc = "none"
           /\ workers[d].pc # "none" => SnapOf(d)' = SnapOf(d)
  PROVE  Content' = Content
BY DEF Content

LEMMA ResultSame ==
  ASSUME \A d \in Deployments :
           \/ deployments'[d].status = deployments[d].status
           \/ deployments[d].status \notin Final /\ deployments'[d].status \notin Final
  PROVE  Result' = Result
BY DEF Result

LEMMA BranchesSame ==
  ASSUME UNCHANGED commits
  PROVE  Branches' = Branches
BY DEF Branches

\* The abstract initial state.
LEMMA SerialInit ==
  ASSUME Init
  PROVE  Serial!Init
<1>0. \A d \in Deployments : workers[d].pc = "none"
  BY DEF Init, NoWorker
<1>1. Phase = [d \in Deployments |-> "new"]
  BY <1>0 DEF Phase, Live
<1>2. Content = [d \in Deployments |-> Nil]
  BY DEF Init, NoWorker, Content
<1>3. Result = [d \in Deployments |-> "open"]
  BY DEF Init, Result, Final
<1>4. Branches = [r \in Repos |-> <<>>]
  BY DEF Init, Branches
<1> QED
  BY <1>1, <1>2, <1>3, <1>4 DEF Init, Serial!Init

\* What the abstract state says of a live worker.
LEMMA LiveIsRunning ==
  ASSUME NEW d \in Deployments, Live(d)
  PROVE  Serial!Running(d) /\ Content[d] = SnapOf(d).draft
BY DEF Live, Phase, Content, Serial!Running

\* Its result is open until it is past run.
LEMMA OpenResult ==
  ASSUME NEW d \in Deployments, Settled(d), Live(d),
         workers[d].pc \notin {"release", "fail"}
  PROVE  Result[d] = "open"
BY DEF Settled, Live, Ended, Result, Final

-----------------------------------------------------------------------------
(* Every step is a step of SerialPublish, or none.                          *)

Stutter == UNCHANGED <<Phase, Content, Result, site, Branches>>
Refined == Serial!Next \/ Stutter

\* Steps that concern neither goroutines nor final statuses.
LEMMA Invisible ==
  ASSUME UNCHANGED <<site, commits>>,
         \A d \in Deployments :
           /\ workers'[d].pc = workers[d].pc
           /\ workers[d].pc # "none" => SnapOf(d)' = SnapOf(d)
           /\ \/ deployments'[d].status = deployments[d].status
              \/ deployments[d].status \notin Final
                 /\ deployments'[d].status \notin Final
  PROVE  Refined
<1>1. Phase' = Phase
  BY PhaseSame DEF Live
<1> QED
  BY <1>1, ContentSame, ResultSame, BranchesSame DEF Refined, Stutter

\* The goroutine of a new row is what begins a deployment, and it begins when
\* no other runs.
LEMMA StartRefined ==
  ASSUME TypeOK, HasSnapshot, MutualExclusion,
         NEW r \in Requests, NEW d \in Deployments, StartDeployment(r, d)
  PROVE  Serial!Begin(d, requests[r].snap.draft) /\ requests[r].snap.draft \in Drafts
<1> DEFINE c == requests[r].snap.draft
<1>1. requests[r].snap \in Snapshot /\ c \in Drafts
  BY DEF HasSnapshot, StartDeployment, Snapshot
<1>2. \A e \in Deployments : ~Live(e)
  BY DEF MutualExclusion, Holding, StartDeployment
<1>3. workers[d].pc = "none" /\ deployments[d].status = "none"
  BY DEF StartDeployment, Unused, HasSnapshot
<1>4. /\ workers'[d].pc = "start"
      /\ deployments'[d].status = "queued"
      /\ deployments'[d].snap = requests[r].snap
      /\ \A e \in Deployments : e # d =>
           workers'[e] = workers[e] /\ deployments'[e] = deployments[e]
      /\ UNCHANGED <<site, commits>>
  BY DEF StartDeployment, NewRow, NoWorker, TypeOK
<1>5. Phase[d] = "new" /\ \A e \in Deployments : Phase[e] # "running"
  BY <1>2, <1>3 DEF Phase
<1>6. Phase' = [Phase EXCEPT ![d] = "running"]
  BY <1>3, <1>4 DEF Phase, Live
<1>7. Content' = [Content EXCEPT ![d] = c]
  BY <1>3, <1>4 DEF Content, SnapOf
<1>8. Result' = Result
  BY <1>3, <1>4, ResultSame DEF Final
<1> QED
  BY <1>1, <1>4, <1>5, <1>6, <1>7, <1>8, BranchesSame DEF Serial!Begin, Serial!Running

\* Requests begin deployments and do nothing else that shows.
LEMMA RequestRefined ==
  ASSUME TypeOK, HasSnapshot, MutualExclusion, NEW r \in Requests, RequestStep(r)
  PROVE  Refined
<1>1. ASSUME NEW d \in Deployments, StartDeployment(r, d)
      PROVE  Refined
  BY <1>1, StartRefined DEF Refined, Serial!Next
<1>2. CASE InsertFails(r)
  <2>1. \A d \in Deployments :
          \/ deployments'[d] = deployments[d]
          \/ deployments[d].status = "none" /\ deployments'[d].status = "queued"
    BY <1>2 DEF InsertFails, Unused, NewRow, TypeOK
  <2>2. \A d \in Deployments :
          /\ workers[d].pc # "none" => SnapOf(d)' = SnapOf(d)
          /\ \/ deployments'[d].status = deployments[d].status
             \/ deployments[d].status \notin Final
                /\ deployments'[d].status \notin Final
    BY <2>1 DEF HasSnapshot, SnapOf, Final
  <2> QED
    BY <1>2, <2>2, Invisible DEF InsertFails
<1>3. CASE AcquireLock(r) \/ AbandonLock(r)
  BY <1>3, Invisible DEF AcquireLock, AbandonLock, SnapOf
<1> QED
  BY <1>1, <1>2, <1>3 DEF RequestStep

\* Goroutines that stop, by themselves or with their process.
LEMMA StopRefined ==
  ASSUME NEW D \in SUBSET Deployments, \A d \in D : Live(d),
         \A d \in D : workers'[d].pc \in {"done", "dead"},
         \A d \in Deployments \ D : workers'[d] = workers[d],
         UNCHANGED <<deployments, site, commits>>
  PROVE  Refined
<1>1. Phase' = [d \in Deployments |-> IF d \in D THEN "over" ELSE Phase[d]]
  BY DEF Phase, Live
<1>2. Content' = Content
  BY ContentSame DEF Live, SnapOf
<1>3. Result' = Result
  BY ResultSame
<1> QED
  BY <1>1, <1>2, <1>3, BranchesSame, LiveIsRunning
  DEF Refined, Serial!Next, Serial!Stop

\* The abstract branch with one commit more.
Shown(h) == [i \in DOMAIN h |-> [draft |-> h[i].draft, ours |-> h[i].ours]]

LEMMA AppendShown ==
  ASSUME NEW h \in Seq(Commit), NEW c \in Commit
  PROVE  Shown(Append(h, c)) = Append(Shown(h), [draft |-> c.draft, ours |-> c.ours])
<1> DEFINE S == [draft : Drafts, ours : BOOLEAN]
           e == [draft |-> c.draft, ours |-> c.ours]
           shown == [i \in DOMAIN h |-> [draft |-> h[i].draft, ours |-> h[i].ours]]
<1>1. /\ DOMAIN h = 1..Len(h) /\ Len(h) \in Nat
      /\ DOMAIN Append(h, c) = 1..(Len(h) + 1)
      /\ \A i \in 1..Len(h) : Append(h, c)[i] = h[i]
      /\ Append(h, c)[Len(h) + 1] = c
  OBVIOUS
<1>2. shown \in Seq(S) /\ Len(shown) = Len(h)
  <2>0. \A i \in 1..Len(h) : h[i] \in Commit
    BY <1>1
  <2>1. \A i \in 1..Len(h) : [draft |-> h[i].draft, ours |-> h[i].ours] \in S
    BY <2>0 DEF Commit
  <2> HIDE DEF S
  <2>2. shown \in [1..Len(h) -> S]
    BY <1>1, <2>1
  <2> HIDE DEF shown
  <2>3. shown \in Seq(S)
    BY <1>1, <2>2, SeqDef
  <2>4. DOMAIN shown = 1..Len(h)
    BY <2>2
  <2> QED
    BY <1>1, <2>3, <2>4, LenProperties
<1>3. e \in S
  BY DEF Commit
<1>4. \A i \in 1..Len(h) : shown[i] = [draft |-> h[i].draft, ours |-> h[i].ours]
  BY <1>1
<1>5. Shown(h) = shown /\ Shown(Append(h, c)) =
        [i \in 1..(Len(h) + 1) |->
           [draft |-> Append(h, c)[i].draft, ours |-> Append(h, c)[i].ours]]
  BY <1>1 DEF Shown
<1> HIDE DEF shown, S
<1>6. /\ \A i \in 1..Len(h) : Append(shown, e)[i] = shown[i]
      /\ Append(shown, e)[Len(h) + 1] = e
      /\ Append(shown, e) = [i \in 1..(Len(h) + 1) |-> Append(shown, e)[i]]
  BY <1>1, <1>2, <1>3
<1>7. ASSUME NEW i \in 1..(Len(h) + 1)
      PROVE  [draft |-> Append(h, c)[i].draft, ours |-> Append(h, c)[i].ours]
               = Append(shown, e)[i]
  <2>1. CASE i \in 1..Len(h)
    BY <1>1, <1>4, <1>6, <2>1
  <2>2. CASE i = Len(h) + 1
    <3>1. Append(h, c)[i] = c /\ Append(shown, e)[i] = e
      BY <1>1, <1>6, <2>2, Zenon
    <3> QED
      BY <3>1
  <2>3. i \in 1..Len(h) \/ i = Len(h) + 1
    BY <1>1
  <2> QED
    BY <2>1, <2>2, <2>3
<1> QED
  BY <1>5, <1>6, <1>7

\* A branch that grows, whoever pushes, grows as its abstraction does.
LEMMA GrowsShown ==
  ASSUME TypeOK, NEW repo \in Repos, NEW c \in Commit, Grows(repo, c)
  PROVE  Branches' = [Branches EXCEPT ![repo] =
                        Append(@, [draft |-> c.draft, ours |-> c.ours])]
<1>1. commits \in [Repos -> Seq(Commit)]
  BY DEF TypeOK
<1>2. \A r \in Repos : r # repo => commits'[r] = commits[r]
  BY <1>1 DEF Grows
<1>3. commits'[repo] = Append(commits[repo], c)
  BY <1>1 DEF Grows
<1>4. /\ Branches = [r \in Repos |-> Shown(commits[r])]
      /\ Branches' = [r \in Repos |-> Shown(commits'[r])]
  BY DEF Branches, Shown
<1>5. Shown(commits'[repo]) =
        Append(Shown(commits[repo]), [draft |-> c.draft, ours |-> c.ours])
  BY <1>1, <1>3, AppendShown
<1> QED
  BY <1>2, <1>4, <1>5

\* Edits, time and Cloudflare do not show; a crash stops what it hits; what
\* others push shows as theirs.
LEMMA OthersRefined ==
  ASSUME TypeOK, UserStep \/ Environment \/ UNCHANGED vars
  PROVE  Refined
<1>1. CASE UserStep \/ UNCHANGED vars
  <2>1. UNCHANGED <<deployments, workers, site, commits>>
    BY <1>1 DEF UserStep, EditContent, SaveSettings, HandlePublish,
       HandleRollback, Submit, vars
  <2> QED
    BY <2>1, Invisible DEF SnapOf
<1>2. CASE Tick
  BY <1>2, TickFrame, Invisible DEF Tick, SnapOf
<1>3. ASSUME NEW R \in SUBSET Requests, NEW D \in SUBSET Deployments, Crash(R, D)
      PROVE  Refined
  <2> DEFINE E == {d \in D : Live(d)}
  <2>1. /\ \A d \in E : workers'[d] = NoWorker("dead")
        /\ \A d \in Deployments \ E : workers'[d] = workers[d]
        /\ UNCHANGED <<deployments, site, commits>>
    BY <1>3 DEF Crash
  <2>2. NoWorker("dead").pc = "dead"
    BY DEF NoWorker
  <2> QED
    BY <2>1, <2>2, StopRefined
<1>4. ASSUME NEW repo \in Repos, NEW i \in 1..Len(commits[repo]),
             PagesOutcome(repo, i)
      PROVE  Refined
  <2>1. UNCHANGED <<deployments, workers, site>>
    BY <1>4 DEF PagesOutcome
  <2>2. Branches' = Branches
    BY <1>4, OutcomeKeepsBranches DEF Branches
  <2>3. Phase' = Phase /\ Content' = Content /\ Result' = Result
    BY <2>1, PhaseSame, ContentSame, ResultSame DEF Live, SnapOf
  <2> QED
    BY <2>1, <2>2, <2>3 DEF Refined, Stutter
<1>5. ASSUME NEW repo \in Repos, NEW c \in OtherDrafts, OtherPush(repo, c)
      PROVE  Refined
  <2>1. /\ UseGitHub /\ c \in Drafts
        /\ UNCHANGED <<deployments, workers, site>>
    BY <1>5, PublishAssumption DEF OtherPush
  <2>2. PICK o \in Commit : o.draft = c /\ ~o.ours /\ Grows(repo, o)
    BY <1>5, OtherPushFrame DEF Grows
  <2>3. o.ours = FALSE
    BY <2>2 DEF Commit
  <2>4. Branches' = [Branches EXCEPT ![repo] =
                       Append(@, [draft |-> c, ours |-> FALSE])]
    BY <2>2, <2>3, GrowsShown
  <2>5. Phase' = Phase /\ Content' = Content /\ Result' = Result
    BY <2>1, PhaseSame, ContentSame, ResultSame DEF Live, SnapOf
  <2> QED
    BY <2>1, <2>4, <2>5 DEF Refined, Serial!Next, Serial!OtherPush
<1> QED
  BY <1>1, <1>2, <1>3, <1>4, <1>5 DEF Environment

\* A worker that goes on, whatever else it does, is still running.
LEMMA GoesOn ==
  ASSUME NEW d \in Deployments, TypeOK, WorkerStep(d), Advances(d)
  PROVE  Phase' = Phase /\ Content' = Content
<1>1. Live(d) /\ KeepsRows(d)
  BY WorkerFrame
<1>2. Phase' = Phase
  BY <1>1, PhaseSame DEF Advances, Live
<1>3. Content' = Content
  BY <1>1, ContentSame DEF Advances, Live, KeepsRows, SnapOf
<1> QED
  BY <1>2, <1>3

\* A status that is not final, written by a worker whose result is open.
LEMMA NotFinal ==
  ASSUME TypeOK, NEW d \in Deployments, WorkerStep(d), Settled(d),
         workers[d].pc \notin {"release", "fail"},
         deployments'[d].status \in {deployments[d].status, "building", "deploying"}
  PROVE  Result' = Result
<1>1. Live(d) /\ KeepsRows(d)
  BY WorkerFrame
<1>2. deployments[d].status \notin Final
  BY <1>1 DEF Settled, Live, Ended, Final
<1> QED
  BY <1>1, <1>2, ResultSame DEF KeepsRows, Final

\* What SetStatus writes is the abstract result.
LEMMA FinalResult ==
  ASSUME TypeOK, NEW d \in Deployments, NEW st \in Final,
         deployments'[d].status = st,
         \A e \in Deployments : e # d => deployments'[e] = deployments[e]
  PROVE  Result' = [Result EXCEPT ![d] = st]
BY DEF Result, Final

\* A push is an abstract push, of a worker whose build is what the site shows.
LEMMA PushRefined ==
  ASSUME TypeOK, HasSnapshot, NEW d \in Deployments, Settled(d), RefInv(d),
         PushCommit(d)
  PROVE  Refined
<1>1. WorkerStep(d) /\ Live(d) /\ workers[d].pc = "push"
  BY DEF WorkerStep, PushCommit, Live
<1>2. Advances(d)
  <2>1. workers'[d].pc \in {"record", "fail"}
    BY <1>1, WorkerRow, ReturnsFrame DEF PushCommit
  <2> QED
    BY <1>1, <2>1, WorkerFrame DEF Ends, NoWorker
<1>3. Phase' = Phase /\ Content' = Content
  BY <1>1, <1>2, GoesOn
<1>4. Result' = Result /\ site' = site
  BY <1>1, NotFinal DEF PushCommit
<1>5. CASE UNCHANGED commits
  BY <1>3, <1>4, <1>5, BranchesSame DEF Refined, Stutter
<1>6. CASE Grows(Target(d), OwnCommit(d))
  <2>1. Target(d) \in Repos /\ OwnCommit(d) \in Commit
    BY <1>1, WorkerTarget DEF OwnCommit, Commit
  <2>2. Content[d] = SnapOf(d).draft /\ Serial!Running(d)
    BY <1>1, LiveIsRunning
  <2>3. Result[d] = "open"
    BY <1>1, OpenResult
  <2>4. UseGitHub /\ site = Content[d]
    BY <1>1, <2>2 DEF RefInv, Rendered, OnGitHub, GitHubPC
  <2>5. OwnCommit(d).draft = Content[d] /\ OwnCommit(d).ours = TRUE
    BY <2>2 DEF OwnCommit
  <2>6. Branches' = [Branches EXCEPT ![Target(d)] =
                       Append(@, [draft |-> Content[d], ours |-> TRUE])]
    BY <1>6, <2>1, <2>5, GrowsShown
  <2> QED
    BY <1>3, <1>4, <2>1, <2>2, <2>3, <2>4, <2>6
    DEF Refined, Serial!Next, Serial!Push
<1> QED
  BY <1>5, <1>6 DEF PushCommit, Grows

\* A build shows nothing, or the worker's own content.
LEMMA SiteRefined ==
  ASSUME TypeOK, NEW d \in Deployments, Settled(d), ClearSite(d) \/ WriteSite(d)
  PROVE  Refined
<1>1. /\ WorkerStep(d) /\ Live(d)
      /\ workers[d].pc \notin {"release", "fail"}
      /\ UNCHANGED <<deployments, commits>>
      /\ site' \in {site, Nil, SnapOf(d).draft}
  BY DEF WorkerStep, ClearSite, WriteSite, Live
<1>2. Advances(d)
  <2>1. workers'[d].pc \in {"write", "deploy", "finish", "fail"}
    BY <1>1, WorkerRow DEF ClearSite, WriteSite
  <2> QED
    BY <1>1, <2>1, WorkerFrame DEF Ends, NoWorker
<1>3. Phase' = Phase /\ Content' = Content /\ Result' = Result /\ Branches' = Branches
  BY <1>1, <1>2, GoesOn, ResultSame, BranchesSame
<1>4. Serial!Running(d) /\ Content[d] = SnapOf(d).draft /\ Result[d] = "open"
  BY <1>1, LiveIsRunning, OpenResult
<1> QED
  BY <1>1, <1>3, <1>4 DEF Refined, Stutter, Serial!Next, Serial!Render

\* The steps of run that only a worker sees.
Quiet(d) ==
  \/ StartBuilding(d) \/ Build(d) \/ StartDeploying(d) \/ SaveRepo(d)
  \/ CloneRepo(d) \/ PushNothing(d) \/ RecordCommit(d) \/ AwaitPages(d)

LEMMA QuietRefined ==
  ASSUME TypeOK, NEW d \in Deployments, Settled(d), Quiet(d)
  PROVE  Refined
<1>1. WorkerStep(d)
  BY DEF WorkerStep, Quiet
<1>2. \A head : workers' = [workers EXCEPT ![d] =
                              [@ EXCEPT !.pc = "push", !.head = head]]
                  => workers'[d].pc = "push"
  BY DEF TypeOK, Worker
<1>3. /\ workers[d].pc \in {"start", "build", "deploy", "save", "clone", "push",
                            "record", "await"}
      /\ workers'[d].pc \in {"build", "clear", "save", "clone", "push", "record",
                             "await", "finish", "fail"}
      /\ UNCHANGED <<site, commits>>
  <2>1. CASE StartBuilding(d) \/ Build(d) \/ StartDeploying(d) \/ SaveRepo(d)
    BY <1>1, <2>1, WorkerRow DEF StartBuilding, Build, StartDeploying, SaveRepo
  <2>2. CASE CloneRepo(d)
    BY <1>1, <1>2, <2>2, WorkerRow DEF CloneRepo
  <2>3. CASE PushNothing(d) \/ RecordCommit(d) \/ AwaitPages(d)
    BY <1>1, <2>3, WorkerRow, ReturnsFrame DEF PushNothing, RecordCommit, AwaitPages
  <2> QED
    BY <2>1, <2>2, <2>3 DEF Quiet
<1>4. Advances(d)
  BY <1>1, <1>3, WorkerFrame DEF Ends, NoWorker
<1>5. deployments'[d].status \in {deployments[d].status, "building", "deploying"}
  <2>1. CASE StartBuilding(d) \/ StartDeploying(d)
    BY <1>1, <2>1, WorkerRow DEF StartBuilding, StartDeploying
  <2>2. CASE RecordCommit(d)
    <3>1. ASSUME deployments' = [deployments EXCEPT ![d] =
                   [@ EXCEPT !.repo = Target(d), !.commit = workers[d].hash]]
          PROVE  deployments'[d].status = deployments[d].status
      BY <3>1 DEF TypeOK, Row
    <3> QED
      BY <2>2, <3>1 DEF RecordCommit
  <2>3. CASE UNCHANGED deployments
    BY <2>3
  <2> QED
    BY <2>1, <2>2, <2>3
    DEF Quiet, Build, SaveRepo, CloneRepo, PushNothing, AwaitPages
<1>6. Result' = Result
  BY <1>1, <1>3, <1>5, NotFinal
<1> QED
  BY <1>1, <1>3, <1>4, <1>6, GoesOn, BranchesSame DEF Refined, Stutter

\* What SetStatus does to the abstract result.
LEMMA ReportRefined ==
  ASSUME TypeOK, NEW d \in Deployments, WorkerStep(d), NEW st \in Final, NEW o,
         SetStatus(d, o, st)
  PROVE  Result' = Result \/ Result' = [Result EXCEPT ![d] = st]
<1>1. \A e \in Deployments : e # d => deployments'[e] = deployments[e]
  BY WorkerFrame DEF KeepsRows
<1>2. deployments'[d].status \in {st, deployments[d].status}
  BY WorkerRow
<1> QED
  BY <1>1, <1>2, FinalResult, ResultSame

\* A worker reports success when its build is served and its push is the last
\* that this website's publisher made to the branch.
LEMMA FinishRefined ==
  ASSUME TypeOK, HasSnapshot, NEW d \in Deployments, Settled(d), RefInv(d),
         CommitInv(d), Finish(d)
  PROVE  Refined
<1>1. WorkerStep(d) /\ Live(d) /\ workers[d].pc = "finish"
  BY DEF WorkerStep, Finish, Live
<1>2. Advances(d)
  <2>1. workers'[d].pc \in {"release", "fail"}
    BY <1>1, WorkerRow DEF Finish
  <2> QED
    BY <1>1, <2>1, WorkerFrame DEF Ends, NoWorker
<1>3. Phase' = Phase /\ Content' = Content /\ site' = site /\ Branches' = Branches
  BY <1>1, <1>2, GoesOn, BranchesSame DEF Finish
<1>4. Result' = Result \/ Result' = [Result EXCEPT ![d] = "succeeded"]
  BY <1>1, ReportRefined DEF Finish, Final
<1>5. /\ Serial!Running(d)
      /\ Content[d] = SnapOf(d).draft
      /\ Result[d] = "open"
      /\ site = Content[d]
  BY <1>1, LiveIsRunning, OpenResult DEF RefInv, Rendered
<1>6. ASSUME UseGitHub
      PROVE  Serial!Pushed(d)
  <2> DEFINE r == Target(d)
             n == workers[d].head
  <2>1. r \in Repos /\ commits[r] \in Seq(Commit)
    BY <1>1, WorkerTarget DEF TypeOK
  <2>2. n \in DOMAIN commits[r] /\ commits[r][n].draft = SnapOf(d).draft
    BY <1>1, <1>6 DEF CommitInv, Pushed, Holds
  <2>3. n # 0
    BY <2>1, <2>2
  <2>4. \A j \in DOMAIN commits[r] : j > n => ~commits[r][j].ours
    BY <1>1, <1>6, <2>3 DEF RefInv, AtTip, LastOfOurs
  <2> HIDE DEF r, n
  <2>5. Branches[r] = [i \in DOMAIN commits[r] |->
          [draft |-> commits[r][i].draft, ours |-> commits[r][i].ours]]
    BY <2>1 DEF Branches
  <2>6. /\ n \in DOMAIN Branches[r]
        /\ Branches[r][n].draft = Content[d]
        /\ \A j \in DOMAIN Branches[r] : j > n => ~Branches[r][j].ours
    BY <1>5, <2>2, <2>4, <2>5
  <2> QED
    BY <2>1, <2>6 DEF Serial!Pushed
<1> QED
  BY <1>3, <1>4, <1>5, <1>6 DEF Refined, Stutter, Serial!Next, Serial!Succeed

\* A failure is an abstract failure, of an open deployment or of one whose
\* success was recorded without its worker being told.
LEMMA FailRefined ==
  ASSUME TypeOK, NEW d \in Deployments, Fail(d)
  PROVE  Refined
<1>1. WorkerStep(d) /\ Live(d)
  BY DEF WorkerStep, Fail, Live
<1>2. Advances(d)
  <2>1. workers'[d].pc = "release"
    BY <1>1, WorkerRow DEF Fail
  <2> QED
    BY <1>1, <2>1, WorkerFrame DEF Ends, NoWorker
<1>3. Phase' = Phase /\ Content' = Content /\ site' = site /\ Branches' = Branches
  BY <1>1, <1>2, GoesOn, BranchesSame DEF Fail
<1>4. Result' = Result \/ Result' = [Result EXCEPT ![d] = "failed"]
  BY <1>1, ReportRefined DEF Fail, Final
<1> QED
  BY <1>1, <1>3, <1>4, LiveIsRunning DEF Refined, Stutter, Serial!Next, Serial!Fail

LEMMA ReleaseRefined ==
  ASSUME TypeOK, NEW d \in Deployments, Release(d)
  PROVE  Refined
<1>1. NoWorker("done").pc = "done"
  BY DEF NoWorker
<1>2. /\ Live(d)
      /\ workers'[d].pc = "done"
      /\ \A e \in Deployments : e # d => workers'[e] = workers[e]
      /\ UNCHANGED <<deployments, site, commits>>
  BY <1>1 DEF Release, Live, TypeOK
<1> DEFINE D == {d}
<1>3. /\ D \in SUBSET Deployments
      /\ \A e \in D : Live(e) /\ workers'[e].pc \in {"done", "dead"}
      /\ \A e \in Deployments \ D : workers'[e] = workers[e]
  BY <1>2
<1> HIDE DEF D
<1> QED
  BY <1>2, <1>3, StopRefined

LEMMA WorkerRefined ==
  ASSUME TypeOK, HasSnapshot, NEW d \in Deployments, Settled(d), RefInv(d),
         CommitInv(d), WorkerStep(d)
  PROVE  Refined
<1>1. CASE Quiet(d)
  BY <1>1, QuietRefined
<1>2. CASE ClearSite(d) \/ WriteSite(d)
  BY <1>2, SiteRefined
<1>3. CASE PushCommit(d)
  BY <1>3, PushRefined
<1>4. CASE Finish(d)
  BY <1>4, FinishRefined
<1>5. CASE Fail(d) \/ Release(d)
  BY <1>5, FailRefined, ReleaseRefined
<1> QED
  BY <1>1, <1>2, <1>3, <1>4, <1>5 DEF WorkerStep, Quiet

LEMMA StepRefined ==
  ASSUME TypeOK, HasSnapshot, MutualExclusion, AllSettled, AllCommitInv,
         AllRefInv, [Next]_vars
  PROVE  Refined
<1>1. ASSUME NEW r \in Requests, RequestStep(r)
      PROVE  Refined
  BY <1>1, RequestRefined
<1>2. ASSUME NEW d \in Deployments, WorkerStep(d)
      PROVE  Refined
  BY <1>2, WorkerRefined DEF AllSettled, AllCommitInv, AllRefInv
<1>3. CASE UserStep \/ Environment \/ UNCHANGED vars
  BY <1>3, OthersRefined
<1> QED
  BY <1>1, <1>2, <1>3 DEF Next

\* Whatever fails, is lost or crashes, publishing behaves as if deployments
\* ran one after the other: the site only ever changes to the content of the
\* one that runs, it alone adds to the branches beside those who push on their
\* own, and it succeeds only when the site shows its content in full and a
\* branch holds it, later than all else the publisher pushed there.  This
\* rests on the lock outliving its holder.
THEOREM PublishIsSerial ==
  ASSUME LockTiming
  PROVE  Spec => SerialSpec
  <1>1. Init => Serial!Init
    BY SerialInit
  <1>2. TypeOK /\ HasSnapshot /\ MutualExclusion /\ AllSettled /\ AllCommitInv
          /\ AllRefInv /\ [Next]_vars => [Serial!Next]_(Serial!vars)
    BY StepRefined DEF Refined, Stutter, Serial!vars
  <1> QED
    BY <1>1, <1>2, TypeCorrect, OnePublishAtATime, AlwaysSettled,
       AlwaysCommitInv, AlwaysRefInv, PTL DEF Spec, SerialSpec, Serial!Spec
=============================================================================
