---------------------------- MODULE CommitProofs ----------------------------
(***************************************************************************)
(* Proofs about what Publish leaves on GitHub: no commit is ever changed,  *)
(* and a deployment that reports success has its content in one.           *)
(***************************************************************************)
EXTENDS PublishProofs

\* The branch h2 has every commit of h1 where h1 had it.
Extends(h2, h1) ==
  \A i \in DOMAIN h1 : i \in DOMAIN h2 /\ h2[i].draft = h1[i].draft

\* A branch got one commit more.
Grows(repo, c) == commits' = [commits EXCEPT ![repo] = Append(commits[repo], c)]

BranchesGrow == \A r \in Repos : Extends(commits'[r], commits[r])

\* A push adds one commit at the end.
LEMMA AppendExtends ==
  ASSUME NEW h \in Seq(Commit), NEW c \in Commit
  PROVE  /\ Extends(Append(h, c), h)
         /\ Len(h) + 1 \in DOMAIN Append(h, c)
         /\ Append(h, c)[Len(h) + 1] = c
  BY DEF Extends

LEMMA GrowsExtends ==
  ASSUME TypeOK, NEW repo \in Repos, NEW c \in Commit, Grows(repo, c)
  PROVE  BranchesGrow
  <1>1. commits \in [Repos -> Seq(Commit)]
    BY DEF TypeOK
  <1>2. Extends(Append(commits[repo], c), commits[repo])
    BY <1>1, AppendExtends
  <1>3. \A r \in Repos : r # repo => commits'[r] = commits[r]
    BY <1>1 DEF Grows
  <1>4. commits'[repo] = Append(commits[repo], c)
    BY <1>1 DEF Grows
  <1>5. \A h : Extends(h, h)
    BY DEF Extends
  <1> QED
    BY <1>2, <1>3, <1>4, <1>5 DEF BranchesGrow

\* The only steps that touch a branch are the pushes and the outcome of a build.
LEMMA StepGrows ==
  ASSUME TypeOK, HasSnapshot, [Next]_vars
  PROVE  BranchesGrow
  <1>1. CASE UNCHANGED commits
    BY <1>1 DEF BranchesGrow, Extends
  <1>2. ASSUME NEW d \in Deployments, PushCommit(d)
        PROVE  BranchesGrow
    <2>1. Target(d) \in Repos /\ OwnCommit(d) \in Commit
      BY <1>2, WorkerTarget DEF PushCommit, OwnCommit, Commit
    <2>2. UNCHANGED commits \/ Grows(Target(d), OwnCommit(d))
      BY <1>2 DEF PushCommit, Grows
    <2> QED
      BY <1>1, <2>1, <2>2, GrowsExtends
  <1>3. ASSUME NEW repo \in Repos, NEW i \in 1..Len(commits[repo]),
               PagesOutcome(repo, i)
        PROVE  BranchesGrow
    <2>1. /\ commits \in [Repos -> Seq(Commit)]
          /\ i \in DOMAIN commits[repo]
      BY <1>3 DEF TypeOK, PagesOutcome
    <2>2. PICK p \in {"live", "failed"} :
            commits' = [commits EXCEPT ![repo][i].pages = p]
      BY <1>3 DEF PagesOutcome
    <2>3. commits[repo][i] \in Commit
      BY <2>1
    <2>4. \A r \in Repos : r # repo => commits'[r] = commits[r]
      BY <2>1, <2>2
    <2>5. commits'[repo] = [commits[repo] EXCEPT ![i] =
                              [commits[repo][i] EXCEPT !.pages = p]]
      BY <2>1, <2>2, Zenon
    <2>6. [commits[repo][i] EXCEPT !.pages = p].draft = commits[repo][i].draft
      BY <2>3 DEF Commit
    <2>7. commits[repo] \in Seq(Commit)
      BY <2>1
    <2>8. ASSUME NEW j \in DOMAIN commits[repo]
          PROVE  j \in DOMAIN commits'[repo] /\
                 commits'[repo][j].draft = commits[repo][j].draft
      <3>1. CASE j = i
        BY <2>5, <2>6, <2>8, <3>1
      <3>2. CASE j # i
        BY <2>5, <2>8, <3>2
      <3> QED
        BY <3>1, <3>2
    <2> QED
      BY <2>4, <2>8 DEF BranchesGrow, Extends
  <1>4. ASSUME NEW d \in Deployments, WorkerStep(d), ~PushCommit(d)
        PROVE  UNCHANGED commits
    BY <1>4 DEF WorkerStep, StartBuilding, Build, ClearSite, WriteSite,
       StartDeploying, SaveRepo, CloneRepo, PushNothing, RecordCommit,
       AwaitPages, Finish, Fail, Release
  <1>5. ASSUME NEW r \in Requests, RequestStep(r)
        PROVE  UNCHANGED commits
    BY <1>5 DEF RequestStep, AcquireLock, StartDeployment, InsertFails, AbandonLock
  <1>6. CASE UserStep
    BY <1>1, <1>6 DEF UserStep, EditContent, SaveSettings, HandlePublish,
       HandleRollback, Submit
  <1>7. CASE Environment
    <2>1. ASSUME NEW repo \in Repos, NEW c \in OtherDrafts, OtherPush(repo, c)
          PROVE  BranchesGrow
      BY <2>1, OtherPushFrame, GrowsExtends DEF Grows
    <2> QED
      BY <1>1, <1>3, <1>7, <2>1 DEF Environment, Crash, Tick
  <1>8. CASE UNCHANGED vars
    BY <1>1, <1>8 DEF vars
  <1> QED
    BY <1>1, <1>2, <1>4, <1>5, <1>6, <1>7, <1>8 DEF Next

\* "Cloning (rather than force-push from scratch) preserves deployment
\* history": a commit is never removed or rewritten, also when the clone
\* failed and a fresh repository was pushed.
THEOREM HistoryIsPreserved == Spec => HistoryPreserved
  <1>1. TypeOK /\ HasSnapshot /\ [Next]_vars =>
          [\A r \in Repos : \A i \in DOMAIN commits[r] :
             /\ i \in DOMAIN commits'[r]
             /\ commits'[r][i].draft = commits[r][i].draft]_vars
    BY StepGrows DEF BranchesGrow, Extends
  <1> QED
    BY <1>1, TypeCorrect, PTL DEF Spec, HistoryPreserved

-----------------------------------------------------------------------------
(* A success is pushed.                                                     *)

\* Commit i of a repository exists and holds draft c.
Holds(repo, i, c) == i \in DOMAIN commits[repo] /\ commits[repo][i].draft = c

\* After its push, a worker's head is a commit with its content ...
Pushed(d) ==
  workers[d].pc \in {"record", "await"} \cup (IF UseGitHub THEN {"finish"} ELSE {})
    => Holds(Target(d), workers[d].head, SnapOf(d).draft)

\* ... whose name Push returned, unless its rev-parse failed ...
Returned(d) ==
  workers[d].pc \in {"record", "await"} \cup (IF UseGitHub THEN {"finish"} ELSE {})
    => \/ workers[d].hash = workers[d].head
       \/ workers[d].hash = 0 /\ "git" \in Faults

\* ... and which its row has from then on.
Named(d) ==
  workers[d].pc \in {"await"} \cup (IF UseGitHub THEN {"finish"} ELSE {})
    => /\ deployments[d].repo = Target(d)
       /\ deployments[d].commit = workers[d].hash

\* Some commit i has the content, and hash names it or, git failing, none.
OnBranch(repo, hash, c) ==
  \E i : /\ Holds(repo, i, c)
         /\ hash = i \/ (hash = 0 /\ "git" \in Faults)

Success(d) ==
  UseGitHub /\ deployments[d].status = "succeeded" =>
    /\ deployments[d].repo \in Repos
    /\ OnBranch(deployments[d].repo, deployments[d].commit, deployments[d].snap.draft)

CommitInv(d) == Pushed(d) /\ Returned(d) /\ Named(d) /\ Success(d)

\* Whatever happens to the branches, a commit that was there still is.
LEMMA HoldsOn ==
  ASSUME BranchesGrow, NEW repo \in Repos, NEW i, NEW c, Holds(repo, i, c)
  PROVE  Holds(repo, i, c)'
  BY DEF BranchesGrow, Extends, Holds

LEMMA OnBranchStays ==
  ASSUME BranchesGrow, NEW repo \in Repos, NEW hash, NEW c, OnBranch(repo, hash, c)
  PROVE  OnBranch(repo, hash, c)'
  BY HoldsOn DEF OnBranch

\* A worker past its push has its content on the branch.
LEMMA PushedOnBranch ==
  ASSUME NEW d \in Deployments, Pushed(d), Returned(d),
         workers[d].pc \in {"record", "await"} \cup (IF UseGitHub THEN {"finish"} ELSE {})
  PROVE  OnBranch(Target(d), workers[d].hash, SnapOf(d).draft)
  BY DEF Pushed, Returned, OnBranch

\* A successful row keeps its commit.
LEMMA SuccessStays ==
  ASSUME BranchesGrow, NEW d \in Deployments, Success(d),
         deployments'[d].snap = deployments[d].snap,
         deployments'[d].repo = deployments[d].repo,
         deployments'[d].commit = deployments[d].commit,
         deployments'[d].status = "succeeded" => deployments[d].status = "succeeded"
  PROVE  Success(d)'
  BY OnBranchStays DEF Success

\* Outside the three points the invariant speaks of, only the row matters.
LEMMA EarlyOrLate ==
  ASSUME NEW d \in Deployments, Success(d)',
         workers'[d].pc \notin {"record", "await", "finish"}
  PROVE  CommitInv(d)'
  BY DEF CommitInv, Pushed, Returned, Named

\* A worker that does not move, or dies, and whose row is not written.
LEMMA Unmoved ==
  ASSUME TypeOK, HasSnapshot, BranchesGrow, NEW d \in Deployments, CommitInv(d),
         deployments'[d] = deployments[d],
         \/ /\ workers'[d].pc = workers[d].pc
            /\ workers'[d].head = workers[d].head
            /\ workers'[d].hash = workers[d].hash
         \/ workers'[d].pc = "dead"
  PROVE  CommitInv(d)'
  <1>1. Success(d)'
    BY SuccessStays DEF CommitInv
  <1>2. CASE workers'[d].pc \notin {"record", "await", "finish"}
    BY <1>1, <1>2, EarlyOrLate
  <1>3. CASE /\ workers[d].pc \in {"record", "await", "finish"}
             /\ workers'[d].pc = workers[d].pc
             /\ workers'[d].head = workers[d].head
             /\ workers'[d].hash = workers[d].hash
    <2>1. Target(d) \in Repos
      BY <1>3, WorkerTarget
    <2>2. Target(d)' = Target(d) /\ SnapOf(d)' = SnapOf(d)
      BY DEF Target, SnapOf
    <2>3. Pushed(d)'
      BY <1>3, <2>1, <2>2, HoldsOn DEF CommitInv, Pushed
    <2>4. Named(d)' /\ Returned(d)'
      BY <1>3, <2>2 DEF CommitInv, Named, Returned
    <2> QED
      BY <1>1, <2>3, <2>4 DEF CommitInv
  <1> QED
    BY <1>2, <1>3

\* What the steps of a worker do to its row and its place in run: its target
\* stays, and only two of them write what the invariant is about.
LEMMA WorkerRow ==
  ASSUME TypeOK, NEW d \in Deployments, WorkerStep(d)
  PROVE  /\ deployments'[d].snap = deployments[d].snap
         /\ Target(d)' = Target(d) /\ SnapOf(d)' = SnapOf(d)
         /\ \A pc : Goto(d, pc) =>
              /\ workers'[d].pc = pc
              /\ workers'[d].head = workers[d].head
              /\ workers'[d].hash = workers[d].hash
         /\ \A o, st : SetStatus(d, o, st) =>
              /\ deployments'[d].repo = deployments[d].repo
              /\ deployments'[d].commit = deployments[d].commit
              /\ deployments'[d].status \in {st, deployments[d].status}
  <1>1. deployments'[d].snap = deployments[d].snap
    BY WorkerFrame DEF KeepsRows
  <1>2. Target(d)' = Target(d) /\ SnapOf(d)' = SnapOf(d)
    BY <1>1 DEF Target, SnapOf
  <1>3. ASSUME NEW pc, Goto(d, pc)
        PROVE  /\ workers'[d].pc = pc
               /\ workers'[d].head = workers[d].head
               /\ workers'[d].hash = workers[d].hash
    BY <1>3 DEF Goto, TypeOK, Worker
  <1>4. ASSUME NEW o, NEW st, SetStatus(d, o, st)
        PROVE  /\ deployments'[d].repo = deployments[d].repo
               /\ deployments'[d].commit = deployments[d].commit
               /\ deployments'[d].status \in {st, deployments[d].status}
    BY <1>4 DEF SetStatus, TypeOK, Row
  <1> QED
    BY <1>1, <1>2, <1>3, <1>4

\* What Push leaves behind when it succeeds.
LEMMA ReturnsFrame ==
  ASSUME TypeOK, NEW d \in Deployments, NEW head, NEW hash, Returns(d, head, hash)
  PROVE  /\ workers'[d].pc = "record"
         /\ workers'[d].head = head
         /\ workers'[d].hash = hash
  BY DEF Returns, TypeOK, Worker

\* A worker's push, and "nothing to commit", leave its head on its content.
LEMMA PushNames ==
  ASSUME TypeOK, HasSnapshot, NEW d \in Deployments,
         PushCommit(d) \/ PushNothing(d), workers'[d].pc # "fail"
  PROVE  /\ workers'[d].pc = "record"
         /\ Holds(Target(d), workers[d].head, SnapOf(d).draft)'
         /\ Returned(d)'
  <1> DEFINE c == OwnCommit(d)
  <1>1. Target(d) \in Repos /\ c \in Commit /\ c.draft = SnapOf(d).draft
    BY WorkerTarget DEF PushCommit, PushNothing, OwnCommit, Commit
  <1>2. commits \in [Repos -> Seq(Commit)]
    BY DEF TypeOK
  <1>3. Target(d)' = Target(d) /\ SnapOf(d)' = SnapOf(d)
    BY DEF PushCommit, PushNothing, Target, SnapOf
  <1>4. ~Goto(d, "fail")
    BY DEF Goto, TypeOK, Worker
  <1>5. CASE PushNothing(d)
    <2>1. PICK hash \in {workers[d].head} \cup (IF "git" \in Faults THEN {0} ELSE {}) :
            Returns(d, workers[d].head, hash)
      BY <1>4, <1>5 DEF PushNothing
    <2>2. /\ workers'[d].pc = "record"
          /\ workers'[d].head = workers[d].head
          /\ workers'[d].hash = hash
      BY <2>1, ReturnsFrame
    <2> QED
      BY <1>3, <1>5, <2>2 DEF PushNothing, NothingToCommit, Holds, Returned
  <1>6. CASE PushCommit(d)
    <2>1. /\ FastForward(d)
          /\ Returns(d, workers[d].head + 1, workers[d].head + 1)
          /\ commits' = [commits EXCEPT ![Target(d)] = Append(@, c)]
      BY <1>4, <1>6 DEF PushCommit, Applied
    <2>2. /\ workers'[d].pc = "record"
          /\ workers'[d].head = workers[d].head + 1
          /\ workers'[d].hash = workers'[d].head
      BY <2>1, ReturnsFrame
    <2>3. commits'[Target(d)] = Append(commits[Target(d)], c)
      BY <1>1, <1>2, <2>1
    <2>4. workers[d].head = Len(commits[Target(d)])
      BY <2>1 DEF FastForward
    <2>5. commits[Target(d)] \in Seq(Commit)
      BY <1>1, <1>2
    <2> HIDE DEF c
    <2>6. /\ workers'[d].head \in DOMAIN commits'[Target(d)]
          /\ commits'[Target(d)][workers'[d].head] = c
      BY <1>1, <2>2, <2>3, <2>4, <2>5, AppendExtends
    <2> QED
      BY <1>1, <1>3, <1>6, <2>2, <2>6 DEF Holds, Returned
  <1> QED
    BY <1>5, <1>6

\* Every step of a worker keeps the invariant of its own deployment: the push
\* establishes it, RecordCommit writes it down, Finish relies on it.
LEMMA WorkerCommits ==
  ASSUME TypeOK, HasSnapshot, BranchesGrow, NEW d \in Deployments,
         CommitInv(d), WorkerStep(d)
  PROVE  CommitInv(d)'
  <1> DEFINE late == {"record", "await", "finish"}
             sameCommit == /\ deployments'[d].repo = deployments[d].repo
                           /\ deployments'[d].commit = deployments[d].commit
  <1>1. /\ deployments'[d].snap = deployments[d].snap
        /\ Target(d)' = Target(d) /\ SnapOf(d)' = SnapOf(d)
        /\ \A pc : Goto(d, pc) =>
             /\ workers'[d].pc = pc
             /\ workers'[d].head = workers[d].head
             /\ workers'[d].hash = workers[d].hash
        /\ \A o, st : SetStatus(d, o, st) =>
             sameCommit /\ deployments'[d].status \in {st, deployments[d].status}
    BY WorkerRow
  <1>2. Target(d) \in Repos
    <2>1. workers[d].pc # "none"
      BY WorkerFrame DEF Live
    <2> QED
      BY <2>1, WorkerTarget
  <1>3. Success(d) /\ Pushed(d) /\ Returned(d) /\ Named(d)
    BY DEF CommitInv
  <1> HIDE DEF late, sameCommit
  <1>4. ASSUME sameCommit, workers'[d].pc \notin late,
               deployments'[d].status = "succeeded" =>
                 deployments[d].status = "succeeded"
        PROVE  CommitInv(d)'
    BY <1>1, <1>3, <1>4, SuccessStays, EarlyOrLate DEF sameCommit, late
  <1>5. ASSUME UNCHANGED deployments, workers'[d].pc \notin late
        PROVE  CommitInv(d)'
    BY <1>4, <1>5 DEF sameCommit
  <1>6. CASE StartBuilding(d)
    <2>1. /\ workers'[d].pc = "build"
          /\ sameCommit
          /\ deployments'[d].status \in {"building", deployments[d].status}
      BY <1>1, <1>6 DEF StartBuilding
    <2> QED
      BY <1>4, <2>1 DEF late
  <1>7. CASE StartDeploying(d)
    <2>1. /\ workers'[d].pc \in {"save", "clone"}
          /\ sameCommit
          /\ deployments'[d].status \in {"deploying", deployments[d].status}
      BY <1>1, <1>7 DEF StartDeploying
    <2> QED
      BY <1>4, <2>1 DEF late
  <1>8. CASE Fail(d)
    <2>1. /\ workers'[d].pc = "release"
          /\ sameCommit
          /\ deployments'[d].status \in {"failed", deployments[d].status}
      BY <1>1, <1>8 DEF Fail
    <2> QED
      BY <1>4, <2>1 DEF late
  <1>9. CASE Build(d) \/ ClearSite(d) \/ SaveRepo(d)
    <2>1. workers'[d].pc \in {"clear", "write", "clone", "fail"}
      BY <1>1, <1>9 DEF Build, ClearSite, SaveRepo
    <2> QED
      BY <1>5, <1>9, <2>1 DEF Build, ClearSite, SaveRepo, late
  <1>10. CASE CloneRepo(d)
    <2>1. workers'[d].pc \in {"push", "fail"}
      <3>1. \A head : workers' = [workers EXCEPT ![d] =
                                    [@ EXCEPT !.pc = "push", !.head = head]]
                        => workers'[d].pc = "push"
        BY DEF TypeOK, Worker
      <3>2. Goto(d, "fail") => workers'[d].pc = "fail"
        BY <1>1
      <3> QED
        BY <1>10, <3>1, <3>2 DEF CloneRepo
    <2> QED
      BY <1>5, <1>10, <2>1 DEF CloneRepo, late
  <1>11. CASE Release(d)
    <2>1. workers'[d].pc = "done"
      BY <1>11 DEF Release, NoWorker, TypeOK
    <2> QED
      BY <1>5, <1>11, <2>1 DEF Release, late
  <1>12. CASE WriteSite(d)
    <2>1. workers'[d].pc \in {"deploy", "fail"} \cup (IF UseGitHub THEN {} ELSE {"finish"})
      BY <1>1, <1>12 DEF WriteSite
    <2>2. Success(d)'
      BY <1>3, <1>12, SuccessStays DEF WriteSite
    <2> QED
      BY <2>1, <2>2 DEF CommitInv, Pushed, Returned, Named
  <1>13. CASE PushCommit(d) \/ PushNothing(d)
    <2>1. UNCHANGED deployments
      BY <1>13 DEF PushCommit, PushNothing
    <2>2. CASE workers'[d].pc = "fail"
      BY <1>5, <2>1, <2>2 DEF late
    <2>3. CASE workers'[d].pc # "fail"
      <3>1. Pushed(d)' /\ Returned(d)' /\ workers'[d].pc = "record"
        BY <1>13, <2>3, PushNames DEF Pushed
      <3>2. Success(d)'
        BY <1>3, <2>1, SuccessStays
      <3> QED
        BY <3>1, <3>2 DEF CommitInv, Named
    <2> QED
      BY <2>2, <2>3
  <1>14. CASE RecordCommit(d)
    <2>1. /\ Holds(Target(d), workers[d].head, SnapOf(d).draft)'
          /\ OnBranch(Target(d), workers[d].hash, SnapOf(d).draft)'
      <3>1. /\ Holds(Target(d), workers[d].head, SnapOf(d).draft)
            /\ OnBranch(Target(d), workers[d].hash, SnapOf(d).draft)
        BY <1>3, <1>14, PushedOnBranch DEF RecordCommit, Pushed
      <3>2. workers'[d].head = workers[d].head /\ workers'[d].hash = workers[d].hash
        BY <1>1, <1>14 DEF RecordCommit
      <3> QED
        BY <1>1, <1>2, <3>1, <3>2, HoldsOn, OnBranchStays
    <2>2. workers'[d].pc \in {"await", "finish", "fail"}
      BY <1>1, <1>14 DEF RecordCommit
    <2>3. workers'[d].head = workers[d].head /\ workers'[d].hash = workers[d].hash
      BY <1>1, <1>14 DEF RecordCommit
    <2>4. CASE UNCHANGED deployments /\ workers'[d].pc = "fail"
      BY <1>5, <2>4 DEF late
    <2>5. CASE deployments' = [deployments EXCEPT ![d] =
                 [@ EXCEPT !.repo = Target(d), !.commit = workers[d].hash]]
      <3>1. /\ deployments'[d].repo = Target(d)
            /\ deployments'[d].commit = workers[d].hash
        BY <2>5 DEF TypeOK, Row
      <3>2. Pushed(d)' /\ Returned(d)'
        BY <1>3, <1>14, <2>1, <2>3 DEF Pushed, Returned, RecordCommit
      <3>3. Named(d)'
        BY <1>1, <2>3, <3>1 DEF Named
      <3>4. Success(d)'
        BY <1>1, <1>2, <2>1, <2>3, <3>1 DEF Success, SnapOf
      <3> QED
        BY <3>2, <3>3, <3>4 DEF CommitInv
    <2> QED
      BY <1>1, <1>14, <2>4, <2>5 DEF RecordCommit, Applied
  <1>15. CASE AwaitPages(d)
    <2>1. /\ workers'[d].pc \in {"finish", "fail"}
          /\ workers'[d].head = workers[d].head
          /\ workers'[d].hash = workers[d].hash
          /\ workers[d].pc = "await"
          /\ UNCHANGED deployments
      BY <1>1, <1>15 DEF AwaitPages
    <2>2. Pushed(d)'
      BY <1>1, <1>2, <1>3, <2>1, HoldsOn DEF Pushed
    <2>3. Named(d)' /\ Returned(d)'
      BY <1>1, <1>3, <2>1 DEF Named, Returned
    <2>4. Success(d)'
      BY <1>3, <2>1, SuccessStays
    <2> QED
      BY <2>2, <2>3, <2>4 DEF CommitInv
  <1>16. CASE Finish(d)
    <2>1. /\ workers[d].pc = "finish"
          /\ workers'[d].pc \in {"release", "fail"}
          /\ sameCommit
      BY <1>1, <1>16 DEF Finish
    <2>2. UseGitHub =>
            /\ deployments[d].repo = Target(d)
            /\ OnBranch(deployments[d].repo, deployments[d].commit, SnapOf(d).draft)
      BY <1>3, <2>1, PushedOnBranch DEF Named
    <2>3. Success(d)'
      BY <1>1, <1>2, <2>1, <2>2, OnBranchStays DEF Success, sameCommit, SnapOf
    <2> QED
      BY <2>1, <2>3, EarlyOrLate
  <1> QED
    BY <1>6, <1>7, <1>8, <1>9, <1>10, <1>11, <1>12, <1>13, <1>14, <1>15, <1>16
    DEF WorkerStep

\* Nobody else writes what the invariant is about, but for a new row.
LEMMA OthersCommits ==
  ASSUME TypeOK, HasSnapshot, BranchesGrow, \A d \in Deployments : CommitInv(d),
         \/ UserStep \/ Environment \/ UNCHANGED vars
         \/ \E r \in Requests : RequestStep(r)
  PROVE  \A d \in Deployments : CommitInv(d)'
  <1>1. ASSUME NEW d \in Deployments, deployments[d].status = "none",
               deployments'[d].status = "queued",
               workers'[d].pc \in {"start", workers[d].pc}
        PROVE  CommitInv(d)'
    <2>1. workers[d].pc = "none"
      BY <1>1 DEF HasSnapshot
    <2> QED
      BY <1>1, <2>1 DEF CommitInv, Pushed, Returned, Named, Success
  <1>2. CASE UNCHANGED <<deployments, workers>>
    BY <1>2, Unmoved
  <1>3. ASSUME NEW r \in Requests, NEW e \in Deployments, StartDeployment(r, e)
        PROVE  \A d \in Deployments : CommitInv(d)'
    <2>1. /\ deployments[e].status = "none"
          /\ deployments'[e].status = "queued"
          /\ workers'[e].pc = "start"
          /\ \A d \in Deployments : d # e =>
               deployments'[d] = deployments[d] /\ workers'[d] = workers[d]
      BY <1>3 DEF StartDeployment, Unused, NewRow, NoWorker, TypeOK
    <2> QED
      BY <1>1, <2>1, Unmoved
  <1>4. ASSUME NEW r \in Requests, InsertFails(r)
        PROVE  \A d \in Deployments : CommitInv(d)'
    <2>1. \A d \in Deployments :
            \/ deployments'[d] = deployments[d]
            \/ deployments[d].status = "none" /\ deployments'[d].status = "queued"
      BY <1>4 DEF InsertFails, Unused, NewRow, TypeOK
    <2>2. workers' = workers
      BY <1>4 DEF InsertFails
    <2> QED
      BY <1>1, <2>1, <2>2, Unmoved
  <1>5. CASE Tick
    <2>1. ASSUME NEW d \in Deployments
          PROVE  /\ workers'[d].pc = workers[d].pc
                 /\ workers'[d].head = workers[d].head
                 /\ workers'[d].hash = workers[d].hash
      <3>1. workers[d] \in Worker
        BY DEF TypeOK
      <3> QED
        BY <1>5, <3>1 DEF Tick, Worker
    <2> QED
      BY <1>5, <2>1, Unmoved DEF Tick
  <1>6. ASSUME NEW R \in SUBSET Requests, NEW D \in SUBSET Deployments, Crash(R, D)
        PROVE  \A d \in Deployments : CommitInv(d)'
    <2>1. \A d \in Deployments :
            workers'[d] = workers[d] \/ workers'[d] = NoWorker("dead")
      BY <1>6, CrashFrame
    <2>2. NoWorker("dead").pc = "dead"
      BY DEF NoWorker
    <2>3. UNCHANGED deployments
      BY <1>6 DEF Crash
    <2> QED
      BY <2>1, <2>2, <2>3, Unmoved
  <1>7. CASE \/ UserStep \/ UNCHANGED vars
             \/ \E repo \in Repos : \/ \E i \in 1..Len(commits[repo]) :
                                        PagesOutcome(repo, i)
                                  \/ \E c \in OtherDrafts : OtherPush(repo, c)
             \/ \E r \in Requests : AcquireLock(r) \/ AbandonLock(r)
    <2>1. UNCHANGED <<deployments, workers>>
      BY <1>7 DEF UserStep, EditContent, SaveSettings, HandlePublish,
         HandleRollback, Submit, vars, PagesOutcome, OtherPush, AcquireLock, AbandonLock
    <2> QED
      BY <1>2, <2>1
  <1> QED
    BY <1>3, <1>4, <1>5, <1>6, <1>7 DEF Environment, RequestStep

AllCommitInv == \A d \in Deployments : CommitInv(d)

LEMMA AlwaysCommitInv == Spec => []AllCommitInv
  <1>1. Init => AllCommitInv
    <2> SUFFICES ASSUME Init, NEW d \in Deployments
                 PROVE  CommitInv(d)
      BY DEF AllCommitInv
    <2>1. deployments[d].status = "none" /\ workers[d].pc = "none"
      BY DEF Init, NoWorker
    <2> QED
      BY <2>1 DEF CommitInv, Pushed, Returned, Named, Success
  <1>2. TypeOK /\ HasSnapshot /\ AllCommitInv /\ [Next]_vars => AllCommitInv'
    <2> SUFFICES ASSUME TypeOK, HasSnapshot, AllCommitInv, [Next]_vars
                 PROVE  AllCommitInv'
      OBVIOUS
    <2> USE DEF AllCommitInv
    <2>1. BranchesGrow
      BY StepGrows
    <2>2. ASSUME NEW e \in Deployments, WorkerStep(e)
          PROVE  AllCommitInv'
      <3>1. \A d \in Deployments : d # e =>
              deployments'[d] = deployments[d] /\ workers'[d] = workers[d]
        BY <2>2, WorkerFrame DEF KeepsRows, Advances, Ends
      <3> QED
        BY <2>1, <2>2, <3>1, WorkerCommits, Unmoved
    <2> QED
      BY <2>1, <2>2, OthersCommits DEF Next
  <1> QED
    BY <1>1, <1>2, TypeCorrect, PTL DEF Spec

\* A deployment that reports success on GitHub has its own snapshot in a
\* commit of its repository, also after a push whose reply was lost, a failed
\* clone or "nothing to commit", and whatever is published later, by workers
\* that overlap included: nothing is assumed of the lock.  Its row names such a
\* commit unless a git call failed, and then such a commit or none.
THEOREM SuccessesArePushed == Spec => []SuccessIsPushed
  <1>1. \A repo, i, c : Holds(repo, i, c) <=> i \in CommitsOf(repo, c)
    BY DEF Holds, CommitsOf
  <1>2. AllCommitInv => SuccessIsPushed
    BY <1>1 DEF AllCommitInv, CommitInv, Success, OnBranch, SuccessIsPushed
  <1> QED
    BY <1>2, AlwaysCommitInv, PTL
=============================================================================
