---------------------------- MODULE StatusProofs ----------------------------
(***************************************************************************)
(* More theorems about Publish, on the frames PublishProofs establishes:   *)
(* a lock always has a holder unless something outside fails, a final      *)
(* status is kept, and one is left behind by a worker that is in time.     *)
(***************************************************************************)
EXTENDS PublishProofs

-----------------------------------------------------------------------------
(* The lock and its holder.                                                 *)

\* Nothing but the program's own steps touches the lock.
Undisturbed == "crash" \notin Faults /\ ~CacheFails({"cache", "client"})

\* A request leaves a lock behind only to the worker it started.
LEMMA RequestKeepsHolder ==
  ASSUME TypeOK, NoStrayLock, Undisturbed, NEW r \in Requests, RequestStep(r)
  PROVE  NoStrayLock'
  <1>1. CASE AcquireLock(r)
    <2>1. CASE requests' = [requests EXCEPT ![r].pc = "insert"]
      <3>1. Holding(r)'
        BY <2>1 DEF Holding, TypeOK, Request
      <3> QED
        BY <3>1 DEF NoStrayLock
    <2>2. CASE /\ requests[r].pc = "lock"
               /\ requests' = [requests EXCEPT ![r] = Idle]
               /\ UNCHANGED <<lock, workers>>
      <3>1. \A q \in Requests : Holding(q) => Holding(q)'
        BY <2>2 DEF Holding, TypeOK
      <3> QED
        BY <2>2, <3>1 DEF NoStrayLock, Live
    <2> QED
      BY <1>1, <2>1, <2>2 DEF AcquireLock, Undisturbed
  <1>2. ASSUME NEW d \in Deployments, StartDeployment(r, d)
        PROVE  NoStrayLock'
    <2>1. Live(d)'
      BY <1>2 DEF StartDeployment, Live, NoWorker, TypeOK
    <2> QED
      BY <2>1 DEF NoStrayLock
  <1>3. CASE InsertFails(r)
    <2>1. Holding(r)'
      BY <1>3 DEF InsertFails, Holding, TypeOK, Request
    <2> QED
      BY <2>1 DEF NoStrayLock
  <1>4. CASE AbandonLock(r)
    <2>1. lock' = 0
      BY <1>4 DEF AbandonLock, DeleteLock, Undisturbed
    <2> QED
      BY <2>1 DEF NoStrayLock
  <1> QED
    BY <1>1, <1>2, <1>3, <1>4 DEF RequestStep

\* A worker is alive until it has deleted the lock.
LEMMA WorkerKeepsHolder ==
  ASSUME TypeOK, Undisturbed, NEW d \in Deployments, WorkerStep(d)
  PROVE  NoStrayLock'
  <1>1. CASE Advances(d)
    BY <1>1 DEF Advances, NoStrayLock
  <1>2. CASE Ends(d)
    <2>1. lock' = 0
      BY <1>2 DEF Ends, DeleteLock, CacheFails, Undisturbed
    <2> QED
      BY <2>1 DEF NoStrayLock
  <1> QED
    BY <1>1, <1>2, WorkerFrame

\* Editing, submitting, time and Cloudflare leave the holder what it is.
LEMMA OthersKeepHolder ==
  ASSUME TypeOK, NoStrayLock, Undisturbed, UserStep \/ Environment
  PROVE  NoStrayLock'
  <1>1. ASSUME NEW r \in Requests, NEW snap, Submit(r, snap)
        PROVE  NoStrayLock'
    <2>1. \A q \in Requests : Holding(q) => Holding(q)'
      BY <1>1 DEF Submit, Holding, TypeOK, Request
    <2> QED
      BY <1>1, <2>1 DEF Submit, NoStrayLock, Live
  <1>2. CASE Tick
    <2>1. /\ \A r \in Requests : Holding(r)' <=> Holding(r)
          /\ \A d \in Deployments : Live(d)' <=> Live(d)
      BY <1>2, TickFrame DEF Holding, Live
    <2>2. lock' > 0 => lock > 0
      BY <1>2, PublishAssumption DEF Tick, TypeOK
    <2> QED
      BY <2>1, <2>2 DEF NoStrayLock
  <1>3. CASE \/ \E c \in Drafts : EditContent(c) \/ SaveSettings(c)
             \/ \E repo \in Repos : \/ \E i \in 1..Len(commits[repo]) :
                                        PagesOutcome(repo, i)
                                  \/ \E c \in OtherDrafts : OtherPush(repo, c)
    BY <1>3 DEF EditContent, SaveSettings, PagesOutcome, OtherPush, NoStrayLock,
       Holding, Live
  <1>4. ASSUME NEW R, NEW D, Crash(R, D)
        PROVE  FALSE
    BY <1>4 DEF Crash, Undisturbed
  <1> QED
    BY <1>1, <1>2, <1>3, <1>4
    DEF UserStep, Environment, HandlePublish, HandleRollback

\* Every path through StartPublish and the goroutine gives the lock back:
\* unless a process stops or Redis misses a call, a lock that is set has a
\* holder at work, however often the database or a file fails, and even when
\* the lock expires under its holder.
THEOREM LockHasHolder == Spec => []NoStrayLock
  <1>1. Init => NoStrayLock
    BY DEF Init, NoStrayLock
  <1>2. TypeOK /\ NoStrayLock /\ [Next]_vars => NoStrayLock'
    <2> SUFFICES ASSUME TypeOK, NoStrayLock, [Next]_vars, Undisturbed
                 PROVE  NoStrayLock'
      BY DEF NoStrayLock, Undisturbed, CacheFails
    <2>1. CASE UserStep \/ Environment
      BY <2>1, OthersKeepHolder
    <2>2. ASSUME NEW r \in Requests, RequestStep(r)
          PROVE  NoStrayLock'
      BY <2>2, RequestKeepsHolder
    <2>3. ASSUME NEW d \in Deployments, WorkerStep(d)
          PROVE  NoStrayLock'
      BY <2>3, WorkerKeepsHolder
    <2>4. CASE UNCHANGED vars
      BY <2>4 DEF vars, NoStrayLock, Holding, Live
    <2> QED
      BY <2>1, <2>2, <2>3, <2>4 DEF Next
  <1> QED
    BY <1>1, <1>2, TypeCorrect, PTL DEF Spec

-----------------------------------------------------------------------------
(* Final statuses.                                                          *)

Ended == {"release", "done", "dead"}

\* Once a status is final its goroutine is past the point where it writes
\* another one; only a lost reply lets a success go through fail.
Settled(d) ==
  /\ deployments[d].status = "failed" => workers[d].pc \in Ended
  /\ deployments[d].status = "succeeded" =>
       workers[d].pc \in Ended \/ (workers[d].pc = "fail" /\ "db" \in Faults)

\* What FinalStatusKept says of one deployment.
Kept(d) ==
  /\ deployments[d].status = "failed" => deployments'[d].status = "failed"
  /\ deployments[d].status = "succeeded" /\ "db" \notin Faults =>
       deployments'[d].status = "succeeded"

\* The effect of Goto and SetStatus on the two fields that matter.
LEMMA Moves ==
  ASSUME TypeOK, NEW d \in Deployments
  PROVE  /\ \A pc : Goto(d, pc) => workers'[d].pc = pc
         /\ \A o, st : SetStatus(d, o, st) =>
              \/ deployments'[d].status = st /\ o \in {"ok", "lost"}
              \/ deployments'[d].status = deployments[d].status
                 /\ o \notin {"ok", "lost"}
  BY DEF TypeOK, Worker, Row, Goto, SetStatus, Applied

\* A reply is lost only when the fault is there.
LEMMA LostIsFault ==
  ASSUME NEW d, NEW kind, "lost" \in Call(d, kind)
  PROVE  kind \in Faults
  BY DEF Call

\* Before the end of run no status is final; a step of the worker that
\* writes one moves past it.
LEMMA WorkerSettles ==
  ASSUME TypeOK, NEW d \in Deployments, Settled(d), WorkerStep(d)
  PROVE  Settled(d)' /\ Kept(d)
  <1> DEFINE final == deployments[d].status \in Final
             same == deployments'[d].status = deployments[d].status
  <1>1. /\ \A pc : Goto(d, pc) => workers'[d].pc = pc
        /\ \A o, st : SetStatus(d, o, st) =>
             \/ deployments'[d].status = st /\ o \in {"ok", "lost"}
             \/ same /\ o \notin {"ok", "lost"}
    BY Moves
  <1>2. final => workers[d].pc \in Ended \cup {"fail"}
    BY DEF Settled, Final
  <1> HIDE DEF final, same
  <1>3. CASE workers[d].pc \notin Ended \cup {"fail"} /\ deployments'[d].status \notin Final
    BY <1>2, <1>3 DEF final, Settled, Kept, Final
  <1>4. CASE workers[d].pc \notin Ended \cup {"fail"} /\ same
    BY <1>2, <1>4 DEF final, same, Settled, Kept, Final
  <1>5. CASE StartBuilding(d)
    <2>1. same \/ deployments'[d].status = "building"
      BY <1>1, <1>5 DEF StartBuilding
    <2>2. workers[d].pc \notin Ended \cup {"fail"}
      BY <1>5 DEF StartBuilding, Ended
    <2> QED
      BY <1>3, <1>4, <2>1, <2>2 DEF Final
  <1>6. CASE StartDeploying(d)
    <2>1. same \/ deployments'[d].status = "deploying"
      BY <1>1, <1>6 DEF StartDeploying
    <2>2. workers[d].pc \notin Ended \cup {"fail"}
      BY <1>6 DEF StartDeploying, Ended
    <2> QED
      BY <1>3, <1>4, <2>1, <2>2 DEF Final
  <1>7. CASE RecordCommit(d)
    <2>1. same
      BY <1>7 DEF RecordCommit, TypeOK, Row, same
    <2>2. workers[d].pc \notin Ended \cup {"fail"}
      BY <1>7 DEF RecordCommit, Ended
    <2> QED
      BY <1>4, <2>1, <2>2
  <1>8. CASE \/ Build(d) \/ ClearSite(d) \/ WriteSite(d) \/ SaveRepo(d)
             \/ CloneRepo(d) \/ PushCommit(d) \/ PushNothing(d) \/ AwaitPages(d)
    <2>1. same
      BY <1>8 DEF Build, ClearSite, WriteSite, SaveRepo, CloneRepo, PushCommit,
                  PushNothing, AwaitPages, same
    <2>2. workers[d].pc \notin Ended \cup {"fail"}
      BY <1>8 DEF Build, ClearSite, WriteSite, SaveRepo, CloneRepo, PushCommit,
                  PushNothing, AwaitPages, Ended
    <2> QED
      BY <1>4, <2>1, <2>2
  <1>9. CASE Finish(d)
    <2>1. PICK o \in Call(d, "db") :
            /\ SetStatus(d, o, "succeeded")
            /\ Goto(d, IF o = "ok" THEN "release" ELSE "fail")
      BY <1>9 DEF Finish
    <2>2. workers[d].pc = "finish" /\ ~final
      BY <1>2, <1>9 DEF Finish, Ended
    <2>3. CASE o = "ok"
      <3>1. workers'[d].pc = "release" /\ deployments'[d].status = "succeeded"
        BY <1>1, <2>1, <2>3
      <3> QED
        BY <2>2, <3>1 DEF final, Final, Settled, Kept, Ended
    <2>4. CASE o = "lost"
      <3>1. workers'[d].pc = "fail" /\ deployments'[d].status = "succeeded"
        BY <1>1, <2>1, <2>4
      <3>2. "db" \in Faults
        BY <2>4, LostIsFault
      <3> QED
        BY <2>2, <3>1, <3>2 DEF final, Final, Settled, Kept
    <2>5. CASE o \notin {"ok", "lost"}
      <3>1. workers'[d].pc = "fail" /\ same
        BY <1>1, <2>1, <2>5
      <3> QED
        BY <2>2, <3>1 DEF final, Final, same, Settled, Kept
    <2> QED
      BY <2>3, <2>4, <2>5
  <1>10. CASE Fail(d)
    <2>1. workers[d].pc = "fail" /\ workers'[d].pc = "release"
      BY <1>1, <1>10 DEF Fail
    <2>2. same \/ deployments'[d].status = "failed"
      BY <1>1, <1>10 DEF Fail
    <2> QED
      BY <2>1, <2>2 DEF same, Settled, Kept, Ended
  <1>11. CASE Release(d)
    <2>1. workers'[d].pc = "done" /\ same
      BY <1>11 DEF Release, NoWorker, TypeOK, same
    <2> QED
      BY <2>1 DEF same, Settled, Kept, Ended
  <1> QED
    BY <1>5, <1>6, <1>7, <1>8, <1>9, <1>10, <1>11 DEF WorkerStep

\* A row is inserted once, with a status that is not final; nothing but the
\* worker of a row changes it later.
LEMMA StepSettles ==
  ASSUME TypeOK, [Next]_vars, \A d \in Deployments : Settled(d)
  PROVE  \A d \in Deployments : Settled(d)' /\ Kept(d)
  <1>1. ASSUME NEW d \in Deployments, deployments'[d] = deployments[d],
               workers'[d].pc \in {workers[d].pc, "dead"}
        PROVE  Settled(d)' /\ Kept(d)
    BY <1>1 DEF Settled, Kept, Ended
  <1>2. ASSUME NEW d \in Deployments, deployments[d].status = "none",
               deployments'[d].status = "queued"
        PROVE  Settled(d)' /\ Kept(d)
    BY <1>2 DEF Settled, Kept
  <1>3. CASE UserStep
    BY <1>1, <1>3 DEF UserStep, EditContent, SaveSettings, HandlePublish,
       HandleRollback, Submit
  <1>4. ASSUME NEW r \in Requests, AcquireLock(r) \/ AbandonLock(r)
        PROVE  \A d \in Deployments : Settled(d)' /\ Kept(d)
    BY <1>1, <1>4 DEF AcquireLock, AbandonLock
  <1>5. ASSUME NEW r \in Requests, NEW e \in Deployments, StartDeployment(r, e)
        PROVE  \A d \in Deployments : Settled(d)' /\ Kept(d)
    <2>1. /\ deployments[e].status = "none"
          /\ deployments'[e].status = "queued"
          /\ \A d \in Deployments : d # e =>
               deployments'[d] = deployments[d] /\ workers'[d] = workers[d]
      BY <1>5 DEF StartDeployment, Unused, NewRow, TypeOK
    <2> QED
      BY <1>1, <1>2, <2>1
  <1>6. ASSUME NEW r \in Requests, InsertFails(r)
        PROVE  \A d \in Deployments : Settled(d)' /\ Kept(d)
    <2>1. \A d \in Deployments :
            \/ deployments'[d] = deployments[d]
            \/ deployments[d].status = "none" /\ deployments'[d].status = "queued"
      BY <1>6 DEF InsertFails, Unused, NewRow, TypeOK
    <2>2. workers' = workers
      BY <1>6 DEF InsertFails
    <2> QED
      BY <1>1, <1>2, <2>1, <2>2
  <1>7. ASSUME NEW e \in Deployments, WorkerStep(e)
        PROVE  \A d \in Deployments : Settled(d)' /\ Kept(d)
    <2>1. \A d \in Deployments : d # e =>
            deployments'[d] = deployments[d] /\ workers'[d] = workers[d]
      BY <1>7, WorkerFrame DEF KeepsRows, Advances, Ends
    <2> QED
      BY <1>1, <1>7, <2>1, WorkerSettles
  <1>8. CASE Environment
    <2>1. CASE Tick
      BY <1>1, <2>1, TickFrame DEF Tick
    <2>2. ASSUME NEW R \in SUBSET Requests, NEW D \in SUBSET Deployments, Crash(R, D)
          PROVE  \A d \in Deployments : Settled(d)' /\ Kept(d)
      <3>1. \A d \in Deployments : workers'[d].pc \in {workers[d].pc, "dead"}
        <4>1. \A d \in Deployments :
                workers'[d] = workers[d] \/ workers'[d] = NoWorker("dead")
          BY <2>2, CrashFrame
        <4>2. NoWorker("dead").pc = "dead"
          BY DEF NoWorker
        <4> QED
          BY <4>1, <4>2
      <3> QED
        BY <1>1, <2>2, <3>1 DEF Crash
    <2>3. ASSUME NEW repo \in Repos, NEW i \in 1..Len(commits[repo]),
                 PagesOutcome(repo, i)
          PROVE  \A d \in Deployments : Settled(d)' /\ Kept(d)
      BY <1>1, <2>3 DEF PagesOutcome
    <2>4. ASSUME NEW repo \in Repos, NEW c \in OtherDrafts, OtherPush(repo, c)
          PROVE  \A d \in Deployments : Settled(d)' /\ Kept(d)
      BY <1>1, <2>4 DEF OtherPush
    <2> QED
      BY <1>8, <2>1, <2>2, <2>3, <2>4 DEF Environment
  <1>9. CASE UNCHANGED vars
    BY <1>1, <1>9 DEF vars
  <1> QED
    BY <1>3, <1>4, <1>5, <1>6, <1>7, <1>8, <1>9 DEF Next, RequestStep

AllSettled == \A d \in Deployments : Settled(d)

LEMMA AlwaysSettled == Spec => []AllSettled
  <1>1. Init => AllSettled
    <2> SUFFICES ASSUME Init, NEW d \in Deployments
                 PROVE  Settled(d)
      BY DEF AllSettled
    <2>1. deployments[d].status = "none"
      BY DEF Init
    <2> QED
      BY <2>1 DEF Settled
  <1>2. TypeOK /\ AllSettled /\ [Next]_vars => AllSettled'
    BY StepSettles DEF AllSettled
  <1> QED
    BY <1>1, <1>2, TypeCorrect, PTL DEF Spec

\* A deployment reported failed stays failed; one reported succeeded stays
\* so unless the database may lose the reply to that very report.
THEOREM FinalStatusIsKept == Spec => FinalStatusKept
  <1>1. TypeOK /\ AllSettled /\ [Next]_vars =>
          [\A d \in Deployments :
             /\ deployments[d].status = "failed" => deployments'[d].status = "failed"
             /\ deployments[d].status = "succeeded" /\ "db" \notin Faults =>
                  deployments'[d].status = "succeeded"]_vars
    BY StepSettles DEF AllSettled, Kept
  <1> QED
    BY <1>1, AlwaysSettled, TypeCorrect, PTL DEF Spec, FinalStatusKept

-----------------------------------------------------------------------------
(* A worker that is in time leaves a final status.                          *)

\* What OutcomeRecorded says of one deployment.
Recorded(d) ==
  "db" \notin Faults /\ workers[d].pc = "release" /\ workers[d].budget > 0 =>
    deployments[d].status \in Final

\* Only Finish and Fail lead to the end of the goroutine.
LEMMA WorkerRecords ==
  ASSUME TypeOK, NEW d \in Deployments, WorkerStep(d)
  PROVE  Recorded(d)'
  <1>1. /\ \A pc : Goto(d, pc) => workers'[d].pc = pc
        /\ \A o, st : SetStatus(d, o, st) =>
             \/ deployments'[d].status = st /\ o \in {"ok", "lost"}
             \/ deployments'[d].status = deployments[d].status
                /\ o \notin {"ok", "lost"}
    BY Moves
  <1>2. CASE workers'[d].pc # "release"
    BY <1>2 DEF Recorded
  <1>3. CASE Finish(d)
    <2>1. PICK o \in Call(d, "db") :
            /\ SetStatus(d, o, "succeeded")
            /\ Goto(d, IF o = "ok" THEN "release" ELSE "fail")
      BY <1>3 DEF Finish
    <2>2. workers'[d].pc = "release" => deployments'[d].status = "succeeded"
      BY <1>1, <2>1
    <2> QED
      BY <2>2 DEF Recorded, Final
  <1>4. CASE Fail(d)
    <2>1. PICK o \in Call(d, "db") : SetStatus(d, o, "failed")
      BY <1>4 DEF Fail
    <2>2. workers'[d].pc = "release"
      BY <1>1, <1>4 DEF Fail
    <2>3. workers'[d].budget = workers[d].budget
      BY <2>2, WorkerFrame DEF Advances, Ends, NoWorker
    <2>4. "db" \notin Faults /\ workers[d].budget > 0 => o = "ok"
      BY DEF Call, TypeOK, Worker
    <2> QED
      BY <1>1, <2>1, <2>3, <2>4 DEF Recorded, Final
  <1>5. CASE Release(d)
    <2>1. workers'[d].pc = "done"
      BY <1>5 DEF Release, NoWorker, TypeOK
    <2> QED
      BY <1>2, <2>1
  <1>6. CASE CloneRepo(d) \/ PushCommit(d) \/ PushNothing(d)
    <2>1. \A pc, head : workers' = [workers EXCEPT ![d] =
                                     [@ EXCEPT !.pc = pc, !.head = head]]
                          => workers'[d].pc = pc
      BY DEF TypeOK, Worker
    <2>2. \A head, hash : Returns(d, head, hash) => workers'[d].pc = "record"
      BY DEF Returns, TypeOK, Worker
    <2>3. workers'[d].pc \in {"push", "record", "fail"}
      BY <1>1, <1>6, <2>1, <2>2 DEF CloneRepo, PushCommit, PushNothing
    <2> QED
      BY <1>2, <2>3
  <1>7. CASE \/ StartBuilding(d) \/ Build(d) \/ ClearSite(d) \/ WriteSite(d)
             \/ StartDeploying(d) \/ SaveRepo(d) \/ RecordCommit(d) \/ AwaitPages(d)
    <2>1. workers'[d].pc \in WorkerPC \ {"release"}
      BY <1>1, <1>7 DEF StartBuilding, Build, ClearSite, WriteSite, StartDeploying,
         SaveRepo, RecordCommit, AwaitPages, WorkerPC
    <2> QED
      BY <1>2, <2>1
  <1> QED
    BY <1>3, <1>4, <1>5, <1>6, <1>7 DEF WorkerStep

\* Nobody else puts a goroutine there or touches the row of one that is.
LEMMA StepRecords ==
  ASSUME TypeOK, [Next]_vars, \A d \in Deployments : Recorded(d)
  PROVE  \A d \in Deployments : Recorded(d)'
  <1>1. ASSUME NEW d \in Deployments, deployments'[d] = deployments[d],
               workers'[d].pc = workers[d].pc,
               workers'[d].budget > 0 => workers[d].budget > 0
        PROVE  Recorded(d)'
    BY <1>1 DEF Recorded
  <1>2. CASE UserStep \/ UNCHANGED vars
    BY <1>1, <1>2 DEF UserStep, EditContent, SaveSettings, HandlePublish,
       HandleRollback, Submit, vars
  <1>3. ASSUME NEW r \in Requests, AcquireLock(r) \/ AbandonLock(r)
        PROVE  \A d \in Deployments : Recorded(d)'
    BY <1>1, <1>3 DEF AcquireLock, AbandonLock
  <1>4. ASSUME NEW r \in Requests, NEW e \in Deployments, StartDeployment(r, e)
        PROVE  \A d \in Deployments : Recorded(d)'
    <2>1. /\ workers'[e].pc = "start"
          /\ \A d \in Deployments : d # e =>
               deployments'[d] = deployments[d] /\ workers'[d] = workers[d]
      BY <1>4 DEF StartDeployment, NewRow, NoWorker, TypeOK
    <2>2. Recorded(e)'
      BY <2>1 DEF Recorded
    <2> QED
      BY <1>1, <2>1, <2>2
  <1>5. ASSUME NEW r \in Requests, InsertFails(r)
        PROVE  \A d \in Deployments : Recorded(d)'
    <2> SUFFICES ASSUME NEW d \in Deployments, "db" \notin Faults,
                        workers[d].pc = "release", workers[d].budget > 0
                 PROVE  deployments'[d].status \in Final
      BY <1>5 DEF InsertFails, Recorded
    <2>1. deployments[d].status \in Final
      BY DEF Recorded
    <2>2. deployments'[d] = deployments[d]
      BY <1>5, <2>1 DEF InsertFails, Unused, NewRow, TypeOK, Final
    <2> QED
      BY <2>1, <2>2
  <1>6. ASSUME NEW e \in Deployments, WorkerStep(e)
        PROVE  \A d \in Deployments : Recorded(d)'
    <2>1. \A d \in Deployments : d # e =>
            deployments'[d] = deployments[d] /\ workers'[d] = workers[d]
      BY <1>6, WorkerFrame DEF KeepsRows, Advances, Ends
    <2> QED
      BY <1>1, <1>6, <2>1, WorkerRecords
  <1>7. CASE Tick
    <2>1. ASSUME NEW d \in Deployments
          PROVE  /\ workers'[d].pc = workers[d].pc
                 /\ workers'[d].budget > 0 => workers[d].budget > 0
      <3>1. workers[d] \in Worker
        BY DEF TypeOK
      <3> QED
        BY <1>7, <3>1 DEF Tick, Worker
    <2> QED
      BY <1>1, <1>7, <2>1 DEF Tick
  <1>8. ASSUME NEW R \in SUBSET Requests, NEW D \in SUBSET Deployments, Crash(R, D)
        PROVE  \A d \in Deployments : Recorded(d)'
    <2>1. \A d \in Deployments :
            workers'[d] = workers[d] \/ workers'[d] = NoWorker("dead")
      BY <1>8, CrashFrame
    <2>2. \A d \in Deployments : workers'[d] = NoWorker("dead") => Recorded(d)'
      BY DEF NoWorker, Recorded
    <2> QED
      BY <1>1, <1>8, <2>1, <2>2 DEF Crash
  <1>9. ASSUME NEW repo \in Repos, NEW i \in 1..Len(commits[repo]),
               PagesOutcome(repo, i)
        PROVE  \A d \in Deployments : Recorded(d)'
    BY <1>1, <1>9 DEF PagesOutcome
  <1>10. ASSUME NEW repo \in Repos, NEW c \in OtherDrafts, OtherPush(repo, c)
         PROVE  \A d \in Deployments : Recorded(d)'
    BY <1>1, <1>10 DEF OtherPush
  <1> QED
    BY <1>2, <1>3, <1>4, <1>5, <1>6, <1>7, <1>8, <1>9, <1>10
    DEF Next, RequestStep, Environment

\* With a database that answers, a goroutine that reaches its end before its
\* ten minutes are over has recorded a success or a failure: no error path of
\* run returns without one.
THEOREM OutcomeIsRecorded == Spec => []OutcomeRecorded
  <1>1. OutcomeRecorded <=> \A d \in Deployments : Recorded(d)
    BY DEF OutcomeRecorded, Recorded
  <1>2. Init => \A d \in Deployments : Recorded(d)
    BY DEF Init, NoWorker, Recorded
  <1>3. TypeOK /\ OutcomeRecorded /\ [Next]_vars => OutcomeRecorded'
    <2> SUFFICES ASSUME TypeOK, \A d \in Deployments : Recorded(d), [Next]_vars
                 PROVE  \A d \in Deployments : Recorded(d)'
      BY DEF OutcomeRecorded, Recorded
    <2> QED
      BY StepRecords
  <1> QED
    BY <1>1, <1>2, <1>3, TypeCorrect, PTL DEF Spec
=============================================================================
