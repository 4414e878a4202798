---------------------------- MODULE PublishProofs ----------------------------
(***************************************************************************)
(* Theorems about Publish, for every number of deployments and requests,   *)
(* every set of drafts and repositories, every timing and every set of     *)
(* faults.                                                                 *)
(***************************************************************************)
EXTENDS Publish, TLAPS

-----------------------------------------------------------------------------
(* Type correctness.                                                        *)

\* The initial state has the right types.
LEMMA InitType == Init => TypeOK
  BY PublishAssumption
  DEF Init, TypeOK, Idle, NoWorker, Snapshot, Status, Commit, Row, Request,
      RequestPC, Worker, WorkerPC

\* A request may move to another point, take a snapshot or end.
LEMMA RequestMoves ==
  ASSUME TypeOK, NEW r \in Requests
  PROVE  /\ \A pc \in RequestPC :
              [requests EXCEPT ![r].pc = pc] \in [Requests -> Request]
         /\ \A pc \in RequestPC, snap \in Snapshot \cup {Nil} :
              [requests EXCEPT ![r] = [@ EXCEPT !.pc = pc, !.snap = snap]]
                \in [Requests -> Request]
         /\ [requests EXCEPT ![r] = Idle] \in [Requests -> Request]
         /\ requests[r].snap \in Snapshot \cup {Nil}
  <1>1. requests \in [Requests -> Request]
    BY DEF TypeOK
  <1>2. ASSUME NEW pc \in RequestPC
        PROVE  [requests EXCEPT ![r].pc = pc] \in [Requests -> Request]
    BY <1>1, <1>2 DEF Request
  <1>3. ASSUME NEW pc \in RequestPC, NEW snap \in Snapshot \cup {Nil}
        PROVE  [requests EXCEPT ![r] = [@ EXCEPT !.pc = pc, !.snap = snap]]
                 \in [Requests -> Request]
    BY <1>1, <1>3 DEF Request
  <1>4. Idle \in Request
    BY PublishAssumption DEF Request, Idle, RequestPC
  <1>5. requests[r].snap \in Snapshot \cup {Nil}
    BY <1>1 DEF Request
  <1> QED
    BY <1>1, <1>2, <1>3, <1>4, <1>5

\* The row an INSERT adds is a row.
LEMMA NewRowType ==
  ASSUME TypeOK,
         NEW d \in Deployments, NEW snap \in Snapshot \cup {Nil}, NewRow(d, snap)
  PROVE  deployments' \in [Deployments -> Row]
  BY DEF NewRow, Row, Status, TypeOK

\* The lock stays within its TTL when it is deleted, or not.
LEMMA DeleteLockType ==
  ASSUME TypeOK, NEW kinds, DeleteLock(kinds)
  PROVE  lock' \in 0..LockTTL
  <1>1. lock' \in {0, lock}
    BY DEF DeleteLock
  <1> QED
    BY <1>1, PublishAssumption DEF TypeOK

\* No step of a request, nor a submission, disturbs the types.
LEMMA RequestType ==
  ASSUME TypeOK,
         NEW r \in Requests,
         \/ RequestStep(r)
         \/ HandlePublish(r)
         \/ \E d \in Deployments : HandleRollback(r, d)
  PROVE  TypeOK'
  <1> DEFINE RequestsOK == [Requests -> Request]
  <1>0. /\ \A pc \in RequestPC : [requests EXCEPT ![r].pc = pc] \in RequestsOK
        /\ [requests EXCEPT ![r] = Idle] \in RequestsOK
        /\ requests[r].snap \in Snapshot \cup {Nil}
    BY RequestMoves
  <1> HIDE DEF RequestsOK
  <1>1. ASSUME NEW snap \in Snapshot \cup {Nil}, Submit(r, snap)
        PROVE  TypeOK'
    <2>1. "lock" \in RequestPC
      BY DEF RequestPC
    <2>2. requests' \in [Requests -> Request]
      BY <1>1, <2>1, RequestMoves DEF Submit
    <2> QED
      BY <1>1, <2>2 DEF Submit, TypeOK
  <1>2. CASE HandlePublish(r)
    BY <1>1, <1>2 DEF HandlePublish, TypeOK
  <1>3. ASSUME NEW d \in Deployments, HandleRollback(r, d)
        PROVE  TypeOK'
    <2>1. SnapOf(d) \in Snapshot \cup {Nil}
      BY DEF SnapOf, TypeOK, Row
    <2> QED
      BY <1>1, <1>3, <2>1 DEF HandleRollback
  <1>4. CASE AcquireLock(r)
    <2>1. "insert" \in RequestPC
      BY DEF RequestPC
    <2>2. requests' \in RequestsOK
      BY <1>0, <1>4, <2>1 DEF AcquireLock
    <2>3. lock' = lock \/ lock' = LockTTL
      BY <1>4 DEF AcquireLock
    <2>4. lock' \in 0..LockTTL
      BY <2>3, PublishAssumption DEF TypeOK
    <2> QED
      BY <1>4, <2>2, <2>4 DEF AcquireLock, TypeOK, RequestsOK
  <1>5. ASSUME NEW d \in Deployments, StartDeployment(r, d)
        PROVE  TypeOK'
    <2>1. [NoWorker("start") EXCEPT !.budget = PublishTimeout] \in Worker
      BY PublishAssumption DEF NoWorker, Worker, WorkerPC
    <2>2. workers' \in [Deployments -> Worker]
      BY <1>5, <2>1 DEF StartDeployment, TypeOK
    <2>3. deployments' \in [Deployments -> Row]
      BY <1>0, <1>5, NewRowType DEF StartDeployment
    <2> QED
      BY <1>0, <1>5, <2>2, <2>3 DEF StartDeployment, TypeOK, RequestsOK
  <1>6. CASE InsertFails(r)
    <2>1. "unlock" \in RequestPC
      BY DEF RequestPC
    <2>2. requests' \in RequestsOK
      BY <1>0, <1>6, <2>1 DEF InsertFails
    <2>3. deployments' \in [Deployments -> Row]
      BY <1>0, <1>6, NewRowType DEF InsertFails, Unused, TypeOK
    <2> QED
      BY <1>6, <2>2, <2>3 DEF InsertFails, TypeOK, RequestsOK
  <1>7. CASE AbandonLock(r)
    BY <1>0, <1>7, DeleteLockType DEF AbandonLock, TypeOK, RequestsOK
  <1>8. QED
    BY <1>2, <1>3, <1>4, <1>5, <1>6, <1>7 DEF RequestStep

\* Moving a worker on and setting a status keep the types.
LEMMA WorkerMoves ==
  ASSUME TypeOK, NEW d \in Deployments
  PROVE  /\ \A pc \in WorkerPC : Goto(d, pc) => workers' \in [Deployments -> Worker]
         /\ \A o, st : SetStatus(d, o, st) /\ st \in Status =>
              deployments' \in [Deployments -> Row]
         /\ \A pc \in WorkerPC, head \in Nat :
              [workers EXCEPT ![d] = [@ EXCEPT !.pc = pc, !.head = head]]
                \in [Deployments -> Worker]
         /\ \A head, hash \in Nat :
              Returns(d, head, hash) => workers' \in [Deployments -> Worker]
         /\ workers[d].head \in Nat
         /\ deployments[d].snap \in Snapshot \cup {Nil}
         /\ NoWorker("done") \in Worker /\ NoWorker("dead") \in Worker
  <1>1. workers \in [Deployments -> Worker] /\ deployments \in [Deployments -> Row]
    BY DEF TypeOK
  <1>2. ASSUME NEW pc \in WorkerPC, Goto(d, pc)
        PROVE  workers' \in [Deployments -> Worker]
    BY <1>1, <1>2 DEF Goto, Worker
  <1>3. ASSUME NEW o, NEW st \in Status, SetStatus(d, o, st)
        PROVE  deployments' \in [Deployments -> Row]
    <2>1. [deployments EXCEPT ![d].status = st] \in [Deployments -> Row]
      BY <1>1, <1>3 DEF Row
    <2> QED
      BY <1>1, <1>3, <2>1 DEF SetStatus
  <1>4. ASSUME NEW pc \in WorkerPC, NEW head \in Nat
        PROVE  [workers EXCEPT ![d] = [@ EXCEPT !.pc = pc, !.head = head]]
                 \in [Deployments -> Worker]
    BY <1>1, <1>4 DEF Worker
  <1>5. workers[d].head \in Nat /\ deployments[d].snap \in Snapshot \cup {Nil}
    BY <1>1 DEF Worker, Row
  <1>6. NoWorker("done") \in Worker /\ NoWorker("dead") \in Worker
    BY PublishAssumption DEF NoWorker, Worker, WorkerPC
  <1>7. ASSUME NEW head \in Nat, NEW hash \in Nat, Returns(d, head, hash)
        PROVE  workers' \in [Deployments -> Worker]
    BY <1>1, <1>7 DEF Returns, Worker, WorkerPC
  <1> QED
    BY <1>2, <1>3, <1>4, <1>5, <1>6, <1>7

\* Where a worker is, its deployment has a snapshot and a target.
LEMMA WorkerTarget ==
  ASSUME TypeOK, HasSnapshot, NEW d \in Deployments, workers[d].pc # "none"
  PROVE  /\ SnapOf(d) \in Snapshot
         /\ SnapOf(d).draft \in Drafts
         /\ Target(d) \in Repos
         /\ deployments[d].status # "none"
  <1>1. SnapOf(d) \in Snapshot /\ deployments[d].status # "none"
    BY DEF HasSnapshot, SnapOf
  <1>2. SnapOf(d).draft \in Drafts /\ SnapOf(d).repo \in Repos \cup {Nil}
    BY <1>1 DEF Snapshot
  <1> QED
    BY <1>1, <1>2, PublishAssumption DEF Target

\* The head of a worker's repository, and what Push returned, are numbers.
LEMMA WorkerHead ==
  ASSUME TypeOK, NEW d \in Deployments
  PROVE  workers[d].head \in Nat /\ workers[d].head + 1 \in Nat /\ workers[d].hash \in Nat
  <1>1. workers[d] \in Worker
    BY DEF TypeOK
  <1>2. workers[d].head \in Nat /\ workers[d].hash \in Nat
    BY <1>1 DEF Worker
  <1> QED
    BY <1>2

\* No step of a worker disturbs the types.
LEMMA WorkerType ==
  ASSUME TypeOK, HasSnapshot, NEW d \in Deployments, WorkerStep(d)
  PROVE  TypeOK'
  <1> DEFINE WorkersOK == [Deployments -> Worker]
             RowsOK == [Deployments -> Row]
  <1>1. /\ \A pc \in WorkerPC : Goto(d, pc) => workers' \in WorkersOK
        /\ \A o, st : SetStatus(d, o, st) /\ st \in Status =>
             deployments' \in RowsOK
        /\ \A pc \in WorkerPC, head \in Nat :
             [workers EXCEPT ![d] = [@ EXCEPT !.pc = pc, !.head = head]]
               \in WorkersOK
        /\ \A head, hash \in Nat : Returns(d, head, hash) => workers' \in WorkersOK
    BY WorkerMoves
  <1>2. /\ {"build", "clear", "write", "deploy", "save", "clone", "push",
            "record", "await", "finish", "fail", "release"} \subseteq WorkerPC
        /\ {"building", "deploying", "succeeded", "failed"} \subseteq Status
    BY DEF WorkerPC, Status
  <1> HIDE DEF WorkersOK, RowsOK
  <1>3. CASE StartBuilding(d)
    BY <1>1, <1>2, <1>3 DEF StartBuilding, TypeOK, WorkersOK, RowsOK
  <1>4. CASE Build(d)
    BY <1>1, <1>2, <1>4 DEF Build, TypeOK, WorkersOK
  <1>5. CASE ClearSite(d)
    BY <1>1, <1>2, <1>5 DEF ClearSite, TypeOK, WorkersOK
  <1>6. CASE WriteSite(d)
    BY <1>1, <1>2, <1>6, WorkerTarget DEF WriteSite, TypeOK, WorkersOK
  <1>7. CASE StartDeploying(d)
    BY <1>1, <1>2, <1>7 DEF StartDeploying, TypeOK, WorkersOK, RowsOK
  <1>8. CASE SaveRepo(d)
    <2>1. website' \in Snapshot
      BY <1>8, WorkerTarget DEF SaveRepo, TypeOK, Snapshot
    <2> QED
      BY <1>1, <1>2, <1>8, <2>1 DEF SaveRepo, TypeOK, WorkersOK
  <1>9. CASE CloneRepo(d)
    <2>1. Target(d) \in Repos
      BY <1>9, WorkerTarget DEF CloneRepo
    <2>2. commits[Target(d)] \in Seq(Commit)
      BY <2>1 DEF TypeOK
    <2>3. Len(commits[Target(d)]) \in Nat
      BY <2>2
    <2>4. ASSUME NEW head \in Nat,
                 workers' = [workers EXCEPT ![d] =
                               [@ EXCEPT !.pc = "push", !.head = head]]
          PROVE  workers' \in WorkersOK
      BY <1>1, <1>2, <2>4
    <2>5. workers' \in WorkersOK
      BY <1>1, <1>2, <1>9, <2>3, <2>4 DEF CloneRepo
    <2> QED
      BY <1>9, <2>5 DEF CloneRepo, TypeOK, WorkersOK
  <1>10. CASE PushCommit(d)
    <2>1. OwnCommit(d) \in Commit
      BY <1>10, WorkerTarget DEF PushCommit, OwnCommit, Commit
    <2>2. commits' \in [Repos -> Seq(Commit)]
      BY <1>10, <2>1, WorkerTarget DEF PushCommit, TypeOK
    <2>3. workers[d].head + 1 \in Nat
      BY WorkerHead
    <2>4. workers' \in WorkersOK
      BY <1>1, <1>2, <1>10, <2>3 DEF PushCommit
    <2> QED
      BY <1>10, <2>2, <2>4 DEF PushCommit, TypeOK, WorkersOK
  <1>11. CASE PushNothing(d)
    <2>1. workers' \in WorkersOK
      BY <1>1, <1>2, <1>11, WorkerHead DEF PushNothing
    <2> QED
      BY <1>11, <2>1 DEF PushNothing, TypeOK, WorkersOK
  <1>12. CASE RecordCommit(d)
    <2>1. [deployments EXCEPT ![d] =
             [@ EXCEPT !.repo = Target(d), !.commit = workers[d].hash]] \in RowsOK
      <3>1. /\ deployments \in [Deployments -> Row]
            /\ Target(d) \in Repos
            /\ workers[d].hash \in Nat
        BY <1>12, WorkerTarget, WorkerHead DEF RecordCommit, TypeOK
      <3> QED
        BY <3>1 DEF Row, RowsOK
    <2>2. deployments' \in RowsOK
      BY <1>12, <2>1 DEF RecordCommit, TypeOK, RowsOK
    <2>3. workers' \in WorkersOK
      BY <1>1, <1>2, <1>12 DEF RecordCommit
    <2> QED
      BY <1>12, <2>2, <2>3 DEF RecordCommit, TypeOK, WorkersOK, RowsOK
  <1>13. CASE AwaitPages(d)
    BY <1>1, <1>2, <1>13 DEF AwaitPages, TypeOK, WorkersOK
  <1>14. CASE Finish(d)
    BY <1>1, <1>2, <1>14 DEF Finish, TypeOK, WorkersOK, RowsOK
  <1>15. CASE Fail(d)
    BY <1>1, <1>2, <1>15 DEF Fail, TypeOK, WorkersOK, RowsOK
  <1>16. CASE Release(d)
    BY <1>16, DeleteLockType, WorkerMoves DEF Release, TypeOK
  <1> QED
    BY <1>3, <1>4, <1>5, <1>6, <1>7, <1>8, <1>9, <1>10, <1>11, <1>12, <1>13,
       <1>14, <1>15, <1>16 DEF WorkerStep

-----------------------------------------------------------------------------
(* What a step of a worker leaves alone.                                    *)

LivePC == WorkerPC \ {"none", "done", "dead"}

\* Worker d is alive and stays alive, with the time it has left; the other
\* workers do not move.
Advances(d) ==
  /\ Live(d)'
  /\ workers'[d].budget = workers[d].budget
  /\ workers'[d].over = workers[d].over
  /\ \A e \in Deployments : e # d => workers'[e] = workers[e]

\* Row d keeps its snapshot and does not vanish; the other rows are kept.
KeepsRows(d) ==
  /\ deployments'[d].snap = deployments[d].snap
  /\ deployments'[d].status \in {deployments[d].status} \cup (Status \ {"none"})
  /\ \A e \in Deployments : e # d => deployments'[e] = deployments[e]

\* Worker d has ended, after it deleted the lock or tried to.
Ends(d) ==
  /\ workers'[d] = NoWorker("done")
  /\ DeleteLock({"cache"})
  /\ \A e \in Deployments : e # d => workers'[e] = workers[e]

\* Moving a worker on, with its head and hash or without, is an advance.
LEMMA GotoAdvances ==
  ASSUME TypeOK, NEW d \in Deployments, NEW pc \in LivePC
  PROVE  /\ Goto(d, pc) => Advances(d)
         /\ \A head :
              workers' = [workers EXCEPT ![d] = [@ EXCEPT !.pc = pc, !.head = head]]
                => Advances(d)
         /\ \A head, hash : Returns(d, head, hash) => Advances(d)
  <1>1. workers \in [Deployments -> Worker] /\ workers[d] \in Worker
    BY DEF TypeOK
  <1>2. CASE Goto(d, pc)
    BY <1>1, <1>2 DEF Goto, Worker, Live, LivePC, Advances
  <1>3. ASSUME NEW head,
               workers' = [workers EXCEPT ![d] = [@ EXCEPT !.pc = pc, !.head = head]]
        PROVE  Advances(d)
    BY <1>1, <1>3 DEF Worker, Live, LivePC, Advances
  <1>4. ASSUME NEW head, NEW hash, Returns(d, head, hash)
        PROVE  Advances(d)
    BY <1>1, <1>4 DEF Returns, Worker, Live, Advances
  <1> QED
    BY <1>2, <1>3, <1>4

\* Setting a status leaves the other columns and the other rows alone.
LEMMA SetStatusKeepsRows ==
  ASSUME TypeOK, NEW d \in Deployments, NEW o, NEW st \in Status \ {"none"},
         SetStatus(d, o, st)
  PROVE  KeepsRows(d)
  <1>1. deployments \in [Deployments -> Row] /\ deployments[d] \in Row
    BY DEF TypeOK
  <1> QED
    BY <1>1 DEF SetStatus, Row, KeepsRows

\* A step of worker d is a step of a live worker, which changes its own row
\* and goroutine only, keeps the row's snapshot, and either advances or ends.
LEMMA WorkerFrame ==
  ASSUME TypeOK, NEW d \in Deployments, WorkerStep(d)
  PROVE  /\ Live(d)
         /\ requests' = requests
         /\ KeepsRows(d)
         /\ (Advances(d) /\ lock' = lock) \/ Ends(d)
  <1>1. \A pc \in LivePC : Goto(d, pc) => Advances(d)
    BY GotoAdvances
  <1>2. {"build", "clear", "write", "deploy", "save", "clone", "push", "record",
         "await", "finish", "fail", "release"} \subseteq LivePC
    BY DEF WorkerPC, LivePC
  <1>3. \A o : \A st \in {"building", "deploying", "succeeded", "failed"} :
          SetStatus(d, o, st) => KeepsRows(d)
    BY SetStatusKeepsRows DEF Status
  <1>4. UNCHANGED deployments => KeepsRows(d)
    BY DEF KeepsRows
  <1>5. CASE StartBuilding(d)
    BY <1>1, <1>2, <1>3, <1>5 DEF StartBuilding, Live
  <1>6. CASE Build(d)
    BY <1>1, <1>2, <1>4, <1>6 DEF Build, Live
  <1>7. CASE ClearSite(d)
    BY <1>1, <1>2, <1>4, <1>7 DEF ClearSite, Live
  <1>8. CASE WriteSite(d)
    BY <1>1, <1>2, <1>4, <1>8 DEF WriteSite, Live
  <1>9. CASE StartDeploying(d)
    BY <1>1, <1>2, <1>3, <1>9 DEF StartDeploying, Live
  <1>10. CASE SaveRepo(d)
    BY <1>1, <1>2, <1>4, <1>10 DEF SaveRepo, Live
  <1>11. CASE CloneRepo(d)
    <2>1. \A head : workers' = [workers EXCEPT ![d] =
                                  [@ EXCEPT !.pc = "push", !.head = head]]
                      => Advances(d)
      BY <1>2, GotoAdvances
    <2> QED
      BY <1>1, <1>2, <1>4, <1>11, <2>1 DEF CloneRepo, Live
  <1>12. CASE PushCommit(d)
    <2>1. \A head, hash : Returns(d, head, hash) => Advances(d)
      BY <1>2, GotoAdvances
    <2> QED
      BY <1>1, <1>2, <1>4, <1>12, <2>1 DEF PushCommit, Live
  <1>13. CASE PushNothing(d)
    <2>1. \A head, hash : Returns(d, head, hash) => Advances(d)
      BY <1>2, GotoAdvances
    <2> QED
      BY <1>1, <1>2, <1>4, <1>13, <2>1 DEF PushNothing, Live
  <1>14. CASE RecordCommit(d)
    <2>1. deployments[d] \in Row
      BY DEF TypeOK
    <2>2. KeepsRows(d)
      BY <1>14, <2>1 DEF RecordCommit, KeepsRows, TypeOK, Row
    <2> QED
      BY <1>1, <1>2, <1>14, <2>2 DEF RecordCommit, Live
  <1>15. CASE AwaitPages(d)
    BY <1>1, <1>2, <1>4, <1>15 DEF AwaitPages, Live
  <1>16. CASE Finish(d)
    BY <1>1, <1>2, <1>3, <1>16 DEF Finish, Live
  <1>17. CASE Fail(d)
    BY <1>1, <1>2, <1>3, <1>17 DEF Fail, Live
  <1>18. CASE Release(d)
    <2>1. Live(d) /\ DeleteLock({"cache"})
      BY <1>18 DEF Release, Live
    <2>2. /\ workers'[d] = NoWorker("done")
          /\ \A e \in Deployments : e # d => workers'[e] = workers[e]
      BY <1>18 DEF Release, TypeOK
    <2> QED
      BY <1>4, <1>18, <2>1, <2>2 DEF Release, Ends
  <1> QED
    BY <1>5, <1>6, <1>7, <1>8, <1>9, <1>10, <1>11, <1>12, <1>13, <1>14, <1>15,
       <1>16, <1>17, <1>18 DEF WorkerStep

-----------------------------------------------------------------------------
(* The environment, and the types of every reachable state.                 *)

\* A crash ends workers and requests and leaves the others as they were.
LEMMA CrashFrame ==
  ASSUME TypeOK, NEW R \in SUBSET Requests, NEW D \in SUBSET Deployments, Crash(R, D)
  PROVE  /\ \A r \in Requests : requests'[r] \in {requests[r], Idle}
         /\ \A d \in Deployments :
              \/ workers'[d] = workers[d]
              \/ workers'[d] = NoWorker("dead") /\ Live(d)
         /\ requests' \in [Requests -> Request]
         /\ workers' \in [Deployments -> Worker]
         /\ lock' = lock \/ (lock' = 0 /\ R = Requests /\ D = Deployments)
  <1>1. Idle \in Request /\ NoWorker("dead") \in Worker
    BY PublishAssumption DEF Idle, Request, RequestPC, NoWorker, Worker, WorkerPC
  <1>2. \A r \in Requests : requests'[r] \in {requests[r], Idle}
    BY DEF Crash
  <1>3. \A d \in Deployments :
          workers'[d] = workers[d] \/ (workers'[d] = NoWorker("dead") /\ Live(d))
    BY DEF Crash
  <1>4. requests' \in [Requests -> Request]
    BY <1>1 DEF Crash, TypeOK
  <1>5. workers' \in [Deployments -> Worker]
    BY <1>1 DEF Crash, TypeOK
  <1>6. lock' = lock \/ (lock' = 0 /\ R = Requests /\ D = Deployments)
    BY DEF Crash
  <1> QED
    BY <1>2, <1>3, <1>4, <1>5, <1>6

\* Time ages holders and live workers, and nothing else.
LEMMA TickFrame ==
  ASSUME TypeOK, Tick
  PROVE  /\ \A r \in Requests :
              /\ requests'[r].pc = requests[r].pc
              /\ requests'[r].snap = requests[r].snap
              /\ Holding(r) => requests'[r].wait = requests[r].wait + 1
                               /\ requests'[r].wait <= InsertDelay
         /\ \A d \in Deployments :
              /\ workers'[d].pc = workers[d].pc
              /\ Live(d) /\ workers[d].budget > 0 =>
                   /\ workers'[d].budget = workers[d].budget - 1
                   /\ workers'[d].over = workers[d].over
              /\ Live(d) /\ workers[d].budget = 0 =>
                   /\ workers'[d].budget = 0
                   /\ workers'[d].over = workers[d].over + 1
                   /\ workers'[d].over <= Overrun
         /\ requests' \in [Requests -> Request]
         /\ workers' \in [Deployments -> Worker]
  <1> USE PublishAssumption
  <1>1. ASSUME NEW r \in Requests
        PROVE  /\ requests'[r].pc = requests[r].pc
               /\ requests'[r].snap = requests[r].snap
               /\ Holding(r) => requests'[r].wait = requests[r].wait + 1
                                /\ requests'[r].wait <= InsertDelay
               /\ requests'[r] \in Request
    <2>1. requests[r] \in Request
      BY DEF TypeOK
    <2>2. CASE Holding(r)
      <3>1. requests'[r] = [requests[r] EXCEPT !.wait = requests[r].wait + 1]
        BY <2>2 DEF Tick
      <3>2. requests[r].wait \in 0..InsertDelay /\ requests[r].wait < InsertDelay
        BY <2>1, <2>2 DEF Tick, Request
      <3>3. requests[r].wait + 1 \in 0..InsertDelay
        BY <3>2
      <3> QED
        BY <2>1, <3>1, <3>3 DEF Request
    <2>3. CASE ~Holding(r)
      BY <2>1, <2>3 DEF Tick
    <2> QED
      BY <2>2, <2>3
  <1>2. ASSUME NEW d \in Deployments
        PROVE  /\ workers'[d].pc = workers[d].pc
               /\ Live(d) /\ workers[d].budget > 0 =>
                    /\ workers'[d].budget = workers[d].budget - 1
                    /\ workers'[d].over = workers[d].over
               /\ Live(d) /\ workers[d].budget = 0 =>
                    /\ workers'[d].budget = 0
                    /\ workers'[d].over = workers[d].over + 1
                    /\ workers'[d].over <= Overrun
               /\ workers'[d] \in Worker
    <2>1. workers[d] \in Worker
      BY DEF TypeOK
    <2>2. workers[d].budget \in 0..PublishTimeout /\ workers[d].over \in 0..Overrun
      BY <2>1 DEF Worker
    <2>3. CASE ~Live(d)
      BY <2>1, <2>3 DEF Tick
    <2>4. CASE Live(d) /\ workers[d].budget > 0
      <3>1. workers'[d] = [workers[d] EXCEPT !.budget = workers[d].budget - 1]
        BY <2>4 DEF Tick
      <3>2. workers[d].budget - 1 \in 0..PublishTimeout
        BY <2>2, <2>4
      <3> QED
        BY <2>1, <2>4, <3>1, <3>2 DEF Worker
    <2>5. CASE Live(d) /\ ~(workers[d].budget > 0)
      <3>1. workers[d].budget = 0
        BY <2>2, <2>5
      <3>2. workers'[d] = [workers[d] EXCEPT !.over = workers[d].over + 1]
        BY <2>5 DEF Tick
      <3>3. workers[d].over + 1 \in 0..Overrun
        BY <2>2, <2>5, <3>1 DEF Tick
      <3> QED
        BY <2>1, <2>5, <3>1, <3>2, <3>3 DEF Worker
    <2> QED
      BY <2>3, <2>4, <2>5
  <1>3. requests' \in [Requests -> Request]
    BY <1>1 DEF Tick
  <1>4. workers' \in [Deployments -> Worker]
    BY <1>2 DEF Tick
  <1> QED
    BY <1>1, <1>2, <1>3, <1>4

\* Somebody else's push adds one commit, which is not ours, to one branch.
LEMMA OtherPushFrame ==
  ASSUME TypeOK, NEW repo \in Repos, NEW c \in OtherDrafts, OtherPush(repo, c)
  PROVE  /\ UNCHANGED <<website, lock, deployments, requests, workers, site>>
         /\ \E o \in Commit :
              /\ o.draft = c /\ ~o.ours
              /\ commits' = [commits EXCEPT ![repo] = Append(commits[repo], o)]
  <1> DEFINE o == [draft |-> c, ours |-> FALSE, pages |-> "building"]
  <1>1. o \in Commit /\ o.draft = c /\ ~o.ours
    BY PublishAssumption DEF Commit
  <1>2. commits' = [commits EXCEPT ![repo] = Append(commits[repo], o)]
    BY DEF OtherPush
  <1> QED
    BY <1>1, <1>2 DEF OtherPush

\* Neither an edit nor a step of the environment disturbs the types.
LEMMA EnvironmentType ==
  ASSUME TypeOK,
         \/ \E c \in Drafts : EditContent(c) \/ SaveSettings(c)
         \/ Environment
  PROVE  TypeOK'
  <1>1. ASSUME NEW c \in Drafts, EditContent(c) \/ SaveSettings(c)
        PROVE  TypeOK'
    <2>1. website \in Snapshot
      BY DEF TypeOK
    <2>2. website' \in Snapshot
      BY <1>1, <2>1, PublishAssumption
      DEF EditContent, SaveSettings, Snapshot
    <2> QED
      BY <1>1, <2>2 DEF EditContent, SaveSettings, TypeOK
  <1>2. ASSUME NEW repo \in Repos, NEW i \in 1..Len(commits[repo]),
               PagesOutcome(repo, i)
        PROVE  TypeOK'
    <2>1. commits[repo] \in Seq(Commit) /\ i \in DOMAIN commits[repo]
      BY <1>2 DEF TypeOK, PagesOutcome
    <2>2. PICK p \in {"live", "failed"} :
            commits' = [commits EXCEPT ![repo][i].pages = p]
      BY <1>2 DEF PagesOutcome
    <2>3. commits[repo][i] \in Commit
      BY <2>1
    <2>4. [commits[repo][i] EXCEPT !.pages = p] \in Commit
      BY <2>3 DEF Commit
    <2>5. [commits[repo] EXCEPT ![i] = [commits[repo][i] EXCEPT !.pages = p]]
            \in Seq(Commit)
      BY <2>1, <2>4
    <2>6. commits' \in [Repos -> Seq(Commit)]
      <3>1. commits' = [commits EXCEPT ![repo] =
              [commits[repo] EXCEPT ![i] =
                 [commits[repo][i] EXCEPT !.pages = p]]]
        BY <2>2, Zenon
      <3>2. \A h \in Seq(Commit) :
              [commits EXCEPT ![repo] = h] \in [Repos -> Seq(Commit)]
        BY DEF TypeOK
      <3> QED
        BY <2>5, <3>1, <3>2, Zenon
    <2> QED
      BY <1>2, <2>6 DEF PagesOutcome, TypeOK
  <1>3. ASSUME NEW R \in SUBSET Requests, NEW D \in SUBSET Deployments, Crash(R, D)
        PROVE  TypeOK'
    <2>1. lock' \in 0..LockTTL
      BY <1>3, PublishAssumption DEF Crash, TypeOK
    <2> QED
      BY <1>3, <2>1, CrashFrame DEF Crash, TypeOK
  <1>4. CASE Tick
    <2>1. lock' \in 0..LockTTL
      BY <1>4, PublishAssumption DEF Tick, TypeOK
    <2> QED
      BY <1>4, <2>1, TickFrame DEF Tick, TypeOK
  <1>5. ASSUME NEW repo \in Repos, NEW c \in OtherDrafts, OtherPush(repo, c)
        PROVE  TypeOK'
    <2>1. PICK o \in Commit :
            commits' = [commits EXCEPT ![repo] = Append(commits[repo], o)]
      BY <1>5, OtherPushFrame
    <2>2. commits' \in [Repos -> Seq(Commit)]
      BY <2>1 DEF TypeOK
    <2>3. UNCHANGED <<website, lock, deployments, requests, workers, site>>
      BY <1>5 DEF OtherPush
    <2> QED
      BY <2>2, <2>3 DEF TypeOK
  <1> QED
    BY <1>1, <1>2, <1>3, <1>4, <1>5 DEF Environment

\* A submitted request carries a snapshot, a row keeps the one it was
\* inserted with, and only rows get workers.
LEMMA HasSnapshotStep ==
  ASSUME TypeOK, HasSnapshot, [Next]_vars
  PROVE  HasSnapshot'
  <1>1. ASSUME NEW r \in Requests, NEW snap \in Snapshot, Submit(r, snap)
        PROVE  HasSnapshot'
    BY <1>1 DEF Submit, HasSnapshot, TypeOK
  <1>2. ASSUME NEW r \in Requests, HandlePublish(r)
        PROVE  HasSnapshot'
    BY <1>1, <1>2 DEF HandlePublish, TypeOK
  <1>3. ASSUME NEW r \in Requests, NEW d \in Deployments, HandleRollback(r, d)
        PROVE  HasSnapshot'
    BY <1>1, <1>3 DEF HandleRollback, SnapOf, HasSnapshot
  <1>4. ASSUME NEW r \in Requests, AcquireLock(r)
        PROVE  HasSnapshot'
    <2>1. \A q \in Requests : /\ requests'[q].pc # "idle" => requests[q].pc # "idle"
                              /\ requests'[q].pc # "idle" =>
                                   requests'[q].snap = requests[q].snap
      BY <1>4 DEF AcquireLock, TypeOK, Request, Idle
    <2> QED
      BY <1>4, <2>1 DEF AcquireLock, HasSnapshot
  <1>5. ASSUME NEW r \in Requests, NEW d \in Deployments, StartDeployment(r, d)
        PROVE  HasSnapshot'
    BY <1>5 DEF StartDeployment, NewRow, Idle, HasSnapshot, TypeOK
  <1>6. ASSUME NEW r \in Requests, InsertFails(r)
        PROVE  HasSnapshot'
    <2>1. \A q \in Requests : /\ requests'[q].pc # "idle" => requests[q].pc # "idle"
                              /\ requests'[q].snap = requests[q].snap
      BY <1>6 DEF InsertFails, TypeOK, Request
    <2>2. \A d \in Deployments :
            /\ deployments[d].status # "none" => deployments'[d].status # "none"
            /\ deployments'[d].status # "none" => deployments'[d].snap \in Snapshot
      BY <1>6 DEF InsertFails, NewRow, Unused, HasSnapshot, TypeOK
    <2> QED
      BY <1>6, <2>1, <2>2 DEF InsertFails, HasSnapshot
  <1>7. ASSUME NEW r \in Requests, AbandonLock(r)
        PROVE  HasSnapshot'
    BY <1>7 DEF AbandonLock, Idle, HasSnapshot, TypeOK
  <1>8. ASSUME NEW d \in Deployments, WorkerStep(d)
        PROVE  HasSnapshot'
    <2>1. workers[d].pc # "none"
      BY <1>8, WorkerFrame DEF Live
    <2>2. \A e \in Deployments :
            /\ deployments'[e].snap = deployments[e].snap
            /\ deployments[e].status # "none" => deployments'[e].status # "none"
            /\ deployments'[e].status # "none" =>
                 deployments[e].status # "none" \/ e = d
            /\ workers'[e].pc # "none" => workers[e].pc # "none"
      BY <1>8, <2>1, WorkerFrame DEF KeepsRows, Advances, Ends
    <2> QED
      BY <1>8, <2>1, <2>2, WorkerFrame DEF HasSnapshot
  <1>9. CASE Environment
    <2>1. CASE Tick
      BY <2>1, TickFrame DEF HasSnapshot, Tick
    <2>2. ASSUME NEW R \in SUBSET Requests, NEW D \in SUBSET Deployments, Crash(R, D)
          PROVE  HasSnapshot'
      BY <2>2, CrashFrame DEF Crash, HasSnapshot, Idle, NoWorker, Live
    <2>3. ASSUME NEW repo \in Repos, NEW i \in 1..Len(commits[repo]),
                 PagesOutcome(repo, i)
          PROVE  HasSnapshot'
      BY <2>3 DEF PagesOutcome, HasSnapshot
    <2>4. ASSUME NEW repo \in Repos, NEW c \in OtherDrafts, OtherPush(repo, c)
          PROVE  HasSnapshot'
      BY <2>4 DEF OtherPush, HasSnapshot
    <2> QED
      BY <1>9, <2>1, <2>2, <2>3, <2>4 DEF Environment
  <1>10. CASE \E c \in Drafts : EditContent(c) \/ SaveSettings(c)
    BY <1>10 DEF EditContent, SaveSettings, HasSnapshot
  <1>11. CASE UNCHANGED vars
    BY <1>11 DEF vars, HasSnapshot
  <1> QED
    BY <1>2, <1>3, <1>4, <1>5, <1>6, <1>7, <1>8, <1>9, <1>10, <1>11
    DEF Next, UserStep, RequestStep

\* Every variable of every reachable state has its type, and every request,
\* row and worker the snapshot it publishes.
THEOREM TypeCorrect == Spec => [](TypeOK /\ HasSnapshot)
  <1>1. Init => TypeOK /\ HasSnapshot
    BY InitType DEF Init, HasSnapshot, Idle, NoWorker
  <1>2. TypeOK /\ HasSnapshot /\ [Next]_vars => (TypeOK /\ HasSnapshot)'
    <2> SUFFICES ASSUME TypeOK, HasSnapshot, [Next]_vars
                 PROVE  TypeOK'
      BY HasSnapshotStep
    <2>1. CASE UNCHANGED vars
      BY <2>1 DEF vars, TypeOK
    <2>2. CASE Next
      BY <2>2, RequestType, WorkerType, EnvironmentType DEF Next, UserStep
    <2> QED
      BY <2>1, <2>2
  <1> QED
    BY <1>1, <1>2, PTL DEF Spec

-----------------------------------------------------------------------------
(* Mutual exclusion.                                                        *)

\* One holder at a time, whose lock outlives it.  Mutual exclusion alone is
\* not inductive: it rests on the lock not expiring under its holder.
LockInv == MutualExclusion /\ LockOutlivesHolder

\* When the key is absent nobody holds the lock.
LEMMA FreeLock ==
  ASSUME TypeOK, LockOutlivesHolder, lock = 0
  PROVE  /\ \A r \in Requests : ~Holding(r)
         /\ \A d \in Deployments : ~Live(d)
  <1>1. ASSUME NEW r \in Requests, Holding(r)
        PROVE  FALSE
    <2>1. requests[r].wait \in 0..InsertDelay
      BY DEF TypeOK, Request
    <2> QED
      BY <1>1, <2>1, PublishAssumption DEF LockOutlivesHolder
  <1>2. ASSUME NEW d \in Deployments, Live(d)
        PROVE  FALSE
    <2>1. workers[d].over \in 0..Overrun /\ workers[d].budget \in 0..PublishTimeout
      BY DEF TypeOK, Worker
    <2> QED
      BY <1>2, <2>1, PublishAssumption DEF LockOutlivesHolder
  <1> QED
    BY <1>1, <1>2

\* A request takes a lock nobody holds, hands it to its worker, or gives it
\* back.
LEMMA RequestLockStep ==
  ASSUME LockTiming, TypeOK, HasSnapshot, LockInv,
         NEW r \in Requests, RequestStep(r)
  PROVE  LockInv'
  <1> USE DEF LockInv
  <1>1. CASE AcquireLock(r)
    <2>1. CASE lock = 0 /\ lock' = LockTTL /\ requests' = [requests EXCEPT ![r].pc = "insert"]
      <3>1. /\ \A q \in Requests : ~Holding(q)
            /\ \A d \in Deployments : ~Live(d)
        BY <2>1, FreeLock
      <3>2. requests[r].wait \in 0..InsertDelay
        BY DEF TypeOK, Request
      <3>3. /\ \A q \in Requests : Holding(q)' => q = r
            /\ requests'[r].wait = requests[r].wait
        BY <2>1, <3>1 DEF Holding, TypeOK, Request
      <3>4. \A d \in Deployments : ~Live(d)'
        BY <1>1, <3>1 DEF AcquireLock, Live
      <3>5. lock' > (InsertDelay - requests'[r].wait) + PublishTimeout + Overrun
        BY <2>1, <3>2, <3>3, PublishAssumption DEF LockTiming
      <3> QED
        BY <3>3, <3>4, <3>5 DEF MutualExclusion, LockOutlivesHolder
    <2>2. CASE requests' = [requests EXCEPT ![r] = Idle] /\ lock' = lock
      <3>1. \A q \in Requests : Holding(q)' =>
              Holding(q) /\ requests'[q].wait = requests[q].wait
        BY <2>2 DEF Holding, Idle, TypeOK
      <3> QED
        BY <1>1, <2>2, <3>1
        DEF AcquireLock, MutualExclusion, LockOutlivesHolder, Live
    <2>3. CASE requests' = [requests EXCEPT ![r] = Idle] /\ lock = 0
      <3>1. /\ \A q \in Requests : ~Holding(q)'
            /\ \A d \in Deployments : ~Live(d)'
        BY <1>1, <2>3, FreeLock DEF AcquireLock, Holding, Live, Idle, TypeOK
      <3> QED
        BY <3>1 DEF MutualExclusion, LockOutlivesHolder
    <2> QED
      BY <1>1, <2>1, <2>2, <2>3 DEF AcquireLock
  <1>2. ASSUME NEW d \in Deployments, StartDeployment(r, d)
        PROVE  LockInv'
    <2>1. Holding(r) /\ requests[r].wait \in 0..InsertDelay
      BY <1>2 DEF StartDeployment, Holding, TypeOK, Request
    <2>2. /\ \A q \in Requests : Holding(q) => q = r
          /\ \A e \in Deployments : ~Live(e)
      BY <2>1 DEF MutualExclusion
    <2>3. \A q \in Requests : ~Holding(q)'
      BY <1>2, <2>2 DEF StartDeployment, Holding, Idle, TypeOK
    <2>4. /\ \A e \in Deployments : Live(e)' => e = d
          /\ workers'[d].budget = PublishTimeout
          /\ workers'[d].over = 0
      BY <1>2, <2>2 DEF StartDeployment, Live, NoWorker, TypeOK
    <2>5. lock' > workers'[d].budget + (Overrun - workers'[d].over)
      <3>1. lock > (InsertDelay - requests[r].wait) + PublishTimeout + Overrun
        BY <2>1 DEF LockOutlivesHolder
      <3>2. lock' = lock /\ lock \in Nat
        BY <1>2, PublishAssumption DEF StartDeployment, TypeOK
      <3> QED
        BY <2>1, <2>4, <3>1, <3>2, PublishAssumption
    <2> QED
      BY <2>3, <2>4, <2>5 DEF MutualExclusion, LockOutlivesHolder
  <1>3. CASE InsertFails(r)
    <2>1. \A q \in Requests : /\ Holding(q)' => Holding(q)
                              /\ requests'[q].wait = requests[q].wait
      BY <1>3 DEF InsertFails, Holding, TypeOK, Request
    <2> QED
      BY <1>3, <2>1 DEF InsertFails, MutualExclusion, LockOutlivesHolder, Live
  <1>4. CASE AbandonLock(r)
    <2>1. Holding(r)
      BY <1>4 DEF AbandonLock, Holding
    <2>2. /\ \A q \in Requests : ~Holding(q)'
          /\ \A d \in Deployments : ~Live(d)'
      BY <1>4, <2>1 DEF AbandonLock, Holding, Live, Idle, MutualExclusion, TypeOK
    <2> QED
      BY <2>2 DEF MutualExclusion, LockOutlivesHolder
  <1> QED
    BY <1>1, <1>2, <1>3, <1>4 DEF RequestStep

\* A worker keeps the lock as it is until it ends, alone.
LEMMA WorkerLockStep ==
  ASSUME TypeOK, LockInv, NEW d \in Deployments, WorkerStep(d)
  PROVE  LockInv'
  <1> USE DEF LockInv
  <1>1. Live(d) /\ requests' = requests
    BY WorkerFrame
  <1>2. /\ \A e \in Deployments : Live(e) => e = d
        /\ \A r \in Requests : ~Holding(r)
    BY <1>1 DEF MutualExclusion
  <1>3. \A r \in Requests : ~Holding(r)'
    BY <1>1, <1>2 DEF Holding
  <1>4. CASE Advances(d) /\ lock' = lock
    <2>1. \A e \in Deployments : Live(e)' => e = d
      BY <1>2, <1>4 DEF Advances, Live
    <2>2. lock' > workers'[d].budget + (Overrun - workers'[d].over)
      BY <1>1, <1>4 DEF Advances, LockOutlivesHolder
    <2> QED
      BY <1>3, <2>1, <2>2 DEF MutualExclusion, LockOutlivesHolder
  <1>5. CASE Ends(d)
    <2>1. \A e \in Deployments : ~Live(e)'
      BY <1>2, <1>5 DEF Ends, NoWorker, Live
    <2> QED
      BY <1>3, <2>1 DEF MutualExclusion, LockOutlivesHolder
  <1> QED
    BY <1>4, <1>5, WorkerFrame

\* The lock ages with its holder; a crash of the process that keeps the lock
\* in memory is the end of every holder.
LEMMA EnvironmentLockStep ==
  ASSUME TypeOK, LockInv, Environment
  PROVE  LockInv'
  <1> USE DEF LockInv
  <1>1. CASE Tick
    <2>1. /\ \A r \in Requests : Holding(r)' <=> Holding(r)
          /\ \A d \in Deployments : Live(d)' <=> Live(d)
      BY <1>1, TickFrame DEF Holding, Live
    <2>2. ASSUME NEW r \in Requests, Holding(r)
          PROVE  lock' > (InsertDelay - requests'[r].wait) + PublishTimeout + Overrun
      <3>1. /\ lock > (InsertDelay - requests[r].wait) + PublishTimeout + Overrun
            /\ requests'[r].wait = requests[r].wait + 1
            /\ requests'[r].wait <= InsertDelay
        BY <1>1, <2>2, TickFrame DEF LockOutlivesHolder
      <3>2. requests[r].wait \in Nat /\ lock \in Nat
        BY PublishAssumption DEF TypeOK, Request
      <3>3. lock > 0 /\ lock' = lock - 1
        BY <1>1, <3>1, <3>2, PublishAssumption DEF Tick
      <3> QED
        BY <3>1, <3>2, <3>3, PublishAssumption
    <2>3. ASSUME NEW d \in Deployments, Live(d)
          PROVE  lock' > workers'[d].budget + (Overrun - workers'[d].over)
      <3>1. lock > workers[d].budget + (Overrun - workers[d].over)
        BY <2>3 DEF LockOutlivesHolder
      <3>2. /\ workers[d].budget \in Nat /\ workers[d].over \in 0..Overrun
            /\ lock \in Nat
        BY PublishAssumption DEF TypeOK, Worker
      <3>3. lock > 0 /\ lock' = lock - 1
        BY <1>1, <3>1, <3>2, PublishAssumption DEF Tick
      <3>4. CASE workers[d].budget > 0
        <4>1. /\ workers'[d].budget = workers[d].budget - 1
              /\ workers'[d].over = workers[d].over
          BY <1>1, <2>3, <3>4, TickFrame
        <4> QED
          BY <3>1, <3>2, <3>3, <4>1, PublishAssumption
      <3>5. CASE workers[d].budget = 0
        <4>1. /\ workers'[d].budget = 0
              /\ workers'[d].over = workers[d].over + 1
          BY <1>1, <2>3, <3>5, TickFrame
        <4> QED
          BY <3>1, <3>2, <3>3, <3>5, <4>1, PublishAssumption
      <3> QED
        BY <3>2, <3>4, <3>5
    <2> QED
      BY <2>1, <2>2, <2>3 DEF MutualExclusion, LockOutlivesHolder
  <1>2. ASSUME NEW R \in SUBSET Requests, NEW D \in SUBSET Deployments, Crash(R, D)
        PROVE  LockInv'
    <2>1. /\ \A r \in Requests : Holding(r)' =>
               Holding(r) /\ requests'[r] = requests[r]
          /\ \A d \in Deployments : Live(d)' => Live(d) /\ workers'[d] = workers[d]
      <3>1. /\ \A r \in Requests : requests'[r] \in {requests[r], Idle}
            /\ \A d \in Deployments :
                 workers'[d] = workers[d] \/ workers'[d] = NoWorker("dead")
        BY <1>2, CrashFrame
      <3>2. Idle.pc = "idle" /\ NoWorker("dead").pc = "dead"
        BY DEF Idle, NoWorker
      <3> QED
        BY <3>1, <3>2 DEF Holding, Live
    <2>2. CASE lock' = lock
      BY <2>1, <2>2 DEF MutualExclusion, LockOutlivesHolder
    <2>3. CASE R = Requests /\ D = Deployments
      <3>1. /\ \A r \in Requests : ~Holding(r)'
            /\ \A d \in Deployments : ~Live(d)'
        BY <1>2, <2>3 DEF Crash, Holding, Idle, Live, NoWorker
      <3> QED
        BY <3>1 DEF MutualExclusion, LockOutlivesHolder
    <2> QED
      BY <1>2, <2>2, <2>3, CrashFrame
  <1>3. ASSUME NEW repo \in Repos, NEW i \in 1..Len(commits[repo]),
               PagesOutcome(repo, i)
        PROVE  LockInv'
    BY <1>3 DEF PagesOutcome, MutualExclusion, LockOutlivesHolder, Holding, Live
  <1>4. ASSUME NEW repo \in Repos, NEW c \in OtherDrafts, OtherPush(repo, c)
        PROVE  LockInv'
    BY <1>4 DEF OtherPush, MutualExclusion, LockOutlivesHolder, Holding, Live
  <1> QED
    BY <1>1, <1>2, <1>3, <1>4 DEF Environment

\* Submitting a request and editing take and release nothing.
LEMMA UserLockStep ==
  ASSUME TypeOK, LockInv, UserStep
  PROVE  LockInv'
  <1> USE DEF LockInv
  <1>1. ASSUME NEW r \in Requests, NEW snap, Submit(r, snap)
        PROVE  LockInv'
    <2>1. \A q \in Requests : Holding(q)' =>
            Holding(q) /\ requests'[q].wait = requests[q].wait
      BY <1>1 DEF Submit, Holding, TypeOK, Request
    <2> QED
      BY <1>1, <2>1 DEF Submit, MutualExclusion, LockOutlivesHolder, Live
  <1>2. CASE \E c \in Drafts : EditContent(c) \/ SaveSettings(c)
    BY <1>2 DEF EditContent, SaveSettings, MutualExclusion, LockOutlivesHolder,
       Holding, Live
  <1> QED
    BY <1>1, <1>2 DEF UserStep, HandlePublish, HandleRollback

\* "A per-website lock prevents concurrent publishes": at any time at most
\* one request or worker is inside the section the lock protects, whatever
\* crashes, cache errors and lost replies occur, provided the lock's TTL
\* exceeds the publish timeout by what the INSERT and the steps that ignore
\* the context may take.
THEOREM OnePublishAtATime ==
  ASSUME LockTiming
  PROVE  Spec => [](MutualExclusion /\ LockOutlivesHolder)
  <1>1. Init => LockInv
    BY DEF Init, LockInv, MutualExclusion, LockOutlivesHolder, Holding, Live,
       Idle, NoWorker
  <1>2. TypeOK /\ HasSnapshot /\ LockInv /\ [Next]_vars => LockInv'
    <2> SUFFICES ASSUME TypeOK, HasSnapshot, LockInv, [Next]_vars
                 PROVE  LockInv'
      OBVIOUS
    <2>1. CASE UserStep
      BY <2>1, UserLockStep
    <2>2. ASSUME NEW r \in Requests, RequestStep(r)
          PROVE  LockInv'
      BY <2>2, RequestLockStep
    <2>3. ASSUME NEW d \in Deployments, WorkerStep(d)
          PROVE  LockInv'
      BY <2>3, WorkerLockStep
    <2>4. CASE Environment
      BY <2>4, EnvironmentLockStep
    <2>5. CASE UNCHANGED vars
      BY <2>5 DEF vars, LockInv, MutualExclusion, LockOutlivesHolder, Holding, Live
    <2> QED
      BY <2>1, <2>2, <2>3, <2>4, <2>5 DEF Next
  <1>3. LockInv => MutualExclusion /\ LockOutlivesHolder
    BY DEF LockInv
  <1> QED
    BY <1>1, <1>2, <1>3, TypeCorrect, PTL DEF Spec

\* Of the same argument: the lock's remaining time always exceeds what its
\* holder may still take, so the lease never expires under a running publish
\* (StartPublish, run).
THEOREM LockIsOutlived ==
  ASSUME LockTiming
  PROVE  Spec => []LockOutlivesHolder
  BY OnePublishAtATime, PTL
=============================================================================
