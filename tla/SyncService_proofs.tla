---------------------------- MODULE SyncService_proofs ----------------------------
(***************************************************************************)
(* Proofs about the whole service (SyncService): it implements the store's  *)
(* specification, and with the store's invariant its own safety properties  *)
(* follow, for any number of jobs, requests, crashes, timer runs and        *)
(* commands.                                                                *)
(***************************************************************************)
EXTENDS SyncService, SyncStore_proofs

\* The phase of a job once the holder of the guard has written.
Due(j) == IF guard.save = j THEN guard.content.phase ELSE job[j].phase

\* A base that can be restored: another database, and no job's that failed.
GoodBase(base, j) ==
  base \in Databases \ {j} /\ (base \in Jobs => job[base].phase = "succeeded")

\* The worker works on the job that has the lease, until it ended it.
Bound ==
  worker.at # "idle" =>
    /\ worker.job \in Jobs /\ job[worker.job].phase \in Late
    /\ Due(worker.job) \notin Terminal => active = worker.job

\* What the worker may count on at each place.
SwitchPlaces == {"switch", "reload", "verify", "revert", "unload"}
PublishPlaces == {"lock", "pid", "activate", "receipt", "finish"} \cup SwitchPlaces

Staged ==
  /\ worker.at \in {"base", "begin"} => Due(worker.job) = "queued"
  /\ worker.at \in {"import", "wait"} => Due(worker.job) = "importing"
  /\ worker.at \in PublishPlaces => Due(worker.job) \in Publishing
  /\ worker.at = "begin" => GoodBase(worker.base, worker.job)
  /\ worker.at \in SwitchPlaces => worker.job \notin recorded
  /\ worker.at \in {"reload", "verify"} => live = worker.job
  /\ worker.at \in {"receipt", "finish"} => worker.job \in recorded
  /\ worker.at = "finish" => worker.job \in published

\* The fate decided in Diagnose still is the right one.
Fated ==
  worker.at = "settle" =>
    /\ Due(worker.job) \notin Terminal
    /\ \/ worker.fate = "failed" /\ live # worker.job
       \/ worker.fate = "publication_unknown" /\ Due(worker.job) \in Publishing

\* What the pending job file says will be true when it is written.
Pending ==
  guard.save # NoJob =>
    /\ job[guard.save].phase \in Late =>
         guard.owner = Worker /\ worker.at \in {"idle", "import", "lock", "remove"}
    /\ guard.content.phase \in {"importing"} \cup Publishing =>
         GoodBase(guard.content.base, guard.save)
    /\ guard.content.changed =>
         /\ guard.content.phase = "succeeded"
         /\ job[guard.save].phase \in Publishing /\ guard.save \in published
    /\ guard.content.phase = "succeeded" /\ ~guard.content.changed =>
         job[guard.save].phase = "importing"
    /\ guard.content.phase = "failed" => live # guard.save

\* What is served, recorded and receipted agrees with the job files.
Records ==
  /\ published \subseteq recorded
  /\ \A j \in recorded :
       /\ job[j].phase \in Publishing \cup {"succeeded"}
       /\ job[j].phase \in Publishing => live = j /\ route = j /\ cli = "idle"
  /\ route \in Jobs => job[route].phase \in Publishing \cup Terminal
  /\ live \in Jobs => job[live].phase \in Publishing \cup {"succeeded"}
  /\ \A j \in Jobs :
       /\ job[j].phase \in {"importing"} \cup Publishing => GoodBase(job[j].base, j)
       /\ job[j].changed => job[j].phase = "succeeded"

\* Whoever is at work under dataset-switch.lock wrote it.
LockPlaces == {"activate", "receipt", "finish", "unlock"} \cup SwitchPlaces

Locks ==
  /\ worker.at \in LockPlaces => lock = "worker"
  /\ cli = "pid" => lock = "cli_empty"
  /\ cli \in {"switch", "unlock"} => lock = "cli"
  /\ cli = "open" =>
       guard.owner = Cli /\ guard.save = NoJob /\ \A j \in Jobs : job[j].phase \notin Publishing

\* A container that was not started has written no candidate.
Containers == \A j \in Jobs : container[j] = "created" => j \notin candidate

Typed == IngressTypeOK /\ WorkerTypeOK /\ HostTypeOK

\* Everything but what the store itself keeps; and all of it.
Core ==
  /\ Typed /\ Bound /\ Staged /\ Fated /\ Pending /\ Records /\ Locks
  /\ Containers /\ Uploads

SvcInv == Present /\ Core

--------------------------------------------------------------------------------
\* Every step of the service is a step of the store, or leaves the store alone.

\* The worker's transitions are among Moves (sync_worker.py:46-149).
LEMMA WorkerSteps ==
  ASSUME IInv, SvcInv, WorkerStep
  PROVE  Stepped
<1> USE DEF Core
<1> USE WorkerConstants DEF Stepped
<1>1. CASE ReadBase \/ RunImport \/ RemoveContainer \/ Activate \/ SwitchRoute \/ ReloadRoute
           \/ VerifyRoute \/ RevertConfig \/ RevertRoute \/ WriteReceiptFile \/ Diagnose
  BY <1>1 DEF ReadBase, RunImport, RemoveContainer, Activate, SwitchRoute, ReloadRoute,
              VerifyRoute, RevertConfig, RevertRoute, WriteReceiptFile, Diagnose
<1>2. CASE Tick \/ EnterSwitch
  BY <1>2 DEF Tick, EnterSwitch, Call
<1>3. CASE TakeLock \/ Unlock
  BY <1>3 DEF TakeLock, Unlock, NoCall, LockStates
<1>4. ASSUME worker.at # "idle"
      PROVE  worker.job \in Jobs /\ job[worker.job].phase \in Late
  BY <1>4 DEF SvcInv, Bound
<1>5. CASE BeginImport
  <2> DEFINE j == worker.job
             content == [WithPhase("importing") EXCEPT !.base = worker.base]
  <2>1. j \in Jobs /\ worker.base \in Databases \cup {NoJob}
    BY <1>4, <1>5 DEF BeginImport, AtPlace, SvcInv, Typed, WorkerTypeOK, WorkerRecord
  <2>2. CASE Transition(Worker, j, {"queued"}, content)
    <3>1. content = [job[j] EXCEPT !.phase = "importing", !.base = worker.base,
                                   !.changed = job[j].changed]
      BY <2>1, SamePhaseOnly DEF WithPhase
    <3> HIDE DEF content
    <3> QED
      BY <2>1, <2>2, <3>1, TransitionCalls, SamePhaseOnly DEF MayMove, Moves
  <2> QED
    BY <1>5, <2>2 DEF BeginImport, TryTransition, TransitionBusy, Call
<1>6. CASE FinishImport
  <2>1. worker.job \in Jobs
    BY <1>4, <1>6 DEF FinishImport, AtPlace
  <2>2. CASE Transition(Worker, worker.job, {"importing"}, WithPhase("publishing"))
    BY <2>1, <2>2, PhaseCalls DEF WithPhase, MayMove, Moves
  <2>3. CASE Transition(Worker, worker.job, {"importing"}, WithPhase("succeeded"))
    BY <2>1, <2>3, PhaseCalls DEF WithPhase, MayMove, Moves
  <2> QED
    BY <1>6, <2>2, <2>3 DEF FinishImport, TryTransition, TransitionBusy, Call
<1>7. CASE FinishPublication
  <2> DEFINE j == worker.job
             content == [WithPhase("succeeded") EXCEPT !.changed = TRUE]
  <2>1. j \in Jobs
    BY <1>4, <1>7 DEF FinishPublication, AtPlace
  <2>2. CASE Transition(Worker, j, Publishing, content)
    <3>1. content = [job[j] EXCEPT !.phase = "succeeded", !.base = job[j].base, !.changed = TRUE]
      BY <2>1, SamePhaseOnly DEF WithPhase
    <3>2. MayMove(j, Publishing) => <<job[j].phase, "succeeded">> \in Moves
      BY DEF MayMove, Moves
    <3> HIDE DEF content
    <3> QED
      BY <2>1, <2>2, <3>1, <3>2, TransitionCalls, SamePhaseOnly
  <2> QED
    BY <1>7, <2>2 DEF FinishPublication, TransitionBusy, Call
<1>8. CASE Settle
  <2> DEFINE j == worker.job
             expected == IF job[j].phase \in Publishing THEN Publishing ELSE {job[j].phase}
  <2>1. /\ j \in Jobs /\ job[j].phase \in Late /\ worker.at = "settle"
        /\ guard.owner # Worker
    BY <1>4, <1>8 DEF Settle, AtPlace
  <2>2. CASE Transition(Worker, j, expected, WithPhase(worker.fate))
    <3>1. guard.owner = Nobody /\ guard.save = NoJob /\ j # NoJob
      BY <2>1, <2>2, StoreConstants DEF Transition, Enter, IInv, GuardInv, GuardIdle, Free
    <3>2. \/ worker.fate = "failed"
          \/ worker.fate = "publication_unknown" /\ job[j].phase \in Publishing
      BY <2>1, <3>1 DEF SvcInv, Fated, Due
    <3>3. MayMove(j, expected) => job[j].phase \in {"queued", "importing"} \cup Publishing
      BY <2>1, StoreConstants DEF MayMove, ActiveJob, Late
    <3>4. MayMove(j, expected) => <<job[j].phase, worker.fate>> \in Moves
      BY <3>2, <3>3 DEF Moves
    <3> HIDE DEF expected
    <3> QED
      BY <2>1, <2>2, <3>4, PhaseCalls DEF WithPhase
  <2> QED
    BY <1>8, <2>2 DEF Settle, TransitionBusy, Call
<1> QED
  BY <1>1, <1>2, <1>3, <1>5, <1>6, <1>7, <1>8 DEF WorkerStep

\* Timer, command, crashes and administrator (dataset.py:371-385).
LEMMA HostSteps ==
  ASSUME IInv, SvcInv,
         \/ TimerStart \/ TimerPolicy \/ TimerSchedule
         \/ CliStart \/ CliLock \/ CliPid \/ CliSwitch \/ CliDone \/ CliUnlock
         \/ Crash \/ RemoveDeadLock
  PROVE  Stepped
<1> USE DEF Core
<1> USE ServiceConstants, WorkerConstants, IngressConstants DEF Stepped
<1>1. CASE TimerStart \/ TimerSchedule \/ CliStart
  BY <1>1 DEF TimerStart, TimerSchedule, ScheduleBusy, CliStart, Call
<1>2. CASE TimerPolicy
  BY <1>2 DEF TimerPolicy, NoCall
<1>3. CASE CliLock \/ CliPid \/ CliUnlock \/ RemoveDeadLock
  BY <1>3 DEF CliLock, CliPid, CliUnlock, RemoveDeadLock, NoCall, LockStates
<1>4. CASE CliSwitch \/ CliDone
  BY <1>4 DEF CliSwitch, CliDone
<1>5. CASE Crash
  <2>1. lock \in LockStates /\ guard.owner \in Procs \cup {Nobody}
    BY DEF IInv, StoreTypeOK, GuardRecord
  <2>2. CASE IngressCrash
    <3>1. CASE guard.owner \in Handlers
      <4>1. Die(guard.owner)
        BY <2>1, <2>2, <3>1 DEF IngressCrash, Die, DropGuard
      <4> QED
        BY <3>1, <4>1 DEF NoCall
    <3>2. CASE guard.owner \notin Handlers
      BY <2>2, <3>2 DEF IngressCrash, storeVars
    <3> QED
      BY <3>1, <3>2
  <2>3. CASE WorkerCrash
    <3>1. lock' \in LockStates
      BY <2>1, <2>3 DEF WorkerCrash, LockStates
    <3> QED
      BY <2>3, <3>1 DEF WorkerCrash, Die, NoCall
  <2>4. CASE DropGuard(Timer) /\ UNCHANGED <<job, late, active, receipt, policy, lock>>
    BY <2>1, <2>4 DEF Die, NoCall
  <2>5. CASE /\ DropGuard(Cli) /\ UNCHANGED <<job, late, active, receipt, policy>>
             /\ lock' = CASE lock = "cli" -> "dead" [] lock = "cli_empty" -> "dead_empty"
                          [] OTHER -> lock
    <3>1. lock' \in LockStates
      BY <2>1, <2>5 DEF LockStates
    <3> QED
      BY <2>5, <3>1 DEF Die, NoCall
  <2> QED
    BY <1>5, <2>2, <2>3, <2>4, <2>5 DEF Crash
<1> QED
  BY <1>1, <1>2, <1>3, <1>4, <1>5

\* So the service takes no step the store does not know.
LEMMA EveryStepIsTheStores ==
  ASSUME IInv, SvcInv, [Next]_vars
  PROVE  Stepped
<1> USE DEF Core
<1>1. ASSUME NEW h \in Handlers, IngressStep(h) PROVE Stepped
  BY <1>1, IngressSteps DEF SvcInv, Core
<1>2. CASE WorkerStep
  BY <1>2, WorkerSteps
<1>3. CASE \/ \E j \in Jobs : ContainerRuns(j) \/ PruneContainer(j)
           \/ UNCHANGED vars
  BY <1>3 DEF ContainerRuns, PruneContainer, Prune, vars, Stepped
<1>5. CASE NginxReload
  BY <1>5 DEF NginxReload, Stepped
<1>4. CASE StoreWrite \/ Release \/ \E j \in Jobs : PassDeadline(j)
  BY <1>4 DEF Stepped, NoCall
<1> QED
  BY <1>1, <1>2, <1>3, <1>4, <1>5, HostSteps DEF Next, StoreOnly, LeaveGuard

--------------------------------------------------------------------------------
\* What the worker counts on is left alone by the others.

\* Nothing of the worker's, of the store's, or of the hosts' changes.
LEMMA WorkerSideKept ==
  ASSUME SvcInv, UNCHANGED <<job, active, guard, lock, workerVars, cli>>
  PROVE  (Bound /\ Staged /\ Fated /\ Pending /\ Records /\ Locks /\ Containers)'
<1> USE DEF Core
<1>1. UNCHANGED <<worker, container, candidate, live, route, recorded, published>>
  BY DEF workerVars
<1>2. (Bound /\ Staged /\ Fated)'
  BY <1>1 DEF SvcInv, Bound, Staged, Fated, Due, GoodBase
<1>3. Pending' /\ Records'
  BY <1>1 DEF SvcInv, Pending, Records, GoodBase
<1>4. Locks' /\ Containers'
  BY <1>1 DEF SvcInv, Locks, Containers
<1> QED
  BY <1>2, <1>3, <1>4

\* Another process's call plans no file of a job that is past its upload.
LEMMA OthersCall ==
  ASSUME IInv, SvcInv, NEW p \in Procs, p # Worker, Called(p), UNCHANGED workerVars,
         guard'.save # NoJob =>
           /\ guard'.save \in Jobs /\ job[guard'.save].phase \notin Late
           /\ ~guard'.content.changed
           /\ guard'.content.phase \in {"awaiting_upload", "uploading", "queued", "failed"}
  PROVE  (Bound /\ Staged /\ Fated /\ Pending /\ Containers)'
<1> USE DEF Core
<1>1. /\ UNCHANGED <<worker, container, candidate, live, route, recorded, published, job, active>>
      /\ guard.save = NoJob
  BY DEF workerVars, Called, Free
<1>2. worker.at # "idle" =>
        worker.job \in Jobs /\ job[worker.job].phase \in Late /\ worker.job # NoJob
  BY StoreConstants DEF SvcInv, Bound
<1>3. worker.at # "idle" => Due(worker.job)' = Due(worker.job)
  BY <1>1, <1>2 DEF Due
<1>4. (Bound /\ Fated)'
  BY <1>1, <1>3 DEF SvcInv, Bound, Fated
<1>5. Staged'
  BY <1>1, <1>3 DEF SvcInv, Staged, GoodBase, PublishPlaces, SwitchPlaces
<1>6. Pending'
  <2>1. guard'.save # NoJob => live # guard'.save
    BY DEF SvcInv, Records, Late, Terminal
  <2> QED
    BY <1>1, <2>1 DEF Pending, Publishing
<1>7. Containers'
  BY <1>1 DEF SvcInv, Containers
<1> QED
  BY <1>4, <1>5, <1>6, <1>7

\* A call leaves the records and the locks as they are.
LEMMA CallKeepsRecords ==
  ASSUME SvcInv, NEW p, Called(p), UNCHANGED <<live, route, recorded, published, cli>>
  PROVE  Records'
BY DEF Called, SvcInv, Core, Records, GoodBase

\* A caller finds the guard free, so no command is inside it.
LEMMA CallKeepsLocks ==
  ASSUME SvcInv, NEW p, p # Nobody, Called(p), UNCHANGED <<worker, cli>>
  PROVE  Locks'
<1> USE DEF Core
<1>1. cli # "open"
  BY StoreConstants, ServiceConstants DEF Called, Free, SvcInv, Locks
<1> QED
  BY <1>1 DEF Called, SvcInv, Locks

--------------------------------------------------------------------------------
\* The ingress.

\* Requests touch no job past its upload; the rename precedes the queue (sync_api.py:94-96).
LEMMA IngressKeeps ==
  ASSUME IInv, SvcInv, NEW h \in Handlers, IngressStep(h), UNCHANGED <<workerVars, hostVars>>
  PROVE  Core'
<1> USE DEF Core
<1> USE StoreConstants
<1>0. /\ h \in Procs /\ h # Worker /\ h # Nobody
      /\ UNCHANGED <<worker, container, candidate, live, route, recorded, published, timer, cli, faults,
                     timers, commands>>
  BY IngressConstants, ServiceConstants DEF workerVars, hostVars
<1>1. Uploads' /\ Typed'
  <2>1. (WorkerTypeOK /\ HostTypeOK)'
    BY <1>0 DEF SvcInv, Typed, WorkerTypeOK, HostTypeOK
  <2> QED
    BY <2>1, IngressKeepsUploads DEF SvcInv, Typed
<1>2. CASE UNCHANGED storeVars
  <2>1. (Bound /\ Staged /\ Fated /\ Pending /\ Records /\ Locks /\ Containers)'
    BY <1>0, <1>2, WorkerSideKept DEF storeVars
  <2> QED
    BY <1>1, <2>1
<1>3. CASE Called(h) /\ RequestPlans(h)
  <2>1. ASSUME NEW m \in Manifests,
               guard'.content = [Blank EXCEPT !.phase = "awaiting_upload", !.manifest = m]
        PROVE  guard'.content.phase = "awaiting_upload" /\ ~guard'.content.changed
    BY <2>1 DEF Blank
  <2>2. ASSUME NEW to \in {"uploading", "queued", "failed"}, guard'.save \in Jobs,
               job[guard'.save].phase \in Uploading,
               guard'.content = [job[guard'.save] EXCEPT !.phase = to]
        PROVE  guard'.content.phase = to /\ ~guard'.content.changed
    <3>1. ~job[guard'.save].changed
      BY <2>2 DEF SvcInv, Records, Uploading
    <3> QED
      BY <2>2, <3>1 DEF IInv, StoreTypeOK, JobRecord
  <2>3. guard'.save # NoJob =>
          /\ guard'.save \in Jobs /\ job[guard'.save].phase \notin Late
          /\ ~guard'.content.changed
          /\ guard'.content.phase \in {"awaiting_upload", "uploading", "queued", "failed"}
    BY <1>3, <2>1, <2>2 DEF RequestPlans, Uploading, Late, Publishing, Terminal
  <2>4. (Bound /\ Staged /\ Fated /\ Pending /\ Records /\ Locks /\ Containers)'
    BY <1>0, <1>3, <2>3, OthersCall, CallKeepsRecords, CallKeepsLocks
  <2> QED
    BY <1>1, <2>4
<1> QED
  BY <1>2, <1>3, IngressCalls DEF SvcInv


--------------------------------------------------------------------------------
\* The worker, where it leaves the store alone.

\* Nobody has the worker's job in hand but the worker.
LEMMA Alone ==
  ASSUME IInv, SvcInv, worker.at # "idle",
         guard.owner # Worker \/ worker.at \notin {"idle", "import", "lock", "remove"}
  PROVE  /\ worker.job \in Jobs /\ worker.job # NoJob /\ guard.save # worker.job
         /\ Due(worker.job) = job[worker.job].phase
         /\ job[worker.job].phase \in Late
         /\ job[worker.job].phase \notin Terminal => active = worker.job
<1> USE DEF Core
<1>1. worker.job \in Jobs /\ job[worker.job].phase \in Late /\ worker.job # NoJob
  BY StoreConstants DEF SvcInv, Bound
<1>2. guard.save # worker.job
  BY <1>1 DEF SvcInv, Pending
<1>3. Due(worker.job) = job[worker.job].phase
  BY <1>2 DEF Due
<1> QED
  BY <1>1, <1>2, <1>3 DEF SvcInv, Bound

\* Two jobs in publication would both hold the lease.
LEMMA OnePublication ==
  ASSUME IInv, NEW j \in Jobs, job[j].phase \in Publishing
  PROVE  active = j /\ \A k \in Jobs : job[k].phase \in Publishing => k = j
BY DEF IInv, LeaseHeld, InService

\* What a step of the worker outside the store does not touch.
LEMMA WorkerOutside ==
  ASSUME SvcInv, UNCHANGED <<storeVars, ingressVars, hostVars>>
  PROVE  /\ Uploads' /\ (IngressTypeOK /\ HostTypeOK)'
         /\ \A j : Due(j)' = Due(j)
         /\ UNCHANGED <<job, active, lock, guard, cli>>
<1> USE DEF Core
<1>1. UNCHANGED <<job, active, lock, guard, cli, request, known, snapshot, timer, faults, timers,
                  commands>>
  BY DEF storeVars, ingressVars, hostVars
<1>2. Uploads'
  BY <1>1 DEF SvcInv, Uploads, QueuedIsComplete, Accepted
<1> QED
  BY <1>1, <1>2 DEF SvcInv, Typed, IngressTypeOK, HostTypeOK, Due

\* A step that changes only the worker's own place, or containers.
LEMMA WorkerMoves ==
  ASSUME IInv, SvcInv, UNCHANGED <<storeVars, ingressVars, hostVars, live, route, recorded, published>>,
         guard.owner # Worker, worker.at # "idle",
         Containers', WorkerTypeOK',
         worker'.at # "idle" => worker'.job = worker.job,
         Staged', Fated', worker'.at \in LockPlaces => lock = "worker"
  PROVE  Core'
<1> USE DEF Core
<1>1. /\ Uploads' /\ (IngressTypeOK /\ HostTypeOK)'
      /\ \A j : Due(j)' = Due(j)
      /\ UNCHANGED <<job, active, lock, guard, cli>>
  BY WorkerOutside
<1>2. Bound'
  <2>1. worker'.at # "idle" => worker'.job = worker.job /\ Due(worker.job)' = Due(worker.job)
    BY <1>1
  <2>2. /\ worker.job \in Jobs /\ job[worker.job].phase \in Late
        /\ Due(worker.job) \notin Terminal => active = worker.job
    BY DEF SvcInv, Bound
  <2> QED
    BY <1>1, <2>1, <2>2 DEF Bound, Due
<1>3. Pending' /\ Records'
  BY <1>1 DEF SvcInv, Pending, Records, GoodBase
<1>4. Locks'
  BY <1>1 DEF SvcInv, Locks
<1> QED
  BY <1>1, <1>2, <1>3, <1>4 DEF Typed

\* Whatever was begun, raising an exception is always possible.
LEMMA RaiseKeeps ==
  ASSUME IInv, SvcInv, guard.owner # Worker, worker.at # "idle",
         UNCHANGED <<storeVars, ingressVars, hostVars, container, candidate, live, route, recorded,
                     published>>,
         Raise \/ Sleep \/ (worker.at \in LockPlaces /\ RaiseUnlocking)
  PROVE  Core'
<1> USE DEF Core
<1>1. worker \in WorkerRecord
  BY DEF SvcInv, Typed, WorkerTypeOK
<1>2. /\ worker' \in WorkerRecord
      /\ worker'.at \in {"error", "idle", "unlock"}
      /\ (worker'.at # "idle" => worker'.job = worker.job)
      /\ (worker'.at = "unlock" => worker.at \in LockPlaces)
  <2>1. CASE Raise
    BY <1>1, <2>1 DEF WorkerRecord, Places, Raise, MoveTo
  <2>2. CASE Sleep
    BY <1>1, <2>2 DEF WorkerRecord, Places, Sleep, Asleep, Phases
  <2>3. CASE worker.at \in LockPlaces /\ RaiseUnlocking
    BY <1>1, <2>3 DEF WorkerRecord, Places, RaiseUnlocking
  <2> QED
    BY <2>1, <2>2, <2>3
<1>3. WorkerTypeOK' /\ Containers'
  BY <1>2 DEF WorkerTypeOK, SvcInv, Typed, Containers
<1>4. Staged' /\ Fated'
  BY <1>2 DEF Staged, Fated, PublishPlaces, SwitchPlaces
<1>5. worker'.at \in LockPlaces => lock = "worker"
  BY <1>2 DEF SvcInv, Locks, LockPlaces, SwitchPlaces
<1> QED
  BY <1>2, <1>3, <1>4, <1>5, WorkerMoves

\* The live database is the right base of a queued job: no publication is open.
LEMMA ReadBaseKeeps ==
  ASSUME IInv, SvcInv, ReadBase, UNCHANGED <<ingressVars, hostVars>>
  PROVE  Core'
<1> USE DEF Core
<1>1. /\ worker.at = "base" /\ guard.owner # Worker
      /\ UNCHANGED <<storeVars, container, candidate, live, route, recorded, published>>
  BY DEF ReadBase, AtPlace, publicationVars
<1>2. CASE Raise
  BY <1>1, <1>2, RaiseKeeps
<1>3. CASE worker' = [worker EXCEPT !.at = "begin", !.base = live]
  <2> DEFINE j == worker.job
  <2>1. /\ j \in Jobs /\ job[j].phase = "queued" /\ active = j /\ Due(j) = "queued"
    BY <1>1, Alone DEF SvcInv, Staged, Terminal
  <2>2. live \in Jobs => job[live].phase = "succeeded"
    BY <2>1, OnePublication DEF SvcInv, Records, Publishing
  <2>3. GoodBase(live, j)
    BY <2>1, <2>2 DEF GoodBase, SvcInv, Typed, WorkerTypeOK
  <2>4. /\ worker'.at = "begin" /\ worker'.job = j /\ worker'.base = live
        /\ WorkerTypeOK' /\ Containers'
    BY <1>1, <1>3 DEF SvcInv, Typed, WorkerTypeOK, WorkerRecord, Places, Containers
  <2>5. Staged' /\ Fated'
    <3>1. Due(j)' = "queued" /\ GoodBase(live, j)'
      BY <1>1, <2>1, <2>3, <2>4, WorkerOutside DEF GoodBase
    <3> QED
      BY <2>4, <3>1, <1>1 DEF Staged, Fated, PublishPlaces, SwitchPlaces, GoodBase, Due
  <2> QED
    BY <1>1, <2>4, <2>5, WorkerMoves DEF LockPlaces, SwitchPlaces
<1> QED
  BY <1>2, <1>3 DEF ReadBase

\* A container is created only without a candidate (sync_worker.py:63-82).
LEMMA RunImportKeeps ==
  ASSUME IInv, SvcInv, RunImport, UNCHANGED <<ingressVars, hostVars>>
  PROVE  Core'
<1> USE DEF Core
<1>1. /\ worker.at = "import" /\ guard.owner # Worker
      /\ UNCHANGED <<storeVars, candidate, live, route, recorded, published>>
  BY DEF RunImport, AtPlace, publicationVars
<1>2. CASE Raise /\ UNCHANGED container
  BY <1>1, <1>2, RaiseKeeps
<1>3. CASE /\ worker' = worker \/ MoveTo("wait")
           /\ \/ container' = container
              \/ container' = [container EXCEPT ![worker.job] = "running"]
              \/ worker.job \notin candidate
                 /\ container' = [container EXCEPT ![worker.job] = "created"]
  <2> DEFINE j == worker.job
  <2>1. j \in Jobs /\ Due(j) = "importing"
    BY <1>1, Alone DEF SvcInv, Staged
  <2>2. WorkerTypeOK
    BY DEF SvcInv, Typed
  <2>3. worker'.at \in {"import", "wait"} /\ worker'.job = j
    BY <1>1, <1>3, <2>2 DEF WorkerTypeOK, WorkerRecord, MoveTo
  <2>4. WorkerTypeOK'
    BY <1>1, <1>3, <2>2 DEF WorkerTypeOK, WorkerRecord, Places, MoveTo, ContainerStates
  <2>5. Containers'
    BY <1>1, <1>3, <2>2 DEF SvcInv, Containers, WorkerTypeOK
  <2>6. Due(j)' = "importing"
    BY <1>1, <2>1, <2>3, WorkerOutside
  <2>7. Staged' /\ Fated'
    BY <2>3, <2>6 DEF Staged, Fated, PublishPlaces, SwitchPlaces, Due
  <2> QED
    BY <1>1, <2>3, <2>4, <2>5, <2>7, WorkerMoves DEF LockPlaces, SwitchPlaces
<1> QED
  BY <1>2, <1>3 DEF RunImport

\* docker rm, then the lock is given up if it was taken (sync_worker.py:99, 128-130).
LEMMA RemoveContainerKeeps ==
  ASSUME IInv, SvcInv, RemoveContainer, UNCHANGED <<ingressVars, hostVars>>
  PROVE  Core'
<1> USE DEF Core
<1>1. /\ worker.at = "remove" /\ guard.owner # Worker
      /\ UNCHANGED <<storeVars, candidate, live, route, recorded, published>>
      /\ container' \in {container, [container EXCEPT ![worker.job] = "none"]}
      /\ IF lock = "worker" THEN MoveTo("unlock") ELSE Sleep
  BY DEF RemoveContainer, AtPlace, publicationVars
<1>2. WorkerTypeOK
  BY DEF SvcInv, Typed
<1>3. WorkerTypeOK'
  <2>1. worker' \in WorkerRecord
    <3>1. CASE MoveTo("unlock")
      BY <1>2, <3>1 DEF WorkerTypeOK, WorkerRecord, Places, MoveTo
    <3>2. CASE Sleep
      BY <3>2 DEF WorkerRecord, Places, Sleep, Asleep, Phases
    <3> QED
      BY <1>1, <3>1, <3>2
  <2>2. container' \in [Jobs -> ContainerStates]
    BY <1>1, <1>2 DEF WorkerTypeOK, ContainerStates
  <2> QED
    BY <1>1, <1>2, <2>1, <2>2 DEF WorkerTypeOK
<1>4. Containers'
  BY <1>1, <1>2 DEF SvcInv, Containers, WorkerTypeOK
<1>5. /\ worker'.at \in {"unlock", "idle"} /\ (worker'.at = "unlock" => lock = "worker")
      /\ worker'.at # "idle" => worker'.job = worker.job
  BY <1>1, <1>2 DEF WorkerTypeOK, WorkerRecord, MoveTo, Sleep, Asleep
<1>6. Staged' /\ Fated'
  BY <1>5 DEF Staged, Fated, PublishPlaces, SwitchPlaces
<1> QED
  BY <1>1, <1>3, <1>4, <1>5, <1>6, WorkerMoves DEF LockPlaces, SwitchPlaces

\* What is switched or receipted next follows from what is served and recorded.
LEMMA ActivateKeeps ==
  ASSUME IInv, SvcInv, Activate, UNCHANGED <<ingressVars, hostVars>>
  PROVE  Core'
<1> USE DEF Core
<1> DEFINE j == worker.job
<1>1. /\ worker.at = "activate" /\ guard.owner # Worker
      /\ UNCHANGED <<storeVars, container, candidate, live, route, recorded, published>>
  BY DEF Activate, AtPlace, publicationVars
<1>2. /\ j \in Jobs /\ Due(j) = job[j].phase /\ Due(j) \in Publishing /\ lock = "worker"
  BY <1>1, Alone DEF SvcInv, Staged, PublishPlaces, SwitchPlaces, Locks, LockPlaces
<1>3. CASE RaiseUnlocking
  BY <1>1, <1>3, RaiseKeeps DEF LockPlaces, SwitchPlaces
<1>4. ASSUME NEW place \in {"finish", "receipt", "switch"}, MoveTo(place),
             place = "finish" => j \in published,
             place = "receipt" => j \in recorded,
             place = "switch" => live = job[j].base
      PROVE  Core'
  <2>1. WorkerTypeOK
    BY DEF SvcInv, Typed
  <2>2. worker'.at = place /\ worker'.job = j /\ WorkerTypeOK' /\ Containers'
    BY <1>1, <1>4, <2>1 DEF WorkerTypeOK, WorkerRecord, Places, MoveTo, SvcInv, Containers
  <2>3. place = "switch" => j \notin recorded
    BY <1>2, <1>4 DEF SvcInv, Records, GoodBase
  <2>4. place \in {"finish", "receipt"} => j \in recorded
    BY <1>4 DEF SvcInv, Records
  <2>5. Due(j)' \in Publishing
    BY <1>1, <1>2, <2>2, WorkerOutside
  <2>6. Staged' /\ Fated'
    BY <1>1, <1>4, <2>2, <2>3, <2>4, <2>5 DEF Staged, Fated, PublishPlaces, SwitchPlaces, Due
  <2> QED
    BY <1>1, <1>2, <2>2, <2>6, WorkerMoves
<1> QED
  BY <1>3, <1>4 DEF Activate

\* A step that changes what is served or recorded.
LEMMA WorkerPublishes ==
  ASSUME IInv, SvcInv, UNCHANGED <<storeVars, ingressVars, hostVars, container, candidate>>,
         guard.owner # Worker, worker.at \in LockPlaces,
         NEW place \in LockPlaces, worker'.at = place, worker'.job = worker.job,
         WorkerTypeOK', Staged', Records',
         guard.save # NoJob /\ guard.content.phase = "failed" => live' # guard.save,
         published \subseteq published'
  PROVE  Core'
<1> USE DEF Core
<1>1. /\ Uploads' /\ (IngressTypeOK /\ HostTypeOK)'
      /\ \A j : Due(j)' = Due(j)
      /\ UNCHANGED <<job, active, lock, guard, cli>>
  BY WorkerOutside
<1>2. Bound'
  <2>1. /\ worker.job \in Jobs /\ job[worker.job].phase \in Late
        /\ Due(worker.job) \notin Terminal => active = worker.job
    BY DEF SvcInv, Bound, LockPlaces, SwitchPlaces
  <2>2. Due(worker.job)' = Due(worker.job)
    BY <1>1
  <2> QED
    BY <1>1, <2>1, <2>2 DEF Bound, Due
<1>3. Pending' 
  BY <1>1 DEF SvcInv, Pending, GoodBase
<1>4. Locks' /\ Fated' /\ Containers'
  BY <1>1 DEF SvcInv, Locks, Fated, Containers, LockPlaces, SwitchPlaces
<1> QED
  BY <1>1, <1>2, <1>3, <1>4 DEF Typed

\* No switch in progress touches what other jobs rely on (dataset.py:206-235).
LEMMA SwitchingKeeps ==
  ASSUME IInv, SvcInv, UNCHANGED <<storeVars, ingressVars, hostVars, container, candidate>>,
         guard.owner # Worker, worker.at \in SwitchPlaces,
         UNCHANGED <<recorded, published>>,
         NEW place \in SwitchPlaces \cup {"unlock"},
         worker' \in WorkerRecord, worker'.at = place, worker'.job = worker.job,
         live' \in {live, worker.job, job[worker.job].base}, route' \in {route, live},
         place \in {"reload", "verify"} => live' = worker.job
  PROVE  Core'
<1> USE DEF Core
<1> DEFINE j == worker.job
<1>1. /\ j \in Jobs /\ Due(j) = job[j].phase /\ Due(j) \in Publishing /\ j \notin recorded
      /\ guard.save # j
  BY Alone DEF SvcInv, Staged, PublishPlaces, SwitchPlaces
<1>2. WorkerTypeOK
  BY DEF SvcInv, Typed
<1>3. \A k \in recorded : job[k].phase \notin Publishing
  BY <1>1, <1>2, OnePublication DEF WorkerTypeOK
<1>4. GoodBase(job[j].base, j)
  BY <1>1 DEF SvcInv, Records
<1>5. UNCHANGED <<job, guard, cli, lock>>
  BY DEF storeVars, hostVars
<1>6. WorkerTypeOK'
  BY <1>1, <1>2, <1>4 DEF WorkerTypeOK, GoodBase, Databases
<1>7. Records'
  <2>1. live' \in Jobs => job[live'].phase \in Publishing \cup {"succeeded"}
    BY <1>1, <1>4 DEF SvcInv, Records, GoodBase
  <2>2. route' \in Jobs => job[route'].phase \in Publishing \cup Terminal
    BY DEF SvcInv, Records, Terminal
  <2> QED
    BY <1>3, <1>5, <2>1, <2>2 DEF SvcInv, Records, GoodBase
<1>8. Due(j)' \in Publishing
  BY <1>1, WorkerOutside
<1>9. Staged'
  BY <1>1, <1>8 DEF Staged, PublishPlaces, SwitchPlaces, Due
<1>10. guard.save # NoJob /\ guard.content.phase = "failed" => live' # guard.save
  <2>1. guard.save # NoJob => guard.save \in Jobs /\ job[guard.save].phase \notin Late
    BY DEF SvcInv, Pending, IInv, StoreTypeOK, GuardRecord, SwitchPlaces
  <2> QED
    BY <1>1, <1>4, <2>1 DEF SvcInv, Pending, GoodBase, Late, Terminal
<1> QED
  BY <1>6, <1>7, <1>9, <1>10, WorkerPublishes DEF LockPlaces

\* Config and route, there and back (dataset.py:217-218, 226-230).
LEMMA SwitchKeeps ==
  ASSUME IInv, SvcInv, SwitchRoute \/ ReloadRoute \/ RevertConfig \/ RevertRoute,
         UNCHANGED <<ingressVars, hostVars>>
  PROVE  Core'
<1>1. worker \in WorkerRecord
  BY DEF SvcInv, Core, Typed, WorkerTypeOK
<1>2. ASSUME NEW place \in SwitchPlaces, MoveTo(place)
      PROVE  worker' \in WorkerRecord /\ worker'.at = place /\ worker'.job = worker.job
  BY <1>1, <1>2 DEF WorkerRecord, Places, MoveTo, SwitchPlaces
<1>3. ASSUME RaiseUnlocking
      PROVE  worker' \in WorkerRecord /\ worker'.at = "unlock" /\ worker'.job = worker.job
  BY <1>1, <1>3 DEF WorkerRecord, Places, RaiseUnlocking
<1>4. CASE SwitchRoute
  <2>1. /\ guard.owner # Worker /\ worker.at \in SwitchPlaces
        /\ UNCHANGED <<storeVars, container, candidate, route, recorded, published>>
    BY <1>4 DEF SwitchRoute, AtPlace, SwitchPlaces
  <2>2. CASE live' = worker.job /\ MoveTo("reload")
    <3>1. worker' \in WorkerRecord /\ worker'.at = "reload" /\ worker'.job = worker.job
      BY <1>2, <2>2 DEF SwitchPlaces
    <3> QED
      BY <2>1, <2>2, <3>1, SwitchingKeeps DEF SwitchPlaces
  <2>3. CASE RaiseUnlocking /\ UNCHANGED live
    BY <1>3, <2>1, <2>3, SwitchingKeeps
  <2> QED
    BY <1>4, <2>2, <2>3 DEF SwitchRoute
<1>5. CASE ReloadRoute
  <2>1. /\ guard.owner # Worker /\ worker.at \in SwitchPlaces /\ worker.at = "reload"
        /\ UNCHANGED <<storeVars, container, candidate, live, recorded, published>>
    BY <1>5 DEF ReloadRoute, AtPlace, SwitchPlaces
  <2>2. live = worker.job
    BY <2>1 DEF SvcInv, Core, Staged
  <2>3. PICK place \in {"verify", "revert"} : MoveTo(place) /\ route' \in {route, live}
    BY <1>5 DEF ReloadRoute
  <2>4. worker' \in WorkerRecord /\ worker'.at = place /\ worker'.job = worker.job
    BY <1>2, <2>3 DEF SwitchPlaces
  <2> QED
    BY <2>1, <2>2, <2>3, <2>4, SwitchingKeeps DEF SwitchPlaces
<1>6. CASE RevertConfig
  <2>1. /\ guard.owner # Worker /\ worker.at \in SwitchPlaces
        /\ UNCHANGED <<storeVars, container, candidate, route, recorded, published>>
        /\ MoveTo("unload") /\ live' = job[worker.job].base
    BY <1>6 DEF RevertConfig, AtPlace, SwitchPlaces
  <2>2. worker' \in WorkerRecord /\ worker'.at = "unload" /\ worker'.job = worker.job
    BY <1>2, <2>1 DEF SwitchPlaces
  <2> QED
    BY <2>1, <2>2, SwitchingKeeps DEF SwitchPlaces
<1>7. CASE RevertRoute
  <2>1. /\ guard.owner # Worker /\ worker.at \in SwitchPlaces
        /\ UNCHANGED <<storeVars, container, candidate, live, recorded, published>>
        /\ RaiseUnlocking /\ route' \in {route, live}
    BY <1>7 DEF RevertRoute, AtPlace, SwitchPlaces
  <2> QED
    BY <1>3, <2>1, SwitchingKeeps
<1> QED
  BY <1>4, <1>5, <1>6, <1>7

\* The switch is recorded while its lock keeps every command out, or undone.
LEMMA VerifyRouteKeeps ==
  ASSUME IInv, SvcInv, VerifyRoute, UNCHANGED <<ingressVars, hostVars>>
  PROVE  Core'
<1> USE DEF Core
<1> DEFINE j == worker.job
<1>1. /\ worker.at = "verify" /\ guard.owner # Worker
      /\ UNCHANGED <<storeVars, container, candidate, live, route, published>>
  BY DEF VerifyRoute, AtPlace
<1>2. /\ j \in Jobs /\ Due(j) = job[j].phase /\ Due(j) \in Publishing /\ j \notin recorded
      /\ guard.save # j /\ live = j
  BY <1>1, Alone DEF SvcInv, Staged, PublishPlaces, SwitchPlaces
<1>3. worker \in WorkerRecord /\ WorkerTypeOK
  BY DEF SvcInv, Typed, WorkerTypeOK
<1>4. \A k \in recorded : job[k].phase \notin Publishing
  BY <1>2, <1>3, OnePublication DEF WorkerTypeOK
<1>5. UNCHANGED <<job, guard, cli, lock>>
  BY <1>1 DEF storeVars, hostVars
<1>6. CASE route = j /\ recorded' = recorded \cup {j} /\ MoveTo("receipt")
  <2>1. worker' \in WorkerRecord /\ worker'.at = "receipt" /\ worker'.job = j
    BY <1>3, <1>6 DEF WorkerRecord, Places, MoveTo
  <2>2. WorkerTypeOK'
    BY <1>1, <1>2, <1>3, <1>6, <2>1 DEF WorkerTypeOK
  <2>3. cli = "idle"
    <3>1. lock = "worker"
      BY <1>1 DEF SvcInv, Locks, LockPlaces, SwitchPlaces
    <3>2. cli # "open"
      BY <1>2 DEF SvcInv, Locks
    <3> QED
      BY <3>1, <3>2 DEF SvcInv, Locks, Typed, HostTypeOK
  <2>4. Records'
    BY <1>1, <1>2, <1>5, <1>6, <2>3 DEF SvcInv, Records, GoodBase
  <2>5. Due(j)' \in Publishing
    BY <1>1, <1>2, <2>1, WorkerOutside
  <2>6. Staged'
    BY <1>1, <1>6, <2>1, <2>5 DEF Staged, PublishPlaces, SwitchPlaces, Due
  <2>7. guard.save # NoJob /\ guard.content.phase = "failed" => live' # guard.save
    BY <1>1 DEF SvcInv, Pending
  <2> QED
    BY <1>1, <2>1, <2>2, <2>4, <2>6, <2>7, WorkerPublishes DEF LockPlaces, SwitchPlaces
<1>7. CASE MoveTo("revert") /\ UNCHANGED recorded
  <2>1. worker' \in WorkerRecord /\ worker'.at = "revert" /\ worker'.job = j
    BY <1>3, <1>7 DEF WorkerRecord, Places, MoveTo
  <2> QED
    BY <1>1, <1>7, <2>1, SwitchingKeeps DEF SwitchPlaces
<1> QED
  BY <1>6, <1>7 DEF VerifyRoute

\* The receipt follows the record (dataset.py:315-330).
LEMMA WriteReceiptFileKeeps ==
  ASSUME IInv, SvcInv, WriteReceiptFile, UNCHANGED <<ingressVars, hostVars>>
  PROVE  Core'
<1> USE DEF Core
<1> DEFINE j == worker.job
<1>1. /\ worker.at = "receipt" /\ guard.owner # Worker /\ MoveTo("finish")
      /\ published' = published \cup {j}
      /\ UNCHANGED <<storeVars, container, candidate, live, route, recorded>>
  BY DEF WriteReceiptFile, AtPlace
<1>2. j \in Jobs /\ Due(j) \in Publishing /\ j \in recorded
  BY <1>1, Alone DEF SvcInv, Staged, PublishPlaces, SwitchPlaces
<1>3. worker \in WorkerRecord /\ WorkerTypeOK
  BY DEF SvcInv, Typed, WorkerTypeOK
<1>4. worker' \in WorkerRecord /\ worker'.at = "finish" /\ worker'.job = j
  BY <1>1, <1>3 DEF WorkerRecord, Places, MoveTo
<1>5. WorkerTypeOK'
  BY <1>1, <1>2, <1>3, <1>4 DEF WorkerTypeOK
<1>6. Records'
  BY <1>1, <1>2 DEF SvcInv, Records, GoodBase, storeVars, hostVars
<1>7. Due(j)' \in Publishing
  BY <1>1, <1>2, <1>4, WorkerOutside
<1>8. Staged'
  BY <1>1, <1>2, <1>4, <1>7 DEF Staged, PublishPlaces, SwitchPlaces, Due
<1>9. guard.save # NoJob /\ guard.content.phase = "failed" => live' # guard.save
  BY <1>1 DEF SvcInv, Pending
<1> QED
  BY <1>1, <1>4, <1>5, <1>6, <1>8, <1>9, WorkerPublishes DEF LockPlaces, SwitchPlaces

\* A job is given up as failed only when it is not what is served.
LEMMA DiagnoseKeeps ==
  ASSUME IInv, SvcInv, Diagnose, UNCHANGED <<ingressVars, hostVars>>
  PROVE  Core'
<1> USE DEF Core
<1> DEFINE j == worker.job
           phase == job[j].phase
<1>1. /\ worker.at = "error" /\ guard.owner # Worker
      /\ UNCHANGED <<storeVars, container, candidate, live, route, recorded, published>>
  BY DEF Diagnose, AtPlace, publicationVars
<1>2. CASE Sleep
  BY <1>1, <1>2, RaiseKeeps
<1>3. ASSUME NEW f, worker' = [worker EXCEPT !.at = "settle", !.fate = f],
             \/ phase \in Publishing /\ live = job[j].base /\ f = "failed"
             \/ phase \in Publishing /\ f = "publication_unknown"
             \/ phase \in {"queued", "importing"} /\ f = "failed"
      PROVE  Core'
  <2>1. j \in Jobs /\ Due(j) = phase
    BY <1>1, Alone
  <2>2. worker \in WorkerRecord /\ WorkerTypeOK
    BY DEF SvcInv, Typed, WorkerTypeOK
  <2>3. worker' \in WorkerRecord /\ worker'.at = "settle" /\ worker'.job = j /\ worker'.fate = f
    BY <1>3, <2>2 DEF WorkerRecord, Places, Phases, Publishing, Terminal
  <2>4. WorkerTypeOK' /\ Containers'
    BY <1>1, <2>2, <2>3 DEF WorkerTypeOK, SvcInv, Containers
  <2>5. f = "failed" => live # j
    BY <1>3, <2>1 DEF SvcInv, Records, GoodBase, Publishing
  <2>6. Due(j)' = phase
    BY <1>1, <2>1, <2>3, WorkerOutside
  <2>7. Fated'
    BY <1>1, <1>3, <2>3, <2>5, <2>6 DEF Fated, Publishing, Terminal, Due
  <2>8. Staged'
    BY <2>3 DEF Staged, PublishPlaces, SwitchPlaces
  <2> QED
    BY <1>1, <2>3, <2>4, <2>7, <2>8, WorkerMoves DEF LockPlaces, SwitchPlaces
<1> QED
  BY <1>2, <1>3 DEF Diagnose

--------------------------------------------------------------------------------
\* The worker's calls.

\* A call that writes no job file.
LEMMA WorkerLooks ==
  ASSUME IInv, SvcInv, Called(Worker), guard'.save = NoJob,
         UNCHANGED <<ingressVars, hostVars, container, candidate, live, route, recorded, published>>,
         WorkerTypeOK', Bound', Staged', Fated', worker'.at \in LockPlaces => lock = "worker"
  PROVE  Core'
<1> USE DEF Core
<1>1. /\ UNCHANGED <<job, active, lock, request, known, snapshot, timer, cli, faults, timers,
                     commands>>
      /\ guard.owner = Nobody
  BY DEF Called, ingressVars, hostVars, Free
<1>2. Typed'
  BY <1>1 DEF SvcInv, Typed, IngressTypeOK, HostTypeOK
<1>3. Pending' /\ Uploads'
  BY <1>1 DEF SvcInv, Pending, Uploads, QueuedIsComplete, Accepted
<1>4. Records'
  BY <1>1 DEF SvcInv, Records, GoodBase
<1>5. Locks'
  <2>1. cli # "open"
    BY <1>1, StoreConstants, ServiceConstants DEF SvcInv, Locks
  <2> QED
    BY <1>1, <2>1 DEF SvcInv, Locks
<1>6. Containers'
  BY DEF SvcInv, Containers
<1> QED
  BY <1>2, <1>3, <1>4, <1>5, <1>6

\* Busy, because the job is not as expected, raises like any other exception.
LEMMA BusyKeeps ==
  ASSUME IInv, SvcInv, guard.owner # Worker, worker.at # "idle",
         UNCHANGED <<ingressVars, hostVars, container, candidate, live, route, recorded, published>>,
         \/ Contended(Worker) /\ UNCHANGED storeVars
         \/ \E expected : TransitionBusy(Worker, worker.job, expected),
         Raise \/ Sleep \/ (worker.at \in LockPlaces /\ RaiseUnlocking)
  PROVE  Core'
<1> USE DEF Core
<1>1. CASE UNCHANGED storeVars
  BY <1>1, RaiseKeeps
<1>2. ASSUME NEW expected, TransitionBusy(Worker, worker.job, expected)
      PROVE  Core'
  <2>1. Called(Worker) /\ guard'.save = NoJob
    BY <1>2, WorkerConstants, QuietCall DEF TransitionBusy
  <2>2. worker \in WorkerRecord /\ WorkerTypeOK
    BY DEF SvcInv, Typed, WorkerTypeOK
  <2>3. /\ worker' \in WorkerRecord
        /\ worker'.at \in {"error", "idle", "unlock"}
        /\ worker'.at # "idle" => worker'.job = worker.job
        /\ worker'.at = "unlock" => worker.at \in LockPlaces
    <3>1. CASE Raise
      BY <2>2, <3>1 DEF WorkerRecord, Places, Raise, MoveTo
    <3>2. CASE Sleep
      BY <2>2, <3>2 DEF WorkerRecord, Places, Sleep, Asleep, Phases
    <3>3. CASE worker.at \in LockPlaces /\ RaiseUnlocking
      BY <2>2, <3>3 DEF WorkerRecord, Places, RaiseUnlocking
    <3> QED
      BY <3>1, <3>2, <3>3
  <2>4. WorkerTypeOK'
    BY <2>2, <2>3 DEF WorkerTypeOK
  <2>5. /\ worker.job \in Jobs /\ worker.job # NoJob /\ Due(worker.job) = job[worker.job].phase
        /\ job[worker.job].phase \in Late
        /\ job[worker.job].phase \notin Terminal => active = worker.job
    BY Alone
  <2>6. UNCHANGED <<job, active>>
    BY <2>1 DEF Called
  <2>7. Bound'
    BY <2>1, <2>3, <2>5, <2>6 DEF Bound, Due
  <2>8. Staged' /\ Fated'
    BY <2>3 DEF Staged, Fated, PublishPlaces, SwitchPlaces
  <2>9. worker'.at \in LockPlaces => lock = "worker"
    BY <2>3 DEF SvcInv, Locks, LockPlaces, SwitchPlaces
  <2> QED
    BY <2>1, <2>4, <2>7, <2>8, <2>9, WorkerLooks
<1> QED
  BY <1>1, <1>2

\* A move of the worker's job.
LEMMA WorkerMovesJob ==
  ASSUME IInv, SvcInv, worker.at # "idle", guard.owner # Worker,
         UNCHANGED <<ingressVars, hostVars, container, candidate, live, route, recorded, published>>,
         NEW expected, NEW content, Transition(Worker, worker.job, expected, content),
         content.manifest = job[worker.job].manifest,
         content.phase \in {"importing"} \cup Publishing => GoodBase(content.base, worker.job),
         content.changed => /\ content.phase = "succeeded" /\ job[worker.job].phase \in Publishing
                            /\ worker.job \in published,
         content.phase = "succeeded" /\ ~content.changed => job[worker.job].phase = "importing",
         content.phase = "failed" => live # worker.job,
         NEW place \in {"idle", "import", "lock", "remove"}, worker'.at = place,
         worker' \in WorkerRecord, place # "idle" => worker'.job = worker.job,
         place = "import" => content.phase = "importing",
         place = "lock" => content.phase \in Publishing
  PROVE  Core'
<1> USE DEF Core
<1> DEFINE j == worker.job
<1>1. /\ j \in Jobs /\ j # NoJob /\ job[j].phase \in Late
  BY Alone
<1>2. /\ Called(Worker) /\ guard'.save = j /\ guard'.content = content
      /\ active = j /\ job[j].phase \notin Terminal
  BY <1>1, MoveCall, WorkerConstants
<1>3. /\ UNCHANGED <<job, active, lock, request, known, snapshot, timer, cli, faults, timers,
                     commands>>
      /\ guard.owner = Nobody /\ guard'.owner = Worker
  BY <1>2 DEF Called, ingressVars, hostVars, Free
<1>4. Typed'
  BY <1>3 DEF SvcInv, Typed, IngressTypeOK, HostTypeOK, WorkerTypeOK
<1>5. place # "idle" => Due(worker.job)' = content.phase
  BY <1>2 DEF Due
<1>6. Bound' /\ Staged' /\ Fated'
  BY <1>1, <1>2, <1>3, <1>5 DEF Bound, Staged, Fated, PublishPlaces, SwitchPlaces, Due
<1>7. Pending'
  <2>1. content.phase \in {"importing"} \cup Publishing =>
          (GoodBase(guard.content.base, guard.save))'
    BY <1>2, <1>3 DEF GoodBase
  <2>2. worker'.at \in {"idle", "import", "lock", "remove"}
    OBVIOUS
  <2> QED
    BY <1>2, <1>3, <2>1, <2>2 DEF Pending
<1>8. Records'
  BY <1>3 DEF SvcInv, Records, GoodBase
<1>9. Locks'
  <2>1. cli # "open"
    BY <1>3, StoreConstants, ServiceConstants DEF SvcInv, Locks
  <2> QED
    BY <1>3, <2>1 DEF SvcInv, Locks, LockPlaces, SwitchPlaces
<1>10. Containers'
  BY DEF SvcInv, Containers
<1>11. Uploads'
  <2>1. job[j].manifest # Retention => j \in snapshot
    BY <1>1, <1>2 DEF SvcInv, Uploads, QueuedIsComplete, Accepted, Late, Publishing, Terminal
  <2> QED
    BY <1>2, <1>3, <2>1 DEF SvcInv, Uploads, QueuedIsComplete, Accepted
<1> QED
  BY <1>4, <1>6, <1>7, <1>8, <1>9, <1>10, <1>11

\* The worker picks the job that has the lease, unless it is being uploaded.
LEMMA TickKeeps ==
  ASSUME IInv, SvcInv, Tick, UNCHANGED <<ingressVars, hostVars>>
  PROVE  Core'
<1> USE DEF Core
<1> DEFINE a == ActiveJob
<1>1. /\ worker.at = "idle" /\ guard.owner # Worker
      /\ UNCHANGED <<container, candidate, live, route, recorded, published>>
  BY DEF Tick, AtPlace, publicationVars
<1>2. Called(Worker) /\ guard'.save = NoJob
  BY QuietCall, WorkerConstants DEF Tick
<1>3. UNCHANGED <<job, active>>
  BY <1>2 DEF Called
<1>4. WorkerTypeOK
  BY DEF SvcInv, Typed
<1>5. CASE Sleep
  <2>1. worker' \in WorkerRecord /\ worker'.at = "idle"
    BY <1>4, <1>5 DEF Sleep, Asleep, WorkerRecord, Places, Phases
  <2>2. WorkerTypeOK'
    BY <1>1, <1>4, <2>1 DEF WorkerTypeOK
  <2>3. (Bound /\ Staged /\ Fated)'
    BY <2>1 DEF Bound, Staged, Fated, PublishPlaces, SwitchPlaces
  <2> QED
    BY <1>1, <1>2, <2>1, <2>2, <2>3, WorkerLooks DEF LockPlaces, SwitchPlaces
<1>6. ASSUME a # NoJob, job[a].phase \notin Uploading,
             worker' = [Asleep EXCEPT !.job = a,
                          !.at = CASE job[a].phase = "queued" -> "base"
                                   [] job[a].phase = "importing" -> "import"
                                   [] job[a].phase \in Publishing -> "lock"]
      PROVE  Core'
  <2>1. a = active /\ a \in Jobs /\ job[a].phase \notin Terminal \cup {"absent"}
    BY <1>6 DEF ActiveJob, IInv, StoreTypeOK, SvcInv, Present
  <2>2. job[a].phase \in {"queued", "importing"} \cup Publishing
    BY <1>6, <2>1 DEF IInv, StoreTypeOK, JobRecord, Phases
  <2> HIDE DEF a
  <2>3. /\ worker'.job = a
        /\ \/ job[a].phase = "queued" /\ worker'.at = "base"
           \/ job[a].phase = "importing" /\ worker'.at = "import"
           \/ job[a].phase \in Publishing /\ worker'.at = "lock"
    BY <1>6, <2>2 DEF Asleep, Publishing
  <2>4. /\ worker'.base = NoJob /\ worker'.fate = "absent" /\ worker'.failed = FALSE
        /\ worker' = [at |-> worker'.at, job |-> worker'.job, base |-> worker'.base,
                      fate |-> worker'.fate, failed |-> worker'.failed]
    BY <1>6 DEF Asleep
  <2>5. worker' \in WorkerRecord
    BY <2>1, <2>3, <2>4 DEF WorkerRecord, Places, Phases
  <2>6. WorkerTypeOK'
    BY <1>1, <1>4, <2>5 DEF WorkerTypeOK
  <2>7. Due(worker.job)' = job[a].phase
    BY <1>2, <1>3, <2>1, <2>3, StoreConstants DEF Due
  <2>8. Bound'
    BY <1>3, <2>1, <2>2, <2>3, <2>7 DEF Bound, Late, Due
  <2>9. Staged' /\ Fated'
    BY <2>3, <2>7 DEF Staged, Fated, PublishPlaces, SwitchPlaces, Publishing, Due
  <2> QED
    BY <1>1, <1>2, <2>3, <2>6, <2>8, <2>9, WorkerLooks DEF LockPlaces, SwitchPlaces
<1> QED
  BY <1>5, <1>6 DEF Tick

\* What the worker knows of its job, and what it would write of it.
LEMMA WorkersJob ==
  ASSUME IInv, SvcInv, worker.at # "idle", guard.owner # Worker,
         NEW to, NEW content, content = WithPhase(to)
  PROVE  /\ worker.job \in Jobs
         /\ content.phase = to /\ content.manifest = job[worker.job].manifest
         /\ content.base = job[worker.job].base /\ content.changed = job[worker.job].changed
         /\ job[worker.job].changed => job[worker.job].phase = "succeeded"
         /\ job[worker.job].phase \in {"importing"} \cup Publishing =>
              GoodBase(job[worker.job].base, worker.job)
<1> USE DEF Core
<1>1. worker.job \in Jobs
  BY Alone
<1> QED
  BY <1>1 DEF WithPhase, IInv, StoreTypeOK, JobRecord, SvcInv, Records

\* The base read before is written with the importing phase (sync_worker.py:49-60).
LEMMA BeginImportKeeps ==
  ASSUME IInv, SvcInv, BeginImport, UNCHANGED <<ingressVars, hostVars>>
  PROVE  Core'
<1> USE DEF Core
<1> DEFINE j == worker.job
           content == [WithPhase("importing") EXCEPT !.base = worker.base]
<1>1. /\ worker.at = "begin" /\ worker.at # "idle" /\ guard.owner # Worker
      /\ UNCHANGED <<container, candidate, live, route, recorded, published>>
  BY DEF BeginImport, AtPlace, publicationVars
<1>2. CASE \/ TransitionBusy(Worker, j, {"queued"}) /\ Raise
           \/ Contended(Worker) /\ Raise /\ UNCHANGED storeVars
  BY <1>1, <1>2, BusyKeeps
<1>3. CASE /\ Transition(Worker, j, {"queued"}, content)
           /\ worker' = [worker EXCEPT !.at = "import", !.base = NoJob]
  <2>1. /\ j \in Jobs /\ job[j].phase = "queued" /\ GoodBase(worker.base, j)
    BY <1>1, Alone DEF SvcInv, Staged
  <2>2. ~job[j].changed
    BY <2>1 DEF SvcInv, Records
  <2>3. /\ content.phase = "importing" /\ content.manifest = job[j].manifest
        /\ content.base = worker.base /\ content.changed = job[j].changed
    BY <2>1 DEF WithPhase, IInv, StoreTypeOK, JobRecord
  <2>4. worker' \in WorkerRecord /\ worker'.at = "import" /\ worker'.job = j
    BY <1>3 DEF SvcInv, Typed, WorkerTypeOK, WorkerRecord, Places
  <2>5. Transition(Worker, j, {"queued"}, content)
    BY <1>3
  <2> HIDE DEF content
  <2> QED
    BY <1>1, <2>1, <2>2, <2>3, <2>4, <2>5, WorkerMovesJob DEF Publishing
<1> QED
  BY <1>2, <1>3 DEF BeginImport, TryTransition

\* A finished import ends the job or opens its publication (sync_worker.py:83-103).
LEMMA FinishImportKeeps ==
  ASSUME IInv, SvcInv, FinishImport, UNCHANGED <<ingressVars, hostVars>>
  PROVE  Core'
<1> USE DEF Core
<1> DEFINE j == worker.job
<1>1. /\ worker.at = "wait" /\ worker.at # "idle" /\ guard.owner # Worker
      /\ UNCHANGED <<container, candidate, live, route, recorded, published>>
  BY DEF FinishImport, AtPlace, publicationVars
<1>2. CASE \/ TransitionBusy(Worker, j, {"importing"}) /\ Raise
           \/ Contended(Worker) /\ Raise /\ UNCHANGED storeVars
           \/ Raise /\ UNCHANGED storeVars
  BY <1>1, <1>2, BusyKeeps, RaiseKeeps
<1>3. ASSUME NEW to, NEW place,
             (to = "publishing" /\ place = "lock") \/ (to = "succeeded" /\ place = "remove"),
             Transition(Worker, j, {"importing"}, WithPhase(to)),
             worker' = [worker EXCEPT !.at = place, !.base = NoJob]
      PROVE  Core'
  <2> DEFINE content == WithPhase(to)
  <2>1. j \in Jobs /\ job[j].phase = "importing"
    BY <1>1, Alone DEF SvcInv, Staged
  <2>2. ~job[j].changed /\ GoodBase(job[j].base, j)
    BY <2>1 DEF SvcInv, Records
  <2>3. /\ content.phase = to /\ content.manifest = job[j].manifest
        /\ content.base = job[j].base /\ content.changed = job[j].changed
    BY <1>1, WorkersJob
  <2>4. worker' \in WorkerRecord /\ worker'.at = place /\ worker'.job = j
    BY <1>3 DEF SvcInv, Typed, WorkerTypeOK, WorkerRecord, Places
  <2>5. Transition(Worker, j, {"importing"}, content)
    BY <1>3
  <2>6. \/ to = "publishing" /\ place = "lock"
        \/ to = "succeeded" /\ place = "remove"
    BY <1>3
  <2> HIDE DEF content
  <2> QED
    BY <1>1, <2>1, <2>2, <2>3, <2>4, <2>5, <2>6, WorkerMovesJob DEF Publishing
<1>4. CASE /\ Transition(Worker, j, {"importing"}, WithPhase("publishing"))
           /\ worker' = [worker EXCEPT !.at = "lock", !.base = NoJob]
  BY <1>3, <1>4
<1>5. CASE /\ Transition(Worker, j, {"importing"}, WithPhase("succeeded"))
           /\ worker' = [worker EXCEPT !.at = "remove", !.base = NoJob]
  BY <1>3, <1>5
<1> QED
  BY <1>2, <1>4, <1>5 DEF FinishImport, TryTransition

\* Success is planned with the receipt in hand (sync_worker.py:119-127).
LEMMA FinishPublicationKeeps ==
  ASSUME IInv, SvcInv, FinishPublication, UNCHANGED <<ingressVars, hostVars>>
  PROVE  Core'
<1> USE DEF Core
<1> DEFINE j == worker.job
           content == [WithPhase("succeeded") EXCEPT !.changed = TRUE]
<1>1. /\ worker.at = "finish" /\ worker.at # "idle" /\ guard.owner # Worker
      /\ worker.at \in LockPlaces
      /\ UNCHANGED <<container, candidate, live, route, recorded, published>>
  BY DEF FinishPublication, AtPlace, publicationVars, LockPlaces, SwitchPlaces
<1>2. CASE \/ TransitionBusy(Worker, j, Publishing) /\ RaiseUnlocking
           \/ Contended(Worker) /\ RaiseUnlocking /\ UNCHANGED storeVars
  BY <1>1, <1>2, BusyKeeps
<1>3. CASE Transition(Worker, j, Publishing, content) /\ MoveTo("remove")
  <2>1. j \in Jobs /\ job[j].phase \in Publishing /\ j \in published
    BY <1>1, Alone DEF SvcInv, Staged, PublishPlaces, SwitchPlaces
  <2>2. /\ content.phase = "succeeded" /\ content.manifest = job[j].manifest
        /\ content.changed = TRUE
    BY <2>1 DEF WithPhase, IInv, StoreTypeOK, JobRecord
  <2>3. worker' \in WorkerRecord /\ worker'.at = "remove" /\ worker'.job = j
    BY <1>3 DEF SvcInv, Typed, WorkerTypeOK, WorkerRecord, Places, MoveTo
  <2>4. Transition(Worker, j, Publishing, content)
    BY <1>3
  <2> HIDE DEF content
  <2> QED
    BY <1>1, <2>1, <2>2, <2>3, <2>4, WorkerMovesJob DEF Publishing
<1> QED
  BY <1>2, <1>3 DEF FinishPublication

\* The handler's transition writes the fate it decided (sync_worker.py:139-149).
LEMMA SettleKeeps ==
  ASSUME IInv, SvcInv, Settle, UNCHANGED <<ingressVars, hostVars>>
  PROVE  Core'
<1> USE DEF Core
<1> DEFINE j == worker.job
           to == worker.fate
           expected == IF job[j].phase \in Publishing THEN Publishing ELSE {job[j].phase}
           content == WithPhase(to)
<1>1. /\ worker.at = "settle" /\ worker.at # "idle" /\ guard.owner # Worker
      /\ Sleep /\ UNCHANGED <<container, candidate, live, route, recorded, published>>
  BY DEF Settle, AtPlace, publicationVars
<1>2. CASE TransitionBusy(Worker, j, expected) \/ (Contended(Worker) /\ UNCHANGED storeVars)
  <2> HIDE DEF expected
  <2> QED
    BY <1>1, <1>2, BusyKeeps
<1>3. CASE Transition(Worker, j, expected, content)
  <2>1. /\ j \in Jobs /\ Due(j) = job[j].phase
    BY <1>1, Alone
  <2>2. /\ job[j].phase \notin Terminal
        /\ \/ to = "failed" /\ live # j
           \/ to = "publication_unknown" /\ job[j].phase \in Publishing
    BY <1>1, <2>1 DEF SvcInv, Fated
  <2>3. /\ content.phase = to /\ content.manifest = job[j].manifest
        /\ content.base = job[j].base /\ content.changed = job[j].changed
        /\ job[j].changed => job[j].phase = "succeeded"
        /\ job[j].phase \in {"importing"} \cup Publishing => GoodBase(job[j].base, j)
    BY <1>1, WorkersJob
  <2>4. worker' \in WorkerRecord /\ worker'.at = "idle"
    BY <1>1 DEF SvcInv, Typed, WorkerTypeOK, Sleep, Asleep, WorkerRecord, Places, Phases
  <2> HIDE DEF content, expected, to
  <2> QED
    BY <1>1, <1>3, <2>1, <2>2, <2>3, <2>4, WorkerMovesJob DEF Publishing, Terminal
<1> QED
  BY <1>1, <1>2, <1>3 DEF Settle

--------------------------------------------------------------------------------
\* The worker and the dataset lock.

\* The guard is taken for the lock (sync_worker.py:110-111).
LEMMA EnterSwitchKeeps ==
  ASSUME IInv, SvcInv, EnterSwitch, UNCHANGED <<ingressVars, hostVars>>
  PROVE  Core'
<1> USE DEF Core
<1> DEFINE j == worker.job
<1>1. /\ worker.at = "lock" /\ worker.at # "idle" /\ guard.owner # Worker
      /\ UNCHANGED <<container, candidate, live, route, recorded, published>>
  BY DEF EnterSwitch, AtPlace, publicationVars
<1>2. CASE Contended(Worker) /\ Raise /\ UNCHANGED storeVars
  BY <1>1, <1>2, BusyKeeps
<1>3. CASE TakeGuard(Worker) /\ MoveTo("pid")
  <2>1. Called(Worker) /\ guard'.save = NoJob
    BY <1>3, QuietCall, WorkerConstants
  <2>2. /\ j \in Jobs /\ Due(j) = job[j].phase /\ Due(j) \in Publishing /\ active = j
        /\ j # NoJob
    BY <1>1, Alone DEF SvcInv, Staged, PublishPlaces, SwitchPlaces, Publishing, Terminal
  <2>3. worker \in WorkerRecord /\ WorkerTypeOK
    BY DEF SvcInv, Typed, WorkerTypeOK
  <2>4. worker' \in WorkerRecord /\ worker'.at = "pid" /\ worker'.job = j
    BY <1>3, <2>3 DEF WorkerRecord, Places, MoveTo
  <2>5. WorkerTypeOK'
    BY <1>1, <2>3, <2>4 DEF WorkerTypeOK
  <2>6. Due(worker.job)' = job[j].phase /\ active' = j /\ job' = job
    BY <2>1, <2>2, <2>4 DEF Due, Called
  <2>7. (Bound /\ Staged /\ Fated)'
    BY <2>2, <2>4, <2>6 DEF Bound, Staged, Fated, PublishPlaces, SwitchPlaces, Late, Due
  <2> QED
    BY <1>1, <2>1, <2>4, <2>5, <2>7, WorkerLooks DEF LockPlaces, SwitchPlaces
<1> QED
  BY <1>2, <1>3 DEF EnterSwitch

\* Steps of the worker that touch the lock file only.
LEMMA LockKeeps ==
  ASSUME IInv, SvcInv, worker.at \in {"pid", "unlock"}, guard.owner # Worker \/ worker.at = "pid",
         UNCHANGED <<job, active, guard, ingressVars, hostVars, container, candidate, live, route,
                     recorded, published>>,
         NEW place \in {"pid", "activate", "error", "idle"}, worker'.at = place,
         worker' \in WorkerRecord, place # "idle" => worker'.job = worker.job,
         place \in {"pid", "activate"} => worker.at = "pid", Locks'
  PROVE  Core'
<1> USE DEF Core
<1> DEFINE j == worker.job
<1>1. UNCHANGED <<request, known, snapshot, timer, cli, faults, timers, commands>>
  BY DEF ingressVars, hostVars
<1>2. /\ j \in Jobs /\ j # NoJob /\ Due(j) = job[j].phase /\ job[j].phase \in Late
      /\ job[j].phase \notin Terminal => active = j
      /\ guard.save # NoJob => job[guard.save].phase \notin Late
  BY Alone DEF SvcInv, Pending
<1>3. worker.at = "pid" => Due(j) \in Publishing
  BY DEF SvcInv, Staged, PublishPlaces, SwitchPlaces
<1>4. Typed'
  BY <1>1 DEF SvcInv, Typed, IngressTypeOK, HostTypeOK, WorkerTypeOK
<1>5. place # "idle" => worker'.job = j /\ Due(worker.job)' = Due(j)
  BY DEF Due
<1>6. Bound'
  BY <1>2, <1>5 DEF Bound, Due
<1>7. Staged' /\ Fated'
  BY <1>3, <1>5 DEF Staged, Fated, PublishPlaces, SwitchPlaces, Due
<1>8. Pending' /\ Records'
  BY <1>1, <1>2 DEF SvcInv, Pending, Records, GoodBase
<1>9. Containers' /\ Uploads'
  BY <1>1 DEF SvcInv, Containers, Uploads, QueuedIsComplete, Accepted
<1> QED
  BY <1>4, <1>6, <1>7, <1>8, <1>9

\* The lock is taken from nobody that lives (sync_worker.py:112-118).
LEMMA TakeLockKeeps ==
  ASSUME IInv, SvcInv, TakeLock, UNCHANGED <<ingressVars, hostVars>>
  PROVE  Core'
<1> USE DEF Core
<1>1. /\ worker.at = "pid" /\ guard.owner = Worker
      /\ UNCHANGED <<job, active, guard, container, candidate, live, route, recorded, published, cli>>
  BY DEF TakeLock, SetLock, storeVars, publicationVars, hostVars
<1>2. worker \in WorkerRecord
  BY DEF SvcInv, Typed, WorkerTypeOK
<1>3. /\ worker' \in WorkerRecord /\ worker'.job = worker.job
      /\ \/ worker'.at = "pid" /\ lock \in {"none", "dead"}
         \/ worker'.at = "error" /\ lock' = lock
         \/ worker'.at = "activate" /\ lock = "worker_empty" /\ lock' = "worker"
  <2>1. CASE lock \in {"none", "dead"} /\ UNCHANGED worker
    BY <1>1, <1>2, <2>1
  <2>2. CASE Raise /\ UNCHANGED storeVars
    BY <1>2, <2>2 DEF Raise, MoveTo, WorkerRecord, Places, storeVars
  <2>3. CASE lock = "worker_empty" /\ SetLock("worker") /\ MoveTo("activate")
    BY <1>2, <2>3 DEF SetLock, MoveTo, WorkerRecord, Places
  <2> QED
    BY <2>1, <2>2, <2>3 DEF TakeLock
<1>4. cli # "open"
  BY <1>1, ServiceConstants DEF SvcInv, Locks
<1>5. Locks'
  BY <1>1, <1>3, <1>4 DEF SvcInv, Locks, LockPlaces, SwitchPlaces
<1> QED
  BY <1>1, <1>3, <1>5, LockKeeps

\* Only the own lock is removed (sync_worker.py:129-130).
LEMMA UnlockKeeps ==
  ASSUME IInv, SvcInv, Unlock, UNCHANGED <<ingressVars, hostVars>>
  PROVE  Core'
<1> USE DEF Core
<1>1. /\ worker.at = "unlock" /\ guard.owner # Worker
      /\ UNCHANGED <<job, active, guard, container, candidate, live, route, recorded, published, cli>>
  BY DEF Unlock, AtPlace, SetLock, publicationVars, hostVars
<1>2. worker \in WorkerRecord
  BY DEF SvcInv, Typed, WorkerTypeOK
<1>3. /\ worker' \in WorkerRecord /\ worker'.at \in {"error", "idle"}
      /\ worker'.at # "idle" => worker'.job = worker.job
  <2>1. CASE worker' = [worker EXCEPT !.at = "error", !.failed = FALSE]
    BY <1>2, <2>1 DEF WorkerRecord, Places
  <2>2. CASE Sleep
    BY <2>2 DEF Sleep, Asleep, WorkerRecord, Places, Phases
  <2> QED
    BY <2>1, <2>2 DEF Unlock
<1>4. Locks'
  <2>1. lock = "worker"
    BY <1>1 DEF SvcInv, Locks, LockPlaces, SwitchPlaces
  <2> QED
    BY <1>1, <1>3, <2>1 DEF SvcInv, Locks, LockPlaces, SwitchPlaces
<1> QED
  BY <1>1, <1>3, <1>4, LockKeeps

\* Every step of the worker.
LEMMA WorkerKeeps ==
  ASSUME IInv, SvcInv, WorkerStep, UNCHANGED <<ingressVars, hostVars>>
  PROVE  Core'
BY TickKeeps, ReadBaseKeeps, BeginImportKeeps, RunImportKeeps, FinishImportKeeps,
   RemoveContainerKeeps, EnterSwitchKeeps, TakeLockKeeps, UnlockKeeps, ActivateKeeps,
   SwitchKeeps, VerifyRouteKeeps, WriteReceiptFileKeeps, FinishPublicationKeeps,
   DiagnoseKeeps, SettleKeeps
   DEF WorkerStep

\* Between verification and success the config names the job, so a reload keeps it.
LEMMA ReloadKeeps ==
  ASSUME IInv, SvcInv, NginxReload, UNCHANGED <<ingressVars, hostVars>>
  PROVE  Core'
<1> USE DEF Core
<1>1. /\ UNCHANGED <<worker, container, candidate, live, recorded, published, request, known,
                     snapshot, job, active, lock, guard, timer, cli, faults, timers, commands>>
      /\ route' = live
  BY DEF NginxReload, storeVars, ingressVars, hostVars
<1>2. Records'
  BY <1>1 DEF SvcInv, Records, GoodBase, Terminal
<1>3. (Bound /\ Staged /\ Fated /\ Pending)'
  BY <1>1 DEF SvcInv, Bound, Staged, Fated, Pending, GoodBase, Due
<1>4. (Locks /\ Containers /\ Uploads)'
  BY <1>1 DEF SvcInv, Locks, Containers, Uploads, QueuedIsComplete, Accepted
<1>5. Typed'
  BY <1>1 DEF SvcInv, Typed, IngressTypeOK, HostTypeOK, WorkerTypeOK
<1> QED
  BY <1>2, <1>3, <1>4, <1>5

--------------------------------------------------------------------------------
\* The import container.

\* A container writes its candidate only while it runs.
LEMMA ContainerKeeps ==
  ASSUME IInv, SvcInv, NEW j \in Jobs,
         (ContainerRuns(j) /\ UNCHANGED <<ingressVars, hostVars>>) \/ PruneContainer(j)
  PROVE  Core'
<1> USE DEF Core
<1>1. /\ UNCHANGED <<job, active, lock, guard, worker, live, route, recorded, published, cli, timer,
                     request, known, snapshot, timers, commands>>
      /\ faults' \in 0..MaxFaults
  BY ServiceConstants
     DEF ContainerRuns, PruneContainer, Prune, storeVars, publicationVars, ingressVars, hostVars,
         SvcInv, Typed, HostTypeOK
<1>2. container \in [Jobs -> ContainerStates] /\ candidate \subseteq Jobs
  BY DEF SvcInv, Typed, WorkerTypeOK
<1>3. container' \in [Jobs -> ContainerStates] /\ candidate' \subseteq Jobs /\ Containers'
  <2>1. CASE ContainerRuns(j)
    BY <1>2, <2>1 DEF ContainerRuns, ContainerStates, Exited, SvcInv, Containers
  <2>2. CASE PruneContainer(j)
    BY <1>2, <2>2 DEF PruneContainer, Prune, ContainerStates, SvcInv, Containers
  <2> QED
    BY <2>1, <2>2
<1>4. Typed'
  BY <1>1, <1>3 DEF SvcInv, Typed, IngressTypeOK, HostTypeOK, WorkerTypeOK
<1>5. (Bound /\ Staged /\ Fated)'
  BY <1>1 DEF SvcInv, Bound, Staged, Fated, Due, GoodBase
<1>6. (Pending /\ Records /\ Locks)'
  BY <1>1 DEF SvcInv, Pending, Records, Locks, GoodBase
<1>7. Uploads'
  BY <1>1 DEF SvcInv, Uploads, QueuedIsComplete, Accepted
<1> QED
  BY <1>3, <1>4, <1>5, <1>6, <1>7

--------------------------------------------------------------------------------
\* The retention timer and the command.

\* A job file that waits to be written is not that of a job that ended.
LEMMA NotEnded ==
  ASSUME IInv, guard.save # NoJob
  PROVE  guard.save \in Jobs /\ job[guard.save].phase \notin Terminal
BY DEF IInv, StoreTypeOK, GuardRecord, GuardInv, Saving, WritingNew, WritingMove, Moves, Publishing,
       Terminal

\* Another process's call that plans no upload's file.
LEMMA HostCall ==
  ASSUME IInv, SvcInv, NEW p \in Procs, p # Worker, Called(p),
         UNCHANGED <<ingressVars, workerVars, cli>>, HostTypeOK',
         guard'.save # NoJob =>
           /\ guard'.save \in Jobs /\ job[guard'.save].phase = "absent"
           /\ ~guard'.content.changed
           /\ guard'.content.phase = "queued" /\ guard'.content.manifest = Retention
  PROVE  Core'
<1> USE DEF Core
<1>1. /\ UNCHANGED <<worker, container, candidate, live, route, recorded, published, request, known,
                     snapshot, job>>
  BY DEF workerVars, ingressVars, Called
<1>2. (Bound /\ Staged /\ Fated /\ Pending /\ Containers)'
  BY OthersCall DEF Late, Publishing, Terminal
<1>3. Records' /\ Locks'
  BY <1>1, CallKeepsRecords, CallKeepsLocks, StoreConstants
<1>4. Typed'
  BY <1>1 DEF SvcInv, Typed, IngressTypeOK, WorkerTypeOK
<1>5. Uploads'
  BY <1>1 DEF SvcInv, Uploads, QueuedIsComplete, Accepted
<1> QED
  BY <1>2, <1>3, <1>4, <1>5

\* The timer writes the policy, and the file of a new job (retention_schedule.py).
LEMMA TimerKeeps ==
  ASSUME IInv, SvcInv, TimerStart \/ TimerPolicy \/ TimerSchedule
  PROVE  Core'
<1> USE DEF Core
<1>1. Timer \in Procs /\ Timer # Worker
  BY ServiceConstants
<1>2. UNCHANGED <<ingressVars, workerVars, cli>> /\ HostTypeOK'
  BY ServiceConstants
     DEF TimerStart, TimerPolicy, TimerSchedule, counters, SvcInv, Typed, HostTypeOK
<1>3. CASE TimerStart
  <2>1. Called(Timer) /\ guard'.save = NoJob
    BY <1>1, <1>3, QuietCall DEF TimerStart
  <2> QED
    BY <1>1, <1>2, <2>1, HostCall
<1>4. ASSUME UNCHANGED <<job, active, guard, lock>>
      PROVE  Core'
  <2>1. (Bound /\ Staged /\ Fated /\ Pending /\ Records /\ Locks /\ Containers)'
    BY <1>2, <1>4, WorkerSideKept
  <2>2. Typed' /\ Uploads'
    BY <1>2, <1>4 DEF ingressVars, workerVars, SvcInv, Typed, IngressTypeOK, WorkerTypeOK, Uploads,
                      QueuedIsComplete, Accepted
  <2> QED
    BY <2>1, <2>2
<1>5. CASE TimerPolicy
  BY <1>4, <1>5 DEF TimerPolicy, WritePolicy
<1>6. CASE TimerSchedule
  <2>1. ASSUME NEW j \in Jobs, ScheduleRetention(Timer, j)
        PROVE  Core'
    <3>1. /\ Called(Timer) /\ guard'.save = j /\ job[j].phase = "absent"
          /\ ~guard'.content.changed
      BY <1>1, <2>1, NewCall
    <3>2. guard'.content = [Blank EXCEPT !.phase = "queued"]
      BY <2>1 DEF ScheduleRetention, Enter, ActiveWrites, Free
    <3>3. guard'.content.phase = "queued" /\ guard'.content.manifest = Retention
      BY <3>2 DEF Blank
    <3> QED
      BY <1>1, <1>2, <3>1, <3>3, HostCall
  <2>2. CASE ScheduleBusy(Timer)
    <3>1. Called(Timer) /\ guard'.save = NoJob
      BY <1>1, <2>2, QuietCall DEF ScheduleBusy
    <3> QED
      BY <1>1, <1>2, <3>1, HostCall
  <2>3. CASE UNCHANGED storeVars
    BY <1>4, <2>3 DEF storeVars
  <2> QED
    BY <1>6, <2>1, <2>2, <2>3 DEF TimerSchedule
<1> QED
  BY <1>3, <1>5, <1>6

\* Steps of the command between its start and its end, but for the switch.
LEMMA CliTurns ==
  ASSUME IInv, SvcInv, cli # "idle", UNCHANGED <<job, active, guard, ingressVars, workerVars>>,
         HostTypeOK', Locks'
  PROVE  Core'
<1> USE DEF Core
<1>1. UNCHANGED <<worker, container, candidate, live, route, recorded, published, request, known,
                  snapshot>>
  BY DEF workerVars, ingressVars
<1>2. (Bound /\ Staged /\ Fated)'
  BY <1>1 DEF SvcInv, Bound, Staged, Fated, Due, GoodBase
<1>3. Pending' /\ Records'
  BY <1>1 DEF SvcInv, Pending, Records, GoodBase
<1>4. Typed' /\ Containers'
  BY <1>1 DEF SvcInv, Typed, IngressTypeOK, WorkerTypeOK, Containers
<1>5. Uploads'
  BY <1>1 DEF SvcInv, Uploads, QueuedIsComplete, Accepted
<1> QED
  BY <1>2, <1>3, <1>4, <1>5

\* A command that starts finds no publication, so nothing recorded is open.
LEMMA CliStartKeeps ==
  ASSUME IInv, SvcInv, CliStart
  PROVE  Core'
<1> USE DEF Core
<1>1. Cli \in Procs /\ Cli # Worker
  BY ServiceConstants
<1>2. Called(Cli) /\ guard'.save = NoJob
  BY <1>1, QuietCall DEF CliStart
<1>3. HostTypeOK' /\ UNCHANGED <<ingressVars, workerVars>>
  BY ServiceConstants DEF CliStart, SvcInv, Typed, HostTypeOK
<1>4. CASE UNCHANGED cli
  BY <1>1, <1>2, <1>3, <1>4, HostCall
<1>5. CASE ActiveJob = NoJob /\ cli' = "open"
  <2>1. \A j \in Jobs : job[j].phase \notin Publishing
    <3> SUFFICES ASSUME NEW j \in Jobs, job[j].phase \in Publishing PROVE FALSE
      OBVIOUS
    <3>1. active = j /\ j # NoJob
      BY OnePublication, StoreConstants
    <3> QED
      BY <1>5, <3>1 DEF ActiveJob, Expired, Uploading, Publishing, Terminal
  <2>2. /\ UNCHANGED <<worker, container, candidate, live, route, recorded, published, request, known,
                       snapshot, job, lock>>
        /\ guard'.owner = Cli
    BY <1>2, <1>3 DEF workerVars, ingressVars, Called
  <2>3. (Bound /\ Staged /\ Fated /\ Pending /\ Containers)'
    BY <1>1, <1>2, <1>3, OthersCall
  <2>4. Records'
    BY <2>1, <2>2 DEF SvcInv, Records, GoodBase, Typed, WorkerTypeOK
  <2>5. Locks'
    BY <1>2, <1>5, <2>1, <2>2 DEF SvcInv, Locks
  <2>6. Typed' /\ Uploads'
    BY <1>2, <1>3, <2>2 DEF SvcInv, Typed, IngressTypeOK, WorkerTypeOK, Uploads, QueuedIsComplete,
                            Accepted
  <2> QED
    BY <2>3, <2>4, <2>5, <2>6
<1> QED
  BY <1>4, <1>5 DEF CliStart

\* The command serves what no open publication and no failed job built.
LEMMA CliSwitchKeeps ==
  ASSUME IInv, SvcInv, CliSwitch
  PROVE  Core'
<1> USE DEF Core
<1>1. /\ UNCHANGED <<worker, container, candidate, recorded, published, request, known, snapshot,
                     job, active, lock, guard, timer, faults, timers, commands>>
      /\ cli = "switch" /\ UNCHANGED <<route, cli>>
      /\ live' \in Seeds \cup recorded
  BY DEF CliSwitch, storeVars, ingressVars, hostVars
<1>2. /\ WorkerTypeOK /\ live' \in Databases
  BY <1>1 DEF SvcInv, Typed, WorkerTypeOK, Databases
<1>3. live' \in Jobs => job[live'].phase = "succeeded"
  BY <1>1, <1>2, StoreConstants DEF SvcInv, Records, WorkerTypeOK
<1>4. lock = "cli"
  BY <1>1 DEF SvcInv, Locks
<1>5. worker.at \notin LockPlaces
  BY <1>4 DEF SvcInv, Locks
<1>6. Fated'
  <2>1. CASE worker.at = "settle"
    <3>1. worker.job \in Jobs /\ Due(worker.job) = job[worker.job].phase
      BY <2>1, Alone
    <3>2. job[worker.job].phase \notin Terminal
      BY <2>1, <3>1 DEF SvcInv, Fated
    <3> QED
      BY <1>1, <1>3, <3>1, <3>2 DEF SvcInv, Fated, Due, Terminal
  <2> QED
    BY <1>1, <2>1 DEF Fated
<1>7. Pending'
  <2>1. guard.save # NoJob => guard.save \in Jobs /\ job[guard.save].phase \notin Terminal
    BY NotEnded
  <2> QED
    BY <1>1, <1>3, <2>1 DEF SvcInv, Pending, GoodBase, Terminal
<1>8. Bound' /\ Staged' /\ Locks'
  BY <1>1, <1>4, <1>5 DEF SvcInv, Bound, Staged, Locks, LockPlaces, SwitchPlaces, Due, GoodBase
<1>9. Records'
  BY <1>1, <1>3 DEF SvcInv, Records, GoodBase
<1>10. Typed' /\ Containers' /\ Uploads'
  BY <1>1, <1>2 DEF SvcInv, Typed, IngressTypeOK, HostTypeOK, WorkerTypeOK, Containers, Uploads,
                    QueuedIsComplete, Accepted
<1> QED
  BY <1>6, <1>7, <1>8, <1>9, <1>10

\* The lock passes from the command's open to its unlink (dataset.py:371-385).
LEMMA CliKeeps ==
  ASSUME IInv, SvcInv, CliStart \/ CliLock \/ CliPid \/ CliSwitch \/ CliDone \/ CliUnlock
  PROVE  Core'
<1> USE DEF Core
<1>1. CASE CliLock \/ CliPid \/ CliDone \/ CliUnlock
  <2>1. /\ cli # "idle" /\ UNCHANGED <<job, active, guard, ingressVars, workerVars>>
        /\ HostTypeOK'
    BY <1>1 DEF CliLock, CliPid, CliDone, CliUnlock, SetLock, storeVars, counters, SvcInv, Typed,
                HostTypeOK
  <2>2. worker' = worker
    BY <2>1 DEF workerVars
  <2>3. Locks'
    <3>1. CASE CliLock
      BY <2>1, <2>2, <3>1 DEF CliLock, SetLock, storeVars, SvcInv, Locks
    <3>2. CASE CliPid
      BY <2>1, <2>2, <3>2 DEF CliPid, SetLock, SvcInv, Locks
    <3>3. CASE CliUnlock
      BY <2>1, <2>2, <3>3 DEF CliUnlock, SetLock, SvcInv, Locks
    <3>4. CASE CliDone
      BY <2>1, <2>2, <3>4 DEF CliDone, storeVars, SvcInv, Locks
    <3> QED
      BY <1>1, <3>1, <3>2, <3>3, <3>4
  <2> QED
    BY <2>1, <2>3, CliTurns
<1> QED
  BY <1>1, CliStartKeeps, CliSwitchKeeps

--------------------------------------------------------------------------------
\* Crashes, and the administrator.

\* A process that dies in the guard loses no file the worker is to write.
LEMMA GuardDropped ==
  ASSUME IInv, SvcInv,
         UNCHANGED <<job, active, container, candidate, live, route, recorded, published>>,
         \/ worker' = Asleep /\ (guard' = Free \/ (guard' = guard /\ guard.owner # Worker))
         \/ worker' = worker /\ (guard' = guard \/ (guard' = Free /\ guard.owner # Worker))
  PROVE  (Bound /\ Staged /\ Fated /\ Pending /\ Containers)'
<1> USE DEF Core
<1>1. Pending' /\ Containers'
  BY DEF SvcInv, Pending, Containers, GoodBase, Free
<1>2. CASE worker' = Asleep
  BY <1>1, <1>2 DEF Bound, Staged, Fated, Asleep, PublishPlaces, SwitchPlaces
<1>3. CASE worker' = worker /\ guard' = guard
  BY <1>1, <1>3 DEF SvcInv, Bound, Staged, Fated, GoodBase, Due
<1>4. CASE worker' = worker /\ worker.at # "idle" /\ guard' = Free /\ guard.owner # Worker
  <2>1. worker.job \in Jobs /\ guard.save # worker.job /\ worker.job # NoJob
    BY <1>4, Alone
  <2>2. Due(worker.job)' = Due(worker.job)
    BY <1>4, <2>1 DEF Due, Free
  <2> QED
    BY <1>1, <1>4, <2>2 DEF SvcInv, Bound, Staged, Fated, GoodBase, Due
<1>5. CASE worker' = worker /\ worker.at = "idle"
  BY <1>1, <1>5 DEF Bound, Staged, Fated, PublishPlaces, SwitchPlaces
<1> QED
  BY <1>2, <1>3, <1>4, <1>5

\* What survives any crash.
LEMMA Survives ==
  ASSUME IInv, SvcInv,
         UNCHANGED <<job, active, known, snapshot, container, candidate, live, route, recorded,
                     published>>,
         \/ worker' = Asleep /\ (guard' = Free \/ (guard' = guard /\ guard.owner # Worker))
         \/ worker' = worker /\ (guard' = guard \/ (guard' = Free /\ guard.owner # Worker)),
         request' = request \/ request' = [h \in Handlers |-> Idle],
         cli' = cli \/ cli' = "idle", HostTypeOK', Locks'
  PROVE  Core'
<1> USE DEF Core
<1>1. (Bound /\ Staged /\ Fated /\ Pending /\ Containers)'
  BY GuardDropped
<1>2. Records'
  BY DEF SvcInv, Records, GoodBase
<1>3. Uploads'
  <2>1. \A h \in Handlers : request'[h] = request[h] \/ request'[h].at = "idle"
    BY DEF Idle
  <2>2. guard' = guard \/ guard'.save = NoJob
    BY DEF Free
  <2> QED
    BY <2>1, <2>2 DEF SvcInv, Uploads, QueuedIsComplete, Accepted
<1>4. IngressTypeOK'
  BY DEF SvcInv, Typed, IngressTypeOK, RequestRecord, Idle
<1>5. WorkerTypeOK'
  <2>1. Asleep \in WorkerRecord
    BY DEF Asleep, WorkerRecord, Places, Phases
  <2> QED
    BY <2>1 DEF SvcInv, Typed, WorkerTypeOK
<1> QED
  BY <1>1, <1>2, <1>3, <1>4, <1>5 DEF Typed

\* A crash leaves the dead process's lock, and its guard free.
LEMMA CrashKeeps ==
  ASSUME IInv, SvcInv, Crash
  PROVE  Core'
<1> USE DEF Core
<1> USE ServiceConstants, StoreConstants
<1>1. faults' \in 0..MaxFaults /\ UNCHANGED <<timers, commands>>
  BY DEF Crash, SvcInv, Typed, HostTypeOK
<1>2. HostTypeOK
  BY DEF SvcInv, Typed
<1>3. CASE IngressCrash /\ UNCHANGED <<workerVars, timer, cli>>
  <2>1. /\ UNCHANGED <<job, active, lock, known, snapshot, worker, container, candidate, live, route,
                       recorded, published, timer, cli>>
        /\ request' = [h \in Handlers |-> Idle]
        /\ guard' = guard \/ (guard' = Free /\ guard.owner \in Handlers)
    BY <1>3 DEF IngressCrash, workerVars
  <2>2. Locks'
    BY <2>1 DEF SvcInv, Locks
  <2>3. HostTypeOK'
    BY <1>1, <1>2, <2>1 DEF HostTypeOK
  <2> QED
    BY <2>1, <2>2, <2>3, Survives
<1>4. CASE WorkerCrash /\ UNCHANGED <<ingressVars, timer, cli>>
  <2>1. /\ UNCHANGED <<job, active, known, snapshot, request, container, candidate, live, route,
                       recorded, published, timer, cli>>
        /\ worker' = Asleep
        /\ \/ guard' = guard /\ guard.owner # Worker
           \/ guard' = Free /\ guard.owner = Worker
        /\ lock \notin {"worker", "worker_empty"} => lock' = lock
    BY <1>4 DEF WorkerCrash, DropGuard, ingressVars, publicationVars
  <2>2. Locks'
    BY <2>1 DEF SvcInv, Locks, Asleep, LockPlaces, SwitchPlaces
  <2>3. HostTypeOK'
    BY <1>1, <1>2, <2>1 DEF HostTypeOK
  <2> QED
    BY <2>1, <2>2, <2>3, Survives
<1>5. CASE /\ timer' = "idle" /\ DropGuard(Timer)
           /\ UNCHANGED <<job, late, active, receipt, policy, lock, ingressVars, workerVars, cli>>
  <2>1. /\ UNCHANGED <<job, active, lock, known, snapshot, request, worker, container, candidate,
                       live, route, recorded, published, cli>>
        /\ guard' = guard \/ (guard' = Free /\ guard.owner = Timer)
    BY <1>5 DEF DropGuard, ingressVars, workerVars
  <2>2. Locks'
    BY <2>1 DEF SvcInv, Locks
  <2>3. HostTypeOK'
    BY <1>1, <1>2, <1>5, <2>1 DEF HostTypeOK
  <2> QED
    BY <2>1, <2>2, <2>3, Survives
<1>6. CASE /\ cli' = "idle" /\ DropGuard(Cli)
           /\ lock' = CASE lock = "cli" -> "dead" [] lock = "cli_empty" -> "dead_empty"
                        [] OTHER -> lock
           /\ UNCHANGED <<job, late, active, receipt, policy, ingressVars, workerVars, timer>>
  <2>1. /\ UNCHANGED <<job, active, known, snapshot, request, worker, container, candidate,
                       live, route, recorded, published, timer>>
        /\ guard' = guard \/ (guard' = Free /\ guard.owner = Cli)
        /\ lock \notin {"cli", "cli_empty"} => lock' = lock
    BY <1>6 DEF DropGuard, ingressVars, workerVars
  <2>2. Locks'
    BY <1>6, <2>1 DEF SvcInv, Locks
  <2>3. HostTypeOK'
    BY <1>1, <1>2, <1>6, <2>1 DEF HostTypeOK
  <2> QED
    BY <1>6, <2>1, <2>2, <2>3, Survives
<1> QED
  BY <1>3, <1>4, <1>5, <1>6 DEF Crash

\* The administrator removes only what no live process holds.
LEMMA RemoveDeadLockKeeps ==
  ASSUME IInv, SvcInv, RemoveDeadLock
  PROVE  Core'
<1> USE DEF Core
<1>1. /\ UNCHANGED <<job, active, guard, known, snapshot, request, worker, container, candidate,
                     live, route, recorded, published, timer, cli, faults, timers, commands>>
      /\ lock \in {"dead", "dead_empty"}
  BY DEF RemoveDeadLock, SetLock, ingressVars, workerVars, hostVars
<1>2. Locks'
  BY <1>1 DEF SvcInv, Locks
<1>3. HostTypeOK'
  BY <1>1 DEF SvcInv, Typed, HostTypeOK
<1> QED
  BY <1>1, <1>2, <1>3, Survives

--------------------------------------------------------------------------------
\* The writes of the guard holder.

\* A write that only takes the lease from a job that ended, or gives it.
LEMMA LeaseWriteKeeps ==
  ASSUME IInv, SvcInv, UNCHANGED <<ingressVars, workerVars, hostVars>>,
         UnlinkStale \/ WriteReceipt \/ WriteLease \/ DropLease
  PROVE  Core'
<1> USE DEF Core
<1> USE StoreConstants
<1>1. /\ UNCHANGED <<job, known, snapshot, request, worker, container, candidate,
                     live, route, recorded, published, timer, cli, faults, timers, commands, lock>>
      /\ guard'.save = guard.save /\ guard'.content = guard.content /\ guard'.owner = guard.owner
  BY DEF UnlinkStale, WriteReceipt, WriteLease, DropLease, IInv, StoreTypeOK, GuardRecord,
         ingressVars, workerVars, hostVars
<1>2. \A j : Due(j)' = Due(j)
  BY <1>1 DEF Due
<1>3. \/ active' = active
      \/ \A j \in Jobs : job[j].phase \in Late /\ Due(j) \notin Terminal => active # j
  <2>1. CASE UnlinkStale
    <3>1. active # NoJob /\ job[active].phase \in Terminal
      BY <2>1 DEF UnlinkStale, IInv, GuardInv, Unlinking
    <3>2. guard.save # active
      BY <3>1, NotEnded
    <3> QED
      BY <3>1, <3>2 DEF Due
  <2>2. CASE WriteLease
    BY <2>2 DEF WriteLease, IInv, GuardInv, Leasing
  <2>3. CASE DropLease
    BY <2>3 DEF DropLease, IInv, GuardInv, Dropping, Due
  <2>4. CASE WriteReceipt
    BY <2>4 DEF WriteReceipt
  <2> QED
    BY <2>1, <2>2, <2>3, <2>4
<1>4. Bound'
  BY <1>1, <1>2, <1>3 DEF SvcInv, Bound, Due
<1>5. (Staged /\ Fated)'
  BY <1>1, <1>2 DEF SvcInv, Staged, Fated, GoodBase, Due
<1>6. (Pending /\ Records /\ Locks /\ Containers)'
  BY <1>1 DEF SvcInv, Pending, Records, Locks, Containers, GoodBase
<1>7. Typed' /\ Uploads'
  BY <1>1 DEF SvcInv, Typed, IngressTypeOK, HostTypeOK, WorkerTypeOK, Uploads, QueuedIsComplete,
              Accepted
<1> QED
  BY <1>4, <1>5, <1>6, <1>7

\* Leaving the guard, and the passing of a deadline.
LEMMA LeaveKeeps ==
  ASSUME IInv, SvcInv, UNCHANGED <<ingressVars, workerVars, hostVars>>,
         LeaveGuard \/ \E j \in Jobs : PassDeadline(j)
  PROVE  Core'
<1> USE DEF Core
<1>1. /\ UNCHANGED <<job, active, lock, known, snapshot, request, worker, container, candidate,
                     live, route, recorded, published, timer, cli, faults, timers, commands>>
      /\ guard' = guard \/ (guard' = Free /\ guard.save = NoJob /\ cli # "open")
  <2>1. CASE LeaveGuard
    <3>1. guard.save = NoJob /\ guard' = Free
      BY <2>1 DEF LeaveGuard, Release, Written, Free
    <3>2. cli # "open"
      BY <2>1 DEF LeaveGuard, InsideGuard, SvcInv, Locks
    <3> QED
      BY <2>1, <3>1, <3>2 DEF LeaveGuard, Release, ingressVars, workerVars, hostVars
  <2> QED
    BY <2>1 DEF PassDeadline, ingressVars, workerVars, hostVars
<1>2. guard'.save = guard.save /\ \A j : j # NoJob => Due(j)' = Due(j)
  <2>1. guard'.save = guard.save
    BY <1>1 DEF Free
  <2>2. guard' = guard \/ guard.save = NoJob
    BY <1>1
  <2>3. \A j : j # NoJob => Due(j)' = Due(j)
    BY <1>1, <2>1, <2>2 DEF Due
  <2> QED
    BY <2>1, <2>3
<1>3. (Bound /\ Staged /\ Fated)'
  <2>1. CASE worker.at = "idle"
    BY <1>1, <2>1 DEF Bound, Staged, Fated, PublishPlaces, SwitchPlaces
  <2>2. CASE worker.at # "idle"
    <3>1. Due(worker.job)' = Due(worker.job)
      BY <1>1, <1>2, <2>2, StoreConstants DEF SvcInv, Bound, Due
    <3> QED
      BY <1>1, <2>2, <3>1 DEF SvcInv, Bound, Staged, Fated, GoodBase, Due
  <2> QED
    BY <2>1, <2>2
<1>4. (Pending /\ Records /\ Locks /\ Containers)'
  BY <1>1, <1>2 DEF SvcInv, Pending, Records, Locks, Containers, GoodBase
<1>5. Typed' /\ Uploads'
  BY <1>1, <1>2 DEF SvcInv, Typed, IngressTypeOK, HostTypeOK, WorkerTypeOK, Uploads,
                    QueuedIsComplete, Accepted
<1> QED
  BY <1>3, <1>4, <1>5

\* An upload is expired: nobody's base, not served, and not the worker's job.
LEMMA WriteExpiredKeeps ==
  ASSUME IInv, SvcInv, UNCHANGED <<ingressVars, workerVars, hostVars>>, WriteExpired
  PROVE  Core'
<1> USE DEF Core
<1> DEFINE e == guard.expire
<1>1. /\ e \in Jobs /\ job[e].phase \in Uploading
      /\ job' = [job EXCEPT ![e].phase = "failed"]
  BY DEF WriteExpired, IInv, StoreTypeOK, GuardRecord, GuardInv, Expiring
<1>2. /\ UNCHANGED <<active, known, snapshot, request, worker, container, candidate,
                     live, route, recorded, published, timer, cli, faults, timers, commands, lock>>
      /\ guard'.save = guard.save /\ guard'.content = guard.content /\ guard'.owner = guard.owner
  BY DEF WriteExpired, IInv, StoreTypeOK, GuardRecord, ingressVars, workerVars, hostVars
<1>3. /\ \A j \in Jobs : j # e => job'[j] = job[j]
      /\ job'[e].phase = "failed" /\ job'[e].manifest = job[e].manifest
      /\ job'[e].changed = job[e].changed
  BY <1>1 DEF IInv, StoreTypeOK, JobRecord
<1>4. job[e].phase \notin {"importing", "queued", "succeeded", "failed"} \cup Publishing
  BY <1>1 DEF Uploading, Publishing
<1>5. guard.save # e
  BY <1>1 DEF WriteExpired, IInv, GuardInv, Saving, WritingNew, WritingMove, Uploading
<1>6. \A base, j : GoodBase(base, j) => GoodBase(base, j)'
  BY <1>1, <1>3, <1>4 DEF GoodBase
<1>7. ~job[e].changed
  BY <1>1, <1>4 DEF SvcInv, Records
<1> HIDE DEF e
<1>8. \A j \in Jobs : j # e => Due(j)' = Due(j)
  BY <1>2, <1>3 DEF Due
<1>9. worker.at # "idle" => worker.job \in Jobs /\ worker.job # e
  BY <1>4 DEF SvcInv, Bound, Late, Terminal
<1>10. (Bound /\ Staged /\ Fated)'
  <2>1. CASE worker.at = "idle"
    BY <1>2, <2>1 DEF Bound, Staged, Fated, PublishPlaces, SwitchPlaces
  <2>2. CASE worker.at # "idle"
    <3>1. Due(worker.job)' = Due(worker.job) /\ job'[worker.job] = job[worker.job]
      BY <1>2, <1>3, <1>8, <1>9, <2>2 DEF Due
    <3>2. Bound'
      BY <1>2, <1>9, <2>2, <3>1 DEF SvcInv, Bound, Due
    <3>3. worker.at = "begin" => GoodBase(worker.base, worker.job)'
      BY <1>2, <1>6 DEF SvcInv, Staged, GoodBase
    <3>4. Staged' /\ Fated'
      BY <1>2, <3>1, <3>3 DEF SvcInv, Staged, Fated, Due, GoodBase
    <3> QED
      BY <3>2, <3>4
  <2> QED
    BY <2>1, <2>2
<1>11. Pending'
  <2>1. guard.save # NoJob => guard.save \in Jobs /\ job'[guard.save] = job[guard.save]
    BY <1>3, <1>5, NotEnded
  <2>2. GoodBase(guard.content.base, guard.save) => GoodBase(guard.content.base, guard.save)'
    BY <1>2, <1>6 DEF GoodBase
  <2> QED
    BY <1>2, <2>1, <2>2 DEF SvcInv, Pending
<1>12. Records'
  <2>1. \A j \in Jobs : GoodBase(job[j].base, j) =>
          (j # e => (job'[j] = job[j] /\ GoodBase(job[j].base, j)'))
    BY <1>2, <1>3, <1>6 DEF GoodBase
  <2>2. recorded \subseteq Jobs
    BY DEF SvcInv, Typed, WorkerTypeOK
  <2> QED
    BY <1>2, <1>3, <1>4, <1>7, <2>1, <2>2 DEF SvcInv, Records, Publishing, Terminal, GoodBase
<1>13. Locks'
  BY <1>1, <1>2, <1>3 DEF SvcInv, Locks, Publishing
<1>14. Uploads'
  BY HostKeepsUploads DEF SvcInv, NoCall, StoreWrite
<1>15. Typed' /\ Containers'
  BY <1>2 DEF SvcInv, Typed, IngressTypeOK, HostTypeOK, WorkerTypeOK, Containers
<1> QED
  BY <1>10, <1>11, <1>12, <1>13, <1>14, <1>15

\* The job file: what was planned for it still is right.
LEMMA WriteJobKeeps ==
  ASSUME IInv, SvcInv, UNCHANGED <<ingressVars, workerVars, hostVars>>, WriteJob
  PROVE  Core'
<1> USE DEF Core
<1> DEFINE n == guard.save
           c == guard.content
<1>1. /\ n \in Jobs /\ n # NoJob /\ job' = [job EXCEPT ![n] = c]
      /\ guard'.save = NoJob
  BY DEF WriteJob, IInv, StoreTypeOK, GuardRecord
<1>2. UNCHANGED <<active, known, snapshot, request, worker, container, candidate,
                  live, route, recorded, published, timer, cli, faults, timers, commands, lock>>
  BY DEF WriteJob, ingressVars, workerVars, hostVars
<1>3. (\A j \in Jobs : j # n => job'[j] = job[j]) /\ job'[n] = c
  BY <1>1 DEF IInv, StoreTypeOK
<1>4. \/ job[n].phase = "absent" /\ c.phase \in {"awaiting_upload", "queued"}
      \/ <<job[n].phase, c.phase>> \in Moves
  BY <1>1 DEF IInv, GuardInv, Saving, WritingNew, WritingMove
<1>5. /\ job[n].phase \in Late => c.phase \in Late
      /\ job[n].phase \in Publishing => c.phase \in {"succeeded", "failed", "publication_unknown"}
      /\ job[n].phase \notin Terminal
  BY <1>4 DEF Moves, Late, Publishing, Terminal
<1>6. /\ c.phase \in {"importing"} \cup Publishing => GoodBase(c.base, n)
      /\ c.changed => c.phase = "succeeded"
      /\ c.phase = "failed" => live # n
  BY <1>1 DEF SvcInv, Pending
<1>7. \A base, j : GoodBase(base, j) => GoodBase(base, j)'
  BY <1>3, <1>5 DEF GoodBase, Terminal
<1>9. cli # "open"
  BY <1>1 DEF SvcInv, Locks
<1>10. Due(n) = c.phase
  BY DEF Due
<1>11. \A j \in Jobs : j # n => Due(j) = job[j].phase
  BY DEF Due
<1> HIDE DEF n, c
<1>12. \A j \in Jobs : Due(j)' = Due(j)
  BY <1>1, <1>3, <1>10, <1>11, StoreConstants DEF Due
<1>13. (Bound /\ Staged /\ Fated)'
  <2>1. CASE worker.at = "idle"
    BY <1>2, <2>1 DEF Bound, Staged, Fated, PublishPlaces, SwitchPlaces
  <2>2. CASE worker.at # "idle"
    <3>1. worker.job \in Jobs /\ Due(worker.job)' = Due(worker.job)
      BY <1>2, <1>12, <2>2 DEF SvcInv, Bound, Due
    <3>2. job'[worker.job].phase \in Late
      BY <1>3, <1>5, <2>2, <3>1 DEF SvcInv, Bound
    <3>3. Bound'
      BY <1>2, <2>2, <3>1, <3>2 DEF SvcInv, Bound, Due
    <3>4. worker.at = "begin" => GoodBase(worker.base, worker.job)'
      BY <1>2, <1>7 DEF SvcInv, Staged, GoodBase
    <3>5. Staged' /\ Fated'
      BY <1>2, <3>1, <3>4 DEF SvcInv, Staged, Fated, Due, GoodBase
    <3> QED
      BY <3>3, <3>5
  <2> QED
    BY <2>1, <2>2
<1>14. Pending'
  BY <1>1 DEF Pending
<1>15. Records'
  <2>1. \A j \in recorded :
          /\ job'[j].phase \in Publishing \cup {"succeeded"}
          /\ job'[j].phase \in Publishing => live = j /\ route = j /\ cli = "idle"
    <3> SUFFICES ASSUME NEW j \in recorded
                 PROVE  /\ job'[j].phase \in Publishing \cup {"succeeded"}
                        /\ job'[j].phase \in Publishing => live = j /\ route = j /\ cli = "idle"
      OBVIOUS
    <3>1. j \in Jobs
      BY DEF SvcInv, Typed, WorkerTypeOK
    <3>2. CASE j # n
      BY <1>3, <3>1, <3>2 DEF SvcInv, Records
    <3>3. CASE j = n
      <4>1. job[n].phase \in Publishing /\ live = n /\ route = n /\ cli = "idle"
        BY <1>5, <3>3 DEF SvcInv, Records, Terminal
      <4> QED
        BY <1>3, <1>5, <1>6, <3>3, <4>1 DEF Publishing
    <3> QED
      BY <3>2, <3>3
  <2>2. live \in Jobs => job'[live].phase \in Publishing \cup {"succeeded"}
    <3>1. CASE live = n
      <4>1. job[n].phase \in Publishing
        BY <1>1, <1>5, <3>1 DEF SvcInv, Records, Terminal
      <4> QED
        BY <1>3, <1>5, <1>6, <3>1, <4>1 DEF Publishing
    <3> QED
      BY <1>3, <3>1 DEF SvcInv, Records
  <2>3. ASSUME NEW j \in Jobs
        PROVE  /\ job'[j].phase \in {"importing"} \cup Publishing => GoodBase(job[j].base, j)'
               /\ job'[j].changed => job'[j].phase = "succeeded"
    <3>1. CASE j = n
      BY <1>3, <1>6, <1>7, <3>1 DEF GoodBase
    <3>2. CASE j # n
      BY <1>3, <1>7, <3>2 DEF SvcInv, Records, GoodBase
    <3> QED
      BY <3>1, <3>2
  <2>4. published \subseteq recorded
    BY DEF SvcInv, Records
  <2>5. route \in Jobs => job'[route].phase \in Publishing \cup Terminal
    <3>1. CASE route = n
      <4>1. job[n].phase \in Publishing
        BY <1>1, <1>5, <3>1 DEF SvcInv, Records
      <4> QED
        BY <1>3, <1>5, <3>1, <4>1 DEF Publishing, Terminal
    <3> QED
      BY <1>3, <3>1 DEF SvcInv, Records
  <2> QED
    BY <1>2, <2>1, <2>2, <2>3, <2>4, <2>5 DEF Records, GoodBase
<1>16. Locks'
  BY <1>2, <1>9 DEF SvcInv, Locks
<1>17. Uploads'
  BY HostKeepsUploads DEF SvcInv, NoCall, StoreWrite
<1>18. Typed' /\ Containers'
  BY <1>2 DEF SvcInv, Typed, IngressTypeOK, HostTypeOK, WorkerTypeOK, Containers
<1> QED
  BY <1>13, <1>14, <1>15, <1>16, <1>17, <1>18

--------------------------------------------------------------------------------
\* The invariant, and what follows from it.

\* The initial states satisfy it.
LEMMA SvcInitInv == Init => IInv /\ SvcInv
<1> USE DEF Core
<1> SUFFICES ASSUME Init PROVE IInv /\ SvcInv
  OBVIOUS
<1> USE StoreConstants DEF Init, StoreInit, IngressInit, WorkerInit, HostInit
<1>1. IInv
  BY InitInv
<1>2. Typed
  BY WorkerConstants, ServiceConstants
     DEF Typed, IngressTypeOK, WorkerTypeOK, HostTypeOK, RequestRecord, Idle, WorkerRecord, Asleep,
         Places, Phases, ContainerStates, Databases
<1>3. Present /\ Bound /\ Staged /\ Fated /\ Pending
  BY DEF Present, Bound, Staged, Fated, Pending, PublishPlaces, SwitchPlaces, Asleep, Free, Blank
<1>4. Records /\ Locks /\ Containers
  BY WorkerConstants
     DEF Records, Locks, LockPlaces, SwitchPlaces, Containers, Asleep, Free, Blank, Publishing
<1>5. Uploads
  BY DEF Uploads, Idle, Free, QueuedIsComplete, Accepted, Blank
<1> QED
  BY <1>1, <1>2, <1>3, <1>4, <1>5 DEF SvcInv

\* Every step keeps it.
LEMMA SvcNextInv == IInv /\ SvcInv /\ [Next]_vars => (IInv /\ SvcInv)'
<1> SUFFICES ASSUME IInv, SvcInv, [Next]_vars PROVE (IInv /\ SvcInv)'
  OBVIOUS
<1>1. Stepped
  BY EveryStepIsTheStores
<1>2. IInv'
  <2>1. [StoreNext]_storeVars
    BY <1>1, Entered DEF Stepped, StoreNext
  <2> QED
    BY <2>1, NextInv
<1>3. Present'
  BY <1>1, PresentKept DEF SvcInv
<1>4. Core'
  <2>1. CASE \E h \in Handlers : IngressStep(h) /\ UNCHANGED <<workerVars, hostVars>>
    BY <2>1, IngressKeeps
  <2>2. CASE WorkerStep /\ UNCHANGED <<ingressVars, hostVars>>
    BY <2>2, WorkerKeeps
  <2>3. CASE \E j \in Jobs : \/ ContainerRuns(j) /\ UNCHANGED <<ingressVars, hostVars>>
                           \/ PruneContainer(j)
    BY <2>3, ContainerKeeps
  <2>10. CASE NginxReload /\ UNCHANGED <<ingressVars, hostVars>>
    BY <2>10, ReloadKeeps
  <2>4. CASE TimerStart \/ TimerPolicy \/ TimerSchedule
    BY <2>4, TimerKeeps
  <2>5. CASE CliStart \/ CliLock \/ CliPid \/ CliSwitch \/ CliDone \/ CliUnlock
    BY <2>5, CliKeeps
  <2>6. CASE StoreOnly(StoreWrite)
    BY <2>6, WriteExpiredKeeps, WriteJobKeeps, LeaseWriteKeeps DEF StoreOnly, StoreWrite
  <2>7. CASE StoreOnly(LeaveGuard) \/ \E j \in Jobs : StoreOnly(PassDeadline(j))
    BY <2>7, LeaveKeeps DEF StoreOnly
  <2>8. CASE Crash \/ RemoveDeadLock
    BY <2>8, CrashKeeps, RemoveDeadLockKeeps
  <2>9. CASE UNCHANGED vars
    <3>1. /\ UNCHANGED <<job, active, guard, lock, known, snapshot, request, worker, container,
                         candidate, live, route, recorded, published, timer, cli, faults, timers,
                         commands>>
      BY <2>9 DEF vars, storeVars, ingressVars, workerVars, hostVars
    <3>2. HostTypeOK' /\ Locks'
      BY <3>1 DEF SvcInv, Core, Typed, HostTypeOK, Locks
    <3> QED
      BY <3>1, <3>2, Survives
  <2> QED
    BY <2>1, <2>2, <2>3, <2>4, <2>5, <2>6, <2>7, <2>8, <2>9, <2>10 DEF Next
<1> QED
  BY <1>2, <1>3, <1>4 DEF SvcInv

\* Only a caller changes the guard's owner from nobody to a process.
LEMMA NobodyEnters ==
  ASSUME IInv, NoCall
  PROVE  ~(guard.owner = Nobody /\ guard'.owner \in Procs)
<1>1. guard \in GuardRecord
  BY DEF IInv, StoreTypeOK
<1>2. CASE StoreWrite
  <2>1. guard'.owner = guard.owner
    BY <1>1, <1>2 DEF StoreWrite, WriteExpired, UnlinkStale, WriteJob, WriteReceipt, WriteLease,
                      DropLease, GuardRecord
  <2> QED
    BY <2>1, StoreConstants
<1>3. CASE ~StoreWrite
  <2>1. guard' \in {guard, Free}
    BY <1>3 DEF NoCall, Release, Die, DropGuard, WritePolicy, PassDeadline, SetLock
  <2> QED
    BY <2>1, StoreConstants DEF Free
<1> QED
  BY <1>2, <1>3

\* Every step of the service, seen as a step of the store.
LEMMA StoreStep ==
  ASSUME IInv, SvcInv, [Next]_vars
  PROVE  /\ [IF guard.owner = Nobody /\ guard'.owner \in Procs
             THEN Call(guard'.owner) ELSE NoCall]_storeVars
         /\ [StoreNext]_storeVars
<1>1. Stepped
  BY EveryStepIsTheStores
<1>2. ASSUME NEW p \in Procs, Call(p)
      PROVE  guard.owner = Nobody /\ guard'.owner = p
  BY <1>2, Entered
<1> QED
  BY <1>1, <1>2, NobodyEnters DEF Stepped, StoreNext

(***************************************************************************)
(* The inductive invariant of the whole service: what each process has read *)
(* is still what it may count on when it acts.                              *)
(***************************************************************************)
THEOREM ServiceInvariant == Spec => [](IInv /\ SvcInv)
<1>1. Init => IInv /\ SvcInv
  BY SvcInitInv
<1>2. (IInv /\ SvcInv) /\ [Next]_vars => (IInv /\ SvcInv)'
  BY SvcNextInv
<1> QED
  BY <1>1, <1>2, PTL DEF Spec

(***************************************************************************)
(* The service uses the store only as the store allows: requests, worker,   *)
(* timer, command and crashes together implement the store's specification  *)
(* (sync_api.py:50-101, sync_worker.py:46-149, dataset.py:371-385,          *)
(* retention_schedule.py).                                                  *)
(***************************************************************************)
THEOREM ServiceUsesStore == Spec => ImplementsStore
<1>1. Init => StoreInit
  BY DEF Init
<1>2. (IInv /\ SvcInv) /\ [Next]_vars =>
        [IF guard.owner = Nobody /\ guard'.owner \in Procs
         THEN Call(guard'.owner) ELSE NoCall]_storeVars
  BY StoreStep
<1> QED
  BY <1>1, <1>2, ServiceInvariant, PTL DEF Spec, ImplementsStore

\* The same, with the caller left open: the specification the store's theorems are about.
THEOREM ServiceImplementsStore == Spec => StoreSpec
<1>1. Init => StoreInit
  BY DEF Init
<1>2. (IInv /\ SvcInv) /\ [Next]_vars => [StoreNext]_storeVars
  BY StoreStep
<1> QED
  BY <1>1, <1>2, ServiceInvariant, PTL DEF Spec, StoreSpec

(***************************************************************************)
(* So what is proved of the store holds of the running service: one lease,  *)
(* one accepted job for a snapshot, receipts that stick and phases that     *)
(* only advance (sync_state.py:78-139).                                     *)
(***************************************************************************)
THEOREM ServiceKeepsStore ==
  Spec => []LeaseHeld /\ []OneJobPerSnapshot /\ ReceiptSticks /\ PhasesAdvance
BY ServiceImplementsStore, LeaseAlwaysHeld, SnapshotsAcceptedOnce, ReceiptsAlwaysStick,
   PhasesAlwaysAdvance

\* Every variable of the service keeps its type.
THEOREM ServiceTypes == Spec => []TypeOK
<1>1. IInv /\ SvcInv => TypeOK
  BY DEF IInv, SvcInv, Core, Typed, TypeOK
<1> QED
  BY <1>1, ServiceInvariant, PTL

(***************************************************************************)
(* No job is queued before its snapshot is complete on disk, whatever       *)
(* requests race and wherever they die (sync_api.py:94-96).                 *)
(***************************************************************************)
THEOREM QueuedAlwaysComplete == Spec => []QueuedIsComplete
<1>1. IInv /\ SvcInv => QueuedIsComplete
  BY DEF SvcInv, Core, Uploads
<1> QED
  BY <1>1, ServiceInvariant, PTL

(***************************************************************************)
(* Worker and command never switch at the same time: each has written the   *)
(* lock file, and nobody takes another's for a dead one                     *)
(* (dataset.py:371-385, sync_worker.py:110-130).                            *)
(***************************************************************************)
THEOREM SwitchesExclude == Spec => []OneSwitchAtATime
<1>1. IInv /\ SvcInv => OneSwitchAtATime
  BY DEF SvcInv, Core, Locks, LockPlaces, SwitchPlaces, OneSwitchAtATime, WorkerSwitches, CliSwitches
<1> QED
  BY <1>1, ServiceInvariant, PTL

(***************************************************************************)
(* A failed job is never what the Nginx config names, however late the      *)
(* failure is written after it was decided, and whichever half of the       *)
(* revert failed (sync_worker.py:139-149, dataset.py:226-235).              *)
(***************************************************************************)
THEOREM FailedAlwaysOffConfig == Spec => []FailedOffConfig
<1>1. IInv /\ SvcInv => FailedOffConfig
  BY DEF SvcInv, Core, Records, FailedOffConfig, Publishing
<1> QED
  BY <1>1, ServiceInvariant, PTL

\* The write that ends a job as succeeded finds what it says to be true.
LEMMA SuccessStep ==
  ASSUME IInv, SvcInv, [Next]_vars, NEW j \in Jobs,
         job[j].phase # "succeeded", job'[j].phase = "succeeded"
  PROVE  IF job'[j].changed
         THEN live = j /\ route = j /\ j \in recorded /\ j \in published
         ELSE live # j /\ route # j /\ j \notin recorded
<1>1. StoreWrite
  BY StoreStep, OnlyWritesWrite
<1>2. CASE WriteExpired
  <2>1. job'[j].phase \in {job[j].phase, "failed"}
    BY <1>2 DEF WriteExpired, IInv, StoreTypeOK, JobRecord
  <2> QED
    BY <2>1
<1>3. CASE WriteJob
  <2>1. guard.save = j /\ job'[j] = guard.content /\ guard.save # NoJob
    BY <1>3 DEF WriteJob, IInv, StoreTypeOK
  <2>2. CASE guard.content.changed
    BY <2>1, <2>2 DEF SvcInv, Core, Pending, Records
  <2>3. CASE ~guard.content.changed
    <3>1. job[j].phase = "importing"
      BY <2>1, <2>3 DEF SvcInv, Core, Pending
    <3> QED
      BY <2>1, <2>3, <3>1 DEF SvcInv, Core, Records, Publishing, Terminal
  <2> QED
    BY <2>2, <2>3
<1> QED
  BY <1>1, <1>2, <1>3 DEF StoreWrite, UnlinkStale, WriteReceipt, WriteLease, DropLease

(***************************************************************************)
(* A success is written only while it is true, though it was planned when   *)
(* the guard was entered (sync_worker.py:92-98, 119-127).                   *)
(***************************************************************************)
THEOREM SuccessAlwaysTrue == Spec => SuccessIsTrue
<1>1. IInv /\ SvcInv /\ [Next]_vars =>
        [\A j \in Jobs :
           job[j].phase # "succeeded" /\ job'[j].phase = "succeeded" =>
             IF job'[j].changed
             THEN live = j /\ route = j /\ j \in recorded /\ j \in published
             ELSE live # j /\ route # j /\ j \notin recorded]_job
  BY SuccessStep
<1> QED
  BY <1>1, ServiceInvariant, PTL DEF Spec, SuccessIsTrue

\* A container that starts has no candidate yet.
LEMMA StartStep ==
  ASSUME IInv, SvcInv, [Next]_vars, NEW j \in Jobs,
         container[j] # "running", container'[j] = "running"
  PROVE  j \notin candidate
<1> USE DEF Core
<1>1. container \in [Jobs -> ContainerStates]
  BY DEF SvcInv, Typed, WorkerTypeOK
<1>2. RunImport \/ RemoveContainer \/ \E k \in Jobs : ContainerRuns(k) \/ PruneContainer(k)
  <2>1. container' # container
    BY <1>1
  <2>2. CASE WorkerStep
    BY <2>1, <2>2 DEF WorkerStep, Tick, ReadBase, BeginImport, FinishImport, EnterSwitch, TakeLock,
                      Unlock, Activate, SwitchRoute, ReloadRoute, VerifyRoute, RevertConfig,
                      RevertRoute, WriteReceiptFile, FinishPublication, Diagnose, Settle
  <2> QED
    BY <2>1, <2>2
       DEF Next, StoreOnly, TimerStart, TimerPolicy, TimerSchedule, CliStart, CliLock, CliPid,
           CliSwitch, CliDone, NginxReload, CliUnlock, Crash, WorkerCrash, RemoveDeadLock, workerVars, vars
<1>3. CASE RunImport
  BY <1>1, <1>3 DEF RunImport, SvcInv, Containers
<1>4. CASE RemoveContainer
  BY <1>1, <1>4 DEF RemoveContainer
<1>5. ASSUME NEW k \in Jobs, ContainerRuns(k) \/ PruneContainer(k) PROVE FALSE
  BY <1>1, <1>5 DEF ContainerRuns, PruneContainer, Prune, Exited
<1> QED
  BY <1>2, <1>3, <1>4, <1>5

(***************************************************************************)
(* No import starts over a candidate it or an earlier start has begun       *)
(* (sync_worker.py:63-82).                                                  *)
(***************************************************************************)
THEOREM ImportsStartOnce == Spec => ImportStartsOnce
<1>1. IInv /\ SvcInv /\ [Next]_vars =>
        [\A j \in Jobs : container[j] # "running" /\ container'[j] = "running"
                           => j \notin candidate]_container
  BY StartStep
<1> QED
  BY <1>1, ServiceInvariant, PTL DEF Spec, ImportStartsOnce

\* A job in an unknown publication has the lease, so nothing else is begun.
LEMMA UnknownStep ==
  ASSUME IInv, [StoreNext]_storeVars, NEW j \in Jobs, job[j].phase = "publication_unknown"
  PROVE  /\ \A k \in Jobs : job[k].phase = "absent" => job'[k] = job[k]
         /\ active' = j \/ job'[j].phase # "publication_unknown"
<1> USE StoreConstants
<1>1. active = j /\ j # NoJob
  BY OnePublication DEF Publishing
<1>2. CASE UNCHANGED <<job, active>>
  BY <1>1, <1>2
<1>3. CASE WriteJob
  <2>1. guard.save \in Jobs /\ job' = [job EXCEPT ![guard.save] = guard.content] /\ active' = active
    BY <1>3 DEF WriteJob, IInv, StoreTypeOK, GuardRecord
  <2>2. job[guard.save].phase # "absent"
    BY <1>1, <1>3 DEF WriteJob, IInv, GuardInv, Saving, Leasing, WritingNew, WritingMove, Moves,
                      Publishing
  <2> QED
    BY <1>1, <2>1, <2>2 DEF IInv, StoreTypeOK
<1>4. CASE WriteExpired
  <2>1. /\ guard.expire \in Jobs /\ job[guard.expire].phase \in Uploading
        /\ job' = [job EXCEPT ![guard.expire].phase = "failed"] /\ active' = active
    BY <1>4 DEF WriteExpired, IInv, StoreTypeOK, GuardRecord, GuardInv, Expiring
  <2> QED
    BY <1>1, <2>1 DEF IInv, StoreTypeOK, Uploading
<1>5. CASE UnlinkStale \/ WriteReceipt \/ WriteLease \/ DropLease
  <2>1. job' = job /\ active' = active
    BY <1>1, <1>5 DEF UnlinkStale, WriteReceipt, WriteLease, DropLease, IInv, GuardInv, Unlinking,
                      Leasing, Dropping, Terminal
  <2> QED
    BY <1>1, <2>1
<1>6. ASSUME NEW p \in Procs, Call(p) PROVE UNCHANGED <<job, active>>
  BY <1>6, Entered
<1>7. StoreWrite \/ UNCHANGED <<job, active>>
  BY <1>6 DEF StoreNext, NoCall, Release, Die, WritePolicy, PassDeadline, SetLock, storeVars
<1> QED
  BY <1>2, <1>3, <1>4, <1>5, <1>7 DEF StoreWrite

(***************************************************************************)
(* An unknown publication keeps every other job out until it is settled     *)
(* (SNAPSHOT_SYNC_API.md:67, sync_state.py:64-70).                          *)
(***************************************************************************)
THEOREM UnknownExcludes == Spec => UnknownKeepsOthersOut
<1>1. IInv /\ SvcInv /\ [Next]_vars =>
        [\A j \in Jobs :
           job[j].phase = "publication_unknown" =>
             /\ \A k \in Jobs : job[k].phase = "absent" => job'[k] = job[k]
             /\ active' = j \/ job'[j].phase # "publication_unknown"]_storeVars
  BY StoreStep, UnknownStep
<1> QED
  BY <1>1, ServiceInvariant, PTL DEF Spec, UnknownKeepsOthersOut
================================================================================
