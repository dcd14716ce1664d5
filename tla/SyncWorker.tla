------------------------------- MODULE SyncWorker -------------------------------
(***************************************************************************)
(* The host worker of deploy/sync_worker.py: every tick reads the lease,    *)
(* then takes the job through import and publication.  The import runs in a *)
(* container of a fixed name that outlives the worker; the publication      *)
(* (dataset.activate) holds dataset-switch.lock and is seen here through    *)
(* what it leaves behind: the Nginx config, the route Nginx loaded from it,  *)
(* the switch record and the receipt publication.json.                      *)
(***************************************************************************)
EXTENDS SyncStore

CONSTANTS Worker,  \* the worker process (worker.lock admits one)
          Seed     \* the database served at first

ASSUME WorkerConstants == Worker \in Procs /\ Seed \in Seeds

VARIABLES
  worker,     \* where the worker is, on which job, with what it has read
  container,  \* docker container wow-auction-import-<id>
  candidate,  \* jobs whose generation directory exists
  live,       \* the database behind the port the Nginx config file names
  route,      \* the database the running Nginx serves: live as of its last reload
  recorded,   \* jobs whose switch record says 'active'
  published   \* jobs with a publication.json receipt

publicationVars == <<live, route, recorded, published>>
workerVars == <<worker, container, candidate, live, route, recorded, published>>

Places == {"idle", "base", "begin", "import", "wait", "lock", "pid", "activate", "switch",
           "reload", "verify", "revert", "unload", "receipt", "finish", "unlock", "remove",
           "error", "settle"}

WorkerRecord == [at : Places, job : Jobs \cup {NoJob}, base : Databases \cup {NoJob},
                 fate : Phases, failed : BOOLEAN]

Asleep == [at |-> "idle", job |-> NoJob, base |-> NoJob, fate |-> "absent", failed |-> FALSE]

\* "changed" and "same" are successful runs with and without new scans.
Exited == {"changed", "same", "broken"}
ContainerStates == {"none", "created", "running"} \cup Exited

WorkerTypeOK ==
  /\ worker \in WorkerRecord
  /\ container \in [Jobs -> ContainerStates]
  /\ candidate \subseteq Jobs
  /\ live \in Databases /\ route \in Databases
  /\ recorded \subseteq Jobs
  /\ published \subseteq Jobs

WorkerInit ==
  /\ worker = Asleep
  /\ container = [j \in Jobs |-> "none"]
  /\ candidate = {}
  /\ live = Seed /\ route = Seed
  /\ recorded = {}
  /\ published = {}

--------------------------------------------------------------------------------

AtPlace(place) == worker.at = place /\ guard.owner # Worker
MoveTo(place) == worker' = [worker EXCEPT !.at = place]
Sleep == worker' = Asleep

\* An exception leaves process() for the handler in tick().
Raise == MoveTo("error")

\* transition() within process(): Busy, from either cause, is an exception.
TryTransition(expected, content, place) ==
  \/ /\ Transition(Worker, worker.job, expected, content)
     /\ worker' = [worker EXCEPT !.at = place, !.base = NoJob]
  \/ TransitionBusy(Worker, worker.job, expected) /\ Raise
  \/ Contended(Worker) /\ Raise /\ UNCHANGED storeVars

WithPhase(phase) == [job[worker.job] EXCEPT !.phase = phase]

\* tick(): a contended guard ends it; so does a job still being uploaded.
Tick ==
  /\ AtPlace("idle")
  /\ ReadActive(Worker)
  /\ IF ActiveJob = NoJob \/ job[ActiveJob].phase \in Uploading
     THEN Sleep
     ELSE worker' = [Asleep EXCEPT !.job = ActiveJob,
                       !.at = CASE job[ActiveJob].phase = "queued" -> "base"
                                [] job[ActiveJob].phase = "importing" -> "import"
                                [] job[ActiveJob].phase \in Publishing -> "lock"]
  /\ UNCHANGED <<container, candidate, publicationVars>>

\* Queued: find and hash the live database; disk space and freshness may fail.
ReadBase ==
  /\ AtPlace("base")
  /\ \/ /\ ~(policy /\ job[worker.job].manifest \in StaleManifests)
        /\ worker' = [worker EXCEPT !.at = "begin", !.base = live]
     \/ Raise
  /\ UNCHANGED <<storeVars, container, candidate, publicationVars>>

BeginImport ==
  /\ AtPlace("begin")
  /\ TryTransition({"queued"}, [WithPhase("importing") EXCEPT !.base = worker.base], "import")
  /\ UNCHANGED <<container, candidate, publicationVars>>

Slip_RunImport ==  \* a lost container is started again over its candidate
  /\ AtPlace("import")
  /\ \/ container[worker.job] = "none"
        /\ container' = [container EXCEPT ![worker.job] = "created"]
        /\ UNCHANGED worker
     \/ container[worker.job] = "created"
        /\ container' = [container EXCEPT ![worker.job] = "running"]
        /\ MoveTo("wait")
     \/ container[worker.job] \in {"running"} \cup Exited /\ MoveTo("wait") /\ UNCHANGED container
  /\ UNCHANGED <<storeVars, candidate, publicationVars>>

\* Importing: start the container unless it exists; a generation directory
\* without a container fails closed.
RunImport ==
  /\ AtPlace("import")
  /\ \/ container[worker.job] = "none" /\ worker.job \notin candidate
        /\ container' = [container EXCEPT ![worker.job] = "created"]
        /\ UNCHANGED worker
     \/ container[worker.job] \in {"none", "created"} /\ Raise /\ UNCHANGED container
     \/ container[worker.job] = "created"
        /\ container' = [container EXCEPT ![worker.job] = "running"]
        /\ MoveTo("wait")
     \/ container[worker.job] \in {"running"} \cup Exited /\ MoveTo("wait") /\ UNCHANGED container
  /\ UNCHANGED <<storeVars, candidate, publicationVars>>

\* docker wait, the exit code, the report and the checksum of the output; any
\* of these may fail, even while the container still runs.
FinishImport ==
  /\ AtPlace("wait")
  /\ \/ /\ container[worker.job] = "changed"
        /\ TryTransition({"importing"}, WithPhase("publishing"), "lock")
     \/ /\ container[worker.job] = "same"
        /\ TryTransition({"importing"}, WithPhase("succeeded"), "remove")
     \/ Raise /\ UNCHANGED storeVars
  /\ UNCHANGED <<container, candidate, publicationVars>>

\* docker rm, whose failure is ignored, ends a successful pass; a publication
\* still has to give up the dataset lock.
RemoveContainer ==
  /\ AtPlace("remove")
  /\ container' \in {container, [container EXCEPT ![worker.job] = "none"]}
  /\ IF lock = "worker" THEN MoveTo("unlock") ELSE Sleep
  /\ UNCHANGED <<storeVars, candidate, publicationVars>>

--------------------------------------------------------------------------------
\* Publishing.  Under the guard, a lock left by a dead process is removed and
\* the lock created; the lock of a live process, or one without a pid, raises.

EnterSwitch ==
  /\ AtPlace("lock")
  /\ \/ TakeGuard(Worker) /\ MoveTo("pid")
     \/ Contended(Worker) /\ Raise /\ UNCHANGED storeVars
  /\ UNCHANGED <<container, candidate, publicationVars>>

Slip_TakeLock ==  \* any lock that is there is taken for a stale one
  /\ worker.at = "pid" /\ guard.owner = Worker
  /\ \/ lock # "worker_empty" /\ SetLock("worker_empty") /\ UNCHANGED worker
     \/ lock = "worker_empty" /\ SetLock("worker") /\ MoveTo("activate")
  /\ UNCHANGED <<container, candidate, publicationVars>>

TakeLock ==
  /\ worker.at = "pid" /\ guard.owner = Worker
  /\ \/ lock \in {"none", "dead"} /\ SetLock("worker_empty") /\ UNCHANGED worker
     \/ lock \in {"cli", "cli_empty", "dead_empty"} /\ Raise /\ UNCHANGED storeVars
     \/ lock = "worker_empty" /\ SetLock("worker") /\ MoveTo("activate")
  /\ UNCHANGED <<container, candidate, publicationVars>>

\* finally: the lock file is removed, on every way out once it was taken.
Unlock ==
  /\ AtPlace("unlock")
  /\ SetLock("none")
  /\ IF worker.failed THEN worker' = [worker EXCEPT !.at = "error", !.failed = FALSE]
                      ELSE Sleep
  /\ UNCHANGED <<container, candidate, publicationVars>>

RaiseUnlocking == worker' = [worker EXCEPT !.at = "unlock", !.failed = TRUE]

\* dataset._activate: a receipt, or a switch record of the served database,
\* proves the publication; otherwise the route is switched.
Activate ==
  /\ AtPlace("activate")
  /\ \/ /\ worker.job \in published /\ live = worker.job
        /\ MoveTo("finish")
     \/ /\ worker.job \notin published /\ live = worker.job /\ worker.job \in recorded
        /\ MoveTo("receipt")
     \/ /\ worker.job \notin published /\ live = job[worker.job].base
        /\ MoveTo("switch")
     \/ RaiseUnlocking  \* none of these, or a failed command or checksum
  /\ UNCHANGED <<storeVars, container, candidate, publicationVars>>

\* dataset.switch: the candidate is ready and the config is written; its port
\* may be taken by a container that was left behind, its start may fail.
SwitchRoute ==
  /\ AtPlace("switch")
  /\ \/ live = job[worker.job].base /\ live' = worker.job /\ MoveTo("reload")
     \/ RaiseUnlocking /\ UNCHANGED live
  /\ UNCHANGED <<storeVars, container, candidate, route, recorded, published>>

\* nginx -t and nginx -s reload
ReloadRoute ==
  /\ AtPlace("reload")
  /\ \/ route' = live /\ MoveTo("verify")
     \/ MoveTo("revert") /\ UNCHANGED route
  /\ UNCHANGED <<storeVars, container, candidate, live, recorded, published>>

Slip_VerifyRoute ==  \* the switch is not recorded
  /\ AtPlace("verify")
  /\ \/ route = worker.job /\ MoveTo("receipt")
     \/ MoveTo("revert")
  /\ UNCHANGED <<storeVars, container, candidate, publicationVars>>

\* The public route is verified and recorded.
VerifyRoute ==
  /\ AtPlace("verify")
  /\ \/ route = worker.job /\ recorded' = recorded \cup {worker.job} /\ MoveTo("receipt")
     \/ MoveTo("revert") /\ UNCHANGED recorded
  /\ UNCHANGED <<storeVars, container, candidate, live, route, published>>

\* The old config is put back, then loaded: when nginx -t or the reload fails,
\* the running Nginx stays where it is and the candidate is not stopped.
RevertConfig ==
  /\ AtPlace("revert")
  /\ live' = job[worker.job].base
  /\ MoveTo("unload")
  /\ UNCHANGED <<storeVars, container, candidate, route, recorded, published>>

RevertRoute ==
  /\ AtPlace("unload")
  /\ route' \in {route, live}
  /\ RaiseUnlocking
  /\ UNCHANGED <<storeVars, container, candidate, live, recorded, published>>

\* Nginx is reloaded at any time: by a command, a certificate renewal, a restart.
NginxReload ==
  /\ route # live /\ route' = live
  /\ UNCHANGED <<storeVars, worker, container, candidate, live, recorded, published>>

WriteReceiptFile ==
  /\ AtPlace("receipt")
  /\ published' = published \cup {worker.job}
  /\ MoveTo("finish")
  /\ UNCHANGED <<storeVars, container, candidate, live, route, recorded>>

\* transition to succeeded, docker rm, then finally removes the lock.
FinishPublication ==
  /\ AtPlace("finish")
  /\ \/ /\ Transition(Worker, worker.job, Publishing, [WithPhase("succeeded") EXCEPT !.changed = TRUE])
        /\ MoveTo("remove")
     \/ TransitionBusy(Worker, worker.job, Publishing) /\ RaiseUnlocking
     \/ Contended(Worker) /\ RaiseUnlocking /\ UNCHANGED storeVars
  /\ UNCHANGED <<container, candidate, publicationVars>>

--------------------------------------------------------------------------------
Slip_Diagnose ==  \* every failed publication is failed
  /\ AtPlace("error")
  /\ IF job[worker.job].phase \in Terminal THEN Sleep
     ELSE worker' = [worker EXCEPT !.at = "settle", !.fate = "failed"]
  /\ UNCHANGED <<storeVars, container, candidate, publicationVars>>

\* tick()'s handler: reads the job again, and for a publication asks whether
\* the old database is still served; if that cannot be told, it is unknown.
Diagnose ==
  /\ AtPlace("error")
  /\ LET phase == job[worker.job].phase
         Fate(f) == worker' = [worker EXCEPT !.at = "settle", !.fate = f] IN
       \/ phase \in Terminal /\ Sleep
       \/ phase \in Publishing /\ live = job[worker.job].base /\ Fate("failed")
       \/ phase \in Publishing /\ Fate("publication_unknown")
       \/ phase \in {"queued", "importing"} /\ Fate("failed")
  /\ UNCHANGED <<storeVars, container, candidate, publicationVars>>

\* A Busy here leaves the job as it is for the next tick.
Settle ==
  /\ AtPlace("settle")
  /\ LET expected == IF job[worker.job].phase \in Publishing THEN Publishing
                     ELSE {job[worker.job].phase} IN
       \/ Transition(Worker, worker.job, expected, WithPhase(worker.fate))
       \/ TransitionBusy(Worker, worker.job, expected)
       \/ Contended(Worker) /\ UNCHANGED storeVars
  /\ Sleep
  /\ UNCHANGED <<container, candidate, publicationVars>>

--------------------------------------------------------------------------------
\* The import container runs on its own; it creates the generation directory.
ContainerRuns(j) ==
  /\ container[j] = "running"
  /\ \/ j \notin candidate /\ candidate' = candidate \cup {j} /\ UNCHANGED container
     \/ \E code \in Exited :
          /\ code = "broken" \/ j \in candidate
          /\ container' = [container EXCEPT ![j] = code]
          /\ UNCHANGED candidate
  /\ UNCHANGED <<storeVars, worker, publicationVars>>

\* A created container the worker did not start, or an exited one, is pruned
\* on the host (docker container prune).
Prune(j) ==
  /\ container[j] \in {"created"} \cup Exited
  /\ container' = [container EXCEPT ![j] = "none"]
  /\ UNCHANGED <<storeVars, worker, candidate, publicationVars>>

WorkerCrash ==
  /\ worker # Asleep \/ guard.owner = Worker
  /\ worker' = Asleep
  /\ DropGuard(Worker)
  /\ lock' = CASE lock = "worker" -> "dead" [] lock = "worker_empty" -> "dead_empty"
               [] OTHER -> lock
  /\ UNCHANGED <<job, late, active, receipt, policy, container, candidate, publicationVars>>

WorkerStep ==
  \/ Tick \/ ReadBase \/ BeginImport \/ RunImport \/ FinishImport \/ RemoveContainer
  \/ EnterSwitch \/ TakeLock \/ Unlock \/ Activate \/ SwitchRoute \/ ReloadRoute
  \/ VerifyRoute \/ RevertConfig \/ RevertRoute \/ WriteReceiptFile
  \/ FinishPublication \/ Diagnose \/ Settle

--------------------------------------------------------------------------------
(***************************************************************************)
(* "A failure keeps the old data" (SNAPSHOT_SYNC_API.md:3): the data of a   *)
(* job that ended as failed is not what the site serves.                    *)
(***************************************************************************)
FailedKeepsOldData == \A j \in Jobs : job[j].phase = "failed" => route # j

(***************************************************************************)
(* A failed job is off the Nginx config, however late the failure is        *)
(* written: where its data is still served, because the revert could not be *)
(* loaded, the next reload takes it away, and the next job is built on what *)
(* was there before; a publication of which this cannot be told stays       *)
(* publication_unknown (sync_worker.py:139-149, dataset.py:226-235).        *)
(***************************************************************************)
FailedOffConfig == \A j \in Jobs : job[j].phase = "failed" => live # j

(***************************************************************************)
(* A success is told only of data that Nginx serves, by its config and as   *)
(* it runs, recorded for rollback and receipted at that moment; "changed:   *)
(* false" only of data that never was (sync_worker.py:92-98, 119-127).      *)
(***************************************************************************)
SuccessIsTrue ==
  [][\A j \in Jobs :
       job[j].phase # "succeeded" /\ job'[j].phase = "succeeded" =>
         IF job'[j].changed
         THEN live = j /\ route = j /\ j \in recorded /\ j \in published
         ELSE live # j /\ route # j /\ j \notin recorded]_job

(***************************************************************************)
(* The import of a job never starts a second time once it began writing its *)
(* candidate: a restarted worker waits for the container it finds, and      *)
(* refuses a candidate whose container is gone (sync_worker.py:63-83).      *)
(***************************************************************************)
ImportStartsOnce ==
  [][\A j \in Jobs : container[j] # "running" /\ container'[j] = "running"
                       => j \notin candidate]_container
================================================================================
