------------------------------ MODULE SyncService ------------------------------
(***************************************************************************)
(* The synchronisation service as a whole: ingress and worker share the job *)
(* store with the retention timer (deploy/retention_schedule.py) and the    *)
(* administrator's publisher (deploy/dataset.py main), while deadlines pass *)
(* and processes crash.                                                     *)
(***************************************************************************)
EXTENDS SyncIngress, SyncWorker

CONSTANTS Timer,       \* the retention timer's process
          Cli,         \* a command-line switch, activation or rollback
          MaxFaults,   \* bound: crashes of a process and prunes of a container
          MaxTimers,   \* bound: runs of the retention timer
          MaxCommands, \* bound: command-line runs
          MaxOutside   \* bound: runs of either

ASSUME ServiceConstants ==
  /\ Timer \in Procs /\ Cli \in Procs
  /\ Worker \notin Handlers /\ Timer \notin Handlers \cup {Worker}
  /\ Cli \notin Handlers \cup {Worker, Timer}
  /\ MaxFaults \in Nat /\ MaxTimers \in Nat /\ MaxCommands \in Nat
  /\ MaxOutside \in Nat

VARIABLES
  timer,     \* the timer's place: idle, policy, schedule
  cli,       \* the command's place: idle, open, pid, switch, unlock
  faults, timers, commands  \* what happened so far, for the bounds

hostVars == <<timer, cli, faults, timers, commands>>
counters == <<faults, timers, commands>>

Outside == timers + commands < MaxOutside
vars == <<storeVars, ingressVars, workerVars, hostVars>>

HostTypeOK ==
  /\ timer \in {"idle", "policy", "schedule"}
  /\ cli \in {"idle", "open", "pid", "switch", "unlock"}
  /\ faults \in 0..MaxFaults
  /\ timers \in 0..MaxTimers
  /\ commands \in 0..MaxCommands

\* Every variable of the service has its type (no code behaviour by itself;
\* the other properties rest on it).
TypeOK == StoreTypeOK /\ IngressTypeOK /\ WorkerTypeOK /\ HostTypeOK

HostInit == timer = "idle" /\ cli = "idle" /\ faults = 0 /\ timers = 0 /\ commands = 0

Init == StoreInit /\ IngressInit /\ WorkerInit /\ HostInit

--------------------------------------------------------------------------------
\* retention_schedule.main --apply: first the policy, then the job, each under
\* the guard; without --apply only a preview, which reads the lease.

TimerStart ==
  /\ timer = "idle" /\ guard.owner # Timer /\ timers < MaxTimers /\ Outside
  /\ \/ TakeGuard(Timer) /\ timer' = "policy"
     \/ ReadActive(Timer) /\ UNCHANGED timer
  /\ timers' = timers + 1
  /\ UNCHANGED <<ingressVars, workerVars, cli, faults, commands>>

TimerPolicy ==
  /\ timer = "policy"
  /\ WritePolicy(Timer)
  /\ timer' = "schedule"
  /\ UNCHANGED <<ingressVars, workerVars, cli, counters>>

\* Busy, from the guard or from the lease, is reported and ends the run.
TimerSchedule ==
  /\ timer = "schedule" /\ guard.owner # Timer
  /\ \/ \E j \in Jobs : ScheduleRetention(Timer, j)
     \/ ScheduleBusy(Timer)
     \/ Contended(Timer) /\ UNCHANGED storeVars
  /\ timer' = "idle"
  /\ UNCHANGED <<ingressVars, workerVars, cli, counters>>

--------------------------------------------------------------------------------
\* dataset.main: refuse an active job, create the lock, all under the guard;
\* the pid is written after the guard is released.

CliStart ==
  /\ cli = "idle" /\ guard.owner # Cli /\ commands < MaxCommands /\ Outside
  /\ ReadActive(Cli)
  /\ IF ActiveJob = NoJob THEN cli' = "open" ELSE UNCHANGED cli
  /\ commands' = commands + 1
  /\ UNCHANGED <<ingressVars, workerVars, timer, faults, timers>>

\* O_EXCL: an existing lock, live or not, is refused.
CliLock ==
  /\ cli = "open" /\ guard.owner = Cli /\ Written
  /\ IF lock = "none"
     THEN SetLock("cli_empty") /\ cli' = "pid"
     ELSE cli' = "idle" /\ UNCHANGED storeVars
  /\ UNCHANGED <<ingressVars, workerVars, timer, counters>>

CliPid ==
  /\ cli = "pid" /\ guard.owner # Cli
  /\ SetLock("cli") /\ cli' = "switch"
  /\ UNCHANGED <<ingressVars, workerVars, timer, counters>>

\* The command writes the config: to a database no job built, to one that was
\* published before, or, when that fails, back; each may be loaded (NginxReload).
CliSwitch ==
  /\ cli = "switch"
  /\ live' \in Seeds \cup recorded
  /\ UNCHANGED <<storeVars, ingressVars, worker, container, candidate, route, recorded,
                 published, hostVars>>

CliDone ==
  /\ cli = "switch" /\ cli' = "unlock"
  /\ UNCHANGED <<storeVars, ingressVars, workerVars, timer, counters>>

CliUnlock ==
  /\ cli = "unlock"
  /\ SetLock("none") /\ cli' = "idle"
  /\ UNCHANGED <<ingressVars, workerVars, timer, counters>>

--------------------------------------------------------------------------------
\* A crash stops one process; the others run on and it is started again.

Crash ==
  /\ faults < MaxFaults
  /\ faults' = faults + 1
  /\ \/ IngressCrash /\ UNCHANGED <<workerVars, timer, cli>>
     \/ WorkerCrash /\ UNCHANGED <<ingressVars, timer, cli>>
     \/ /\ timer # "idle" \/ guard.owner = Timer
        /\ timer' = "idle" /\ DropGuard(Timer)
        /\ UNCHANGED <<job, late, active, receipt, policy, lock, ingressVars, workerVars, cli>>
     \/ /\ cli # "idle"
        /\ cli' = "idle" /\ DropGuard(Cli)
        /\ lock' = CASE lock = "cli" -> "dead" [] lock = "cli_empty" -> "dead_empty"
                     [] OTHER -> lock
        /\ UNCHANGED <<job, late, active, receipt, policy, ingressVars, workerVars, timer>>
  /\ UNCHANGED <<timers, commands>>

PruneContainer(j) ==
  /\ faults < MaxFaults
  /\ Prune(j)
  /\ faults' = faults + 1
  /\ UNCHANGED <<ingressVars, timer, cli, timers, commands>>

\* The administrator removes a lock whose process is known to be gone.
RemoveDeadLock ==
  /\ lock \in {"dead", "dead_empty"}
  /\ SetLock("none")
  /\ UNCHANGED <<ingressVars, workerVars, hostVars>>

\* The owner has more to do before it leaves the guard than store writes.
InsideGuard ==
  \/ guard.owner = Worker /\ worker.at = "pid"
  \/ guard.owner = Timer /\ timer = "policy"
  \/ guard.owner = Cli /\ cli = "open"

LeaveGuard == Release /\ ~InsideGuard

StoreOnly(A) == A /\ UNCHANGED <<ingressVars, workerVars, hostVars>>

Next ==
  \/ \E h \in Handlers : IngressStep(h) /\ UNCHANGED <<workerVars, hostVars>>
  \/ WorkerStep /\ UNCHANGED <<ingressVars, hostVars>>
  \/ \E j \in Jobs : ContainerRuns(j) /\ UNCHANGED <<ingressVars, hostVars>>
  \/ \E j \in Jobs : PruneContainer(j)
  \/ NginxReload /\ UNCHANGED <<ingressVars, hostVars>>
  \/ TimerStart \/ TimerPolicy \/ TimerSchedule
  \/ CliStart \/ CliLock \/ CliPid \/ CliSwitch \/ CliDone \/ CliUnlock
  \/ StoreOnly(StoreWrite) \/ StoreOnly(LeaveGuard)
  \/ \E j \in Jobs : StoreOnly(PassDeadline(j))
  \/ Crash
  \/ RemoveDeadLock

Spec == Init /\ [][Next]_vars

(***************************************************************************)
(* Scheduling.  The worker loops for ever and every process that entered    *)
(* the guard leaves it, as do requests that were accepted and commands that *)
(* hold the lock; deadlines pass.  The Docker and Nginx daemons answer, but *)
(* docker wait has no time limit (sync_worker.py:83): while the import runs *)
(* the worker does nothing, and nothing makes an import end.  The guard is  *)
(* held for a few file writes and tried again every 5 s                     *)
(* (sync_worker.py:160-163): a tick that finds it free infinitely often is  *)
(* taken, and the worker does not meet a held guard for ever.  Clients, the *)
(* timer and the administrator need do nothing.                             *)
(***************************************************************************)
WorkerMeetsBusy == worker.at # "idle" /\ worker' # worker /\ Contended(Worker)
                   /\ worker.at \in {"begin", "wait", "lock", "finish", "settle"}

ImportRuns(j) == container[j] = "running"
WorkerWaits == worker.at = "wait" /\ ImportRuns(worker.job)

Fairness ==
  /\ WF_vars(StoreOnly(StoreWrite)) /\ WF_vars(StoreOnly(LeaveGuard))
  /\ WF_vars(WorkerStep /\ worker.at # "idle" /\ ~WorkerWaits
             /\ UNCHANGED <<ingressVars, hostVars>>)
  /\ SF_vars(Tick /\ UNCHANGED <<ingressVars, hostVars>>)
  /\ <>[][~WorkerMeetsBusy]_vars
  /\ \A h \in Handlers :
       WF_vars(IngressStep(h) /\ request[h].at # "idle" /\ UNCHANGED <<workerVars, hostVars>>)
  /\ \A j \in Jobs : WF_vars(StoreOnly(PassDeadline(j)))
  /\ WF_vars(TimerPolicy) /\ WF_vars(CliLock \/ CliPid \/ CliDone \/ CliUnlock)

LiveSpec == Spec /\ Fairness

--------------------------------------------------------------------------------
\* Safety

\* The worker, or the command, is changing what the site serves.
WorkerSwitches ==
  worker.at \in {"activate", "switch", "reload", "verify", "revert", "unload", "receipt", "finish"}
CliSwitches == cli \in {"pid", "switch"}

(***************************************************************************)
(* One data switch at a time: the worker and a command are never both in    *)
(* their switching section, although each removes lock files it takes for   *)
(* stale or its own (dataset.py:371-385, sync_worker.py:110-130).           *)
(***************************************************************************)
OneSwitchAtATime == ~(WorkerSwitches /\ CliSwitches)

(***************************************************************************)
(* While the outcome of a publication is unknown it keeps everyone else     *)
(* out: no job is created and no other job gets the lease until it is       *)
(* settled (deploy/SNAPSHOT_SYNC_API.md:67).                                *)
(***************************************************************************)
UnknownKeepsOthersOut ==
  [][\A j \in Jobs :
       job[j].phase = "publication_unknown" =>
         /\ \A k \in Jobs : job[k].phase = "absent" => job'[k] = job[k]
         /\ active' = j \/ job'[j].phase # "publication_unknown"]_storeVars

(***************************************************************************)
(* The service uses the store only as the store allows: every step of every *)
(* process is a step of the store's own specification, or leaves it alone:  *)
(* this is StoreSpec, with the caller named by the guard it takes.          *)
(***************************************************************************)
ImplementsStore ==
  StoreInit /\ [][IF guard.owner = Nobody /\ guard'.owner \in Procs
                  THEN Call(guard'.owner) ELSE NoCall]_storeVars

(***************************************************************************)
(* The lease comes free again: whatever job has it, the upload is finished, *)
(* abandoned or expired, and the worker ends the job or is left with a      *)
(* publication it cannot confirm (SNAPSHOT_SYNC_API.md:67-69).  The one     *)
(* thing that can keep it for ever is an import that never ends, which the  *)
(* worker waits for without a limit (sync_worker.py:83).                    *)
(***************************************************************************)
LeaseEnds ==
  \A j \in Jobs :
    active = j ~> \/ active # j \/ job[j].phase = "publication_unknown"
                  \/ [](active = j /\ ImportRuns(j))

(***************************************************************************)
(* "An upload that is not completed fails when its lease runs out"          *)
(* (SNAPSHOT_SYNC_API.md:69), for every job a client was told of.           *)
(***************************************************************************)
OfferedJobsExpire ==
  \A j \in Jobs : (j \in known /\ job[j].phase = "awaiting_upload" /\ late[j])
                  ~> job[j].phase # "awaiting_upload"

(***************************************************************************)
(* "A snapshot sync job is active; retry after it finishes"                 *)
(* (dataset.py:377): a command does not switch while a job has the lease.   *)
(***************************************************************************)
NoCommandDuringJob == cli = "switch" => ActiveJob = NoJob
================================================================================
