------------------------------- MODULE SyncStore -------------------------------
(***************************************************************************)
(* The durable job store of deploy/sync_state.py: job.json files, one       *)
(* receipt per snapshot checksum, the single lease in active.json and the   *)
(* non-blocking guard.lock, shared by the HTTP ingress, the host worker,    *)
(* the retention timer and the command-line publisher.                      *)
(*                                                                         *)
(* A guarded operation decides everything it will write when it enters the  *)
(* guard, since only guard holders write the store; the writes then happen  *)
(* one file at a time (each one is atomic: temporary file, fsync, rename),  *)
(* so a crash of the holder loses the writes that are still to come.        *)
(***************************************************************************)
EXTENDS Naturals

CONSTANTS
  Jobs,            \* job ids uuid4 may return
  Manifests,       \* upload manifests clients may send
  StaleManifests,  \* those whose captured_at the retention window excludes
  Shas,            \* compressed_sha256 values
  ShaOf,           \* the checksum a manifest declares
  Retention,       \* stands for the manifest of a job of kind 'retention'
  Seeds,           \* databases that no job built: the first one, manual ones
  Procs,           \* processes and request threads that may take the guard
  NoJob, Nobody

ASSUME StoreConstants ==
  /\ StaleManifests \subseteq Manifests
  /\ ShaOf \in [Manifests -> Shas]
  /\ Retention \notin Manifests
  /\ NoJob \notin Jobs \cup Seeds
  /\ Jobs \cap Seeds = {}
  /\ Nobody \notin Procs

VARIABLES
  job,      \* jobs/<id>/job.json
  late,     \* upload_deadline has passed
  active,   \* active.json
  receipt,  \* receipts/<sha>.json
  policy,   \* retention-policy.json exists
  lock,     \* dataset-switch.lock
  guard     \* guard.lock: its owner and the writes the owner has yet to make

storeVars == <<job, late, active, receipt, policy, lock, guard>>

--------------------------------------------------------------------------------

Uploading == {"awaiting_upload", "uploading"}
Publishing == {"publishing", "publication_unknown"}
Terminal == {"succeeded", "failed"}
Phases == {"absent", "queued", "importing"} \cup Uploading \cup Publishing \cup Terminal

\* Databases are named by the job that builds them (its generation directory).
Databases == Jobs \cup Seeds

JobRecord == [phase : Phases, manifest : Manifests \cup {Retention},
              base : Databases \cup {NoJob}, changed : BOOLEAN]

Blank == [phase |-> "absent", manifest |-> Retention, base |-> NoJob, changed |-> FALSE]

\* The lock file holds a pid: of a live process, of a dead one, or (between
\* the open and the write of the pid) nothing yet.
LockStates == {"none", "worker_empty", "worker", "cli_empty", "cli", "dead_empty", "dead"}

GuardRecord == [owner : Procs \cup {Nobody}, expire : Jobs \cup {NoJob}, unlink : BOOLEAN,
                save : Jobs \cup {NoJob}, content : JobRecord, receipt : Jobs \cup {NoJob},
                lease : Jobs \cup {NoJob}, drop : BOOLEAN]

Free == [owner |-> Nobody, expire |-> NoJob, unlink |-> FALSE, save |-> NoJob,
         content |-> Blank, receipt |-> NoJob, lease |-> NoJob, drop |-> FALSE]

StoreTypeOK ==
  /\ job \in [Jobs -> JobRecord]
  /\ late \in [Jobs -> BOOLEAN]
  /\ active \in Jobs \cup {NoJob}
  /\ receipt \in [Shas -> Jobs \cup {NoJob}]
  /\ policy \in BOOLEAN
  /\ lock \in LockStates
  /\ guard \in GuardRecord

StoreInit ==
  /\ job = [j \in Jobs |-> Blank]
  /\ late = [j \in Jobs |-> FALSE]
  /\ active = NoJob
  /\ receipt = [s \in Shas |-> NoJob]
  /\ policy = FALSE
  /\ lock = "none"
  /\ guard = Free

--------------------------------------------------------------------------------
\* Store.active(): the job it returns, and the writes it makes on the way.

\* Here and below, a definition whose name starts with Slip is not part of the
\* model: it is the next definition with a mistake the code could have made,
\* and shows which property would catch it.
Slip_NeverExpired(j) == FALSE

Expired(j) == job[j].phase \in Uploading /\ late[j]

Slip_ActiveJob ==  \* an unknown publication counts as ended
  IF active # NoJob /\ ~Expired(active)
     /\ job[active].phase \notin Terminal \cup {"publication_unknown"}
  THEN active ELSE NoJob

ActiveJob ==
  IF active # NoJob /\ ~Expired(active) /\ job[active].phase \notin Terminal
  THEN active ELSE NoJob

ActiveWrites ==
  [Free EXCEPT !.expire = IF active # NoJob /\ Expired(active) THEN active ELSE NoJob,
               !.unlink = active # NoJob /\ ActiveJob = NoJob]

\* guard(root): a caller that finds the guard taken fails at once with Busy.
Contended(p) == guard.owner \notin {Nobody, p}

Enter(p, writes) ==
  /\ guard.owner = Nobody
  /\ guard' = [writes EXCEPT !.owner = p]
  /\ UNCHANGED <<job, late, active, receipt, policy, lock>>

\* A caller that does not look at the lease; one that only reads active(), or
\* that raises after calling it.
TakeGuard(p) == Enter(p, Free)

ReadActive(p) == Enter(p, ActiveWrites)

--------------------------------------------------------------------------------
\* Store.create(manifest)

\* active() has expired an overdue upload before the receipt is looked up.
PhaseNow(j) == IF j = active /\ Expired(j) THEN "failed" ELSE job[j].phase

Previous(m) == receipt[ShaOf[m]]

Rebound(m) == Previous(m) # NoJob /\ job[Previous(m)].manifest # m

Slip_Reusable(m) ==  \* any ended job may be done again
  /\ Previous(m) # NoJob
  /\ job[Previous(m)].manifest = m
  /\ PhaseNow(Previous(m)) \notin Terminal

Reusable(m) ==
  /\ Previous(m) # NoJob
  /\ job[Previous(m)].manifest = m
  /\ PhaseNow(Previous(m)) # "failed"

\* Neither answered from a receipt nor bound to another manifest.
Fresh(m) == ~Rebound(m) /\ ~Reusable(m)

Slip_Vacant == lock = "none"

Vacant == ActiveJob = NoJob /\ lock = "none"

\* A live previous job is returned, and made active again if nothing is.
CreateExisting(p, m) ==
  /\ Reusable(m)
  /\ Enter(p, [ActiveWrites EXCEPT
                 !.lease = IF job[Previous(m)].phase \notin Terminal /\ ActiveJob = NoJob
                           THEN Previous(m) ELSE NoJob])

\* ValueError (another manifest, or older than the retention window) and Busy.
CreateRejected(p, m) ==
  /\ Rebound(m) \/ (Fresh(m) /\ policy /\ m \in StaleManifests)
  /\ ReadActive(p)

CreateBusy(p, m) ==
  /\ Fresh(m) /\ ~(policy /\ m \in StaleManifests) /\ ~Vacant
  /\ ReadActive(p)

CreateNew(p, m, j) ==
  /\ Fresh(m) /\ ~(policy /\ m \in StaleManifests) /\ Vacant
  /\ job[j].phase = "absent"
  /\ Enter(p, [ActiveWrites EXCEPT
                 !.save = j, !.receipt = j, !.lease = j,
                 !.content = [Blank EXCEPT !.phase = "awaiting_upload", !.manifest = m]])

\* Store.schedule_retention(policy)
ScheduleRetention(p, j) ==
  /\ Vacant
  /\ job[j].phase = "absent"
  /\ Enter(p, [ActiveWrites EXCEPT
                 !.save = j, !.lease = j,
                 !.content = [Blank EXCEPT !.phase = "queued"]])

ScheduleBusy(p) == ~Vacant /\ ReadActive(p)

--------------------------------------------------------------------------------
\* Store.transition(job_id, expected, phase, **values)

Slip_MayMove(j, expected) == ActiveJob = j

MayMove(j, expected) == ActiveJob = j /\ job[j].phase \in expected

Transition(p, j, expected, content) ==
  /\ MayMove(j, expected)
  /\ Enter(p, [Free EXCEPT !.save = j, !.content = content,
                           !.drop = content.phase \in Terminal])

TransitionBusy(p, j, expected) == ~MayMove(j, expected) /\ ReadActive(p)

\* The moves the callers ask for.
Moves ==
  {<<"awaiting_upload", "uploading">>, <<"uploading", "queued">>,
   <<"queued", "importing">>, <<"importing", "publishing">>, <<"importing", "succeeded">>}
  \cup (Publishing \X {"succeeded", "publication_unknown"})
  \cup ({"uploading", "queued", "importing"} \cup Publishing) \X {"failed"}

--------------------------------------------------------------------------------
\* The writes of the guard holder, in the order the code makes them.

WriteExpired ==
  /\ guard.expire # NoJob
  /\ job' = [job EXCEPT ![guard.expire].phase = "failed"]
  /\ guard' = [guard EXCEPT !.expire = NoJob]
  /\ UNCHANGED <<late, active, receipt, policy, lock>>

UnlinkStale ==
  /\ guard.expire = NoJob /\ guard.unlink
  /\ active' = NoJob
  /\ guard' = [guard EXCEPT !.unlink = FALSE]
  /\ UNCHANGED <<job, late, receipt, policy, lock>>

WriteJob ==
  /\ guard.expire = NoJob /\ ~guard.unlink /\ guard.save # NoJob
  /\ job' = [job EXCEPT ![guard.save] = guard.content]
  /\ guard' = [guard EXCEPT !.save = NoJob, !.content = Blank]
  /\ UNCHANGED <<late, active, receipt, policy, lock>>

WriteReceipt ==
  /\ guard.expire = NoJob /\ ~guard.unlink /\ guard.save = NoJob /\ guard.receipt # NoJob
  /\ receipt' = [receipt EXCEPT ![ShaOf[job[guard.receipt].manifest]] = guard.receipt]
  /\ guard' = [guard EXCEPT !.receipt = NoJob]
  /\ UNCHANGED <<job, late, active, policy, lock>>

WriteLease ==
  /\ guard.expire = NoJob /\ ~guard.unlink /\ guard.save = NoJob /\ guard.receipt = NoJob
  /\ guard.lease # NoJob
  /\ active' = guard.lease
  /\ guard' = [guard EXCEPT !.lease = NoJob]
  /\ UNCHANGED <<job, late, receipt, policy, lock>>

DropLease ==
  /\ guard.save = NoJob /\ guard.drop
  /\ active' = NoJob
  /\ guard' = [guard EXCEPT !.drop = FALSE]
  /\ UNCHANGED <<job, late, receipt, policy, lock>>

StoreWrite ==
  WriteExpired \/ UnlinkStale \/ WriteJob \/ WriteReceipt \/ WriteLease \/ DropLease

\* Nothing left to write: flock(LOCK_UN).
Written == guard = [Free EXCEPT !.owner = guard.owner]

Release ==
  /\ guard.owner # Nobody /\ Written
  /\ guard' = Free
  /\ UNCHANGED <<job, late, active, receipt, policy, lock>>

\* The holder's process dies: the kernel drops the flock, the rest is lost.
DropGuard(p) == guard' = IF guard.owner = p THEN Free ELSE guard

--------------------------------------------------------------------------------
\* retention_schedule.main writes the policy under the guard; time passes;
\* the dataset lock is created by a guard holder and removed by anyone.

WritePolicy(p) ==
  /\ guard.owner = p /\ Written
  /\ policy' = TRUE
  /\ UNCHANGED <<job, late, active, receipt, lock, guard>>

PassDeadline(j) ==
  /\ job[j].phase \in Uploading /\ ~late[j]
  /\ late' = [late EXCEPT ![j] = TRUE]
  /\ UNCHANGED <<job, active, receipt, policy, lock, guard>>

SetLock(state) ==
  /\ lock' = state
  /\ UNCHANGED <<job, late, active, receipt, policy, guard>>

\* What a caller may start when the guard is free.
Call(p) ==
  \/ TakeGuard(p) \/ ReadActive(p)
  \/ \E m \in Manifests :
       \/ CreateExisting(p, m) \/ CreateRejected(p, m) \/ CreateBusy(p, m)
       \/ \E j \in Jobs : CreateNew(p, m, j)
  \/ \E j \in Jobs : ScheduleRetention(p, j)
  \/ \E j \in Jobs, move \in Moves :
       /\ job[j].phase = move[1]
       /\ \E base \in Databases \cup {NoJob}, changed \in BOOLEAN :
            Transition(p, j, {move[1]},
              [job[j] EXCEPT !.phase = move[2], !.base = base, !.changed = changed])

\* A crash, of a process that may own the guard and the dataset lock.
Die(p) ==
  /\ DropGuard(p)
  /\ lock' \in LockStates
  /\ UNCHANGED <<job, late, active, receipt, policy>>

\* What happens while nobody takes the guard.
NoCall ==
  \/ StoreWrite
  \/ Release
  \/ \E p \in Procs : Die(p) \/ WritePolicy(p)
  \/ \E j \in Jobs : PassDeadline(j)
  \/ \E state \in LockStates : SetLock(state)

StoreNext ==
  \/ guard.owner = Nobody /\ \E p \in Procs : Call(p)
  \/ NoCall

StoreSpec == StoreInit /\ [][StoreNext]_storeVars

--------------------------------------------------------------------------------
\* Properties

\* A job past the reservation: exactly these phases are exclusive.
InService(j) ==
  \/ job[j].phase \in {"uploading", "importing"} \cup Publishing
  \/ job[j].phase = "queued" /\ job[j].manifest # Retention

(***************************************************************************)
(* Every job that is being uploaded, imported or published, and every       *)
(* uploaded one that waits for the worker, is the one active.json names:    *)
(* so there is at most one, whatever threads and processes interleave and   *)
(* wherever they crash (sync_state.py:78-139).                              *)
(***************************************************************************)
LeaseHeld == \A j \in Jobs : InService(j) => active = j

(***************************************************************************)
(* Two accepted uploads never carry the same snapshot: a second job for a   *)
(* checksum gets past its reservation only after the first one failed       *)
(* (sync_state.py:91-98), even if a crash lost the receipt or the lease.    *)
(***************************************************************************)
Accepted(j) == job[j].phase \notin {"absent", "awaiting_upload", "failed"} /\ job[j].manifest # Retention

OneJobPerSnapshot ==
  \A j, k \in Jobs :
    Accepted(j) /\ Accepted(k) /\ ShaOf[job[j].manifest] = ShaOf[job[k].manifest] => j = k

(***************************************************************************)
(* A checksum stays bound to its job until that job failed: what a client   *)
(* was told of its snapshot is never replaced while it can still hold       *)
(* (sync_state.py:91-98, 109).                                              *)
(***************************************************************************)
ReceiptSticks ==
  [][\A s \in Shas : receipt[s] # NoJob /\ receipt'[s] # receipt[s]
                       => job[receipt[s]].phase = "failed"]_receipt

(***************************************************************************)
(* Jobs never go back: a finished job stays as it is, and no step returns a *)
(* job to an earlier phase although several writers rewrite job.json whole  *)
(* from copies they read earlier (sync_state.py:74-85, 130-139).            *)
(***************************************************************************)
Rank == [ph \in Phases |->
           CASE ph = "absent" -> 0 [] ph = "awaiting_upload" -> 1 [] ph = "uploading" -> 2
             [] ph = "queued" -> 3 [] ph = "importing" -> 4 [] ph \in Publishing -> 5
             [] ph \in Terminal -> 6]

PhasesAdvance ==
  [][\A j \in Jobs : job'[j] # job[j] => \/ Rank[job[j].phase] < Rank[job'[j].phase]
                                         \/ Rank[job[j].phase] = 5 /\ Rank[job'[j].phase] = 5]_job
================================================================================
