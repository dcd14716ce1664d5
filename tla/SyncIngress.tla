------------------------------ MODULE SyncIngress ------------------------------
(***************************************************************************)
(* The HTTP ingress of deploy/sync_api.py: concurrent requests that create  *)
(* jobs and upload snapshots.  Every store call runs in a thread and the    *)
(* request is suspended between calls, so requests interleave with each     *)
(* other and with the host processes at every step below.  A crash of the   *)
(* ingress container ends all its requests.                                 *)
(***************************************************************************)
EXTENDS SyncStore

CONSTANT Handlers  \* requests being served at the same time

ASSUME IngressConstants == Handlers \subseteq Procs

VARIABLES
  request,   \* what each request is doing
  known,     \* job ids that clients were given
  snapshot   \* jobs whose snapshot.jsonl.gz is complete on disk

ingressVars == <<request, known, snapshot>>

RequestRecord ==
  [at : {"idle", "answer", "reserve", "stream", "commit", "abort"}, job : Jobs \cup {NoJob}]

Idle == [at |-> "idle", job |-> NoJob]

IngressTypeOK ==
  /\ request \in [Handlers -> RequestRecord]
  /\ known \subseteq Jobs
  /\ snapshot \subseteq Jobs

IngressInit ==
  /\ request = [h \in Handlers |-> Idle]
  /\ known = {}
  /\ snapshot = {}

--------------------------------------------------------------------------------

\* The request runs on: its last store call has returned.
At(h, place) == request[h].at = place /\ guard.owner # h

GoTo(h, place, j) == request' = [request EXCEPT ![h] = [at |-> place, job |-> j]]

Answered(h) == request' = [request EXCEPT ![h] = Idle]

\* POST /api/sync/jobs: 200 or 202 with the id, or 409, 422 without one.
PostJob(h, m) ==
  /\ At(h, "idle")
  /\ \/ CreateExisting(h, m) /\ GoTo(h, "answer", Previous(m))
     \/ \E j \in Jobs : CreateNew(h, m, j) /\ GoTo(h, "answer", j)
     \/ (CreateRejected(h, m) \/ CreateBusy(h, m)) /\ UNCHANGED request
  /\ UNCHANGED <<known, snapshot>>

AnswerPost(h) ==
  /\ At(h, "answer")
  /\ known' = known \cup {request[h].job}
  /\ Answered(h)
  /\ UNCHANGED <<storeVars, snapshot>>

\* PUT .../snapshot: the phase is read without the guard, so it may be stale
\* when the reservation is attempted.  Jobs already uploaded are answered.
PutSnapshot(h, j) ==
  /\ At(h, "idle")
  /\ j \in known
  /\ job[j].phase \in Uploading \cup {"failed"} /\ job[j].manifest # Retention
  /\ GoTo(h, "reserve", j)
  /\ UNCHANGED <<storeVars, known, snapshot>>

\* Busy (409), from the guard or from the phase, ends the request here.
Reserve(h) ==
  /\ At(h, "reserve")
  /\ LET j == request[h].job IN
       \/ /\ Transition(h, j, {"awaiting_upload"}, [job[j] EXCEPT !.phase = "uploading"])
          /\ GoTo(h, "stream", j)
       \/ TransitionBusy(h, j, {"awaiting_upload"}) /\ Answered(h)
       \/ Contended(h) /\ Answered(h) /\ UNCHANGED storeVars
  /\ UNCHANGED <<known, snapshot>>

\* The body arrived and matches the manifest: the part file is renamed.
StreamComplete(h) ==
  /\ At(h, "stream")
  /\ snapshot' = snapshot \cup {request[h].job}
  /\ GoTo(h, "commit", request[h].job)
  /\ UNCHANGED <<storeVars, known>>

Slip_StreamFail(h) ==  \* a short body goes on as if it were whole
  /\ At(h, "stream")
  /\ GoTo(h, "commit", request[h].job)
  /\ UNCHANGED <<storeVars, known, snapshot>>

\* Too long, too slow (600 s), cut off, or another checksum.
StreamFail(h) ==
  /\ At(h, "stream")
  /\ GoTo(h, "abort", request[h].job)
  /\ UNCHANGED <<storeVars, known, snapshot>>

Slip_Commit(h) ==  \* saves the job itself, without the guard
  /\ At(h, "commit")
  /\ job' = [job EXCEPT ![request[h].job].phase = "queued"]
  /\ Answered(h)
  /\ UNCHANGED <<late, active, receipt, policy, lock, guard, known, snapshot>>

\* A Busy here is caught like any other failure of the upload.
Commit(h) ==
  /\ At(h, "commit")
  /\ LET j == request[h].job IN
       \/ /\ Transition(h, j, {"uploading"}, [job[j] EXCEPT !.phase = "queued"])
          /\ Answered(h)
       \/ TransitionBusy(h, j, {"uploading"}) /\ GoTo(h, "abort", j)
       \/ Contended(h) /\ GoTo(h, "abort", j) /\ UNCHANGED storeVars
  /\ UNCHANGED <<known, snapshot>>

Slip_Abort(h) ==  \* a phase no reader knows
  /\ At(h, "abort")
  /\ LET j == request[h].job IN
       Transition(h, j, {"uploading"}, [job[j] EXCEPT !.phase = "aborted"])
  /\ Answered(h)
  /\ UNCHANGED <<known, snapshot>>

Abort(h) ==
  /\ At(h, "abort")
  /\ LET j == request[h].job IN
       \/ Transition(h, j, {"uploading"}, [job[j] EXCEPT !.phase = "failed"])
       \/ TransitionBusy(h, j, {"uploading"})
       \/ Contended(h) /\ UNCHANGED storeVars
  /\ Answered(h)
  /\ UNCHANGED <<known, snapshot>>

\* The container dies and is started again: its requests and its guard are gone.
IngressCrash ==
  /\ \E h \in Handlers : request[h] # Idle \/ guard.owner = h
  /\ request' = [h \in Handlers |-> Idle]
  /\ guard' = IF guard.owner \in Handlers THEN Free ELSE guard
  /\ UNCHANGED <<job, late, active, receipt, policy, lock, known, snapshot>>

IngressStep(h) ==
  \/ \E m \in Manifests : PostJob(h, m)
  \/ \E j \in Jobs : PutSnapshot(h, j)
  \/ AnswerPost(h) \/ Reserve(h) \/ StreamComplete(h) \/ StreamFail(h) \/ Commit(h) \/ Abort(h)

--------------------------------------------------------------------------------
(***************************************************************************)
(* The worker never starts on a job whose snapshot is not complete on disk: *)
(* the rename precedes the queued phase, whatever crash or second upload    *)
(* falls between (sync_api.py:94-96).                                       *)
(***************************************************************************)
QueuedIsComplete ==
  \A j \in Jobs : Accepted(j) /\ job[j].phase # "uploading" => j \in snapshot
================================================================================
