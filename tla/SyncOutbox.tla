------------------------------- MODULE SyncOutbox -------------------------------
(***************************************************************************)
(* The collector's durable upload queue (automation/wow-runner,             *)
(* internal/syncqueue and internal/syncapi) against the real ingress and    *)
(* job store: snapshots are archived, enqueued, and taken one by one, the   *)
(* oldest first, through create, upload and status.  Requests and answers   *)
(* are lost or arrive late; ingress and collector crash.  The host worker   *)
(* and the retention timer are reduced to the store calls they make.        *)
(***************************************************************************)
EXTENDS SyncIngress, FiniteSets

CONSTANTS
  Worker, Timer,  \* processes of the host
  CapturedAt,     \* when each snapshot was taken; a snapshot has one manifest
  NoManifest,
  MaxFaults,      \* bound: crashes, lost messages, damaged files, failed writes
  MaxMisreads,    \* bound: entries, archives and directories that cannot be read
  MaxTimers       \* bound: retention jobs

ASSUME OutboxConstants ==
  /\ Worker \in Procs /\ Timer \in Procs
  /\ CapturedAt \in [Manifests -> Nat]
  /\ \A m, n \in Manifests : CapturedAt[m] = CapturedAt[n] => m = n
  /\ NoManifest \notin Manifests \cup {Retention}
  /\ MaxFaults \in Nat /\ MaxMisreads \in Nat /\ MaxTimers \in Nat

VARIABLES
  archived,   \* snapshots with archive and archive manifest on disk
  unseen,     \* those archived since discovery last read the directories
  collector,  \* the snapshot archived and now to be enqueued
  entry,      \* job.json of each queue directory
  unreadable, \* entries whose job.json cannot be read for now: it is damaged or locked
  outbox,     \* what Run is doing: its place, snapshot, and the answer it got
  todo,       \* archives the running discovery has yet to enqueue
  wire,       \* requests on their way, and whether the outbox still waits
  asked,      \* the request thread whose answer the outbox waits for
  told,       \* the answer each request thread has ready
  logged,     \* snapshots that discovery or the queue told to leave out
  faults, misreads, timers

queueVars == <<archived, unseen, collector, entry>>
fileVars == <<unreadable, logged>>
clientVars == <<outbox, todo, wire, asked>>
bounds == <<faults, misreads, timers>>
outboxVars == <<queueVars, fileVars, clientVars, told, bounds>>
vars == <<storeVars, ingressVars, outboxVars>>

\* Local phases, and the remote ones that are copied into the entry.
Entry == [phase : {"none", "pending", "prepared", "attention"} \cup Phases,
          prepared : BOOLEAN, remote : Jobs \cup {NoJob}, failures : 0..3]

NoEntry == [phase |-> "none", prepared |-> FALSE, remote |-> NoJob, failures |-> 0]

Answer == [job : Jobs \cup {NoJob}, phase : Phases]
Silent == [job |-> NoJob, phase |-> "absent"]
Refused == [job |-> NoJob, phase |-> "failed"]  \* any status but 2xx

Waiting == {"create", "upload"}

Outbox == [at : {"start", "discover", "idle", "save", "decide", "uploaded"} \cup Waiting,
           snapshot : Manifests \cup {NoManifest}, answer : Answer]

Rest == [at |-> "idle", snapshot |-> NoManifest, answer |-> Silent]

Requests == [op : {"create", "upload"}, snapshot : Manifests, job : Jobs \cup {NoJob},
             awaited : BOOLEAN]

\* Every variable has its type (the other properties rest on it).
TypeOK ==
  /\ StoreTypeOK /\ IngressTypeOK
  /\ archived \subseteq Manifests /\ unseen \subseteq archived /\ todo \subseteq archived
  /\ collector \in archived \cup {NoManifest}
  /\ entry \in [Manifests -> Entry]
  /\ unreadable \subseteq {m \in Manifests : entry[m].phase # "none"} /\ logged \subseteq archived
  /\ outbox \in Outbox
  /\ wire \subseteq Requests
  /\ asked \in Handlers \cup {Nobody}
  /\ told \in [Handlers -> Answer]
  /\ faults \in 0..MaxFaults /\ misreads \in 0..MaxMisreads /\ timers \in 0..MaxTimers

Init ==
  /\ StoreInit /\ IngressInit
  /\ archived = {} /\ unseen = {} /\ todo = {} /\ unreadable = {} /\ logged = {}
  /\ collector = NoManifest
  /\ entry = [m \in Manifests |-> NoEntry]
  /\ outbox = [Rest EXCEPT !.at = "start"]
  /\ wire = {} /\ asked = Nobody
  /\ told = [h \in Handlers |-> Silent]
  /\ faults = 0 /\ misreads = 0 /\ timers = 0

Fault == faults < MaxFaults /\ faults' = faults + 1 /\ UNCHANGED <<misreads, timers>>
Misread == misreads < MaxMisreads /\ misreads' = misreads + 1 /\ UNCHANGED <<faults, timers>>
NoFault == UNCHANGED bounds

ServerUnchanged == UNCHANGED <<storeVars, ingressVars, told>>

--------------------------------------------------------------------------------
\* The collector goroutine: an archive, then its entry.

Older(m) == {n \in Manifests : CapturedAt[n] < CapturedAt[m]}

Slip_Archive(m) ==  \* the entry precedes the archive
  /\ collector = NoManifest
  /\ m \notin archived /\ Older(m) \subseteq archived
  /\ collector' = m
  /\ ServerUnchanged /\ NoFault
  /\ UNCHANGED <<archived, unseen, entry, fileVars, clientVars>>

Archive(m) ==
  /\ collector = NoManifest
  /\ m \notin archived /\ Older(m) \subseteq archived
  /\ archived' = archived \cup {m}
  /\ unseen' = unseen \cup {m}
  /\ collector' = m
  /\ ServerUnchanged /\ NoFault
  /\ UNCHANGED <<entry, fileVars, clientVars>>

\* os.Link refuses to replace: an existing entry is compared and kept.
Enqueued(m) == IF entry[m].phase = "none"
               THEN [entry EXCEPT ![m] = [NoEntry EXCEPT !.phase = "pending"]]
               ELSE entry

\* A failure is only logged.
EnqueueNew ==
  /\ collector # NoManifest
  /\ \/ entry' = Enqueued(collector) /\ NoFault
     \/ UNCHANGED entry /\ Fault
  /\ collector' = NoManifest
  /\ ServerUnchanged
  /\ UNCHANGED <<archived, unseen, fileVars, clientVars>>

\* Another program locks or damages an entry's file, until a person sees to it.
Damage(m) ==
  /\ entry[m].phase # "none" /\ m \notin unreadable
  /\ unreadable' = unreadable \cup {m}
  /\ ServerUnchanged /\ Misread
  /\ UNCHANGED <<queueVars, clientVars, logged>>

Restore(m) ==
  /\ m \in unreadable
  /\ unreadable' = unreadable \ {m}
  /\ ServerUnchanged /\ NoFault
  /\ UNCHANGED <<queueVars, clientVars, logged>>

--------------------------------------------------------------------------------
\* Run: discovery at the start and then every minute, else one Step.

Go(place) == outbox' = [outbox EXCEPT !.at = place]

\* job.json is written anew from what was read of it before.
Rewrite == unreadable' = unreadable \ {outbox.snapshot}

\* The attempt is over, and when the next may be is written down.
Relax == outbox' = Rest /\ Rewrite

Slip_StartDiscovery ==  \* only what was archived since the last walk
  /\ outbox.at \in {"start", "idle"}
  /\ Go("discover")
  /\ todo' = unseen /\ unseen' = {}
  /\ ServerUnchanged /\ NoFault
  /\ UNCHANGED <<archived, collector, entry, fileVars, wire, asked>>

StartDiscovery ==
  /\ outbox.at \in {"start", "idle"}
  /\ Go("discover")
  /\ todo' = archived /\ unseen' = {}
  /\ ServerUnchanged /\ NoFault
  /\ UNCHANGED <<archived, collector, entry, fileVars, wire, asked>>

Discover(m) ==
  /\ outbox.at = "discover" /\ m \in todo \ unreadable
  /\ entry' = Enqueued(m)
  /\ todo' = todo \ {m}
  /\ ServerUnchanged /\ NoFault
  /\ UNCHANGED <<archived, unseen, collector, fileVars, outbox, wire, asked>>

\* The walk ends, or an error in it aborts the rest: an entry that exists cannot be compared,
\* or an archive not be read.  That is logged, and the queue goes on.
EndDiscovery ==
  /\ outbox.at = "discover"
  /\ \/ (todo = {} \/ todo \cap unreadable # {}) /\ NoFault
     \/ todo # {} /\ Misread
  /\ logged' = logged \cup todo /\ todo' = {} /\ Relax
  /\ ServerUnchanged
  /\ UNCHANGED <<queueVars, wire, asked>>

\* A collection takes longer than the minute between two discoveries.
Discovered == Cardinality(unseen) <= 1

\* An entry that cannot be read is left out.
Candidates == {m \in Manifests \ unreadable : entry[m].phase \notin {"none", "succeeded"}}

Slip_NextUp(m) ==  \* what needs attention is passed over
  /\ m \in Candidates /\ entry[m].phase # "attention"
  /\ \A n \in Candidates \cap Older(m) : entry[n].phase = "attention"

\* The oldest candidate; one that needs attention holds the others.
NextUp(m) ==
  /\ m \in Candidates /\ Candidates \cap Older(m) = {}
  /\ entry[m].phase # "attention"

\* What was left out is logged.
StepOn(m) ==
  /\ outbox.at = "idle" /\ Discovered /\ NextUp(m)
  /\ logged' = logged \cup unreadable /\ UNCHANGED unreadable

\* Convert the archive; a damaged one, or another capture time, is for a person.
Prepare(m) ==
  /\ StepOn(m) /\ ~entry[m].prepared
  /\ \/ entry' = [entry EXCEPT ![m].prepared = TRUE, ![m].phase = "prepared"] /\ NoFault
     \/ entry' = [entry EXCEPT ![m].phase = "attention"] /\ Fault
  /\ ServerUnchanged
  /\ UNCHANGED <<archived, unseen, collector, clientVars>>

PayloadDamaged(m) ==
  /\ StepOn(m) /\ entry[m].prepared
  /\ entry' = [entry EXCEPT ![m].phase = "attention"]
  /\ Fault
  /\ ServerUnchanged
  /\ UNCHANGED <<archived, unseen, collector, clientVars>>

Send(op, m, j) ==
  /\ wire' = wire \cup {[op |-> op, snapshot |-> m, job |-> j, awaited |-> TRUE]}
  /\ outbox' = [Rest EXCEPT !.at = op, !.snapshot = m]

AskCreate(m) ==
  /\ StepOn(m) /\ entry[m].prepared /\ entry[m].remote = NoJob
  /\ Send("create", m, NoJob)
  /\ ServerUnchanged /\ NoFault
  /\ UNCHANGED <<queueVars, todo, asked>>

\* GET reads job.json in one piece; its answer may be old when it is used.
AskStatus(m) ==
  /\ StepOn(m) /\ entry[m].prepared /\ entry[m].remote # NoJob
  /\ outbox' = [at |-> "save", snapshot |-> m,
                answer |-> [job |-> entry[m].remote, phase |-> job[entry[m].remote].phase]]
  /\ ServerUnchanged /\ NoFault
  /\ UNCHANGED <<queueVars, todo, wire, asked>>

\* The answer is persisted before anything is uploaded.
SaveRemote ==
  /\ outbox.at = "save"
  /\ entry' = [entry EXCEPT ![outbox.snapshot].remote = outbox.answer.job,
                            ![outbox.snapshot].phase = outbox.answer.phase]
  /\ Go("decide") /\ Rewrite
  /\ ServerUnchanged /\ NoFault
  /\ UNCHANGED <<archived, unseen, collector, logged, todo, wire, asked>>

CountFailure(m) ==
  entry' = IF entry[m].failures = 2
           THEN [entry EXCEPT ![m].failures = 3, ![m].phase = "attention"]
           ELSE [entry EXCEPT ![m].failures = @ + 1, ![m].remote = NoJob]

Slip_DecideFailed ==  \* an unknown outcome is counted as a failure
  /\ outbox.at = "decide" /\ outbox.answer.phase \in {"failed", "publication_unknown"}
  /\ CountFailure(outbox.snapshot)
  /\ Relax
  /\ ServerUnchanged /\ NoFault
  /\ UNCHANGED <<archived, unseen, collector, logged, todo, wire, asked>>

\* A failed job is asked for anew, three times at most.
DecideFailed ==
  /\ outbox.at = "decide" /\ outbox.answer.phase = "failed"
  /\ CountFailure(outbox.snapshot)
  /\ Relax
  /\ ServerUnchanged /\ NoFault
  /\ UNCHANGED <<archived, unseen, collector, logged, todo, wire, asked>>

DecideUpload ==
  /\ outbox.at = "decide" /\ outbox.answer.phase = "awaiting_upload"
  /\ Send("upload", outbox.snapshot, outbox.answer.job)
  /\ ServerUnchanged /\ NoFault
  /\ UNCHANGED <<queueVars, fileVars, todo, asked>>

\* Ended, or unknown or still at work: look again later.
DecideWait ==
  /\ outbox.at = "decide" /\ outbox.answer.phase \notin {"failed", "awaiting_upload"}
  /\ IF outbox.answer.phase = "succeeded" THEN outbox' = Rest /\ UNCHANGED unreadable ELSE Relax
  /\ ServerUnchanged /\ NoFault
  /\ UNCHANGED <<queueVars, logged, todo, wire, asked>>

Slip_SaveUploaded ==  \* an accepted upload is taken for a publication
  /\ outbox.at = "uploaded"
  /\ entry' = [entry EXCEPT ![outbox.snapshot].phase = "succeeded"]
  /\ Relax
  /\ ServerUnchanged /\ NoFault
  /\ UNCHANGED <<archived, unseen, collector, logged, todo, wire, asked>>

SaveUploaded ==
  /\ outbox.at = "uploaded"
  /\ entry' = [entry EXCEPT ![outbox.snapshot].phase = outbox.answer.phase]
  /\ Relax
  /\ ServerUnchanged /\ NoFault
  /\ UNCHANGED <<archived, unseen, collector, logged, todo, wire, asked>>

--------------------------------------------------------------------------------
\* The network and the request threads of the ingress.

NextPlace == IF outbox.at = "create" THEN "save" ELSE "uploaded"

\* An answer reaches the outbox if it still waits; a refusal defers the entry.
Arrive(h, answer) ==
  /\ IF asked # h THEN UNCHANGED <<outbox, asked, unreadable>>
     ELSE /\ asked' = Nobody
          /\ IF answer = Refused THEN Relax
             ELSE /\ outbox' = [outbox EXCEPT !.at = NextPlace, !.answer = answer]
                  /\ UNCHANGED unreadable
  /\ UNCHANGED <<queueVars, logged, todo, bounds>>

\* Ids are never reused and mean nothing: the first free one stands for any.
NewId == CHOOSE j \in Jobs : job[j].phase = "absent"

NoIdLeft == \A j \in Jobs : job[j].phase # "absent"  \* bound

Taken(h) == At(h, "idle") /\ told[h] = Silent

Tell(h, answer) == told' = [told EXCEPT ![h] = answer]

\* POST: answered from the store, or refused by it or by a busy guard.
Created(h) ==
  IF request'[h] = Idle THEN Refused
  ELSE [job |-> request'[h].job,
        phase |-> IF guard'.save = NoJob THEN PhaseNow(request'[h].job) ELSE "awaiting_upload"]

ServeCreate(h, r) ==
  /\ r.op = "create"
  /\ \/ /\ PostJob(h, r.snapshot)
        /\ (guard'.save # NoJob => guard'.save = NewId)
        /\ Tell(h, Created(h))
     \/ /\ Contended(h) \/ (NoIdLeft /\ Fresh(r.snapshot))
        /\ Tell(h, Refused)
        /\ UNCHANGED <<storeVars, ingressVars>>

\* PUT: what is uploaded already is answered, all else goes for the reservation.
ServeUpload(h, r) ==
  /\ r.op = "upload"
  /\ \/ PutSnapshot(h, r.job) /\ UNCHANGED told
     \/ /\ job[r.job].phase \notin Uploading \cup {"failed"}
        /\ Tell(h, [job |-> r.job, phase |-> job[r.job].phase])
        /\ UNCHANGED <<storeVars, ingressVars>>

Deliver(h, r) ==
  /\ r \in wire /\ Taken(h)
  /\ ServeCreate(h, r) \/ ServeUpload(h, r)
  /\ wire' = wire \ {r}
  /\ asked' = IF r.awaited THEN h ELSE asked
  /\ UNCHANGED <<queueVars, fileVars, outbox, todo, bounds>>

\* 202 with the queued job after the commit, else 409 or 422.
Upload(h) ==
  /\ Reserve(h) \/ StreamComplete(h) \/ StreamFail(h) \/ Commit(h) \/ Abort(h)
  /\ IF request'[h] # Idle THEN UNCHANGED told
     ELSE Tell(h, IF request[h].at = "commit" THEN [job |-> request[h].job, phase |-> "queued"]
                                              ELSE Refused)
  /\ UNCHANGED <<queueVars, fileVars, clientVars, bounds>>

SendAnswer(h) ==
  /\ \/ AnswerPost(h)
     \/ At(h, "idle") /\ told[h] # Silent /\ UNCHANGED <<storeVars, ingressVars>>
  /\ Tell(h, Silent)
  /\ Arrive(h, told[h])
  /\ UNCHANGED wire

\* The connection breaks or times out.  A request on its way may still arrive;
\* fairness does not ask it to, so it may as well be lost.
Disregarded == {[r EXCEPT !.awaited = FALSE] : r \in wire}

GiveUp ==
  /\ outbox.at \in Waiting
  /\ Relax /\ asked' = Nobody /\ wire' = Disregarded
  /\ Fault
  /\ ServerUnchanged
  /\ UNCHANGED <<queueVars, logged, todo>>

CollectorCrash ==
  /\ outbox' = [Rest EXCEPT !.at = "start"]
  /\ collector' = NoManifest /\ todo' = {}
  /\ asked' = Nobody /\ wire' = Disregarded
  /\ Fault
  /\ ServerUnchanged
  /\ UNCHANGED <<archived, unseen, entry, fileVars>>

\* All requests end, and with them the connection the outbox waits on.
ServerCrash ==
  /\ IngressCrash
  /\ told' = [h \in Handlers |-> Silent]
  /\ asked' = Nobody
  /\ IF asked # Nobody THEN Relax ELSE UNCHANGED <<outbox, unreadable>>
  /\ Fault
  /\ UNCHANGED <<queueVars, logged, todo, wire>>

--------------------------------------------------------------------------------
\* The host: the worker's store calls, without what it does in between.

WorkerMoves(j) ==
  /\ \E phase \in Phases :
       /\ <<job[j].phase, phase>> \in Moves /\ job[j].phase \notin Uploading
       /\ Transition(Worker, j, {job[j].phase}, [job[j] EXCEPT !.phase = phase])
  /\ UNCHANGED <<ingressVars, outboxVars>>

WorkerTick == ReadActive(Worker) /\ guard' # [Free EXCEPT !.owner = Worker]
              /\ UNCHANGED <<ingressVars, outboxVars>>

\* The timer's run: first the policy, from when on uploads must be fresh, ...
PolicyDue == ~policy /\ StaleManifests # {}

TimerPolicy ==
  /\ PolicyDue
  /\ TakeGuard(Timer) \/ WritePolicy(Timer)
  /\ UNCHANGED <<ingressVars, outboxVars>>

\* ... then the job, each under the guard.
TimerJob ==
  /\ ~PolicyDue
  /\ timers < MaxTimers /\ timers' = timers + 1
  /\ \E j \in Jobs : ScheduleRetention(Timer, j) /\ j = NewId
  /\ UNCHANGED <<ingressVars, queueVars, fileVars, clientVars, told, faults, misreads>>

\* The timer leaves its first section when the policy is written.
LeaveGuard == Release /\ ~(guard.owner = Timer /\ PolicyDue)

StoreOnly(A) == A /\ UNCHANGED <<ingressVars, outboxVars>>

OutboxStep ==
  \/ StartDiscovery \/ EndDiscovery \/ SaveRemote \/ DecideFailed \/ DecideUpload
  \/ DecideWait \/ SaveUploaded
  \/ \E m \in Manifests : \/ Discover(m) \/ Prepare(m) \/ PayloadDamaged(m)
                          \/ AskCreate(m) \/ AskStatus(m)

Steps == \E m \in Manifests : Prepare(m) \/ AskCreate(m) \/ AskStatus(m)

Next ==
  \/ \E m \in Manifests : Archive(m) \/ Damage(m) \/ Restore(m)
  \/ EnqueueNew
  \/ OutboxStep
  \/ \E h \in Handlers : Upload(h) \/ SendAnswer(h) \/ \E r \in wire : Deliver(h, r)
  \/ GiveUp \/ CollectorCrash \/ ServerCrash
  \/ \E j \in Jobs : WorkerMoves(j) \/ StoreOnly(PassDeadline(j))
  \/ WorkerTick \/ TimerJob \/ TimerPolicy
  \/ StoreOnly(StoreWrite) \/ StoreOnly(LeaveGuard)

Spec == Init /\ [][Next]_vars

(***************************************************************************)
(* Scheduling.  Both goroutines of the collector run on, discovery recurs   *)
(* every minute and in between the oldest entry is stepped every 5 s.  The  *)
(* ingress serves what reaches it and finishes what it serves, unless the   *)
(* connection fails; the host's guard holders write and leave, the worker   *)
(* ticks and ends what it works on, deadlines pass.  The worker's calls     *)
(* need the guard, which others may take in between: strong fairness.  No   *)
(* fault, retention job or policy is ever bound to happen.                  *)
(***************************************************************************)
Fairness ==
  /\ WF_vars(OutboxStep /\ outbox.at # "idle")
  /\ SF_vars(StartDiscovery) /\ SF_vars(Steps)
  /\ \A h \in Handlers :
       SF_vars(Upload(h) \/ SendAnswer(h) \/ \E r \in wire : r.awaited /\ Deliver(h, r))
  /\ WF_vars(StoreOnly(StoreWrite \/ LeaveGuard))
  /\ SF_vars(WorkerTick \/ \E j \in Jobs : WorkerMoves(j))
  /\ WF_vars(\E j \in Jobs : StoreOnly(PassDeadline(j)))

LiveSpec == Spec /\ Fairness

--------------------------------------------------------------------------------
(***************************************************************************)
(* "Preserve snapshot chronology: a failed older upload holds newer ones"  *)
(* (queue.go:324), as far as the code keeps it: no snapshot is overtaken   *)
(* in silence. Whatever crashes, lost requests and failed enqueues there   *)
(* are, a snapshot's job is accepted only when each older archived one has *)
(* been published, or the log told that its entry could not be read or     *)
(* that a walk ended before it (queue.go:285-289, 310-329, 343-381). So    *)
(* what discovery has to repair comes before what it may not overtake.     *)
(***************************************************************************)
OvertakenOnlyLogged ==
  \A j \in Jobs : Accepted(j) =>
    \A m \in archived \cap Older(job[j].manifest) : entry[m].phase = "succeeded" \/ m \in logged

(***************************************************************************)
(* What the queue remembers is true, whichever answers were lost or came    *)
(* late: an entry's remote job carries its snapshot, and an entry is done   *)
(* only if a job published that snapshot (client.go:2, queue.go:233-262).   *)
(***************************************************************************)
EntriesAreTrue ==
  \A m \in Manifests :
    /\ entry[m].remote # NoJob => job[entry[m].remote].manifest = m
    /\ entry[m].phase = "succeeded" =>
         \E j \in Jobs : job[j].manifest = m /\ job[j].phase = "succeeded"

(***************************************************************************)
(* The queue lets go of a remote job only after it failed: one that may     *)
(* still publish, or whose publication is unknown, is asked again and never *)
(* submitted anew (BACKGROUND_COLLECTION.md:40).                            *)
(***************************************************************************)
EntryKeepsRemote ==
  [][\A m \in Manifests :
       entry[m].remote # NoJob /\ entry'[m].remote # entry[m].remote
         => job[entry[m].remote].phase = "failed"]_entry

(***************************************************************************)
(* The queue drains: an archived snapshot is published in spite of crashes  *)
(* and lost messages, unless it or an older one waits for a person: its     *)
(* files are damaged, the server failed it three times, its publication is  *)
(* unknown, or it is too old for the retention policy; or some entry's      *)
(* job.json stays unreadable, which ends every walk that meets it           *)
(* (queue.go:324-328, 355-381).                                             *)
(***************************************************************************)
Held(m) ==
  \/ entry[m].phase \in {"attention", "publication_unknown"}
  \/ policy /\ m \in StaleManifests

Exhausted(m) ==  \* bound: no id is left for the job that m needs
  /\ NoIdLeft /\ guard.owner = Nobody
  /\ Previous(m) # NoJob => job[Previous(m)].phase = "failed"

QueueDrains ==
  \A m \in Manifests :
    m \in archived ~> \/ entry[m].phase = "succeeded"
                      \/ \E n \in Older(m) \cup {m} : Held(n)
                      \/ [](unreadable # {})
                      \/ Exhausted(m)
================================================================================
