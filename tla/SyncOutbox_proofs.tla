---------------------------- MODULE SyncOutbox_proofs ----------------------------
(***************************************************************************)
(* Proofs about the collector's queue against the real ingress and store    *)
(* (SyncOutbox), for any number of snapshots, jobs, request threads, lost   *)
(* messages and crashes: it implements the store's specification, what the  *)
(* queue remembers is true, it lets go of a remote job only after it        *)
(* failed, and no snapshot is overtaken unless the log told of it.           *)
(***************************************************************************)
EXTENDS SyncOutbox, SyncStore_proofs, FiniteSetTheorems

\* Job j has a file, and it carries snapshot m.
Has(j, m) == j \in Jobs /\ job[j].phase # "absent" /\ job[j].manifest = m

\* The same, once request h has made the writes it is making.
Promised(h, j, m) ==
  \/ Has(j, m)
  \/ j \in Jobs /\ guard.owner = h /\ guard.save = j /\ guard.content.manifest = m

\* An entry that was given up has used its last attempt; only what is archived has one.
Entries ==
  /\ EntriesAreTrue
  /\ \A m \in Manifests :
       /\ entry[m].remote # NoJob => Has(entry[m].remote, m)
       /\ entry[m].failures = 3 => entry[m].phase = "attention"
       /\ entry[m].phase # "none" => m \in archived
       /\ entry[m].phase = "none" => entry[m].remote = NoJob

\* Whether answer a is true of snapshot m's job, and stays true.
TrueOf(a, m) ==
  /\ Has(a.job, m)
  /\ a.phase = "succeeded" => job[a.job].phase = "succeeded"

\* What Step may count on at each place.
Working ==
  outbox.at \in {"save", "decide", "uploaded"} \cup Waiting =>
    LET m == outbox.snapshot
        a == outbox.answer
    IN /\ m \in Manifests
       /\ outbox.at # "decide" => entry[m].phase \notin {"none", "succeeded", "attention"}
       /\ outbox.at = "create" => entry[m].remote = NoJob
       /\ outbox.at = "save" => entry[m].remote \in {NoJob, a.job}
       /\ outbox.at = "decide" => entry[m].remote = a.job /\ entry[m].phase = a.phase
       /\ outbox.at \in {"save", "decide", "uploaded"} => TrueOf(a, m)
       /\ outbox.at \in {"save", "decide"} /\ a.phase = "failed" => job[a.job].phase = "failed"

\* One awaited request at most is on its way, for what the outbox works on.
Wired ==
  \A r \in wire :
    /\ r.op = "create" => r.job = NoJob
    /\ r.op = "upload" => Has(r.job, r.snapshot)
    /\ r.awaited =>
         /\ asked = Nobody /\ outbox.at = r.op /\ outbox.snapshot = r.snapshot
         /\ r.op = "upload" => r.job = entry[r.snapshot].remote

\* Request h is about snapshot m, whatever it is going to say.
About(h, m) ==
  /\ request[h].at # "idle" => Promised(h, request[h].job, m)
  /\ request[h].at = "idle" => told[h] # Silent
  /\ told[h].job # NoJob => Promised(h, told[h].job, m)

\* The request the outbox waits for is about its snapshot.
Asked == asked # Nobody => outbox.at \in Waiting /\ About(asked, outbox.snapshot)

\* What request h is about to answer is true.
Truthful(h) ==
  /\ request[h].at = "idle" => request[h] = Idle
  /\ request[h].at = "answer" => told[h].job = request[h].job
  /\ told[h].job = NoJob => told[h] \in {Silent, Refused}
  /\ told[h].job # NoJob => told[h].phase \notin {"absent", "failed"}
  /\ told[h].phase = "succeeded" => job[told[h].job].phase = "succeeded"

Answers == \A h \in Handlers : Truthful(h)

\* Archives are made in order; those since the last walk are the newest.
Walks ==
  /\ IsFiniteSet(archived)
  /\ \A m \in archived : Older(m) \subseteq archived
  /\ \A m \in unseen, n \in archived : CapturedAt[m] < CapturedAt[n] => n \in unseen
  /\ todo # {} => outbox.at = "discover"

\* All older snapshots are published, or the log told that they were left out.
Ahead(m) ==
  m \in archived /\ \A n \in archived \cap Older(m) : entry[n].phase = "succeeded" \/ n \in logged

\* Only the newest archives, and what the log told of, have no entry; and whatever has
\* got as far as a request has nothing older before it.
Chronology ==
  /\ \A m \in archived :
       entry[m].phase = "none" => m \in unseen \cup todo \cup logged \/ outbox.at = "start"
  /\ outbox.snapshot # NoManifest => Ahead(outbox.snapshot)
  /\ \A r \in wire : Ahead(r.snapshot)
  /\ \A j \in Jobs : job[j].manifest # Retention => Ahead(job[j].manifest)
  /\ guard.content.manifest # Retention => Ahead(guard.content.manifest)

Local == Entries /\ Working /\ Wired /\ Asked /\ Answers /\ Walks /\ Chronology

\* Everything the queue, its requests and the ingress may count on.
OutInv == IInv /\ TypeOK /\ Present /\ Uploads /\ Local

--------------------------------------------------------------------------------
\* The kinds of steps.

\* What the collector does by itself.
ClientStep ==
  \/ \E m \in Manifests : Archive(m) \/ Damage(m) \/ Restore(m)
  \/ EnqueueNew \/ OutboxStep \/ GiveUp \/ CollectorCrash

\* What a request thread does.
Serves(h) == Upload(h) \/ SendAnswer(h) \/ \E r \in wire : Deliver(h, r)

\* What the processes of the host do.
HostStep ==
  \/ \E j \in Jobs : WorkerMoves(j) \/ StoreOnly(PassDeadline(j))
  \/ WorkerTick \/ TimerJob \/ TimerPolicy
  \/ StoreOnly(StoreWrite) \/ StoreOnly(LeaveGuard)

\* There are no others.
LEMMA KindsOfSteps ==
  ASSUME Next
  PROVE  ClientStep \/ HostStep \/ ServerCrash \/ \E h \in Handlers : Serves(h)
BY DEF Next, ClientStep, HostStep, Serves

\* The collector touches nothing of the server's.
LEMMA ClientLeavesServer == ClientStep => ServerUnchanged
BY DEF ClientStep, Archive, Damage, Restore, EnqueueNew, OutboxStep, StartDiscovery, Discover,
       EndDiscovery, Prepare,
       PayloadDamaged, AskCreate, AskStatus, SaveRemote, DecideFailed, DecideUpload, DecideWait,
       SaveUploaded, GiveUp, CollectorCrash

\* A request's step is one of the ingress, or leaves it alone (sync_api.py:50-101).
LEMMA ServingSteps ==
  ASSUME TypeOK, NEW h \in Handlers, Serves(h)
  PROVE  IngressStep(h) \/ UNCHANGED <<storeVars, ingressVars>>
<1>1. CASE Upload(h)
  BY <1>1 DEF Upload, IngressStep
<1>2. CASE SendAnswer(h)
  BY <1>2 DEF SendAnswer, IngressStep
<1>3. ASSUME NEW r \in wire, Deliver(h, r)
      PROVE  IngressStep(h) \/ UNCHANGED <<storeVars, ingressVars>>
  <2>1. r.snapshot \in Manifests /\ known \subseteq Jobs
    BY DEF TypeOK, Requests, IngressTypeOK
  <2>2. PutSnapshot(h, r.job) => r.job \in Jobs
    BY <2>1 DEF PutSnapshot
  <2> QED
    BY <1>3, <2>1, <2>2 DEF Deliver, ServeCreate, ServeUpload, IngressStep
<1> QED
  BY <1>1, <1>2, <1>3 DEF Serves

\* A step of the store in which no process dies.
Unbroken ==
  \/ \E p \in Procs : Called(p)
  \/ StoreWrite \/ Release \/ UNCHANGED <<job, guard>>

\* The host enters the guard, writes, or lets a deadline pass; no call of its own
\* is for a new upload.
LEMMA HostSteps ==
  ASSUME IInv, HostStep
  PROVE  /\ UNCHANGED <<ingressVars, queueVars, fileVars, clientVars, told>>
         /\ Stepped /\ Unbroken
         /\ [NoCall]_storeVars \/ \E p \in Procs :
              /\ Called(p)
              /\ guard'.content.manifest # Retention =>
                   /\ guard'.save \in Jobs
                   /\ guard'.content.manifest = job[guard'.save].manifest
                   /\ job[guard'.save].phase \notin Uploading \cup {"absent", "failed"}
<1> USE OutboxConstants DEF Stepped, Unbroken
<1>1. UNCHANGED <<ingressVars, queueVars, fileVars, clientVars, told>>
  BY DEF HostStep, WorkerMoves, WorkerTick, TimerJob, TimerPolicy, StoreOnly, outboxVars
<1>2. ASSUME NEW j \in Jobs, WorkerMoves(j)
      PROVE  /\ \E p \in Procs : Call(p)
             /\ Called(Worker) /\ guard'.save = j /\ guard'.content.manifest = job[j].manifest
             /\ job[j].phase \notin Uploading \cup {"absent", "failed"}
  <2> PICK to \in Phases :
             /\ <<job[j].phase, to>> \in Moves /\ job[j].phase \notin Uploading
             /\ Transition(Worker, j, {job[j].phase}, [job[j] EXCEPT !.phase = to])
    BY <1>2 DEF WorkerMoves
  <2> DEFINE content == [job[j] EXCEPT !.phase = to]
  <2>1. Call(Worker)
    BY PhaseCalls
  <2>2. content.manifest = job[j].manifest
    BY DEF IInv, StoreTypeOK, JobRecord
  <2>3. Transition(Worker, j, {job[j].phase}, content)
    OBVIOUS
  <2> HIDE DEF content
  <2>4. Called(Worker) /\ guard'.save = j /\ guard'.content = content
    BY <2>3, MoveCall
  <2>5. job[j].phase \notin Uploading \cup {"absent", "failed"}
    BY DEF Moves, Publishing
  <2> QED
    BY <2>1, <2>2, <2>4, <2>5
<1>3. CASE TimerJob
  <2> PICK j \in Jobs : ScheduleRetention(Timer, j)
    BY <1>3 DEF TimerJob
  <2>1. Called(Timer)
    BY NewCall
  <2>2. guard'.content = [Blank EXCEPT !.phase = "queued"]
    BY DEF ScheduleRetention, Enter, ActiveWrites, Free
  <2>3. guard'.content.manifest = Retention
    BY <2>2 DEF Blank
  <2>4. Call(Timer)
    BY DEF Call
  <2> QED
    BY <1>1, <2>1, <2>3, <2>4
<1>4. ASSUME NEW p \in Procs, TakeGuard(p) \/ ReadActive(p)
      PROVE  Called(p) /\ guard'.content.manifest = Retention /\ Call(p)
  <2>1. Called(p) /\ guard'.content = Blank
    BY <1>4, QuietCall
  <2>2. Blank.manifest = Retention
    BY DEF Blank
  <2> QED
    BY <1>4, <2>1, <2>2 DEF Call
<1>5. CASE WorkerTick \/ TimerPolicy
  BY <1>1, <1>4, <1>5 DEF WorkerTick, TimerPolicy, WritePolicy, NoCall
<1>6. CASE (\E j \in Jobs : StoreOnly(PassDeadline(j))) \/ StoreOnly(StoreWrite)
           \/ StoreOnly(LeaveGuard)
  BY <1>1, <1>6 DEF StoreOnly, LeaveGuard, NoCall, PassDeadline
<1> QED
  BY <1>1, <1>2, <1>3, <1>5, <1>6 DEF HostStep

\* A crash of the ingress is the death of a guard holder, or nothing to the store.
LEMMA CrashSteps ==
  ASSUME IInv, ServerCrash
  PROVE  Stepped
<1>1. IngressCrash
  BY DEF ServerCrash
<1>2. CASE guard.owner \in Handlers
  <2>1. Die(guard.owner)
    BY <1>1, <1>2 DEF IngressCrash, Die, DropGuard, IInv, StoreTypeOK
  <2> QED
    BY <1>2, <2>1, IngressConstants DEF Stepped, NoCall
<1>3. CASE guard.owner \notin Handlers
  BY <1>1, <1>3 DEF IngressCrash, Stepped, storeVars
<1> QED
  BY <1>2, <1>3

\* Every step of the whole is a step of the store, or leaves the store alone.
LEMMA OutboxSteps ==
  ASSUME IInv, TypeOK, Uploads, [Next]_vars
  PROVE  Stepped
<1>1. CASE ClientStep
  BY <1>1, ClientLeavesServer DEF ServerUnchanged, Stepped
<1>2. ASSUME NEW h \in Handlers, Serves(h) PROVE Stepped
  BY <1>2, ServingSteps, IngressSteps DEF Stepped
<1>3. CASE UNCHANGED vars
  BY <1>3 DEF vars, Stepped
<1> QED
  BY <1>1, <1>2, <1>3, HostSteps, CrashSteps, KindsOfSteps

--------------------------------------------------------------------------------
\* What stays true of the server when the server moves on.

\* Whatever the guard holder does next, a planned file still is what it was.
LEMMA PlansKept ==
  ASSUME IInv, NoCall
  PROVE  guard'.content \in {guard.content, Blank}
<1>1. CASE StoreWrite
  BY <1>1 DEF StoreWrite, WriteExpired, UnlinkStale, WriteJob, WriteReceipt, WriteLease,
              DropLease,
              IInv, StoreTypeOK, GuardRecord
<1>2. CASE ~StoreWrite
  <2>1. guard' \in {guard, Free}
    BY <1>2 DEF NoCall, Release, Die, DropGuard, WritePolicy, PassDeadline, SetLock
  <2> QED
    BY <2>1 DEF Free
<1> QED
  BY <1>1, <1>2

\* A job that a request has, or is about to write, it has for good.
LEMMA HasKept ==
  ASSUME IInv, Present, Stepped, NEW j, NEW m, Has(j, m)
  PROVE  Has(j, m)' /\ (job[j].phase \in Terminal => job'[j] = job[j])
BY JobsKept DEF Has

LEMMA PromisesKept ==
  ASSUME IInv, Present, Stepped, Unbroken, NEW h \in Handlers, NEW j, NEW m, Promised(h, j, m)
  PROVE  Promised(h, j, m)'
<1>1. CASE Has(j, m)
  BY <1>1, HasKept DEF Promised
<1>2. CASE j \in Jobs /\ guard.owner = h /\ guard.save = j /\ guard.content.manifest = m
  <2>1. guard.owner # Nobody /\ guard.save # NoJob
    BY <1>2, StoreConstants, IngressConstants
  <2>2. CASE WriteJob
    <3>1. guard.content.phase # "absent"
      BY <2>1 DEF IInv, GuardInv, Saving, WritingNew, WritingMove, Moves, Publishing
    <3>2. job'[j] = guard.content
      BY <1>2, <2>2 DEF WriteJob, IInv, StoreTypeOK
    <3> QED
      BY <1>2, <3>1, <3>2 DEF Promised, Has
  <2>3. CASE StoreWrite /\ ~WriteJob
    <3>1. guard'.owner = guard.owner /\ guard'.save = guard.save /\ guard'.content = guard.content
      BY <2>3 DEF StoreWrite, WriteExpired, UnlinkStale, WriteReceipt, WriteLease, DropLease,
                  IInv, StoreTypeOK, GuardRecord
    <3> QED
      BY <1>2, <3>1 DEF Promised
  <2>4. ~Release /\ \A p : ~Called(p)
    BY <1>2, <2>1 DEF Release, Written, Called, Free
  <2>5. CASE UNCHANGED guard
    BY <1>2, <2>5 DEF Promised
  <2> QED
    BY <2>2, <2>3, <2>4, <2>5 DEF Unbroken
<1> QED
  BY <1>1, <1>2 DEF Promised

\* A request that is not in the guard has what it was promised.
LEMMA PromiseHeld ==
  ASSUME NEW h, NEW j, NEW m, Promised(h, j, m), guard.owner # h
  PROVE  Has(j, m)
BY DEF Promised

--------------------------------------------------------------------------------
\* What the queue remembers.

\* What Step may count on wherever it has a snapshot in hand.
LEMMA InHand ==
  ASSUME TypeOK, Entries, Working, outbox.at \in {"save", "decide", "uploaded"} \cup Waiting
  PROVE  /\ outbox.snapshot \in Manifests /\ outbox.answer \in Answer
         /\ entry[outbox.snapshot].phase \notin {"none", "attention"}
         /\ entry[outbox.snapshot].failures \in 0..2
         /\ outbox.snapshot \in archived
<1>1. outbox.snapshot \in Manifests /\ outbox.answer \in Answer /\ outbox.answer.phase \in Phases
  BY DEF Working, TypeOK, Outbox, Answer
<1>2. entry[outbox.snapshot].phase \notin {"none", "attention"}
  BY <1>1 DEF Working, Phases, Uploading, Publishing, Terminal
<1> QED
  BY <1>1, <1>2 DEF Entries, TypeOK, Entry

\* The ways in which the collector's own step may change the entry of snapshot n.
EntryNew(n) ==
  /\ entry[n].phase = "none" /\ n \in archived
  /\ entry'[n] = [NoEntry EXCEPT !.phase = "pending"]

EntryPrepared(n) ==
  /\ outbox.at = "idle" /\ NextUp(n)
  /\ entry'[n].phase \in {"prepared", "attention"}
  /\ entry'[n].remote = entry[n].remote /\ entry'[n].failures = entry[n].failures

EntrySaved(n) ==
  /\ outbox.at = "save" /\ n = outbox.snapshot
  /\ entry'[n].remote = outbox.answer.job /\ entry'[n].phase = outbox.answer.phase
  /\ entry'[n].failures = entry[n].failures

EntryFailed(n) ==
  /\ outbox.at = "decide" /\ n = outbox.snapshot /\ outbox.answer.phase = "failed"
  /\ \/ entry'[n].phase = "attention" /\ entry'[n].remote = entry[n].remote
     \/ /\ entry'[n].phase = entry[n].phase /\ entry'[n].remote = NoJob
        /\ entry'[n].failures \in 0..2

EntryUploaded(n) ==
  /\ outbox.at = "uploaded" /\ n = outbox.snapshot
  /\ entry'[n].phase = outbox.answer.phase
  /\ entry'[n].remote = entry[n].remote /\ entry'[n].failures = entry[n].failures

EntryChange(n) ==
  \/ entry'[n] = entry[n]
  \/ EntryNew(n) \/ EntryPrepared(n) \/ EntrySaved(n) \/ EntryFailed(n) \/ EntryUploaded(n)

\* There are no others (queue.go:233-262, 324-343).
LEMMA EntryChanges ==
  ASSUME TypeOK, Entries, Working, ClientStep
  PROVE  entry' \in [Manifests -> Entry] /\ \A n \in Manifests : EntryChange(n)
<1>1. entry \in [Manifests -> Entry] /\ archived \subseteq Manifests
      /\ collector \in archived \cup {NoManifest} /\ todo \subseteq archived
  BY DEF TypeOK
<1>2. ASSUME NEW m \in archived, entry' = Enqueued(m)
      PROVE  entry' \in [Manifests -> Entry] /\ \A n \in Manifests : EntryChange(n)
  <2>0. NoEntry \in Entry
    BY DEF NoEntry, Entry
  <2>1. [NoEntry EXCEPT !.phase = "pending"] \in Entry
    BY <2>0 DEF Entry
  <2>2. m \in Manifests
    BY <1>1
  <2>3. CASE entry[m].phase = "none"
    <3>1. /\ entry' \in [Manifests -> Entry] /\ entry'[m] = [NoEntry EXCEPT !.phase = "pending"]
          /\ \A n \in Manifests : n # m => entry'[n] = entry[n]
      BY <1>1, <1>2, <2>1, <2>2, <2>3 DEF Enqueued
    <3>2. EntryNew(m)
      BY <2>3, <3>1 DEF EntryNew
    <3> QED
      BY <3>1, <3>2 DEF EntryChange
  <2> QED
    BY <1>1, <1>2, <2>3 DEF Enqueued, EntryChange
<1>3. CASE EnqueueNew \/ \E m \in Manifests : Discover(m)
  BY <1>1, <1>2, <1>3 DEF EnqueueNew, Discover, EntryChange
<1>4. ASSUME NEW m \in Manifests, Prepare(m) \/ PayloadDamaged(m)
      PROVE  entry' \in [Manifests -> Entry] /\ \A n \in Manifests : EntryChange(n)
  <2>1. entry[m] \in Entry /\ outbox.at = "idle" /\ NextUp(m)
    BY <1>1, <1>4 DEF Prepare, PayloadDamaged, StepOn
  <2>2. /\ entry' \in [Manifests -> Entry]
        /\ \A n \in Manifests \ {m} : entry'[n] = entry[n]
        /\ entry'[m].phase \in {"prepared", "attention"}
        /\ entry'[m].remote = entry[m].remote /\ entry'[m].failures = entry[m].failures
    <3>1. CASE entry' = [entry EXCEPT ![m].prepared = TRUE, ![m].phase = "prepared"]
      <4>1. [entry[m] EXCEPT !.prepared = TRUE, !.phase = "prepared"] \in Entry
        BY <2>1 DEF Entry
      <4>2. entry'[m] = [entry[m] EXCEPT !.prepared = TRUE, !.phase = "prepared"]
        BY <1>1, <3>1
      <4>3. entry'[m].phase = "prepared" /\ entry'[m].remote = entry[m].remote
            /\ entry'[m].failures = entry[m].failures
        BY <2>1, <4>2 DEF Entry
      <4> QED
        BY <1>1, <3>1, <4>1, <4>3
    <3>2. CASE entry' = [entry EXCEPT ![m].phase = "attention"]
      BY <1>1, <2>1, <3>2 DEF Entry
    <3> QED
      BY <1>4, <3>1, <3>2 DEF Prepare, PayloadDamaged
  <2>3. EntryPrepared(m)
    BY <2>1, <2>2 DEF EntryPrepared
  <2> QED
    BY <2>2, <2>3 DEF EntryChange
<1> DEFINE m == outbox.snapshot
           a == outbox.answer
<1>5. CASE SaveRemote
  <2>1. m \in Manifests /\ a \in Answer /\ entry[m] \in Entry /\ outbox.at = "save"
    BY <1>1, <1>5, InHand DEF SaveRemote
  <2>2. entry' = [entry EXCEPT ![m].remote = a.job, ![m].phase = a.phase]
    BY <1>5 DEF SaveRemote
  <2> HIDE DEF m, a
  <2>3. /\ entry' \in [Manifests -> Entry]
        /\ \A n \in Manifests \ {m} : entry'[n] = entry[n]
        /\ entry'[m].remote = a.job /\ entry'[m].phase = a.phase
        /\ entry'[m].failures = entry[m].failures
    BY <1>1, <2>1, <2>2 DEF Entry, Answer
  <2> QED
    BY <2>1, <2>3 DEF EntryChange, EntrySaved, m, a
<1>6. CASE DecideFailed
  <2>1. m \in Manifests /\ entry[m] \in Entry /\ outbox.at = "decide" /\ a.phase = "failed"
        /\ entry[m].failures \in 0..2
    BY <1>1, <1>6, InHand DEF DecideFailed
  <2> HIDE DEF m, a
  <2>2. ASSUME NEW k \in 0..3, entry' = [entry EXCEPT ![m].failures = k, ![m].phase = "attention"]
        PROVE  /\ entry' \in [Manifests -> Entry]
               /\ \A n \in Manifests \ {m} : entry'[n] = entry[n]
               /\ entry'[m].phase = "attention" /\ entry'[m].remote = entry[m].remote
    BY <1>1, <2>1, <2>2 DEF Entry
  <2>3. ASSUME NEW k \in 0..3, entry' = [entry EXCEPT ![m].failures = k, ![m].remote = NoJob]
        PROVE  /\ entry' \in [Manifests -> Entry]
               /\ \A n \in Manifests \ {m} : entry'[n] = entry[n]
               /\ entry'[m].phase = entry[m].phase /\ entry'[m].remote = NoJob
               /\ entry'[m].failures = k
    BY <1>1, <2>1, <2>3 DEF Entry
  <2>4. CASE entry[m].failures = 2
    <3>1. entry' = [entry EXCEPT ![m].failures = 3, ![m].phase = "attention"]
      BY <1>6, <2>4 DEF DecideFailed, CountFailure, m
    <3>2. /\ entry' \in [Manifests -> Entry]
          /\ \A n \in Manifests \ {m} : entry'[n] = entry[n]
          /\ entry'[m].phase = "attention" /\ entry'[m].remote = entry[m].remote
      BY <2>2, <3>1
    <3>3. EntryFailed(m)
      BY <2>1, <3>2 DEF EntryFailed, m, a
    <3> QED
      BY <3>2, <3>3 DEF EntryChange
  <2>5. CASE entry[m].failures # 2
    <3> DEFINE k == entry[m].failures + 1
    <3>1. entry' = [entry EXCEPT ![m].failures = k, ![m].remote = NoJob]
      BY <1>6, <2>5 DEF DecideFailed, CountFailure, m
    <3>2. k \in 0..2 /\ k \in 0..3
      BY <2>1, <2>5
    <3> HIDE DEF k
    <3>3. EntryFailed(m) /\ entry' \in [Manifests -> Entry]
          /\ \A n \in Manifests \ {m} : entry'[n] = entry[n]
      BY <2>1, <2>3, <3>1, <3>2 DEF EntryFailed, m, a
    <3> QED
      BY <3>3 DEF EntryChange
  <2> QED
    BY <2>4, <2>5
<1>7. CASE SaveUploaded
  <2>1. m \in Manifests /\ a \in Answer /\ entry[m] \in Entry /\ outbox.at = "uploaded"
    BY <1>1, <1>7, InHand DEF SaveUploaded
  <2>2. entry' = [entry EXCEPT ![m].phase = a.phase]
    BY <1>7 DEF SaveUploaded
  <2> HIDE DEF m, a
  <2>3. /\ entry' \in [Manifests -> Entry]
        /\ \A n \in Manifests \ {m} : entry'[n] = entry[n]
        /\ entry'[m].phase = a.phase
        /\ entry'[m].remote = entry[m].remote /\ entry'[m].failures = entry[m].failures
    BY <1>1, <2>1, <2>2 DEF Entry, Answer
  <2> QED
    BY <2>1, <2>3 DEF EntryChange, EntryUploaded, m, a
<1>8. CASE UNCHANGED entry
  BY <1>1, <1>8 DEF EntryChange
<1> QED
  BY <1>3, <1>4, <1>5, <1>6, <1>7, <1>8
     DEF ClientStep, OutboxStep, Archive, Damage, Restore, StartDiscovery, EndDiscovery,
         AskCreate, AskStatus,
         DecideUpload, DecideWait, GiveUp, CollectorCrash, queueVars

--------------------------------------------------------------------------------
\* The collector's own steps.

\* Archives are kept and made in order; what is published or logged stays so, and no
\* entry disappears.
LEMMA Succession ==
  ASSUME TypeOK, Entries, Working, ClientStep
  PROVE  /\ archived \subseteq archived' /\ logged \subseteq logged'
         /\ \A n \in archived' \ archived : n \in Manifests /\ Older(n) \subseteq archived
         /\ \A n \in Manifests :
              /\ entry[n].phase = "succeeded" => entry'[n].phase = "succeeded"
              /\ entry'[n].phase = "none" => entry[n].phase = "none"
<1>1. /\ archived \subseteq archived' /\ logged \subseteq logged'
      /\ \A n \in archived' \ archived : n \in Manifests /\ Older(n) \subseteq archived
  BY DEF ClientStep, Archive, Damage, Restore, EnqueueNew, OutboxStep, StartDiscovery, Discover,
         EndDiscovery,
         Prepare, PayloadDamaged, AskCreate, AskStatus, SaveRemote, DecideFailed, DecideUpload,
         DecideWait, SaveUploaded, GiveUp, CollectorCrash, StepOn, queueVars, fileVars
<1>2. ASSUME NEW n \in Manifests
      PROVE  /\ entry[n].phase = "succeeded" => entry'[n].phase = "succeeded"
             /\ entry'[n].phase = "none" => entry[n].phase = "none"
  <2>1. EntryChange(n)
    BY <1>2, EntryChanges
  <2>2. CASE EntryNew(n) \/ EntryPrepared(n)
    BY <2>2 DEF EntryNew, EntryPrepared, NextUp, Candidates
  <2>3. CASE EntrySaved(n) \/ EntryFailed(n) \/ EntryUploaded(n)
    <3>1. /\ n = outbox.snapshot /\ outbox.answer.phase \in Phases
          /\ entry[n].phase \notin {"none", "succeeded"}
      BY <2>3, InHand DEF EntrySaved, EntryFailed, EntryUploaded, Working, Answer
    <3> QED
      BY <2>3, <3>1 DEF EntrySaved, EntryFailed, EntryUploaded, Phases, Uploading, Publishing,
                        Terminal
  <2> QED
    BY <2>1, <2>2, <2>3 DEF EntryChange
<1> QED
  BY <1>1, <1>2

\* The collector keeps the types.
LEMMA ClientTyped ==
  ASSUME IInv, TypeOK, Entries, Working, ClientStep
  PROVE  TypeOK'
<1> USE OutboxConstants
<1>1. (StoreTypeOK /\ IngressTypeOK)' /\ UNCHANGED <<job, told>> /\ told' \in [Handlers -> Answer]
  BY ClientLeavesServer
     DEF ServerUnchanged, storeVars, ingressVars, TypeOK, StoreTypeOK, IngressTypeOK
<1>2. entry' \in [Manifests -> Entry]
  BY EntryChanges
<1>3. /\ archived' \subseteq Manifests /\ unseen' \subseteq archived' /\ todo' \subseteq archived'
      /\ collector' \in archived' \cup {NoManifest}
      /\ asked' \in Handlers \cup {Nobody}
  BY DEF TypeOK, ClientStep, Archive, Damage, Restore, EnqueueNew, OutboxStep, StartDiscovery,
         Discover,
         EndDiscovery,
         Prepare, PayloadDamaged, AskCreate, AskStatus, SaveRemote, DecideFailed, DecideUpload,
         DecideWait, SaveUploaded, GiveUp, CollectorCrash, queueVars, clientVars
<1>4. faults' \in 0..MaxFaults /\ misreads' \in 0..MaxMisreads /\ timers' \in 0..MaxTimers
  <2>1. NoFault \/ Fault \/ Misread
    BY DEF ClientStep, Archive, Damage, Restore, EnqueueNew, OutboxStep, StartDiscovery,
           Discover, EndDiscovery,
           Prepare, PayloadDamaged, AskCreate, AskStatus, SaveRemote, DecideFailed, DecideUpload,
           DecideWait, SaveUploaded, GiveUp, CollectorCrash
  <2> QED
    BY <2>1 DEF TypeOK, NoFault, Fault, Misread, bounds
<1>5. outbox \in Outbox /\ wire \subseteq Requests
  BY DEF TypeOK
<1>6. Silent \in Answer
  BY DEF Silent, Answer, Phases
<1>7. Rest \in Outbox /\ [Rest EXCEPT !.at = "start"] \in Outbox
  BY <1>6 DEF Rest, Outbox
<1>8. Disregarded \subseteq Requests
  <2>1. ASSUME NEW r \in Requests PROVE [r EXCEPT !.awaited = FALSE] \in Requests
    BY <2>1 DEF Requests
  <2> QED
    BY <1>5, <2>1 DEF Disregarded
<1>9. ASSUME NEW place \in {"discover", "decide"}, Go(place) PROVE outbox' \in Outbox
  BY <1>5, <1>9 DEF Go, Outbox
<1>10. ASSUME NEW op \in Waiting, NEW m \in Manifests, NEW j \in Jobs \cup {NoJob}, Send(op, m, j)
      PROVE  outbox' \in Outbox /\ wire' \subseteq Requests
  <2>1. [op |-> op, snapshot |-> m, job |-> j, awaited |-> TRUE] \in Requests
    BY <1>10 DEF Requests, Waiting
  <2>2. [Rest EXCEPT !.at = op, !.snapshot = m] \in Outbox
    BY <1>7 DEF Outbox
  <2> QED
    BY <1>5, <1>10, <2>1, <2>2 DEF Send
<1>11. outbox' \in Outbox /\ wire' \subseteq Requests
  <2>1. CASE \E m \in Manifests : AskCreate(m)
    BY <1>10, <2>1 DEF AskCreate, Waiting
  <2>2. CASE DecideUpload
    <3>1. outbox.snapshot \in Manifests /\ outbox.answer.job \in Jobs \cup {NoJob}
      BY <2>2, InHand DEF DecideUpload, Answer
    <3> QED
      BY <1>10, <2>2, <3>1 DEF DecideUpload, Waiting
  <2>3. ASSUME NEW m \in Manifests, AskStatus(m) PROVE outbox' \in Outbox
    <3>1. entry[m].remote \in Jobs
      BY <2>3 DEF AskStatus, TypeOK, Entry
    <3>2. job[entry[m].remote].phase \in Phases
      BY <3>1 DEF IInv, StoreTypeOK, JobRecord
    <3>3. [job |-> entry[m].remote, phase |-> job[entry[m].remote].phase] \in Answer
      BY <3>1, <3>2 DEF Answer
    <3> QED
      BY <2>3, <3>3 DEF AskStatus, Outbox
  <2>4. CASE StartDiscovery \/ SaveRemote
    BY <1>5, <1>9, <2>4 DEF StartDiscovery, SaveRemote
  <2>5. CASE EndDiscovery \/ DecideFailed \/ DecideWait \/ SaveUploaded
    BY <1>5, <1>7, <2>5 DEF EndDiscovery, DecideFailed, DecideWait, SaveUploaded, Relax
  <2>6. CASE GiveUp \/ CollectorCrash
    BY <1>7, <1>8, <2>6 DEF GiveUp, CollectorCrash, Relax
  <2> QED
    BY <1>5, <2>1, <2>2, <2>3, <2>4, <2>5, <2>6
       DEF ClientStep, OutboxStep, Archive, Damage, Restore, EnqueueNew, Discover, Prepare,
           PayloadDamaged,
           AskStatus,
           clientVars
<1>12. unreadable' \subseteq {m \in Manifests : entry'[m].phase # "none"}
  <2>1. unreadable' \subseteq unreadable \/ \E m \in Manifests : Damage(m)
    BY DEF ClientStep, Archive, Restore, EnqueueNew, OutboxStep, StartDiscovery, Discover,
           EndDiscovery, Prepare, PayloadDamaged, AskCreate, AskStatus, SaveRemote, DecideFailed,
           DecideUpload, DecideWait, SaveUploaded, GiveUp, CollectorCrash, Relax, Rewrite, StepOn,
           fileVars
  <2>2. \A m \in unreadable' : m \in Manifests /\ entry[m].phase # "none"
    BY <2>1 DEF Damage, TypeOK
  <2> QED
    BY <2>2, Succession
<1>13. logged' \subseteq archived'
  <2>1. unreadable \subseteq archived /\ logged \subseteq archived /\ todo \subseteq archived
    BY DEF TypeOK, Entries
  <2>2. logged' \subseteq logged \cup unreadable \cup todo
    BY DEF ClientStep, Archive, Damage, Restore, EnqueueNew, OutboxStep, StartDiscovery, Discover,
           EndDiscovery, Prepare, PayloadDamaged, AskCreate, AskStatus, SaveRemote, DecideFailed,
           DecideUpload, DecideWait, SaveUploaded, GiveUp, CollectorCrash, StepOn, fileVars
  <2> QED
    BY <2>1, <2>2, Succession
<1> QED
  BY <1>1, <1>2, <1>3, <1>11, <1>12, <1>13, <1>4 DEF TypeOK

\* What is entered is what the answers said, and that was true (queue.go:233-262).
LEMMA ClientEntries ==
  ASSUME TypeOK, Entries, Working, ClientStep
  PROVE  Entries'
<1>1. UNCHANGED job
  BY ClientLeavesServer DEF ServerUnchanged, storeVars
<1>2. archived \subseteq archived'
  BY Succession
<1>3. ASSUME NEW m \in Manifests
      PROVE  /\ entry'[m].remote # NoJob => Has(entry'[m].remote, m)
             /\ entry'[m].failures = 3 => entry'[m].phase = "attention"
             /\ entry'[m].phase # "none" => m \in archived
             /\ entry'[m].phase = "none" => entry'[m].remote = NoJob
             /\ entry'[m].phase = "succeeded" =>
                  \E j \in Jobs : job[j].manifest = m /\ job[j].phase = "succeeded"
  <2>1. EntryChange(m)
    BY EntryChanges
  <2>2. CASE entry'[m] = entry[m]
    BY <2>2 DEF Entries, EntriesAreTrue
  <2>3. CASE EntryNew(m)
    <3>1. entry'[m].remote = NoJob /\ entry'[m].failures = 0 /\ entry'[m].phase = "pending"
      BY <2>3 DEF EntryNew, NoEntry
    <3> QED
      BY <2>3, <3>1 DEF EntryNew
  <2>4. CASE EntryPrepared(m)
    BY <2>4 DEF EntryPrepared, NextUp, Candidates, Entries
  <2>5. CASE EntrySaved(m) \/ EntryFailed(m) \/ EntryUploaded(m)
    <3>1. /\ m = outbox.snapshot /\ outbox.answer.phase \in Phases
          /\ entry[m].phase \notin {"none", "attention"} /\ entry[m].failures # 3
          /\ m \in archived
          /\ Has(outbox.answer.job, m)
          /\ outbox.answer.phase = "succeeded" => job[outbox.answer.job].phase = "succeeded"
      BY <2>5, InHand DEF EntrySaved, EntryFailed, EntryUploaded, Working, Answer, TrueOf
    <3>2. outbox.answer.phase \notin {"none", "attention"}
      BY <3>1 DEF Phases, Uploading, Publishing, Terminal
    <3>3. CASE EntrySaved(m)
      BY <3>1, <3>2, <3>3 DEF EntrySaved, Has
    <3>4. CASE EntryFailed(m)
      <4>1. entry[m].phase = "failed"
        BY <3>1, <3>4 DEF EntryFailed, Working
      <4> QED
        BY <3>1, <3>4, <4>1 DEF EntryFailed, Entries
    <3>5. CASE EntryUploaded(m)
      BY <3>1, <3>2, <3>5 DEF EntryUploaded, Entries, Has
    <3> QED
      BY <2>5, <3>3, <3>4, <3>5
  <2> QED
    BY <2>1, <2>2, <2>3, <2>4, <2>5 DEF EntryChange
<1> QED
  BY <1>1, <1>2, <1>3 DEF Entries, EntriesAreTrue, Has

\* While a snapshot is in hand, only the answers to it change its entry.
LEMMA InHandStays ==
  ASSUME TypeOK, Entries, Working, ClientStep, UNCHANGED outbox,
         outbox.at \in {"save", "decide", "uploaded"} \cup Waiting
  PROVE  entry'[outbox.snapshot] = entry[outbox.snapshot]
<1> DEFINE m == outbox.snapshot
<1>1. m \in Manifests /\ entry[m].phase # "none" /\ outbox \in Outbox
  BY InHand DEF TypeOK
<1>2. CASE EnqueueNew
  BY <1>1, <1>2 DEF EnqueueNew, Enqueued, TypeOK
<1>3. ASSUME NEW n \in Manifests
      PROVE  ~Discover(n) /\ ~Prepare(n) /\ ~PayloadDamaged(n)
  BY <1>3 DEF Discover, Prepare, PayloadDamaged, StepOn, Waiting
<1>4. ~SaveRemote /\ ~DecideFailed /\ ~SaveUploaded
  BY <1>1 DEF SaveRemote, DecideFailed, SaveUploaded, Go, Relax, Rest, Outbox, Waiting
<1> QED
  BY <1>2, <1>3, <1>4
     DEF ClientStep, OutboxStep, Archive, Damage, Restore, StartDiscovery, EndDiscovery,
         AskCreate, AskStatus,
         DecideUpload, DecideWait, GiveUp, CollectorCrash, queueVars

\* The place where the collector's step takes the outbox.
LEMMA ClientPlaces ==
  ASSUME TypeOK, ClientStep
  PROVE  \/ UNCHANGED outbox
         \/ outbox'.at \in {"start", "discover", "idle"}
         \/ \E m \in Manifests : AskCreate(m) \/ AskStatus(m)
         \/ SaveRemote \/ DecideUpload
<1>1. outbox \in Outbox
  BY DEF TypeOK
<1>2. CASE StartDiscovery
  BY <1>1, <1>2 DEF StartDiscovery, Go, Outbox
<1>3. CASE EndDiscovery \/ DecideFailed \/ DecideWait \/ SaveUploaded \/ GiveUp
  BY <1>3 DEF EndDiscovery, DecideFailed, DecideWait, SaveUploaded, GiveUp, Relax, Rest
<1>4. CASE CollectorCrash
  BY <1>4 DEF CollectorCrash, Rest
<1> QED
  BY <1>2, <1>3, <1>4
     DEF ClientStep, OutboxStep, Archive, Damage, Restore, EnqueueNew, Discover, Prepare,
         PayloadDamaged, clientVars

\* The outbox's next place finds what it counts on.
LEMMA ClientWorking ==
  ASSUME IInv, TypeOK, Entries, Working, ClientStep
  PROVE  Working'
<1>1. UNCHANGED job /\ outbox \in Outbox /\ entry \in [Manifests -> Entry]
  BY ClientLeavesServer DEF ServerUnchanged, storeVars, TypeOK
<1>2. CASE UNCHANGED outbox
  BY <1>1, <1>2, InHandStays DEF Working, TrueOf, Has
<1>3. CASE outbox'.at \in {"start", "discover", "idle"}
  BY <1>3 DEF Working, Waiting
<1>4. ASSUME NEW m \in Manifests, AskCreate(m) PROVE Working'
  <2>1. outbox'.at = "create" /\ outbox'.snapshot = m
    BY <1>4 DEF AskCreate, Send, Rest
  <2>2. UNCHANGED entry /\ entry[m].remote = NoJob
    BY <1>4 DEF AskCreate, queueVars
  <2>3. entry[m].phase \notin {"none", "succeeded", "attention"}
    BY <1>4 DEF AskCreate, StepOn, NextUp, Candidates
  <2> QED
    BY <2>1, <2>2, <2>3 DEF Working
<1>5. ASSUME NEW m \in Manifests, AskStatus(m) PROVE Working'
  <2> DEFINE a == [job |-> entry[m].remote, phase |-> job[entry[m].remote].phase]
  <2>1. outbox'.at = "save" /\ outbox'.snapshot = m /\ outbox'.answer = a
    BY <1>5 DEF AskStatus
  <2>2. UNCHANGED entry /\ entry[m].remote # NoJob
    BY <1>5 DEF AskStatus, queueVars
  <2>3. entry[m].phase \notin {"none", "succeeded", "attention"}
    BY <1>5 DEF AskStatus, StepOn, NextUp, Candidates
  <2>4. Has(entry[m].remote, m)
    BY <2>2 DEF Entries
  <2>5. a.job = entry[m].remote /\ a.phase = job[a.job].phase
    OBVIOUS
  <2> HIDE DEF a
  <2> QED
    BY <1>1, <2>1, <2>2, <2>3, <2>4, <2>5 DEF Working, TrueOf, Has, Waiting
<1>6. CASE SaveRemote
  <2> DEFINE m == outbox.snapshot
             a == outbox.answer
  <2>1. outbox.at = "save" /\ outbox' = [outbox EXCEPT !.at = "decide"]
    BY <1>6 DEF SaveRemote, Go
  <2>2. outbox'.at = "decide" /\ outbox'.snapshot = m /\ outbox'.answer = a
    BY <1>1, <2>1 DEF Outbox
  <2>3. m \in Manifests /\ TrueOf(a, m) /\ (a.phase = "failed" => job[a.job].phase = "failed")
    BY <2>1 DEF Working
  <2>4. EntryChange(m)
    BY <2>3, EntryChanges
  <2>5. entry' = [entry EXCEPT ![m].remote = a.job, ![m].phase = a.phase]
    BY <1>6 DEF SaveRemote
  <2> HIDE DEF m, a
  <2>6. entry'[m].remote = a.job /\ entry'[m].phase = a.phase
    BY <1>1, <2>3, <2>5 DEF Entry
  <2> QED
    BY <1>1, <2>2, <2>3, <2>6 DEF Working, TrueOf, Has, Waiting
<1>7. CASE DecideUpload
  <2>1. /\ outbox.at = "decide" /\ outbox.answer.phase = "awaiting_upload"
        /\ outbox'.at = "upload" /\ outbox'.snapshot = outbox.snapshot
    BY <1>7 DEF DecideUpload, Send, Rest
  <2>2. UNCHANGED entry
    BY <1>7 DEF DecideUpload, queueVars
  <2>3. outbox.snapshot \in Manifests /\ entry[outbox.snapshot].phase = "awaiting_upload"
    BY <2>1 DEF Working
  <2> QED
    BY <2>1, <2>2, <2>3 DEF Working
<1> QED
  BY <1>2, <1>3, <1>4, <1>5, <1>6, <1>7, ClientPlaces

\* One awaited request at most, and nothing awaited where the outbox does not wait.
LEMMA ClientWired ==
  ASSUME TypeOK, Entries, Working, Wired, Asked, ClientStep
  PROVE  Wired' /\ Asked'
<1>1. UNCHANGED <<job, guard, request, told>> /\ outbox \in Outbox /\ wire \subseteq Requests
  BY ClientLeavesServer DEF ServerUnchanged, storeVars, ingressVars, TypeOK
<1>2. outbox.at \notin Waiting => asked = Nobody /\ \A r \in wire : ~r.awaited
  BY <1>1 DEF Asked, Wired, Requests, Waiting
<1>3. CASE UNCHANGED <<outbox, wire, asked>>
  <2>1. ASSUME NEW r \in wire, r.awaited PROVE entry'[r.snapshot] = entry[r.snapshot]
    <3>1. outbox.at \in Waiting /\ outbox.snapshot = r.snapshot
      BY <1>2, <2>1 DEF Wired
    <3> QED
      BY <1>3, <3>1, InHandStays
  <2>2. Wired'
    BY <1>1, <1>3, <2>1 DEF Wired, Has
  <2>3. Asked'
    BY <1>1, <1>3 DEF Asked, About, Promised, Has
  <2> QED
    BY <2>2, <2>3
<1>4. CASE asked' = Nobody /\ wire' = Disregarded
  <2>1. ASSUME NEW r \in wire'
        PROVE  ~r.awaited /\ \E s \in wire : r.op = s.op /\ r.job = s.job /\ r.snapshot = s.snapshot
    BY <1>1, <1>4, <2>1 DEF Disregarded, Requests
  <2>2. Wired'
    BY <1>1, <2>1 DEF Wired, Has
  <2> QED
    BY <1>4, <2>2 DEF Asked
<1>5. CASE UNCHANGED <<wire, asked>> /\ outbox.at \notin Waiting
  <2>1. Wired'
    BY <1>1, <1>2, <1>5 DEF Wired, Has
  <2> QED
    BY <1>2, <1>5, <2>1 DEF Asked
<1>6. ASSUME NEW op \in Waiting, NEW m \in Manifests, NEW j, Send(op, m, j),
             outbox.at \notin Waiting, UNCHANGED <<asked, entry>>, j = entry[m].remote,
             IF op = "create" THEN j = NoJob ELSE Has(j, m)
      PROVE  Wired' /\ Asked'
  <2> DEFINE s == [op |-> op, snapshot |-> m, job |-> j, awaited |-> TRUE]
  <2>1. /\ wire' = wire \cup {s} /\ outbox'.at = op /\ outbox'.snapshot = m
        /\ asked' = Nobody
    BY <1>2, <1>6 DEF Send, Rest
  <2>2. s.op = op /\ s.snapshot = m /\ s.job = j
    OBVIOUS
  <2> HIDE DEF s
  <2>3. Wired'
    BY <1>1, <1>2, <1>6, <2>1, <2>2 DEF Wired, Has, Waiting
  <2> QED
    BY <2>1, <2>3 DEF Asked
<1>7. ASSUME NEW m \in Manifests, AskCreate(m) PROVE Wired' /\ Asked'
  BY <1>6, <1>7 DEF AskCreate, StepOn, Waiting, queueVars
<1>8. CASE DecideUpload
  <2>1. outbox.at = "decide"
    BY <1>8 DEF DecideUpload
  <2>2. /\ outbox.snapshot \in Manifests /\ entry[outbox.snapshot].remote = outbox.answer.job
        /\ Has(outbox.answer.job, outbox.snapshot)
    BY <2>1 DEF Working, TrueOf
  <2> QED
    BY <1>6, <1>8, <2>1, <2>2 DEF DecideUpload, Waiting, queueVars
<1>9. CASE GiveUp \/ CollectorCrash
  BY <1>4, <1>9 DEF GiveUp, CollectorCrash
<1>10. CASE \/ StartDiscovery \/ EndDiscovery \/ SaveRemote \/ DecideFailed \/ DecideWait
            \/ SaveUploaded \/ \E m \in Manifests : AskStatus(m)
  BY <1>5, <1>10
     DEF StartDiscovery, EndDiscovery, SaveRemote, DecideFailed, DecideWait, SaveUploaded,
         AskStatus,
         StepOn, Waiting
<1>11. CASE EnqueueNew
            \/ \E m \in Manifests : \/ Archive(m) \/ Damage(m) \/ Restore(m)
                                     \/ Discover(m) \/ Prepare(m) \/ PayloadDamaged(m)
  BY <1>3, <1>11 DEF Archive, Damage, Restore, EnqueueNew, Discover, Prepare, PayloadDamaged,
                     clientVars
<1> QED
  BY <1>7, <1>8, <1>9, <1>10, <1>11 DEF ClientStep, OutboxStep

\* Archives are made in order; a walk takes them all.
LEMMA ClientWalks ==
  ASSUME TypeOK, Walks, ClientStep
  PROVE  Walks'
<1> USE OutboxConstants
<1>1. archived \subseteq Manifests /\ unseen \subseteq archived /\ outbox \in Outbox
  BY DEF TypeOK
<1>2. ASSUME NEW m \in Manifests, Archive(m) PROVE Walks'
  <2>1. /\ m \notin archived /\ Older(m) \subseteq archived
        /\ archived' = archived \cup {m} /\ unseen' = unseen \cup {m}
        /\ UNCHANGED <<todo, outbox>>
    BY <1>2 DEF Archive, clientVars
  <2>2. IsFiniteSet(archived')
    BY <2>1, FS_AddElement DEF Walks
  <2>3. \A n \in archived' : Older(n) \subseteq archived'
    BY <2>1 DEF Walks
  <2>4. ASSUME NEW u \in unseen', NEW n \in archived', CapturedAt[u] < CapturedAt[n]
        PROVE  n \in unseen'
    <3>1. CASE u = m /\ n # m
      <4>1. m \in Older(n) /\ n \in archived
        BY <1>1, <2>1, <2>4, <3>1 DEF Older
      <4> QED
        BY <2>1, <4>1 DEF Walks
    <3> QED
      BY <2>1, <2>4, <3>1 DEF Walks
  <2> QED
    BY <2>1, <2>2, <2>3, <2>4 DEF Walks
<1>3. CASE StartDiscovery
  BY <1>1, <1>3 DEF StartDiscovery, Go, Walks, Outbox
<1>4. CASE UNCHANGED <<archived, unseen, todo, outbox>>
  BY <1>4 DEF Walks
<1>5. CASE UNCHANGED <<archived, unseen>> /\ todo' = {}
  BY <1>5 DEF Walks
<1>6. CASE UNCHANGED <<archived, unseen, todo>> /\ outbox.at # "discover"
  BY <1>6 DEF Walks
<1>7. ASSUME NEW m \in Manifests, Discover(m) PROVE Walks'
  BY <1>7 DEF Discover, Walks
<1>8. CASE EndDiscovery \/ CollectorCrash
  BY <1>5, <1>8 DEF EndDiscovery, CollectorCrash, queueVars
<1>9. CASE EnqueueNew \/ \E m \in Manifests : \/ Damage(m) \/ Restore(m)
                                             \/ Prepare(m) \/ PayloadDamaged(m)
  BY <1>4, <1>9 DEF EnqueueNew, Damage, Restore, Prepare, PayloadDamaged, clientVars, queueVars
<1>10. CASE \/ SaveRemote \/ DecideFailed \/ DecideUpload \/ DecideWait \/ SaveUploaded \/ GiveUp
            \/ \E m \in Manifests : AskCreate(m) \/ AskStatus(m)
  BY <1>6, <1>10
     DEF SaveRemote, DecideFailed, DecideUpload, DecideWait, SaveUploaded, GiveUp, AskCreate,
         AskStatus, StepOn, Waiting, queueVars
<1> QED
  BY <1>2, <1>3, <1>7, <1>8, <1>9, <1>10 DEF ClientStep, OutboxStep

\* What has nothing before it that is not published or logged never gets anything before it.
LEMMA AheadKept ==
  ASSUME TypeOK, Entries, Working, Walks, ClientStep, NEW m, Ahead(m)
  PROVE  Ahead(m)'
<1>1. m \in archived /\ m \in archived' /\ Older(m) \subseteq archived
  BY Succession DEF Ahead, Walks
<1>2. ASSUME NEW n \in archived' \cap Older(m) PROVE entry'[n].phase = "succeeded" \/ n \in logged'
  <2>1. n \in archived /\ n \in Manifests /\ (entry[n].phase = "succeeded" \/ n \in logged)
    BY <1>1 DEF Ahead, TypeOK
  <2> QED
    BY <2>1, Succession
<1> QED
  BY <1>1, <1>2 DEF Ahead, Older

\* What discovery has seen of the newest archives is enough: the next snapshot to be
\* stepped has nothing older before it that is not logged now (queue.go:233, 310-329).
LEMMA NextIsAhead ==
  ASSUME TypeOK, Entries, Walks, Chronology, NEW m \in Manifests, StepOn(m), UNCHANGED queueVars
  PROVE  Ahead(m)'
<1> USE OutboxConstants
<1>1. /\ outbox.at = "idle" /\ Cardinality(unseen) <= 1 /\ logged' = logged \cup unreadable
      /\ entry[m].phase \notin {"none", "succeeded"} /\ Candidates \cap Older(m) = {}
  BY DEF StepOn, Discovered, NextUp, Candidates
<1>2. m \in archived /\ todo = {} /\ archived \subseteq Manifests /\ unseen \subseteq archived
      /\ UNCHANGED <<archived, entry>>
  BY <1>1 DEF Entries, Walks, TypeOK, queueVars
<1>3. ASSUME NEW n \in archived \cap Older(m), entry[n].phase # "succeeded", n \notin logged'
      PROVE  FALSE
  <2>1. n \in Manifests /\ CapturedAt[n] < CapturedAt[m]
    BY <1>2 DEF Older
  <2>2. entry[n].phase = "none"
    BY <1>1, <1>3, <2>1 DEF Candidates
  <2>3. n \in unseen
    BY <1>1, <1>2, <1>3, <2>2 DEF Chronology
  <2>4. m \in unseen
    BY <1>2, <2>1, <2>3 DEF Walks
  <2>5. m # n
    BY <2>1
  <2>6. IsFiniteSet(unseen)
    BY <1>2, FS_Subset DEF Walks
  <2>7. IsFiniteSet({m}) /\ Cardinality({m}) = 1
    BY FS_Singleton
  <2>8. Cardinality({m} \cup {n}) = 2
    <3>1. Cardinality({m} \cup {n}) = Cardinality({m}) + 1
      BY <2>5, <2>7, FS_AddElement
    <3> QED
      BY <2>7, <3>1
  <2>9. Cardinality({m} \cup {n}) <= Cardinality(unseen)
    BY <2>3, <2>4, <2>6, FS_Subset
  <2>10. Cardinality(unseen) \in Nat
    BY <2>6, FS_CardinalityType
  <2> QED
    BY <1>1, <2>8, <2>9, <2>10
<1> QED
  BY <1>2, <1>3 DEF Ahead, Older

\* The collector takes no snapshot in hand before its time.
LEMMA ClientChronology ==
  ASSUME TypeOK, Entries, Working, Walks, Chronology, ClientStep
  PROVE  Chronology'
<1> USE OutboxConstants
<1>1. UNCHANGED <<job, guard>> /\ outbox \in Outbox /\ wire \subseteq Requests
      /\ archived \subseteq Manifests
  BY ClientLeavesServer DEF ServerUnchanged, storeVars, TypeOK
<1>2. logged \subseteq logged'
  BY Succession
<1>3. \A m : Ahead(m) => Ahead(m)'
  BY AheadKept
<1>4. ASSUME NEW m \in archived', entry'[m].phase = "none"
      PROVE  m \in unseen' \cup todo' \cup logged' \/ outbox'.at = "start"
  <2>1. CASE \E n \in Manifests : Archive(n)
    BY <1>2, <1>4, <2>1 DEF Archive, clientVars, Chronology
  <2>2. CASE StartDiscovery
    BY <1>4, <2>2 DEF StartDiscovery
  <2>3. CASE CollectorCrash
    BY <2>3 DEF CollectorCrash, Rest
  <2>4. m \in Manifests /\ entry[m].phase = "none"
    BY <1>1, <1>4, Succession
  <2>5. CASE m \in archived
    <3>1. m \in unseen \cup todo \cup logged \/ outbox.at = "start"
      BY <2>4, <2>5 DEF Chronology
    <3>2. ASSUME NEW n \in Manifests, Discover(n)
          PROVE  m \in unseen' \cup todo' \cup logged' \/ outbox'.at = "start"
      <4>1. m # n
        <5>1. [NoEntry EXCEPT !.phase = "pending"].phase = "pending"
          BY DEF NoEntry
        <5> QED
          BY <1>4, <2>4, <3>2, <5>1 DEF Discover, Enqueued, TypeOK
      <4> QED
        BY <1>2, <3>1, <3>2, <4>1 DEF Discover
    <3>3. CASE EndDiscovery
      BY <3>1, <3>3 DEF EndDiscovery, queueVars
    <3>4. CASE EnqueueNew \/ \E n \in Manifests : \/ Damage(n) \/ Restore(n)
                                               \/ Prepare(n) \/ PayloadDamaged(n)
      BY <1>2, <3>1, <3>4
         DEF EnqueueNew, Damage, Restore, Prepare, PayloadDamaged, clientVars, queueVars
    <3>5. CASE \/ SaveRemote \/ DecideFailed \/ DecideUpload \/ DecideWait \/ SaveUploaded \/ GiveUp
               \/ \E n \in Manifests : AskCreate(n) \/ AskStatus(n)
      BY <1>2, <3>1, <3>5
         DEF SaveRemote, DecideFailed, DecideUpload, DecideWait, SaveUploaded, GiveUp, AskCreate,
             AskStatus, StepOn, Waiting, queueVars
    <3> QED
      BY <2>1, <2>2, <2>3, <3>2, <3>3, <3>4, <3>5 DEF ClientStep, OutboxStep
  <2>6. CASE m \notin archived
    BY <1>4, <2>1, <2>6
       DEF ClientStep, Damage, Restore, EnqueueNew, OutboxStep, StartDiscovery, Discover,
           EndDiscovery,
           Prepare, PayloadDamaged, AskCreate, AskStatus, SaveRemote, DecideFailed, DecideUpload,
           DecideWait, SaveUploaded, GiveUp, CollectorCrash, queueVars
  <2> QED
    BY <2>5, <2>6
<1>5. ASSUME NEW n, outbox'.snapshot = n, n # NoManifest PROVE Ahead(n)'
  <2>1. ASSUME NEW m \in Manifests, AskCreate(m) \/ AskStatus(m) PROVE Ahead(n)'
    <3>1. Ahead(m)'
      BY <2>1, NextIsAhead DEF AskCreate, AskStatus
    <3>2. outbox'.snapshot = m
      <4>1. CASE AskCreate(m)
        BY <4>1 DEF AskCreate, Send, Rest
      <4>2. CASE AskStatus(m)
        BY <4>2 DEF AskStatus
      <4> QED
        BY <2>1, <4>1, <4>2
    <3> QED
      BY <1>5, <3>1, <3>2
  <2>2. outbox'.snapshot = outbox.snapshot \/ outbox'.snapshot = NoManifest
        \/ \E m \in Manifests : AskCreate(m) \/ AskStatus(m)
    <3>1. ASSUME NEW place, Go(place) PROVE outbox'.snapshot = outbox.snapshot
      BY <1>1, <3>1 DEF Go, Outbox
    <3>2. Relax => outbox'.snapshot = NoManifest
      BY DEF Relax, Rest
    <3>3. CollectorCrash => outbox'.snapshot = NoManifest
      BY DEF CollectorCrash, Rest
    <3>4. DecideUpload => outbox'.snapshot = outbox.snapshot
      BY DEF DecideUpload, Send, Rest
    <3>5. DecideWait => outbox'.snapshot = NoManifest
      BY DEF DecideWait, Relax, Rest
    <3> QED
      BY <3>1, <3>2, <3>3, <3>4, <3>5
         DEF ClientStep, Archive, Damage, Restore, EnqueueNew, OutboxStep, StartDiscovery,
             Discover, EndDiscovery,
             Prepare, PayloadDamaged, SaveRemote, DecideFailed, SaveUploaded, GiveUp, clientVars
  <2> QED
    BY <1>3, <1>5, <2>1, <2>2 DEF Chronology
<1>6. ASSUME NEW r \in wire', NEW n, r.snapshot = n PROVE Ahead(n)'
  <2>1. ASSUME NEW op, NEW m \in Manifests, NEW j, Send(op, m, j)
        PROVE  r \in wire \/ (n = m /\ outbox'.snapshot = m)
    BY <1>6, <2>1 DEF Send, Rest
  <2>2. CASE r \in wire
    BY <1>3, <1>6, <2>2 DEF Chronology
  <2>3. ASSUME NEW m \in Manifests, outbox'.snapshot = m, n = m PROVE Ahead(n)'
    BY <1>5, <2>3, OutboxConstants
  <2>4. CASE GiveUp \/ CollectorCrash
    <3>1. \E s \in wire : s.snapshot = n
      BY <1>1, <1>6, <2>4 DEF GiveUp, CollectorCrash, Disregarded, Requests
    <3> QED
      BY <1>3, <3>1 DEF Chronology
  <2>5. ASSUME NEW m \in Manifests, AskCreate(m) PROVE Ahead(n)'
    BY <2>1, <2>2, <2>3, <2>5 DEF AskCreate
  <2>6. CASE DecideUpload
    <3>1. outbox.snapshot \in Manifests
      BY <2>6 DEF DecideUpload, Working
    <3> QED
      BY <2>1, <2>2, <2>3, <2>6, <3>1 DEF DecideUpload
  <2>7. UNCHANGED wire \/ GiveUp \/ CollectorCrash \/ DecideUpload
        \/ \E m \in Manifests : AskCreate(m)
    BY DEF ClientStep, Archive, Damage, Restore, EnqueueNew, OutboxStep, StartDiscovery, Discover,
           EndDiscovery, Prepare, PayloadDamaged, AskStatus, SaveRemote, DecideFailed, DecideWait,
           SaveUploaded, clientVars
  <2> QED
    BY <1>6, <2>2, <2>4, <2>5, <2>6, <2>7
<1>7. /\ \A j \in Jobs : job'[j].manifest # Retention => Ahead(job[j].manifest)'
      /\ guard'.content.manifest # Retention => Ahead(guard.content.manifest)'
  BY <1>1, <1>3 DEF Chronology
<1> QED
  BY <1>1, <1>4, <1>5, <1>6, <1>7 DEF Chronology, Ahead

\* The collector's steps keep everything.
LEMMA ClientKeeps ==
  ASSUME OutInv, ClientStep
  PROVE  TypeOK' /\ Uploads' /\ Local'
<1>1. UNCHANGED <<storeVars, ingressVars, told>>
  BY ClientLeavesServer DEF ServerUnchanged
<1>2. Uploads'
  BY <1>1, HostKeepsUploads DEF OutInv
<1>3. Answers'
  BY <1>1 DEF OutInv, Local, Answers, Truthful, storeVars, ingressVars
<1> QED
  BY <1>2, <1>3, ClientTyped, ClientEntries, ClientWorking, ClientWired, ClientWalks,
     ClientChronology DEF OutInv, Local

--------------------------------------------------------------------------------
\* The steps of the server, seen from the queue.

\* The store's step leaves the entries true.
LEMMA EntriesStay ==
  ASSUME OutInv, Stepped, UNCHANGED <<archived, entry>>
  PROVE  Entries'
<1> USE DEF OutInv
<1>1. ASSUME NEW m \in Manifests, entry[m].remote # NoJob PROVE Has(entry[m].remote, m)'
  BY <1>1, HasKept DEF Local, Entries
<1>2. ASSUME NEW m \in Manifests, entry[m].phase = "succeeded"
      PROVE  \E j \in Jobs : job'[j].manifest = m /\ job'[j].phase = "succeeded"
  <2> PICK j \in Jobs : job[j].manifest = m /\ job[j].phase = "succeeded"
    BY <1>2 DEF Local, Entries, EntriesAreTrue
  <2> QED
    BY JobsKept DEF Terminal
<1> QED
  BY <1>1, <1>2 DEF Local, Entries, EntriesAreTrue, Has

\* An answer that was true stays true.
LEMMA TruthStays ==
  ASSUME OutInv, Stepped, NEW a \in Answer, NEW m, TrueOf(a, m)
  PROVE  TrueOf(a, m)' /\ (job[a.job].phase = "failed" => job'[a.job].phase = "failed")
BY HasKept DEF OutInv, TrueOf, Terminal, Has

LEMMA WorkingStays ==
  ASSUME OutInv, Stepped, UNCHANGED <<entry, outbox>>
  PROVE  Working'
<1>1. Working /\ outbox.answer \in Answer
  BY DEF OutInv, Local, TypeOK, Outbox
<1> QED
  BY <1>1, TruthStays DEF Working, TrueOf, Has

\* Requests on their way stay about the same job.
LEMMA WiredStays ==
  ASSUME OutInv, Stepped, UNCHANGED entry, wire' \subseteq wire,
         \/ UNCHANGED <<outbox, asked>>
         \/ \A r \in wire' : ~r.awaited
  PROVE  Wired'
<1>1. ASSUME NEW r \in wire', r.op = "upload" PROVE Has(r.job, r.snapshot)'
  <2>1. Has(r.job, r.snapshot)
    BY <1>1 DEF OutInv, Local, Wired
  <2> QED
    BY <2>1, HasKept DEF OutInv
<1> QED
  BY <1>1 DEF OutInv, Local, Wired

\* No step of the server overtakes an older snapshot.
LEMMA ChronologyStays ==
  ASSUME OutInv, Stepped, UNCHANGED <<archived, unseen, entry, todo, logged>>, wire' \subseteq wire,
         outbox'.snapshot \in {outbox.snapshot, NoManifest},
         outbox.at = "start" => outbox'.at = "start",
         \/ guard'.content.manifest \in {Retention, guard.content.manifest}
         \/ \E j \in Jobs : guard'.content.manifest = job[j].manifest
         \/ \E r \in wire : guard'.content.manifest = r.snapshot
  PROVE  Chronology'
<1>1. /\ \A m \in archived :
           entry[m].phase = "none" => m \in unseen \cup todo \cup logged \/ outbox.at = "start"
      /\ outbox.snapshot # NoManifest => Ahead(outbox.snapshot)
      /\ \A r \in wire : Ahead(r.snapshot)
      /\ \A j \in Jobs : job[j].manifest # Retention => Ahead(job[j].manifest)
      /\ guard.content.manifest # Retention => Ahead(guard.content.manifest)
  BY DEF OutInv, Local, Chronology
<1>2. \A m : Ahead(m) => Ahead(m)'
  BY DEF Ahead, Older
<1>3. ASSUME NEW j \in Jobs
      PROVE  job'[j].manifest \in {job[j].manifest, guard.content.manifest}
  BY JobsKept DEF OutInv
<1>4. ASSUME NEW j \in Jobs, job'[j].manifest # Retention PROVE Ahead(job[j].manifest)'
  BY <1>1, <1>3, <1>4 DEF Ahead, Older
<1>5. guard'.content.manifest # Retention => Ahead(guard.content.manifest)'
  BY <1>1 DEF Ahead, Older
<1>6. outbox'.snapshot # NoManifest => Ahead(outbox.snapshot)'
  BY <1>1 DEF Ahead, Older
<1> QED
  BY <1>1, <1>2, <1>4, <1>5, <1>6 DEF Chronology

\* A request that the step does not touch goes on as it was.
LEMMA RequestStays ==
  ASSUME OutInv, Stepped, Unbroken, NEW g \in Handlers,
         request'[g] = request[g], told'[g] = told[g]
  PROVE  Truthful(g)' /\ \A m \in Manifests : About(g, m) => About(g, m)'
<1>1. Truthful(g) /\ told[g] \in Answer
  BY DEF OutInv, Local, Answers, TypeOK
<1>2. told[g].phase = "succeeded" => job'[told[g].job].phase = "succeeded"
  <2> SUFFICES ASSUME told[g].phase = "succeeded" PROVE job'[told[g].job].phase = "succeeded"
    OBVIOUS
  <2>1. told[g].job \in Jobs /\ job[told[g].job].phase = "succeeded"
    BY <1>1 DEF Truthful, Silent, Refused, Answer
  <2> QED
    BY <2>1, JobsKept DEF OutInv, Terminal
<1>3. Truthful(g)'
  BY <1>1, <1>2 DEF Truthful
<1>4. ASSUME NEW m \in Manifests, About(g, m) PROVE About(g, m)'
  <2>1. request[g].at # "idle" => Promised(g, request[g].job, m)'
    BY <1>4, PromisesKept DEF OutInv, About
  <2>2. told[g].job # NoJob => Promised(g, told[g].job, m)'
    BY <1>4, PromisesKept DEF OutInv, About
  <2> QED
    BY <1>4, <2>1, <2>2 DEF About, Promised, Has
<1> QED
  BY <1>3, <1>4

\* The host's steps keep everything (sync_worker.py:46-149, retention_schedule.py:45-55).
LEMMA HostKeeps ==
  ASSUME OutInv, HostStep
  PROVE  TypeOK' /\ Uploads' /\ Local'
<1> USE OutboxConstants
<1>1. /\ UNCHANGED <<request, known, snapshot, archived, unseen, collector, entry, unreadable,
                     logged, outbox, todo, wire, asked, told>>
      /\ UNCHANGED ingressVars
      /\ Stepped /\ Unbroken
  BY HostSteps DEF OutInv, ingressVars, queueVars, fileVars, clientVars
<1>2. IInv'
  <2>1. [StoreNext]_storeVars
    BY <1>1, Entered DEF OutInv, Stepped, StoreNext
  <2> QED
    BY <2>1, NextInv DEF OutInv
<1>3. UNCHANGED <<faults, misreads>> /\ timers' \in 0..MaxTimers
  <2>1. UNCHANGED <<faults, misreads, timers>> \/ TimerJob
    BY DEF HostStep, WorkerMoves, WorkerTick, TimerPolicy, StoreOnly, outboxVars, bounds
  <2> QED
    BY <2>1 DEF TimerJob, OutInv, TypeOK
<1>4. TypeOK'
  BY <1>1, <1>2, <1>3 DEF OutInv, TypeOK, IngressTypeOK, IInv
<1>5. ASSUME [NoCall]_storeVars
      PROVE  Uploads' /\ guard'.content.manifest \in {Retention, guard.content.manifest}
  <2>1. Uploads'
    BY <1>1, <1>5, HostKeepsUploads DEF OutInv
  <2>2. guard'.content.manifest \in {Retention, guard.content.manifest}
    <3>1. CASE NoCall
      BY <3>1, PlansKept DEF OutInv, Blank
    <3>2. CASE UNCHANGED storeVars
      BY <3>2 DEF storeVars
    <3> QED
      BY <1>5, <3>1, <3>2
  <2> QED
    BY <2>1, <2>2
<1>6. ASSUME NEW p \in Procs, Called(p),
             guard'.content.manifest # Retention =>
               /\ guard'.save \in Jobs
               /\ guard'.content.manifest = job[guard'.save].manifest
               /\ job[guard'.save].phase \notin Uploading \cup {"absent", "failed"}
      PROVE  /\ Uploads'
             /\ \/ guard'.content.manifest = Retention
                \/ \E j \in Jobs : guard'.content.manifest = job[j].manifest
  BY <1>1, <1>6 DEF Called, OutInv, Uploads, QueuedIsComplete, Accepted, Uploading
<1>7. Uploads'
  BY <1>5, <1>6, HostSteps DEF OutInv
<1>8. \/ guard'.content.manifest \in {Retention, guard.content.manifest}
      \/ \E j \in Jobs : guard'.content.manifest = job[j].manifest
  BY <1>5, <1>6, HostSteps DEF OutInv
<1>9. Entries' /\ Working' /\ Wired' /\ Chronology'
  BY <1>1, <1>3, <1>8, EntriesStay, WorkingStays, WiredStays, ChronologyStays
<1>10. Walks'
  BY <1>1 DEF OutInv, Local, Walks
<1>11. Asked' /\ Answers'
  BY <1>1, RequestStays
     DEF OutInv, Local, Asked, Answers, TypeOK, Outbox, Working, About, Promised, Has
<1> QED
  BY <1>4, <1>7, <1>9, <1>10, <1>11 DEF Local

\* A crash of the ingress keeps everything: whoever waited for it is told nothing.
LEMMA CrashKeeps ==
  ASSUME OutInv, ServerCrash
  PROVE  TypeOK' /\ Uploads' /\ Local'
<1> USE OutboxConstants
<1>1. /\ UNCHANGED <<archived, unseen, collector, entry, logged, todo, wire, misreads, timers>>
      /\ asked' = Nobody /\ told' = [h \in Handlers |-> Silent]
      /\ IngressCrash /\ Stepped /\ faults' \in 0..MaxFaults
      /\ IF asked # Nobody THEN outbox' = Rest ELSE UNCHANGED outbox
      /\ unreadable' \subseteq unreadable
  BY CrashSteps DEF OutInv, ServerCrash, queueVars, Fault, TypeOK, Relax, Rewrite
<1>2. IInv'
  <2>1. [StoreNext]_storeVars
    BY <1>1, Entered DEF OutInv, Stepped, StoreNext
  <2> QED
    BY <2>1, NextInv DEF OutInv
<1>3. Uploads' /\ IngressTypeOK'
  BY <1>1, IngressCrashKeepsUploads DEF OutInv, TypeOK
<1>4. Silent \in Answer
  BY DEF Silent, Answer, Phases
<1>5. Rest \in Outbox
  BY <1>4 DEF Rest, Outbox
<1>6. TypeOK'
  BY <1>1, <1>2, <1>3, <1>4, <1>5 DEF OutInv, TypeOK, IInv
<1>7. guard'.content.manifest \in {Retention, guard.content.manifest}
  BY <1>1 DEF IngressCrash, Free, Blank
<1>8. ASSUME asked = Nobody
      PROVE  Entries' /\ Working' /\ Wired' /\ Chronology'
  <2>1. UNCHANGED <<outbox, asked>>
    BY <1>1, <1>8
  <2>2. Entries' /\ Working'
    BY <1>1, <2>1, EntriesStay, WorkingStays
  <2>3. Wired'
    BY <1>1, <2>1, WiredStays
  <2>4. Chronology'
    BY <1>1, <1>7, <2>1, ChronologyStays
  <2> QED
    BY <2>2, <2>3, <2>4
<1>9. ASSUME asked # Nobody
      PROVE  Entries' /\ Working' /\ Wired' /\ Chronology'
  <2>1. \A r \in wire : ~r.awaited
    BY <1>9 DEF OutInv, Local, Wired
  <2>2. outbox.at \in Waiting
    BY <1>9 DEF OutInv, Local, Asked
  <2>3. outbox'.at = "idle" /\ outbox'.snapshot = NoManifest
    BY <1>1, <1>9 DEF Rest
  <2>4. Working'
    BY <2>3 DEF Working, Waiting
  <2>5. Entries' /\ Wired'
    BY <1>1, <2>1, EntriesStay, WiredStays
  <2>6. outbox.at # "start"
    BY <2>2 DEF Waiting
  <2>7. Chronology'
    BY <1>1, <1>7, <2>3, <2>6, ChronologyStays
  <2> QED
    BY <2>4, <2>5, <2>7
<1>10. Entries' /\ Working' /\ Wired' /\ Chronology'
  BY <1>8, <1>9
<1>11. Walks'
  BY <1>1 DEF OutInv, Local, Walks, Asked, Waiting
<1>12. Asked'
  BY <1>1 DEF Asked
<1>13. Answers'
  <2>1. \A h \in Handlers : request'[h] = Idle /\ told'[h] = Silent
    BY <1>1 DEF IngressCrash
  <2> QED
    BY <2>1 DEF Answers, Truthful, Idle, Silent
<1> QED
  BY <1>3, <1>6, <1>10, <1>11, <1>12, <1>13 DEF Local

--------------------------------------------------------------------------------
\* The request threads.

\* What every step of request h leaves alone.
LEMMA ServingFrame ==
  ASSUME OutInv, NEW h \in Handlers, Serves(h)
  PROVE  /\ IInv' /\ Stepped /\ Unbroken /\ Uploads' /\ IngressTypeOK'
         /\ UNCHANGED <<job, archived, unseen, collector, entry, logged, todo, bounds>>
         /\ unreadable' \subseteq unreadable
         /\ \A g \in Handlers : g # h => request'[g] = request[g] /\ told'[g] = told[g]
         /\ UNCHANGED storeVars \/ (Called(h) /\ RequestPlans(h))
         /\ guard.owner # h
<1>1. IngressStep(h) \/ UNCHANGED <<storeVars, ingressVars>>
  BY ServingSteps DEF OutInv
<1>2. UNCHANGED storeVars \/ (Called(h) /\ RequestPlans(h))
  BY <1>1, IngressCalls DEF OutInv
<1>3. Stepped
  BY <1>1, IngressSteps DEF OutInv, Stepped
<1>4. IInv'
  <2>1. [StoreNext]_storeVars
    BY <1>3, Entered DEF OutInv, Stepped, StoreNext
  <2> QED
    BY <2>1, NextInv DEF OutInv
<1>5. Unbroken
  BY <1>2, IngressConstants DEF Unbroken, storeVars
<1>6. ASSUME IngressStep(h)
      PROVE  /\ Uploads' /\ IngressTypeOK' /\ UNCHANGED job
             /\ \A g \in Handlers : g # h => request'[g] = request[g]
  BY <1>6, IngressKeepsUploads, IngressFrame DEF OutInv, TypeOK
<1>7. ASSUME UNCHANGED <<storeVars, ingressVars>>
      PROVE  /\ Uploads' /\ IngressTypeOK' /\ UNCHANGED job
             /\ \A g \in Handlers : g # h => request'[g] = request[g]
  <2>1. Uploads'
    BY <1>7, HostKeepsUploads DEF OutInv
  <2> QED
    BY <1>7, <2>1 DEF OutInv, TypeOK, IngressTypeOK, storeVars, ingressVars
<1>8. UNCHANGED <<archived, unseen, collector, entry, logged, todo, bounds>>
      /\ unreadable' \subseteq unreadable
  BY DEF Serves, Upload, SendAnswer, Arrive, Deliver, Relax, Rewrite, queueVars, fileVars,
         clientVars
<1>9. \A g \in Handlers : g # h => told'[g] = told[g]
  BY DEF Serves, Upload, SendAnswer, Deliver, ServeCreate, ServeUpload, Tell, OutInv, TypeOK
<1>10. guard.owner # h
  BY DEF Serves, Upload, SendAnswer, Deliver, Taken, At, Reserve, StreamComplete, StreamFail,
         Commit,
         Abort, AnswerPost
<1> QED
  BY <1>1, <1>2, <1>3, <1>4, <1>5, <1>6, <1>7, <1>8, <1>9, <1>10

\* An upload that ends is answered, and the answer is about its job (sync_api.py:74-101).
LEMMA UploadAnswers ==
  ASSUME OutInv, NEW h \in Handlers, Upload(h)
  PROVE  /\ Truthful(h)' /\ told'[h] \in Answer
         /\ \A m \in Manifests : About(h, m) => About(h, m)'
<1> PICK j : j = request[h].job
  OBVIOUS
<1>1. Serves(h)
  BY DEF Serves
<1>2. /\ request \in [Handlers -> RequestRecord] /\ told \in [Handlers -> Answer]
      /\ Truthful(h)
  BY DEF OutInv, TypeOK, IngressTypeOK, Local, Answers
<1>3. request[h].at \notin {"idle", "answer"} /\ j \in Jobs /\ j # NoJob
  BY StoreConstants
     DEF Upload, Reserve, StreamComplete, StreamFail, Commit, Abort, At, OutInv, Uploads
<1>4. \/ request'[h].at \in {"stream", "commit", "abort"} /\ request'[h].job = j
      \/ request'[h] = Idle
  BY <1>2, <1>3 DEF Upload, Reserve, StreamComplete, StreamFail, Commit, Abort, GoTo, Answered, At
<1>5. CASE request'[h] # Idle
  <2>1. told'[h] = told[h] /\ UNCHANGED job
    BY <1>1, <1>5, ServingFrame DEF Upload
  <2>2. Truthful(h)'
    BY <1>2, <1>4, <1>5, <2>1 DEF Truthful
  <2>3. ASSUME NEW m \in Manifests, About(h, m) PROVE About(h, m)'
    <3> PICK k : k = told[h].job
      OBVIOUS
    <3>1. Promised(h, j, m) /\ (k # NoJob => Promised(h, k, m))
      BY <1>3, <2>3 DEF About
    <3>2. Promised(h, j, m)' /\ (k # NoJob => Promised(h, k, m)')
      BY <1>1, <3>1, ServingFrame, PromisesKept DEF OutInv
    <3> QED
      BY <1>4, <1>5, <2>1, <3>2 DEF About, Promised, Has, Idle
  <2> QED
    BY <1>2, <2>1, <2>2, <2>3
<1>6. CASE request'[h] = Idle
  <2>1. told'[h] \in {Refused, [job |-> j, phase |-> "queued"]}
    BY <1>2, <1>6 DEF Upload, Tell
  <2>2. Truthful(h)' /\ told'[h] \in Answer /\ told'[h] # Silent
        /\ told'[h].job \in {NoJob, j} /\ request'[h].at = "idle"
    <3>1. CASE told'[h] = Refused
      BY <1>6, <3>1 DEF Truthful, Refused, Silent, Answer, Idle, Phases, Terminal
    <3>2. CASE told'[h] = [job |-> j, phase |-> "queued"]
      <4>1. told'[h].job = j /\ told'[h].phase = "queued"
        BY <3>2
      <4>2. told'[h] \in Answer
        BY <1>3, <3>2 DEF Answer, Phases
      <4> QED
        BY <1>3, <1>6, <4>1, <4>2 DEF Truthful, Silent, Idle
    <3> QED
      BY <2>1, <3>1, <3>2
  <2>3. ASSUME NEW m \in Manifests, About(h, m) PROVE About(h, m)'
    <3>1. Promised(h, j, m)
      BY <1>3, <2>3 DEF About
    <3>2. Promised(h, j, m)'
      BY <1>1, <3>1, ServingFrame, PromisesKept DEF OutInv
    <3> QED
      BY <2>2, <3>2 DEF About, Promised, Has
  <2> QED
    BY <2>2, <2>3
<1> QED
  BY <1>5, <1>6

\* What a request plans to write carries a snapshot that is known already, except
\* that of the job it creates.
LEMMA PlannedSnapshot ==
  ASSUME OutInv, NEW h \in Handlers,
         UNCHANGED storeVars \/ (Called(h) /\ RequestPlans(h))
  PROVE  \/ guard'.content.manifest \in {Retention, guard.content.manifest}
         \/ \E j \in Jobs : guard'.content.manifest = job[j].manifest
         \/ /\ request[h].at = "idle"
            /\ guard'.save \in Jobs /\ job[guard'.save].phase = "absent"
            /\ \E m \in Manifests :
                 guard'.content = [Blank EXCEPT !.phase = "awaiting_upload", !.manifest = m]
<1>1. CASE UNCHANGED storeVars
  BY <1>1 DEF storeVars
<1>2. CASE guard'.content = Blank
  BY <1>2 DEF Blank
<1>3. ASSUME NEW to \in {"uploading", "queued", "failed"}, guard'.save \in Jobs,
             guard'.content = [job[guard'.save] EXCEPT !.phase = to]
      PROVE  \E j \in Jobs : guard'.content.manifest = job[j].manifest
  BY <1>3 DEF OutInv, IInv, StoreTypeOK, JobRecord
<1> QED
  BY <1>1, <1>2, <1>3 DEF RequestPlans

\* An upload's steps keep everything.
LEMMA UploadKeeps ==
  ASSUME OutInv, NEW h \in Handlers, Upload(h)
  PROVE  TypeOK' /\ Uploads' /\ Local'
<1>1. Serves(h)
  BY DEF Serves
<1>2. UNCHANGED <<outbox, wire, asked>>
  BY DEF Upload, clientVars
<1>3. TypeOK'
  BY <1>1, <1>2, ServingFrame, UploadAnswers DEF OutInv, TypeOK, IInv, Upload, Tell, bounds
<1>4. \/ guard'.content.manifest \in {Retention, guard.content.manifest}
      \/ \E j \in Jobs : guard'.content.manifest = job[j].manifest
  <2>1. request[h].at # "idle"
    BY DEF Upload, Reserve, StreamComplete, StreamFail, Commit, Abort, At
  <2> QED
    BY <1>1, <2>1, ServingFrame, PlannedSnapshot
<1>5. Entries' /\ Working' /\ Wired' /\ Chronology'
  BY <1>1, <1>2, <1>4, ServingFrame, EntriesStay, WorkingStays, WiredStays, ChronologyStays
<1>6. Walks'
  BY <1>1, <1>2, ServingFrame DEF OutInv, Local, Walks
<1>7. ASSUME NEW g \in Handlers
      PROVE  Truthful(g)' /\ \A m \in Manifests : About(g, m) => About(g, m)'
  BY <1>1, ServingFrame, UploadAnswers, RequestStays
<1>8. Asked'
  BY <1>2, <1>7 DEF OutInv, Local, TypeOK, Asked, Working, About, Promised, Has
<1> QED
  BY <1>1, <1>3, <1>5, <1>6, <1>7, <1>8, ServingFrame DEF Local, Answers

\* The outbox gets a true answer about its snapshot, or defers the entry
\* (client.go:101-158, sync_api.py:61-66).
LEMMA SendKeeps ==
  ASSUME OutInv, NEW h \in Handlers, SendAnswer(h)
  PROVE  TypeOK' /\ Uploads' /\ Local'
<1> USE OutboxConstants
<1> PICK a : a = told[h]
  OBVIOUS
<1>1. Serves(h)
  BY DEF Serves
<1>2. /\ request \in [Handlers -> RequestRecord] /\ told \in [Handlers -> Answer]
      /\ outbox \in Outbox /\ a \in Answer /\ Truthful(h)
  BY DEF OutInv, TypeOK, IngressTypeOK, Local, Answers
<1>3. UNCHANGED <<storeVars, wire, todo>>
  BY DEF SendAnswer, AnswerPost, Arrive
<1>4. request'[h] = Idle /\ told'[h] = Silent /\ told' \in [Handlers -> Answer]
  <2>1. Silent \in Answer
    BY DEF Silent, Answer, Phases
  <2>2. told'[h] = Silent /\ told' \in [Handlers -> Answer]
    BY <1>2, <2>1 DEF SendAnswer, Tell
  <2>3. request'[h] = Idle
    BY <1>2 DEF SendAnswer, AnswerPost, Answered, At, Truthful, ingressVars
  <2> QED
    BY <2>2, <2>3
<1>5. Truthful(h)'
  BY <1>4 DEF Truthful, Idle, Silent
<1>6. guard'.content.manifest \in {Retention, guard.content.manifest}
  BY <1>3 DEF storeVars
<1>7. ASSUME asked # h
      PROVE  UNCHANGED <<outbox, asked>>
  BY <1>7 DEF SendAnswer, Arrive
<1>8. ASSUME asked = h
      PROVE  /\ asked' = Nobody /\ outbox.at \in Waiting /\ outbox' \in Outbox
             /\ (\A r \in wire : ~r.awaited) /\ Working'
             /\ outbox'.snapshot \in {outbox.snapshot, NoManifest}
  <2> PICK m : m = outbox.snapshot
    OBVIOUS
  <2>1. asked' = Nobody
        /\ IF a = Refused THEN outbox' = Rest
           ELSE outbox' = [outbox EXCEPT !.at = NextPlace, !.answer = a]
    BY <1>8 DEF SendAnswer, Arrive, Relax
  <2>2. h # Nobody
    BY StoreConstants, IngressConstants
  <2>3. outbox.at \in Waiting /\ About(h, m) /\ \A r \in wire : ~r.awaited
    BY <1>8, <2>2 DEF OutInv, Local, Asked, Wired
  <2>4. CASE a = Refused
    <3>1. outbox' = Rest
      BY <2>1, <2>4
    <3>2. Rest \in Outbox
      BY DEF Rest, Outbox, Silent, Answer, Phases
    <3>3. outbox'.at = "idle" /\ outbox'.snapshot = NoManifest
      BY <3>1 DEF Rest
    <3> QED
      BY <2>1, <2>3, <3>1, <3>2, <3>3 DEF Working, Waiting
  <2>5. CASE a # Refused
    <3>1. request[h].at \in {"idle", "answer"}
      BY DEF SendAnswer, AnswerPost, At
    <3>2. a.job # NoJob
      <4>1. CASE request[h].at = "idle"
        BY <1>2, <2>3, <2>5, <4>1 DEF About, Truthful
      <4>2. CASE request[h].at = "answer"
        <5>1. a.job = request[h].job /\ Promised(h, request[h].job, m)
          BY <1>2, <2>3, <4>2 DEF About, Truthful
        <5> QED
          BY <5>1, StoreConstants DEF Promised, Has
      <4> QED
        BY <3>1, <4>1, <4>2
    <3>3. Has(a.job, m)
      <4>1. Promised(h, a.job, m)
        BY <2>3, <3>2 DEF About
      <4> QED
        BY <1>1, <4>1, ServingFrame, PromiseHeld
    <3>4. TrueOf(a, m) /\ a.phase # "failed"
      BY <1>2, <3>2, <3>3 DEF TrueOf, Truthful
    <3>5. /\ outbox' \in Outbox /\ outbox'.at = NextPlace
          /\ outbox'.snapshot = m /\ outbox'.answer = a
      BY <1>2, <2>1, <2>5 DEF Outbox, NextPlace
    <3>6. /\ m \in Manifests /\ entry[m].phase \notin {"none", "succeeded", "attention"}
          /\ outbox.at = "create" => entry[m].remote = NoJob
      BY <2>3 DEF OutInv, Local, Working, Waiting
    <3>7. UNCHANGED <<entry, job>>
      BY <1>1, ServingFrame
    <3>8. TrueOf(a, m)'
      BY <3>4, <3>7 DEF TrueOf, Has
    <3>9. /\ outbox'.at \in {"save", "uploaded"}
          /\ outbox'.at = "save" => outbox.at = "create"
      BY <2>3, <3>5 DEF NextPlace, Waiting
    <3>10. Working'
      BY <3>4, <3>5, <3>6, <3>7, <3>8, <3>9 DEF Working, TrueOf, Has
    <3> QED
      BY <2>1, <2>3, <3>5, <3>10
  <2> QED
    BY <2>4, <2>5
<1>9. outbox' \in Outbox /\ asked' \in Handlers \cup {Nobody}
  BY <1>2, <1>7, <1>8 DEF OutInv, TypeOK
<1>10. TypeOK'
  BY <1>1, <1>3, <1>4, <1>9, ServingFrame DEF OutInv, TypeOK, IInv, bounds
<1>11. Entries'
  BY <1>1, ServingFrame, EntriesStay
<1>12. Working'
  BY <1>1, <1>7, <1>8, ServingFrame, WorkingStays
<1>13. Wired'
  BY <1>1, <1>3, <1>7, <1>8, ServingFrame, WiredStays
<1>14. Walks'
  <2>1. todo = {} \/ UNCHANGED outbox
    BY <1>7, <1>8 DEF OutInv, Local, Walks, Waiting
  <2> QED
    BY <1>1, <1>3, <2>1, ServingFrame DEF OutInv, Local, Walks
<1>15. Chronology'
  <2>1. /\ outbox'.snapshot \in {outbox.snapshot, NoManifest}
        /\ outbox.at = "start" => outbox'.at = "start"
    BY <1>7, <1>8 DEF Waiting
  <2> QED
    BY <1>1, <1>3, <1>6, <2>1, ServingFrame, ChronologyStays
<1>16. ASSUME NEW g \in Handlers, g # h
       PROVE  Truthful(g)' /\ \A m \in Manifests : About(g, m) => About(g, m)'
  BY <1>1, <1>16, ServingFrame, RequestStays
<1>17. Asked'
  BY <1>7, <1>8, <1>16 DEF OutInv, Local, TypeOK, Asked, Working, About, Promised, Has
<1>18. Answers'
  BY <1>5, <1>16 DEF Answers
<1> QED
  BY <1>1, <1>10, <1>11, <1>12, <1>13, <1>14, <1>15, <1>17, <1>18, ServingFrame DEF Local

\* What the ingress makes of a request that reaches it (sync_api.py:50-79).
LEMMA DeliverAnswers ==
  ASSUME OutInv, NEW h \in Handlers, NEW r \in wire, Deliver(h, r)
  PROVE  /\ Truthful(h)' /\ About(h, r.snapshot)' /\ told' \in [Handlers -> Answer]
         /\ guard'.content.manifest \in {Retention, guard.content.manifest, r.snapshot}
<1> USE StoreConstants
<1> PICK m : m = r.snapshot
  OBVIOUS
<1>1. /\ request \in [Handlers -> RequestRecord] /\ told \in [Handlers -> Answer]
      /\ job \in [Jobs -> JobRecord] /\ m \in Manifests /\ receipt \in [Shas -> Jobs \cup {NoJob}]
  BY DEF OutInv, TypeOK, IngressTypeOK, Requests, StoreTypeOK
<1>2. request[h] = Idle /\ told[h] = Silent /\ Serves(h)
  BY DEF Deliver, Taken, At, Serves, OutInv, Local, Answers, Truthful
<1>3. h \in Procs /\ UNCHANGED job
  BY <1>2, IngressConstants, ServingFrame
<1>4. Refused \in Answer /\ Silent \in Answer
  BY DEF Refused, Silent, Answer, Phases, Terminal
<1>5. ASSUME request'[h] = Idle, Tell(h, Refused)
      PROVE  Truthful(h)' /\ About(h, m)' /\ told' \in [Handlers -> Answer]
  <2>1. told'[h] = Refused /\ told' \in [Handlers -> Answer]
    BY <1>1, <1>4, <1>5 DEF Tell
  <2>2. Refused # Silent /\ Refused.job = NoJob /\ Refused.phase = "failed" /\ Idle.at = "idle"
    BY DEF Refused, Silent, Idle
  <2> QED
    BY <1>5, <2>1, <2>2 DEF Truthful, About
<1>6. ASSUME NEW j \in Jobs, NEW phase \in Phases, NEW place,
             request'[h] = [at |-> place, job |-> j] \/ request'[h] = Idle,
             place \in {"answer", "reserve"},
             Tell(h, [job |-> j, phase |-> phase]), Promised(h, j, m)',
             phase \notin {"absent", "failed"}, phase = "succeeded" => job[j].phase = "succeeded"
      PROVE  Truthful(h)' /\ About(h, m)' /\ told' \in [Handlers -> Answer]
  <2>1. [job |-> j, phase |-> phase] \in Answer
    BY DEF Answer
  <2>2. told' \in [Handlers -> Answer] /\ told'[h] = [job |-> j, phase |-> phase]
    BY <1>1, <1>6, <2>1 DEF Tell
  <2>3. told'[h].job = j /\ told'[h].phase = phase /\ j # NoJob
    BY <2>2
  <2>4. \/ request'[h].at \in {"answer", "reserve"} /\ request'[h].job = j
        \/ request'[h] = Idle /\ request'[h].at = "idle"
    BY <1>6 DEF Idle
  <2>5. told'[h] # Silent
    BY <2>3 DEF Silent
  <2> QED
    BY <1>3, <1>6, <2>2, <2>3, <2>4, <2>5 DEF Truthful, About, Promised, Has
<1>7. CASE ServeCreate(h, r)
  <2>1. CASE CreateExisting(h, m) /\ GoTo(h, "answer", Previous(m)) /\ Tell(h, Created(h))
    <3> PICK j : j = Previous(m)
      OBVIOUS
    <3>1. guard'.save = NoJob /\ guard'.content = Blank
      BY <1>1, <1>3, <2>1, QuietCall DEF OutInv
    <3>2. j \in Jobs /\ job[j].manifest = m /\ PhaseNow(j) # "failed"
      <4>1. Reusable(m)
        BY <2>1 DEF CreateExisting
      <4> QED
        BY <1>1, <4>1 DEF Reusable, Previous
    <3>3. Has(j, m)
      BY <1>1, <3>2 DEF Has, OutInv, Present
    <3>4. PhaseNow(j) = job[j].phase
      BY <3>2 DEF PhaseNow
    <3>5. request'[h] = [at |-> "answer", job |-> j]
      BY <1>1, <2>1 DEF GoTo
    <3>6. request'[h] # Idle /\ request'[h].job = j
      BY <3>5 DEF Idle
    <3>7. Created(h) = [job |-> j, phase |-> job[j].phase]
      BY <3>1, <3>4, <3>6 DEF Created
    <3>8. Promised(h, j, m)'
      BY <1>3, <3>3 DEF Promised, Has
    <3>9. job[j].phase \in Phases /\ job[j].phase \notin {"absent", "failed"}
      BY <1>1, <3>2, <3>3, <3>4 DEF JobRecord, Has
    <3>10. Tell(h, [job |-> j, phase |-> job[j].phase])
      BY <2>1, <3>7
    <3>11. guard'.content.manifest = Retention
      BY <3>1 DEF Blank
    <3> QED
      BY <1>6, <3>2, <3>5, <3>8, <3>9, <3>10, <3>11
  <2>2. ASSUME NEW j \in Jobs, CreateNew(h, m, j), GoTo(h, "answer", j), Tell(h, Created(h))
        PROVE  /\ Truthful(h)' /\ About(h, m)' /\ told' \in [Handlers -> Answer]
               /\ guard'.content.manifest = m
    <3>1. /\ Called(h) /\ guard'.save = j
          /\ guard'.content = [Blank EXCEPT !.phase = "awaiting_upload", !.manifest = m]
      BY <1>1, <1>3, <2>2, CreateCall DEF OutInv
    <3>2. guard'.content.manifest = m /\ guard'.owner = h
      BY <3>1 DEF Blank, Called
    <3>3. Promised(h, j, m)'
      BY <3>1, <3>2 DEF Promised
    <3>4. request'[h] = [at |-> "answer", job |-> j]
      BY <1>1, <2>2 DEF GoTo
    <3>5. request'[h] # Idle /\ request'[h].job = j /\ guard'.save # NoJob
      BY <3>1, <3>4 DEF Idle
    <3>6. Created(h) = [job |-> j, phase |-> "awaiting_upload"]
      BY <3>5 DEF Created
    <3>7. Tell(h, [job |-> j, phase |-> "awaiting_upload"])
      BY <2>2, <3>6
    <3>8. "awaiting_upload" \in Phases
      BY DEF Phases, Uploading
    <3> QED
      BY <1>6, <3>2, <3>3, <3>4, <3>7, <3>8
  <2>3. CASE (CreateRejected(h, m) \/ CreateBusy(h, m)) /\ UNCHANGED request /\ Tell(h, Created(h))
    <3>1. guard'.content = Blank
      BY <1>3, <2>3, QuietCall DEF CreateRejected, CreateBusy, OutInv
    <3>2. guard'.content.manifest = Retention
      BY <3>1 DEF Blank
    <3>3. request'[h] = Idle /\ Tell(h, Refused)
      BY <1>2, <2>3 DEF Created
    <3> QED
      BY <1>5, <3>2, <3>3
  <2>4. CASE Tell(h, Refused) /\ UNCHANGED <<storeVars, ingressVars>>
    BY <1>2, <1>5, <2>4 DEF storeVars, ingressVars
  <2> QED
    BY <1>7, <2>1, <2>2, <2>3, <2>4 DEF ServeCreate, PostJob
<1>8. CASE ServeUpload(h, r)
  <2> PICK j : j = r.job
    OBVIOUS
  <2>1. Has(j, m) /\ UNCHANGED storeVars
    BY <1>8 DEF ServeUpload, PutSnapshot, OutInv, Local, Wired
  <2>2. Promised(h, j, m)' /\ j \in Jobs
    BY <1>3, <2>1 DEF Promised, Has
  <2>3. guard'.content.manifest = guard.content.manifest
    BY <2>1 DEF storeVars
  <2>4. CASE PutSnapshot(h, j) /\ UNCHANGED told
    <3>1. request'[h] = [at |-> "reserve", job |-> j]
      BY <1>1, <2>4 DEF PutSnapshot, GoTo
    <3>2. request'[h].at = "reserve" /\ request'[h].job = j /\ told'[h] = Silent
      BY <1>2, <2>4, <3>1
    <3>3. Silent.job = NoJob /\ Silent.phase = "absent"
      BY DEF Silent
    <3>4. Truthful(h)' /\ About(h, m)'
      BY <2>2, <3>2, <3>3 DEF Truthful, About, Promised, Has
    <3> QED
      BY <1>1, <2>3, <2>4, <3>4
  <2>5. CASE /\ job[j].phase \notin Uploading \cup {"failed"}
             /\ Tell(h, [job |-> j, phase |-> job[j].phase])
             /\ UNCHANGED <<storeVars, ingressVars>>
    <3>1. request'[h] = Idle /\ job[j].phase \in Phases /\ job[j].phase # "absent"
      BY <1>1, <1>2, <2>1, <2>5 DEF ingressVars, JobRecord, Has
    <3> QED
      BY <1>6, <2>2, <2>3, <2>5, <3>1
  <2> QED
    BY <1>8, <2>4, <2>5 DEF ServeUpload
<1> QED
  BY <1>7, <1>8 DEF Deliver

\* A request that arrives leaves the wire; the outbox waits for its thread if it
\* still waits at all (client.go:101-158).
LEMMA DeliverKeeps ==
  ASSUME OutInv, NEW h \in Handlers, NEW r \in wire, Deliver(h, r)
  PROVE  TypeOK' /\ Uploads' /\ Local'
<1>1. Serves(h)
  BY DEF Serves
<1>2. /\ UNCHANGED <<outbox, todo>> /\ wire' = wire \ {r}
      /\ asked' = (IF r.awaited THEN h ELSE asked)
  BY DEF Deliver
<1>3. asked # h
  <2>1. request[h].at = "idle" /\ told[h] = Silent
    BY DEF Deliver, Taken, At
  <2>2. h # Nobody
    BY StoreConstants, IngressConstants
  <2> QED
    BY <2>1, <2>2 DEF OutInv, Local, Asked, About
<1>4. TypeOK'
  BY <1>1, <1>2, ServingFrame, DeliverAnswers DEF OutInv, TypeOK, IInv, bounds
<1>5. Entries' /\ Working'
  BY <1>1, <1>2, ServingFrame, EntriesStay, WorkingStays
<1>6. ASSUME r.awaited
      PROVE  /\ asked = Nobody /\ outbox.at \in Waiting /\ outbox.snapshot = r.snapshot
             /\ \A s \in wire' : ~s.awaited
  <2>1. ASSUME NEW s \in wire, s.awaited
        PROVE  /\ s = r /\ asked = Nobody /\ outbox.at = s.op /\ outbox.snapshot = s.snapshot
    <3>1. s \in Requests /\ r \in Requests
      BY DEF OutInv, TypeOK
    <3>2. s.op = r.op /\ s.snapshot = r.snapshot /\ s.job = r.job /\ s.awaited = r.awaited
      BY <1>6, <2>1, <3>1 DEF OutInv, Local, Wired, Requests
    <3>3. s = r
      BY <3>1, <3>2 DEF Requests
    <3> QED
      BY <2>1, <3>3 DEF OutInv, Local, Wired
  <2>2. r.op \in Waiting
    BY DEF OutInv, TypeOK, Requests, Waiting
  <2> QED
    BY <1>2, <1>6, <2>1, <2>2
<1>7. wire' \subseteq wire /\ (UNCHANGED <<outbox, asked>> \/ \A s \in wire' : ~s.awaited)
  BY <1>2, <1>6
<1>8. Wired'
  BY <1>1, <1>7, ServingFrame, WiredStays
<1>9. Walks'
  BY <1>1, <1>2, ServingFrame DEF OutInv, Local, Walks
<1>10. Chronology'
  BY <1>1, <1>2, <1>7, ServingFrame, DeliverAnswers, ChronologyStays
<1>11. ASSUME NEW g \in Handlers, g # h
       PROVE  Truthful(g)' /\ \A m \in Manifests : About(g, m) => About(g, m)'
  BY <1>1, <1>11, ServingFrame, RequestStays
<1>12. Asked'
  <2>1. CASE r.awaited
    <3>1. asked' = h /\ outbox'.at \in Waiting /\ outbox'.snapshot = r.snapshot
      BY <1>2, <1>6, <2>1
    <3>2. About(h, r.snapshot)'
      BY DeliverAnswers
    <3> QED
      BY <1>2, <3>1, <3>2 DEF Asked, About, Promised, Has
  <2>2. CASE ~r.awaited
    <3>1. UNCHANGED <<outbox, asked>>
      BY <1>2, <2>2
    <3> QED
      BY <1>3, <1>11, <3>1 DEF OutInv, Local, TypeOK, Asked, Working, About, Promised, Has
  <2> QED
    BY <2>1, <2>2
<1>13. Answers'
  BY <1>11, DeliverAnswers DEF Answers
<1> QED
  BY <1>1, <1>4, <1>5, <1>8, <1>9, <1>10, <1>12, <1>13, ServingFrame DEF Local

--------------------------------------------------------------------------------
\* The invariant.

\* At first nothing is archived, asked or told.
LEMMA OutInitInv == Init => OutInv
<1> USE StoreConstants, IngressConstants, OutboxConstants
<1> SUFFICES ASSUME Init PROVE OutInv
  OBVIOUS
<1>1. StoreInit /\ IngressInit
  BY DEF Init
<1>2. IInv
  BY <1>1, InitInv
<1>3. /\ \A j \in Jobs : job[j] = Blank
      /\ Blank.phase = "absent" /\ Blank.manifest = Retention
      /\ active = NoJob /\ guard = Free
      /\ Free.save = NoJob /\ Free.lease = NoJob /\ Free.content = Blank
  BY <1>1 DEF StoreInit, Blank, Free
<1>4. \A h \in Handlers : request[h] = Idle /\ Idle.at = "idle"
  BY <1>1 DEF IngressInit, Idle
<1>5. Silent \in Answer /\ Silent.job = NoJob /\ Silent.phase = "absent"
  BY DEF Silent, Answer, Phases
<1>6. NoEntry \in Entry /\ NoEntry.phase = "none" /\ NoEntry.remote = NoJob /\ NoEntry.failures = 0
  BY DEF NoEntry, Entry
<1>7. /\ Rest.snapshot = NoManifest /\ [Rest EXCEPT !.at = "start"] \in Outbox
      /\ [Rest EXCEPT !.at = "start"].snapshot = NoManifest
      /\ [Rest EXCEPT !.at = "start"].at = "start"
  BY <1>5 DEF Rest, Outbox
<1>8. TypeOK
  <2>1. IngressTypeOK
    BY <1>1 DEF IngressInit, IngressTypeOK, Idle, RequestRecord
  <2> QED
    BY <1>2, <1>5, <1>6, <1>7, <2>1 DEF Init, TypeOK, IInv
<1>9. Present /\ Uploads
  BY <1>3, <1>4 DEF Present, Uploads, QueuedIsComplete, Accepted
<1>10. Entries
  BY <1>6 DEF Init, Entries, EntriesAreTrue
<1>11. Working /\ Wired /\ Asked
  BY <1>7 DEF Init, Working, Wired, Asked, Waiting
<1>12. Answers
  BY <1>4, <1>5 DEF Init, Answers, Truthful
<1>13. Walks
  BY FS_EmptySet DEF Init, Walks
<1>14. Chronology
  BY <1>3, <1>7 DEF Init, Chronology
<1> QED
  BY <1>2, <1>8, <1>9, <1>10, <1>11, <1>12, <1>13, <1>14 DEF OutInv, Local

\* Every step keeps it.
LEMMA OutNextInv ==
  ASSUME OutInv, [Next]_vars
  PROVE  OutInv'
<1>1. Stepped
  BY OutboxSteps DEF OutInv
<1>2. IInv'
  <2>1. [StoreNext]_storeVars
    BY <1>1, Entered DEF OutInv, Stepped, StoreNext
  <2> QED
    BY <2>1, NextInv DEF OutInv
<1>3. Present'
  BY <1>1, PresentKept DEF OutInv
<1>4. ASSUME NEW h \in Handlers, Serves(h) PROVE TypeOK' /\ Uploads' /\ Local'
  BY <1>4, UploadKeeps, SendKeeps, DeliverKeeps DEF Serves
<1>5. CASE UNCHANGED vars
  <2>1. UNCHANGED <<storeVars, ingressVars, outboxVars>>
    BY <1>5 DEF vars
  <2>2. TypeOK' /\ Uploads'
    BY <2>1 DEF OutInv, TypeOK, StoreTypeOK, IngressTypeOK, Uploads, QueuedIsComplete, Accepted,
                storeVars, ingressVars, outboxVars, queueVars, fileVars, clientVars, bounds
  <2>3. Entries' /\ Working' /\ Wired' /\ Asked'
    BY <2>1 DEF OutInv, Local, Entries, EntriesAreTrue, Working, Wired, Asked, TrueOf, About,
                Promised, Has, storeVars, ingressVars, outboxVars, queueVars, fileVars, clientVars
  <2>4. Answers' /\ Walks' /\ Chronology'
    BY <2>1 DEF OutInv, Local, Answers, Truthful, Walks, Chronology, Ahead, Older,
                storeVars, ingressVars, outboxVars, queueVars, fileVars, clientVars, bounds
  <2> QED
    BY <1>2, <1>3, <2>2, <2>3, <2>4 DEF OutInv, Local
<1>6. CASE Next
  <2>1. TypeOK' /\ Uploads' /\ Local'
    BY <1>4, <1>6, KindsOfSteps, ClientKeeps, HostKeeps, CrashKeeps
  <2> QED
    BY <1>2, <1>3, <2>1 DEF OutInv
<1> QED
  BY <1>5, <1>6

(***************************************************************************)
(* What queue, requests, ingress and store may count on, however requests   *)
(* are lost, late or repeated and whichever side dies (queue.go:233-343,    *)
(* sync_api.py:50-101).                                                     *)
(***************************************************************************)
THEOREM OutboxInvariant == Spec => []OutInv
<1>1. OutInv /\ [Next]_vars => OutInv'
  BY OutNextInv
<1> QED
  BY <1>1, OutInitInv, PTL DEF Spec

(***************************************************************************)
(* The ingress that serves the outbox, the worker's calls and the timer     *)
(* implement the store's specification (sync_state.py:45-139).              *)
(***************************************************************************)
THEOREM OutboxImplementsStore == Spec => StoreSpec
<1>1. Init => StoreInit
  BY DEF Init
<1>2. OutInv /\ [Next]_vars => [StoreNext]_storeVars
  BY OutboxSteps, Entered DEF OutInv, Stepped, StoreNext
<1> QED
  BY <1>1, <1>2, OutboxInvariant, PTL DEF Spec, StoreSpec

(***************************************************************************)
(* So a collector that retries what it does not know the outcome of still   *)
(* gets one accepted job for a snapshot, receipts that stick and phases     *)
(* that only advance (sync_state.py:78-139).                                *)
(***************************************************************************)
THEOREM OutboxKeepsStore ==
  Spec => []LeaseHeld /\ []OneJobPerSnapshot /\ ReceiptSticks /\ PhasesAdvance
BY OutboxImplementsStore, LeaseAlwaysHeld, SnapshotsAcceptedOnce, ReceiptsAlwaysStick,
   PhasesAlwaysAdvance

\* Every variable of the collector, the wire and the server keeps its type.
THEOREM OutboxTypes == Spec => []TypeOK
<1>1. OutInv => TypeOK
  BY DEF OutInv
<1> QED
  BY <1>1, OutboxInvariant, PTL

(***************************************************************************)
(* No retry, late request or crash gets a job queued whose snapshot is not  *)
(* complete on disk (sync_api.py:94-96).                                    *)
(***************************************************************************)
THEOREM RetriesQueueComplete == Spec => []QueuedIsComplete
<1>1. OutInv => QueuedIsComplete
  BY DEF OutInv, Uploads
<1> QED
  BY <1>1, OutboxInvariant, PTL

(***************************************************************************)
(* What the queue remembers is true: an entry's remote job carries its      *)
(* snapshot, a published entry was published (queue.go:233-262).            *)
(***************************************************************************)
THEOREM EntriesAlwaysTrue == Spec => []EntriesAreTrue
<1>1. OutInv => EntriesAreTrue
  BY DEF OutInv, Local, Entries
<1> QED
  BY <1>1, OutboxInvariant, PTL

(***************************************************************************)
(* Snapshots are accepted in the order of their capture, whatever crashes,  *)
(* failed writes and lost messages come between, unless the log told that   *)
(* an older entry could not be read or that a walk over the archives ended  *)
(* before it (queue.go:285-289, 310-329, 343-381).                          *)
(***************************************************************************)
THEOREM OvertakenAlwaysLogged == Spec => []OvertakenOnlyLogged
<1>1. OutInv => OvertakenOnlyLogged
  <2> SUFFICES ASSUME OutInv, NEW j \in Jobs, Accepted(j),
                      NEW m \in archived \cap Older(job[j].manifest)
               PROVE  entry[m].phase = "succeeded" \/ m \in logged
    BY DEF OvertakenOnlyLogged
  <2> QED
    BY DEF OutInv, Local, Chronology, Ahead, Accepted
<1> QED
  BY <1>1, OutboxInvariant, PTL

\* A step that changes an entry's remote job finds that job failed.
LEMMA RemoteStep ==
  ASSUME OutInv, [Next]_vars, NEW m \in Manifests,
         entry[m].remote # NoJob, entry'[m].remote # entry[m].remote
  PROVE  job[entry[m].remote].phase = "failed"
<1>1. CASE ClientStep
  <2>1. EntryChange(m)
    BY <1>1, EntryChanges DEF OutInv, Local
  <2>2. entry[m].phase # "none"
    BY DEF OutInv, Local, Entries
  <2>3. CASE EntrySaved(m)
    BY <2>3 DEF EntrySaved, OutInv, Local, Working
  <2>4. CASE EntryFailed(m)
    BY <2>4 DEF EntryFailed, OutInv, Local, Working
  <2> QED
    BY <2>1, <2>2, <2>3, <2>4 DEF EntryChange, EntryNew, EntryPrepared, EntryUploaded
<1>2. CASE HostStep
  BY <1>2, HostSteps DEF OutInv, queueVars
<1>3. ASSUME NEW h \in Handlers, Serves(h) PROVE UNCHANGED entry
  BY <1>3, ServingFrame
<1>4. CASE ServerCrash
  BY <1>4 DEF ServerCrash, queueVars
<1>5. CASE UNCHANGED vars
  BY <1>5 DEF vars, outboxVars, queueVars
<1> QED
  BY <1>1, <1>2, <1>3, <1>4, <1>5, KindsOfSteps

(***************************************************************************)
(* The queue lets go of a remote job only after it failed: one that may     *)
(* still publish, or whose publication is unknown, is never submitted anew  *)
(* (queue.go:246-262, BACKGROUND_COLLECTION.md:40).                         *)
(***************************************************************************)
THEOREM RemoteAlwaysKept == Spec => EntryKeepsRemote
<1>1. OutInv /\ [Next]_vars =>
        [\A m \in Manifests :
           entry[m].remote # NoJob /\ entry'[m].remote # entry[m].remote
             => job[entry[m].remote].phase = "failed"]_entry
  BY RemoteStep
<1> QED
  BY <1>1, OutboxInvariant, PTL DEF Spec, EntryKeepsRemote
================================================================================
