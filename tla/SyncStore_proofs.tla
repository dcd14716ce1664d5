---------------------------- MODULE SyncStore_proofs ----------------------------
(***************************************************************************)
(* Proofs about the job store (SyncStore), for any number of jobs,          *)
(* manifests, checksums and processes, and any number of crashes.           *)
(*                                                                         *)
(* The properties are about the files, but the guard holder writes them one *)
(* after the other, so the inductive invariant says of each write still to  *)
(* come that it will be right: IInv has one conjunct per kind of write.     *)
(*                                                                         *)
(* The second part are lemmas about the HTTP ingress (SyncIngress) on the   *)
(* store, for any number of request threads: what a request may write,      *)
(* which steps of the store its calls are, and what uploads may count on.   *)
(* The proofs about the two systems the ingress is part of                  *)
(* (SyncService_proofs, with the real worker, and SyncOutbox_proofs, with   *)
(* the real collector) use them.                                            *)
(***************************************************************************)
EXTENDS SyncIngress, TLAPS

\* Nobody in the guard: nothing left to write.
GuardIdle == guard.owner = Nobody => guard = Free

\* The upload to be expired holds the lease, which is then removed.
Expiring ==
  guard.expire # NoJob =>
    /\ guard.unlink /\ active = guard.expire
    /\ job[guard.expire].phase \in Uploading

\* A lease is removed when its job ended, or once it has been expired.
Unlinking ==
  guard.unlink =>
    /\ active # NoJob
    /\ guard.expire = active \/ job[active].phase \in Terminal

\* A job file is written for a new job, not in service yet, ...
WritingNew ==
  /\ guard.lease = guard.save /\ ~guard.drop
  /\ job[guard.save].phase = "absent"
  /\ \/ /\ guard.content.phase = "awaiting_upload" /\ guard.content.manifest \in Manifests
        /\ guard.receipt = guard.save
     \/ /\ guard.content.phase = "queued" /\ guard.content.manifest = Retention
        /\ guard.receipt = NoJob

\* ... or for one of Moves by the job that holds the lease.
WritingMove ==
  /\ guard.expire = NoJob /\ ~guard.unlink /\ guard.lease = NoJob /\ guard.receipt = NoJob
  /\ active = guard.save
  /\ guard.content.manifest = job[guard.save].manifest
  /\ <<job[guard.save].phase, guard.content.phase>> \in Moves
  /\ guard.drop <=> guard.content.phase \in Terminal

Saving == guard.save # NoJob => WritingNew \/ WritingMove

\* The manifest the pending receipt will be filed under.
PendingManifest ==
  IF guard.save = NoJob THEN job[guard.receipt].manifest ELSE guard.content.manifest

\* A receipt is written only over that of a failed job.
Binding ==
  guard.receipt # NoJob =>
    /\ guard.lease = guard.receipt
    /\ PendingManifest \in Manifests
    /\ receipt[ShaOf[PendingManifest]] # NoJob =>
         \/ receipt[ShaOf[PendingManifest]] = guard.expire
         \/ job[receipt[ShaOf[PendingManifest]]].phase = "failed"

\* The lease is given while nobody has it, to a job its receipt names.
Leasing ==
  guard.lease # NoJob =>
    /\ guard.unlink \/ active = NoJob
    /\ guard.save = NoJob /\ guard.receipt = NoJob =>
         \/ job[guard.lease].manifest = Retention
         \/ receipt[ShaOf[job[guard.lease].manifest]] = guard.lease

\* The lease is dropped by a job that ended.
Dropping ==
  guard.drop =>
    /\ guard.expire = NoJob /\ ~guard.unlink /\ guard.lease = NoJob /\ guard.receipt = NoJob
    /\ active # NoJob
    /\ guard.save = NoJob => job[active].phase \in Terminal

\* The files: the lease holder, and every accepted upload, has its receipt.
HolderBound ==
  active # NoJob /\ job[active].manifest # Retention =>
    receipt[ShaOf[job[active].manifest]] = active

AcceptedBound ==
  \A j \in Jobs : Accepted(j) => receipt[ShaOf[job[j].manifest]] = j

GuardInv == GuardIdle /\ Expiring /\ Unlinking /\ Saving /\ Binding /\ Leasing /\ Dropping

IInv == StoreTypeOK /\ GuardInv /\ HolderBound /\ AcceptedBound /\ LeaseHeld

--------------------------------------------------------------------------------

\* The initial states satisfy the invariant.
LEMMA InitInv == StoreInit => IInv
<1> SUFFICES ASSUME StoreInit PROVE IInv
  OBVIOUS
<1> USE StoreConstants DEF StoreInit, Free, Blank
<1>1. StoreTypeOK
  BY DEF StoreTypeOK, JobRecord, GuardRecord, Databases, LockStates, Phases, Uploading,
         Publishing, Terminal
<1>2. GuardInv
  BY DEF GuardInv, GuardIdle, Expiring, Unlinking, Saving, Binding, Leasing, Dropping
<1>3. HolderBound /\ AcceptedBound /\ LeaseHeld
  BY DEF HolderBound, AcceptedBound, Accepted, LeaseHeld, InService, Publishing
<1>4. QED
  BY <1>1, <1>2, <1>3 DEF IInv

--------------------------------------------------------------------------------
\* The writes of the guard holder.

\* An overdue upload is failed (sync_state.py:80-84): it leaves service and its checksum.
LEMMA WriteExpiredInv == IInv /\ WriteExpired => IInv'
<1> SUFFICES ASSUME IInv, WriteExpired PROVE IInv'
  OBVIOUS
<1> DEFINE e == guard.expire
<1>1. /\ e \in Jobs /\ e # NoJob /\ active = e /\ guard.unlink
      /\ job[e].phase \in Uploading
      /\ ~guard.drop
  BY DEF IInv, StoreTypeOK, GuardRecord, GuardInv, Expiring, Dropping, WriteExpired
<1>2. /\ job' = [job EXCEPT ![e].phase = "failed"]
      /\ guard' = [guard EXCEPT !.expire = NoJob]
      /\ UNCHANGED <<late, active, receipt, policy, lock>>
  BY DEF WriteExpired
<1>3. StoreTypeOK'
  BY <1>1, <1>2 DEF IInv, StoreTypeOK, JobRecord, GuardRecord, Phases, Terminal
<1>4. /\ guard'.expire = NoJob /\ guard'.owner = guard.owner /\ guard'.unlink = guard.unlink
      /\ guard'.save = guard.save /\ guard'.content = guard.content
      /\ guard'.receipt = guard.receipt /\ guard'.lease = guard.lease
      /\ guard'.drop = guard.drop
  BY <1>2 DEF IInv, StoreTypeOK, GuardRecord
<1>5. /\ \A j \in Jobs : job'[j].manifest = job[j].manifest
      /\ \A j \in Jobs : j # e => job'[j] = job[j]
      /\ job'[e].phase = "failed"
  BY <1>1, <1>2 DEF IInv, StoreTypeOK, JobRecord
<1>6. GuardInv'
  <2>1. GuardIdle' /\ Expiring' /\ Unlinking' /\ Dropping'
    BY <1>1, <1>2, <1>4, <1>5 DEF IInv, GuardInv, GuardIdle, Expiring, Unlinking, Dropping,
                                  Terminal, Free
  <2>2. Saving'
    <3>1. CASE guard.save = NoJob
      BY <1>4, <3>1 DEF Saving
    <3>2. CASE guard.save # NoJob
      <4>1. WritingNew
        BY <1>1, <3>2 DEF IInv, GuardInv, Saving, WritingMove
      <4>2. guard.save \in Jobs /\ guard.save # e
        <5>1. guard.save \in Jobs
          BY <1>1, <3>2 DEF IInv, StoreTypeOK, GuardRecord
        <5>2. guard.save # e
          BY <1>1, <4>1 DEF WritingNew, Uploading
        <5> QED
          BY <5>1, <5>2
      <4>3. job'[guard.save] = job[guard.save]
        BY <1>5, <4>2
      <4>4. WritingNew'
        BY <1>4, <4>1, <4>3 DEF WritingNew
      <4> QED
        BY <4>4 DEF Saving
    <3> QED
      BY <3>1, <3>2
  <2>3. Binding'
    BY <1>1, <1>2, <1>4, <1>5, StoreConstants
       DEF IInv, GuardInv, Binding, PendingManifest, StoreTypeOK, GuardRecord
  <2>4. Leasing'
    <3>1. Leasing /\ guard.lease \in Jobs \cup {NoJob}
      BY <1>1 DEF IInv, GuardInv, StoreTypeOK, GuardRecord
    <3> QED
      BY <1>1, <1>2, <1>4, <1>5, <3>1 DEF Leasing
  <2>5. QED
    BY <2>1, <2>2, <2>3, <2>4 DEF GuardInv
<1>7. HolderBound'
  BY <1>1, <1>2, <1>5 DEF IInv, HolderBound
<1>8. AcceptedBound'
  BY <1>1, <1>2, <1>5 DEF IInv, AcceptedBound, Accepted
<1>9. LeaseHeld'
  BY <1>1, <1>2, <1>5 DEF IInv, LeaseHeld, InService, Publishing
<1>10. QED
  BY <1>3, <1>6, <1>7, <1>8, <1>9 DEF IInv

\* active.json is removed (line 85): the job it named has ended by now.
LEMMA UnlinkStaleInv == IInv /\ UnlinkStale => IInv'
<1> SUFFICES ASSUME IInv, UnlinkStale PROVE IInv'
  OBVIOUS
<1>1. /\ guard.expire = NoJob /\ guard.unlink /\ ~guard.drop
      /\ active \in Jobs /\ job[active].phase \in Terminal
  BY DEF IInv, StoreTypeOK, GuardInv, Unlinking, Dropping, UnlinkStale
<1>2. /\ active' = NoJob
      /\ guard' = [guard EXCEPT !.unlink = FALSE]
      /\ UNCHANGED <<job, late, receipt, policy, lock>>
  BY DEF UnlinkStale
<1>3. StoreTypeOK'
  BY <1>2 DEF IInv, StoreTypeOK, GuardRecord
<1>4. /\ guard'.expire = NoJob /\ guard'.owner = guard.owner /\ ~guard'.unlink
      /\ guard'.save = guard.save /\ guard'.content = guard.content
      /\ guard'.receipt = guard.receipt /\ guard'.lease = guard.lease
      /\ guard'.drop = guard.drop
  BY <1>1, <1>2 DEF IInv, StoreTypeOK, GuardRecord
<1>5. GuardInv'
  <2>1. GuardIdle' /\ Expiring' /\ Unlinking' /\ Dropping'
    BY <1>1, <1>2, <1>4 DEF IInv, GuardInv, GuardIdle, Expiring, Unlinking, Dropping, Free
  <2>2. Saving'
    BY <1>1, <1>2, <1>4 DEF IInv, GuardInv, Saving, WritingNew, WritingMove
  <2>3. Binding' /\ Leasing'
    BY <1>1, <1>2, <1>4 DEF IInv, GuardInv, Binding, PendingManifest, Leasing
  <2>4. QED
    BY <2>1, <2>2, <2>3 DEF GuardInv
<1>6. HolderBound' /\ AcceptedBound'
  BY <1>2 DEF IInv, HolderBound, AcceptedBound, Accepted
<1>7. LeaseHeld'
  BY <1>1, <1>2 DEF IInv, LeaseHeld, InService, Publishing, Terminal
<1>8. QED
  BY <1>3, <1>5, <1>6, <1>7 DEF IInv

\* The file of a new job, which nothing refers to yet.
LEMMA WriteNewJobInv == IInv /\ WriteJob /\ WritingNew => IInv'
<1> SUFFICES ASSUME IInv, WriteJob, WritingNew PROVE IInv'
  OBVIOUS
<1> DEFINE n == guard.save
<1>1. /\ n \in Jobs /\ n # NoJob /\ guard.lease = n /\ job[n].phase = "absent"
      /\ guard.expire = NoJob /\ ~guard.unlink /\ ~guard.drop
      /\ active = NoJob
      /\ guard.content \in JobRecord
  BY DEF IInv, StoreTypeOK, GuardRecord, GuardInv, Leasing, WriteJob, WritingNew
<1>2. \/ /\ guard.content.phase = "awaiting_upload" /\ guard.content.manifest \in Manifests
         /\ guard.receipt = n
      \/ /\ guard.content.phase = "queued" /\ guard.content.manifest = Retention
         /\ guard.receipt = NoJob
  BY DEF WritingNew
<1>3. /\ job' = [job EXCEPT ![n] = guard.content]
      /\ guard' = [guard EXCEPT !.save = NoJob, !.content = Blank]
      /\ UNCHANGED <<late, active, receipt, policy, lock>>
  BY DEF WriteJob
<1>4. StoreTypeOK'
  BY <1>1, <1>3, StoreConstants
     DEF IInv, StoreTypeOK, GuardRecord, JobRecord, Blank, Phases, Databases
<1>5. /\ guard'.expire = NoJob /\ guard'.owner = guard.owner /\ ~guard'.unlink
      /\ guard'.save = NoJob /\ guard'.receipt = guard.receipt
      /\ guard'.lease = n /\ ~guard'.drop
  BY <1>1, <1>3 DEF IInv, StoreTypeOK, GuardRecord
<1>6. /\ \A j \in Jobs : j # n => job'[j] = job[j]
      /\ job'[n] = guard.content
  BY <1>1, <1>3 DEF IInv, StoreTypeOK
<1>7. GuardInv'
  <2>1. GuardIdle' /\ Expiring' /\ Unlinking' /\ Dropping' /\ Saving'
    BY <1>1, <1>3, <1>5 DEF IInv, GuardInv, GuardIdle, Expiring, Unlinking, Dropping, Saving, Free
  <2>2. CASE guard.receipt = n
    <3>1. guard.content.manifest \in Manifests
      BY <1>1, <1>2, <2>2
    <3>2. /\ PendingManifest = guard.content.manifest
          /\ PendingManifest' = guard.content.manifest
      BY <1>1, <1>5, <1>6, <2>2 DEF PendingManifest
    <3> DEFINE k == receipt[ShaOf[guard.content.manifest]]
    <3>3. k \in Jobs \cup {NoJob} /\ (k # NoJob => k # n /\ job[k].phase = "failed")
      BY <1>1, <2>2, <3>1, <3>2, StoreConstants DEF IInv, StoreTypeOK, GuardInv, Binding
    <3>4. Binding'
      BY <1>3, <1>5, <1>6, <2>2, <3>1, <3>2, <3>3 DEF Binding
    <3>5. Leasing'
      BY <1>1, <1>3, <1>5, <2>2 DEF Leasing
    <3>6. QED
      BY <2>1, <3>4, <3>5 DEF GuardInv
  <2>3. CASE guard.receipt = NoJob
    BY <1>1, <1>2, <1>3, <1>5, <1>6, <2>1, <2>3 DEF GuardInv, Binding, Leasing
  <2>4. QED
    BY <1>2, <2>2, <2>3
<1>8. HolderBound'
  BY <1>1, <1>3 DEF HolderBound
<1>9. AcceptedBound'
  BY <1>2, <1>3, <1>6 DEF IInv, AcceptedBound, Accepted
<1>10. LeaseHeld'
  BY <1>2, <1>3, <1>6 DEF IInv, LeaseHeld, InService, Publishing
<1>11. QED
  BY <1>4, <1>7, <1>8, <1>9, <1>10 DEF IInv

\* The file of the lease holder, in its next phase.
LEMMA WriteMoveInv == IInv /\ WriteJob /\ WritingMove => IInv'
<1> SUFFICES ASSUME IInv, WriteJob, WritingMove PROVE IInv'
  OBVIOUS
<1> DEFINE n == guard.save
<1>1. /\ n \in Jobs /\ n # NoJob /\ active = n
      /\ guard.expire = NoJob /\ ~guard.unlink /\ guard.lease = NoJob /\ guard.receipt = NoJob
      /\ guard.content \in JobRecord
      /\ guard.content.manifest = job[n].manifest
      /\ guard.drop <=> guard.content.phase \in Terminal
  BY DEF IInv, StoreTypeOK, GuardRecord, WriteJob, WritingMove
<1>2. /\ job' = [job EXCEPT ![n] = guard.content]
      /\ guard' = [guard EXCEPT !.save = NoJob, !.content = Blank]
      /\ UNCHANGED <<late, active, receipt, policy, lock>>
  BY DEF WriteJob
<1>3. StoreTypeOK'
  BY <1>1, <1>2, StoreConstants
     DEF IInv, StoreTypeOK, GuardRecord, JobRecord, Blank, Phases, Databases
<1>4. /\ guard'.expire = NoJob /\ guard'.owner = guard.owner /\ ~guard'.unlink
      /\ guard'.save = NoJob /\ guard'.receipt = NoJob
      /\ guard'.lease = NoJob /\ guard'.drop = guard.drop
  BY <1>1, <1>2 DEF IInv, StoreTypeOK, GuardRecord
<1>5. /\ \A j \in Jobs : j # n => job'[j] = job[j]
      /\ job'[n] = guard.content
      /\ \A j \in Jobs : job'[j].manifest = job[j].manifest
  BY <1>1, <1>2 DEF IInv, StoreTypeOK
<1>6. GuardInv'
  BY <1>1, <1>2, <1>4, <1>5
     DEF IInv, GuardInv, GuardIdle, Expiring, Unlinking, Dropping, Saving, Binding, Leasing, Free
<1>7. HolderBound'
  BY <1>1, <1>2, <1>5 DEF IInv, HolderBound
<1>8. AcceptedBound'
  BY <1>1, <1>2, <1>5 DEF IInv, AcceptedBound, Accepted, HolderBound
<1>9. LeaseHeld'
  BY <1>1, <1>2, <1>5 DEF IInv, LeaseHeld, InService
<1>10. QED
  BY <1>3, <1>6, <1>7, <1>8, <1>9 DEF IInv

\* The checksum of a new job is bound to it (line 109), over at most a failed one.
LEMMA WriteReceiptInv == IInv /\ WriteReceipt => IInv'
<1> SUFFICES ASSUME IInv, WriteReceipt PROVE IInv'
  OBVIOUS
<1> DEFINE n == guard.receipt
           m == job[n].manifest
<1>1. /\ n \in Jobs /\ n # NoJob /\ guard.lease = n
      /\ guard.expire = NoJob /\ ~guard.unlink /\ guard.save = NoJob /\ ~guard.drop
      /\ active = NoJob
      /\ m \in Manifests /\ ShaOf[m] \in Shas
  BY StoreConstants
     DEF IInv, StoreTypeOK, GuardRecord, GuardInv, Binding, PendingManifest, Leasing, Dropping,
         WriteReceipt
<1>2. receipt[ShaOf[m]] # NoJob => job[receipt[ShaOf[m]]].phase = "failed"
  BY <1>1 DEF IInv, GuardInv, Binding, PendingManifest
<1>3. /\ receipt' = [receipt EXCEPT ![ShaOf[m]] = n]
      /\ guard' = [guard EXCEPT !.receipt = NoJob]
      /\ UNCHANGED <<job, late, active, policy, lock>>
  BY DEF WriteReceipt
<1>4. StoreTypeOK'
  BY <1>1, <1>3 DEF IInv, StoreTypeOK, GuardRecord
<1>5. /\ guard'.expire = NoJob /\ guard'.owner = guard.owner /\ ~guard'.unlink
      /\ guard'.save = NoJob /\ guard'.receipt = NoJob
      /\ guard'.lease = n /\ ~guard'.drop
  BY <1>1, <1>3 DEF IInv, StoreTypeOK, GuardRecord
<1>6. /\ receipt'[ShaOf[m]] = n
      /\ \A s \in Shas : s # ShaOf[m] => receipt'[s] = receipt[s]
  BY <1>1, <1>3 DEF IInv, StoreTypeOK
<1>7. GuardInv'
  BY <1>1, <1>3, <1>5, <1>6
     DEF IInv, GuardInv, GuardIdle, Expiring, Unlinking, Dropping, Saving, Binding, Leasing, Free
<1>8. HolderBound'
  BY <1>1, <1>3 DEF HolderBound
<1>9. AcceptedBound'
  <2> SUFFICES ASSUME NEW j \in Jobs, Accepted(j)'
               PROVE  receipt'[ShaOf[job[j].manifest]] = j
    BY <1>3 DEF AcceptedBound
  <2>1. Accepted(j) /\ job[j].manifest \in Manifests
    BY <1>3 DEF Accepted, IInv, StoreTypeOK, JobRecord
  <2>2. receipt[ShaOf[job[j].manifest]] = j /\ ShaOf[job[j].manifest] \in Shas
    BY <2>1, StoreConstants DEF IInv, AcceptedBound
  <2>3. j # NoJob /\ job[j].phase # "failed"
    BY <2>1, StoreConstants DEF Accepted
  <2>4. ShaOf[job[j].manifest] # ShaOf[m]
    BY <1>2, <2>2, <2>3
  <2>5. QED
    BY <1>6, <2>2, <2>4
<1>10. LeaseHeld'
  BY <1>3 DEF IInv, LeaseHeld, InService
<1>11. QED
  BY <1>4, <1>7, <1>8, <1>9, <1>10 DEF IInv

\* active.json is written (lines 97, 110) while nobody is in service.
LEMMA WriteLeaseInv == IInv /\ WriteLease => IInv'
<1> SUFFICES ASSUME IInv, WriteLease PROVE IInv'
  OBVIOUS
<1> DEFINE n == guard.lease
<1>1. /\ n \in Jobs /\ n # NoJob /\ active = NoJob
      /\ guard.expire = NoJob /\ ~guard.unlink /\ guard.save = NoJob /\ ~guard.drop
      /\ guard.receipt = NoJob
      /\ job[n].manifest = Retention \/ receipt[ShaOf[job[n].manifest]] = n
  BY DEF IInv, StoreTypeOK, GuardRecord, GuardInv, Leasing, Dropping, WriteLease
<1>2. /\ active' = n
      /\ guard' = [guard EXCEPT !.lease = NoJob]
      /\ UNCHANGED <<job, late, receipt, policy, lock>>
  BY DEF WriteLease
<1>3. StoreTypeOK'
  BY <1>1, <1>2 DEF IInv, StoreTypeOK, GuardRecord
<1>4. /\ guard'.expire = NoJob /\ guard'.owner = guard.owner /\ ~guard'.unlink
      /\ guard'.save = NoJob /\ guard'.receipt = NoJob
      /\ guard'.lease = NoJob /\ ~guard'.drop
  BY <1>1, <1>2 DEF IInv, StoreTypeOK, GuardRecord
<1>5. GuardInv'
  BY <1>1, <1>2, <1>4
     DEF IInv, GuardInv, GuardIdle, Expiring, Unlinking, Dropping, Saving, Binding, Leasing, Free
<1>6. HolderBound'
  BY <1>1, <1>2 DEF HolderBound
<1>7. AcceptedBound'
  BY <1>2 DEF IInv, AcceptedBound, Accepted
<1>8. LeaseHeld'
  \* nobody was in service, as nobody had the lease
  BY <1>1, <1>2, StoreConstants DEF IInv, LeaseHeld, InService
<1>9. QED
  BY <1>3, <1>5, <1>6, <1>7, <1>8 DEF IInv

\* transition() removes the lease of the job it ended (lines 137-138).
LEMMA DropLeaseInv == IInv /\ DropLease => IInv'
<1> SUFFICES ASSUME IInv, DropLease PROVE IInv'
  OBVIOUS
<1>1. /\ guard.drop /\ guard.expire = NoJob /\ ~guard.unlink /\ guard.save = NoJob
      /\ guard.lease = NoJob /\ guard.receipt = NoJob
      /\ active \in Jobs /\ job[active].phase \in Terminal
  BY DEF IInv, StoreTypeOK, GuardInv, Dropping, DropLease
<1>2. /\ active' = NoJob
      /\ guard' = [guard EXCEPT !.drop = FALSE]
      /\ UNCHANGED <<job, late, receipt, policy, lock>>
  BY DEF DropLease
<1>3. StoreTypeOK'
  BY <1>2 DEF IInv, StoreTypeOK, GuardRecord
<1>4. /\ guard'.expire = NoJob /\ guard'.owner = guard.owner /\ ~guard'.unlink
      /\ guard'.save = NoJob /\ guard'.receipt = NoJob
      /\ guard'.lease = NoJob /\ ~guard'.drop
  BY <1>1, <1>2 DEF IInv, StoreTypeOK, GuardRecord
<1>5. GuardInv'
  BY <1>1, <1>2, <1>4
     DEF IInv, GuardInv, GuardIdle, Expiring, Unlinking, Dropping, Saving, Binding, Leasing, Free
<1>6. HolderBound' /\ AcceptedBound'
  BY <1>2 DEF IInv, HolderBound, AcceptedBound, Accepted
<1>7. LeaseHeld'
  BY <1>1, <1>2 DEF IInv, LeaseHeld, InService, Publishing, Terminal
<1>8. QED
  BY <1>3, <1>5, <1>6, <1>7 DEF IInv

\* Every write keeps the invariant.
LEMMA StoreWriteInv == IInv /\ StoreWrite => IInv'
<1> SUFFICES ASSUME IInv, StoreWrite PROVE IInv'
  OBVIOUS
<1>1. CASE WriteJob
  BY <1>1, WriteNewJobInv, WriteMoveInv DEF IInv, GuardInv, Saving, WriteJob
<1>2. QED
  BY <1>1, WriteExpiredInv, UnlinkStaleInv, WriteReceiptInv, WriteLeaseInv, DropLeaseInv
     DEF StoreWrite

--------------------------------------------------------------------------------
\* What is decided on entering the guard.

\* active() decides to expire the holder, to remove its lease, or neither.
LEMMA ActiveWritesRight ==
  ASSUME IInv
  PROVE  /\ ActiveWrites \in GuardRecord
         /\ ActiveWrites.owner = Nobody /\ ActiveWrites.save = NoJob
         /\ ActiveWrites.content = Blank /\ ActiveWrites.receipt = NoJob
         /\ ActiveWrites.lease = NoJob /\ ActiveWrites.drop = FALSE
         /\ ActiveWrites.expire # NoJob =>
              /\ ActiveWrites.unlink /\ active = ActiveWrites.expire
              /\ job[ActiveWrites.expire].phase \in Uploading
         /\ ActiveWrites.unlink =>
              /\ active # NoJob
              /\ ActiveWrites.expire = active \/ job[active].phase \in Terminal
         /\ ActiveJob = NoJob => ActiveWrites.unlink \/ active = NoJob
<1> USE StoreConstants
<1>1. Free \in GuardRecord
  BY DEF Free, GuardRecord, Blank, JobRecord, Phases, Databases
<1>2. active \in Jobs \cup {NoJob}
  BY DEF IInv, StoreTypeOK
<1>3. /\ ActiveWrites.owner = Nobody /\ ActiveWrites.save = NoJob
      /\ ActiveWrites.content = Blank /\ ActiveWrites.receipt = NoJob
      /\ ActiveWrites.lease = NoJob /\ ActiveWrites.drop = FALSE
      /\ ActiveWrites.expire = IF active # NoJob /\ Expired(active) THEN active ELSE NoJob
      /\ ActiveWrites.unlink = (active # NoJob /\ ActiveJob = NoJob)
  BY DEF ActiveWrites, Free
<1>4. ActiveWrites \in GuardRecord
  BY <1>1, <1>2 DEF ActiveWrites, GuardRecord
<1>5. QED
  BY <1>2, <1>3, <1>4 DEF ActiveJob, Expired

\* Entering changes no file; what it still has to show is about its writes.
LEMMA EnterKeeps ==
  ASSUME IInv, NEW p \in Procs, NEW w \in GuardRecord, Enter(p, w)
  PROVE  /\ UNCHANGED <<job, late, active, receipt, policy, lock>>
         /\ guard'.owner = p /\ guard'.expire = w.expire /\ guard'.unlink = w.unlink
         /\ guard'.save = w.save /\ guard'.content = w.content /\ guard'.receipt = w.receipt
         /\ guard'.lease = w.lease /\ guard'.drop = w.drop
         /\ StoreTypeOK' /\ GuardIdle' /\ HolderBound' /\ AcceptedBound' /\ LeaseHeld'
<1>1. /\ UNCHANGED <<job, late, active, receipt, policy, lock>>
      /\ guard' = [w EXCEPT !.owner = p]
  BY DEF Enter
<1>2. /\ guard'.owner = p /\ guard'.expire = w.expire /\ guard'.unlink = w.unlink
      /\ guard'.save = w.save /\ guard'.content = w.content /\ guard'.receipt = w.receipt
      /\ guard'.lease = w.lease /\ guard'.drop = w.drop
  BY <1>1 DEF GuardRecord
<1>3. StoreTypeOK'
  BY <1>1 DEF IInv, StoreTypeOK, GuardRecord
<1>4. GuardIdle'
  BY <1>2, StoreConstants DEF GuardIdle
<1>5. HolderBound' /\ AcceptedBound' /\ LeaseHeld'
  BY <1>1 DEF IInv, HolderBound, AcceptedBound, Accepted, LeaseHeld, InService
<1>6. QED
  BY <1>1, <1>2, <1>3, <1>4, <1>5

\* A caller that only reads active() keeps the invariant.
LEMMA ReadActiveInv ==
  ASSUME IInv, NEW p \in Procs, ReadActive(p) PROVE IInv'
<1>1. Enter(p, ActiveWrites)
  BY DEF ReadActive
<1>2. GuardInv'
  BY <1>1, ActiveWritesRight, EnterKeeps, StoreConstants
     DEF GuardInv, Expiring, Unlinking, Saving, Binding, Leasing, Dropping
<1>3. QED
  BY <1>1, <1>2, ActiveWritesRight, EnterKeeps DEF IInv

\* A caller that writes nothing by active() keeps the invariant.
LEMMA TakeGuardInv ==
  ASSUME IInv, NEW p \in Procs, TakeGuard(p) PROVE IInv'
<1>1. Enter(p, Free)
  BY DEF TakeGuard
<1>2. Free \in GuardRecord
  BY StoreConstants DEF Free, GuardRecord, Blank, JobRecord, Phases, Databases
<1>3. GuardInv'
  BY <1>1, <1>2, EnterKeeps
     DEF GuardInv, Expiring, Unlinking, Saving, Binding, Leasing, Dropping, Free
<1>4. QED
  BY <1>1, <1>2, <1>3, EnterKeeps DEF IInv

\* A previous job is the one its checksum's receipt names, as HolderBound asks.
LEMMA CreateExistingInv ==
  ASSUME IInv, NEW p \in Procs, NEW m \in Manifests, CreateExisting(p, m) PROVE IInv'
<1> DEFINE l == IF job[Previous(m)].phase \notin Terminal /\ ActiveJob = NoJob
                THEN Previous(m) ELSE NoJob
           w == [ActiveWrites EXCEPT !.lease = l]
<1>1. Enter(p, w) /\ Reusable(m)
  BY DEF CreateExisting
<1>2. /\ Previous(m) \in Jobs /\ job[Previous(m)].manifest = m
      /\ receipt[ShaOf[m]] = Previous(m)
  BY <1>1, StoreConstants DEF Reusable, Previous, IInv, StoreTypeOK
<1>3. l \in Jobs \cup {NoJob} /\ (l # NoJob => l = Previous(m) /\ ActiveJob = NoJob)
  BY <1>2
<1> HIDE DEF l
<1>4. /\ w \in GuardRecord
      /\ w.owner = Nobody /\ w.save = NoJob /\ w.receipt = NoJob /\ w.drop = FALSE
      /\ w.expire = ActiveWrites.expire /\ w.unlink = ActiveWrites.unlink /\ w.lease = l
  BY <1>3, ActiveWritesRight DEF GuardRecord
<1> HIDE DEF w
<1>5. Expiring' /\ Unlinking' /\ Saving' /\ Binding' /\ Dropping'
  BY <1>1, <1>4, ActiveWritesRight, EnterKeeps DEF Expiring, Unlinking, Saving, Binding, Dropping
<1>6. Leasing'
  BY <1>1, <1>2, <1>3, <1>4, ActiveWritesRight, EnterKeeps DEF Leasing
<1>7. QED
  BY <1>1, <1>4, <1>5, <1>6, EnterKeeps DEF IInv, GuardInv

\* A fresh checksum has no receipt, or that of a job that failed or now fails.
LEMMA FreshBinding ==
  ASSUME IInv, NEW m \in Manifests, Fresh(m), Previous(m) # NoJob
  PROVE  Previous(m) = ActiveWrites.expire \/ job[Previous(m)].phase = "failed"
BY StoreConstants
   DEF Fresh, Rebound, Reusable, PhaseNow, ActiveWrites, Free, Expired, Uploading

\* create() of a new job plans its three files (lines 103-110).
LEMMA CreateNewInv ==
  ASSUME IInv, NEW p \in Procs, NEW m \in Manifests, NEW j \in Jobs, CreateNew(p, m, j)
  PROVE  IInv'
<1> DEFINE c == [Blank EXCEPT !.phase = "awaiting_upload", !.manifest = m]
           w == [ActiveWrites EXCEPT !.save = j, !.receipt = j, !.lease = j, !.content = c]
<1>1. /\ Enter(p, w) /\ Fresh(m) /\ ActiveJob = NoJob /\ job[j].phase = "absent" /\ j # NoJob
  BY StoreConstants DEF CreateNew, Vacant
<1>2. c \in JobRecord /\ c.phase = "awaiting_upload" /\ c.manifest = m
  BY StoreConstants DEF JobRecord, Blank, Phases, Uploading, Databases
<1> HIDE DEF c
<1>3. /\ w \in GuardRecord
      /\ w.owner = Nobody /\ w.save = j /\ w.receipt = j /\ w.lease = j /\ w.content = c
      /\ w.drop = FALSE
      /\ w.expire = ActiveWrites.expire /\ w.unlink = ActiveWrites.unlink
  BY <1>2, ActiveWritesRight DEF GuardRecord
<1> HIDE DEF w
<1>4. Expiring' /\ Unlinking' /\ Dropping' /\ Leasing'
  BY <1>1, <1>3, ActiveWritesRight, EnterKeeps DEF Expiring, Unlinking, Dropping, Leasing
<1>5. Saving'
  BY <1>1, <1>2, <1>3, EnterKeeps DEF Saving, WritingNew
<1>6. Binding'
  <2>1. PendingManifest' = m
    BY <1>1, <1>2, <1>3, EnterKeeps DEF PendingManifest
  <2>2. QED
    BY <1>1, <1>3, <2>1, EnterKeeps, FreshBinding DEF Binding, Previous
<1>7. QED
  BY <1>1, <1>3, <1>4, <1>5, <1>6, EnterKeeps DEF IInv, GuardInv

\* schedule_retention() plans a job without a receipt (lines 113-128).
LEMMA ScheduleRetentionInv ==
  ASSUME IInv, NEW p \in Procs, NEW j \in Jobs, ScheduleRetention(p, j) PROVE IInv'
<1> DEFINE c == [Blank EXCEPT !.phase = "queued"]
           w == [ActiveWrites EXCEPT !.save = j, !.lease = j, !.content = c]
<1>1. Enter(p, w) /\ ActiveJob = NoJob /\ job[j].phase = "absent" /\ j # NoJob
  BY StoreConstants DEF ScheduleRetention, Vacant
<1>2. c \in JobRecord /\ c.phase = "queued" /\ c.manifest = Retention
  BY StoreConstants DEF JobRecord, Blank, Phases, Databases
<1> HIDE DEF c
<1>3. /\ w \in GuardRecord
      /\ w.owner = Nobody /\ w.save = j /\ w.receipt = NoJob /\ w.lease = j /\ w.content = c
      /\ w.drop = FALSE
      /\ w.expire = ActiveWrites.expire /\ w.unlink = ActiveWrites.unlink
  BY <1>2, ActiveWritesRight DEF GuardRecord
<1> HIDE DEF w
<1>4. Expiring' /\ Unlinking' /\ Dropping' /\ Leasing' /\ Binding'
  BY <1>1, <1>3, ActiveWritesRight, EnterKeeps DEF Expiring, Unlinking, Dropping, Leasing, Binding
<1>5. Saving'
  BY <1>1, <1>2, <1>3, EnterKeeps DEF Saving, WritingNew
<1>6. QED
  BY <1>1, <1>3, <1>4, <1>5, EnterKeeps DEF IInv, GuardInv

\* The phases of a move are phases.
LEMMA MovePhases ==
  \A move \in Moves : move[1] \in Phases /\ move[2] \in Phases
BY DEF Moves, Phases, Uploading, Publishing, Terminal

\* transition() plans the holder's next phase (lines 130-139).
LEMMA TransitionInv ==
  ASSUME IInv, NEW p \in Procs, NEW j \in Jobs, NEW move \in Moves, job[j].phase = move[1],
         NEW base \in Databases \cup {NoJob}, NEW changed \in BOOLEAN,
         Transition(p, j, {move[1]},
           [job[j] EXCEPT !.phase = move[2], !.base = base, !.changed = changed])
  PROVE  IInv'
<1> DEFINE c == [job[j] EXCEPT !.phase = move[2], !.base = base, !.changed = changed]
           d == c.phase \in Terminal
           w == [Free EXCEPT !.save = j, !.content = c, !.drop = d]
<1>1. Enter(p, w) /\ ActiveJob = j
  BY DEF Transition, MayMove
<1>2. active = j /\ j # NoJob
  BY <1>1, StoreConstants DEF ActiveJob
<1>3. /\ c \in JobRecord /\ c.manifest = job[j].manifest
      /\ c.phase = move[2] /\ <<job[j].phase, c.phase>> \in Moves
  <2>1. job[j] \in JobRecord /\ move[1] \in Phases /\ move[2] \in Phases
    BY MovePhases DEF IInv, StoreTypeOK
  <2>2. move = <<move[1], move[2]>>
    BY DEF Moves, Publishing
  <2>3. c \in JobRecord /\ c.manifest = job[j].manifest /\ c.phase = move[2]
    BY <2>1 DEF JobRecord
  <2>4. QED
    BY <2>2, <2>3
<1> HIDE DEF c
<1>4. d \in BOOLEAN /\ (d <=> c.phase \in Terminal)
  OBVIOUS
<1> HIDE DEF d
<1>5. /\ w \in GuardRecord
      /\ w.owner = Nobody /\ w.expire = NoJob /\ w.unlink = FALSE /\ w.save = j
      /\ w.content = c /\ w.receipt = NoJob /\ w.lease = NoJob /\ w.drop = d
  BY <1>3, <1>4 DEF GuardRecord, Free
<1> HIDE DEF w
<1>6. Expiring' /\ Unlinking' /\ Dropping' /\ Leasing' /\ Binding'
  BY <1>1, <1>2, <1>5, EnterKeeps DEF Expiring, Unlinking, Dropping, Leasing, Binding
<1>7. Saving'
  BY <1>1, <1>2, <1>3, <1>4, <1>5, EnterKeeps DEF Saving, WritingMove
<1>8. QED
  BY <1>1, <1>5, <1>6, <1>7, EnterKeeps DEF IInv, GuardInv

\* Whatever a caller starts keeps the invariant.
LEMMA CallInv ==
  ASSUME IInv, NEW p \in Procs, Call(p) PROVE IInv'
<1>1. CASE TakeGuard(p)
  BY <1>1, TakeGuardInv
<1>2. CASE ReadActive(p)
  BY <1>2, ReadActiveInv
<1>3. CASE \E m \in Manifests :
             \/ CreateExisting(p, m) \/ CreateRejected(p, m) \/ CreateBusy(p, m)
             \/ \E j \in Jobs : CreateNew(p, m, j)
  BY <1>3, CreateExistingInv, CreateNewInv, ReadActiveInv DEF CreateRejected, CreateBusy
<1>4. CASE \E j \in Jobs : ScheduleRetention(p, j)
  BY <1>4, ScheduleRetentionInv
<1>5. CASE \E j \in Jobs, move \in Moves :
             /\ job[j].phase = move[1]
             /\ \E base \in Databases \cup {NoJob}, changed \in BOOLEAN :
                  Transition(p, j, {move[1]},
                    [job[j] EXCEPT !.phase = move[2], !.base = base, !.changed = changed])
  BY <1>5, TransitionInv
<1>6. QED
  BY <1>1, <1>2, <1>3, <1>4, <1>5 DEF Call

--------------------------------------------------------------------------------
\* The remaining steps change no job, lease or receipt.

\* Leaving the guard, dying in it, the policy, deadlines and the dataset lock.
LEMMA OtherStepsInv ==
  ASSUME IInv,
         \/ Release
         \/ \E p \in Procs : Die(p) \/ WritePolicy(p)
         \/ \E j \in Jobs : PassDeadline(j)
         \/ \E state \in LockStates : SetLock(state)
         \/ UNCHANGED storeVars
  PROVE  IInv'
<1>1. Free \in GuardRecord
  BY StoreConstants DEF Free, GuardRecord, Blank, JobRecord, Phases, Databases
<1>2. /\ UNCHANGED <<job, active, receipt>>
      /\ guard' = guard \/ guard' = Free
      /\ late' \in [Jobs -> BOOLEAN] /\ policy' \in BOOLEAN /\ lock' \in LockStates
  BY DEF IInv, StoreTypeOK, Release, Die, DropGuard, WritePolicy, PassDeadline, SetLock, storeVars
<1>3. StoreTypeOK'
  BY <1>1, <1>2 DEF IInv, StoreTypeOK
<1>4. HolderBound' /\ AcceptedBound' /\ LeaseHeld'
  BY <1>2 DEF IInv, HolderBound, AcceptedBound, Accepted, LeaseHeld, InService
<1>5. CASE guard' = guard
  BY <1>2, <1>3, <1>4, <1>5
     DEF IInv, GuardInv, GuardIdle, Expiring, Unlinking, Saving, WritingNew, WritingMove, Binding,
         PendingManifest, Leasing, Dropping
<1>6. CASE guard' = Free
  BY <1>3, <1>4, <1>6
     DEF IInv, GuardInv, GuardIdle, Expiring, Unlinking, Saving, Binding, Leasing, Dropping, Free
<1>7. QED
  BY <1>2, <1>5, <1>6

\* The invariant is inductive.
LEMMA NextInv == IInv /\ [StoreNext]_storeVars => IInv'
<1> SUFFICES ASSUME IInv, [StoreNext]_storeVars PROVE IInv'
  OBVIOUS
<1>1. CASE StoreWrite
  BY <1>1, StoreWriteInv
<1>2. CASE \E p \in Procs : Call(p)
  BY <1>2, CallInv
<1>3. QED
  BY <1>1, <1>2, OtherStepsInv DEF StoreNext, NoCall

--------------------------------------------------------------------------------
\* Only the guard holder's writes touch a receipt or a job.

\* Job files and receipts change only by the guard holder's writes.
LEMMA OnlyWritesWrite ==
  ASSUME [StoreNext]_storeVars PROVE StoreWrite \/ UNCHANGED <<job, receipt>>
<1>1. ASSUME NEW p \in Procs, Call(p) PROVE UNCHANGED <<job, receipt>>
  BY <1>1 DEF Call, TakeGuard, ReadActive, CreateExisting, CreateRejected, CreateBusy, CreateNew,
              ScheduleRetention, Transition, Enter
<1>2. QED
  BY <1>1 DEF StoreNext, NoCall, Release, Die, WritePolicy, PassDeadline, SetLock, storeVars

\* A step that replaces a receipt finds the job it named failed.
LEMMA ReceiptStep ==
  ASSUME IInv, [StoreNext]_storeVars,
         NEW s \in Shas, receipt[s] # NoJob, receipt'[s] # receipt[s]
  PROVE  job[receipt[s]].phase = "failed"
<1>1. WriteReceipt
  BY OnlyWritesWrite DEF StoreWrite, WriteExpired, UnlinkStale, WriteJob, WriteLease, DropLease
<1>2. s = ShaOf[job[guard.receipt].manifest]
  BY <1>1 DEF IInv, StoreTypeOK, WriteReceipt
<1>3. QED
  BY <1>1, <1>2 DEF IInv, GuardInv, Binding, PendingManifest, WriteReceipt

\* A move goes to a later phase, or between the two kinds of publication.
LEMMA MovesAdvance ==
  \A move \in Moves : \/ Rank[move[1]] < Rank[move[2]]
                      \/ Rank[move[1]] = 5 /\ Rank[move[2]] = 5
<1>1. /\ Rank["absent"] = 0 /\ Rank["awaiting_upload"] = 1 /\ Rank["uploading"] = 2
      /\ Rank["queued"] = 3 /\ Rank["importing"] = 4
      /\ Rank["publishing"] = 5 /\ Rank["publication_unknown"] = 5
      /\ Rank["succeeded"] = 6 /\ Rank["failed"] = 6
  BY DEF Rank, Phases, Uploading, Publishing, Terminal
<1>2. ASSUME NEW from \in Publishing, NEW to \in {"succeeded", "publication_unknown"}
      PROVE  Rank[from] < Rank[to] \/ (Rank[from] = 5 /\ Rank[to] = 5)
  BY <1>1 DEF Publishing
<1>3. ASSUME NEW from \in {"uploading", "queued", "importing"} \cup Publishing
      PROVE  Rank[from] < Rank["failed"]
  BY <1>1 DEF Publishing
<1>4. ASSUME NEW move \in {<<"awaiting_upload", "uploading">>, <<"uploading", "queued">>,
                          <<"queued", "importing">>, <<"importing", "publishing">>,
                          <<"importing", "succeeded">>}
      PROVE  Rank[move[1]] < Rank[move[2]]
  BY <1>1
<1>5. QED
  BY <1>2, <1>3, <1>4 DEF Moves

\* A step that changes a job takes it to a later phase.
LEMMA PhaseStep ==
  ASSUME IInv, [StoreNext]_storeVars, NEW j \in Jobs, job'[j] # job[j]
  PROVE  \/ Rank[job[j].phase] < Rank[job'[j].phase]
         \/ Rank[job[j].phase] = 5 /\ Rank[job'[j].phase] = 5
<1>1. WriteExpired \/ WriteJob
  BY OnlyWritesWrite DEF StoreWrite, UnlinkStale, WriteReceipt, WriteLease, DropLease
<1>2. CASE WriteExpired
  <2>1. job[j].phase \in Uploading /\ job'[j].phase = "failed"
    BY <1>2 DEF IInv, StoreTypeOK, JobRecord, GuardInv, Expiring, WriteExpired
  <2>2. QED
    BY <2>1 DEF Rank, Phases, Uploading, Publishing, Terminal
<1>3. CASE WriteJob
  <2>1. j = guard.save /\ job'[j] = guard.content
    BY <1>3 DEF IInv, StoreTypeOK, WriteJob
  <2>2. CASE WritingNew
    BY <2>1, <2>2 DEF WritingNew, Rank, Phases, Uploading, Publishing, Terminal
  <2>3. CASE WritingMove
    <3> DEFINE move == <<job[j].phase, guard.content.phase>>
    <3>1. move \in Moves
      BY <2>1, <2>3 DEF WritingMove
    <3>2. \/ Rank[move[1]] < Rank[move[2]]
          \/ Rank[move[1]] = 5 /\ Rank[move[2]] = 5
      BY <3>1, MovesAdvance
    <3>3. QED
      BY <2>1, <3>2
  <2>4. QED
    BY <1>3, <2>2, <2>3 DEF IInv, GuardInv, Saving, WriteJob
<1>4. QED
  BY <1>1, <1>2, <1>3

--------------------------------------------------------------------------------

(***************************************************************************)
(* Whatever processes interleave in the job store, and wherever they crash, *)
(* each write to come is right and the files agree (sync_state.py:78-139).  *)
(***************************************************************************)
THEOREM StoreInvariant == StoreSpec => []IInv
<1>1. StoreInit => IInv
  BY InitInv
<1>2. IInv /\ [StoreNext]_storeVars => IInv'
  BY NextInv
<1>3. QED
  BY <1>1, <1>2, PTL DEF StoreSpec

(***************************************************************************)
(* Every file of the store always has its type.                             *)
(***************************************************************************)
THEOREM StoreTypes == StoreSpec => []StoreTypeOK
<1>1. IInv => StoreTypeOK
  BY DEF IInv
<1>2. QED
  BY <1>1, StoreInvariant, PTL

(***************************************************************************)
(* Whatever is uploaded, waiting, imported or published holds the lease, so *)
(* that there is at most one such job (sync_state.py:78-139).               *)
(***************************************************************************)
THEOREM LeaseAlwaysHeld == StoreSpec => []LeaseHeld
<1>1. IInv => LeaseHeld
  BY DEF IInv
<1>2. QED
  BY <1>1, StoreInvariant, PTL

(***************************************************************************)
(* No snapshot is ever accepted twice: both jobs would be the one that the  *)
(* checksum's receipt names (sync_state.py:91-98).                          *)
(***************************************************************************)
THEOREM SnapshotsAcceptedOnce == StoreSpec => []OneJobPerSnapshot
<1>1. IInv => OneJobPerSnapshot
  BY DEF IInv, AcceptedBound, OneJobPerSnapshot
<1>2. QED
  BY <1>1, StoreInvariant, PTL

(***************************************************************************)
(* A receipt changes only when the job it names has failed                  *)
(* (sync_state.py:91-98, 109).                                              *)
(***************************************************************************)
THEOREM ReceiptsAlwaysStick == StoreSpec => ReceiptSticks
<1>1. IInv /\ [StoreNext]_storeVars =>
        [\A s \in Shas : receipt[s] # NoJob /\ receipt'[s] # receipt[s]
                          => job[receipt[s]].phase = "failed"]_receipt
  BY ReceiptStep
<1>2. QED
  BY <1>1, StoreInvariant, PTL DEF StoreSpec, ReceiptSticks

(***************************************************************************)
(* No job ever returns to an earlier phase, and ended jobs stay as they are *)
(* (sync_state.py:74-85, 130-139).                                          *)
(***************************************************************************)
THEOREM PhasesAlwaysAdvance == StoreSpec => PhasesAdvance
<1>1. IInv /\ [StoreNext]_storeVars =>
        [\A j \in Jobs : job'[j] # job[j] =>
            \/ Rank[job[j].phase] < Rank[job'[j].phase]
            \/ Rank[job[j].phase] = 5 /\ Rank[job'[j].phase] = 5]_job
  BY PhaseStep
<1>2. QED
  BY <1>1, StoreInvariant, PTL DEF StoreSpec, PhasesAdvance

(***************************************************************************)
(* The ingress: threads that serve requests, on the store.                  *)
(***************************************************************************)
\* Phases only the worker ends.
Late == {"queued", "importing"} \cup Publishing \cup Terminal

\* Requests and pending files of uploads.
Uploads ==
  /\ \A h \in Handlers : request[h].at # "idle" => request[h].job \in Jobs
  /\ \A h \in Handlers : request[h].at = "commit" => request[h].job \in snapshot
  /\ guard.save # NoJob /\ guard.content.manifest # Retention
       /\ guard.content.phase \in Late \ {"failed"} => guard.save \in snapshot
  /\ QueuedIsComplete

\* A job with a lease, a receipt or a manifest has a file.
Present ==
  /\ active # NoJob => job[active].phase # "absent"
  /\ guard.lease # NoJob => guard.save = guard.lease \/ job[guard.lease].phase # "absent"
  /\ \A j \in Jobs : job[j].phase = "absent" => job[j].manifest = Retention

\* A step of the store, or none.
Stepped == (\E p \in Procs : Call(p)) \/ NoCall \/ UNCHANGED storeVars

--------------------------------------------------------------------------------
\* Calls as steps of the store.

\* A caller finds the guard free, takes it and leaves the files as they are.
LEMMA Entered ==
  ASSUME IInv, NEW p \in Procs, Call(p)
  PROVE  /\ guard.owner = Nobody /\ guard = Free /\ guard'.owner = p
         /\ UNCHANGED <<job, late, active, receipt, policy, lock>>
<1> USE DEF Free, ActiveWrites
<1>1. CASE TakeGuard(p) \/ ReadActive(p)
  BY <1>1 DEF TakeGuard, ReadActive, Enter, IInv, GuardInv, GuardIdle
<1>2. ASSUME NEW m \in Manifests,
             \/ CreateExisting(p, m) \/ CreateRejected(p, m) \/ CreateBusy(p, m)
             \/ \E j \in Jobs : CreateNew(p, m, j)
      PROVE  guard.owner = Nobody /\ guard'.owner = p
             /\ UNCHANGED <<job, late, active, receipt, policy, lock>>
  BY <1>2 DEF CreateExisting, CreateRejected, CreateBusy, CreateNew, ReadActive, Enter
<1>3. ASSUME NEW j \in Jobs, ScheduleRetention(p, j)
      PROVE  guard.owner = Nobody /\ guard'.owner = p
             /\ UNCHANGED <<job, late, active, receipt, policy, lock>>
  BY <1>3 DEF ScheduleRetention, Enter
<1>4. ASSUME NEW j, NEW expected, NEW content, Transition(p, j, expected, content)
      PROVE  guard.owner = Nobody /\ guard'.owner = p
             /\ UNCHANGED <<job, late, active, receipt, policy, lock>>
  BY <1>4 DEF Transition, Enter
<1>5. guard.owner = Nobody /\ guard'.owner = p
      /\ UNCHANGED <<job, late, active, receipt, policy, lock>>
  BY <1>1, <1>2, <1>3, <1>4 DEF Call, TakeGuard, ReadActive, Enter
<1> QED
  BY <1>5 DEF IInv, GuardInv, GuardIdle

\* transition() as a caller uses it is one of the store's moves.
LEMMA TransitionCalls ==
  ASSUME IInv, NEW p \in Procs, NEW j \in Jobs, NEW expected, NEW to,
         NEW base \in Databases \cup {NoJob}, NEW changed \in BOOLEAN,
         MayMove(j, expected) => <<job[j].phase, to>> \in Moves,
         Transition(p, j, expected,
                    [job[j] EXCEPT !.phase = to, !.base = base, !.changed = changed])
  PROVE  Call(p)
<1> DEFINE move == <<job[j].phase, to>>
<1>1. move \in Moves /\ job[j].phase = move[1] /\ to = move[2]
  BY DEF Transition
<1>2. Transition(p, j, {move[1]},
                 [job[j] EXCEPT !.phase = move[2], !.base = base, !.changed = changed])
  BY <1>1 DEF Transition, MayMove
<1> HIDE DEF move
<1> QED
  BY <1>1, <1>2 DEF Call

\* What WithPhase writes, in the form in which Moves are stated.
LEMMA SamePhaseOnly ==
  ASSUME IInv, NEW j \in Jobs, NEW to
  PROVE  /\ [job[j] EXCEPT !.phase = to]
              = [job[j] EXCEPT !.phase = to, !.base = job[j].base, !.changed = job[j].changed]
         /\ \A base : [[job[j] EXCEPT !.phase = to] EXCEPT !.base = base]
              = [job[j] EXCEPT !.phase = to, !.base = base, !.changed = job[j].changed]
         /\ \A changed : [[job[j] EXCEPT !.phase = to] EXCEPT !.changed = changed]
              = [job[j] EXCEPT !.phase = to, !.base = job[j].base, !.changed = changed]
         /\ job[j].base \in Databases \cup {NoJob} /\ job[j].changed \in BOOLEAN
BY DEF IInv, StoreTypeOK, JobRecord

\* The same, for a caller that changes nothing but the phase.
LEMMA PhaseCalls ==
  ASSUME IInv, NEW p \in Procs, NEW j \in Jobs, NEW expected, NEW to,
         MayMove(j, expected) => <<job[j].phase, to>> \in Moves,
         Transition(p, j, expected, [job[j] EXCEPT !.phase = to])
  PROVE  Call(p)
<1> DEFINE base == job[j].base
           changed == job[j].changed
<1>1. base \in Databases \cup {NoJob} /\ changed \in BOOLEAN
  BY SamePhaseOnly
<1>2. Transition(p, j, expected, [job[j] EXCEPT !.phase = to, !.base = base, !.changed = changed])
  BY SamePhaseOnly
<1> HIDE DEF base, changed
<1> QED
  BY <1>1, <1>2, TransitionCalls

\* A request calls transition() for its upload only (sync_api.py:80-101).
LEMMA IngressSteps ==
  ASSUME IInv, Uploads, NEW h \in Handlers, IngressStep(h)
  PROVE  Stepped
<1> USE IngressConstants DEF Stepped
<1>1. ASSUME NEW m \in Manifests, PostJob(h, m) PROVE Stepped
  BY <1>1 DEF PostJob, Call
<1>2. CASE AnswerPost(h) \/ StreamComplete(h) \/ StreamFail(h) \/ \E j \in Jobs : PutSnapshot(h, j)
  BY <1>2 DEF AnswerPost, StreamComplete, StreamFail, PutSnapshot
<1>3. ASSUME request[h].at # "idle" PROVE request[h].job \in Jobs
  BY <1>3 DEF Uploads
<1>4. CASE Reserve(h)
  <2> DEFINE j == request[h].job
  <2>1. j \in Jobs
    BY <1>3, <1>4 DEF Reserve, At
  <2>2. CASE Transition(h, j, {"awaiting_upload"}, [job[j] EXCEPT !.phase = "uploading"])
    BY <2>1, <2>2, PhaseCalls DEF MayMove, Moves
  <2> QED
    BY <1>4, <2>2 DEF Reserve, TransitionBusy, Call
<1>5. CASE Commit(h)
  <2> DEFINE j == request[h].job
  <2>1. j \in Jobs
    BY <1>3, <1>5 DEF Commit, At
  <2>2. CASE Transition(h, j, {"uploading"}, [job[j] EXCEPT !.phase = "queued"])
    BY <2>1, <2>2, PhaseCalls DEF MayMove, Moves
  <2> QED
    BY <1>5, <2>2 DEF Commit, TransitionBusy, Call
<1>6. CASE Abort(h)
  <2> DEFINE j == request[h].job
  <2>1. j \in Jobs
    BY <1>3, <1>6 DEF Abort, At
  <2>2. CASE Transition(h, j, {"uploading"}, [job[j] EXCEPT !.phase = "failed"])
    BY <2>1, <2>2, PhaseCalls DEF MayMove, Moves
  <2> QED
    BY <1>6, <2>2 DEF Abort, TransitionBusy, Call
<1> QED
  BY <1>1, <1>2, <1>4, <1>5, <1>6 DEF IngressStep

--------------------------------------------------------------------------------
\* What the calls plan.

\* The caller p found the guard free; the files stay as they are.
Called(p) ==
  /\ guard = Free /\ guard'.owner = p
  /\ UNCHANGED <<job, late, active, receipt, policy, lock>>

\* Calls that write no job file.
LEMMA QuietCall ==
  ASSUME IInv, NEW p \in Procs,
         TakeGuard(p) \/ ReadActive(p) \/ \E m \in Manifests : CreateExisting(p, m)
  PROVE  Called(p) /\ guard'.save = NoJob /\ guard'.content = Blank
<1>1. Call(p)
  BY DEF Call
<1> QED
  BY <1>1, Entered
     DEF Called, TakeGuard, ReadActive, CreateExisting, Enter, ActiveWrites, Free

\* A new job's file.
LEMMA NewCall ==
  ASSUME IInv, NEW p \in Procs, NEW j \in Jobs,
         ScheduleRetention(p, j) \/ \E m \in Manifests : CreateNew(p, m, j)
  PROVE  /\ Called(p) /\ guard'.save = j /\ job[j].phase = "absent"
         /\ ~guard'.content.changed
         /\ \/ guard'.content.phase = "awaiting_upload"
            \/ guard'.content.phase = "queued" /\ guard'.content.manifest = Retention
<1>1. Call(p)
  BY DEF Call
<1>2. Called(p)
  BY <1>1, Entered DEF Called
<1>3. CASE ScheduleRetention(p, j)
  <2>1. guard'.save = j /\ guard'.content = [Blank EXCEPT !.phase = "queued"]
    BY <1>3 DEF ScheduleRetention, Enter, ActiveWrites, Free
  <2> QED
    BY <1>2, <1>3, <2>1 DEF ScheduleRetention, Blank
<1>4. ASSUME NEW m \in Manifests, CreateNew(p, m, j)
      PROVE  /\ guard'.save = j /\ job[j].phase = "absent"
             /\ ~guard'.content.changed /\ guard'.content.phase = "awaiting_upload"
  <2>1. /\ guard'.save = j
        /\ guard'.content = [Blank EXCEPT !.phase = "awaiting_upload", !.manifest = m]
    BY <1>4 DEF CreateNew, Enter, ActiveWrites, Free
  <2> QED
    BY <1>4, <2>1 DEF CreateNew, Blank
<1> QED
  BY <1>2, <1>3, <1>4

\* A move of the job that has the lease.
LEMMA MoveCall ==
  ASSUME IInv, NEW p \in Procs, NEW j \in Jobs, NEW expected, NEW content,
         Transition(p, j, expected, content)
  PROVE  /\ Called(p) /\ guard'.save = j /\ guard'.content = content
         /\ job[j].phase \in expected /\ active = j /\ job[j].phase \notin Terminal
<1>1. /\ guard = Free /\ UNCHANGED <<job, late, active, receipt, policy, lock>>
      /\ guard' = [[Free EXCEPT !.save = j, !.content = content,
                                !.drop = content.phase \in Terminal] EXCEPT !.owner = p]
  BY DEF Transition, Enter, IInv, GuardInv, GuardIdle
<1>2. guard'.owner = p /\ guard'.save = j /\ guard'.content = content
  BY <1>1 DEF Free
<1>3. ActiveJob = j /\ job[j].phase \in expected
  BY DEF Transition, MayMove
<1>4. active = j /\ job[j].phase \notin Terminal
  BY <1>3, StoreConstants DEF ActiveJob
<1> QED
  BY <1>1, <1>2, <1>3, <1>4 DEF Called

\* The manifest of a new upload is the one the client sent.
LEMMA CreateCall ==
  ASSUME IInv, NEW p \in Procs, NEW m \in Manifests, NEW j \in Jobs, CreateNew(p, m, j)
  PROVE  /\ Called(p) /\ guard'.save = j /\ job[j].phase = "absent"
         /\ guard'.content = [Blank EXCEPT !.phase = "awaiting_upload", !.manifest = m]
<1>1. Called(p)
  BY NewCall
<1> QED
  BY <1>1 DEF CreateNew, Enter, ActiveWrites, Free

\* The guard's plan after request h's call: nothing for job files, the file of a
\* new upload, or a move of the upload that the request has.
RequestPlans(h) ==
  \/ guard'.save = NoJob /\ guard'.content = Blank
  \/ \E m \in Manifests :
       /\ request[h].at = "idle" /\ guard'.save \in Jobs /\ job[guard'.save].phase = "absent"
       /\ guard'.content = [Blank EXCEPT !.phase = "awaiting_upload", !.manifest = m]
  \/ \E to \in {"uploading", "queued", "failed"} :
       /\ guard'.save = request[h].job /\ request[h].job \in Jobs
       /\ job[guard'.save].phase \in Uploading
       /\ guard'.content = [job[guard'.save] EXCEPT !.phase = to]
       /\ to = "queued" => request[h].at = "commit"

\* A request's step makes at most one call, and plans only its own upload
\* (sync_api.py:50-101).
LEMMA IngressCalls ==
  ASSUME IInv, Uploads, NEW h \in Handlers, IngressStep(h)
  PROVE  UNCHANGED storeVars \/ (Called(h) /\ RequestPlans(h))
<1>1. h \in Procs
  BY IngressConstants
<1>2. request[h].at # "idle" => request[h].job \in Jobs
  BY DEF Uploads
<1>3. ASSUME NEW expected, TransitionBusy(h, request[h].job, expected)
      PROVE  Called(h) /\ RequestPlans(h)
  BY <1>1, <1>3, QuietCall DEF TransitionBusy, RequestPlans
<1>4. ASSUME NEW from \in Uploading, NEW to \in {"uploading", "queued", "failed"},
             request[h].job \in Jobs, to = "queued" => request[h].at = "commit",
             Transition(h, request[h].job, {from}, [job[request[h].job] EXCEPT !.phase = to])
      PROVE  Called(h) /\ RequestPlans(h)
  <2> DEFINE j == request[h].job
             content == [job[j] EXCEPT !.phase = to]
  <2>1. Transition(h, j, {from}, content)
    BY <1>4
  <2>2. content = [job[request[h].job] EXCEPT !.phase = to]
    OBVIOUS
  <2> HIDE DEF content
  <2>3. /\ Called(h) /\ guard'.save = j /\ guard'.content = content
        /\ job[j].phase \in {from}
    BY <1>1, <1>4, <2>1, MoveCall
  <2> QED
    BY <1>4, <2>2, <2>3 DEF RequestPlans
<1>5. ASSUME NEW m \in Manifests, PostJob(h, m) PROVE Called(h) /\ RequestPlans(h)
  <2>1. CASE CreateExisting(h, m) \/ CreateRejected(h, m) \/ CreateBusy(h, m)
    BY <1>1, <2>1, QuietCall DEF CreateRejected, CreateBusy, RequestPlans
  <2>2. ASSUME NEW j \in Jobs, CreateNew(h, m, j) PROVE Called(h) /\ RequestPlans(h)
    <3>1. /\ Called(h) /\ guard'.save = j /\ job[j].phase = "absent"
          /\ guard'.content = [Blank EXCEPT !.phase = "awaiting_upload", !.manifest = m]
      BY <1>1, <2>2, CreateCall
    <3> QED
      BY <1>5, <3>1 DEF PostJob, At, RequestPlans
  <2> QED
    BY <1>5, <2>1, <2>2 DEF PostJob
<1>6. CASE AnswerPost(h) \/ StreamComplete(h) \/ StreamFail(h) \/ \E j \in Jobs : PutSnapshot(h, j)
  BY <1>6 DEF AnswerPost, StreamComplete, StreamFail, PutSnapshot
<1>7. CASE Reserve(h)
  <2>1. request[h].job \in Jobs
    BY <1>2, <1>7 DEF Reserve, At
  <2> QED
    BY <1>3, <1>4, <1>7, <2>1 DEF Reserve, Uploading
<1>8. CASE Commit(h)
  <2>1. request[h].job \in Jobs /\ request[h].at = "commit"
    BY <1>2, <1>8 DEF Commit, At
  <2> QED
    BY <1>3, <1>4, <1>8, <2>1 DEF Commit, Uploading
<1>9. CASE Abort(h)
  <2>1. request[h].job \in Jobs
    BY <1>2, <1>9 DEF Abort, At
  <2> QED
    BY <1>3, <1>4, <1>9, <2>1 DEF Abort, Uploading
<1> QED
  BY <1>5, <1>6, <1>7, <1>8, <1>9 DEF IngressStep

--------------------------------------------------------------------------------
\* What uploads may count on.

\* A request's step touches no job file, no complete snapshot and no other request.
LEMMA IngressFrame ==
  ASSUME IngressTypeOK, NEW h \in Handlers, IngressStep(h)
  PROVE  /\ UNCHANGED job /\ snapshot \subseteq snapshot' /\ known \subseteq known'
         /\ \A g \in Handlers : g # h => request'[g] = request[g]
<1>1. UNCHANGED job /\ snapshot \subseteq snapshot' /\ known \subseteq known'
  BY DEF IngressStep, PostJob, AnswerPost, PutSnapshot, Reserve, StreamComplete, StreamFail, Commit,
         Abort, CreateExisting, CreateNew, CreateRejected, CreateBusy, ReadActive, TransitionBusy,
         Transition, Enter, storeVars
<1>2. \A g \in Handlers : g # h => request'[g] = request[g]
  BY DEF IngressTypeOK, IngressStep, PostJob, AnswerPost, PutSnapshot, Reserve,
         StreamComplete, StreamFail, Commit, Abort, GoTo, Answered
<1> QED
  BY <1>1, <1>2

\* A request commits only what it has completed (sync_api.py:94-96), and the
\* ingress keeps the types of its own state.
LEMMA IngressKeepsUploads ==
  ASSUME IInv, Uploads, IngressTypeOK, NEW h \in Handlers, IngressStep(h)
  PROVE  Uploads' /\ IngressTypeOK'
<1>1. /\ request \in [Handlers -> RequestRecord]
      /\ known \subseteq Jobs /\ snapshot \subseteq Jobs
  BY DEF IngressTypeOK
<1>2. request[h].at # "idle" => request[h].job \in Jobs
  BY DEF Uploads
<1>3. IngressTypeOK'
  <2>1. \A m \in Manifests : Previous(m) \in Jobs \cup {NoJob}
    BY StoreConstants DEF Previous, IInv, StoreTypeOK
  <2>2. request' \in [Handlers -> RequestRecord]
    BY <1>1, <1>2, <2>1
       DEF IngressStep, PostJob, AnswerPost, PutSnapshot, Reserve, StreamComplete, StreamFail,
           Commit, Abort, GoTo, Answered, At, RequestRecord, Idle
  <2>3. known' \subseteq Jobs /\ snapshot' \subseteq Jobs
    BY <1>1, <1>2
       DEF IngressStep, PostJob, AnswerPost, PutSnapshot, Reserve, StreamComplete, StreamFail,
           Commit, Abort, At
  <2> QED
    BY <2>2, <2>3 DEF IngressTypeOK
<1>4. UNCHANGED job /\ snapshot \subseteq snapshot'
      /\ \A g \in Handlers : g # h => request'[g] = request[g]
  BY IngressFrame
<1>5. QueuedIsComplete'
  BY <1>4 DEF Uploads, QueuedIsComplete, Accepted
<1>6. /\ request'[h].at # "idle" => request'[h].job \in Jobs
      /\ request'[h].at = "commit" => request'[h].job \in snapshot'
  <2>1. \A m \in Manifests : CreateExisting(h, m) => Previous(m) \in Jobs
    BY StoreConstants DEF CreateExisting, Reusable, Previous, IInv, StoreTypeOK
  <2> QED
    BY <1>1, <1>2, <2>1
       DEF IngressStep, PostJob, AnswerPost, PutSnapshot, Reserve, StreamComplete, StreamFail,
           Commit, Abort, GoTo, Answered, At, Idle, Uploads
<1>7. guard'.save # NoJob /\ guard'.content.manifest # Retention
        /\ guard'.content.phase \in Late \ {"failed"} => guard'.save \in snapshot'
  <2>1. CASE UNCHANGED storeVars
    BY <1>4, <2>1 DEF storeVars, Uploads
  <2>2. ASSUME NEW m \in Manifests,
               guard'.content = [Blank EXCEPT !.phase = "awaiting_upload", !.manifest = m]
        PROVE  guard'.content.phase \notin Late
    BY <2>2 DEF Blank, Late, Publishing, Terminal
  <2>3. ASSUME NEW to \in {"uploading", "queued", "failed"}, request[h].job \in Jobs,
               guard'.save = request[h].job,
               guard'.content = [job[guard'.save] EXCEPT !.phase = to],
               to = "queued" => request[h].at = "commit"
        PROVE  guard'.content.phase \in Late \ {"failed"} => guard'.save \in snapshot'
    <3>1. guard'.content.phase = to
      BY <2>3 DEF IInv, StoreTypeOK, JobRecord
    <3> QED
      BY <1>4, <2>3, <3>1 DEF Late, Publishing, Terminal, Uploads
  <2> QED
    BY <2>1, <2>2, <2>3, IngressCalls DEF RequestPlans
<1> QED
  BY <1>3, <1>4, <1>5, <1>6, <1>7 DEF Uploads

\* Nothing is completed or committed by a crash of the ingress.
LEMMA IngressCrashKeepsUploads ==
  ASSUME Uploads, IngressTypeOK, IngressCrash
  PROVE  Uploads' /\ IngressTypeOK'
<1>1. /\ guard' \in {guard, Free} /\ UNCHANGED <<job, known, snapshot>>
      /\ request' = [h \in Handlers |-> Idle]
  BY DEF IngressCrash
<1>2. \A h \in Handlers : request'[h].at = "idle"
  BY <1>1 DEF Idle
<1>3. IngressTypeOK'
  BY <1>1 DEF IngressTypeOK, RequestRecord, Idle
<1> QED
  BY <1>1, <1>2, <1>3 DEF Uploads, QueuedIsComplete, Accepted, Free

\* The host's writes keep uploads as they are: a job file that says queued, or
\* anything later, was planned when the snapshot was complete.
LEMMA HostKeepsUploads ==
  ASSUME IInv, Uploads, UNCHANGED ingressVars, [NoCall]_storeVars
  PROVE  Uploads'
<1> USE StoreConstants
<1>1. UNCHANGED <<request, known, snapshot>>
  BY DEF ingressVars
<1>2. CASE WriteJob
  <2> DEFINE n == guard.save
  <2>1. /\ n \in Jobs /\ n # NoJob /\ guard'.save = NoJob
        /\ \A j \in Jobs : j # n => job'[j] = job[j]
        /\ job'[n] = guard.content
    BY <1>2 DEF WriteJob, IInv, StoreTypeOK, GuardRecord
  <2>2. QueuedIsComplete'
    <3>1. CASE WritingMove /\ guard.content.phase = "uploading"
      BY <1>1, <2>1, <3>1 DEF Uploads, QueuedIsComplete, Accepted
    <3>2. guard.content.phase \in Late \cup {"awaiting_upload", "uploading"}
      BY <1>2 DEF WriteJob, IInv, GuardInv, Saving, WritingNew, WritingMove, Moves, Late,
                  Publishing, Terminal
    <3> QED
      BY <1>1, <2>1, <3>2 DEF Uploads, QueuedIsComplete, Accepted
  <2> QED
    BY <1>1, <2>1, <2>2 DEF Uploads
<1>3. CASE WriteExpired
  <2> DEFINE e == guard.expire
  <2>1. /\ e \in Jobs /\ guard'.save = guard.save /\ guard'.content = guard.content
        /\ \A j \in Jobs : j # e => job'[j] = job[j]
        /\ job'[e].phase = "failed"
    BY <1>3 DEF WriteExpired, IInv, StoreTypeOK, GuardRecord, JobRecord
  <2> QED
    BY <1>1, <2>1 DEF Uploads, QueuedIsComplete, Accepted
<1>4. CASE UnlinkStale \/ WriteReceipt \/ WriteLease \/ DropLease
  <2>1. UNCHANGED job /\ guard'.save = guard.save /\ guard'.content = guard.content
    BY <1>4 DEF UnlinkStale, WriteReceipt, WriteLease, DropLease, IInv, StoreTypeOK, GuardRecord
  <2> QED
    BY <1>1, <2>1 DEF Uploads, QueuedIsComplete, Accepted
<1>5. CASE ~StoreWrite
  <2>1. UNCHANGED job /\ guard' \in {guard, Free}
    BY <1>5 DEF NoCall, Release, Die, DropGuard, WritePolicy, PassDeadline, SetLock, storeVars
  <2> QED
    BY <1>1, <2>1 DEF Uploads, QueuedIsComplete, Accepted, Free
<1> QED
  BY <1>2, <1>3, <1>4, <1>5 DEF StoreWrite

--------------------------------------------------------------------------------
\* What a step of the store leaves.

\* Every step keeps the lease and the manifests with jobs that have a file.
LEMMA PresentKept ==
  ASSUME IInv, Present, Stepped
  PROVE  Present'
<1> USE StoreConstants
<1>1. ASSUME NEW p \in Procs, Call(p) PROVE Present'
  <2>1. UNCHANGED <<job, active>>
    BY <1>1, Entered
  <2>2. guard'.lease # NoJob => guard'.save = guard'.lease \/ job[guard'.lease].phase # "absent"
    <3>1. CASE TakeGuard(p) \/ ReadActive(p)
      BY <3>1 DEF TakeGuard, ReadActive, Enter, ActiveWrites, Free
    <3>2. ASSUME NEW m \in Manifests, CreateExisting(p, m)
          PROVE  guard'.lease # NoJob => job[guard'.lease].phase # "absent"
      <4>1. Previous(m) \in Jobs /\ job[Previous(m)].manifest = m
        BY <3>2 DEF CreateExisting, Reusable, Previous, IInv, StoreTypeOK
      <4>2. guard'.lease \in {NoJob, Previous(m)}
        BY <3>2 DEF CreateExisting, Enter, ActiveWrites, Free
      <4> QED
        BY <4>1, <4>2 DEF Present
    <3>3. ASSUME NEW m \in Manifests, CreateRejected(p, m) \/ CreateBusy(p, m)
          PROVE  guard'.lease = NoJob
      BY <3>3 DEF CreateRejected, CreateBusy, ReadActive, Enter, ActiveWrites, Free
    <3>4. ASSUME NEW j \in Jobs,
                 ScheduleRetention(p, j) \/ \E m \in Manifests : CreateNew(p, m, j)
          PROVE  guard'.lease = guard'.save
      <4>1. CASE ScheduleRetention(p, j)
        BY <4>1 DEF ScheduleRetention, Enter, ActiveWrites, Free
      <4>2. ASSUME NEW m \in Manifests, CreateNew(p, m, j) PROVE guard'.lease = guard'.save
        BY <4>2 DEF CreateNew, Enter, ActiveWrites, Free
      <4> QED
        BY <3>4, <4>1, <4>2
    <3>5. ASSUME NEW j, NEW expected, NEW content, Transition(p, j, expected, content)
          PROVE  guard'.lease = NoJob
      BY <3>5 DEF Transition, Enter, Free
    <3> QED
      BY <1>1, <3>1, <3>2, <3>3, <3>4, <3>5 DEF Call
  <2> QED
    BY <2>1, <2>2 DEF Present
<1>2. CASE WriteJob
  <2> DEFINE n == guard.save
  <2>1. /\ n \in Jobs /\ job' = [job EXCEPT ![n] = guard.content] /\ active' = active
        /\ guard'.save = NoJob /\ guard'.lease = guard.lease
    BY <1>2 DEF WriteJob, IInv, StoreTypeOK, GuardRecord
  <2>2. guard.content.phase # "absent"
    BY <1>2 DEF WriteJob, IInv, GuardInv, Saving, WritingNew, WritingMove, Moves, Publishing
  <2>3. \A j \in Jobs : j # n => job'[j] = job[j]
    BY <2>1
  <2>4. job'[n] = guard.content
    BY <2>1 DEF IInv, StoreTypeOK
  <2>5. guard.lease \in Jobs \cup {NoJob} /\ active \in Jobs \cup {NoJob}
    BY DEF IInv, StoreTypeOK, GuardRecord
  <2> QED
    BY <2>1, <2>2, <2>3, <2>4, <2>5 DEF Present
<1>3. CASE WriteExpired
  <2> DEFINE e == guard.expire
  <2>1. /\ e \in Jobs /\ job' = [job EXCEPT ![e].phase = "failed"] /\ active' = active
        /\ guard'.save = guard.save /\ guard'.lease = guard.lease
    BY <1>3 DEF WriteExpired, IInv, StoreTypeOK, GuardRecord
  <2>2. /\ \A j \in Jobs : j # e => job'[j] = job[j]
        /\ job'[e].phase = "failed" /\ job'[e].manifest = job[e].manifest
    BY <2>1 DEF IInv, StoreTypeOK, JobRecord
  <2>3. guard.lease \in Jobs \cup {NoJob} /\ active \in Jobs \cup {NoJob}
    BY DEF IInv, StoreTypeOK, GuardRecord
  <2> QED
    BY <2>1, <2>2, <2>3 DEF Present
<1>4. CASE UnlinkStale \/ WriteReceipt \/ DropLease
  <2>1. /\ job' = job /\ active' \in {active, NoJob}
        /\ guard'.save = guard.save /\ guard'.lease = guard.lease
    BY <1>4 DEF UnlinkStale, WriteReceipt, DropLease, IInv, StoreTypeOK, GuardRecord
  <2> QED
    BY <2>1 DEF Present
<1>5. CASE WriteLease
  <2>1. job' = job /\ active' = guard.lease /\ guard.save = NoJob /\ guard'.lease = NoJob
    BY <1>5 DEF WriteLease, IInv, StoreTypeOK, GuardRecord
  <2> QED
    BY <1>5, <2>1 DEF Present, WriteLease
<1>6. CASE Release \/ (\E p \in Procs : Die(p) \/ WritePolicy(p))
           \/ (\E j \in Jobs : PassDeadline(j)) \/ (\E state \in LockStates : SetLock(state))
           \/ UNCHANGED storeVars
  <2>1. UNCHANGED <<job, active>> /\ guard' \in {guard, Free}
    BY <1>6 DEF Release, Die, DropGuard, WritePolicy, PassDeadline, SetLock, storeVars
  <2> QED
    BY <2>1 DEF Present, Free
<1> QED
  BY <1>1, <1>2, <1>3, <1>4, <1>5, <1>6 DEF Stepped, NoCall, StoreWrite

\* A job keeps its file and its manifest, for good once it ended; a file appears
\* only as the guard holder planned it (sync_state.py:72-75, 103-110, 130-139).
LEMMA JobsKept ==
  ASSUME IInv, Present, Stepped, NEW j \in Jobs
  PROVE  /\ job[j].phase # "absent" => /\ job'[j].phase # "absent"
                                       /\ job'[j].manifest = job[j].manifest
         /\ job[j].phase \in Terminal => job'[j] = job[j]
         /\ job'[j] # job[j] => \/ job'[j].manifest = job[j].manifest
                                \/ j = guard.save /\ job'[j] = guard.content
<1> USE StoreConstants
<1>1. CASE WriteJob
  <2> DEFINE n == guard.save
  <2>1. /\ n \in Jobs /\ n # NoJob
        /\ j # n => job'[j] = job[j]
        /\ j = n => job'[j] = guard.content
    BY <1>1 DEF WriteJob, IInv, StoreTypeOK, GuardRecord
  <2>2. WritingNew => job[n].phase = "absent"
    BY DEF WritingNew
  <2>3. WritingMove => /\ guard.content.manifest = job[n].manifest
                       /\ guard.content.phase # "absent" /\ job[n].phase \notin Terminal
    BY DEF WritingMove, Moves, Publishing, Terminal
  <2>4. WritingNew \/ WritingMove
    BY <2>1 DEF IInv, GuardInv, Saving
  <2> QED
    BY <2>1, <2>2, <2>3, <2>4 DEF Terminal
<1>2. CASE WriteExpired
  <2> DEFINE e == guard.expire
  <2>1. /\ e \in Jobs /\ job[e].phase \in Uploading
        /\ j # e => job'[j] = job[j]
        /\ job'[e].phase = "failed" /\ job'[e].manifest = job[e].manifest
    BY <1>2 DEF WriteExpired, IInv, GuardInv, Expiring, StoreTypeOK, GuardRecord, JobRecord
  <2> QED
    BY <2>1 DEF Uploading, Terminal
<1>3. CASE ~WriteJob /\ ~WriteExpired
  <2>1. ASSUME NEW p \in Procs, Call(p) PROVE UNCHANGED job
    BY <2>1, Entered
  <2>2. UNCHANGED job
    BY <1>3, <2>1 DEF Stepped, NoCall, StoreWrite, UnlinkStale, WriteReceipt, WriteLease, DropLease,
                      Release, Die, WritePolicy, PassDeadline, SetLock, storeVars
  <2> QED
    BY <2>2
<1> QED
  BY <1>1, <1>2, <1>3
================================================================================
