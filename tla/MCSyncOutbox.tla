------------------------------ MODULE MCSyncOutbox ------------------------------
(* Constants of the runs of SyncOutbox. *)
EXTENDS SyncOutbox, TLC

CONSTANTS m1, m2, s1, s2

\* m1 is the older snapshot.
MCCapturedAt == [m \in {m1, m2} |-> IF m = m1 THEN 1 ELSE 2]
MCShaOf == [m \in {m1, m2} |-> IF m = m1 THEN s1 ELSE s2]
MCCapturedAtOne == [m \in {m1} |-> 1]
MCShaOfOne == [m \in {m1} |-> s1]
MCSymmetry == Permutations(Handlers)

--------------------------------------------------------------------------------
\* Bounds of OutboxFaults.  What concurrent, lost and late messages do is looked at without
\* unreadable files and retention, what these do with one request at a time.

MCSerial == Cardinality({h \in Handlers : request[h] # Idle \/ told[h] # Silent}) <= 1
MCNoRetention == ~policy /\ timers = 0 /\ guard.owner # Timer
MCInTime == \A j \in Jobs : ~late[j]

\* When the newest snapshot's job is accepted, the order of all is decided.
MCUndecided == \A j \in Jobs : job[j].manifest = m2 => ~Accepted(j)

MCMessages ==
  misreads = 0 /\ MCNoRetention /\ MCUndecided /\ (m2 \in archived => MCInTime)

\* A fault besides is that the older snapshot was not enqueued.
MCFiles ==
  /\ MCSerial /\ MCNoRetention /\ MCUndecided /\ MCInTime
  /\ faults = 0 \/ misreads = 0 \/ entry[m1].phase = "none"

MCRetention ==
  MCSerial /\ misreads = 0 /\ m2 \notin archived /\ (faults = 0 \/ MCInTime)

MCBounds == MCMessages \/ MCFiles \/ MCRetention
================================================================================
