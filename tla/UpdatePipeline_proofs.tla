------------------------- MODULE UpdatePipeline_proofs -------------------------
(***************************************************************************)
(* ServedIsTracked holds for any files, scans and policies, any number of   *)
(* generations and of faults. It speaks of the server and of two files that *)
(* the updater writes one after the other, so the invariant must say at     *)
(* each place in between what the site may serve meanwhile. The second half *)
(* is about what the generations hold: no scan is lost, renumbered or       *)
(* misread on its way from the game's files to the site, and the receipts   *)
(* do not claim more than was imported.                                     *)
(***************************************************************************)
EXTENDS UpdatePipeline, Generation_proofs, TLAPS

Places == {"idle", "digest", "archive", "stage", "accept", "send", "wait", "point", "finish",
           "settle"}
RunFields == {"at", "publish", "todo", "file", "was", "changed", "receipts", "db"}

IsPointer(p) ==
  /\ {"db", "publication", "published"} \subseteq DOMAIN p
  /\ {p.db, p.published} \subseteq Dbs /\ p.publication \in BOOLEAN

\* The generations are a sequence.
Listed == \E S : gen \in Seq(S)

\* The part of each variable's type that the proof needs.
Shaped ==
  /\ {served, seed} \subseteq Dbs /\ receipted \subseteq Dbs
  /\ ~gen[seed].ours
  /\ pointer # Nothing => IsPointer(pointer)
  /\ {"phase", "pending"} \subseteq DOMAIN status
  /\ Unresolved => IsPointer(status.pending)
  /\ wire # Nothing => wire.db \in Dbs /\ {"db", "base", "reply"} \subseteq DOMAIN wire
  /\ "at" \in DOMAIN run /\ run.at \in Places
  /\ run.at \notin {"idle", "settle"} =>
       RunFields \subseteq DOMAIN run /\ run.publish \in BOOLEAN /\ run.db \in Dbs

Before == {"digest", "archive", "stage", "accept"}
After == {"point", "finish"}

\* Before anything is sent, and in a run that publishes nothing, nothing is unresolved.
Quiet ==
  run.at \in Before \/ (run.at \in After /\ ~run.publish) => ~Unresolved

\* From the first byte sent to the last file written, the generation is the pending one.
Sending ==
  /\ run.at \in {"send", "wait"} => run.publish
  /\ run.at \in {"send", "wait"} \/ (run.at \in After /\ run.publish) =>
       status.phase = "publishing" /\ status.pending.db = run.db

\* What a run began with stays so until it writes current.json.
BaseKept ==
  /\ run.at \in Before \cup {"send", "wait", "point"} => run.was.published = Current.published
  /\ run.at \in {"digest", "archive"} => run.db = Current.db

\* A generation that was not sent has no receipt.
Unsent ==
  /\ run.at = "accept" \/ (run.at = "point" /\ ~run.publish) => run.db \notin receipted
  /\ pointer # Nothing /\ ~pointer.publication /\ pointer.db \in receipted =>
       Unresolved /\ status.pending.db = pointer.db

\* A command on the server is for the pending generation, or too late to do anything.
InFlight ==
  /\ run.at = "wait" => wire # Nothing
  /\ wire # Nothing =>
       /\ wire.db \in receipted \/ (Unresolved /\ status.pending.db = wire.db)
       /\ wire.reply = "active" => wire.db \in receipted
       /\ run.at = "wait" => wire.db = run.db

\* A run that goes on has the receipt, and current.json once it is written.
Delivered ==
  /\ run.at \in After /\ run.publish => run.db \in receipted
  /\ run.at = "finish" /\ run.publish =>
       pointer # Nothing /\ pointer.publication /\ pointer.published = run.db
  /\ run.at = "settle" =>
       /\ Unresolved /\ status.pending.db \in receipted
       /\ pointer # Nothing /\ pointer.publication /\ pointer.published = status.pending.db

\* Once the pending generation has its receipt, no other of the updater's is served.
Settled ==
  Unresolved /\ status.pending.db \in receipted /\ gen[served].ours => served = status.pending.db

IInv ==
  /\ Shaped /\ Quiet /\ Sending /\ BaseKept /\ Unsent
  /\ InFlight /\ Delivered /\ Settled /\ ServedIsTracked

--------------------------------------------------------------------------------

(***************************************************************************)
(* A generation is only ever added at the end (a build refuses an output    *)
(* that exists, manage.py:128-131): the others stay what they were.         *)
(***************************************************************************)
LEMMA Grown ==
  ASSUME NEW g, Listed, gen' = Append(gen, g)
  PROVE  /\ Listed'
         /\ \A n \in Dbs : n \in Dbs' /\ gen'[n] = gen[n]
         /\ Len(gen') \in Dbs' /\ gen'[Len(gen')] = g
         /\ Len(gen') \notin Dbs
<1> USE DEF Listed, Dbs
<1>1. Len(gen) \in Nat /\ Len(gen') = Len(gen) + 1
  OBVIOUS
<1>2. \A n \in Dbs : n \in Dbs' /\ gen'[n] = gen[n]
  BY <1>1
<1>3. Len(gen') \in Dbs' /\ gen'[Len(gen')] = g
  BY <1>1
<1>4. Listed'
  <2>1. PICK S : gen \in Seq(S)
    OBVIOUS
  <2>2. gen \in Seq(S \cup {g})
    BY <2>1
  <2>3. gen' \in Seq(S \cup {g})
    BY <2>2
  <2> QED
    BY <2>3
<1> QED
  BY <1>1, <1>2, <1>3, <1>4

(***************************************************************************)
(* At first the site serves the seed, and the updater has published nothing *)
(* (update.py:216-218).                                                     *)
(***************************************************************************)
LEMMA InitKeeps ==
  ASSUME Init
  PROVE  Listed /\ IInv
<1>1. gen = <<[data |-> Build(SeedScans), ours |-> FALSE]>>
  BY DEF Init
<1>2. Listed
  <2>1. gen \in Seq({[data |-> Build(SeedScans), ours |-> FALSE]})
    BY <1>1
  <2> QED
    BY <2>1 DEF Listed
<1>3. Dbs = {1} /\ ~gen[1].ours /\ ~Unresolved
  BY <1>1 DEF Dbs, Init, Unresolved
<1>4. Shaped
  BY <1>3 DEF Init, Shaped, Idle, Places
<1>5. IInv
  BY <1>3, <1>4 DEF IInv, Init, Quiet, Sending, BaseKept, Unsent, InFlight, Delivered, Settled,
                    ServedIsTracked, Before, After, Idle
<1> QED
  BY <1>2, <1>5

(***************************************************************************)
(* A run begins only when no earlier publication is unresolved              *)
(* (update.py:204-205), so nothing of the updater's can take effect behind  *)
(* its back.                                                                *)
(***************************************************************************)
LEMMA BeginKeeps ==
  ASSUME IInv, NEW files, NEW publish \in BOOLEAN, Begin(files, publish)
  PROVE  IInv'
<1>1. /\ run.at = "idle" /\ ~Unresolved
      /\ status' = [phase |-> "discovery", pending |-> Nothing]
      /\ run'.at = "digest" /\ run'.publish = publish /\ run'.was = Current /\ run'.db = Current.db
      /\ DOMAIN run' = RunFields
      /\ UNCHANGED <<gen, served, receipted, wire, pointer, seed>>
  BY DEF Begin, At, Blocked, server, RunFields
<1>2. Dbs' = Dbs /\ Current' = Current /\ ~Unresolved'
  BY <1>1 DEF Dbs, Current, Unresolved
<1>3. Current.db \in Dbs
  BY DEF IInv, Shaped, Current, IsPointer
<1>4. Shaped'
  BY <1>1, <1>2, <1>3 DEF IInv, Shaped, IsPointer, Places, RunFields
<1>5. (Quiet /\ Sending /\ BaseKept /\ Delivered)'
  BY <1>1, <1>2 DEF Quiet, Sending, BaseKept, Delivered, Before, After
<1>6. (Unsent /\ InFlight /\ Settled /\ ServedIsTracked)'
  BY <1>1, <1>2 DEF IInv, Unsent, InFlight, Settled, ServedIsTracked
<1> QED
  BY <1>4, <1>5, <1>6 DEF IInv

(***************************************************************************)
(* A candidate made ready before was never sent: it has no receipt          *)
(* (update.py:240-242, 255-258).                                            *)
(***************************************************************************)
LEMMA ReuseKeeps ==
  ASSUME IInv, Reuse
  PROVE  IInv'
<1>1. /\ run.at = "digest" /\ run' = [run EXCEPT !.at = "accept"] /\ Unpublished
      /\ UNCHANGED <<gen, served, receipted, wire, pointer, seed, status>>
  BY DEF Reuse, At, server
<1>2. /\ run'.at = "accept" /\ DOMAIN run' = DOMAIN run
      /\ run'.publish = run.publish /\ run'.was = run.was /\ run'.db = run.db
  BY <1>1 DEF IInv, Shaped, RunFields
<1>3. Dbs' = Dbs /\ Current' = Current /\ (Unresolved <=> Unresolved')
  BY <1>1 DEF Dbs, Current, Unresolved
<1>4. Shaped'
  BY <1>1, <1>2, <1>3 DEF IInv, Shaped, IsPointer, Places
<1>5. (Quiet /\ Sending /\ BaseKept /\ Delivered)'
  BY <1>1, <1>2, <1>3 DEF IInv, Quiet, Sending, BaseKept, Delivered, Before, After
<1>6. run.db = pointer.db /\ run.db \notin receipted
  BY <1>1 DEF IInv, Quiet, BaseKept, Unsent, Before, Current, Unpublished
<1>7. (Unsent /\ InFlight /\ Settled /\ ServedIsTracked)'
  BY <1>1, <1>2, <1>3, <1>6 DEF IInv, Unsent, InFlight, Settled, ServedIsTracked
<1> QED
  BY <1>4, <1>5, <1>7 DEF IInv

(***************************************************************************)
(* The stage refuses its input, or adds a generation that nobody serves yet *)
(* (update.py:243-254, manage.py:268-319).                                  *)
(***************************************************************************)
LEMMA StageKeeps ==
  ASSUME Listed, IInv, Stage
  PROVE  Listed' /\ IInv'
<1> DEFINE g == [data |-> Merged, ours |-> TRUE]
<1>0. /\ run.at = "stage"
      /\ UNCHANGED <<served, receipted, wire, pointer, seed>>
  BY DEF Stage, At, server
<1>1. CASE UNCHANGED gen /\ Fail
  <2>1. /\ status' = [status EXCEPT !.phase = "failed"] /\ run' = Idle
    BY <1>0, <1>1 DEF Fail, Save, Leave, IInv, Quiet, Before, Unresolved
  <2>2. ~Unresolved /\ ~Unresolved' /\ run'.at = "idle"
    BY <1>0, <2>1 DEF IInv, Shaped, Quiet, Before, Unresolved, Idle
  <2>3. Listed' /\ Dbs' = Dbs /\ Current' = Current
    BY <1>0, <1>1 DEF Listed, Dbs, Current
  <2>4. Shaped'
    BY <1>0, <1>1, <2>1, <2>2, <2>3 DEF IInv, Shaped, IsPointer, Idle, Places
  <2>5. (Quiet /\ Sending /\ BaseKept /\ Delivered)'
    BY <2>2 DEF Quiet, Sending, BaseKept, Delivered, Before, After
  <2>6. (Unsent /\ InFlight /\ Settled /\ ServedIsTracked)'
    BY <1>0, <1>1, <2>2, <2>3 DEF IInv, Unsent, InFlight, Settled, ServedIsTracked
  <2> QED
    BY <2>3, <2>4, <2>5, <2>6 DEF IInv
<1>2. CASE gen' = Append(gen, g) /\ run' = [run EXCEPT !.at = "accept", !.db = Len(gen')]
           /\ UNCHANGED status
  <2>1. /\ Listed' /\ \A n \in Dbs : n \in Dbs' /\ gen'[n] = gen[n]
        /\ Len(gen') \in Dbs' /\ Len(gen') \notin Dbs
    BY <1>2, Grown
  <2>2. run'.at = "accept" /\ run'.db = Len(gen') /\ run'.publish = run.publish
        /\ run'.was = run.was /\ DOMAIN run' = DOMAIN run
    BY <1>0, <1>2 DEF IInv, Shaped, RunFields
  <2>3. Current' = Current
    BY <1>0, <2>1 DEF IInv, Shaped, Current
  <2>4. Shaped'
    BY <1>0, <1>2, <2>1, <2>2 DEF IInv, Shaped, IsPointer, Unresolved, Places
  <2>5. (Quiet /\ Sending /\ BaseKept /\ Delivered)'
    BY <1>0, <1>2, <2>2, <2>3
    DEF IInv, Quiet, Sending, BaseKept, Delivered, Before, After, Unresolved
  <2>6. (Unsent /\ InFlight)'
    BY <1>0, <1>2, <2>1, <2>2 DEF IInv, Shaped, Unsent, InFlight, Unresolved
  <2>7. (Settled /\ ServedIsTracked)'
    BY <1>0, <1>2, <2>1, <2>3 DEF IInv, Shaped, Settled, ServedIsTracked, Unresolved
  <2> QED
    BY <2>1, <2>4, <2>5, <2>6, <2>7 DEF IInv
<1> QED
  BY <1>0, <1>1, <1>2 DEF Stage

(***************************************************************************)
(* From here on the generation is the pending one: status.json says so      *)
(* before the first byte is sent (update.py:278-295).                       *)
(***************************************************************************)
LEMMA AcceptKeeps ==
  ASSUME IInv, Accept
  PROVE  IInv'
<1>1. /\ run.at = "accept" /\ run.publish \in BOOLEAN
      /\ UNCHANGED <<gen, served, receipted, wire, pointer, seed>>
  BY DEF Accept, At, server, IInv, Shaped
<1>2. Dbs' = Dbs /\ Current' = Current
  BY <1>1 DEF Dbs, Current
<1>3. ~Unresolved /\ run.db \notin receipted
  BY <1>1 DEF IInv, Quiet, Unsent, Before
<1>4. CASE run.publish
  <2>1. status' = [phase |-> "publishing", pending |-> NextCurrent(FALSE)]
    BY <1>4 DEF Accept
  <2>2. /\ run'.at = "send" /\ DOMAIN run' = DOMAIN run
        /\ run'.publish = run.publish /\ run'.was = run.was /\ run'.db = run.db
    BY <1>1, <1>4 DEF Accept, IInv, Shaped, RunFields
  <2>3. Unresolved' /\ status'.pending.db = run.db /\ status'.phase = "publishing"
    BY <2>1 DEF Unresolved, NextCurrent
  <2>4. IsPointer(status.pending)'
    <3>1. {run.db, run.was.published} \subseteq Dbs
      BY <1>1 DEF IInv, Shaped, BaseKept, Before, Current, IsPointer
    <3> QED
      BY <2>1, <3>1, <1>2 DEF NextCurrent, IsPointer
  <2>5. Shaped'
    BY <1>1, <1>2, <2>1, <2>2, <2>4 DEF IInv, Shaped, IsPointer, Places
  <2>6. (Quiet /\ Sending /\ BaseKept /\ Delivered)'
    BY <1>1, <1>2, <1>4, <2>2, <2>3 DEF IInv, Quiet, Sending, BaseKept, Delivered, Before, After
  <2>7. (Unsent /\ InFlight)'
    BY <1>1, <1>3, <2>2, <2>3 DEF IInv, Unsent, InFlight
  <2>8. (Settled /\ ServedIsTracked)'
    BY <1>1, <1>2, <1>3, <2>3 DEF IInv, Settled, ServedIsTracked
  <2> QED
    BY <2>5, <2>6, <2>7, <2>8 DEF IInv
<1>5. CASE ~run.publish
  <2>1. /\ run'.at = "point" /\ DOMAIN run' = DOMAIN run /\ UNCHANGED status
        /\ run'.publish = run.publish /\ run'.was = run.was /\ run'.db = run.db
    BY <1>1, <1>5 DEF Accept, IInv, Shaped, RunFields
  <2>2. ~Unresolved'
    BY <1>3, <2>1 DEF Unresolved
  <2>3. Shaped'
    BY <1>1, <1>2, <2>1, <2>2 DEF IInv, Shaped, IsPointer, Places
  <2>4. (Quiet /\ Sending /\ BaseKept /\ Delivered)'
    BY <1>1, <1>2, <1>5, <2>1, <2>2
    DEF IInv, Quiet, Sending, BaseKept, Delivered, Before, After
  <2>5. (Unsent /\ InFlight /\ Settled /\ ServedIsTracked)'
    BY <1>1, <1>2, <1>3, <2>1, <2>2 DEF IInv, Unsent, InFlight, Settled, ServedIsTracked
  <2> QED
    BY <2>3, <2>4, <2>5 DEF IInv
<1> QED
  BY <1>1, <1>4, <1>5

(***************************************************************************)
(* A run that fails keeps the pending pointer when it had begun to send     *)
(* (update.py:305-308).                                                     *)
(***************************************************************************)
LEMMA RaiseKeeps ==
  ASSUME IInv, Raise
  PROVE  IInv'
<1>1. /\ run.at \notin {"idle", "settle"} /\ run' = [at |-> "idle"]
      /\ UNCHANGED <<gen, served, receipted, pointer, seed>>
      /\ status' = [status EXCEPT !.phase = IF status.phase = "publishing"
                                            THEN "publication_unknown" ELSE "failed"]
      /\ wire' \in {wire, Nothing}
  BY DEF Raise, At, Fail, Save, Leave, Idle, HangUp, site
<1>2. Dbs' = Dbs /\ Current' = Current
  BY <1>1 DEF Dbs, Current
<1>3. /\ DOMAIN status' = DOMAIN status /\ status'.pending = status.pending
      /\ Unresolved' <=> Unresolved
  <2>1. status.phase # "publication_unknown"
    BY <1>1 DEF IInv, Shaped, Quiet, Sending, Places, Before, After, Unresolved
  <2> QED
    BY <1>1, <2>1 DEF IInv, Shaped, Unresolved
<1>4. Shaped'
  BY <1>1, <1>2, <1>3 DEF IInv, Shaped, IsPointer, Places
<1>5. (Quiet /\ Sending /\ BaseKept /\ Delivered)'
  BY <1>1 DEF Quiet, Sending, BaseKept, Delivered, Before, After
<1>6. (Unsent /\ InFlight /\ Settled /\ ServedIsTracked)'
  BY <1>1, <1>2, <1>3 DEF IInv, Unsent, InFlight, Settled, ServedIsTracked
<1> QED
  BY <1>4, <1>5, <1>6 DEF IInv

(***************************************************************************)
(* The pending pointer becomes current.json: with the receipt there is      *)
(* nothing else of the updater's that the site could serve                  *)
(* (update.py:311-324).                                                     *)
(***************************************************************************)
LEMMA ReconcileKeeps ==
  ASSUME IInv, Reconcile
  PROVE  IInv'
<1>1. /\ Unresolved /\ status.pending.db \in receipted /\ run' = [at |-> "settle"]
      /\ pointer' = [status.pending EXCEPT !.publication = TRUE, !.published = status.pending.db]
      /\ UNCHANGED <<gen, served, receipted, wire, seed, status>>
  BY DEF Reconcile, server
<1>2. /\ pointer'.publication = TRUE /\ pointer'.published = status.pending.db
      /\ pointer'.db = status.pending.db /\ DOMAIN pointer' = DOMAIN status.pending
  BY <1>1 DEF IInv, Shaped, IsPointer
<1>3. pointer' # Nothing
  BY <1>1, <1>2 DEF IInv, Shaped, IsPointer, Nothing, Dbs
<1>4. Shaped'
  BY <1>1, <1>2 DEF IInv, Shaped, IsPointer, Places, Dbs, Unresolved
<1>5. (Quiet /\ Sending /\ BaseKept /\ Delivered)'
  BY <1>1, <1>2, <1>3 DEF Quiet, Sending, BaseKept, Delivered, Before, After, Unresolved
<1>6. (Unsent /\ InFlight /\ Settled)'
  BY <1>1, <1>2 DEF IInv, Unsent, InFlight, Settled, Unresolved
<1>7. ServedIsTracked'
  BY <1>1, <1>2, <1>3 DEF IInv, Settled, ServedIsTracked, Current, Unresolved
<1> QED
  BY <1>4, <1>5, <1>6, <1>7 DEF IInv

(***************************************************************************)
(* The unresolved state is given up only when the generation is not served, *)
(* has no receipt and no command for it is left (AUTOMATIC_UPDATES.md).     *)
(***************************************************************************)
LEMMA ClearKeeps ==
  ASSUME IInv, Clear
  PROVE  IInv'
<1>1. /\ run.at = "idle" /\ Unresolved /\ wire = Nothing
      /\ served # status.pending.db /\ status.pending.db \notin receipted
      /\ status' = [status EXCEPT !.phase = "failed"]
      /\ UNCHANGED <<gen, served, receipted, wire, pointer, seed, run>>
  BY DEF Clear, At, Save, server
<1>2. Dbs' = Dbs /\ Current' = Current /\ ~Unresolved'
  BY <1>1 DEF Dbs, Current, Unresolved, IInv, Shaped
<1>3. Shaped'
  BY <1>1, <1>2 DEF IInv, Shaped, IsPointer
<1>4. (Quiet /\ Sending /\ BaseKept /\ Delivered)'
  BY <1>1 DEF Quiet, Sending, BaseKept, Delivered, Before, After
<1>5. (Unsent /\ InFlight /\ Settled /\ ServedIsTracked)'
  BY <1>1, <1>2 DEF IInv, Unsent, InFlight, Settled, ServedIsTracked
<1> QED
  BY <1>3, <1>4, <1>5 DEF IInv

(***************************************************************************)
(* The server's own jobs add a generation that is not the updater's, and    *)
(* serve it (dataset.py:291-331).                                           *)
(***************************************************************************)
LEMMA ServerKeeps ==
  ASSUME Listed, IInv, NEW data, ServerBuilds(data)
  PROVE  Listed' /\ IInv'
<1> DEFINE g == [data |-> data, ours |-> FALSE]
<1>0. gen' = Append(gen, g)
  BY DEF ServerBuilds
<1>1. /\ Listed' /\ \A n \in Dbs : n \in Dbs' /\ gen'[n] = gen[n]
      /\ Len(gen') \in Dbs' /\ gen'[Len(gen')].ours = FALSE
  <2>1. /\ Listed' /\ \A n \in Dbs : n \in Dbs' /\ gen'[n] = gen[n]
        /\ Len(gen') \in Dbs' /\ gen'[Len(gen')] = g
    BY <1>0, Grown
  <2> QED
    BY <2>1
<1>2. /\ served' = Len(gen')
      /\ UNCHANGED <<receipted, wire, pointer, seed, status, run>>
  BY DEF ServerBuilds, Serve
<1>3. Shaped'
  BY <1>1, <1>2 DEF IInv, Shaped, IsPointer, Unresolved
<1>4. Current' = Current
  BY <1>1, <1>2 DEF IInv, Shaped, Current
<1>5. (Quiet /\ Sending /\ BaseKept /\ Unsent /\ InFlight /\ Delivered)'
  BY <1>2, <1>4 DEF IInv, Quiet, Sending, BaseKept, Unsent, InFlight, Delivered, Unresolved
<1>6. Settled' /\ ServedIsTracked'
  BY <1>1, <1>2 DEF IInv, Settled, ServedIsTracked
<1> QED
  BY <1>1, <1>3, <1>5, <1>6 DEF IInv

(***************************************************************************)
(* A step that changes nothing keeps the invariant.                         *)
(***************************************************************************)
LEMMA StutterKeeps ==
  ASSUME Listed, IInv, UNCHANGED vars
  PROVE  Listed' /\ IInv'
<1> USE DEF vars, Dbs, Current, Unresolved
<1>1. Listed' /\ Dbs' = Dbs /\ Current' = Current /\ Unresolved' = Unresolved
  BY DEF Listed
<1>2. (Shaped /\ Quiet /\ Sending /\ BaseKept /\ Unsent)'
  BY <1>1 DEF IInv, Shaped, IsPointer, Quiet, Sending, BaseKept, Unsent
<1>3. (InFlight /\ Delivered /\ Settled /\ ServedIsTracked)'
  BY <1>1 DEF IInv, InFlight, Delivered, Settled, ServedIsTracked
<1> QED
  BY <1>1, <1>2, <1>3 DEF IInv

\* The actions that need no more than the parts of the invariant, expanded.
Other ==
  \/ \E f \in Files : GameSaves(f) \/ Digest(f) \/ Archive(f)
  \/ Unchanged \/ Import \/ Send \/ WritePointer \/ Finish \/ Receive \/ Crash \/ Activate \/ Refuse
  \/ ActivateFails \/ RemoveLock \/ Settle \/ Resend \/ Realign

(***************************************************************************)
(* The other actions: each changes one of the places that the parts of the  *)
(* invariant speak of, and leaves the generations as they are.              *)
(***************************************************************************)
LEMMA OthersKeep ==
  ASSUME IInv, Other
  PROVE  IInv'
<1> USE DEF IInv, Shaped, Quiet, Sending, BaseKept, Unsent, InFlight, Delivered, Settled,
            ServedIsTracked, IsPointer, Places, RunFields, Before, After, Dbs, Current,
            Unresolved, Unpublished, Nothing
<1>1. ASSUME NEW f \in Files, GameSaves(f) PROVE IInv'
  BY <1>1, SMTT(30) DEF GameSaves, server
<1>2. ASSUME NEW f \in Files, Digest(f) PROVE IInv'
  BY <1>2, SMTT(30) DEF Digest, At, server
<1>3. ASSUME NEW f \in Files, Archive(f) PROVE IInv'
  BY <1>3, SMTT(30) DEF Archive, At, server
<1>4. ASSUME Unchanged PROVE IInv'
  BY <1>4, SMTT(30) DEF Unchanged, At, Save, Leave, Idle, server
<1>5. ASSUME Import PROVE IInv'
  BY <1>5, SMTT(30) DEF Import, At, Save, server
<1>6. ASSUME Send PROVE IInv'
  BY <1>6, SMTT(30) DEF Send, At, site
<1>7. ASSUME WritePointer PROVE IInv'
  BY <1>7, SMTT(30) DEF WritePointer, At, NextCurrent, server
<1>8. ASSUME Finish PROVE IInv'
  BY <1>8, SMTT(30) DEF Finish, At, Save, Leave, Idle, server
<1>9. ASSUME Receive PROVE IInv'
  BY <1>9, SMTT(30) DEF Receive, At, Confirmed, Fail, Save, Leave, Idle, site
<1>10. ASSUME Crash PROVE IInv'
  BY <1>10, SMTT(30) DEF Crash, At, HangUp, Idle, site
<1>11. ASSUME Activate PROVE IInv'
  BY <1>11, SMTT(30) DEF Activate, Confirms, Replaces, Answer, Serve, At
<1>12. ASSUME Refuse PROVE IInv'
  BY <1>12, SMTT(30) DEF Refuse, Confirms, Replaces, Answer, At, site
<1>13. ASSUME ActivateFails PROVE IInv'
  BY <1>13, SMTT(30) DEF ActivateFails, Replaces, Answer, Serve, At
<1>14. ASSUME RemoveLock PROVE IInv'
  BY <1>14, SMTT(30) DEF RemoveLock, server
<1>15. ASSUME Settle PROVE IInv'
  BY <1>15, SMTT(30) DEF Settle, At, Leave, Idle, server
<1>16. ASSUME Resend PROVE IInv'
  BY <1>16, SMTT(30) DEF Resend, At, site
<1>17. ASSUME Realign PROVE IInv'
  BY <1>17, SMTT(30) DEF Realign, At, server
<1> QED
  BY <1>1, <1>2, <1>3, <1>4, <1>5, <1>6, <1>7, <1>8, <1>9, <1>10, <1>11, <1>12, <1>13, <1>14,
       <1>15, <1>16, <1>17 DEF Other

(***************************************************************************)
(* Every step keeps the invariant, and the generations that were built      *)
(* (update.py:196-327, dataset.py:291-331).                                 *)
(***************************************************************************)
LEMMA NextKeeps ==
  ASSUME Listed, IInv, [Next]_vars
  PROVE  Listed' /\ IInv'
<1>1. CASE Other
  <2>1. UNCHANGED gen
    BY <1>1 DEF Other, Unchanged, Import, Send, WritePointer, Finish, Receive, Crash, Activate,
                Refuse, ActivateFails, RemoveLock, Settle, Resend, Realign, GameSaves, Digest,
                Archive
  <2> QED
    BY <1>1, <2>1, OthersKeep DEF Listed
<1>2. ASSUME NEW files \in {Saved, Discovered}, NEW publish \in BOOLEAN, Begin(files, publish)
      PROVE  Listed' /\ IInv'
  BY <1>2, BeginKeeps DEF Begin, Listed
<1>3. CASE Reuse
  BY <1>3, ReuseKeeps DEF Reuse, Listed
<1>4. CASE Stage
  BY <1>4, StageKeeps
<1>5. CASE Accept
  BY <1>5, AcceptKeeps DEF Accept, Listed
<1>6. CASE Raise
  BY <1>6, RaiseKeeps DEF Raise, Listed
<1>7. CASE Reconcile
  BY <1>7, ReconcileKeeps DEF Reconcile, Listed
<1>8. CASE Clear
  BY <1>8, ClearKeeps DEF Clear, Listed
<1>9. ASSUME NEW s \in ForeignScans, ServerImports(s)
      PROVE  Listed' /\ IInv'
  BY <1>9, ServerKeeps DEF ServerImports
<1>10. ASSUME NEW cutoff \in Cutoffs, ServerPrunes(cutoff)
       PROVE  Listed' /\ IInv'
  BY <1>10, ServerKeeps DEF ServerPrunes
<1>11. CASE UNCHANGED vars
  BY <1>11, StutterKeeps
<1> QED
  BY <1>1, <1>2, <1>3, <1>4, <1>5, <1>6, <1>7, <1>8, <1>9, <1>10, <1>11 DEF Next, Other

--------------------------------------------------------------------------------

(***************************************************************************)
(* For every value of the constants: what the site serves of the updater's  *)
(* is what current.json says was published, or the pending generation of an *)
(* unresolved publication, and what current.json says was published has its *)
(* receipt (update.py:204, 293-304, 311-327).                               *)
(***************************************************************************)
THEOREM PublicationsTracked == Spec => []ServedIsTracked
<1>1. Init => Listed /\ IInv
  BY InitKeeps
<1>2. Listed /\ IInv /\ [Next]_vars => Listed' /\ IInv'
  BY NextKeeps
<1>3. IInv => ServedIsTracked
  BY DEF IInv
<1> QED
  BY <1>1, <1>2, <1>3, PTL DEF Spec

--------------------------------------------------------------------------------
\* What the generations hold, and what is recorded of it.

\* The generation of a number.
Data(n) == gen[n].data

\* A pointer, or a run with a generation db: nothing is recorded ahead of the
\* file, and what is recorded of the file as it is was imported.
Imported(receipts, db) ==
  \A f \in Files :
    /\ receipts[f] <= disk[f]
    /\ disk[f] # 0 /\ receipts[f] = disk[f] => ScansIn[disk[f]] \subseteq Stored(Data(db))

Honest(p) == Extends(Data(p.db), Data(p.published)) /\ Imported(p.receipts, p.db)

\* What the run works with has its type, and every file it has to read is there.
RunTyped ==
  /\ run.at \notin {"idle", "settle"} =>
       /\ run.was \in Pointers /\ run.todo \subseteq Saved
       /\ run.changed \in Seq(Contents) /\ run.receipts \in [Files -> Contents \cup {0}]
  /\ run.at = "archive" => run.file \in Saved

\* Every generation can be read back and numbered on.
AllSound == \A n \in Dbs : Sound(Data(n))

\* Every pointer, in a file or in memory, says the truth.
PointersHonest ==
  /\ pointer # Nothing => Honest(pointer)
  /\ Unresolved => Honest(status.pending)
  /\ run.at \notin {"idle", "settle"} => Honest(run.was)

\* What the run has recorded of a file is imported already, archived or about to be.
Seen(r, f) ==
  /\ r.receipts[f] <= disk[f]
  /\ disk[f] # 0 /\ r.receipts[f] = disk[f] =>
       \/ ScansIn[disk[f]] \subseteq Stored(Data(r.was.db))
       \/ \E i \in DOMAIN r.changed : r.changed[i] = disk[f]
       \/ r.at = "archive" /\ r.file = f

\* While files are read, nothing is staged yet.
Reading ==
  /\ run.at \in {"digest", "archive"} => run.db = run.was.db
  /\ run.at \in {"digest", "archive", "stage"} => \A f \in Files : Seen(run, f)

\* Afterwards the run's generation is what its receipts say it is.
Staged ==
  run.at \in {"accept", "send", "wait", "point"} =>
    Extends(Data(run.db), Data(run.was.published)) /\ Imported(run.receipts, run.db)

\* A command can only replace a generation by one that extends it.
WireExtends == wire # Nothing => Extends(Data(wire.db), Data(wire.base))

\* An id that is served names what it always named, or was never shown before.
ServedFollows == served \in shown /\ \A m \in shown : Follows(Data(served), Data(m))

\* The whole invariant of the data.
DataInv ==
  /\ TypeOK /\ RunTyped /\ AllSound /\ PointersHonest /\ Reading /\ Staged
  /\ WireExtends /\ ServedFollows /\ IdsAreForever

(***************************************************************************)
(* What the updater's recursion over the changed files computes is such a   *)
(* loop: the result is sound, extends the base and holds every file's scans *)
(* (manage.py:172-182, 199-260).                                            *)
(***************************************************************************)
LEMMA MergesAll ==
  ASSUME NEW base, Sound(base), NEW changed \in Seq(Contents)
  PROVE  LET merge[i \in 0..Len(changed)] ==
               IF i = 0 THEN base ELSE Merge(merge[i - 1], Build(ScansIn[changed[i]]))
             merged == merge[Len(changed)]
         IN  /\ Sound(merged) /\ Extends(merged, base)
             /\ \A i \in DOMAIN changed : ScansIn[changed[i]] \subseteq Stored(merged)
<1> DEFINE merge[i \in 0..Len(changed)] ==
             IF i = 0 THEN base ELSE Merge(merge[i - 1], Build(ScansIn[changed[i]]))
<1>1. PICK n : n = Len(changed)
  OBVIOUS
<1>2. n \in Nat /\ DOMAIN changed = 1..n /\ \A i \in 1..n : changed[i] \in Contents
  BY <1>1
<1>3. PICK build : build = [i \in 1..n |-> Build(ScansIn[changed[i]])]
  OBVIOUS
<1>4. \A i \in 1..n : Sound(build[i]) /\ Stored(build[i]) = ScansIn[changed[i]]
  <2> TAKE i \in 1..n
  <2>1. ScansIn[changed[i]] \subseteq Scans /\ IsFiniteSet(ScansIn[changed[i]])
    BY <1>2, UpdateConstants
  <2> QED
    BY <1>3, <2>1, BuildSound
<1>5. PICK h : Merges(h, base, build, n)
  BY <1>2, MergesExist
<1>6. ASSUME NEW f
      PROVE  [i \in 0..n |-> IF i = 0 THEN base ELSE Merge(f[i - 1], build[i])]
               = [i \in 0..Len(changed) |->
                   IF i = 0 THEN base ELSE Merge(f[i - 1], Build(ScansIn[changed[i]]))]
  <2>1. \A i \in 0..n : i # 0 => build[i] = Build(ScansIn[changed[i]])
    BY <1>2, <1>3
  <2> QED
    BY <1>1, <2>1
<1>7. h = [i \in 0..Len(changed) |->
               IF i = 0 THEN base ELSE Merge(h[i - 1], Build(ScansIn[changed[i]]))]
  BY <1>5, <1>6 DEF Merges
<1>8. merge = [i \in 0..Len(changed) |->
                 IF i = 0 THEN base ELSE Merge(merge[i - 1], Build(ScansIn[changed[i]]))]
  BY <1>7
<1> HIDE DEF merge
<1>9. Merges(merge, base, build, n)
  BY <1>6, <1>8 DEF Merges
<1>10. /\ Sound(merge[n]) /\ Extends(merge[n], base)
       /\ \A k \in 1..n : Stored(build[k]) \subseteq Stored(merge[n])
  BY <1>2, <1>4, <1>9, MergesSound
<1> QED
  BY <1>1, <1>2, <1>4, <1>10 DEF merge

(***************************************************************************)
(* What run_update takes for current is a pointer, also when there is only  *)
(* the seed database (update.py:216-221).                                   *)
(***************************************************************************)
LEMMA CurrentIsPointer ==
  ASSUME IInv, TypeOK, AllSound
  PROVE  Current \in Pointers
<1>1. CASE pointer # Nothing
  BY <1>1 DEF TypeOK, Current
<1>2. CASE pointer = Nothing
  <2> DEFINE scans == Stored(gen[seed].data)
             times == {TimeOf[s] : s \in scans}
  <2>1. seed \in Dbs /\ Numbered(gen[seed].data)
    BY DEF IInv, Shaped, AllSound, Sound, Data
  <2>2. IsFiniteSet(scans) /\ scans \subseteq Scans
    BY <2>1, StoredFinite DEF Numbered
  <2>3. times \subseteq Nat
    BY <2>2, GenerationConstants
  <2>4. IsFiniteSet(times)
    BY <2>2, ImageFinite
  <2>5. Largest(times) \in Nat
    <3> HIDE DEF times
    <3> QED
      BY <2>3, <2>4, LargestIs
  <2>6. Current = [db |-> seed, publication |-> FALSE, published |-> seed,
                   receipts |-> NoReceipts, floor |-> Largest(times)]
    BY <1>2 DEF Current
  <2> HIDE DEF times
  <2> QED
    BY <2>1, <2>5, <2>6 DEF Pointers, NoReceipts
<1> QED
  BY <1>1, <1>2

(***************************************************************************)
(* And so is what it writes next (update.py:278-283).                       *)
(***************************************************************************)
LEMMA NextIsPointer ==
  ASSUME IInv, RunTyped, run.at \notin {"idle", "settle"}, NEW publication \in BOOLEAN
  PROVE  NextCurrent(publication) \in Pointers
<1>1. /\ run.db \in Dbs /\ run.was \in Pointers
      /\ run.receipts \in [Files -> Contents \cup {0}]
  BY DEF IInv, Shaped, RunTyped
<1>2. run.was.published \in Dbs /\ run.was.floor \in Nat
  BY <1>1 DEF Pointers
<1> QED
  BY <1>1, <1>2 DEF NextCurrent, Pointers

(***************************************************************************)
(* No pointer is mistaken for the missing file.                             *)
(***************************************************************************)
LEMMA NothingIsNoPointer ==
  ASSUME NEW p \in Pointers
  PROVE  p # Nothing
<1>1. p.db # 0
  BY DEF Pointers, Dbs
<1> QED
  BY <1>1 DEF Nothing

(***************************************************************************)
(* What the updater stages is sound, extends the generation it began with,  *)
(* and holds what it archived.                                              *)
(***************************************************************************)
LEMMA MergedSound ==
  ASSUME RunTyped, AllSound, run.at \notin {"idle", "settle"}
  PROVE  /\ Sound(Merged) /\ Extends(Merged, Data(run.was.db))
         /\ \A i \in DOMAIN run.changed : ScansIn[run.changed[i]] \subseteq Stored(Merged)
<1>1. PICK base, changed : base = gen[run.was.db].data /\ changed = run.changed
  OBVIOUS
<1>2. run.was.db \in Dbs /\ changed \in Seq(Contents)
  BY <1>1 DEF RunTyped, Pointers
<1>3. Sound(base)
  BY <1>1, <1>2 DEF AllSound, Data
<1> QED
  BY <1>1, <1>2, <1>3, MergesAll DEF Merged, Data

\* TypeOK in three parts: the server, the updater's files, the updater itself.
ServerTyped ==
  /\ \A n \in Dbs : gen[n].ours \in BOOLEAN /\ Stored(gen[n].data) \subseteq Scans
  /\ {served, seed} \cup receipted \cup shown \subseteq Dbs
  /\ wire = Nothing \/ {wire.db, wire.base} \subseteq Dbs

StatusTyped ==
  /\ pointer \in {Nothing} \cup Pointers
  /\ status.phase \in Phases /\ status.pending \in {Nothing} \cup Pointers
  /\ Unresolved => status.pending # Nothing

ControlTyped ==
  /\ disk \in [Files -> Contents \cup {0}]
  /\ run.at \in {"idle", "digest", "archive", "stage", "accept", "send", "wait", "point", "finish",
                 "settle"}
  /\ lock \in BOOLEAN /\ faults \in 0..MaxFaults

(***************************************************************************)
(* The type invariant is its three parts.                                   *)
(***************************************************************************)
LEMMA TypeParts == TypeOK <=> ServerTyped /\ StatusTyped /\ ControlTyped
  BY DEF TypeOK, ServerTyped, StatusTyped, ControlTyped

(***************************************************************************)
(* The types of the server's part, in steps that build nothing: an answer   *)
(* or a command keeps naming real generations (dataset.py:310-323).         *)
(***************************************************************************)
LEMMA ServerTypedStep ==
  ASSUME Listed, IInv, TypeOK, RunTyped, UNCHANGED gen, [Next]_vars
  PROVE  ServerTyped'
<1>1. Dbs' = Dbs
  BY DEF Dbs
<1>2. /\ \A n \in Dbs : gen'[n].ours \in BOOLEAN /\ Stored(gen'[n].data) \subseteq Scans
      /\ served \in Dbs /\ seed \in Dbs /\ receipted \subseteq Dbs /\ shown \subseteq Dbs
      /\ wire # Nothing => wire.db \in Dbs /\ wire.base \in Dbs
  BY DEF TypeOK
<1>3. SUFFICES /\ served' \in Dbs /\ seed' \in Dbs /\ receipted' \subseteq Dbs
               /\ shown' \subseteq Dbs
               /\ wire' # Nothing => wire'.db \in Dbs /\ wire'.base \in Dbs
  BY <1>1, <1>2 DEF ServerTyped
<1>4. CASE UNCHANGED <<served, shown, receipted, wire, seed>>
  BY <1>2, <1>4
<1>5. CASE Send
  <2>1. run.db \in Dbs /\ run.was.published \in Dbs
    BY <1>5 DEF Send, At, IInv, Shaped, RunTyped, Pointers
  <2> QED
    BY <1>2, <1>5, <2>1 DEF Send, site
<1>6. CASE UNCHANGED <<served, shown, receipted, seed>> /\ wire' \in {wire, Nothing}
  BY <1>2, <1>6
<1>7. ASSUME NEW reply, Answer(reply), wire # Nothing
      PROVE  wire' # Nothing => wire'.db \in Dbs /\ wire'.base \in Dbs
  <2>1. wire' = [wire EXCEPT !.reply = reply] \/ wire' = Nothing
    BY <1>7 DEF Answer
  <2>2. wire' = [wire EXCEPT !.reply = reply] => wire'.db = wire.db /\ wire'.base = wire.base
    BY <1>7 DEF IInv, Shaped
  <2> QED
    BY <1>2, <1>7, <2>1, <2>2
<1>8. CASE Activate
  BY <1>2, <1>7, <1>8 DEF Activate, Serve
<1>9. CASE Refuse
  BY <1>2, <1>7, <1>9 DEF Refuse, site
<1>10. CASE ActivateFails
  BY <1>2, <1>7, <1>10 DEF ActivateFails, Serve
<1>11. CASE Resend
  <2>1. status.pending.db \in Dbs /\ status.pending.published \in Dbs
    BY <1>11 DEF Resend, IInv, Shaped, IsPointer
  <2> QED
    BY <1>2, <1>11, <2>1 DEF Resend, site
<1>12. CASE Realign
  BY <1>2, <1>12 DEF Realign, server
<1>13. Receive \/ Raise \/ Crash =>
         UNCHANGED <<served, shown, receipted, seed>> /\ wire' \in {wire, Nothing}
  BY DEF Receive, Raise, Crash, HangUp, site
<1>14. (\A s : ~ServerImports(s)) /\ (\A cutoff : ~ServerPrunes(cutoff))
  <2>1. PICK S : gen \in Seq(S)
    BY DEF Listed
  <2>2. \A data : Len(Append(gen, data)) # Len(gen)
    BY <2>1
  <2>3. \A data : ~ServerBuilds(data)
    BY <2>2 DEF ServerBuilds
  <2> QED
    BY <2>3 DEF ServerImports, ServerPrunes
<1>15. ASSUME NEW f \in Files, GameSaves(f) \/ Digest(f) \/ Archive(f)
       PROVE  UNCHANGED <<served, shown, receipted, wire, seed>>
  BY <1>15 DEF GameSaves, Digest, Archive, server
<1>16. ASSUME NEW files, NEW publish, Begin(files, publish)
       PROVE  UNCHANGED <<served, shown, receipted, wire, seed>>
  BY <1>16 DEF Begin, server
<1>17. ASSUME \/ Unchanged \/ Reuse \/ Import \/ Stage \/ Accept \/ WritePointer \/ Finish
              \/ RemoveLock \/ Reconcile \/ Settle \/ Clear \/ UNCHANGED vars
       PROVE  UNCHANGED <<served, shown, receipted, wire, seed>>
  BY <1>17 DEF Unchanged, Reuse, Import, Stage, Accept, WritePointer, Finish, RemoveLock, Reconcile,
         Settle, Clear, server, vars
<1>19. \/ UNCHANGED <<served, shown, receipted, wire, seed>> \/ Send \/ Receive \/ Raise \/ Crash
       \/ Activate \/ Refuse \/ ActivateFails \/ Resend \/ Realign
  BY <1>14, <1>15, <1>16, <1>17 DEF Next
<1> QED
  BY <1>4, <1>5, <1>6, <1>8, <1>9, <1>10, <1>11, <1>12, <1>13, <1>19

(***************************************************************************)
(* The types of the updater's two files: what is written is a pointer that  *)
(* was just read or made (update.py:210-213, 278-302).                      *)
(***************************************************************************)
LEMMA StatusTypedStep ==
  ASSUME IInv, TypeOK, RunTyped, AllSound, UNCHANGED gen, [Next]_vars
  PROVE  StatusTyped'
<1>1. Dbs' = Dbs /\ Pointers' = Pointers
  BY DEF Dbs, Pointers
<1>2. \A p \in Pointers : p # Nothing
  BY NothingIsNoPointer
<1>3. /\ pointer \in {Nothing} \cup Pointers
      /\ status.phase \in Phases /\ status.pending \in {Nothing} \cup Pointers
      /\ {"phase", "pending"} \subseteq DOMAIN status
      /\ Unresolved => status.pending # Nothing
  BY DEF TypeOK, IInv, Shaped
<1>4. /\ pointer' \in {Nothing} \cup Pointers
      /\ status'.phase \in Phases /\ status'.pending \in {Nothing} \cup Pointers
      /\ status'.phase \in {"publishing", "publication_unknown"} => status'.pending # Nothing
      => StatusTyped'
  BY <1>1 DEF StatusTyped, Unresolved
<1>5. CASE UNCHANGED <<pointer, status>>
  BY <1>3, <1>4, <1>5 DEF Unresolved
<1>6. ASSUME NEW phase \in Phases, Save(phase), UNCHANGED pointer,
             phase \notin {"publishing", "publication_unknown"} \/ Unresolved
      PROVE  StatusTyped'
  <2>1. status'.phase = phase /\ status'.pending = status.pending
    BY <1>6 DEF Save
  <2> QED
    BY <1>3, <1>4, <1>6, <2>1 DEF Unresolved
<1>7. ASSUME Fail, UNCHANGED pointer
      PROVE  StatusTyped'
  <2> DEFINE phase == IF status.phase = "publishing" THEN "publication_unknown" ELSE "failed"
  <2>1. phase \in Phases /\ (phase # "publication_unknown" \/ Unresolved) /\ Save(phase)
    BY <1>7 DEF Fail, Phases, Unresolved
  <2>2. phase # "publishing"
    OBVIOUS
  <2> HIDE DEF phase
  <2> QED
    BY <1>6, <1>7, <2>1, <2>2
<1>8. CASE Unchanged \/ Import \/ Finish \/ Clear
  <2>1. \E phase \in Phases \ {"publishing", "publication_unknown"} : Save(phase)
    BY <1>8 DEF Unchanged, Import, Finish, Clear, Phases
  <2>2. UNCHANGED pointer
    BY <1>8 DEF Unchanged, Import, Finish, Clear
  <2> QED
    BY <1>6, <2>1, <2>2
<1>9. CASE Receive \/ Raise \/ Stage
  <2>1. UNCHANGED pointer /\ (Fail \/ UNCHANGED status)
    BY <1>9 DEF Receive, Raise, Stage
  <2> QED
    BY <1>5, <1>7, <2>1
<1>10. CASE \E files, publish : Begin(files, publish)
  BY <1>3, <1>4, <1>10 DEF Begin, Phases
<1>11. CASE Accept
  <2>1. NextCurrent(FALSE) \in Pointers
    BY <1>11, NextIsPointer DEF Accept, At
  <2>2. UNCHANGED pointer
    BY <1>11 DEF Accept
  <2>3. CASE run.publish
    <3>1. status' = [phase |-> "publishing", pending |-> NextCurrent(FALSE)]
      BY <1>11, <2>3 DEF Accept
    <3> QED
      BY <1>2, <1>3, <1>4, <2>1, <2>2, <3>1 DEF Phases
  <2>4. CASE ~run.publish
    BY <1>5, <1>11, <2>2, <2>4 DEF Accept
  <2> QED
    BY <2>3, <2>4
<1>12. CASE WritePointer
  <2>1. run.publish \in BOOLEAN /\ run.at = "point"
    BY <1>12 DEF WritePointer, At, IInv, Shaped
  <2>2. NextCurrent(run.publish) \in Pointers
    BY <2>1, NextIsPointer
  <2> QED
    BY <1>3, <1>4, <1>12, <2>2 DEF WritePointer, Unresolved
<1>13. CASE Reconcile
  <2>1. status.pending \in Pointers /\ UNCHANGED status
    BY <1>3, <1>13 DEF Reconcile
  <2>2. [status.pending EXCEPT !.publication = TRUE, !.published = status.pending.db] \in Pointers
    BY <2>1 DEF Pointers
  <2> QED
    BY <1>3, <1>4, <1>13, <2>1, <2>2 DEF Reconcile, Unresolved
<1>14. CASE Settle
  BY <1>3, <1>4, <1>14 DEF Settle, Phases
<1>15. CASE Realign
  BY <1>3, <1>4, <1>15 DEF Realign, Unresolved
<1>16. ASSUME NEW f \in Files, GameSaves(f) \/ Digest(f) \/ Archive(f)
       PROVE  UNCHANGED <<pointer, status>>
  BY <1>16 DEF GameSaves, Digest, Archive
<1>17. ASSUME \/ Reuse \/ Send \/ Crash \/ Activate \/ Refuse \/ ActivateFails
              \/ RemoveLock \/ Resend \/ UNCHANGED vars
       PROVE  UNCHANGED <<pointer, status>>
  BY <1>17 DEF Reuse, Send, Crash, Activate, Refuse, ActivateFails, RemoveLock, Resend, vars
<1>18. ASSUME NEW s, NEW cutoff, ServerImports(s) \/ ServerPrunes(cutoff)
       PROVE  UNCHANGED <<pointer, status>>
  BY <1>18 DEF ServerImports, ServerPrunes, ServerBuilds
<1>19. \/ UNCHANGED <<pointer, status>> \/ Unchanged \/ Import \/ Finish \/ Clear
       \/ Receive \/ Raise \/ Stage \/ (\E files, publish : Begin(files, publish))
       \/ Accept \/ WritePointer \/ Reconcile \/ Settle \/ Realign
  BY <1>16, <1>17, <1>18 DEF Next
<1> QED
  BY <1>5, <1>8, <1>9, <1>10, <1>11, <1>12, <1>13, <1>14, <1>15, <1>19

(***************************************************************************)
(* The types of the updater's own state, and what it works with: a file     *)
(* that is to be read stays there, and its content is one the game wrote    *)
(* (update.py:222-239, manage.py:53-84).                                    *)
(***************************************************************************)
LEMMA ControlTypedStep ==
  ASSUME IInv, TypeOK, RunTyped, AllSound, \A p \in Pointers : p \in Pointers', [Next]_vars
  PROVE  ControlTyped' /\ RunTyped'
<1> DEFINE Free == {"idle", "settle"}
           Typed(r) == /\ r.was \in Pointers' /\ r.todo \subseteq Saved'
                       /\ r.changed \in Seq(Contents)
                       /\ r.receipts \in [Files -> Contents \cup {0}]
<1>1. /\ disk \in [Files -> Contents \cup {0}] /\ lock \in BOOLEAN /\ faults \in 0..MaxFaults
      /\ run.at \in Places
      /\ run.at \notin Free => RunFields \subseteq DOMAIN run
      /\ "at" \in DOMAIN run
  BY DEF TypeOK, IInv, Shaped, Places
<1>2. disk' \in [Files -> Contents \cup {0}] /\ Saved \subseteq Saved'
  <2>1. CASE UNCHANGED disk
    BY <1>1, <2>1 DEF Saved
  <2>2. ASSUME NEW f \in Files, GameSaves(f)
        PROVE  disk' \in [Files -> Contents \cup {0}] /\ Saved \subseteq Saved'
    <3>1. PICK c \in ContentsOf[f] : disk' = [disk EXCEPT ![f] = c]
      BY <2>2 DEF GameSaves
    <3>2. c \in Contents /\ c # 0
      BY UpdateConstants
    <3> QED
      BY <1>1, <3>1, <3>2 DEF Saved
  <2>3. UNCHANGED disk \/ \E f \in Files : GameSaves(f)
    <3>1. ASSUME NEW f \in Files, Digest(f) \/ Archive(f)
          PROVE  UNCHANGED disk
      BY <3>1 DEF Digest, Archive
    <3>2. ASSUME NEW files, NEW publish, Begin(files, publish)
          PROVE  UNCHANGED disk
      BY <3>2 DEF Begin
    <3>3. ASSUME NEW s, NEW cutoff, ServerImports(s) \/ ServerPrunes(cutoff)
          PROVE  UNCHANGED disk
      BY <3>3 DEF ServerImports, ServerPrunes, ServerBuilds
    <3>4. ASSUME \/ Unchanged \/ Reuse \/ Import \/ Stage \/ Accept \/ Send \/ WritePointer
                 \/ Finish \/ Receive \/ Raise \/ Crash \/ Activate \/ Refuse \/ ActivateFails
          PROVE  UNCHANGED disk
      BY <3>4 DEF Unchanged, Reuse, Import, Stage, Accept, Send, WritePointer, Finish, Receive,
                  Raise, Crash, Activate, Refuse, ActivateFails
    <3>5. ASSUME \/ RemoveLock \/ Reconcile \/ Settle \/ Resend \/ Clear \/ Realign
                 \/ UNCHANGED vars
          PROVE  UNCHANGED disk
      BY <3>5 DEF RemoveLock, Reconcile, Settle, Resend, Clear, Realign, vars
    <3> QED
      BY <3>1, <3>2, <3>3, <3>4, <3>5 DEF Next
  <2> QED
    BY <2>1, <2>2, <2>3
<1>3. run.at \notin Free => Typed(run)
  BY <1>2 DEF RunTyped
<1>4. run.at = "archive" => run.file \in Saved'
  BY <1>2 DEF RunTyped
<1> HIDE DEF Typed
\* What a step does to the run, the lock and the fault count.
<1>5. ASSUME run'.at \in Places, run'.at \notin Free => Typed(run'),
             run'.at = "archive" => run'.file \in Saved', lock' \in BOOLEAN,
             faults' \in 0..MaxFaults
      PROVE  ControlTyped' /\ RunTyped'
  BY <1>2, <1>5 DEF ControlTyped, RunTyped, Typed, Places
<1>6. ASSUME UNCHANGED run, lock' \in BOOLEAN, faults' \in 0..MaxFaults
      PROVE  ControlTyped' /\ RunTyped'
  BY <1>1, <1>3, <1>4, <1>5, <1>6
<1>7. ASSUME run'.at \in Free, lock' \in BOOLEAN, faults' \in 0..MaxFaults
      PROVE  ControlTyped' /\ RunTyped'
  BY <1>5, <1>7 DEF Places
<1>8. ASSUME NEW place \in Places \ {"archive"}, run.at \notin Free,
             run' = [run EXCEPT !.at = place], UNCHANGED <<lock, faults>>
      PROVE  ControlTyped' /\ RunTyped'
  <2>1. run'.at = place /\ run'.was = run.was /\ run'.todo = run.todo
        /\ run'.changed = run.changed /\ run'.receipts = run.receipts
    BY <1>1, <1>8 DEF RunFields
  <2>2. Typed(run')
    BY <1>3, <1>8, <2>1 DEF Typed
  <2> QED
    BY <1>1, <1>5, <1>8, <2>1, <2>2
<1>9. Fault => faults' \in 0..MaxFaults
  BY <1>1, UpdateConstants DEF Fault
<1>10. CASE \E f \in Files : GameSaves(f)
  BY <1>1, <1>6, <1>10 DEF GameSaves
<1>11. ASSUME NEW f \in Files, Digest(f)
       PROVE  ControlTyped' /\ RunTyped'
  <2>1. run.at = "digest" /\ f \in run.todo /\ UNCHANGED <<disk, lock, faults>>
    BY <1>11 DEF Digest, At
  <2>2. PICK place \in {"digest", "archive"} :
          run' = [run EXCEPT !.todo = @ \ {f}, !.file = f, !.at = place, !.receipts[f] = disk[f]]
    BY <1>11 DEF Digest
  <2>3. /\ run'.at = place /\ run'.was = run.was /\ run'.todo = run.todo \ {f} /\ run'.file = f
        /\ run'.changed = run.changed /\ run'.receipts = [run.receipts EXCEPT ![f] = disk[f]]
    BY <1>1, <2>1, <2>2 DEF RunFields
  <2>4. disk[f] \in Contents \cup {0} /\ f \in Saved'
    BY <1>1, <1>3, <2>1 DEF Typed, Saved
  <2>5. Typed(run')
    BY <1>3, <2>1, <2>3, <2>4 DEF Typed
  <2> QED
    BY <1>1, <1>5, <2>1, <2>3, <2>4, <2>5 DEF Places
<1>12. ASSUME NEW f \in Files, Archive(f)
       PROVE  ControlTyped' /\ RunTyped'
  <2>1. /\ run.at = "archive" /\ f = run.file /\ UNCHANGED <<disk, lock, faults>>
        /\ run' = [run EXCEPT !.at = "digest", !.changed = Append(@, disk[f])]
    BY <1>12 DEF Archive, At
  <2>2. /\ run'.at = "digest" /\ run'.was = run.was /\ run'.todo = run.todo
        /\ run'.changed = Append(run.changed, disk[f]) /\ run'.receipts = run.receipts
    BY <1>1, <2>1 DEF RunFields
  <2>3. disk[f] \in Contents
    BY <1>1, <1>4, <2>1 DEF Saved
  <2>4. Append(run.changed, disk[f]) \in Seq(Contents)
    BY <1>3, <2>1, <2>3 DEF Typed
  <2>5. Typed(run')
    BY <1>3, <2>1, <2>2, <2>4 DEF Typed
  <2> QED
    BY <1>1, <1>5, <2>1, <2>2, <2>5 DEF Places
<1>13. ASSUME NEW files \in {Saved, Discovered}, NEW publish \in BOOLEAN, Begin(files, publish)
       PROVE  ControlTyped' /\ RunTyped'
  <2>1. files \subseteq Saved
    BY DEF Discovered
  <2>2. Current \in Pointers
    BY CurrentIsPointer
  <2>3. Current.receipts \in [Files -> Contents \cup {0}]
    BY <2>2 DEF Pointers
  <2>4. /\ run'.at = "digest" /\ run'.was = Current /\ run'.todo = files
        /\ run'.changed = <<>> /\ run'.receipts = Current.receipts
        /\ lock' = TRUE /\ UNCHANGED faults
    BY <1>13 DEF Begin
  <2>5. Typed(run')
    BY <1>2, <2>1, <2>2, <2>3, <2>4 DEF Typed
  <2> QED
    BY <1>1, <1>5, <2>4, <2>5 DEF Places
<1>14. CASE Unchanged \/ Finish \/ Settle \/ Reconcile
  <2>1. UNCHANGED faults /\ (Leave \/ (lock' = TRUE /\ run' = [at |-> "settle"]))
    BY <1>14 DEF Unchanged, Finish, Settle, Reconcile
  <2>2. run'.at \in Free
    BY <2>1 DEF Leave, Idle
  <2>3. lock' \in BOOLEAN
    BY <2>1 DEF Leave
  <2>4. faults' \in 0..MaxFaults
    BY <1>1, <2>1
  <2> QED
    BY <1>7, <2>2, <2>3, <2>4
<1>15. CASE Reuse \/ Import \/ Accept \/ Send \/ WritePointer
  <2>1. /\ UNCHANGED <<lock, faults>> /\ run.at \notin Free
        /\ \E place \in Places \ {"archive"} : run' = [run EXCEPT !.at = place]
    BY <1>15 DEF Reuse, Import, Accept, Send, WritePointer, At, Places
  <2> QED
    BY <1>8, <2>1
<1>16. CASE Receive
  <2>1. UNCHANGED faults /\ run.at = "wait"
    BY <1>16 DEF Receive, At
  <2>2. CASE Fail
    BY <1>1, <1>7, <2>1, <2>2 DEF Fail, Leave, Idle
  <2>3. CASE run' = [run EXCEPT !.at = "point"] /\ UNCHANGED lock
    BY <1>8, <2>1, <2>3 DEF Places
  <2> QED
    BY <1>16, <2>2, <2>3 DEF Receive
<1>17. CASE Stage
  <2>1. UNCHANGED faults /\ run.at = "stage"
    BY <1>17 DEF Stage, At
  <2>2. CASE Fail
    BY <1>1, <1>7, <2>1, <2>2 DEF Fail, Leave, Idle
  <2>3. CASE run' = [run EXCEPT !.at = "accept", !.db = Len(gen')] /\ UNCHANGED lock
    <3>1. run'.at = "accept" /\ run'.was = run.was /\ run'.todo = run.todo
          /\ run'.changed = run.changed /\ run'.receipts = run.receipts
      BY <1>1, <2>1, <2>3 DEF RunFields
    <3>2. Typed(run')
      BY <1>3, <2>1, <3>1 DEF Typed
    <3> QED
      BY <1>1, <1>5, <2>1, <2>3, <3>1, <3>2 DEF Places
  <2> QED
    BY <1>17, <2>2, <2>3 DEF Stage
<1>18. CASE Raise \/ Crash
  <2>1. Fault /\ (Leave \/ (run' = Idle /\ UNCHANGED lock))
    BY <1>18 DEF Raise, Crash, Fail
  <2>2. run'.at \in Free
    BY <2>1 DEF Leave, Idle
  <2>3. lock' \in BOOLEAN
    BY <1>1, <2>1 DEF Leave
  <2> QED
    BY <1>7, <1>9, <2>1, <2>2, <2>3
<1>19. CASE Activate \/ Refuse \/ ActivateFails \/ RemoveLock \/ Resend \/ Clear \/ Realign
  BY <1>1, <1>6, <1>9, <1>19
  DEF Activate, Refuse, ActivateFails, RemoveLock, Resend, Clear, Realign
<1>20. ASSUME NEW s, NEW cutoff, ServerImports(s) \/ ServerPrunes(cutoff)
       PROVE  ControlTyped' /\ RunTyped'
  BY <1>1, <1>6, <1>20 DEF ServerImports, ServerPrunes, ServerBuilds
<1>21. CASE UNCHANGED vars
  BY <1>1, <1>6, <1>21 DEF vars
<1> QED
  BY <1>10, <1>11, <1>12, <1>13, <1>14, <1>15, <1>16, <1>17, <1>18, <1>19, <1>20, <1>21 DEF Next

\* A step of the system as the data sees it: generations are only added, files only grow newer.
DataStays ==
  /\ \A n \in Dbs : n \in Dbs' /\ gen'[n] = gen[n]
  /\ \A f \in Files : disk'[f] \in Nat /\ disk[f] <= disk'[f]

(***************************************************************************)
(* Contents are numbered in time, and can be compared.                      *)
(***************************************************************************)
LEMMA ReceiptsAreNumbers ==
  ASSUME NEW receipts \in [Files -> Contents \cup {0}]
  PROVE  \A f \in Files : receipts[f] \in Nat
<1>1. Contents \subseteq Nat
  BY UpdateConstants
<1>2. ASSUME NEW f \in Files
      PROVE  receipts[f] \in Contents \cup {0}
  OBVIOUS
<1>3. 0 \in Nat
  OBVIOUS
<1> QED
  BY <1>1, <1>2, <1>3, Zenon

(***************************************************************************)
(* No step changes a generation that was built, and a file is only ever     *)
(* replaced by a later one.                                                 *)
(***************************************************************************)
LEMMA StepDataStays ==
  ASSUME Listed, TypeOK, [Next]_vars
  PROVE  DataStays
<1>0. disk \in [Files -> Contents \cup {0}] /\ \A f \in Files : disk[f] \in Nat
  <2>1. disk \in [Files -> Contents \cup {0}]
    BY DEF TypeOK
  <2> QED
    BY <2>1, ReceiptsAreNumbers
<1>1. ASSUME UNCHANGED <<gen, disk>>
      PROVE  DataStays
  <2>1. \A n \in Dbs : n \in Dbs' /\ gen'[n] = gen[n]
    BY <1>1 DEF Dbs
  <2>2. \A f \in Files : disk'[f] \in Nat /\ disk[f] <= disk'[f]
    BY <1>0, <1>1
  <2> QED
    BY <2>1, <2>2 DEF DataStays
<1>2. ASSUME NEW g, gen' = Append(gen, g), UNCHANGED disk
      PROVE  DataStays
  <2>1. \A n \in Dbs : n \in Dbs' /\ gen'[n] = gen[n]
    BY <1>2, Grown
  <2>2. \A f \in Files : disk'[f] \in Nat /\ disk[f] <= disk'[f]
    BY <1>0, <1>2
  <2> QED
    BY <2>1, <2>2 DEF DataStays
<1>3. ASSUME NEW f \in Files, GameSaves(f)
      PROVE  DataStays
  <2>1. PICK c \in ContentsOf[f] : c > disk[f] /\ disk' = [disk EXCEPT ![f] = c]
    BY <1>3 DEF GameSaves
  <2>2. c \in Nat
    BY UpdateConstants
  <2>3. \A e \in Files : disk'[e] \in Nat /\ disk[e] <= disk'[e]
    BY <1>0, <2>1, <2>2
  <2>4. UNCHANGED gen
    BY <1>3 DEF GameSaves
  <2> QED
    BY <2>3, <2>4 DEF DataStays, Dbs
<1>4. ASSUME NEW f \in Files, Digest(f) \/ Archive(f)
      PROVE  UNCHANGED <<gen, disk>>
  BY <1>4 DEF Digest, Archive
<1>5. ASSUME NEW files, NEW publish, Begin(files, publish)
      PROVE  UNCHANGED <<gen, disk>>
  BY <1>5 DEF Begin
<1>6. ASSUME NEW s, NEW cutoff, ServerImports(s) \/ ServerPrunes(cutoff)
      PROVE  DataStays
  <2>1. UNCHANGED disk /\ \E data : gen' = Append(gen, [data |-> data, ours |-> FALSE])
    BY <1>6 DEF ServerImports, ServerPrunes, ServerBuilds
  <2> QED
    BY <1>2, <2>1
<1>7. ASSUME \/ Unchanged \/ Reuse \/ Import \/ Accept \/ Send \/ WritePointer \/ Finish
             \/ Receive \/ Raise \/ Crash \/ Activate \/ Refuse \/ ActivateFails
      PROVE  UNCHANGED <<gen, disk>>
  BY <1>7 DEF Unchanged, Reuse, Import, Accept, Send, WritePointer, Finish, Receive,
              Raise, Crash, Activate, Refuse, ActivateFails
<1>8. ASSUME \/ RemoveLock \/ Reconcile \/ Settle \/ Resend \/ Clear \/ Realign
             \/ UNCHANGED vars
      PROVE  UNCHANGED <<gen, disk>>
  BY <1>8 DEF RemoveLock, Reconcile, Settle, Resend, Clear, Realign, vars
<1>9. CASE Stage
  <2>1. UNCHANGED disk /\ (UNCHANGED gen \/ \E g : gen' = Append(gen, g))
    BY <1>9 DEF Stage
  <2> QED
    BY <1>1, <1>2, <2>1
<1> QED
  BY <1>1, <1>3, <1>4, <1>5, <1>6, <1>7, <1>8, <1>9 DEF Next

(***************************************************************************)
(* What a pointer says of the files stays true while the game saves on: a   *)
(* receipt for an older content says nothing of the new one                 *)
(* (update.py:230-233).                                                     *)
(***************************************************************************)
LEMMA ImportedStays ==
  ASSUME TypeOK, DataStays, NEW receipts \in [Files -> Contents \cup {0}], NEW db \in Dbs,
         Imported(receipts, db)
  PROVE  Imported(receipts, db)'
<1>1. Data(db)' = Data(db)
  BY DEF DataStays, Data
<1> SUFFICES ASSUME NEW f \in Files
             PROVE  /\ receipts[f] <= disk'[f]
                    /\ disk'[f] # 0 /\ receipts[f] = disk'[f] =>
                         ScansIn[disk'[f]] \subseteq Stored(Data(db))
  BY <1>1 DEF Imported
<1>2. receipts[f] \in Nat /\ disk[f] \in Nat
  <2>1. disk \in [Files -> Contents \cup {0}]
    BY DEF TypeOK
  <2> QED
    BY <2>1, ReceiptsAreNumbers
<1>3. disk'[f] \in Nat /\ disk[f] <= disk'[f]
  BY DEF DataStays
<1>4. /\ receipts[f] <= disk[f]
      /\ disk[f] # 0 /\ receipts[f] = disk[f] => ScansIn[disk[f]] \subseteq Stored(Data(db))
  BY DEF Imported
<1>5. receipts[f] = disk'[f] => disk'[f] = disk[f]
  BY <1>2, <1>3, <1>4
<1> QED
  BY <1>2, <1>3, <1>4, <1>5

(***************************************************************************)
(* Who writes current.json: the updater at its end, the reconciliation, a   *)
(* person (update.py:299-302, 311-323).                                     *)
(***************************************************************************)
LEMMA PointerStep ==
  ASSUME [Next]_vars
  PROVE  UNCHANGED pointer \/ WritePointer \/ Reconcile \/ pointer' = Nothing
<1>1. ASSUME NEW f \in Files, GameSaves(f) \/ Digest(f) \/ Archive(f)
      PROVE  UNCHANGED pointer
  BY <1>1 DEF GameSaves, Digest, Archive
<1>2. ASSUME NEW files, NEW publish, Begin(files, publish)
      PROVE  UNCHANGED pointer
  BY <1>2 DEF Begin
<1>3. ASSUME NEW s, NEW cutoff, ServerImports(s) \/ ServerPrunes(cutoff)
      PROVE  UNCHANGED pointer
  BY <1>3 DEF ServerImports, ServerPrunes, ServerBuilds
<1>4. ASSUME \/ Unchanged \/ Reuse \/ Import \/ Stage \/ Accept \/ Send \/ Finish
             \/ Receive \/ Raise \/ Crash \/ Activate \/ Refuse \/ ActivateFails
      PROVE  UNCHANGED pointer
  BY <1>4 DEF Unchanged, Reuse, Import, Stage, Accept, Send, Finish, Receive, Raise, Crash,
              Activate, Refuse, ActivateFails
<1>5. ASSUME RemoveLock \/ Settle \/ Resend \/ Clear \/ UNCHANGED vars
      PROVE  UNCHANGED pointer
  BY <1>5 DEF RemoveLock, Settle, Resend, Clear, vars
<1>6. Realign => pointer' = Nothing
  BY DEF Realign
<1> QED
  BY <1>1, <1>2, <1>3, <1>4, <1>5, <1>6 DEF Next

(***************************************************************************)
(* A publication becomes unresolved only where the updater accepted it, and *)
(* keeps its pending pointer until it is resolved (update.py:210-213, 292,  *)
(* 306).                                                                    *)
(***************************************************************************)
LEMMA StatusStep ==
  ASSUME IInv, [Next]_vars, Unresolved'
  PROVE  \/ Unresolved /\ status'.pending = status.pending
         \/ Accept /\ run.publish
<1>0. {"phase", "pending"} \subseteq DOMAIN status
  BY DEF IInv, Shaped
<1>1. ASSUME NEW phase, Save(phase), phase \in {"publishing", "publication_unknown"} => Unresolved
      PROVE  Unresolved /\ status'.pending = status.pending
  BY <1>0, <1>1 DEF Save, Unresolved
<1>2. Fail => Unresolved /\ status'.pending = status.pending
  <2> DEFINE phase == IF status.phase = "publishing" THEN "publication_unknown" ELSE "failed"
  <2>1. Fail => Save(phase)
    BY DEF Fail
  <2>2. phase \in {"publishing", "publication_unknown"} => Unresolved
    BY DEF Unresolved
  <2> HIDE DEF phase
  <2> QED
    BY <1>1, <2>1, <2>2
<1>3. ASSUME UNCHANGED status
      PROVE  Unresolved /\ status'.pending = status.pending
  BY <1>3 DEF Unresolved
<1>4. ~Unchanged /\ ~Import /\ ~Finish /\ ~Clear
  <2>1. ~Save("unchanged") /\ ~Save("importing") /\ ~Save("failed")
    BY <1>0 DEF Save, Unresolved
  <2>2. ~Save("published") /\ ~Save("ready")
    BY <1>0 DEF Save, Unresolved
  <2> QED
    BY <2>1, <2>2 DEF Unchanged, Import, Finish, Clear
<1>5. ~Settle /\ \A files, publish : ~Begin(files, publish)
  BY DEF Settle, Begin, Unresolved
<1>6. ASSUME NEW f \in Files, GameSaves(f) \/ Digest(f) \/ Archive(f)
      PROVE  UNCHANGED status
  BY <1>6 DEF GameSaves, Digest, Archive
<1>7. ASSUME NEW s, NEW cutoff, ServerImports(s) \/ ServerPrunes(cutoff)
      PROVE  UNCHANGED status
  BY <1>7 DEF ServerImports, ServerPrunes, ServerBuilds
<1>8. ASSUME \/ Reuse \/ Send \/ WritePointer \/ Crash \/ Activate \/ Refuse \/ ActivateFails
             \/ RemoveLock \/ Reconcile \/ Resend \/ Realign \/ UNCHANGED vars
      PROVE  UNCHANGED status
  BY <1>8 DEF Reuse, Send, WritePointer, Crash, Activate, Refuse, ActivateFails, RemoveLock,
              Reconcile, Resend, Realign, vars
<1>9. ASSUME Stage \/ Receive \/ Raise
      PROVE  UNCHANGED status \/ Fail
  BY <1>9 DEF Stage, Receive, Raise
<1>10. Accept => UNCHANGED status \/ run.publish
  BY DEF Accept
<1>11. \/ UNCHANGED status \/ Fail \/ (Accept /\ run.publish)
  BY <1>4, <1>5, <1>6, <1>7, <1>8, <1>9, <1>10 DEF Next
<1> QED
  BY <1>2, <1>3, <1>11

\* Places in which the updater holds no generation.
Free == {"idle", "settle"}

\* From one place to the next, with what it has, or unchanged.
Moves(from, to) ==
  /\ run.at = from /\ run' = [run EXCEPT !.at = to] /\ UNCHANGED <<gen, disk>>

(***************************************************************************)
(* What moves the updater on without ending its run.                        *)
(***************************************************************************)
LEMMA RunStep ==
  ASSUME IInv, [Next]_vars, run'.at \notin Free
  PROVE  \/ UNCHANGED run
         \/ \E f \in Files : Digest(f) \/ Archive(f)
         \/ \E files \in {Saved, Discovered}, publish \in BOOLEAN : Begin(files, publish)
         \/ Reuse \/ Import \/ Stage \/ Accept \/ Send \/ WritePointer
         \/ Receive /\ Moves("wait", "point")
<1>1. run' # Idle /\ ~Leave /\ ~Reconcile
  BY DEF Leave, Idle, Free, Reconcile
<1>2. ~Fail
  BY <1>1 DEF Fail
<1>3. ~Unchanged /\ ~Finish /\ ~Raise /\ ~Crash /\ ~Settle
  BY <1>1, <1>2 DEF Unchanged, Finish, Raise, Crash, Settle
<1>4. Receive => Moves("wait", "point")
  BY <1>2 DEF Receive, Moves, At
<1>5. ASSUME NEW f \in Files, GameSaves(f)
      PROVE  UNCHANGED run
  BY <1>5 DEF GameSaves
<1>6. ASSUME NEW s, NEW cutoff, ServerImports(s) \/ ServerPrunes(cutoff)
      PROVE  UNCHANGED run
  BY <1>6 DEF ServerImports, ServerPrunes, ServerBuilds
<1>7. ASSUME \/ Activate \/ Refuse \/ ActivateFails \/ RemoveLock \/ Resend \/ Clear \/ Realign
             \/ UNCHANGED vars
      PROVE  UNCHANGED run
  BY <1>7 DEF Activate, Refuse, ActivateFails, RemoveLock, Resend, Clear, Realign, vars
<1> QED
  BY <1>1, <1>3, <1>4, <1>5, <1>6, <1>7 DEF Next

(***************************************************************************)
(* An honest pointer stays honest while the game saves files and            *)
(* generations are built.                                                   *)
(***************************************************************************)
LEMMA HonestStays ==
  ASSUME TypeOK, DataStays, NEW p \in Pointers, Honest(p)
  PROVE  Honest(p)'
<1>1. p.db \in Dbs /\ p.published \in Dbs /\ p.receipts \in [Files -> Contents \cup {0}]
  BY DEF Pointers
<1>2. Imported(p.receipts, p.db)'
  BY <1>1, ImportedStays DEF Honest
<1>3. Data(p.db)' = Data(p.db) /\ Data(p.published)' = Data(p.published)
  BY <1>1 DEF DataStays, Data
<1> QED
  BY <1>2, <1>3 DEF Honest

(***************************************************************************)
(* A generation extends itself.                                             *)
(***************************************************************************)
LEMMA ExtendsItself ==
  ASSUME AllSound, NEW n \in Dbs
  PROVE  Extends(Data(n), Data(n))
  BY FollowsItself DEF AllSound, Sound, Extends

(***************************************************************************)
(* What run_update takes for current is honest: without current.json it     *)
(* records nothing (update.py:216-221, 227).                                *)
(***************************************************************************)
LEMMA CurrentHonest ==
  ASSUME IInv, TypeOK, AllSound, PointersHonest
  PROVE  Honest(Current)
<1>1. CASE pointer # Nothing
  BY <1>1 DEF PointersHonest, Current
<1>2. CASE pointer = Nothing
  <2>1. /\ Current.db = seed /\ Current.published = seed /\ Current.receipts = NoReceipts
        /\ seed \in Dbs
    BY <1>2 DEF Current, IInv, Shaped
  <2>2. \A f \in Files : disk[f] \in Nat
    <3>1. disk \in [Files -> Contents \cup {0}]
      BY DEF TypeOK
    <3> QED
      BY <3>1, ReceiptsAreNumbers
  <2>3. Imported(NoReceipts, seed)
    BY <2>2 DEF Imported, NoReceipts
  <2> QED
    BY <2>1, <2>3, ExtendsItself DEF Honest
<1> QED
  BY <1>1, <1>2

(***************************************************************************)
(* What is written next is honest, from accept on: the generation holds     *)
(* what its receipts name (update.py:278-283).                              *)
(***************************************************************************)
LEMMA NextHonest ==
  ASSUME IInv, RunTyped, AllSound, Staged, run.at \in {"accept", "send", "wait", "point"},
         NEW publication \in BOOLEAN
  PROVE  Honest(NextCurrent(publication))
<1>1. /\ Extends(Data(run.db), Data(run.was.published)) /\ Imported(run.receipts, run.db)
      /\ run.db \in Dbs
  BY DEF Staged, IInv, Shaped
<1>2. /\ NextCurrent(publication).db = run.db /\ NextCurrent(publication).receipts = run.receipts
      /\ NextCurrent(publication).published = IF publication THEN run.db ELSE run.was.published
  BY DEF NextCurrent
<1> QED
  BY <1>1, <1>2, ExtendsItself DEF Honest

(***************************************************************************)
(* No step makes a pointer lie: not current.json, not the pending one in    *)
(* status.json, not the one the run began with. The files are written at    *)
(* different times, and the game may have saved in between                  *)
(* (update.py:258-304, 311-327).                                            *)
(***************************************************************************)
LEMMA PointersHonestStep ==
  ASSUME IInv, TypeOK, RunTyped, AllSound, PointersHonest, Staged, DataStays, [Next]_vars
  PROVE  PointersHonest'
<1>1. ASSUME pointer' # Nothing
      PROVE  Honest(pointer)'
  <2>1. ASSUME NEW p \in Pointers, Honest(p), pointer' = p
        PROVE  Honest(pointer)'
    <3>1. Honest(p)'
      BY <2>1, HonestStays
    <3> QED
      BY <2>1, <3>1
  <2>2. CASE UNCHANGED pointer
    BY <1>1, <2>1, <2>2 DEF PointersHonest, TypeOK
  <2>3. CASE WritePointer
    <3>1. run.publish \in BOOLEAN /\ run.at = "point"
      BY <2>3 DEF WritePointer, At, IInv, Shaped
    <3>2. NextCurrent(run.publish) \in Pointers /\ Honest(NextCurrent(run.publish))
      BY <3>1, NextIsPointer, NextHonest
    <3> QED
      BY <2>1, <2>3, <3>2 DEF WritePointer
  <2>4. CASE Reconcile
    <3>1. PICK q : q = status.pending
      OBVIOUS
    <3>2. q \in Pointers /\ Honest(q)
      BY <2>4, <3>1 DEF Reconcile, TypeOK, PointersHonest
    <3> DEFINE p == [q EXCEPT !.publication = TRUE, !.published = q.db]
    <3>3. /\ p \in Pointers /\ p.db = q.db /\ p.published = q.db /\ p.receipts = q.receipts
          /\ q.db \in Dbs
      BY <3>2 DEF Pointers
    <3>4. Honest(p)
      BY <3>2, <3>3, ExtendsItself DEF Honest
    <3>5. pointer' = p
      BY <2>4, <3>1 DEF Reconcile
    <3> HIDE DEF p
    <3> QED
      BY <2>1, <3>3, <3>4, <3>5
  <2>5. CASE pointer' = Nothing
    BY <1>1, <2>5
  <2>6. UNCHANGED pointer \/ WritePointer \/ Reconcile \/ pointer' = Nothing
    BY PointerStep
  <2> QED
    BY <2>2, <2>3, <2>4, <2>5, <2>6
<1>2. ASSUME Unresolved'
      PROVE  Honest(status.pending)'
  <2>1. ASSUME NEW p \in Pointers, Honest(p), status'.pending = p
        PROVE  Honest(status.pending)'
    <3>1. Honest(p)'
      BY <2>1, HonestStays
    <3> QED
      BY <2>1, <3>1
  <2>2. CASE Unresolved /\ status'.pending = status.pending
    BY <1>2, <2>1, <2>2 DEF PointersHonest, TypeOK
  <2>3. CASE Accept /\ run.publish
    <3>1. NextCurrent(FALSE) \in Pointers /\ Honest(NextCurrent(FALSE))
      BY <2>3, NextIsPointer, NextHonest DEF Accept, At
    <3>2. status' = [phase |-> "publishing", pending |-> NextCurrent(FALSE)]
      BY <2>3 DEF Accept
    <3>3. status'.pending = NextCurrent(FALSE)
      BY <3>2
    <3> QED
      BY <2>1, <3>1, <3>3
  <2>4. (Unresolved /\ status'.pending = status.pending) \/ (Accept /\ run.publish)
    BY <1>2, StatusStep
  <2> QED
    BY <2>2, <2>3, <2>4
<1>3. ASSUME run'.at \notin {"idle", "settle"}
      PROVE  Honest(run.was)'
  <2>1. ASSUME NEW p \in Pointers, Honest(p), run'.was = p
        PROVE  Honest(run.was)'
    <3>1. Honest(p)'
      BY <2>1, HonestStays
    <3> QED
      BY <2>1, <3>1
  <2>2. ASSUME run.at \notin Free, run'.was = run.was
        PROVE  Honest(run.was)'
    <3>1. run.was \in Pointers /\ Honest(run.was)
      BY <2>2 DEF PointersHonest, RunTyped, Free
    <3> QED
      BY <2>1, <2>2, <3>1
  <2>3. ASSUME NEW files, NEW publish, Begin(files, publish)
        PROVE  Honest(run.was)'
    <3>1. run'.was = Current
      BY <2>3 DEF Begin
    <3> QED
      BY <2>1, <3>1, CurrentIsPointer, CurrentHonest
  <2>4. CASE UNCHANGED run
    BY <1>3, <2>2, <2>4 DEF Free
  <2>5. ASSUME NEW f \in Files, Digest(f) \/ Archive(f)
        PROVE  Honest(run.was)'
    <3>1. run.at \notin Free /\ run'.was = run.was
      BY <2>5 DEF Digest, Archive, At, Free, IInv, Shaped, RunFields
    <3> QED
      BY <2>2, <3>1
  <2>6. CASE \/ Reuse \/ Import \/ Accept \/ Send \/ WritePointer
             \/ Receive /\ Moves("wait", "point")
    <3>1. run.at \notin Free /\ \E place : run' = [run EXCEPT !.at = place]
      BY <2>6 DEF Reuse, Import, Accept, Send, WritePointer, Moves, At, Free
    <3>2. run'.was = run.was
      BY <3>1 DEF IInv, Shaped, RunFields, Free
    <3> QED
      BY <2>2, <3>1, <3>2
  <2>7. CASE Stage
    <3>1. run.at = "stage" /\ (Fail \/ run' = [run EXCEPT !.at = "accept", !.db = Len(gen')])
      BY <2>7 DEF Stage, At
    <3>2. ~Fail
      BY <1>3 DEF Fail, Leave, Idle
    <3>3. run'.was = run.was
      BY <3>1, <3>2 DEF IInv, Shaped, RunFields
    <3> QED
      BY <2>2, <3>1, <3>3 DEF Free
  <2> QED
    BY <1>3, <2>3, <2>4, <2>5, <2>6, <2>7, RunStep DEF Free
<1> QED
  BY <1>1, <1>2, <1>3 DEF PointersHonest

(***************************************************************************)
(* What the run has seen of a file holds while the game saves it again.     *)
(***************************************************************************)
LEMMA SeenStays ==
  ASSUME TypeOK, DataStays, NEW r, r.receipts \in [Files -> Contents \cup {0}], r.was.db \in Dbs,
         NEW f \in Files, Seen(r, f)
  PROVE  Seen(r, f)'
<1>1. Data(r.was.db)' = Data(r.was.db)
  BY DEF DataStays, Data
<1>2. r.receipts[f] \in Nat /\ disk[f] \in Nat
  <2>1. disk \in [Files -> Contents \cup {0}]
    BY DEF TypeOK
  <2> QED
    BY <2>1, ReceiptsAreNumbers
<1>3. disk'[f] \in Nat /\ disk[f] <= disk'[f]
  BY DEF DataStays
<1>4. /\ r.receipts[f] <= disk[f]
      /\ disk[f] # 0 /\ r.receipts[f] = disk[f] =>
           \/ ScansIn[disk[f]] \subseteq Stored(Data(r.was.db))
           \/ \E i \in DOMAIN r.changed : r.changed[i] = disk[f]
           \/ r.at = "archive" /\ r.file = f
  BY DEF Seen
<1>5. r.receipts[f] = disk'[f] => disk'[f] = disk[f]
  BY <1>2, <1>3, <1>4
<1>6. r.receipts[f] <= disk'[f]
  BY <1>2, <1>3, <1>4
<1> QED
  BY <1>1, <1>4, <1>5, <1>6 DEF Seen

(***************************************************************************)
(* While the files are read, everything recorded is imported, archived or   *)
(* about to be. A file saved again between its hash and its archive is      *)
(* archived as it is then, later than its receipt (update.py:226-249,       *)
(* manage.py:53-84).                                                        *)
(***************************************************************************)
LEMMA ReadingStep ==
  ASSUME IInv, TypeOK, RunTyped, AllSound, PointersHonest, Reading, DataStays, [Next]_vars
  PROVE  Reading'
<1> DEFINE Busy == {"digest", "archive", "stage"}
<1>1. SUFFICES ASSUME run'.at \in Busy
               PROVE  /\ run'.at \in {"digest", "archive"} => run'.db = run'.was.db
                      /\ \A f \in Files : Seen(run, f)'
  BY DEF Reading
<1>2. run'.at \notin Free
  BY <1>1 DEF Free
<1>3. run.at \in Busy => /\ run.was \in Pointers /\ run.was.db \in Dbs
                         /\ RunFields \subseteq DOMAIN run
                         /\ run.receipts \in [Files -> Contents \cup {0}]
                         /\ run.changed \in Seq(Contents)
                         /\ \A f \in Files : Seen(run, f)
  BY DEF RunTyped, Pointers, IInv, Shaped, Reading
<1>4. \A f \in Files : disk[f] \in Nat
  <2>1. disk \in [Files -> Contents \cup {0}]
    BY DEF TypeOK
  <2> QED
    BY <2>1, ReceiptsAreNumbers
<1>5. CASE UNCHANGED run
  <2> SUFFICES ASSUME NEW f \in Files
               PROVE  Seen(run, f)'
    BY <1>1, <1>5 DEF Reading
  <2>1. PICK r : r = run
    OBVIOUS
  <2>2. Seen(r, f)'
    BY <1>1, <1>3, <1>5, <2>1, SeenStays
  <2> QED
    BY <1>5, <2>1, <2>2
<1>6. ASSUME NEW g \in Files, Digest(g)
      PROVE  /\ run'.at \in {"digest", "archive"} => run'.db = run'.was.db
             /\ \A f \in Files : Seen(run, f)'
  <2>1. run.at = "digest" /\ UNCHANGED <<gen, disk>>
    BY <1>6 DEF Digest, At
  <2>2. PICK place : /\ place = IF run.was.receipts[g] = disk[g] THEN "digest" ELSE "archive"
                     /\ run' = [run EXCEPT !.todo = @ \ {g}, !.file = g, !.at = place,
                                           !.receipts[g] = disk[g]]
    BY <1>6 DEF Digest
  <2>3. /\ run'.at = place /\ run'.was = run.was /\ run'.file = g /\ run'.db = run.db
        /\ run'.changed = run.changed /\ run'.receipts = [run.receipts EXCEPT ![g] = disk[g]]
    BY <1>3, <2>1, <2>2 DEF RunFields
  <2>4. ASSUME NEW f \in Files
        PROVE  Seen(run, f)'
    <3>1. CASE f = g
      <4>1. run'.receipts[f] = disk[f]
        BY <1>3, <2>1, <2>3, <3>1
      <4>2. run.was.receipts[g] = disk[g] /\ disk[g] # 0 =>
              ScansIn[disk[g]] \subseteq Stored(Data(run.was.db))
        BY <2>1 DEF PointersHonest, Honest, Imported
      <4> QED
        BY <1>4, <2>1, <2>2, <2>3, <3>1, <4>1, <4>2 DEF Seen, Data
    <3>2. CASE f # g
      <4>1. run'.receipts[f] = run.receipts[f]
        BY <1>3, <2>1, <2>3, <3>2
      <4> QED
        BY <1>3, <2>1, <2>3, <4>1 DEF Seen, Data
    <3> QED
      BY <3>1, <3>2
  <2> QED
    BY <2>1, <2>3, <2>4 DEF Reading
<1>7. ASSUME NEW g \in Files, Archive(g)
      PROVE  /\ run'.at \in {"digest", "archive"} => run'.db = run'.was.db
             /\ \A f \in Files : Seen(run, f)'
  <2>1. /\ run.at = "archive" /\ g = run.file /\ UNCHANGED <<gen, disk>>
        /\ run' = [run EXCEPT !.at = "digest", !.changed = Append(@, disk[g])]
    BY <1>7 DEF Archive, At
  <2>2. /\ run'.was = run.was /\ run'.db = run.db /\ run'.receipts = run.receipts
        /\ run'.changed = Append(run.changed, disk[g])
    BY <1>3, <2>1 DEF RunFields
  <2>3. /\ \A i \in DOMAIN run.changed :
             i \in DOMAIN run'.changed /\ run'.changed[i] = run.changed[i]
        /\ \E i \in DOMAIN run'.changed : run'.changed[i] = disk[g]
    <3>1. PICK s : s = run.changed
      OBVIOUS
    <3>2. s \in Seq(Contents) /\ run'.changed = Append(s, disk[g])
      BY <1>3, <2>1, <2>2, <3>1
    <3>3. Len(s) + 1 \in DOMAIN Append(s, disk[g]) /\ Append(s, disk[g])[Len(s) + 1] = disk[g]
      BY <3>2
    <3>4. \A i \in DOMAIN s : i \in DOMAIN Append(s, disk[g]) /\ Append(s, disk[g])[i] = s[i]
      BY <3>2
    <3> QED
      BY <3>1, <3>2, <3>3, <3>4
  <2>4. ASSUME NEW f \in Files
        PROVE  Seen(run, f)'
    BY <1>3, <2>1, <2>2, <2>3 DEF Seen, Data
  <2> QED
    BY <2>1, <2>2, <2>4 DEF Reading
<1>8. ASSUME NEW files, NEW publish, Begin(files, publish)
      PROVE  /\ run'.at \in {"digest", "archive"} => run'.db = run'.was.db
             /\ \A f \in Files : Seen(run, f)'
  <2>1. /\ run'.was = Current /\ run'.db = Current.db /\ run'.receipts = Current.receipts
        /\ UNCHANGED <<gen, disk>>
    BY <1>8 DEF Begin
  <2>2. Imported(Current.receipts, Current.db)
    BY CurrentHonest DEF Honest
  <2> QED
    BY <2>1, <2>2 DEF Seen, Imported, Data
<1>9. CASE Import
  <2>1. /\ run.at = "digest" /\ run' = [run EXCEPT !.at = "stage"] /\ UNCHANGED <<gen, disk>>
    BY <1>9 DEF Import, At
  <2>2. /\ run'.at = "stage" /\ run'.was = run.was /\ run'.receipts = run.receipts
        /\ run'.changed = run.changed
    BY <1>3, <2>1 DEF RunFields
  <2> QED
    BY <1>3, <2>1, <2>2 DEF Seen, Data
<1>10. ASSUME Reuse \/ Stage \/ Accept \/ Send \/ WritePointer \/ Moves("wait", "point")
       PROVE  FALSE
  <2>1. run.at \notin Free /\ RunFields \subseteq DOMAIN run
    BY <1>10 DEF Reuse, Stage, Accept, Send, WritePointer, Moves, At, Free, IInv, Shaped
  <2>2. ~Fail
    BY <1>1 DEF Fail, Leave, Idle
  <2>3. \E place \in {"accept", "send", "point", "wait", "finish"} :
          run' = [run EXCEPT !.at = place] \/ run' = [run EXCEPT !.at = place, !.db = Len(gen')]
    BY <1>10, <2>2 DEF Reuse, Stage, Accept, Send, WritePointer, Moves
  <2> QED
    BY <1>1, <2>1, <2>3 DEF RunFields
<1> QED
  BY <1>2, <1>5, <1>6, <1>7, <1>8, <1>9, <1>10, RunStep

(***************************************************************************)
(* The generation that is staged extends what was published, and holds      *)
(* every content recorded that is still on disk.                            *)
(***************************************************************************)
LEMMA StageData ==
  ASSUME Listed, IInv, RunTyped, AllSound, PointersHonest, Reading, Stage, run'.at \notin Free
  PROVE  /\ gen' = Append(gen, [data |-> Merged, ours |-> TRUE])
         /\ run' = [run EXCEPT !.at = "accept", !.db = Len(gen')]
         /\ Sound(Merged) /\ Extends(Merged, Data(run.was.published))
         /\ \A f \in Files :
              /\ run.receipts[f] <= disk[f]
              /\ disk[f] # 0 /\ run.receipts[f] = disk[f] =>
                   ScansIn[disk[f]] \subseteq Stored(Merged)
<1>1. ~Fail
  BY DEF Fail, Leave, Idle, Free
<1>2. /\ run.at = "stage" /\ gen' = Append(gen, [data |-> Merged, ours |-> TRUE])
      /\ run' = [run EXCEPT !.at = "accept", !.db = Len(gen')]
  BY <1>1 DEF Stage, At
<1>3. /\ Sound(Merged) /\ Extends(Merged, Data(run.was.db))
      /\ \A i \in DOMAIN run.changed : ScansIn[run.changed[i]] \subseteq Stored(Merged)
  BY <1>2, MergedSound
<1>4. /\ run.was.db \in Dbs /\ run.was.published \in Dbs
      /\ Extends(Data(run.was.db), Data(run.was.published))
  BY <1>2 DEF RunTyped, Pointers, PointersHonest, Honest
<1>5. Extends(Merged, Data(run.was.published))
  BY <1>3, <1>4, ExtendsTransitive DEF AllSound, Sound
<1>6. ASSUME NEW f \in Files
      PROVE  /\ run.receipts[f] <= disk[f]
             /\ disk[f] # 0 /\ run.receipts[f] = disk[f] =>
                  ScansIn[disk[f]] \subseteq Stored(Merged)
  <2>1. Stored(Data(run.was.db)) \subseteq Stored(Merged)
    BY <1>3 DEF Extends
  <2> QED
    BY <1>2, <1>3, <2>1 DEF Reading, Seen
<1> QED
  BY <1>2, <1>3, <1>5, <1>6

(***************************************************************************)
(* From the staging to current.json, what was staged stays right; a run     *)
(* that found nothing new to merge reuses the unpublished generation        *)
(* (update.py:250-302).                                                     *)
(***************************************************************************)
LEMMA StagedStep ==
  ASSUME Listed, IInv, TypeOK, RunTyped, AllSound, PointersHonest, Reading, Staged, DataStays,
         [Next]_vars
  PROVE  Staged'
<1> DEFINE Late == {"accept", "send", "wait", "point"}
<1>1. SUFFICES ASSUME run'.at \in Late
               PROVE  Extends(Data(run.db), Data(run.was.published))'
                      /\ Imported(run.receipts, run.db)'
  BY DEF Staged
<1>2. run'.at \notin Free
  BY <1>1 DEF Free
<1>3. run.at \notin Free =>
        /\ run.was \in Pointers /\ RunFields \subseteq DOMAIN run
        /\ run.db \in Dbs /\ run.was.db \in Dbs /\ run.was.published \in Dbs
        /\ run.receipts \in [Files -> Contents \cup {0}]
  BY DEF RunTyped, Pointers, IInv, Shaped, Free
<1>4. ASSUME run.at \notin Free, run'.db = run.db, run'.was = run.was, run'.receipts = run.receipts,
             Extends(Data(run.db), Data(run.was.published)), Imported(run.receipts, run.db)
      PROVE  Extends(Data(run.db), Data(run.was.published))'
             /\ Imported(run.receipts, run.db)'
  <2>1. PICK r : r = run
    OBVIOUS
  <2>2. Imported(r.receipts, r.db)'
    BY <1>3, <1>4, <2>1, ImportedStays
  <2>3. Data(r.db)' = Data(r.db) /\ Data(r.was.published)' = Data(r.was.published)
    BY <1>3, <1>4, <2>1 DEF DataStays, Data
  <2>4. Data(run.db)' = Data(r.db)' /\ Data(run.was.published)' = Data(r.was.published)'
    BY <1>4, <2>1 DEF Data
  <2>5. Imported(run.receipts, run.db)' <=> Imported(r.receipts, r.db)'
    BY <1>4, <2>1 DEF Imported, Data
  <2> QED
    BY <1>4, <2>1, <2>2, <2>3, <2>4, <2>5
<1>5. CASE UNCHANGED run
  BY <1>1, <1>2, <1>4, <1>5 DEF Staged
<1>6. CASE Accept \/ Send \/ (Receive /\ Moves("wait", "point"))
  <2>1. run.at \in Late /\ \E place : run' = [run EXCEPT !.at = place]
    BY <1>6 DEF Accept, Send, Moves, At
  <2>2. run'.db = run.db /\ run'.was = run.was /\ run'.receipts = run.receipts
    BY <1>3, <2>1 DEF RunFields, Free
  <2> QED
    BY <1>4, <2>1, <2>2 DEF Staged, Free
<1>7. CASE Reuse
  <2>1. run.at = "digest" /\ run' = [run EXCEPT !.at = "accept"] /\ run.changed = <<>>
    BY <1>7 DEF Reuse, At
  <2>2. run'.db = run.db /\ run'.was = run.was /\ run'.receipts = run.receipts
    BY <1>3, <2>1 DEF RunFields, Free
  <2>3. run.db = run.was.db
    BY <2>1 DEF Reading
  <2>4. Extends(Data(run.db), Data(run.was.published))
    BY <2>1, <2>3 DEF PointersHonest, Honest
  <2>5. Imported(run.receipts, run.db)
    BY <2>1, <2>3 DEF Reading, Seen, Imported
  <2> QED
    BY <1>4, <2>1, <2>2, <2>4, <2>5 DEF Free
<1>8. CASE Stage
  <2>1. /\ gen' = Append(gen, [data |-> Merged, ours |-> TRUE])
        /\ run' = [run EXCEPT !.at = "accept", !.db = Len(gen')]
        /\ Extends(Merged, Data(run.was.published))
        /\ \A f \in Files :
             /\ run.receipts[f] <= disk[f]
             /\ disk[f] # 0 /\ run.receipts[f] = disk[f] =>
                  ScansIn[disk[f]] \subseteq Stored(Merged)
    BY <1>2, <1>8, StageData
  <2>2. /\ run.at = "stage" /\ UNCHANGED disk
    BY <1>8 DEF Stage, At
  <2>3. gen'[Len(gen')] = [data |-> Merged, ours |-> TRUE]
    BY <2>1, Grown
  <2>4. run'.db = Len(gen') /\ run'.was = run.was /\ run'.receipts = run.receipts
    BY <1>3, <2>1, <2>2 DEF RunFields, Free
  <2>5. gen'[run'.db].data = Merged
    BY <2>3, <2>4
  <2>6. gen'[run'.was.published].data = Data(run.was.published)
    BY <1>3, <2>2, <2>4 DEF DataStays, Data, Free
  <2>7. Extends(Data(run.db), Data(run.was.published))'
    BY <2>1, <2>5, <2>6 DEF Data
  <2>8. Imported(run.receipts, run.db)'
    BY <2>1, <2>2, <2>4, <2>5 DEF Imported, Data
  <2> QED
    BY <2>7, <2>8
<1>9. ASSUME NEW f \in Files, Digest(f) \/ Archive(f)
      PROVE  FALSE
  <2>1. run.at \in {"digest", "archive"} /\ RunFields \subseteq DOMAIN run
    BY <1>9, <1>3 DEF Digest, Archive, At, Free
  <2>2. run'.at \in {"digest", "archive"}
    BY <1>9, <2>1 DEF Digest, Archive, RunFields
  <2> QED
    BY <1>1, <2>2
<1>10. ASSUME (\E files, publish : Begin(files, publish)) \/ Import \/ WritePointer
       PROVE  FALSE
  <2>1. CASE \E files, publish : Begin(files, publish)
    BY <1>1, <2>1 DEF Begin
  <2>2. CASE Import \/ WritePointer
    <3>1. /\ run.at \notin Free
          /\ run' = [run EXCEPT !.at = "stage"] \/ run' = [run EXCEPT !.at = "finish"]
      BY <2>2 DEF Import, WritePointer, At, Free
    <3>2. run'.at \in {"stage", "finish"}
      BY <1>3, <3>1 DEF RunFields
    <3> QED
      BY <1>1, <3>2
  <2> QED
    BY <1>10, <2>1, <2>2
<1> QED
  BY <1>2, <1>5, <1>6, <1>7, <1>8, <1>9, <1>10, RunStep

(***************************************************************************)
(* What the server builds of the generation it serves is sound and follows  *)
(* it (sync_import.py:12-30, retention.py:65-84).                           *)
(***************************************************************************)
LEMMA ServerData ==
  ASSUME IInv, AllSound, NEW data,
         \/ \E s \in ForeignScans : data = Merge(gen[served].data, Build({s}))
         \/ \E cutoff \in Cutoffs : data = Prune(gen[served].data, Plan(gen[served].data, cutoff))
  PROVE  Sound(data) /\ Follows(data, Data(served))
<1>1. PICK g : g = gen[served].data
  OBVIOUS
<1>2. Sound(g) /\ Data(served) = g
  BY <1>1 DEF IInv, Shaped, AllSound, Data
<1>3. ASSUME NEW s \in ForeignScans, data = Merge(g, Build({s}))
      PROVE  Sound(data) /\ Follows(data, g)
  <2>1. {s} \subseteq Scans /\ IsFiniteSet({s})
    BY UpdateConstants, FS_Singleton
  <2>2. Sound(Build({s}))
    BY <2>1, BuildSound
  <2> QED
    BY <1>2, <1>3, <2>2, MergeSound
<1>4. ASSUME NEW cutoff, data = Prune(g, Plan(g, cutoff))
      PROVE  Sound(data) /\ Follows(data, g)
  BY <1>2, <1>4, PruneSound
<1> QED
  BY <1>1, <1>2, <1>3, <1>4

\* What a step does to the generations, and to what the site serves.
GenGrows(data) == \E ours \in BOOLEAN : gen' = Append(gen, [data |-> data, ours |-> ours])

(***************************************************************************)
(* Every generation that is ever built is sound.                            *)
(***************************************************************************)
LEMMA GenStep ==
  ASSUME Listed, IInv, RunTyped, AllSound, PointersHonest, Reading, [Next]_vars
  PROVE  \/ UNCHANGED gen
         \/ \E data : Sound(data) /\ GenGrows(data)
<1>1. ASSUME NEW s \in ForeignScans, ServerImports(s)
      PROVE  \E data : Sound(data) /\ GenGrows(data)
  <2>1. PICK data : data = Merge(gen[served].data, Build({s}))
    OBVIOUS
  <2>2. gen' = Append(gen, [data |-> data, ours |-> FALSE])
    BY <1>1, <2>1 DEF ServerImports, ServerBuilds
  <2>3. Sound(data)
    BY <2>1, ServerData
  <2> QED
    BY <2>2, <2>3 DEF GenGrows
<1>2. ASSUME NEW cutoff \in Cutoffs, ServerPrunes(cutoff)
      PROVE  \E data : Sound(data) /\ GenGrows(data)
  <2>1. PICK data : data = Prune(gen[served].data, Plan(gen[served].data, cutoff))
    OBVIOUS
  <2>2. gen' = Append(gen, [data |-> data, ours |-> FALSE])
    BY <1>2, <2>1 DEF ServerPrunes, ServerBuilds
  <2>3. Sound(data)
    BY <2>1, ServerData
  <2> QED
    BY <2>2, <2>3 DEF GenGrows
<1>3. CASE Stage
  <2>1. UNCHANGED gen \/ gen' = Append(gen, [data |-> Merged, ours |-> TRUE])
    BY <1>3 DEF Stage
  <2>2. Sound(Merged)
    BY <1>3, MergedSound DEF Stage, At
  <2>3. PICK data : data = Merged
    OBVIOUS
  <2> QED
    BY <2>1, <2>2, <2>3 DEF GenGrows
<1>4. ASSUME NEW f \in Files, GameSaves(f) \/ Digest(f) \/ Archive(f)
      PROVE  UNCHANGED gen
  BY <1>4 DEF GameSaves, Digest, Archive
<1>5. ASSUME NEW files, NEW publish, Begin(files, publish)
      PROVE  UNCHANGED gen
  BY <1>5 DEF Begin
<1>6. ASSUME \/ Unchanged \/ Reuse \/ Import \/ Accept \/ Send \/ WritePointer \/ Finish
             \/ Receive \/ Raise \/ Crash \/ Activate \/ Refuse \/ ActivateFails
      PROVE  UNCHANGED gen
  BY <1>6 DEF Unchanged, Reuse, Import, Accept, Send, WritePointer, Finish, Receive,
              Raise, Crash, Activate, Refuse, ActivateFails
<1>7. ASSUME \/ RemoveLock \/ Reconcile \/ Settle \/ Resend \/ Clear \/ Realign
             \/ UNCHANGED vars
      PROVE  UNCHANGED gen
  BY <1>7 DEF RemoveLock, Reconcile, Settle, Resend, Clear, Realign, vars
<1> QED
  BY <1>1, <1>2, <1>3, <1>4, <1>5, <1>6, <1>7 DEF Next

(***************************************************************************)
(* A new generation is the last, and the others stay.                       *)
(***************************************************************************)
LEMMA GrownData ==
  ASSUME Listed, NEW data, GenGrows(data)
  PROVE  /\ Listed' /\ \A n \in Dbs : n \in Dbs' /\ gen'[n] = gen[n]
         /\ \A n \in Dbs' : n \in Dbs \/ n = Len(gen')
         /\ Len(gen') \in Dbs' /\ gen'[Len(gen')].data = data
         /\ gen'[Len(gen')].ours \in BOOLEAN
<1>1. PICK ours \in BOOLEAN : gen' = Append(gen, [data |-> data, ours |-> ours])
  BY DEF GenGrows
<1>2. PICK g : g = [data |-> data, ours |-> ours]
  OBVIOUS
<1>3. gen' = Append(gen, g) /\ g.data = data /\ g.ours \in BOOLEAN
  BY <1>1, <1>2
<1>4. /\ Listed' /\ \A n \in Dbs : n \in Dbs' /\ gen'[n] = gen[n]
      /\ Len(gen') \in Dbs' /\ gen'[Len(gen')] = g
  BY <1>3, Grown
<1>5. \A n \in Dbs' : n \in Dbs \/ n = Len(gen')
  <2>1. PICK S : gen \in Seq(S)
    BY DEF Listed
  <2>2. Len(gen) \in Nat /\ Len(gen') = Len(gen) + 1
    BY <1>3, <2>1
  <2> QED
    BY <2>2 DEF Dbs
<1> QED
  BY <1>3, <1>4, <1>5

(***************************************************************************)
(* So all generations stay sound.                                           *)
(***************************************************************************)
LEMMA AllSoundStep ==
  ASSUME Listed, IInv, RunTyped, AllSound, PointersHonest, Reading, [Next]_vars
  PROVE  AllSound'
<1>1. CASE UNCHANGED gen
  BY <1>1 DEF AllSound, Data, Dbs
<1>2. ASSUME NEW data, Sound(data), GenGrows(data)
      PROVE  AllSound'
  <2>1. /\ \A n \in Dbs : gen'[n] = gen[n]
        /\ \A n \in Dbs' : n \in Dbs \/ n = Len(gen')
        /\ gen'[Len(gen')].data = data
    BY <1>2, GrownData
  <2> QED
    BY <1>2, <2>1 DEF AllSound, Data
<1> QED
  BY <1>1, <1>2, GenStep

(***************************************************************************)
(* A command on its way to the server replaces a generation only by one     *)
(* that extends it: its base is what was published when the run began       *)
(* (publish_update.py:14-51, dataset.py:291-331).                           *)
(***************************************************************************)
LEMMA WireStep ==
  ASSUME IInv, TypeOK, RunTyped, AllSound, PointersHonest, Staged, WireExtends, DataStays,
         [Next]_vars
  PROVE  WireExtends'
<1>1. ASSUME NEW d \in Dbs, NEW b \in Dbs, Extends(Data(d), Data(b)), wire'.db = d, wire'.base = b
      PROVE  WireExtends'
  <2>1. Data(d)' = Data(d) /\ Data(b)' = Data(b)
    BY DEF DataStays, Data
  <2> QED
    BY <1>1, <2>1 DEF WireExtends, Data
<1>2. ASSUME wire # Nothing, wire'.db = wire.db, wire'.base = wire.base
      PROVE  WireExtends'
  BY <1>1, <1>2 DEF WireExtends, TypeOK
<1>3. CASE wire' = Nothing
  BY <1>3 DEF WireExtends
<1>4. CASE UNCHANGED wire
  BY <1>2, <1>3, <1>4
<1>5. CASE Send
  <2>1. /\ run.at = "send" /\ wire'.db = run.db /\ wire'.base = run.was.published
    BY <1>5 DEF Send, At
  <2>2. run.db \in Dbs /\ run.was.published \in Dbs
    BY <2>1 DEF IInv, Shaped, RunTyped, Pointers
  <2> QED
    BY <1>1, <2>1, <2>2 DEF Staged
<1>6. CASE Resend
  <2>1. /\ Unresolved /\ wire'.db = status.pending.db /\ wire'.base = status.pending.published
    BY <1>6 DEF Resend
  <2>2. status.pending.db \in Dbs /\ status.pending.published \in Dbs
    BY <2>1 DEF IInv, Shaped, IsPointer
  <2> QED
    BY <1>1, <2>1, <2>2 DEF PointersHonest, Honest
<1>7. ASSUME NEW reply, Answer(reply), wire # Nothing
      PROVE  WireExtends'
  <2>1. wire' = [wire EXCEPT !.reply = reply] \/ wire' = Nothing
    BY <1>7 DEF Answer
  <2>2. wire' = [wire EXCEPT !.reply = reply] => wire'.db = wire.db /\ wire'.base = wire.base
    BY <1>7 DEF IInv, Shaped
  <2> QED
    BY <1>2, <1>3, <1>7, <2>1, <2>2
<1>8. CASE Activate \/ Refuse \/ ActivateFails
  BY <1>7, <1>8 DEF Activate, Refuse, ActivateFails
<1>9. CASE Receive \/ Raise \/ Crash
  BY <1>3, <1>4, <1>9 DEF Receive, Raise, Crash, HangUp
<1>10. ASSUME NEW f \in Files, GameSaves(f) \/ Digest(f) \/ Archive(f)
       PROVE  UNCHANGED wire
  BY <1>10 DEF GameSaves, Digest, Archive, server
<1>11. ASSUME NEW files, NEW publish, Begin(files, publish)
       PROVE  UNCHANGED wire
  BY <1>11 DEF Begin, server
<1>12. ASSUME NEW s, NEW cutoff, ServerImports(s) \/ ServerPrunes(cutoff)
       PROVE  UNCHANGED wire
  BY <1>12 DEF ServerImports, ServerPrunes, ServerBuilds
<1>13. ASSUME \/ Unchanged \/ Reuse \/ Import \/ Stage \/ Accept \/ WritePointer \/ Finish
              \/ RemoveLock \/ Reconcile \/ Settle \/ Clear \/ Realign \/ UNCHANGED vars
       PROVE  UNCHANGED wire
  BY <1>13 DEF Unchanged, Reuse, Import, Stage, Accept, WritePointer, Finish, RemoveLock, Reconcile,
               Settle, Clear, Realign, server, vars
<1>14. \/ UNCHANGED wire \/ Send \/ Resend \/ Activate \/ Refuse \/ ActivateFails
       \/ Receive \/ Raise \/ Crash
  BY <1>10, <1>11, <1>12, <1>13 DEF Next
<1> QED
  BY <1>4, <1>5, <1>6, <1>8, <1>9, <1>14

(***************************************************************************)
(* How the site comes to serve another generation: the command's, if the    *)
(* base is what it serves, or one the server built of it                    *)
(* (dataset.py:181-184, 203-210, 310-331).                                  *)
(***************************************************************************)
LEMMA ServedStep ==
  ASSUME [Next]_vars
  PROVE  \/ UNCHANGED <<served, shown>>
         \/ /\ UNCHANGED gen /\ shown' = shown \cup {served'}
            /\ \/ served' = served
               \/ wire # Nothing /\ served = wire.base /\ served' = wire.db
         \/ \E s \in ForeignScans : ServerImports(s)
         \/ \E cutoff \in Cutoffs : ServerPrunes(cutoff)
<1>1. CASE Activate
  BY <1>1 DEF Activate, Serve, Confirms, Replaces
<1>2. CASE ActivateFails
  BY <1>2 DEF ActivateFails, Serve, Replaces
<1>3. ASSUME NEW f \in Files, GameSaves(f) \/ Digest(f) \/ Archive(f)
      PROVE  UNCHANGED <<served, shown>>
  BY <1>3 DEF GameSaves, Digest, Archive, server
<1>4. ASSUME NEW files, NEW publish, Begin(files, publish)
      PROVE  UNCHANGED <<served, shown>>
  BY <1>4 DEF Begin, server
<1>5. ASSUME \/ Unchanged \/ Reuse \/ Import \/ Stage \/ Accept \/ Send \/ WritePointer \/ Finish
             \/ Receive \/ Raise \/ Crash \/ Refuse
      PROVE  UNCHANGED <<served, shown>>
  BY <1>5 DEF Unchanged, Reuse, Import, Stage, Accept, Send, WritePointer, Finish, Receive,
              Raise, Crash, Refuse, server, site
<1>6. ASSUME \/ RemoveLock \/ Reconcile \/ Settle \/ Resend \/ Clear \/ Realign
             \/ UNCHANGED vars
      PROVE  UNCHANGED <<served, shown>>
  BY <1>6 DEF RemoveLock, Reconcile, Settle, Resend, Clear, Realign, server, site, vars
<1> QED
  BY <1>1, <1>2, <1>3, <1>4, <1>5, <1>6 DEF Next

(***************************************************************************)
(* Whichever it is, it follows the one served before.                       *)
(***************************************************************************)
LEMMA ServedGoesOn ==
  ASSUME Listed, IInv, TypeOK, AllSound, WireExtends, DataStays, [Next]_vars
  PROVE  /\ Sound(gen'[served'].data) /\ Follows(gen'[served'].data, Data(served))
         /\ UNCHANGED <<served, shown>> \/ shown' = shown \cup {served'}
<1>1. served \in Dbs /\ Sound(Data(served)) /\ gen'[served] = gen[served]
  BY DEF IInv, Shaped, AllSound, DataStays
<1>2. ASSUME served' = served
      PROVE  Sound(gen'[served'].data) /\ Follows(gen'[served'].data, Data(served))
  BY <1>1, <1>2, FollowsItself DEF Sound, Data
<1>3. ASSUME UNCHANGED gen, wire # Nothing, served = wire.base, served' = wire.db
      PROVE  Sound(gen'[served'].data) /\ Follows(gen'[served'].data, Data(served))
  BY <1>3 DEF WireExtends, Extends, Data, TypeOK, AllSound
<1>4. ASSUME NEW data, Sound(data), Follows(data, Data(served)), ServerBuilds(data)
      PROVE  /\ Sound(gen'[served'].data) /\ Follows(gen'[served'].data, Data(served))
             /\ shown' = shown \cup {served'}
  <2>1. gen' = Append(gen, [data |-> data, ours |-> FALSE])
    BY <1>4 DEF ServerBuilds
  <2>2. gen'[Len(gen')].data = data
    BY <2>1, GrownData DEF GenGrows
  <2>3. served' = Len(gen') /\ shown' = shown \cup {served'}
    BY <1>4 DEF ServerBuilds, Serve
  <2> QED
    BY <1>4, <2>2, <2>3
<1>5. ASSUME NEW s \in ForeignScans, ServerImports(s)
      PROVE  /\ Sound(gen'[served'].data) /\ Follows(gen'[served'].data, Data(served))
             /\ shown' = shown \cup {served'}
  <2>1. PICK data : data = Merge(gen[served].data, Build({s}))
    OBVIOUS
  <2> QED
    BY <1>4, <1>5, <2>1, ServerData DEF ServerImports
<1>6. ASSUME NEW cutoff \in Cutoffs, ServerPrunes(cutoff)
      PROVE  /\ Sound(gen'[served'].data) /\ Follows(gen'[served'].data, Data(served))
             /\ shown' = shown \cup {served'}
  <2>1. PICK data : data = Prune(gen[served].data, Plan(gen[served].data, cutoff))
    OBVIOUS
  <2> QED
    BY <1>4, <1>6, <2>1, ServerData DEF ServerPrunes
<1> QED
  BY <1>2, <1>3, <1>5, <1>6, ServedStep

(***************************************************************************)
(* So it follows every generation ever shown, and an id that two of them    *)
(* have names one scan.                                                     *)
(***************************************************************************)
LEMMA ServedFollowsStep ==
  ASSUME Listed, IInv, TypeOK, AllSound, WireExtends, ServedFollows, IdsAreForever, DataStays,
         [Next]_vars
  PROVE  ServedFollows' /\ IdsAreForever'
<1>1. PICK h : h = gen'[served'].data
  OBVIOUS
<1>2. /\ Sound(h) /\ Follows(h, Data(served))
      /\ UNCHANGED <<served, shown>> \/ shown' = shown \cup {served'}
  BY <1>1, ServedGoesOn
<1>3. \A m \in shown : /\ m \in Dbs /\ Sound(Data(m)) /\ Data(m)' = Data(m)
                       /\ Follows(Data(served), Data(m))
  BY DEF TypeOK, AllSound, DataStays, Data, ServedFollows
<1>4. served \in shown
  BY DEF ServedFollows
<1>5. \A m \in shown : Follows(h, Data(m))
  <2> TAKE m \in shown
  <2>1. Numbered(h) /\ Numbered(Data(served)) /\ Numbered(Data(m))
    BY <1>2, <1>3, <1>4 DEF Sound
  <2>2. Follows(Data(served), Data(m))
    BY <1>3
  <2> QED
    BY <1>2, <2>1, <2>2, FollowsTransitive
<1>6. Follows(h, h)
  BY <1>2, FollowsItself DEF Sound
<1>7. \A m \in shown' : m \in shown \/ m = served'
  BY <1>2
<1>8. served' \in shown'
  BY <1>2, <1>4
<1>9. ServedFollows'
  BY <1>1, <1>3, <1>5, <1>6, <1>7, <1>8 DEF ServedFollows, Data
<1>10. ASSUME NEW m \in shown, NEW id \in Ids(Data(m)) \cap Ids(h)
       PROVE  h.scan[id] = Data(m).scan[id]
  <2>1. Follows(h, Data(m)) /\ Numbered(Data(m))
    BY <1>3, <1>5 DEF Sound
  <2>2. ~(Data(m).next <= id)
    BY <2>1 DEF Numbered
  <2> QED
    BY <2>1, <2>2 DEF Follows
<1>11. ASSUME NEW m \in shown', NEW n \in shown',
              NEW id \in Ids(gen'[m].data) \cap Ids(gen'[n].data)
       PROVE  gen'[m].data.scan[id] = gen'[n].data.scan[id]
  <2>1. ASSUME NEW k \in shown'
        PROVE  (k \in shown /\ gen'[k].data = Data(k)) \/ gen'[k].data = h
    BY <1>1, <1>3, <1>7 DEF Data
  <2>2. CASE m \in shown /\ gen'[m].data = Data(m) /\ n \in shown /\ gen'[n].data = Data(n)
    BY <2>2 DEF IdsAreForever, Data
  <2>3. CASE m \in shown /\ gen'[m].data = Data(m) /\ gen'[n].data = h
    BY <1>10, <2>3
  <2>4. CASE n \in shown /\ gen'[n].data = Data(n) /\ gen'[m].data = h
    BY <1>10, <2>4
  <2>5. CASE gen'[m].data = h /\ gen'[n].data = h
    BY <2>5
  <2> QED
    BY <2>1, <2>2, <2>3, <2>4, <2>5
<1> QED
  BY <1>9, <1>11 DEF IdsAreForever

(***************************************************************************)
(* A scan is gone from the site after a step only if the step was a         *)
(* retention of the server, which kept a newer one or found it expired      *)
(* (retention.py:30-49).                                                    *)
(***************************************************************************)
LEMMA ScansStayStep ==
  ASSUME IInv, TypeOK, AllSound, WireExtends, Listed, [Next]_vars, served' # served,
         NEW s \in Stored(gen[served].data) \ Stored(gen'[served'].data)
  PROVE  LeavesByRetention(s, gen[served].data, gen'[served'].data)
<1>1. PICK g : g = gen[served].data
  OBVIOUS
<1>2. Sound(g)
  BY <1>1 DEF IInv, Shaped, AllSound, Data
<1>3. ASSUME UNCHANGED gen, wire # Nothing, served = wire.base, served' = wire.db
      PROVE  FALSE
  BY <1>3 DEF WireExtends, Extends, Data
<1>4. ASSUME NEW data, ServerBuilds(data)
      PROVE  gen'[served'].data = data
  <2>1. gen' = Append(gen, [data |-> data, ours |-> FALSE])
    BY <1>4 DEF ServerBuilds
  <2>2. gen'[Len(gen')].data = data
    BY <2>1, GrownData DEF GenGrows
  <2> QED
    BY <1>4, <2>2 DEF ServerBuilds, Serve
<1>5. ASSUME NEW f \in ForeignScans, ServerImports(f)
      PROVE  FALSE
  <2>1. gen'[served'].data = Merge(g, Build({f}))
    BY <1>1, <1>4, <1>5 DEF ServerImports
  <2>2. Sound(Build({f}))
    <3>1. {f} \subseteq Scans /\ IsFiniteSet({f})
      BY UpdateConstants, FS_Singleton
    <3> QED
      BY <3>1, BuildSound
  <2>3. Stored(g) \subseteq Stored(Merge(g, Build({f})))
    BY <1>2, <2>2, MergeSound
  <2> QED
    BY <1>1, <2>1, <2>3
<1>6. ASSUME NEW cutoff \in Cutoffs, ServerPrunes(cutoff)
      PROVE  LeavesByRetention(s, gen[served].data, gen'[served'].data)
  <2>1. PICK h : h = Prune(g, Plan(g, cutoff))
    OBVIOUS
  <2>2. gen'[served'].data = h
    BY <1>1, <1>4, <1>6, <2>1 DEF ServerPrunes
  <2>3. cutoff \in Nat /\ s \in Stored(g) \ Stored(h)
    BY <1>1, <2>2, UpdateConstants
  <2>4. \/ TimeOf[s] < cutoff
        \/ \E t \in Stored(g) \cap Stored(h) :
             MarketOf[t] = MarketOf[s] /\ DayOf[t] = DayOf[s] /\ TimeOf[t] >= TimeOf[s]
    BY <1>2, <2>1, <2>3, RetentionKeepsNewest
  <2> QED
    BY <1>1, <2>2, <2>4 DEF LeavesByRetention
<1> QED
  BY <1>3, <1>5, <1>6, ServedStep

(***************************************************************************)
(* The types, in a step that builds a generation.                           *)
(***************************************************************************)
LEMMA GrowingStep ==
  ASSUME Listed, IInv, TypeOK, AllSound, RunTyped, NEW data, Sound(data), GenGrows(data),
         [Next]_vars
  PROVE  ServerTyped' /\ StatusTyped'
<1>1. /\ \A n \in Dbs : n \in Dbs' /\ gen'[n] = gen[n]
      /\ \A n \in Dbs' : n \in Dbs \/ n = Len(gen')
      /\ Len(gen') \in Dbs' /\ gen'[Len(gen')].data = data /\ gen'[Len(gen')].ours \in BOOLEAN
  BY GrownData
<1>2. UNCHANGED <<receipted, wire, pointer, seed, status>>
      /\ (UNCHANGED <<served, shown>> \/ (served' = Len(gen') /\ shown' = shown \cup {Len(gen')}))
  <2>1. gen' # gen
    <3>1. PICK S : gen \in Seq(S)
      BY DEF Listed
    <3>2. Len(gen') = Len(gen) + 1 /\ Len(gen) \in Nat
      BY <3>1 DEF GenGrows
    <3> QED
      BY <3>2
  <2>2. ASSUME NEW f \in Files, GameSaves(f) \/ Digest(f) \/ Archive(f)
        PROVE  UNCHANGED gen
    BY <2>2 DEF GameSaves, Digest, Archive
  <2>3. ASSUME NEW files, NEW publish, Begin(files, publish)
        PROVE  UNCHANGED gen
    BY <2>3 DEF Begin
  <2>4. ASSUME \/ Unchanged \/ Reuse \/ Import \/ Accept \/ Send \/ WritePointer \/ Finish
               \/ Receive \/ Raise \/ Crash \/ Activate \/ Refuse \/ ActivateFails
        PROVE  UNCHANGED gen
    BY <2>4 DEF Unchanged, Reuse, Import, Accept, Send, WritePointer, Finish, Receive,
                Raise, Crash, Activate, Refuse, ActivateFails
  <2>5. ASSUME \/ RemoveLock \/ Reconcile \/ Settle \/ Resend \/ Clear \/ Realign
               \/ UNCHANGED vars
        PROVE  UNCHANGED gen
    BY <2>5 DEF RemoveLock, Reconcile, Settle, Resend, Clear, Realign, vars
  <2>6. CASE Stage
    BY <2>1, <2>6 DEF Stage, server
  <2>7. ASSUME NEW s, NEW cutoff, ServerImports(s) \/ ServerPrunes(cutoff)
        PROVE  /\ UNCHANGED <<receipted, wire, pointer, seed, status>>
               /\ served' = Len(gen') /\ shown' = shown \cup {Len(gen')}
    BY <2>7 DEF ServerImports, ServerPrunes, ServerBuilds, Serve
  <2> QED
    BY <2>1, <2>2, <2>3, <2>4, <2>5, <2>6, <2>7 DEF Next
<1>3. ServerTyped'
  <2>1. ASSUME NEW n \in Dbs'
        PROVE  gen'[n].ours \in BOOLEAN /\ Stored(gen'[n].data) \subseteq Scans
    <3>1. CASE n \in Dbs
      BY <1>1, <3>1 DEF TypeOK
    <3>2. CASE n = Len(gen')
      BY <1>1, <3>2 DEF Sound, Numbered
    <3> QED
      BY <1>1, <3>1, <3>2
  <2>2. {served', seed'} \cup receipted' \cup shown' \subseteq Dbs'
    BY <1>1, <1>2 DEF TypeOK
  <2>3. wire' = Nothing \/ {wire'.db, wire'.base} \subseteq Dbs'
    BY <1>1, <1>2 DEF TypeOK
  <2> QED
    BY <2>1, <2>2, <2>3 DEF ServerTyped
<1>4. StatusTyped'
  <2>1. \A p \in Pointers : p \in Pointers'
    BY <1>1 DEF Pointers
  <2> QED
    BY <1>2, <2>1 DEF StatusTyped, TypeOK, Unresolved
<1> QED
  BY <1>3, <1>4

(***************************************************************************)
(* The type invariant, in any step.                                         *)
(***************************************************************************)
LEMMA TypesStep ==
  ASSUME Listed, IInv, TypeOK, RunTyped, AllSound, PointersHonest, Reading, [Next]_vars
  PROVE  TypeOK' /\ RunTyped'
<1>1. CASE UNCHANGED gen
  <2>1. \A p \in Pointers : p \in Pointers'
    BY <1>1 DEF Pointers, Dbs
  <2>2. ServerTyped'
    BY <1>1, ServerTypedStep
  <2>3. StatusTyped'
    BY <1>1, StatusTypedStep
  <2>4. ControlTyped' /\ RunTyped'
    BY <2>1, ControlTypedStep
  <2> QED
    BY <2>2, <2>3, <2>4, TypeParts, PTL
<1>2. ASSUME NEW data, Sound(data), GenGrows(data)
      PROVE  TypeOK' /\ RunTyped'
  <2>1. \A p \in Pointers : p \in Pointers'
    <3>1. \A n \in Dbs : n \in Dbs'
      BY <1>2, GrownData
    <3> QED
      BY <3>1 DEF Pointers
  <2>2. ServerTyped' /\ StatusTyped'
    BY <1>2, GrowingStep
  <2>3. ControlTyped' /\ RunTyped'
    BY <2>1, ControlTypedStep
  <2> QED
    BY <2>2, <2>3, TypeParts, PTL
<1> QED
  BY <1>1, <1>2, GenStep

(***************************************************************************)
(* At first there is the seed, built of its scans, and nothing else         *)
(* (update.py:216-218).                                                     *)
(***************************************************************************)
LEMMA InitData ==
  ASSUME Init
  PROVE  DataInv
<1>1. PICK g : g = Build(SeedScans)
  OBVIOUS
<1>2. Sound(g)
  BY <1>1, BuildSound, UpdateConstants
<1>3. gen = <<[data |-> g, ours |-> FALSE]>>
  BY <1>1 DEF Init
<1>4. Dbs = {1} /\ Data(1) = g /\ gen[1].ours = FALSE /\ gen[1].data = g
  BY <1>3 DEF Dbs, Data
<1>5. /\ disk = NoReceipts /\ served = 1 /\ shown = {1} /\ seed = 1 /\ receipted = {}
      /\ wire = Nothing /\ pointer = Nothing
      /\ status = [phase |-> "none", pending |-> Nothing]
      /\ lock = FALSE /\ run = [at |-> "idle"] /\ faults = 0
  BY DEF Init, Idle
<1>6. TypeOK
  <2>1. ServerTyped
    BY <1>2, <1>4, <1>5 DEF ServerTyped, Sound, Numbered
  <2>2. StatusTyped
    BY <1>5 DEF StatusTyped, Phases, Unresolved
  <2>3. ControlTyped
    <3>1. disk \in [Files -> Contents \cup {0}]
      BY <1>5 DEF NoReceipts
    <3>2. lock \in BOOLEAN
      BY <1>5
    <3>3. faults \in 0..MaxFaults
      BY <1>5, UpdateConstants
    <3>4. run.at = "idle"
      BY <1>5
    <3> QED
      BY <3>1, <3>2, <3>3, <3>4 DEF ControlTyped
  <2> QED
    BY <2>1, <2>2, <2>3, TypeParts
<1>7. AllSound
  BY <1>2, <1>4 DEF AllSound
<1>8. RunTyped /\ PointersHonest /\ Reading /\ Staged /\ WireExtends
  BY <1>5 DEF RunTyped, PointersHonest, Reading, Staged, WireExtends, Unresolved
<1>9. ServedFollows
  BY <1>2, <1>4, <1>5, FollowsItself DEF ServedFollows, Sound
<1>10. IdsAreForever
  BY <1>5 DEF IdsAreForever
<1> QED
  BY <1>6, <1>7, <1>8, <1>9, <1>10 DEF DataInv

(***************************************************************************)
(* Every step keeps the invariant of the data.                              *)
(***************************************************************************)
LEMMA DataNext ==
  ASSUME Listed, IInv, DataInv, [Next]_vars
  PROVE  DataInv'
<1>1. /\ TypeOK /\ RunTyped /\ AllSound /\ PointersHonest /\ Reading /\ Staged
      /\ WireExtends /\ ServedFollows /\ IdsAreForever
  BY DEF DataInv
<1>2. DataStays
  BY <1>1, StepDataStays
<1>3. TypeOK' /\ RunTyped'
  BY <1>1, TypesStep
<1>4. AllSound'
  BY <1>1, AllSoundStep
<1>5. PointersHonest'
  BY <1>1, <1>2, PointersHonestStep
<1>6. Reading'
  BY <1>1, <1>2, ReadingStep
<1>7. Staged'
  BY <1>1, <1>2, StagedStep
<1>8. WireExtends'
  BY <1>1, <1>2, WireStep
<1>9. ServedFollows' /\ IdsAreForever'
  BY <1>1, <1>2, ServedFollowsStep
<1> QED
  BY <1>3, <1>4, <1>5, <1>6, <1>7, <1>8, <1>9 DEF DataInv

(***************************************************************************)
(* For every value of the constants: the invariant of the publication and   *)
(* of the data hold throughout.                                             *)
(***************************************************************************)
LEMMA DataInvariant == Spec => [](Listed /\ IInv /\ DataInv)
<1>1. Init => Listed /\ IInv /\ DataInv
  BY InitKeeps, InitData
<1>2. Listed /\ IInv /\ DataInv /\ [Next]_vars => Listed' /\ IInv' /\ DataInv'
  BY NextKeeps, DataNext
<1> QED
  BY <1>1, <1>2, PTL DEF Spec

(***************************************************************************)
(* For every value of the constants: every variable keeps its type.         *)
(***************************************************************************)
THEOREM PipelineTypes == Spec => []TypeOK
<1>1. DataInv => TypeOK
  BY DEF DataInv
<1> QED
  BY <1>1, DataInvariant, PTL

(***************************************************************************)
(* For every value of the constants: a file whose receipt in current.json   *)
(* is its content as it is now has all its scans in the generation          *)
(* current.json names, however often the game saved it meanwhile and        *)
(* whatever run died (update.py:230-239, 278-302).                          *)
(***************************************************************************)
THEOREM ReceiptsMeanImported == Spec => []ReceiptMeansImported
<1>1. DataInv => ReceiptMeansImported
  BY DEF DataInv, PointersHonest, Honest, Imported, ReceiptMeansImported, Data
<1> QED
  BY <1>1, DataInvariant, PTL

(***************************************************************************)
(* For every value of the constants: in all generations the site ever       *)
(* served, whoever built them and however many prunings lie between, an id  *)
(* names one scan (manage.py:190-191, 219-224, 262-263).                    *)
(***************************************************************************)
THEOREM IdsNeverReused == Spec => []IdsAreForever
<1>1. DataInv => IdsAreForever
  BY DEF DataInv
<1> QED
  BY <1>1, DataInvariant, PTL

(***************************************************************************)
(* For every value of the constants: every scan of every generation reads   *)
(* as it was recorded, through any number of merges and prunings of its     *)
(* dictionary (manage.py:228-267, 270-277).                                 *)
(***************************************************************************)
THEOREM ScansAlwaysRestore == Spec => []ScansRestore
<1>1. DataInv => ScansRestore
  BY DEF DataInv, AllSound, Sound, Readable, ScansRestore, Data
<1> QED
  BY <1>1, DataInvariant, PTL

(***************************************************************************)
(* For every value of the constants: a scan leaves the site only by the     *)
(* server's retention, with a newer one of its market and day staying or    *)
(* its time being up. No publication of the updater loses a scan, as late   *)
(* as its command may arrive (dataset.py:203-210, retention.py:30-49).      *)
(***************************************************************************)
THEOREM ScansLeaveByRetention == Spec => ScansStay
<1>1. ASSUME Listed, IInv, DataInv, [Next]_vars
      PROVE  [LET before == gen[served].data
                  after == gen'[served'].data IN
              \A s \in Stored(before) \ Stored(after) : LeavesByRetention(s, before, after)]_served
  <2>1. TypeOK /\ AllSound /\ WireExtends
    BY <1>1 DEF DataInv
  <2> QED
    BY <1>1, <2>1, ScansStayStep
<1> QED
  BY <1>1, DataInvariant, PTL DEF Spec, ScansStay
================================================================================
