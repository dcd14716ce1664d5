----------------------------- MODULE UpdatePipeline -----------------------------
(***************************************************************************)
(* The updater on the collecting PC (compact_market/update.py): saved game  *)
(* files become a generation, which publish_update.py sends to the server   *)
(* over SSH.  The updater keeps its place in two files, current.json and    *)
(* status.json; the server keeps the served database and one receipt for    *)
(* each generation it published.  The reply may be lost, either side may    *)
(* die, and the server publishes data of its own in between.                *)
(***************************************************************************)
EXTENDS Generation, Sequences

CONSTANTS
  Files,           \* SavedVariables files
  Contents,        \* what the game writes, numbered in time; 0 is no file
  ContentsOf,      \* of a file
  ScansIn,         \* of a content
  SeedScans,
  ExcludedRealms,
  Cutoffs,         \* retention windows the server may apply
  ForeignScans,    \* scans others upload to the server
  MaxGenerations,  \* bound: generations built, the seed included
  MaxFaults        \* bound: steps that fail, replies lost, processes that die

ASSUME UpdateConstants ==
  /\ Contents \subseteq Nat \ {0} /\ ScansIn \in [Contents -> SUBSET Scans]
  /\ IsFiniteSet(SeedScans) /\ \A c \in Contents : IsFiniteSet(ScansIn[c])
  /\ ContentsOf \in [Files -> SUBSET Contents]
  /\ SeedScans \subseteq Scans /\ ForeignScans \subseteq Scans
  /\ Cutoffs \subseteq Nat /\ MaxGenerations \in Nat /\ MaxFaults \in Nat

VARIABLES
  disk,       \* the content of each file
  gen,        \* the generations ever built, a sequence; the first is the seed
  served,     \* the generation the site serves
  shown,      \* every generation it ever served
  receipted,  \* generations with a publication.json on the server
  wire,       \* the activate command sent to the server, with its reply, or Nothing
  pointer,    \* current.json, or Nothing
  seed,       \* seed_database of the configuration
  status,     \* status.json
  lock,       \* update.lock exists
  run,        \* the updater at work
  faults

vars == <<disk, gen, served, shown, receipted, wire, pointer, seed, status, lock, run, faults>>
server == <<served, shown, receipted, wire>>
site == <<served, shown, receipted>>

\* The generation of a file, or of a command, that there is not.
Nothing == [db |-> 0]

NoReceipts == [f \in Files |-> 0]
Idle == [at |-> "idle"]
Unresolved == status.phase \in {"publishing", "publication_unknown"}

\* What run_update takes for current: the pointer, or the seed database.
Current ==
  IF pointer # Nothing THEN pointer
  ELSE [db |-> seed, publication |-> FALSE, published |-> seed, receipts |-> NoReceipts,
        floor |-> Largest({TimeOf[s] : s \in Stored(gen[seed].data)})]

Unpublished == pointer # Nothing /\ ~pointer.publication

Dbs == 1..Len(gen)
Pointers == [db : Dbs, publication : BOOLEAN, published : Dbs,
             receipts : [Files -> Contents \cup {0}], floor : Nat]

Phases == {"none", "discovery", "importing", "publishing", "publication_unknown", "failed",
           "unchanged", "ready", "published"}

\* Every variable has its type.
TypeOK ==
  /\ disk \in [Files -> Contents \cup {0}]
  /\ \A n \in Dbs : gen[n].ours \in BOOLEAN /\ Stored(gen[n].data) \subseteq Scans
  /\ {served, seed} \cup receipted \cup shown \subseteq Dbs
  /\ wire = Nothing \/ {wire.db, wire.base} \subseteq Dbs
  /\ pointer \in {Nothing} \cup Pointers
  /\ status.phase \in Phases /\ status.pending \in {Nothing} \cup Pointers
  /\ Unresolved => status.pending # Nothing
  /\ run.at \in {"idle", "digest", "archive", "stage", "accept", "send", "wait", "point", "finish",
                 "settle"}
  /\ lock \in BOOLEAN /\ faults \in 0..MaxFaults

Init ==
  /\ disk = NoReceipts
  /\ gen = <<[data |-> Build(SeedScans), ours |-> FALSE]>>
  /\ served = 1 /\ shown = {1} /\ seed = 1 /\ receipted = {} /\ wire = Nothing
  /\ pointer = Nothing
  /\ status = [phase |-> "none", pending |-> Nothing]
  /\ lock = FALSE /\ run = Idle /\ faults = 0

Fault == faults < MaxFaults /\ faults' = faults + 1
At(place) == run.at = place
Save(phase) == status' = [status EXCEPT !.phase = phase]
Leave == run' = Idle /\ lock' = FALSE

Slip_Fail ==  \* the pending pointer is not kept with the unknown outcome
  /\ status' = [phase |-> IF status.phase = "publishing" THEN "publication_unknown" ELSE "failed",
                pending |-> Nothing]
  /\ Leave

\* except: the outcome is unknown only once 'publishing' was saved.
Fail ==
  /\ Save(IF status.phase = "publishing" THEN "publication_unknown" ELSE "failed")
  /\ Leave

--------------------------------------------------------------------------------
\* The game and the discovery of its files.

GameSaves(f) ==
  /\ \E c \in ContentsOf[f] : c > disk[f] /\ disk' = [disk EXCEPT ![f] = c]
  /\ UNCHANGED <<gen, server, pointer, seed, status, lock, run, faults>>

Saved == {f \in Files : disk[f] # 0}

\* Header hints: the file's last scan is one the stage would take.
Discovered ==
  {f \in Saved :
     LET scans == ScansIn[disk[f]]
         last == CHOOSE s \in scans : \A t \in scans : TimeOf[t] <= TimeOf[s] IN
     ~Unwanted(gen[Current.db].data, last, ExcludedRealms, Current.floor)}

--------------------------------------------------------------------------------
\* run_update

Slip_Blocked == status.phase = "publication_unknown"  \* a publisher that died is replayed

Blocked == Unresolved

Begin(files, publish) ==
  /\ At("idle") /\ ~lock /\ ~Blocked
  /\ files # {} \/ (publish /\ Unpublished)
  /\ lock' = TRUE
  /\ status' = [phase |-> "discovery", pending |-> Nothing]
  /\ run' = [at |-> "digest", publish |-> publish, todo |-> files, file |-> "none", was |-> Current,
             changed |-> <<>>, receipts |-> Current.receipts, db |-> Current.db]
  /\ UNCHANGED <<disk, gen, server, pointer, seed, faults>>

\* A source whose digest has a receipt is left out.
Digest(f) ==
  /\ At("digest") /\ f \in run.todo
  /\ run' = [run EXCEPT !.todo = @ \ {f}, !.file = f,
                        !.at = IF run.was.receipts[f] = disk[f] THEN "digest" ELSE "archive",
                        !.receipts[f] = disk[f]]
  /\ UNCHANGED <<disk, gen, server, pointer, seed, status, lock, faults>>

Slip_Archive(f) ==  \* the receipt is of the file as it is after it was archived
  /\ At("archive") /\ f = run.file
  /\ disk' \in {[disk EXCEPT ![f] = c] : c \in {d \in ContentsOf[f] : d >= disk[f]}}
  /\ run' = [run EXCEPT !.at = "digest", !.changed = Append(@, disk[f]), !.receipts[f] = disk'[f]]
  /\ UNCHANGED <<gen, server, pointer, seed, status, lock, faults>>

\* archive_source: what is archived is the file as it is by now.
Archive(f) ==
  /\ At("archive") /\ f = run.file
  /\ run' = [run EXCEPT !.at = "digest", !.changed = Append(@, disk[f])]
  /\ UNCHANGED <<disk, gen, server, pointer, seed, status, lock, faults>>

Unchanged ==
  /\ At("digest") /\ run.todo = {} /\ run.changed = <<>>
  /\ ~(run.publish /\ Unpublished)
  /\ Save("unchanged") /\ Leave
  /\ UNCHANGED <<disk, gen, server, pointer, seed, faults>>

\* A candidate that was made ready before is published as it is.
Reuse ==
  /\ At("digest") /\ run.todo = {} /\ run.changed = <<>>
  /\ run.publish /\ Unpublished
  /\ run' = [run EXCEPT !.at = "accept"]
  /\ UNCHANGED <<disk, gen, server, pointer, seed, status, lock, faults>>

Import ==
  /\ At("digest") /\ run.todo = {} /\ run.changed # <<>>
  /\ Save("importing")
  /\ run' = [run EXCEPT !.at = "stage"]
  /\ UNCHANGED <<disk, gen, server, pointer, seed, lock, faults>>

ChangedScans == UNION {ScansIn[run.changed[i]] : i \in DOMAIN run.changed}

\* The built files are merged one by one.
Merged ==
  LET merge[i \in 0..Len(run.changed)] ==
        IF i = 0 THEN gen[run.was.db].data
        ELSE Merge(merge[i - 1], Build(ScansIn[run.changed[i]]))
  IN  merge[Len(run.changed)]

Stage ==
  /\ At("stage")
  /\ IF Refused(gen[run.was.db].data, ChangedScans, ExcludedRealms, run.was.floor)
     THEN Fail /\ UNCHANGED gen
     ELSE /\ Len(gen) < MaxGenerations
          /\ gen' = Append(gen, [data |-> Merged, ours |-> TRUE])
          /\ run' = [run EXCEPT !.at = "accept", !.db = Len(gen')]
          /\ UNCHANGED <<status, lock>>
  /\ UNCHANGED <<disk, server, pointer, seed, faults>>

NextCurrent(publication) ==
  [db |-> run.db, publication |-> publication,
   published |-> IF publication THEN run.db ELSE run.was.published,
   receipts |-> run.receipts, floor |-> run.was.floor]

\* prepare_icons, the icon hook, accept; 'publishing' is saved before the hook.
Accept ==
  /\ At("accept")
  /\ IF run.publish
     THEN /\ status' = [phase |-> "publishing", pending |-> NextCurrent(FALSE)]
          /\ run' = [run EXCEPT !.at = "send"]
     ELSE /\ run' = [run EXCEPT !.at = "point"] /\ UNCHANGED status
  /\ UNCHANGED <<disk, gen, server, pointer, seed, lock, faults>>

\* publish_update.py uploads what the server lacks, then calls activate there.
Send ==
  /\ At("send")
  /\ wire' = [db |-> run.db, base |-> run.was.published, reply |-> "none"]
  /\ run' = [run EXCEPT !.at = "wait"]
  /\ UNCHANGED <<disk, gen, site, pointer, seed, status, lock, faults>>

Confirmed == wire.reply = "active"

\* Only a receipt for this very generation confirms it.
Receive ==
  /\ At("wait") /\ wire.reply # "none"
  /\ wire' = Nothing
  /\ IF Confirmed
     THEN run' = [run EXCEPT !.at = "point"] /\ UNCHANGED <<status, lock>>
     ELSE Fail
  /\ UNCHANGED <<disk, gen, site, pointer, seed, faults>>

WritePointer ==
  /\ At("point")
  /\ pointer' = NextCurrent(run.publish)
  /\ run' = [run EXCEPT !.at = "finish"]
  /\ UNCHANGED <<disk, gen, server, seed, status, lock, faults>>

Finish ==
  /\ At("finish")
  /\ Save(IF run.publish THEN "published" ELSE "ready") /\ Leave
  /\ UNCHANGED <<disk, gen, server, pointer, seed, faults>>

\* The connection is closed: a reply is lost, a command goes on.
HangUp == wire' = IF wire # Nothing /\ wire.reply # "none" THEN Nothing ELSE wire

\* Any step may raise, the hook for a lost reply or a time limit too.
Raise ==
  /\ ~At("idle") /\ ~At("settle")
  /\ Fault /\ Fail /\ HangUp
  /\ UNCHANGED <<disk, gen, site, pointer, seed>>

\* The process dies: the lock file stays.
Crash ==
  /\ ~At("idle")
  /\ Fault /\ run' = Idle /\ HangUp
  /\ UNCHANGED <<disk, gen, site, pointer, seed, status, lock>>

--------------------------------------------------------------------------------
\* The server: _activate, which runs on when nobody waits for it any more.

\* Its receipt still describes what is served, or can be recovered.
Confirms == served = wire.db

Slip_Replaces ==  \* the expected current database is not compared
  served # wire.db /\ wire.db \notin receipted

Replaces == served # wire.db /\ wire.db \notin receipted /\ served = wire.base

Answer(reply) == wire' = IF At("wait") THEN [wire EXCEPT !.reply = reply] ELSE Nothing

Serve(db) == served' = db /\ shown' = shown \cup {db}

Activate ==
  /\ wire # Nothing /\ wire.reply = "none"
  /\ Confirms \/ Replaces
  /\ Serve(wire.db) /\ receipted' = receipted \cup {wire.db}
  /\ Answer("active")
  /\ UNCHANGED <<disk, gen, pointer, seed, status, lock, run, faults>>

Refuse ==
  /\ wire # Nothing /\ wire.reply = "none"
  /\ ~Confirms /\ ~Replaces
  /\ Answer("refused")
  /\ UNCHANGED <<disk, gen, site, pointer, seed, status, lock, run, faults>>

\* It fails before or after the switch (DatasetSwitch), without a receipt.
ActivateFails ==
  /\ wire # Nothing /\ wire.reply = "none" /\ Replaces
  /\ Fault
  /\ Serve(served) \/ Serve(wire.db)
  /\ Answer("refused")
  /\ UNCHANGED <<disk, gen, receipted, pointer, seed, status, lock, run>>

\* Publications of the server's own jobs: an uploaded scan, or retention.
ServerBuilds(data) ==
  /\ Len(gen) < MaxGenerations
  /\ gen' = Append(gen, [data |-> data, ours |-> FALSE])
  /\ Serve(Len(gen'))
  /\ UNCHANGED <<disk, receipted, wire, pointer, seed, status, lock, run, faults>>

ServerImports(s) ==
  /\ s \notin Stored(gen[served].data) /\ ~Refused(gen[served].data, {s}, {}, -1)
  /\ ServerBuilds(Merge(gen[served].data, Build({s})))

ServerPrunes(cutoff) ==
  /\ Plan(gen[served].data, cutoff) # {}
  /\ ServerBuilds(Prune(gen[served].data, Plan(gen[served].data, cutoff)))

--------------------------------------------------------------------------------
\* The person in charge (AUTOMATIC_UPDATES.md).

RemoveLock ==
  /\ lock /\ At("idle") /\ lock' = FALSE
  /\ UNCHANGED <<disk, gen, server, pointer, seed, status, run, faults>>

\* reconcile, with the receipt found on the server.
Reconcile ==
  /\ At("idle") /\ ~lock /\ Unresolved
  /\ status.pending # Nothing /\ status.pending.db \in receipted
  /\ lock' = TRUE /\ run' = [at |-> "settle"]
  /\ pointer' = [status.pending EXCEPT !.publication = TRUE, !.published = status.pending.db]
  /\ UNCHANGED <<disk, gen, server, seed, status, faults>>

Settle ==
  /\ At("settle")
  /\ status' = [phase |-> "published", pending |-> pointer] /\ Leave
  /\ UNCHANGED <<disk, gen, server, pointer, seed, faults>>

\* The publisher is called again by hand, for the receipt.
Resend ==
  /\ At("idle") /\ Unresolved /\ wire = Nothing
  /\ wire' = [db |-> status.pending.db, base |-> status.pending.published, reply |-> "none"]
  /\ UNCHANGED <<disk, gen, site, pointer, seed, status, lock, run, faults>>

\* It was verified that the server did not switch and is not about to.
Clear ==
  /\ At("idle") /\ Unresolved /\ wire = Nothing
  /\ served # status.pending.db /\ status.pending.db \notin receipted
  /\ Save("failed")
  /\ UNCHANGED <<disk, gen, server, pointer, seed, lock, run, faults>>

\* Somebody else published: start over from what is served.
Realign ==
  /\ At("idle") /\ ~lock /\ ~Unresolved /\ wire = Nothing
  /\ ~gen[served].ours /\ served # Current.published
  /\ seed' = served /\ pointer' = Nothing
  /\ UNCHANGED <<disk, gen, server, status, lock, run, faults>>

--------------------------------------------------------------------------------

Next ==
  \/ \E f \in Files : GameSaves(f) \/ Digest(f) \/ Archive(f)
  \/ \E files \in {Saved, Discovered}, publish \in BOOLEAN : Begin(files, publish)
  \/ Unchanged \/ Reuse \/ Import \/ Stage \/ Accept \/ Send \/ WritePointer \/ Finish
  \/ Receive \/ Raise \/ Crash
  \/ Activate \/ Refuse \/ ActivateFails
  \/ \E s \in ForeignScans : ServerImports(s)
  \/ \E cutoff \in Cutoffs : ServerPrunes(cutoff)
  \/ RemoveLock \/ Reconcile \/ Settle \/ Resend \/ Clear \/ Realign

Spec == Init /\ [][Next]_vars

--------------------------------------------------------------------------------

(***************************************************************************)
(* The updater never loses track of what it made public, through lost       *)
(* replies, commands that finish late and crashes anywhere (update.py:204,  *)
(* 292-303, 316-325): a generation of its own that the site serves is the   *)
(* one current.json says was published, or the pending one of an unresolved *)
(* publication, and what current.json says was published has the server's   *)
(* receipt.                                                                 *)
(***************************************************************************)
ServedIsTracked ==
  /\ gen[served].ours =>
       served = Current.published \/ (Unresolved /\ served = status.pending.db)
  /\ pointer # Nothing /\ pointer.publication => pointer.db \in receipted

(***************************************************************************)
(* A source whose receipt matches the file on disk is never skipped with    *)
(* data that was not imported: its scans are in the current generation,     *)
(* though the game writes while the updater reads (update.py:230-239).      *)
(***************************************************************************)
ReceiptMeansImported ==
  pointer # Nothing =>
    \A f \in Files : disk[f] # 0 /\ pointer.receipts[f] = disk[f] =>
      ScansIn[disk[f]] \subseteq Stored(gen[pointer.db].data)

(***************************************************************************)
(* Whoever publishes, a scan leaves the site only by retention: it has      *)
(* expired, or a newer one of its market and day stays                      *)
(* (dataset.py:203-210, retention.py:30-49).                                *)
(***************************************************************************)
LeavesByRetention(s, before, after) ==
  \E cutoff \in Cutoffs :
    \/ TimeOf[s] < cutoff
    \/ \E t \in Stored(before) \cap Stored(after) :
         MarketOf[t] = MarketOf[s] /\ DayOf[t] = DayOf[s] /\ TimeOf[t] >= TimeOf[s]

ScansStay ==
  [][LET before == gen[served].data
         after == gen'[served'].data IN
     \A s \in Stored(before) \ Stored(after) : LeavesByRetention(s, before, after)]_served

(***************************************************************************)
(* Scan ids are never used again: in all generations the site ever served,  *)
(* whoever built them, an id names one scan, also after the last scan was   *)
(* pruned (manage.py:190-191, 219-224, 262-263), so that links survive.     *)
(***************************************************************************)
IdsAreForever ==
  \A m, n \in shown : \A id \in Ids(gen[m].data) \cap Ids(gen[n].data) :
    gen[m].data.scan[id] = gen[n].data.scan[id]

(***************************************************************************)
(* Every scan of every generation reads back as it was recorded, though its *)
(* dictionary was merged and pruned many times over and inherited scans are *)
(* not verified again (manage.py:228-267, 270-277).                         *)
(***************************************************************************)
ScansRestore ==
  \A n \in Dbs : \A id \in Ids(gen[n].data) :
    Restored(gen[n].data, id) = RowsOf[gen[n].data.scan[id]]
================================================================================
