------------------------------ MODULE LegacyBackend ------------------------------
(***************************************************************************)
(* The first market backend (backend/app): the addon's files are imported   *)
(* into MySQL tables by a background task of the API or by a command, the   *)
(* administrator may drop all tables, and the market API answers from them. *)
(* One importer at a time holds the database's named lock; the API has a    *)
(* lock of its own for its task; the reset takes neither.                   *)
(***************************************************************************)
EXTENDS Observations, Sequences, SequencesExt

CONSTANTS
  LuaFiles,      \* saved files
  CapturesIn,    \* of a file: its scans, a sequence in the file's order
  KeptJobs,      \* ended jobs the API remembers besides the newest one
  MaxJobs,       \* bound: jobs posted
  MaxCommands,   \* bound: imports from the command line
  MaxResets,     \* bound: resets
  MaxAccidents   \* bound: failures of any kind

ASSUME LegacyConstants ==
  /\ \A f \in LuaFiles : CapturesIn[f] \in Seq(Captures)
  /\ None \notin {"task", "command", "unknown"}
  /\ {KeptJobs, MaxJobs, MaxCommands, MaxResets, MaxAccidents} \subseteq Nat

VARIABLES
  db,         \* the committed tables
  importLock, \* _IMPORT_LOCK
  jobs,       \* _IMPORT_JOBS, keys in the order they were given
  importer,   \* the background task and the command: what each is doing
  dbLock,     \* who holds GET_LOCK('wow_auction_import'), or None
  reset,      \* the reset in progress
  torn,       \* a reset ended after it had dropped only some tables
  counts      \* how often jobs, commands, resets and accidents happened

legacyVars == <<db, importLock, jobs, importer, dbLock, reset, torn, counts>>

Importers == {"task", "command"}

\* Listings, summaries, scopes and contexts refer to scans, and scans to snapshots.
Tables == {"facts", "scans", "snapshots"}
Children(t) == IF t = "scans" THEN {"facts"} ELSE IF t = "snapshots" THEN {"scans"} ELSE {}

Off == [at |-> "idle"]
Ended == {"complete", "error"}

\* Where an importer works under the database's lock.
Locked == {"tables", "check", "begin", "scans", "commit", "done"}

LegacyTypeOK ==
  /\ db.tables \subseteq Tables /\ db.snapshots \subseteq LuaFiles /\ db.next \in Nat
  /\ \A i \in DOMAIN db.scans : db.scans[i] \in Captures /\ i < db.next
  /\ db.facts \subseteq Nat
  /\ importLock \in BOOLEAN /\ torn \in BOOLEAN /\ dbLock \in Importers \cup {None}
  /\ \A i \in DOMAIN jobs : jobs[i].status \in {"queued", "running"} \cup Ended
  /\ \A p \in Importers : importer[p].at \in
       {"idle", "posting", "queued", "lock", "release"} \cup Locked \cup Ended
  /\ \A p \in Importers : importer[p].at \in Locked => dbLock = p
  /\ reset.at \in {"idle", "facts", "scans", "snapshots", "create"}

LegacyInit ==
  /\ db = [tables |-> Tables, snapshots |-> {}, scans |-> <<>>, facts |-> {}, next |-> 1]
  /\ importLock = FALSE /\ jobs = <<>> /\ dbLock = None
  /\ importer = [p \in Importers |-> Off]
  /\ reset = Off /\ torn = FALSE
  /\ counts = [job |-> 0, command |-> 0, reset |-> 0, accident |-> 0]

Counted(what, most) == counts[what] < most /\ counts' = [counts EXCEPT ![what] = @ + 1]
Accident == Counted("accident", MaxAccidents)
Step(p, place) == importer' = [importer EXCEPT ![p].at = place]

--------------------------------------------------------------------------------
\* POST /import and its background task

\* A request takes the lock before it has a job; while another has it the answer is 409.
Post(f) ==
  /\ ~importLock /\ counts.job < MaxJobs
  /\ importLock' = TRUE
  /\ importer' = [importer EXCEPT !["task"] = [at |-> "posting", file |-> f]]
  /\ UNCHANGED <<db, jobs, dbLock, reset, torn, counts>>

\* Only ended jobs beyond the KeptJobs newest are forgotten.
\* What a job's "reset" says is not in the code: how many resets there were before it.
Remembered ==
  LET ended == {i \in DOMAIN jobs : jobs[i].status \in Ended}
      old == {i \in ended : Cardinality({j \in ended : j > i}) >= KeptJobs}
  IN  Restrict(jobs, DOMAIN jobs \ old)

Queue ==
  /\ importer["task"].at = "posting" /\ Counted("job", MaxJobs)
  /\ jobs' = With(Remembered, counts'.job,
               [status |-> "queued", file |-> importer["task"].file,
                reset |-> IF reset.at = "idle" THEN counts.reset ELSE None])
  /\ Step("task", "queued")
  /\ UNCHANGED <<db, importLock, dbLock, reset, torn>>

\* _update_job for the task's own job, which was posted last.
SetStatus(status) == jobs' = [jobs EXCEPT ![counts.job].status = status]

\* From here the archive is downloaded and its checksum compared.
Start ==
  /\ importer["task"].at = "queued"
  /\ SetStatus("running") /\ Step("task", "lock")
  /\ UNCHANGED <<db, importLock, dbLock, reset, torn, counts>>

RunCommand(f) ==
  /\ importer["command"].at = "idle" /\ Counted("command", MaxCommands)
  /\ importer' = [importer EXCEPT !["command"] = [at |-> "lock", file |-> f]]
  /\ UNCHANGED <<db, importLock, jobs, dbLock, reset, torn>>

\* The transaction is over and the database's lock released; the task has a result to tell.
End(p, status) ==
  /\ importer' = [importer EXCEPT ![p] =
                   IF p = "task" THEN [at |-> status, file |-> @.file] ELSE Off]
  /\ dbLock' = IF dbLock = p THEN None ELSE dbLock

\* The download fails, its checksum differs, the command is killed, the database is
\* lost, or only its answer to the COMMIT ("done").
Raises(p) ==
  /\ importer[p].at \in {"lock"} \cup Locked /\ Accident
  /\ End(p, "error")
  /\ UNCHANGED <<db, importLock, jobs, reset, torn>>

\* The job gets its result; the API's lock is still held.
Conclude ==
  /\ importer["task"].at \in Ended
  /\ SetStatus(importer["task"].at) /\ Step("task", "release")
  /\ UNCHANGED <<db, importLock, dbLock, reset, torn, counts>>

Slip_ReleaseLock ==  \* only a task that succeeded releases the lock
  /\ importer["task"].at = "release"
  /\ importer' = [importer EXCEPT !["task"] = Off]
  /\ importLock' = (jobs[counts.job].status # "complete")
  /\ UNCHANGED <<db, jobs, dbLock, reset, torn, counts>>

ReleaseLock ==
  /\ importer["task"].at = "release"
  /\ importer' = [importer EXCEPT !["task"] = Off]
  /\ importLock' = FALSE
  /\ UNCHANGED <<db, jobs, dbLock, reset, torn, counts>>

--------------------------------------------------------------------------------
\* import_snapshot

Slip_LockDatabase(p) ==  \* whether the lock was got is not looked at
  /\ importer[p].at = "lock"
  /\ dbLock' = p /\ Step(p, "tables")
  /\ UNCHANGED <<db, importLock, jobs, reset, torn, counts>>

LockDatabase(p) ==
  /\ importer[p].at = "lock"
  /\ IF dbLock = None
     THEN dbLock' = p /\ Step(p, "tables")
     ELSE End(p, "error")
  /\ UNCHANGED <<db, importLock, jobs, reset, torn, counts>>

\* create_all
CreateTables(p) ==
  /\ importer[p].at = "tables"
  /\ db' = [db EXCEPT !.tables = Tables]
  /\ Step(p, "check")
  /\ UNCHANGED <<importLock, jobs, dbLock, reset, torn, counts>>

Sound(f) == CapturesIn[f] # <<>> /\ \A i \in DOMAIN CapturesIn[f] : Valid(CapturesIn[f][i])

Slip_CheckFile(p) ==  \* a file is taken for a duplicate by its first scan
  LET f == importer[p].file IN
  /\ importer[p].at = "check"
  /\ IF "snapshots" \in db.tables /\ \E i \in DOMAIN db.scans : db.scans[i] = CapturesIn[f][1]
       THEN Step(p, "done") /\ UNCHANGED dbLock
     ELSE IF "snapshots" \in db.tables /\ Sound(f)
       THEN Step(p, "begin") /\ UNCHANGED dbLock
     ELSE End(p, "error")
  /\ UNCHANGED <<db, importLock, jobs, reset, torn, counts>>

\* A file that was imported before is a success; else the whole file is validated.
CheckFile(p) ==
  LET f == importer[p].file IN
  /\ importer[p].at = "check"
  /\ IF "snapshots" \in db.tables /\ f \in db.snapshots
       THEN Step(p, "done") /\ UNCHANGED dbLock
     ELSE IF "snapshots" \in db.tables /\ Sound(f)
       THEN Step(p, "begin") /\ UNCHANGED dbLock
     ELSE End(p, "error")
  /\ UNCHANGED <<db, importLock, jobs, reset, torn, counts>>

\* The transaction begins with the row of the snapshot.
BeginImport(p) ==
  /\ importer[p].at = "begin"
  /\ IF "snapshots" \in db.tables
     THEN /\ importer' = [importer EXCEPT ![p] =
               [at |-> "scans", file |-> @.file, number |-> 1, fresh |-> <<>>,
                uses |-> {"snapshots"}]]
          /\ UNCHANGED dbLock
     ELSE End(p, "error")
  /\ UNCHANGED <<db, importLock, jobs, reset, torn, counts>>

Known(p, c) == \E t \in {db.scans, importer[p].fresh} : \E i \in DOMAIN t : t[i] = c

Slip_ImportScan(p) ==  \* a scan is committed as soon as it is complete
  LET c == CapturesIn[importer[p].file][importer[p].number] IN
  /\ importer[p].at = "scans"
  /\ IF {"scans", "facts"} \subseteq db.tables
     THEN /\ importer' = [importer EXCEPT ![p].uses = Tables, ![p].number = @ + 1, ![p].at =
                 IF importer[p].number = Len(CapturesIn[importer[p].file]) THEN "commit" ELSE @]
          /\ db' = IF Known(p, c) THEN db
                   ELSE [db EXCEPT !.scans = With(@, db.next, c), !.next = @ + 1]
          /\ UNCHANGED dbLock
     ELSE End(p, "error") /\ UNCHANGED db
  /\ UNCHANGED <<importLock, jobs, reset, torn, counts>>

\* A scan that is known is skipped; its own id is gone even when the import fails.
ImportScan(p) ==
  LET c == CapturesIn[importer[p].file][importer[p].number] IN
  /\ importer[p].at = "scans"
  /\ IF {"scans", "facts"} \subseteq db.tables
     THEN /\ importer' = [importer EXCEPT ![p] =
               [at |-> IF @.number = Len(CapturesIn[@.file]) THEN "commit" ELSE "scans",
                file |-> @.file, number |-> @.number + 1, uses |-> Tables,
                fresh |-> IF Known(p, c) THEN @.fresh ELSE With(@.fresh, db.next, c)]]
          /\ db' = IF Known(p, c) THEN db ELSE [db EXCEPT !.next = @ + 1]
          /\ UNCHANGED dbLock
     ELSE End(p, "error") /\ UNCHANGED db
  /\ UNCHANGED <<importLock, jobs, reset, torn, counts>>

\* Two tables as one; the first one's row where both have one.
Joined(f, g) == [i \in DOMAIN f \cup DOMAIN g |-> IF i \in DOMAIN f THEN f[i] ELSE g[i]]

Commit(p) ==
  /\ importer[p].at = "commit"
  /\ db' = [db EXCEPT !.snapshots = @ \cup {importer[p].file},
                      !.scans = Joined(importer[p].fresh, @),
                      !.facts = @ \cup DOMAIN importer[p].fresh]
  /\ Step(p, "done")
  /\ UNCHANGED <<importLock, jobs, dbLock, reset, torn, counts>>

Finished(p) ==
  /\ importer[p].at = "done"
  /\ End(p, "complete")
  /\ UNCHANGED <<db, importLock, jobs, reset, torn, counts>>

--------------------------------------------------------------------------------
\* The administrator's reset (drop_all, create_all) and restarts of the API

\* It counts the rows first, which fails when a table is missing.
ResetStart ==
  /\ reset.at = "idle" /\ db.tables = Tables /\ Counted("reset", MaxResets)
  /\ reset' = [at |-> "facts"]
  /\ UNCHANGED <<db, importLock, jobs, importer, dbLock, torn>>

Emptied(t) ==
  IF t = "facts" THEN [db EXCEPT !.tables = @ \ {t}, !.facts = {}]
  ELSE IF t = "scans" THEN [db EXCEPT !.tables = @ \ {t}, !.scans = <<>>, !.next = 1]
  ELSE [db EXCEPT !.tables = @ \ {t}, !.snapshots = {}]

InUse(t) == \E p \in Importers : importer[p].at \in {"scans", "commit"} /\ t \in importer[p].uses

\* A table that an open transaction uses is waited for; one that others refer to,
\* because an import created those again, is not dropped: the reset fails.
Drop(t) ==
  /\ reset.at = t /\ ~InUse(t)
  /\ IF Children(t) \cap db.tables = {}
     THEN /\ db' = Emptied(t)
          /\ reset' = [at |-> IF t = "facts" THEN "scans" ELSE IF t = "scans" THEN "snapshots"
                              ELSE "create"]
          /\ UNCHANGED torn
     ELSE reset' = Off /\ torn' = TRUE /\ UNCHANGED db
  /\ UNCHANGED <<importLock, jobs, importer, dbLock, counts>>

ResetCreate ==
  /\ reset.at = "create"
  /\ db' = [db EXCEPT !.tables = Tables]
  /\ reset' = Off /\ torn' = FALSE
  /\ UNCHANGED <<importLock, jobs, importer, dbLock, counts>>

CutShort == reset' = Off /\ torn' = (torn \/ reset.at \notin {"idle", "facts"})

\* The connection is lost, or waiting for an import takes longer than its timeout.
ResetFails ==
  /\ reset.at # "idle" /\ Accident /\ CutShort
  /\ UNCHANGED <<db, importLock, jobs, importer, dbLock>>

\* The process of the API starts again: jobs and its lock are in memory only.
Restart ==
  /\ Accident /\ CutShort
  /\ jobs' = <<>> /\ importLock' = FALSE
  /\ importer' = [importer EXCEPT !["task"] = Off]
  /\ dbLock' = IF dbLock = "task" THEN None ELSE dbLock
  /\ db' = [db EXCEPT !.tables = Tables]

LegacyNext ==
  \/ \E f \in LuaFiles : Post(f) \/ RunCommand(f)
  \/ Queue \/ Start \/ Conclude \/ ReleaseLock
  \/ \E p \in Importers : \/ LockDatabase(p) \/ CreateTables(p) \/ CheckFile(p) \/ BeginImport(p)
                          \/ ImportScan(p) \/ Commit(p) \/ Finished(p) \/ Raises(p)
  \/ ResetStart \/ \E t \in Tables : Drop(t)
  \/ ResetCreate \/ ResetFails \/ Restart

--------------------------------------------------------------------------------
\* Queries.  Every row of the scans table was committed as complete.

Offered == DOMAIN db.scans
When(i) == TimeOf[db.scans[i]]
Realm(i) == RealmOf[db.scans[i]]
Later(i, j) == When(i) > When(j) \/ (When(i) = When(j) /\ i > j)

Facts(i) == IF i \in db.facts THEN {ListingMapping(r) : r \in Rows[db.scans[i]]} ELSE {}
StoredKinds(i) == IF i \in db.facts THEN Kinds(db.scans[i]) ELSE {}

\* latest_complete_scans_by_realm
LatestByRealm == {i \in Offered : \A j \in Offered : Realm(i) = Realm(j) => i = j \/ Later(i, j)}

\* market_catalog: the scans of a realm, the latest first.
MarketCatalog(realm) ==
  Sorted({i \in Offered : Realm(i) = realm}, {p \in Offered \X Offered : Later(p[1], p[2])})

\* _history_scan_ids
HistoryScans(i) == {j \in Offered : Realm(j) = Realm(i) /\ When(j) <= When(i)}

\* How a row of a scan's list is called: creature, context and pet are None where they do
\* not apply.  Its scope is what this scan says of the item.
Row(i, item, creature, context, pet, total) ==
  [item |-> item, creature |-> creature, context |-> context, pet |-> pet,
   scope |-> ScopeOf[db.scans[i]][item], total |-> total]

\* market_items of one scan: an item by its summary, a pet by its variants.
PetsOf(i) == {r \in Facts(i) : r.creature # 0}
MarketItems(i) ==
  {Row(i, k[1], None, None, None, Summary(db.scans[i], k[1], k[2])) :
     k \in {k \in StoredKinds(i) : k[2] = 0}}
  \cup {LET Alike(s) == /\ s.item = r.item /\ s.creature = r.creature
                        /\ PetVariantKey(s) = PetVariantKey(r)
        IN Row(i, r.item, r.creature, None, PetVariantKey(r),
               [Total({s \in PetsOf(i) : Alike(s)}) EXCEPT !.variants = 1]) : r \in PetsOf(i)}

\* _raid_boe_items_by_tier
RaidRows(i) ==
  LET raid == {r \in Facts(i) : r.item \in RaidItems} IN
  {Row(i, r.item, None, ContextOf[r.link], None,
       Total({s \in raid : s.item = r.item /\ ContextOf[s.link] = ContextOf[r.link]})) : r \in raid}

\* market_status: its marketItemCount.
MarketItemCount(i) ==
  LET pairs == {<<r.item, r.creature>> : r \in PetsOf(i)}
      variants == {<<r.item, r.creature, PetVariantKey(r)>> : r \in PetsOf(i)}
  IN  Cardinality(Kinds(db.scans[i])) - Cardinality(pairs) + Cardinality(variants)

\* _unified_market_items: of the rows of a region's market the newest one, of the others
\* one of every realm.
UnifiedMarketItems(raid) ==
  LET rows == {[scan |-> i, row |-> r] :
                 i \in LatestByRealm, r \in UNION {IF raid THEN RaidRows(j) ELSE MarketItems(j) :
                                                     j \in LatestByRealm}}
      real == {x \in rows : x.row \in IF raid THEN RaidRows(x.scan) ELSE MarketItems(x.scan)}
      Same(x, y) == /\ y.row.scope = "region"
                    /\ \A key \in {"item", "creature", "context", "pet"} : x.row[key] = y.row[key]
  IN  {x \in real : x.row.scope = "region" =>
                      \A y \in real : Same(x, y) => x = y \/ Later(x.scan, y.scan)}

Asked(rows, row) ==
  {r \in rows : /\ r.item = row.item
                /\ row.creature = None \/ r.creature = row.creature
                /\ row.context = None \/ ContextOf[r.link] = row.context
                /\ row.pet = None \/ PetVariantKey(r) = row.pet}

Cheaper(r, s) ==
  \/ Dearer(s.price, r.price)
  \/ r.price = s.price /\ (r.buyout < s.buyout \/ (r.buyout = s.buyout /\ r.index < s.index))

\* item_listings, the cheapest first; the caller names a row of a list.
ItemListings(i, row) ==
  Sorted(Asked(Facts(i), row), {p \in Facts(i) \X Facts(i) : Cheaper(p[1], p[2])})

\* item_history with its two special forms: a point of every scan that has the item.
PointsAt(i, row) ==
  LET rows == Asked(Facts(i), row) IN
  IF row.pet = None /\ row.context = None
  THEN {Summary(db.scans[i], row.item, 0) : k \in StoredKinds(i) \cap {<<row.item, 0>>}}
  ELSE {IF row.pet = None THEN Total(rows) ELSE [Total(rows) EXCEPT !.variants = 1] :
          s \in {rows} \ {{}}}

ItemHistory(i, row) ==
  LET points == UNION {{[scan |-> j, total |-> t] : t \in PointsAt(j, row)} : j \in HistoryScans(i)}
  IN  Sorted(points, {p \in points \X points : Later(p[2].scan, p[1].scan)})
================================================================================
