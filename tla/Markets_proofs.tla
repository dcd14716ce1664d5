------------------------------ MODULE Markets_proofs ------------------------------
(***************************************************************************)
(* Proofs about both market backends, for any scans, files and bounds.      *)
(***************************************************************************)
EXTENDS Markets, FiniteSetTheorems, TLAPS

--------------------------------------------------------------------------------
\* The legacy backend: what an import may count on while resets drop its tables.

\* What an importer keeps of its file and its transaction.
Shape(p) ==
  LET t == importer[p] IN
  \/ t = Off
  \/ /\ t = [at |-> t.at, file |-> t.file] /\ t.file \in LuaFiles
     /\ t.at \in {"posting", "queued", "lock", "tables", "check", "begin", "done", "release"} \cup Ended
  \/ /\ t = [at |-> t.at, file |-> t.file, number |-> t.number, fresh |-> t.fresh, uses |-> t.uses]
     /\ t.file \in LuaFiles /\ t.at \in {"scans", "commit", "done"}

Shaped ==
  /\ DOMAIN importer = Importers
  /\ \A p \in Importers : Shape(p) /\ (importer[p].at = "begin" => Sound(importer[p].file))
  /\ db = [tables |-> db.tables, snapshots |-> db.snapshots, scans |-> db.scans,
           facts |-> db.facts, next |-> db.next]
  /\ counts = [job |-> counts.job, command |-> counts.command, reset |-> counts.reset,
               accident |-> counts.accident]
  /\ counts.job \in Nat /\ counts.reset \in Nat

\* No row of a scan that is gone, and no scan twice.
Tabled ==
  /\ DOMAIN db.scans \subseteq Nat
  /\ "facts" \notin db.tables => db.facts = {}
  /\ db.facts \subseteq DOMAIN db.scans
  /\ \A j, k \in DOMAIN db.scans : db.scans[j] = db.scans[k] => j = k

\* Between two drops there may be scans without rows, and files without scans.
Whole ==
  (~torn /\ reset.at \in {"idle", "facts"}) \/ reset.at \in {"snapshots", "create"}
    => DOMAIN db.scans = db.facts

StoredFile(f) ==
  \A n \in DOMAIN CapturesIn[f] : \E i \in DOMAIN db.scans : db.scans[i] = CapturesIn[f][n]

Kept ==
  (~torn /\ reset.at \in {"idle", "facts"}) \/ reset.at = "create"
    => \A f \in db.snapshots : StoredFile(f)

\* An open transaction's tables cannot be dropped, and what it read of them still holds.
Transaction(p) ==
  LET t == importer[p] IN
  /\ t.uses \subseteq db.tables /\ "snapshots" \in t.uses
  /\ t.number \in Nat \ {0} /\ t.number <= Len(CapturesIn[t.file]) + 1
  /\ IF t.number = 1 THEN t.fresh = <<>> ELSE t.uses = Tables
  /\ t.at = "scans" <=> t.number <= Len(CapturesIn[t.file])
  /\ DOMAIN t.fresh \subseteq Nat
  /\ \A i \in DOMAIN t.fresh :
       /\ t.fresh[i] \in Captures /\ i < db.next /\ i \notin DOMAIN db.scans
       /\ \A j \in DOMAIN t.fresh : t.fresh[i] = t.fresh[j] => i = j
       /\ \A j \in DOMAIN db.scans : t.fresh[i] # db.scans[j]
  /\ \A n \in 1..(t.number - 1) : Known(p, CapturesIn[t.file][n])

Transactions ==
  \A p \in Importers : importer[p].at \in {"scans", "commit"} => Transaction(p)

\* The task has a job and has not told its result.
Posted == importer["task"].at \notin {"idle", "posting", "release"}

\* The task's job is the one posted last, and the only one that is open.
Tasks ==
  /\ DOMAIN jobs \subseteq 1..counts.job
  /\ importLock <=> importer["task"].at # "idle"
  /\ Posted => /\ counts.job \in DOMAIN jobs /\ jobs[counts.job].status \notin Ended
               /\ jobs[counts.job].file = importer["task"].file
  /\ \A i \in DOMAIN jobs :
       /\ jobs[i] = [status |-> jobs[i].status, file |-> jobs[i].file, reset |-> jobs[i].reset]
       /\ i # counts.job \/ ~Posted => jobs[i].status \in Ended
       /\ jobs[i].file \in LuaFiles /\ jobs[i].reset \in 0..counts.reset \cup {None}
       /\ jobs[i].reset = counts.reset => reset.at = "idle"

\* Unless there was a reset since, a file imported for a job is among the snapshots.
Done ==
  ~torn =>
    /\ importer["task"].at \in {"done", "complete"} /\ jobs[counts.job].reset = counts.reset
         => importer["task"].file \in db.snapshots
    /\ \A i \in DOMAIN jobs :
         jobs[i].status = "complete" /\ jobs[i].reset = counts.reset
           => jobs[i].file \in db.snapshots

LegacyInv == LegacyTypeOK /\ Shaped /\ Tabled /\ Whole /\ Kept /\ Transactions /\ Tasks /\ Done

--------------------------------------------------------------------------------
\* The current backend.

\* Each view's market, when its scan was made.
Market(scans) == [v \in Views(scans) |-> MarketAt(scans, v, TimeOf[scans[v \div 2]])]
Timeline(scans, m) == {v \in Views(scans) : Market(scans)[v] = m}

\* Of these views one is the newest.
IsNewest(scans, S, v) == v \in S /\ \A w \in S : v = w \/ Newer(scans, v, w)
HasNewest(scans, S) == S = {} \/ \E v \in S : IsNewest(scans, S, v)

\* Scans of a generation are numbered, and each market has its newest.
Numbered(scans) == DOMAIN scans \subseteq Nat /\ \A i \in DOMAIN scans : scans[i] \in Captures
Dated(scans) == \A v \in Views(scans) : HasNewest(scans, Timeline(scans, Market(scans)[v]))

\* Only complete scans are published.
Checked(scans) == \A i \in DOMAIN scans : Valid(scans[i])

\* The container holds what the newest generation says.
Quoting(scans) == [v \in Views(scans) |-> Quotes(scans[v \div 2], Regional(v))]
Loaded ==
  /\ store.scans = stock /\ store.market = Market(stock)
  /\ store.latest = Latest(stock, Market(stock), store.now)
  /\ store.quotes = Quoting(stock)

UnifiedInv == UnifiedTypeOK /\ Numbered(stock) /\ Checked(stock) /\ Dated(stock) /\ Loaded

MarketsInv == backend \in {"mysql", "duckdb"} /\ LegacyInv /\ UnifiedInv
--------------------------------------------------------------------------------
\* What single assignments do.

Placed(p) ==
  /\ importer[p].at \in {"idle", "posting", "queued", "lock", "release"} \cup Locked \cup Ended
  /\ importer[p].at \in Locked => dbLock = p

\* One importer's record is replaced.
LEMMA Moved ==
  ASSUME DOMAIN importer = Importers, NEW p \in Importers, NEW r,
         importer' = [importer EXCEPT ![p] = r]
  PROVE  /\ DOMAIN importer' = Importers /\ importer'[p] = r
         /\ \A q \in Importers : q # p => importer'[q] = importer[q]
OBVIOUS

\* An importer that has only its file goes to another place.
LEMMA Stepped ==
  ASSUME Shaped, NEW p \in Importers, NEW place, Step(p, place),
         importer[p] = [at |-> importer[p].at, file |-> importer[p].file]
  PROVE  /\ DOMAIN importer' = Importers
         /\ importer'[p] = [at |-> place, file |-> importer[p].file]
         /\ \A q \in Importers : q # p => importer'[q] = importer[q]
BY DEF Shaped, Step

\* Importers at these places hold the lock of the database: there is one at most.
LEMMA Alone ==
  ASSUME LegacyTypeOK, NEW p \in Importers, NEW q \in Importers,
         importer[p].at \in Locked, importer[q].at \in Locked
  PROVE  p = q
BY DEF LegacyTypeOK, Locked

\* An importer that is at one of these places holds only its file.
LEMMA Plain ==
  ASSUME Shaped, NEW p \in Importers,
         importer[p].at \in {"posting", "queued", "lock", "tables", "check", "begin", "release"} \cup Ended
  PROVE  importer[p] = [at |-> importer[p].at, file |-> importer[p].file]
         /\ importer[p].file \in LuaFiles
BY DEF Shaped, Shape, Off, Ended

\* Whoever does something has a file.
LEMMA Busy ==
  ASSUME Shaped, NEW p \in Importers, importer[p].at # "idle"
  PROVE  importer[p].file \in LuaFiles
BY DEF Shaped, Shape, Off

\* An open transaction has these parts.
LEMMA Open ==
  ASSUME Shaped, NEW p \in Importers, importer[p].at \in {"scans", "commit"}
  PROVE  importer[p] = [at |-> importer[p].at, file |-> importer[p].file,
                        number |-> importer[p].number, fresh |-> importer[p].fresh,
                        uses |-> importer[p].uses]
BY DEF Shaped, Shape, Off, Ended

\* The task's own job gets another status.
LEMMA StatusSet ==
  ASSUME Tasks, Posted, NEW status, SetStatus(status)
  PROVE  /\ DOMAIN jobs' = DOMAIN jobs
         /\ jobs'[counts.job] = [status |-> status, file |-> jobs[counts.job].file,
                                 reset |-> jobs[counts.job].reset]
         /\ \A i \in DOMAIN jobs : i # counts.job => jobs'[i] = jobs[i]
BY DEF Tasks, Posted, SetStatus

\* A transaction goes on as it was if nothing was dropped or stored.
LEMMA TransactionStays ==
  ASSUME NEW p \in Importers, Transaction(p), importer'[p] = importer[p],
         db'.scans = db.scans, db'.next = db.next, importer[p].uses \subseteq db'.tables
  PROVE  Transaction(p)'
<1>1. ASSUME NEW c, Known(p, c) PROVE Known(p, c)'
  BY <1>1 DEF Known
<1>2. PICK t : t = importer[p] /\ t = importer'[p]
  OBVIOUS
<1>3. \A n \in 1..(t.number - 1) : Known(p, CapturesIn[t.file][n])'
  BY <1>1, <1>2 DEF Transaction
<1> QED
  BY <1>2, <1>3 DEF Transaction

--------------------------------------------------------------------------------
\* Steps of importers.

(***************************************************************************)
(* An import that ends, however it does, leaves the tables and the          *)
(* database's lock as they must be, and its task is about to say complete   *)
(* only if it was (auction_importer.py:557-567, admin_api.py:188-204).      *)
(***************************************************************************)
LEMMA EndKeeps ==
  ASSUME LegacyInv, NEW p \in Importers, NEW status \in Ended,
         importer[p].at \in {"lock"} \cup Locked,
         End(p, status), status = "complete" => importer[p].at = "done",
         UNCHANGED <<db, importLock, jobs, reset, torn>>,
         counts'.job = counts.job, counts'.reset = counts.reset,
         counts' = [job |-> counts'.job, command |-> counts'.command, reset |-> counts'.reset,
                    accident |-> counts'.accident]
  PROVE  LegacyInv'
<1> DEFINE last == IF p = "task" THEN [at |-> status, file |-> importer[p].file] ELSE Off
<1>1. /\ DOMAIN importer' = Importers /\ importer'[p] = last
      /\ \A q \in Importers : q # p => importer'[q] = importer[q]
      /\ importer[p].file \in LuaFiles
  <2>1. importer' = [importer EXCEPT ![p] = last]
    BY DEF End
  <2>2. importer[p].at # "idle"
    BY DEF Locked
  <2> QED
    BY <2>1, <2>2, Moved, Busy DEF LegacyInv, Shaped
<1>2. /\ db' = db /\ reset' = reset /\ torn' = torn /\ jobs' = jobs /\ importLock' = importLock
      /\ dbLock' = IF dbLock = p THEN None ELSE dbLock
  BY DEF End
<1>3. last.at \in {"idle"} \cup Ended
  BY DEF Off
<1>4. LegacyTypeOK'
  <2>1. \A q \in Importers : Placed(q)'
    BY <1>1, <1>2, <1>3 DEF LegacyInv, LegacyTypeOK, Placed, Locked, Ended
  <2> QED
    BY <1>2, <2>1 DEF LegacyInv, LegacyTypeOK, Placed
<1>5. Shaped'
  <2>1. \A q \in Importers : Shape(q)' /\ (importer'[q].at = "begin" => Sound(importer'[q].file))
    BY <1>1, <1>3 DEF LegacyInv, Shaped, Shape, Off, Ended
  <2> QED
    BY <1>1, <1>2, <2>1 DEF LegacyInv, Shaped, Sound, Valid, Legal
<1>6. Tabled' /\ Whole' /\ Kept'
  BY <1>2 DEF LegacyInv, Tabled, Whole, Kept, StoredFile
<1>7. Transactions'
  <2>1. last.at \notin {"scans", "commit"}
    BY <1>3 DEF Ended
  <2> QED
    BY <1>1, <1>2, <2>1, TransactionStays DEF LegacyInv, Transactions, Transaction
<1>8. Tasks' /\ Done'
  <2>1. CASE p = "task"
    <3>1. Posted /\ importer'["task"] = [at |-> status, file |-> importer["task"].file]
      BY <1>1, <2>1 DEF Posted, Locked
    <3>2. Posted' /\ importer'["task"].at # "idle" /\ importer["task"].at # "idle"
      BY <3>1 DEF Posted, Ended
    <3> QED
      BY <1>2, <2>1, <3>1, <3>2 DEF LegacyInv, Tasks, Posted, Done, Ended
  <2>2. CASE p # "task"
    BY <1>1, <1>2, <2>2 DEF LegacyInv, Tasks, Done, Posted, Importers
  <2> QED
    BY <2>1, <2>2
<1> QED
  BY <1>4, <1>5, <1>6, <1>7, <1>8 DEF LegacyInv

(***************************************************************************)
(* An importer that has the database's lock goes on to the next place, or   *)
(* takes the lock or creates missing tables on its way there                *)
(* (auction_importer.py:383-445).                                           *)
(***************************************************************************)
LEMMA GoesOn ==
  ASSUME LegacyInv, NEW p \in Importers, NEW place \in {"tables", "check", "begin", "done"},
         importer[p].at \in {"lock", "tables", "check"},
         Step(p, place), dbLock \in {None, p}, dbLock' = p,
         place = "begin" => Sound(importer[p].file),
         place = "done" => importer[p].file \in db.snapshots,
         db' = db \/ db' = [db EXCEPT !.tables = Tables],
         UNCHANGED <<importLock, jobs, reset, torn, counts>>
  PROVE  LegacyInv'
<1>1. /\ importer[p] = [at |-> importer[p].at, file |-> importer[p].file]
      /\ importer[p].file \in LuaFiles
  BY Plain DEF LegacyInv
<1>2. /\ DOMAIN importer' = Importers
      /\ importer'[p] = [at |-> place, file |-> importer[p].file]
      /\ \A q \in Importers : q # p => importer'[q] = importer[q]
  BY <1>1, Stepped DEF LegacyInv
<1>3. /\ db'.scans = db.scans /\ db'.facts = db.facts /\ db'.snapshots = db.snapshots
      /\ db'.next = db.next /\ db.tables \subseteq db'.tables /\ db'.tables \subseteq Tables
      /\ db' = [tables |-> db'.tables, snapshots |-> db'.snapshots, scans |-> db'.scans,
                facts |-> db'.facts, next |-> db'.next]
  BY DEF LegacyInv, Shaped, LegacyTypeOK
<1>4. \A q \in Importers : q # p => importer[q].at \notin Locked
  BY LegacyConstants DEF LegacyInv, LegacyTypeOK, Locked, Importers
<1>5. LegacyTypeOK'
  <2>1. \A q \in Importers : Placed(q)'
    BY <1>2, <1>4 DEF LegacyInv, LegacyTypeOK, Locked, Placed
  <2> QED
    BY <1>3, <2>1 DEF LegacyInv, LegacyTypeOK, Placed, Locked
<1>6. Shaped'
  <2>1. \A q \in Importers : Shape(q)' /\ (importer'[q].at = "begin" => Sound(importer'[q].file))
    BY <1>1, <1>2 DEF LegacyInv, Shaped, Shape
  <2> QED
    BY <1>2, <1>3, <2>1 DEF LegacyInv, Shaped, Sound, Valid, Legal
<1>7. Tabled' /\ Whole' /\ Kept'
  BY <1>3 DEF LegacyInv, Tabled, Whole, Kept, StoredFile
<1>8. Transactions'
  BY <1>2, <1>4 DEF Transactions, Locked
<1>9. /\ importer'["task"].file = importer["task"].file
      /\ importer'["task"].at = "idle" <=> importer["task"].at = "idle"
      /\ Posted' <=> Posted
      /\ importer'["task"].at \in {"done", "complete"}
           => importer["task"].at \in {"done", "complete"} \/ (place = "done" /\ p = "task")
  BY <1>2 DEF Importers, Posted
<1>10. Tasks'
  BY <1>9 DEF LegacyInv, Tasks, Posted
<1>11. Done'
  BY <1>3, <1>9 DEF LegacyInv, Done
<1> QED
  BY <1>5, <1>6, <1>7, <1>8, <1>10, <1>11 DEF LegacyInv

\* The counts of what happened are four numbers.
LEMMA CountsKept ==
  ASSUME Shaped, NEW what \in {"job", "command", "reset", "accident"}, NEW most,
         Counted(what, most)
  PROVE  /\ counts' = [job |-> counts'.job, command |-> counts'.command,
                       reset |-> counts'.reset, accident |-> counts'.accident]
         /\ counts'.job = IF what = "job" THEN counts.job + 1 ELSE counts.job
         /\ counts'.reset = IF what = "reset" THEN counts.reset + 1 ELSE counts.reset
BY DEF Shaped, Counted

\* The steps that end an import, or lead it to its transaction.
LEMMA LockDatabaseKeeps ==
  ASSUME LegacyInv, NEW p \in Importers, LockDatabase(p)
  PROVE  LegacyInv'
<1>1. CASE dbLock = None
  BY <1>1, GoesOn DEF LockDatabase
<1>2. CASE dbLock # None
  BY <1>2, EndKeeps DEF LockDatabase, LegacyInv, Shaped, Ended
<1> QED
  BY <1>1, <1>2

\* create_all adds tables and takes none away.
LEMMA CreateTablesKeeps ==
  ASSUME LegacyInv, NEW p \in Importers, CreateTables(p)
  PROVE  LegacyInv'
<1>1. dbLock = p
  BY DEF CreateTables, LegacyInv, LegacyTypeOK, Locked
<1> QED
  BY <1>1, GoesOn DEF CreateTables

\* A file that was imported before is done, a sound one goes on (auction_importer.py:412-445).
LEMMA CheckFileKeeps ==
  ASSUME LegacyInv, NEW p \in Importers, CheckFile(p)
  PROVE  LegacyInv'
<1>1. /\ dbLock = p /\ importer[p].at = "check"
      /\ UNCHANGED <<db, importLock, jobs, reset, torn, counts>>
  BY DEF CheckFile, LegacyInv, LegacyTypeOK, Locked
<1>2. CASE Step(p, "done") /\ UNCHANGED dbLock
           /\ importer[p].file \in db.snapshots
  BY <1>1, <1>2, GoesOn
<1>3. CASE Step(p, "begin") /\ UNCHANGED dbLock /\ Sound(importer[p].file)
  BY <1>1, <1>3, GoesOn
<1>4. CASE End(p, "error")
  BY <1>1, <1>4, EndKeeps DEF LegacyInv, Shaped, Ended, Locked
<1> QED
  BY <1>2, <1>3, <1>4 DEF CheckFile

\* A task ends only with what its job then says; a killed one says it failed.
LEMMA EndsKeep ==
  ASSUME LegacyInv, NEW p \in Importers, Finished(p) \/ Raises(p)
  PROVE  LegacyInv'
<1>1. CASE Finished(p)
  BY <1>1, EndKeeps DEF Finished, LegacyInv, Shaped, Ended, Locked
<1>2. CASE Raises(p)
  <2>1. /\ counts' = [job |-> counts'.job, command |-> counts'.command,
                      reset |-> counts'.reset, accident |-> counts'.accident]
        /\ counts'.job = counts.job /\ counts'.reset = counts.reset
    BY <1>2, CountsKept DEF Raises, Accident, LegacyInv
  <2> QED
    BY <1>2, <2>1, EndKeeps DEF Raises, Ended
<1> QED
  BY <1>1, <1>2

(***************************************************************************)
(* A request that gets the lock has no job yet, and no other request can    *)
(* have one (admin_api.py:214).                                             *)
(***************************************************************************)
LEMMA PostKeeps ==
  ASSUME LegacyInv, NEW f \in LuaFiles, Post(f)
  PROVE  LegacyInv'
<1>1. /\ ~importLock /\ importLock' = TRUE /\ importer["task"].at = "idle"
      /\ UNCHANGED <<db, jobs, dbLock, reset, torn, counts>>
  BY DEF Post, LegacyInv, Tasks
<1>2. /\ DOMAIN importer' = Importers
      /\ importer'["task"] = [at |-> "posting", file |-> f]
      /\ \A q \in Importers : q # "task" => importer'[q] = importer[q]
  BY Moved DEF Post, LegacyInv, Shaped, Importers
<1>3. LegacyTypeOK'
  <2>1. \A q \in Importers : Placed(q)'
    BY <1>1, <1>2 DEF LegacyInv, LegacyTypeOK, Placed, Locked
  <2> QED
    BY <1>1, <2>1 DEF LegacyInv, LegacyTypeOK, Placed
<1>4. Shaped'
  <2>1. \A q \in Importers : Shape(q)' /\ (importer'[q].at = "begin" => Sound(importer'[q].file))
    BY <1>2 DEF LegacyInv, Shaped, Shape
  <2> QED
    BY <1>1, <1>2, <2>1 DEF LegacyInv, Shaped, Sound, Valid, Legal
<1>5. Tabled' /\ Whole' /\ Kept'
  BY <1>1 DEF LegacyInv, Tabled, Whole, Kept, StoredFile
<1>6. Transactions'
  BY <1>1, <1>2, TransactionStays DEF LegacyInv, Transactions, Transaction
<1>7. Tasks' /\ Done'
  BY <1>1, <1>2 DEF LegacyInv, Tasks, Posted, Done
<1> QED
  BY <1>3, <1>4, <1>5, <1>6, <1>7 DEF LegacyInv

(***************************************************************************)
(* A posted job is the only open one, whatever is forgotten of the others   *)
(* (admin_api.py:209-236).                                                  *)
(***************************************************************************)
LEMMA QueueKeeps ==
  ASSUME LegacyInv, Queue
  PROVE  LegacyInv'
<1> DEFINE key == counts.job + 1
           f == importer["task"].file
           new == [status |-> "queued", file |-> f,
                   reset |-> IF reset.at = "idle" THEN counts.reset ELSE None]
<1>1. /\ counts' = [job |-> counts'.job, command |-> counts'.command, reset |-> counts'.reset,
                    accident |-> counts'.accident]
      /\ counts'.job = key /\ counts'.reset = counts.reset
      /\ key \in Nat /\ counts.job \in Nat /\ counts.reset \in Nat
  BY CountsKept DEF Queue, LegacyInv, Shaped
<1>2. PICK old : Remembered = Restrict(jobs, DOMAIN jobs \ old)
  BY DEF Remembered
<1>3. /\ DOMAIN jobs' \subseteq DOMAIN jobs \cup {key} /\ key \in DOMAIN jobs' /\ jobs'[key] = new
      /\ \A i \in DOMAIN jobs' : i # key => i \in DOMAIN jobs /\ jobs'[i] = jobs[i]
  <2>1. jobs' = With(Restrict(jobs, DOMAIN jobs \ old), key, new)
    BY <1>1, <1>2 DEF Queue
  <2> QED
    BY <2>1 DEF With, Restrict
<1>4. key \notin DOMAIN jobs /\ DOMAIN jobs \subseteq 1..counts.job
  BY <1>1 DEF LegacyInv, Tasks, Posted
<1>5. /\ importLock /\ ~Posted /\ importer["task"].at = "posting"
      /\ UNCHANGED <<db, importLock, dbLock, reset, torn>>
  BY DEF Queue, LegacyInv, Tasks, Posted
<1>6. /\ DOMAIN importer' = Importers
      /\ importer'["task"] = [at |-> "queued", file |-> f] /\ f \in LuaFiles
      /\ \A q \in Importers : q # "task" => importer'[q] = importer[q]
  BY Plain, Stepped DEF Queue, LegacyInv, Importers
<1>7. LegacyTypeOK'
  <2>1. \A i \in DOMAIN jobs' : jobs'[i].status \in {"queued", "running"} \cup Ended
    BY <1>3 DEF LegacyInv, LegacyTypeOK
  <2>2. \A q \in Importers : Placed(q)'
    BY <1>5, <1>6 DEF LegacyInv, LegacyTypeOK, Placed, Locked
  <2> QED
    BY <1>5, <2>1, <2>2 DEF LegacyInv, LegacyTypeOK, Placed, Locked
<1>8. Shaped'
  <2>1. \A q \in Importers : Shape(q)' /\ (importer'[q].at = "begin" => Sound(importer'[q].file))
    BY <1>6 DEF LegacyInv, Shaped, Shape
  <2> QED
    BY <1>1, <1>5, <1>6, <2>1 DEF LegacyInv, Shaped, Sound, Valid, Legal
<1>9. Tabled' /\ Whole' /\ Kept'
  BY <1>5 DEF LegacyInv, Tabled, Whole, Kept, StoredFile
<1>10. Transactions'
  BY <1>5, <1>6, TransactionStays DEF LegacyInv, Transactions, Transaction
<1>11. Tasks'
  <2>1. \A i \in DOMAIN jobs' :
          /\ jobs'[i] = [status |-> jobs'[i].status, file |-> jobs'[i].file,
                         reset |-> jobs'[i].reset]
          /\ i # key => jobs'[i].status \in Ended
          /\ jobs'[i].file \in LuaFiles /\ jobs'[i].reset \in 0..counts.reset \cup {None}
          /\ jobs'[i].reset = counts.reset => reset.at = "idle"
    <3> TAKE i \in DOMAIN jobs'
    <3>1. CASE i = key
      BY <1>1, <1>3, <1>6, <3>1, ObservationConstants
    <3>2. CASE i # key
      BY <1>3, <1>5, <3>2 DEF LegacyInv, Tasks, Posted
    <3> QED
      BY <3>1, <3>2
  <2>2. DOMAIN jobs' \subseteq 1..key
    BY <1>1, <1>3, <1>4
  <2>3. key \in DOMAIN jobs' /\ jobs'[key].status \notin Ended /\ jobs'[key].file = f
    BY <1>3 DEF Ended
  <2> QED
    BY <1>1, <1>5, <1>6, <2>1, <2>2, <2>3 DEF Tasks, Posted
<1>12. Done'
  BY <1>1, <1>3, <1>5, <1>6 DEF LegacyInv, Done
<1> QED
  BY <1>7, <1>8, <1>9, <1>10, <1>11, <1>12 DEF LegacyInv

\* The background task starts, and so does an import from the command line.
LEMMA StartKeeps ==
  ASSUME LegacyInv, Start
  PROVE  LegacyInv'
<1>1. /\ importer["task"] = [at |-> "queued", file |-> importer["task"].file]
      /\ importer["task"].file \in LuaFiles
  BY Plain DEF Start, LegacyInv, Importers
<1>2. /\ DOMAIN importer' = Importers
      /\ importer'["task"] = [at |-> "lock", file |-> importer["task"].file]
      /\ \A q \in Importers : q # "task" => importer'[q] = importer[q]
  BY <1>1, Stepped DEF Start, LegacyInv, Importers
<1>3. UNCHANGED <<db, importLock, dbLock, reset, torn, counts>> /\ Posted
  BY DEF Start, LegacyInv, Tasks, Posted
<1>4. /\ DOMAIN jobs' = DOMAIN jobs /\ counts.job \in DOMAIN jobs
      /\ jobs'[counts.job] = [status |-> "running", file |-> jobs[counts.job].file,
                               reset |-> jobs[counts.job].reset]
      /\ \A i \in DOMAIN jobs : i # counts.job => jobs'[i] = jobs[i]
  BY <1>3, StatusSet DEF Start, LegacyInv, Tasks, Posted
<1>5. LegacyTypeOK'
  <2>1. \A i \in DOMAIN jobs' : jobs'[i].status \in {"queued", "running"} \cup Ended
    BY <1>4 DEF LegacyInv, LegacyTypeOK
  <2>2. \A q \in Importers : Placed(q)'
    BY <1>2, <1>3 DEF LegacyInv, LegacyTypeOK, Placed, Locked
  <2> QED
    BY <1>3, <2>1, <2>2 DEF LegacyInv, LegacyTypeOK, Placed, Locked
<1>6. Shaped'
  <2>1. \A q \in Importers : Shape(q)' /\ (importer'[q].at = "begin" => Sound(importer'[q].file))
    BY <1>1, <1>2 DEF LegacyInv, Shaped, Shape
  <2> QED
    BY <1>2, <1>3, <2>1 DEF LegacyInv, Shaped, Sound, Valid, Legal
<1>7. Tabled' /\ Whole' /\ Kept'
  BY <1>3 DEF LegacyInv, Tabled, Whole, Kept, StoredFile
<1>8. Transactions'
  BY <1>2, <1>3, TransactionStays DEF LegacyInv, Transactions, Transaction
<1>9. Tasks'
  BY <1>1, <1>2, <1>3, <1>4 DEF LegacyInv, Tasks, Posted, Ended
<1>10. Done'
  BY <1>2, <1>3, <1>4 DEF LegacyInv, Done
<1> QED
  BY <1>5, <1>6, <1>7, <1>8, <1>9, <1>10 DEF LegacyInv

\* A command has no job and takes no lock of the API.
LEMMA RunCommandKeeps ==
  ASSUME LegacyInv, NEW f \in LuaFiles, RunCommand(f)
  PROVE  LegacyInv'
<1>1. /\ counts' = [job |-> counts'.job, command |-> counts'.command, reset |-> counts'.reset,
                    accident |-> counts'.accident]
      /\ counts'.job = counts.job /\ counts'.reset = counts.reset
  BY CountsKept DEF RunCommand, LegacyInv
<1>2. /\ DOMAIN importer' = Importers
      /\ importer'["command"] = [at |-> "lock", file |-> f]
      /\ \A q \in Importers : q # "command" => importer'[q] = importer[q]
  BY Moved DEF RunCommand, LegacyInv, Shaped, Importers
<1>3. UNCHANGED <<db, importLock, jobs, dbLock, reset, torn>>
  BY DEF RunCommand
<1>4. importer'["task"] = importer["task"]
  BY <1>2 DEF Importers
<1>5. LegacyTypeOK'
  <2>1. \A q \in Importers : Placed(q)'
    BY <1>2, <1>3 DEF LegacyInv, LegacyTypeOK, Placed, Locked
  <2> QED
    BY <1>3, <2>1 DEF LegacyInv, LegacyTypeOK, Placed, Locked
<1>6. Shaped'
  <2>1. \A q \in Importers : Shape(q)' /\ (importer'[q].at = "begin" => Sound(importer'[q].file))
    BY <1>2 DEF LegacyInv, Shaped, Shape
  <2> QED
    BY <1>1, <1>2, <1>3, <2>1 DEF LegacyInv, Shaped, Sound, Valid, Legal
<1>7. Tabled' /\ Whole' /\ Kept'
  BY <1>3 DEF LegacyInv, Tabled, Whole, Kept, StoredFile
<1>8. Transactions'
  BY <1>2, <1>3, TransactionStays DEF LegacyInv, Transactions, Transaction
<1>9. Tasks' /\ Done'
  BY <1>1, <1>3, <1>4 DEF LegacyInv, Tasks, Posted, Done
<1> QED
  BY <1>5, <1>6, <1>7, <1>8, <1>9 DEF LegacyInv

(***************************************************************************)
(* The task tells its result, which ends the open job; then it releases the *)
(* lock (admin_api.py:189-206).                                             *)
(***************************************************************************)
LEMMA ConcludeKeeps ==
  ASSUME LegacyInv, Conclude
  PROVE  LegacyInv'
<1> DEFINE status == importer["task"].at
<1>1. /\ importer["task"] = [at |-> importer["task"].at, file |-> importer["task"].file]
      /\ importer["task"].file \in LuaFiles /\ status \in Ended
  BY Plain DEF Conclude, LegacyInv, Importers
<1>2. /\ DOMAIN importer' = Importers
      /\ importer'["task"] = [at |-> "release", file |-> importer["task"].file]
      /\ \A q \in Importers : q # "task" => importer'[q] = importer[q]
  BY <1>1, Stepped DEF Conclude, LegacyInv, Importers
<1>3. UNCHANGED <<db, importLock, dbLock, reset, torn, counts>> /\ Posted /\ ~Posted'
  BY <1>1, <1>2 DEF Conclude, Posted, Ended
<1>4. /\ DOMAIN jobs' = DOMAIN jobs /\ counts.job \in DOMAIN jobs
      /\ jobs'[counts.job] = [status |-> status, file |-> jobs[counts.job].file,
                               reset |-> jobs[counts.job].reset]
      /\ \A i \in DOMAIN jobs : i # counts.job => jobs'[i] = jobs[i]
      /\ jobs[counts.job].file = importer["task"].file
  BY <1>3, StatusSet DEF Conclude, LegacyInv, Tasks
<1>5. LegacyTypeOK'
  <2>1. \A i \in DOMAIN jobs' : jobs'[i].status \in {"queued", "running"} \cup Ended
    BY <1>1, <1>4 DEF LegacyInv, LegacyTypeOK
  <2>2. \A q \in Importers : Placed(q)'
    BY <1>2, <1>3 DEF LegacyInv, LegacyTypeOK, Placed, Locked
  <2> QED
    BY <1>3, <2>1, <2>2 DEF LegacyInv, LegacyTypeOK, Placed
<1>6. Shaped'
  <2>1. \A q \in Importers : Shape(q)' /\ (importer'[q].at = "begin" => Sound(importer'[q].file))
    BY <1>1, <1>2 DEF LegacyInv, Shaped, Shape
  <2> QED
    BY <1>2, <1>3, <2>1 DEF LegacyInv, Shaped, Sound, Valid, Legal
<1>7. Tabled' /\ Whole' /\ Kept'
  BY <1>3 DEF LegacyInv, Tabled, Whole, Kept, StoredFile
<1>8. Transactions'
  BY <1>2, <1>3, TransactionStays DEF LegacyInv, Transactions, Transaction
<1>9. Tasks'
  BY <1>1, <1>2, <1>3, <1>4 DEF LegacyInv, Tasks, Ended
<1>10. Done'
  BY <1>1, <1>2, <1>3, <1>4 DEF LegacyInv, Done
<1> QED
  BY <1>5, <1>6, <1>7, <1>8, <1>9, <1>10 DEF LegacyInv

LEMMA ReleaseLockKeeps ==
  ASSUME LegacyInv, ReleaseLock
  PROVE  LegacyInv'
<1>1. /\ importer["task"].at = "release" /\ importLock' = FALSE
      /\ UNCHANGED <<db, jobs, dbLock, reset, torn, counts>>
  BY DEF ReleaseLock
<1>2. /\ DOMAIN importer' = Importers /\ importer'["task"] = Off
      /\ \A q \in Importers : q # "task" => importer'[q] = importer[q]
  BY Moved DEF ReleaseLock, LegacyInv, Shaped, Importers
<1>3. LegacyTypeOK'
  <2>1. \A q \in Importers : Placed(q)'
    BY <1>1, <1>2 DEF LegacyInv, LegacyTypeOK, Placed, Locked, Off
  <2> QED
    BY <1>1, <2>1 DEF LegacyInv, LegacyTypeOK, Placed
<1>4. Shaped'
  <2>1. \A q \in Importers : Shape(q)' /\ (importer'[q].at = "begin" => Sound(importer'[q].file))
    BY <1>2 DEF LegacyInv, Shaped, Shape, Off
  <2> QED
    BY <1>1, <1>2, <2>1 DEF LegacyInv, Shaped, Sound, Valid, Legal
<1>5. Tabled' /\ Whole' /\ Kept'
  BY <1>1 DEF LegacyInv, Tabled, Whole, Kept, StoredFile
<1>6. Transactions'
  BY <1>1, <1>2, TransactionStays DEF LegacyInv, Transactions, Transaction, Off
<1>7. Tasks' /\ Done'
  BY <1>1, <1>2 DEF LegacyInv, Tasks, Posted, Done, Off
<1> QED
  BY <1>3, <1>4, <1>5, <1>6, <1>7 DEF LegacyInv

(***************************************************************************)
(* The transaction begins with the row of its file, and keeps that table    *)
(* from being dropped (auction_importer.py:452-461).                        *)
(***************************************************************************)
LEMMA BeginImportKeeps ==
  ASSUME LegacyInv, NEW p \in Importers, BeginImport(p)
  PROVE  LegacyInv'
<1>1. CASE "snapshots" \notin db.tables
  BY <1>1, EndKeeps DEF BeginImport, LegacyInv, Shaped, Ended, Locked
<1>2. CASE "snapshots" \in db.tables
  <2> DEFINE file == importer[p].file
  <2>1. /\ file \in LuaFiles /\ Sound(file) /\ importer[p].at = "begin" /\ dbLock = p
        /\ \A q \in Importers : q # p => importer[q].at \notin Locked
    BY Plain, Alone DEF BeginImport, LegacyInv, Shaped, LegacyTypeOK, Locked
  <2>2. /\ DOMAIN importer' = Importers
        /\ importer'[p] = [at |-> "scans", file |-> file, number |-> 1, fresh |-> <<>>,
                           uses |-> {"snapshots"}]
        /\ \A q \in Importers : q # p => importer'[q] = importer[q]
    BY <1>2, Moved DEF BeginImport, LegacyInv, Shaped
  <2>3. UNCHANGED <<db, importLock, jobs, dbLock, reset, torn, counts>>
    BY <1>2 DEF BeginImport
  <2>4. LegacyTypeOK'
    <3>1. \A q \in Importers : Placed(q)'
      BY <2>1, <2>2, <2>3 DEF LegacyInv, LegacyTypeOK, Placed, Locked
    <3> QED
      BY <2>3, <3>1 DEF LegacyInv, LegacyTypeOK, Placed, Locked
  <2>5. Shaped'
    <3>1. \A q \in Importers : Shape(q)' /\ (importer'[q].at = "begin" => Sound(importer'[q].file))
      BY <2>1, <2>2 DEF LegacyInv, Shaped, Shape
    <3> QED
      BY <2>2, <2>3, <3>1 DEF LegacyInv, Shaped, Sound, Valid, Legal
  <2>6. Tabled' /\ Whole' /\ Kept'
    BY <2>3 DEF LegacyInv, Tabled, Whole, Kept, StoredFile
  <2>7. Transactions'
    <3>1. CapturesIn[file] \in Seq(Captures) /\ CapturesIn[file] # <<>>
      BY <2>1, LegacyConstants DEF Sound
    <3>2. PICK n \in Nat : n = Len(CapturesIn[file])
      BY <3>1
    <3>3. n >= 1
      BY <3>1, <3>2
    <3>4. Transaction(p)'
      BY <1>2, <2>2, <2>3, <3>2, <3>3 DEF Transaction
    <3> QED
      BY <2>1, <2>2, <3>4 DEF Transactions, Locked
  <2>8. /\ importer'["task"].at \notin {"idle", "done", "complete"}
           \/ importer'["task"] = importer["task"]
        /\ importer'["task"].file = importer["task"].file
        /\ importer'["task"].at = "idle" <=> importer["task"].at = "idle"
        /\ Posted' <=> Posted
    BY <2>1, <2>2 DEF Importers, Posted
  <2>9. Tasks' /\ Done'
    BY <2>3, <2>8 DEF LegacyInv, Tasks, Posted, Done
  <2> QED
    BY <2>4, <2>5, <2>6, <2>7, <2>9 DEF LegacyInv
<1> QED
  BY <1>1, <1>2

(***************************************************************************)
(* A scan of the file is known already or gets the next id; from then on    *)
(* the transaction keeps all tables from being dropped, so that no id is    *)
(* given twice (auction_importer.py:463-553).                               *)
(***************************************************************************)
LEMMA ImportScanKeeps ==
  ASSUME LegacyInv, NEW p \in Importers, ImportScan(p)
  PROVE  LegacyInv'
<1>1. CASE ~({"scans", "facts"} \subseteq db.tables)
  <2>1. /\ End(p, "error") /\ UNCHANGED <<db, importLock, jobs, reset, torn, counts>>
        /\ importer[p].at \in Locked
    BY <1>1 DEF ImportScan, Locked
  <2> QED
    BY <2>1, EndKeeps DEF LegacyInv, Shaped, Ended
<1>2. CASE {"scans", "facts"} \subseteq db.tables
  <2> DEFINE file == importer[p].file
  <2>1. PICK t : t = importer[p]
    OBVIOUS
  <2>2. PICK all : all = CapturesIn[t.file]
    OBVIOUS
  <2>3. PICK n : n = Len(all)
    OBVIOUS
  <2>4. PICK c : c = all[t.number]
    OBVIOUS
  <2>5. /\ t = [at |-> "scans", file |-> t.file, number |-> t.number, fresh |-> t.fresh,
                uses |-> t.uses]
        /\ t.file \in LuaFiles /\ Transaction(p) /\ dbLock = p
        /\ \A q \in Importers : q # p => importer[q].at \notin Locked
    BY <2>1, Busy, Open, Alone DEF ImportScan, LegacyInv, Transactions, LegacyTypeOK, Locked
  <2>6. all \in Seq(Captures) /\ n \in Nat /\ DOMAIN all = 1..n
    BY <2>2, <2>3, <2>5, LegacyConstants
  <2>7. t.number \in 1..n /\ c \in Captures
    BY <2>1, <2>2, <2>3, <2>4, <2>5, <2>6 DEF Transaction
  <2>8. PICK known : known = Known(p, c)
    OBVIOUS
  <2>9. /\ DOMAIN importer' = Importers
        /\ importer'[p] = [at |-> IF t.number = n THEN "commit" ELSE "scans", file |-> t.file,
                           number |-> t.number + 1, uses |-> Tables,
                           fresh |-> IF Known(p, c) THEN t.fresh ELSE With(t.fresh, db.next, c)]
        /\ \A q \in Importers : q # p => importer'[q] = importer[q]
    <3>1. importer' = [importer EXCEPT ![p] =
               [at |-> IF t.number = n THEN "commit" ELSE "scans", file |-> t.file,
                number |-> t.number + 1, uses |-> Tables,
                fresh |-> IF Known(p, c) THEN t.fresh ELSE With(t.fresh, db.next, c)]]
      BY <1>2, <2>1, <2>2, <2>3, <2>4 DEF ImportScan
    <3> QED
      BY <3>1, Moved DEF LegacyInv, Shaped
  <2>10. /\ UNCHANGED <<importLock, jobs, dbLock, reset, torn, counts>>
         /\ db' = [db EXCEPT !.next = IF Known(p, c) THEN @ ELSE @ + 1]
    BY <1>2, <2>1, <2>2, <2>4 DEF ImportScan, LegacyInv, Shaped
  <2>11. /\ db'.scans = db.scans /\ db'.facts = db.facts /\ db'.snapshots = db.snapshots
         /\ db'.tables = db.tables
         /\ db'.next = IF Known(p, c) THEN db.next ELSE db.next + 1
         /\ db' = [tables |-> db'.tables, snapshots |-> db'.snapshots, scans |-> db'.scans,
                   facts |-> db'.facts, next |-> db'.next]
         /\ db.next \in Nat /\ db'.next \in Nat /\ db.next <= db'.next
    BY <2>10 DEF LegacyInv, Shaped, LegacyTypeOK
  <2>12. LegacyTypeOK'
    <3>1. \A q \in Importers : Placed(q)'
      BY <2>5, <2>9, <2>10 DEF LegacyInv, LegacyTypeOK, Placed, Locked
    <3>2. \A i \in DOMAIN db.scans : db.scans[i] \in Captures /\ i < db'.next
      BY <2>11 DEF LegacyInv, LegacyTypeOK, Tabled
    <3> QED
      BY <2>10, <2>11, <3>1, <3>2 DEF LegacyInv, LegacyTypeOK, Placed, Locked
  <2>13. Shaped'
    <3>1. \A q \in Importers : Shape(q)' /\ (importer'[q].at = "begin" => Sound(importer'[q].file))
      BY <2>5, <2>9 DEF LegacyInv, Shaped, Shape
    <3> QED
      BY <2>9, <2>10, <2>11, <3>1 DEF LegacyInv, Shaped, Sound, Valid, Legal
  <2>14. Tabled' /\ Whole' /\ Kept'
    BY <2>10, <2>11 DEF LegacyInv, Tabled, Whole, Kept, StoredFile
  <2>15. Transactions'
    <3>1. Transaction(p)'
      <4>1. PICK u : u = importer'[p]
        OBVIOUS
      <4> DEFINE Found(d) == \E f \in {db.scans, u.fresh} : \E i \in DOMAIN f : f[i] = d
      <4>2. CASE Known(p, c)
        <5>1. /\ u = [at |-> IF t.number = n THEN "commit" ELSE "scans", file |-> t.file,
                      number |-> t.number + 1, uses |-> Tables, fresh |-> t.fresh]
              /\ db'.next = db.next
          BY <2>9, <2>11, <4>1, <4>2
        <5>2. ASSUME NEW d, Known(p, d) PROVE Found(d)
          BY <2>1, <5>1, <5>2 DEF Known
        <5>3. \A i \in 1..t.number : Found(all[i])
          BY <2>1, <2>2, <2>4, <2>5, <2>7, <4>2, <5>2 DEF Transaction
        <5>4. /\ t.uses = Tables \/ t.number = 1
              /\ DOMAIN t.fresh \subseteq Nat
              /\ \A i \in DOMAIN t.fresh :
                   /\ t.fresh[i] \in Captures /\ i < db.next /\ i \notin DOMAIN db.scans
                   /\ \A j \in DOMAIN t.fresh : t.fresh[i] = t.fresh[j] => i = j
                   /\ \A j \in DOMAIN db.scans : t.fresh[i] # db.scans[j]
              /\ Tables \subseteq db.tables
          BY <1>2, <2>1, <2>5 DEF Transaction, Tables
        <5>5. /\ t.number + 1 \in Nat \ {0, 1}
              /\ t.number + 1 <= n + 1 /\ t.number + 1 - 1 = t.number
              /\ t.number = n <=> ~(t.number + 1 <= n)
          BY <2>6, <2>7
        <5>6. /\ u.number = t.number + 1 /\ u.file = t.file /\ u.uses = Tables
              /\ u.fresh = t.fresh /\ (u.at = "scans" <=> u.number <= n)
              /\ u.number - 1 = t.number /\ CapturesIn[u.file] = all
          BY <2>2, <2>7, <5>1, <5>5
        <5>7. /\ u.uses \subseteq db'.tables /\ "snapshots" \in u.uses
              /\ u.number \in Nat \ {0} /\ u.number # 1 /\ u.number <= Len(CapturesIn[u.file]) + 1
              /\ u.at = "scans" <=> u.number <= Len(CapturesIn[u.file])
          BY <2>2, <2>3, <2>11, <5>4, <5>5, <5>6 DEF Tables
        <5>8. \A i \in 1..(u.number - 1) : Found(CapturesIn[u.file][i])
          BY <5>3, <5>6
        <5> QED
          BY <2>11, <4>1, <5>1, <5>4, <5>6, <5>7, <5>8 DEF Transaction, Known
      <4>3. CASE ~Known(p, c)
        <5>1. PICK g : g = With(t.fresh, db.next, c)
          OBVIOUS
        <5>2. /\ u = [at |-> IF t.number = n THEN "commit" ELSE "scans", file |-> t.file,
                      number |-> t.number + 1, uses |-> Tables, fresh |-> g]
              /\ db'.next = db.next + 1
          BY <2>9, <2>11, <4>1, <4>3, <5>1
        <5>3. /\ DOMAIN g = DOMAIN t.fresh \cup {db.next} /\ g[db.next] = c
              /\ \A i \in DOMAIN t.fresh : g[i] = t.fresh[i] /\ i # db.next
          BY <2>1, <2>5, <2>11, <5>1 DEF With, Transaction
        <5>4. ASSUME NEW d, Known(p, d) \/ d = c PROVE Found(d)
          <6>1. u.fresh = g
            BY <5>2
          <6>2. CASE d = c
            BY <5>3, <6>1, <6>2
          <6>3. CASE \E i \in DOMAIN db.scans : db.scans[i] = d
            BY <6>3
          <6>4. CASE \E i \in DOMAIN t.fresh : t.fresh[i] = d
            BY <5>3, <6>1, <6>4
          <6>5. \/ d = c \/ \E i \in DOMAIN db.scans : db.scans[i] = d
                \/ \E i \in DOMAIN t.fresh : t.fresh[i] = d
            BY <2>1, <5>4 DEF Known
          <6> QED
            BY <6>2, <6>3, <6>4, <6>5
        <5>5. \A i \in 1..t.number : Found(all[i])
          <6>1. \A i \in 1..t.number : Known(p, all[i]) \/ all[i] = c
            BY <2>1, <2>2, <2>4, <2>5, <2>7 DEF Transaction
          <6> HIDE DEF Found
          <6> QED
            BY <5>4, <6>1
        <5>6. /\ DOMAIN t.fresh \subseteq Nat
              /\ \A i \in DOMAIN t.fresh :
                   /\ t.fresh[i] \in Captures /\ i < db.next /\ i \notin DOMAIN db.scans
                   /\ \A j \in DOMAIN t.fresh : t.fresh[i] = t.fresh[j] => i = j
                   /\ \A j \in DOMAIN db.scans : t.fresh[i] # db.scans[j]
              /\ Tables \subseteq db.tables
          BY <1>2, <2>1, <2>5 DEF Transaction, Tables
        <5>7. /\ db.next \in Nat /\ db.next \notin DOMAIN db.scans
              /\ \A i \in DOMAIN t.fresh : t.fresh[i] # c
              /\ \A j \in DOMAIN db.scans : db.scans[j] # c
          BY <2>1, <2>11, <4>3 DEF Known, LegacyInv, LegacyTypeOK, Tabled
        <5>8. /\ DOMAIN g \subseteq Nat
              /\ \A i \in DOMAIN g :
                   /\ g[i] \in Captures /\ i < db.next + 1 /\ i \notin DOMAIN db.scans
                   /\ \A j \in DOMAIN g : g[i] = g[j] => i = j
                   /\ \A j \in DOMAIN db.scans : g[i] # db.scans[j]
          BY <2>7, <2>11, <5>3, <5>6, <5>7
        <5>9. /\ t.number + 1 \in Nat \ {0, 1}
              /\ t.number + 1 <= n + 1 /\ t.number + 1 - 1 = t.number
              /\ t.number = n <=> ~(t.number + 1 <= n)
          BY <2>6, <2>7
        <5>10. /\ u.number = t.number + 1 /\ u.file = t.file /\ u.uses = Tables
               /\ u.fresh = g /\ (u.at = "scans" <=> u.number <= n)
               /\ u.number - 1 = t.number /\ CapturesIn[u.file] = all
          BY <2>2, <2>7, <5>2, <5>9
        <5>11. /\ u.uses \subseteq db'.tables /\ "snapshots" \in u.uses
               /\ u.number \in Nat \ {0} /\ u.number # 1 /\ u.number <= Len(CapturesIn[u.file]) + 1
               /\ u.at = "scans" <=> u.number <= Len(CapturesIn[u.file])
          BY <2>2, <2>3, <2>11, <5>6, <5>9, <5>10 DEF Tables
        <5>12. \A i \in 1..(u.number - 1) : Found(CapturesIn[u.file][i])
          BY <5>5, <5>10
        <5> QED
          BY <2>11, <4>1, <5>2, <5>8, <5>10, <5>11, <5>12 DEF Transaction, Known
      <4> QED
        BY <4>2, <4>3
    <3> QED
      BY <2>5, <2>9, <3>1 DEF Transactions, Locked
  <2>16. /\ importer'["task"].at \notin {"idle", "done", "complete"}
            \/ importer'["task"] = importer["task"]
         /\ importer'["task"].file = importer["task"].file
         /\ importer'["task"].at = "idle" <=> importer["task"].at = "idle"
         /\ Posted' <=> Posted
    BY <2>1, <2>5, <2>9 DEF Importers, Posted
  <2>17. Tasks' /\ Done'
    BY <2>10, <2>11, <2>16 DEF LegacyInv, Tasks, Posted, Done
  <2> QED
    BY <2>12, <2>13, <2>14, <2>15, <2>17 DEF LegacyInv
<1> QED
  BY <1>1, <1>2

(***************************************************************************)
(* The commit stores the file with all its scans, under ids nobody has, and *)
(* all their rows (auction_importer.py:549-555).                            *)
(***************************************************************************)
LEMMA CommitKeeps ==
  ASSUME LegacyInv, NEW p \in Importers, Commit(p)
  PROVE  LegacyInv'
<1>1. PICK t : t = importer[p]
  OBVIOUS
<1>2. PICK all : all = CapturesIn[t.file]
  OBVIOUS
<1>3. PICK n : n = Len(all)
  OBVIOUS
<1>4. /\ t = [at |-> "commit", file |-> t.file, number |-> t.number, fresh |-> t.fresh,
              uses |-> t.uses]
      /\ t.file \in LuaFiles /\ Transaction(p) /\ dbLock = p
      /\ \A q \in Importers : q # p => importer[q].at \notin Locked
  BY <1>1, Busy, Open, Alone DEF Commit, LegacyInv, Transactions, LegacyTypeOK, Locked
<1>5. all \in Seq(Captures) /\ n \in Nat /\ DOMAIN all = 1..n
  BY <1>2, <1>3, <1>4, LegacyConstants
<1>6. /\ t.number = n + 1 /\ DOMAIN t.fresh \subseteq Nat
      /\ \A i \in DOMAIN t.fresh :
           /\ t.fresh[i] \in Captures /\ i < db.next /\ i \notin DOMAIN db.scans
           /\ \A j \in DOMAIN t.fresh : t.fresh[i] = t.fresh[j] => i = j
           /\ \A j \in DOMAIN db.scans : t.fresh[i] # db.scans[j]
      /\ \A i \in 1..(t.number - 1) : Known(p, all[i])
  BY <1>1, <1>2, <1>3, <1>4, <1>5 DEF Transaction
<1>7. "facts" \in db.tables \/ DOMAIN t.fresh = {}
  BY <1>1, <1>4 DEF Transaction, Tables
<1>8. /\ DOMAIN importer' = Importers
      /\ importer'[p] = [at |-> "done", file |-> t.file, number |-> t.number, fresh |-> t.fresh,
                         uses |-> t.uses]
      /\ \A q \in Importers : q # p => importer'[q] = importer[q]
  <2>1. importer' = [importer EXCEPT ![p].at = "done"] /\ DOMAIN importer = Importers
    BY DEF Commit, Step, LegacyInv, Shaped
  <2> QED
    BY <1>1, <1>4, <2>1
<1>9. UNCHANGED <<importLock, jobs, dbLock, reset, torn, counts>>
  BY DEF Commit
<1>10. PICK g : g = Joined(t.fresh, db.scans)
  OBVIOUS
<1>11. /\ DOMAIN g = DOMAIN t.fresh \cup DOMAIN db.scans
       /\ \A i \in DOMAIN t.fresh : g[i] = t.fresh[i]
       /\ \A i \in DOMAIN db.scans : g[i] = db.scans[i]
  BY <1>6, <1>10 DEF Joined
<1>12. /\ db'.scans = g /\ db'.facts = db.facts \cup DOMAIN t.fresh
       /\ db'.snapshots = db.snapshots \cup {t.file}
       /\ db'.tables = db.tables /\ db'.next = db.next
       /\ db' = [tables |-> db'.tables, snapshots |-> db'.snapshots, scans |-> db'.scans,
                 facts |-> db'.facts, next |-> db'.next]
  BY <1>1, <1>10 DEF Commit, LegacyInv, Shaped
<1>13. LegacyTypeOK'
  <2>1. \A q \in Importers : Placed(q)'
    BY <1>4, <1>8, <1>9 DEF LegacyInv, LegacyTypeOK, Placed, Locked
  <2>2. \A i \in DOMAIN g : g[i] \in Captures /\ i < db.next
    BY <1>6, <1>11 DEF LegacyInv, LegacyTypeOK
  <2>3. db'.snapshots \subseteq LuaFiles /\ db'.facts \subseteq Nat
    BY <1>4, <1>6, <1>12 DEF LegacyInv, LegacyTypeOK
  <2> QED
    BY <1>9, <1>12, <2>1, <2>2, <2>3 DEF LegacyInv, LegacyTypeOK, Placed, Locked
<1>14. Shaped'
  <2>1. \A q \in Importers : Shape(q)' /\ (importer'[q].at = "begin" => Sound(importer'[q].file))
    BY <1>4, <1>8 DEF LegacyInv, Shaped, Shape
  <2> QED
    BY <1>8, <1>9, <1>12, <2>1 DEF LegacyInv, Shaped, Sound, Valid, Legal
<1>15. Tabled'
  <2>1. DOMAIN g \subseteq Nat /\ db'.facts \subseteq DOMAIN g
    BY <1>6, <1>11, <1>12 DEF LegacyInv, Tabled
  <2>2. "facts" \notin db'.tables => db'.facts = {}
    BY <1>7, <1>12 DEF LegacyInv, Tabled
  <2>3. \A j, k \in DOMAIN g : g[j] = g[k] => j = k
    BY <1>6, <1>11 DEF LegacyInv, Tabled
  <2> QED
    BY <1>12, <2>1, <2>2, <2>3 DEF Tabled
<1>16. Whole'
  BY <1>9, <1>11, <1>12 DEF LegacyInv, Whole
<1>17. Kept'
  <2>1. \A i \in 1..n : \E k \in DOMAIN g : g[k] = all[i]
    <3> TAKE i \in 1..n
    <3>1. Known(p, all[i])
      BY <1>5, <1>6
    <3> QED
      BY <1>1, <1>11, <3>1 DEF Known
  <2>2. StoredFile(t.file)'
    BY <1>2, <1>5, <1>12, <2>1 DEF StoredFile
  <2>3. ASSUME NEW f, StoredFile(f) PROVE StoredFile(f)'
    BY <1>11, <1>12, <2>3 DEF StoredFile
  <2> QED
    BY <1>9, <1>12, <2>2, <2>3 DEF LegacyInv, Kept
<1>18. Transactions'
  BY <1>4, <1>8 DEF Transactions, Locked
<1>19. /\ importer'["task"].file = importer["task"].file
       /\ importer'["task"].at = "idle" <=> importer["task"].at = "idle"
       /\ Posted' <=> Posted
       /\ importer'["task"] = importer["task"] \/ importer["task"].file = t.file
  BY <1>1, <1>4, <1>8 DEF Importers, Posted
<1>20. Tasks'
  BY <1>9, <1>19 DEF LegacyInv, Tasks, Posted
<1>21. Done'
  BY <1>9, <1>12, <1>19 DEF LegacyInv, Done
<1> QED
  BY <1>13, <1>14, <1>15, <1>16, <1>17, <1>18, <1>20, <1>21 DEF LegacyInv

--------------------------------------------------------------------------------
\* The reset, and restarts.

\* Importers and jobs are as they were, and open transactions lose no table they use.
LEMMA ImportersKeep ==
  ASSUME LegacyInv, UNCHANGED <<importLock, jobs, importer, dbLock>>,
         counts'.job = counts.job,
         \A p \in Importers : importer[p].at \in {"scans", "commit"} => Transaction(p)'
  PROVE  /\ Transactions' /\ \A p \in Importers : Placed(p)' /\ Shape(p)'
         /\ \A p \in Importers : importer'[p].at = "begin" => Sound(importer'[p].file)
         /\ DOMAIN importer' = Importers
BY DEF LegacyInv, Transactions, LegacyTypeOK, Placed, Locked, Shaped, Shape, Sound, Valid, Legal

(***************************************************************************)
(* A reset begins with all tables in place, and from then on no job posted  *)
(* before says anything of the tables (admin_api.py:244-256).               *)
(***************************************************************************)
LEMMA ResetStartKeeps ==
  ASSUME LegacyInv, ResetStart
  PROVE  LegacyInv'
<1>1. /\ counts' = [job |-> counts'.job, command |-> counts'.command, reset |-> counts'.reset,
                    accident |-> counts'.accident]
      /\ counts'.job = counts.job /\ counts'.reset = counts.reset + 1
      /\ counts.reset \in Nat /\ counts.job \in Nat
  BY CountsKept DEF ResetStart, LegacyInv, Shaped
<1>2. /\ UNCHANGED <<db, importLock, jobs, importer, dbLock, torn>>
      /\ reset.at = "idle" /\ reset'.at = "facts"
  BY DEF ResetStart
<1>3. /\ Transactions' /\ \A p \in Importers : Placed(p)' /\ Shape(p)'
      /\ \A p \in Importers : importer'[p].at = "begin" => Sound(importer'[p].file)
      /\ DOMAIN importer' = Importers
  <2>1. \A p \in Importers : importer[p].at \in {"scans", "commit"} => Transaction(p)'
    BY <1>2, TransactionStays DEF LegacyInv, Transactions, Transaction
  <2> QED
    BY <1>1, <1>2, <2>1, ImportersKeep
<1>4. LegacyTypeOK'
  BY <1>2, <1>3 DEF LegacyInv, LegacyTypeOK, Placed, Locked
<1>5. Shaped'
  BY <1>1, <1>2, <1>3 DEF LegacyInv, Shaped
<1>6. Tabled' /\ Whole' /\ Kept'
  BY <1>2 DEF LegacyInv, Tabled, Whole, Kept, StoredFile
<1>7. \A i \in DOMAIN jobs : jobs[i].reset # counts'.reset
  BY <1>1, ObservationConstants DEF LegacyInv, Tasks, Posted
<1>8. Tasks'
  <2>1. 0..counts.reset \subseteq 0..counts'.reset
    BY <1>1
  <2> QED
    BY <1>1, <1>2, <1>7, <2>1 DEF LegacyInv, Tasks, Posted
<1>9. Done'
  <2>1. importer["task"].at \in {"done", "complete"} => counts.job \in DOMAIN jobs
    BY DEF LegacyInv, Tasks, Posted
  <2> QED
    BY <1>1, <1>2, <1>7, <2>1 DEF LegacyInv, Done
<1> QED
  BY <1>3, <1>4, <1>5, <1>6, <1>8, <1>9 DEF LegacyInv

(***************************************************************************)
(* A table is only dropped when no transaction uses it and the tables that  *)
(* refer to it are gone; a drop that fails leaves the rest as it is         *)
(* (admin_api.py:257).                                                      *)
(***************************************************************************)
LEMMA DropKeeps ==
  ASSUME LegacyInv, NEW t \in Tables, Drop(t)
  PROVE  LegacyInv'
<1>1. /\ reset.at = t /\ ~InUse(t)
      /\ UNCHANGED <<importLock, jobs, importer, dbLock, counts>>
  BY DEF Drop
<1>2. CASE Children(t) \cap db.tables # {}
  <2>1. reset'.at = "idle" /\ torn' = TRUE /\ UNCHANGED db
    BY <1>2 DEF Drop, Off
  <2>2. /\ Transactions' /\ \A p \in Importers : Placed(p)' /\ Shape(p)'
        /\ \A p \in Importers : importer'[p].at = "begin" => Sound(importer'[p].file)
        /\ DOMAIN importer' = Importers
    <3>1. \A p \in Importers : importer[p].at \in {"scans", "commit"} => Transaction(p)'
      BY <1>1, <2>1, TransactionStays DEF LegacyInv, Transactions, Transaction
    <3> QED
      BY <1>1, <3>1, ImportersKeep
  <2>3. LegacyTypeOK'
    BY <1>1, <2>1, <2>2 DEF LegacyInv, LegacyTypeOK, Placed, Locked
  <2>4. Shaped'
    BY <1>1, <2>1, <2>2 DEF LegacyInv, Shaped
  <2>5. Tabled' /\ Whole' /\ Kept'
    BY <2>1 DEF LegacyInv, Tabled, Whole, Kept, StoredFile
  <2>6. Tasks' /\ Done'
    BY <1>1, <2>1 DEF LegacyInv, Tasks, Posted, Done
  <2> QED
    BY <2>2, <2>3, <2>4, <2>5, <2>6 DEF LegacyInv
<1>3. CASE Children(t) \cap db.tables = {}
  <2>1. /\ db' = Emptied(t) /\ torn' = torn
        /\ reset'.at = IF t = "facts" THEN "scans" ELSE IF t = "scans" THEN "snapshots"
                       ELSE "create"
    BY <1>3 DEF Drop
  <2>2. /\ db'.tables = db.tables \ {t}
        /\ db'.facts = IF t = "facts" THEN {} ELSE db.facts
        /\ db'.scans = IF t = "scans" THEN <<>> ELSE db.scans
        /\ db'.next = IF t = "scans" THEN 1 ELSE db.next
        /\ db'.snapshots = IF t = "snapshots" THEN {} ELSE db.snapshots
        /\ db' = [tables |-> db'.tables, snapshots |-> db'.snapshots, scans |-> db'.scans,
                  facts |-> db'.facts, next |-> db'.next]
    BY <2>1 DEF Emptied, LegacyInv, Shaped, Tables
  <2>3. t = "scans" => db.facts = {}
    BY <1>3 DEF Children, LegacyInv, Tabled
  <2>4. \A p \in Importers : importer[p].at \in {"scans", "commit"} => Transaction(p)'
    <3> SUFFICES ASSUME NEW p \in Importers, importer[p].at \in {"scans", "commit"}
                 PROVE  Transaction(p)'
      OBVIOUS
    <3>1. Transaction(p) /\ t \notin importer[p].uses
      BY <1>1 DEF InUse, LegacyInv, Transactions
    <3>2. importer[p].uses \subseteq db'.tables /\ importer'[p] = importer[p]
      BY <1>1, <2>2, <3>1 DEF Transaction
    <3>3. CASE t # "scans"
      BY <2>2, <3>1, <3>2, <3>3, TransactionStays
    <3>4. CASE t = "scans"
      <4>1. importer[p].number = 1 /\ importer[p].fresh = <<>>
        BY <3>1, <3>4 DEF Transaction, Tables
      <4> QED
        BY <3>1, <3>2, <4>1 DEF Transaction
    <3> QED
      BY <3>3, <3>4
  <2>5. /\ Transactions' /\ \A p \in Importers : Placed(p)' /\ Shape(p)'
        /\ \A p \in Importers : importer'[p].at = "begin" => Sound(importer'[p].file)
        /\ DOMAIN importer' = Importers
    BY <1>1, <2>4, ImportersKeep
  <2>6. LegacyTypeOK'
    <3>1. /\ db'.tables \subseteq Tables /\ db'.snapshots \subseteq LuaFiles /\ db'.next \in Nat
          /\ db'.facts \subseteq Nat
          /\ \A i \in DOMAIN db'.scans : db'.scans[i] \in Captures /\ i < db'.next
      BY <2>2 DEF LegacyInv, LegacyTypeOK
    <3>2. reset'.at \in {"idle", "facts", "scans", "snapshots", "create"}
      BY <2>1
    <3> QED
      BY <1>1, <2>1, <2>5, <3>1, <3>2 DEF LegacyInv, LegacyTypeOK, Placed, Locked
  <2>7. Shaped'
    BY <1>1, <2>2, <2>5 DEF LegacyInv, Shaped
  <2>8. Tabled'
    <3>1. DOMAIN db'.scans = IF t = "scans" THEN {} ELSE DOMAIN db.scans
      BY <2>2
    <3>2. DOMAIN db'.scans \subseteq Nat /\ db'.facts \subseteq DOMAIN db'.scans
      BY <2>2, <2>3, <3>1 DEF LegacyInv, Tabled
    <3>3. "facts" \notin db'.tables => db'.facts = {}
      BY <2>2 DEF LegacyInv, Tabled
    <3>4. \A j, k \in DOMAIN db'.scans : db'.scans[j] = db'.scans[k] => j = k
      BY <2>2, <3>1 DEF LegacyInv, Tabled
    <3> QED
      BY <3>2, <3>3, <3>4 DEF Tabled
  <2>9. Whole'
    <3>1. DOMAIN db'.scans = IF t = "scans" THEN {} ELSE DOMAIN db.scans
      BY <2>2
    <3>2. t = "scans" => db'.facts = {}
      BY <2>2, <2>3
    <3>3. t = "snapshots" => DOMAIN db'.scans = db'.facts
      BY <1>1, <2>2 DEF LegacyInv, Whole
    <3>4. t = "facts" => reset'.at = "scans"
      BY <2>1
    <3> QED
      BY <3>1, <3>2, <3>3, <3>4 DEF Whole, Tables
  <2>10. Kept'
    BY <1>1, <2>1, <2>2 DEF LegacyInv, Kept, Tables
  <2>11. \A i \in DOMAIN jobs : jobs[i].reset # counts.reset
    BY <1>1 DEF LegacyInv, Tasks, Posted, Tables
  <2>12. Tasks'
    BY <1>1, <2>11 DEF LegacyInv, Tasks, Posted
  <2>13. Done'
    <3>1. importer["task"].at \in {"done", "complete"} => counts.job \in DOMAIN jobs
      BY DEF LegacyInv, Tasks, Posted
    <3> QED
      BY <1>1, <2>11, <3>1 DEF LegacyInv, Done
  <2> QED
    BY <2>5, <2>6, <2>7, <2>8, <2>9, <2>10, <2>12, <2>13 DEF LegacyInv
<1> QED
  BY <1>2, <1>3

(***************************************************************************)
(* A reset that is complete has emptied whatever nobody imported meanwhile; *)
(* one that is cut short is remembered (admin_api.py:257-261).              *)
(***************************************************************************)
LEMMA ResetEndKeeps ==
  ASSUME LegacyInv, ResetCreate \/ ResetFails
  PROVE  LegacyInv'
<1>1. /\ counts' = [job |-> counts'.job, command |-> counts'.command, reset |-> counts'.reset,
                    accident |-> counts'.accident]
      /\ counts'.job = counts.job /\ counts'.reset = counts.reset
  <2>1. CASE ResetCreate
    BY <2>1 DEF ResetCreate, LegacyInv, Shaped
  <2>2. CASE ResetFails
    BY <2>2, CountsKept DEF ResetFails, Accident, LegacyInv
  <2> QED
    BY <2>1, <2>2
<1>2. /\ reset'.at = "idle" /\ reset.at # "idle"
      /\ UNCHANGED <<importLock, jobs, importer, dbLock>>
  BY DEF ResetCreate, ResetFails, CutShort, Off
<1>3. /\ db'.scans = db.scans /\ db'.facts = db.facts /\ db'.snapshots = db.snapshots
      /\ db'.next = db.next /\ db.tables \subseteq db'.tables /\ db'.tables \subseteq Tables
      /\ db' = [tables |-> db'.tables, snapshots |-> db'.snapshots, scans |-> db'.scans,
                facts |-> db'.facts, next |-> db'.next]
  BY DEF ResetCreate, ResetFails, LegacyInv, Shaped, LegacyTypeOK
<1>4. /\ torn' \in BOOLEAN
      /\ ~torn' => \/ ~torn /\ reset.at \in {"idle", "facts"}
                   \/ reset.at = "create"
  BY DEF ResetCreate, ResetFails, CutShort, LegacyInv, LegacyTypeOK
<1>5. /\ Transactions' /\ \A p \in Importers : Placed(p)' /\ Shape(p)'
      /\ \A p \in Importers : importer'[p].at = "begin" => Sound(importer'[p].file)
      /\ DOMAIN importer' = Importers
  <2>1. \A p \in Importers : importer[p].at \in {"scans", "commit"} => Transaction(p)'
    BY <1>2, <1>3, TransactionStays DEF LegacyInv, Transactions, Transaction
  <2> QED
    BY <1>1, <1>2, <2>1, ImportersKeep
<1>6. LegacyTypeOK'
  BY <1>2, <1>3, <1>4, <1>5 DEF LegacyInv, LegacyTypeOK, Placed, Locked
<1>7. Shaped'
  BY <1>1, <1>3, <1>5 DEF LegacyInv, Shaped
<1>8. Tabled' /\ Whole' /\ Kept'
  BY <1>2, <1>3, <1>4 DEF LegacyInv, Tabled, Whole, Kept, StoredFile
<1>9. \A i \in DOMAIN jobs : jobs[i].reset # counts.reset
  BY <1>2 DEF LegacyInv, Tasks, Posted
<1>10. Tasks'
  BY <1>1, <1>2, <1>9 DEF LegacyInv, Tasks, Posted
<1>11. Done'
  <2>1. importer["task"].at \in {"done", "complete"} => counts.job \in DOMAIN jobs
    BY DEF LegacyInv, Tasks, Posted
  <2> QED
    BY <1>1, <1>2, <1>9, <2>1 DEF LegacyInv, Done
<1> QED
  BY <1>5, <1>6, <1>7, <1>8, <1>10, <1>11 DEF LegacyInv

(***************************************************************************)
(* A restart of the API forgets its jobs and its task, rolls back what the  *)
(* task had open, and leaves a reset half done (main.py:27).             *)
(***************************************************************************)
LEMMA RestartKeeps ==
  ASSUME LegacyInv, Restart
  PROVE  LegacyInv'
<1>1. /\ counts' = [job |-> counts'.job, command |-> counts'.command, reset |-> counts'.reset,
                    accident |-> counts'.accident]
      /\ counts'.job = counts.job /\ counts'.reset = counts.reset
  BY CountsKept DEF Restart, Accident, LegacyInv
<1>2. /\ reset'.at = "idle" /\ torn' = (torn \/ reset.at \notin {"idle", "facts"})
      /\ jobs' = <<>> /\ importLock' = FALSE
      /\ dbLock' = IF dbLock = "task" THEN None ELSE dbLock
  BY DEF Restart, CutShort, Off
<1>3. /\ db'.scans = db.scans /\ db'.facts = db.facts /\ db'.snapshots = db.snapshots
      /\ db'.next = db.next /\ db.tables \subseteq db'.tables /\ db'.tables = Tables
      /\ db' = [tables |-> db'.tables, snapshots |-> db'.snapshots, scans |-> db'.scans,
                facts |-> db'.facts, next |-> db'.next]
  BY DEF Restart, LegacyInv, Shaped, LegacyTypeOK
<1>4. /\ DOMAIN importer' = Importers /\ importer'["task"] = Off
      /\ \A q \in Importers : q # "task" => importer'[q] = importer[q]
  BY Moved DEF Restart, LegacyInv, Shaped, Importers
<1>5. torn' \in BOOLEAN /\ (~torn' => ~torn /\ reset.at \in {"idle", "facts"})
  BY <1>2 DEF LegacyInv, LegacyTypeOK
<1>6. LegacyTypeOK'
  <2>1. \A q \in Importers : Placed(q)'
    BY <1>2, <1>4 DEF LegacyInv, LegacyTypeOK, Placed, Locked, Off
  <2>2. dbLock' \in Importers \cup {None} /\ DOMAIN jobs' = {}
    BY <1>2 DEF LegacyInv, LegacyTypeOK
  <2> QED
    BY <1>2, <1>3, <1>5, <2>1, <2>2 DEF LegacyInv, LegacyTypeOK, Placed, Locked
<1>7. Shaped'
  <2>1. \A q \in Importers : Shape(q)' /\ (importer'[q].at = "begin" => Sound(importer'[q].file))
    BY <1>4 DEF LegacyInv, Shaped, Shape, Off
  <2> QED
    BY <1>1, <1>3, <1>4, <2>1 DEF LegacyInv, Shaped, Sound, Valid, Legal
<1>8. Tabled' /\ Whole' /\ Kept'
  BY <1>2, <1>3, <1>5 DEF LegacyInv, Tabled, Whole, Kept, StoredFile
<1>9. Transactions'
  <2>1. ASSUME NEW q \in Importers, importer'[q].at \in {"scans", "commit"}
        PROVE  Transaction(q)'
    <3>1. importer'[q] = importer[q] /\ Transaction(q)
      BY <1>4, <2>1 DEF Off, LegacyInv, Transactions
    <3> QED
      BY <1>3, <3>1, TransactionStays DEF Transaction
  <2> QED
    BY <2>1 DEF Transactions
<1>10. Tasks' /\ Done'
  <2>1. DOMAIN jobs' = {}
    BY <1>2
  <2> QED
    BY <1>2, <1>4, <2>1 DEF Tasks, Posted, Done, Off
<1> QED
  BY <1>6, <1>7, <1>8, <1>9, <1>10 DEF LegacyInv

\* Where it begins: nothing stored, nothing going on.
LEMMA LegacyBegins == LegacyInit => LegacyInv
<1> SUFFICES ASSUME LegacyInit PROVE LegacyInv
  OBVIOUS
<1>1. /\ db = [tables |-> Tables, snapshots |-> {}, scans |-> <<>>, facts |-> {}, next |-> 1]
      /\ DOMAIN db.scans = {} /\ DOMAIN jobs = {} /\ DOMAIN importer = Importers
      /\ \A p \in Importers : importer[p] = Off
      /\ importLock = FALSE /\ dbLock = None /\ reset = Off /\ torn = FALSE
      /\ counts = [job |-> 0, command |-> 0, reset |-> 0, accident |-> 0]
  BY DEF LegacyInit
<1>2. LegacyTypeOK
  <2>1. /\ db.tables = Tables /\ db.snapshots = {} /\ db.facts = {} /\ db.next = 1
        /\ reset.at = "idle" /\ \A p \in Importers : importer[p].at = "idle"
    BY <1>1 DEF Off
  <2> QED
    BY <1>1, <2>1 DEF LegacyTypeOK, Locked
<1>3. Shaped /\ Transactions
  BY <1>1 DEF Shaped, Shape, Off, Transactions
<1>4. Tabled /\ Whole /\ Kept
  BY <1>1 DEF Tabled, Whole, Kept, Off
<1>5. Tasks /\ Done
  BY <1>1 DEF Tasks, Posted, Done, Off, Importers
<1> QED
  BY <1>2, <1>3, <1>4, <1>5 DEF LegacyInv

\* Every step of the legacy backend keeps its invariant, and so does doing nothing.
LEMMA LegacySteps ==
  ASSUME LegacyInv, LegacyNext \/ UNCHANGED legacyVars
  PROVE  LegacyInv'
<1>1. CASE UNCHANGED legacyVars
  BY <1>1 DEF legacyVars, LegacyInv, LegacyTypeOK, Shaped, Shape, Sound, Valid, Legal, Tabled,
              Whole, Kept, StoredFile, Transactions, Transaction, Known, Tasks, Posted, Done
<1>2. ASSUME NEW f \in LuaFiles, Post(f) \/ RunCommand(f)
      PROVE  LegacyInv'
  BY <1>2, PostKeeps, RunCommandKeeps
<1>3. CASE \/ Queue \/ Start \/ Conclude \/ ReleaseLock
           \/ ResetStart \/ ResetCreate \/ ResetFails \/ Restart
  BY <1>3, QueueKeeps, StartKeeps, ConcludeKeeps, ReleaseLockKeeps,
     ResetStartKeeps, ResetEndKeeps, RestartKeeps
<1>4. ASSUME NEW p \in Importers,
             \/ LockDatabase(p) \/ CreateTables(p) \/ CheckFile(p) \/ BeginImport(p)
             \/ ImportScan(p) \/ Commit(p) \/ Finished(p) \/ Raises(p)
      PROVE  LegacyInv'
  BY <1>4, LockDatabaseKeeps, CreateTablesKeeps, CheckFileKeeps, BeginImportKeeps,
     ImportScanKeeps, CommitKeeps, EndsKeep
<1>5. ASSUME NEW t \in Tables, Drop(t)
      PROVE  LegacyInv'
  BY <1>5, DropKeeps
<1> QED
  BY <1>1, <1>2, <1>3, <1>4, <1>5 DEF LegacyNext

--------------------------------------------------------------------------------
\* Views and markets of the current backend.

\* A scan's two views, and back.
LEMMA ViewsOfScans ==
  ASSUME NEW scans, DOMAIN scans \subseteq Nat
  PROVE  /\ \A v \in Views(scans) : v \in Nat /\ v \div 2 \in DOMAIN scans
         /\ \A v \in Views(scans) : v = 2 * (v \div 2) \/ v = 2 * (v \div 2) + 1
         /\ \A i \in DOMAIN scans : /\ 2 * i \in Views(scans) /\ 2 * i + 1 \in Views(scans)
                                    /\ (2 * i) \div 2 = i /\ (2 * i + 1) \div 2 = i
                                    /\ Regional(2 * i) /\ ~Regional(2 * i + 1)
<1>1. \A i \in Nat : /\ (2 * i) \div 2 = i /\ (2 * i + 1) \div 2 = i
                     /\ (2 * i) % 2 = 0 /\ (2 * i + 1) % 2 = 1
  OBVIOUS
<1>2. \A i \in DOMAIN scans : 2 * i \in Views(scans) /\ 2 * i + 1 \in Views(scans)
  BY DEF Views
<1>3. \A v \in Views(scans) : \E i \in DOMAIN scans : v = 2 * i \/ v = 2 * i + 1
  BY DEF Views
<1> QED
  BY <1>1, <1>2, <1>3 DEF Regional

\* Newer orders the views of a generation.
LEMMA NewerOrders ==
  ASSUME NEW scans, Numbered(scans)
  PROVE  /\ \A v, w \in Views(scans) : v = w \/ Newer(scans, v, w) \/ Newer(scans, w, v)
         /\ \A v, w \in Views(scans) : ~(Newer(scans, v, w) /\ Newer(scans, w, v))
         /\ \A u, v, w \in Views(scans) :
              Newer(scans, u, v) /\ Newer(scans, v, w) => Newer(scans, u, w)
<1> DEFINE time(v) == TimeOf[scans[v \div 2]]
<1>1. \A v \in Views(scans) : v \in Nat /\ time(v) \in Nat
  BY ViewsOfScans, ObservationConstants DEF Numbered
<1>2. \A v, w : Newer(scans, v, w) <=> time(v) > time(w) \/ (time(v) = time(w) /\ v > w)
  BY DEF Newer
<1> HIDE DEF time
<1> QED
  BY <1>1, <1>2

\* With one more view there still is a newest.
LEMMA NewestOfMore ==
  ASSUME NEW scans, Numbered(scans), NEW S \in SUBSET Views(scans), HasNewest(scans, S),
         NEW x \in Views(scans)
  PROVE  HasNewest(scans, S \cup {x})
<1>1. CASE S = {}
  <2>1. IsNewest(scans, S \cup {x}, x)
    BY <1>1 DEF IsNewest
  <2> QED
    BY <2>1 DEF HasNewest
<1>2. ASSUME NEW v \in S, IsNewest(scans, S, v)
      PROVE  HasNewest(scans, S \cup {x})
  <2>1. CASE v = x \/ Newer(scans, v, x)
    <3>1. IsNewest(scans, S \cup {x}, v)
      BY <1>2, <2>1 DEF IsNewest
    <3> QED
      BY <3>1 DEF HasNewest
  <2>2. CASE Newer(scans, x, v)
    <3>1. \A w \in S : Newer(scans, x, w)
      BY <1>2, <2>2, NewerOrders DEF IsNewest
    <3>2. IsNewest(scans, S \cup {x}, x)
      BY <3>1 DEF IsNewest
    <3> QED
      BY <3>2 DEF HasNewest
  <2>3. v \in Views(scans)
    BY <1>2
  <2> QED
    BY <2>1, <2>2, <2>3, NewerOrders
<1> QED
  BY <1>1, <1>2 DEF HasNewest

\* What the choice of the newest returns.
LEMMA NewestChosen ==
  ASSUME NEW scans, NEW S, S # {}, HasNewest(scans, S)
  PROVE  IsNewest(scans, S, Newest(scans, S))
BY DEF HasNewest, IsNewest, Newest

(***************************************************************************)
(* Two markets of one time are the same or have no realm in common: realms  *)
(* are never in two connections at once (auction_markets.py:43-59).         *)
(***************************************************************************)
LEMMA MarketsApart ==
  ASSUME NEW r, NEW s, NEW time \in Nat, Resolve(r, time) # Resolve(s, time)
  PROVE  Resolve(r, time).realms \cap Resolve(s, time).realms = {}
<1> DEFINE valid(x) == {g \in Groups : /\ x \in g.realms /\ g.from <= time
                                       /\ g.to = None \/ time < g.to}
<1>1. ASSUME NEW x, valid(x) # {}
      PROVE  \E g \in valid(x) : Resolve(x, time) = [realms |-> g.realms, since |-> g.from]
  BY <1>1 DEF Resolve
<1>2. \A x : valid(x) = {} => Resolve(x, time).realms = {x}
  BY DEF Resolve
<1>3. ASSUME NEW g \in Groups, NEW h \in Groups, NEW x, NEW y, g \in valid(x), h \in valid(y),
             g.realms \cap h.realms # {}
      PROVE  g = h
  <2>1. g.from \in Nat /\ h.from \in Nat /\ g.to \in Nat \cup {None} /\ h.to \in Nat \cup {None}
    BY UnifiedConstants
  <2>2. g # h => (g.to # None /\ g.to <= h.from) \/ (h.to # None /\ h.to <= g.from)
    BY <1>3, UnifiedConstants
  <2>3. /\ g.from <= time /\ h.from <= time
        /\ g.to = None \/ time < g.to
        /\ h.to = None \/ time < h.to
    BY <1>3
  <2>4. ~(g.to # None /\ g.to <= h.from) /\ ~(h.to # None /\ h.to <= g.from)
    BY <2>1, <2>3
  <2> QED
    BY <2>2, <2>4
<1>4. \A x, y : \A g \in valid(x) : y \in g.realms => g \in valid(y)
  OBVIOUS
<1>5. \A x : valid(x) \subseteq Groups
  OBVIOUS
<1> HIDE DEF valid
<1>6. CASE valid(r) # {} /\ valid(s) # {}
  <2>1. PICK g \in valid(r) : Resolve(r, time) = [realms |-> g.realms, since |-> g.from]
    BY <1>1, <1>6
  <2>2. PICK h \in valid(s) : Resolve(s, time) = [realms |-> h.realms, since |-> h.from]
    BY <1>1, <1>6
  <2>3. g \in Groups /\ h \in Groups
    BY <1>5
  <2> QED
    BY <1>3, <2>1, <2>2, <2>3
<1>7. ASSUME NEW x, NEW y, valid(x) # {}, valid(y) = {}
      PROVE  Resolve(x, time).realms \cap Resolve(y, time).realms = {}
  <2>1. PICK g \in valid(x) : Resolve(x, time) = [realms |-> g.realms, since |-> g.from]
    BY <1>1, <1>7
  <2>2. Resolve(y, time).realms = {y}
    BY <1>2, <1>7
  <2>3. y \notin g.realms
    BY <1>4, <1>7, <2>1
  <2>4. Resolve(x, time).realms = g.realms
    BY <2>1
  <2> QED
    BY <2>2, <2>3, <2>4
<1>8. CASE valid(r) = {} /\ valid(s) = {}
  <2>1. r # s
    OBVIOUS
  <2> QED
    BY <1>2, <1>8, <2>1
<1> QED
  BY <1>6, <1>7, <1>8

--------------------------------------------------------------------------------
\* What generations come to.

\* Each market that a generation has keeps its newest view, and that is in this market.
LEMMA NewestOfMarket ==
  ASSUME NEW scans, Dated(scans), NEW m \in Range(Market(scans))
  PROVE  LET x == Newest(scans, {w \in DOMAIN Market(scans) : Market(scans)[w] = m})
         IN  x \in Views(scans) /\ Market(scans)[x] = m
<1> DEFINE S == {w \in DOMAIN Market(scans) : Market(scans)[w] = m}
<1>1. PICK v \in Views(scans) : Market(scans)[v] = m
  BY DEF Range, Market
<1>2. DOMAIN Market(scans) = Views(scans)
  BY DEF Market
<1>3. S = Timeline(scans, m) /\ S # {}
  BY <1>1, <1>2 DEF Timeline
<1>4. HasNewest(scans, S)
  BY <1>1, <1>3 DEF Dated
<1>5. IsNewest(scans, S, Newest(scans, S))
  BY <1>3, <1>4, NewestChosen
<1> QED
  BY <1>2, <1>5 DEF IsNewest

(***************************************************************************)
(* A new scan is the newest of its markets or leaves them the one they had  *)
(* (manage.py:199-224, unified.py:56-120).                                  *)
(***************************************************************************)
LEMMA PublishDates ==
  ASSUME NEW scans, Numbered(scans), Dated(scans), NEW n \in Nat \ DOMAIN scans,
         NEW c \in Captures
  PROVE  Numbered(With(scans, n, c)) /\ Dated(With(scans, n, c))
<1> DEFINE all == With(scans, n, c)
<1>1. /\ DOMAIN all = DOMAIN scans \cup {n} /\ all[n] = c
      /\ \A i \in DOMAIN scans : all[i] = scans[i]
  BY DEF With
<1>2. Numbered(all)
  BY <1>1 DEF Numbered
<1> HIDE DEF all
<1>3. /\ \A v \in Views(scans) : v \div 2 \in DOMAIN scans /\ all[v \div 2] = scans[v \div 2]
      /\ Views(all) = Views(scans) \cup {2 * n, 2 * n + 1}
  BY <1>1, ViewsOfScans DEF Views, Numbered
<1>4. \A v \in Views(scans) : Market(all)[v] = Market(scans)[v]
  BY <1>3 DEF Market, MarketAt
<1>5. \A v, w \in Views(scans) : Newer(all, v, w) <=> Newer(scans, v, w)
  BY <1>3 DEF Newer
<1>6. ASSUME NEW m PROVE HasNewest(all, Timeline(all, m))
  <2> DEFINE S0 == {v \in Views(scans) : Market(all)[v] = m}
             S1 == {v \in Views(scans) \cup {2 * n} : Market(all)[v] = m}
  <2>1. S0 = Timeline(scans, m)
    BY <1>4 DEF Timeline
  <2>2. HasNewest(scans, Timeline(scans, m))
    <3>1. CASE Timeline(scans, m) = {}
      BY <3>1 DEF HasNewest
    <3>2. ASSUME NEW v \in Timeline(scans, m) PROVE HasNewest(scans, Timeline(scans, m))
      BY DEF Timeline, Dated
    <3> QED
      BY <3>1, <3>2
  <2>3. HasNewest(all, S0)
    <3>1. S0 \subseteq Views(scans)
      OBVIOUS
    <3> HIDE DEF S0
    <3> QED
      BY <1>5, <2>1, <2>2, <3>1 DEF HasNewest, IsNewest
  <2>4. HasNewest(all, S1)
    <3>1. S1 = S0 \/ S1 = S0 \cup {2 * n}
      OBVIOUS
    <3>2. S0 \subseteq Views(all) /\ 2 * n \in Views(all)
      BY <1>3
    <3> HIDE DEF S0, S1
    <3> QED
      BY <1>2, <2>3, <3>1, <3>2, NewestOfMore
  <2>5. Timeline(all, m) = S1 \/ Timeline(all, m) = S1 \cup {2 * n + 1}
    BY <1>3 DEF Timeline
  <2>6. S1 \subseteq Views(all) /\ 2 * n + 1 \in Views(all)
    BY <1>3
  <2> HIDE DEF S1
  <2> QED
    BY <1>2, <2>4, <2>5, <2>6, NewestOfMore
<1> QED
  BY <1>2, <1>6 DEF Dated, all

(***************************************************************************)
(* Retention never takes the newest view of a market (retention.py:40-43).  *)
(***************************************************************************)
LEMMA PruneDates ==
  ASSUME NEW scans, Numbered(scans), Dated(scans), NEW i \in DOMAIN scans, NEW j \in DOMAIN scans,
         Resolve(RealmOf[scans[j]], TimeOf[scans[j]])
           = Resolve(RealmOf[scans[i]], TimeOf[scans[i]]),
         TimeOf[scans[j]] > TimeOf[scans[i]]
  PROVE  /\ Numbered(Restrict(scans, DOMAIN scans \ {i}))
         /\ Dated(Restrict(scans, DOMAIN scans \ {i}))
<1> DEFINE left == Restrict(scans, DOMAIN scans \ {i})
<1>1. /\ DOMAIN left = DOMAIN scans \ {i}
      /\ \A k \in DOMAIN left : left[k] = scans[k]
  BY DEF Restrict
<1>2. Numbered(left)
  BY <1>1 DEF Numbered
<1> HIDE DEF left
<1>3. /\ Views(left) = Views(scans) \ {2 * i, 2 * i + 1}
      /\ \A v \in Views(left) : v \div 2 \in DOMAIN left /\ left[v \div 2] = scans[v \div 2]
  <2>1. \A v \in Views(left) : /\ v \div 2 \in DOMAIN left
                               /\ v = 2 * (v \div 2) \/ v = 2 * (v \div 2) + 1
    BY <1>1, <1>2, ViewsOfScans DEF Numbered
  <2>2. \A v \in Views(scans) : /\ v \div 2 \in DOMAIN scans
                                /\ v = 2 * (v \div 2) \/ v = 2 * (v \div 2) + 1
    BY ViewsOfScans DEF Numbered
  <2>3. DOMAIN scans \subseteq Nat
    BY DEF Numbered
  <2>4. \A k \in DOMAIN left : /\ 2 * k \in Views(left) /\ 2 * k + 1 \in Views(left)
                               /\ 2 * k \in Views(scans) /\ 2 * k + 1 \in Views(scans)
                               /\ {2 * k, 2 * k + 1} \cap {2 * i, 2 * i + 1} = {}
    BY <1>1, <2>3 DEF Views
  <2>5. \A v \in Views(scans) \ {2 * i, 2 * i + 1} : v \div 2 \in DOMAIN left
    BY <1>1, <2>2
  <2>6. Views(left) \subseteq Views(scans) \ {2 * i, 2 * i + 1}
    <3> SUFFICES ASSUME NEW v \in Views(left)
                 PROVE  v \in Views(scans) /\ v \notin {2 * i, 2 * i + 1}
      OBVIOUS
    <3> DEFINE k == v \div 2
    <3>1. k \in DOMAIN left /\ (v = 2 * k \/ v = 2 * k + 1)
      BY <2>1
    <3> HIDE DEF k
    <3> QED
      BY <2>4, <3>1
  <2>7. Views(scans) \ {2 * i, 2 * i + 1} \subseteq Views(left)
    <3> SUFFICES ASSUME NEW v \in Views(scans) \ {2 * i, 2 * i + 1}
                 PROVE  v \in Views(left)
      OBVIOUS
    <3> DEFINE k == v \div 2
    <3>1. k \in DOMAIN left /\ (v = 2 * k \/ v = 2 * k + 1)
      BY <2>2, <2>5
    <3> HIDE DEF k
    <3> QED
      BY <2>4, <3>1
  <2>8. \A v \in Views(left) : left[v \div 2] = scans[v \div 2]
    BY <1>1, <2>1
  <2> QED
    BY <2>1, <2>6, <2>7, <2>8
<1>4. \A v \in Views(left) : Market(left)[v] = Market(scans)[v]
  BY <1>3 DEF Market, MarketAt
<1>5. \A v, w \in Views(left) : Newer(left, v, w) <=> Newer(scans, v, w)
  BY <1>3 DEF Newer
<1>6. /\ {2 * i, 2 * i + 1, 2 * j, 2 * j + 1} \subseteq Views(scans)
      /\ Market(scans)[2 * i] = Market(scans)[2 * j]
      /\ Market(scans)[2 * i + 1] = Market(scans)[2 * j + 1]
      /\ Newer(scans, 2 * j, 2 * i) /\ Newer(scans, 2 * j + 1, 2 * i + 1)
  <2>1. \A k \in {i, j} : /\ 2 * k \in Views(scans) /\ 2 * k + 1 \in Views(scans)
                          /\ (2 * k) \div 2 = k /\ (2 * k + 1) \div 2 = k
                          /\ Regional(2 * k) /\ ~Regional(2 * k + 1)
    BY ViewsOfScans DEF Numbered
  <2> QED
    BY <2>1 DEF Market, MarketAt, Newer
<1>7. 2 * i # 2 * j /\ 2 * i + 1 # 2 * j + 1
  BY ObservationConstants DEF Numbered
<1>8. ASSUME NEW v \in Views(left)
      PROVE  HasNewest(left, Timeline(left, Market(left)[v]))
  <2> DEFINE S == Timeline(scans, Market(scans)[v])
             T == Timeline(left, Market(left)[v])
  <2>1. v \in S /\ v \in Views(scans)
    BY <1>3 DEF Timeline
  <2>2. PICK x \in S : IsNewest(scans, S, x)
    BY <2>1 DEF Dated, HasNewest
  <2>3. T = S \ {2 * i, 2 * i + 1}
    BY <1>3, <1>4 DEF Timeline
  <2>4. x \in Views(scans) /\ S \subseteq Views(scans)
    BY DEF Timeline
  <2>5. x # 2 * i
    BY <1>6, <1>7, <2>2, <2>4, NewerOrders DEF IsNewest, Timeline
  <2>6. x # 2 * i + 1
    BY <1>6, <1>7, <2>2, <2>4, NewerOrders DEF IsNewest, Timeline
  <2>7. T \subseteq Views(left)
    BY DEF Timeline
  <2> HIDE DEF S, T
  <2>8. IsNewest(left, T, x)
    BY <1>5, <2>2, <2>3, <2>5, <2>6, <2>7 DEF IsNewest
  <2> QED
    BY <2>8 DEF HasNewest, IsNewest, T
<1> QED
  BY <1>2, <1>8 DEF Dated, left

--------------------------------------------------------------------------------
\* Every step of the current backend keeps its part of the invariant.

\* It begins with no scan, hence no market.
LEMMA UnifiedBegins ==
  ASSUME UnifiedInit
  PROVE  UnifiedInv
<1>1. /\ stock = <<>> /\ store.scans = <<>> /\ store.market = <<>> /\ store.latest = {}
      /\ store.quotes = <<>>
  BY DEF UnifiedInit
<1>2. DOMAIN stock = {} /\ DOMAIN store.market = {} /\ DOMAIN store.scans = {}
  BY <1>1
<1>3. Views(stock) = {}
  BY <1>2 DEF Views
<1>4. Market(stock) = store.market /\ Quoting(stock) = store.quotes
  BY <1>1, <1>3 DEF Market, Quoting
<1>5. Latest(stock, Market(stock), store.now) = {}
  BY <1>2, <1>4 DEF Latest, Range
<1>6. UnifiedTypeOK
  BY <1>2, <1>1, UnifiedConstants DEF UnifiedTypeOK, UnifiedInit
<1>7. Numbered(stock) /\ Checked(stock) /\ Dated(stock)
  BY <1>2, <1>3 DEF Numbered, Checked, Dated
<1> QED
  BY <1>1, <1>4, <1>5, <1>6, <1>7 DEF UnifiedInv, Loaded

\* What a container holds that loads these scans (unified.py:56-120).
LEMMA LoadKeeps ==
  ASSUME NEW scans, Numbered(scans), Dated(scans), Load(scans), clock \in 0..MaxClock
  PROVE  /\ store'.scans = scans /\ store'.market = Market(scans) /\ store'.now = clock
         /\ store'.latest = Latest(scans, Market(scans), clock)
         /\ store'.latest \subseteq DOMAIN store'.market
         /\ store'.quotes = Quoting(scans)
<1>1. /\ store'.scans = scans /\ store'.market = Market(scans) /\ store'.now = clock
      /\ store'.latest = Latest(scans, Market(scans), clock) /\ store'.quotes = Quoting(scans)
  BY DEF Load, Market, Quoting
<1>2. DOMAIN Market(scans) = Views(scans)
  BY DEF Market
<1>3. Latest(scans, Market(scans), clock) \subseteq Views(scans)
  BY NewestOfMarket DEF Latest
<1> QED
  BY <1>1, <1>2, <1>3

\* Publishing, retention, restarts and time keep the current backend's invariant.
LEMMA UnifiedSteps ==
  ASSUME UnifiedInv, UnifiedNext \/ UNCHANGED unifiedVars
  PROVE  UnifiedInv'
<1> USE DEF UnifiedInv
<1>1. /\ clock \in 0..MaxClock /\ MaxClock \in Nat /\ nextId \in Nat \ {0}
      /\ \A i \in DOMAIN stock : i < nextId /\ stock[i] \in Captures
  BY UnifiedConstants DEF UnifiedTypeOK
<1>2. ASSUME NEW scans, Numbered(scans), Checked(scans), Dated(scans), Load(scans),
             stock' = scans, clock' = clock, nextId' \in Nat \ {0}, \A i \in DOMAIN scans : i < nextId' /\ scans[i] \in Captures
      PROVE  UnifiedInv'
  <2>1. /\ store'.scans = scans /\ store'.market = Market(scans) /\ store'.now = clock
        /\ store'.latest = Latest(scans, Market(scans), clock)
        /\ store'.latest \subseteq DOMAIN store'.market /\ store'.quotes = Quoting(scans)
    BY <1>1, <1>2, LoadKeeps
  <2>2. clock \in 0..clock
    BY <1>1
  <2>3. UnifiedTypeOK'
    BY <1>1, <1>2, <2>1, <2>2 DEF UnifiedTypeOK
  <2>4. Numbered(stock)' /\ Checked(stock)' /\ Dated(stock)'
    BY <1>2
  <2>5. Loaded'
    BY <1>2, <2>1 DEF Loaded
  <2> QED
    BY <2>3, <2>4, <2>5
<1>3. ASSUME NEW c \in Captures, Publish(c) PROVE UnifiedInv'
  <2>1. nextId \in Nat \ DOMAIN stock
    BY <1>1
  <2> DEFINE scans == With(stock, nextId, c)
  <2>2. Numbered(scans) /\ Checked(scans) /\ Dated(scans)
    <3>1. Valid(c)
      BY <1>3 DEF Publish
    <3>2. Checked(scans)
      BY <3>1 DEF Checked, With
    <3> QED
      BY <2>1, <3>2, PublishDates
  <2>3. \A i \in DOMAIN scans : i < nextId + 1 /\ scans[i] \in Captures
    <3>1. \A i \in DOMAIN stock : i \in Nat
      BY DEF Numbered
    <3> QED
      BY <1>1, <3>1 DEF With
  <2>4. /\ stock' = scans /\ nextId' = nextId + 1 /\ clock' = clock /\ Load(stock')
    BY <1>3 DEF Publish
  <2>5. Load(scans) /\ nextId' \in Nat \ {0} /\ nextId' = nextId + 1
    BY <1>1, <2>4
  <2> HIDE DEF scans
  <2> QED
    BY <1>2, <2>2, <2>3, <2>4, <2>5
<1>4. ASSUME NEW i \in DOMAIN stock, PruneScan(i) PROVE UnifiedInv'
  <2> DEFINE scans == Restrict(stock, DOMAIN stock \ {i})
  <2>1. Numbered(scans) /\ Checked(scans) /\ Dated(scans)
    <3>1. Checked(scans)
      BY DEF Checked, Restrict
    <3> QED
      BY <1>4, <3>1, PruneDates DEF PruneScan
  <2>2. \A k \in DOMAIN scans : k < nextId /\ scans[k] \in Captures
    BY <1>1 DEF Restrict
  <2>3. stock' = scans /\ nextId' = nextId /\ clock' = clock /\ Load(stock')
    BY <1>4 DEF PruneScan
  <2>4. Load(scans) /\ nextId' \in Nat \ {0} /\ nextId' = nextId
    BY <1>1, <2>3
  <2> HIDE DEF scans
  <2> QED
    BY <1>2, <2>1, <2>2, <2>3, <2>4
<1>5. ASSUME RestartContainer PROVE UnifiedInv'
  BY <1>1, <1>2, <1>5 DEF RestartContainer
<1>6. ASSUME stock' = stock, nextId' = nextId, store' = store,
             clock' \in Nat, clock <= clock', clock' <= MaxClock
      PROVE  UnifiedInv'
  <2>1. store.now \in 0..clock' /\ clock' \in 0..MaxClock
    BY <1>1, <1>6 DEF UnifiedTypeOK
  <2>2. UnifiedTypeOK'
    BY <1>6, <2>1 DEF UnifiedTypeOK
  <2>3. Numbered(stock)' /\ Checked(stock)' /\ Dated(stock)'
    BY <1>6
  <2>4. Loaded'
    BY <1>6 DEF Loaded
  <2> QED
    BY <2>2, <2>3, <2>4
<1>7. CASE Tick
  <2>1. clock' = clock + 1 /\ clock < MaxClock
    BY <1>7 DEF Tick
  <2>2. clock' \in Nat /\ clock <= clock' /\ clock' <= MaxClock
    BY <1>1, <2>1
  <2> QED
    BY <1>6, <1>7, <2>2 DEF Tick
<1>8. CASE UNCHANGED unifiedVars
  <2>1. clock' \in Nat /\ clock <= clock' /\ clock' <= MaxClock
    BY <1>1, <1>8 DEF unifiedVars
  <2> QED
    BY <1>6, <1>8, <2>1 DEF unifiedVars
<1> QED
  BY <1>3, <1>4, <1>5, <1>7, <1>8 DEF UnifiedNext

--------------------------------------------------------------------------------
\* Theorems

(***************************************************************************)
(* What importers, resets and the API may count on in MySQL, and what a     *)
(* container holds of its generation (auction_importer.py:452-555,          *)
(* admin_api.py:151-261, unified.py:56-120).                                *)
(***************************************************************************)
THEOREM MarketsInvariant == Spec => []MarketsInv
<1>1. Init => MarketsInv
  BY LegacyBegins, UnifiedBegins DEF Init, MarketsInv
<1>2. MarketsInv /\ [Next]_vars => MarketsInv'
  <2> SUFFICES ASSUME MarketsInv, [Next]_vars PROVE MarketsInv'
    OBVIOUS
  <2>1. /\ backend' = backend
        /\ LegacyNext \/ UNCHANGED legacyVars
        /\ UnifiedNext \/ UNCHANGED unifiedVars
    BY DEF Next, vars
  <2>2. LegacyInv' /\ UnifiedInv'
    BY <2>1, LegacySteps, UnifiedSteps DEF MarketsInv
  <2> QED
    BY <2>1, <2>2 DEF MarketsInv
<1> QED
  BY <1>1, <1>2, PTL DEF Spec

\* Tables, importers, locks, generations and containers keep their types.
THEOREM MarketsTypes == Spec => []TypeOK
<1>1. MarketsInv => TypeOK
  BY DEF MarketsInv, LegacyInv, UnifiedInv, TypeOK
<1> QED
  BY <1>1, MarketsInvariant, PTL

(***************************************************************************)
(* No scan is offered without its listings, whatever imports fail and       *)
(* wherever a reset comes between (auction_importer.py:452-555,             *)
(* admin_api.py:257-261).                                                   *)
(***************************************************************************)
THEOREM OfferedScansWhole == Spec => []CompleteScansAreWhole
<1>1. MarketsInv => CompleteScansAreWhole
  BY DEF MarketsInv, LegacyInv, Whole, CompleteScansAreWhole
<1> QED
  BY <1>1, MarketsInvariant, PTL

(***************************************************************************)
(* A job that is complete stored its file, each scan once, for any number   *)
(* of files that share scans and of importers (admin_api.py:189-196,        *)
(* auction_importer.py:464-476).                                            *)
(***************************************************************************)
THEOREM CompleteJobsTrue == Spec => []JobsAreTrue
<1>1. MarketsInv => JobsAreTrue
  <2> SUFFICES ASSUME LegacyInv, ~torn, NEW i \in DOMAIN jobs,
                      jobs[i].status = "complete", jobs[i].reset = counts.reset,
                      NEW n \in DOMAIN CapturesIn[jobs[i].file]
               PROVE  LET c == CapturesIn[jobs[i].file][n]
                      IN  Cardinality({k \in db.facts : db.scans[k] = c}) = 1
    BY DEF MarketsInv, JobsAreTrue
  <2> DEFINE c == CapturesIn[jobs[i].file][n]
             stored == {k \in db.facts : db.scans[k] = c}
  <2>1. jobs[i].file \in db.snapshots
    BY DEF LegacyInv, Done
  <2>2. reset.at = "idle"
    BY DEF LegacyInv, Tasks, Posted
  <2>3. DOMAIN db.scans = db.facts
    BY <2>2 DEF LegacyInv, Whole
  <2>4. StoredFile(jobs[i].file)
    BY <2>1, <2>2 DEF LegacyInv, Kept
  <2>5. PICK j \in DOMAIN db.scans : db.scans[j] = c
    BY <2>4 DEF StoredFile
  <2>6. stored = {j}
    BY <2>3, <2>5 DEF LegacyInv, Tabled
  <2> HIDE DEF stored
  <2>7. Cardinality(stored) = 1
    BY <2>6, FS_Singleton
  <2> QED
    BY <2>7 DEF stored
<1> QED
  BY <1>1, MarketsInvariant, PTL

(***************************************************************************)
(* An import is refused from when a request took the lock until its task    *)
(* released it, whatever failed in between, and one job is open from when   *)
(* it was queued until its result is told (admin_api.py:189-223).           *)
(***************************************************************************)
THEOREM BusyAlwaysImporting == Spec => []BusyMeansImporting
<1>1. MarketsInv => BusyMeansImporting
  <2> SUFFICES ASSUME Tasks PROVE BusyMeansImporting
    BY DEF MarketsInv, LegacyInv
  <2> DEFINE open == {i \in DOMAIN jobs : jobs[i].status \notin Ended}
  <2>1. Posted => open = {counts.job}
    BY DEF Tasks
  <2>2. ~Posted => open = {}
    BY DEF Tasks
  <2> HIDE DEF open
  <2>3. Cardinality(open) = IF Posted THEN 1 ELSE 0
    BY <2>1, <2>2, FS_Singleton, FS_EmptySet
  <2>4. Posted <=> importer["task"].at \notin {"idle", "posting", "release"}
    BY DEF Posted
  <2> QED
    BY <2>3, <2>4 DEF BusyMeansImporting, Tasks, open
<1> QED
  BY <1>1, MarketsInvariant, PTL

(***************************************************************************)
(* The markets that lists and comparisons are made of share no realm, for   *)
(* any connections and splits, and are those of the catalog that still      *)
(* exist (unified.py:114-120, 197-217).                                     *)
(***************************************************************************)
THEOREM CurrentMarketsAlwaysOnce == Spec => []CurrentMarketsOnce
<1>1. MarketsInv => CurrentMarketsOnce
  <2> SUFFICES ASSUME UnifiedInv PROVE CurrentMarketsOnce
    BY DEF MarketsInv
  <2> DEFINE market == Market(stock)
             newest(m) == Newest(stock, {w \in DOMAIN market : market[w] = m})
  <2>1. /\ store.scans = stock /\ store.market = market
        /\ store.latest = {v \in {newest(m) : m \in Range(market)} :
                             MarketAt(stock, v, store.now) = market[v]}
    BY DEF UnifiedInv, Loaded, Latest
  <2>2. \A m \in Range(market) : newest(m) \in Views(stock) /\ market[newest(m)] = m
    BY NewestOfMarket DEF UnifiedInv
  <2>3. store.now \in Nat
    BY DEF UnifiedInv, UnifiedTypeOK
  <2> HIDE DEF market, newest
  <2>4. ASSUME NEW v \in store.latest, NEW w \in store.latest, v # w
        PROVE  store.market[v].realms \cap store.market[w].realms = {}
    <3>1. /\ MarketAt(stock, v, store.now) = market[v]
          /\ MarketAt(stock, w, store.now) = market[w]
          /\ v = newest(market[v]) /\ w = newest(market[w])
      BY <2>1, <2>2
    <3>2. CASE Regional(v) \/ Regional(w)
      <4>1. market[v].realms = {} \/ market[w].realms = {}
        BY <3>1, <3>2 DEF MarketAt
      <4> QED
        BY <2>1, <4>1
    <3>3. CASE ~Regional(v) /\ ~Regional(w)
      <4>1. /\ market[v] = Resolve(RealmOf[stock[v \div 2]], store.now)
            /\ market[w] = Resolve(RealmOf[stock[w \div 2]], store.now)
        BY <3>1, <3>3 DEF MarketAt
      <4>2. market[v] # market[w]
        BY <2>4, <3>1
      <4> QED
        BY <2>1, <2>3, <4>1, <4>2, MarketsApart
    <3> QED
      BY <3>2, <3>3
  <2>5. ASSUME clock = store.now
        PROVE  store.latest = {m.latest : m \in {m \in Catalog : ~m.archived}}
    <3> DEFINE entry(m) == [latest |-> newest(m),
                            archived |-> MarketAt(stock, newest(m), clock) # m]
    <3>1. Catalog = {entry(m) : m \in Range(market)}
      BY <2>1 DEF Catalog, LatestOf, newest
    <3>2. \A m : /\ entry(m).latest = newest(m)
                 /\ ~entry(m).archived <=> MarketAt(stock, newest(m), clock) = m
      OBVIOUS
    <3>3. store.latest = {newest(m) : m \in
                            {m \in Range(market) : MarketAt(stock, newest(m), clock) = m}}
      BY <2>1, <2>2, <2>5
    <3> HIDE DEF entry
    <3> QED
      BY <3>1, <3>2, <3>3
  <2> QED
    BY <2>4, <2>5 DEF CurrentMarketsOnce
<1> QED
  BY <1>1, MarketsInvariant, PTL
================================================================================
