# A TLA+ model of wow-auction

This directory is the verification project of the repository: TLA+ modules translated
from the source, the TLC configurations that check them on small instances, and theorems
that TLAPS checks for every instance. Paths below are relative to the repository.

## 1. Inventory

A game addon scans the auction house; a Windows runner extracts a snapshot and queues it;
an HTTP service on the host accepts it as a *job*; a host worker imports it into a new
DuckDB *generation* and switches the public site to it.

```
 addon (Lua) --memory/SavedVariables--> collector (Go) --archive--> outbox queue
                                                                       | HTTP
   retention timer ----\                                               v
   dataset.py (CLI) ----+--> job store (files, guard.lock) <---- sync_api (ingress)
                        |         ^
                        |         | polls every 5 s
                        |     sync_worker --docker--> import container --> generation
                        |         |
                        +---------+--> dataset.py: switch / rollback --> Nginx, containers
```

| Component (source) | State | Operations | Hard behaviour | Correct when |
|---|---|---|---|---|
| Job store (`deploy/sync_state.py`) | `job.json` per job, receipt per checksum, the lease `active.json`, `guard.lock` | `active`, `create`, `schedule_retention`, `transition` | several processes; one file written after another; a holder that dies; a lock that does not wait | one job in service; no snapshot accepted twice; receipts and phases never go back |
| HTTP ingress (`deploy/sync_api.py`) | requests suspended at each store call, `snapshot.jsonl.gz` | POST job, PUT snapshot, GET | phase read before the reservation; uploads that outlive their lease; Busy at the commit | a queued job is complete on disk |
| Sync worker (`deploy/sync_worker.py`) | its place in `process`, the import container, the candidate | `tick`, `process`, failure handler | crash between any two effects; container that outlives it; its own transition refused | a failure stays off the config; successes are true; imports start once |
| Dataset switch (`deploy/dataset.py`) | Nginx config, running route, containers, switch records, `publication.json` | `activate`, `switch`, `rollback`, `main` | any command fails, also while reverting; foreign Nginx reloads; two ports | the site stays up; records and receipts are true |
| Retention timer (`deploy/retention_schedule.py`, `retention_policy.py`) | `retention-policy.json` | preview, apply | policy comes between a job's checks | it never displaces a job |
| Artifact collection (`deploy/retention_gc.py`) | job directories, containers, switch records | `collect` | many records, jobs and containers refer to each other; a removal fails half way | nothing a recent rollback or the site needs is deleted |
| Update pipeline (`compact_market/update.py`, `deploy/publish_update.py`) | `current.json`, `status.json`, `update.lock`, receipts of sources | `run_update`, `reconcile`, publish over SSH | lost reply, crash between remote switch and local pointer | what it made public is what its files say; data leaves the site only by retention |
| Generation builder (`compact_market/manage.py`, `sync_import.py`, `build.py`, `jsonl.py`) | the generation: scans, ids, dictionaries | `build`, `stage_generation`, import of one snapshot | ids and dictionaries that are merged and pruned by two sides | an id names one scan for ever; every scan reads back |
| Retention plan (`compact_market/retention.py`) | none | `plan` | window and keep rules at their borders | keeps what the policy says |
| Market store and API (`compact_market/store.py`, `unified.py`, `api.py`, ...) | columns made at load, latest scans, market registry | catalog, lists, listings, compare, history | several ways to the same numbers; realms that are connected and split | answers agree; no realm counted twice |
| Collector outbox (`automation/wow-runner/internal/syncqueue`) | `job.json` per snapshot, archives | `Enqueue`, `Discover`, `Step`, `Run` | lost replies, restart, head-of-line blocking | snapshots are published in order or the log says why not, entries are true; the queue drains |
| Sync HTTP client (`internal/syncapi`, `cmd/sync-once`, `scripts/sync-snapshot.py`) | none | create, upload, status | retries | a retry does not make a second job |
| Snapshot archive and parser (`internal/snapshot`) | archive pair of files | `Archive`, parse, export | crash between the two files | an archive is complete or ignored |
| Collection runner (`internal/runner`) | phase of one collection | wait for plugin, quit, wait for SavedVariables | time limits, late answers | only a finished scan is exported |
| State probe (`cmd/state-probe`) | schedule, cooldown and recovery files | unattended collection | restart, cooldown, recovery of archives | no two collections at once |
| Memory bridge (`game/memory-bridge`) | frames read from another process | scan, receive | torn, lost, repeated frames | a snapshot received is the one sent |
| Scan addon (`game/addons/AuctionSearchExample`) | scan generation, pending items | scan, export | late callbacks and timers of cancelled scans | a late callback changes nothing |
| Import administration (`backend/app/admin_api.py`) | import lock, jobs in memory | import, reset, restart | reset during an import; a lock released by another thread | busy from the request to the task's end, and only then; complete means stored |
| Legacy backend (`backend/app`) | MySQL tables, named database lock | import of a file, market queries | tables dropped under an import; summaries beside rows | an offered scan has its listings; answers agree |
| Screen recognition, configuration, frontend, installation scripts | - | - | none that a model reaches | - |

Components talk through files (store, queue, generations, switch records), HTTP (collector
to ingress), Docker (import containers, data containers), Nginx reloads and, in the game,
memory pages. No two share memory, except threads of one server process.

## 2. What is modelled

| Module | Models | State and actions |
|---|---|---|
| `SyncStore` | `sync_state.py` | One variable per file. `guard` is `guard.lock`: its owner **and the writes it has yet to make**. Each operation (`CreateNew`, `CreateExisting`, `ScheduleRetention`, `Transition`, `ReadActive`, ...) is one step that takes the guard and decides its writes: nobody else can write job files, receipts or the lease meanwhile. The writes (`WriteExpired`, `UnlinkStale`, `WriteJob`, `WriteReceipt`, `WriteLease`, `DropLease`) are separate steps in the code's order, so a crash loses a suffix of them. `Contended` is the non-blocking `flock` failing. `StoreSpec` lets any process do any of it. |
| `SyncIngress` | `sync_api.py` | `request[h]` is where each concurrent request is suspended. `PutSnapshot` reads the phase without the guard, `Reserve`, `StreamComplete`/`StreamFail`, `Commit`, `Abort` follow. |
| `SyncWorker` | `sync_worker.py`, and `dataset.activate` as it sees it | `worker.at` is the place in `tick`/`process`; `container`, `candidate` the import; `live` the Nginx config file and `route` the running Nginx, which differ between a write and a reload and after a reload that failed; `recorded`, `published` what a switch leaves behind; the dataset lock file with the pid it holds. A switch writes the config, reloads, verifies; its revert writes the old config and may fail to load it. |
| `SyncService` | the composition, with `retention_schedule.py` and `dataset.py main` | adds the timer, a command-line switch, deadlines, crashes of each process, pruned containers, reloads of Nginx by others, removal of a dead lock. |
| `SyncOutbox` | `queue.go`, `client.go`, with `SyncIngress` and `SyncStore` underneath | `entry[m]` is `job.json` of a queue directory, `archived` the archives, `outbox` the place of `Run`/`Step` between two writes. `unreadable` are entries whose `job.json` cannot be read for now (`Damage`, `Restore`), `logged` snapshots that the walk or the queue told to leave out. `wire` holds requests on their way, `asked` the request thread whose answer is awaited, `told` answers: a request that was given up may still arrive and act, or be lost by never arriving. One action per branch of `Step`, each saved write a step of its own; `Discover` one archive at a time. Worker and timer are reduced to their store calls. |
| `DatasetSwitch` | `dataset.py` `switch`, `rollback`, `_activate` | the Nginx file and the route of the running Nginx are two variables; one action per command; a command may fail (`Fault`) and the process may die after any step; Nginx may be reloaded by others. |
| `Publication` | the abstract publication | one database served, at most one on trial, confirmed, withdrawn or abandoned; an acknowledgement may be thrown away later. |
| `Generation` | `build.py`, `manage.py stage_generation`, `retention.py plan` | pure operators over a generation `[scan, listing, descriptor, next]`: `Build`, `Merge` (dictionary ids extended past the maximum), `Prune`, the selection rules `Unwanted`, and `Plan` with its days, protected and redundant scans. Recursion is a function, so the module can be used in proofs. |
| `UpdatePipeline` | `update.py`, `publish_update.py`, `dataset.activate` as the updater sees it | `pointer` is `current.json`, `status` is `status.json`, each written in a step of its own; `run.at` is the place in `run_update`; `wire` the activate command on the server, which goes on when the connection is closed; `gen` every generation ever built, with whose it is. The game saves files meanwhile; the server publishes scans and retention of its own. |
| `Observations` | what a scan is: `auction_importer.py` validation and rows, variants of `market_queries.py` | operators both backends share. `ScopeOf[c][item]` is what scan `c` says of an item's market scope: "unknown" where the addon's lookup timed out, so that scans may differ. |
| `LegacyBackend` | `admin_api.py`, `import_auction.py`, `auction_importer.py`, `market_queries.py` | `db` is the committed tables, `importer[p]` where the background task and the command are in `import_snapshot`, with what their transaction has so far; `dbLock` the named MySQL lock, `importLock` the API's: a request takes it before it has a job (`Post`, `Queue`), and the task releases it after its result is told (`Conclude`, `ReleaseLock`); `reset` drops table by table. The queries are operators. |
| `UnifiedMarket` | `unified.py`, `auction_markets.py`, filters of `store.py` | `stock` is the newest generation's scans, `store` what the container made of it at load time, `clock` the date that decides which connected realms exist. The answers are operators. |
| `Markets` | a site with one backend or the other | composes the two, and states what answers must agree on. |

`SyncService` uses `SyncStore` twice: it extends it, and it is proved to implement its
specification (`ImplementsStore`), which carries the store's theorems over to it. `DatasetSwitch`
is proved to implement `Publication` (`ImplementsPublication`) through a refinement mapping.
`SyncOutbox` runs the ingress against its one real client, and is proved to implement
`StoreSpec` as well: with `SyncService` it shares what the second part of `SyncStore_proofs` shows of the requests. The `MC` modules hold only the model values of the runs.

Definitions named `Slip_X` are not part of the model: each is `X` with one mistake the code
could plausibly have made, next to the definition it would replace. `PROJECT.json` pairs
every property with the slip that breaks it.

Abstractions. Wording, timestamps and sizes are left out; a manifest is a model value with a
checksum and a flag for "older than the retention window". Time is the flag `late` per job.
Job ids are fresh (`uuid4`). In `SyncWorker` a switch takes three steps (config, reload,
verify and record) and its revert two; the rest of its inside is `DatasetSwitch`'s business. A
command there writes the config to the seed or to what a job published; reloads are `NginxReload`. A worker exception keeps only its cause's
effect on the state. `DatasetSwitch` collects old jobs only between operations: a retention job
runs then, with the lease. A crash keeps every file: writes are atomic (temporary file, `fsync`,
`rename`). An import container's exit is one of `changed`, `same`, `broken`.

In `UpdatePipeline` one dictionary stands for the two of the code (descriptors, people); the
server's switch is one step, or a failure before or after it (`ActivateFails`), whose inside
is `DatasetSwitch`. `Clear` and `Realign` are what the manual asks of a person
(`AUTOMATIC_UPDATES.md`): they act only when no activate command is in flight, and `Clear`
only after a look at the server. A server rollback to an older generation is left out there.

In `Markets` one region is modelled: every identity begins with its region. `stock` and its
two operations are `Generation` reduced to which scan has which id, with the importer's rule
that a scan is newer than all of its realm. A realm that represents a market is its least. A
job's key is its number instead of a random one; its field `reset` is history, not code: how many
resets there were when it was posted.
Answers are compared when no reset is in progress and no import holds the database lock. Text
search, sort orders other than by price, pages of lists, crafting quality and percentages of
change are left out.

## 3. Runs

Sizes are distinct states.

| Run | Instance | Shows |
|---|---|---|
| `SyncFaults` (1.4M) | 2 jobs, 1 snapshot, 1 command, timer, 1 crash or pruned container | `TypeOK`, `OneJobPerSnapshot`, `FailedOffConfig`, `OneSwitchAtATime`, `SuccessIsTrue`, `ImportStartsOnce`, `LeaseHeld`, `UnknownKeepsOthersOut`, `ImplementsStore`: clients, worker, timer and command, each removing or finding what the others left; the service takes only steps of `StoreSpec`. |
| `SyncLiveness` (409k) | 1 job, 2 crashes, timer, command | `LeaseEnds`, under `LiveSpec`. |
| `OutboxFaults` (1.2M) | 2 snapshots, 2 jobs, 2 requests at once, 1 fault; or one request at a time with 1 thing that cannot be read, or with timer and policy | `TypeOK`, `EntriesAreTrue`, `EntryKeepsRemote`, `OvertakenOnlyLogged`, `QueuedIsComplete`, `ReceiptSticks`, `PhasesAdvance`: what was lost, repeated or answered late neither falsifies an entry, nor replaces a job that may still publish, nor gets an unfinished snapshot in; a newer snapshot is accepted before an older one only when the log told that the older was left out. |
| `OutboxDrains` (192k) | 1 snapshot, 1 job, 1 request at a time, 1 fault, 1 thing that cannot be read | `QueueDrains`, under `SyncOutbox!LiveSpec`. |
| `SwitchFaults` (653k) | 3 generations, 4 switches, collection of old jobs, 2 faults | `TypeOK`, `SiteIsServed`, `RevertedStaysDown`, `ReceiptsAreTrue`, `CollectionIsSafe`, `OneServerPerGeneration`, `RecordsAreTrue`, `ImplementsPublication`. |
| `Updates` (382k) | 6 scans of 4 realms, 2 files, 4 generations, 3 faults | `TypeOK`, `ServedIsTracked`, `ReceiptMeansImported`, `ScansStay`, `IdsAreForever`, `ScansRestore`. |
| `Markets` (317k) | 8 scans of 3 realms, 4 kinds of item, 3 files, 2 jobs, 1 command, 1 reset, 2 accidents; 2 realms connected and split | `TypeOK`, `CompleteScansAreWhole`, `JobsAreTrue`, `BusyMeansImporting`, `LegacyAnswersAgree`, `CurrentMarketsOnce`, `UnifiedAnswersAgree`, `HistoryIsNewest`. |
| `SyncHalfRevert` | 1 job, no crash, no command | violated: see findings. |
| `SyncOrphan` | 2 jobs, 1 crash, 1 timer run | violated: see findings. |
| `SyncCommandRace` | 1 job, 1 crash, 1 command | violated: see findings. |
| `SwitchOldRollback` | 3 switches, no fault | violated: see findings. |
| `SwitchPortLeak` | 2 switches, 1 fault | violated: see findings. |

*Bounds.* Two jobs are one that is in service and one that wants to be, which every
property about pairs needs; a third repeats the roles. `MaxFaults` counts crashes and pruned
containers: one crash can hit any of the steps, two also the recovery from the first (used
where the instance allows). `MaxTimers` and `MaxCommands` bound how often somebody outside
acts. Four switches let both ports be used twice and a rollback name an older one;
`MaxFaults = 2` in `DatasetSwitch` is a failure and a second one while reverting it.

In `Updates` four generations are the seed and three that updater and server build in any
order: enough for one side to overtake the other twice, and for ids to be given after a
pruning. With `PerDay = Cap = 1` retention has something to prune at once; the scans share
descriptors, so that a dictionary entry is kept by one scan while another leaves. Contents 3
and 4 let a file be saved again between its hash and its archive. In `Markets` the scans have
each case a query treats separately: a commodity of the region, raid items with two
difficulties and with none, pets of two variants, scans that did not learn the scope of an item
that others call the region's or the realm's, listings without
a price, a cage whose pet is not known beside one whose is, an invalid scan, a scan in two files,
two scans of a realm in one second; realms 1 and 2 are connected from time 2 to 4,
with scans before, during and after. `HistoryLimits` 1 to 3 are below, at and above the number
of markets. `KeptJobs = 0` forgets an ended import job when the next is posted, where the code
keeps 19 (`admin_api.py:221`): forgetting happens in the run, and more would only be kept longer.

In `SyncOutbox`, `MaxFaults` counts crashes of collector or ingress, broken connections,
damaged files and failed writes; `MaxMisreads` counts what cannot be read for a while: a
`job.json`, an archive, a directory of the walk. `Run` only logs these and steps the queue it has
(`queue.go:286`, `310-313`), so the order that the comment at `queue.go:324` means to keep is not
always kept: the older snapshot's entry is locked or damaged for a moment, or the walk that would
have enqueued it ends early, and the newer one is uploaded first. TLC finds both when "or was
logged" is taken out of `OvertakenOnlyLogged`. That property says what does hold: a snapshot is
overtaken only after the log told that it, or the walk that would have reached it, failed,
whatever crashes or is lost. `OutboxFaults` takes three instances together (`MCBounds`): messages
(`MCMessages`: two requests at once, no unreadable files), files (`MCFiles`: one request at a
time, in time; a fault besides is the failed enqueue of the older snapshot) and retention
(`MCRetention`: one snapshot, one request at a time; with a fault only uploads in time). The first two
end when the newest snapshot's job is accepted: the order of the two is decided then. `Discovered` says that at most one
archive is made between two walks: walks come every minute, a collection takes longer. When
all job ids are used a create is refused and `QueueDrains` excuses the snapshot (`Exhausted`);
with one job it is therefore about lost, late and repeated messages and crashes, and jobs
replaced after a failure are the business of `OutboxFaults`.

*Stopping.* The runs of `DatasetSwitch`, `UpdatePipeline` and `Markets` set `CHECK_DEADLOCK
FALSE`: when their bounds are used up nothing is left to do. The service never stops and is
checked for deadlock: the worker's tick is always possible again once the guard is left.

*Fairness* (`SyncService!Fairness`). Weak fairness of the guard holder's writes and exit, of
the worker once it has begun a pass, of accepted requests (a request's own 600 s limit ends a
stalled upload), of
deadlines, and of a timer or command past its first step. Docker and Nginx answer, but
`docker wait` has no time limit (`sync_worker.py:83`): nothing makes an import end, and the worker is
not assumed to move while it waits for one (`WorkerWaits`). Strong fairness only of the
worker's tick: it is tried every 5 s (`sync_worker.py:160-163`), while the guard is held for
some file writes. `WorkerMeetsBusy` adds that the worker does not lose that race for ever in the
middle of a pass: without it a pass could be refused at the same place each time. Clients, the
timer, commands and the administrator are not assumed to do anything: no fairness for POST,
PUT, `TimerStart`, `CliStart`, `RemoveDeadLock`.

`SyncOutbox!Fairness`: `Run` loops every 5 s with a walk every minute, so both a walk and a
step of the oldest entry are taken if they are possible again and again; what `Step` has begun
is finished; the ingress takes a request that is awaited; the worker moves its jobs. Nothing
is assumed of `EnqueueNew`: the walk alone must repair a lost enqueue. `QueueDrains` lets a
snapshot wait for a person (`attention`, `publication_unknown`, or refused for its age by
`create`, which `Step` retries for ever) and whatever is newer wait behind it; and for an entry
that stays unreadable, at which every walk ends. The timer takes
no lease in this run: after finding 1 the queue's head would keep its remote id and be refused.

`LeaseEnds` allows two other ends. One is `publication_unknown`: the code keeps that lease until a
person finds out what is served, and the document says so (`SNAPSHOT_SYNC_API.md:67`). The other
is an import that runs for ever: its job keeps the lease, and nothing in the code ends it.

*Symmetry* (over the jobs, over the request threads in `SyncOutbox`, over the generations in
`SwitchFaults`) is used only in runs without liveness properties.

## 4. Findings

1. **A job offered that never expires** (`SyncOrphan`, `sync_state.py:109`). `create` writes
   the receipt before the lease. If the ingress dies between them, and a retention job takes
   the lease, a repeated POST is answered with the first job, which has no lease; only the
   lease holder is ever expired. `SNAPSHOT_SYNC_API.md:69` says it fails when the lease ends.
2. **A command switches while a job has the lease** (`SyncCommandRace`, `sync_state.py:96`).
   The branch that re-activates a previous job does not look at the dataset lock.
3. **An old rollback undoes a newer publication** (`SwitchOldRollback`, `dataset.py:256`). The
   config hash alternates between two values, so after two more publications the oldest
   rollback record matches again.
4. **A container that was not stopped blocks the next publication** (`SwitchPortLeak`,
   `dataset.py:241`). It keeps the port that the next switch always chooses.
5. **A failed job that is served** (`SyncHalfRevert`, `sync_worker.py:142`). A revert restores the
   config file and can then fail in `nginx -t` or the reload (`dataset.py:228-230`), with the
   candidate still up. The handler looks at the file, takes the old data to be served and
   fails the job (149). What holds is `FailedOffConfig`: the next reload takes the data away.

## 5. Proofs

`SyncStore_proofs` proves, for any finite or infinite sets of jobs, manifests, checksums and
processes and any number of crashes, from `StoreConstants` alone:

| Theorem | States |
|---|---|
| `StoreInvariant` | `StoreSpec => []IInv` |
| `StoreTypes` | `StoreSpec => []StoreTypeOK` |
| `LeaseAlwaysHeld` | `StoreSpec => []LeaseHeld` |
| `SnapshotsAcceptedOnce` | `StoreSpec => []OneJobPerSnapshot` |
| `ReceiptsAlwaysStick` | `StoreSpec => ReceiptSticks` |
| `PhasesAlwaysAdvance` | `StoreSpec => PhasesAdvance` |

`LeaseHeld` and `OneJobPerSnapshot` speak of files, but a guard holder decides its writes
from one state of the files and makes them in later ones. So neither is inductive: the
invariant must say of every write still pending that it will be right when it is made.
`IInv` has one conjunct for each kind of pending write (`Expiring`, `Unlinking`, `Saving`,
`Binding`, `Leasing`, `Dropping`), with `HolderBound` (the lease holder is the job its
checksum's receipt names) and `AcceptedBound` (so is every accepted job), from which
`OneJobPerSnapshot` is immediate. There is one lemma per write and per call; `NextInv` joins
them; `ReceiptStep` and `PhaseStep` read the two action properties off `IInv`. TLC confirmed
`IInv` on `StoreSpec` before the proof.

The second part of `SyncStore_proofs` holds what both users of the ingress need: every step of a request is a
step of the store by a request thread, and keeps the ingress's own part of the invariant.

`SyncService_proofs` proves of the composed service, for any jobs, snapshots, request threads,
and any bounds on crashes, timers and commands:

| Theorem | States |
|---|---|
| `ServiceInvariant` | `Spec => [](IInv /\ SvcInv)` |
| `ServiceUsesStore`, `ServiceImplementsStore` | `Spec => ImplementsStore`, `Spec => StoreSpec` |
| `ServiceKeepsStore` | `LeaseHeld`, `OneJobPerSnapshot`, `ReceiptSticks`, `PhasesAdvance` hold of the service |
| `ServiceTypes` | `Spec => []TypeOK` |
| `QueuedAlwaysComplete` | `Spec => []QueuedIsComplete` |
| `SwitchesExclude` | `Spec => []OneSwitchAtATime` |
| `FailedAlwaysOffConfig` | `Spec => []FailedOffConfig` |
| `SuccessAlwaysTrue` | `Spec => SuccessIsTrue` |
| `ImportsStartOnce` | `Spec => ImportStartsOnce` |
| `UnknownExcludes` | `Spec => UnknownKeepsOthersOut` |

It assumes `StoreConstants`, `IngressConstants`, `WorkerConstants` and `ServiceConstants`: the
request threads, the worker, the timer and the command are different processes. That the
service takes only steps of the store is not a matter of its steps alone: `Transition` is
given a job and new content, and only what the caller read earlier says that the job is real
and the content follows from it. `SvcInv` therefore has a part for what each process read
before it acts, and a part for the job file a guard holder has decided on and not yet written:

- `Present`: a job with a lease, a receipt or a manifest has a file.
- `Bound`, `Staged`: the worker's job and, at each place of a pass, its phase as it is *or as
  the pending write will make it* (`Due`), the base it compared, its switch record, its receipt.
- `Fated`: the failure handler's verdict (`failed`, `publication_unknown`) still fits when it is
  written, although the config was looked at earlier.
- `Pending`: a pending file that says `succeeded`, `failed` or a base will be right when written.
- `Records`, `Locks`: what is served, recorded and receipted agrees with the job files; whoever
  works under `dataset-switch.lock` wrote it; an open command saw no publishing job.
- `Containers`, `Uploads`: a container not started wrote nothing; a request past its reservation
  has a job; one about to commit has its file on disk.

One lemma per action shows that it keeps `SvcInv`, one that it is a step of the store or
leaves the store alone, so that `IInv` is kept by the store's own lemmas. The action
properties then follow from the invariant and single steps. TLC confirmed `SvcInv` on the
instance of `SyncFaults` before the proof.

`SyncOutbox_proofs` proves of the collector, its requests and the ingress, for any snapshots,
jobs, request threads and bounds, from `StoreConstants`, `IngressConstants` and
`OutboxConstants`:

| Theorem | States |
|---|---|
| `OutboxInvariant` | `Spec => []OutInv` |
| `OutboxImplementsStore` | `Spec => StoreSpec` |
| `OutboxKeepsStore` | `LeaseHeld`, `OneJobPerSnapshot`, `ReceiptSticks`, `PhasesAdvance` hold under this client |
| `OutboxTypes` | `Spec => []TypeOK` |
| `RetriesQueueComplete` | `Spec => []QueuedIsComplete` |
| `EntriesAlwaysTrue` | `Spec => []EntriesAreTrue` |
| `OvertakenAlwaysLogged` | `Spec => []OvertakenOnlyLogged` |
| `RemoteAlwaysKept` | `Spec => EntryKeepsRemote` |

Three files tell of one job (the queue's entry, the job, the receipt), and between them
requests travel that nobody may be waiting for any more. `OutInv` adds to the store's `IInv`:

- `Entries`: an entry's remote job has its snapshot; an entry that was given up has used its
  last attempt.
- `Working`: what `Step` may count on at each of its places; the answer it holds is true of its
  snapshot's job (`TrueOf`), and stays true when it is saved two writes later.
- `Wired`: at most one request on its way is awaited, and it is for what the queue works on.
  The others may still arrive: they say only which job and snapshot they are for.
- `Asked`, `Answers`: what a request thread will answer is about the snapshot it was asked for
  (`About`), even before the job file is written (`Promised`), and true (`Truthful`).
- `Walks`: archives that the last walk did not see are the newest.
- `Chronology`: whatever has got as far as an upload, a request, a job file or a pending write
  has only snapshots before it that are published or were told to be left out (`Ahead`).

`OvertakenOnlyLogged` needs the whole of `Chronology`: an accepted job was a request once, and
the order was decided when the request was made, from the entries that could be read then. It
has no hypothesis about walks or files. TLC confirmed `OutInv` on small
instances of it, with `MaxMisreads` 0 and 1, before the proof.

`UpdatePipeline_proofs` proves `PublicationsTracked`: `Spec => []ServedIsTracked`, for any
files, contents, scans and numbers of generations, with no assumption on the constants. Whatever of the
updater's the site serves, `current.json` or the unresolved part of `status.json` names. The
two files are written one after the other, and the server goes on after the connection is
lost, so the invariant follows one publication through its places: `Quiet` (nothing
unresolved before anything is sent), `Sending` (from then on the pending generation is the
one sent), `BaseKept`, `Unsent` (no receipt without sending), `InFlight` (a command on the server
is for the pending generation, or comes too late), `Delivered`, and `Settled` (once the pending one
has its receipt, no other of the updater's is served). `Listed` and `Shaped` are the types it
needs. TLC confirmed the invariant on the instance of `Updates`.

`Generation_proofs` proves what the operators of a generation do, for any scans, descriptors and
ids, from `GenerationConstants`. A generation is `Sound` if its ids are below its next one
(`Numbered`) and each scan's listings and dictionary entries together read as the scan was
recorded (`Readable`). `Follows(h, g)`: an id of `h` names what it named in `g`, or was given
since. `Extends(h, g)`: moreover none of `g`'s scans is gone.

| Theorem | States |
|---|---|
| `BuildSound` | what `Build` makes of a finite set of scans is `Sound` and stores just these |
| `MergeSound` | `Merge(g, h)` of two sound ones is `Sound`, extends `g` and has the scans of both |
| `PruneSound` | `Prune` leaves a `Sound` generation that follows the old one and has the scans it was to keep |
| `RetentionKeepsNewest` | a scan that `Plan` drops within the window leaves one of its market and day, not older |

The prover cannot instantiate the library's induction theorems. `Build` numbers scans by rank, and the lemma that a rank
is a bijection (`RankBijects`) also gives a finite set of numbers its greatest element; where
the merging of several files is a loop, the smallest step at which a property fails takes the place
of induction.

`UpdatePipeline_proofs` uses them for the data the pipeline moves, from `GenerationConstants` and
`UpdateConstants` (a saved file and the seed have finitely many scans):

| Theorem | States |
|---|---|
| `PipelineTypes` | `Spec => []TypeOK` |
| `ReceiptsMeanImported` | `Spec => []ReceiptMeansImported` |
| `IdsNeverReused` | `Spec => []IdsAreForever` |
| `ScansAlwaysRestore` | `Spec => []ScansRestore` |
| `ScansLeaveByRetention` | `Spec => ScansStay` |

Their invariant, `DataInv`, follows data through files and memory that go out of date at
different times. `AllSound`: every generation ever built is. `PointersHonest`: `current.json`, the
pending pointer in `status.json` and the one a run read at its start each name a generation that
extends what was last published and holds every file that their receipts speak of as it is now;
the game may save a file at any time, which makes a receipt old but never wrong. `Reading`: while
files are hashed and archived, what a receipt of the run promises is in the base, among the
changed contents, or about to be archived (`Seen`). `Staged`: from then on it is in the new
generation. `WireExtends`: an activate command, however late, replaces a generation only by one
that extends it, which is what `ScansStay` needs. `ServedFollows`: what is served follows
everything shown before it, which makes `IdsAreForever` inductive. TLC confirmed the parts on the
instance of `Updates` before the proof.

`DatasetSwitch_proofs` proves of the switch, for any set of generations and any numbers of
switches, failed commands, crashes and foreign reloads, from `SwitchConstants` alone:

| Theorem | States |
|---|---|
| `SwitchInvariant` | `Spec => []IInv` |
| `SwitchTypes` | `Spec => []TypeOK` |
| `SiteAlwaysServed` | `Spec => []SiteIsServed` |
| `RevertedAlwaysDown` | `Spec => []RevertedStaysDown` |
| `ReceiptsAlwaysTrue` | `Spec => []ReceiptsAreTrue` |
| `CollectionAlwaysSafe` | `Spec => []CollectionIsSafe` |
| `OneServerAlways` | `Spec => []OneServerPerGeneration` |
| `RecordsAlwaysTrue` | `Spec => RecordsAreTrue` |
| `SwitchImplementsPublication` | `Spec => ImplementsPublication` |

`IInv` is `TypeOK`, `SiteIsServed`, and two parts. `Files` speaks of what outlives operations:

- `Records`: a record's previous container is on the other port and was made for the data its own
  generation was built from, and was never reverted.
- `PortOfDb`: all containers ever made for a generation were given one port. A generation is
  switched to only from the data it was built from, and takes the port opposite to that, so the
  port follows from the generation alone. This is why `OneServerPerGeneration` holds: with
  `OnePerPort` (two running containers have different ports) it leaves room for one.
- `Made`: what a container is, and its place, is what its record says, and what runs exists.
- `RevertedStaysDown`, `ReceiptsAreTrue` and `CollectionIsSafe` themselves.

`Working` speaks of the running operation at each place: `Statuses` (what its record says),
`Routed` (which port the config names, and where the running route surely follows it: not after
a write until the reload, as anybody may reload Nginx), `Flags` (`started` and `changed` tell
the truth to the failure handler), `Served` (which of the two containers run), `Uncollected`
(what is yet to be started is still on disk). `CollectionIsSafe` alone says nothing of a
candidate between its record and its start. One lemma per action keeps `IInv`.

The refinement maps the database behind `config` to what is served, and the candidate of an
operation that has written the config and not yet concluded to what is on trial. `QuietSteps` to `CollectSteps` take the actions
in groups, most of them stutters, and say which abstract step each is; `PublicationStep` joins
them. TLC confirmed `IInv` on the instance of `SwitchFaults` before the proof.

`Markets_proofs` proves of both market backends, for any scans, files, connections of realms and
bounds, from `ObservationConstants` (a missing amount is no number, a scan has finitely many
rows, their fields are integers and each scan calls an item's scope "region", "realm" or
"unknown", as `auction_importer.py:208-250` reads them; two scans need not agree), `LegacyConstants` (a file is a sequence of scans; no
word is `None`), `UnifiedConstants` (a realm is a positive number, `auction_markets.py:28-33`, and
never in two connections at once, which the registry's own check demands) and `MarketsConstants` (an
answer has at least one point, `unified.py:538`):

| Theorem | States |
|---|---|
| `MarketsInvariant` | `Spec => []MarketsInv` |
| `MarketsTypes` | `Spec => []TypeOK` |
| `OfferedScansWhole` | `Spec => []CompleteScansAreWhole` |
| `CompleteJobsTrue` | `Spec => []JobsAreTrue` |
| `BusyAlwaysImporting` | `Spec => []BusyMeansImporting` |
| `CurrentMarketsAlwaysOnce` | `Spec => []CurrentMarketsOnce` |

`LegacyInv` says what an importer and a reset, which share no lock, leave each other. Tables that
an open transaction uses cannot be dropped (`Transaction`), so what it read of them, which scans
were there, holds until it commits; it is therefore the only one who can store a scan, and stores
none twice (`Tabled`). Scans, rows and snapshots fall out of step only between two drops of a reset
or after one that was cut short (`Whole`, `Kept`: at which places each holds), the API's lock is held
from the request to the task's last step, with an open job in between (`Tasks`), and a job's word
is about the tables only if no reset began since it was posted (`Done`).

`UnifiedInv` says that the container holds what the newest generation says (`Loaded`), that what
was published is valid (`Checked`) and that each market has a newest view (`Dated`). This would be an induction over the scans, were it
not kept step by step: a new scan either is newer than the newest view of its market or leaves it
(`PublishDates`), and retention takes a scan only when a newer one of its market stays
(`PruneDates`). That current markets have no realm in common is then a fact about connections
at one time (`MarketsApart`). TLC confirmed both invariants on the instance of `Markets`.

`MarketAnswers_proofs` proves what the two APIs answer, under the same assumptions:

| Theorem | States |
|---|---|
| `HistoryAlwaysNewest` | `Spec => []HistoryIsNewest` |
| `UnifiedAnswersAlwaysAgree` | `Spec => []UnifiedAnswersAgree` |
| `ScansAlwaysVetted` | `Spec => []Vetted`: each stored scan passed the validation |
| `LegacyAnswersAlwaysAgree` | `Spec => []LegacyAnswersAgree` |

These answers count, sum, sort, page and loop over all rows. Induction comes from one theorem of
the library without an operator parameter, `WFMin`: of a set of finite sets one is minimal. From it
follow `FiniteInduction`, stated with the set of the subsets that have a property, and:

- *Sums.* `SumIs`, `SumSplits`: the fold of the community module is the recursion over subsets
  that its definition hides in a `CHOOSE`, and an element can be taken out of it, whichever the fold
  takes first. `SumOfCounts` counts a set by its parts.
- *Sorting.* `SortedIs`: the n-th is the one with n - 1 before it, and each has its own place.
- *Loops.* `Recursion`: a function that is defined by recursion up to n has its equations. So
  `FillBest` can follow `Fill` one point at a time: what is chosen so far are the newest of all
  windows, besides their first ones.

`HistoryAlwaysNewest` is `FillBest` at the end of the loop. For `UnifiedAnswersAlwaysAgree`, let a
place be what a row across markets stands for. The latest views that have the item and are
in that place are the ones compared (`ComparedIs`); the row's count is the sum of their counts, so the
number of listings behind it (`ListingsAddUp`); the cheapest listing has the price of the cheapest
view (`FirstPiece`); every view is on one of the pages of the history (`PagesCover`), and its window
ends with itself (`OwnWindow`), so that the last points of all pages are the comparison again
(`HistoriesMerge`). Summing over views and over places counts the same listings (`CountedByScan`,
`CountedByGroup`), which is the status page's number.

A row's scope is that of one scan, and its markets are those whose scans say the same (`unified.py:449`).
Comparison and merged history do not look at the scope (546, 653-658). The addon writes
"unknown" when a lookup times out (`AuctionSearchExample.lua:276-287`, `432-437`), so that scans of
two markets may differ about an item; then the comparison shows markets that the row does not
count. `UnifiedAnswersAgree` compares the row with those markets of the comparison that have its scope,
and the comparison with the merged history in full. Documents ask that scopes are
not mixed only for the list and the listings behind a row (`UI_GUIDELINES.md:66`), which keep to it,
so this is no finding.

`LegacyAnswersAlwaysAgree` needs that what is stored was validated: the file is
checked before the transaction begins, and what it has so far is not visible to others, so
`Vetted` is an invariant of its own that rests on `LegacyInv`. Between resets the tables are
then `Held`, and a row of a list is `Shown`: the rows its page asks for are those it was made of
(`SummaryParts` for a summary, which was made from the file's rows and not from the stored
ones), and it is the one point of its scan in its history. `TrailIs` and `HistoryShows` put that
point last, `CountShown` counts items and variants of pets, `RegionOnce` uses that no two scans
are each newer than the other: it is about the scans that call an item the region's, since one that
did not learn its scope lists it for its realm, beside the region's row (`market_queries.py:799-804`). Two proof attempts changed the property. Two accounts may scan a realm
in the same second; then the later scan's point follows, and `RowAgrees` says so. A cage whose pet
is not known (`auction_importer.py:250` reads a missing creature as 0) has a row of its own,
whose page, asked for without a creature, lists every other cage too (`market_queries.py:1181`): the
importer does not refuse such a scan, so that the row is excepted instead of assumed away. `Markets`
has an instance of both.

Only model-checked: liveness (`LeaseEnds`, `QueueDrains`), which the prover cannot reach.

## 6. Not modelled, and why

Authentication, field validation and HTTP wording; `status.json` of the server (monitoring
only); the catalog comparison inside `verify_market_api` (one success or failure); SQL as such,
rendering, image recognition and Windows calls. A file system that loses an acknowledged
`fsync` is not considered.

- *Memory bridge and addon* (`game/`): frames are accepted by checksum, which a model would
  have to take as perfect, and the order of callbacks is the game client's. Two hazards of
  theirs are listed without a property.
- *Collection runner, state probe, screen recognition*: scripts over windows and images. What
  they leave behind, archives and saved files, is input of `SyncOutbox` and `UpdatePipeline`.
- *`MarketStore`'s own answers* (`store.py`, `history.py`): the engine before
  `UnifiedMarketStore`; the shared filter of listings is modelled.
- *`auction_cache.py`*: nothing imports it.
- *Frontend, installation, icons, benchmark*: no state that the rest depends on.

## 7. What could follow

- `SyncWorker`'s switch and `UpdatePipeline`'s one shown to be a `Publication`, so
  that they meet `DatasetSwitch` at one abstract specification.
