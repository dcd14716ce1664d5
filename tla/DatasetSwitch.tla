----------------------------- MODULE DatasetSwitch -----------------------------
(***************************************************************************)
(* The blue/green data switch of deploy/dataset.py: activate publishes a    *)
(* generation through a candidate container on the other of two ports,      *)
(* rollback undoes a recorded switch.  Operations run one at a time (the    *)
(* dataset lock, see SyncService), but each step leaves durable state       *)
(* behind (the Nginx config, containers, switch records, receipts), any     *)
(* command may fail, and the process may die between any two steps.  A      *)
(* retention job collects the files of old jobs (deploy/retention_gc.py).   *)
(***************************************************************************)
EXTENDS Naturals

CONSTANTS
  Generations,  \* databases that are built to be published
  First,        \* the database served at first
  NoDb,
  MaxSwitches,  \* bound: switches begun, each with its record and container
  MaxFaults     \* bound: commands that fail and processes that die

ASSUME SwitchConstants ==
  /\ First \notin Generations /\ NoDb \notin Generations \cup {First}
  /\ MaxSwitches \in Nat /\ MaxFaults \in Nat

Ports == {8180, 8181}
OtherPort(p) == IF p = 8180 THEN 8181 ELSE 8180

Switches == 1..MaxSwitches
Containers == 0..MaxSwitches  \* the container of switch n is n; 0 served first

VARIABLES
  config,     \* the port the Nginx config file names
  route,      \* the port the running Nginx uses: config as of its last reload
  container,  \* each container's port, database and whether it runs
  record,     \* the switch records of the backup directory
  receipt,    \* generations with a publication.json
  expired,    \* switches up to this one are older than the rollback window
  reclaimed,  \* generations whose job's files were collected
  base,       \* the database each generation was built from
  op,         \* the running operation: its place, switch, and flags
  faults

vars == <<config, route, container, record, receipt, expired, reclaimed, base, op, faults>>
collected == <<expired, reclaimed>>

Built == Generations \cup {First}

ContainerRecord == [port : Ports, db : Built \cup {NoDb}, running : BOOLEAN]

SwitchRecord ==
  [status : {"none", "preparing", "active", "failed_and_reverted", "rolled_back"},
   port : Ports, db : Built \cup {NoDb}, previous : Containers]

SwitchPlaces == {"run", "ready", "write", "reload", "verify", "record", "stop", "receipt"}
RevertPlaces == {"revert", "unload", "discard", "reverted"}
RollbackPlaces == {"restart", "healthy", "undo", "undoload", "undoverify", "undone", "retire",
                   "redo", "redoload"}

Operation == [at : {"idle"} \cup SwitchPlaces \cup RevertPlaces \cup RollbackPlaces,
              switch : Containers, started : BOOLEAN, changed : BOOLEAN]

Idle == [at |-> "idle", switch |-> 0, started |-> FALSE, changed |-> FALSE]

\* Every variable has its type (the other properties rest on it).
TypeOK ==
  /\ config \in Ports /\ route \in Ports
  /\ container \in [Containers -> ContainerRecord]
  /\ record \in [Switches -> SwitchRecord]
  /\ receipt \subseteq Generations
  /\ expired \in 0..MaxSwitches /\ reclaimed \subseteq Generations
  /\ base \in [Generations -> Built \cup {NoDb}]
  /\ op \in Operation
  /\ faults \in 0..MaxFaults

Init ==
  /\ config = 8180 /\ route = 8180
  /\ container = [c \in Containers |->
       IF c = 0 THEN [port |-> 8180, db |-> First, running |-> TRUE]
                ELSE [port |-> 8180, db |-> NoDb, running |-> FALSE]]
  /\ record = [n \in Switches |-> [status |-> "none", port |-> 8180, db |-> NoDb, previous |-> 0]]
  /\ receipt = {}
  /\ expired = 0 /\ reclaimed = {}
  /\ base = [g \in Generations |-> NoDb]
  /\ op = Idle
  /\ faults = 0

--------------------------------------------------------------------------------

Behind(port) == {c \in Containers : container[c].running /\ container[c].port = port}
Serves(port, db) == \E c \in Behind(port) : container[c].db = db

Current == record[op.switch]
At(place) == op.at = place
GoTo(place) == op' = [op EXCEPT !.at = place]
End == op' = Idle

Set(n, status) == record' = [record EXCEPT ![n].status = status]
Start(c) == container' = [container EXCEPT ![c].running = TRUE]
Stop(c) == container' = [container EXCEPT ![c].running = FALSE]

\* A docker, nginx or HTTP command fails where it could have succeeded.
Fault == faults < MaxFaults /\ faults' = faults + 1
NoFault == UNCHANGED faults

\* It fails: because it must, or else as one of the faults.
Fails(possible) == IF possible THEN Fault ELSE NoFault

--------------------------------------------------------------------------------
\* Outside this module: a generation is built on what the config serves, and
\* Nginx is reloaded for reasons of its own (certificates, log rotation).

Build(g) ==
  /\ At("idle") /\ base[g] = NoDb
  /\ \E c \in Behind(config) : base' = [base EXCEPT ![g] = container[c].db]
  /\ UNCHANGED <<config, route, container, record, receipt, op, faults, collected>>

NginxReload ==
  /\ route # config /\ route' = config
  /\ UNCHANGED <<config, container, record, receipt, base, op, faults, collected>>

--------------------------------------------------------------------------------
\* _activate.  With a receipt it only compares and returns.

Slip_Recover(g) ==  \* that g is served is taken for its publication
  /\ At("idle")
  /\ g \notin receipt /\ Serves(config, g)
  /\ receipt' = receipt \cup {g}
  /\ UNCHANGED <<config, route, container, record, base, op, faults, collected>>

\* The receipt of a finished switch was not written: find its record.
Recover(g) ==
  /\ At("idle")
  /\ g \notin receipt /\ Serves(config, g)
  /\ \E n \in Switches : record[n].status = "active" /\ record[n].db = g
  /\ receipt' = receipt \cup {g}
  /\ UNCHANGED <<config, route, container, record, base, op, faults, collected>>

Slip_Prepare(g, n) ==  \* the base is not compared with what is served
  /\ At("idle")
  /\ g \notin receipt \cup reclaimed /\ base[g] # NoDb
  /\ record[n].status = "none" /\ \A k \in 1..(n - 1) : record[k].status # "none"
  /\ \E c \in Behind(config) :
       record' = [record EXCEPT ![n] = [status |-> "preparing", port |-> OtherPort(config),
                                        db |-> g, previous |-> c]]
  /\ op' = [Idle EXCEPT !.at = "run", !.switch = n]
  /\ UNCHANGED <<config, route, container, receipt, base, faults, collected>>

\* switch(): all checks pass and the record is saved as 'preparing'.
Prepare(g, n) ==
  /\ At("idle")
  /\ g \notin receipt \cup reclaimed /\ base[g] # NoDb
  /\ record[n].status = "none" /\ \A k \in 1..(n - 1) : record[k].status # "none"
  /\ \E c \in Behind(config) :
       /\ container[c].db = base[g]
       /\ record' = [record EXCEPT ![n] = [status |-> "preparing", port |-> OtherPort(config),
                                           db |-> g, previous |-> c]]
  /\ op' = [Idle EXCEPT !.at = "run", !.switch = n]
  /\ UNCHANGED <<config, route, container, receipt, base, faults, collected>>

\* docker run fails while another running container has the port.
RunCandidate ==
  /\ At("run")
  /\ \/ /\ Behind(Current.port) = {} /\ NoFault
        /\ container' = [container EXCEPT ![op.switch] =
                           [port |-> Current.port, db |-> Current.db, running |-> TRUE]]
        /\ op' = [op EXCEPT !.at = "ready", !.started = TRUE]
     \/ Fails(Behind(Current.port) = {}) /\ GoTo("revert") /\ UNCHANGED container
  /\ UNCHANGED <<config, route, record, receipt, base, collected>>

\* wait_ready; the config is still the one that was read, since only an
\* operation writes it.
CandidateReady ==
  /\ At("ready")
  /\ \/ NoFault /\ GoTo("write")
     \/ Fault /\ GoTo("revert")
  /\ UNCHANGED <<config, route, container, record, receipt, base, collected>>

WriteConfig ==
  /\ At("write")
  /\ config' = Current.port
  /\ op' = [op EXCEPT !.at = "reload", !.changed = TRUE]
  /\ UNCHANGED <<route, container, record, receipt, base, faults, collected>>

Slip_Reload ==  \* a failed reload is not noticed
  /\ At("reload")
  /\ \/ NoFault /\ route' = config /\ GoTo("verify")
     \/ Fault /\ GoTo("record") /\ UNCHANGED route
  /\ UNCHANGED <<config, container, record, receipt, base, collected>>

\* nginx -t and nginx -s reload
Reload ==
  /\ At("reload")
  /\ \/ NoFault /\ route' = config /\ GoTo("verify")
     \/ Fault /\ GoTo("revert") /\ UNCHANGED route
  /\ UNCHANGED <<config, container, record, receipt, base, collected>>

Slip_Verify ==  \* acknowledged without being recorded
  /\ At("verify")
  /\ \/ Serves(route, Current.db) /\ NoFault /\ GoTo("receipt")
     \/ Fails(Serves(route, Current.db)) /\ GoTo("revert")
  /\ UNCHANGED <<config, route, container, record, receipt, base, collected>>

\* wait_matching_catalog through the public route
Verify ==
  /\ At("verify")
  /\ \/ Serves(route, Current.db) /\ NoFault /\ GoTo("record")
     \/ Fails(Serves(route, Current.db)) /\ GoTo("revert")
  /\ UNCHANGED <<config, route, container, record, receipt, base, collected>>

RecordActive ==
  /\ At("record")
  /\ \/ Set(op.switch, "active") /\ NoFault /\ GoTo("stop")
     \/ Fault /\ GoTo("revert") /\ UNCHANGED record
  /\ UNCHANGED <<config, route, container, receipt, base, collected>>

\* A failure to stop the old container is noted and otherwise ignored.
StopPrevious ==
  /\ At("stop")
  /\ \/ Stop(Current.previous) /\ NoFault
     \/ Fault /\ UNCHANGED container
  /\ GoTo("receipt")
  /\ UNCHANGED <<config, route, record, receipt, base, collected>>

WriteReceipt ==
  /\ At("receipt")
  /\ receipt' = receipt \cup {Current.db}
  /\ End
  /\ UNCHANGED <<config, route, container, record, base, faults, collected>>

--------------------------------------------------------------------------------
\* except: restore what was changed; a failure in here leaves 'preparing'.

Slip_RestoreConfig ==  \* Nginx is not reloaded
  /\ At("revert")
  /\ IF op.changed THEN config' = OtherPort(Current.port) ELSE UNCHANGED config
  /\ GoTo("discard")
  /\ UNCHANGED <<route, container, record, receipt, base, faults, collected>>

RestoreConfig ==
  /\ At("revert")
  /\ IF op.changed
     THEN config' = OtherPort(Current.port) /\ GoTo("unload")
     ELSE GoTo("discard") /\ UNCHANGED config
  /\ UNCHANGED <<route, container, record, receipt, base, faults, collected>>

RestoreRoute ==
  /\ At("unload")
  /\ \/ NoFault /\ route' = config /\ GoTo("discard")
     \/ Fault /\ End /\ UNCHANGED route
  /\ UNCHANGED <<config, container, record, receipt, base, collected>>

Slip_DiscardCandidate ==  \* a failure to stop it is ignored
  /\ At("discard")
  /\ \/ op.started /\ Stop(op.switch) /\ NoFault
     \/ ~op.started /\ NoFault /\ UNCHANGED container
     \/ op.started /\ Fault /\ UNCHANGED container
  /\ GoTo("reverted")
  /\ UNCHANGED <<config, route, record, receipt, base, collected>>

DiscardCandidate ==
  /\ At("discard")
  /\ \/ op.started /\ Stop(op.switch) /\ NoFault /\ GoTo("reverted")
     \/ ~op.started /\ GoTo("reverted") /\ NoFault /\ UNCHANGED container
     \/ op.started /\ Fault /\ End /\ UNCHANGED container
  /\ UNCHANGED <<config, route, record, receipt, base, collected>>

Slip_RecordReverted ==  \* a status no reader knows
  /\ At("reverted")
  /\ Set(op.switch, "reverted")
  /\ End
  /\ UNCHANGED <<config, route, container, receipt, base, faults, collected>>

RecordReverted ==
  /\ At("reverted")
  /\ Set(op.switch, "failed_and_reverted")
  /\ End
  /\ UNCHANGED <<config, route, container, receipt, base, faults, collected>>

--------------------------------------------------------------------------------
\* rollback(record): the config file must hash as this switch left it, and the
\* previous database must be there.

BeginRollback(n) ==
  /\ At("idle")
  /\ record[n].status = "active" /\ config = record[n].port
  /\ base[record[n].db] \notin reclaimed
  /\ op' = [Idle EXCEPT !.at = "restart", !.switch = n]
  /\ UNCHANGED <<config, route, container, record, receipt, base, faults, collected>>

\* docker start: no effect on a running container, refused for a taken port or a
\* container that was removed.
RestartPrevious ==
  /\ At("restart")
  /\ LET c == Current.previous
         free == container[c].db # NoDb /\ Behind(container[c].port) \subseteq {c} IN
       \/ free /\ NoFault /\ Start(c) /\ GoTo("healthy")
       \/ Fails(free) /\ End /\ UNCHANGED container
  /\ UNCHANGED <<config, route, record, receipt, base, collected>>

PreviousHealthy ==
  /\ At("healthy")
  /\ \/ NoFault /\ GoTo("undo")
     \/ Fault /\ End
  /\ UNCHANGED <<config, route, container, record, receipt, base, collected>>

UndoConfig ==
  /\ At("undo")
  /\ config' = OtherPort(Current.port)
  /\ GoTo("undoload")
  /\ UNCHANGED <<route, container, record, receipt, base, faults, collected>>

UndoRoute ==
  /\ At("undoload")
  /\ \/ NoFault /\ route' = config /\ GoTo("undoverify")
     \/ Fault /\ GoTo("redo") /\ UNCHANGED route
  /\ UNCHANGED <<config, container, record, receipt, base, collected>>

\* The public catalog must be the previous one again.
UndoVerify ==
  /\ At("undoverify")
  /\ LET back == Serves(route, container[Current.previous].db) IN
       \/ back /\ NoFault /\ GoTo("undone")
       \/ Fails(back) /\ GoTo("redo")
  /\ UNCHANGED <<config, route, container, record, receipt, base, collected>>

RecordRolledBack ==
  /\ At("undone")
  /\ Set(op.switch, "rolled_back")
  /\ GoTo("retire")
  /\ UNCHANGED <<config, route, container, receipt, base, faults, collected>>

RetireContainer ==
  /\ At("retire")
  /\ \/ Stop(op.switch) /\ NoFault
     \/ Fault /\ UNCHANGED container
  /\ End
  /\ UNCHANGED <<config, route, record, receipt, base, collected>>

RedoConfig ==
  /\ At("redo")
  /\ config' = Current.port
  /\ GoTo("redoload")
  /\ UNCHANGED <<route, container, record, receipt, base, faults, collected>>

RedoRoute ==
  /\ At("redoload")
  /\ \/ NoFault /\ route' = config
     \/ Fault /\ UNCHANGED route
  /\ End
  /\ UNCHANGED <<config, container, record, receipt, base, collected>>

\* The publishing process, or its host session, is gone.
Crash ==
  /\ op.at # "idle"
  /\ Fault
  /\ End
  /\ UNCHANGED <<config, route, container, record, receipt, base, collected>>

--------------------------------------------------------------------------------
\* retention_gc.collect, at the end of a retention job: no operation runs then.

PassWindow ==
  /\ expired < MaxSwitches /\ record[expired + 1].status # "none"
  /\ op.at = "idle" \/ op.switch # expired + 1
  /\ expired' = expired + 1
  /\ UNCHANGED <<config, route, container, record, receipt, reclaimed, base, op, faults>>

Slip_Protected(old) ==  \* the database a rollback needs is not
  {record[n].db : n \in {n \in Switches : record[n].status # "none" /\ n \notin old}}
  \cup {container[c].db : c \in {c \in Containers : container[c].running}}

\* What recent or unfinished switches name, and what containers run on.
Protected(old) ==
  LET named == {n \in Switches : record[n].status # "none"
                                 /\ (n \notin old \/ record[n].status = "preparing")}
  IN  {record[n].db : n \in named} \cup {base[record[n].db] : n \in named}
      \cup {container[c].db : c \in {c \in Containers : container[c].running}}

\* The stopped containers of an old job go first, then its files with the receipt.
\* A rollback wrote its record again, perhaps not long ago.
Collect(g) ==
  /\ At("idle") /\ base[g] # NoDb /\ g \notin reclaimed
  /\ \E old \in SUBSET (1..expired) :
       /\ \A n \in (1..expired) \ old : record[n].status = "rolled_back"
       /\ g \notin Protected(old)
  /\ container' = [c \in Containers |->
       IF container[c].db = g THEN [container[c] EXCEPT !.db = NoDb] ELSE container[c]]
  /\ \/ NoFault /\ reclaimed' = reclaimed \cup {g} /\ receipt' = receipt \ {g}
     \/ Fault /\ UNCHANGED <<reclaimed, receipt>>
  /\ UNCHANGED <<config, route, record, expired, base, op>>

--------------------------------------------------------------------------------

Switch ==
  \/ RunCandidate \/ CandidateReady \/ WriteConfig \/ Reload \/ Verify \/ RecordActive
  \/ StopPrevious \/ WriteReceipt
  \/ RestoreConfig \/ RestoreRoute \/ DiscardCandidate \/ RecordReverted

Rollback ==
  \/ RestartPrevious \/ PreviousHealthy \/ UndoConfig \/ UndoRoute \/ UndoVerify
  \/ RecordRolledBack \/ RetireContainer \/ RedoConfig \/ RedoRoute

Next ==
  \/ \E g \in Generations : Build(g) \/ Recover(g) \/ Collect(g)
  \/ \E g \in Generations, n \in Switches : Prepare(g, n)
  \/ \E n \in Switches : BeginRollback(n)
  \/ Switch \/ Rollback \/ NginxReload \/ Crash \/ PassWindow

Spec == Init /\ [][Next]_vars

--------------------------------------------------------------------------------
\* Safety

(***************************************************************************)
(* The site is never down: the port the running Nginx uses and the port its *)
(* config names both have a running container, through every failure, crash *)
(* and foreign reload (dataset.py:206-243, 260-287).                        *)
(***************************************************************************)
SiteIsServed == Behind(route) # {} /\ Behind(config) # {}

(***************************************************************************)
(* A candidate that was reverted is down and stays down: it is not restarted*)
(* by any later switch or rollback (dataset.py:226-235).                    *)
(***************************************************************************)
RevertedStaysDown ==
  \A n \in Switches : record[n].status = "failed_and_reverted" => ~container[n].running

(***************************************************************************)
(* A receipt is the proof of a publication: there is one only for data that *)
(* some switch recorded as active, even if that was since rolled back, and  *)
(* no two containers ever serve one generation (dataset.py:291-331).        *)
(***************************************************************************)
ReceiptsAreTrue ==
  \A g \in receipt : \E n \in Switches : record[n].status \in {"active", "rolled_back"}
                                         /\ record[n].db = g

OneServerPerGeneration ==
  \A b, c \in Containers :
    container[b].running /\ container[c].running /\ container[b].db = container[c].db => b = c

(***************************************************************************)
(* Collecting old jobs never takes away what may still be needed: whatever  *)
(* runs has its database, and a switch within the rollback window can be    *)
(* rolled back to its previous container and data, though records, jobs and *)
(* containers of many switches refer to each other (retention_gc.py:24-59). *)
(***************************************************************************)
CollectionIsSafe ==
  /\ \A c \in Containers : container[c].running => container[c].db \notin reclaimed \cup {NoDb}
  /\ \A n \in Switches : n > expired /\ record[n].status = "active" =>
       LET previous == base[record[n].db] IN
       previous \notin reclaimed /\ container[record[n].previous].db = previous

(***************************************************************************)
(* A switch is recorded as active, and a rollback as done, only when the    *)
(* running route and the config agree on the data it says is served         *)
(* (dataset.py:221-225, 276-286).                                           *)
(***************************************************************************)
RecordsAreTrue ==
  [][\A n \in Switches :
       /\ record[n].status # "active" /\ record'[n].status = "active" =>
            route = config /\ Serves(route, record[n].db)
       /\ record[n].status # "rolled_back" /\ record'[n].status = "rolled_back" =>
            route = config /\ Serves(route, container[record[n].previous].db)]_record

(***************************************************************************)
(* Seen from outside, ports, containers and files aside, this is a          *)
(* publication: one database served, at most one on trial, confirmed before *)
(* it is acknowledged, else withdrawn or abandoned by a crash.              *)
(***************************************************************************)
OnTrial ==
  \/ op.at \in {"reload", "verify", "record"}
  \/ op.at = "revert" /\ op.changed
  \/ op.at \in {"undoload", "undoverify", "undone", "redo"}

NoTrial == [new |-> NoDb, old |-> NoDb]

DbAt(port) == container[CHOOSE c \in Behind(port) : TRUE].db

Abstract == INSTANCE Publication WITH
  AllDatabases <- Built, External <- {}, None <- NoTrial,
  served <- DbAt(config),
  trial <- IF OnTrial THEN [new |-> DbAt(config), old |-> DbAt(OtherPort(config))] ELSE NoTrial,
  recorded <- {record[n].db : n \in {k \in Switches : record[k].status \in {"active", "rolled_back"}}}
              \cup {base[record[n].db] :
                     n \in {k \in Switches : record[k].status = "rolled_back"}},
  receipted <- receipt

ImplementsPublication == Abstract!PublicationSpec

(***************************************************************************)
(* "If a newer publication changed the config, the old rollback record      *)
(* refuses to overwrite it" (SNAPSHOT_MANAGEMENT.md:67): a rollback only    *)
(* ever takes its own switch's data off the route.                          *)
(***************************************************************************)
RollbackUndoesOnlyItself == op.at = "undo" => Serves(config, Current.db)

(***************************************************************************)
(* "Each update alternates the two local ports" (dataset.py:292): when all  *)
(* earlier switches came to their end and were acknowledged, the next one   *)
(* finds the other port free for its candidate.                             *)
(***************************************************************************)
Concluded(n) ==
  \/ record[n].status \in {"none", "failed_and_reverted", "rolled_back"}
  \/ record[n].status = "active" /\ record[n].db \in receipt

NextPortIsFree ==
  op.at = "run" /\ (\A n \in Switches \ {op.switch} : Concluded(n)) => Behind(Current.port) = {}
================================================================================
