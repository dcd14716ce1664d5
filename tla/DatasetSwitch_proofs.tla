-------------------------- MODULE DatasetSwitch_proofs --------------------------
(***************************************************************************)
(* Proofs about the dataset switch (DatasetSwitch): the site stays up, its  *)
(* records and receipts are true, and it implements Publication, for any    *)
(* number of generations, switches, rollbacks, failures and crashes.        *)
(***************************************************************************)
EXTENDS DatasetSwitch, TLAPS

\* What container c was made for, whether or not it still is there.
Begun(c) == c = 0 \/ record[c].status # "none"
OwnDb(c) == IF c = 0 THEN First ELSE record[c].db
OwnPort(c) == IF c = 0 THEN 8180 ELSE record[c].port

Up(c) == container[c].running

\* A record's previous container served the database its generation was built from.
Founded(n) ==
  /\ record[n].db \in Generations /\ base[record[n].db] # NoDb
  /\ Begun(record[n].previous)
  /\ OwnDb(record[n].previous) = base[record[n].db]
  /\ OwnPort(record[n].previous) = OtherPort(record[n].port)
  /\ record[n].previous # 0 => record[record[n].previous].status # "failed_and_reverted"

Records == \A n \in Switches : record[n].status # "none" => Founded(n)

\* One generation, however often it is tried, always uses one port.
PortOfDb ==
  \A b, c \in Containers : Begun(b) /\ Begun(c) /\ OwnDb(b) = OwnDb(c) => OwnPort(b) = OwnPort(c)

Made ==
  \A c \in Containers :
    /\ container[c].db # NoDb =>
         Begun(c) /\ container[c].db = OwnDb(c) /\ container[c].port = OwnPort(c)
    /\ Up(c) => container[c].db # NoDb

OnePerPort ==
  \A b, c \in Containers : Up(b) /\ Up(c) /\ container[b].port = container[c].port => b = c

Files ==
  /\ Records /\ PortOfDb /\ Made /\ OnePerPort
  /\ RevertedStaysDown /\ ReceiptsAreTrue /\ CollectionIsSafe

--------------------------------------------------------------------------------
\* What the running operation may count on.

Trying == {"run", "ready", "write", "reload", "verify", "record"}
Undoing == RollbackPlaces \ {"retire"}

Statuses ==
  /\ op.at # "idle" => op.switch \in Switches
  /\ op.at \in Trying \cup RevertPlaces =>
       /\ Current.status = "preparing"
       /\ \A n \in Switches : record[n].status # "none" => record[n].previous # op.switch
  /\ op.at \in {"stop", "receipt"} \cup Undoing => Current.status = "active"
  /\ op.at = "retire" => Current.status = "rolled_back"

OnOwn == {"reload", "verify", "record", "stop", "receipt", "restart", "healthy", "undo", "redoload"}
OnOther == {"run", "ready", "write", "unload", "discard", "undoload", "undoverify", "undone",
            "retire", "redo"}
InStep ==
   {"ready", "write", "verify", "record", "stop", "receipt", "undoverify", "undone", "retire"}

\* Which port the config names, and where the route surely follows it.
Routed ==
  /\ op.at \in OnOwn \/ (op.at = "revert" /\ op.changed) => config = Current.port
  /\ op.at \in OnOther \/ (op.at = "revert" /\ ~op.changed) => config = OtherPort(Current.port)
  /\ op.at \in InStep => route = config
  /\ op.at = "revert" /\ op.started /\ ~op.changed => route = config
  /\ op.at = "discard" /\ op.started => route = config

Flags ==
  /\ op.at = "run" => ~op.started /\ ~op.changed
  /\ op.at \in {"ready", "write"} => op.started /\ ~op.changed
  /\ op.at \in {"reload", "verify", "record"} => op.started /\ op.changed
  /\ op.at = "unload" => op.started
  /\ op.at = "revert" => (op.changed => op.started)

\* Which containers run meanwhile.
Served ==
  /\ op.at \in {"ready", "write", "reload", "verify", "record", "stop", "receipt"} => Up(op.switch)
  /\ op.at \in {"run", "reverted"} => ~Up(op.switch)
  /\ op.at \in {"revert", "discard"} /\ ~op.started => ~Up(op.switch)
  /\ op.at \in Trying \cup {"revert", "unload", "discard", "healthy", "undo", "undoload",
                            "undoverify", "undone", "retire"} => Up(Current.previous)
  /\ op.at \in {"undoload", "undoverify", "undone", "redo"} => Behind(Current.port) # {}

\* What the operation needs has not been collected.
Uncollected ==
  /\ op.at = "run" => Current.db \notin reclaimed
  /\ op.at = "restart" => base[Current.db] \notin reclaimed

Working == Statuses /\ Routed /\ Flags /\ Served /\ Uncollected

IInv == TypeOK /\ Files /\ SiteIsServed /\ Working

--------------------------------------------------------------------------------
\* Consequences of the invariant.

LEMMA PortsDiffer ==
  ASSUME NEW p \in Ports
  PROVE  OtherPort(p) \in Ports /\ OtherPort(p) # p /\ OtherPort(OtherPort(p)) = p
BY DEF Ports, OtherPort

\* A container that runs is behind the port it was made for.
LEMMA RunningIsOwn ==
  ASSUME IInv, NEW c \in Containers, Up(c)
  PROVE  /\ Begun(c) /\ container[c].db = OwnDb(c) /\ container[c].port = OwnPort(c)
         /\ c \in Behind(OwnPort(c)) /\ Behind(OwnPort(c)) # {}
         /\ \A p \in Ports : c \in Behind(p) => p = OwnPort(c)
BY DEF IInv, Files, Made, Behind, Up

\* The running operation's switch, its ports and its two containers.
LEMMA AtWork ==
  ASSUME IInv, op.at # "idle"
  PROVE  /\ op.switch \in Switches /\ op.switch \in Containers /\ op.switch # 0
         /\ Current.previous \in Containers
         /\ Current.port \in Ports /\ OtherPort(Current.port) \in Ports
         /\ OtherPort(Current.port) # Current.port
         /\ OwnPort(op.switch) = Current.port /\ OwnDb(op.switch) = Current.db
         /\ OwnPort(Current.previous) = OtherPort(Current.port) \/ Current.status = "none"
         /\ op.at # "reverted" => Current.previous # op.switch \/ Current.status = "none"
<1>1. op.switch \in Switches /\ op.switch \in Containers /\ op.switch # 0
  BY SwitchConstants DEF IInv, Working, Statuses, Switches, Containers
<1>2. Current \in SwitchRecord
  BY <1>1 DEF IInv, TypeOK, Current
<1>3. Current.port \in Ports /\ Current.previous \in Containers
  BY <1>2 DEF SwitchRecord
<1>4. OwnPort(op.switch) = Current.port /\ OwnDb(op.switch) = Current.db
  BY <1>1 DEF OwnPort, OwnDb, Current
<1>5. Current.status # "none" => OwnPort(Current.previous) = OtherPort(Current.port)
  BY <1>1 DEF IInv, Files, Records, Founded, Current
<1> QED
  BY <1>1, <1>3, <1>4, <1>5, PortsDiffer

\* Files says nothing of ports in use or of the operation.
LEMMA SameFiles ==
  ASSUME Files, UNCHANGED <<container, record, receipt, expired, reclaimed, base>>
  PROVE  Files'
BY DEF Files, Records, Founded, PortOfDb, Made, OnePerPort, RevertedStaysDown, ReceiptsAreTrue,
       CollectionIsSafe, Begun, OwnDb, OwnPort, Up

LEMMA IdleIsOperation == Idle \in Operation
BY SwitchConstants DEF Idle, Operation, Containers

--------------------------------------------------------------------------------
\* Steps that change only the config, the route and the operation.

LEMMA BetweenInv == IInv /\ NginxReload => IInv'
<1> SUFFICES ASSUME IInv, NginxReload PROVE IInv'
  OBVIOUS
<1>1. TypeOK'
  BY DEF IInv, TypeOK, NginxReload, collected
<1>2. Files'
  BY SameFiles DEF IInv, NginxReload, collected
<1>3. SiteIsServed'
  BY DEF IInv, SiteIsServed, Behind, NginxReload
<1>4. Working'
  BY DEF IInv, Working, Statuses, Routed, Flags, Served, Uncollected, NginxReload, collected, Up,
         Current, Behind
<1> QED
  BY <1>1, <1>2, <1>3, <1>4 DEF IInv

LEMMA CandidateReadyInv == IInv /\ CandidateReady => IInv'
<1> SUFFICES ASSUME IInv, CandidateReady PROVE IInv'
  OBVIOUS
<1> USE DEF CandidateReady, At, GoTo, End, Fault, NoFault, Fails, collected
<1>0. op.at # "idle" /\ Current.status = "preparing"
  BY DEF IInv, Working, Statuses, Served, Trying, Undoing, RevertPlaces, RollbackPlaces,
         SiteIsServed, Routed, OnOwn
<1>1. TypeOK'
  BY <1>0, AtWork, IdleIsOperation, SwitchConstants
     DEF IInv, TypeOK, Operation, SwitchPlaces, RevertPlaces, RollbackPlaces
<1>2. Files'
  BY SameFiles DEF IInv
<1>3. SiteIsServed'
  BY <1>0, AtWork, RunningIsOwn DEF IInv, SiteIsServed, Behind
<1>4. Working'
  BY <1>0, AtWork, RunningIsOwn, PortsDiffer
     DEF IInv, Working, Statuses, Routed, Flags, Served, Uncollected, Up, Current, Behind,
         TypeOK, Operation, Idle, Trying, Undoing, OnOwn, OnOther, InStep, RevertPlaces,
         RollbackPlaces
<1> QED
  BY <1>1, <1>2, <1>3, <1>4 DEF IInv

LEMMA WriteConfigInv == IInv /\ WriteConfig => IInv'
<1> SUFFICES ASSUME IInv, WriteConfig PROVE IInv'
  OBVIOUS
<1> USE DEF WriteConfig, At, GoTo, End, Fault, NoFault, Fails, collected
<1>0. op.at # "idle" /\ Current.status = "preparing" /\ Up(op.switch)
  BY DEF IInv, Working, Statuses, Served, Trying, Undoing, RevertPlaces, RollbackPlaces,
         SiteIsServed, Routed, OnOwn
<1>1. TypeOK'
  BY <1>0, AtWork, IdleIsOperation, SwitchConstants
     DEF IInv, TypeOK, Operation, SwitchPlaces, RevertPlaces, RollbackPlaces
<1>2. Files'
  BY SameFiles DEF IInv
<1>3. SiteIsServed'
  BY <1>0, AtWork, RunningIsOwn DEF IInv, SiteIsServed, Behind
<1>4. Working'
  BY <1>0, AtWork, RunningIsOwn, PortsDiffer
     DEF IInv, Working, Statuses, Routed, Flags, Served, Uncollected, Up, Current, Behind,
         TypeOK, Operation, Idle, Trying, Undoing, OnOwn, OnOther, InStep, RevertPlaces,
         RollbackPlaces
<1> QED
  BY <1>1, <1>2, <1>3, <1>4 DEF IInv

LEMMA ReloadInv == IInv /\ Reload => IInv'
<1> SUFFICES ASSUME IInv, Reload PROVE IInv'
  OBVIOUS
<1> USE DEF Reload, At, GoTo, End, Fault, NoFault, Fails, collected
<1>0. op.at # "idle" /\ Current.status = "preparing" /\ Up(op.switch)
  BY DEF IInv, Working, Statuses, Served, Trying, Undoing, RevertPlaces, RollbackPlaces,
         SiteIsServed, Routed, OnOwn
<1>1. TypeOK'
  BY <1>0, AtWork, IdleIsOperation, SwitchConstants
     DEF IInv, TypeOK, Operation, SwitchPlaces, RevertPlaces, RollbackPlaces
<1>2. Files'
  BY SameFiles DEF IInv
<1>3. SiteIsServed'
  BY <1>0, AtWork, RunningIsOwn DEF IInv, SiteIsServed, Behind
<1>4. Working'
  BY <1>0, AtWork, RunningIsOwn, PortsDiffer
     DEF IInv, Working, Statuses, Routed, Flags, Served, Uncollected, Up, Current, Behind,
         TypeOK, Operation, Idle, Trying, Undoing, OnOwn, OnOther, InStep, RevertPlaces,
         RollbackPlaces
<1> QED
  BY <1>1, <1>2, <1>3, <1>4 DEF IInv

LEMMA VerifyInv == IInv /\ Verify => IInv'
<1> SUFFICES ASSUME IInv, Verify PROVE IInv'
  OBVIOUS
<1> USE DEF Verify, At, GoTo, End, Fault, NoFault, Fails, collected
<1>0. op.at # "idle" /\ Current.status = "preparing" /\ Up(op.switch)
  BY DEF IInv, Working, Statuses, Served, Trying, Undoing, RevertPlaces, RollbackPlaces,
         SiteIsServed, Routed, OnOwn
<1>1. TypeOK'
  BY <1>0, AtWork, IdleIsOperation, SwitchConstants
     DEF IInv, TypeOK, Operation, SwitchPlaces, RevertPlaces, RollbackPlaces
<1>2. Files'
  BY SameFiles DEF IInv
<1>3. SiteIsServed'
  BY <1>0, AtWork, RunningIsOwn DEF IInv, SiteIsServed, Behind
<1>4. Working'
  BY <1>0, AtWork, RunningIsOwn, PortsDiffer
     DEF IInv, Working, Statuses, Routed, Flags, Served, Uncollected, Up, Current, Behind,
         TypeOK, Operation, Idle, Trying, Undoing, OnOwn, OnOther, InStep, RevertPlaces,
         RollbackPlaces
<1> QED
  BY <1>1, <1>2, <1>3, <1>4 DEF IInv

LEMMA RestoreConfigInv == IInv /\ RestoreConfig => IInv'
<1> SUFFICES ASSUME IInv, RestoreConfig PROVE IInv'
  OBVIOUS
<1> USE DEF RestoreConfig, At, GoTo, End, Fault, NoFault, Fails, collected
<1>0. op.at # "idle" /\ Current.status = "preparing" /\ Up(Current.previous)
  BY DEF IInv, Working, Statuses, Served, Trying, Undoing, RevertPlaces, RollbackPlaces,
         SiteIsServed, Routed, OnOwn
<1>1. TypeOK'
  BY <1>0, AtWork, IdleIsOperation, SwitchConstants
     DEF IInv, TypeOK, Operation, SwitchPlaces, RevertPlaces, RollbackPlaces
<1>2. Files'
  BY SameFiles DEF IInv
<1>3. SiteIsServed'
  BY <1>0, AtWork, RunningIsOwn DEF IInv, SiteIsServed, Behind
<1>4. Routed'
  <2>1. /\ op'.switch = op.switch /\ op'.started = op.started
        /\ op'.at = IF op.changed THEN "unload" ELSE "discard"
    BY DEF IInv, TypeOK, Operation
  <2>2. config' = OtherPort(Current.port) /\ route' = route /\ Current' = Current
    BY <2>1 DEF IInv, Working, Routed, Current
  <2>3. ~op.changed /\ op.started => route = config /\ config' = config
    BY DEF IInv, Working, Routed
  <2> QED
    BY <2>1, <2>2, <2>3 DEF Routed, OnOwn, OnOther, InStep
<1>5. (Statuses /\ Flags /\ Served /\ Uncollected)'
  BY <1>0, AtWork
     DEF IInv, Working, Statuses, Flags, Served, Uncollected, Up, Current, Behind, TypeOK,
         Operation, Trying, Undoing, RevertPlaces, RollbackPlaces
<1> QED
  BY <1>1, <1>2, <1>3, <1>4, <1>5 DEF IInv, Working

LEMMA RestoreRouteInv == IInv /\ RestoreRoute => IInv'
<1> SUFFICES ASSUME IInv, RestoreRoute PROVE IInv'
  OBVIOUS
<1> USE DEF RestoreRoute, At, GoTo, End, Fault, NoFault, Fails, collected
<1>0. op.at # "idle" /\ Current.status = "preparing" /\ Up(Current.previous)
  BY DEF IInv, Working, Statuses, Served, Trying, Undoing, RevertPlaces, RollbackPlaces,
         SiteIsServed, Routed, OnOwn
<1>1. TypeOK'
  BY <1>0, AtWork, IdleIsOperation, SwitchConstants
     DEF IInv, TypeOK, Operation, SwitchPlaces, RevertPlaces, RollbackPlaces
<1>2. Files'
  BY SameFiles DEF IInv
<1>3. SiteIsServed'
  BY <1>0, AtWork, RunningIsOwn DEF IInv, SiteIsServed, Behind
<1>4. Working'
  BY <1>0, AtWork, RunningIsOwn, PortsDiffer
     DEF IInv, Working, Statuses, Routed, Flags, Served, Uncollected, Up, Current, Behind,
         TypeOK, Operation, Idle, Trying, Undoing, OnOwn, OnOther, InStep, RevertPlaces,
         RollbackPlaces
<1> QED
  BY <1>1, <1>2, <1>3, <1>4 DEF IInv

LEMMA PreviousHealthyInv == IInv /\ PreviousHealthy => IInv'
<1> SUFFICES ASSUME IInv, PreviousHealthy PROVE IInv'
  OBVIOUS
<1> USE DEF PreviousHealthy, At, GoTo, End, Fault, NoFault, Fails, collected
<1>0. op.at # "idle" /\ Current.status = "active"
  BY DEF IInv, Working, Statuses, Served, Trying, Undoing, RevertPlaces, RollbackPlaces,
         SiteIsServed, Routed, OnOwn
<1>1. TypeOK'
  BY <1>0, AtWork, IdleIsOperation, SwitchConstants
     DEF IInv, TypeOK, Operation, SwitchPlaces, RevertPlaces, RollbackPlaces
<1>2. Files'
  BY SameFiles DEF IInv
<1>3. SiteIsServed'
  BY <1>0, AtWork, RunningIsOwn DEF IInv, SiteIsServed, Behind
<1>4. Working'
  BY <1>0, AtWork, RunningIsOwn, PortsDiffer
     DEF IInv, Working, Statuses, Routed, Flags, Served, Uncollected, Up, Current, Behind,
         TypeOK, Operation, Idle, Trying, Undoing, OnOwn, OnOther, InStep, RevertPlaces,
         RollbackPlaces
<1> QED
  BY <1>1, <1>2, <1>3, <1>4 DEF IInv

LEMMA UndoConfigInv == IInv /\ UndoConfig => IInv'
<1> SUFFICES ASSUME IInv, UndoConfig PROVE IInv'
  OBVIOUS
<1> USE DEF UndoConfig, At, GoTo, End, Fault, NoFault, Fails, collected
<1>0. /\ op.at # "idle"
      /\ Current.status = "active"
      /\ Up(Current.previous)
      /\ Behind(Current.port) # {}
  BY DEF IInv, Working, Statuses, Served, Trying, Undoing, RevertPlaces, RollbackPlaces,
         SiteIsServed, Routed, OnOwn
<1>1. TypeOK'
  BY <1>0, AtWork, IdleIsOperation, SwitchConstants
     DEF IInv, TypeOK, Operation, SwitchPlaces, RevertPlaces, RollbackPlaces
<1>2. Files'
  BY SameFiles DEF IInv
<1>3. SiteIsServed'
  BY <1>0, AtWork, RunningIsOwn DEF IInv, SiteIsServed, Behind
<1>4. Working'
  BY <1>0, AtWork, RunningIsOwn, PortsDiffer
     DEF IInv, Working, Statuses, Routed, Flags, Served, Uncollected, Up, Current, Behind,
         TypeOK, Operation, Idle, Trying, Undoing, OnOwn, OnOther, InStep, RevertPlaces,
         RollbackPlaces
<1> QED
  BY <1>1, <1>2, <1>3, <1>4 DEF IInv

LEMMA UndoRouteInv == IInv /\ UndoRoute => IInv'
<1> SUFFICES ASSUME IInv, UndoRoute PROVE IInv'
  OBVIOUS
<1> USE DEF UndoRoute, At, GoTo, End, Fault, NoFault, Fails, collected
<1>0. op.at # "idle" /\ Current.status = "active"
  BY DEF IInv, Working, Statuses, Served, Trying, Undoing, RevertPlaces, RollbackPlaces,
         SiteIsServed, Routed, OnOwn
<1>1. TypeOK'
  BY <1>0, AtWork, IdleIsOperation, SwitchConstants
     DEF IInv, TypeOK, Operation, SwitchPlaces, RevertPlaces, RollbackPlaces
<1>2. Files'
  BY SameFiles DEF IInv
<1>3. SiteIsServed'
  BY <1>0, AtWork, RunningIsOwn DEF IInv, SiteIsServed, Behind
<1>4. Working'
  BY <1>0, AtWork, RunningIsOwn, PortsDiffer
     DEF IInv, Working, Statuses, Routed, Flags, Served, Uncollected, Up, Current, Behind,
         TypeOK, Operation, Idle, Trying, Undoing, OnOwn, OnOther, InStep, RevertPlaces,
         RollbackPlaces
<1> QED
  BY <1>1, <1>2, <1>3, <1>4 DEF IInv

LEMMA UndoVerifyInv == IInv /\ UndoVerify => IInv'
<1> SUFFICES ASSUME IInv, UndoVerify PROVE IInv'
  OBVIOUS
<1> USE DEF UndoVerify, At, GoTo, End, Fault, NoFault, Fails, collected
<1>0. op.at # "idle" /\ Current.status = "active"
  BY DEF IInv, Working, Statuses, Served, Trying, Undoing, RevertPlaces, RollbackPlaces,
         SiteIsServed, Routed, OnOwn
<1>1. TypeOK'
  BY <1>0, AtWork, IdleIsOperation, SwitchConstants
     DEF IInv, TypeOK, Operation, SwitchPlaces, RevertPlaces, RollbackPlaces
<1>2. Files'
  BY SameFiles DEF IInv
<1>3. SiteIsServed'
  BY <1>0, AtWork, RunningIsOwn DEF IInv, SiteIsServed, Behind
<1>4. Working'
  BY <1>0, AtWork, RunningIsOwn, PortsDiffer
     DEF IInv, Working, Statuses, Routed, Flags, Served, Uncollected, Up, Current, Behind,
         TypeOK, Operation, Idle, Trying, Undoing, OnOwn, OnOther, InStep, RevertPlaces,
         RollbackPlaces
<1> QED
  BY <1>1, <1>2, <1>3, <1>4 DEF IInv

LEMMA RedoConfigInv == IInv /\ RedoConfig => IInv'
<1> SUFFICES ASSUME IInv, RedoConfig PROVE IInv'
  OBVIOUS
<1> USE DEF RedoConfig, At, GoTo, End, Fault, NoFault, Fails, collected
<1>0. op.at # "idle" /\ Current.status = "active" /\ Behind(Current.port) # {}
  BY DEF IInv, Working, Statuses, Served, Trying, Undoing, RevertPlaces, RollbackPlaces,
         SiteIsServed, Routed, OnOwn
<1>1. TypeOK'
  BY <1>0, AtWork, IdleIsOperation, SwitchConstants
     DEF IInv, TypeOK, Operation, SwitchPlaces, RevertPlaces, RollbackPlaces
<1>2. Files'
  BY SameFiles DEF IInv
<1>3. SiteIsServed'
  BY <1>0, AtWork, RunningIsOwn DEF IInv, SiteIsServed, Behind
<1>4. Working'
  BY <1>0, AtWork, RunningIsOwn, PortsDiffer
     DEF IInv, Working, Statuses, Routed, Flags, Served, Uncollected, Up, Current, Behind,
         TypeOK, Operation, Idle, Trying, Undoing, OnOwn, OnOther, InStep, RevertPlaces,
         RollbackPlaces
<1> QED
  BY <1>1, <1>2, <1>3, <1>4 DEF IInv

LEMMA RedoRouteInv == IInv /\ RedoRoute => IInv'
<1> SUFFICES ASSUME IInv, RedoRoute PROVE IInv'
  OBVIOUS
<1> USE DEF RedoRoute, At, GoTo, End, Fault, NoFault, Fails, collected
<1>0. op.at # "idle" /\ Current.status = "active"
  BY DEF IInv, Working, Statuses, Served, Trying, Undoing, RevertPlaces, RollbackPlaces,
         SiteIsServed, Routed, OnOwn
<1>1. TypeOK'
  BY <1>0, AtWork, IdleIsOperation, SwitchConstants
     DEF IInv, TypeOK, Operation, SwitchPlaces, RevertPlaces, RollbackPlaces
<1>2. Files'
  BY SameFiles DEF IInv
<1>3. SiteIsServed'
  BY <1>0, AtWork, RunningIsOwn DEF IInv, SiteIsServed, Behind
<1>4. Working'
  BY <1>0, AtWork, RunningIsOwn, PortsDiffer
     DEF IInv, Working, Statuses, Routed, Flags, Served, Uncollected, Up, Current, Behind,
         TypeOK, Operation, Idle, Trying, Undoing, OnOwn, OnOther, InStep, RevertPlaces,
         RollbackPlaces
<1> QED
  BY <1>1, <1>2, <1>3, <1>4 DEF IInv

LEMMA CrashInv == IInv /\ Crash => IInv'
<1> SUFFICES ASSUME IInv, Crash PROVE IInv'
  OBVIOUS
<1> USE DEF Crash, At, GoTo, End, Fault, NoFault, Fails, collected
<1>0. op.at # "idle"
  BY DEF IInv, Working, Statuses, Served, Trying, Undoing, RevertPlaces, RollbackPlaces,
         SiteIsServed, Routed, OnOwn
<1>1. TypeOK'
  BY <1>0, AtWork, IdleIsOperation, SwitchConstants
     DEF IInv, TypeOK, Operation, SwitchPlaces, RevertPlaces, RollbackPlaces
<1>2. Files'
  BY SameFiles DEF IInv
<1>3. SiteIsServed'
  BY <1>0, AtWork, RunningIsOwn DEF IInv, SiteIsServed, Behind
<1>4. Working'
  BY <1>0, AtWork, RunningIsOwn, PortsDiffer
     DEF IInv, Working, Statuses, Routed, Flags, Served, Uncollected, Up, Current, Behind,
         TypeOK, Operation, Idle, Trying, Undoing, OnOwn, OnOther, InStep, RevertPlaces,
         RollbackPlaces
<1> QED
  BY <1>1, <1>2, <1>3, <1>4 DEF IInv

--------------------------------------------------------------------------------
\* Steps that start or stop a container.

LEMMA RunCandidateInv == IInv /\ RunCandidate => IInv'
<1> SUFFICES ASSUME IInv, RunCandidate PROVE IInv'
  OBVIOUS
<1> USE DEF RunCandidate, At, GoTo, Fault, NoFault, Fails, collected
<1>0. /\ op.at = "run" /\ op.at # "idle" /\ Current.status = "preparing"
      /\ ~Up(op.switch) /\ Up(Current.previous) /\ config = OtherPort(Current.port)
      /\ Current.db \in Generations \ reclaimed /\ Current.db # NoDb
      /\ \A n \in Switches : record[n].status # "none" => record[n].previous # op.switch
  BY SwitchConstants DEF IInv, Working, Statuses, Served, Routed, Uncollected, Trying, OnOther,
     Files, Records, Founded, Current
<1> DEFINE new == [port |-> Current.port, db |-> Current.db, running |-> TRUE]
<1>1. TypeOK'
  <2>1. faults' \in 0..MaxFaults
    BY SwitchConstants DEF IInv, TypeOK
  <2>2. op' \in Operation
    BY DEF IInv, TypeOK, Operation, SwitchPlaces, RevertPlaces
  <2>3. new \in ContainerRecord
    BY <1>0, AtWork DEF ContainerRecord, Built
  <2>4. container' \in [Containers -> ContainerRecord]
    BY <2>3 DEF IInv, TypeOK
  <2> QED
    BY <2>1, <2>2, <2>4 DEF IInv, TypeOK
<1>2. CASE UNCHANGED container
  <2>1. Files' /\ SiteIsServed'
    BY <1>2, SameFiles DEF IInv, SiteIsServed, Behind
  <2>2. Working'
    BY <1>0, <1>2, AtWork DEF IInv, Working, Statuses, Routed, Flags, Served, Uncollected, Up,
       Current, Behind, TypeOK, Operation, Trying, Undoing, OnOwn, OnOther, InStep,
       RevertPlaces, RollbackPlaces
  <2> QED
    BY <1>1, <2>1, <2>2 DEF IInv
<1>3. CASE /\ Behind(Current.port) = {} /\ container' = [container EXCEPT ![op.switch] = new]
           /\ op' = [op EXCEPT !.at = "ready", !.started = TRUE]
  <2>1. /\ container'[op.switch] = new
        /\ \A c \in Containers \ {op.switch} : container'[c] = container[c]
    BY <1>3, AtWork, <1>0 DEF IInv, TypeOK
  <2>2. (Records /\ PortOfDb /\ ReceiptsAreTrue)'
    BY DEF IInv, Files, Records, Founded, PortOfDb, ReceiptsAreTrue, Begun, OwnDb, OwnPort
  <2>3. Made'
    BY <1>0, <2>1, AtWork DEF IInv, Files, Made, Begun, OwnDb, OwnPort, Up, Current
  <2>4. OnePerPort'
    BY <1>0, <1>3, <2>1, AtWork DEF IInv, Files, OnePerPort, Up, Behind
  <2>5. RevertedStaysDown'
    BY <1>0, <2>1 DEF IInv, Files, RevertedStaysDown, Current, Containers, Switches
  <2>6. CollectionIsSafe'
    BY <1>0, <2>1 DEF IInv, Files, CollectionIsSafe, TypeOK, SwitchRecord
  <2>7. SiteIsServed' /\ route = config
    <3>1. \A p \in Ports : Behind(p) \subseteq Behind(p)'
      BY <1>0, <2>1 DEF Behind, Up
    <3>2. SiteIsServed'
      BY <3>1 DEF IInv, SiteIsServed, TypeOK
    <3> QED
      BY <1>0, <1>3, <3>2, AtWork DEF IInv, SiteIsServed, TypeOK, Ports, OtherPort
  <2>8. Working'
    BY <1>0, <1>3, <2>1, <2>7, AtWork DEF IInv, Working, Statuses, Routed, Flags, Served,
       Uncollected, Up, Current, Behind, TypeOK, Operation, Trying, Undoing, OnOwn, OnOther,
       InStep, RevertPlaces, RollbackPlaces
  <2> QED
    BY <1>1, <2>2, <2>3, <2>4, <2>5, <2>6, <2>7, <2>8 DEF IInv, Files
<1> QED
  BY <1>2, <1>3

\* Stopping a container behind neither the config nor the route harms nothing.
LEMMA StoppedFiles ==
  ASSUME IInv, NEW s \in Containers, Stop(s),
         Up(s) => container[s].port \notin {config, route},
         UNCHANGED <<record, receipt, expired, reclaimed, base>>,
         UNCHANGED <<config, route>>
  PROVE  /\ Files' /\ SiteIsServed' /\ container' \in [Containers -> ContainerRecord]
         /\ ~Up(s)' /\ \A c \in Containers \ {s} : Up(c)' = Up(c)
         /\ \A p \in {config, route} : Behind(p)' = Behind(p)
<1>1. /\ ~Up(s)' /\ \A c \in Containers : c # s => container'[c] = container[c]
      /\ container'[s].db = container[s].db /\ container'[s].port = container[s].port
      /\ container' \in [Containers -> ContainerRecord]
  BY DEF IInv, TypeOK, ContainerRecord, Up, Stop
<1>2. \A c \in Containers : /\ container'[c].db = container[c].db
                            /\ container'[c].port = container[c].port
                            /\ Up(c)' => Up(c)
  BY <1>1 DEF Up
<1>3. (Records /\ PortOfDb /\ ReceiptsAreTrue)'
  BY DEF IInv, Files, Records, Founded, PortOfDb, ReceiptsAreTrue, Begun, OwnDb, OwnPort
<1>4. (Made /\ OnePerPort)'
  BY <1>2 DEF IInv, Files, Made, OnePerPort, Begun, OwnDb, OwnPort
<1>5. RevertedStaysDown'
  BY <1>2 DEF IInv, Files, RevertedStaysDown, Up, Containers, Switches
<1>6. CollectionIsSafe'
  BY <1>2 DEF IInv, Files, CollectionIsSafe, Up, TypeOK, SwitchRecord
<1>7. \A p \in {config, route} : Behind(p)' = Behind(p)
  BY <1>1, <1>2 DEF Behind, Up
<1>8. SiteIsServed'
  BY <1>7 DEF IInv, SiteIsServed, TypeOK
<1> QED
  BY <1>1, <1>3, <1>4, <1>5, <1>6, <1>7, <1>8 DEF Files, Up

LEMMA StopPreviousInv == IInv /\ StopPrevious => IInv'
<1> SUFFICES ASSUME IInv, StopPrevious PROVE IInv'
  OBVIOUS
<1> USE DEF StopPrevious, At, GoTo, Fault, NoFault, collected
<1>0. /\ op.at = "stop" /\ op.at # "idle" /\ Current.status = "active"
      /\ config = Current.port /\ route = config /\ Up(op.switch)
  BY DEF IInv, Working, Statuses, Served, Routed, Undoing, OnOwn, InStep
<1>1. op' \in Operation /\ faults' \in 0..MaxFaults
  BY SwitchConstants DEF IInv, TypeOK, Operation, SwitchPlaces
<1>2. CASE UNCHANGED container
  <2>1. TypeOK' /\ Files' /\ SiteIsServed'
    BY <1>1, <1>2, SameFiles DEF IInv, TypeOK, SiteIsServed, Behind
  <2>2. Working'
    BY <1>0, <1>2 DEF IInv, Working, Statuses, Routed, Flags, Served, Uncollected, Up,
       Current, Behind, TypeOK, Operation, Trying, Undoing, OnOwn, OnOther, InStep,
       RevertPlaces, RollbackPlaces
  <2> QED
    BY <2>1, <2>2 DEF IInv
<1>3. CASE Stop(Current.previous)
  <2>1. Up(Current.previous) => container[Current.previous].port \notin {config, route}
    BY <1>0, AtWork, RunningIsOwn
  <2>2. /\ Files' /\ SiteIsServed' /\ container' \in [Containers -> ContainerRecord]
        /\ \A c \in Containers \ {Current.previous} : Up(c)' = Up(c)
    BY <1>3, <2>1, AtWork, <1>0, StoppedFiles
  <2>3. TypeOK'
    BY <1>1, <2>2 DEF IInv, TypeOK
  <2>4. Up(op.switch)'
    BY <1>0, <2>2, AtWork
  <2>5. Working'
    BY <1>0, <2>4 DEF IInv, Working, Statuses, Routed, Flags, Served, Uncollected, Up,
       Current, Behind, TypeOK, Operation, Trying, Undoing, OnOwn, OnOther, InStep,
       RevertPlaces, RollbackPlaces
  <2> QED
    BY <2>2, <2>3, <2>5 DEF IInv
<1> QED
  BY <1>2, <1>3

LEMMA DiscardCandidateInv == IInv /\ DiscardCandidate => IInv'
<1> SUFFICES ASSUME IInv, DiscardCandidate PROVE IInv'
  OBVIOUS
<1> USE DEF DiscardCandidate, At, GoTo, End, Fault, NoFault, collected
<1>0. /\ op.at = "discard" /\ op.at # "idle" /\ Current.status = "preparing"
      /\ config = OtherPort(Current.port) /\ (op.started => route = config)
      /\ (~op.started => ~Up(op.switch))
      /\ \A n \in Switches : record[n].status # "none" => record[n].previous # op.switch
  BY DEF IInv, Working, Statuses, Served, Routed, RevertPlaces, OnOther
<1>1. op' \in Operation /\ faults' \in 0..MaxFaults
  BY SwitchConstants, IdleIsOperation DEF IInv, TypeOK, Operation, RevertPlaces
<1>2. CASE UNCHANGED container /\ (End \/ (GoTo("reverted") /\ ~op.started))
  <2>1. TypeOK' /\ Files' /\ SiteIsServed'
    BY <1>1, <1>2, SameFiles DEF IInv, TypeOK, SiteIsServed, Behind
  <2>2. End => Working'
    BY DEF Idle, Working, Statuses, Routed, Flags, Served, Uncollected, Trying, Undoing,
       OnOwn, OnOther, InStep, RevertPlaces, RollbackPlaces
  <2>3. GoTo("reverted") /\ ~op.started => Working'
    BY <1>0, <1>2 DEF IInv, Working, Statuses, Routed, Flags, Served, Uncollected, Up,
       Current, TypeOK, Operation, Trying, Undoing, OnOwn, OnOther, InStep, RevertPlaces,
       RollbackPlaces
  <2> QED
    BY <1>2, <2>1, <2>2, <2>3 DEF IInv
<1>3. CASE op.started /\ Stop(op.switch) /\ NoFault /\ GoTo("reverted")
  <2>1. Up(op.switch) => container[op.switch].port \notin {config, route}
    BY <1>0, <1>3, AtWork, RunningIsOwn
  <2>2. /\ Files' /\ SiteIsServed' /\ container' \in [Containers -> ContainerRecord]
        /\ ~Up(op.switch)'
    BY <1>0, <1>3, <2>1, AtWork, StoppedFiles
  <2>3. Working'
    BY <1>0, <1>3, <2>2 DEF IInv, Working, Statuses, Routed, Flags, Served, Uncollected, Up,
       Current, Behind, TypeOK, Operation, Trying, Undoing, OnOwn, OnOther, InStep,
       RevertPlaces, RollbackPlaces
  <2> QED
    BY <1>1, <2>2, <2>3 DEF IInv, TypeOK
<1> QED
  BY <1>2, <1>3 DEF End

\* A container may start when its port is free and its data is there.
LEMMA StartedFiles ==
  ASSUME IInv, NEW s \in Containers, Start(s),
         Behind(container[s].port) \subseteq {s},
         container[s].db \notin reclaimed \cup {NoDb},
         s # 0 => record[s].status # "failed_and_reverted",
         UNCHANGED <<record, receipt, expired, reclaimed, base>>,
         UNCHANGED <<config, route>>
  PROVE  /\ Files' /\ SiteIsServed' /\ container' \in [Containers -> ContainerRecord]
         /\ Up(s)' /\ \A c \in Containers \ {s} : Up(c)' = Up(c)
<1>1. /\ Up(s)' /\ \A c \in Containers : c # s => container'[c] = container[c]
      /\ container'[s].db = container[s].db /\ container'[s].port = container[s].port
      /\ container' \in [Containers -> ContainerRecord]
  BY DEF IInv, TypeOK, ContainerRecord, Up, Start
<1>2. \A c \in Containers : /\ container'[c].db = container[c].db
                            /\ container'[c].port = container[c].port
                            /\ Up(c)' => Up(c) \/ c = s
  BY <1>1 DEF Up
<1>3. (Records /\ PortOfDb /\ ReceiptsAreTrue)'
  BY DEF IInv, Files, Records, Founded, PortOfDb, ReceiptsAreTrue, Begun, OwnDb, OwnPort
<1>4. Made'
  BY <1>2 DEF IInv, Files, Made, Begun, OwnDb, OwnPort
<1>5. OnePerPort'
  BY <1>2 DEF IInv, Files, OnePerPort, Behind, Up
<1>6. RevertedStaysDown'
  BY <1>2, SwitchConstants DEF IInv, Files, RevertedStaysDown, Up, Containers, Switches
<1>7. CollectionIsSafe'
  BY <1>2 DEF IInv, Files, CollectionIsSafe, Up, TypeOK, SwitchRecord
<1>8. SiteIsServed'
  BY <1>1 DEF IInv, SiteIsServed, Behind, Up
<1> QED
  BY <1>1, <1>3, <1>4, <1>5, <1>6, <1>7, <1>8 DEF Files, Up

LEMMA RestartPreviousInv == IInv /\ RestartPrevious => IInv'
<1> SUFFICES ASSUME IInv, RestartPrevious PROVE IInv'
  OBVIOUS
<1> USE DEF RestartPrevious, At, GoTo, Fault, NoFault, Fails, collected
<1> DEFINE c == Current.previous
<1>0. /\ op.at = "restart" /\ op.at # "idle" /\ Current.status = "active"
      /\ config = Current.port /\ base[Current.db] \notin reclaimed
  BY DEF IInv, Working, Statuses, Routed, Uncollected, Undoing, RollbackPlaces, OnOwn
<1>1. op' \in Operation /\ faults' \in 0..MaxFaults
  BY SwitchConstants, IdleIsOperation DEF IInv, TypeOK, Operation, RollbackPlaces, End
<1>2. CASE End /\ UNCHANGED container
  <2>1. TypeOK' /\ Files' /\ SiteIsServed'
    BY <1>1, <1>2, SameFiles DEF IInv, TypeOK, SiteIsServed, Behind
  <2>2. Working'
    BY <1>2 DEF End, Idle, Working, Statuses, Routed, Flags, Served, Uncollected, Trying, Undoing,
       OnOwn, OnOther, InStep, RevertPlaces, RollbackPlaces
  <2> QED
    BY <2>1, <2>2 DEF IInv
<1>3. CASE /\ container[c].db # NoDb /\ Behind(container[c].port) \subseteq {c}
           /\ Start(c) /\ GoTo("healthy")
  <2>1. /\ OwnDb(c) = base[Current.db] /\ (c # 0 => record[c].status # "failed_and_reverted")
    BY <1>0, AtWork DEF IInv, Files, Records, Founded, Current
  <2>2. container[c].db = OwnDb(c)
    BY <1>0, <1>3, AtWork DEF IInv, Files, Made
  <2>3. /\ Files' /\ SiteIsServed' /\ container' \in [Containers -> ContainerRecord]
        /\ container'[c].running
    <3>1. c \in Containers
      BY <1>0, AtWork
    <3>2. container[c].db \notin reclaimed \cup {NoDb}
      BY <1>0, <1>3, <2>1, <2>2
    <3> QED
      BY <1>3, <2>1, <3>1, <3>2, StartedFiles DEF Up
  <2>4. Working'
    BY <1>0, <1>3, <2>3 DEF IInv, Working, Statuses, Routed, Flags, Served, Uncollected, Up,
       Current, Behind, TypeOK, Operation, Trying, Undoing, OnOwn, OnOther, InStep,
       RevertPlaces, RollbackPlaces
  <2> QED
    BY <1>1, <2>3, <2>4 DEF IInv, TypeOK
<1> QED
  BY <1>2, <1>3

LEMMA RetireContainerInv == IInv /\ RetireContainer => IInv'
<1> SUFFICES ASSUME IInv, RetireContainer PROVE IInv'
  OBVIOUS
<1> USE DEF RetireContainer, At, End, Fault, NoFault, collected
<1>0. /\ op.at = "retire" /\ op.at # "idle" /\ Current.status = "rolled_back"
      /\ config = OtherPort(Current.port) /\ route = config
  BY DEF IInv, Working, Statuses, Routed, OnOther, InStep
<1>1. op' \in Operation /\ faults' \in 0..MaxFaults
  BY SwitchConstants, IdleIsOperation DEF IInv, TypeOK
<1>2. Working'
  BY DEF Idle, Working, Statuses, Routed, Flags, Served, Uncollected, Trying, Undoing,
     OnOwn, OnOther, InStep, RevertPlaces, RollbackPlaces
<1>3. CASE UNCHANGED container
  <2>1. TypeOK' /\ Files' /\ SiteIsServed'
    BY <1>1, <1>3, SameFiles DEF IInv, TypeOK, SiteIsServed, Behind
  <2> QED
    BY <1>2, <2>1 DEF IInv
<1>4. CASE Stop(op.switch)
  <2>1. Up(op.switch) => container[op.switch].port \notin {config, route}
    BY <1>0, AtWork, RunningIsOwn
  <2>2. Files' /\ SiteIsServed' /\ container' \in [Containers -> ContainerRecord]
    BY <1>0, <1>4, <2>1, AtWork, StoppedFiles
  <2> QED
    BY <1>1, <1>2, <2>2 DEF IInv, TypeOK
<1> QED
  BY <1>3, <1>4

\* Collect takes the data only of containers that are down, and no base that is needed.
LEMMA CollectInv == ASSUME NEW g \in Generations PROVE IInv /\ Collect(g) => IInv'
<1> SUFFICES ASSUME IInv, Collect(g) PROVE IInv'
  OBVIOUS
<1> USE DEF Collect, At, Fault, NoFault
<1>1. PICK old \in SUBSET (1..expired) : g \notin Protected(old)
  OBVIOUS
<1>2. \A c \in Containers : Up(c) => container[c].db # g
  BY <1>1 DEF Protected, Up
<1>3. \A c \in Containers :
        /\ container'[c].port = container[c].port /\ Up(c)' = Up(c)
        /\ container'[c].db = IF container[c].db = g THEN NoDb ELSE container[c].db
  BY DEF IInv, TypeOK, ContainerRecord, Up
<1>4. TypeOK'
  <2>1. faults' \in 0..MaxFaults
    BY SwitchConstants DEF IInv, TypeOK
  <2>2. container' \in [Containers -> ContainerRecord]
    BY DEF IInv, TypeOK, ContainerRecord
  <2>3. receipt' \subseteq Generations /\ reclaimed' \subseteq Generations
    BY DEF IInv, TypeOK
  <2> QED
    BY <2>1, <2>2, <2>3 DEF IInv, TypeOK
<1>5. (Records /\ PortOfDb)'
  BY DEF IInv, Files, Records, Founded, PortOfDb, Begun, OwnDb, OwnPort
<1>6. Made'
  BY <1>2, <1>3 DEF IInv, Files, Made, Begun, OwnDb, OwnPort
<1>7. OnePerPort'
  BY <1>3 DEF IInv, Files, OnePerPort
<1>8. RevertedStaysDown' /\ ReceiptsAreTrue'
  BY <1>3 DEF IInv, Files, RevertedStaysDown, ReceiptsAreTrue, Up, Containers, Switches
<1>9. CollectionIsSafe'
  <2>1. \A c \in Containers : Up(c)' => container'[c].db \notin reclaimed' \cup {NoDb}
    BY <1>2, <1>3 DEF IInv, Files, CollectionIsSafe, Up
  <2>2. ASSUME NEW n \in Switches, n > expired, record[n].status = "active"
        PROVE  /\ base[record[n].db] \notin reclaimed'
               /\ container'[record[n].previous].db = base[record[n].db]
    <3>1. n \notin old
      BY <2>2, SwitchConstants DEF IInv, TypeOK, Switches
    <3>2. base[record[n].db] # g
      BY <1>1, <2>2, <3>1 DEF Protected
    <3>3. record[n].previous \in Containers
      BY DEF IInv, TypeOK, SwitchRecord
    <3> QED
      BY <1>3, <2>2, <3>2, <3>3 DEF IInv, Files, CollectionIsSafe
  <2> QED
    BY <2>1, <2>2 DEF CollectionIsSafe, Up
<1>10. SiteIsServed'
  BY <1>3 DEF IInv, SiteIsServed, Behind, Up
<1>11. Working'
  BY DEF IInv, Working, Statuses, Routed, Flags, Served, Uncollected, Trying, Undoing, OnOwn,
     OnOther, InStep, RevertPlaces, RollbackPlaces
<1> QED
  BY <1>4, <1>5, <1>6, <1>7, <1>8, <1>9, <1>10, <1>11 DEF IInv, Files

--------------------------------------------------------------------------------
\* Steps that write records, receipts, or what the retention looks at.

LEMMA BeginRollbackInv == ASSUME NEW n \in Switches PROVE IInv /\ BeginRollback(n) => IInv'
<1> SUFFICES ASSUME IInv, BeginRollback(n) PROVE IInv'
  OBVIOUS
<1> USE DEF BeginRollback, At, collected
<1>1. op' = [at |-> "restart", switch |-> n, started |-> FALSE, changed |-> FALSE]
  BY DEF Idle
<1>2. TypeOK'
  <2>1. n \in Containers
    BY SwitchConstants DEF Switches, Containers
  <2>2. [at |-> "restart", switch |-> n, started |-> FALSE, changed |-> FALSE] \in Operation
    BY <2>1 DEF Operation, RollbackPlaces
  <2> QED
    BY <1>1, <2>2 DEF IInv, TypeOK
<1>3. Files' /\ SiteIsServed'
  BY SameFiles DEF IInv, SiteIsServed, Behind
<1>4. Working'
  BY <1>1 DEF IInv, Working, Statuses, Routed, Flags, Served, Uncollected, Current, Trying,
     Undoing, OnOwn, OnOther, InStep, RevertPlaces, RollbackPlaces
<1> QED
  BY <1>2, <1>3, <1>4 DEF IInv

LEMMA BuildInv == ASSUME NEW g \in Generations PROVE IInv /\ Build(g) => IInv'
<1> SUFFICES ASSUME IInv, Build(g) PROVE IInv'
  OBVIOUS
<1> USE DEF Build, At, collected
<1>1. /\ base[g] = NoDb /\ base' \in [Generations -> Built \cup {NoDb}]
      /\ \A h \in Generations : h # g => base'[h] = base[h]
      /\ base'[g] # NoDb
  BY DEF IInv, TypeOK, Behind, ContainerRecord, Files, Made, Up
<1>2. TypeOK'
  BY <1>1 DEF IInv, TypeOK
<1>3. /\ Records'
      /\ \A n \in Switches : record[n].status # "none" => base'[record[n].db] = base[record[n].db]
  BY <1>1 DEF IInv, Files, Records, Founded, Begun, OwnDb, OwnPort
<1>4. (PortOfDb /\ Made /\ OnePerPort /\ RevertedStaysDown /\ ReceiptsAreTrue)'
  BY DEF IInv, Files, PortOfDb, Made, OnePerPort, RevertedStaysDown, ReceiptsAreTrue, Begun,
     OwnDb, OwnPort, Up
<1>5. CollectionIsSafe'
  BY <1>3 DEF IInv, Files, CollectionIsSafe
<1>6. SiteIsServed'
  BY DEF IInv, SiteIsServed, Behind
<1>7. Working'
  BY DEF IInv, Working, Statuses, Routed, Flags, Served, Uncollected, Trying, Undoing, OnOwn,
     OnOther, InStep, RevertPlaces, RollbackPlaces
<1> QED
  BY <1>2, <1>3, <1>4, <1>5, <1>6, <1>7 DEF IInv, Files

LEMMA PassWindowInv == IInv /\ PassWindow => IInv'
<1> SUFFICES ASSUME IInv, PassWindow PROVE IInv'
  OBVIOUS
<1> USE DEF PassWindow
<1>1. TypeOK'
  BY SwitchConstants DEF IInv, TypeOK
<1>2. (Records /\ PortOfDb /\ Made /\ OnePerPort /\ RevertedStaysDown /\ ReceiptsAreTrue)'
  BY DEF IInv, Files, Records, Founded, PortOfDb, Made, OnePerPort, RevertedStaysDown,
     ReceiptsAreTrue, Begun, OwnDb, OwnPort, Up
<1>3. CollectionIsSafe'
  BY SwitchConstants DEF IInv, Files, CollectionIsSafe, TypeOK, Switches
<1>4. SiteIsServed' /\ Working'
  BY DEF IInv, SiteIsServed, Behind, Working, Statuses, Routed, Flags, Served, Uncollected, Up,
     Current
<1> QED
  BY <1>1, <1>2, <1>3, <1>4 DEF IInv, Files

\* A receipt for a generation that some record says was active.
LEMMA ReceiptWritten ==
  ASSUME IInv, NEW g \in Generations, receipt' = receipt \cup {g},
         \E n \in Switches : record[n].status \in {"active", "rolled_back"} /\ record[n].db = g,
         op' = op \/ op' = Idle,
         UNCHANGED <<config, route, container, record, base, faults, expired, reclaimed>>
  PROVE  IInv'
<1>1. TypeOK'
  BY IdleIsOperation DEF IInv, TypeOK
<1>2. (Records /\ PortOfDb /\ Made /\ OnePerPort /\ RevertedStaysDown /\ CollectionIsSafe)'
  BY DEF IInv, Files, Records, Founded, PortOfDb, Made, OnePerPort, RevertedStaysDown,
     CollectionIsSafe, Begun, OwnDb, OwnPort, Up
<1>3. ReceiptsAreTrue' /\ SiteIsServed'
  BY DEF IInv, Files, ReceiptsAreTrue, SiteIsServed, Behind
<1>4. Working'
  BY DEF IInv, Idle, Working, Statuses, Routed, Flags, Served, Uncollected, Up, Current, Behind,
     Trying, Undoing, OnOwn, OnOther, InStep, RevertPlaces, RollbackPlaces
<1> QED
  BY <1>1, <1>2, <1>3, <1>4 DEF IInv, Files

LEMMA RecoverInv == ASSUME NEW g \in Generations PROVE IInv /\ Recover(g) => IInv'
BY ReceiptWritten DEF Recover, collected

LEMMA WriteReceiptInv == IInv /\ WriteReceipt => IInv'
<1> SUFFICES ASSUME IInv, WriteReceipt PROVE IInv'
  OBVIOUS
<1>1. op.switch \in Switches /\ Current.status = "active" /\ Current.db \in Generations
  BY DEF WriteReceipt, At, IInv, Working, Statuses, Files, Records, Founded, Current
<1> QED
  BY <1>1, ReceiptWritten DEF WriteReceipt, End, Current, collected

\* A record gets a new status: what that must not contradict.
LEMMA StatusFiles ==
  ASSUME IInv, NEW n \in Switches, NEW status \in {"active", "failed_and_reverted", "rolled_back"},
         Set(n, status), record[n].status # "none",
         status = "failed_and_reverted" =>
           /\ ~Up(n) /\ record[n].status = "preparing"
           /\ \A k \in Switches : record[k].status # "none" => record[k].previous # n,
         status = "active" => Up(record[n].previous),
         UNCHANGED <<container, receipt, expired, reclaimed, base>>
  PROVE  /\ Files' /\ record' \in [Switches -> SwitchRecord]
         /\ \A k \in Switches : /\ record'[k].db = record[k].db /\ record'[k].port = record[k].port
                                /\ record'[k].previous = record[k].previous
                                /\ k # n => record'[k] = record[k]
         /\ record'[n].status = status
<1>1. /\ record' \in [Switches -> SwitchRecord]
      /\ \A k \in Switches : /\ record'[k].db = record[k].db /\ record'[k].port = record[k].port
                             /\ record'[k].previous = record[k].previous
                             /\ k # n => record'[k] = record[k]
      /\ record'[n].status = status
  BY DEF IInv, TypeOK, SwitchRecord, Set
<1>2. \A c \in Containers : c # 0 => c \in Switches
  BY SwitchConstants DEF Containers, Switches
<1>3. \A c \in Containers : /\ Begun(c)' <=> Begun(c)
                            /\ OwnDb(c)' = OwnDb(c) /\ OwnPort(c)' = OwnPort(c)
  BY <1>1, <1>2 DEF Begun, OwnDb, OwnPort
<1>4. \A k \in Switches : record[k].previous \in Containers
  BY DEF IInv, TypeOK, SwitchRecord
<1>5. \A k \in Switches : record'[k].status # "none" <=> record[k].status # "none"
  BY <1>1
<1>6. Records'
  <2> SUFFICES ASSUME NEW k \in Switches, record[k].status # "none" PROVE Founded(k)'
    BY <1>5 DEF Records
  <2>1. Founded(k)
    BY DEF IInv, Files, Records
  <2>2. record[k].previous # 0 => record'[record[k].previous].status # "failed_and_reverted"
    BY <1>1, <1>2, <1>4, <2>1 DEF Founded
  <2> QED
    BY <1>1, <1>3, <1>4, <2>1, <2>2 DEF Founded, Begun, OwnDb, OwnPort
<1>7. (PortOfDb /\ Made /\ OnePerPort)'
  BY <1>3 DEF IInv, Files, PortOfDb, Made, OnePerPort, Up
<1>8. RevertedStaysDown'
  BY <1>1 DEF IInv, Files, RevertedStaysDown, Up
<1>9. ReceiptsAreTrue'
  BY <1>1 DEF IInv, Files, ReceiptsAreTrue
<1>10. CollectionIsSafe'
  <2>1. status = "active" =>
          /\ base[record[n].db] \notin reclaimed
          /\ container[record[n].previous].db = base[record[n].db]
    BY <1>4, RunningIsOwn DEF IInv, Files, Records, Founded, CollectionIsSafe, Up
  <2> QED
    BY <1>1, <2>1 DEF IInv, Files, CollectionIsSafe
<1> QED
  BY <1>1, <1>6, <1>7, <1>8, <1>9, <1>10 DEF Files

LEMMA RecordActiveInv == IInv /\ RecordActive => IInv'
<1> SUFFICES ASSUME IInv, RecordActive PROVE IInv'
  OBVIOUS
<1> USE DEF RecordActive, At, GoTo, Fault, NoFault, collected
<1>0. /\ op.at = "record" /\ op.at # "idle" /\ Current.status = "preparing"
      /\ config = Current.port /\ route = config /\ Up(op.switch) /\ Up(Current.previous)
      /\ op.started /\ op.changed
  BY DEF IInv, Working, Statuses, Routed, Served, Flags, Trying, OnOwn, InStep
<1>1. op' \in Operation /\ faults' \in 0..MaxFaults
  BY SwitchConstants DEF IInv, TypeOK, Operation, SwitchPlaces, RevertPlaces
<1>2. SiteIsServed'
  BY DEF IInv, SiteIsServed, Behind
<1>3. CASE UNCHANGED record /\ GoTo("revert")
  <2>1. Files' /\ TypeOK'
    BY <1>1, <1>3, SameFiles DEF IInv, TypeOK
  <2>2. Working'
    BY <1>0, <1>3 DEF IInv, Working, Statuses, Routed, Flags, Served, Uncollected, Up,
       Current, Behind, TypeOK, Operation, Trying, Undoing, OnOwn, OnOther, InStep,
       RevertPlaces, RollbackPlaces
  <2> QED
    BY <1>2, <2>1, <2>2 DEF IInv
<1>4. CASE Set(op.switch, "active") /\ GoTo("stop")
  <2>1. /\ Files' /\ record' \in [Switches -> SwitchRecord]
        /\ record'[op.switch].port = Current.port /\ record'[op.switch].status = "active"
    BY <1>0, <1>4, AtWork, StatusFiles DEF Current
  <2>2. op'.at = "stop" /\ op'.switch = op.switch
    BY <1>4 DEF IInv, TypeOK, Operation
  <2>3. Working'
    BY <1>0, <2>1, <2>2, AtWork DEF Working, Statuses, Routed, Flags, Served, Uncollected, Up,
       Current, Trying, Undoing, OnOwn, OnOther, InStep, RevertPlaces, RollbackPlaces
  <2> QED
    BY <1>1, <1>2, <2>1, <2>3 DEF IInv, TypeOK
<1> QED
  BY <1>3, <1>4

LEMMA RecordRevertedInv == IInv /\ RecordReverted => IInv'
<1> SUFFICES ASSUME IInv, RecordReverted PROVE IInv'
  OBVIOUS
<1> USE DEF RecordReverted, At, End, collected
<1>0. /\ op.at = "reverted" /\ op.at # "idle" /\ Current.status = "preparing" /\ ~Up(op.switch)
      /\ \A n \in Switches : record[n].status # "none" => record[n].previous # op.switch
  BY DEF IInv, Working, Statuses, Served, RevertPlaces
<1>1. Files' /\ record' \in [Switches -> SwitchRecord]
  BY <1>0, AtWork, StatusFiles DEF Current
<1>2. TypeOK' /\ SiteIsServed'
  BY <1>1, IdleIsOperation DEF IInv, TypeOK, SiteIsServed, Behind
<1>3. Working'
  BY DEF Idle, Working, Statuses, Routed, Flags, Served, Uncollected, Trying, Undoing,
     OnOwn, OnOther, InStep, RevertPlaces, RollbackPlaces
<1> QED
  BY <1>1, <1>2, <1>3 DEF IInv

LEMMA RecordRolledBackInv == IInv /\ RecordRolledBack => IInv'
<1> SUFFICES ASSUME IInv, RecordRolledBack PROVE IInv'
  OBVIOUS
<1> USE DEF RecordRolledBack, At, GoTo, collected
<1>0. /\ op.at = "undone" /\ op.at # "idle" /\ Current.status = "active"
      /\ config = OtherPort(Current.port) /\ route = config /\ Up(Current.previous)
  BY DEF IInv, Working, Statuses, Routed, Served, Undoing, RollbackPlaces, OnOther, InStep
<1>1. /\ Files' /\ record' \in [Switches -> SwitchRecord]
      /\ record'[op.switch].port = Current.port /\ record'[op.switch].status = "rolled_back"
      /\ record'[op.switch].previous = Current.previous
  BY <1>0, AtWork, StatusFiles DEF Current
<1>2. op'.at = "retire" /\ op'.switch = op.switch /\ op' \in Operation
  BY DEF IInv, TypeOK, Operation, RollbackPlaces
<1>3. TypeOK' /\ SiteIsServed'
  BY <1>1, <1>2 DEF IInv, TypeOK, SiteIsServed, Behind
<1>4. Working'
  BY <1>0, <1>1, <1>2, AtWork DEF Working, Statuses, Routed, Flags, Served, Uncollected, Up,
     Current, Trying, Undoing, OnOwn, OnOther, InStep, RevertPlaces, RollbackPlaces
<1> QED
  BY <1>1, <1>3, <1>4 DEF IInv

LEMMA JustBegun ==
  ASSUME NEW n, NEW place, op' = [at |-> place, switch |-> n, started |-> FALSE, changed |-> FALSE]
  PROVE  op'.at = place /\ op'.switch = n /\ ~op'.started /\ ~op'.changed
OBVIOUS

LEMMA PrepareInv ==
  ASSUME NEW g \in Generations, NEW n \in Switches PROVE IInv /\ Prepare(g, n) => IInv'
<1> SUFFICES ASSUME IInv, Prepare(g, n) PROVE IInv'
  OBVIOUS
<1> USE DEF Prepare, At, collected
<1>1. PICK c \in Behind(config) :
        /\ container[c].db = base[g]
        /\ record' = [record EXCEPT ![n] = [status |-> "preparing", port |-> OtherPort(config),
                                            db |-> g, previous |-> c]]
  OBVIOUS
<1>2. /\ c \in Containers /\ Up(c) /\ Begun(c) /\ OwnDb(c) = base[g] /\ OwnPort(c) = config
      /\ c # n /\ (c # 0 => record[c].status # "failed_and_reverted")
  <2>1. c \in Containers /\ Up(c)
    BY DEF Behind, Up
  <2>2. Begun(c) /\ OwnDb(c) = base[g] /\ OwnPort(c) = config
    BY <1>1, <2>1, RunningIsOwn DEF Behind
  <2> QED
    BY <2>1, <2>2, SwitchConstants
       DEF Begun, Switches, Containers, IInv, Files, RevertedStaysDown, Up
<1>3. /\ record'[n] = [status |-> "preparing", port |-> OtherPort(config), db |-> g, previous |-> c]
      /\ \A k \in Switches : k # n => record'[k] = record[k]
      /\ record' \in [Switches -> SwitchRecord]
  BY <1>1, <1>2, PortsDiffer DEF IInv, TypeOK, SwitchRecord, Built
<1>4. op' = [at |-> "run", switch |-> n, started |-> FALSE, changed |-> FALSE]
  BY DEF Idle
<1>5. record[n].status = "none" /\ container[n].db = NoDb /\ ~Up(n) /\ n # 0 /\ n \in Containers
  BY SwitchConstants DEF IInv, Files, Made, Begun, Switches, Containers
<1>6. \A b \in Containers : Begun(b) => /\ b # n /\ Begun(b)'
                                        /\ OwnDb(b)' = OwnDb(b) /\ OwnPort(b)' = OwnPort(b)
  BY <1>3, <1>5, SwitchConstants DEF Begun, OwnDb, OwnPort, Switches, Containers
<1>7. OwnDb(n)' = g /\ OwnPort(n)' = OtherPort(config)
  BY <1>3, <1>5 DEF OwnDb, OwnPort
<1>8. TypeOK'
  <2>1. [at |-> "run", switch |-> n, started |-> FALSE, changed |-> FALSE] \in Operation
    BY <1>5 DEF Operation, SwitchPlaces
  <2> QED
    BY <1>3, <1>4, <2>1 DEF IInv, TypeOK
<1>9. Records'
  <2> SUFFICES ASSUME NEW k \in Switches, record'[k].status # "none" PROVE Founded(k)'
    BY DEF Records
  <2>1. CASE k = n
    BY <1>2, <1>3, <1>6, <2>1 DEF Founded, Begun, OwnDb, OwnPort, IInv, TypeOK, OtherPort, Ports
  <2>2. CASE k # n
    <3>1. record'[k] = record[k] /\ Founded(k)
      BY <1>3, <2>2 DEF IInv, Files, Records
    <3>2. record[k].previous \in Containers /\ record[k].previous # n
      BY <1>6, <3>1 DEF Founded, IInv, TypeOK, SwitchRecord
    <3>3. record[k].previous # 0 => record'[record[k].previous] = record[record[k].previous]
      BY <1>3, <3>2, SwitchConstants DEF Switches, Containers
    <3> QED
      BY <1>6, <3>1, <3>2, <3>3 DEF Founded, Begun, OwnDb, OwnPort
  <2> QED
    BY <2>1, <2>2
<1>10. PortOfDb'
  <2>1. ASSUME NEW b \in Containers, Begun(b), OwnDb(b) = g
        PROVE  OwnPort(b) = OtherPort(config)
    <3>1. b \in Switches /\ record[b].status # "none" /\ record[b].db = g
      BY <2>1, SwitchConstants DEF Begun, OwnDb, Switches, Containers
    <3>2. Founded(b)
      BY <3>1 DEF IInv, Files, Records
    <3>3. OwnPort(record[b].previous) = OwnPort(c)
      BY <1>2, <3>1, <3>2 DEF Founded, IInv, Files, PortOfDb, TypeOK, SwitchRecord
    <3>4. OwnPort(b) = record[b].port /\ record[b].port \in Ports
      BY <3>1, SwitchConstants DEF OwnPort, IInv, TypeOK, SwitchRecord, Switches
    <3> QED
      BY <1>2, <3>2, <3>3, <3>4, PortsDiffer DEF Founded
  <2>2. \A b \in Containers : Begun(b)' => Begun(b) \/ b = n
    BY <1>3, SwitchConstants DEF Begun, Switches, Containers
  <2> QED
    BY <1>6, <1>7, <2>1, <2>2 DEF IInv, Files, PortOfDb
<1>11. Made' /\ OnePerPort'
  BY <1>5, <1>6 DEF IInv, Files, Made, OnePerPort, Up
<1>12. (RevertedStaysDown /\ ReceiptsAreTrue /\ CollectionIsSafe)'
  BY <1>3, <1>5 DEF IInv, Files, RevertedStaysDown, ReceiptsAreTrue, CollectionIsSafe
<1>13. SiteIsServed'
  BY DEF IInv, SiteIsServed, Behind
<1>14. Working'
  <2>1. \A k \in Switches : record'[k].status # "none" => record'[k].previous # n
    BY <1>2, <1>3, <1>6 DEF IInv, Files, Records, Founded, TypeOK, SwitchRecord
  <2>2. config = OtherPort(OtherPort(config))
    BY PortsDiffer DEF IInv, TypeOK
  <2>3. /\ op'.at = "run" /\ op'.switch = n /\ ~op'.started /\ ~op'.changed
        /\ Current'.status = "preparing" /\ Current'.port = OtherPort(config)
        /\ Current'.db = g /\ Current'.previous = c
    <3>1. op'.at = "run" /\ op'.switch = n /\ ~op'.started /\ ~op'.changed
      BY <1>4, JustBegun
    <3>2. Current' = record'[n]
      BY <3>1 DEF Current
    <3> QED
      BY <1>3, <3>1, <3>2
  <2>4. Statuses'
    BY <2>1, <2>3 DEF Statuses, Undoing, RollbackPlaces
  <2>5. Routed' /\ Flags'
    BY <2>2, <2>3 DEF Routed, Flags, OnOwn, OnOther, InStep
  <2>6. Served'
    BY <1>2, <1>5, <2>3 DEF Served, Up
  <2>7. Uncollected'
    BY <2>3 DEF Uncollected
  <2> QED
    BY <2>4, <2>5, <2>6, <2>7 DEF Working
<1> QED
  BY <1>8, <1>9, <1>10, <1>11, <1>12, <1>13, <1>14 DEF IInv, Files

--------------------------------------------------------------------------------

LEMMA InitInv == Init => IInv
<1> SUFFICES ASSUME Init PROVE IInv
  OBVIOUS
<1>1. TypeOK
  <2>1. /\ [port |-> 8180, db |-> First, running |-> TRUE] \in ContainerRecord
        /\ [port |-> 8180, db |-> NoDb, running |-> FALSE] \in ContainerRecord
    BY DEF ContainerRecord, Ports, Built
  <2>2. \A n \in Switches :
          [status |-> "none", port |-> 8180, db |-> NoDb, previous |-> 0] \in SwitchRecord
    BY SwitchConstants DEF SwitchRecord, Ports, Built, Containers
  <2> QED
    BY <2>1, <2>2, IdleIsOperation, SwitchConstants DEF Init, TypeOK, Ports, Built
<1>2. /\ container[0] = [port |-> 8180, db |-> First, running |-> TRUE] /\ 0 \in Containers
      /\ \A c \in Containers : c # 0 => ~Up(c) /\ container[c].db = NoDb
      /\ \A n \in Switches : record[n].status = "none"
  BY SwitchConstants DEF Init, Containers, Up
<1>3. \A c \in Containers : Begun(c) => c = 0
  BY <1>2, SwitchConstants DEF Begun, Switches, Containers
<1>4. Records /\ PortOfDb /\ ReceiptsAreTrue
  BY <1>2, <1>3 DEF Records, PortOfDb, ReceiptsAreTrue, Init
<1>5. Made /\ OnePerPort
  BY <1>2, SwitchConstants DEF Made, OnePerPort, Begun, OwnDb, OwnPort, Up
<1>6. RevertedStaysDown /\ CollectionIsSafe
  BY <1>2, SwitchConstants DEF RevertedStaysDown, CollectionIsSafe, Up, Init
<1>7. SiteIsServed
  BY <1>2 DEF SiteIsServed, Behind, Init
<1>8. Working
  BY DEF Init, Idle, Working, Statuses, Routed, Flags, Served, Uncollected, Trying, Undoing,
     OnOwn, OnOther, InStep, RevertPlaces, RollbackPlaces
<1> QED
  BY <1>1, <1>4, <1>5, <1>6, <1>7, <1>8 DEF IInv, Files

LEMMA NextInv == IInv /\ [Next]_vars => IInv'
<1> SUFFICES ASSUME IInv, [Next]_vars PROVE IInv'
  OBVIOUS
<1>1. CASE UNCHANGED vars
  BY <1>1, SameFiles
     DEF vars, IInv, TypeOK, SiteIsServed, Behind, Working, Statuses, Routed, Flags, Served,
         Uncollected, Up, Current
<1>2. CASE \E g \in Generations : Build(g) \/ Recover(g) \/ Collect(g)
  BY <1>2, BuildInv, RecoverInv, CollectInv
<1>3. CASE \E g \in Generations, n \in Switches : Prepare(g, n)
  BY <1>3, PrepareInv
<1>4. CASE \E n \in Switches : BeginRollback(n)
  BY <1>4, BeginRollbackInv
<1>5. CASE Switch
  BY <1>5, RunCandidateInv, CandidateReadyInv, WriteConfigInv, ReloadInv, VerifyInv,
     RecordActiveInv, StopPreviousInv, WriteReceiptInv, RestoreConfigInv, RestoreRouteInv,
     DiscardCandidateInv, RecordRevertedInv DEF Switch
<1>6. CASE Rollback
  BY <1>6, RestartPreviousInv, PreviousHealthyInv, UndoConfigInv, UndoRouteInv, UndoVerifyInv,
     RecordRolledBackInv, RetireContainerInv, RedoConfigInv, RedoRouteInv DEF Rollback
<1>7. CASE NginxReload \/ Crash \/ PassWindow
  BY <1>7, BetweenInv, CrashInv, PassWindowInv
<1> QED
  BY <1>1, <1>2, <1>3, <1>4, <1>5, <1>6, <1>7 DEF Next

(***************************************************************************)
(* The inductive invariant of the switch: which ports, containers and       *)
(* records each place of an operation may count on.                         *)
(***************************************************************************)
THEOREM SwitchInvariant == Spec => []IInv
<1>1. Init => IInv
  BY InitInv
<1>2. IInv /\ [Next]_vars => IInv'
  BY NextInv
<1> QED
  BY <1>1, <1>2, PTL DEF Spec

\* Every variable of the switch keeps its type.
THEOREM SwitchTypes == Spec => []TypeOK
<1>1. IInv => TypeOK
  BY DEF IInv
<1> QED
  BY <1>1, SwitchInvariant, PTL

(***************************************************************************)
(* The site is up in every state, through any number of failed commands,    *)
(* crashes, foreign reloads, rollbacks and collections (dataset.py:206-287).*)
(***************************************************************************)
THEOREM SiteAlwaysServed == Spec => []SiteIsServed
<1>1. IInv => SiteIsServed
  BY DEF IInv
<1> QED
  BY <1>1, SwitchInvariant, PTL

\* A reverted candidate never runs again (dataset.py:226-235).
THEOREM RevertedAlwaysDown == Spec => []RevertedStaysDown
<1>1. IInv => RevertedStaysDown
  BY DEF IInv, Files
<1> QED
  BY <1>1, SwitchInvariant, PTL

\* Every receipt is of a switch that was recorded as active (dataset.py:291-331).
THEOREM ReceiptsAlwaysTrue == Spec => []ReceiptsAreTrue
<1>1. IInv => ReceiptsAreTrue
  BY DEF IInv, Files
<1> QED
  BY <1>1, SwitchInvariant, PTL

\* The collection never takes what runs or what a rollback needs (retention_gc.py:24-59).
THEOREM CollectionAlwaysSafe == Spec => []CollectionIsSafe
<1>1. IInv => CollectionIsSafe
  BY DEF IInv, Files
<1> QED
  BY <1>1, SwitchInvariant, PTL

LEMMA OneServer == IInv => OneServerPerGeneration
BY DEF IInv, Files, Made, PortOfDb, OnePerPort, OneServerPerGeneration, Up

(***************************************************************************)
(* No two containers ever serve one generation: however often it is tried,  *)
(* its container is always given the same port (dataset.py:185, 291-331).   *)
(***************************************************************************)
THEOREM OneServerAlways == Spec => []OneServerPerGeneration
BY OneServer, SwitchInvariant, PTL

(***************************************************************************)
(* A record is written as active, or as rolled back, only in a state where  *)
(* route and config agree on what it says is served (dataset.py:221-286).   *)
(***************************************************************************)
THEOREM RecordsAlwaysTrue == Spec => RecordsAreTrue
<1> DEFINE Honest ==
      \A n \in Switches :
        /\ record[n].status # "active" /\ record'[n].status = "active" =>
             route = config /\ Serves(route, record[n].db)
        /\ record[n].status # "rolled_back" /\ record'[n].status = "rolled_back" =>
             route = config /\ Serves(route, container[record[n].previous].db)
<1>1. IInv /\ [Next]_vars => Honest \/ UNCHANGED record
  <2> SUFFICES ASSUME IInv, Next PROVE Honest \/ UNCHANGED record
    BY DEF vars
  <2>1. CASE RecordActive
    <3>1. /\ op.at = "record" /\ op.at # "idle" /\ Current.status = "preparing"
          /\ config = Current.port /\ route = config /\ Up(op.switch)
      BY <2>1 DEF RecordActive, At, IInv, Working, Statuses, Routed, Served, Trying, OnOwn, InStep
    <3>2. Serves(route, Current.db)
      BY <3>1, AtWork, RunningIsOwn DEF Serves
    <3>3. UNCHANGED record \/ Set(op.switch, "active")
      BY <2>1 DEF RecordActive
    <3> QED
      BY <3>1, <3>2, <3>3, AtWork DEF Set, Current, IInv, TypeOK, SwitchRecord
  <2>2. CASE RecordRolledBack
    <3>1. /\ op.at = "undone" /\ op.at # "idle" /\ Current.status = "active"
          /\ config = OtherPort(Current.port) /\ route = config /\ Up(Current.previous)
      BY <2>2 DEF RecordRolledBack, At, IInv, Working, Statuses, Routed, Served, Undoing,
         RollbackPlaces, OnOther, InStep
    <3>2. Serves(route, container[Current.previous].db)
      BY <3>1, AtWork, RunningIsOwn DEF Serves
    <3>3. Set(op.switch, "rolled_back")
      BY <2>2 DEF RecordRolledBack
    <3> QED
      BY <3>1, <3>2, <3>3, AtWork DEF Set, Current, IInv, TypeOK, SwitchRecord
  <2>3. CASE RecordReverted
    <3>1. Set(op.switch, "failed_and_reverted")
      BY <2>3 DEF RecordReverted
    <3> QED
      BY <3>1 DEF Set, IInv, TypeOK, SwitchRecord
  <2>4. CASE \E g \in Generations, n \in Switches : Prepare(g, n)
    <3>1. PICK g \in Generations, n \in Switches : Prepare(g, n)
      BY <2>4
    <3>2. PICK c \in Behind(config) :
            record' = [record EXCEPT ![n] = [status |-> "preparing", port |-> OtherPort(config),
                                             db |-> g, previous |-> c]]
      BY <3>1 DEF Prepare
    <3> DEFINE new == [status |-> "preparing", port |-> OtherPort(config), db |-> g, previous |-> c]
    <3>3. record'[n] = new /\ \A k \in Switches : k # n => record'[k] = record[k]
      BY <3>2 DEF IInv, TypeOK
    <3>4. new.status = "preparing"
      OBVIOUS
    <3>5. \A k \in Switches :
             record'[k].status = record[k].status \/ record'[k].status = "preparing"
      BY <3>3, <3>4
    <3> QED
      BY <3>5
  <2>5. \/ RecordActive \/ RecordRolledBack \/ RecordReverted
        \/ \E g \in Generations, n \in Switches : Prepare(g, n)
        \/ UNCHANGED record
    BY DEF Next, Switch, Rollback, Build, Recover, Collect, BeginRollback, RunCandidate,
       CandidateReady, WriteConfig, Reload, Verify, StopPrevious, WriteReceipt, RestoreConfig,
       RestoreRoute, DiscardCandidate, RestartPrevious, PreviousHealthy, UndoConfig, UndoRoute,
       UndoVerify, RetireContainer, RedoConfig, RedoRoute, NginxReload, Crash, PassWindow
  <2> QED
    BY <2>1, <2>2, <2>3, <2>4, <2>5
<1> QED
  BY <1>1, SwitchInvariant, PTL DEF Spec, RecordsAreTrue

--------------------------------------------------------------------------------
\* Refinement: the switch is a publication.

\* Behind a port there is one container at most, and DbAt is its database.
LEMMA DbAtIs ==
  ASSUME IInv, NEW p, NEW c \in Behind(p)
  PROVE  Behind(p) = {c} /\ DbAt(p) = container[c].db
BY DEF IInv, Files, OnePerPort, Behind, DbAt, Up

\* What is recorded: the databases of switches that were active, or went back.
Confirmed ==
  {record[n].db : n \in {k \in Switches : record[k].status \in {"active", "rolled_back"}}}
  \cup {base[record[n].db] : n \in {k \in Switches : record[k].status = "rolled_back"}}

Trial == IF OnTrial THEN [new |-> DbAt(config), old |-> DbAt(OtherPort(config))] ELSE NoTrial

\* What a publication is made of does not change.
Unseen == UNCHANGED <<DbAt(config), Trial, Confirmed, receipt>>

LEMMA SameDbAt ==
  ASSUME NEW p, UNCHANGED container
  PROVE  DbAt(p)' = DbAt(p)
BY DEF DbAt, Behind

LEMMA QuietSteps ==
  ASSUME IInv, \/ NginxReload \/ CandidateReady \/ Reload \/ Verify \/ RestoreRoute
               \/ PreviousHealthy \/ UndoRoute \/ UndoVerify \/ RedoRoute \/ PassWindow
               \/ \E n \in Switches : BeginRollback(n)
  PROVE  Unseen
<1>1. UNCHANGED <<config, container, record, receipt, base>>
  BY DEF NginxReload, CandidateReady, Reload, Verify, RestoreRoute, PreviousHealthy, UndoRoute,
     UndoVerify, RedoRoute, PassWindow, BeginRollback
<1>2. OnTrial' <=> OnTrial
  <2> USE DEF OnTrial, At, GoTo, End, Idle, IInv, TypeOK, Operation, Working, Flags
  <2>1. CASE NginxReload \/ PassWindow
    BY <2>1 DEF NginxReload, PassWindow
  <2>2. CASE CandidateReady
    BY <2>2 DEF CandidateReady
  <2>3. CASE Reload
    BY <2>3 DEF Reload
  <2>4. CASE Verify
    BY <2>4 DEF Verify, Fails
  <2>5. CASE RestoreRoute
    BY <2>5 DEF RestoreRoute
  <2>6. CASE PreviousHealthy
    BY <2>6 DEF PreviousHealthy
  <2>7. CASE UndoRoute
    BY <2>7 DEF UndoRoute
  <2>8. CASE UndoVerify
    BY <2>8 DEF UndoVerify, Fails
  <2>9. CASE RedoRoute
    BY <2>9 DEF RedoRoute
  <2>10. CASE \E n \in Switches : BeginRollback(n)
    BY <2>10 DEF BeginRollback
  <2> QED
    BY <2>1, <2>2, <2>3, <2>4, <2>5, <2>6, <2>7, <2>8, <2>9, <2>10
<1>3. DbAt(config)' = DbAt(config) /\ DbAt(OtherPort(config))' = DbAt(OtherPort(config))
  BY <1>1 DEF DbAt, Behind
<1> QED
  BY <1>1, <1>2, <1>3 DEF Unseen, Trial, Confirmed

\* The database served exists; a trial is told from none.
LEMMA Serving ==
  ASSUME IInv
  PROVE  /\ \E c \in Containers : c \in Behind(config) /\ Up(c) /\ DbAt(config) = container[c].db
         /\ DbAt(config) \in Built /\ DbAt(config) # NoDb
<1>1. PICK c \in Behind(config) : TRUE
  BY DEF IInv, SiteIsServed
<1>2. c \in Containers /\ Up(c) /\ DbAt(config) = container[c].db
  BY <1>1, DbAtIs DEF Behind, Up
<1>3. container[c].db \in Built /\ container[c].db # NoDb
  BY <1>2 DEF IInv, TypeOK, ContainerRecord, Files, Made
<1> QED
  BY <1>1, <1>2, <1>3

LEMMA TrialIs ==
  ASSUME IInv, OnTrial
  PROVE  /\ Trial # NoTrial
         /\ Trial.new = DbAt(config) /\ Trial.old = DbAt(OtherPort(config))
<1>1. Trial = [new |-> DbAt(config), old |-> DbAt(OtherPort(config))]
  BY DEF Trial
<1>2. Trial.new = DbAt(config) /\ Trial.old = DbAt(OtherPort(config))
  BY <1>1
<1>3. NoTrial.new = NoDb
  BY DEF NoTrial
<1> QED
  BY <1>2, <1>3, Serving

\* As DbAtIs, of the state after a step.
LEMMA DbAtWillBe ==
  ASSUME IInv', NEW c \in Containers, container'[c].running, container'[c].port = config'
  PROVE  DbAt(config)' = container'[c].db
<1>1. Behind(config)' = {c}
  BY DEF IInv, Files, OnePerPort, Behind, Up
<1> QED
  BY <1>1 DEF DbAt

\* The container behind the config stays.
LEMMA ServerStays ==
  ASSUME IInv, IInv', UNCHANGED <<config, record, receipt, base>>, ~OnTrial, ~OnTrial',
         \A c \in Behind(config) : /\ container'[c].running
                                   /\ container'[c].db = container[c].db
                                   /\ container'[c].port = container[c].port
  PROVE  Unseen
<1>1. PICK c \in Containers : c \in Behind(config) /\ DbAt(config) = container[c].db
  BY Serving
<1>2. DbAt(config)' = DbAt(config)
  BY <1>1, DbAtWillBe DEF Behind
<1> QED
  BY <1>2 DEF Unseen, Trial, Confirmed

LEMMA ContainerSteps ==
  ASSUME IInv, IInv', \/ RunCandidate \/ StopPrevious \/ DiscardCandidate \/ RestartPrevious
                      \/ RetireContainer
  PROVE  Unseen
<1>1. UNCHANGED <<config, record, receipt, base>> /\ op.at # "idle"
  BY DEF RunCandidate, StopPrevious, DiscardCandidate, RestartPrevious, RetireContainer, At
<1>2. ~OnTrial
  BY DEF RunCandidate, StopPrevious, DiscardCandidate, RestartPrevious, RetireContainer, At, OnTrial
<1>3. ~OnTrial'
  <2> USE DEF OnTrial, At, GoTo, End, Idle, IInv, TypeOK, Operation, Working, Flags
  <2>1. CASE RunCandidate
    <3>1. ~op.changed /\ op.at = "run"
      BY <2>1 DEF RunCandidate
    <3>2. op'.at = "ready" \/ (op'.at = "revert" /\ ~op'.changed)
      BY <2>1, <3>1 DEF RunCandidate
    <3> QED
      BY <3>2
  <2>2. CASE StopPrevious
    BY <2>2 DEF StopPrevious
  <2>3. CASE DiscardCandidate
    BY <2>3 DEF DiscardCandidate
  <2>4. CASE RestartPrevious
    BY <2>4 DEF RestartPrevious
  <2>5. CASE RetireContainer
    BY <2>5 DEF RetireContainer
  <2> QED
    BY <2>1, <2>2, <2>3, <2>4, <2>5
<1>4. ASSUME NEW c \in Behind(config)
      PROVE  /\ container'[c].running /\ container'[c].db = container[c].db
             /\ container'[c].port = container[c].port
  <2>1. c \in Containers /\ Up(c) /\ container[c].port = config
    BY DEF Behind, Up
  <2>2. CASE RunCandidate
    <3>1. c # op.switch
      BY <2>1, <2>2 DEF RunCandidate, At, IInv, Working, Served
    <3> QED
      BY <2>1, <2>2, <3>1, AtWork, <1>1 DEF RunCandidate, IInv, TypeOK, Up
  <2>3. CASE StopPrevious
    <3>1. config = Current.port /\ Current.status # "none"
      BY <2>3 DEF StopPrevious, At, IInv, Working, Routed, Statuses, OnOwn
    <3>2. c # Current.previous
      BY <1>1, <2>1, <3>1, AtWork, RunningIsOwn
    <3> QED
      BY <1>1, <2>1, <2>3, <3>2, AtWork DEF StopPrevious, Stop, IInv, TypeOK, Up
  <2>4. CASE DiscardCandidate \/ RetireContainer
    <3>1. config = OtherPort(Current.port)
      BY <2>4 DEF DiscardCandidate, RetireContainer, At, IInv, Working, Routed, OnOther
    <3>2. c # op.switch
      BY <1>1, <2>1, <3>1, AtWork, RunningIsOwn
    <3> QED
      BY <1>1, <2>1, <2>4, <3>2, AtWork
         DEF DiscardCandidate, RetireContainer, Stop, IInv, TypeOK, Up
  <2>5. CASE RestartPrevious
    BY <1>1, <2>1, <2>5, AtWork DEF RestartPrevious, Start, IInv, TypeOK, ContainerRecord, Up
  <2> QED
    BY <2>2, <2>3, <2>4, <2>5
<1> QED
  BY <1>1, <1>2, <1>3, <1>4, ServerStays

\* Nothing that is behind a port has changed.
LEMMA SameServer ==
  ASSUME UNCHANGED <<config, container>>
  PROVE  DbAt(config)' = DbAt(config) /\ DbAt(OtherPort(config))' = DbAt(OtherPort(config))
BY DEF DbAt, Behind

LEMMA RecordSteps ==
  ASSUME IInv, \/ RecordReverted
               \/ \E g \in Generations : Build(g)
               \/ \E g \in Generations, n \in Switches : Prepare(g, n)
  PROVE  Unseen
<1>1. UNCHANGED <<config, container, receipt>> /\ ~OnTrial /\ ~OnTrial'
  <2>1. UNCHANGED <<config, container, receipt>> /\ op.at \in {"idle", "reverted"}
    BY DEF RecordReverted, Build, Prepare, At
  <2>2. \/ op' = op \/ op' = Idle
        \/ \E n \in Switches :
             op' = [at |-> "run", switch |-> n, started |-> FALSE, changed |-> FALSE]
    BY DEF RecordReverted, Build, Prepare, End, Idle
  <2>3. op'.at \in {"idle", "reverted", "run"}
    BY <2>1, <2>2, JustBegun DEF Idle
  <2> QED
    BY <2>1, <2>3 DEF OnTrial
<1>2. \A n \in Switches :
        (\/ record'[n].status \in {"active", "rolled_back"}
         \/ record[n].status \in {"active", "rolled_back"})
          => record'[n].status = record[n].status /\ record'[n].db = record[n].db
  <2>1. CASE RecordReverted
    <3>1. Current.status = "preparing" /\ Set(op.switch, "failed_and_reverted")
      BY <2>1 DEF RecordReverted, At, IInv, Working, Statuses, RevertPlaces
    <3> QED
      BY <3>1 DEF Set, Current, IInv, TypeOK, SwitchRecord
  <2>2. CASE \E g \in Generations : Build(g)
    BY <2>2 DEF Build
  <2>3. CASE \E g \in Generations, n \in Switches : Prepare(g, n)
    <3>1. PICK g \in Generations, n \in Switches : Prepare(g, n)
      BY <2>3
    <3>2. PICK c \in Behind(config) :
            record' = [record EXCEPT ![n] = [status |-> "preparing", port |-> OtherPort(config),
                                             db |-> g, previous |-> c]]
      BY <3>1 DEF Prepare
    <3> DEFINE new == [status |-> "preparing", port |-> OtherPort(config), db |-> g, previous |-> c]
    <3>3. record'[n] = new /\ \A k \in Switches : k # n => record'[k] = record[k]
      BY <3>2 DEF IInv, TypeOK
    <3>4. new.status = "preparing" /\ record[n].status = "none"
      BY <3>1 DEF Prepare
    <3> QED
      BY <3>3, <3>4
  <2> QED
    BY <2>1, <2>2, <2>3
<1>3. \A n \in Switches : record[n].status # "none" => base'[record[n].db] = base[record[n].db]
  <2>1. CASE \E g \in Generations : Build(g)
    BY <2>1 DEF Build, IInv, TypeOK, Files, Records, Founded
  <2>2. CASE UNCHANGED base
    BY <2>2
  <2> QED
    BY <2>1, <2>2 DEF RecordReverted, Prepare
<1>4. Confirmed' = Confirmed
  BY <1>2, <1>3 DEF Confirmed
<1> QED
  BY <1>1, <1>4, SameServer DEF Unseen, Trial

\* The config is turned to the other port's container: a database is put on trial.
LEMMA TurnedTo ==
  ASSUME IInv, NEW s \in Containers, Up(s), config' = OwnPort(s), config' = OtherPort(config),
         ~OnTrial, OnTrial', UNCHANGED <<container, record, receipt, base>>
  PROVE  \E d \in Built : /\ Trial = NoTrial /\ d # DbAt(config) /\ DbAt(config)' = d
                          /\ Trial' = [new |-> d, old |-> DbAt(config)]
                          /\ UNCHANGED <<Confirmed, receipt>>
<1>1. config \in Ports /\ OtherPort(config) # config /\ OtherPort(OtherPort(config)) = config
  BY PortsDiffer DEF IInv, TypeOK
<1>2. PICK c \in Containers : c \in Behind(config) /\ Up(c) /\ DbAt(config) = container[c].db
  BY Serving
<1>3. s \in Behind(OtherPort(config)) /\ s # c
  BY <1>1, <1>2, RunningIsOwn DEF Behind
<1>4. container[s].db # container[c].db
  BY <1>2, <1>3, OneServer DEF OneServerPerGeneration, Up
<1>5. DbAt(config)' = container[s].db
  <2>1. DbAt(OtherPort(config)) = container[s].db
    BY <1>3, DbAtIs
  <2> QED
    BY <2>1 DEF DbAt, Behind
<1>6. OtherPort(config)' = config
  BY <1>1 DEF OtherPort
<1>7. DbAt(OtherPort(config))' = DbAt(config)
  BY <1>6 DEF DbAt, Behind
<1>8. container[s].db \in Built
  BY RunningIsOwn DEF IInv, TypeOK, ContainerRecord, Files, Made
<1>9. Trial = NoTrial /\ Trial' = [new |-> DbAt(config)', old |-> DbAt(OtherPort(config))']
  BY DEF Trial
<1> QED
  BY <1>2, <1>4, <1>5, <1>7, <1>8, <1>9 DEF Confirmed

LEMMA RouteSteps ==
  ASSUME IInv, WriteConfig \/ UndoConfig
  PROVE  \E d \in Built : /\ Trial = NoTrial /\ d # DbAt(config) /\ DbAt(config)' = d
                          /\ Trial' = [new |-> d, old |-> DbAt(config)]
                          /\ UNCHANGED <<Confirmed, receipt>>
<1>1. UNCHANGED <<container, record, receipt, base>> /\ op.at # "idle"
  BY DEF WriteConfig, UndoConfig, At
<1>2. ~OnTrial /\ OnTrial'
  BY DEF WriteConfig, UndoConfig, At, GoTo, OnTrial, IInv, TypeOK, Operation
<1>3. CASE WriteConfig
  <2>1. config = OtherPort(Current.port) /\ config' = Current.port /\ Up(op.switch)
    BY <1>3 DEF WriteConfig, At, IInv, Working, Routed, Served, OnOther
  <2> QED
    BY <1>1, <1>2, <2>1, AtWork, PortsDiffer, TurnedTo
<1>4. CASE UndoConfig
  <2>1. /\ config = Current.port /\ config' = OtherPort(Current.port) /\ Up(Current.previous)
        /\ Current.status = "active"
    BY <1>4 DEF UndoConfig, At, IInv, Working, Statuses, Routed, Served, OnOwn, Undoing,
       RollbackPlaces
  <2> QED
    BY <1>1, <1>2, <2>1, AtWork, TurnedTo
<1> QED
  BY <1>3, <1>4

\* It is turned back: the trial is withdrawn.
LEMMA WithdrawSteps ==
  ASSUME IInv, RestoreConfig \/ RedoConfig
  PROVE  \/ Unseen
         \/ /\ Trial # NoTrial /\ DbAt(config)' = Trial.old /\ Trial' = NoTrial
            /\ UNCHANGED <<Confirmed, receipt>>
<1>1. UNCHANGED <<container, record, receipt, base>> /\ op.at # "idle"
  BY DEF RestoreConfig, RedoConfig, At
<1>2. ~OnTrial'
  BY DEF RestoreConfig, RedoConfig, At, GoTo, OnTrial, IInv, TypeOK, Operation
<1>3. CASE RestoreConfig /\ ~op.changed
  BY <1>1, <1>2, <1>3, SameServer DEF RestoreConfig, At, OnTrial, Unseen, Trial, Confirmed
<1>4. CASE (RestoreConfig /\ op.changed) \/ RedoConfig
  <2>1. OnTrial
    BY <1>4 DEF RestoreConfig, RedoConfig, At, OnTrial
  <2>2. config' = OtherPort(config)
    BY <1>1, <1>4, AtWork, PortsDiffer
       DEF RestoreConfig, RedoConfig, At, IInv, Working, Routed, OnOther
  <2>3. DbAt(config)' = DbAt(OtherPort(config))
    BY <1>1, <2>2 DEF DbAt, Behind
  <2>4. Trial' = NoTrial /\ UNCHANGED <<Confirmed, receipt>>
    BY <1>1, <1>2 DEF Trial, Confirmed
  <2> QED
    BY <2>1, <2>3, <2>4, TrialIs
<1> QED
  BY <1>3, <1>4

\* A status is written: the database served is confirmed.
LEMMA ConfirmSteps ==
  ASSUME IInv, RecordActive \/ RecordRolledBack
  PROVE  \/ Unseen
         \/ /\ Trial # NoTrial /\ DbAt(config) = Trial.new
            /\ Confirmed' = Confirmed \cup {DbAt(config)} /\ Trial' = NoTrial
            /\ UNCHANGED <<DbAt(config), receipt>>
<1>1. /\ UNCHANGED <<config, container, receipt, base>> /\ op.at # "idle" /\ OnTrial
      /\ op.switch \in Switches
  BY DEF RecordActive, RecordRolledBack, At, OnTrial, IInv, Working, Statuses
<1>2. CASE UNCHANGED record /\ GoTo("revert")
  <2>1. op.at = "record" /\ op.changed
    BY <1>2 DEF RecordActive, RecordRolledBack, At, GoTo, IInv, TypeOK, Operation, Working, Flags
  <2>2. OnTrial'
    BY <1>2, <2>1 DEF GoTo, OnTrial, IInv, TypeOK, Operation
  <2> QED
    BY <1>1, <1>2, <2>2, SameServer DEF Unseen, Trial, Confirmed
<1>3. CASE RecordActive /\ Set(op.switch, "active") /\ GoTo("stop")
  <2>1. /\ config = Current.port /\ Up(op.switch) /\ Current.status = "preparing"
    BY <1>3 DEF RecordActive, At, IInv, Working, Statuses, Routed, Served, OnOwn, Trying
  <2>2. DbAt(config) = Current.db
    BY <1>1, <2>1, AtWork, RunningIsOwn, DbAtIs
  <2>3. /\ record'[op.switch].status = "active" /\ record'[op.switch].db = Current.db
        /\ \A k \in Switches : k # op.switch => record'[k] = record[k]
    BY <1>1, <1>3 DEF Set, Current, IInv, TypeOK, SwitchRecord
  <2>4. Confirmed' = Confirmed \cup {DbAt(config)}
    BY <1>1, <2>1, <2>2, <2>3 DEF Confirmed, Current
  <2>5. ~OnTrial'
    BY <1>3 DEF GoTo, OnTrial, IInv, TypeOK, Operation
  <2> QED
    BY <1>1, <2>4, <2>5, TrialIs, SameServer DEF Trial
<1>4. CASE RecordRolledBack
  <2>1. /\ config = OtherPort(Current.port) /\ Up(Current.previous) /\ Current.status = "active"
    BY <1>4 DEF RecordRolledBack, At, IInv, Working, Statuses, Routed, Served, OnOther, Undoing,
       RollbackPlaces
  <2>2. DbAt(config) = base[Current.db]
    <3>1. OwnDb(Current.previous) = base[Current.db]
      BY <1>1, <2>1 DEF IInv, Files, Records, Founded, Current
    <3> QED
      BY <1>1, <2>1, <3>1, AtWork, RunningIsOwn, DbAtIs
  <2>3. /\ record'[op.switch].status = "rolled_back" /\ record'[op.switch].db = Current.db
        /\ \A k \in Switches : k # op.switch => record'[k] = record[k]
    BY <1>1, <1>4 DEF RecordRolledBack, Set, Current, IInv, TypeOK, SwitchRecord
  <2>4. Confirmed' = Confirmed \cup {DbAt(config)}
    BY <1>1, <2>1, <2>2, <2>3 DEF Confirmed, Current
  <2>5. ~OnTrial'
    BY <1>4 DEF RecordRolledBack, GoTo, OnTrial, IInv, TypeOK, Operation
  <2> QED
    BY <1>1, <2>4, <2>5, TrialIs, SameServer DEF Trial
<1> QED
  BY <1>2, <1>3, <1>4 DEF RecordActive

\* A receipt is written for the database served, which is confirmed.
LEMMA AcknowledgeSteps ==
  ASSUME IInv, WriteReceipt \/ \E g \in Generations : Recover(g)
  PROVE  /\ Trial = NoTrial /\ DbAt(config) \in Confirmed /\ receipt' = receipt \cup {DbAt(config)}
         /\ UNCHANGED <<DbAt(config), Trial, Confirmed>>
<1>1. UNCHANGED <<config, container, record, base>> /\ ~OnTrial /\ ~OnTrial'
  BY DEF WriteReceipt, Recover, At, End, Idle, OnTrial
<1>2. CASE WriteReceipt
  <2>1. /\ config = Current.port /\ Up(op.switch) /\ Current.status = "active" /\ op.at # "idle"
        /\ receipt' = receipt \cup {Current.db}
    BY <1>2 DEF WriteReceipt, At, IInv, Working, Statuses, Routed, Served, OnOwn
  <2>2. DbAt(config) = Current.db
    BY <2>1, AtWork, RunningIsOwn, DbAtIs
  <2>3. Current.db \in Confirmed
    BY <2>1, AtWork DEF Confirmed, Current
  <2> QED
    BY <1>1, <2>1, <2>2, <2>3, SameServer DEF Trial, Confirmed
<1>3. CASE \E g \in Generations : Recover(g)
  <2>1. PICK g \in Generations : Recover(g)
    BY <1>3
  <2>2. PICK c \in Behind(config) : container[c].db = g
    BY <2>1 DEF Recover, Serves
  <2>3. DbAt(config) = g
    BY <2>2, DbAtIs
  <2>4. g \in Confirmed
    BY <2>1 DEF Recover, Confirmed
  <2> QED
    BY <1>1, <2>1, <2>3, <2>4, SameServer DEF Recover, Trial, Confirmed
<1> QED
  BY <1>2, <1>3

LEMMA CrashSteps ==
  ASSUME IInv, Crash
  PROVE  \/ Unseen
         \/ Trial # NoTrial /\ Trial' = NoTrial /\ UNCHANGED <<DbAt(config), Confirmed, receipt>>
<1>1. UNCHANGED <<config, container, record, receipt, base>> /\ ~OnTrial'
  BY DEF Crash, End, Idle, OnTrial
<1>2. CASE OnTrial
  BY <1>1, <1>2, TrialIs, SameServer DEF Trial, Confirmed
<1>3. CASE ~OnTrial
  BY <1>1, <1>3, SameServer DEF Unseen, Trial, Confirmed
<1> QED
  BY <1>2, <1>3

\* The receipt of a collected job was not of the database served.
LEMMA CollectSteps ==
  ASSUME IInv, IInv', NEW g \in Generations, Collect(g)
  PROVE  \/ Unseen
         \/ /\ Trial = NoTrial /\ g # DbAt(config) /\ receipt' = receipt \ {g}
            /\ UNCHANGED <<DbAt(config), Trial, Confirmed>>
<1>1. /\ UNCHANGED <<config, record, base, op>> /\ ~OnTrial /\ ~OnTrial'
      /\ UNCHANGED receipt \/ receipt' = receipt \ {g}
  BY DEF Collect, At, OnTrial
<1>2. PICK c \in Containers : c \in Behind(config) /\ Up(c) /\ DbAt(config) = container[c].db
  BY Serving
<1>3. container[c].db # g
  BY <1>2 DEF Collect, Protected, Up
<1>4. container'[c] = container[c]
  BY <1>2, <1>3 DEF Collect
<1>5. UNCHANGED DbAt(config)
  BY <1>1, <1>2, <1>4, DbAtWillBe DEF Behind
<1> QED
  BY <1>1, <1>2, <1>3, <1>5 DEF Unseen, Trial, Confirmed

LEMMA PublicationStep ==
  ASSUME IInv, IInv', [Next]_vars
  PROVE  [Abstract!PublicationNext]_(Abstract!publication)
<1> USE DEF Abstract!publication, Abstract!PublicationNext
<1>1. Unseen => UNCHANGED Abstract!publication
  BY DEF Unseen, Trial, Confirmed
<1>2. CASE UNCHANGED vars
  <2>1. Unseen
    BY <1>2 DEF vars, Unseen, DbAt, Behind, Trial, OnTrial, Confirmed
  <2> QED
    BY <1>1, <2>1
<1>3. CASE \/ NginxReload \/ CandidateReady \/ Reload \/ Verify \/ RestoreRoute
           \/ PreviousHealthy \/ UndoRoute \/ UndoVerify \/ RedoRoute \/ PassWindow
           \/ \E n \in Switches : BeginRollback(n)
  BY <1>1, <1>3, QuietSteps
<1>4. CASE RunCandidate \/ StopPrevious \/ DiscardCandidate \/ RestartPrevious \/ RetireContainer
  BY <1>1, <1>4, ContainerSteps
<1>5. CASE \/ RecordReverted \/ \E g \in Generations : Build(g)
           \/ \E g \in Generations, n \in Switches : Prepare(g, n)
  BY <1>1, <1>5, RecordSteps
<1>6. CASE WriteConfig \/ UndoConfig
  <2>1. \E d \in Built : Abstract!Route(d)
    BY <1>6, RouteSteps DEF Abstract!Route, Trial, Confirmed
  <2> QED
    BY <2>1
<1>7. CASE RestoreConfig \/ RedoConfig
  <2>1. Unseen \/ Abstract!Withdraw
    BY <1>7, WithdrawSteps DEF Abstract!Withdraw, Trial, Confirmed
  <2> QED
    BY <1>1, <2>1
<1>8. CASE RecordActive \/ RecordRolledBack
  <2>1. Unseen \/ Abstract!Confirm
    BY <1>8, ConfirmSteps DEF Abstract!Confirm, Trial, Confirmed
  <2> QED
    BY <1>1, <2>1
<1>9. CASE WriteReceipt \/ \E g \in Generations : Recover(g)
  <2>1. Abstract!Acknowledge
    BY <1>9, AcknowledgeSteps DEF Abstract!Acknowledge, Trial, Confirmed
  <2> QED
    BY <2>1
<1>10. CASE Crash
  <2>1. Unseen \/ Abstract!Abandon
    BY <1>10, CrashSteps DEF Abstract!Abandon, Trial, Confirmed
  <2> QED
    BY <1>1, <2>1
<1>11. CASE \E g \in Generations : Collect(g)
  <2>1. PICK g \in Generations : Collect(g)
    BY <1>11
  <2>2. Unseen \/ Abstract!Forget(g)
    BY <2>1, CollectSteps DEF Abstract!Forget, Trial, Confirmed
  <2> QED
    BY <1>1, <2>2 DEF Built
<1> QED
  BY <1>2, <1>3, <1>4, <1>5, <1>6, <1>7, <1>8, <1>9, <1>10, <1>11 DEF Next, Switch, Rollback

(***************************************************************************)
(* The switch, with its ports, containers, records and half-done operations *)
(* implements a publication: one database served, at most one on trial,     *)
(* acknowledged only when confirmed (dataset.py:173-331).                   *)
(***************************************************************************)
THEOREM SwitchImplementsPublication == Spec => ImplementsPublication
<1>1. Init => Abstract!PublicationInit
  <2> SUFFICES ASSUME Init PROVE Abstract!PublicationInit
    OBVIOUS
  <2>1. IInv
    BY InitInv
  <2>2. \A c \in Containers : container[c].running => container[c].db = First
    BY SwitchConstants DEF Init
  <2>3. DbAt(config) = First
    BY <2>1, <2>2, Serving DEF Up
  <2>4. ~OnTrial /\ \A n \in Switches : record[n].status = "none"
    BY DEF Init, Idle, OnTrial
  <2> QED
    BY <2>3, <2>4 DEF Abstract!PublicationInit, Init
<1>2. IInv /\ IInv' /\ [Next]_vars => [Abstract!PublicationNext]_(Abstract!publication)
  BY PublicationStep
<1> QED
  BY <1>1, <1>2, SwitchInvariant, PTL DEF Spec, ImplementsPublication, Abstract!PublicationSpec

================================================================================
