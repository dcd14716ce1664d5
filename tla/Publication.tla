------------------------------ MODULE Publication ------------------------------
(***************************************************************************)
(* What a data publication promises, without ports, containers or files:    *)
(* the site serves one database; a new one is put on trial in its place and *)
(* is then confirmed, withdrawn for the old one, or abandoned by a crash    *)
(* (served, but with an unknown outcome); only a confirmed database is ever *)
(* acknowledged to whoever asked for it.                                    *)
(***************************************************************************)
CONSTANTS AllDatabases, First, External, None

VARIABLES served, trial, recorded, receipted

publication == <<served, trial, recorded, receipted>>

PublicationInit ==
  /\ served = First
  /\ trial = None
  /\ recorded = {}
  /\ receipted = {}

Route(d) ==
  /\ trial = None /\ d # served
  /\ served' = d
  /\ trial' = [new |-> d, old |-> served]
  /\ UNCHANGED <<recorded, receipted>>

Confirm ==
  /\ trial # None /\ served = trial.new
  /\ recorded' = recorded \cup {served}
  /\ trial' = None
  /\ UNCHANGED <<served, receipted>>

Withdraw ==
  /\ trial # None
  /\ served' = trial.old
  /\ trial' = None
  /\ UNCHANGED <<recorded, receipted>>

Abandon == trial # None /\ trial' = None /\ UNCHANGED <<served, recorded, receipted>>

Acknowledge ==
  /\ trial = None /\ served \in recorded
  /\ receipted' = receipted \cup {served}
  /\ UNCHANGED <<served, trial, recorded>>

\* Somebody else's publication, of data this system did not build.
Replace(d) ==
  /\ trial = None
  /\ served' = d
  /\ UNCHANGED <<trial, recorded, receipted>>

\* The acknowledgement of what is no longer served may be thrown away.
Forget(d) ==
  /\ trial = None /\ d # served
  /\ receipted' = receipted \ {d}
  /\ UNCHANGED <<served, trial, recorded>>

PublicationNext ==
  \/ \E d \in AllDatabases : Route(d) \/ Forget(d)
  \/ Confirm \/ Withdraw \/ Abandon \/ Acknowledge
  \/ \E d \in External : Replace(d)

PublicationSpec == PublicationInit /\ [][PublicationNext]_publication
================================================================================
