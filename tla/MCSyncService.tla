----------------------------- MODULE MCSyncService -----------------------------
(* Constants of the runs of SyncService. *)
EXTENDS SyncService, TLC

CONSTANTS j1, j2, m1, m2, n1, s1, s2, h1, h2, seed

\* n1 declares the checksum of m2 with different metadata.
MCShaOfBoth == [m \in {m2, n1} |-> s2]
MCShaOfStale == [m \in {m2} |-> s2]
MCSymmetry == Permutations(Jobs)
================================================================================
