---------------------------- MODULE MCUpdatePipeline ----------------------------
EXTENDS UpdatePipeline

CONSTANTS A, B, C, D, f1, f2

\* Realms A and B make one market.  Scan 4 is older than scan 3 of its realm,
\* 5 is of a new realm, 6 of an excluded one; scan 2 is pruned first.
MCRealmOf == <<A, B, A, A, C, D>>
MCMarketOf == <<1, 1, 1, 1, 2, 2>>
MCTimeOf == <<20, 10, 40, 30, 50, 60>>
MCDayOf == <<1, 1, 2, 2, 2, 2>>
MCRowsOf == <<{2, 3}, {1}, {3, 4}, {1, 2}, {2, 4}, {5}>>
MCContentsOf == [f \in Files |-> IF f = f1 THEN {2} ELSE {3, 4}]
MCScansIn == <<{3}, {3, 5}, {4}, {6}>>
================================================================================
