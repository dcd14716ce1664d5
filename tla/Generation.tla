------------------------------- MODULE Generation -------------------------------
(***************************************************************************)
(* A generation: the immutable database file that is built, published and   *)
(* thrown away as a whole (backend/compact_market).  Its listings refer to  *)
(* a dictionary of descriptors (people are a second dictionary of the same  *)
(* kind), which every new generation extends and prunes, so that only the   *)
(* dictionary says what an old listing means.                               *)
(***************************************************************************)
EXTENDS Integers, FiniteSets, Functions

CONSTANTS
  Scans,         \* fingerprints of scans, as numbers in the order of decoding
  RealmOf,       \* of a scan
  MarketOf,      \* the auction market its realm belongs to then
  TimeOf,
  DayOf,
  RowsOf,        \* of a scan: the descriptors (numbers) of its listings
  PerDay,        \* retention policy: min_snapshots_per_day
  Cap            \* and max_snapshots

ASSUME GenerationConstants ==
  /\ Scans \subseteq Nat
  /\ RowsOf \in [Scans -> SUBSET Nat] /\ \A s \in Scans : IsFiniteSet(RowsOf[s])
  /\ TimeOf \in [Scans -> Nat] /\ DOMAIN RealmOf = Scans
  /\ DOMAIN MarketOf = Scans /\ DOMAIN DayOf = Scans
  /\ PerDay \in Nat \ {0} /\ Cap \in Nat

Rank(x, S) == Cardinality({y \in S : y <= x})
Extend(f, h) ==
  [x \in DOMAIN f \cup DOMAIN h |-> IF x \in DOMAIN h THEN h[x] ELSE f[x]]
Largest(S) == IF S = {} THEN 0 ELSE CHOOSE x \in S : \A y \in S : y <= x

\* scan: what each scan id names; listing: its rows, as descriptor ids;
\* descriptor: what they mean; next: generation_metadata.next_scan_id.
Ids(g) == DOMAIN g.scan
Stored(g) == Range(g.scan)
Restored(g, id) == {g.descriptor[k] : k \in g.listing[id]}

--------------------------------------------------------------------------------
\* build: one snapshot file as a generation of its own, ids from 1.

Build(scans) ==
  LET rows == UNION {RowsOf[s] : s \in scans}
      scan == [i \in 1..Cardinality(scans) |-> CHOOSE s \in scans : Rank(s, scans) = i]
  IN  [scan |-> scan,
       descriptor |-> [k \in 1..Cardinality(rows) |-> CHOOSE d \in rows : Rank(d, rows) = k],
       listing |-> [i \in DOMAIN scan |-> {Rank(d, rows) : d \in RowsOf[scan[i]]}],
       next |-> 1 + Cardinality(scans)]

--------------------------------------------------------------------------------
\* stage_generation: merge the built files into a copy of the base, or prune.

Slip_DescriptorMap(g, in) ==  \* numbered after the count, not the maximum
  [k \in DOMAIN in.descriptor |->
     IF in.descriptor[k] \in Range(g.descriptor)
     THEN CHOOSE j \in DOMAIN g.descriptor : g.descriptor[j] = in.descriptor[k]
     ELSE Cardinality(DOMAIN g.descriptor) + k]

\* An incoming descriptor keeps the base's id, or else takes one past its maximum.
DescriptorMap(g, in) ==
  [k \in DOMAIN in.descriptor |->
     IF in.descriptor[k] \in Range(g.descriptor)
     THEN CHOOSE j \in DOMAIN g.descriptor : g.descriptor[j] = in.descriptor[k]
     ELSE Largest(DOMAIN g.descriptor) + k]

Fresh(g, in) == {i \in Ids(in) : in.scan[i] \notin Stored(g)}

\* With nothing fresh the incoming dictionary is not merged either.
Merge(g, in) ==
  LET map == DescriptorMap(g, in)
      fresh == Fresh(g, in)
      source(id) == CHOOSE i \in fresh : g.next + Rank(i, fresh) - 1 = id
      added == g.next..(g.next + Cardinality(fresh) - 1)
      coded(k) == CHOOSE j \in DOMAIN map : map[j] = k
  IN  IF fresh = {} THEN g ELSE
      [scan |-> Extend(g.scan, [id \in added |-> in.scan[source(id)]]),
       listing |-> Extend(g.listing, [id \in added |-> {map[k] : k \in in.listing[source(id)]}]),
       descriptor |-> Extend([k \in Range(map) |-> in.descriptor[coded(k)]], g.descriptor),
       next |-> g.next + Cardinality(fresh)]

Slip_Prune(g, removed) ==  \* ids restart after the largest that is left
  LET kept == Ids(g) \ removed IN
    [scan |-> Restrict(g.scan, kept),
     listing |-> Restrict(g.listing, kept),
     descriptor |-> Restrict(g.descriptor, UNION {g.listing[id] : id \in kept}),
     next |-> Largest(kept) + 1]

Prune(g, removed) ==
  LET kept == Ids(g) \ removed IN
    [scan |-> Restrict(g.scan, kept),
     listing |-> Restrict(g.listing, kept),
     descriptor |-> Restrict(g.descriptor, UNION {g.listing[id] : id \in kept}),
     next |-> g.next]

Latest(g, realm) == Largest({TimeOf[s] : s \in {t \in Stored(g) : RealmOf[t] = realm}})
Known(g, realm) == \E s \in Stored(g) : RealmOf[s] = realm

\* newer_only, excluded_realms and new_realm_after: the times are the base's.
Unwanted(g, s, excluded, floor) ==
  \/ RealmOf[s] \in excluded
  \/ Known(g, RealmOf[s]) /\ TimeOf[s] <= Latest(g, RealmOf[s])
  \/ ~Known(g, RealmOf[s]) /\ TimeOf[s] <= floor

Refused(g, scans, excluded, floor) == \E s \in scans \ Stored(g) : Unwanted(g, s, excluded, floor)

--------------------------------------------------------------------------------
\* retention.py plan: which scan ids a retention generation leaves out.

Newer(g, i, j) ==
  \/ TimeOf[g.scan[i]] > TimeOf[g.scan[j]]
  \/ TimeOf[g.scan[i]] = TimeOf[g.scan[j]] /\ i > j

SameBucket(g, i, j) ==
  MarketOf[g.scan[i]] = MarketOf[g.scan[j]] /\ DayOf[g.scan[i]] = DayOf[g.scan[j]]

Eligible(g, cutoff) == {i \in Ids(g) : TimeOf[g.scan[i]] >= cutoff}

Protected(g, cutoff) ==
  {i \in Eligible(g, cutoff) :
     Cardinality({j \in Eligible(g, cutoff) : SameBucket(g, i, j) /\ Newer(g, j, i)}) < PerDay}

Redundant(g, cutoff) ==
  LET candidates == Eligible(g, cutoff) \ Protected(g, cutoff)
      excess == Cardinality(Eligible(g, cutoff)) - Cap
  IN  {i \in candidates : Cardinality({j \in candidates : Newer(g, i, j)}) < excess}

Plan(g, cutoff) == (Ids(g) \ Eligible(g, cutoff)) \cup Redundant(g, cutoff)
================================================================================
