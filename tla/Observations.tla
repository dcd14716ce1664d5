------------------------------ MODULE Observations ------------------------------
(***************************************************************************)
(* What the addon saves: scans of the auction house of one realm, each a    *)
(* set of listings.  Both market backends read them with the same importer  *)
(* code (app/services/auction_importer.py) and take what tells one variant  *)
(* of an item from another from its link (market_queries.py).               *)
(* An amount that is missing is None.                                       *)
(***************************************************************************)
EXTENDS Integers, FiniteSets, FiniteSetsExt, Functions

CONSTANTS
  Captures,     \* scans
  RealmOf,      \* of a capture
  TimeOf,
  Declared,     \* itemCount, which is to be the number of its rows
  Rows,         \* its listings: [index, item, creature, link, quantity, buyout]
  ScopeOf,      \* of an item in a capture: "region", "realm" or, if it was not learnt, "unknown"
  ContextOf,    \* of a link: the raid difficulty it names, or None
  PetOf,        \* of a link: the pet variant it names, or None
  RaidItems,    \* RAID_BOE_12_1_ITEM_IDS
  None

ASSUME ObservationConstants ==
  /\ None \notin Nat
  /\ RealmOf \in [Captures -> Nat \ {0}] /\ TimeOf \in [Captures -> Nat]
  /\ Declared \in [Captures -> Nat]
  /\ \A c \in Captures : IsFiniteSet(Rows[c]) /\ \A r, s \in Rows[c] : r.index = s.index => r = s
  /\ \A c \in Captures : \A r \in Rows[c] :
       /\ {r.index, r.item, r.creature, r.quantity, r.buyout} \subseteq Int
       /\ ScopeOf[c][r.item] \in {"region", "realm", "unknown"}

Least(S) == IF S \ {None} = {} THEN None ELSE Min(S \ {None})
Largest(S) == IF S = {} THEN 0 ELSE Max(S)

\* A function or table with one more entry, or another one in its place.
With(f, x, y) == [z \in DOMAIN f \cup {x} |-> IF z = x THEN y ELSE f[z]]

\* None comes after every price.
Dearer(p, q) == q # None /\ (p = None \/ p > q)

\* ORDER BY: a set as a sequence, by a relation that orders it; the n-th has n - 1 before it.
Sorted(S, before) ==
  [n \in 1..Cardinality(S) |-> CHOOSE x \in S : Cardinality({y \in S : <<y, x>> \in before}) = n - 1]

--------------------------------------------------------------------------------
\* validate_snapshot: what makes a scan complete.

Legal(r) == r.item > 0 /\ r.quantity > 0 /\ r.creature >= 0 /\ r.buyout >= 0
Valid(c) == Declared[c] = Cardinality(Rows[c]) /\ \A r \in Rows[c] : Legal(r)

PerPiece(amount, quantity) == (amount + quantity - 1) \div quantity

Slip_ListingMapping(r) ==  \* the unit price is rounded down
  [index |-> r.index, item |-> r.item, creature |-> r.creature, link |-> r.link,
   quantity |-> r.quantity, buyout |-> r.buyout,
   price |-> IF r.buyout > 0 THEN r.buyout \div r.quantity ELSE None]

\* _listing_mapping: a row as it is stored.
ListingMapping(r) ==
  [index |-> r.index, item |-> r.item, creature |-> r.creature, link |-> r.link,
   quantity |-> r.quantity, buyout |-> r.buyout,
   price |-> IF r.buyout > 0 THEN PerPiece(r.buyout, r.quantity) ELSE None]

\* The summary of an item (of a kind of pet), made from the rows of the file.
Summary(c, item, creature) ==
  LET rows == {r \in Rows[c] : r.item = item /\ r.creature = creature}
      offers == {r \in rows : r.buyout > 0}
  IN  [listings |-> Cardinality(rows),
       variants |-> Cardinality({r.link : r \in rows}),
       quantity |-> SumFunction([r \in rows |-> r.quantity]),
       price |-> Least({PerPiece(r.buyout, r.quantity) : r \in offers}),
       buyout |-> Least({r.buyout : r \in offers})]

Kinds(c) == {<<r.item, r.creature>> : r \in Rows[c]}

--------------------------------------------------------------------------------
\* Stored rows as one row of a list.

Total(rows) ==
  [listings |-> Cardinality(rows),
   variants |-> Cardinality({r.link : r \in rows}),
   quantity |-> SumFunction([r \in rows |-> r.quantity]),
   price |-> Least({r.price : r \in rows}),
   buyout |-> Least({r.buyout : r \in rows} \ {0})]

PetVariantKey(r) == IF PetOf[r.link] = None THEN "unknown" ELSE PetOf[r.link]
================================================================================
