------------------------------ MODULE UnifiedMarket ------------------------------
(***************************************************************************)
(* The current market backend (backend/compact_market): a container loads   *)
(* one generation and answers from memory, UnifiedMarketStore.  A scan is   *)
(* seen as two markets, the region's and its realm's; realms are connected  *)
(* and split again at dates that the registry knows, and a scan belongs to  *)
(* the market of its realm at the time it was made.                         *)
(* One region is modelled: each identity begins with its region.            *)
(***************************************************************************)
EXTENDS Observations, Sequences, SequencesExt

CONSTANTS
  Groups,     \* connected realms: [realms, from, to], to is None while it lasts
  Filters,    \* what equipment filters let through: sets of links
  MaxScans,   \* bound: scan ids
  MaxClock    \* bound: the last time

ASSUME UnifiedConstants ==
  /\ \A g \in Groups : /\ g.realms \subseteq Nat \ {0} /\ Cardinality(g.realms) >= 2
                       /\ g.from \in Nat
                       /\ g.to \in Nat \cup {None}
                       /\ g.to # None => g.to > g.from
  /\ \A g, h \in Groups : /\ g # h /\ g.realms \cap h.realms # {}
                          => \/ g.to # None /\ g.to <= h.from
                             \/ h.to # None /\ h.to <= g.from
  /\ {MaxScans, MaxClock} \subseteq Nat

VARIABLES
  stock,   \* the scans of the newest generation
  nextId,  \* and its next scan id
  store,   \* what the container loaded, and when
  clock

unifiedVars == <<stock, nextId, store, clock>>

Resolve(realm, time) ==
  LET valid == {g \in Groups : /\ realm \in g.realms /\ g.from <= time
                               /\ g.to = None \/ time < g.to}
      ended == {g.to : g \in {h \in Groups : /\ realm \in h.realms
                                             /\ h.to # None /\ h.to <= time}}
  IN  IF valid # {}
      THEN LET g == CHOOSE g \in valid : TRUE IN [realms |-> g.realms, since |-> g.from]
      ELSE [realms |-> {realm}, since |-> Largest(ended)]

UnifiedTypeOK ==
  /\ \A i \in DOMAIN stock : i < nextId /\ stock[i] \in Captures
  /\ nextId \in Nat \ {0} /\ clock \in 0..MaxClock /\ store.now \in 0..clock
  /\ \A i \in DOMAIN store.scans : store.scans[i] \in Captures
  /\ store.latest \subseteq DOMAIN store.market

--------------------------------------------------------------------------------
\* UnifiedMarketStore.__init__: each scan is viewed twice, as the region's market and its
\* realm's, under an even and an odd id.

Views(scans) == UNION {{2 * i, 2 * i + 1} : i \in DOMAIN scans}
Regional(v) == v % 2 = 0
Newer(scans, v, w) ==
  \/ TimeOf[scans[v \div 2]] > TimeOf[scans[w \div 2]]
  \/ TimeOf[scans[v \div 2]] = TimeOf[scans[w \div 2]] /\ v > w
Newest(scans, S) == CHOOSE v \in S : \A w \in S : v = w \/ Newer(scans, v, w)

MarketAt(scans, v, time) ==
  IF Regional(v) THEN [realms |-> {}, since |-> 0] ELSE Resolve(RealmOf[scans[v \div 2]], time)

\* A scan's own scopes: what is unknown in it is in the realm's market.
Quotes(c, regional) ==
  {ListingMapping(r) : r \in {q \in Rows[c] : (ScopeOf[c][q.item] = "region") = regional}}

Slip_Latest(scans, market, now) ==  \* a market that was connected or split since then counts
  {Newest(scans, {w \in DOMAIN market : market[w] = m}) : m \in Range(market)}

\* latest_scans: the newest of each market that there is now.
Latest(scans, market, now) ==
  {v \in {Newest(scans, {w \in DOMAIN market : market[w] = m}) : m \in Range(market)} :
     MarketAt(scans, v, now) = market[v]}

Load(scans) ==
  LET market == [v \in Views(scans) |-> MarketAt(scans, v, TimeOf[scans[v \div 2]])] IN
  store' = [scans |-> scans, now |-> clock, market |-> market,
            latest |-> Latest(scans, market, clock),
            quotes |-> [v \in Views(scans) |-> Quotes(scans[v \div 2], Regional(v))]]

--------------------------------------------------------------------------------
\* Generations come and go, and so do containers.

UnifiedInit ==
  /\ stock = <<>> /\ nextId = 1 /\ clock = 0
  /\ store = [scans |-> <<>>, now |-> 0, market |-> <<>>, latest |-> {}, quotes |-> <<>>]

\* A generation with one more scan is published: one newer than all of its realm.
Publish(c) ==
  /\ nextId <= MaxScans /\ Valid(c) /\ TimeOf[c] <= clock
  /\ \A i \in DOMAIN stock : RealmOf[stock[i]] = RealmOf[c] => TimeOf[stock[i]] < TimeOf[c]
  /\ stock' = With(stock, nextId, c)
  /\ nextId' = nextId + 1
  /\ Load(stock')
  /\ UNCHANGED clock

\* A generation without a scan: the retention keeps the newest of every market.
PruneScan(i) ==
  /\ \E j \in DOMAIN stock :
       /\ Resolve(RealmOf[stock[j]], TimeOf[stock[j]])
            = Resolve(RealmOf[stock[i]], TimeOf[stock[i]])
       /\ TimeOf[stock[j]] > TimeOf[stock[i]]
  /\ stock' = Restrict(stock, DOMAIN stock \ {i})
  /\ Load(stock')
  /\ UNCHANGED <<nextId, clock>>

RestartContainer == store.now # clock /\ Load(stock) /\ UNCHANGED <<stock, nextId, clock>>

Tick == clock < MaxClock /\ clock' = clock + 1 /\ UNCHANGED <<stock, nextId, store>>

UnifiedNext ==
  \/ \E c \in Captures : Publish(c)
  \/ \E i \in DOMAIN stock : PruneScan(i)
  \/ RestartContainer \/ Tick

--------------------------------------------------------------------------------
\* What is read from it

Time(v) == TimeOf[store.scans[v \div 2]]
After(v, w) == Newer(store.scans, v, w)
LatestOf(S) == Newest(store.scans, S)
LatestRealms == {v \in store.latest : ~Regional(v)}

\* market_key, the same for one variant of an item in all realms.
KeyOf(r) ==
  <<r.item, r.creature, ContextOf[r.link], IF r.creature # 0 THEN PetVariantKey(r) ELSE "">>
Keys(v) == {KeyOf(r) : r \in store.quotes[v]}

\* market_scope of an item's record, which another scan's record may contradict.
ScopeAt(v, key) == ScopeOf[store.scans[v \div 2]][key[1]]

\* A filter applies to each listing's own link; None lets all through.
Matching(v, key, f) == {r \in store.quotes[v] : KeyOf(r) = key /\ (f = None \/ r.link \in f)}
Observed(v, key, f) == [scan |-> v, key |-> key, total |-> Total(Matching(v, key, f))]

--------------------------------------------------------------------------------
\* Answers

\* catalog: all markets, those that are gone as archived.
Catalog ==
  {LET scans == {v \in DOMAIN store.market : store.market[v] = m} IN
   [latest |-> LatestOf(scans),
    archived |-> MarketAt(store.scans, LatestOf(scans), clock) # m] : m \in Range(store.market)}

\* items of one scan, or of all latest scans: equipment filters are for the raid collection.
Items(scans, raid, f) ==
  {x \in UNION {{Observed(v, key, f) : key \in {k \in Keys(v) : raid => k[1] \in RaidItems}} :
                  v \in scans} : f # None => x.total.listings > 0}

\* One row for those of a market scope; where it is unknown, one for each market.
Bucket(x) ==
  LET scope == ScopeAt(x.scan, x.key)
  IN  <<scope, IF scope = "unknown" THEN store.market[x.scan] ELSE None, x.key>>

CheaperMarket(x, y, metric) ==
  \/ Dearer(y.total[metric], x.total[metric])
  \/ x.total[metric] = y.total[metric] /\ After(x.scan, y.scan)

Slip_MakeGroup(rows) ==  \* the counts are those of the cheapest market
  LET winner == CHOOSE x \in rows : \A y \in rows : x = y \/ CheaperMarket(x, y, "price") IN
  [key |-> winner.key, markets |-> {x.scan : x \in rows}, winner |-> winner.scan,
   price |-> winner.total.price, buyout |-> Least({x.total.buyout : x \in rows}),
   listings |-> winner.total.listings, quantity |-> winner.total.quantity]

MakeGroup(rows) ==
  LET winner == CHOOSE x \in rows : \A y \in rows : x = y \/ CheaperMarket(x, y, "price") IN
  [key |-> winner.key, markets |-> {x.scan : x \in rows}, winner |-> winner.scan,
   price |-> winner.total.price, buyout |-> Least({x.total.buyout : x \in rows}),
   listings |-> SumFunction([x \in rows |-> x.total.listings]),
   quantity |-> SumFunction([x \in rows |-> x.total.quantity])]

\* items with group_markets: one row for an item, across the latest scans.
GroupedItems(raid, f) ==
  LET rows == Items(store.latest, raid, f) IN
  {MakeGroup({x \in rows : Bucket(x) = b}) : b \in {Bucket(x) : x \in rows}}

\* status without a scan.
Status ==
  [listings |-> SumFunction([v \in store.latest |-> Cardinality(store.quotes[v])]),
   items |-> Cardinality(Items(store.latest, FALSE, None))]

TimelineOf(v) == {x \in DOMAIN store.market : store.market[x] = store.market[v]}
Having(v, key) == {x \in TimelineOf(v) : key \in Keys(x)}
Knowing(v, key) == {w \in store.latest : Regional(w) = Regional(v) /\ Having(w, key) # {}}

\* require_market: an item that is not in this scan may be known from others; then the newest
\* record of the first market that has one stands for it, in the order they were first seen.
Recognised(v, key) == key \in Keys(v) \/ Knowing(v, key) # {}
Prototype(v, key) ==
  LET first == CHOOSE w \in Knowing(v, key) :
                 \A x \in Knowing(v, key) : Min(TimelineOf(w)) <= Min(TimelineOf(x))
  IN  LatestOf(Having(first, key))
AskedScope(v, key) == ScopeAt(IF key \in Keys(v) THEN v ELSE Prototype(v, key), key)

\* listings: of one scan, or of every latest realm market with a record of the same scope.
Listings(v, key, all, f) ==
  LET scans == IF all /\ AskedScope(v, key) = "realm"
               THEN {w \in LatestRealms : /\ Matching(w, key, f) # {}
                                          /\ ScopeAt(w, key) = "realm"}
               ELSE {v}
      rows == UNION {{[scan |-> w, row |-> r] : r \in Matching(w, key, f)} : w \in scans}
      First(x, y) == \/ Dearer(y.row.price, x.row.price)
                     \/ /\ x.row.price = y.row.price
                        /\ x.scan < y.scan \/ (x.scan = y.scan /\ x.row.index < y.row.index)
  IN  [markets |-> scans, items |-> Sorted(rows, {p \in rows \X rows : First(p[1], p[2])})]

\* compare: the item in every latest market of the same kind, whatever scope it has there,
\* and in those where it is absent.
Compare(v, key, f) ==
  {Observed(w, key, f) : w \in {w \in store.latest : Regional(w) = Regional(v)}}

--------------------------------------------------------------------------------
\* public_history: at most limit observations of the related markets.

\* A market's observations from the first that has the item, up to the cutoff; only the
\* last one if the item never was in it.
Window(market, key, start, cutoff) ==
  LET timeline == {v \in DOMAIN store.market : store.market[v] = market}
      having == {v \in timeline : key \in Keys(v)}
      until == {v \in timeline : Time(v) <= cutoff}
  IN  IF having # {}
      THEN {v \in until : Time(v) >= Max({start, Min({Time(w) : w \in having})})}
      ELSE {v \in until : Time(v) >= start /\ \A w \in until : v = w \/ After(v, w)}

\* The newest of each window, then the newest of all that is left: taken from a heap
\* that holds the next one of each window.
Fill(windows, chosen, limit) ==
  LET left == Max({0, limit - Cardinality(chosen)})
      Filled[n \in 0..left] ==
        IF n = 0 THEN chosen
        ELSE LET had == Filled[n - 1]
                 heads == {LatestOf(w) : w \in {x \ had : x \in windows} \ {{}}}
             IN  IF heads = {} THEN had ELSE had \cup {LatestOf(heads)}
  IN  Filled[left]

Slip_Select(windows, limit) ==  \* no observation is reserved for each market
  Fill(windows, {}, limit)

Select(windows, limit) == Fill(windows, {LatestOf(w) : w \in windows}, limit)

\* The markets of a merged history in pages of limit, by realm; their scopes are not compared.
Related(v, key, all) ==
  IF all /\ AskedScope(v, key) = "realm" THEN LatestRealms ELSE {v}

OfPage(scans, limit, page) ==
  LET Before(v, w) == v # w /\ Min(store.market[v].realms) < Min(store.market[w].realms)
      order == Sorted(scans, {p \in scans \X scans : Before(p[1], p[2])})
  IN  {order[i] : i \in {i \in DOMAIN order : (i + limit - 1) \div limit = page}}

PublicHistory(v, key, all, f, start, limit, page) ==
  LET related == Related(v, key, all)
      cutoff == Max({Time(w) : w \in related})
      windows == {Window(store.market[w], key, start, cutoff) :
                    w \in OfPage(related, limit, page)} \ {{}}
  IN  [points |-> {Observed(w, key, f) : w \in Select(windows, limit)},
       windows |-> windows]
================================================================================
