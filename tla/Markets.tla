--------------------------------- MODULE Markets ---------------------------------
(***************************************************************************)
(* Both market backends over the same scans.  A site deploys one of them    *)
(* (docker-compose.yml or the compact container), so that a behaviour is    *)
(* one of either.                                                           *)
(***************************************************************************)
EXTENDS LegacyBackend, UnifiedMarket

CONSTANTS HistoryLimits \* points a caller may ask for

\* An answer has at least one point (unified.py:538).
ASSUME MarketsConstants == HistoryLimits \subseteq Nat \ {0}

VARIABLE backend \* the one that is deployed

vars == <<backend, legacyVars, unifiedVars>>

Init == backend \in {"mysql", "duckdb"} /\ LegacyInit /\ UnifiedInit

Next ==
  \/ backend = "mysql" /\ LegacyNext /\ UNCHANGED <<backend, unifiedVars>>
  \/ backend = "duckdb" /\ UnifiedNext /\ UNCHANGED <<backend, legacyVars>>

Spec == Init /\ [][Next]_vars

\* The shape of the state, and that a database lock is held by whoever works under it.
TypeOK == backend \in {"mysql", "duckdb"} /\ LegacyTypeOK /\ UnifiedTypeOK

--------------------------------------------------------------------------------
(***************************************************************************)
(* A scan that the legacy market offers has its listings: neither a failed  *)
(* import (auction_importer.py:452-555, one transaction) nor a reset in     *)
(* between (admin_api.py:257) leaves one that is empty.  Only while a reset *)
(* runs, or after one was cut short, it may be.                             *)
(***************************************************************************)
CompleteScansAreWhole == reset.at = "idle" /\ ~torn => DOMAIN db.scans = db.facts

(***************************************************************************)
(* A job that says complete (admin_api.py:189-196) stored its file: unless  *)
(* there was a reset since it was posted, each scan of the file is in the   *)
(* tables exactly once, whoever imported it.                                *)
(***************************************************************************)
JobsAreTrue ==
  ~torn => \A i \in DOMAIN jobs :
    jobs[i].status = "complete" /\ jobs[i].reset = counts.reset
      => \A c \in {CapturesIn[jobs[i].file][n] : n \in DOMAIN CapturesIn[jobs[i].file]} :
           Cardinality({k \in db.facts : db.scans[k] = c}) = 1

(***************************************************************************)
(* "Another import is running" (admin_api.py:214) is said from when one     *)
(* request took the lock until its background task released it (206), and   *)
(* at no other time.  In between there is one open job, from when the       *)
(* request queued it (223) until the task told its result (189-204); then   *)
(* for a moment an ended job is shown while the answer is still a refusal.  *)
(***************************************************************************)
BusyMeansImporting ==
  LET open == {i \in DOMAIN jobs : jobs[i].status \notin Ended}
      task == importer["task"].at
  IN  /\ importLock <=> task # "idle"
      /\ Cardinality(open) = IF task \in {"idle", "posting", "release"} THEN 0 ELSE 1

--------------------------------------------------------------------------------
\* What a row of a list tells agrees with the item's own page.  Two kinds of rows cannot be
\* asked for alone: that of a raid item whose link names no difficulty (market_queries.py:420),
\* and that of cages whose pet is not known, if that of another cage is (1181).
\* Scans that two accounts made of a realm in one second are in each other's history.
RowAgrees(i, row) ==
  \/ row.context = None /\ row.item \in RaidItems
  \/ row.pet = None /\ \E r \in PetsOf(i) : r.item = row.item
  \/ LET listings == ItemListings(i, row)
         history == ItemHistory(i, row)
     IN  /\ Len(listings) = row.total.listings
         /\ listings[1].price = row.total.price
         /\ \A n \in 1..Len(history) : Realm(history[n].scan) = Realm(i)
         /\ \E n \in 1..Len(history) :
              /\ history[n] = [scan |-> i, total |-> row.total]
              /\ \A m \in n + 1..Len(history) : When(history[m].scan) = When(i)

(***************************************************************************)
(* The legacy answers about one scan are of one mind, although lists are    *)
(* made from summaries, listings from rows and histories from either        *)
(* (market_queries.py:387, 524, 933, 1165): a row of any list shows the     *)
(* number and the first price of its listings and the last point of its     *)
(* history, the status counts the rows (350), the list across realms has    *)
(* one row of an item for all scans that call it the region's (799-802),    *)
(* and there and in the catalog a realm's newest scan is the same one.      *)
(***************************************************************************)
LegacyAnswersAgree ==
  reset.at = "idle" /\ ~torn /\ dbLock = None =>
  /\ \A i \in Offered :
       /\ MarketItemCount(i) = Cardinality(MarketItems(i))
       /\ \A row \in MarketItems(i) \cup RaidRows(i) : RowAgrees(i, row)
  /\ \A raid \in BOOLEAN : \A x \in UnifiedMarketItems(raid) :
       /\ MarketCatalog(Realm(x.scan))[1] = x.scan
       /\ RowAgrees(x.scan, x.row)
       /\ x.row.scope = "region" =>
            x = CHOOSE y \in UnifiedMarketItems(raid) :
                  /\ y.row.scope = "region"
                  /\ \A key \in {"item", "creature", "context", "pet"} : y.row[key] = x.row[key]

--------------------------------------------------------------------------------
(***************************************************************************)
(* No realm is counted twice across connections and splits: of the markets  *)
(* whose scans the lists, counts and comparisons are made of                *)
(* (unified.py:114-120), no two have a realm in common, and while the       *)
(* clock has not passed the time of the load they are those that the        *)
(* catalog does not call archived, each with its newest scan.               *)
(***************************************************************************)
CurrentMarketsOnce ==
  /\ \A v, w \in store.latest : v # w => store.market[v].realms \cap store.market[w].realms = {}
  /\ clock = store.now => store.latest = {m.latest : m \in {m \in Catalog : ~m.archived}}

\* A row across all markets agrees with what it leads to, under every filter.  Scans may
\* differ in an item's scope: the comparison and the merged history have all of its markets,
\* the row those with its own scope.
Seen(rows) == {x \in rows : x.total.listings > 0}
GroupAgrees(row, f) ==
  LET scope == ScopeAt(row.winner, row.key)
      listings == Listings(row.winner, row.key, TRUE, f)
      seen == Seen(Compare(row.winner, row.key, f))
      ofScope == {x \in seen : ScopeAt(x.scan, row.key) = scope}
      LastPoints(history) ==
        {p \in history.points : p.scan \in {LatestOf(w) : w \in history.windows}}
  IN  /\ Len(listings.items) = row.listings /\ listings.markets = row.markets
      /\ listings.items[1].row.price = row.price
      /\ scope # "unknown" =>
           /\ {x.scan : x \in ofScope} = row.markets
           /\ SumFunction([x \in ofScope |-> x.total.quantity]) = row.quantity
           /\ \A limit \in HistoryLimits :
                Seen(UNION {LastPoints(PublicHistory(row.winner, row.key, TRUE, f, 0, limit, page)) :
                              page \in 1..Cardinality(store.latest)}) = seen

(***************************************************************************)
(* The answers of one generation are of one mind, although rows across      *)
(* markets are grouped from summaries (unified.py:239-262), listings are    *)
(* read from the file (444-485), and comparison and history have their own  *)
(* ways through the scans (645, 527): under every filter, a row's count,    *)
(* price and markets are those of its listings; its units and markets are   *)
(* those of the comparison, where that has its market scope; comparison and *)
(* merged history, over all of its pages, end with the same observations;   *)
(* and the status counts what is listed.                                    *)
(***************************************************************************)
UnifiedAnswersAgree ==
  /\ \A f \in {None} \cup Filters : \A row \in GroupedItems(f # None, f) : GroupAgrees(row, f)
  /\ Status.listings = SumFunction([row \in GroupedItems(FALSE, None) |-> row.listings])

(***************************************************************************)
(* A history of at most so many points is the newest there is (unified.py:  *)
(* 583-596): it has the newest observation of every market of its page, it  *)
(* is full if there is enough to fill it, and nothing it leaves out is      *)
(* newer than a point that it has beyond those.                             *)
(***************************************************************************)
HistoryIsNewest ==
  \A v \in DOMAIN store.market : \A key \in UNION {Keys(w) : w \in store.latest} :
    Recognised(v, key) => \A all \in BOOLEAN, limit \in HistoryLimits :
      LET history == PublicHistory(v, key, all, None, 0, limit, 1)
          chosen == {p.scan : p \in history.points}
          first == {LatestOf(w) : w \in history.windows}
          observations == UNION history.windows
      IN  /\ first \subseteq chosen /\ chosen \subseteq observations
          /\ Cardinality(chosen) = IF Cardinality(observations) < limit
                                   THEN Cardinality(observations) ELSE limit
          /\ \A w \in observations \ chosen, x \in chosen \ first : After(x, w)

================================================================================
