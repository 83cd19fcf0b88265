----------------------------- MODULE PriceFeed -----------------------------
(***************************************************************************)
(* The pricing service: venue feeds and aggregators put samples into caches,   *)
(* every arrival and a ticking worker compute the price of the asset from what  *)
(* the caches hold, another worker marks old books. Quotes are given at the     *)
(* price that was inserted last.                                             *)
(*                                                                         *)
(* One asset with one symbol on each venue. A second is the unit of time, and a *)
(* computation takes less than one.                                         *)
(***************************************************************************)
EXTENDS Integers, FiniteSets, FiniteSetsExt

CONSTANTS
  Venue, Aggregator,
  MidPrice,          \* prices of a sample
  VenueStaleness,    \* venue_staleness_threshold_secs
  AggStaleness,      \* aggregator_staleness_threshold_secs
  VwmpTick,          \* vwmp_tick_interval_secs
  OutlierPct,        \* outlier_threshold_pct
  PriceClock         \* bound on time

ASSUME PriceAssumption ==
  /\ VwmpTick \in Nat \ {0} /\ MidPrice \subseteq Nat \ {0}
  /\ {VenueStaleness, AggStaleness} \subseteq Nat

VARIABLES
  pfNow,    \* the clock
  pfBook,   \* order_books: mid, time of the last update and the stale mark
  pfAgg,    \* aggregator_prices
  pfSnap,   \* vwmp_snapshots: what price_for reads
  pfTask,   \* computations under way: the worker's, and those of arrivals
  pfDone,   \* which of the two workers have done their round of this second
  pfCopies  \* books the staleness worker is about to write back

priceVars == <<pfNow, pfBook, pfAgg, pfSnap, pfTask, pfDone, pfCopies>>

Nothing == [at |-> 0, mid |-> 0, stale |-> TRUE]
NoPrice == [oldest |-> 0, mids |-> {}]
Computing == {"worker", "arrival"}
IdleTask == [pc |-> "idle", snap |-> NoPrice]
Workers == {"staleness", "vwmp"}

PriceInit ==
  /\ pfNow = 1
  /\ pfBook = [v \in Venue |-> Nothing] /\ pfAgg = [a \in Aggregator |-> Nothing]
  /\ pfSnap = NoPrice /\ pfTask = [k \in Computing |-> IdleTask] /\ pfDone = {} /\ pfCopies = {}

(***************************************************************************)
(* compute_vwmp                                                            *)
(***************************************************************************)
\* The books that count: not marked and, for a venue without a fixed weight, of
\* known recent volume; the volumes are not kept, any venue may be without.
Sample(source, x) == [source |-> source, at |-> x.at, mid |-> x.mid]

BookSamplesAll == {Sample(v, pfBook[v]) : v \in {v \in Venue : pfBook[v].at > 0}}

BookSamples ==
  {Sample(v, pfBook[v]) : v \in {v \in Venue : pfBook[v].at > 0 /\ ~pfBook[v].stale}}

AggSamples ==
  {Sample(a, pfAgg[a]) : a \in {a \in Aggregator : pfAgg[a].at > 0
                                     /\ pfNow - pfAgg[a].at <= AggStaleness}}

\* Twice the median of the mids.
TwiceMedian(samples) ==
  LET n == Cardinality(samples)
      ranked(k) ==
        CHOOSE m \in {s.mid : s \in samples} :
          /\ Cardinality({s \in samples : s.mid < m}) < k
          /\ Cardinality({s \in samples : s.mid <= m}) >= k
  IN  ranked((n + 1) \div 2) + ranked(n \div 2 + 1)

WithinOutlierThreshold(mid, twice) ==
  LET off == IF 2 * mid >= twice THEN 2 * mid - twice ELSE twice - 2 * mid
  IN  off * 100 <= OutlierPct * twice

\* Two samples that are far apart are both too far from their median.
SnapshotOf(samples) ==
  LET kept == {s \in samples : WithinOutlierThreshold(s.mid, TwiceMedian(samples))}
  IN  IF kept = {} THEN NoPrice
      ELSE [oldest |-> Min({s.at : s \in kept}), mids |-> {s.mid : s \in kept}]

Computes(k) ==
  \E weighed \in SUBSET BookSamples :
    LET samples == weighed \cup AggSamples
    IN  pfTask' = [pfTask EXCEPT ![k] =
          [pc |-> "insert", snap |-> IF samples = {} THEN NoPrice ELSE SnapshotOf(samples)]]

\* Nothing to compute from removes the price.
InsertsSnapshot(k) ==
  /\ pfTask[k].pc = "insert"
  /\ pfSnap' = pfTask[k].snap
  /\ pfTask' = [pfTask EXCEPT ![k] = IdleTask]
  /\ UNCHANGED <<pfNow, pfBook, pfAgg, pfDone, pfCopies>>

ComputesForArrival ==
  /\ pfTask["arrival"].pc = "compute"
  /\ Computes("arrival")
  /\ UNCHANGED <<pfNow, pfBook, pfAgg, pfSnap, pfDone, pfCopies>>

ArrivalComputes == pfTask' = [pfTask EXCEPT !["arrival"].pc = "compute"]

(***************************************************************************)
(* Samples come in                                                         *)
(***************************************************************************)
BookArrives(v, mid) ==
  /\ pfTask["arrival"].pc = "idle"
  /\ pfBook' = [pfBook EXCEPT ![v] = [at |-> pfNow, mid |-> mid, stale |-> FALSE]]
  /\ ArrivalComputes
  /\ UNCHANGED <<pfNow, pfAgg, pfSnap, pfDone, pfCopies>>

PriceArrives(a, mid) ==
  /\ pfTask["arrival"].pc = "idle"
  /\ pfAgg' = [pfAgg EXCEPT ![a] = [at |-> pfNow, mid |-> mid, stale |-> FALSE]]
  /\ ArrivalComputes
  /\ UNCHANGED <<pfNow, pfBook, pfSnap, pfDone, pfCopies>>

\* The connection to a venue is gone; its books are marked, and unmarked by the
\* next round of the staleness worker as long as they are recent.
VenueDisconnected(v) ==
  /\ pfBook[v].at > 0 /\ ~pfBook[v].stale
  /\ pfBook' = [pfBook EXCEPT ![v].stale = TRUE]
  /\ UNCHANGED <<pfNow, pfAgg, pfSnap, pfTask, pfDone, pfCopies>>

(***************************************************************************)
(* The workers                                                             *)
(***************************************************************************)
StaleNow(book) == pfNow - book.at > VenueStaleness

\* refresh_staleness copies the books whose mark changes before it writes them
\* back: a book that came in between is overwritten with the one it replaced.
CopiesBooks ==
  /\ "staleness" \notin pfDone /\ pfCopies = {}
  /\ LET changed == {v \in Venue : pfBook[v].at > 0 /\ pfBook[v].stale # StaleNow(pfBook[v])}
     IN  /\ pfCopies' = {<<v, [pfBook[v] EXCEPT !.stale = ~@]>> : v \in changed}
         /\ pfDone' = IF changed = {} THEN pfDone \cup {"staleness"} ELSE pfDone
  /\ UNCHANGED <<pfNow, pfBook, pfAgg, pfSnap, pfTask>>

WritesBooks ==
  /\ pfCopies # {} /\ pfCopies' = {}
  /\ pfBook' = [v \in Venue |-> LET mine == {x \in pfCopies : x[1] = v}
                               IN  IF mine = {} THEN pfBook[v] ELSE (CHOOSE x \in mine : TRUE)[2]]
  /\ pfDone' = pfDone \cup {"staleness"}
  /\ UNCHANGED <<pfNow, pfAgg, pfSnap, pfTask>>

VwmpWorkerTicks ==
  /\ "vwmp" \notin pfDone /\ pfTask["worker"].pc = "idle"
  /\ pfNow % VwmpTick = 0
  /\ pfDone' = pfDone \cup {"vwmp"}
  /\ Computes("worker")
  /\ UNCHANGED <<pfNow, pfBook, pfAgg, pfSnap, pfCopies>>

Due == {"staleness"} \cup (IF pfNow % VwmpTick = 0 THEN {"vwmp"} ELSE {})

SecondPasses ==
  /\ pfNow < PriceClock /\ pfDone = Due
  /\ \A k \in Computing : pfTask[k].pc = "idle"
  /\ pfNow' = pfNow + 1 /\ pfDone' = {}
  /\ UNCHANGED <<pfBook, pfAgg, pfSnap, pfTask, pfCopies>>

PriceNext ==
  \/ \E v \in Venue : VenueDisconnected(v) \/ \E m \in MidPrice : BookArrives(v, m)
  \/ \E a \in Aggregator, m \in MidPrice : PriceArrives(a, m)
  \/ ComputesForArrival
  \/ \E k \in Computing : InsertsSnapshot(k)
  \/ CopiesBooks \/ WritesBooks \/ VwmpWorkerTicks \/ SecondPasses

PriceSpec == PriceInit /\ [][PriceNext]_priceVars

(***************************************************************************)
(* Properties                                                              *)
(***************************************************************************)
\* The oldest sample in the price that quotes are given at: the thresholds, one
\* second for a mark that is due, and the time between two rounds of the worker.
\* is_healthy is not asked before a price is used, so this bound is all there is.
PriceRecent ==
  pfSnap # NoPrice =>
    pfNow - pfSnap.oldest <= Max({VenueStaleness + 1, AggStaleness}) + VwmpTick
=============================================================================
