----------------------------- MODULE BtcWatcher -----------------------------
(***************************************************************************)
(* btc-watcher, for one swap: the node's notifications, the five tasks of  *)
(* `watch`, the two caches and the swap's row.                             *)
(*                                                                         *)
(* A task looks (at the cache, the indexer, the row) and writes later; the *)
(* events it has parsed and not yet stored are `held[task]`. A batch reads *)
(* the cache once, the three statements of update_swaps are written in one *)
(* step, and a transaction hash stands for "{txid}:{height}", since the    *)
(* height has a column of its own.                                         *)
(***************************************************************************)
EXTENDS Integers, Sequences, FiniteSets, SequencesExt

CONSTANTS
  Deposits,      \* transactions that pay the HTLC; each replaces the others
  Redeems,       \* transactions that spend it with the secret
  Refunds,       \* transactions that give it back; spends replace each other
  Screened,      \* the deposits with an input the screener knows as bad
  Outputs(_),    \* the values of a deposit's outputs to the HTLC
  SwapAmount,    \* what the swap asks for
  RequiredConfs, \* required_confirmations
  Nothing,       \* no transaction
  MaxTip,        \* bound: blocks
  MaxBusy        \* bound: tasks that hold events at a time

ASSUME WatcherConstants ==
  /\ Nothing \notin Deposits \cup Redeems \cup Refunds
  /\ Screened \subseteq Deposits
  /\ {RequiredConfs, MaxTip, MaxBusy} \subseteq Nat

VARIABLES
  place,     \* of each transaction: a height, InMempool or Absent
  tip,       \* the height of the chain
  expired,   \* created_at plus the deadline buffer has passed
  swapCache, \* amount of the swap, if cached
  refresh,   \* what the cache's task read and has yet to put there
  held,      \* events parsed and not yet stored, by task
  updater,   \* the confirmation updater: its step and what it has read
  swapRow    \* the row in `swaps`, and is_blacklisted of its order

chainState == <<place, tip>>
watcherMem == <<swapCache, refresh, held, updater>>
watcherVars == <<chainState, watcherMem, expired, swapRow>>

BtcTx == Deposits \cup Redeems \cup Refunds
Absent == -1
InMempool == 0
StoreTask == {"mempool", "block", "poller"}
NoSwap == {}

SeenEvent == [tx : BtcTx, blk : 0 .. MaxTip, flagged : BOOLEAN]

Updater == [step : {"sleep", "write"}, height : 0 .. MaxTip, found : Seq(Nat)]

\* What each task starts with.
Asleep == [step |-> "sleep", height |-> 0, found |-> <<>>]
NotRead == [step |-> "read", swap |-> NoSwap]
NothingHeld == [task \in StoreTask |-> {}]

KindOf(t) == IF t \in Deposits THEN "initiate"
             ELSE IF t \in Redeems THEN "redeem" ELSE "refund"

Total(values) == FoldLeft(LAMBDA a, b : a + b, 0, values)

-----------------------------------------------------------------------------
(* Bitcoin, the node's feed and the passage of time.                       *)

Rivals(t) == (IF t \in Deposits THEN Deposits ELSE Redeems \cup Refunds) \ {t}
Mined(t) == place[t] > InMempool
Sendable(t) ==
  /\ \A u \in Rivals(t) : ~Mined(u)
  /\ t \notin Deposits => \E d \in Deposits : Mined(d)

\* First broadcast, replacement of a rival, or return to the mempool.
TxBroadcast(t) ==
  /\ place[t] = Absent /\ Sendable(t)
  /\ place' = [u \in BtcTx |-> IF u \in Rivals(t) THEN Absent
                               ELSE IF u = t THEN InMempool ELSE place[u]]
  /\ UNCHANGED <<tip, swapCache, refresh, held,
                 updater, expired, swapRow>>

TxDropped(t) ==
  /\ place[t] = InMempool
  /\ place' = [place EXCEPT ![t] = Absent]
  /\ UNCHANGED <<tip, watcherMem, expired, swapRow>>

BlockMined(txs) ==
  /\ tip < MaxTip /\ tip' = tip + 1
  /\ \A t \in txs : place[t] = InMempool
  /\ place' = [t \in BtcTx |-> IF t \in txs THEN tip + 1 ELSE place[t]]
  /\ UNCHANGED <<swapCache, refresh, held, updater, expired,
                 swapRow>>

\* (of no consequence once the row has a deposit)
DeadlinePasses ==
  /\ ~expired /\ swapRow.init = Nothing
  /\ expired' = TRUE
  /\ UNCHANGED <<chainState, watcherMem, swapRow>>

-----------------------------------------------------------------------------
(* listen_for_pending_swaps: read and empty the cache, then fill it.       *)

\* get_swaps
Watches(r) ==
  \/ r.init = Nothing /\ ~expired
  \/ r.init # Nothing /\ r.redeemBlk = 0 /\ r.refundBlk = 0

\* Mutant: only the swaps not initiated yet.
PendingUninitiated ==
  IF swapRow.init = Nothing /\ ~expired THEN {swapRow.amount} ELSE NoSwap

PendingSwap == IF Watches(swapRow) THEN {swapRow.amount} ELSE NoSwap

RefreshReads ==
  /\ refresh.step = "read"
  /\ refresh' = [step |-> "set", swap |-> PendingSwap]
  /\ swapCache' = NoSwap
  /\ UNCHANGED <<chainState, held, updater,
                 expired, swapRow>>

RefreshSets ==
  /\ refresh.step = "set"
  /\ swapCache' = refresh.swap
  /\ refresh' = NotRead
  /\ UNCHANGED <<chainState, held, updater,
                 expired, swapRow>>

-----------------------------------------------------------------------------
(* From transactions to events.                                            *)

CanHold(task) ==
  /\ held[task] = {}
  /\ Cardinality({other \in StoreTask : held[other] # {}}) < MaxBusy

PaysSwap(t, swap) ==
  t \in Deposits /\ \E i \in DOMAIN Outputs(t) : Outputs(t)[i] \in swap

\* Mutant: the height of the chain for that of the block.
ParsedAtTip(txs, blk, unscreened) ==
  {[tx |-> t, blk |-> IF blk = 0 THEN 0 ELSE tip, flagged |-> t \in Screened] :
     t \in {u \in txs : /\ swapCache # NoSwap
                        /\ u \in Deposits =>
                             PaysSwap(u, swapCache) /\ u \notin unscreened}}

\* parse_swap_events; the deposits of `unscreened` are those whose metadata
\* or screening could not be had.
ParsedEvents(txs, blk, unscreened) ==
  {[tx |-> t, blk |-> blk, flagged |-> t \in Screened] :
     t \in {u \in txs : /\ swapCache # NoSwap
                        /\ u \in Deposits =>
                             PaysSwap(u, swapCache) /\ u \notin unscreened}}

\* dedup_processed_events. The cache's entry for an event is a choice: there
\* is none (never seen, or PROCESSED_EVENTS_TTL ago), a young one (the event
\* is a repetition), one older than REVALIDATE_TX_BUFFER (the event counts if
\* the transaction is in the mempool) or an old one when getmempoolentry
\* fails.
CacheEntry == {"none", "young", "old", "unanswered"}
NewTx(t, entry) ==
  \/ entry = "none"
  \/ entry = "old" /\ place[t] = InMempool

\* The node publishes a transaction when it enters the mempool and again
\* with its block, and the feed loses, delays or repeats what it likes. A
\* batch has one transaction of the swap; of more, one after the other.
MempoolParses ==
  /\ CanHold("mempool")
  /\ \E t \in {u \in BtcTx : place[u] # Absent},
        unscreened \in SUBSET Deposits, entry \in CacheEntry :
       LET events == ParsedEvents({t}, 0, unscreened)
       IN held' = [held EXCEPT
                     !["mempool"] = {e \in events : NewTx(e.tx, entry)}]
  /\ held' # held
  /\ UNCHANGED <<chainState, swapCache, refresh, updater, expired, swapRow>>

BlockParses ==
  /\ CanHold("block")
  /\ \E blk \in 1 .. tip, unscreened \in SUBSET Deposits :
       held' = [held EXCEPT
                  !["block"] = ParsedEvents({t \in BtcTx : place[t] = blk},
                                            blk, unscreened)]
  /\ held' # held
  /\ UNCHANGED <<chainState, swapCache, refresh, updater, expired,
                 swapRow>>

\* query_swap_events: whatever the indexer knows of the address, screened or
\* not, confirmed or not.
PollerParses ==
  /\ CanHold("poller")
  /\ held' = [held EXCEPT !["poller"] =
       {[tx |-> t, blk |-> place[t], flagged |-> FALSE] :
          t \in {u \in BtcTx : /\ place[u] # Absent
                               /\ PendingSwap # NoSwap
                               /\ u \in Deposits => PaysSwap(u, PendingSwap)}}]
  /\ held' # held
  /\ UNCHANGED <<chainState, swapCache, refresh,
                 updater, expired, swapRow>>

-----------------------------------------------------------------------------
(* From events to the row. One statement writes the events of one kind; of *)
(* several for the same row the database takes any.                        *)

InitsHandled(r, es) ==
  IF es = {} THEN {r}
  ELSE {[r EXCEPT !.filled = r.amount, !.init = e.tx, !.initBlk = e.blk] :
          e \in es}

RedeemsHandled(r, es) ==
  IF es = {} THEN {r}
  ELSE {[r EXCEPT !.redeem = e.tx, !.redeemBlk = e.blk] : e \in es}

RefundsHandled(r, es) ==
  IF es = {} THEN {r}
  ELSE {[r EXCEPT !.refund = e.tx, !.refundBlk = e.blk] : e \in es}

\* update_swaps up to its first failing statement (done of the three work)
Updated(r, es, done) ==
  LET clean(kind, n) == {e \in es : /\ ~e.flagged /\ KindOf(e.tx) = kind
                                    /\ done >= n}
  IN UNION {UNION {RefundsHandled(r2, clean("refund", 3)) :
                     r2 \in RedeemsHandled(r1, clean("redeem", 2))} :
              r1 \in InitsHandled(r, clean("initiate", 1))}

\* mark_blacklisted
Marked(r, es) ==
  [r EXCEPT !.blacklisted = @ \/ \E e \in es : e.flagged]

\* store_swap_events: a failed update does not stop the marks.
EventsStored(task) ==
  /\ held[task] # {}
  /\ swapRow' \in {Marked(r, held[task]) : r \in Updated(swapRow, held[task], 3)}
  /\ held' = [held EXCEPT ![task] = {}]
  /\ UNCHANGED <<chainState, swapCache, refresh,
                 updater, expired>>

StoreFails(task) ==
  /\ held[task] # {}
  /\ \E done \in 0 .. 2, marks \in BOOLEAN :
       \E r \in Updated(swapRow, held[task], done) :
         swapRow' = IF marks THEN Marked(r, held[task]) ELSE r
  /\ held' = [held EXCEPT ![task] = {}]
  /\ UNCHANGED <<chainState, swapCache, refresh,
                 updater, expired>>

-----------------------------------------------------------------------------
(* update_confirmations: look (at the height, the row, the indexer), write. *)

\* Mutant: only the swaps that are still watched.
MissingWhileOpen(r) ==
  r.init # Nothing /\ r.initBlk = 0 /\ r.redeemBlk = 0 /\ r.refundBlk = 0

\* get_swaps_missing_initiate_block
MissingInitiateBlock(r) ==
  r.init # Nothing /\ (r.initBlk = 0 \/ r.filled = 0)

\* The height is read first; backfill_initiate_block_numbers then asks for
\* the transaction the row names.
UpdaterLooks ==
  /\ updater.step = "sleep"
  /\ updater' = [step |-> "write", height |-> tip,
                 found |-> IF /\ MissingInitiateBlock(swapRow)
                              /\ Mined(swapRow.init)
                           THEN <<place[swapRow.init],
                                  Total(Outputs(swapRow.init))>>
                           ELSE <<>>]
  /\ UNCHANGED <<chainState, swapCache, refresh, held, expired, swapRow>>

\* backfill_initiate, on the row as it is now
Backfilled(r, found) ==
  IF found = <<>> THEN r
  ELSE [r EXCEPT !.initBlk = IF @ = 0 THEN found[1] ELSE @,
                 !.filled = IF @ = 0 THEN found[2] ELSE @,
                 !.amount = found[2]]

Confirmations(blk, height) == Min({RequiredConfs, Max({height - blk + 1, 0})})

Counted(r, height) ==
  IF r.init # Nothing /\ r.confs # RequiredConfs
  THEN [r EXCEPT !.confs = Confirmations(r.initBlk, height)] ELSE r

UpdaterWrites ==
  /\ updater.step = "write"
  /\ swapRow' = Counted(Backfilled(swapRow, updater.found), updater.height)
  /\ updater' = Asleep
  /\ UNCHANGED <<chainState, swapCache, refresh, held, expired>>

-----------------------------------------------------------------------------

\* The process dies; what it had in memory is lost.
WatcherRestarts ==
  /\ swapCache' = NoSwap
  /\ refresh' = NotRead
  /\ held' = NothingHeld /\ updater' = Asleep
  /\ UNCHANGED <<chainState, expired, swapRow>>

WatcherInit ==
  /\ place = [t \in BtcTx |-> Absent]
  /\ tip = 0 /\ expired = FALSE
  /\ swapCache = NoSwap
  /\ refresh = NotRead
  /\ held = NothingHeld /\ updater = Asleep
  /\ swapRow = [amount |-> SwapAmount, filled |-> 0, init |-> Nothing,
                initBlk |-> 0, redeem |-> Nothing, redeemBlk |-> 0,
                refund |-> Nothing, refundBlk |-> 0, confs |-> 0,
                blacklisted |-> FALSE]

BitcoinMoves ==
  \/ \E t \in BtcTx : TxBroadcast(t) \/ TxDropped(t)
  \/ \E txs \in SUBSET BtcTx : BlockMined(txs)
  \/ DeadlinePasses

WatcherTasks ==
  \/ RefreshReads \/ RefreshSets
  \/ MempoolParses \/ BlockParses \/ PollerParses
  \/ \E task \in StoreTask : EventsStored(task) \/ StoreFails(task)
  \/ UpdaterLooks \/ UpdaterWrites \/ WatcherRestarts

WatcherNext == BitcoinMoves \/ WatcherTasks

(* The tasks are loops that sleep and start again. The poller's writes, the  *)
(* updater's and the process may fail again and again, but not all of them   *)
(* for ever; of the others it is enough that they end. The feed may lose     *)
(* everything, so parsing what it says is not fair.                          *)
WatcherWeak(n) ==
  CASE n = 1 -> UpdaterLooks
    [] n = 2 -> EventsStored("block") \/ StoreFails("block")
    [] n = 3 -> EventsStored("mempool") \/ StoreFails("mempool")

WatcherStrong(n) ==
  CASE n = 1 -> PollerParses
    [] n = 2 -> EventsStored("poller")
    [] n = 3 -> UpdaterWrites

WatcherFairness ==
  \A n \in 1 .. 3 :
    WF_watcherVars(WatcherWeak(n)) /\ SF_watcherVars(WatcherStrong(n))

WatcherSpec == WatcherInit /\ [][WatcherNext]_watcherVars /\ WatcherFairness

-----------------------------------------------------------------------------
(* What has to hold.                                                       *)

\* Five tasks write the same columns from observations of different age; yet
\* a block number in the row is always that of a mined transaction, of the
\* very transaction in the row for a spend, and a row is never both redeemed
\* and refunded in a block.
BlocksAreReal ==
  /\ swapRow.initBlk > 0 =>
       \E d \in Deposits : place[d] = swapRow.initBlk
  /\ swapRow.redeemBlk > 0 => place[swapRow.redeem] = swapRow.redeemBlk
  /\ swapRow.refundBlk > 0 => place[swapRow.refund] = swapRow.refundBlk
  /\ swapRow.redeemBlk = 0 \/ swapRow.refundBlk = 0

\* The node publishes each transaction twice at most, so that the feed has
\* nothing more to say in the end.
FeedSilent == <>[][~MempoolParses]_watcherVars

\* The row names another deposit, one that was replaced, when the block of a spend is
\* recorded: the swap is watched no longer, and the backfill asks for the wrong transaction.
NamesAnother(d) == swapRow.init # d /\ ~Watches(swapRow)

\* A mined deposit of a swap that is known to be initiated comes to have its block number
\* in the row and keeps it, whatever the feed loses and however late what was read before is
\* written: the poller sees to it, and the backfill once a spend is recorded. It does not
\* where the spend comes first on a row that names a deposit's rival.
DepositBlockRecorded ==
  FeedSilent =>
    \A d \in Deposits :
      Mined(d) /\ swapRow.init # Nothing
        ~> [](swapRow.initBlk = place[d] \/ NamesAnother(d))

\* A mined spend is recorded for good with its block, by the poller alone if
\* need be: a stale mempool event puts the swap back among the watched.
SpendRecorded ==
  FeedSilent =>
    /\ \A t \in Redeems : Mined(t) /\ swapRow.init # Nothing
                            ~> [](swapRow.redeem = t /\ swapRow.redeemBlk > 0)
    /\ \A t \in Refunds : Mined(t) /\ swapRow.init # Nothing
                            ~> [](swapRow.refund = t /\ swapRow.refundBlk > 0)
=============================================================================
