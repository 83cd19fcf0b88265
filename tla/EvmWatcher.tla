----------------------------- MODULE EvmWatcher -----------------------------
(***************************************************************************)
(* evm-watcher on one chain: the HTLC contract, the cache of pending swaps  *)
(* that MultiChainSwapsProvider refills, one pass after another of          *)
(* HTLCEventWatcher::watch, and the rows it writes.                         *)
(*                                                                          *)
(* A swap's parties, amount and timelock never change, so that a row is the *)
(* columns the watcher writes; a transaction is named by its block.         *)
(***************************************************************************)
EXTENDS Integers, Sequences, FiniteSets, SequencesExt

CONSTANTS
  EvmSwaps,      \* swap_ids of the chain
  EvmRequired,   \* required_confirmations
  MaxBlockSpan,  \* max_block_span
  MaxHeight      \* bound: blocks

ASSUME EvmWatcherConstants ==
  {EvmRequired, MaxBlockSpan, MaxHeight} \subseteq Nat

VARIABLES
  evmHeight,  \* the chain's last block
  evmOrder,   \* `orders` of the contract: the blocks of the calls (0 before
              \* them), and if its terms are those of the row
  evmRow,     \* the rows of `swaps`
  evmOverdue, \* swaps whose created_at plus the deadline buffer has passed
  evmCache,   \* pending swaps with the initiation's block of their rows (0:
              \* none) as they were read
  evmReload,  \* what the cache's task has read and has yet to put there
  evmPass,    \* the pass under way
  evmPrevious \* previous_block

evmChain == <<evmHeight, evmOrder>>
evmWatcherMem == <<evmCache, evmReload, evmPass, evmPrevious>>
evmWatcherVars == <<evmChain, evmRow, evmOverdue, evmWatcherMem>>

Height == 0 .. MaxHeight

NoRows == <<>>     \* no swap_id has a row here
EmptyRow == [init |-> 0, redeem |-> 0, refund |-> 0, confs |-> 0]
EmptyOrder == [init |-> 0, redeemed |-> 0, refunded |-> 0, agrees |-> FALSE]
NoPass == [step |-> "idle", rows |-> NoRows, orders |-> <<>>, height |-> 0,
           swaps |-> {}, ranges |-> <<>>, confs |-> <<>>]
NotReading == [step |-> "read", rows |-> NoRows]

-----------------------------------------------------------------------------
(* The chain.                                                              *)

FulfilledAt(o) == Max({o.redeemed, o.refunded})

\* What the calls of one block may do to an order.
OrderMoves(o, h) ==
  {o}
  \cup (IF o.init = 0
        THEN [init : {h}, redeemed : {0, h}, refunded : {0}, agrees : BOOLEAN]
        ELSE {})
  \cup (IF o.init > 0 /\ FulfilledAt(o) = 0
        THEN {[o EXCEPT !.redeemed = h], [o EXCEPT !.refunded = h]}
        ELSE {})

EvmBlockMined ==
  /\ evmHeight < MaxHeight
  /\ evmHeight' = evmHeight + 1
  /\ \E s \in EvmSwaps : \E o \in OrderMoves(evmOrder[s], evmHeight + 1) :
       evmOrder' = [evmOrder EXCEPT ![s] = o]
  /\ UNCHANGED <<evmRow, evmOverdue, evmWatcherMem>>

\* (of no consequence for a row that is initiated)
EvmDeadlinePasses(s) ==
  /\ evmRow[s].init = 0 /\ s \notin evmOverdue
  /\ evmOverdue' = evmOverdue \cup {s}
  /\ UNCHANGED <<evmChain, evmRow, evmWatcherMem>>

\* A node of the RPC provider, the last block late perhaps.
NodeHeights == {h \in Height : evmHeight - 1 <= h /\ h <= evmHeight}

-----------------------------------------------------------------------------
(* MultiChainSwapsProvider::watch                                          *)

\* Mutant: the initiated swaps are not read.
EvmPendingNew(s) == evmRow[s].init = 0 /\ s \notin evmOverdue

\* get_swaps
EvmPending(s) ==
  \/ evmRow[s].init = 0 /\ s \notin evmOverdue
  \/ evmRow[s].init # 0 /\ evmRow[s].redeem = 0 /\ evmRow[s].refund = 0

PendingRows == [s \in {t \in EvmSwaps : EvmPending(t)} |-> evmRow[s].init]

\* The rows are read, then the cache is emptied, one insert after the other
\* fills it. (What happens between read and clear might as well come first.)
ReloadReads ==
  /\ evmReload.step = "read"
  /\ evmReload' = [step |-> "insert", rows |-> PendingRows]
  /\ evmCache' = NoRows
  /\ UNCHANGED <<evmChain, evmRow, evmOverdue, evmPass, evmPrevious>>

ReloadInserts ==
  /\ evmReload.step = "insert"
  /\ evmCache' = evmReload.rows
  /\ evmReload' = NotReading
  /\ UNCHANGED <<evmChain, evmRow, evmOverdue, evmPass, evmPrevious>>

-----------------------------------------------------------------------------
(* HTLCEventWatcher::watch                                                 *)

\* get_orders: the contract's records of the given swaps, in one batch of
\* calls; an order that is not there yet is left out.
OrdersRead(swaps) ==
  [s \in {t \in swaps : evmOrder[t].init > 0} |->
     [init |-> evmOrder[s].init, fulfilled |-> FulfilledAt(evmOrder[s])]]

\* fetch_onchain_orders: the cached swaps, then the contract's orders.
WatchFetchesOrders ==
  LET orders == OrdersRead(DOMAIN evmCache)
  IN /\ evmPass.step = "idle" /\ DOMAIN orders # {}
     /\ evmPass' = [NoPass EXCEPT !.step = "height", !.rows = evmCache,
                      !.orders = orders]
     /\ UNCHANGED <<evmChain, evmRow, evmOverdue, evmCache, evmReload,
                    evmPrevious>>

\* validate_swaps: the status of the order is another than the row's (no
\* pending row is fulfilled), or confirmations are missing. The swaps without
\* an order are in the list as well, but then nothing is done about them.
NeedsEvents(rowInit, o, height) ==
  \/ o.fulfilled > 0 \/ rowInit = 0
  \/ height <= rowInit + EvmRequired

\* group_block_ranges
GroupBlockRanges(blocks) ==
  LET sorted == SetToSortSeq(blocks \ {0}, LAMBDA a, b : a < b)
      extend(ranges, b) ==
        IF ranges = <<>> THEN <<[from |-> b, to |-> b]>>
        ELSE IF b - Last(ranges).from >= MaxBlockSpan
             THEN Append(ranges, [from |-> b, to |-> b])
             ELSE [ranges EXCEPT ![Len(ranges)].to = b]
  IN FoldLeft(extend, <<>>, sorted)

\* create_event_blocks_ranges
EventRanges(orders) ==
  GroupBlockRanges(UNION {{orders[s].init, orders[s].fulfilled} :
                            s \in DOMAIN orders})

\* The height; a lagging one ends the pass. Then validate_swaps.
WatchReadsHeight(height) ==
  /\ evmPass.step = "height"
  /\ LET chosen == {s \in DOMAIN evmPass.orders :
                      NeedsEvents(evmPass.rows[s], evmPass.orders[s], height)}
         orders == [s \in chosen |-> evmPass.orders[s]]
     IN evmPass' = IF height < evmPrevious \/ chosen = {} THEN NoPass
                   ELSE [NoPass EXCEPT !.step = "events", !.height = height,
                           !.swaps = chosen, !.ranges = EventRanges(orders)]
  /\ UNCHANGED <<evmChain, evmRow, evmOverdue, evmCache, evmReload,
                 evmPrevious>>

\* The events of an order: the swap, what has happened and the block (0 where
\* it has not).
EventsOf(s) ==
  {[swap |-> s, kind |-> "Initiate", blk |-> evmOrder[s].init],
   [swap |-> s, kind |-> "Redeem", blk |-> evmOrder[s].redeemed],
   [swap |-> s, kind |-> "Refund", blk |-> evmOrder[s].refunded]}

\* EventProvider::query: the logs of the contracts, filtered by block.
Queried(first, last) ==
  {e \in UNION {EventsOf(s) : s \in EvmSwaps} : first <= e.blk /\ e.blk <= last}

\* stream_garden_events: a range, as a node of that height has it.
EventsIn(range, height) == Queried(range.from, Min({range.to, height}))

\* Mutant: the terms are not compared.
UnvalidatedEvents(events) ==
  {e \in events : e.swap \in evmPass.swaps}

\* create_swap_event and validate_events: of the swaps of this pass, with
\* the terms of their rows.
ValidatedEvents(events) ==
  {e \in events : /\ e.swap \in evmPass.swaps
                  /\ evmOrder[e.swap].agrees}

BlockOf(events, s, kind) ==
  (CHOOSE e \in events : e.swap = s /\ e.kind = kind).blk
HasEvent(events, s, kind) == \E e \in events : e.swap = s /\ e.kind = kind

\* update_events up to its first failing statement: handle_inits,
\* handle_redeems, handle_refunds (done of the three work). The rows are older
\* than every block here, so none is made a minute before its row.
Recorded(row, events, done) ==
  [s \in EvmSwaps |->
     LET set(kind, n, old) == IF done >= n /\ HasEvent(events, s, kind)
                              THEN BlockOf(events, s, kind) ELSE old
     IN [init |-> set("Initiate", 1, row[s].init),
         redeem |-> set("Redeem", 2, row[s].redeem),
         refund |-> set("Refund", 3, row[s].refund),
         confs |-> IF done >= 1 /\ HasEvent(events, s, "Initiate")
                   THEN 1 ELSE row[s].confs]]

\* collect_initiated_event_confirmations
Collected(events) ==
  [s \in {t \in EvmSwaps : HasEvent(events, t, "Initiate")} |->
     Min({Max({evmPass.height + 1 - BlockOf(events, s, "Initiate"), 0}),
          EvmRequired})]

\* Of a swap that is found again the last count is kept.
CollectedOver(confs, events) ==
  [s \in DOMAIN confs \cup DOMAIN Collected(events) |->
     IF s \in DOMAIN Collected(events) THEN Collected(events)[s] ELSE confs[s]]

\* One item of the event stream, stored.
WatchStoresRange(height) ==
  /\ evmPass.step = "events"
  /\ LET events == ValidatedEvents(EventsIn(Head(evmPass.ranges), height))
         rest == Tail(evmPass.ranges)
     IN /\ evmRow' = Recorded(evmRow, events, 3)
        /\ evmPass' = [evmPass EXCEPT
                         !.ranges = rest,
                         !.confs = CollectedOver(@, events),
                         !.step = IF rest = <<>> THEN "confs" ELSE @]
  /\ UNCHANGED <<evmChain, evmOverdue, evmCache, evmReload, evmPrevious>>

\* The query, a block's time or a statement fails: the pass ends, with what
\* it has collected.
WatchFails ==
  /\ evmPass.step = "events"
  /\ \E done \in 0 .. 2 :
       evmRow' = Recorded(evmRow,
                          ValidatedEvents(EventsIn(Head(evmPass.ranges),
                                                   evmHeight)), done)
  /\ evmPass' = NoPass
  /\ UNCHANGED <<evmChain, evmOverdue, evmCache, evmReload, evmPrevious>>

Confirmed(row, confs) ==
  [s \in EvmSwaps |-> IF s \in DOMAIN confs
                      THEN [row[s] EXCEPT !.confs = Min({EvmRequired, confs[s]})]
                      ELSE row[s]]

\* store_confirmations
WatchStoresConfs ==
  /\ evmPass.step = "confs"
  /\ evmRow' = Confirmed(evmRow, evmPass.confs)
  /\ evmPass' = NoPass
  /\ evmPrevious' = evmPass.height
  /\ UNCHANGED <<evmChain, evmOverdue, evmCache, evmReload>>

\* An error of update_confirmations, after some of its statements.
WatchLosesConfs ==
  /\ evmPass.step = "confs"
  /\ \E written \in SUBSET DOMAIN evmPass.confs :
       evmRow' = Confirmed(evmRow, [s \in written |-> evmPass.confs[s]])
  /\ evmPass' = NoPass
  /\ UNCHANGED <<evmChain, evmOverdue, evmCache, evmReload, evmPrevious>>

EvmWatcherRestarts ==
  /\ evmCache' = NoRows /\ evmReload' = NotReading
  /\ evmPass' = NoPass /\ evmPrevious' = 0
  /\ UNCHANGED <<evmChain, evmRow, evmOverdue>>

-----------------------------------------------------------------------------

EvmWatcherInit ==
  /\ evmHeight = 0
  /\ evmOrder = [s \in EvmSwaps |-> EmptyOrder]
  /\ evmRow = [s \in EvmSwaps |-> EmptyRow]
  /\ evmOverdue = {}
  /\ evmCache = NoRows /\ evmReload = NotReading
  /\ evmPass = NoPass /\ evmPrevious = 0

EvmWatcherNext ==
  \/ EvmBlockMined
  \/ \E s \in EvmSwaps : EvmDeadlinePasses(s)
  \/ ReloadReads \/ ReloadInserts
  \/ WatchFetchesOrders
  \/ \E h \in NodeHeights : WatchReadsHeight(h) \/ WatchStoresRange(h)
  \/ WatchFails \/ WatchStoresConfs \/ WatchLosesConfs
  \/ EvmWatcherRestarts

(* The tasks are loops, and the process runs long enough at times to refill *)
(* its cache. An RPC or a statement that fails works at some time (for each *)
(* range of a pass in turn), and so does an up to date node.                *)
EvmWatcherWeak(n) ==
  CASE n = 1 -> ReloadReads
    [] n = 2 -> WatchStoresConfs \/ WatchLosesConfs

EvmWatcherStrong(n) ==
  CASE n = 1 -> ReloadInserts
    [] n = 2 -> WatchFetchesOrders
    [] n = 3 -> WatchReadsHeight(evmHeight)
    [] OTHER -> Len(evmPass.ranges) = n - 3 /\ WatchStoresRange(evmHeight)

EvmWatcherFairness ==
  /\ \A n \in 1 .. 2 : WF_evmWatcherVars(EvmWatcherWeak(n))
  /\ \A n \in 1 .. 3 + 2 * Cardinality(EvmSwaps) :
       SF_evmWatcherVars(EvmWatcherStrong(n))

EvmWatcherSpec ==
  EvmWatcherInit /\ [][EvmWatcherNext]_evmWatcherVars /\ EvmWatcherFairness

-----------------------------------------------------------------------------
(* What has to hold.                                                       *)

\* Rows are written from a cache, orders, a height and logs read at four
\* different times, in passes that break off anywhere; yet a row only ever
\* says what the contract says of an order with the row's terms, an order
\* with other terms never gets into a row, and the confirmations the solver
\* pays upon (can_initiate) are never more than the initiation has.
EvmRowsReal ==
  \A s \in EvmSwaps :
    LET r == evmRow[s] o == evmOrder[s]
    IN /\ r.init \in {0, o.init} /\ r.redeem \in {0, o.redeemed}
       /\ r.refund \in {0, o.refunded}
       /\ ~o.agrees => r = EmptyRow
       /\ r.confs > 0 => r.confs <= evmHeight - r.init + 1

\* From whatever mixture of stale caches, lagging nodes and broken passes, an
\* initiation is recorded unless the deadline passes first, and once it is, a
\* redeem or refund of the order is recorded too.
EvmRecorded ==
  \A s \in EvmSwaps :
    /\ evmOrder[s].agrees ~> evmRow[s].init > 0 \/ s \in evmOverdue
    /\ FulfilledAt(evmOrder[s]) > 0 /\ evmRow[s].init > 0
         ~> evmRow[s].redeem > 0 \/ evmRow[s].refund > 0
=============================================================================
