--------------------------- MODULE WatcherProofs ----------------------------
(***************************************************************************)
(* Proofs about BtcWatcher, the feed it listens to (ZmqFeed) and the       *)
(* transactions it watches for (BitcoinHtlc), for any outputs, transactions*)
(* and topics: the blocks of a row are those of the chain, nothing the node*)
(* said of a topic is refused for ever, and what the crate builds verifies.*)
(***************************************************************************)
EXTENDS BtcWatcher, ZmqFeed, BitcoinHtlc, SequenceTheorems, SumLemmas, TLAPS

-----------------------------------------------------------------------------
(* The row's blocks are real. The five tasks carry observations of the     *)
(* chain from the moment they look to the moment they write; what makes    *)
(* them safe to write late is that a mined transaction stays where it is.  *)

PureSpends == (Redeems \cup Refunds) \ Deposits

ChainOK ==
  /\ tip \in Nat
  /\ place \in [BtcTx -> Int]
  /\ \A t \in BtcTx : place[t] >= Absent
  /\ \A t, u \in PureSpends : t # u => place[t] = Absent \/ place[u] = Absent

\* An event's block is that of its transaction.
EventReal(e) ==
  /\ e.tx \in BtcTx /\ e.blk \in Nat
  /\ e.blk > 0 => place[e.tx] = e.blk

DepositAt(blk) == \E t \in Deposits : place[t] = blk

FoundReal(found) == found # <<>> => found[1] \in Nat \ {0} /\ DepositAt(found[1])

RowReal(r) ==
  /\ r.init \in Deposits \cup {Nothing}
  /\ {r.initBlk, r.redeemBlk, r.refundBlk} \subseteq Nat
  /\ r.initBlk > 0 => DepositAt(r.initBlk)
  /\ r.redeemBlk > 0 =>
       r.redeem \in Redeems \ Deposits /\ place[r.redeem] = r.redeemBlk
  /\ r.refundBlk > 0 =>
       r.refund \in Refunds \ (Redeems \cup Deposits) /\ place[r.refund] = r.refundBlk

RowShape(r) ==
  r = [amount |-> r.amount, filled |-> r.filled, init |-> r.init,
       initBlk |-> r.initBlk, redeem |-> r.redeem, redeemBlk |-> r.redeemBlk,
       refund |-> r.refund, refundBlk |-> r.refundBlk, confs |-> r.confs,
       blacklisted |-> r.blacklisted]

RowOK(r) == RowShape(r) /\ RowReal(r)

WatcherInv ==
  /\ ChainOK
  /\ DOMAIN held = StoreTask
  /\ \A task \in StoreTask : \A e \in held[task] : EventReal(e)
  /\ FoundReal(updater.found)
  /\ RowOK(swapRow)

\* The invariant holds with an empty chain and an empty row.
LEMMA WatcherInitInv == WatcherInit => WatcherInv
<1> SUFFICES ASSUME WatcherInit PROVE WatcherInv
    OBVIOUS
<1>1. ChainOK
      BY DEF WatcherInit, ChainOK, Absent, PureSpends, BtcTx
<1>2. RowOK(swapRow)
      BY DEF WatcherInit, RowOK, RowShape, RowReal
<1> QED BY <1>1, <1>2 DEF WatcherInit, WatcherInv, NothingHeld, Asleep, FoundReal

\* The invariant contains the property.
LEMMA BlocksFromInv == WatcherInv => BlocksAreReal
<1> SUFFICES ASSUME WatcherInv PROVE BlocksAreReal
    OBVIOUS
<1>1. RowReal(swapRow) /\ ChainOK
      BY DEF WatcherInv, RowOK
<1>2. swapRow.redeemBlk = 0 \/ swapRow.refundBlk = 0
  <2> SUFFICES ASSUME swapRow.redeemBlk > 0, swapRow.refundBlk > 0 PROVE FALSE
      BY <1>1 DEF RowReal
  <2>1. /\ swapRow.redeem \in PureSpends /\ swapRow.refund \in PureSpends
        /\ swapRow.redeem # swapRow.refund
        /\ place[swapRow.redeem] > 0 /\ place[swapRow.refund] > 0
        BY <1>1 DEF RowReal, PureSpends
  <2> QED BY <2>1, <1>1 DEF ChainOK, Absent
<1> QED BY <1>1, <1>2 DEF RowReal, DepositAt, BlocksAreReal

-----------------------------------------------------------------------------
(* A step of the chain leaves what is mined where it is, and with it every *)
(* observation.                                                            *)

MinedStay == \A t \in BtcTx : place[t] > 0 => place'[t] = place[t]

\* What was observed stays so as long as what is mined stays mined.
LEMMA ObservationsStay ==
  ASSUME WatcherInv, ChainOK', MinedStay, UNCHANGED <<held, updater, swapRow>>
  PROVE  WatcherInv'
<1>1. \A e : EventReal(e) => EventReal(e)'
      BY DEF EventReal, MinedStay
<1>2. \A blk \in Nat : blk > 0 /\ DepositAt(blk) => DepositAt(blk)'
      BY DEF DepositAt, MinedStay, BtcTx
<1>3. RowOK(swapRow)'
      BY <1>2 DEF WatcherInv, RowOK, RowShape, RowReal, MinedStay, BtcTx
<1>4. FoundReal(updater.found)'
      BY <1>2 DEF WatcherInv, FoundReal
<1> QED BY <1>1, <1>3, <1>4 DEF WatcherInv

\* A broadcast mines nothing.
LEMMA BroadcastKeepsInv ==
  ASSUME WatcherInv, NEW t \in BtcTx, TxBroadcast(t)
  PROVE  WatcherInv'
<1> USE DEF WatcherInv, ChainOK, Absent, InMempool
<1>1. /\ place[t] = Absent
      /\ \A u \in Rivals(t) : ~(place[u] > 0)
      /\ place' = [u \in BtcTx |-> IF u \in Rivals(t) THEN Absent
                                   ELSE IF u = t THEN InMempool ELSE place[u]]
      /\ UNCHANGED <<tip, held, updater, swapRow>>
      BY DEF TxBroadcast, Sendable, Mined
<1>2. MinedStay
      BY <1>1 DEF MinedStay
<1>3. t \in PureSpends => \A u \in PureSpends : u # t => u \in Rivals(t)
      BY DEF PureSpends, Rivals
<1>4. ChainOK'
      BY <1>1, <1>3 DEF PureSpends, BtcTx
<1> QED BY <1>1, <1>2, <1>4, ObservationsStay

\* The chain grows: what is mined stays where it is.
LEMMA ChainKeepsInv ==
  ASSUME WatcherInv, BitcoinMoves
  PROVE  WatcherInv'
<1> USE DEF WatcherInv, ChainOK, Absent, InMempool, watcherMem
<1>1. ASSUME NEW t \in BtcTx, TxDropped(t) PROVE WatcherInv'
  <2>1. MinedStay /\ UNCHANGED <<held, updater, swapRow>>
        BY <1>1 DEF MinedStay, TxDropped
  <2>2. ChainOK'
        BY <1>1 DEF TxDropped, PureSpends, BtcTx
  <2> QED BY <2>1, <2>2, ObservationsStay
<1>2. ASSUME NEW txs \in SUBSET BtcTx, BlockMined(txs) PROVE WatcherInv'
  <2>1. MinedStay /\ UNCHANGED <<held, updater, swapRow>>
        BY <1>2 DEF MinedStay, BlockMined
  <2>2. ChainOK'
        BY <1>2 DEF BlockMined, PureSpends, BtcTx
  <2> QED BY <2>1, <2>2, ObservationsStay
<1>3. CASE DeadlinePasses
  <2>1. MinedStay /\ UNCHANGED <<held, updater, swapRow, place, tip>>
        BY <1>3 DEF MinedStay, DeadlinePasses, chainState
  <2> QED BY <2>1, ObservationsStay
<1> QED BY <1>1, <1>2, <1>3, BroadcastKeepsInv DEF BitcoinMoves

-----------------------------------------------------------------------------
(* What a task parses is real when it parses it.                           *)

\* Events that are parsed carry the block of their transaction, or none.
LEMMA ParsedReal ==
  ASSUME WatcherInv, NEW txs \in SUBSET BtcTx, NEW blk \in Nat, NEW unscreened,
         \A t \in txs : blk > 0 => place[t] = blk,
         NEW e \in ParsedEvents(txs, blk, unscreened)
  PROVE  EventReal(e)
BY DEF ParsedEvents, EventReal

\* A task holds new events.
LEMMA HeldKeepsInv ==
  ASSUME WatcherInv, NEW task \in StoreTask, NEW es,
         \A e \in es : EventReal(e),
         held' = [held EXCEPT ![task] = es],
         UNCHANGED <<place, tip, updater, swapRow>>
  PROVE  WatcherInv'
<1>1. ChainOK' /\ FoundReal(updater.found)' /\ RowOK(swapRow)'
      BY DEF WatcherInv, ChainOK, FoundReal, DepositAt, RowOK, RowShape, RowReal
<1>2. \A e : EventReal(e)' = EventReal(e)
      BY DEF EventReal
<1> QED BY <1>1, <1>2 DEF WatcherInv

\* All three tasks parse what they see.
LEMMA ParsingKeepsInv ==
  ASSUME WatcherInv, MempoolParses \/ BlockParses \/ PollerParses
  PROVE  WatcherInv'
<1> USE DEF chainState, StoreTask
<1>1. CASE MempoolParses
  <2>1. PICK t \in BtcTx, unscreened \in SUBSET Deposits, entry \in CacheEntry :
          held' = [held EXCEPT !["mempool"] =
                     {e \in ParsedEvents({t}, 0, unscreened) : NewTx(e.tx, entry)}]
        BY <1>1 DEF MempoolParses
  <2>2. \A e \in ParsedEvents({t}, 0, unscreened) : EventReal(e)
        BY ParsedReal
  <2>3. UNCHANGED <<place, tip, updater, swapRow>>
        BY <1>1 DEF MempoolParses
  <2> QED BY <2>1, <2>2, <2>3, HeldKeepsInv
<1>2. CASE BlockParses
  <2>1. PICK blk \in 1 .. tip, unscreened \in SUBSET Deposits :
          held' = [held EXCEPT
                     !["block"] = ParsedEvents({t \in BtcTx : place[t] = blk},
                                               blk, unscreened)]
        BY <1>2 DEF BlockParses
  <2>2. \A e \in ParsedEvents({t \in BtcTx : place[t] = blk}, blk, unscreened) :
          EventReal(e)
    <3>1. blk \in Nat
          BY DEF WatcherInv, ChainOK
    <3> QED BY <3>1, ParsedReal
  <2>3. UNCHANGED <<place, tip, updater, swapRow>>
        BY <1>2 DEF BlockParses
  <2> QED BY <2>1, <2>2, <2>3, HeldKeepsInv
<1>3. CASE PollerParses
  <2> DEFINE es == {[tx |-> t, blk |-> place[t], flagged |-> FALSE] :
                      t \in {u \in BtcTx : /\ place[u] # Absent
                                           /\ PendingSwap # NoSwap
                                           /\ u \in Deposits =>
                                                PaysSwap(u, PendingSwap)}}
  <2>1. held' = [held EXCEPT !["poller"] = es]
        BY <1>3 DEF PollerParses
  <2>2. \A e \in es : EventReal(e)
        BY DEF WatcherInv, ChainOK, EventReal, Absent
  <2>3. UNCHANGED <<place, tip, updater, swapRow>>
        BY <1>3 DEF PollerParses
  <2> QED BY <2>1, <2>2, <2>3, HeldKeepsInv
<1> QED BY <1>1, <1>2, <1>3

-----------------------------------------------------------------------------
(* Rows that are written are real: the statements of update_swaps one      *)
(* after the other, the marks, the backfill, the confirmations.            *)

\* A deposit is stored with a block it is in.
LEMMA InitsReal ==
  ASSUME NEW r, RowOK(r), NEW es, NEW r2 \in InitsHandled(r, es),
         \A e \in es : EventReal(e) /\ KindOf(e.tx) = "initiate"
  PROVE  RowOK(r2)
<1>1. CASE es = {}
      BY <1>1 DEF InitsHandled
<1>2. ASSUME NEW e \in es, r2 = [r EXCEPT !.filled = r.amount, !.init = e.tx, !.initBlk = e.blk]
      PROVE  RowOK(r2)
  <2>1. e.tx \in Deposits /\ e.blk \in Nat /\ (e.blk > 0 => DepositAt(e.blk))
        BY DEF EventReal, KindOf, DepositAt
  <2>2. r2 = [amount |-> r.amount, filled |-> r.amount, init |-> e.tx,
              initBlk |-> e.blk, redeem |-> r.redeem, redeemBlk |-> r.redeemBlk,
              refund |-> r.refund, refundBlk |-> r.refundBlk, confs |-> r.confs,
              blacklisted |-> r.blacklisted]
        BY <1>2 DEF RowOK, RowShape
  <2>3. RowShape(r2)
        BY <2>2 DEF RowShape
  <2> QED BY <2>1, <2>2, <2>3 DEF RowOK, RowReal
<1> QED BY <1>1, <1>2 DEF InitsHandled

\* A redeem is stored with a block it is in.
LEMMA RedeemsReal ==
  ASSUME NEW r, RowOK(r), NEW es, NEW r2 \in RedeemsHandled(r, es),
         \A e \in es : EventReal(e) /\ KindOf(e.tx) = "redeem"
  PROVE  RowOK(r2)
<1>1. CASE es = {}
      BY <1>1 DEF RedeemsHandled
<1>2. ASSUME NEW e \in es, r2 = [r EXCEPT !.redeem = e.tx, !.redeemBlk = e.blk]
      PROVE  RowOK(r2)
  <2>1. e.tx \in Redeems \ Deposits /\ e.blk \in Nat /\ (e.blk > 0 => place[e.tx] = e.blk)
        BY DEF EventReal, KindOf
  <2>2. r2 = [amount |-> r.amount, filled |-> r.filled, init |-> r.init,
              initBlk |-> r.initBlk, redeem |-> e.tx, redeemBlk |-> e.blk,
              refund |-> r.refund, refundBlk |-> r.refundBlk, confs |-> r.confs,
              blacklisted |-> r.blacklisted]
        BY <1>2 DEF RowOK, RowShape
  <2>3. RowShape(r2)
        BY <2>2 DEF RowShape
  <2> QED BY <2>1, <2>2, <2>3 DEF RowOK, RowReal
<1> QED BY <1>1, <1>2 DEF RedeemsHandled

\* A refund is stored with a block it is in.
LEMMA RefundsReal ==
  ASSUME NEW r, RowOK(r), NEW es, NEW r2 \in RefundsHandled(r, es),
         \A e \in es : EventReal(e) /\ KindOf(e.tx) = "refund"
  PROVE  RowOK(r2)
<1>1. CASE es = {}
      BY <1>1 DEF RefundsHandled
<1>2. ASSUME NEW e \in es, r2 = [r EXCEPT !.refund = e.tx, !.refundBlk = e.blk]
      PROVE  RowOK(r2)
  <2>1. /\ e.tx \in Refunds \ (Redeems \cup Deposits) /\ e.blk \in Nat
        /\ e.blk > 0 => place[e.tx] = e.blk
        BY DEF EventReal, KindOf, BtcTx
  <2>2. r2 = [amount |-> r.amount, filled |-> r.filled, init |-> r.init,
              initBlk |-> r.initBlk, redeem |-> r.redeem, redeemBlk |-> r.redeemBlk,
              refund |-> e.tx, refundBlk |-> e.blk, confs |-> r.confs,
              blacklisted |-> r.blacklisted]
        BY <1>2 DEF RowOK, RowShape
  <2>3. RowShape(r2)
        BY <2>2 DEF RowShape
  <2> QED BY <2>1, <2>2, <2>3 DEF RowOK, RowReal
<1> QED BY <1>1, <1>2 DEF RefundsHandled

\* The three kinds in turn, wherever the writes stop.
LEMMA UpdatedReal ==
  ASSUME NEW r, RowOK(r), NEW es, \A e \in es : EventReal(e), NEW done,
         NEW r2 \in Updated(r, es, done)
  PROVE  RowOK(r2)
<1> DEFINE clean(kind, n) == {e \in es : /\ ~e.flagged /\ KindOf(e.tx) = kind
                                         /\ done >= n}
<1>1. PICK r0 \in InitsHandled(r, clean("initiate", 1)) :
        \E r1 \in RedeemsHandled(r0, clean("redeem", 2)) :
          r2 \in RefundsHandled(r1, clean("refund", 3))
      BY DEF Updated
<1>2. PICK r1 \in RedeemsHandled(r0, clean("redeem", 2)) :
        r2 \in RefundsHandled(r1, clean("refund", 3))
      BY <1>1
<1>3. RowOK(r0)
      BY InitsReal
<1>4. RowOK(r1)
      BY <1>3, RedeemsReal
<1> QED BY <1>2, <1>4, RefundsReal

\* The mark of the screening changes no block.
LEMMA MarkedReal ==
  ASSUME NEW r, RowOK(r), NEW es
  PROVE  RowOK(Marked(r, es))
<1> DEFINE m == Marked(r, es)
<1>1. \E b : m = [amount |-> r.amount, filled |-> r.filled, init |-> r.init,
           initBlk |-> r.initBlk, redeem |-> r.redeem, redeemBlk |-> r.redeemBlk,
           refund |-> r.refund, refundBlk |-> r.refundBlk, confs |-> r.confs,
           blacklisted |-> b]
      BY DEF RowOK, RowShape, Marked
<1> HIDE DEF m
<1>2. RowShape(m)
      BY <1>1 DEF RowShape
<1>3. RowReal(m)
      BY <1>1 DEF RowOK, RowReal
<1> QED BY <1>2, <1>3 DEF RowOK, m

\* A block the updater has found is filled in.
LEMMA BackfilledReal ==
  ASSUME NEW r, RowOK(r), NEW found, FoundReal(found)
  PROVE  RowOK(Backfilled(r, found))
<1> DEFINE b == Backfilled(r, found)
<1>1. CASE found = <<>>
      BY <1>1 DEF Backfilled
<1>2. CASE found # <<>>
  <2>1. \E f, a : b = [amount |-> a, filled |-> f, init |-> r.init,
           initBlk |-> IF r.initBlk = 0 THEN found[1] ELSE r.initBlk,
           redeem |-> r.redeem, redeemBlk |-> r.redeemBlk,
           refund |-> r.refund, refundBlk |-> r.refundBlk, confs |-> r.confs,
           blacklisted |-> r.blacklisted]
        BY <1>2 DEF RowOK, RowShape, Backfilled
  <2> HIDE DEF b
  <2>2. RowShape(b)
        BY <2>1 DEF RowShape
  <2>3. RowReal(b)
        BY <1>2, <2>1 DEF RowOK, RowReal, FoundReal
  <2> QED BY <2>2, <2>3 DEF RowOK, b
<1> QED BY <1>1, <1>2

\* Counting confirmations changes no block.
LEMMA CountedReal ==
  ASSUME NEW r, RowOK(r), NEW height
  PROVE  RowOK(Counted(r, height))
<1> DEFINE c == Counted(r, height)
<1>1. CASE r.init # Nothing /\ r.confs # RequiredConfs
  <2>1. \E n : c = [amount |-> r.amount, filled |-> r.filled, init |-> r.init,
           initBlk |-> r.initBlk, redeem |-> r.redeem, redeemBlk |-> r.redeemBlk,
           refund |-> r.refund, refundBlk |-> r.refundBlk, confs |-> n,
           blacklisted |-> r.blacklisted]
        BY <1>1 DEF RowOK, RowShape, Counted
  <2> HIDE DEF c
  <2>2. RowShape(c)
        BY <2>1 DEF RowShape
  <2>3. RowReal(c)
        BY <2>1 DEF RowOK, RowReal
  <2> QED BY <2>2, <2>3 DEF RowOK, c
<1> QED BY <1>1 DEF Counted

\* A task stores what it held, or loses it.
LEMMA StoringKeepsInv ==
  ASSUME WatcherInv, NEW task \in StoreTask, EventsStored(task) \/ StoreFails(task)
  PROVE  WatcherInv'
<1>1. /\ UNCHANGED <<place, tip, updater>>
      /\ held' = [held EXCEPT ![task] = {}]
      BY DEF EventsStored, StoreFails, chainState
<1>2. RowOK(swapRow')
  <2>1. RowOK(swapRow) /\ \A e \in held[task] : EventReal(e)
        BY DEF WatcherInv
  <2>2. PICK done \in 0 .. 3 :
          \E r \in Updated(swapRow, held[task], done) :
            swapRow' = r \/ swapRow' = Marked(r, held[task])
        BY DEF EventsStored, StoreFails
  <2>3. PICK r \in Updated(swapRow, held[task], done) :
          swapRow' = r \/ swapRow' = Marked(r, held[task])
        BY <2>2
  <2>4. RowOK(r)
        BY <2>1, UpdatedReal
  <2> QED BY <2>3, <2>4, MarkedReal
<1>3. RowOK(swapRow)'
      BY <1>1, <1>2 DEF RowOK, RowShape, RowReal, DepositAt
<1>4. \A e : EventReal(e)' = EventReal(e)
      BY <1>1 DEF EventReal
<1> QED BY <1>1, <1>3, <1>4 DEF WatcherInv, ChainOK, FoundReal, DepositAt

\* The updater looks transactions up and writes what it found.
LEMMA UpdaterKeepsInv ==
  ASSUME WatcherInv, UpdaterLooks \/ UpdaterWrites
  PROVE  WatcherInv'
<1> USE DEF chainState
<1>1. UNCHANGED <<place, tip, held>>
      BY DEF UpdaterLooks, UpdaterWrites
<1>2. ChainOK' /\ (\A e : EventReal(e)' = EventReal(e))
      BY <1>1 DEF WatcherInv, ChainOK, EventReal
<1>3. CASE UpdaterLooks
  <2>1. MissingInitiateBlock(swapRow) => swapRow.init \in Deposits
        BY DEF WatcherInv, RowOK, RowReal, MissingInitiateBlock
  <2>2. FoundReal(updater'.found)
    <3>1. CASE MissingInitiateBlock(swapRow) /\ Mined(swapRow.init)
      <4>1. updater'.found = <<place[swapRow.init], Total(Outputs(swapRow.init))>>
            BY <1>3, <3>1 DEF UpdaterLooks
      <4>2. place[swapRow.init] \in Nat \ {0} /\ DepositAt(place[swapRow.init])
            BY <2>1, <3>1 DEF WatcherInv, ChainOK, DepositAt, Mined, InMempool, BtcTx
      <4> QED BY <4>1, <4>2 DEF FoundReal
    <3>2. CASE ~(MissingInitiateBlock(swapRow) /\ Mined(swapRow.init))
          BY <1>3, <3>2 DEF UpdaterLooks, FoundReal
    <3> QED BY <3>1, <3>2
  <2>3. UNCHANGED swapRow
        BY <1>3 DEF UpdaterLooks
  <2> QED BY <1>1, <1>2, <2>2, <2>3
        DEF WatcherInv, FoundReal, DepositAt, RowOK, RowShape, RowReal
<1>4. CASE UpdaterWrites
  <2>1. swapRow' = Counted(Backfilled(swapRow, updater.found), updater.height)
        BY <1>4 DEF UpdaterWrites
  <2>2. RowOK(swapRow')
        BY <2>1, BackfilledReal, CountedReal DEF WatcherInv
  <2>3. updater'.found = <<>>
        BY <1>4 DEF UpdaterWrites, Asleep
  <2> QED BY <1>1, <1>2, <2>2, <2>3
        DEF WatcherInv, FoundReal, DepositAt, RowOK, RowShape, RowReal
<1> QED BY <1>3, <1>4

\* Every step keeps the invariant.
LEMMA WatcherNextKeepsInv == WatcherInv /\ [WatcherNext]_watcherVars => WatcherInv'
<1> SUFFICES ASSUME WatcherInv, [WatcherNext]_watcherVars PROVE WatcherInv'
    OBVIOUS
<1>1. CASE RefreshReads \/ RefreshSets \/ UNCHANGED watcherVars
  <2>1. UNCHANGED <<place, tip, held, updater, swapRow>>
        BY <1>1 DEF RefreshReads, RefreshSets, watcherVars, chainState, watcherMem
  <2>2. ChainOK' /\ MinedStay
        BY <2>1 DEF WatcherInv, ChainOK, MinedStay
  <2> QED BY <2>1, <2>2, ObservationsStay
<1>2. CASE WatcherRestarts
  <2>1. /\ UNCHANGED <<place, tip, swapRow>> /\ held' = NothingHeld
        /\ updater'.found = <<>>
        BY <1>2 DEF WatcherRestarts, chainState, Asleep
  <2> QED BY <2>1 DEF WatcherInv, ChainOK, FoundReal, NothingHeld,
                      RowOK, RowShape, RowReal, DepositAt
<1> QED BY <1>1, <1>2, ChainKeepsInv, ParsingKeepsInv, StoringKeepsInv, UpdaterKeepsInv
        DEF WatcherNext, WatcherTasks

\* Five tasks that write the same columns, each from what it saw some time ago, never
\* leave a block number in the row that is not one of a mined transaction, nor a row that
\* is redeemed and refunded (swap_store.rs: update_swaps, backfill_initiate).
THEOREM BlocksAreRealHolds == WatcherSpec => []BlocksAreReal
<1>1. WatcherSpec => []WatcherInv
      BY WatcherInitInv, WatcherNextKeepsInv, PTL DEF WatcherSpec
<1> QED BY <1>1, BlocksFromInv, PTL

-----------------------------------------------------------------------------
(* The feed. The numbers of a topic are consecutive but for what is dropped;*)
(* unless a gap is a threshold long, what the reader refuses are messages of*)
(* a later start than it heard, and never more than a threshold of them.   *)

\* The bounds are natural numbers.
LEMMA FeedNumbers ==
  /\ SeqMax \in Nat /\ ResetThreshold \in Nat /\ WrapMargin \in Nat
  /\ ResetThreshold > 0 /\ 2 * ResetThreshold <= SeqMax
BY ZmqAssumption

Number == 0 .. SeqMax
ZqMessage == [topic : ZmqTopic, seq : Number, start : Nat, lost : BOOLEAN]

\* b is g numbers after a.
Ahead(a, g, b) == b = a + g \/ b = a + g - (SeqMax + 1)

\* The number after a number, across the end of u32.
LEMMA NextNumber ==
  ASSUME NEW n \in Number
  PROVE  (n + 1) % (SeqMax + 1) \in Number /\ Ahead(n, 1, (n + 1) % (SeqMax + 1))
<1>1. CASE n < SeqMax
  <2>1. n + 1 = 0 * (SeqMax + 1) + (n + 1) /\ n + 1 \in 0 .. SeqMax
        BY <1>1, FeedNumbers DEF Number
  <2> QED BY <2>1, FeedNumbers DEF Number, Ahead
<1>2. CASE n = SeqMax
  <2>1. (SeqMax + 1) % (SeqMax + 1) = 0
        BY FeedNumbers
  <2> QED BY <1>2, <2>1, FeedNumbers DEF Number, Ahead
<1> QED BY <1>1, <1>2, FeedNumbers DEF Number

\* A message that arrives right after number a of the start s.
Follows(a, s, m) ==
  a # Unheard =>
    /\ m.start >= s
    /\ ~m.lost =>
         /\ m.start = s => \E g \in 1 .. ResetThreshold : Ahead(a, g, m.seq)
         /\ m.start > s => m.seq < ResetThreshold

\* What the node will send next after number a of the start s.
Reach(a, s, node, starts, dropped) ==
  a # Unheard /\ dropped < ResetThreshold =>
    /\ starts = s => Ahead(a, 1 + dropped, node)
    /\ starts > s => node <= dropped

Refusals == [start : Nat, count : Nat, lost : BOOLEAN]

FeedTypes ==
  /\ zqNode \in [ZmqTopic -> Number] /\ zqStarts \in Nat \ {0}
  /\ zqSocket \in 0 .. zqStarts
  /\ zqWire \in Seq(ZqMessage)
  /\ \A i \in 1 .. Len(zqWire) : zqWire[i].start \in zqSocket .. zqStarts
  /\ zqDropped \in [ZmqTopic -> Nat]
  /\ \A t \in ZmqTopic : zqDropped[t] <= ResetThreshold
  /\ zqLast \in [ZmqTopic -> Number \cup {Unheard}]
  /\ zqRefused \in [ZmqTopic -> Refusals]
  /\ \A t \in ZmqTopic : zqRefused[t].start \in zqSocket .. zqStarts

\* p is the number that arrived last on the topic, forwarded or not.
PrevOK(t, p) ==
  /\ p \in Number \cup {Unheard}
  /\ zqLast[t] # Unheard => p # Unheard
  /\ ~zqRefused[t].lost =>
       /\ zqRefused[t].count = 0 => p = zqLast[t]
       /\ zqRefused[t].count > 0 =>
            /\ 0 <= p /\ p <= zqLast[t] /\ zqLast[t] <= ResetThreshold
            /\ zqRefused[t].count <= p + 1 /\ zqRefused[t].start > zqSocket

\* The messages of a topic follow each other: from the last that arrived, along
\* the wire, to the one the node sends next.
OnWire ==
  \A i \in 1 .. Len(zqWire) : \A j \in i + 1 .. Len(zqWire) :
    (/\ zqWire[i].topic = zqWire[j].topic
     /\ \A k \in i + 1 .. j - 1 : zqWire[k].topic # zqWire[j].topic)
      => Follows(zqWire[i].seq, zqWire[i].start, zqWire[j])

FromLast(p) ==
  \A j \in 1 .. Len(zqWire) :
    (\A k \in 1 .. j - 1 : zqWire[k].topic # zqWire[j].topic)
      => Follows(p[zqWire[j].topic], zqRefused[zqWire[j].topic].start, zqWire[j])

ToNode ==
  \A i \in 1 .. Len(zqWire) :
    (\A k \in i + 1 .. Len(zqWire) : zqWire[k].topic # zqWire[i].topic)
      => Reach(zqWire[i].seq, zqWire[i].start, zqNode[zqWire[i].topic], zqStarts,
               zqDropped[zqWire[i].topic])

LastToNode(p) ==
  \A t \in ZmqTopic :
    (\A k \in 1 .. Len(zqWire) : zqWire[k].topic # t)
      => Reach(p[t], zqRefused[t].start, zqNode[t], zqStarts, zqDropped[t])

Chained(p) == OnWire /\ FromLast(p) /\ ToNode /\ LastToNode(p)

HeardSince(p) == (\A t \in ZmqTopic : PrevOK(t, p[t])) /\ Chained(p)

FeedInv ==
  /\ FeedTypes
  /\ ~Up => zqWire = <<>> /\ zqLast = [t \in ZmqTopic |-> Unheard]
  /\ Up => \E p : HeardSince(p)

\* The invariant holds before the first connection.
LEMMA FeedInitInv == ZmqInit => FeedInv
<1> SUFFICES ASSUME ZmqInit PROVE FeedInv
    OBVIOUS
<1>1. FeedTypes
      BY FeedNumbers DEF ZmqInit, FeedTypes, Refusals, Number, Unconnected, NoneRefused, Unheard
<1> QED BY <1>1 DEF FeedInv, ZmqInit, Up

\* The fields of what is on the wire and of what was refused.
LEMMA FeedFacts ==
  ASSUME FeedTypes
  PROVE  /\ \A i \in 1 .. Len(zqWire) :
              /\ zqWire[i].topic \in ZmqTopic /\ zqWire[i].seq \in Number
              /\ zqWire[i].start \in Nat /\ zqWire[i].start <= zqStarts
              /\ zqWire[i].start >= zqSocket
         /\ \A t \in ZmqTopic : /\ zqRefused[t].start \in Nat
                                /\ zqRefused[t].start <= zqStarts
                                /\ zqRefused[t].start >= zqSocket
<1>1. zqSocket \in Nat /\ zqStarts \in Nat
      BY DEF FeedTypes
<1>2. ASSUME NEW i \in 1 .. Len(zqWire)
      PROVE  /\ zqWire[i].topic \in ZmqTopic /\ zqWire[i].seq \in Number
             /\ zqWire[i].start \in Nat /\ zqWire[i].start <= zqStarts
             /\ zqWire[i].start >= zqSocket
  <2>1. zqWire[i] \in ZqMessage
        BY ElementOfSeq DEF FeedTypes
  <2>2. zqWire[i].start \in zqSocket .. zqStarts
        BY DEF FeedTypes
  <2> QED BY <1>1, <2>1, <2>2 DEF ZqMessage
<1>3. ASSUME NEW t \in ZmqTopic
      PROVE  /\ zqRefused[t].start \in Nat /\ zqRefused[t].start <= zqStarts
             /\ zqRefused[t].start >= zqSocket
  <2>1. zqRefused[t].start \in zqSocket .. zqStarts
        BY DEF FeedTypes
  <2> QED BY <1>1, <2>1
<1> QED BY <1>2, <1>3

\* The invariant bounds what is refused.
LEMMA FeedHeard == FeedInv => NodeIsHeard
<1> SUFFICES ASSUME FeedInv, Up, NEW t \in ZmqTopic, ~zqRefused[t].lost
             PROVE  zqRefused[t].count <= IF zqRefused[t].start = zqSocket THEN 0
                                          ELSE ResetThreshold + 1
    BY DEF NodeIsHeard
<1>1. PICK p : HeardSince(p)
      BY DEF FeedInv
<1>2. PrevOK(t, p[t])
      BY <1>1 DEF HeardSince
<1>3. zqRefused[t].count \in Nat /\ zqSocket \in Nat /\ zqRefused[t].start \in Nat
      BY DEF FeedInv, FeedTypes, Refusals
<1>4. zqLast[t] \in Number \cup {Unheard} /\ p[t] \in Number \cup {Unheard}
      BY <1>2 DEF FeedInv, FeedTypes, PrevOK
<1> QED BY <1>2, <1>3, <1>4, FeedNumbers DEF PrevOK, Number, Unheard

\* A new connection has heard nothing.
LEMMA ConnectKeeps == ASSUME FeedInv, Connect PROVE FeedInv'
<1> DEFINE p == [t \in ZmqTopic |-> Unheard]
<1>1. FeedTypes'
      BY FeedNumbers DEF Connect, FeedInv, FeedTypes, Refusals, NoneRefused
<1>2. zqWire' = <<>> /\ zqRefused' = [t \in ZmqTopic |-> NoneRefused(zqStarts)]
      /\ zqLast' = [t \in ZmqTopic |-> Unheard]
      BY DEF Connect, FeedInv, Up
<1>3. \A t \in ZmqTopic : PrevOK(t, p[t])'
      BY <1>2 DEF PrevOK, NoneRefused
<1>4. Chained(p)'
      BY <1>2 DEF Chained, OnWire, FromLast, ToNode, LastToNode, Reach
<1>5. (\E q : HeardSince(q))'
  <2>1. HeardSince(p)'
        BY <1>3, <1>4 DEF HeardSince
  <2> QED BY <2>1
<1>6. Up'
      BY DEF Connect, Up, FeedInv, FeedTypes, Unconnected
<1> QED BY <1>1, <1>5, <1>6 DEF FeedInv

\* What was on the wire is lost with the connection.
LEMMA DisconnectKeeps == ASSUME FeedInv, Disconnect PROVE FeedInv'
<1>1. FeedTypes'
      BY FeedNumbers DEF Disconnect, FeedInv, FeedTypes, Unconnected, NoneRefused, Refusals
<1> QED BY <1>1 DEF FeedInv, Disconnect, Up

\* A node that starts again numbers from zero.
LEMMA NodeRestartsKeeps == ASSUME FeedInv, NodeRestarts PROVE FeedInv'
<1>1. FeedTypes'
      BY FeedNumbers DEF NodeRestarts, FeedInv, FeedTypes, Number
<1>2. CASE ~Up
      BY <1>1, <1>2 DEF FeedInv, NodeRestarts, Up
<1>3. CASE Up
  <2>1. PICK p : HeardSince(p)
        BY <1>3 DEF FeedInv
  <2>2. \A t \in ZmqTopic : PrevOK(t, p[t])'
        BY <2>1 DEF HeardSince, PrevOK, NodeRestarts
  <2>3. ASSUME NEW a, NEW s \in Nat, s <= zqStarts, NEW t \in ZmqTopic
        PROVE  Reach(a, s, zqNode'[t], zqStarts', zqDropped'[t])
        BY <2>3 DEF NodeRestarts, FeedInv, FeedTypes, Reach
  <2>4. Chained(p)'
    <3>1. /\ zqWire' = zqWire /\ zqRefused' = zqRefused
          /\ \A i \in 1 .. Len(zqWire) : /\ zqWire[i].topic \in ZmqTopic
                                         /\ zqWire[i].start \in Nat
                                         /\ zqWire[i].start <= zqStarts
          /\ \A t \in ZmqTopic : zqRefused[t].start \in Nat /\ zqRefused[t].start <= zqStarts
          BY FeedFacts DEF NodeRestarts, FeedInv
    <3>2. OnWire'
          BY <3>1, <2>1 DEF HeardSince, Chained, OnWire
    <3>3. FromLast(p)'
          BY <3>1, <2>1 DEF HeardSince, Chained, FromLast
    <3>4. ToNode'
          BY <3>1, <2>3 DEF ToNode
    <3>5. LastToNode(p)'
          BY <3>1, <2>3 DEF LastToNode
    <3> QED BY <3>2, <3>3, <3>4, <3>5 DEF Chained
  <2>5. HeardSince(p)'
        BY <2>2, <2>4 DEF HeardSince
  <2>6. ~Up => zqWire' = <<>>
        BY <1>3
  <2>7. Up' = Up
        BY DEF NodeRestarts, Up
  <2> QED BY <1>1, <1>3, <2>5, <2>7 DEF FeedInv
<1> QED BY <1>2, <1>3

\* The topics a step does not touch.
LEMMA PublishKeeps ==
  ASSUME FeedInv, NEW t \in ZmqTopic, Publish(t) PROVE FeedInv'
<1> DEFINE m == [topic |-> t, seq |-> zqNode[t], start |-> zqStarts,
                lost |-> zqDropped[t] = ResetThreshold]
<1>1. /\ zqNode[t] \in Number /\ zqNode' \in [ZmqTopic -> Number]
      /\ Ahead(zqNode[t], 1, zqNode'[t])
      /\ \A u \in ZmqTopic \ {t} : zqNode'[u] = zqNode[u]
      BY NextNumber DEF Publish, FeedInv, FeedTypes
<1>2. /\ UNCHANGED <<zqStarts, zqSocket, zqLast, zqRefused>> /\ Up' = Up
      /\ zqWire \in Seq(ZqMessage)
      BY DEF Publish, Up, FeedInv, FeedTypes
<1>3. CASE ~Up
  <2>1. UNCHANGED <<zqWire, zqDropped>>
        BY <1>3 DEF Publish
  <2>2. FeedTypes'
        BY <1>1, <1>2, <2>1 DEF FeedInv, FeedTypes
  <2> QED BY <1>2, <1>3, <2>1, <2>2 DEF FeedInv
<1>4. ASSUME Up, zqWire' = Append(zqWire, m), zqDropped' = [zqDropped EXCEPT ![t] = 0]
      PROVE  FeedInv'
  <2>1. m \in ZqMessage
        BY <1>1 DEF ZqMessage, FeedInv, FeedTypes
  <2>2. /\ zqWire' \in Seq(ZqMessage) /\ Len(zqWire') = Len(zqWire) + 1
        /\ \A i \in 1 .. Len(zqWire) : zqWire'[i] = zqWire[i]
        /\ zqWire'[Len(zqWire) + 1] = m /\ Len(zqWire) \in Nat
    <3> HIDE DEF m
    <3> QED BY <1>2, <1>4, <2>1
  <2>15. Len(zqWire') = Len(zqWire) + 1 /\ Len(zqWire) \in Nat
        BY <2>2
  <2>3. FeedTypes'
    <3>1. ASSUME NEW i \in 1 .. Len(zqWire')
          PROVE  zqWire'[i].start \in zqSocket' .. zqStarts'
      <4>1. CASE i \in 1 .. Len(zqWire)
            BY <1>2, <2>2, <4>1 DEF FeedInv, FeedTypes
      <4>2. CASE i = Len(zqWire) + 1
            BY <1>2, <2>2, <4>2 DEF FeedInv, FeedTypes
      <4> QED BY <2>2, <4>1, <4>2
    <3> QED BY <1>1, <1>2, <1>4, <2>2, <3>1, FeedNumbers DEF FeedInv, FeedTypes
  <2>4. PICK p : HeardSince(p)
        BY <1>4 DEF FeedInv
  <2>5. \A u \in ZmqTopic : PrevOK(u, p[u])'
        BY <1>2, <2>4 DEF HeardSince, PrevOK
  <2>6. ASSUME NEW a \in Number \cup {Unheard}, NEW s \in Nat, s <= zqStarts,
               Reach(a, s, zqNode[t], zqStarts, zqDropped[t])
        PROVE  Follows(a, s, m)
    <3>1. CASE zqDropped[t] = ResetThreshold
          BY <2>6, <3>1 DEF Follows, FeedInv, FeedTypes
    <3>2. CASE zqDropped[t] < ResetThreshold
      <4>1. zqDropped[t] \in Nat /\ 1 + zqDropped[t] \in 1 .. ResetThreshold
            BY <3>2, FeedNumbers DEF FeedInv, FeedTypes
      <4> QED BY <2>6, <3>2, <4>1, FeedNumbers, <1>1
              DEF Reach, Follows, Number, FeedInv, FeedTypes
    <3>3. zqDropped[t] \in Nat /\ zqDropped[t] <= ResetThreshold
          BY DEF FeedInv, FeedTypes
    <3> QED BY <3>1, <3>2, <3>3, FeedNumbers
  <2>7. /\ \A u \in ZmqTopic : /\ zqRefused[u].start \in Nat
                               /\ zqRefused[u].start <= zqStarts
                               /\ p[u] \in Number \cup {Unheard}
        /\ \A i \in 1 .. Len(zqWire) : /\ zqWire[i].start \in Nat
                                       /\ zqWire[i].start <= zqStarts
                                       /\ zqWire[i].seq \in Number
                                       /\ zqWire[i].topic \in ZmqTopic
        BY FeedFacts, <2>4 DEF FeedInv, HeardSince, PrevOK
  <2>8. OnWire'
    <3> SUFFICES ASSUME NEW i \in 1 .. Len(zqWire'), NEW j \in i + 1 .. Len(zqWire'),
                        zqWire'[i].topic = zqWire'[j].topic,
                        \A k \in i + 1 .. j - 1 : zqWire'[k].topic # zqWire'[j].topic
                 PROVE  Follows(zqWire'[i].seq, zqWire'[i].start, zqWire'[j])
        BY DEF OnWire
    <3>1. i \in 1 .. Len(zqWire) /\ zqWire'[i] = zqWire[i]
          BY <2>2
    <3>2. CASE j \in i + 1 .. Len(zqWire)
      <4>1. \A k \in i + 1 .. j - 1 : zqWire[k].topic # zqWire[j].topic
            BY <2>2, <3>2
      <4>2. zqWire'[j] = zqWire[j]
            BY <2>2, <3>2
      <4> QED BY <2>4, <3>1, <3>2, <4>1, <4>2 DEF HeardSince, Chained, OnWire
    <3>3. CASE j = Len(zqWire) + 1
      <4>1. zqWire'[j] = m /\ zqWire[i].topic = t
            BY <2>2, <3>1, <3>3
      <4>2. \A k \in i + 1 .. Len(zqWire) : zqWire[k].topic # t
            BY <2>2, <3>3, <4>1
      <4>3. Reach(zqWire[i].seq, zqWire[i].start, zqNode[t], zqStarts, zqDropped[t])
            BY <2>4, <3>1, <4>1, <4>2 DEF HeardSince, Chained, ToNode
      <4> QED BY <2>6, <2>7, <3>1, <4>1, <4>3
    <3>4. j \in i + 1 .. Len(zqWire) \/ j = Len(zqWire) + 1
          BY <2>15
    <3> QED BY <3>2, <3>3, <3>4
  <2>9. FromLast(p)'
    <3> SUFFICES ASSUME NEW j \in 1 .. Len(zqWire'),
                        \A k \in 1 .. j - 1 : zqWire'[k].topic # zqWire'[j].topic
                 PROVE  Follows(p[zqWire'[j].topic], zqRefused[zqWire'[j].topic].start,
                                zqWire'[j])
        BY <1>2 DEF FromLast
    <3>1. CASE j \in 1 .. Len(zqWire)
      <4>1. zqWire'[j] = zqWire[j] /\ \A k \in 1 .. j - 1 : zqWire[k].topic # zqWire[j].topic
            BY <2>2, <3>1
      <4> QED BY <2>4, <3>1, <4>1 DEF HeardSince, Chained, FromLast
    <3>2. CASE j = Len(zqWire) + 1
      <4>1. zqWire'[j] = m /\ \A k \in 1 .. Len(zqWire) : zqWire[k].topic # t
            BY <2>2, <3>2
      <4>2. Reach(p[t], zqRefused[t].start, zqNode[t], zqStarts, zqDropped[t])
            BY <2>4, <4>1 DEF HeardSince, Chained, LastToNode
      <4>3. Follows(p[t], zqRefused[t].start, m)
            BY <2>6, <2>7, <4>2
      <4>4. zqWire'[j].topic = t
            BY <4>1
      <4> QED BY <4>1, <4>3, <4>4
    <3>3. j \in 1 .. Len(zqWire) \/ j = Len(zqWire) + 1
          BY <2>15
    <3> QED BY <3>1, <3>2, <3>3
  <2>10. ToNode'
    <3> SUFFICES ASSUME NEW i \in 1 .. Len(zqWire'),
                        \A k \in i + 1 .. Len(zqWire') : zqWire'[k].topic # zqWire'[i].topic
                 PROVE  Reach(zqWire'[i].seq, zqWire'[i].start, zqNode'[zqWire'[i].topic],
                              zqStarts, zqDropped'[zqWire'[i].topic])
        BY <1>2 DEF ToNode
    <3>1. CASE i \in 1 .. Len(zqWire)
      <4>1. zqWire'[i] = zqWire[i] /\ zqWire[i].topic # t
            BY <2>2, <3>1
      <4>2. \A k \in i + 1 .. Len(zqWire) : zqWire[k].topic # zqWire[i].topic
            BY <2>2, <3>1
      <4>3. /\ zqNode'[zqWire[i].topic] = zqNode[zqWire[i].topic]
            /\ zqDropped'[zqWire[i].topic] = zqDropped[zqWire[i].topic]
            BY <1>1, <1>4, <2>7, <3>1, <4>1 DEF FeedInv, FeedTypes
      <4> QED BY <2>4, <3>1, <4>1, <4>2, <4>3 DEF HeardSince, Chained, ToNode
    <3>2. CASE i = Len(zqWire) + 1
      <4>1. zqWire'[i] = m /\ zqDropped'[t] = 0
            BY <1>4, <2>2, <3>2 DEF FeedInv, FeedTypes
      <4>2. Reach(zqNode[t], zqStarts, zqNode'[t], zqStarts, 0)
            BY <1>1 DEF Reach, FeedInv, FeedTypes
      <4> QED BY <4>1, <4>2
    <3>3. i \in 1 .. Len(zqWire) \/ i = Len(zqWire) + 1
          BY <2>15
    <3> QED BY <3>1, <3>2, <3>3
  <2>11. LastToNode(p)'
    <3> SUFFICES ASSUME NEW u \in ZmqTopic,
                        \A k \in 1 .. Len(zqWire') : zqWire'[k].topic # u
                 PROVE  Reach(p[u], zqRefused[u].start, zqNode'[u], zqStarts, zqDropped'[u])
        BY <1>2 DEF LastToNode
    <3>1. u # t /\ \A k \in 1 .. Len(zqWire) : zqWire[k].topic # u
          BY <2>2
    <3>2. zqNode'[u] = zqNode[u] /\ zqDropped'[u] = zqDropped[u]
          BY <1>1, <1>4, <3>1 DEF FeedInv, FeedTypes
    <3> QED BY <2>4, <3>1, <3>2 DEF HeardSince, Chained, LastToNode
  <2>12. HeardSince(p)'
        BY <2>5, <2>8, <2>9, <2>10, <2>11 DEF HeardSince, Chained
  <2> QED BY <1>2, <1>4, <2>3, <2>12 DEF FeedInv
<1>5. ASSUME Up, zqWire' = zqWire,
             zqDropped' = [zqDropped EXCEPT ![t] = IF @ < ResetThreshold THEN @ + 1 ELSE @]
      PROVE  FeedInv'
  <2>9. /\ zqDropped[t] \in Nat /\ zqDropped[t] <= ResetThreshold
        /\ zqDropped' \in [ZmqTopic -> Nat] /\ zqDropped'[t] <= ResetThreshold
        /\ zqDropped'[t] < ResetThreshold => zqDropped'[t] = zqDropped[t] + 1
        /\ \A u \in ZmqTopic \ {t} : zqDropped'[u] = zqDropped[u]
        BY <1>5, FeedNumbers DEF FeedInv, FeedTypes
  <2>1. FeedTypes'
        BY <1>1, <1>2, <1>5, <2>9 DEF FeedInv, FeedTypes
  <2>2. PICK p : HeardSince(p)
        BY <1>5 DEF FeedInv
  <2>3. \A u \in ZmqTopic : PrevOK(u, p[u])'
        BY <1>2, <2>2 DEF HeardSince, PrevOK
  <2>4. /\ \A u \in ZmqTopic : /\ zqRefused[u].start \in Nat
                               /\ zqRefused[u].start <= zqStarts
                               /\ p[u] \in Number \cup {Unheard}
        /\ \A i \in 1 .. Len(zqWire) : /\ zqWire[i].start \in Nat
                                       /\ zqWire[i].start <= zqStarts
                                       /\ zqWire[i].seq \in Number
                                       /\ zqWire[i].topic \in ZmqTopic
        BY FeedFacts, <2>2 DEF FeedInv, HeardSince, PrevOK
  <2>5. ASSUME NEW u \in ZmqTopic, NEW a \in Number \cup {Unheard}, NEW s \in Nat,
               s <= zqStarts, Reach(a, s, zqNode[u], zqStarts, zqDropped[u])
        PROVE  Reach(a, s, zqNode'[u], zqStarts, zqDropped'[u])
    <3>1. CASE u # t
      <4>1. zqNode'[u] = zqNode[u] /\ zqDropped'[u] = zqDropped[u]
            BY <1>1, <2>9, <3>1
      <4> QED BY <2>5, <4>1
    <3>2. CASE u = t
      <4> SUFFICES ASSUME zqDropped'[t] < ResetThreshold
                   PROVE  Reach(a, s, zqNode'[u], zqStarts, zqDropped'[u])
          BY <3>2 DEF Reach
      <4>1. zqDropped'[t] = zqDropped[t] + 1 /\ zqDropped[t] \in Nat
            BY <2>9
      <4>2. zqNode[t] \in Number /\ zqNode'[t] \in Number
            BY <1>1
      <4>3. zqDropped[t] + 1 < ResetThreshold /\ zqDropped[t] < ResetThreshold
            BY <4>1, FeedNumbers
      <4>4. ASSUME a # Unheard, zqStarts = s
            PROVE  Ahead(a, 1 + (zqDropped[t] + 1), zqNode'[t])
        <5>1. Ahead(a, 1 + zqDropped[t], zqNode[t]) /\ a \in Number
              BY <2>5, <3>2, <4>3, <4>4 DEF Reach
        <5> QED BY <5>1, <1>1, <4>1, <4>2, <4>3, FeedNumbers DEF Ahead, Number
      <4>5. ASSUME a # Unheard, zqStarts > s
            PROVE  zqNode'[t] <= zqDropped[t] + 1
        <5>1. zqNode[t] <= zqDropped[t]
              BY <2>5, <3>2, <4>3, <4>5 DEF Reach
        <5> QED BY <5>1, <1>1, <4>1, <4>2, <4>3, FeedNumbers DEF Ahead, Number
      <4> QED BY <3>2, <4>1, <4>4, <4>5 DEF Reach
    <3> QED BY <3>1, <3>2
  <2>6. OnWire' /\ FromLast(p)'
    <3>1. /\ zqWire' = zqWire /\ zqRefused' = zqRefused
          /\ OnWire /\ FromLast(p)
          BY <1>2, <1>5, <2>2 DEF HeardSince, Chained
    <3> QED BY <3>1 DEF OnWire, FromLast
  <2>7. ToNode' /\ LastToNode(p)'
        BY <1>2, <1>5, <2>2, <2>4, <2>5 DEF HeardSince, Chained, ToNode, LastToNode
  <2>8. HeardSince(p)'
        BY <2>3, <2>6, <2>7 DEF HeardSince, Chained
  <2> QED BY <1>2, <1>5, <2>1, <2>8 DEF FeedInv
<1> QED BY <1>3, <1>4, <1>5 DEF Publish

\* A message right after the last that was forwarded, of the same start, is taken:
\* the numbers may have wrapped around in between.
LEMMA NextIsValid ==
  ASSUME NEW a \in Number, NEW b \in Number, NEW g \in 1 .. ResetThreshold, Ahead(a, g, b)
  PROVE  IsSequenceValid(b, a)
<1>1. CASE b = a + g
      BY <1>1, FeedNumbers DEF IsSequenceValid, Number
<1>2. CASE b = a + g - (SeqMax + 1)
      BY <1>2, FeedNumbers DEF IsSequenceValid, Number
<1> QED BY <1>1, <1>2 DEF Ahead

\* The reader takes the first message of the wire, and forwards or refuses it.
LEMMA HandleKeeps == ASSUME FeedInv, HandleMessage PROVE FeedInv'
<1> DEFINE m == Head(zqWire)
           t == m.topic
           r == zqRefused[t]
           n == Len(zqWire)
<1>1. /\ UNCHANGED <<zqNode, zqStarts, zqSocket, zqDropped>> /\ Up /\ Up'
      /\ zqWire # <<>> /\ zqWire' = Tail(zqWire)
      BY DEF HandleMessage, Up
<1>2. /\ n \in Nat \ {0} /\ m = zqWire[1] /\ m \in ZqMessage
      /\ zqWire' \in Seq(ZqMessage) /\ Len(zqWire') = n - 1
      /\ \A i \in 1 .. n - 1 : zqWire'[i] = zqWire[i + 1]
  <2>1. zqWire \in Seq(ZqMessage)
        BY DEF FeedInv, FeedTypes
  <2> QED BY <1>1, <2>1
<1>3. /\ t \in ZmqTopic /\ m.seq \in Number /\ m.start \in Nat
      /\ m.start >= zqSocket /\ m.start <= zqStarts
      BY <1>2, FeedFacts DEF FeedInv
<1>4. PICK p : HeardSince(p)
      BY <1>1 DEF FeedInv
<1>5. Follows(p[t], r.start, m)
      BY <1>2, <1>4 DEF HeardSince, Chained, FromLast
<1>6. /\ PrevOK(t, p[t]) /\ r.count \in Nat /\ r.start \in Nat
      /\ r.lost \in BOOLEAN /\ m.lost \in BOOLEAN
      /\ zqLast[t] \in Number \cup {Unheard} /\ zqSocket \in Nat /\ r.start >= zqSocket
      BY <1>2, <1>3, <1>4, FeedFacts DEF HeardSince, FeedInv, FeedTypes, Refusals, ZqMessage
<1>q. PICK q : q = [u \in ZmqTopic |-> IF u = t THEN m.seq ELSE p[u]]
      OBVIOUS
<1>15. q[t] = m.seq /\ \A u \in ZmqTopic \ {t} : q[u] = p[u]
      BY <1>3, <1>q
<1>7. /\ zqLast' \in [ZmqTopic -> Number \cup {Unheard}]
      /\ zqRefused' \in [ZmqTopic -> Refusals]
      /\ zqRefused'[t].start = m.start
      /\ \A u \in ZmqTopic \ {t} : zqLast'[u] = zqLast[u] /\ zqRefused'[u] = zqRefused[u]
      /\ \/ /\ IsSequenceValid(m.seq, zqLast[t])
            /\ zqLast'[t] = m.seq /\ zqRefused'[t].count = 0
         \/ /\ ~IsSequenceValid(m.seq, zqLast[t])
            /\ zqLast'[t] = zqLast[t]
            /\ zqRefused'[t] = OneRefused(m, r)
  <2> HIDE DEF m
  <2>1. /\ zqLast \in [ZmqTopic -> Number \cup {Unheard}]
        /\ zqRefused \in [ZmqTopic -> Refusals]
        BY DEF FeedInv, FeedTypes
  <2>2. CASE /\ IsSequenceValid(m.seq, zqLast[t])
             /\ zqLast' = [zqLast EXCEPT ![t] = m.seq]
             /\ zqRefused' = [zqRefused EXCEPT ![t] = NoneRefused(m.start)]
        BY <1>3, <2>1, <2>2 DEF NoneRefused, Refusals
  <2>3. CASE /\ ~IsSequenceValid(m.seq, zqLast[t])
             /\ zqRefused' = [zqRefused EXCEPT ![t] = OneRefused(m, r)]
             /\ zqLast' = zqLast
    <3>1. OneRefused(m, r) \in Refusals /\ OneRefused(m, r).start = m.start
          BY <1>3, <1>6 DEF OneRefused, Refusals
    <3> QED BY <1>3, <2>1, <2>3, <3>1
  <2> QED BY <2>2, <2>3 DEF HandleMessage, m
<1> HIDE DEF m, n
<1>8. FeedTypes'
  <2>1. \A i \in 1 .. Len(zqWire') : zqWire'[i].start \in zqSocket' .. zqStarts'
        BY <1>1, <1>2 DEF FeedInv, FeedTypes, n
  <2>2. \A u \in ZmqTopic : zqRefused'[u].start \in zqSocket' .. zqStarts'
    <3>1. zqRefused'[t].start \in zqSocket .. zqStarts
          BY <1>3, <1>6, <1>7 DEF FeedInv, FeedTypes
    <3>2. \A u \in ZmqTopic : zqRefused[u].start \in zqSocket .. zqStarts
          BY DEF FeedInv, FeedTypes
    <3> QED BY <1>1, <1>7, <3>1, <3>2
  <2> QED BY <1>1, <1>2, <1>7, <2>1, <2>2 DEF FeedInv, FeedTypes
<1>9. ASSUME NEW u \in ZmqTopic PROVE PrevOK(u, q[u])'
  <2>1. CASE u # t
        BY <1>1, <1>4, <1>7, <1>15, <2>1 DEF HeardSince, PrevOK
  <2>2. CASE u = t /\ IsSequenceValid(m.seq, zqLast[t])
        BY <1>3, <1>7, <1>15, <2>2 DEF PrevOK, Number, Unheard
  <2>3. CASE u = t /\ ~IsSequenceValid(m.seq, zqLast[t]) /\ ~OneRefused(m, r).lost
    <3>0. /\ ~m.lost /\ (m.start = r.start => ~r.lost)
          /\ zqRefused'[t].count = 1 + IF m.start = r.start THEN r.count ELSE 0
          BY <1>6, <1>7, <2>3 DEF OneRefused
    <3>1. zqLast[t] \in Number
          BY <1>6, <2>3 DEF IsSequenceValid
    <3>2. m.seq <= zqLast[t] /\ (zqLast[t] > ResetThreshold => m.seq >= ResetThreshold)
          BY <1>3, <2>3, <3>1, FeedNumbers DEF IsSequenceValid, Number
    <3>3. p[t] \in Number
      <4>1. zqLast[t] # Unheard
            BY <3>1 DEF Number, Unheard
      <4> QED BY <1>6, <4>1 DEF PrevOK
    <3>4. p[t] # Unheard
          BY <3>3 DEF Number, Unheard
    <3>5. /\ m.start >= r.start
          /\ m.start = r.start => \E g \in 1 .. ResetThreshold : Ahead(p[t], g, m.seq)
          /\ m.start > r.start => m.seq < ResetThreshold
          BY <1>5, <3>0, <3>4 DEF Follows
    <3>6. /\ zqRefused'[t].count = 1 + IF m.start = r.start THEN r.count ELSE 0
          /\ zqLast'[t] = zqLast[t] /\ zqRefused'[t].start = m.start
          BY <1>7, <2>3, <3>0
    <3>7. /\ zqLast[t] <= ResetThreshold /\ zqRefused'[t].count <= m.seq + 1
          /\ m.start > zqSocket /\ zqRefused'[t].count > 0
      <4>1. CASE m.start > r.start
            BY <1>3, <1>6, <3>1, <3>2, <3>5, <3>6, <4>1, FeedNumbers DEF Number
      <4>2. CASE m.start = r.start
        <5>1. PICK g \in 1 .. ResetThreshold : Ahead(p[t], g, m.seq)
              BY <3>5, <4>2
        <5>2. r.count > 0
          <6>1. r.count = 0 => p[t] = zqLast[t]
                BY <1>6, <3>0, <4>2 DEF PrevOK
          <6>2. p[t] # zqLast[t]
                BY <1>3, <2>3, <3>3, <5>1, NextIsValid
          <6> QED BY <1>6, <6>1, <6>2
        <5>3. /\ 0 <= p[t] /\ p[t] <= zqLast[t] /\ zqLast[t] <= ResetThreshold
              /\ r.count <= p[t] + 1 /\ r.start > zqSocket
              BY <1>6, <3>0, <4>2, <5>2 DEF PrevOK
        <5>4. m.seq = p[t] + g
              BY <1>3, <3>1, <3>3, <5>1, <5>3, FeedNumbers DEF Ahead, Number
        <5> QED BY <1>3, <1>6, <3>1, <3>3, <3>6, <4>2, <5>2, <5>3, <5>4, FeedNumbers
                DEF Number
      <4> QED BY <1>3, <1>6, <3>5, <4>1, <4>2
    <3>8. q[t] = m.seq /\ 0 <= m.seq
          BY <1>3, <1>15 DEF Number
    <3> QED BY <1>1, <1>3, <2>3, <3>2, <3>4, <3>6, <3>7, <3>8 DEF PrevOK, Number, Unheard
  <2>4. CASE u = t /\ ~IsSequenceValid(m.seq, zqLast[t]) /\ OneRefused(m, r).lost
        BY <1>3, <1>7, <1>15, <2>4 DEF PrevOK, Number, Unheard
  <2> QED BY <2>1, <2>2, <2>3, <2>4
<1>10. OnWire'
  <2> SUFFICES ASSUME NEW i \in 1 .. Len(zqWire'), NEW j \in i + 1 .. Len(zqWire'),
                      zqWire'[i].topic = zqWire'[j].topic,
                      \A k \in i + 1 .. j - 1 : zqWire'[k].topic # zqWire'[j].topic
               PROVE  Follows(zqWire'[i].seq, zqWire'[i].start, zqWire'[j])
      BY DEF OnWire
  <2>1. /\ i + 1 \in 1 .. n /\ j + 1 \in (i + 1) + 1 .. n
        /\ zqWire'[i] = zqWire[i + 1] /\ zqWire'[j] = zqWire[j + 1]
        BY <1>2 DEF n
  <2>2. ASSUME NEW k \in (i + 1) + 1 .. (j + 1) - 1
        PROVE  zqWire[k].topic # zqWire[j + 1].topic
    <3>1. k - 1 \in i + 1 .. j - 1 /\ zqWire'[k - 1] = zqWire[k]
          BY <1>2 DEF n
    <3> QED BY <2>1, <3>1
  <2> QED BY <1>4, <2>1, <2>2 DEF HeardSince, Chained, OnWire, n
<1>11. FromLast(q)'
  <2> SUFFICES ASSUME NEW j \in 1 .. Len(zqWire'),
                      \A k \in 1 .. j - 1 : zqWire'[k].topic # zqWire'[j].topic
               PROVE  Follows(q[zqWire'[j].topic], zqRefused'[zqWire'[j].topic].start,
                              zqWire'[j])
      BY DEF FromLast
  <2>1. /\ j + 1 \in 1 + 1 .. n /\ zqWire'[j] = zqWire[j + 1] /\ j + 1 \in 1 .. n
        /\ zqWire[j + 1].topic \in ZmqTopic
    <3>1. j + 1 \in 1 + 1 .. n /\ zqWire'[j] = zqWire[j + 1] /\ j + 1 \in 1 .. n
          BY <1>2 DEF n
    <3>2. FeedTypes
          BY DEF FeedInv
    <3> QED BY <3>1, <3>2, FeedFacts DEF n
  <2>2. ASSUME NEW k \in 1 + 1 .. (j + 1) - 1
        PROVE  zqWire[k].topic # zqWire[j + 1].topic
    <3>1. k - 1 \in 1 .. j - 1 /\ zqWire'[k - 1] = zqWire[k]
          BY <1>2 DEF n
    <3> QED BY <2>1, <3>1
  <2>3. CASE zqWire[j + 1].topic = t
    <3>1. Follows(zqWire[1].seq, zqWire[1].start, zqWire[j + 1])
      <4>1. OnWire /\ 1 \in 1 .. n /\ zqWire[1].topic = zqWire[j + 1].topic
            BY <1>2, <1>4, <2>3 DEF HeardSince, Chained, n
      <4> QED BY <2>1, <2>2, <4>1 DEF OnWire, n
    <3> QED BY <1>2, <1>7, <1>15, <2>1, <2>3, <3>1
  <2>4. CASE zqWire[j + 1].topic # t
    <3>1. \A k \in 1 .. (j + 1) - 1 : zqWire[k].topic # zqWire[j + 1].topic
          BY <1>2, <2>1, <2>2, <2>4
    <3>2. Follows(p[zqWire[j + 1].topic], zqRefused[zqWire[j + 1].topic].start,
                  zqWire[j + 1])
          BY <1>4, <2>1, <3>1 DEF HeardSince, Chained, FromLast, n
    <3> QED BY <1>7, <1>15, <2>1, <2>4, <3>2
  <2> QED BY <2>3, <2>4
<1>12. ToNode'
  <2> SUFFICES ASSUME NEW i \in 1 .. Len(zqWire'),
                      \A k \in i + 1 .. Len(zqWire') : zqWire'[k].topic # zqWire'[i].topic
               PROVE  Reach(zqWire'[i].seq, zqWire'[i].start, zqNode[zqWire'[i].topic],
                            zqStarts, zqDropped[zqWire'[i].topic])
      BY <1>1 DEF ToNode
  <2>1. i + 1 \in 1 .. n /\ zqWire'[i] = zqWire[i + 1]
        BY <1>2 DEF n
  <2>2. ASSUME NEW k \in (i + 1) + 1 .. n
        PROVE  zqWire[k].topic # zqWire[i + 1].topic
    <3>1. k - 1 \in i + 1 .. Len(zqWire') /\ zqWire'[k - 1] = zqWire[k]
          BY <1>2 DEF n
    <3> QED BY <2>1, <3>1
  <2> QED BY <1>4, <2>1, <2>2 DEF HeardSince, Chained, ToNode, n
<1>13. LastToNode(q)'
  <2> SUFFICES ASSUME NEW u \in ZmqTopic,
                      \A k \in 1 .. Len(zqWire') : zqWire'[k].topic # u
               PROVE  Reach(q[u], zqRefused'[u].start, zqNode[u], zqStarts, zqDropped[u])
      BY <1>1 DEF LastToNode
  <2>1. ASSUME NEW k \in 1 + 1 .. n PROVE zqWire[k].topic # u
    <3>1. k - 1 \in 1 .. Len(zqWire') /\ zqWire'[k - 1] = zqWire[k]
          BY <1>2 DEF n
    <3> QED BY <3>1
  <2>2. CASE u = t
    <3>1. Reach(zqWire[1].seq, zqWire[1].start, zqNode[t], zqStarts, zqDropped[t])
          BY <1>2, <1>4, <2>1, <2>2 DEF HeardSince, Chained, ToNode, n
    <3> QED BY <1>2, <1>7, <1>15, <2>2, <3>1
  <2>3. CASE u # t
    <3>1. \A k \in 1 .. n : zqWire[k].topic # u
          BY <1>2, <2>1, <2>3
    <3>2. Reach(p[u], zqRefused[u].start, zqNode[u], zqStarts, zqDropped[u])
          BY <1>4, <3>1 DEF HeardSince, Chained, LastToNode, n
    <3> QED BY <1>7, <1>15, <2>3, <3>2
  <2> QED BY <2>2, <2>3
<1>14. HeardSince(q)'
       BY <1>9, <1>10, <1>11, <1>12, <1>13 DEF HeardSince, Chained
<1> QED BY <1>1, <1>8, <1>14 DEF FeedInv

\* Every step keeps the invariant.
LEMMA FeedInvStep == FeedInv /\ [ZmqNext]_zmqVars => FeedInv'
<1> SUFFICES ASSUME FeedInv, [ZmqNext]_zmqVars PROVE FeedInv'
    OBVIOUS
<1>1. CASE UNCHANGED zmqVars
  <2>1. FeedTypes'
        BY <1>1 DEF zmqVars, FeedInv, FeedTypes
  <2>2. ASSUME NEW p, HeardSince(p) PROVE HeardSince(p)'
        BY <1>1, <2>2 DEF zmqVars, HeardSince, PrevOK, Chained, OnWire, FromLast, ToNode,
                          LastToNode
  <2> QED BY <1>1, <2>1, <2>2 DEF zmqVars, FeedInv, Up
<1> QED BY <1>1, ConnectKeeps, DisconnectKeeps, NodeRestartsKeeps, PublishKeeps,
           HandleKeeps DEF ZmqNext

\* For any topics, sequence numbers, drops and starts of the node: but for what follows a gap
\* of ResetThreshold numbers or more, no message of the start the listener connected to is
\* refused, and of a later start no more than the threshold lets through (zmq_events.rs:
\* is_new, is_sequence_valid).
THEOREM NodeIsHeardHolds == ZmqSpec => []NodeIsHeard
<1> QED BY FeedInitInv, FeedInvStep, FeedHeard, PTL DEF ZmqSpec
-----------------------------------------------------------------------------
(* What the Bitcoin crate builds is accepted (BitcoinHtlc). Outputs are     *)
(* counted by what a set of them is worth, so that the three listings of an *)
(* instant refund, each in an order of its own, can be compared; sums over  *)
(* places and over sets are related by SumLemmas. A transaction is Sound    *)
(* when the node could refuse it for nothing but a missing or young input.  *)

\* The chain: what an output is worth never changes.
OutputsOK ==
  bhOut \in [HtlcOutput -> [at : {"absent", "unspent", "spent"}, value : Nat, age : Nat]]

\* A step that changes no value
ValuesKept == \A u \in HtlcOutput : ValueAt(u)' = ValueAt(u)

\* What a set of outputs is worth
SetWorth(S) == SumFunctionOnSet([u \in HtlcOutput |-> ValueAt(u)], S)

\* Outputs in the order everyone puts them in
InOrder(S) == CHOOSE s \in SetToSeqs(S) : \A i, j \in DOMAIN s : i < j => s[i] < s[j]

\* What both parties sign for an instant refund of a set of outputs
HashesFor(S, fee) ==
  LET tx == BuildTx(InOrder(S), fee) IN [i \in DOMAIN tx.ins |-> SigHash(tx, i, "single")]

\* A listing has every output of its set once.
LEMMA ListingFacts ==
  ASSUME NEW S \in SUBSET HtlcOutput, NEW s \in SetToSeqs(S)
  PROVE  /\ IsFiniteSet(S) /\ Cardinality(S) \in Nat
         /\ s \in [1 .. Cardinality(S) -> S] /\ DOMAIN s = 1 .. Cardinality(S)
         /\ Len(s) = Cardinality(S)
         /\ \A i, j \in 1 .. Cardinality(S) : s[i] = s[j] => i = j
         /\ Range(s) = S /\ {s[i] : i \in 1 .. Cardinality(S)} = S
<1>1. IsFiniteSet(S) /\ Cardinality(S) \in Nat
      BY HtlcAssumption, FS_Subset, FS_CardinalityType
<1> DEFINE n == Cardinality(S)
<1>2. s \in [1 .. n -> S] /\ \A i, j \in 1 .. n : i # j => s[i] # s[j]
      BY Zenon DEF SetToSeqs
<1>3. s \in Injection(1 .. n, S)
      BY <1>2 DEF Injection, IsInjective
<1>4. IsFiniteSet(1 .. n) /\ Cardinality(1 .. n) = n
      BY <1>1, FS_Interval
<1>5. s \in Surjection(1 .. n, S)
      BY <1>1, <1>3, <1>4, FS_Injection
<1>6. Range(s) = S /\ {s[i] : i \in 1 .. n} = S
      BY <1>2, <1>5 DEF Surjection, Range
<1>7. Len(s) = n
      BY <1>1, <1>2
<1> QED BY <1>1, <1>2, <1>6, <1>7

\* The order exists.
LEMMA InOrderIs ==
  ASSUME NEW S \in SUBSET HtlcOutput
  PROVE  InOrder(S) \in SetToSeqs(S)
<1>1. S \in SUBSET Nat /\ IsFiniteSet(S)
      BY HtlcAssumption, FS_Subset
<1>2. PICK s \in [1 .. Cardinality(S) -> S] :
             \A i, j \in 1 .. Cardinality(S) : i < j => s[i] < s[j]
      BY <1>1, SortedExists
<1>3. Cardinality(S) \in Nat
      BY <1>1, FS_CardinalityType
<1>4. \A i, j \in 1 .. Cardinality(S) : i # j => s[i] # s[j]
  <2> SUFFICES ASSUME NEW i \in 1 .. Cardinality(S), NEW j \in 1 .. Cardinality(S), i # j
               PROVE  s[i] # s[j]
      OBVIOUS
  <2>1. i < j \/ j < i
        BY <1>3
  <2>2. s[i] \in Nat /\ s[j] \in Nat
        BY <1>1
  <2>3. s[i] < s[j] \/ s[j] < s[i]
        BY <1>2, <2>1
  <2> QED BY <2>2, <2>3
<1>5. s \in SetToSeqs(S) /\ \A i, j \in DOMAIN s : i < j => s[i] < s[j]
      BY <1>2, <1>4 DEF SetToSeqs
<1> QED BY <1>5, Zenon DEF InOrder

\* A listing is worth what its outputs are.
LEMMA ListingWorth ==
  ASSUME OutputsOK, NEW S \in SUBSET HtlcOutput, NEW s \in SetToSeqs(S)
  PROVE  /\ Worth(s) = SetWorth(S) /\ SetWorth(S) \in Nat
         /\ \A i \in 1 .. Cardinality(S) : ValueAt(s[i]) \in Nat
<1> DEFINE f == [u \in HtlcOutput |-> ValueAt(u)]
           D == 1 .. Cardinality(S)
<1>1. /\ IsFiniteSet(S) /\ Cardinality(S) \in Nat /\ s \in [D -> S] /\ DOMAIN s = D
      /\ \A i, j \in D : s[i] = s[j] => i = j
      /\ {s[i] : i \in D} = S
      BY ListingFacts
<1>2. \A x \in S : f[x] \in Nat
      BY DEF OutputsOK, ValueAt
<1>3. IsFiniteSet(D)
      BY <1>1, FS_Interval
<1>4. [i \in D |-> f[s[i]]] = [i \in D |-> ValueAt(s[i])]
      BY <1>1
<1>5. Worth(s) = SumFunctionOnSet([i \in D |-> f[s[i]]], D)
      BY <1>1, <1>4, Zenon DEF Worth, SumFunction
<1>6. SetWorth(S) = SumFunctionOnSet(f, S)
      BY DEF SetWorth
<1>7. \A i \in D : ValueAt(s[i]) \in Nat
      BY <1>1 DEF OutputsOK, ValueAt
<1> HIDE DEF f, D
<1>8. SumFunctionOnSet([i \in D |-> f[s[i]]], D) = SumFunctionOnSet(f, {s[i] : i \in D})
      BY <1>1, <1>2, <1>3, SumReindexed
<1>9. SumFunctionOnSet(f, S) \in Nat
      BY <1>1, <1>2, SumIsNat
<1> QED BY <1>1, <1>5, <1>6, <1>7, <1>8, <1>9 DEF D

\* Where the largest value is, is one of the places.
LEMMA LargestIn ==
  ASSUME NEW n \in Nat, n > 0, NEW values, DOMAIN values = 1 .. n,
         \A i \in 1 .. n : values[i] \in Nat
  PROVE  LargestIndex(values) \in 1 .. n
<1> DEFINE T == {i \in 1 .. n : \A j \in 1 .. n : values[j] <= values[i]}
           id == [i \in T |-> i]
<1>a. 1 \in Int /\ n \in Int /\ 1 \in 1 .. n
      OBVIOUS
<1>1. IsFiniteSet(1 .. n) /\ 1 .. n # {}
      BY <1>a, FS_Interval
<1>2. T # {}
  <2>1. \E x \in 1 .. n : \A y \in 1 .. n : values[y] <= values[x]
        BY <1>1, GreatestAt
  <2> QED BY <2>1
<1>3. IsFiniteSet(T)
      BY <1>1, FS_Subset
<1>4. \A x \in T : id[x] \in Nat
      OBVIOUS
<1>5. \E x \in T : \A y \in T : id[y] <= id[x]
  <2> HIDE DEF id, T
  <2> QED BY <1>2, <1>3, <1>4, GreatestAt
<1>6. \E x \in T : \A y \in T : x >= y
  <2>1. PICK x \in T : \A y \in T : id[y] <= id[x]
        BY <1>5
  <2>2. \A y \in T : x >= y
    <3> SUFFICES ASSUME NEW y \in T PROVE x >= y
        OBVIOUS
    <3>1. id[y] = y /\ id[x] = x /\ x \in Nat /\ y \in Nat
          OBVIOUS
    <3>2. id[y] <= id[x]
          BY <2>1
    <3> QED BY <3>1, <3>2
  <2> QED BY <2>2
<1>7. Max(T) \in T
      BY <1>6, Zenon DEF Max
<1>8. LargestIndex(values) = Max(T)
      BY DEF LargestIndex
<1> QED BY <1>7, <1>8

\* One output beside each input: their values, and who pays the fee.
LEMMA SingleOutputs ==
  ASSUME OutputsOK, NEW S \in SUBSET HtlcOutput, NEW s \in SetToSeqs(S), NEW fee \in Nat,
         CanCreateOutputs(OutputValuesFor(s, "single"), fee), NEW to
  PROVE  LET outs == CreateOutputs(OutputValuesFor(s, "single"), to, fee)
         IN  /\ DOMAIN outs = 1 .. Cardinality(S) /\ Cardinality(S) > 0
             /\ \A i \in DOMAIN outs : outs[i].value \in Nat /\ outs[i].value >= HtlcDust
             /\ TotalOut(outs) + fee = SetWorth(S)
<1> DEFINE n == Cardinality(S)
           values == [i \in 1 .. n |-> ValueAt(s[i])]
           outs == CreateOutputs(OutputValuesFor(s, "single"), to, fee)
           e == [i \in 1 .. n |-> outs[i].value]
           l == LargestIndex(values)
<1>1. n \in Nat /\ DOMAIN s = 1 .. n
      BY ListingFacts
<1>2. OutputValuesFor(s, "single") = values
      BY <1>1 DEF OutputValuesFor
<1>3. \A i \in 1 .. n : values[i] \in Nat
      BY ListingWorth
<1>4. n > 0
  <2>1. SUFFICES ASSUME n = 0 PROVE FALSE
        BY <1>1
  <2>2. 1 .. n = {}
        BY <2>1
  <2>3. values = <<>>
        BY <2>2
  <2> QED BY <1>2, <2>3 DEF CanCreateOutputs
<1>5. l \in 1 .. n
  <2>1. DOMAIN values = 1 .. n
        OBVIOUS
  <2> HIDE DEF values
  <2> QED BY <1>1, <1>3, <1>4, <2>1, LargestIn
<1>6. DOMAIN outs = 1 .. n
      BY <1>2 DEF CreateOutputs
<1>7. HtlcDust \in Nat
      BY HtlcAssumption
<1>8. \A i \in 1 .. n : /\ outs[i].value = IF i = l THEN values[i] - fee ELSE values[i]
                        /\ outs[i].value >= HtlcDust
  <2>1. \A i \in 1 .. n : outs[i].value = OutputValuesLess(values, fee)[i]
        BY <1>2 DEF CreateOutputs
  <2>2. \A i \in 1 .. n : OutputValuesLess(values, fee)[i] >= HtlcDust
        BY <1>2 DEF CanCreateOutputs
  <2>3. \A i \in 1 .. n : OutputValuesLess(values, fee)[i]
                            = IF i = l THEN values[i] - fee ELSE values[i]
        BY DEF OutputValuesLess
  <2> QED BY <2>1, <2>2, <2>3
<1>9. \A i \in 1 .. n : outs[i].value \in Nat
  <2> SUFFICES ASSUME NEW i \in 1 .. n PROVE outs[i].value \in Nat
      OBVIOUS
  <2>1. values[i] \in Nat
        BY <1>3
  <2> HIDE DEF outs, values
  <2>2. outs[i].value \in Int /\ outs[i].value >= HtlcDust
        BY <1>8, <2>1
  <2> QED BY <1>7, <2>2
<1> DEFINE h == [i \in 1 .. n |-> IF i = l THEN fee ELSE 0]
<1>10. \A i \in 1 .. n : e[i] \in Nat /\ h[i] \in Nat /\ values[i] = e[i] + h[i]
  <2> SUFFICES ASSUME NEW i \in 1 .. n
               PROVE  e[i] \in Nat /\ h[i] \in Nat /\ values[i] = e[i] + h[i]
      OBVIOUS
  <2>1. e[i] = outs[i].value /\ values[i] \in Nat /\ h[i] = IF i = l THEN fee ELSE 0
        BY <1>3
  <2> HIDE DEF outs, values, e, h
  <2> QED BY <1>8, <1>9, <2>1
<1>11. IsFiniteSet(1 .. n) /\ Cardinality(1 .. n) = n
       BY <1>1, FS_Interval
<1>12. SumFunctionOnSet(values, 1 .. n) = SumFunctionOnSet(e, 1 .. n) + fee
  <2>1. h[l] = fee /\ \A i \in (1 .. n) \ {l} : h[i] = 0
        BY <1>5
  <2> HIDE DEF values, e, l, h
  <2>2. SumFunctionOnSet(values, 1 .. n)
          = SumFunctionOnSet(e, 1 .. n) + SumFunctionOnSet(h, 1 .. n)
    <3> DEFINE D == 1 .. n
    <3>1. IsFiniteSet(D) /\ \A i \in D : e[i] \in Nat /\ h[i] \in Nat /\ values[i] = e[i] + h[i]
          BY <1>10, <1>11
    <3> HIDE DEF D
    <3>2. SumFunctionOnSet(values, D) = SumFunctionOnSet(e, D) + SumFunctionOnSet(h, D)
          BY <3>1, SumAdds
    <3> QED BY <3>2 DEF D
  <2>3. SumFunctionOnSet(h, 1 .. n) = fee
        BY <1>5, <1>11, <2>1, SumOfOne
  <2> QED BY <2>2, <2>3
<1>13. Worth(s) = SumFunctionOnSet(values, 1 .. n)
       BY <1>1 DEF Worth, SumFunction
<1>14. TotalOut(outs) = SumFunctionOnSet(e, 1 .. n)
  <2>1. [i \in DOMAIN outs |-> outs[i].value] = e
        BY <1>6
  <2> HIDE DEF outs
  <2>2. DOMAIN e = 1 .. n
        OBVIOUS
  <2> HIDE DEF e
  <2> QED BY <2>1, <2>2, Zenon DEF TotalOut, SumFunction
<1>15. SumFunctionOnSet(e, 1 .. n) \in Nat
  <2>1. \A i \in 1 .. n : e[i] \in Nat
        BY <1>10
  <2> HIDE DEF e
  <2> QED BY <1>11, <2>1, SumIsNat
<1>16. Worth(s) = SetWorth(S)
       BY ListingWorth
<1>17. SetWorth(S) = TotalOut(outs) + fee
  <2> HIDE DEF values, e, l, outs
  <2> QED BY <1>1, <1>5, <1>11, <1>12, <1>13, <1>14, <1>15, <1>16
<1> HIDE DEF outs
<1> QED BY <1>4, <1>6, <1>8, <1>9, <1>17 DEF outs

\* Nobody changes what an output is worth.
LEMMA ChainStep ==
  ASSUME OutputsOK, [HtlcNext]_htlcVars
  PROVE  OutputsOK' /\ ValuesKept
<1> USE DEF OutputsOK, ValuesKept, ValueAt
<1>1. CASE bhOut' = bhOut
      BY <1>1
<1>2. ASSUME NEW txid, NEW from, NEW to \in {"absent", "unspent"}, Appear(txid, from, to)
      PROVE  OutputsOK' /\ ValuesKept
      BY <1>2 DEF Appear
<1>3. CASE ChainMoves
  <2>1. CASE DepositTx
        BY <1>2, <2>1 DEF DepositTx
  <2>2. CASE EvictDeposit
        BY <1>2, <2>2 DEF EvictDeposit
  <2>3. CASE SpendElsewhere
        BY <2>3 DEF SpendElsewhere
  <2>4. CASE NewBlock
        BY <2>4 DEF NewBlock
  <2> QED BY <1>3, <2>1, <2>2, <2>3, <2>4 DEF ChainMoves
<1>4. CASE SubmitTx
      BY <1>4 DEF SubmitTx
<1> QED BY <1>1, <1>3, <1>4
        DEF htlcVars, HtlcNext, StartBatch, ValidateRequest, BuildBatch, ListRefund, BuildRefund,
            SignInstantRefund, BuildInstantRefundSacp, ValidateSacp

\* What depends on values only stays as it is.
LEMMA WorthKept ==
  ASSUME ValuesKept
  PROVE  /\ \A S \in SUBSET HtlcOutput : SetWorth(S)' = SetWorth(S)
         /\ \A tx : (\A i \in DOMAIN tx.ins : tx.ins[i].utxo \in HtlcOutput) =>
              /\ Worth(Spent(tx))' = Worth(Spent(tx))
              /\ \A i \in DOMAIN tx.ins : ValueAt(tx.ins[i].utxo)' = ValueAt(tx.ins[i].utxo)
<1>1. [u \in HtlcOutput |-> ValueAt(u)]' = [u \in HtlcOutput |-> ValueAt(u)]
      BY DEF ValuesKept
<1>2. ASSUME NEW S \in SUBSET HtlcOutput PROVE SetWorth(S)' = SetWorth(S)
      BY <1>1 DEF SetWorth
<1>3. ASSUME NEW tx, \A i \in DOMAIN tx.ins : tx.ins[i].utxo \in HtlcOutput
      PROVE  /\ Worth(Spent(tx))' = Worth(Spent(tx))
             /\ \A i \in DOMAIN tx.ins : ValueAt(tx.ins[i].utxo)' = ValueAt(tx.ins[i].utxo)
  <2>1. \A i \in DOMAIN tx.ins : ValueAt(tx.ins[i].utxo)' = ValueAt(tx.ins[i].utxo)
        BY <1>3 DEF ValuesKept
  <2>2. DOMAIN Spent(tx) = DOMAIN tx.ins /\ \A i \in DOMAIN tx.ins : Spent(tx)[i] = tx.ins[i].utxo
        BY DEF Spent
  <2>3. [i \in DOMAIN Spent(tx) |-> ValueAt(Spent(tx)[i])]'
          = [i \in DOMAIN Spent(tx) |-> ValueAt(Spent(tx)[i])]
        BY <2>1, <2>2
  <2>4. Worth(Spent(tx))' = Worth(Spent(tx))
        BY <2>3 DEF Worth
  <2> QED BY <2>1, <2>4
<1> QED BY <1>2, <1>3

\* What the builder makes of a set of outputs
BuildableFrom(S, fee) == CanBuildTx(InOrder(S), fee)
OutsFor(S, fee) == BuildTx(InOrder(S), fee).outs

\* It makes the same of them later on.
LEMMA BuildKept ==
  ASSUME ValuesKept, NEW S \in SUBSET HtlcOutput, NEW fee
  PROVE  /\ BuildableFrom(S, fee)' = BuildableFrom(S, fee)
         /\ OutsFor(S, fee)' = OutsFor(S, fee)
         /\ HashesFor(S, fee)' = HashesFor(S, fee)
<1> DEFINE s == InOrder(S)
<1>1. s \in SetToSeqs(S)
      BY InOrderIs
<1>2. s \in [1 .. Cardinality(S) -> S] /\ DOMAIN s = 1 .. Cardinality(S)
      BY <1>1, ListingFacts
<1>3. \A i \in DOMAIN s : s[i] \in HtlcOutput
      BY <1>2
<1>4. OutputValuesFor(s, "single")' = OutputValuesFor(s, "single")
      BY <1>3 DEF OutputValuesFor, ValuesKept
<1>5. BuildTx(s, fee)' = BuildTx(s, fee)
  <2> HIDE DEF s
  <2> QED BY <1>4 DEF BuildTx
<1>6. HashesFor(S, fee)' = HashesFor(S, fee)
  <2>1. HashesFor(S, fee) = LET tx == BuildTx(s, fee)
                            IN [i \in DOMAIN tx.ins |-> SigHash(tx, i, "single")]
        BY DEF HashesFor
  <2>2. HashesFor(S, fee)' = LET tx == BuildTx(s, fee)'
                             IN [i \in DOMAIN tx.ins |-> SigHash(tx, i, "single")]
        BY DEF HashesFor
  <2> QED BY <1>5, <2>1, <2>2
<1>7. BuildableFrom(S, fee)' = BuildableFrom(S, fee)
      BY <1>4 DEF BuildableFrom, CanBuildTx
<1>8. OutsFor(S, fee)' = OutsFor(S, fee)
      BY <1>5 DEF OutsFor
<1> QED BY <1>6, <1>7, <1>8

\* What the builder makes, input by input and output by output.
LEMMA BuildFacts ==
  ASSUME OutputsOK, NEW S \in SUBSET HtlcOutput, NEW fee \in Nat, BuildableFrom(S, fee)
  PROVE  LET outs == OutsFor(S, fee)
             n == Cardinality(S)
         IN  /\ n \in Nat /\ InOrder(S) \in [1 .. n -> S]
             /\ DOMAIN outs = 1 .. n
             /\ \A i \in 1 .. n : outs[i].value \in Nat /\ outs[i].value >= HtlcDust
             /\ TotalOut(outs) + fee = SetWorth(S) /\ SetWorth(S) \in Nat
             /\ HashesFor(S, fee) =
                  [i \in 1 .. n |-> [type |-> "single", utxo |-> InOrder(S)[i],
                                     seq |-> MaxSequence, leaf |-> "instant", out |-> outs[i]]]
<1> DEFINE s == InOrder(S)
           n == Cardinality(S)
           outs == CreateOutputs(OutputValuesFor(s, "single"), 1, fee)
<1>1. s \in SetToSeqs(S)
      BY InOrderIs
<1>2. s \in [1 .. n -> S] /\ n \in Nat /\ DOMAIN s = 1 .. n
      BY <1>1, ListingFacts
<1>3. CanCreateOutputs(OutputValuesFor(s, "single"), fee)
      BY DEF BuildableFrom, CanBuildTx
<1>4. /\ DOMAIN outs = 1 .. n
      /\ \A i \in DOMAIN outs : outs[i].value \in Nat /\ outs[i].value >= HtlcDust
      /\ TotalOut(outs) + fee = SetWorth(S)
      BY <1>1, <1>3, SingleOutputs
<1>5. OutsFor(S, fee) = outs
      BY DEF OutsFor, BuildTx
<1>6. SetWorth(S) \in Nat
      BY <1>1, ListingWorth
<1>7. BuildTx(s, fee) = [ins |-> Inputs(s, "instant", MaxSequence), outs |-> outs]
      BY DEF BuildTx
<1> HIDE DEF s, outs
<1>8. HashesFor(S, fee) =
        [i \in 1 .. n |-> [type |-> "single", utxo |-> s[i],
                           seq |-> MaxSequence, leaf |-> "instant", out |-> outs[i]]]
  <2> DEFINE tx == BuildTx(s, fee)
  <2>1. DOMAIN tx.ins = 1 .. n
        BY <1>2, <1>7 DEF Inputs
  <2>2. \A i \in 1 .. n : SigHash(tx, i, "single") =
          [type |-> "single", utxo |-> s[i], seq |-> MaxSequence, leaf |-> "instant",
           out |-> outs[i]]
        BY <1>2, <1>7 DEF Inputs, SigHash
  <2>3. HashesFor(S, fee) = [i \in DOMAIN tx.ins |-> SigHash(tx, i, "single")]
        BY DEF HashesFor, s
  <2> HIDE DEF tx
  <2> QED BY <2>1, <2>2, <2>3
<1> QED BY <1>2, <1>4, <1>5, <1>6, <1>8 DEF s

\* The hashes that two parties signed are those of the outputs they saw then.
SignedInv ==
  /\ bhSigned = [utxos |-> bhSigned.utxos, fee |-> bhSigned.fee, hashes |-> bhSigned.hashes,
                 against |-> bhSigned.against]
  /\ bhPc \in {"signed", "built", "accepted", "refused"} =>
       \E S \in SUBSET HtlcOutput, fee \in Nat :
         /\ bhSigned.utxos = S /\ bhSigned.fee = fee
         /\ BuildableFrom(S, fee) /\ bhSigned.hashes = HashesFor(S, fee)

\* What was built spends the outputs of the builder's listing, in order, and carries
\* the signatures over those hashes.
InstantIns(S) ==
  [i \in 1 .. Cardinality(S) |->
     [utxo |-> InOrder(S)[i], leaf |-> "instant", seq |-> MaxSequence,
      sigs |-> {Signature(by, bhSigned.hashes[i]) : by \in {"initiator", "redeemer"}}]]

BuiltInv ==
  bhPc \in {"built", "accepted", "refused"} =>
    \E S \in SUBSET HtlcOutput, fee \in Nat :
      /\ BuildableFrom(S, fee) /\ Cardinality(S) = Len(bhSigned.hashes)
      /\ bhTx = [ins |-> InstantIns(S), outs |-> OutsFor(S, fee)]

\* What validation looks at, of the outputs listed and whatever their order.
SacpOK(S, initiate) ==
  LET fee == SetWorth(S) - TotalOut(bhTx.outs)
  IN /\ fee >= 0 /\ BuildableFrom(S, fee)
     /\ Len(bhTx.ins) = Len(HashesFor(S, fee))
     /\ \A i \in DOMAIN HashesFor(S, fee) : SignatureValid(bhTx.ins[i], HashesFor(S, fee)[i])
     /\ \E i \in DOMAIN bhTx.ins : TxidOf(bhTx.ins[i].utxo) = initiate

\* It was accepted if it is what the outputs listed at validation ask for.
AgainstInv ==
  bhPc \in {"accepted", "refused"} =>
    \E A \in SUBSET HtlcOutput, txid \in Txid :
      /\ bhSigned.against = [utxos |-> A, txid |-> txid]
      /\ bhPc = "accepted" <=> SacpOK(A, txid)

InstantInv == OutputsOK /\ SignedInv /\ BuiltInv /\ AgainstInv

\* A listing is one of outputs there are.
LEMMA ListingsAre ==
  ASSUME NEW listing \in Listings
  PROVE  /\ Range(listing) \in SUBSET HtlcOutput
         /\ listing \in SetToSeqs(Range(listing))
         /\ SortUtxos(listing) = InOrder(Range(listing))
<1> DEFINE S == {u \in HtlcOutput : HtlcOf(u) = 1 /\ Unspent(u)}
<1>1. S \in SUBSET HtlcOutput /\ listing \in SetToSeqs(S)
      BY DEF Listings
<1>2. Range(listing) = S
  <2> HIDE DEF S
  <2> QED BY <1>1, ListingFacts
<1>3. SortUtxos(listing) = InOrder(Range(listing))
      BY DEF SortUtxos, InOrder
<1> QED BY <1>1, <1>2, <1>3

\* Validation sees the outputs of its listing, not their order.
LEMMA ValidIsOK ==
  ASSUME OutputsOK, NEW listing \in Listings, NEW initiate
  PROVE  ValidSacp(bhTx, initiate, listing) <=> SacpOK(Range(listing), initiate)
<1> DEFINE S == Range(listing)
           fee == SetWorth(S) - TotalOut(bhTx.outs)
<1>1. S \in SUBSET HtlcOutput /\ listing \in SetToSeqs(S) /\ SortUtxos(listing) = InOrder(S)
      BY ListingsAre
<1>2. Worth(listing) = SetWorth(S)
      BY <1>1, ListingWorth
<1>3. InstantRefundHashes(listing, fee) = HashesFor(S, fee)
      BY <1>1 DEF InstantRefundHashes, HashesFor
<1>4. CanBuildTx(SortUtxos(listing), fee) <=> BuildableFrom(S, fee)
      BY <1>1 DEF BuildableFrom
<1> QED BY <1>2, <1>3, <1>4 DEF ValidSacp, SacpOK

\* Signing is the only step that touches what was signed.
LEMMA SignedStep ==
  ASSUME InstantInv, OutputsOK', ValuesKept, [HtlcNext]_htlcVars
  PROVE  SignedInv'
<1>1. CASE SignInstantRefund
  <2>1. PICK listing \in Listings, fee \in InstantFees :
               /\ CanBuildTx(SortUtxos(listing), fee)
               /\ bhSigned' = [utxos |-> Range(listing), fee |-> fee,
                               hashes |-> InstantRefundHashes(listing, fee),
                               against |-> bhSigned.against]
        BY <1>1, Zenon DEF SignInstantRefund
  <2>2. PICK S \in SUBSET HtlcOutput : S = Range(listing) /\ SortUtxos(listing) = InOrder(S)
        BY ListingsAre
  <2>3. BuildableFrom(S, fee) /\ InstantRefundHashes(listing, fee) = HashesFor(S, fee)
        BY <2>1, <2>2 DEF BuildableFrom, InstantRefundHashes, HashesFor
  <2>4. BuildableFrom(S, fee)' /\ HashesFor(S, fee)' = HashesFor(S, fee)
        BY <2>3, BuildKept
  <2>5. fee \in Nat
        BY HtlcAssumption
  <2> QED BY <2>1, <2>2, <2>3, <2>4, <2>5 DEF SignedInv
<1>2. CASE /\ bhPc' \in {"signed", "built", "accepted", "refused"}
              => bhPc \in {"signed", "built", "accepted", "refused"}
           /\ bhSigned' = [utxos |-> bhSigned.utxos, fee |-> bhSigned.fee,
                           hashes |-> bhSigned.hashes, against |-> bhSigned'.against]
  <2>1. SUFFICES ASSUME bhPc' \in {"signed", "built", "accepted", "refused"}
                 PROVE  \E S \in SUBSET HtlcOutput, fee \in Nat :
                          /\ bhSigned'.utxos = S /\ bhSigned'.fee = fee
                          /\ BuildableFrom(S, fee)' /\ bhSigned'.hashes = HashesFor(S, fee)'
        BY <1>2 DEF SignedInv
  <2>2. PICK S \in SUBSET HtlcOutput, fee \in Nat :
               /\ bhSigned.utxos = S /\ bhSigned.fee = fee
               /\ BuildableFrom(S, fee) /\ bhSigned.hashes = HashesFor(S, fee)
        BY <1>2, <2>1 DEF InstantInv, SignedInv
  <2>3. BuildableFrom(S, fee)' /\ HashesFor(S, fee)' = HashesFor(S, fee)
        BY <2>2, BuildKept
  <2> QED BY <1>2, <2>2, <2>3
<1>3. CASE ValidateSacp
  <2>1. PICK a : bhSigned' = [bhSigned EXCEPT !.against = a]
        BY <1>3 DEF ValidateSacp
  <2>2. bhSigned' = [utxos |-> bhSigned.utxos, fee |-> bhSigned.fee,
                     hashes |-> bhSigned.hashes, against |-> bhSigned'.against]
        BY <2>1 DEF InstantInv, SignedInv
  <2> QED BY <1>2, <1>3, <2>2 DEF ValidateSacp
<1>4. CASE BuildInstantRefundSacp
      BY <1>2, <1>4 DEF BuildInstantRefundSacp, InstantInv, SignedInv
<1>5. CASE StartBatch \/ ValidateRequest \/ BuildBatch \/ ListRefund \/ BuildRefund \/ SubmitTx
      BY <1>2, <1>5 DEF StartBatch, ValidateRequest, BuildBatch, ListRefund, BuildRefund,
                        SubmitTx, InstantInv, SignedInv
<1>6. CASE ChainMoves
      BY <1>2, <1>6 DEF ChainMoves, InstantInv, SignedInv
<1>7. CASE UNCHANGED htlcVars
      BY <1>2, <1>7 DEF htlcVars, InstantInv, SignedInv
<1> QED BY <1>1, <1>3, <1>4, <1>5, <1>6, <1>7 DEF HtlcNext

\* Building is the only step that makes an instant refund.
LEMMA BuiltStep ==
  ASSUME InstantInv, OutputsOK', ValuesKept, [HtlcNext]_htlcVars
  PROVE  BuiltInv'
<1>1. CASE BuildInstantRefundSacp
  <2>1. PICK listing \in Listings, fee \in InstantFees :
               /\ Len(listing) = Len(bhSigned.hashes) /\ CanBuildTx(SortUtxos(listing), fee)
               /\ LET tx == BuildTx(SortUtxos(listing), fee)
                  IN bhTx' = [tx EXCEPT !.ins = [i \in DOMAIN tx.ins |-> [tx.ins[i] EXCEPT !.sigs =
                       {Signature(by, bhSigned.hashes[i]) : by \in {"initiator", "redeemer"}}]]]
        BY <1>1, Zenon DEF BuildInstantRefundSacp
  <2>2. PICK S \in SUBSET HtlcOutput : /\ S = Range(listing) /\ SortUtxos(listing) = InOrder(S)
                                       /\ listing \in SetToSeqs(S)
        BY ListingsAre
  <2>3. Cardinality(S) = Len(bhSigned.hashes)
        BY <2>1, <2>2, ListingFacts
  <2>4. BuildableFrom(S, fee)
        BY <2>1, <2>2 DEF BuildableFrom
  <2>5. fee \in Nat
        BY HtlcAssumption
  <2> DEFINE s == InOrder(S)
             n == Cardinality(S)
  <2>6. s \in [1 .. n -> S] /\ DOMAIN s = 1 .. n
        BY InOrderIs, ListingFacts
  <2>7. BuildTx(s, fee) = [ins |-> Inputs(s, "instant", MaxSequence), outs |-> OutsFor(S, fee)]
        BY DEF BuildTx, OutsFor
  <2> DEFINE outs == OutsFor(S, fee)
             signed == [i \in 1 .. n |->
               {Signature(by, bhSigned.hashes[i]) : by \in {"initiator", "redeemer"}}]
  <2>13. bhTx' = LET tx == BuildTx(s, fee)
                 IN [tx EXCEPT !.ins = [i \in DOMAIN tx.ins |->
                       [tx.ins[i] EXCEPT !.sigs = signed[i]]]]
    <3>1. DOMAIN BuildTx(s, fee).ins = 1 .. n
          BY <2>6 DEF Inputs, BuildTx
    <3> QED BY <2>1, <2>2, <3>1
  <2> HIDE DEF s, outs, signed
  <2>14. BuildTx(s, fee) = [ins |-> [i \in 1 .. n |-> [utxo |-> s[i], leaf |-> "instant",
                                       seq |-> MaxSequence, sigs |-> {}]], outs |-> outs]
         BY <2>6, <2>7 DEF Inputs, outs
  <2>16. PICK tx : /\ tx = BuildTx(s, fee)
                   /\ bhTx' = [tx EXCEPT !.ins = [i \in DOMAIN tx.ins |->
                                [tx.ins[i] EXCEPT !.sigs = signed[i]]]]
         BY <2>13
  <2>17. /\ DOMAIN tx.ins = 1 .. n
         /\ \A i \in 1 .. n : tx.ins[i] = [utxo |-> s[i], leaf |-> "instant",
                                          seq |-> MaxSequence, sigs |-> {}]
         BY <2>14, <2>16
  <2>18. \A i \in 1 .. n : [tx.ins[i] EXCEPT !.sigs = signed[i]] =
           [utxo |-> s[i], leaf |-> "instant", seq |-> MaxSequence, sigs |-> signed[i]]
    <3> SUFFICES ASSUME NEW i \in 1 .. n
                 PROVE  [tx.ins[i] EXCEPT !.sigs = signed[i]] =
                          [utxo |-> s[i], leaf |-> "instant", seq |-> MaxSequence,
                           sigs |-> signed[i]]
        OBVIOUS
    <3>1. tx.ins[i] = [utxo |-> s[i], leaf |-> "instant", seq |-> MaxSequence, sigs |-> {}]
          BY <2>17
    <3>2. PICK v, w : v = s[i] /\ w = signed[i]
          OBVIOUS
    <3>3. [[utxo |-> v, leaf |-> "instant", seq |-> MaxSequence, sigs |-> {}] EXCEPT !.sigs = w]
            = [utxo |-> v, leaf |-> "instant", seq |-> MaxSequence, sigs |-> w]
          OBVIOUS
    <3> QED BY <3>1, <3>2, <3>3
  <2>19. PICK ins : ins = [i \in 1 .. n |->
                    [utxo |-> s[i], leaf |-> "instant", seq |-> MaxSequence, sigs |-> signed[i]]]
         OBVIOUS
  <2>20. bhTx' = [tx EXCEPT !.ins = ins]
    <3>1. [i \in DOMAIN tx.ins |-> [tx.ins[i] EXCEPT !.sigs = signed[i]]] =
            [i \in 1 .. n |-> [tx.ins[i] EXCEPT !.sigs = signed[i]]]
          BY <2>17, Zenon
    <3>2. [i \in 1 .. n |-> [tx.ins[i] EXCEPT !.sigs = signed[i]]] = ins
          BY <2>18, <2>19, Zenon
    <3> QED BY <2>16, <3>1, <3>2, Zenon
  <2>21. tx = [ins |-> tx.ins, outs |-> outs]
         BY <2>14, <2>16
  <2>15. bhTx' = [ins |-> ins, outs |-> outs]
         BY <2>20, <2>21
  <2>8. bhTx' = [ins |-> [i \in 1 .. n |->
                   [utxo |-> s[i], leaf |-> "instant", seq |-> MaxSequence,
                    sigs |-> {Signature(by, bhSigned.hashes[i]) : by \in {"initiator", "redeemer"}}]],
                 outs |-> outs]
        BY <2>15, <2>19 DEF signed
  <2>9. bhSigned' = bhSigned
        BY <1>1 DEF BuildInstantRefundSacp
  <2>10. BuildableFrom(S, fee)' /\ OutsFor(S, fee)' = OutsFor(S, fee)
        BY <2>4, BuildKept
  <2>11. InstantIns(S)' = [i \in 1 .. n |->
                   [utxo |-> s[i], leaf |-> "instant", seq |-> MaxSequence,
                    sigs |-> {Signature(by, bhSigned.hashes[i]) : by \in {"initiator", "redeemer"}}]]
        BY <2>9 DEF InstantIns, s
  <2>12. bhTx' = [ins |-> InstantIns(S), outs |-> OutsFor(S, fee)]'
        BY <2>8, <2>10, <2>11 DEF outs
  <2> QED BY <2>3, <2>5, <2>9, <2>10, <2>12 DEF BuiltInv
<1>2. CASE /\ bhPc' \in {"built", "accepted", "refused"}
              => bhPc \in {"built", "accepted", "refused"}
           /\ bhSigned'.hashes = bhSigned.hashes /\ bhTx' = bhTx
  <2>1. SUFFICES ASSUME bhPc' \in {"built", "accepted", "refused"}
                 PROVE  \E S \in SUBSET HtlcOutput, fee \in Nat :
                          /\ BuildableFrom(S, fee)' /\ Cardinality(S) = Len(bhSigned'.hashes)
                          /\ bhTx' = [ins |-> InstantIns(S)', outs |-> OutsFor(S, fee)']
        BY DEF BuiltInv
  <2>2. PICK S \in SUBSET HtlcOutput, fee \in Nat :
               /\ BuildableFrom(S, fee) /\ Cardinality(S) = Len(bhSigned.hashes)
               /\ bhTx = [ins |-> InstantIns(S), outs |-> OutsFor(S, fee)]
        BY <1>2, <2>1 DEF InstantInv, BuiltInv
  <2>3. BuildableFrom(S, fee)' /\ OutsFor(S, fee)' = OutsFor(S, fee)
        BY <2>2, BuildKept
  <2>4. InstantIns(S)' = InstantIns(S)
        BY <1>2 DEF InstantIns
  <2> QED BY <1>2, <2>2, <2>3, <2>4
<1>3. CASE ValidateSacp
  <2>1. bhSigned'.hashes = bhSigned.hashes
        BY <1>3 DEF ValidateSacp, InstantInv, SignedInv
  <2> QED BY <1>2, <1>3, <2>1 DEF ValidateSacp
<1>5. CASE StartBatch \/ ValidateRequest \/ BuildBatch \/ ListRefund \/ BuildRefund
           \/ SignInstantRefund \/ SubmitTx
      BY <1>5 DEF StartBatch, ValidateRequest, BuildBatch, ListRefund, BuildRefund,
                  SignInstantRefund, SubmitTx, BuiltInv
<1>6. CASE ChainMoves
      BY <1>2, <1>6 DEF ChainMoves
<1>7. CASE UNCHANGED htlcVars
      BY <1>2, <1>7 DEF htlcVars
<1> QED BY <1>1, <1>3, <1>5, <1>6, <1>7 DEF HtlcNext

\* What validation looked at does not change while the transaction waits.
LEMMA SacpKept ==
  ASSUME ValuesKept, bhTx' = bhTx, NEW A \in SUBSET HtlcOutput, NEW txid
  PROVE  SacpOK(A, txid)' <=> SacpOK(A, txid)
<1>1. SetWorth(A)' = SetWorth(A)
      BY WorthKept
<1>2. PICK fee : fee = SetWorth(A) - TotalOut(bhTx.outs)
      OBVIOUS
<1>3. fee = (SetWorth(A) - TotalOut(bhTx.outs))'
      BY <1>1, <1>2 DEF TotalOut
<1>4. BuildableFrom(A, fee)' = BuildableFrom(A, fee) /\ HashesFor(A, fee)' = HashesFor(A, fee)
      BY BuildKept
<1> DEFINE OK == /\ fee >= 0 /\ BuildableFrom(A, fee)
                 /\ Len(bhTx.ins) = Len(HashesFor(A, fee))
                 /\ \A i \in DOMAIN HashesFor(A, fee) : SignatureValid(bhTx.ins[i], HashesFor(A, fee)[i])
                 /\ \E i \in DOMAIN bhTx.ins : TxidOf(bhTx.ins[i].utxo) = txid
<1>5. SacpOK(A, txid) <=> OK
      BY <1>2 DEF SacpOK
<1>6. SacpOK(A, txid)' <=> OK'
      BY <1>3 DEF SacpOK
<1>7. OK' <=> OK
      BY <1>4 DEF SignatureValid
<1> QED BY <1>5, <1>6, <1>7

\* Validation accepts what it should, and remembers of which outputs.
LEMMA AgainstStep ==
  ASSUME InstantInv, OutputsOK', ValuesKept, [HtlcNext]_htlcVars
  PROVE  AgainstInv'
<1>1. CASE ValidateSacp
  <2>1. PICK listing \in Listings, initiate \in Txid :
               /\ bhSigned' = [bhSigned EXCEPT !.against = [utxos |-> Range(listing), txid |-> initiate]]
               /\ bhPc' = IF ValidSacp(bhTx, initiate, listing) THEN "accepted" ELSE "refused"
        BY <1>1, Zenon DEF ValidateSacp
  <2>2. PICK A \in SUBSET HtlcOutput : A = Range(listing)
        BY ListingsAre
  <2>3. bhPc' = "accepted" <=> SacpOK(A, initiate)
        BY <2>1, <2>2, ValidIsOK DEF InstantInv
  <2>4. SacpOK(A, initiate)' <=> SacpOK(A, initiate)
        BY <1>1, SacpKept DEF ValidateSacp
  <2>5. bhSigned'.against = [utxos |-> A, txid |-> initiate]
        BY <2>1, <2>2 DEF InstantInv, SignedInv
  <2> QED BY <2>3, <2>4, <2>5 DEF AgainstInv
<1>2. CASE ~(bhPc' \in {"accepted", "refused"})
      BY <1>2 DEF AgainstInv
<1>3. CASE ChainMoves \/ UNCHANGED htlcVars
  <2>1. bhTx' = bhTx /\ bhSigned' = bhSigned /\ bhPc' = bhPc
        BY <1>3 DEF ChainMoves, htlcVars
  <2>2. SUFFICES ASSUME bhPc \in {"accepted", "refused"}
                 PROVE  \E A \in SUBSET HtlcOutput, txid \in Txid :
                          /\ bhSigned.against = [utxos |-> A, txid |-> txid]
                          /\ bhPc = "accepted" <=> SacpOK(A, txid)'
        BY <2>1 DEF AgainstInv
  <2>3. PICK A \in SUBSET HtlcOutput, txid \in Txid :
               /\ bhSigned.against = [utxos |-> A, txid |-> txid]
               /\ bhPc = "accepted" <=> SacpOK(A, txid)
        BY <2>2 DEF InstantInv, AgainstInv
  <2> QED BY <2>1, <2>3, SacpKept
<1>5. CASE StartBatch \/ ValidateRequest \/ BuildBatch \/ ListRefund \/ BuildRefund
           \/ SignInstantRefund \/ BuildInstantRefundSacp \/ SubmitTx
      BY <1>2, <1>5 DEF StartBatch, ValidateRequest, BuildBatch, ListRefund, BuildRefund,
                  SignInstantRefund, BuildInstantRefundSacp, SubmitTx
<1> QED BY <1>1, <1>3, <1>5 DEF HtlcNext

\* The invariant of the instant refund holds at the start.
LEMMA InstantInit ==
  ASSUME HtlcInit
  PROVE  InstantInv
<1>1. OutputsOK
  <2> DEFINE First == [at : {"absent"}, value : OutputValues, age : {0}]
             Kinds == [at : {"absent", "unspent", "spent"}, value : Nat, age : Nat]
  <2>1. bhOut \in [HtlcOutput -> First]
        BY DEF HtlcInit
  <2>2. First \subseteq Kinds
    <3> SUFFICES ASSUME NEW r \in First PROVE r \in Kinds
        OBVIOUS
    <3>1. OutputValues \subseteq Nat
          BY HtlcAssumption
    <3>2. /\ r = [at |-> r.at, value |-> r.value, age |-> r.age]
          /\ r.at = "absent" /\ r.value \in OutputValues /\ r.age = 0
          OBVIOUS
    <3> HIDE DEF First
    <3> QED BY <3>1, <3>2
  <2> HIDE DEF First, Kinds
  <2>3. bhOut \in [HtlcOutput -> Kinds]
        BY <2>1, <2>2
  <2> QED BY <2>3 DEF OutputsOK, Kinds
<1>2. bhPc = "start" /\ bhSigned = Unsigned
      BY DEF HtlcInit
<1> QED BY <1>1, <1>2 DEF InstantInv, SignedInv, BuiltInv, AgainstInv, Unsigned

\* The outputs that what was built spends
InputSet == {bhTx.ins[i].utxo : i \in DOMAIN bhTx.ins}

\* What a built instant refund spends and pays.
LEMMA BuiltFacts ==
  ASSUME OutputsOK, NEW S \in SUBSET HtlcOutput, NEW fee \in Nat, BuildableFrom(S, fee),
         bhTx = [ins |-> InstantIns(S), outs |-> OutsFor(S, fee)]
  PROVE  /\ DOMAIN bhTx.ins = 1 .. Cardinality(S) /\ Len(bhTx.ins) = Cardinality(S)
         /\ InputSet = S
         /\ \A i, j \in DOMAIN bhTx.ins : bhTx.ins[i].utxo = bhTx.ins[j].utxo => i = j
         /\ InputValue = SetWorth(S) /\ SetWorth(S) - TotalOut(bhTx.outs) = fee
         /\ TotalOut(bhTx.outs) <= InputValue
<1> DEFINE s == InOrder(S)
           n == Cardinality(S)
<1>1. s \in SetToSeqs(S)
      BY InOrderIs
<1>2. /\ s \in [1 .. n -> S] /\ n \in Nat /\ DOMAIN s = 1 .. n
      /\ \A i, j \in 1 .. n : s[i] = s[j] => i = j
      /\ {s[i] : i \in 1 .. n} = S
      BY <1>1, ListingFacts
<1>3. Worth(s) = SetWorth(S) /\ SetWorth(S) \in Nat
      BY <1>1, ListingWorth
<1>4. TotalOut(bhTx.outs) + fee = SetWorth(S)
      BY BuildFacts
<1>5. bhTx.ins = InstantIns(S)
      OBVIOUS
<1> HIDE DEF s
<1>6. DOMAIN bhTx.ins = 1 .. n /\ \A i \in 1 .. n : bhTx.ins[i].utxo = s[i]
      BY <1>5 DEF InstantIns, s
<1>7. Len(bhTx.ins) = n
      BY <1>2, <1>5 DEF InstantIns
<1>8. Spent(bhTx) = s
      BY <1>2, <1>6 DEF Spent
<1>9. InputValue = SetWorth(S)
      BY <1>3, <1>8 DEF InputValue
<1>11. TotalOut(bhTx.outs) \in Int
  <2>1. \A i \in DOMAIN bhTx.outs : bhTx.outs[i].value \in Nat
        BY BuildFacts
  <2>2. DOMAIN bhTx.outs = 1 .. n
        BY BuildFacts
  <2>3. IsFiniteSet(1 .. n)
        BY <1>2, FS_Interval
  <2> DEFINE e == [i \in DOMAIN bhTx.outs |-> bhTx.outs[i].value]
  <2>4. DOMAIN e = 1 .. n /\ \A i \in 1 .. n : e[i] \in Nat
        BY <2>1, <2>2
  <2>5. TotalOut(bhTx.outs) = SumFunctionOnSet(e, DOMAIN e)
        BY DEF TotalOut, SumFunction
  <2> HIDE DEF e
  <2>6. SumFunctionOnSet(e, 1 .. n) \in Nat
        BY <2>3, <2>4, SumIsNat
  <2> QED BY <2>4, <2>5, <2>6
<1>10. SetWorth(S) - TotalOut(bhTx.outs) = fee /\ TotalOut(bhTx.outs) <= InputValue
       BY <1>3, <1>4, <1>9, <1>11
<1>12. InputSet = S
  <2>1. InputSet = {s[i] : i \in 1 .. n}
        BY <1>6 DEF InputSet
  <2> QED BY <1>2, <2>1
<1> QED BY <1>2, <1>6, <1>7, <1>9, <1>10, <1>12

\* Signing, building and validating agree.
LEMMA RoundTripFromInv ==
  ASSUME InstantInv
  PROVE  SacpRoundTrip
<1> SUFFICES ASSUME bhPc = "refused",
                    bhSigned.against.utxos = bhSigned.utxos,
                    bhSigned.against.utxos = InputSet,
                    InputValue - TotalOut(bhTx.outs) = bhSigned.fee,
                    bhSigned.against.txid \in {TxidOf(u) : u \in bhSigned.utxos}
             PROVE  FALSE
    BY DEF SacpRoundTrip, InputSet
<1>1. PICK S \in SUBSET HtlcOutput, fee \in Nat :
             /\ bhSigned.utxos = S /\ bhSigned.fee = fee
             /\ BuildableFrom(S, fee) /\ bhSigned.hashes = HashesFor(S, fee)
      BY DEF InstantInv, SignedInv
<1>2. PICK B \in SUBSET HtlcOutput, paid \in Nat :
             /\ BuildableFrom(B, paid) /\ Cardinality(B) = Len(bhSigned.hashes)
             /\ bhTx = [ins |-> InstantIns(B), outs |-> OutsFor(B, paid)]
      BY DEF InstantInv, BuiltInv
<1>3. PICK A \in SUBSET HtlcOutput, txid \in Txid :
             /\ bhSigned.against = [utxos |-> A, txid |-> txid]
             /\ ~SacpOK(A, txid)
      BY DEF InstantInv, AgainstInv
<1>4. /\ DOMAIN bhTx.ins = 1 .. Cardinality(B) /\ Len(bhTx.ins) = Cardinality(B)
      /\ InputSet = B
      /\ InputValue = SetWorth(B)
      BY <1>2, BuiltFacts DEF InstantInv
<1>5. A = S /\ B = S /\ bhSigned.against.txid = txid
  <2>1. bhSigned.against.utxos = A /\ bhSigned.against.txid = txid
        BY <1>3
  <2> QED BY <1>1, <1>4, <2>1, Zenon
<1>6. SetWorth(A) - TotalOut(bhTx.outs) = fee
      BY <1>1, <1>4, <1>5
<1>7. DOMAIN HashesFor(S, fee) = 1 .. Cardinality(S)
      BY <1>1, BuildFacts DEF InstantInv
<1>8. \A i \in 1 .. Cardinality(S) : SignatureValid(bhTx.ins[i], HashesFor(S, fee)[i])
  <2> SUFFICES ASSUME NEW i \in 1 .. Cardinality(S)
               PROVE  SignatureValid(bhTx.ins[i], HashesFor(S, fee)[i])
      OBVIOUS
  <2>1. bhTx.ins[i].sigs = {Signature(by, bhSigned.hashes[i]) : by \in {"initiator", "redeemer"}}
        BY <1>2, <1>5 DEF InstantIns
  <2>2. bhSigned.hashes[i] = HashesFor(S, fee)[i]
        BY <1>1
  <2> QED BY <2>1, <2>2 DEF SignatureValid
<1>9. \E i \in DOMAIN bhTx.ins : TxidOf(bhTx.ins[i].utxo) = txid
  <2>1. PICK u \in S : txid = TxidOf(u)
        BY <1>1, <1>5
  <2>2. PICK i \in DOMAIN bhTx.ins : bhTx.ins[i].utxo = u
        BY <1>4, <1>5 DEF InputSet
  <2> QED BY <2>1, <2>2
<1>10. SacpOK(A, txid)
      BY <1>1, <1>2, <1>4, <1>5, <1>6, <1>7, <1>8, <1>9 DEF SacpOK
<1> QED BY <1>3, <1>10

\* An accepted instant refund whose inputs are the validated ones is signed for what it is.
LEMMA AcceptedFromInv ==
  ASSUME InstantInv, bhPc = "accepted", InputsThere,
         InputSet = bhSigned.against.utxos
  PROVE  NodeAccepts(bhTx)
<1>2. PICK S \in SUBSET HtlcOutput, fee \in Nat :
             /\ BuildableFrom(S, fee) /\ Cardinality(S) = Len(bhSigned.hashes)
             /\ bhTx = [ins |-> InstantIns(S), outs |-> OutsFor(S, fee)]
      BY DEF InstantInv, BuiltInv
<1>3. PICK A \in SUBSET HtlcOutput, txid \in Txid :
             /\ bhSigned.against = [utxos |-> A, txid |-> txid]
             /\ SacpOK(A, txid)
      BY DEF InstantInv, AgainstInv
<1> DEFINE n == Cardinality(S)
           outs == OutsFor(S, fee)
<1>4. /\ DOMAIN bhTx.ins = 1 .. n
      /\ InputSet = S
      /\ \A i, j \in DOMAIN bhTx.ins : bhTx.ins[i].utxo = bhTx.ins[j].utxo => i = j
      /\ SetWorth(S) - TotalOut(bhTx.outs) = fee
      /\ TotalOut(bhTx.outs) <= Worth(Spent(bhTx))
      BY <1>2, BuiltFacts DEF InstantInv, InputValue
<1>5. A = S
      BY <1>3, <1>4
<1>6. /\ DOMAIN outs = 1 .. n
      /\ \A i \in 1 .. n : outs[i].value \in Nat /\ outs[i].value >= HtlcDust
      /\ HashesFor(S, fee) =
           [i \in 1 .. n |-> [type |-> "single", utxo |-> InOrder(S)[i],
                              seq |-> MaxSequence, leaf |-> "instant", out |-> outs[i]]]
      BY <1>2, BuildFacts DEF InstantInv
<1>7. \A i \in 1 .. n : SignatureValid(bhTx.ins[i], HashesFor(S, fee)[i])
  <2>1. SetWorth(A) - TotalOut(bhTx.outs) = fee
        BY <1>4, <1>5
  <2>2. \A i \in DOMAIN HashesFor(A, fee) : SignatureValid(bhTx.ins[i], HashesFor(A, fee)[i])
        BY <1>3, <2>1 DEF SacpOK
  <2> QED BY <1>5, <1>6, <2>2
<1>8. \A i \in 1 .. n : /\ bhTx.ins[i].utxo = InOrder(S)[i] /\ bhTx.ins[i].leaf = "instant"
                        /\ bhTx.ins[i].seq = MaxSequence
                        /\ bhTx.ins[i].sigs = {Signature(by, bhSigned.hashes[i]) :
                                                 by \in {"initiator", "redeemer"}}
      BY <1>2 DEF InstantIns
<1>9. bhTx.outs = outs
      BY <1>2
<1> HIDE DEF n, outs
<1>10. \A i \in 1 .. n : SigHash(bhTx, i, "single") = HashesFor(S, fee)[i]
  <2> SUFFICES ASSUME NEW i \in 1 .. n PROVE SigHash(bhTx, i, "single") = HashesFor(S, fee)[i]
      OBVIOUS
  <2>1. HashesFor(S, fee)[i] = [type |-> "single", utxo |-> InOrder(S)[i], seq |-> MaxSequence,
                                leaf |-> "instant", out |-> outs[i]]
        BY <1>6
  <2>2. SigHash(bhTx, i, "single") =
          [type |-> "single", utxo |-> bhTx.ins[i].utxo, seq |-> bhTx.ins[i].seq,
           leaf |-> bhTx.ins[i].leaf, out |-> bhTx.outs[i]]
        BY DEF SigHash
  <2> QED BY <1>8, <1>9, <2>1, <2>2
<1>11. \A i \in 1 .. n : bhSigned.hashes[i] = HashesFor(S, fee)[i]
  <2> SUFFICES ASSUME NEW i \in 1 .. n PROVE bhSigned.hashes[i] = HashesFor(S, fee)[i]
      OBVIOUS
  <2>1. Signature("initiator", HashesFor(S, fee)[i]) \in bhTx.ins[i].sigs
        BY <1>7 DEF SignatureValid
  <2>2. PICK by : Signature("initiator", HashesFor(S, fee)[i]) = Signature(by, bhSigned.hashes[i])
        BY <1>8, <2>1
  <2> QED BY <2>2 DEF Signature
<1>12. ASSUME NEW i \in 1 .. n PROVE ScriptVerifies(bhTx, i)
  <2>1. bhTx.ins[i].leaf = "instant"
        BY <1>8
  <2>2. Signers("instant") = {"initiator", "redeemer"}
        BY DEF Signers
  <2>3. \A party \in {"initiator", "redeemer"} :
          Signature(party, SigHash(bhTx, i, "single")) \in bhTx.ins[i].sigs
        BY <1>8, <1>10, <1>11
  <2> QED BY <2>1, <2>2, <2>3 DEF ScriptVerifies
<1>13. \A i \in 1 .. n : bhOut[bhTx.ins[i].utxo].age >= bhTx.ins[i].seq
  <2> SUFFICES ASSUME NEW i \in 1 .. n PROVE bhOut[bhTx.ins[i].utxo].age >= bhTx.ins[i].seq
      OBVIOUS
  <2>1. bhTx.ins[i].utxo \in HtlcOutput
        BY <1>4 DEF InputSet
  <2>2. bhOut[bhTx.ins[i].utxo].age \in Nat
        BY <2>1 DEF InstantInv, OutputsOK
  <2> QED BY <1>8, <2>2 DEF MaxSequence
<1> QED BY <1>4, <1>6, <1>9, <1>12, <1>13 DEF NodeAccepts, InputsThere

\* What the node asks of a transaction, without what the chain may still change
\* before it sees it: inputs that are spent or too young.
Sound(tx) ==
  /\ \A i, j \in DOMAIN tx.ins : tx.ins[i].utxo = tx.ins[j].utxo => i = j
  /\ \A i \in DOMAIN tx.ins : tx.ins[i].utxo \in HtlcOutput /\ ScriptVerifies(tx, i)
  /\ \A i \in DOMAIN tx.outs : tx.outs[i].value >= HtlcDust
  /\ TotalOut(tx.outs) <= Worth(Spent(tx))

\* Soundness stays: it is about values and signatures only.
LEMMA SoundKept ==
  ASSUME ValuesKept, NEW tx, Sound(tx)
  PROVE  Sound(tx)'
<1>1. Worth(Spent(tx))' = Worth(Spent(tx))
      BY WorthKept DEF Sound
<1> QED BY <1>1 DEF Sound, ScriptVerifies, TotalOut, SigHash, Signature, Signers

\* A sum of one value
LEMMA TotalOfOne ==
  ASSUME NEW outs, DOMAIN outs = {1}, outs[1].value \in Nat
  PROVE  TotalOut(outs) = outs[1].value
<1> DEFINE e == [i \in DOMAIN outs |-> outs[i].value]
<1>1. DOMAIN e = {1} /\ e[1] = outs[1].value
      OBVIOUS
<1>2. TotalOut(outs) = SumFunctionOnSet(e, DOMAIN e)
      BY DEF TotalOut, SumFunction
<1>3. IsFiniteSet({1}) /\ 1 \in {1} /\ \A x \in {1} \ {1} : e[x] = 0
      BY FS_Singleton
<1> HIDE DEF e
<1>4. SumFunctionOnSet(e, {1}) = e[1]
      BY <1>1, <1>3, SumOfOne
<1> QED BY <1>1, <1>2, <1>4

\* A fee is what the size asks for.
LEMMA FeeIsNat ==
  ASSUME NEW ins, NEW outs, Len(ins) \in Nat, Len(outs) \in Nat, NEW rate \in Rates
  PROVE  EstimateFee(ins, outs, rate) \in Nat
<1>1. rate \in Nat /\ BaseVsize \in Nat /\ InputVsize \in Nat /\ OutputVsize \in Nat
      BY HtlcAssumption
<1>2. InputVsize * Len(ins) \in Nat /\ OutputVsize * Len(outs) \in Nat
      BY <1>1
<1> DEFINE size == BaseVsize + InputVsize * Len(ins) + OutputVsize * Len(outs)
<1>3. size \in Nat
      BY <1>1, <1>2
<1>4. EstimateFee(ins, outs, rate) = rate * size
      BY DEF EstimateFee
<1> HIDE DEF size
<1> QED BY <1>1, <1>3, <1>4

\* One output for all that is listed.
LEMMA AllInOne ==
  ASSUME NEW W \in Nat, CanCreateOutputs(<<W>>, 0), NEW to, NEW fee \in Nat,
         CanAdjust(CreateOutputs(<<W>>, to, 0), fee)
  PROVE  LET outs == AdjustOutputs(CreateOutputs(<<W>>, to, 0), fee)
         IN  /\ DOMAIN outs = {1}
             /\ outs[1].value \in Nat /\ outs[1].value >= HtlcDust /\ outs[1].value <= W
<1> DEFINE made == CreateOutputs(<<W>>, to, 0)
           outs == AdjustOutputs(made, fee)
           d == Deduction(made, fee, 1)
<1>1. DOMAIN <<W>> = {1} /\ <<W>>[1] = W
      OBVIOUS
<1>2. OutputValuesLess(<<W>>, 0)[1] = W
      BY <1>1 DEF OutputValuesLess
<1>3. made = [i \in {1} |-> [to |-> to, value |-> W]]
      BY <1>1, <1>2 DEF CreateOutputs
<1>4. Len(made) = 1 /\ made[1] = [to |-> to, value |-> W] /\ DOMAIN made = {1}
  <2>1. DOMAIN made = 1 .. 1
        BY <1>3
  <2> QED BY <1>3, <2>1
<1>5. d \in Nat
  <2>1. (fee \div 1) \in Nat /\ (fee % 1) \in Nat
        OBVIOUS
  <2> HIDE DEF made
  <2> QED BY <1>4, <2>1 DEF Deduction
<1>9. CanAdjust(made, fee)
      OBVIOUS
<1> HIDE DEF made
<1>6. outs[1] = [to |-> to, value |-> W - d] /\ DOMAIN outs = {1}
      BY <1>4 DEF AdjustOutputs
<1>7. W >= d + HtlcDust
      BY <1>4, <1>9 DEF CanAdjust
<1>8. HtlcDust \in Nat
      BY HtlcAssumption
<1> HIDE DEF outs, d
<1> QED BY <1>5, <1>6, <1>7, <1>8 DEF outs, made

\* The refund that is being built spends outputs of its listing, each once; the one
\* built asks of the chain no more than the timelock.
RefundInv ==
  /\ bhPc = "listed" => \E S \in SUBSET HtlcOutput : bhRequests \in SetToSeqs(S)
  /\ bhPc = "refunding" =>
       Sound(bhTx) /\ \A i \in DOMAIN bhTx.ins : bhTx.ins[i].seq = Timelock

\* The refund that is built is sound: one output takes all, less the fee.
LEMMA RefundBuilt ==
  ASSUME OutputsOK, RefundInv, BuildRefund, bhPc' = "refunding"
  PROVE  Sound(bhTx') /\ \A i \in DOMAIN bhTx'.ins : bhTx'.ins[i].seq = Timelock
<1>1. PICK S \in SUBSET HtlcOutput : bhRequests \in SetToSeqs(S)
      BY DEF RefundInv, BuildRefund
<1> DEFINE n == Cardinality(S)
           W == Worth(bhRequests)
<1>a. PICK s : s = bhRequests
      OBVIOUS
<1>2. /\ n \in Nat /\ s \in [1 .. n -> S] /\ DOMAIN s = 1 .. n /\ Len(s) = n
      /\ \A i, j \in 1 .. n : s[i] = s[j] => i = j
      BY <1>1, <1>a, ListingFacts
<1>3. W \in Nat
      BY <1>1, ListingWorth
<1>4. OutputValuesFor(bhRequests, "all") = <<W>>
      BY DEF OutputValuesFor
<1>5. PICK rate \in Rates :
        LET ins == Inputs(bhRequests, "refund", Timelock)
            outs == CreateOutputs(OutputValuesFor(bhRequests, "all"), 1, 0)
            fee == EstimateFee(ins, outs, rate)
        IN IF CanCreateOutputs(OutputValuesFor(bhRequests, "all"), 0) /\ CanAdjust(outs, fee)
           THEN /\ bhTx' = Sign([ins |-> ins, outs |-> AdjustOutputs(outs, fee)],
                                "initiator", "all")
                /\ bhPc' = "refunding"
           ELSE bhPc' = "failed" /\ UNCHANGED bhTx
      BY Zenon DEF BuildRefund
<1> DEFINE ins == Inputs(s, "refund", Timelock)
           made == CreateOutputs(<<W>>, 1, 0)
           fee == EstimateFee(ins, made, rate)
           outs == AdjustOutputs(made, fee)
           tx == [ins |-> ins, outs |-> outs]
<1>6. /\ CanCreateOutputs(<<W>>, 0) /\ CanAdjust(made, fee)
      /\ bhTx' = Sign(tx, "initiator", "all")
      BY <1>a, <1>4, <1>5
<1>7. ins = [i \in 1 .. n |-> [utxo |-> s[i], leaf |-> "refund", seq |-> Timelock, sigs |-> {}]]
      BY <1>2 DEF Inputs
<1>8. Len(ins) = n
      BY <1>2, <1>7
<1>9. Len(made) = 1
  <2>1. DOMAIN made = 1 .. 1
        BY DEF CreateOutputs
  <2> QED BY <2>1 DEF CreateOutputs
<1>10. fee \in Nat
  <2> HIDE DEF ins, made
  <2> QED BY <1>2, <1>8, <1>9, FeeIsNat
<1>11. /\ DOMAIN outs = {1}
       /\ outs[1].value \in Nat /\ outs[1].value >= HtlcDust /\ outs[1].value <= W
  <2> HIDE DEF W, fee
  <2> QED BY <1>3, <1>6, <1>10, AllInOne
<1>12. TotalOut(outs) = outs[1].value
  <2> HIDE DEF outs
  <2> QED BY <1>11, TotalOfOne
<1> DEFINE hashes == [i \in 1 .. n |-> SigHash(tx, i, "all")]
<1>13. bhTx' = [tx EXCEPT !.ins = [i \in 1 .. n |->
                  [ins[i] EXCEPT !.sigs = {Signature("initiator", hashes[i])}]]]
  <2>0. DOMAIN ins = 1 .. n /\ \A i \in 1 .. n : ins[i].sigs = {}
    <3> HIDE DEF ins
    <3> QED BY <1>7
  <2>1. DOMAIN tx.ins = 1 .. n /\ tx.ins = ins /\ \A i \in 1 .. n : ins[i].sigs = {}
    <3> HIDE DEF ins, outs
    <3> QED BY <2>0
  <2>2. Sign(tx, "initiator", "all") =
          [tx EXCEPT !.ins = [i \in 1 .. n |-> [ins[i] EXCEPT !.sigs =
             ins[i].sigs \cup {Signature("initiator", SigHash(tx, i, "all"))}]]]
        BY <2>1 DEF Sign
  <2>3. \A i \in 1 .. n : ins[i].sigs \cup {Signature("initiator", SigHash(tx, i, "all"))}
                            = {Signature("initiator", hashes[i])}
        BY <2>1
  <2> QED BY <1>6, <2>2, <2>3
<1> HIDE DEF ins, outs, hashes
<1>14. \A i \in 1 .. n : [ins[i] EXCEPT !.sigs = {Signature("initiator", hashes[i])}] =
         [utxo |-> s[i], leaf |-> "refund", seq |-> Timelock,
          sigs |-> {Signature("initiator", hashes[i])}]
  <2> SUFFICES ASSUME NEW i \in 1 .. n
               PROVE  [ins[i] EXCEPT !.sigs = {Signature("initiator", hashes[i])}] =
                        [utxo |-> s[i], leaf |-> "refund", seq |-> Timelock,
                         sigs |-> {Signature("initiator", hashes[i])}]
      OBVIOUS
  <2>1. ins[i] = [utxo |-> s[i], leaf |-> "refund", seq |-> Timelock, sigs |-> {}]
        BY <1>7
  <2>2. PICK v, w : v = s[i] /\ w = {Signature("initiator", hashes[i])}
        OBVIOUS
  <2>3. [[utxo |-> v, leaf |-> "refund", seq |-> Timelock, sigs |-> {}] EXCEPT !.sigs = w]
          = [utxo |-> v, leaf |-> "refund", seq |-> Timelock, sigs |-> w]
        OBVIOUS
  <2> QED BY <2>1, <2>2, <2>3
<1>15. PICK signed : signed = [i \in 1 .. n |->
         [utxo |-> s[i], leaf |-> "refund", seq |-> Timelock,
          sigs |-> {Signature("initiator", hashes[i])}]]
       OBVIOUS
<1>16. bhTx' = [ins |-> signed, outs |-> outs]
       BY <1>13, <1>14, <1>15
<1>17. \A i \in 1 .. n : SigHash(bhTx', i, "all") = hashes[i]
  <2>1. ASSUME NEW t, DOMAIN t.ins = 1 .. n, t.outs = outs,
               \A j \in 1 .. n : t.ins[j].utxo = s[j] /\ t.ins[j].seq = Timelock
                                 /\ t.ins[j].leaf = "refund",
               NEW i \in 1 .. n
        PROVE  SigHash(t, i, "all") =
                 [type |-> "all", utxos |-> [j \in 1 .. n |-> <<s[j], Timelock>>],
                  at |-> i, leaf |-> "refund", outs |-> outs]
        BY <2>1 DEF SigHash
  <2>2. DOMAIN tx.ins = 1 .. n /\ tx.outs = outs
        /\ \A j \in 1 .. n : tx.ins[j].utxo = s[j] /\ tx.ins[j].seq = Timelock
                             /\ tx.ins[j].leaf = "refund"
        BY <1>7
  <2>3. DOMAIN bhTx'.ins = 1 .. n /\ bhTx'.outs = outs
        /\ \A j \in 1 .. n : bhTx'.ins[j].utxo = s[j] /\ bhTx'.ins[j].seq = Timelock
                             /\ bhTx'.ins[j].leaf = "refund"
        BY <1>15, <1>16
  <2> HIDE DEF tx
  <2> QED BY <2>1, <2>2, <2>3 DEF hashes
<1>18. /\ DOMAIN bhTx'.ins = 1 .. n /\ bhTx'.outs = outs
       /\ \A i \in 1 .. n : /\ bhTx'.ins[i].utxo = s[i] /\ bhTx'.ins[i].leaf = "refund"
                            /\ bhTx'.ins[i].seq = Timelock
                            /\ bhTx'.ins[i].sigs = {Signature("initiator", hashes[i])}
       BY <1>15, <1>16
<1>19. ASSUME NEW i \in 1 .. n PROVE ScriptVerifies(bhTx', i)
  <2>1. Signers("refund") = {"initiator"}
        BY DEF Signers
  <2>2. Signature("initiator", SigHash(bhTx', i, "all")) \in bhTx'.ins[i].sigs
        BY <1>17, <1>18
  <2>3. bhTx'.ins[i].leaf = "refund" /\ bhTx'.ins[i].seq >= Timelock
        BY <1>18, HtlcAssumption
  <2> QED BY <2>1, <2>2, <2>3 DEF ScriptVerifies
<1>20. Spent(bhTx') = s
       BY <1>2, <1>18 DEF Spent
<1>21. TotalOut(bhTx'.outs) <= Worth(Spent(bhTx'))
       BY <1>a, <1>11, <1>12, <1>18, <1>20
<1>22. \A i \in 1 .. n : s[i] \in HtlcOutput
       BY <1>2
<1> QED BY <1>2, <1>11, <1>18, <1>19, <1>21, <1>22 DEF Sound

\* Pieces flattened, when there are one or two of them.
LEMMA FlatOfOne ==
  ASSUME NEW p, DOMAIN p = 1 .. 1, Len(p) = 1
  PROVE  FlattenSeq(p) = p[1]
<1> DEFINE F(g) == g = [i \in 1 .. Len(p) |-> IF i = 1 THEN p[i] ELSE g[i - 1] \o p[i]]
           g0 == [i \in 1 .. Len(p) |-> p[1]]
<1>1. F(g0)
      OBVIOUS
<1>2. F(CHOOSE g : F(g))
  <2> HIDE DEF F, g0
  <2> QED BY <1>1
<1>3. FlattenSeq(p) = (CHOOSE g : F(g))[Len(p)]
      BY DEF FlattenSeq
<1>4. \A g : F(g) => g[1] = p[1]
      OBVIOUS
<1> HIDE DEF F
<1> QED BY <1>2, <1>3, <1>4

\* The same of two pieces.
LEMMA FlatOfTwo ==
  ASSUME NEW p, DOMAIN p = 1 .. 2, Len(p) = 2
  PROVE  FlattenSeq(p) = p[1] \o p[2]
<1> DEFINE F(g) == g = [i \in 1 .. Len(p) |-> IF i = 1 THEN p[i] ELSE g[i - 1] \o p[i]]
           g0 == [i \in 1 .. Len(p) |-> IF i = 1 THEN p[1] ELSE p[1] \o p[2]]
<1>1. F(g0)
  <2>1. 1 .. Len(p) = {1, 2} /\ g0[1] = p[1] /\ g0[2] = p[1] \o p[2]
        OBVIOUS
  <2>2. \A i \in {1, 2} : g0[i] = IF i = 1 THEN p[i] ELSE g0[i - 1] \o p[i]
        BY <2>1
  <2> QED BY <2>1, <2>2
<1>2. F(CHOOSE g : F(g))
  <2> HIDE DEF F, g0
  <2> QED BY <1>1
<1>3. FlattenSeq(p) = (CHOOSE g : F(g))[Len(p)]
      BY DEF FlattenSeq
<1>4. \A g : F(g) => g[2] = p[1] \o p[2]
      OBVIOUS
<1> HIDE DEF F
<1> QED BY <1>2, <1>3, <1>4

\* Division with remainder, as the rounding of a shared fee needs it.
LEMMA DivisionRest ==
  ASSUME NEW n \in Nat, n > 0, NEW m \in Nat
  PROVE  (m \div n) \in Nat /\ (m % n) \in 0 .. (n - 1) /\ m = n * (m \div n) + (m % n)
<1> DEFINE q == m \div n
           r == m % n
<1>1. q \in Int /\ r \in 0 .. (n - 1) /\ m = n * q + r
      BY SMTT(30)
<1>2. q >= 0
  <2>1. SUFFICES ASSUME q <= -1 PROVE FALSE
        BY <1>1
  <2> HIDE DEF q, r
  <2>2. n * q <= n * (-1)
        BY <2>1, <1>1
  <2> QED BY <2>2, <1>1
<1> QED BY <1>1, <1>2

\* A fee shared by the outputs: everyone pays an even share, give or take the remainder,
\* and together they pay it all.
LEMMA SharedFee ==
  ASSUME NEW n \in Nat, n > 0, NEW outs, DOMAIN outs = 1 .. n, Len(outs) = n,
         \A i \in 1 .. n : outs[i].value \in Nat /\ outs[i] = [to |-> outs[i].to, value |-> outs[i].value],
         NEW fee \in Nat, CanAdjust(outs, fee)
  PROVE  LET adjusted == AdjustOutputs(outs, fee)
         IN  /\ DOMAIN adjusted = 1 .. n /\ Len(adjusted) = n
             /\ \A i \in 1 .. n :
                  /\ adjusted[i].value \in Nat /\ adjusted[i].value >= HtlcDust
                  /\ outs[i].value - adjusted[i].value \in (fee \div n) .. (fee \div n + n - 1)
             /\ TotalOut(adjusted) + fee = TotalOut(outs) /\ TotalOut(outs) \in Nat
<1> DEFINE values == [j \in DOMAIN outs |-> outs[j].value]
           l == LargestIndex(values)
           share == fee \div n
           rest == fee % n
           d == [i \in 1 .. n |-> share + IF i = l THEN rest ELSE 0]
           adjusted == AdjustOutputs(outs, fee)
<1>1. share \in Nat /\ rest \in Nat /\ rest < n /\ fee = (share * n) + rest
  <2>1. (fee \div n) \in Nat /\ (fee % n) \in 0 .. (n - 1) /\ fee = n * (fee \div n) + (fee % n)
        BY DivisionRest
  <2>2. n * (fee \div n) = (fee \div n) * n
        BY <2>1
  <2> QED BY <2>1, <2>2
<1>2. l \in 1 .. n
  <2>1. DOMAIN values = 1 .. n /\ \A i \in 1 .. n : values[i] \in Nat
        OBVIOUS
  <2> HIDE DEF values
  <2> QED BY <2>1, LargestIn
<1>3. HtlcDust \in Nat
      BY HtlcAssumption
<1>4. \A i \in 1 .. n : Deduction(outs, fee, i) = d[i]
      BY DEF Deduction
<1> HIDE DEF share, rest
<1>5. \A i \in 1 .. n : d[i] \in Nat /\ d[i] \in share .. (share + n - 1)
      BY <1>1
<1> HIDE DEF d, l, values
<1>6. \A i \in 1 .. n : outs[i].value >= d[i] + HtlcDust
      BY <1>4 DEF CanAdjust
<1>7. DOMAIN adjusted = 1 .. n /\ adjusted = [i \in 1 .. n |-> [outs[i] EXCEPT !.value = @ - d[i]]]
      BY <1>4 DEF AdjustOutputs
<1> HIDE DEF adjusted
<1>8. \A i \in 1 .. n : adjusted[i] = [to |-> outs[i].to, value |-> outs[i].value - d[i]]
  <2> SUFFICES ASSUME NEW i \in 1 .. n
               PROVE  adjusted[i] = [to |-> outs[i].to, value |-> outs[i].value - d[i]]
      OBVIOUS
  <2>1. PICK t, v : outs[i] = [to |-> t, value |-> v]
        OBVIOUS
  <2>2. adjusted[i] = [outs[i] EXCEPT !.value = outs[i].value - d[i]]
        BY <1>7
  <2>3. \A w : [[to |-> t, value |-> v] EXCEPT !.value = w] = [to |-> t, value |-> w]
        OBVIOUS
  <2> QED BY <2>1, <2>2, <2>3
<1>9. Len(adjusted) = n
      BY <1>7
<1>10. \A i \in 1 .. n : /\ adjusted[i].value \in Nat /\ adjusted[i].value >= HtlcDust
                         /\ outs[i].value - adjusted[i].value = d[i]
  <2> SUFFICES ASSUME NEW i \in 1 .. n
               PROVE  /\ adjusted[i].value \in Nat /\ adjusted[i].value >= HtlcDust
                      /\ outs[i].value - adjusted[i].value = d[i]
      OBVIOUS
  <2>0. PICK t, w : t = outs[i].to /\ w = outs[i].value - d[i]
        OBVIOUS
  <2>5. adjusted[i] = [to |-> t, value |-> w]
        BY <1>8, <2>0
  <2>1. adjusted[i].value = outs[i].value - d[i]
        BY <2>0, <2>5
  <2>2. PICK v \in Nat : v = outs[i].value
        OBVIOUS
  <2>3. PICK e \in Nat : e = d[i]
        BY <1>5
  <2>4. v >= e + HtlcDust
        BY <1>6, <2>2, <2>3
  <2> QED BY <1>3, <2>1, <2>2, <2>3, <2>4
<1> DEFINE D == 1 .. n
           before == [i \in DOMAIN outs |-> outs[i].value]
           after == [i \in DOMAIN adjusted |-> adjusted[i].value]
           even == [i \in D |-> share]
           extra == [i \in D |-> IF i = l THEN rest ELSE 0]
<1>11. IsFiniteSet(D) /\ Cardinality(D) = n
       BY FS_Interval
<1>12. /\ TotalOut(outs) = SumFunctionOnSet(before, D)
       /\ TotalOut(adjusted) = SumFunctionOnSet(after, D)
  <2>1. DOMAIN before = D /\ DOMAIN after = D
        BY <1>7
  <2>2. /\ TotalOut(outs) = SumFunctionOnSet(before, DOMAIN before)
        /\ TotalOut(adjusted) = SumFunctionOnSet(after, DOMAIN after)
        BY DEF TotalOut, SumFunction
  <2> HIDE DEF D, before, after
  <2> QED BY <2>1, <2>2
<1>13. \A i \in D : /\ after[i] \in Nat /\ d[i] \in Nat /\ before[i] = after[i] + d[i]
  <2> SUFFICES ASSUME NEW i \in D
               PROVE  after[i] \in Nat /\ d[i] \in Nat /\ before[i] = after[i] + d[i]
      OBVIOUS
  <2>1. before[i] = outs[i].value /\ after[i] = adjusted[i].value /\ before[i] \in Nat
        BY <1>7
  <2>2. after[i] \in Nat /\ d[i] \in Nat /\ before[i] - after[i] = d[i]
        BY <1>5, <1>10, <2>1
  <2> HIDE DEF before, after
  <2> QED BY <2>1, <2>2
<1>14. \A i \in D : even[i] \in Nat /\ extra[i] \in Nat /\ d[i] = even[i] + extra[i]
       BY <1>1 DEF d
<1>15. \A i \in D \ {l} : extra[i] = 0
       OBVIOUS
<1>16. l \in D /\ extra[l] = rest /\ even[l] = share /\ \A i \in D : even[i] = share
       BY <1>2
<1> HIDE DEF D, before, after, even, extra
<1>17. SumFunctionOnSet(before, D) = SumFunctionOnSet(after, D) + SumFunctionOnSet(d, D)
       BY <1>11, <1>13, SumAdds
<1>18. SumFunctionOnSet(d, D) = SumFunctionOnSet(even, D) + SumFunctionOnSet(extra, D)
       BY <1>11, <1>14, SumAdds
<1>19. SumFunctionOnSet(extra, D) = rest
       BY <1>1, <1>11, <1>15, <1>16, SumOfOne
<1>20. SumFunctionOnSet(even, D) = share * n
       BY <1>1, <1>11, <1>16, SumOfSame
<1>21. SumFunctionOnSet(after, D) \in Nat
       BY <1>11, <1>13, SumIsNat
<1>22. TotalOut(adjusted) + fee = TotalOut(outs) /\ TotalOut(outs) \in Nat
  <2>1. PICK a \in Nat : a = share * n
        BY <1>1
  <2> QED BY <1>1, <1>12, <1>17, <1>18, <1>19, <1>20, <1>21, <2>1
<1> QED BY <1>5, <1>7, <1>9, <1>10, <1>22 DEF adjusted, share

\* A sequence of that length
Places(a, p) == a = [i \in 1 .. p |-> a[i]]

\* It has that length, and is a sequence of whatever its members are.
LEMMA PlacesSeq ==
  ASSUME NEW p \in Nat, NEW a, Places(a, p)
  PROVE  DOMAIN a = 1 .. p /\ Len(a) = p /\ \A R : (\A i \in 1 .. p : a[i] \in R) => a \in Seq(R)
<1> DEFINE b == [i \in 1 .. p |-> a[i]]
<1>1. DOMAIN b = 1 .. p /\ Len(b) = p
      OBVIOUS
<1>2. \A R : (\A i \in 1 .. p : b[i] \in R) => b \in Seq(R)
  <2> SUFFICES ASSUME NEW R, \A i \in 1 .. p : a[i] \in R PROVE b \in Seq(R)
      OBVIOUS
  <2>1. b \in [1 .. p -> R]
        OBVIOUS
  <2> HIDE DEF b
  <2> QED BY <2>1
<1>3. a = b
      BY DEF Places
<1> HIDE DEF b
<1> QED BY <1>1, <1>2, <1>3

\* Two sequences joined, place by place.
Joins(c, a, p, b, q) ==
  /\ Places(c, p + q)
  /\ \A i \in 1 .. (p + q) : c[i] = IF i <= p THEN a[i] ELSE b[i - p]

\* Joining is what it should be.
LEMMA Joined ==
  ASSUME NEW p \in Nat, NEW q \in Nat, NEW a, NEW b, Places(a, p), Places(b, q)
  PROVE  Joins(a \o b, a, p, b, q)
<1> DEFINE R == {a[i] : i \in 1 .. p} \cup {b[i] : i \in 1 .. q}
<1>0. (\A i \in 1 .. p : a[i] \in R) /\ (\A i \in 1 .. q : b[i] \in R)
      OBVIOUS
<1> HIDE DEF R
<1>1. a \in Seq(R) /\ b \in Seq(R) /\ Len(a) = p /\ Len(b) = q
      BY <1>0, PlacesSeq
<1>2. /\ a \o b \in Seq(R) /\ Len(a \o b) = p + q
      /\ \A i \in 1 .. (p + q) : (a \o b)[i] = IF i <= p THEN a[i] ELSE b[i - p]
      BY <1>1, ConcatProperties
<1>3. Places(a \o b, p + q)
      BY <1>2 DEF Places
<1> QED BY <1>2, <1>3 DEF Joins

\* What is spent by the redeem leaf, and the outputs of the same values
RedeemIns(u, n) ==
  [i \in 1 .. n |-> [utxo |-> u[i], leaf |-> "redeem", seq |-> MaxSequence, sigs |-> {}]]
SameOuts(u, n, to) == [i \in 1 .. n |-> [to |-> to, value |-> ValueAt(u[i])]]

\* What one request adds to a batch.
LEMMA RequestMade ==
  ASSUME OutputsOK, NEW S \in SUBSET HtlcOutput, NEW u \in SetToSeqs(S), NEW to
  PROVE  LET n == Cardinality(S)
         IN  /\ Inputs(u, "redeem", MaxSequence) = RedeemIns(u, n)
             /\ CreateOutputs(OutputValuesFor(u, "single"), to, 0) = SameOuts(u, n, to)
<1> DEFINE n == Cardinality(S)
           values == [i \in 1 .. n |-> ValueAt(u[i])]
<1>1. DOMAIN u = 1 .. n
      BY ListingFacts
<1>2. \A i \in 1 .. n : ValueAt(u[i]) \in Nat
      BY ListingWorth
<1>3. OutputValuesFor(u, "single") = values
      BY <1>1 DEF OutputValuesFor
<1>4. \A i \in 1 .. n : OutputValuesLess(values, 0)[i] = ValueAt(u[i])
  <2> SUFFICES ASSUME NEW i \in 1 .. n PROVE OutputValuesLess(values, 0)[i] = ValueAt(u[i])
      OBVIOUS
  <2>1. values[i] = ValueAt(u[i]) /\ values[i] \in Nat /\ DOMAIN values = 1 .. n
        BY <1>2
  <2> HIDE DEF values
  <2>2. values[i] - 0 = values[i]
        BY <2>1
  <2> QED BY <2>1, <2>2 DEF OutputValuesLess
<1>5. CreateOutputs(values, to, 0) = SameOuts(u, n, to)
      BY <1>4 DEF CreateOutputs, SameOuts
<1>6. Inputs(u, "redeem", MaxSequence) = RedeemIns(u, n)
      BY <1>1 DEF Inputs, RedeemIns
<1> QED BY <1>3, <1>5, <1>6

\* A transaction that spends the outputs U, each once, beside outputs of the same values.
Mirrors(tx, n, U) ==
  /\ \A i, j \in 1 .. n : U[i] = U[j] => i = j
  /\ tx.ins = RedeemIns(U, n)
  /\ Places(tx.outs, n)
  /\ \A i \in 1 .. n : tx.outs[i] = [to |-> tx.outs[i].to, value |-> ValueAt(U[i])]

\* The transaction of one request.
LEMMA BatchOfOne ==
  ASSUME OutputsOK, NEW r1, NEW S1 \in SUBSET HtlcOutput, r1.utxos \in SetToSeqs(S1)
  PROVE  \E n \in Nat : \E U \in [1 .. n -> HtlcOutput] : Mirrors(BatchTx(<<r1>>), n, U)
<1> DEFINE n == Cardinality(S1)
           to == RequestHtlc(r1)
<1>1. PICK u : u = r1.utxos
      OBVIOUS
<1>2. /\ n \in Nat /\ u \in [1 .. n -> S1] /\ \A i, j \in 1 .. n : u[i] = u[j] => i = j
      BY <1>1, ListingFacts
<1>3. /\ Inputs(u, "redeem", MaxSequence) = RedeemIns(u, n)
      /\ CreateOutputs(OutputValuesFor(u, "single"), to, 0) = SameOuts(u, n, to)
      BY <1>1, RequestMade
<1> DEFINE p == [k \in 1 .. 1 |-> Inputs(<<r1>>[k].utxos, "redeem", MaxSequence)]
           q == [k \in 1 .. 1 |-> CreateOutputs(OutputValuesFor(<<r1>>[k].utxos, "single"),
                                                RequestHtlc(<<r1>>[k]), 0)]
           tx == BatchTx(<<r1>>)
<1>4. tx = [ins |-> FlattenSeq(p), outs |-> FlattenSeq(q)]
      BY DEF BatchTx
<1>5. FlattenSeq(p) = p[1] /\ FlattenSeq(q) = q[1]
  <2>1. DOMAIN p = 1 .. 1 /\ Len(p) = 1 /\ DOMAIN q = 1 .. 1 /\ Len(q) = 1
        OBVIOUS
  <2> HIDE DEF p, q
  <2> QED BY <2>1, FlatOfOne
<1>6. /\ p[1] = Inputs(u, "redeem", MaxSequence)
      /\ q[1] = CreateOutputs(OutputValuesFor(u, "single"), to, 0)
      BY <1>1
<1> HIDE DEF p, q, tx, to
<1>7. tx.ins = RedeemIns(u, n) /\ tx.outs = SameOuts(u, n, to)
      BY <1>3, <1>4, <1>5, <1>6
<1>8. /\ Places(tx.outs, n)
      /\ \A i \in 1 .. n : tx.outs[i] = [to |-> tx.outs[i].to, value |-> ValueAt(u[i])]
      BY <1>7 DEF SameOuts, Places
<1>9. Mirrors(tx, n, u)
      BY <1>2, <1>7, <1>8 DEF Mirrors
<1>10. u \in [1 .. n -> HtlcOutput]
      BY <1>2
<1> QED BY <1>2, <1>9, <1>10 DEF tx

\* The transaction of two requests that share no output.
LEMMA BatchOfTwo ==
  ASSUME OutputsOK, NEW r1, NEW S1 \in SUBSET HtlcOutput, r1.utxos \in SetToSeqs(S1),
         NEW r2, NEW S2 \in SUBSET HtlcOutput, r2.utxos \in SetToSeqs(S2), S1 \cap S2 = {}
  PROVE  \E n \in Nat : \E U \in [1 .. n -> HtlcOutput] : Mirrors(BatchTx(<<r1, r2>>), n, U)
<1> DEFINE n1 == Cardinality(S1)
           n2 == Cardinality(S2)
           to1 == RequestHtlc(r1)
           to2 == RequestHtlc(r2)
<1>1. PICK u1, u2 : u1 = r1.utxos /\ u2 = r2.utxos
      OBVIOUS
<1>2. /\ n1 \in Nat /\ u1 \in [1 .. n1 -> S1] /\ \A i, j \in 1 .. n1 : u1[i] = u1[j] => i = j
      /\ n2 \in Nat /\ u2 \in [1 .. n2 -> S2] /\ \A i, j \in 1 .. n2 : u2[i] = u2[j] => i = j
      BY <1>1, ListingFacts
<1> DEFINE ins1 == RedeemIns(u1, n1)
           ins2 == RedeemIns(u2, n2)
           outs1 == SameOuts(u1, n1, to1)
           outs2 == SameOuts(u2, n2, to2)
<1>3. /\ Inputs(u1, "redeem", MaxSequence) = ins1 /\ Inputs(u2, "redeem", MaxSequence) = ins2
      /\ CreateOutputs(OutputValuesFor(u1, "single"), to1, 0) = outs1
      /\ CreateOutputs(OutputValuesFor(u2, "single"), to2, 0) = outs2
      BY <1>1, RequestMade
<1> DEFINE p == [k \in 1 .. 2 |-> Inputs(<<r1, r2>>[k].utxos, "redeem", MaxSequence)]
           q == [k \in 1 .. 2 |-> CreateOutputs(OutputValuesFor(<<r1, r2>>[k].utxos, "single"),
                                                RequestHtlc(<<r1, r2>>[k]), 0)]
           tx == BatchTx(<<r1, r2>>)
<1>4. tx = [ins |-> FlattenSeq(p), outs |-> FlattenSeq(q)]
      BY DEF BatchTx
<1>5. FlattenSeq(p) = p[1] \o p[2] /\ FlattenSeq(q) = q[1] \o q[2]
  <2>1. DOMAIN p = 1 .. 2 /\ Len(p) = 2 /\ DOMAIN q = 1 .. 2 /\ Len(q) = 2
        OBVIOUS
  <2> HIDE DEF p, q
  <2> QED BY <2>1, FlatOfTwo
<1>6. p[1] = ins1 /\ p[2] = ins2 /\ q[1] = outs1 /\ q[2] = outs2
  <2>1. <<r1, r2>>[1] = r1 /\ <<r1, r2>>[2] = r2 /\ 1 \in 1 .. 2 /\ 2 \in 1 .. 2
        OBVIOUS
  <2> HIDE DEF ins1, ins2, outs1, outs2
  <2> QED BY <1>1, <1>3, <2>1
<1> DEFINE n == n1 + n2
           U == [i \in 1 .. n |-> IF i <= n1 THEN u1[i] ELSE u2[i - n1]]
<1> HIDE DEF p, q, tx, to1, to2, n1, n2
<1>7. /\ Places(ins1 \o ins2, n) /\ Places(outs1 \o outs2, n)
      /\ \A i \in 1 .. n : /\ (ins1 \o ins2)[i] = IF i <= n1 THEN ins1[i] ELSE ins2[i - n1]
                           /\ (outs1 \o outs2)[i] = IF i <= n1 THEN outs1[i] ELSE outs2[i - n1]
  <2>1. Places(ins1, n1) /\ Places(ins2, n2) /\ Places(outs1, n1) /\ Places(outs2, n2)
        BY DEF Places, RedeemIns, SameOuts
  <2> HIDE DEF ins1, ins2, outs1, outs2
  <2>2. n1 \in Nat /\ n2 \in Nat
        BY <1>2
  <2>3. Joins(ins1 \o ins2, ins1, n1, ins2, n2) /\ Joins(outs1 \o outs2, outs1, n1, outs2, n2)
        BY <2>1, <2>2, Joined
  <2> QED BY <2>3 DEF Joins
<1>8. tx.ins = ins1 \o ins2 /\ tx.outs = outs1 \o outs2
  <2> HIDE DEF ins1, ins2, outs1, outs2
  <2> QED BY <1>4, <1>5, <1>6
<1>9. n \in Nat /\ \A i \in 1 .. n : (i <= n1 => i \in 1 .. n1) /\ (~(i <= n1) => i - n1 \in 1 .. n2)
      BY <1>2
<1>10. U \in [1 .. n -> HtlcOutput]
       BY <1>2, <1>9
<1>11. \A i, j \in 1 .. n : U[i] = U[j] => i = j
  <2> SUFFICES ASSUME NEW i \in 1 .. n, NEW j \in 1 .. n, U[i] = U[j] PROVE i = j
      OBVIOUS
  <2>1. U[i] = (IF i <= n1 THEN u1[i] ELSE u2[i - n1]) /\ U[j] = IF j <= n1 THEN u1[j] ELSE u2[j - n1]
        OBVIOUS
  <2> HIDE DEF U
  <2>2. CASE i <= n1 /\ j <= n1
        BY <1>2, <1>9, <2>1, <2>2
  <2>3. CASE ~(i <= n1) /\ ~(j <= n1)
    <3>1. i - n1 = j - n1
          BY <1>2, <1>9, <2>1, <2>3
    <3> QED BY <1>2, <3>1
  <2>4. CASE i <= n1 /\ ~(j <= n1)
    <3>1. u1[i] \in S1 /\ u2[j - n1] \in S2 /\ u1[i] = u2[j - n1]
          BY <1>2, <1>9, <2>1, <2>4
    <3> QED BY <3>1
  <2>5. CASE ~(i <= n1) /\ j <= n1
    <3>1. u2[i - n1] \in S2 /\ u1[j] \in S1 /\ u1[j] = u2[i - n1]
          BY <1>2, <1>9, <2>1, <2>5
    <3> QED BY <3>1
  <2> QED BY <2>2, <2>3, <2>4, <2>5
<1>12. tx.ins = RedeemIns(U, n)
  <2>1. \A i \in 1 .. n : tx.ins[i] = RedeemIns(U, n)[i]
    <3> SUFFICES ASSUME NEW i \in 1 .. n PROVE tx.ins[i] = RedeemIns(U, n)[i]
        OBVIOUS
    <3>1. tx.ins[i] = IF i <= n1 THEN ins1[i] ELSE ins2[i - n1]
          BY <1>7, <1>8
    <3>2. /\ i <= n1 => ins1[i] = RedeemIns(U, n)[i]
          /\ ~(i <= n1) => ins2[i - n1] = RedeemIns(U, n)[i]
          BY <1>9 DEF RedeemIns
    <3> QED BY <3>1, <3>2
  <2>2. Places(tx.ins, n) /\ Places(RedeemIns(U, n), n)
        BY <1>7, <1>8 DEF RedeemIns, Places
  <2> HIDE DEF U, n
  <2> QED BY <2>1, <2>2 DEF Places
<1>13. \A i \in 1 .. n : tx.outs[i] = [to |-> tx.outs[i].to, value |-> ValueAt(U[i])]
  <2> SUFFICES ASSUME NEW i \in 1 .. n
               PROVE  tx.outs[i] = [to |-> tx.outs[i].to, value |-> ValueAt(U[i])]
      OBVIOUS
  <2>1. tx.outs[i] = IF i <= n1 THEN outs1[i] ELSE outs2[i - n1]
        BY <1>7, <1>8
  <2>2. /\ i <= n1 => outs1[i] = [to |-> to1, value |-> ValueAt(U[i])]
        /\ ~(i <= n1) => outs2[i - n1] = [to |-> to2, value |-> ValueAt(U[i])]
        BY <1>9 DEF SameOuts
  <2> HIDE DEF U, outs1, outs2
  <2>3. PICK to : tx.outs[i] = [to |-> to, value |-> ValueAt(U[i])]
        BY <2>1, <2>2
  <2> QED BY <2>3
<1>14. Mirrors(tx, n, U)
  <2>1. Places(tx.outs, n)
        BY <1>7, <1>8
  <2> HIDE DEF U, n
  <2> QED BY <1>11, <1>12, <1>13, <2>1 DEF Mirrors
<1> QED BY <1>9, <1>10, <1>14 DEF tx

\* The fee is what the size asks for, and everyone pays an even share of it.
Fair(tx) ==
  /\ \E rate \in Rates :
       Worth(Spent(tx)) - TotalOut(tx.outs) = EstimateFee(tx.ins, tx.outs, rate)
  /\ \A i \in DOMAIN tx.ins :
       LET paid == ValueAt(tx.ins[i].utxo) - tx.outs[i].value
           share == (Worth(Spent(tx)) - TotalOut(tx.outs)) \div Len(tx.outs)
       IN paid \in share..(share + Len(tx.outs) - 1)

\* It waits for no timelock.
AnyAge(tx) == \A i \in DOMAIN tx.ins : tx.ins[i].seq = MaxSequence

\* With the fee taken off and signed, such a transaction is sound and fair.
LEMMA BatchSigned ==
  ASSUME OutputsOK, NEW n \in Nat, NEW U \in [1 .. n -> HtlcOutput],
         NEW tx, tx = [ins |-> tx.ins, outs |-> tx.outs], Mirrors(tx, n, U),
         NEW rate \in Rates, NEW fee, fee = EstimateFee(tx.ins, tx.outs, rate),
         CanAdjust(tx.outs, fee),
         NEW t, t = Sign([tx EXCEPT !.outs = AdjustOutputs(tx.outs, fee)], "redeemer", "single")
  PROVE  Sound(t) /\ Fair(t) /\ AnyAge(t)
<1> DEFINE outs == tx.outs
           adjusted == AdjustOutputs(outs, fee)
<1>1. /\ DOMAIN outs = 1 .. n /\ Len(outs) = n
      BY PlacesSeq DEF Mirrors
<1>2. n > 0
  <2>1. SUFFICES ASSUME n = 0 PROVE FALSE
        OBVIOUS
  <2>2. 1 .. n = {}
        BY <2>1
  <2>3. outs = <<>>
        BY <2>2 DEF Mirrors, Places
  <2> QED BY <2>3 DEF CanAdjust
<1>3. /\ tx.ins = RedeemIns(U, n) /\ \A i, j \in 1 .. n : U[i] = U[j] => i = j
      /\ \A i \in 1 .. n : outs[i] = [to |-> outs[i].to, value |-> ValueAt(U[i])]
      BY DEF Mirrors
<1>4. \A i \in 1 .. n : U[i] \in HtlcOutput /\ ValueAt(U[i]) \in Nat
      BY DEF OutputsOK, ValueAt
<1>5. \A i \in 1 .. n : /\ outs[i].value = ValueAt(U[i]) /\ outs[i].value \in Nat
                        /\ outs[i] = [to |-> outs[i].to, value |-> outs[i].value]
  <2> SUFFICES ASSUME NEW i \in 1 .. n
               PROVE  /\ outs[i].value = ValueAt(U[i]) /\ outs[i].value \in Nat
                      /\ outs[i] = [to |-> outs[i].to, value |-> outs[i].value]
      OBVIOUS
  <2>1. PICK to, v : to = outs[i].to /\ v = ValueAt(U[i])
        OBVIOUS
  <2>2. outs[i] = [to |-> to, value |-> v]
        BY <1>3, <2>1
  <2>3. outs[i].to = to /\ outs[i].value = v
        BY <2>2
  <2> QED BY <1>4, <2>1, <2>2, <2>3
<1>6. /\ DOMAIN tx.ins = 1 .. n /\ Len(tx.ins) = n
      /\ \A i \in 1 .. n : tx.ins[i] = [utxo |-> U[i], leaf |-> "redeem", seq |-> MaxSequence,
                                        sigs |-> {}]
  <2> DEFINE ins == RedeemIns(U, n)
  <2>1. /\ DOMAIN ins = 1 .. n /\ Len(ins) = n
        /\ \A i \in 1 .. n : ins[i] = [utxo |-> U[i], leaf |-> "redeem", seq |-> MaxSequence,
                                       sigs |-> {}]
        BY DEF RedeemIns
  <2>2. tx.ins = ins
        BY <1>3
  <2> HIDE DEF ins
  <2> QED BY <2>1, <2>2
<1>7. fee \in Nat
      BY <1>1, <1>6, FeeIsNat
<1>8. /\ DOMAIN adjusted = 1 .. n /\ Len(adjusted) = n
      /\ \A i \in 1 .. n :
           /\ adjusted[i].value \in Nat /\ adjusted[i].value >= HtlcDust
           /\ outs[i].value - adjusted[i].value \in (fee \div n) .. (fee \div n + n - 1)
      /\ TotalOut(adjusted) + fee = TotalOut(outs) /\ TotalOut(outs) \in Nat
  <2> HIDE DEF outs
  <2>1. CanAdjust(outs, fee)
        BY DEF outs
  <2> QED BY <1>1, <1>2, <1>5, <1>7, <2>1, SharedFee
<1> HIDE DEF adjusted
<1> DEFINE unsigned == [ins |-> tx.ins, outs |-> adjusted]
           hashes == [i \in 1 .. n |-> SigHash(unsigned, i, "single")]
<1>9. t = Sign(unsigned, "redeemer", "single")
  <2>1. [tx EXCEPT !.outs = adjusted] = unsigned
    <3>1. PICK a, b : a = tx.ins /\ b = tx.outs
          OBVIOUS
    <3>2. [[ins |-> a, outs |-> b] EXCEPT !.outs = adjusted] = [ins |-> a, outs |-> adjusted]
          OBVIOUS
    <3> QED BY <3>1, <3>2
  <2> QED BY <2>1 DEF adjusted
<1>10. PICK signed : signed = [i \in 1 .. n |->
         [utxo |-> U[i], leaf |-> "redeem", seq |-> MaxSequence,
          sigs |-> {Signature("redeemer", hashes[i])}]]
       OBVIOUS
<1>11. t = [ins |-> signed, outs |-> adjusted]
  <2>1. t = [unsigned EXCEPT !.ins = [i \in 1 .. n |-> [tx.ins[i] EXCEPT !.sigs =
               tx.ins[i].sigs \cup {Signature("redeemer", SigHash(unsigned, i, "single"))}]]]
        BY <1>6, <1>9 DEF Sign
  <2>2. \A i \in 1 .. n : [tx.ins[i] EXCEPT !.sigs =
               tx.ins[i].sigs \cup {Signature("redeemer", SigHash(unsigned, i, "single"))}]
             = [utxo |-> U[i], leaf |-> "redeem", seq |-> MaxSequence,
                sigs |-> {Signature("redeemer", hashes[i])}]
    <3> SUFFICES ASSUME NEW i \in 1 .. n
                 PROVE  [tx.ins[i] EXCEPT !.sigs =
                           tx.ins[i].sigs \cup {Signature("redeemer", SigHash(unsigned, i, "single"))}]
                         = [utxo |-> U[i], leaf |-> "redeem", seq |-> MaxSequence,
                            sigs |-> {Signature("redeemer", hashes[i])}]
        OBVIOUS
    <3>1. tx.ins[i] = [utxo |-> U[i], leaf |-> "redeem", seq |-> MaxSequence, sigs |-> {}]
          BY <1>6
    <3>2. PICK v, w : v = U[i] /\ w = {Signature("redeemer", hashes[i])}
          OBVIOUS
    <3>3. [[utxo |-> v, leaf |-> "redeem", seq |-> MaxSequence, sigs |-> {}] EXCEPT !.sigs = w]
            = [utxo |-> v, leaf |-> "redeem", seq |-> MaxSequence, sigs |-> w]
          OBVIOUS
    <3>4. tx.ins[i].sigs = {}
          BY <3>1
    <3>5. hashes[i] = SigHash(unsigned, i, "single")
          OBVIOUS
    <3> HIDE DEF unsigned, hashes
    <3>6. tx.ins[i].sigs \cup {Signature("redeemer", SigHash(unsigned, i, "single"))} = w
          BY <3>2, <3>4, <3>5
    <3> QED BY <3>1, <3>2, <3>3, <3>6
  <2>3. t = [unsigned EXCEPT !.ins = signed]
    <3> HIDE DEF unsigned, hashes
    <3>1. PICK raw : raw = [i \in 1 .. n |-> [tx.ins[i] EXCEPT !.sigs =
               tx.ins[i].sigs \cup {Signature("redeemer", SigHash(unsigned, i, "single"))}]]
          OBVIOUS
    <3>2. \A i \in 1 .. n : raw[i] = signed[i]
          BY <1>10, <2>2, <3>1
    <3>3. raw = signed
          BY <1>10, <3>1, <3>2
    <3> QED BY <2>1, <3>1, <3>3
  <2> HIDE DEF hashes
  <2> QED BY <2>3
<1>12. /\ DOMAIN t.ins = 1 .. n /\ Len(t.ins) = n /\ t.outs = adjusted
       /\ \A i \in 1 .. n : /\ t.ins[i].utxo = U[i] /\ t.ins[i].leaf = "redeem"
                            /\ t.ins[i].seq = MaxSequence
                            /\ t.ins[i].sigs = {Signature("redeemer", hashes[i])}
  <2> HIDE DEF hashes, unsigned
  <2>1. /\ DOMAIN signed = 1 .. n /\ Len(signed) = n
        /\ \A i \in 1 .. n : /\ signed[i].utxo = U[i] /\ signed[i].leaf = "redeem"
                             /\ signed[i].seq = MaxSequence
                             /\ signed[i].sigs = {Signature("redeemer", hashes[i])}
        BY <1>10
  <2>2. t.ins = signed /\ t.outs = adjusted
        BY <1>11
  <2> QED BY <2>1, <2>2
<1>13. \A i \in 1 .. n : SigHash(t, i, "single") = hashes[i]
  <2> SUFFICES ASSUME NEW i \in 1 .. n PROVE SigHash(t, i, "single") = hashes[i]
      OBVIOUS
  <2>1. unsigned.ins[i] = tx.ins[i] /\ unsigned.outs[i] = adjusted[i]
        OBVIOUS
  <2>2. hashes[i] = [type |-> "single", utxo |-> tx.ins[i].utxo, seq |-> tx.ins[i].seq,
                     leaf |-> tx.ins[i].leaf, out |-> adjusted[i]]
        BY <2>1 DEF SigHash
  <2>3. tx.ins[i].utxo = U[i] /\ tx.ins[i].seq = MaxSequence /\ tx.ins[i].leaf = "redeem"
    <3>1. tx.ins[i] = [utxo |-> U[i], leaf |-> "redeem", seq |-> MaxSequence, sigs |-> {}]
          BY <1>6
    <3> QED BY <3>1
  <2>4. SigHash(t, i, "single") = [type |-> "single", utxo |-> t.ins[i].utxo, seq |-> t.ins[i].seq,
                                   leaf |-> t.ins[i].leaf, out |-> t.outs[i]]
        BY DEF SigHash
  <2> HIDE DEF hashes, unsigned
  <2> QED BY <1>12, <2>2, <2>3, <2>4
<1> HIDE DEF hashes, unsigned
<1>14. ASSUME NEW i \in 1 .. n PROVE ScriptVerifies(t, i)
  <2>1. Signers("redeem") = {"redeemer"}
        BY DEF Signers
  <2>2. Signature("redeemer", SigHash(t, i, "single")) \in t.ins[i].sigs
        BY <1>12, <1>13
  <2>3. t.ins[i].leaf = "redeem"
        BY <1>12
  <2> QED BY <2>1, <2>2, <2>3 DEF ScriptVerifies
<1>15. Worth(Spent(t)) = TotalOut(outs)
  <2> DEFINE e == [i \in 1 .. n |-> ValueAt(U[i])]
  <2>1. Spent(t) = [i \in 1 .. n |-> U[i]]
        BY <1>12 DEF Spent
  <2>2. [i \in DOMAIN Spent(t) |-> ValueAt(Spent(t)[i])] = e
        BY <2>1
  <2>3. [i \in DOMAIN outs |-> outs[i].value] = e
        BY <1>1, <1>5
  <2> HIDE DEF e, outs
  <2> QED BY <2>2, <2>3 DEF Worth, TotalOut
<1>16. Worth(Spent(t)) - TotalOut(t.outs) = fee /\ TotalOut(t.outs) <= Worth(Spent(t))
  <2>1. TotalOut(adjusted) \in Int
    <3> DEFINE e == [i \in DOMAIN adjusted |-> adjusted[i].value]
    <3>1. DOMAIN e = 1 .. n /\ \A i \in 1 .. n : e[i] \in Nat
          BY <1>8
    <3>2. TotalOut(adjusted) = SumFunctionOnSet(e, DOMAIN e)
          BY DEF TotalOut, SumFunction
    <3>3. IsFiniteSet(1 .. n)
          BY FS_Interval
    <3> HIDE DEF e
    <3>4. SumFunctionOnSet(e, 1 .. n) \in Nat
          BY <3>1, <3>3, SumIsNat
    <3> QED BY <3>1, <3>2, <3>4
  <2> HIDE DEF outs
  <2> QED BY <1>7, <1>8, <1>12, <1>15, <2>1
<1>17. Sound(t)
  <2>1. \A i, j \in DOMAIN t.ins : t.ins[i].utxo = t.ins[j].utxo => i = j
        BY <1>3, <1>12
  <2>2. \A i \in DOMAIN t.ins : t.ins[i].utxo \in HtlcOutput /\ ScriptVerifies(t, i)
        BY <1>4, <1>12, <1>14
  <2>3. \A i \in DOMAIN t.outs : t.outs[i].value >= HtlcDust
        BY <1>8, <1>12
  <2> QED BY <1>16, <2>1, <2>2, <2>3 DEF Sound
<1>18. EstimateFee(t.ins, t.outs, rate) = fee
      BY <1>1, <1>6, <1>8, <1>12 DEF EstimateFee
<1>19. Fair(t)
  <2>1. Len(t.outs) = n
        BY <1>8, <1>12
  <2>2. \A i \in DOMAIN t.ins : ValueAt(t.ins[i].utxo) - t.outs[i].value
                                  \in (fee \div n) .. (fee \div n + n - 1)
    <3> SUFFICES ASSUME NEW i \in 1 .. n
                 PROVE  ValueAt(t.ins[i].utxo) - t.outs[i].value
                          \in (fee \div n) .. (fee \div n + n - 1)
        BY <1>12
    <3>1. ValueAt(t.ins[i].utxo) = outs[i].value /\ t.outs[i] = adjusted[i]
          BY <1>5, <1>12
    <3> HIDE DEF outs
    <3> QED BY <1>8, <3>1
  <2> QED BY <1>16, <1>18, <2>1, <2>2 DEF Fair
<1>20. AnyAge(t)
      BY <1>12 DEF AnyAge
<1> QED BY <1>17, <1>19, <1>20

\* The outputs of a request
ListsOf(r) == {r.utxos[i] : i \in DOMAIN r.utxos}

\* They were set aside, and no two requests share one.
Checked(valid, seen) ==
  /\ valid \in Seq(Requests) /\ \A k \in 1 .. Len(valid) : ListsOf(valid[k]) \subseteq seen
  /\ \A j, k \in 1 .. Len(valid) : j # k => ListsOf(valid[j]) \cap ListsOf(valid[k]) = {}

\* The requests still to check, and those that passed
CheckInv ==
  /\ bhPc = "start" => bhCheck.valid = <<>>
  /\ bhPc = "checking" =>
       /\ bhRequests \in Seq(Requests) /\ bhRequests # <<>>
       /\ Len(bhCheck.valid) + Len(bhRequests) <= 2
  /\ bhPc = "validated" => Len(bhCheck.valid) <= 2
  /\ bhPc \in {"checking", "validated"} => Checked(bhCheck.valid, bhCheck.seen)

\* A request lists a set of outputs.
LEMMA RequestIs ==
  ASSUME NEW r \in Requests
  PROVE  \E S \in SUBSET HtlcOutput : r.utxos \in SetToSeqs(S) /\ ListsOf(r) = S
<1>1. r.utxos \in UNION {SetToSeqs(S) : S \in SUBSET HtlcOutput}
  <2> DEFINE Lists == {s \in UNION {SetToSeqs(S) : S \in SUBSET HtlcOutput} : Len(s) <= 2}
  <2>1. r \in [utxos : Lists, witness : BOOLEAN]
        BY DEF Requests
  <2> HIDE DEF Lists
  <2>2. r.utxos \in Lists
        BY <2>1
  <2> QED BY <2>2 DEF Lists
<1>2. PICK S \in SUBSET HtlcOutput : r.utxos \in SetToSeqs(S)
      BY <1>1
<1>3. PICK u : u = r.utxos
      OBVIOUS
<1>4. DOMAIN u = 1 .. Cardinality(S) /\ {u[i] : i \in 1 .. Cardinality(S)} = S
      BY <1>2, <1>3, ListingFacts
<1>5. ListsOf(r) = S
  <2>1. ListsOf(r) = {u[i] : i \in 1 .. Cardinality(S)}
        BY <1>3, <1>4 DEF ListsOf
  <2> QED BY <1>4, <2>1
<1> QED BY <1>2, <1>5

\* A request more, all of whose outputs are new.
LEMMA CheckedMore ==
  ASSUME NEW valid, NEW seen, Checked(valid, seen), NEW r \in Requests,
         ListsOf(r) \cap seen = {}, NEW more, seen \subseteq more, ListsOf(r) \subseteq more
  PROVE  Checked(Append(valid, r), more) /\ Len(Append(valid, r)) = Len(valid) + 1
<1>1. valid \in Seq(Requests) /\ Len(valid) \in Nat
      BY DEF Checked
<1> DEFINE n == Len(valid)
           longer == Append(valid, r)
<1>2. /\ longer \in Seq(Requests) /\ Len(longer) = n + 1
      /\ \A k \in 1 .. n : longer[k] = valid[k]
      /\ longer[n + 1] = r
      BY <1>1, AppendProperties
<1> HIDE DEF longer
<1>3. \A k \in 1 .. (n + 1) : k \in 1 .. n \/ k = n + 1
      BY <1>1
<1>4. \A k \in 1 .. n : ListsOf(longer[k]) \subseteq seen
      BY <1>2 DEF Checked
<1>5. ListsOf(longer[n + 1]) \cap seen = {} /\ ListsOf(longer[n + 1]) \subseteq more
      BY <1>2
<1>6. \A j, k \in 1 .. n : j # k => ListsOf(longer[j]) \cap ListsOf(longer[k]) = {}
      BY <1>2 DEF Checked
<1>7. \A k \in 1 .. (n + 1) : ListsOf(longer[k]) \subseteq more
      BY <1>3, <1>4, <1>5
<1>8. \A j, k \in 1 .. (n + 1) : j # k => ListsOf(longer[j]) \cap ListsOf(longer[k]) = {}
  <2> SUFFICES ASSUME NEW j \in 1 .. (n + 1), NEW k \in 1 .. (n + 1), j # k
               PROVE  ListsOf(longer[j]) \cap ListsOf(longer[k]) = {}
      OBVIOUS
  <2>1. CASE j \in 1 .. n /\ k \in 1 .. n
        BY <1>6, <2>1
  <2>2. CASE j \in 1 .. n /\ k = n + 1
        BY <1>4, <1>5, <2>2
  <2>3. CASE j = n + 1 /\ k \in 1 .. n
        BY <1>4, <1>5, <2>3
  <2> QED BY <1>3, <2>1, <2>2, <2>3
<1> QED BY <1>2, <1>7, <1>8 DEF Checked, longer

\* A request that passes lists only outputs nobody listed before it.
LEMMA CheckStep ==
  ASSUME CheckInv, [HtlcNext]_htlcVars
  PROVE  CheckInv'
<1>1. CASE StartBatch
  <2>1. PICK first \in Requests, second \in Requests : bhRequests' = <<first, second>>
        BY <1>1 DEF StartBatch
  <2>2. /\ bhPc = "start" /\ bhPc' = "checking" /\ bhCheck' = bhCheck
        BY <1>1 DEF StartBatch
  <2>3. bhCheck'.valid = <<>>
        BY <2>2 DEF CheckInv
  <2>4. Checked(bhCheck'.valid, bhCheck'.seen)
        BY <2>3 DEF Checked
  <2>5. bhRequests' \in Seq(Requests) /\ bhRequests' # <<>> /\ Len(bhRequests') = 2
        BY <2>1
  <2>6. Len(bhCheck'.valid) = 0
        BY <2>3
  <2> QED BY <2>2, <2>4, <2>5, <2>6 DEF CheckInv
<1>2. CASE ValidateRequest
  <2> DEFINE r == Head(bhRequests)
             reached(lost) == {i \in DOMAIN r.utxos :
                                 r.witness /\ \A j \in 1..(i - 1) : UtxoValid(r, j, lost)}
  <2>1. /\ bhPc = "checking" /\ bhRequests \in Seq(Requests) /\ bhRequests # <<>>
        /\ Len(bhCheck.valid) + Len(bhRequests) <= 2 /\ Checked(bhCheck.valid, bhCheck.seen)
        BY <1>2 DEF ValidateRequest, CheckInv
  <2>2. /\ r \in Requests /\ Tail(bhRequests) \in Seq(Requests)
        /\ Len(Tail(bhRequests)) = Len(bhRequests) - 1 /\ Len(bhRequests) \in Nat
        BY <2>1, HeadTailProperties
  <2>3. PICK lost \in 0 .. Len(r.utxos) :
               /\ bhCheck'.valid = IF r.witness /\ \A i \in DOMAIN r.utxos : UtxoValid(r, i, lost)
                                   THEN Append(bhCheck.valid, r) ELSE bhCheck.valid
               /\ bhCheck'.seen = bhCheck.seen \cup {r.utxos[i] : i \in reached(lost)}
        BY <1>2 DEF ValidateRequest
  <2>4. bhRequests' = Tail(bhRequests) /\ bhPc' = IF Len(bhRequests) = 1 THEN "validated" ELSE "checking"
        BY <1>2 DEF ValidateRequest
  <2>5. Len(bhCheck.valid) \in Nat
        BY <2>1 DEF Checked
  <2>8. ASSUME Checked(bhCheck'.valid, bhCheck'.seen), Len(bhCheck'.valid) \in Nat,
               Len(bhCheck'.valid) + Len(Tail(bhRequests)) <= 2
        PROVE  CheckInv'
    <3> HIDE DEF r
    <3>1. PICK rest : rest = Tail(bhRequests)
          OBVIOUS
    <3>2. bhRequests' = rest /\ rest \in Seq(Requests) /\ Len(rest) \in Nat
          BY <2>2, <2>4, <3>1
    <3>3. Len(rest) = Len(bhRequests) - 1 /\ Len(bhRequests) \in Nat
          BY <2>2, <3>1
    <3>4. bhPc' = "checking" => rest # <<>>
      <4>1. Len(bhRequests) # 0
            BY <2>1
      <4>2. bhPc' = "checking" => Len(bhRequests) # 1
            BY <2>4
      <4> QED BY <3>3, <4>1, <4>2
    <3>5. Len(bhCheck'.valid) <= 2 /\ Len(bhCheck'.valid) + Len(rest) <= 2
          BY <2>8, <3>1, <3>2
    <3>6. bhPc' \in {"checking", "validated"}
          BY <2>4
    <3> QED BY <2>8, <3>2, <3>4, <3>5, <3>6 DEF CheckInv
  <2>6. CASE r.witness /\ \A i \in DOMAIN r.utxos : UtxoValid(r, i, lost)
    <3>1. PICK S \in SUBSET HtlcOutput : r.utxos \in SetToSeqs(S)
          BY <2>2, RequestIs
    <3>2. PICK u : u = r.utxos
          OBVIOUS
    <3>3. DOMAIN u = 1 .. Cardinality(S) /\ Cardinality(S) \in Nat
          BY <3>1, <3>2, ListingFacts
    <3>4. \A i \in DOMAIN u : \A j \in 1 .. (i - 1) : j \in DOMAIN u
          BY <3>3
    <3>5. reached(lost) = DOMAIN r.utxos
          BY <2>6, <3>2, <3>4
    <3>6. ListsOf(r) \subseteq bhCheck'.seen
          BY <2>3, <3>5 DEF ListsOf
    <3>7. \A i \in DOMAIN r.utxos : r.utxos[i] \notin bhCheck.seen
          BY <2>6 DEF UtxoValid, Unreadable
    <3>8. ListsOf(r) \cap bhCheck.seen = {}
          BY <3>7 DEF ListsOf
    <3>9. bhCheck.seen \subseteq bhCheck'.seen
          BY <2>3
    <3>10. bhCheck'.valid = Append(bhCheck.valid, r)
          BY <2>3, <2>6
    <3> HIDE DEF r
    <3>11. /\ Checked(bhCheck'.valid, bhCheck'.seen)
           /\ Len(bhCheck'.valid) = Len(bhCheck.valid) + 1 /\ Len(bhCheck'.valid) \in Nat
           BY <2>1, <2>2, <2>5, <3>6, <3>8, <3>9, <3>10, CheckedMore
    <3>12. Len(bhCheck'.valid) + Len(Tail(bhRequests)) <= 2
           BY <2>1, <2>2, <2>5, <3>11
    <3> QED BY <2>8, <3>11, <3>12
  <2>7. CASE ~(r.witness /\ \A i \in DOMAIN r.utxos : UtxoValid(r, i, lost))
    <3>1. bhCheck'.valid = bhCheck.valid /\ bhCheck.seen \subseteq bhCheck'.seen
          BY <2>3, <2>7
    <3> HIDE DEF r
    <3>2. Checked(bhCheck'.valid, bhCheck'.seen)
          BY <2>1, <3>1 DEF Checked
    <3>3. Len(bhCheck'.valid) + Len(Tail(bhRequests)) <= 2
          BY <2>1, <2>2, <2>5, <3>1
    <3> QED BY <2>5, <2>8, <3>1, <3>2, <3>3
  <2> QED BY <2>6, <2>7
<1>3. CASE ListRefund \/ SignInstantRefund
      BY <1>3 DEF ListRefund, SignInstantRefund, CheckInv
<1>4. CASE BuildBatch \/ BuildRefund \/ BuildInstantRefundSacp \/ ValidateSacp \/ SubmitTx
      BY <1>4 DEF BuildBatch, BuildRefund, BuildInstantRefundSacp, ValidateSacp, SubmitTx, CheckInv
<1>5. CASE ChainMoves \/ UNCHANGED htlcVars
      BY <1>5 DEF ChainMoves, htlcVars, CheckInv
<1> QED BY <1>1, <1>2, <1>3, <1>4, <1>5 DEF HtlcNext

\* A batch that is signed is sound and fair.
BatchInv == bhPc = "batched" => Sound(bhTx) /\ Fair(bhTx) /\ AnyAge(bhTx)

\* The batch that is built is sound and fair.
LEMMA BatchBuilt ==
  ASSUME OutputsOK, CheckInv, BuildBatch, bhPc' = "batched"
  PROVE  Sound(bhTx') /\ Fair(bhTx') /\ AnyAge(bhTx')
<1> DEFINE valid == bhCheck.valid
           tx == BatchTx(valid)
<1>1. PICK rate \in Rates :
        LET fee == EstimateFee(tx.ins, tx.outs, rate)
        IN IF CanBatch(valid) /\ CanAdjust(tx.outs, fee)
           THEN /\ bhTx' = Sign([tx EXCEPT !.outs = AdjustOutputs(@, fee)], "redeemer", "single")
                /\ bhPc' = "batched"
           ELSE bhPc' = "failed" /\ UNCHANGED bhTx
      BY Zenon DEF BuildBatch
<1>2. PICK fee : fee = EstimateFee(tx.ins, tx.outs, rate)
      OBVIOUS
<1>3. /\ CanAdjust(tx.outs, fee)
      /\ bhTx' = Sign([tx EXCEPT !.outs = AdjustOutputs(tx.outs, fee)], "redeemer", "single")
      BY <1>1, <1>2
<1>4. valid \in Seq(Requests) /\ Len(valid) \in 0 .. 2 /\ Checked(valid, bhCheck.seen)
  <2>1. bhPc = "validated"
        BY DEF BuildBatch
  <2>2. Checked(valid, bhCheck.seen) /\ Len(valid) <= 2
        BY <2>1 DEF CheckInv
  <2> HIDE DEF valid
  <2>3. valid \in Seq(Requests)
        BY <2>2 DEF Checked
  <2>4. Len(valid) \in Nat
        BY <2>3
  <2>5. Len(valid) \in 0 .. 2
    <3>1. PICK n \in Nat : n = Len(valid)
          BY <2>4
    <3>2. n <= 2
          BY <2>2, <3>1
    <3>3. n \in 0 .. 2
          BY <3>2
    <3> QED BY <3>1, <3>3
  <2> QED BY <2>2, <2>3, <2>5
<1>5. tx = [ins |-> tx.ins, outs |-> tx.outs]
      BY DEF BatchTx
<1>6. Len(valid) # 0
  <2>1. SUFFICES ASSUME valid = <<>> PROVE FALSE
        BY <1>4
  <2>2. [k \in DOMAIN valid |-> CreateOutputs(OutputValuesFor(valid[k].utxos, "single"),
                                              RequestHtlc(valid[k]), 0)] = <<>>
        BY <2>1
  <2>3. tx.outs = FlattenSeq(<<>>)
        BY <2>2 DEF BatchTx
  <2>4. tx.outs = <<>>
        BY <2>3 DEF FlattenSeq
  <2> QED BY <1>3, <2>4 DEF CanAdjust
<1>7. \E n \in Nat : \E U \in [1 .. n -> HtlcOutput] : Mirrors(tx, n, U)
  <2>1. CASE Len(valid) = 1
    <3>1. PICK r1 \in Requests : valid = <<r1>>
      <4>1. valid[1] \in Requests /\ valid = <<valid[1]>>
            BY <1>4, <2>1
      <4> QED BY <4>1
    <3>2. PICK S1 \in SUBSET HtlcOutput : r1.utxos \in SetToSeqs(S1)
          BY RequestIs
    <3> QED BY <3>1, <3>2, BatchOfOne
  <2>2. CASE Len(valid) = 2
    <3>1. PICK r1 \in Requests, r2 \in Requests : valid = <<r1, r2>>
      <4>1. valid[1] \in Requests /\ valid[2] \in Requests /\ valid = <<valid[1], valid[2]>>
            BY <1>4, <2>2
      <4> QED BY <4>1
    <3>2. PICK S1 \in SUBSET HtlcOutput : r1.utxos \in SetToSeqs(S1) /\ ListsOf(r1) = S1
          BY RequestIs
    <3>3. PICK S2 \in SUBSET HtlcOutput : r2.utxos \in SetToSeqs(S2) /\ ListsOf(r2) = S2
          BY RequestIs
    <3>4. S1 \cap S2 = {}
      <4>1. 1 \in 1 .. Len(valid) /\ 2 \in 1 .. Len(valid) /\ valid[1] = r1 /\ valid[2] = r2
            BY <2>2, <3>1
      <4>2. ListsOf(valid[1]) \cap ListsOf(valid[2]) = {}
        <5> HIDE DEF valid
        <5>1. \A j, k \in 1 .. Len(valid) :
                j # k => ListsOf(valid[j]) \cap ListsOf(valid[k]) = {}
              BY <1>4 DEF Checked
        <5>2. 1 # 2
              OBVIOUS
        <5> QED BY <4>1, <5>1, <5>2
      <4> QED BY <3>2, <3>3, <4>1, <4>2
    <3> HIDE DEF tx, valid
    <3>5. tx = BatchTx(<<r1, r2>>)
          BY <3>1 DEF tx
    <3> QED BY <3>2, <3>3, <3>4, <3>5, BatchOfTwo
  <2> QED BY <1>4, <1>6, <2>1, <2>2
<1> HIDE DEF tx, valid
<1>8. PICK n \in Nat : \E U \in [1 .. n -> HtlcOutput] : Mirrors(tx, n, U)
      BY <1>7
<1>9. PICK U \in [1 .. n -> HtlcOutput] : Mirrors(tx, n, U)
      BY <1>8
<1>10. PICK t : t = bhTx'
      OBVIOUS
<1>11. Sound(t) /\ Fair(t) /\ AnyAge(t)
      BY <1>2, <1>3, <1>5, <1>9, <1>10, BatchSigned
<1> QED BY <1>10, <1>11

\* Fairness stays as well.
LEMMA FairKept ==
  ASSUME ValuesKept, NEW tx, Sound(tx), Fair(tx)
  PROVE  Fair(tx)'
<1>1. /\ Worth(Spent(tx))' = Worth(Spent(tx))
      /\ \A i \in DOMAIN tx.ins : ValueAt(tx.ins[i].utxo)' = ValueAt(tx.ins[i].utxo)
      BY WorthKept DEF Sound
<1> QED BY <1>1 DEF Fair, TotalOut, EstimateFee

\* Together
HtlcInv == InstantInv /\ CheckInv /\ BatchInv /\ RefundInv

\* A signed batch stays as it was built until it is submitted.
LEMMA BatchStep ==
  ASSUME HtlcInv, ValuesKept, [HtlcNext]_htlcVars
  PROVE  BatchInv'
<1>1. CASE BuildBatch
  <2> SUFFICES ASSUME bhPc' = "batched" PROVE (Sound(bhTx) /\ Fair(bhTx) /\ AnyAge(bhTx))'
      BY DEF BatchInv
  <2>1. Sound(bhTx') /\ Fair(bhTx') /\ AnyAge(bhTx')
        BY <1>1, BatchBuilt DEF HtlcInv, InstantInv
  <2>2. PICK t : t = bhTx'
        OBVIOUS
  <2>3. Sound(t)' /\ Fair(t)'
        BY <2>1, <2>2, SoundKept, FairKept
  <2>4. Sound(bhTx)' /\ Fair(bhTx)'
        BY <2>2, <2>3 DEF Sound, Fair
  <2> QED BY <2>1, <2>4 DEF AnyAge
<1>2. CASE ChainMoves \/ UNCHANGED htlcVars
  <2> SUFFICES ASSUME bhPc = "batched", bhTx' = bhTx
               PROVE  (Sound(bhTx) /\ Fair(bhTx) /\ AnyAge(bhTx))'
      BY <1>2 DEF ChainMoves, htlcVars, BatchInv
  <2>1. PICK t : t = bhTx
        OBVIOUS
  <2>2. Sound(t)' /\ Fair(t)'
        BY <2>1, SoundKept, FairKept DEF HtlcInv, BatchInv
  <2>3. Sound(bhTx)' /\ Fair(bhTx)'
        BY <2>1, <2>2 DEF Sound, Fair
  <2> QED BY <2>3 DEF HtlcInv, BatchInv, AnyAge
<1>3. CASE StartBatch \/ ValidateRequest \/ ListRefund \/ BuildRefund \/ SignInstantRefund
           \/ BuildInstantRefundSacp \/ ValidateSacp \/ SubmitTx
      BY <1>3 DEF StartBatch, ValidateRequest, ListRefund, BuildRefund, SignInstantRefund,
                  BuildInstantRefundSacp, ValidateSacp, SubmitTx, BatchInv
<1> QED BY <1>1, <1>2, <1>3 DEF HtlcNext

\* So does a refund.
LEMMA RefundStep ==
  ASSUME HtlcInv, ValuesKept, [HtlcNext]_htlcVars
  PROVE  RefundInv'
<1>1. CASE BuildRefund
  <2>1. bhPc' \in {"refunding", "failed"}
        BY <1>1 DEF BuildRefund
  <2> SUFFICES ASSUME bhPc' = "refunding"
               PROVE  (Sound(bhTx) /\ \A i \in DOMAIN bhTx.ins : bhTx.ins[i].seq = Timelock)'
      BY <2>1 DEF RefundInv
  <2>2. Sound(bhTx') /\ \A i \in DOMAIN bhTx'.ins : bhTx'.ins[i].seq = Timelock
        BY <1>1, RefundBuilt DEF HtlcInv, InstantInv
  <2>3. PICK t : t = bhTx'
        OBVIOUS
  <2>4. Sound(t)'
        BY <2>2, <2>3, SoundKept
  <2>5. Sound(bhTx)'
        BY <2>3, <2>4 DEF Sound
  <2> QED BY <2>2, <2>5
<1>2. CASE ChainMoves \/ UNCHANGED htlcVars
  <2>1. bhPc' = bhPc /\ bhTx' = bhTx /\ bhRequests' = bhRequests
        BY <1>2 DEF ChainMoves, htlcVars
  <2> SUFFICES ASSUME bhPc = "refunding"
               PROVE  (Sound(bhTx) /\ \A i \in DOMAIN bhTx.ins : bhTx.ins[i].seq = Timelock)'
      BY <2>1 DEF RefundInv, HtlcInv
  <2>2. PICK t : t = bhTx
        OBVIOUS
  <2>3. Sound(t)'
        BY <2>2, SoundKept DEF HtlcInv, RefundInv
  <2>4. Sound(bhTx)'
        BY <2>1, <2>2, <2>3 DEF Sound
  <2> QED BY <2>1, <2>4 DEF HtlcInv, RefundInv
<1>3. CASE ListRefund
  <2>1. PICK listing \in Listings : bhRequests' = listing
        BY <1>3 DEF ListRefund
  <2>2. \E S \in SUBSET HtlcOutput : listing \in SetToSeqs(S)
        BY ListingsAre
  <2> QED BY <1>3, <2>1, <2>2 DEF ListRefund, RefundInv
<1>4. CASE StartBatch \/ ValidateRequest \/ BuildBatch \/ SignInstantRefund
           \/ BuildInstantRefundSacp \/ ValidateSacp \/ SubmitTx
      BY <1>4 DEF StartBatch, ValidateRequest, BuildBatch, SignInstantRefund,
                  BuildInstantRefundSacp, ValidateSacp, SubmitTx, RefundInv
<1> QED BY <1>1, <1>2, <1>3, <1>4 DEF HtlcNext

\* The invariant of the three callers.
LEMMA HtlcInvariant == HtlcSpec => []HtlcInv
<1>1. HtlcInit => InstantInv /\ CheckInv /\ BatchInv /\ RefundInv
  <2> SUFFICES ASSUME HtlcInit PROVE InstantInv /\ CheckInv /\ BatchInv /\ RefundInv
      OBVIOUS
  <2>1. InstantInv
        BY InstantInit
  <2>2. bhPc = "start" /\ bhCheck.valid = <<>>
        BY DEF HtlcInit
  <2> QED BY <2>1, <2>2 DEF CheckInv, BatchInv, RefundInv
<1>2. HtlcInv /\ [HtlcNext]_htlcVars => HtlcInv'
  <2> SUFFICES ASSUME HtlcInv, [HtlcNext]_htlcVars PROVE HtlcInv'
      OBVIOUS
  <2>1. OutputsOK' /\ ValuesKept
        BY ChainStep DEF HtlcInv, InstantInv
  <2>2. SignedInv' /\ BuiltInv' /\ AgainstInv'
        BY <2>1, SignedStep, BuiltStep, AgainstStep DEF HtlcInv
  <2>3. CheckInv' /\ BatchInv' /\ RefundInv'
        BY <2>1, CheckStep, BatchStep, RefundStep DEF HtlcInv
  <2> QED BY <2>1, <2>2, <2>3 DEF HtlcInv, InstantInv
<1> QED BY <1>1, <1>2, PTL DEF HtlcSpec, HtlcInv

\* A sound transaction is accepted once its inputs are there and old enough.
LEMMA SoundAccepted ==
  ASSUME Sound(bhTx), InputsThere,
         \A i \in DOMAIN bhTx.ins : bhOut[bhTx.ins[i].utxo].age >= bhTx.ins[i].seq
  PROVE  NodeAccepts(bhTx)
BY DEF Sound, InputsThere, NodeAccepts

\* For any outputs and values, dust limit, timelock, sizes, rates and fees: a refund by the
\* timelock is refused only for an input that is gone or too young, and an instant refund
\* that was accepted against the outputs it spends is valid on chain (bitcoin crate:
\* build_refund_tx, build_instant_refund_sacp, validate_instant_refund_sacp_tx).
THEOREM RefundsHonouredHolds == HtlcSpec => []RefundsHonoured
<1>1. HtlcInv => RefundsHonoured
  <2> SUFFICES ASSUME HtlcInv, bhPc \in {"refunding", "accepted"}, InputsThere,
                      bhPc = "refunding" =>
                        \A i \in DOMAIN bhTx.ins : bhOut[bhTx.ins[i].utxo].age >= Timelock,
                      bhPc = "accepted" => InputSet = bhSigned.against.utxos
               PROVE  NodeAccepts(bhTx)
      BY DEF RefundsHonoured, InputSet
  <2>1. CASE bhPc = "refunding"
    <3>1. Sound(bhTx) /\ \A i \in DOMAIN bhTx.ins : bhTx.ins[i].seq = Timelock
          BY <2>1 DEF HtlcInv, RefundInv
    <3> QED BY <2>1, <3>1, SoundAccepted
  <2>2. CASE bhPc = "accepted"
        BY <2>2, AcceptedFromInv DEF HtlcInv
  <2> QED BY <2>1, <2>2
<1> QED BY <1>1, HtlcInvariant, PTL

\* For any outputs and values, sizes and rates: a batch of up to two requests that was
\* signed is one the node takes while its inputs are there, pays what its size asks for,
\* and shares that evenly (bitcoin crate: validate_spend_requests, adjust_outputs_for_fee).
THEOREM BatchVerifiesHolds == HtlcSpec => []BatchVerifies
<1>1. HtlcInv => BatchVerifies
  <2> SUFFICES ASSUME HtlcInv, bhPc = "batched"
               PROVE  /\ InputsThere => NodeAccepts(bhTx)
                      /\ Fair(bhTx)
      BY DEF BatchVerifies, Fair, InputValue
  <2>1. Sound(bhTx) /\ Fair(bhTx) /\ AnyAge(bhTx)
        BY DEF HtlcInv, BatchInv
  <2>2. \A i \in DOMAIN bhTx.ins : bhOut[bhTx.ins[i].utxo].age >= bhTx.ins[i].seq
    <3> SUFFICES ASSUME NEW i \in DOMAIN bhTx.ins
                 PROVE  bhOut[bhTx.ins[i].utxo].age >= bhTx.ins[i].seq
        OBVIOUS
    <3>1. bhTx.ins[i].utxo \in HtlcOutput /\ bhTx.ins[i].seq = MaxSequence
          BY <2>1 DEF Sound, AnyAge
    <3>2. bhOut[bhTx.ins[i].utxo].age \in Nat
          BY <3>1 DEF HtlcInv, InstantInv, OutputsOK
    <3> QED BY <3>1, <3>2 DEF MaxSequence
  <2> QED BY <2>1, <2>2, SoundAccepted
<1> QED BY <1>1, HtlcInvariant, PTL

\* For any outputs and any three orders they are listed in: an instant refund that was
\* signed, built and validated for the same outputs and fee is accepted (bitcoin crate:
\* sort_utxos, generate_instant_refund_hash, validate_instant_refund_sacp_tx).
THEOREM SacpRoundTripHolds == HtlcSpec => []SacpRoundTrip
<1>1. HtlcInv => SacpRoundTrip
      BY RoundTripFromInv DEF HtlcInv
<1> QED BY <1>1, HtlcInvariant, PTL
=============================================================================
