------------------------ MODULE ChainServicesProofs -------------------------
(***************************************************************************)
(* Proofs about the services on EVM and Solana chains, for any orders, blocks*)
(* and slots: what evm-watcher writes is on chain, what the executor remembers*)
(* as done is done, the row of a Solana swap says only what the program and *)
(* its finality have reached, and what btc-executor's builder hands out pays *)
(* for its size.                                                             *)
(***************************************************************************)
EXTENDS EvmWatcher, EvmExecutor, SolanaSwap, BtcTxBuilder, SequenceTheorems, SumLemmas

-----------------------------------------------------------------------------
(* evm-watcher. What a pass has read is what the contract says still, for   *)
(* an order's blocks are written once; and the height it counts from is one *)
(* the chain had.                                                           *)

\* The maximum and minimum of two numbers.
LEMMA MaxOfTwo ==
  ASSUME NEW a \in Int, NEW b \in Int
  PROVE  Max({a, b}) = IF a >= b THEN a ELSE b
<1> DEFINE m == IF a >= b THEN a ELSE b
<1>1. m \in {a, b} /\ \A y \in {a, b} : m >= y
      OBVIOUS
<1>2. \A x \in {a, b} : (\A y \in {a, b} : x >= y) => x = m
      OBVIOUS
<1> QED BY <1>1, <1>2 DEF Max

\* What Min chooses of two numbers.
LEMMA MinOfTwo ==
  ASSUME NEW a \in Int, NEW b \in Int
  PROVE  Min({a, b}) = IF a <= b THEN a ELSE b
<1> DEFINE m == IF a <= b THEN a ELSE b
<1>1. m \in {a, b} /\ \A y \in {a, b} : m <= y
      OBVIOUS
<1>2. \A x \in {a, b} : (\A y \in {a, b} : x <= y) => x = m
      OBVIOUS
<1> QED BY <1>1, <1>2 DEF Min

EvmOrders == [init : Nat, redeemed : Nat, refunded : Nat, agrees : BOOLEAN]
EvmRows == [init : Nat, redeem : Nat, refund : Nat, confs : Nat]

OrderOK(o) ==
  /\ o.init <= evmHeight /\ (o.agrees => o.init > 0)
  /\ o.init = 0 => o.redeemed = 0 /\ o.refunded = 0

\* the conjuncts of EvmRowsReal
RowAgrees(r, o) ==
  /\ r.init \in {0, o.init} /\ r.redeem \in {0, o.redeemed}
  /\ r.refund \in {0, o.refunded}
  /\ ~o.agrees => r = EmptyRow
  /\ r.confs > 0 => r.confs <= evmHeight - r.init + 1

\* No more confirmations than the initiation has.
ConfsOK(confs) ==
  \A s \in DOMAIN confs :
    /\ s \in EvmSwaps => evmOrder[s].agrees
    /\ confs[s] \in Nat
    /\ s \in EvmSwaps => confs[s] <= evmHeight - evmOrder[s].init + 1

PassShape(p) ==
  p = [step |-> p.step, rows |-> p.rows, orders |-> p.orders, height |-> p.height,
       swaps |-> p.swaps, ranges |-> p.ranges, confs |-> p.confs]

PassOK(p) ==
  PassShape(p) /\ p.height \in Nat /\ p.height <= evmHeight /\ ConfsOK(p.confs)

EvmInv ==
  /\ evmHeight \in Nat
  /\ evmOrder \in [EvmSwaps -> EvmOrders] /\ evmRow \in [EvmSwaps -> EvmRows]
  /\ \A s \in EvmSwaps : OrderOK(evmOrder[s]) /\ RowAgrees(evmRow[s], evmOrder[s])
  /\ PassOK(evmPass)

\* A watcher that is at rest holds nothing.
LEMMA NoPassOK == ASSUME EvmInv PROVE PassOK(NoPass)
BY DEF EvmInv, PassOK, PassShape, NoPass, ConfsOK

\* The invariant holds before the first block.
LEMMA EvmInitInv == EvmWatcherInit => EvmInv
<1> SUFFICES ASSUME EvmWatcherInit PROVE EvmInv
    OBVIOUS
<1>1. PassOK(evmPass)
      BY DEF EvmWatcherInit, PassOK, PassShape, NoPass, ConfsOK
<1> QED BY <1>1 DEF EvmWatcherInit, EvmInv, EvmOrders, EvmRows, EmptyOrder, EmptyRow,
                    OrderOK, RowAgrees

\* The invariant contains what the rows promise.
LEMMA EvmRowsFromInv == EvmInv => EvmRowsReal
BY DEF EvmInv, RowAgrees, EvmRowsReal

-----------------------------------------------------------------------------
(* A block adds to an order and takes nothing away.                        *)

\* An order that moves in a new block stays one a row may describe.
LEMMA MoveKeepsOrder ==
  ASSUME evmHeight \in Nat, evmHeight' = evmHeight + 1,
         NEW old \in EvmOrders, OrderOK(old),
         NEW r \in EvmRows, RowAgrees(r, old),
         NEW o \in OrderMoves(old, evmHeight + 1)
  PROVE  /\ o \in EvmOrders /\ OrderOK(o)' /\ RowAgrees(r, o)'
         /\ old.agrees => o.agrees /\ o.init = old.init
<1> DEFINE h == evmHeight + 1
<1>1. FulfilledAt(old) = 0 => old.redeemed = 0 /\ old.refunded = 0
      BY MaxOfTwo DEF FulfilledAt, EvmOrders
<1> DEFINE Inits == IF old.init = 0
                    THEN [init : {h}, redeemed : {0, h}, refunded : {0}, agrees : BOOLEAN]
                    ELSE {}
           Ends == IF old.init > 0 /\ FulfilledAt(old) = 0
                   THEN {[old EXCEPT !.redeemed = h], [old EXCEPT !.refunded = h]}
                   ELSE {}
           Good == /\ o \in EvmOrders /\ OrderOK(o)' /\ RowAgrees(r, o)'
                   /\ old.agrees => o.agrees /\ o.init = old.init
<1>2. OrderMoves(old, h) = {old} \cup Inits \cup Ends
      BY Zenon DEF OrderMoves
<1>3. CASE o = old
      BY <1>3 DEF OrderOK, RowAgrees, EvmOrders, EvmRows, EmptyRow
<1>4. CASE o \in Inits
  <2>1. /\ o \in EvmOrders /\ o.init = h
        /\ old.init = 0 /\ old.redeemed = 0 /\ old.refunded = 0 /\ ~old.agrees
        BY <1>4 DEF OrderOK, EvmOrders
  <2>2. r = EmptyRow
        BY <2>1 DEF RowAgrees
  <2> QED BY <2>1, <2>2 DEF OrderOK, RowAgrees, EmptyRow, EvmOrders
<1>5. CASE o \in Ends
  <2>1. /\ old.init > 0 /\ old.redeemed = 0 /\ old.refunded = 0
        /\ o = [old EXCEPT !.redeemed = h] \/ o = [old EXCEPT !.refunded = h]
        BY <1>1, <1>5
  <2>2. /\ o \in EvmOrders /\ o.init = old.init /\ o.agrees = old.agrees
        /\ o.redeemed \in {0, h} /\ o.refunded \in {0, h}
        BY <2>1 DEF EvmOrders
  <2> QED BY <2>1, <2>2 DEF OrderOK, RowAgrees, EvmOrders, EvmRows
<1> HIDE DEF Good, Inits, Ends
<1> QED BY <1>2, <1>3, <1>4, <1>5 DEF Good

\* A block can only add to what rows already say.
LEMMA BlockKeepsInv ==
  ASSUME EvmInv, EvmBlockMined
  PROVE  EvmInv'
<1> USE DEF EvmInv
<1>1. PICK t \in EvmSwaps : \E o \in OrderMoves(evmOrder[t], evmHeight + 1) :
        evmOrder' = [evmOrder EXCEPT ![t] = o]
      BY DEF EvmBlockMined
<1>2. PICK move \in OrderMoves(evmOrder[t], evmHeight + 1) :
        evmOrder' = [evmOrder EXCEPT ![t] = move]
      BY <1>1
<1>3. evmHeight' = evmHeight + 1 /\ UNCHANGED <<evmRow, evmPass>>
      BY DEF EvmBlockMined, evmWatcherMem
<1>4. \A s \in EvmSwaps :
        /\ evmOrder'[s] \in EvmOrders /\ OrderOK(evmOrder[s])'
        /\ RowAgrees(evmRow[s], evmOrder[s])'
        /\ evmOrder[s].agrees =>
             evmOrder'[s].agrees /\ evmOrder'[s].init = evmOrder[s].init
  <2> SUFFICES ASSUME NEW s \in EvmSwaps
               PROVE  /\ evmOrder'[s] \in EvmOrders /\ OrderOK(evmOrder[s])'
                      /\ RowAgrees(evmRow[s], evmOrder[s])'
                      /\ evmOrder[s].agrees =>
                           evmOrder'[s].agrees /\ evmOrder'[s].init = evmOrder[s].init
      OBVIOUS
  <2>1. evmOrder'[s] \in OrderMoves(evmOrder[s], evmHeight + 1)
    <3>1. evmOrder[s] \in OrderMoves(evmOrder[s], evmHeight + 1)
          BY Zenon DEF OrderMoves
    <3>2. evmOrder'[s] = IF s = t THEN move ELSE evmOrder[s]
          BY <1>2
    <3> QED BY <3>1, <3>2
  <2>2. DEFINE old == evmOrder[s] r == evmRow[s] o == evmOrder'[s]
  <2>3. old \in EvmOrders /\ OrderOK(old) /\ r \in EvmRows /\ RowAgrees(r, old)
        OBVIOUS
  <2>4. evmRow'[s] = r
        BY <1>3
  <2> HIDE DEF old, r, o
  <2> QED BY <1>3, <2>1, <2>3, <2>4, MoveKeepsOrder DEF old, r, o
<1>5. PassOK(evmPass)'
      BY <1>3, <1>4 DEF PassOK, PassShape, ConfsOK, EvmOrders
<1>6. evmOrder' \in [EvmSwaps -> EvmOrders]
      BY <1>2, <1>4
<1> QED BY <1>3, <1>4, <1>5, <1>6

-----------------------------------------------------------------------------
(* What is written.                                                        *)

\* The logs that validate_events lets through are of orders with the row's terms, and
\* name the blocks the contract's order has now.
EventsReal(events) ==
  \A e \in events :
    /\ e.swap \in EvmSwaps => evmOrder[e.swap].agrees
    /\ e.kind = "Initiate" => e.blk = evmOrder[e.swap].init
    /\ e.kind = "Redeem" => e.blk = evmOrder[e.swap].redeemed
    /\ e.kind = "Refund" => e.blk = evmOrder[e.swap].refunded

\* The events a range of blocks gives are of orders on chain.
LEMMA LogsReal ==
  ASSUME NEW range, NEW height
  PROVE  EventsReal(ValidatedEvents(EventsIn(range, height)))
<1> SUFFICES ASSUME NEW e \in ValidatedEvents(EventsIn(range, height))
             PROVE  /\ e.swap \in EvmSwaps => evmOrder[e.swap].agrees
                    /\ e.kind = "Initiate" => e.blk = evmOrder[e.swap].init
                    /\ e.kind = "Redeem" => e.blk = evmOrder[e.swap].redeemed
                    /\ e.kind = "Refund" => e.blk = evmOrder[e.swap].refunded
    BY DEF EventsReal
<1>1. e \in EventsIn(range, height) /\ evmOrder[e.swap].agrees
      BY DEF ValidatedEvents
<1>2. PICK s \in EvmSwaps :
        e \in {[swap |-> s, kind |-> "Initiate", blk |-> evmOrder[s].init],
               [swap |-> s, kind |-> "Redeem", blk |-> evmOrder[s].redeemed],
               [swap |-> s, kind |-> "Refund", blk |-> evmOrder[s].refunded]}
      BY <1>1 DEF EventsIn, Queried, EventsOf
<1> QED BY <1>1, <1>2

\* the block that one of the three statements writes
LEMMA BlockReal ==
  ASSUME NEW events, EventsReal(events), NEW s \in EvmSwaps, NEW kind,
         HasEvent(events, s, kind)
  PROVE  /\ evmOrder[s].agrees
         /\ kind = "Initiate" => BlockOf(events, s, kind) = evmOrder[s].init
         /\ kind = "Redeem" => BlockOf(events, s, kind) = evmOrder[s].redeemed
         /\ kind = "Refund" => BlockOf(events, s, kind) = evmOrder[s].refunded
<1> DEFINE e == CHOOSE x \in events : x.swap = s /\ x.kind = kind
<1>1. e \in events /\ e.swap = s /\ e.kind = kind
      BY DEF HasEvent
<1> HIDE DEF e
<1>2. BlockOf(events, s, kind) = e.blk
      BY DEF BlockOf, e
<1> QED BY <1>1, <1>2 DEF EventsReal

\* A row after update_events, whichever statement was the last.
RowsOK(rows) ==
  /\ rows \in [EvmSwaps -> EvmRows]
  /\ \A s \in EvmSwaps : RowAgrees(rows[s], evmOrder[s])

\* What is written of real events is on chain, however far the writes got.
LEMMA RecordedReal ==
  ASSUME EvmInv, NEW events, EventsReal(events), NEW done \in 0 .. 3
  PROVE  RowsOK(Recorded(evmRow, events, done))
<1> DEFINE new == Recorded(evmRow, events, done)
<1> SUFFICES ASSUME NEW s \in EvmSwaps
             PROVE  new[s] \in EvmRows /\ RowAgrees(new[s], evmOrder[s])
    BY DEF RowsOK, Recorded
<1> DEFINE r == evmRow[s] o == evmOrder[s]
           set(kind, n, old) == IF done >= n /\ HasEvent(events, s, kind)
                                THEN BlockOf(events, s, kind) ELSE old
<1>1. r \in EvmRows /\ o \in EvmOrders /\ OrderOK(o) /\ RowAgrees(r, o) /\ evmHeight \in Nat
      BY DEF EvmInv
<1>2. new[s] = [init |-> set("Initiate", 1, r.init), redeem |-> set("Redeem", 2, r.redeem),
                refund |-> set("Refund", 3, r.refund),
                confs |-> IF done >= 1 /\ HasEvent(events, s, "Initiate")
                          THEN 1 ELSE r.confs]
      BY DEF Recorded
<1>3. CASE \E kind \in {"Initiate", "Redeem", "Refund"} : HasEvent(events, s, kind)
  <2>1. o.agrees
        BY <1>3, BlockReal
  <2>2. /\ set("Initiate", 1, r.init) \in {r.init, o.init}
        /\ set("Redeem", 2, r.redeem) \in {r.redeem, o.redeemed}
        /\ set("Refund", 3, r.refund) \in {r.refund, o.refunded}
        BY BlockReal
  <2>3. done >= 1 /\ HasEvent(events, s, "Initiate") =>
          set("Initiate", 1, r.init) = o.init
        BY BlockReal
  <2> HIDE DEF new, set, r, o
  <2>4. new[s] \in EvmRows
        BY <1>1, <1>2, <2>2 DEF EvmRows, EvmOrders
  <2>5. new[s].init \in {r.init, o.init} /\ new[s].redeem \in {r.redeem, o.redeemed}
        /\ new[s].refund \in {r.refund, o.refunded}
        BY <1>2, <2>2
  <2>6. \/ new[s].confs = 1 /\ new[s].init = o.init
        \/ new[s].confs = r.confs /\ new[s].init = r.init
        BY <1>2, <2>3 DEF set
  <2>7. o.init \in Nat /\ o.init <= evmHeight /\ r.init \in Nat /\ r.confs \in Nat
        BY <1>1 DEF OrderOK, EvmRows, EvmOrders
  <2>9. /\ r.init \in {0, o.init} /\ r.redeem \in {0, o.redeemed}
        /\ r.refund \in {0, o.refunded}
        /\ r.confs > 0 => r.confs <= evmHeight - r.init + 1
        BY <1>1 DEF RowAgrees
  <2>8. new[s].confs > 0 => new[s].confs <= evmHeight - new[s].init + 1
        BY <1>1, <2>6, <2>7, <2>9
  <2>10. RowAgrees(new[s], o)
        BY <2>1, <2>5, <2>8, <2>9 DEF RowAgrees
  <2> QED BY <2>4, <2>10 DEF o
<1>4. CASE ~ \E kind \in {"Initiate", "Redeem", "Refund"} : HasEvent(events, s, kind)
  <2>1. new[s] = [init |-> r.init, redeem |-> r.redeem, refund |-> r.refund,
                  confs |-> r.confs]
        BY <1>2, <1>4
  <2>2. new[s] = r
        BY <1>1, <2>1 DEF EvmRows
  <2> QED BY <1>1, <2>2
<1> QED BY <1>3, <1>4

\* collect_initiated_event_confirmations, as of a height the chain has had.
LEMMA CollectedReal ==
  ASSUME EvmInv, NEW events, EventsReal(events)
  PROVE  ConfsOK(Collected(events))
<1> SUFFICES ASSUME NEW s \in EvmSwaps, HasEvent(events, s, "Initiate")
             PROVE  /\ evmOrder[s].agrees
                    /\ Collected(events)[s] \in Nat
                    /\ Collected(events)[s] <= evmHeight - evmOrder[s].init + 1
    BY DEF ConfsOK, Collected
<1> DEFINE o == evmOrder[s] n == evmPass.height + 1 - o.init
<1>1. /\ o \in EvmOrders /\ OrderOK(o) /\ evmHeight \in Nat
      /\ evmPass.height \in Nat /\ evmPass.height <= evmHeight
      BY DEF EvmInv, PassOK
<1>2. o.agrees /\ BlockOf(events, s, "Initiate") = o.init
      BY BlockReal
<1>3. n \in Int /\ n <= evmHeight - o.init + 1 /\ 0 <= evmHeight - o.init + 1
      BY <1>1 DEF OrderOK, EvmOrders
<1>4. Collected(events)[s] = Min({Max({n, 0}), EvmRequired})
      BY <1>2 DEF Collected
<1> HIDE DEF n, o
<1>5. Max({n, 0}) = IF n >= 0 THEN n ELSE 0
      BY <1>3, MaxOfTwo
<1>6. EvmRequired \in Nat
      BY EvmWatcherConstants
<1>7. Max({n, 0}) \in Nat
      BY <1>3, <1>5
<1>a. Max({n, 0}) \in Int /\ EvmRequired \in Int
      BY <1>6, <1>7
<1>8. Collected(events)[s] = IF Max({n, 0}) <= EvmRequired THEN Max({n, 0}) ELSE EvmRequired
      BY <1>4, <1>a, MinOfTwo, Zenon
<1>9. o.init \in Nat
      BY <1>1 DEF EvmOrders
<1> QED BY <1>1, <1>2, <1>3, <1>5, <1>6, <1>7, <1>8, <1>9 DEF o

\* store_confirmations and what is left of it when it fails
LEMMA ConfirmedReal ==
  ASSUME EvmInv, NEW confs, ConfsOK(confs)
  PROVE  RowsOK(Confirmed(evmRow, confs))
<1> DEFINE new == Confirmed(evmRow, confs)
<1> SUFFICES ASSUME NEW s \in EvmSwaps
             PROVE  new[s] \in EvmRows /\ RowAgrees(new[s], evmOrder[s])
    BY DEF RowsOK, Confirmed
<1> DEFINE r == evmRow[s] o == evmOrder[s]
<1>1. /\ r \in EvmRows /\ o \in EvmOrders /\ OrderOK(o) /\ RowAgrees(r, o)
      /\ evmHeight \in Nat /\ EvmRequired \in Nat
      BY EvmWatcherConstants DEF EvmInv
<1>2. CASE s \in DOMAIN confs
  <2>1. new[s] = [r EXCEPT !.confs = Min({EvmRequired, confs[s]})]
        BY <1>2 DEF Confirmed
  <2>2. o.agrees /\ confs[s] \in Nat /\ confs[s] <= evmHeight - o.init + 1
        BY <1>2 DEF ConfsOK
  <2>3. Min({EvmRequired, confs[s]}) \in Nat /\ Min({EvmRequired, confs[s]}) <= confs[s]
        BY <1>1, <2>2, MinOfTwo
  <2> HIDE DEF new, r, o
  <2>5. \A x \in EvmRows, n \in Nat :
          /\ [x EXCEPT !.confs = n] \in EvmRows /\ [x EXCEPT !.confs = n].confs = n
          /\ [x EXCEPT !.confs = n].init = x.init /\ [x EXCEPT !.confs = n].redeem = x.redeem
          /\ [x EXCEPT !.confs = n].refund = x.refund
        BY DEF EvmRows
  <2>6. o.init \in Nat
        BY <1>1 DEF EvmOrders
  <2>4. /\ new[s] \in EvmRows /\ new[s].init = r.init /\ new[s].redeem = r.redeem
        /\ new[s].refund = r.refund /\ new[s].confs <= evmHeight - o.init + 1
        BY <1>1, <2>1, <2>2, <2>3, <2>5, <2>6
  <2>7. /\ r.init \in {0, o.init} /\ r.redeem \in {0, o.redeemed}
        /\ r.refund \in {0, o.refunded} /\ r.init \in Nat /\ o.init <= evmHeight
        BY <1>1 DEF RowAgrees, EvmRows, OrderOK
  <2>8. new[s].confs \in Nat
        BY <2>4 DEF EvmRows
  <2>9. new[s].confs <= evmHeight - new[s].init + 1
        BY <1>1, <2>4, <2>6, <2>7, <2>8
  <2>10. RowAgrees(new[s], o)
        BY <2>2, <2>4, <2>7, <2>9 DEF RowAgrees
  <2> QED BY <2>4, <2>10 DEF o
<1>3. CASE s \notin DOMAIN confs
      BY <1>1, <1>3 DEF Confirmed
<1> QED BY <1>2, <1>3

-----------------------------------------------------------------------------
(* The steps of a pass.                                                    *)

\* Only the rows and the pass change.
LEMMA PassStepKeepsInv ==
  ASSUME EvmInv, UNCHANGED evmChain, RowsOK(evmRow'), PassOK(evmPass')
  PROVE  EvmInv'
BY DEF EvmInv, evmChain, RowsOK, RowAgrees, OrderOK, PassOK, PassShape, ConfsOK

\* The fields of a pass that the invariant leaves open.
LEMMA OpenFields ==
  ASSUME NEW p, PassOK(p), NEW x
  PROVE  /\ PassOK([p EXCEPT !.step = x]) /\ PassOK([p EXCEPT !.rows = x])
         /\ PassOK([p EXCEPT !.orders = x])
<1>1. ASSUME NEW st, NEW rows, NEW orders, NEW h, NEW swaps, NEW ranges, NEW confs,
             p = [step |-> st, rows |-> rows, orders |-> orders, height |-> h,
                  swaps |-> swaps, ranges |-> ranges, confs |-> confs]
      PROVE  /\ PassOK([p EXCEPT !.step = x]) /\ PassOK([p EXCEPT !.rows = x])
             /\ PassOK([p EXCEPT !.orders = x])
  <2>1. /\ [p EXCEPT !.step = x] =
             [step |-> x, rows |-> rows, orders |-> orders, height |-> h,
              swaps |-> swaps, ranges |-> ranges, confs |-> confs]
        /\ [p EXCEPT !.rows = x] =
             [step |-> st, rows |-> x, orders |-> orders, height |-> h,
              swaps |-> swaps, ranges |-> ranges, confs |-> confs]
        /\ [p EXCEPT !.orders = x] =
             [step |-> st, rows |-> rows, orders |-> x, height |-> h,
              swaps |-> swaps, ranges |-> ranges, confs |-> confs]
        BY <1>1
  <2>2. h \in Nat /\ h <= evmHeight /\ ConfsOK(confs)
        BY <1>1 DEF PassOK
  <2> QED BY <2>1, <2>2 DEF PassOK, PassShape
<1> QED BY <1>1 DEF PassOK, PassShape

\* A pass that has fetched rows and orders.
LEMMA FetchedPass ==
  ASSUME NEW p, PassOK(p), NEW rows, NEW orders
  PROVE  PassOK([p EXCEPT !.step = "height", !.rows = rows, !.orders = orders])
<1> DEFINE a == [p EXCEPT !.step = "height"]
           b == [a EXCEPT !.rows = rows]
<1>1. PassOK(a)
      BY OpenFields
<1>2. PassOK(b)
  <2> HIDE DEF a
  <2> QED BY <1>1, OpenFields
<1>3. PassOK([b EXCEPT !.orders = orders])
  <2> HIDE DEF b
  <2> QED BY <1>2, OpenFields
<1> QED BY <1>3

\* Reading the database and the height changes no row.
LEMMA FetchKeepsInv ==
  ASSUME EvmInv, WatchFetchesOrders \/ \E h \in NodeHeights : WatchReadsHeight(h)
  PROVE  EvmInv'
<1>1. UNCHANGED evmChain /\ RowsOK(evmRow')
      BY DEF WatchFetchesOrders, WatchReadsHeight, EvmInv, RowsOK
<1>2. evmHeight \in Nat
      BY DEF EvmInv
<1>3. PassOK(evmPass')
  <2>1. CASE WatchFetchesOrders
    <3>1. PICK rows, orders :
            evmPass' = [NoPass EXCEPT !.step = "height", !.rows = rows, !.orders = orders]
          BY <2>1 DEF WatchFetchesOrders
    <3>2. PassOK([NoPass EXCEPT !.step = "height", !.rows = rows, !.orders = orders])
          BY NoPassOK, FetchedPass
    <3> QED BY <3>1, <3>2
  <2>2. ASSUME NEW h \in NodeHeights, WatchReadsHeight(h) PROVE PassOK(evmPass')
    <3>1. h \in Nat /\ h <= evmHeight
          BY <1>2, EvmWatcherConstants DEF NodeHeights, Height
    <3>2. \/ evmPass' = NoPass
          \/ \E chosen, ranges :
               evmPass' = [NoPass EXCEPT !.step = "events", !.height = h,
                             !.swaps = chosen, !.ranges = ranges]
          BY <2>2, Zenon DEF WatchReadsHeight
    <3> QED BY <3>1, <3>2, NoPassOK DEF NoPass, PassOK, PassShape, ConfsOK
  <2> QED BY <2>1, <2>2
<1> QED BY <1>1, <1>3, PassStepKeepsInv

\* Storing a range writes events of orders on chain, and keeps their confirmations.
LEMMA StoreKeepsInv ==
  ASSUME EvmInv, NEW height, WatchStoresRange(height)
  PROVE  EvmInv'
<1> DEFINE events == ValidatedEvents(EventsIn(Head(evmPass.ranges), height))
           confs == CollectedOver(evmPass.confs, events)
<1>1. UNCHANGED evmChain /\ evmRow' = Recorded(evmRow, events, 3)
      BY DEF WatchStoresRange
<1>2. EventsReal(events)
      BY LogsReal
<1>3. RowsOK(evmRow')
      BY <1>1, <1>2, RecordedReal
<1>4. evmPass' = [evmPass EXCEPT !.ranges = Tail(evmPass.ranges), !.confs = confs,
                    !.step = IF Tail(evmPass.ranges) = <<>> THEN "confs" ELSE @]
      BY Zenon DEF WatchStoresRange
<1> HIDE DEF events
<1>5. ConfsOK(confs)
  <2>1. ConfsOK(Collected(events)) /\ ConfsOK(evmPass.confs)
        BY <1>2, CollectedReal DEF EvmInv, PassOK
  <2>2. \A s \in DOMAIN confs :
          \/ s \in DOMAIN Collected(events) /\ confs[s] = Collected(events)[s]
          \/ s \in DOMAIN evmPass.confs /\ confs[s] = evmPass.confs[s]
        BY DEF CollectedOver
  <2> HIDE DEF confs
  <2> QED BY <2>1, <2>2 DEF ConfsOK
<1> HIDE DEF confs
<1>6. PassShape(evmPass) /\ evmPass.height \in Nat /\ evmPass.height <= evmHeight
      BY DEF EvmInv, PassOK
<1>7. PassOK(evmPass')
      BY <1>4, <1>5, <1>6 DEF PassOK, PassShape
<1> QED BY <1>1, <1>3, <1>7, PassStepKeepsInv

\* The end of a pass: confirmations are written, or lost with the pass.
LEMMA EndKeepsInv ==
  ASSUME EvmInv, WatchFails \/ WatchStoresConfs \/ WatchLosesConfs
  PROVE  EvmInv'
<1>1. UNCHANGED evmChain /\ PassOK(evmPass')
      BY NoPassOK DEF WatchFails, WatchStoresConfs, WatchLosesConfs
<1>2. ConfsOK(evmPass.confs)
      BY DEF EvmInv, PassOK
<1>3. RowsOK(evmRow')
  <2>1. CASE WatchFails
    <3>1. PICK done \in 0 .. 2 :
            evmRow' = Recorded(evmRow, ValidatedEvents(EventsIn(Head(evmPass.ranges),
                                                                evmHeight)), done)
          BY <2>1 DEF WatchFails
    <3> QED BY <3>1, LogsReal, RecordedReal
  <2>2. CASE WatchStoresConfs
        BY <1>2, <2>2, ConfirmedReal DEF WatchStoresConfs
  <2>3. CASE WatchLosesConfs
    <3>1. PICK written \in SUBSET DOMAIN evmPass.confs :
            evmRow' = Confirmed(evmRow, [s \in written |-> evmPass.confs[s]])
          BY <2>3 DEF WatchLosesConfs
    <3>2. ConfsOK([s \in written |-> evmPass.confs[s]])
          BY <1>2 DEF ConfsOK
    <3> QED BY <3>1, <3>2, ConfirmedReal
  <2> QED BY <2>1, <2>2, <2>3
<1> QED BY <1>1, <1>3, PassStepKeepsInv

\* Every step of the watcher and of the chain keeps the invariant.
LEMMA EvmNextKeepsInv == EvmInv /\ [EvmWatcherNext]_evmWatcherVars => EvmInv'
<1> SUFFICES ASSUME EvmInv, [EvmWatcherNext]_evmWatcherVars PROVE EvmInv'
    OBVIOUS
<1>1. CASE \/ \E s \in EvmSwaps : EvmDeadlinePasses(s)
           \/ ReloadReads \/ ReloadInserts \/ UNCHANGED evmWatcherVars
  <2>1. UNCHANGED <<evmHeight, evmOrder, evmRow, evmPass>>
        BY <1>1 DEF EvmDeadlinePasses, ReloadReads, ReloadInserts, evmWatcherVars, evmChain,
                    evmWatcherMem
  <2> QED BY <2>1 DEF EvmInv, OrderOK, RowAgrees, PassOK, PassShape, ConfsOK
<1>2. CASE EvmWatcherRestarts
  <2>1. UNCHANGED evmChain /\ evmRow' = evmRow /\ evmPass' = NoPass
        BY <1>2 DEF EvmWatcherRestarts
  <2>2. RowsOK(evmRow') /\ PassOK(evmPass')
        BY <2>1, NoPassOK DEF RowsOK, EvmInv
  <2> QED BY <2>1, <2>2, PassStepKeepsInv
<1> QED BY <1>1, <1>2, BlockKeepsInv, FetchKeepsInv, StoreKeepsInv, EndKeepsInv
        DEF EvmWatcherNext

\* Whatever the caches, nodes and broken passes mix, a row says what the contract says of
\* an order with the row's terms, with no more confirmations than its initiation has
\* (evm-watcher: watch, update_events, store_confirmations).
THEOREM EvmRowsRealHolds == EvmWatcherSpec => []EvmRowsReal
<1>1. EvmWatcherSpec => []EvmInv
      BY EvmInitInv, EvmNextKeepsInv, PTL DEF EvmWatcherSpec
<1> QED BY <1>1, EvmRowsFromInv, PTL

-----------------------------------------------------------------------------
(* The executor of EVM orders.                                             *)

ChainStates == {"none", "initiated", "redeemed", "refunded"}

\* Requests as the order mapper makes them: of a claimed order redeem and instant refund,
\* of one that is paid the other two.
Mapped == {req \in ExRequest : req.act \in {"Redeem", "InstantRefund"} <=> req.order \in Claimed}

\* It maps an order to one action.
Batches == {b \in SUBSET Mapped : \A req, other \in b : req.order = other.order => req.act = other.act}

IsDone(req) ==
  IF req.act = "Initiate" THEN exChain[req.order] # "none"
  ELSE exChain[req.order] = Done(req.act)

TxsOK ==
  /\ exTx \in [ExSlot -> [status : {"void", "waiting", "confirmed", "reverted"},
                          batch : Batches]]
  /\ \A i \in ExSlot : exTx[i].status = "confirmed" => \A req \in exTx[i].batch : IsDone(req)

\* While the handler watches, the slots it follows hold its own batch or nothing.
RunOK ==
  /\ DOMAIN exRun = {"step", "batch", "hash", "queue", "attempts"}
  /\ exRun.batch \in Batches
  /\ exRun.step # "watch" => exRun.queue = <<>>
  /\ exRun.step = "watch" =>
       /\ exRun.hash \in ExSlot /\ exRun.queue \in Seq(ExSlot)
       /\ \A i \in Followed(exRun) : exTx[i].status # "void" => exTx[i].batch = exRun.batch

ExecutorInv ==
  /\ exChain \in [ExOrder -> ChainStates]
  /\ TxsOK /\ RunOK
  /\ exCache \subseteq Mapped /\ \A req \in exCache : IsDone(req)

\* The invariant contains the property.
LEMMA CachedByInv == ExecutorInv => ExCachedIsDone
BY DEF ExecutorInv, IsDone, ExCachedIsDone

\* The invariant holds at the start, with an empty cache.
LEMMA ExecutorInitInv == ExecutorInit => ExecutorInv
<1> SUFFICES ASSUME ExecutorInit PROVE ExecutorInv
    OBVIOUS
<1>1. exChain \in [ExOrder -> ChainStates]
      BY DEF ExecutorInit, ChainStates
<1>2. TxsOK
      BY DEF ExecutorInit, TxsOK, UnusedTx, Batches
<1>3. RunOK
      BY DEF ExecutorInit, RunOK, ExIdle, Batches
<1> QED BY <1>1, <1>2, <1>3 DEF ExecutorInv, ExecutorInit

ChainGrows ==
  \A o \in ExOrder : \/ exChain'[o] = exChain[o]
                     \/ exChain[o] = "none" /\ exChain'[o] # "none"
                     \/ exChain[o] = "initiated" /\ exChain'[o] \in {"redeemed", "refunded"}

\* Nothing done is undone.
LEMMA DoneStays ==
  ASSUME ChainGrows, NEW req \in Mapped, IsDone(req)
  PROVE  IsDone(req)'
BY DEF ChainGrows, Mapped, ExRequest, ExAction, IsDone, Done

\* The handler forgets slots and nothing else.
LEMMA RememberedOK ==
  ASSUME TxsOK, NEW run
  PROVE  /\ Remembered(exTx, run) \in
               [ExSlot -> [status : {"void", "waiting", "confirmed", "reverted"},
                           batch : Batches]]
         /\ \A i \in ExSlot : Remembered(exTx, run)[i] \in {exTx[i], UnusedTx}
BY DEF TxsOK, Remembered, UnusedTx, Batches

\* Two requests of an order that a mined batch performs are the same one.
LEMMA MinedDone ==
  ASSUME exChain \in [ExOrder -> ChainStates], NEW batch \in Batches,
         \A req \in batch : Performable(req), exChain' = Performed(batch)
  PROVE  /\ exChain' \in [ExOrder -> ChainStates] /\ ChainGrows
         /\ \A req \in batch : IsDone(req)'
<1>1. \A req \in batch, other \in batch : req.order = other.order => req.act = other.act
      BY DEF Batches
<1>2. \A o \in ExOrder : (\E req \in batch : req.order = o) =>
        \E req \in batch : req.order = o /\ exChain'[o] = Done(req.act)
      BY DEF Performed
<1>3. \A o \in ExOrder : ~(\E req \in batch : req.order = o) => exChain'[o] = exChain[o]
      BY DEF Performed
<1>4. \A req \in batch : Done(req.act) \in ChainStates \ {"none"} /\ req.order \in ExOrder
      BY DEF Done, Batches, Mapped, ExRequest, ExAction, ChainStates
<1>5. exChain' \in [ExOrder -> ChainStates]
  <2>1. \A o \in ExOrder : exChain'[o] \in ChainStates
        BY <1>2, <1>3, <1>4
  <2> QED BY <2>1 DEF Performed
<1>6. ChainGrows
  <2> SUFFICES ASSUME NEW o \in ExOrder, exChain'[o] # exChain[o]
               PROVE  \/ exChain[o] = "none" /\ exChain'[o] # "none"
                      \/ exChain[o] = "initiated" /\ exChain'[o] \in {"redeemed", "refunded"}
      BY DEF ChainGrows
  <2>1. PICK req \in batch : req.order = o /\ exChain'[o] = Done(req.act)
        BY <1>2, <1>3
  <2> QED BY <2>1, <1>4 DEF Performable, Done, Batches, Mapped, ExRequest, ExAction
<1>7. \A req \in batch : IsDone(req)'
  <2> SUFFICES ASSUME NEW req \in batch PROVE IsDone(req)'
      OBVIOUS
  <2>1. exChain'[req.order] = Done(req.act)
        BY <1>1, <1>2, <1>4
  <2> QED BY <2>1, <1>4 DEF IsDone
<1> QED BY <1>5, <1>6, <1>7

\* What an account's transaction may become while the handler does not look: what it
\* was, nothing, or mined with its batch done.
LEMMA OutsideKeeps ==
  ASSUME ExecutorInv, exChain' \in [ExOrder -> ChainStates], ChainGrows,
         UNCHANGED <<exCache, exRun>>, TxsOK',
         \A i \in ExSlot : exTx'[i].status # "void" => exTx'[i].batch = exTx[i].batch
                                                     /\ exTx[i].status # "void"
  PROVE  ExecutorInv'
<1>1. \A req \in exCache : IsDone(req)'
      BY DoneStays DEF ExecutorInv
<1>2. RunOK'
  <2>1. Followed(exRun)' = Followed(exRun)
        BY DEF Followed
  <2>2. exRun.step = "watch" => Followed(exRun) \subseteq ExSlot
        BY DEF ExecutorInv, RunOK, Followed
  <2> QED BY <2>1, <2>2 DEF ExecutorInv, RunOK
<1> QED BY <1>1, <1>2 DEF ExecutorInv

\* Users, rows and time change nothing the executor remembers.
LEMMA UsersKeep ==
  ASSUME ExecutorInv, NEW o \in ExOrder,
         ExOrderPlaced(o) \/ ExRowCatchesUp(o) \/ ExUserActs(o) \/ ExExpires(o)
  PROVE  ExecutorInv'
<1>1. UNCHANGED <<exTx, exCache, exRun>>
      BY DEF ExOrderPlaced, ExRowCatchesUp, ExUserActs, ExExpires
<1>2. exChain' \in [ExOrder -> ChainStates] /\ ChainGrows
      BY DEF ExOrderPlaced, ExRowCatchesUp, ExUserActs, ExExpires, ChainGrows, ExecutorInv,
             ChainStates
<1>3. TxsOK'
      BY <1>1, <1>2, DoneStays DEF ExecutorInv, TxsOK, Batches
<1> QED BY <1>1, <1>2, <1>3, OutsideKeeps DEF ExecutorInv, TxsOK

\* A mined transaction does its whole batch, or none of it.
LEMMA BlocksKeep ==
  ASSUME ExecutorInv, NEW i \in ExSlot, ExTxMined(i) \/ ExTxDropped(i)
  PROVE  ExecutorInv'
<1> DEFINE Records == [status : {"void", "waiting", "confirmed", "reverted"}, batch : Batches]
<1>t. exTx \in [ExSlot -> Records] /\ exChain \in [ExOrder -> ChainStates]
      BY DEF ExecutorInv, TxsOK
<1>u. UnusedTx \in Records /\ UnusedTx.status = "void"
      BY DEF UnusedTx, Batches
<1>1. CASE ExTxMined(i)
  <2> DEFINE result == MinedResult(exTx[i].batch)
             mined == [exTx[i] EXCEPT !.status = result.status]
             txs == [j \in ExSlot |-> IF j = i THEN mined
                                      ELSE IF exTx[j].status = "waiting" THEN UnusedTx
                                      ELSE exTx[j]]
  <2>1. /\ exTx[i].status = "waiting" /\ exTx' = Remembered(txs, exRun)
        /\ exChain' = Performed(result.done) /\ UNCHANGED <<exCache, exRun>>
        BY <1>1 DEF ExTxMined
  <2>2. /\ result.status \in {"confirmed", "reverted"} /\ result.done \in Batches
        /\ result.status = "confirmed" => result.done = exTx[i].batch
        /\ \A req \in result.done : Performable(req)
        BY <1>t DEF MinedResult, Batches
  <2> HIDE DEF result
  <2>3. mined \in Records /\ mined.status = result.status /\ mined.batch = exTx[i].batch
        BY <1>t, <2>2
  <2> HIDE DEF mined
  <2>5. \A j \in ExSlot : exTx'[j] \in {UnusedTx, exTx[j]} \/ (j = i /\ exTx'[j] = mined)
        BY <2>1 DEF Remembered
  <2>6. exTx' \in [ExSlot -> Records]
    <3>1. \A j \in ExSlot : exTx'[j] \in Records
          BY <1>t, <1>u, <2>3, <2>5
    <3> QED BY <2>1, <3>1 DEF Remembered
  <2>7. /\ exChain' \in [ExOrder -> ChainStates] /\ ChainGrows
        /\ \A req \in result.done : IsDone(req)'
        BY <1>t, <2>1, <2>2, MinedDone
  <2>8. TxsOK'
    <3> SUFFICES ASSUME NEW j \in ExSlot, exTx'[j].status = "confirmed",
                        NEW req \in exTx'[j].batch
                 PROVE  IsDone(req)'
        BY <2>6 DEF TxsOK
    <3>1. CASE j = i /\ exTx'[j] = mined
          BY <2>2, <2>3, <2>7, <3>1
    <3>2. CASE exTx'[j] = exTx[j]
      <4>1. IsDone(req) /\ req \in Mapped
            BY <1>t, <3>2 DEF ExecutorInv, TxsOK, Batches
      <4> QED BY <4>1, <2>7, DoneStays
    <3> QED BY <1>u, <2>5, <3>1, <3>2
  <2>9. \A j \in ExSlot : exTx'[j].status # "void" => exTx'[j].batch = exTx[j].batch
                                                     /\ exTx[j].status # "void"
        BY <1>u, <2>1, <2>3, <2>5
  <2> QED BY <2>1, <2>7, <2>8, <2>9, OutsideKeeps
<1>2. CASE ExTxDropped(i)
  <2>1. exTx' = [exTx EXCEPT ![i] = UnusedTx] /\ UNCHANGED <<exChain, exCache, exRun>>
        BY <1>2 DEF ExTxDropped, exOutside
  <2>2. exTx' \in [ExSlot -> Records]
        BY <1>t, <1>u, <2>1
  <2>3. ChainGrows
        BY <2>1 DEF ChainGrows
  <2>4. TxsOK'
        BY <1>t, <1>u, <2>1, <2>2 DEF ExecutorInv, TxsOK, IsDone
  <2>5. \A j \in ExSlot : exTx'[j].status # "void" => exTx'[j].batch = exTx[j].batch
                                                     /\ exTx[j].status # "void"
        BY <1>t, <1>u, <2>1
  <2> QED BY <1>t, <2>1, <2>3, <2>4, <2>5, OutsideKeeps
<1> QED BY <1>1, <1>2

\* The executor's own steps leave the chain alone; what they have to show is this.
LEMMA LoopKeeps ==
  ASSUME ExecutorInv, exChain' = exChain, TxsOK', RunOK',
         \A req \in exCache' : req \in exCache \/ (req \in Mapped /\ IsDone(req))
  PROVE  ExecutorInv'
BY DEF ExecutorInv, IsDone

\* Slots are forgotten, not changed.
LEMMA ForgottenOK ==
  ASSUME ExecutorInv, exChain' = exChain, NEW run, exTx' = Remembered(exTx, run)
  PROVE  TxsOK' /\ \A i \in ExSlot : exTx'[i] \in {exTx[i], UnusedTx}
<1>1. /\ exTx' \in [ExSlot -> [status : {"void", "waiting", "confirmed", "reverted"},
                               batch : Batches]]
      /\ \A i \in ExSlot : exTx'[i] \in {exTx[i], UnusedTx}
      BY RememberedOK DEF ExecutorInv
<1>2. \A i \in ExSlot : exTx'[i].status = "confirmed" => exTx'[i] = exTx[i]
      BY <1>1 DEF UnusedTx
<1> QED BY <1>1, <1>2 DEF ExecutorInv, TxsOK, IsDone

\* An executor at rest holds no request.
LEMMA IdleOK == exRun' = ExIdle => RunOK'
BY DEF RunOK, ExIdle, Batches

\* Executor::run up to the transaction.
LEMMA BatchKeeps ==
  ASSUME ExecutorInv, ExFetches \/ ExSubmits \/ ExGivesUp
  PROVE  ExecutorInv'
<1>1. CASE ExFetches
  <2>1. PICK batch \in Batches :
          exRun' = [ExIdle EXCEPT !.step = "submit", !.batch = batch]
    <3>1. \A refused : \A req \in ExRequest :
            req.act \in Wishes(req.order, refused) => req \in Mapped
          BY ExecutorConstants DEF Wishes, TimelockOver, Mapped, ExRequest, ExOrder
    <3>2. ASSUME NEW o, NEW refused, NEW act \in Wishes(o, refused), NEW also \in Wishes(o, refused)
          PROVE  act = also
          BY DEF Wishes
    <3>3. PICK missing \in SUBSET ExOrder, refused \in SUBSET Claimed :
            exRun' = [ExIdle EXCEPT !.step = "submit",
                        !.batch = {req \in ExRequest : /\ req.order \notin missing
                                                       /\ req.act \in Wishes(req.order, refused)
                                                       /\ ~ExCached(req)}]
          BY <1>1 DEF ExFetches
    <3>4. {req \in ExRequest : /\ req.order \notin missing
                              /\ req.act \in Wishes(req.order, refused)
                              /\ ~ExCached(req)} \in Batches
          BY <3>1, <3>2 DEF Batches
    <3> QED BY <3>3, <3>4
  <2>2. UNCHANGED <<exChain, exTx, exCache>>
        BY <1>1 DEF ExFetches, exOutside
  <2>3. RunOK'
        BY <2>1 DEF RunOK, ExIdle
  <2>4. TxsOK'
        BY <2>2 DEF ExecutorInv, TxsOK, IsDone
  <2> QED BY <2>2, <2>3, <2>4, LoopKeeps
<1>2. CASE ExSubmits
  <2>1. PICK i \in ExSlot, valid \in Batches :
          /\ exTx' = [exTx EXCEPT ![i] = [status |-> "waiting", batch |-> valid]]
          /\ exRun' = [exRun EXCEPT !.step = "watch", !.batch = valid, !.hash = i]
    <3> DEFINE slot == CHOOSE i \in FreeSlots : TRUE
    <3>1. FreeSlots # {}
          BY <1>2 DEF ExSubmits
    <3>2. slot \in ExSlot
          BY <3>1 DEF FreeSlots
    <3>3. DryRun(exRun.batch) \in Batches
          BY DEF DryRun, ExecutorInv, RunOK, Batches
    <3> QED BY <1>2, <3>2, <3>3 DEF ExSubmits, Sent
  <2>2. UNCHANGED <<exChain, exCache>> /\ exRun.queue = <<>>
        BY <1>2 DEF ExSubmits, exOutside, ExecutorInv, RunOK
  <2>3. TxsOK'
        BY <2>1, <2>2 DEF ExecutorInv, TxsOK, IsDone
  <2>4. /\ exRun'.step = "watch" /\ exRun'.batch = valid /\ exRun'.hash = i
        /\ exRun'.queue = <<>> /\ DOMAIN exRun' = DOMAIN exRun
        BY <2>1, <2>2 DEF ExecutorInv, RunOK
  <2>5. Followed(exRun)' = {i}
        BY <2>4 DEF Followed
  <2>6. exTx'[i].batch = valid
        BY <2>1 DEF ExecutorInv, TxsOK
  <2>7. RunOK'
        BY <2>4, <2>5, <2>6 DEF RunOK, ExecutorInv
  <2> QED BY <2>2, <2>3, <2>7, LoopKeeps
<1>3. CASE ExGivesUp
  <2>1. UNCHANGED <<exChain, exTx, exCache>> /\ exRun' = ExIdle
        BY <1>3 DEF ExGivesUp, exOutside
  <2>2. TxsOK'
        BY <2>1 DEF ExecutorInv, TxsOK, IsDone
  <2> QED BY <2>1, <2>2, IdleOK, LoopKeeps
<1> QED BY <1>1, <1>2, <1>3

\* PendingTxHandler: the transaction that is confirmed is one of this batch, whichever of
\* its replacements it is.
LEMMA HandlerKeeps ==
  ASSUME ExecutorInv, ExConfirmed \/ ExReplaces \/ ExWatchesNext
  PROVE  ExecutorInv'
<1>0. /\ exRun.step = "watch" /\ exRun.hash \in ExSlot /\ exRun.queue \in Seq(ExSlot)
      /\ exRun.batch \in Batches /\ exRun.batch \in SUBSET Mapped
      /\ exRun.hash \in Followed(exRun) /\ Followed(exRun) \subseteq ExSlot
      BY DEF ExConfirmed, ExReplaces, ExWatchesNext, ExecutorInv, RunOK, Followed, Batches
<1>1. CASE ExConfirmed
  <2>1. /\ exTx[exRun.hash].status = "confirmed" /\ exCache' = exCache \cup exRun.batch
        /\ exRun' = ExIdle /\ exTx' = Remembered(exTx, ExIdle) /\ exChain' = exChain
        BY <1>1 DEF ExConfirmed, Watched, exOutside
  <2>2. exTx[exRun.hash].batch = exRun.batch
        BY <1>0, <2>1 DEF ExecutorInv, RunOK
  <2>3. \A req \in exRun.batch : IsDone(req)
        BY <1>0, <2>1, <2>2 DEF ExecutorInv, TxsOK
  <2> QED BY <1>0, <2>1, <2>3, ForgottenOK, IdleOK, LoopKeeps
<1>2. CASE ExReplaces
  <2> DEFINE i == CHOOSE i \in FreeSlots : TRUE
  <2>1. i \in ExSlot /\ i \notin Followed(exRun)
        BY <1>2 DEF ExReplaces, FreeSlots
  <2> HIDE DEF i
  <2>2. /\ exTx' = [exTx EXCEPT ![i] = [status |-> "waiting", batch |-> exRun.batch]]
        /\ exRun' = [exRun EXCEPT !.attempts = exRun.attempts + 1,
                        !.queue = <<i, exRun.hash>> \o exRun.queue]
        /\ UNCHANGED <<exChain, exCache>>
        BY <1>2 DEF ExReplaces, Sent, exOutside, i
  <2> DEFINE two == <<i, exRun.hash>>
  <2>3. /\ two \in Seq(ExSlot) /\ Len(two) = 2
        /\ \A k \in 1 .. 2 : two[k] \in {i} \cup Followed(exRun)
        BY <1>0, <2>1
  <2>4. /\ exRun'.step = "watch" /\ exRun'.batch = exRun.batch /\ exRun'.hash = exRun.hash
        /\ exRun'.queue = two \o exRun.queue /\ DOMAIN exRun' = DOMAIN exRun
        BY <1>0, <2>2 DEF ExecutorInv, RunOK
  <2> HIDE DEF two
  <2>5. /\ two \o exRun.queue \in Seq(ExSlot)
        /\ \A k \in DOMAIN (two \o exRun.queue) :
             (two \o exRun.queue)[k] \in {i} \cup Followed(exRun)
    <3>1. /\ two \o exRun.queue \in Seq(ExSlot)
          /\ Len(two \o exRun.queue) = Len(two) + Len(exRun.queue)
          /\ \A k \in 1 .. Len(two) + Len(exRun.queue) :
               (two \o exRun.queue)[k] = IF k <= Len(two) THEN two[k] ELSE exRun.queue[k - Len(two)]
          BY <1>0, <2>3, ConcatProperties
    <3>2. DOMAIN (two \o exRun.queue) = 1 .. 2 + Len(exRun.queue) /\ Len(exRun.queue) \in Nat
          BY <1>0, <2>3, <3>1
    <3>3. \A k \in 1 .. Len(exRun.queue) : exRun.queue[k] \in Followed(exRun)
          BY <1>0 DEF Followed
    <3>4. ASSUME NEW k \in 1 .. 2 + Len(exRun.queue)
          PROVE  (two \o exRun.queue)[k] \in {i} \cup Followed(exRun)
      <4>1. CASE k <= 2
            BY <2>3, <3>1, <3>2, <4>1
      <4>2. CASE k > 2
        <5>1. k - 2 \in 1 .. Len(exRun.queue)
              BY <3>2, <4>2
        <5>2. (two \o exRun.queue)[k] = exRun.queue[k - 2]
              BY <2>3, <3>1, <3>2, <4>2
        <5> QED BY <3>3, <5>1, <5>2
      <4> QED BY <3>2, <4>1, <4>2
    <3> QED BY <3>1, <3>2, <3>4
  <2>6. Followed(exRun)' \subseteq {i} \cup Followed(exRun)
        BY <1>0, <2>4, <2>5 DEF Followed
  <2>7. TxsOK'
        BY <1>0, <2>1, <2>2 DEF ExecutorInv, TxsOK, IsDone
  <2>8. \A j \in {i} \cup Followed(exRun) : exTx'[j].status # "void" => exTx'[j].batch = exRun.batch
        BY <1>0, <2>1, <2>2 DEF ExecutorInv, TxsOK, RunOK
  <2>9. RunOK'
        BY <1>0, <2>4, <2>5, <2>6, <2>8 DEF RunOK, ExecutorInv
  <2> QED BY <2>2, <2>7, <2>9, LoopKeeps
<1>3. CASE ExWatchesNext
  <2>1. exTx' = Remembered(exTx, exRun') /\ exChain' = exChain /\ exCache' = exCache
        BY <1>3 DEF ExWatchesNext, DropsKept, exOutside
  <2>2. TxsOK' /\ \A i \in ExSlot : exTx'[i] \in {exTx[i], UnusedTx}
        BY <2>1, ForgottenOK
  <2>3. CASE exRun.queue = <<>>
        BY <1>3, <2>1, <2>2, <2>3, IdleOK, LoopKeeps DEF ExWatchesNext
  <2>4. CASE exRun.queue # <<>>
    <3>1. exRun' = [exRun EXCEPT !.hash = Head(exRun.queue), !.queue = Tail(exRun.queue)]
          BY <1>3, <2>4 DEF ExWatchesNext
    <3>2. /\ exRun'.step = "watch" /\ exRun'.batch = exRun.batch
          /\ exRun'.hash = Head(exRun.queue) /\ exRun'.queue = Tail(exRun.queue)
          /\ DOMAIN exRun' = DOMAIN exRun
          BY <1>0, <3>1 DEF ExecutorInv, RunOK
    <3>3. /\ Head(exRun.queue) \in ExSlot /\ Tail(exRun.queue) \in Seq(ExSlot)
          /\ Len(Tail(exRun.queue)) = Len(exRun.queue) - 1
          /\ \A k \in 1 .. Len(Tail(exRun.queue)) : Tail(exRun.queue)[k] = exRun.queue[k + 1]
          /\ Len(exRun.queue) \in Nat \ {0} /\ Head(exRun.queue) = exRun.queue[1]
          BY <1>0, <2>4, HeadTailProperties, EmptySeq
    <3>4. \A k \in 1 .. Len(exRun.queue) : exRun.queue[k] \in Followed(exRun)
          BY <1>0 DEF Followed
    <3>5. Head(exRun.queue) \in Followed(exRun)
          BY <3>3, <3>4
    <3>6. \A k \in DOMAIN Tail(exRun.queue) : Tail(exRun.queue)[k] \in Followed(exRun)
      <4>1. DOMAIN Tail(exRun.queue) = 1 .. Len(exRun.queue) - 1
            BY <3>3
      <4> QED BY <3>3, <3>4, <4>1
    <3>7. Followed(exRun)' \subseteq Followed(exRun)
          BY <3>2, <3>5, <3>6 DEF Followed
    <3>8. \A j \in Followed(exRun) : exTx'[j].status # "void" => exTx'[j].batch = exRun.batch
          BY <1>0, <2>2 DEF ExecutorInv, RunOK, UnusedTx
    <3>9. RunOK'
          BY <1>0, <3>2, <3>3, <3>7, <3>8 DEF RunOK, ExecutorInv
    <3> QED BY <2>1, <2>2, <3>9, LoopKeeps
  <2> QED BY <2>3, <2>4
<1> QED BY <1>1, <1>2, <1>3

\* The cache forgets, and the process too.
LEMMA RestartKeeps ==
  ASSUME ExecutorInv, ExecutorRestarts \/ \E req \in ExRequest : ExForgets(req)
  PROVE  ExecutorInv'
<1>1. CASE ExecutorRestarts
  <2>1. /\ exRun' = ExIdle /\ exTx' = Remembered(exTx, ExIdle) /\ exChain' = exChain
        /\ exCache' = {}
        BY <1>1 DEF ExecutorRestarts, exOutside
  <2> QED BY <2>1, ForgottenOK, IdleOK, LoopKeeps
<1>2. ASSUME NEW req \in ExRequest, ExForgets(req) PROVE ExecutorInv'
  <2>1. UNCHANGED <<exChain, exTx, exRun>> /\ exCache' \subseteq exCache
        BY <1>2 DEF ExForgets, exOutside
  <2>2. TxsOK'
        BY <2>1 DEF ExecutorInv, TxsOK, IsDone
  <2>3. RunOK'
        BY <2>1 DEF ExecutorInv, RunOK, Followed
  <2> QED BY <2>1, <2>2, <2>3, LoopKeeps
<1> QED BY <1>1, <1>2

\* The invariant does not change when nothing does.
LEMMA ExecutorStutters == ExecutorInv /\ UNCHANGED exVars => ExecutorInv'
<1> SUFFICES ASSUME ExecutorInv, UNCHANGED exVars PROVE ExecutorInv'
    OBVIOUS
<1>1. UNCHANGED <<exChain, exTx, exCache, exRun>>
      BY DEF exVars, exOutside
<1>2. TxsOK' /\ RunOK'
      BY <1>1 DEF ExecutorInv, TxsOK, IsDone, RunOK, Followed
<1> QED BY <1>1, <1>2, LoopKeeps

\* A request in the cache, which the loop skips for an hour, is done on chain: whichever
\* transaction of the batch was mined, and whatever became of the others (executor.rs:
\* run, update_cache; pending_tx_handler.rs: handle_tx).
THEOREM ExCachedIsDoneHolds == ExecutorSpec => []ExCachedIsDone
<1>1. ExecutorInv /\ [ExecutorNext]_exVars => ExecutorInv'
      BY UsersKeep, BlocksKeep, BatchKeeps, HandlerKeeps, RestartKeeps, ExecutorStutters
      DEF ExecutorNext
<1> QED BY ExecutorInitInv, CachedByInv, <1>1, PTL DEF ExecutorSpec

-----------------------------------------------------------------------------
(* The watcher, its confirmations task and the tasks of the executor of Solana*)
(* swaps.                                                                  *)

Spends == {"Redeemed", "Refunded"}
Events == {"Initiated"} \cup Spends

\* The initiation comes first, and one spend may follow.
LogOK ==
  /\ solLog \in Seq(Events) /\ Len(solLog) <= 2
  /\ Len(solLog) > 0 => solLog[1] = "Initiated"

\* An event of the log.
Happened(kind) ==
  /\ kind \in Events /\ Len(solLog) > 0
  /\ kind \in Spends => SolSpent(kind)

IsRow(r) == DOMAIN r = {"init", "redeem", "refund", "confs"}

\* What is waiting to be written has happened: the watcher's events and the
\* transactions of the executor's tasks.
SolInv ==
  /\ LogOK /\ solFinal \in Nat /\ IsRow(solRow)
  /\ SolRowReal
  /\ solCursor \in Nat /\ solBatch \in [todo : Seq(Events), upto : Nat]
  /\ \A i \in 1 .. Len(solBatch.todo) : Happened(solBatch.todo[i])
  /\ solTask \in [SolTask -> {"idle", "send", "record"}]
  /\ \A task \in SolTask : solTask[task] = "record" => SolSpent(KindOfTask(task))

LogGrows ==
  /\ Len(solLog') >= Len(solLog)
  /\ Len(solLog) = 2 => solLog' = solLog

\* Nothing that happened is undone.
LEMMA HappenedStays ==
  ASSUME SolInv, LogOK', LogGrows
  PROVE  /\ solLog # <<>> => solLog' # <<>>
         /\ \A kind \in Spends : SolSpent(kind) => SolSpent(kind)'
         /\ \A kind \in Events : Happened(kind) => Happened(kind)'
<1>1. solLog # <<>> => Len(solLog) > 0
      BY DEF SolInv, LogOK
<1>2. Len(solLog) \in Nat /\ Len(solLog') \in Nat
      BY DEF SolInv, LogOK
<1>3. \A kind \in Spends : SolSpent(kind) => SolSpent(kind)'
      BY DEF LogGrows, SolSpent
<1> QED BY <1>1, <1>2, <1>3 DEF LogGrows, Happened

\* What is appended to a sequence of one element is its second.
LEMMA SecondOne ==
  ASSUME NEW S, NEW one \in Seq(S), NEW x \in S, Len(one) = 1
  PROVE  /\ Append(one, x) \in Seq(S) /\ Len(Append(one, x)) = 2
         /\ Append(one, x)[1] = one[1] /\ Append(one, x)[2] = x
<1>1. Append(one, x) \in Seq(S)
      BY AppendProperties, Zenon
<1>2. Len(Append(one, x)) = Len(one) + 1
      BY AppendProperties, Zenon
<1>3. \A i \in 1 .. Len(one) : Append(one, x)[i] = one[i]
      BY AppendProperties, ZenonT(60)
<1>4. Append(one, x)[Len(one) + 1] = x
      BY AppendProperties, Zenon
<1> QED BY <1>1, <1>2, <1>3, <1>4

\* A spend appends to a log that has the initiation only: the program allows one.
LEMMA SpendGrows ==
  ASSUME SolInv, NEW kind \in Spends, SolSpendable(kind), solLog' = Append(solLog, kind)
  PROVE  LogGrows /\ LogOK' /\ SolSpent(kind)'
<1>1. Len(solLog) = 1 /\ solLog \in Seq(Events) /\ kind \in Events
      BY DEF SolInv, SolSpendable, SolOpen, LogOK, Events
<1>2. Len(solLog') = 2 /\ solLog'[1] = solLog[1] /\ solLog'[2] = kind /\ solLog' \in Seq(Events)
      BY <1>1, SecondOne
<1> QED BY <1>1, <1>2 DEF LogGrows, SolSpent, LogOK, SolInv

\* What happens on chain leaves row, batch and tasks true.
LEMMA ChainKeeps ==
  ASSUME SolInv, LogOK', LogGrows, solFinal' \in Nat, solFinal' >= solFinal,
         UNCHANGED <<solRow, solCursor, solBatch>>,
         solTask' \in [SolTask -> {"idle", "send", "record"}],
         \A task \in SolTask : solTask'[task] = "record" =>
           solTask[task] = "record" \/ SolSpent(KindOfTask(task))'
  PROVE  SolInv'
<1>1. solLog # <<>> => solLog' # <<>>
      BY HappenedStays
<1>2. \A kind \in Spends : SolSpent(kind) => SolSpent(kind)'
      BY HappenedStays
<1>3. SolRowReal'
      BY <1>1, <1>2 DEF SolInv, SolRowReal, Spends
<1>4. (\A i \in 1 .. Len(solBatch.todo) : Happened(solBatch.todo[i]))'
  <2>1. \A i \in 1 .. Len(solBatch.todo) : Happened(solBatch.todo[i])
        BY DEF SolInv
  <2>2. \A kind : Happened(kind) => Happened(kind)'
        BY HappenedStays DEF Happened
  <2>3. solBatch' = solBatch
        OBVIOUS
  <2> QED BY <2>1, <2>2, <2>3
<1>5. \A task \in SolTask : solTask'[task] = "record" => SolSpent(KindOfTask(task))'
  <2> SUFFICES ASSUME NEW task \in SolTask, solTask'[task] = "record"
               PROVE  SolSpent(KindOfTask(task))'
      OBVIOUS
  <2>1. KindOfTask(task) \in Spends
        BY DEF KindOfTask, Spends
  <2>2. solTask[task] = "record" => SolSpent(KindOfTask(task))
        BY DEF SolInv
  <2> QED BY <2>1, <2>2, <1>2
<1>6. IsRow(solRow)' /\ solCursor' \in Nat /\ solBatch' \in [todo : Seq(Events), upto : Nat]
      BY DEF SolInv
<1> QED BY <1>1, <1>3, <1>4, <1>5, <1>6 DEF SolInv

\* The steps of the chains, and of the tasks before they record.
LEMMA ChainSteps ==
  ASSUME SolInv, \/ SolInitiated \/ SolUserRefunds \/ SolFinalizes \/ SolExpires \/ SolDestMoves
  PROVE  SolInv'
<1> USE DEF solChain, solWatcherMem
<1>0. \A task \in SolTask : solTask' = solTask /\ solTask'[task] = "record" =>
        solTask[task] = "record"
      OBVIOUS
<1>1. CASE SolInitiated
  <2>1. LogGrows /\ LogOK'
        BY <1>1 DEF SolInitiated, LogGrows, LogOK, Events, SolInv
  <2> QED BY <1>0, <1>1, <2>1, ChainKeeps DEF SolInitiated, SolInv
<1>2. CASE SolUserRefunds
  <2>1. LogGrows /\ LogOK'
        BY <1>2, SpendGrows DEF SolUserRefunds, Spends
  <2> QED BY <1>0, <1>2, <2>1, ChainKeeps DEF SolUserRefunds, SolInv
<1>3. CASE SolFinalizes
  <2>1. LogGrows /\ LogOK'
        BY <1>3 DEF SolFinalizes, LogGrows, LogOK, SolInv
  <2> QED BY <1>0, <1>3, <2>1, ChainKeeps DEF SolFinalizes, SolInv
<1>4. CASE SolExpires \/ SolDestMoves
  <2>1. LogGrows /\ LogOK'
        BY <1>4 DEF SolExpires, SolDestMoves, LogGrows, LogOK, SolInv
  <2> QED BY <1>0, <1>4, <2>1, ChainKeeps DEF SolExpires, SolDestMoves, SolInv
<1> QED BY <1>1, <1>2, <1>3, <1>4

\* A task decides, sends and fails; only one whose transaction got through records.
LEMMA TaskSteps ==
  ASSUME SolInv, NEW task \in SolTask,
         SolTaskStarts(task) \/ SolTaskSends(task) \/ SolSendFails(task)
  PROVE  SolInv'
<1> USE DEF solChain, solWatcherMem
<1>k. KindOfTask(task) \in Spends
      BY DEF KindOfTask, Spends
<1>1. CASE SolTaskStarts(task)
  <2>1. LogGrows /\ LogOK'
        BY <1>1 DEF SolTaskStarts, LogGrows, LogOK, SolInv
  <2> QED BY <1>1, <2>1, ChainKeeps DEF SolTaskStarts, SolInv
<1>2. CASE SolTaskSends(task)
  <2>1. LogGrows /\ LogOK' /\ SolSpent(KindOfTask(task))'
        BY <1>k, <1>2, SpendGrows DEF SolTaskSends
  <2>2. \A t \in SolTask : solTask'[t] = "record" =>
          solTask[t] = "record" \/ SolSpent(KindOfTask(t))'
        BY <1>2, <2>1 DEF SolTaskSends, SolInv
  <2>3. solTask' \in [SolTask -> {"idle", "send", "record"}]
        BY <1>2 DEF SolTaskSends, SolInv
  <2> QED BY <1>2, <2>1, <2>2, <2>3, ChainKeeps DEF SolTaskSends, SolInv
<1>3. CASE SolSendFails(task)
  <2>1. LogGrows /\ LogOK'
        BY <1>k, <1>3, SpendGrows DEF SolSendFails, LogGrows, LogOK, SolInv
  <2> QED BY <1>3, <2>1, ChainKeeps DEF SolSendFails, AfterError, SolInv
<1> QED BY <1>1, <1>2, <1>3

\* What a write of an event leaves true, and a write of any other kind.
LEMMA RowKeeps ==
  ASSUME SolInv, UNCHANGED solChain,
         IsRow(solRow)', SolRowReal',
         solCursor' \in Nat, solBatch' \in [todo : Seq(Events), upto : Nat],
         \A i \in 1 .. Len(solBatch'.todo) : Happened(solBatch'.todo[i]),
         solTask' \in [SolTask -> {"idle", "send", "record"}],
         \A task \in SolTask : solTask'[task] = "record" => solTask[task] = "record"
  PROVE  SolInv'
<1>1. solLog' = solLog /\ solFinal' = solFinal
      BY DEF solChain
<1>2. \A kind : (Happened(kind) => Happened(kind)') /\ (SolSpent(kind) => SolSpent(kind)')
      BY <1>1 DEF Happened, SolSpent
<1>3. (\A i \in 1 .. Len(solBatch.todo) : Happened(solBatch.todo[i]))'
      BY <1>1 DEF Happened, SolSpent
<1>4. (\A task \in SolTask : solTask[task] = "record" => SolSpent(KindOfTask(task)))'
      BY <1>2 DEF SolInv
<1>5. LogOK'
      BY <1>1 DEF SolInv, LogOK
<1> QED BY <1>1, <1>3, <1>4, <1>5 DEF SolInv

\* A record of the log stands for something the program has done.
LEMMA LogHappened ==
  ASSUME SolInv, NEW j \in 1 .. Len(solLog)
  PROVE  Happened(solLog[j])
<1> DEFINE n == Len(solLog)
<1>1. solLog \in Seq(Events)
      BY DEF SolInv, LogOK
<1>2. n \in Nat /\ n <= 2 /\ j \in 1 .. n
      BY <1>1 DEF SolInv, LogOK
<1> HIDE DEF n
<1>a. j = 1 \/ (j = 2 /\ n = 2)
      BY <1>2
<1>3. j = 1 \/ (j = 2 /\ Len(solLog) = 2)
      BY <1>a DEF n
<1>4. solLog[j] \in Events /\ Len(solLog) > 0
      BY <1>1, <1>2 DEF n
<1>5. solLog[j] \in Spends => SolSpent(solLog[j])
      BY <1>3, <1>4 DEF SolInv, LogOK, SolSpent, Spends
<1> QED BY <1>4, <1>5 DEF Happened

\* What is reversed has the same elements, from the other end.
LEMMA ReverseKeeps ==
  ASSUME NEW S, NEW s \in Seq(S)
  PROVE  /\ Reverse(s) \in Seq(S) /\ Len(Reverse(s)) = Len(s)
         /\ \A i \in 1 .. Len(s) : Reverse(s)[i] = s[(Len(s) - i) + 1]
<1>1. [i \in 1 .. Len(s) |-> s[(Len(s) - i) + 1]] \in Seq(S)
      OBVIOUS
<1> QED BY <1>1 DEF Reverse

\* The newest events of the log have happened.
LEMMA FetchedHappened ==
  ASSUME SolInv
  PROVE  /\ FetchedEvents \in Seq(Events)
         /\ \A i \in 1 .. Len(FetchedEvents) : Happened(FetchedEvents[i])
<1> DEFINE new == SubSeq(solLog, solCursor + 1, Len(solLog))
<1>1. \A j \in 1 .. Len(solLog) : Happened(solLog[j])
      BY LogHappened
<1>2. \A j \in (solCursor + 1) .. Len(solLog) : solLog[j] \in Events
      BY DEF SolInv, LogOK
<1>3. solCursor + 1 \in Int /\ Len(solLog) \in Int
      BY DEF SolInv, LogOK
<1>4. /\ new \in Seq(Events)
      /\ Len(new) = IF solCursor + 1 <= Len(solLog) THEN Len(solLog) - (solCursor + 1) + 1 ELSE 0
      /\ \A i \in 1 .. Len(solLog) - (solCursor + 1) + 1 : new[i] = solLog[solCursor + 1 + i - 1]
      BY <1>2, <1>3, SubSeqProperties
<1>5. \A i \in 1 .. Len(new) : Happened(new[i])
      BY <1>1, <1>4 DEF SolInv
<1> HIDE DEF new
<1>6. /\ Reverse(new) \in Seq(Events) /\ Len(Reverse(new)) = Len(new)
      /\ \A i \in 1 .. Len(new) : Reverse(new)[i] = new[(Len(new) - i) + 1]
      BY <1>4, ReverseKeeps
<1>7. \A i \in 1 .. Len(new) : Happened(Reverse(new)[i])
  <2> SUFFICES ASSUME NEW i \in 1 .. Len(new) PROVE Happened(Reverse(new)[i])
      OBVIOUS
  <2>1. (Len(new) - i) + 1 \in 1 .. Len(new)
        BY <1>4
  <2> QED BY <1>5, <1>6, <2>1
<1> QED BY <1>6, <1>7 DEF FetchedEvents, new

\* What an event that happened does to the row.
LEMMA AppliedReal ==
  ASSUME SolInv, NEW kind, Happened(kind)
  PROVE  /\ IsRow(Applied(solRow, kind))
         /\ Applied(solRow, kind).redeem => SolSpent("Redeemed")
         /\ Applied(solRow, kind).refund => SolSpent("Refunded")
         /\ Applied(solRow, kind).init => solLog # <<>>
         /\ Applied(solRow, kind).confs = 2 => solFinal > 0
<1>1. IsRow(solRow) /\ SolRowReal /\ (kind \in Spends => SolSpent(kind)) /\ solLog # <<>>
      BY DEF SolInv, LogOK, Happened
<1>2. CASE kind = "Initiated" /\ ~solRow.init
  <2>1. Applied(solRow, kind) = [solRow EXCEPT !.init = TRUE, !.confs = 1]
        BY <1>2 DEF Applied
  <2>2. /\ DOMAIN [solRow EXCEPT !.init = TRUE, !.confs = 1] = DOMAIN solRow
        /\ [solRow EXCEPT !.init = TRUE, !.confs = 1].redeem = solRow.redeem
        /\ [solRow EXCEPT !.init = TRUE, !.confs = 1].refund = solRow.refund
        /\ [solRow EXCEPT !.init = TRUE, !.confs = 1].confs = 1
        BY <1>1 DEF IsRow
  <2> QED BY <1>1, <2>1, <2>2 DEF IsRow, SolRowReal
<1>3. CASE kind = "Redeemed" /\ Applied(solRow, kind) = [solRow EXCEPT !.redeem = TRUE]
      BY <1>1, <1>3 DEF IsRow, SolRowReal, Spends
<1>4. CASE kind = "Refunded" /\ Applied(solRow, kind) = [solRow EXCEPT !.refund = TRUE]
      BY <1>1, <1>4 DEF IsRow, SolRowReal, Spends
<1>5. CASE Applied(solRow, kind) = solRow
      BY <1>1, <1>5 DEF SolRowReal
<1> QED BY <1>2, <1>3, <1>4, <1>5 DEF Applied

\* A batch goes on with what is left of it.
LEMMA EventKeeps ==
  ASSUME SolInv, SolEventDone, UNCHANGED <<solChain, solTask>>,
         solRow' = solRow \/ solRow' = Applied(solRow, Head(solBatch.todo))
  PROVE  SolInv'
<1> DEFINE todo == solBatch.todo
<1>1. /\ todo \in Seq(Events) /\ todo # <<>>
      /\ solCursor \in Nat /\ solBatch.upto \in Nat
      /\ \A i \in 1 .. Len(todo) : Happened(todo[i])
      BY DEF SolInv, SolEventDone
<1> HIDE DEF todo
<1>2. /\ Head(todo) = todo[1] /\ Len(todo) > 0 /\ Tail(todo) \in Seq(Events)
      /\ Len(Tail(todo)) = Len(todo) - 1
      /\ \A i \in 1 .. Len(Tail(todo)) : Tail(todo)[i] = todo[i + 1]
      BY <1>1, HeadTailProperties
<1>3. Happened(Head(todo))
      BY <1>1, <1>2
<1>4. \A i \in 1 .. Len(Tail(todo)) : Happened(Tail(todo)[i])
      BY <1>1, <1>2
<1>5. solBatch' \in [todo : Seq(Events), upto : Nat] /\ solCursor' \in Nat
      BY <1>1, <1>2 DEF SolEventDone, NoBatch, SolInv, todo
<1>6. \A i \in 1 .. Len(solBatch'.todo) : Happened(solBatch'.todo[i])
      BY <1>1, <1>4 DEF SolEventDone, NoBatch, SolInv, todo
<1>7. IsRow(solRow)' /\ SolRowReal'
      BY <1>3, AppliedReal DEF SolInv, SolRowReal, SolSpent, solChain, todo
<1> QED BY <1>5, <1>6, <1>7, RowKeeps DEF SolInv

\* The rest of the watcher.
LEMMA WatcherSteps ==
  ASSUME SolInv,
         \/ SolFetches \/ SolEventWritten \/ SolEventLost \/ SolWatcherRestarts
         \/ \E status \in 1 .. 2 : SolUpdatesConfirmations(status)
  PROVE  SolInv'
<1> USE DEF solWatcherMem
<1>1. CASE SolFetches
  <2>1. /\ FetchedEvents \in Seq(Events)
        /\ \A i \in 1 .. Len(FetchedEvents) : Happened(FetchedEvents[i])
        BY FetchedHappened
  <2>2. solBatch' = [todo |-> FetchedEvents, upto |-> Len(solLog)] /\ Len(solLog) \in Nat
        BY <1>1 DEF SolFetches, SolInv, LogOK
  <2>3. SolRowReal' /\ IsRow(solRow)'
        BY <1>1 DEF SolFetches, SolInv, SolRowReal, SolSpent, solChain
  <2> QED BY <1>1, <2>1, <2>2, <2>3, RowKeeps DEF SolFetches, SolInv
<1>2. CASE SolEventWritten \/ SolEventLost
      BY <1>2, EventKeeps DEF SolEventWritten, SolEventLost
<1>3. CASE SolWatcherRestarts
  <2>1. SolRowReal' /\ IsRow(solRow)'
        BY <1>3 DEF SolWatcherRestarts, SolInv, SolRowReal, SolSpent, solChain
  <2> QED BY <1>3, <2>1, RowKeeps DEF SolWatcherRestarts, SolInv, NoBatch
<1>4. ASSUME NEW status \in 1 .. 2, SolUpdatesConfirmations(status) PROVE SolInv'
  <2>1. status = 2 => solFinal > 0
        BY <1>4 DEF SolUpdatesConfirmations, StatusRead
  <2>2. solRow' = [solRow EXCEPT !.confs = status] /\ UNCHANGED solChain
        BY <1>4 DEF SolUpdatesConfirmations
  <2>3. IsRow(solRow)' /\ SolRowReal'
        BY <2>1, <2>2 DEF SolInv, SolRowReal, SolSpent, solChain, IsRow
  <2>4. UNCHANGED <<solCursor, solBatch, solTask>>
        BY <1>4 DEF SolUpdatesConfirmations
  <2> QED BY <2>2, <2>3, <2>4, RowKeeps DEF SolInv
<1> QED BY <1>1, <1>2, <1>3, <1>4

\* What the executor writes is what its own transaction did.
LEMMA ExecutorSteps ==
  ASSUME SolInv, SolExecutorRestarts \/ \E task \in SolTask : SolTaskRecords(task)
  PROVE  SolInv'
<1> USE DEF solWatcherMem
<1>1. CASE SolExecutorRestarts
  <2>1. SolRowReal' /\ IsRow(solRow)'
        BY <1>1 DEF SolExecutorRestarts, SolInv, SolRowReal, SolSpent, solChain
  <2> QED BY <1>1, <2>1, RowKeeps DEF SolExecutorRestarts, SolInv
<1>2. ASSUME NEW task \in SolTask, SolTaskRecords(task) PROVE SolInv'
  <2>1. SolSpent(KindOfTask(task)) /\ KindOfTask(task) \in Spends
        BY <1>2 DEF SolTaskRecords, SolInv, KindOfTask, Spends
  <2>2. SolRowReal' /\ IsRow(solRow)'
        BY <1>2, <2>1 DEF SolTaskRecords, SolInv, SolRowReal, SolSpent, solChain, IsRow, Spends
  <2>3. /\ solTask' \in [SolTask -> {"idle", "send", "record"}]
        /\ \A t \in SolTask : solTask'[t] = "record" => solTask[t] = "record"
        BY <1>2 DEF SolTaskRecords, SolInv
  <2> QED BY <1>2, <2>2, <2>3, RowKeeps DEF SolTaskRecords, SolInv
<1> QED BY <1>1, <1>2

\* The invariant holds before the first slot.
LEMMA SolInitInv == SolanaInit => SolInv
BY DEF SolanaInit, SolInv, LogOK, SolRowReal, IsRow, NoBatch, SolTask

\* The invariant does not change when nothing does.
LEMMA SolStutters == SolInv /\ UNCHANGED solVars => SolInv'
<1> SUFFICES ASSUME SolInv, UNCHANGED solVars PROVE SolInv'
    OBVIOUS
<1>1. SolRowReal' /\ IsRow(solRow)'
      BY DEF SolInv, SolRowReal, SolSpent, solVars, solChain
<1> QED BY <1>1, RowKeeps DEF SolInv, solVars, solWatcherMem

\* The row of a Solana swap says only what the program has done, of at most one spend,
\* and final only what is (swap store of solana-watcher, db.ts of solana-executor).
THEOREM SolRowRealHolds == SolanaSpec => []SolRowReal
<1>1. SolInv => SolRowReal
      BY DEF SolInv
<1>2. SolInv /\ [SolanaNext]_solVars => SolInv'
      BY ChainSteps, TaskSteps, WatcherSteps, ExecutorSteps, SolStutters DEF SolanaNext
<1> QED BY SolInitInv, <1>1, <1>2, PTL DEF SolanaSpec

-----------------------------------------------------------------------------
(* The transaction builder of btc-executor. Whatever is kept as the best candidate pays   *)
(* its target, and no two candidates are so close in size that the tolerance counts.      *)

\* A product grows by a factor with each step of the other.
LEMMA ProductGrows ==
  ASSUME NEW a \in Nat, NEW m \in Nat, NEW n \in Nat, m > n
  PROVE  a * m \in Nat /\ a * n \in Nat /\ a * m >= a * n + a
<1>1. PICK k \in Nat : m = n + 1 + k
  <2>1. m - n - 1 \in Nat /\ m = n + 1 + (m - n - 1)
        OBVIOUS
  <2> QED BY <2>1
<1>2. a * m = a * n + a + a * k /\ a * k >= 0
      BY <1>1
<1> QED BY <1>2

\* Max of three numbers is one of them, and none is greater.
LEMMA MaxOfThree ==
  ASSUME NEW a \in Int, NEW b \in Int, NEW c \in Int
  PROVE  /\ Max({a, b, c}) \in {a, b, c}
         /\ Max({a, b, c}) >= a /\ Max({a, b, c}) >= b /\ Max({a, b, c}) >= c
<1>1. PICK m \in {a, b, c} : \A y \in {a, b, c} : m >= y
  <2> DEFINE d == IF a >= b THEN a ELSE b
             e == IF d >= c THEN d ELSE c
  <2>1. e \in {a, b, c} /\ \A y \in {a, b, c} : e >= y
        OBVIOUS
  <2> QED BY <2>1
<1>2. Max({a, b, c}) \in {a, b, c} /\ \A y \in {a, b, c} : Max({a, b, c}) >= y
      BY <1>1, Zenon DEF Max
<1> QED BY <1>2

\* Min of two numbers is one of them.
LEMMA MinOfPair ==
  ASSUME NEW a \in Int, NEW b \in Int
  PROVE  Min({a, b}) \in Int
<1>1. PICK m \in {a, b} : \A y \in {a, b} : m <= y
  <2>1. (IF a <= b THEN a ELSE b) \in {a, b}
        /\ \A y \in {a, b} : (IF a <= b THEN a ELSE b) <= y
        OBVIOUS
  <2> QED BY <2>1
<1>2. Min({a, b}) \in {a, b}
      BY <1>1, Zenon DEF Min
<1> QED BY <1>2

\* A rate times a size, rounded up, is a fee.
LEMMA ScaledIsNat ==
  ASSUME NEW rate \in Nat, NEW size \in Nat
  PROVE  Scaled(rate, size) \in Nat
<1>1. RateUnit \in Nat \ {0}
      BY BuilderAssumption
<1>2. rate * size + RateUnit - 1 \in Nat
      BY <1>1
<1> QED BY <1>1, <1>2 DEF Scaled

Jobs ==
  [value : [Coin -> Nat], spends : Nat, sends : Nat, rate : Nat, hidden : SUBSET Coin,
   carried : SUBSET Coin, lineage : Coin \cup {NoLineage}, previous : Nat \cup {NoPrevious},
   previousRate : Nat]

\* The target is a fee, and covers what a replacement has to pay for.
LEMMA TargetCovers ==
  ASSUME NEW job \in Jobs, NEW tx, tx.size \in Nat
  PROVE  /\ Target(job, tx) \in Nat
         /\ job.previous # NoPrevious => Target(job, tx) >= job.previous + tx.size
<1> DEFINE v == tx.size + 1
<1>1. v \in Nat /\ job.rate \in Nat /\ job.previousRate + 1 \in Nat
      BY DEF Jobs
<1>2. Scaled(job.rate, v) \in Nat /\ Scaled(job.previousRate + 1, v) \in Nat
      BY <1>1, ScaledIsNat
<1>3. CASE job.previous = NoPrevious
      BY <1>2, <1>3 DEF Target
<1>4. CASE job.previous # NoPrevious
  <2>1. job.previous \in Nat /\ job.previous + v \in Nat
        BY <1>1, <1>4 DEF Jobs
  <2> DEFINE s == Scaled(job.previousRate + 1, v)
             r == job.previous + v
             t == Scaled(job.rate, v)
  <2>2. Target(job, tx) = Max({s, r, t})
        BY <1>4, Zenon DEF Target
  <2>3. s \in Nat /\ r \in Nat /\ t \in Nat /\ r >= job.previous + tx.size
        BY <1>1, <1>2, <2>1
  <2> HIDE DEF s, r, t
  <2>a. s \in Int /\ r \in Int /\ t \in Int
        BY <2>3
  <2>4. Max({s, r, t}) \in {s, r, t} /\ Max({s, r, t}) >= r
        BY <2>a, MaxOfThree, Zenon
  <2>5. Max({s, r, t}) \in Nat
        BY <2>3, <2>4
  <2>6. Max({s, r, t}) >= job.previous + tx.size
        BY <2>1, <2>3, <2>4, <2>5
  <2> QED BY <2>2, <2>5, <2>6, <1>4
<1> QED BY <1>3, <1>4

Sizes(n) == {BaseSize + InputSize * n, BaseSize + InputSize * n + OutputSize}

\* The size of a candidate is that of so many inputs, with or without the change.
LEMMA SizeOfTx ==
  ASSUME NEW job \in Jobs, NEW selected \in SUBSET Coin, NEW change \in Int
  PROVE  LET tx == TxOf(job, selected, change)
         IN  /\ tx.size \in Nat /\ tx.size \in Sizes(Cardinality(selected)) /\ tx.fee \in Int
<1>0. /\ BaseSize \in Nat /\ InputSize \in Nat /\ OutputSize \in Nat /\ DustLimit \in Nat
      /\ IsFiniteSet(Coin)
      BY BuilderAssumption
<1>1. IsFiniteSet(selected) /\ Cardinality(selected) \in Nat
      BY <1>0, FS_Subset, FS_CardinalityType
<1>2. InputSize * Cardinality(selected) \in Nat
      BY <1>0, <1>1
<1>3. \A x \in selected : job.value[x] \in Nat
      BY DEF Jobs
<1>4. ValueOf(job, selected) \in Nat
      BY <1>1, <1>3, SumIsNat, Zenon DEF ValueOf
<1>5. Balance(job) \in Int
      BY DEF Balance, Jobs
<1> DEFINE kept == IF change > DustLimit THEN change ELSE 0
<1>6. kept \in Int
      BY <1>0
<1>7. TxOf(job, selected, change).fee = Balance(job) + ValueOf(job, selected) - kept
      BY DEF TxOf
<1>8. TxOf(job, selected, change).size =
        BaseSize + InputSize * Cardinality(selected) + (IF kept > 0 THEN OutputSize ELSE 0)
      BY DEF TxOf
<1>9. TxOf(job, selected, change).fee \in Int
      BY <1>4, <1>5, <1>6, <1>7
<1>10. TxOf(job, selected, change).size \in Nat
       BY <1>0, <1>2, <1>8
<1>11. TxOf(job, selected, change).size \in Sizes(Cardinality(selected))
       BY <1>0, <1>2, <1>8 DEF Sizes
<1> QED BY <1>9, <1>10, <1>11

\* No two sizes are as close as the tolerance, unless the later one is the smaller.
LEMMA SizesApart ==
  ASSUME NEW m \in Nat, NEW n \in Nat, n <= m, NEW a \in Sizes(m), NEW b \in Sizes(n)
  PROVE  a - b \notin 1 .. SizeTolerance
<1>0. /\ BaseSize \in Nat /\ InputSize \in Nat /\ OutputSize \in Nat /\ SizeTolerance \in Nat
      /\ InputSize - OutputSize > SizeTolerance /\ OutputSize > SizeTolerance
      BY BuilderAssumption
<1> DEFINE p == InputSize * m
           q == InputSize * n
<1>1. p \in Nat /\ q \in Nat /\ (m > n => p >= q + InputSize) /\ (m = n => p = q)
      BY <1>0, ProductGrows
<1>2. a \in {BaseSize + p, BaseSize + p + OutputSize}
      /\ b \in {BaseSize + q, BaseSize + q + OutputSize}
      BY DEF Sizes
<1>3. m > n \/ m = n
      OBVIOUS
<1> HIDE DEF p, q
<1> QED BY <1>0, <1>1, <1>2, <1>3

\* What the builder hands out, or keeps as its best, pays its target.
Pays(tx) == tx.fee \in Int /\ tx.size \in Nat /\ tx.fee >= Target(tbJob, tx)

FeeInv ==
  /\ tbJob = NoJob => tbBest = NoTx /\ tbSize = 0 /\ ~IsBuilt
  /\ tbJob # NoJob => tbJob \in Jobs
  /\ tbSelected \in SUBSET Coin /\ tbChange \in Int
  /\ tbSize = 0 \/ \E n \in 0 .. Cardinality(tbSelected) : tbSize \in Sizes(n)
  /\ tbBest # NoTx => Pays(tbBest)
  /\ IsBuilt => Pays(tbResult.tx)

\* The candidate and its difference are what they are called.
LEMMA CandidateFacts ==
  ASSUME FeeInv, tbJob # NoJob
  PROVE  /\ Candidate.size \in Nat /\ Candidate.size \in Sizes(Cardinality(tbSelected))
         /\ Candidate.fee \in Int /\ Target(tbJob, Candidate) \in Nat /\ Delta \in Int
         /\ Cardinality(tbSelected) \in Nat
<1>1. tbJob \in Jobs /\ tbSelected \in SUBSET Coin /\ tbChange \in Int
      BY DEF FeeInv
<1>2. /\ Candidate.size \in Nat /\ Candidate.size \in Sizes(Cardinality(tbSelected))
      /\ Candidate.fee \in Int
      BY <1>1, SizeOfTx, Zenon DEF Candidate
<1>3. Target(tbJob, Candidate) \in Nat
      BY <1>1, <1>2, TargetCovers
<1>4. Cardinality(tbSelected) \in Nat
      BY <1>1, BuilderAssumption, FS_Subset, FS_CardinalityType
<1> QED BY <1>2, <1>3, <1>4 DEF Delta

\* The tolerance never cuts a build short.
LEMMA NeverGrew ==
  ASSUME FeeInv, tbJob # NoJob
  PROVE  ~Grew
<1>1. Candidate.size \in Sizes(Cardinality(tbSelected)) /\ Cardinality(tbSelected) \in Nat
      BY CandidateFacts
<1>2. CASE tbSize = 0
      BY <1>2 DEF Grew
<1>3. CASE tbSize # 0
  <2>1. PICK n \in 0 .. Cardinality(tbSelected) : tbSize \in Sizes(n)
        BY <1>3 DEF FeeInv
  <2>2. n \in Nat /\ n <= Cardinality(tbSelected)
        BY <1>1
  <2>3. Candidate.size - tbSize \notin 1 .. SizeTolerance
        BY <1>1, <2>1, <2>2, SizesApart
  <2> QED BY <2>3 DEF Grew
<1> QED BY <1>2, <1>3

\* The best candidate so far pays its target.
LEMMA BestPays ==
  ASSUME FeeInv, tbJob # NoJob, BestNow # NoTx
  PROVE  Pays(BestNow)
<1>1. CASE BestNow = tbBest
      BY <1>1 DEF FeeInv
<1>2. CASE BestNow # tbBest
  <2>1. BestNow = Candidate /\ Delta > 0
        BY <1>2 DEF BestNow
  <2>2. Candidate.fee >= Target(tbJob, Candidate)
        BY <2>1, CandidateFacts DEF Delta
  <2> QED BY <2>1, <2>2, CandidateFacts DEF Pays
<1> QED BY <1>1, <1>2

\* The change stays a number.
LEMMA ChangeIsInt ==
  ASSUME FeeInv, tbJob # NoJob
  PROVE  Change \in Int
<1>1. tbChange \in Int /\ Delta \in Int /\ MinChange \in Int
      BY CandidateFacts, BuilderAssumption DEF FeeInv
<1>2. Min({tbChange, MinChange}) \in Int
      BY <1>1, MinOfPair
<1>3. tbChange - Min({tbChange, MinChange}) \in Int /\ -Delta \in Int
      BY <1>1, <1>2
<1>4. Min({-Delta, tbChange - Min({tbChange, MinChange})}) \in Int
      BY <1>3, MinOfPair
<1> QED BY <1>1, <1>4 DEF Change

\* A batch is asked for: nothing is built yet.
LEMMA RequestedStep ==
  ASSUME FeeInv, Requested
  PROVE  FeeInv'
<1>0. PICK value \in [Coin -> CoinValues], spends \in SpendValues, sends \in SendValues,
           rate \in FeeRates, hidden \in SUBSET Coin, previous \in PreviousFees \cup {NoPrevious} :
        \E carried \in SUBSET hidden, lineage \in {NoLineage} \cup hidden,
           previousRate \in FeeRates :
          /\ previous = NoPrevious => carried = {} /\ previousRate = rate
          /\ tbJob' = [value |-> value, spends |-> spends, sends |-> sends, rate |-> rate,
                       hidden |-> hidden, carried |-> carried, lineage |-> lineage,
                       previous |-> previous, previousRate |-> previousRate]
      BY Zenon DEF Requested
<1>1. PICK carried \in SUBSET hidden, lineage \in {NoLineage} \cup hidden,
           previousRate \in FeeRates :
             tbJob' = [value |-> value, spends |-> spends, sends |-> sends, rate |-> rate,
                       hidden |-> hidden, carried |-> carried, lineage |-> lineage,
                       previous |-> previous, previousRate |-> previousRate]
      BY <1>0, Zenon
<1>2. /\ CoinValues \subseteq Nat /\ SpendValues \subseteq Nat /\ SendValues \subseteq Nat
      /\ FeeRates \subseteq Nat /\ PreviousFees \subseteq Nat /\ MinChange \in Int
      BY BuilderAssumption
<1>3. tbJob' \in Jobs
      BY <1>1, <1>2 DEF Jobs
<1>4. /\ tbJob = NoJob /\ tbChange' = MinChange /\ UNCHANGED <<tbBest, tbSize>>
      /\ tbSelected' = Cover(tbJob') \/ tbSelected' = tbSelected
      /\ tbResult' = [outcome |-> "invalid"] \/ tbResult' = tbResult
      BY DEF Requested
<1>5. Cover(tbJob') \in SUBSET Coin
      BY <1>3 DEF Cover, Jobs
<1>6. tbSelected' \in SUBSET Coin /\ tbChange' \in Int
      BY <1>2, <1>4, <1>5 DEF FeeInv
<1>7. tbBest' = NoTx /\ tbSize' = 0 /\ ~IsBuilt'
      BY <1>4 DEF FeeInv, IsBuilt
<1> QED BY <1>3, <1>6, <1>7 DEF FeeInv

\* A build ends: with this candidate, with the best one, or without.
LEMMA EndStep ==
  ASSUME FeeInv, tbJob # NoJob, UNCHANGED <<tbJob, tbSelected, tbChange, tbBest, tbSize>>,
         \/ tbResult'.outcome # "built"
         \/ Pays(tbResult'.tx)
  PROVE  FeeInv'
<1>1. IsBuilt' => Pays(tbResult.tx)'
      BY DEF IsBuilt, Pays, Target
<1>2. (tbBest # NoTx => Pays(tbBest))'
      BY DEF FeeInv, Pays, Target
<1> QED BY <1>1, <1>2 DEF FeeInv

\* A round ends with the next one.
LEMMA RoundStep ==
  ASSUME FeeInv, tbJob # NoJob, NextRound, UNCHANGED tbResult,
         tbSelected' \in SUBSET Coin, tbSelected \subseteq tbSelected'
  PROVE  FeeInv'
<1>1. UNCHANGED tbJob /\ tbBest' = BestNow /\ tbSize' = Candidate.size /\ tbChange' = Change
      BY DEF NextRound
<1>2. tbChange' \in Int
      BY <1>1, ChangeIsInt
<1>3. IsFiniteSet(Coin)
      BY BuilderAssumption
<1>4. IsFiniteSet(tbSelected') /\ Cardinality(tbSelected') \in Nat
      BY <1>3, FS_Subset, FS_CardinalityType
<1>5. Cardinality(tbSelected) \in 0 .. Cardinality(tbSelected')
      BY <1>4, FS_Subset, CandidateFacts
<1>6. tbSize' \in Sizes(Cardinality(tbSelected))
      BY <1>1, CandidateFacts
<1>7. (tbSize = 0 \/ \E n \in 0 .. Cardinality(tbSelected) : tbSize \in Sizes(n))'
      BY <1>5, <1>6 DEF Sizes
<1>8. (tbBest # NoTx => Pays(tbBest))'
      BY <1>1, BestPays DEF Pays, Target
<1>9. (IsBuilt => Pays(tbResult.tx))'
      BY <1>1 DEF FeeInv, IsBuilt, Pays, Target
<1> QED BY <1>1, <1>2, <1>7, <1>8, <1>9 DEF FeeInv

\* Every step of the builder keeps the invariant.
LEMMA FeeStep ==
  ASSUME FeeInv, [BuilderNext]_builderVars
  PROVE  FeeInv'
<1>1. CASE Requested
      BY <1>1, RequestedStep
<1>2. CASE Converged
  <2>1. tbJob # NoJob /\ UNCHANGED <<tbJob, tbSelected, tbChange, tbBest, tbSize>>
        BY <1>2 DEF Converged, Building
  <2>2. Delta = 0
        BY <1>2, <2>1, NeverGrew DEF Converged
  <2>3. Pays(Candidate)
        BY <2>1, <2>2, CandidateFacts DEF Pays, Delta
  <2>4. tbResult' = [outcome |-> "client"] \/ tbResult' = Receipt(Candidate)
        BY <1>2 DEF Converged
  <2>5. tbResult'.outcome # "built" \/ Pays(tbResult'.tx)
        BY <2>3, <2>4 DEF Receipt
  <2> QED BY <2>1, <2>5, EndStep
<1>3. CASE Adjusts
  <2>1. tbJob # NoJob /\ NextRound /\ UNCHANGED <<tbSelected, tbResult>>
        BY <1>3 DEF Adjusts, Building
  <2>2. tbSelected' \in SUBSET Coin /\ tbSelected \subseteq tbSelected'
        BY <2>1 DEF FeeInv
  <2> QED BY <2>1, <2>2, RoundStep
<1>4. CASE AddsCover
  <2> DEFINE extra == Greedy(Available, Needed)
  <2>1. tbJob # NoJob
        BY <1>4 DEF AddsCover, Building
  <2>2. CASE extra = {}
    <3>1. UNCHANGED <<tbJob, tbSelected, tbChange, tbBest, tbSize>>
          BY <1>4, <2>2 DEF AddsCover
    <3>2. \/ tbResult' = [outcome |-> "insufficient"]
          \/ BestNow # NoTx /\ tbResult' = Receipt(BestNow)
          BY <1>4, <2>2 DEF AddsCover, FallsBack
    <3>3. tbResult'.outcome # "built" \/ Pays(tbResult'.tx)
          BY <2>1, <3>2, BestPays DEF Receipt
    <3> QED BY <2>1, <3>1, <3>3, EndStep
  <2>3. CASE extra # {}
    <3>1. NextRound /\ tbSelected' = tbSelected \cup extra /\ UNCHANGED tbResult
          BY <1>4, <2>3 DEF AddsCover
    <3>2. extra \subseteq Coin
          BY DEF Greedy, Available
    <3>3. tbSelected' \in SUBSET Coin /\ tbSelected \subseteq tbSelected'
          BY <3>1, <3>2 DEF FeeInv
    <3> QED BY <2>1, <3>1, <3>3, RoundStep
  <2> QED BY <2>2, <2>3
<1>5. CASE RunsOut
  <2>1. tbJob # NoJob /\ UNCHANGED <<tbJob, tbSelected, tbChange, tbBest, tbSize>>
        BY <1>5 DEF RunsOut
  <2>2. \/ tbResult' = [outcome |-> "exceeded"]
        \/ tbBest # NoTx /\ tbResult' = Receipt(tbBest)
        BY <1>5 DEF RunsOut
  <2>3. tbResult'.outcome # "built" \/ Pays(tbResult'.tx)
        BY <2>2 DEF Receipt, FeeInv
  <2> QED BY <2>1, <2>3, EndStep
<1>6. CASE UNCHANGED builderVars
      BY <1>6 DEF builderVars, FeeInv, IsBuilt, Pays, Target
<1> QED BY <1>1, <1>2, <1>3, <1>4, <1>5, <1>6 DEF BuilderNext

\* Paying the target is paying enough.
LEMMA PaysIsEnough ==
  ASSUME FeeInv
  PROVE  FeeEnough
<1>1. SUFFICES ASSUME IsBuilt
               PROVE  /\ Overpaid >= 0
                      /\ tbJob.previous # NoPrevious =>
                           tbResult.tx.fee >= tbJob.previous + tbResult.tx.size
      BY DEF FeeEnough
<1>2. tbJob \in Jobs /\ Pays(tbResult.tx)
      BY <1>1 DEF FeeInv
<1>3. /\ Target(tbJob, tbResult.tx) \in Nat
      /\ tbJob.previous # NoPrevious =>
           Target(tbJob, tbResult.tx) >= tbJob.previous + tbResult.tx.size
      BY <1>2, TargetCovers DEF Pays
<1>4. tbJob.previous # NoPrevious => tbJob.previous \in Nat
      BY <1>2 DEF Jobs
<1> QED BY <1>2, <1>3, <1>4 DEF Pays, Overpaid

\* No transaction the builder hands out pays less than its size asks for, and no
\* replacement less than the network demands of one: for any batch, wallet and rates,
\* however the rounds end.
THEOREM FeeEnoughHolds == BuilderSpec => []FeeEnough
<1>1. BuilderInit => FeeInv
      BY DEF BuilderInit, FeeInv, IsBuilt, Unbuilt
<1>2. FeeInv /\ [BuilderNext]_builderVars => FeeInv'
      BY FeeStep
<1>3. FeeInv => FeeEnough
      BY PaysIsEnough
<1> QED BY <1>1, <1>2, <1>3, PTL DEF BuilderSpec

-----------------------------------------------------------------------------
(* The same builder, the other way around: it does not pay much more either. The target *)
(* of a transaction is convex in its size but for the rounding, so a candidate that is   *)
(* better than a fair one with fewer inputs is fair as well; and a candidate that pays too *)
(* much has the change right within two rounds, if there are rounds left.                *)

\* Multiples of a positive number are ordered as the factors.
LEMMA FactorsOrdered ==
  ASSUME NEW u \in Nat \ {0}, NEW p \in Int, NEW q \in Int, u * p < u * q + u
  PROVE  p <= q
<1>1. SUFFICES ASSUME p > q PROVE FALSE
      OBVIOUS
<1>2. PICK k \in Nat : p = q + 1 + k
  <2>1. p - q - 1 \in Nat /\ p = q + 1 + (p - q - 1)
        BY <1>1
  <2> QED BY <2>1
<1>3. u * p = u * q + u + u * k /\ u * k >= 0
      BY <1>2
<1> QED BY <1>3

\* Scaled rounds up: it is the least whole number of fee units that covers the product.
LEMMA ScaledRoundsUp ==
  ASSUME NEW rate \in Nat, NEW size \in Nat
  PROVE  /\ rate * size \in Nat
         /\ RateUnit * Scaled(rate, size) >= rate * size
         /\ RateUnit * Scaled(rate, size) < rate * size + RateUnit
<1>1. RateUnit \in Nat \ {0}
      BY BuilderAssumption
<1>2. rate * size \in Nat
      OBVIOUS
<1> DEFINE m == rate * size
           u == RateUnit
           q == (m + u - 1) \div u
           r == (m + u - 1) % u
<1>3. Scaled(rate, size) = q
      BY DEF Scaled
<1>4. m \in Nat /\ u \in Nat /\ u > 0
      BY <1>1, <1>2
<1> HIDE DEF m, u
<1>5. q \in Int /\ r \in 0 .. (u - 1) /\ m + u - 1 = u * q + r
      BY <1>4, SMTT(30)
<1> HIDE DEF q, r
<1>6. u * q \in Int
      BY <1>4, <1>5
<1>7. u * q >= m /\ u * q < m + u
      BY <1>4, <1>5, <1>6
<1> QED BY <1>2, <1>3, <1>7 DEF m, u

\* The fee of a longer transaction is that of its parts, but for the rounding.
LEMMA ScaledAdds ==
  ASSUME NEW rate \in Nat, NEW a \in Nat, NEW b \in Nat
  PROVE  /\ Scaled(rate, a + b) <= Scaled(rate, a) + Scaled(rate, b)
         /\ Scaled(rate, a + b) >= Scaled(rate, a) + Scaled(rate, b) - 1
         /\ Scaled(rate, a + b) >= Scaled(rate, a)
<1> DEFINE u == RateUnit
           x == Scaled(rate, a)
           y == Scaled(rate, b)
           z == Scaled(rate, a + b)
<1>1. u \in Nat \ {0}
      BY BuilderAssumption
<1>0. a + b \in Nat
      OBVIOUS
<1>2. x \in Nat /\ y \in Nat /\ z \in Nat
      BY <1>0, ScaledIsNat
<1>3. /\ u * x >= rate * a /\ u * x < rate * a + u /\ rate * a \in Nat
      /\ u * y >= rate * b /\ u * y < rate * b + u /\ rate * b \in Nat
      /\ u * z >= rate * (a + b) /\ u * z < rate * (a + b) + u
      BY <1>0, ScaledRoundsUp
<1>4. rate * (a + b) = rate * a + rate * b
      OBVIOUS
<1> HIDE DEF u, x, y, z
<1> DEFINE m == rate * a
           n == rate * b
<1>5. m \in Nat /\ n \in Nat /\ u * x \in Nat /\ u * y \in Nat /\ u * z \in Nat
      BY <1>1, <1>2, <1>3
<1>6. u * (x + y) = u * x + u * y /\ u * (z + 1) = u * z + u
      BY <1>1, <1>2
<1>7. z <= x + y
  <2>1. u * z < u * (x + y) + u
        BY <1>1, <1>3, <1>4, <1>5, <1>6
  <2> QED BY <1>1, <1>2, <2>1, FactorsOrdered
<1>8. x + y <= z + 1
  <2>1. u * (x + y) < u * (z + 1) + u
        BY <1>1, <1>3, <1>4, <1>5, <1>6
  <2> QED BY <1>1, <1>2, <2>1, FactorsOrdered
<1>9. x <= z
  <2>1. u * x < u * z + u
        BY <1>1, <1>3, <1>4, <1>5, <1>6
  <2> QED BY <1>1, <1>2, <2>1, FactorsOrdered
<1> QED BY <1>2, <1>7, <1>8, <1>9 DEF x, y, z

\* A rate up to one unit costs at most the size, a higher one at least the size.
LEMMA ScaledAgainstSize ==
  ASSUME NEW rate \in Nat, NEW size \in Nat
  PROVE  /\ rate <= RateUnit => Scaled(rate, size) <= size
         /\ rate > RateUnit => Scaled(rate, size) >= size
         /\ rate > RateUnit /\ size > 0 => Scaled(rate, size) > size
<1> DEFINE u == RateUnit
           q == Scaled(rate, size)
           m == rate * size
<1>1. u \in Nat \ {0} /\ q \in Nat
      BY BuilderAssumption, ScaledIsNat
<1>2. m \in Nat /\ u * q >= m /\ u * q < m + u
      BY ScaledRoundsUp
<1>3. u * q \in Nat /\ u * size \in Nat
      BY <1>1
<1>4. rate <= u => m <= u * size
      BY <1>1
<1>5. rate >= u => m >= u * size
      BY <1>1
<1>6. rate > u /\ size > 0 => m > u * size
  <2>1. SUFFICES ASSUME rate > u, size > 0 PROVE m > u * size
        OBVIOUS
  <2>2. PICK k \in Nat : rate = u + 1 + k
    <3>1. rate - u - 1 \in Nat /\ rate = u + 1 + (rate - u - 1)
          BY <1>1, <2>1
    <3> QED BY <3>1
  <2>3. m = u * size + size + k * size /\ k * size >= 0
        BY <1>1, <2>2
  <2> QED BY <1>3, <2>1, <2>3
<1> HIDE DEF u, q, m
<1>7. u * (size + 1) = u * size + u
      BY <1>1
<1>8. rate <= u => q <= size
  <2>1. SUFFICES ASSUME rate <= u PROVE q <= size
        OBVIOUS
  <2>2. u * q < u * size + u
        BY <1>1, <1>2, <1>3, <1>4, <2>1
  <2> QED BY <1>1, <2>2, FactorsOrdered
<1>9. rate >= u => size <= q
  <2>1. SUFFICES ASSUME rate >= u PROVE size <= q
        OBVIOUS
  <2>2. u * size < u * q + u
        BY <1>1, <1>2, <1>3, <1>5, <2>1
  <2> QED BY <1>1, <2>2, FactorsOrdered
<1>10. rate > u /\ size > 0 => size + 1 <= q
  <2>1. SUFFICES ASSUME rate > u, size > 0 PROVE size + 1 <= q
        OBVIOUS
  <2>2. u * (size + 1) < u * q + u
        BY <1>1, <1>2, <1>3, <1>6, <1>7, <2>1
  <2> QED BY <1>1, <2>2, FactorsOrdered
<1> QED BY <1>1, <1>8, <1>9, <1>10 DEF u, q

\* A higher rate asks for no less.
LEMMA ScaledOrdered ==
  ASSUME NEW low \in Nat, NEW high \in Nat, low <= high, NEW size \in Nat
  PROVE  Scaled(low, size) <= Scaled(high, size)
<1> DEFINE u == RateUnit
           x == Scaled(low, size)
           y == Scaled(high, size)
<1>1. u \in Nat \ {0} /\ x \in Nat /\ y \in Nat
      BY BuilderAssumption, ScaledIsNat
<1>2. /\ u * x < low * size + u /\ low * size \in Nat
      /\ u * y >= high * size /\ high * size \in Nat
      BY ScaledRoundsUp
<1>3. low * size <= high * size
  <2>1. PICK k \in Nat : high = low + k
    <3>1. high - low \in Nat /\ high = low + (high - low)
          OBVIOUS
    <3> QED BY <3>1
  <2>2. high * size = low * size + k * size /\ k * size >= 0
        BY <2>1
  <2> QED BY <1>2, <2>2
<1> HIDE DEF u, x, y
<1>4. u * x \in Nat /\ u * y \in Nat
      BY <1>1
<1>5. u * x < u * y + u
      BY <1>1, <1>2, <1>3, <1>4
<1>6. x <= y
      BY <1>1, <1>5, FactorsOrdered
<1> QED BY <1>6 DEF x, y

\* What a job asks of a transaction of a size
Asked(job, size) == Target(job, [size |-> size])

\* The higher one of the two rates a job may have to pay
RateOf(job) ==
  IF job.previous = NoPrevious \/ job.rate > job.previousRate THEN job.rate
  ELSE job.previousRate + 1

\* That is a rate.
LEMMA RateIsNat ==
  ASSUME NEW job \in Jobs
  PROVE  RateOf(job) \in Nat
BY DEF RateOf, Jobs

\* The target is the scaled rate, or for a replacement its size on top of the previous fee
\* if that is more.
LEMMA AskedIs ==
  ASSUME NEW job \in Jobs, NEW size \in Nat
  PROVE  LET fee == Scaled(RateOf(job), size + 1)
         IN  /\ RateOf(job) \in Nat /\ fee \in Nat /\ Asked(job, size) \in Nat
             /\ job.previous = NoPrevious => Asked(job, size) = fee
             /\ job.previous # NoPrevious =>
                  /\ job.previous \in Nat
                  /\ Asked(job, size) =
                       IF fee >= job.previous + size + 1 THEN fee ELSE job.previous + size + 1
<1> DEFINE v == size + 1
           tx == [size |-> size]
<1>1. v \in Nat /\ tx.size = size /\ tx.size + 1 = v
      OBVIOUS
<1>2. job.rate \in Nat /\ job.previousRate \in Nat
      /\ (job.previous # NoPrevious => job.previous \in Nat)
      BY DEF Jobs
<1>3. RateOf(job) \in Nat
      BY <1>2 DEF RateOf
<1>4. Scaled(RateOf(job), v) \in Nat
      BY <1>1, <1>3, ScaledIsNat
<1>5. CASE job.previous = NoPrevious
  <2>1. Asked(job, size) = Scaled(job.rate, v) /\ RateOf(job) = job.rate
        BY <1>1, <1>5 DEF Asked, Target, RateOf
  <2> QED BY <1>3, <1>4, <1>5, <2>1
<1>6. CASE job.previous # NoPrevious
  <2> DEFINE s == Scaled(job.previousRate + 1, v)
             r == job.previous + v
             t == Scaled(job.rate, v)
  <2>1. Asked(job, size) = Max({s, r, t})
        BY <1>1, <1>6, Zenon DEF Asked, Target
  <2>0. job.previousRate + 1 \in Nat
        BY <1>2
  <2>a. r \in Nat
        BY <1>1, <1>2, <1>6
  <2>b. s \in Nat /\ t \in Nat
        BY <1>1, <1>2, <2>0, ScaledIsNat
  <2>2. s \in Nat /\ t \in Nat /\ r \in Nat
        BY <2>a, <2>b
  <2>3. IF s >= t THEN RateOf(job) = job.previousRate + 1 \/ s = t
        ELSE RateOf(job) = job.rate
    <3>1. CASE job.rate > job.previousRate
      <4>1. s <= t
            BY <1>1, <1>2, <3>1, ScaledOrdered
      <4> QED BY <2>2, <3>1, <4>1 DEF RateOf
    <3>2. CASE ~(job.rate > job.previousRate)
      <4>1. t <= s
            BY <1>1, <1>2, <3>2, ScaledOrdered
      <4> QED BY <1>6, <2>2, <3>2, <4>1 DEF RateOf
    <3> QED BY <3>1, <3>2
  <2>4. RateOf(job) = job.rate \/ RateOf(job) = job.previousRate + 1
        BY DEF RateOf
  <2>5. Scaled(RateOf(job), v) = IF s >= t THEN s ELSE t
        BY <2>2, <2>3, <2>4
  <2> HIDE DEF s, t, r
  <2>6. Max({s, r, t}) \in {s, r, t} /\ Max({s, r, t}) >= s /\ Max({s, r, t}) >= r
        /\ Max({s, r, t}) >= t
    <3>1. s \in Int /\ r \in Int /\ t \in Int
          BY <2>2
    <3> QED BY <3>1, MaxOfThree, Zenon
  <2>7. Asked(job, size) =
          IF Scaled(RateOf(job), v) >= r THEN Scaled(RateOf(job), v) ELSE r
        BY <2>1, <2>2, <2>5, <2>6
  <2>8. r = job.previous + size + 1
        BY <1>2, <1>6 DEF r
  <2> QED BY <1>2, <1>3, <1>4, <1>6, <2>2, <2>7, <2>8
<1> QED BY <1>5, <1>6

\* A longer transaction is asked for no less.
LEMMA AskedGrows ==
  ASSUME NEW job \in Jobs, NEW size \in Nat, NEW more \in Nat
  PROVE  Asked(job, size) <= Asked(job, size + more)
<1> DEFINE f(s) == Scaled(RateOf(job), s + 1)
<1>0. /\ size + more \in Nat /\ (size + more) + 1 = (size + 1) + more
      /\ size + 1 \in Nat /\ (size + more) + 1 \in Nat
      OBVIOUS
<1>1. RateOf(job) \in Nat
      BY RateIsNat
<1>2. f(size) \in Nat /\ f(size + more) \in Nat
      BY <1>0, <1>1, ScaledIsNat
<1>3. f(size) <= f(size + more)
      BY <1>0, <1>1, ScaledAdds
<1>4. /\ Asked(job, size) \in Nat
      /\ job.previous = NoPrevious => Asked(job, size) = f(size)
      /\ job.previous # NoPrevious =>
           /\ job.previous \in Nat
           /\ Asked(job, size) =
                IF f(size) >= job.previous + size + 1 THEN f(size) ELSE job.previous + size + 1
      BY AskedIs
<1>5. /\ job.previous = NoPrevious => Asked(job, size + more) = f(size + more)
      /\ job.previous # NoPrevious =>
           Asked(job, size + more) =
             IF f(size + more) >= job.previous + (size + more) + 1 THEN f(size + more)
             ELSE job.previous + (size + more) + 1
      BY <1>0, AskedIs
<1> HIDE DEF f
<1> QED BY <1>2, <1>3, <1>4, <1>5

\* What a change output adds to the target of a longer transaction is no less than what it
\* adds to that of a shorter one, but for the rounding.
LEMMA AllowanceKept ==
  ASSUME NEW job \in Jobs, NEW a \in Nat, NEW b \in Nat, NEW out \in Nat,
         b = a \/ b >= a + out
  PROVE  Asked(job, b + out) - Asked(job, b) >= Asked(job, a + out) - Asked(job, a) - 1
<1> DEFINE f(s) == Scaled(RateOf(job), s + 1)
           g == Scaled(RateOf(job), out)
           p == job.previous
<1>0. a + out \in Nat /\ b + out \in Nat
      OBVIOUS
<1>1. RateOf(job) \in Nat /\ g \in Nat
      BY RateIsNat, ScaledIsNat
<1>2. \A s \in Nat : f(s) \in Nat
  <2>1. SUFFICES ASSUME NEW s \in Nat PROVE f(s) \in Nat
        OBVIOUS
  <2>2. s + 1 \in Nat
        OBVIOUS
  <2> QED BY <1>1, <2>2, ScaledIsNat
<1>3. \A s, d \in Nat :
        /\ f(s + d) <= f(s) + Scaled(RateOf(job), d)
        /\ f(s + d) >= f(s) + Scaled(RateOf(job), d) - 1
        /\ f(s + d) >= f(s) /\ Scaled(RateOf(job), d) \in Nat
  <2>1. SUFFICES ASSUME NEW s \in Nat, NEW d \in Nat
                 PROVE  /\ f(s + d) <= f(s) + Scaled(RateOf(job), d)
                        /\ f(s + d) >= f(s) + Scaled(RateOf(job), d) - 1
                        /\ f(s + d) >= f(s) /\ Scaled(RateOf(job), d) \in Nat
        OBVIOUS
  <2>2. s + 1 \in Nat /\ (s + d) + 1 = (s + 1) + d
        OBVIOUS
  <2> QED BY <1>1, <2>2, ScaledAdds, ScaledIsNat
<1>4. \A s \in Nat :
        /\ Asked(job, s) \in Nat
        /\ p = NoPrevious => Asked(job, s) = f(s)
        /\ p # NoPrevious =>
             /\ p \in Nat
             /\ Asked(job, s) = IF f(s) >= p + s + 1 THEN f(s) ELSE p + s + 1
      BY AskedIs
<1>5. /\ RateOf(job) <= RateUnit => g <= out
      /\ RateOf(job) > RateUnit => g >= out
      BY <1>1, ScaledAgainstSize
<1>6. CASE b = a
      BY <1>0, <1>4, <1>6
<1>7. CASE b >= a + out
  <2>1. PICK d \in Nat : b = (a + out) + d
    <3>1. b - (a + out) \in Nat /\ b = (a + out) + (b - (a + out))
          BY <1>7
    <3> QED BY <3>1
  <2> DEFINE h == Scaled(RateOf(job), d)
  <2>2. /\ h \in Nat
        /\ f(b) <= f(a + out) + h /\ f(b) >= f(a + out) + h - 1
        BY <1>0, <1>3, <2>1
  <2>3. /\ f(a + out) <= f(a) + g
        /\ f(b + out) >= f(b) + g - 1 /\ f(b + out) >= f(b)
        BY <1>3
  <2>4. /\ RateOf(job) <= RateUnit => h <= d
        /\ RateOf(job) > RateUnit /\ d > 0 => h > d
        BY <1>1, ScaledAgainstSize
  <2>5. RateUnit \in Nat
        BY BuilderAssumption
  <2> DEFINE fa == f(a)
             fao == f(a + out)
             fb == f(b)
             fbo == f(b + out)
             cheap == RateOf(job) <= RateUnit
  <2>6. /\ fa \in Nat /\ fao \in Nat /\ fb \in Nat /\ fbo \in Nat
        BY <1>0, <1>2
  <2>7. CASE p = NoPrevious
    <3>1. /\ Asked(job, a) = fa /\ Asked(job, a + out) = fao
          /\ Asked(job, b) = fb /\ Asked(job, b + out) = fbo
          BY <1>0, <1>4, <2>7
    <3> HIDE DEF fa, fao, fb, fbo, g
    <3> QED BY <1>1, <2>3, <2>6, <3>1 DEF fa, fao, fb, fbo
  <2>8. CASE p # NoPrevious
    <3>1. /\ p \in Nat
          /\ Asked(job, a) = IF fa >= p + a + 1 THEN fa ELSE p + a + 1
          /\ Asked(job, a + out) = IF fao >= p + (a + out) + 1 THEN fao ELSE p + (a + out) + 1
          /\ Asked(job, b) = IF fb >= p + b + 1 THEN fb ELSE p + b + 1
          /\ Asked(job, b + out) = IF fbo >= p + (b + out) + 1 THEN fbo ELSE p + (b + out) + 1
          BY <1>0, <1>4, <2>8
    <3>2. cheap \in BOOLEAN /\ (cheap => g <= out /\ h <= d)
          /\ (~cheap => g >= out /\ (d > 0 => h > d))
          BY <1>1, <1>5, <2>4, <2>5
    <3>3. /\ fao <= fa + g /\ fbo >= fb + g - 1 /\ fbo >= fb
          /\ fb <= fao + h /\ fb >= fao + h - 1
          BY <2>2, <2>3
    <3>4. d = 0 => fb = fao
          BY <1>0, <2>1
    <3> HIDE DEF fa, fao, fb, fbo, g, h, cheap, p
    <3>5. CASE cheap
          BY <1>1, <2>1, <2>2, <2>6, <3>1, <3>2, <3>3, <3>4, <3>5
    <3>6. CASE ~cheap
          BY <1>1, <2>1, <2>2, <2>6, <3>1, <3>2, <3>3, <3>4, <3>6
    <3> QED BY <3>5, <3>6
  <2> QED BY <2>7, <2>8
<1> QED BY <1>6, <1>7

\* The size with so many inputs and no change
Bare(n) == BaseSize + InputSize * n

\* What the selected outputs leave before any change, and the targets without and with it
Held == Balance(tbJob) + ValueOf(tbJob, tbSelected)
Inputs == Cardinality(tbSelected)
BareTarget == Asked(tbJob, Bare(Inputs))
FullTarget == Asked(tbJob, Bare(Inputs) + OutputSize)

\* A transaction pays no more than its change output would have cost, and dust.
Fair(tx) == "size" \in DOMAIN tx /\ tx.fee <= DustLimit + Asked(tbJob, tx.size + OutputSize)

\* A build before its end: nothing pays enough yet, and every round has added an output;
Searching == tbBest = NoTx /\ tbChange = MinChange /\ tbRound <= Inputs

\* or the change is what is left, and above its floor, which is above dust;
Pinned ==
  /\ MinChange > DustLimit /\ tbBest # NoTx
  /\ tbChange = Held - FullTarget /\ tbChange >= MinChange
  /\ tbRound <= Inputs + 1

\* or the best pays too much, and the next round but one at most has the change right;
Settling ==
  /\ MinChange <= DustLimit /\ tbBest # NoTx /\ Held - FullTarget > DustLimit
  /\ \/ tbChange = MinChange + Held - BareTarget /\ tbRound <= Inputs + 1
     \/ tbChange = Held - FullTarget /\ tbRound <= Inputs + 2

\* or the best is fair and has no change, and the change swings around the dust limit.
Swinging ==
  /\ MinChange <= DustLimit /\ tbBest # NoTx /\ Fair(tbBest)
  /\ \E m \in 0 .. Inputs : tbBest.size = Bare(m)
  /\ tbChange >= MinChange
  /\ tbChange > DustLimit => Held - tbChange <= FullTarget

Phase == Searching \/ Pinned \/ Settling \/ Swinging

\* A build adds few enough outputs to leave rounds for the change.
RoundsLeft == Inputs + 3 <= MaxIterations

JustInv ==
  /\ FeeInv
  /\ tbJob # NoJob /\ tbResult = Unbuilt => Phase
  /\ tbJob = NoJob => tbRound = 0
  /\ tbRound \in Nat
  /\ IsBuilt /\ RoundsLeft => Fair(tbResult.tx)

\* The numbers a round works with.
LEMMA RoundFacts ==
  ASSUME FeeInv, tbJob # NoJob
  PROVE  /\ tbJob \in Jobs /\ Held \in Int /\ Inputs \in Nat /\ Bare(Inputs) \in Nat
         /\ BareTarget \in Nat /\ FullTarget \in Nat /\ BareTarget <= FullTarget
         /\ DustLimit \in Nat /\ MinChange \in Nat /\ OutputSize \in Nat
         /\ tbChange \in Int
         /\ tbChange > DustLimit =>
              /\ Candidate.size = Bare(Inputs) + OutputSize /\ Candidate.fee = Held - tbChange
              /\ Delta = Held - tbChange - FullTarget
         /\ ~(tbChange > DustLimit) =>
              /\ Candidate.size = Bare(Inputs) /\ Candidate.fee = Held
              /\ Delta = Held - BareTarget
<1>1. tbJob \in Jobs /\ tbSelected \in SUBSET Coin /\ tbChange \in Int
      BY DEF FeeInv
<1>2. /\ BaseSize \in Nat /\ InputSize \in Nat /\ OutputSize \in Nat /\ DustLimit \in Nat
      /\ MinChange \in Nat /\ IsFiniteSet(Coin)
      BY BuilderAssumption
<1>3. IsFiniteSet(tbSelected) /\ Inputs \in Nat
      BY <1>1, <1>2, FS_Subset, FS_CardinalityType DEF Inputs
<1>4. Bare(Inputs) \in Nat
      BY <1>2, <1>3 DEF Bare
<1>5. Held \in Int /\ Balance(tbJob) \in Int /\ ValueOf(tbJob, tbSelected) \in Nat
  <2>1. \A x \in tbSelected : tbJob.value[x] \in Nat
        BY <1>1 DEF Jobs
  <2>2. ValueOf(tbJob, tbSelected) \in Nat
        BY <1>3, <2>1, SumIsNat, Zenon DEF ValueOf
  <2>3. Balance(tbJob) \in Int
        BY <1>1 DEF Balance, Jobs
  <2> QED BY <2>2, <2>3 DEF Held
<1>6. BareTarget \in Nat /\ FullTarget \in Nat /\ BareTarget <= FullTarget
  <2>1. Bare(Inputs) + OutputSize \in Nat
        BY <1>2, <1>4
  <2> QED BY <1>1, <1>2, <1>4, <2>1, AskedIs, AskedGrows DEF BareTarget, FullTarget
<1>7. Target(tbJob, Candidate) = Asked(tbJob, Candidate.size)
      BY DEF Asked, Target
<1>10. /\ Bare(Inputs) = BaseSize + InputSize * Cardinality(tbSelected)
       /\ Held = Balance(tbJob) + ValueOf(tbJob, tbSelected)
       BY DEF Bare, Inputs, Held
<1>8. ASSUME tbChange > DustLimit
      PROVE  /\ Candidate.size = Bare(Inputs) + OutputSize /\ Candidate.fee = Held - tbChange
             /\ Delta = Held - tbChange - FullTarget
  <2>1. Candidate.size = BaseSize + InputSize * Cardinality(tbSelected) + OutputSize
        /\ Candidate.fee = Balance(tbJob) + ValueOf(tbJob, tbSelected) - tbChange
        BY <1>1, <1>2, <1>8 DEF Candidate, TxOf
  <2>2. Candidate.size = Bare(Inputs) + OutputSize /\ Candidate.fee = Held - tbChange
        BY <1>1, <1>5, <1>10, <2>1
  <2>3. Delta = Candidate.fee - Asked(tbJob, Candidate.size)
        BY <1>7 DEF Delta
  <2> QED BY <2>2, <2>3 DEF FullTarget
<1>9. ASSUME ~(tbChange > DustLimit)
      PROVE  /\ Candidate.size = Bare(Inputs) /\ Candidate.fee = Held
             /\ Delta = Held - BareTarget
  <2>1. Candidate.size = BaseSize + InputSize * Cardinality(tbSelected) + 0
        /\ Candidate.fee = Balance(tbJob) + ValueOf(tbJob, tbSelected) - 0
        BY <1>9 DEF Candidate, TxOf
  <2>2. Candidate.size = Bare(Inputs) /\ Candidate.fee = Held
        BY <1>4, <1>5, <1>10, <2>1
  <2>3. Delta = Candidate.fee - Asked(tbJob, Candidate.size)
        BY <1>7 DEF Delta
  <2> QED BY <2>2, <2>3 DEF BareTarget
<1> QED BY <1>1, <1>2, <1>3, <1>4, <1>5, <1>6, <1>8, <1>9

\* The next change is the one that makes up for the difference, or its floor, and what is
\* missing then is needed.
LEMMA ChangeIs ==
  ASSUME FeeInv, tbJob # NoJob, tbChange >= MinChange
  PROVE  IF tbChange + Delta >= MinChange THEN Change = tbChange + Delta /\ Needed = 0
         ELSE Change = MinChange /\ Needed = MinChange - tbChange - Delta /\ Delta < 0
<1>1. tbChange \in Int /\ Delta \in Int /\ MinChange \in Nat /\ -Delta \in Int
      BY CandidateFacts, RoundFacts
<1> DEFINE floor == Min({tbChange, MinChange})
           spare == tbChange - floor
           cut == Min({-Delta, spare})
<1>2. floor = MinChange
      BY <1>1, MinOfTwo
<1>3. spare = tbChange - MinChange /\ spare \in Int
      BY <1>1, <1>2
<1>4. cut = IF -Delta <= spare THEN -Delta ELSE spare
  <2> HIDE DEF spare, floor
  <2> QED BY <1>1, <1>3, MinOfTwo
<1>5. Change = IF Delta > 0 THEN tbChange + Delta ELSE tbChange - cut
      BY DEF Change
<1> HIDE DEF floor, spare, cut
<1>6. Change = IF tbChange + Delta >= MinChange THEN tbChange + Delta ELSE MinChange
      BY <1>1, <1>3, <1>4, <1>5
<1>7. MinChange - Change \in Int /\ Change \in Int
      BY <1>1, <1>6
<1>8. Needed = IF Delta < 0 THEN -Delta - (tbChange - Change)
               ELSE IF 0 >= MinChange - Change THEN 0 ELSE MinChange - Change
      BY <1>7, MaxOfTwo DEF Needed
<1> QED BY <1>1, <1>6, <1>7, <1>8

\* A candidate is a record that is not the empty one.
LEMMA CandidateIsTx ==
  "size" \in DOMAIN Candidate /\ Candidate # NoTx
<1>1. Candidate = [coins |-> Candidate.coins, change |-> Candidate.change,
                   size |-> Candidate.size, fee |-> Candidate.fee]
      BY DEF Candidate, TxOf
<1>2. "size" \in DOMAIN Candidate
      BY <1>1
<1>3. "size" \notin DOMAIN NoTx
      BY DEF NoTx
<1> QED BY <1>2, <1>3

\* A candidate that pays its target pays no more than is fair.
LEMMA ExactIsFair ==
  ASSUME FeeInv, tbJob # NoJob, Delta = 0
  PROVE  Fair(Candidate)
<1>1. Candidate.fee \in Int /\ Candidate.size \in Nat /\ tbJob \in Jobs
      /\ OutputSize \in Nat /\ DustLimit \in Nat
      BY CandidateFacts, RoundFacts
<1>2. Candidate.fee = Asked(tbJob, Candidate.size)
  <2>1. Target(tbJob, Candidate) = Asked(tbJob, Candidate.size)
        BY DEF Asked, Target
  <2>2. Target(tbJob, Candidate) \in Nat
        BY CandidateFacts
  <2> QED BY <1>1, <2>1, <2>2 DEF Delta
<1>3. Asked(tbJob, Candidate.size) <= Asked(tbJob, Candidate.size + OutputSize)
      BY <1>1, AskedGrows
<1>4. Candidate.size + OutputSize \in Nat
      BY <1>1
<1>5. Asked(tbJob, Candidate.size + OutputSize) \in Nat
      BY <1>1, <1>4, AskedIs
<1> QED BY <1>1, <1>2, <1>3, <1>5, CandidateIsTx DEF Fair

\* A candidate without change that is better than a fair one with no more inputs is fair.
LEMMA BetterIsFair ==
  ASSUME FeeInv, tbJob # NoJob, tbBest # NoTx, Fair(tbBest),
         NEW m \in 0 .. Inputs, tbBest.size = Bare(m),
         ~(tbChange > DustLimit), Delta < tbBest.fee - Target(tbJob, tbBest)
  PROVE  Fair(Candidate)
<1> DEFINE b == Bare(Inputs)
           a == Bare(m)
<1>0. /\ BaseSize \in Nat /\ InputSize \in Nat /\ OutputSize \in Nat /\ DustLimit \in Nat
      /\ InputSize > OutputSize
  <2>1. /\ BaseSize \in Nat /\ InputSize \in Nat /\ OutputSize \in Nat /\ DustLimit \in Nat
        /\ SizeTolerance \in Nat /\ InputSize - OutputSize > SizeTolerance
        BY BuilderAssumption
  <2> QED BY <2>1
<1>1. /\ tbJob \in Jobs /\ Inputs \in Nat /\ b \in Nat /\ Held \in Int
      /\ Candidate.size = b /\ Candidate.fee = Held /\ Delta = Held - BareTarget
      /\ BareTarget \in Nat /\ FullTarget \in Nat
      BY RoundFacts
<1>2. m \in Nat /\ a \in Nat /\ (b = a \/ b >= a + OutputSize)
  <2>1. m \in Nat /\ InputSize * m \in Nat /\ InputSize * Inputs \in Nat
        BY <1>0, <1>1
  <2>2. CASE m = Inputs
        BY <2>1, <2>2, <1>0 DEF Bare
  <2>3. CASE Inputs > m
    <3>1. InputSize * Inputs >= InputSize * m + InputSize
          BY <1>0, <1>1, <2>1, <2>3, ProductGrows
    <3> QED BY <1>0, <2>1, <3>1 DEF Bare
  <2> QED BY <1>1, <2>2, <2>3
<1>3. /\ BareTarget = Asked(tbJob, b) /\ FullTarget = Asked(tbJob, b + OutputSize)
      BY DEF BareTarget, FullTarget
<1>4. tbBest.fee \in Int /\ tbBest.fee <= DustLimit + Asked(tbJob, a + OutputSize)
      BY DEF FeeInv, Pays, Fair
<1>5. Target(tbJob, tbBest) = Asked(tbJob, a)
      BY DEF Asked, Target
<1>6. Asked(tbJob, a) \in Nat /\ Asked(tbJob, a + OutputSize) \in Nat
  <2>1. a + OutputSize \in Nat
        BY <1>0, <1>2
  <2> QED BY <1>1, <1>2, <2>1, AskedIs
<1>7. FullTarget - BareTarget >= Asked(tbJob, a + OutputSize) - Asked(tbJob, a) - 1
      BY <1>0, <1>1, <1>2, <1>3, AllowanceKept
<1>8. Held - BareTarget < tbBest.fee - Asked(tbJob, a)
      BY <1>1, <1>5
<1> HIDE DEF a, b
<1>9. Held <= DustLimit + FullTarget
      BY <1>0, <1>1, <1>4, <1>6, <1>7, <1>8
<1> QED BY <1>1, <1>3, <1>9, CandidateIsTx DEF Fair

\* In every phase the change has its floor.
LEMMA ChangeFloored ==
  ASSUME FeeInv, tbJob # NoJob, Phase
  PROVE  tbChange >= MinChange
BY RoundFacts DEF Phase, Searching, Pinned, Settling, Swinging

\* With the same outputs selected the numbers stay.
LEMMA SameNumbers ==
  ASSUME tbJob' = tbJob, tbSelected' = tbSelected
  PROVE  Held' = Held /\ Inputs' = Inputs /\ BareTarget' = BareTarget /\ FullTarget' = FullTarget
BY DEF Held, Inputs, BareTarget, FullTarget, Asked, Target, Balance, ValueOf, Bare

\* A round that only adjusts the change leads from phase to phase.
LEMMA AdjustsPhase ==
  ASSUME FeeInv, tbRound \in Nat, Phase, Adjusts
  PROVE  Phase'
<1>1. /\ tbJob # NoJob /\ Delta # 0 /\ Needed = 0
      /\ tbJob' = tbJob /\ tbSelected' = tbSelected /\ tbBest' = BestNow
      /\ tbChange' = Change /\ tbRound' = tbRound + 1
      BY DEF Adjusts, NextRound, Building
<1>2. Held' = Held /\ Inputs' = Inputs /\ BareTarget' = BareTarget /\ FullTarget' = FullTarget
      BY <1>1, SameNumbers
<1>3. /\ tbJob \in Jobs /\ Held \in Int /\ Inputs \in Nat /\ Bare(Inputs) \in Nat
      /\ BareTarget \in Nat /\ FullTarget \in Nat /\ BareTarget <= FullTarget
      /\ DustLimit \in Nat /\ MinChange \in Nat /\ OutputSize \in Nat /\ tbChange \in Int
      BY <1>1, RoundFacts
<1>4. /\ tbChange > DustLimit =>
           /\ Candidate.size = Bare(Inputs) + OutputSize /\ Candidate.fee = Held - tbChange
           /\ Delta = Held - tbChange - FullTarget
      /\ ~(tbChange > DustLimit) =>
           /\ Candidate.size = Bare(Inputs) /\ Candidate.fee = Held
           /\ Delta = Held - BareTarget
      BY <1>1, RoundFacts
<1>5. tbChange >= MinChange
      BY <1>1, ChangeFloored
<1>6. Delta \in Int
      BY <1>1, CandidateFacts
<1>7. tbChange' = tbChange + Delta /\ tbChange' >= MinChange
  <2>1. IF tbChange + Delta >= MinChange THEN Change = tbChange + Delta /\ Needed = 0
        ELSE Change = MinChange /\ Needed = MinChange - tbChange - Delta /\ Delta < 0
        BY <1>1, <1>5, ChangeIs
  <2> QED BY <1>1, <1>3, <1>6, <2>1
<1>8. Delta < 0 => tbBest' = tbBest
      BY <1>1, <1>6 DEF BestNow
<1>9. CASE Searching
  <2>1. tbBest = NoTx /\ tbChange = MinChange /\ tbRound <= Inputs
        BY <1>9 DEF Searching
  <2>2. Delta > 0
    <3>1. tbChange + Delta >= MinChange
          BY <1>7
    <3> QED BY <1>1, <1>3, <1>6, <2>1, <3>1
  <2>3. tbBest' = Candidate /\ tbBest' # NoTx
        BY <1>1, <2>1, <2>2, CandidateIsTx DEF BestNow
  <2>4. tbRound' <= Inputs' + 1
        BY <1>1, <1>2, <1>3, <2>1
  <2>5. CASE MinChange > DustLimit
    <3>1. tbChange' = Held - FullTarget
          BY <1>3, <1>4, <1>7, <2>1, <2>5
    <3> QED BY <1>2, <1>7, <2>3, <2>4, <2>5, <3>1 DEF Phase, Pinned
  <2>6. CASE MinChange <= DustLimit
    <3>1. ~(tbChange > DustLimit)
          BY <1>3, <2>1, <2>6
    <3>2. /\ tbChange' = MinChange + Held - BareTarget
          /\ Candidate.size = Bare(Inputs) /\ Candidate.fee = Held
      <4>1. Delta = Held - BareTarget
            BY <1>4, <3>1
      <4>2. tbChange' = MinChange + (Held - BareTarget)
            BY <1>7, <2>1, <4>1
      <4> QED BY <1>3, <1>4, <3>1, <4>2
    <3>3. CASE Held - FullTarget > DustLimit
          BY <1>2, <2>3, <2>4, <2>6, <3>2, <3>3 DEF Phase, Settling
    <3>4. CASE ~(Held - FullTarget > DustLimit)
      <4>1. Held <= DustLimit + FullTarget
            BY <1>3, <3>4
      <4>2. Fair(tbBest)'
            BY <1>1, <2>3, <3>2, <4>1, CandidateIsTx DEF Fair, FullTarget, Asked, Target
      <4>3. tbBest'.size = Bare(Inputs') /\ Inputs' \in 0 .. Inputs'
            BY <1>2, <1>3, <2>3, <3>2
      <4>4. (\E m \in 0 .. Inputs : tbBest.size = Bare(m))'
            BY <4>3 DEF Bare
      <4>5. tbChange' > DustLimit => Held' - tbChange' <= FullTarget'
            BY <1>2, <1>3, <3>2
      <4> QED BY <1>7, <2>3, <2>6, <4>2, <4>4, <4>5 DEF Phase, Swinging
    <3> QED BY <3>3, <3>4
  <2> QED BY <1>3, <2>5, <2>6
<1>10. CASE Pinned
  <2>1. tbChange = Held - FullTarget /\ tbChange >= MinChange /\ MinChange > DustLimit
        BY <1>10 DEF Pinned
  <2>2. Delta = Held - tbChange - FullTarget
        BY <1>3, <1>4, <2>1
  <2> QED BY <1>1, <1>3, <2>1, <2>2
<1>11. CASE Settling
  <2>1. MinChange <= DustLimit /\ tbBest # NoTx /\ Held - FullTarget > DustLimit
        BY <1>11 DEF Settling
  <2>2. CASE tbChange = MinChange + Held - BareTarget /\ tbRound <= Inputs + 1
    <3>1. tbChange > DustLimit
          BY <1>3, <2>1, <2>2
    <3>2. Delta = Held - tbChange - FullTarget
          BY <1>4, <3>1
    <3>3. Delta < 0
          BY <1>1, <1>3, <2>2, <3>2
    <3>4. tbChange' = Held - FullTarget
          BY <1>3, <1>7, <3>2
    <3>5. tbRound' <= Inputs' + 2
          BY <1>1, <1>2, <1>3, <2>2
    <3> QED BY <1>2, <1>8, <2>1, <3>3, <3>4, <3>5 DEF Phase, Settling
  <2>3. CASE tbChange = Held - FullTarget /\ tbRound <= Inputs + 2
    <3>1. Delta = Held - tbChange - FullTarget
          BY <1>4, <2>1, <2>3
    <3> QED BY <1>1, <1>3, <2>3, <3>1
  <2> QED BY <1>11, <2>2, <2>3 DEF Settling
<1>12. CASE Swinging
  <2>1. /\ MinChange <= DustLimit /\ tbBest # NoTx /\ Fair(tbBest) /\ tbChange >= MinChange
        /\ tbChange > DustLimit => Held - tbChange <= FullTarget
        BY <1>12 DEF Swinging
  <2>2. PICK m \in 0 .. Inputs : tbBest.size = Bare(m)
        BY <1>12 DEF Swinging
  <2>3. tbBest' = tbBest \/ (tbBest' = Candidate /\ Delta > 0 /\ Delta < tbBest.fee - Target(tbJob, tbBest))
        BY <1>1, <2>1 DEF BestNow
  <2>4. tbBest' = Candidate /\ Delta > 0 => ~(tbChange > DustLimit)
    <3>1. tbChange > DustLimit => Delta <= 0
          BY <1>3, <1>4, <2>1
    <3> QED BY <1>6, <3>1
  <2>5. tbBest' # NoTx /\ Fair(tbBest)' /\ (\E k \in 0 .. Inputs : tbBest.size = Bare(k))'
    <3>1. CASE tbBest' = tbBest
      <4>1. Fair(tbBest)'
            BY <1>1, <2>1, <3>1 DEF Fair, Asked, Target
      <4> QED BY <1>2, <2>1, <2>2, <3>1, <4>1 DEF Bare
    <3>2. CASE tbBest' = Candidate /\ Delta > 0 /\ Delta < tbBest.fee - Target(tbJob, tbBest)
      <4>1. ~(tbChange > DustLimit)
            BY <2>4, <3>2
      <4>2. Fair(Candidate)
            BY <1>1, <2>1, <2>2, <3>2, <4>1, BetterIsFair
      <4>3. Fair(tbBest)'
            BY <1>1, <3>2, <4>2 DEF Fair, Asked, Target
      <4>4. tbBest'.size = Bare(Inputs') /\ Inputs' \in 0 .. Inputs'
            BY <1>2, <1>3, <1>4, <3>2, <4>1
      <4> QED BY <3>2, <4>3, <4>4, CandidateIsTx DEF Bare
    <3> QED BY <2>3, <3>1, <3>2
  <2>6. tbChange' > DustLimit => Held' - tbChange' <= FullTarget'
    <3>1. CASE tbChange > DustLimit
          BY <1>2, <1>3, <1>4, <1>7, <3>1
    <3>2. CASE ~(tbChange > DustLimit)
      <4>1. Delta = Held - BareTarget
            BY <1>4, <3>2
      <4>2. tbChange' = tbChange + (Held - BareTarget)
            BY <1>7, <4>1
      <4> QED BY <1>2, <1>3, <2>1, <4>2
    <3> QED BY <3>1, <3>2
  <2> QED BY <1>7, <2>1, <2>5, <2>6 DEF Phase, Swinging
<1> QED BY <1>9, <1>10, <1>11, <1>12 DEF Phase

\* Outputs are asked for only while too little is paid: the change is at its floor then,
\* and the best so far stays.
LEMMA NeedsCover ==
  ASSUME FeeInv, tbJob # NoJob, Phase, Needed > 0
  PROVE  /\ Change = MinChange /\ BestNow = tbBest
         /\ Searching \/ Swinging
<1>1. /\ Held \in Int /\ FullTarget \in Nat /\ BareTarget \in Nat /\ BareTarget <= FullTarget
      /\ DustLimit \in Nat /\ MinChange \in Nat /\ tbChange \in Int
      /\ tbChange > DustLimit => Delta = Held - tbChange - FullTarget
      BY RoundFacts
<1>2. Delta \in Int
      BY CandidateFacts
<1>3. tbChange >= MinChange
      BY ChangeFloored
<1>4. tbChange + Delta < MinChange /\ Change = MinChange /\ Delta < 0
  <2>1. IF tbChange + Delta >= MinChange THEN Change = tbChange + Delta /\ Needed = 0
        ELSE Change = MinChange /\ Needed = MinChange - tbChange - Delta /\ Delta < 0
        BY <1>3, ChangeIs
  <2> QED BY <1>1, <1>2, <2>1
<1>5. BestNow = tbBest
      BY <1>2, <1>4 DEF BestNow
<1>6. ~Pinned
  <2>1. SUFFICES ASSUME Pinned PROVE FALSE
        OBVIOUS
  <2>2. tbChange = Held - FullTarget /\ tbChange > DustLimit
        BY <1>1, <2>1 DEF Pinned
  <2> QED BY <1>1, <1>2, <1>4, <2>2
<1>7. ~Settling
  <2>1. SUFFICES ASSUME Settling PROVE FALSE
        OBVIOUS
  <2>2. MinChange <= DustLimit /\ Held - FullTarget > DustLimit /\ tbChange > DustLimit
        BY <1>1, <2>1 DEF Settling
  <2>3. tbChange + Delta = Held - FullTarget
        BY <1>1, <1>2, <2>2
  <2> QED BY <1>1, <1>4, <2>2, <2>3
<1> QED BY <1>4, <1>5, <1>6, <1>7 DEF Phase

\* More outputs are selected: the search goes on with at least one more.
LEMMA CoverPhase ==
  ASSUME FeeInv, tbRound \in Nat, tbJob # NoJob, Phase, Needed > 0, NextRound,
         NEW extra, extra # {}, extra \subseteq Coin, extra \cap tbSelected = {},
         tbSelected' = tbSelected \cup extra
  PROVE  Phase'
<1>1. /\ tbJob' = tbJob /\ tbBest' = tbBest /\ tbChange' = MinChange /\ tbRound' = tbRound + 1
      /\ Searching \/ Swinging
      BY NeedsCover DEF NextRound
<1>2. /\ Inputs \in Nat /\ Inputs' \in Nat /\ Inputs < Inputs'
      /\ DustLimit \in Nat /\ MinChange \in Nat
  <2>1. tbSelected \in SUBSET Coin /\ IsFiniteSet(Coin)
        BY BuilderAssumption DEF FeeInv
  <2>2. tbSelected' \subseteq Coin /\ tbSelected \subseteq tbSelected' /\ tbSelected # tbSelected'
        BY <2>1
  <2>3. IsFiniteSet(tbSelected')
        BY <2>1, <2>2, FS_Subset
  <2>4. Inputs' \in Nat /\ Inputs <= Inputs' /\ Inputs # Inputs'
        BY <2>2, <2>3, FS_Subset, FS_CardinalityType DEF Inputs
  <2> QED BY <2>4, RoundFacts
<1>3. CASE Searching
  <2>1. tbRound' <= Inputs'
        BY <1>1, <1>2, <1>3 DEF Searching
  <2> QED BY <1>1, <1>3, <2>1 DEF Phase, Searching
<1>4. CASE Swinging
  <2>1. /\ MinChange <= DustLimit /\ tbBest # NoTx /\ Fair(tbBest)
        BY <1>4 DEF Swinging
  <2>2. PICK m \in 0 .. Inputs : tbBest.size = Bare(m)
        BY <1>4 DEF Swinging
  <2>3. m \in 0 .. Inputs'
        BY <1>2
  <2>4. (\E k \in 0 .. Inputs : tbBest.size = Bare(k))'
        BY <1>1, <2>2, <2>3 DEF Bare
  <2>5. Fair(tbBest)'
        BY <1>1, <2>1 DEF Fair, Asked, Target
  <2>6. ~(tbChange' > DustLimit) /\ tbChange' >= MinChange
        BY <1>1, <1>2, <2>1
  <2> QED BY <1>1, <2>1, <2>4, <2>5, <2>6 DEF Phase, Swinging
<1> QED BY <1>1, <1>3, <1>4

\* A build ends with nothing, or with something that is fair if there were rounds left.
LEMMA EndsFairly ==
  ASSUME JustInv, FeeInv', tbJob # NoJob,
         UNCHANGED <<tbJob, tbSelected, tbChange, tbBest, tbSize, tbRound>>,
         tbResult' # Unbuilt,
         tbResult'.outcome = "built" /\ RoundsLeft => Fair(tbResult'.tx)
  PROVE  JustInv'
<1>1. (IsBuilt /\ RoundsLeft => Fair(tbResult.tx))'
      BY DEF IsBuilt, RoundsLeft, Inputs, Fair, Asked, Target
<1> QED BY <1>1 DEF JustInv

\* Every step of the builder keeps the phases.
LEMMA JustStep ==
  ASSUME JustInv, [BuilderNext]_builderVars
  PROVE  JustInv'
<1>0. FeeInv /\ FeeInv' /\ tbRound \in Nat
      BY FeeStep DEF JustInv
<1>1. CASE Requested
  <2>1. /\ tbJob = NoJob /\ tbChange' = MinChange /\ tbBest' = tbBest /\ tbRound' = tbRound
        /\ tbResult' = [outcome |-> "invalid"] \/ tbResult' = tbResult
        BY <1>1 DEF Requested
  <2>2. tbBest' = NoTx /\ tbRound' = 0 /\ ~IsBuilt'
        BY <1>0, <2>1 DEF FeeInv, JustInv, IsBuilt
  <2>3. Inputs' \in Nat
    <3>1. tbSelected' \in SUBSET Coin
          BY <1>0 DEF FeeInv
    <3> QED BY <3>1, BuilderAssumption, FS_Subset, FS_CardinalityType DEF Inputs
  <2>4. Phase'
        BY <2>1, <2>2, <2>3 DEF Phase, Searching
  <2> QED BY <1>0, <2>2, <2>4 DEF JustInv
<1>2. CASE Converged
  <2>1. tbJob # NoJob /\ UNCHANGED <<tbJob, tbSelected, tbChange, tbBest, tbSize, tbRound>>
        BY <1>2 DEF Converged, Building
  <2>2. Delta = 0
        BY <1>0, <1>2, <2>1, NeverGrew DEF Converged
  <2>3. Fair(Candidate)
        BY <1>0, <2>1, <2>2, ExactIsFair
  <2>4. tbResult' = [outcome |-> "client"] \/ tbResult' = Receipt(Candidate)
        BY <1>2 DEF Converged
  <2>5. tbResult' # Unbuilt /\ (tbResult'.outcome = "built" => Fair(tbResult'.tx))
    <3>1. CASE tbResult' = [outcome |-> "client"]
          BY <3>1 DEF Unbuilt
    <3>2. CASE tbResult' = Receipt(Candidate)
          BY <2>3, <3>2 DEF Receipt, Unbuilt
    <3> QED BY <2>4, <3>1, <3>2
  <2> QED BY <1>0, <2>1, <2>5, EndsFairly
<1>3. CASE Adjusts
  <2>1. tbJob # NoJob /\ tbResult = Unbuilt /\ tbResult' = tbResult /\ tbJob' = tbJob
        /\ tbRound' = tbRound + 1
        BY <1>3 DEF Adjusts, Building, NextRound
  <2>2. Phase
        BY <2>1 DEF JustInv
  <2>3. Phase'
        BY <1>0, <1>3, <2>2, AdjustsPhase
  <2> QED BY <1>0, <2>1, <2>3 DEF JustInv, IsBuilt, Unbuilt
<1>4. CASE AddsCover
  <2> DEFINE extra == Greedy(Available, Needed)
  <2>1. tbJob # NoJob /\ tbResult = Unbuilt /\ Needed > 0
        BY <1>4 DEF AddsCover, Building
  <2>2. Phase
        BY <2>1 DEF JustInv
  <2>3. BestNow = tbBest /\ (Searching \/ Swinging)
        BY <1>0, <2>1, <2>2, NeedsCover
  <2>4. CASE extra = {}
    <3>1. UNCHANGED <<tbJob, tbSelected, tbChange, tbBest, tbSize, tbRound>>
          BY <1>4, <2>4 DEF AddsCover
    <3>2. \/ tbResult' = [outcome |-> "insufficient"]
          \/ tbBest # NoTx /\ tbResult' = Receipt(tbBest)
          BY <1>4, <2>3, <2>4 DEF AddsCover, FallsBack
    <3>3. tbBest # NoTx => Fair(tbBest)
          BY <2>3 DEF Searching, Swinging
    <3>4. tbResult' # Unbuilt /\ (tbResult'.outcome = "built" => Fair(tbResult'.tx))
      <4>1. CASE tbResult' = [outcome |-> "insufficient"]
            BY <4>1 DEF Unbuilt
      <4>2. CASE tbBest # NoTx /\ tbResult' = Receipt(tbBest)
            BY <3>3, <4>2 DEF Receipt, Unbuilt
      <4> QED BY <3>2, <4>1, <4>2
    <3> QED BY <1>0, <2>1, <3>1, <3>4, EndsFairly
  <2>5. CASE extra # {}
    <3>1. NextRound /\ tbSelected' = tbSelected \cup extra /\ tbResult' = tbResult
          BY <1>4, <2>5 DEF AddsCover
    <3>2. extra \subseteq Coin /\ extra \cap tbSelected = {}
          BY DEF Greedy, Available
    <3>3. Phase'
      <4> HIDE DEF extra
      <4> QED BY <1>0, <2>1, <2>2, <2>5, <3>1, <3>2, CoverPhase
    <3>4. tbJob' = tbJob /\ tbRound' = tbRound + 1
          BY <3>1 DEF NextRound
    <3> QED BY <1>0, <2>1, <3>1, <3>3, <3>4 DEF JustInv, IsBuilt, Unbuilt
  <2> QED BY <2>4, <2>5
<1>5. CASE RunsOut
  <2>1. /\ tbJob # NoJob /\ tbResult = Unbuilt /\ tbRound = MaxIterations
        /\ UNCHANGED <<tbJob, tbSelected, tbChange, tbBest, tbSize, tbRound>>
        BY <1>5 DEF RunsOut
  <2>2. \/ tbResult' = [outcome |-> "exceeded"]
        \/ tbBest # NoTx /\ tbResult' = Receipt(tbBest)
        BY <1>5 DEF RunsOut
  <2>3. Phase
        BY <2>1 DEF JustInv
  <2>4. tbBest # NoTx /\ RoundsLeft => Fair(tbBest)
    <3>1. SUFFICES ASSUME tbBest # NoTx, RoundsLeft PROVE Swinging
          BY DEF Swinging
    <3>2. Inputs \in Nat
          BY <1>0, <2>1, RoundFacts
    <3>3. tbRound >= Inputs + 3
          BY <2>1, <3>1 DEF RoundsLeft
    <3>4. ~Searching
          BY <3>1 DEF Searching
    <3>5. ~Pinned /\ ~Settling
          BY <1>0, <3>2, <3>3 DEF Pinned, Settling
    <3> QED BY <2>3, <3>4, <3>5 DEF Phase
  <2>5. tbResult' # Unbuilt /\ (tbResult'.outcome = "built" /\ RoundsLeft => Fair(tbResult'.tx))
    <3>1. CASE tbResult' = [outcome |-> "exceeded"]
          BY <3>1 DEF Unbuilt
    <3>2. CASE tbBest # NoTx /\ tbResult' = Receipt(tbBest)
          BY <2>4, <3>2 DEF Receipt, Unbuilt
    <3> QED BY <2>2, <3>1, <3>2
  <2> QED BY <1>0, <2>1, <2>5, EndsFairly
<1>6. CASE UNCHANGED builderVars
  <2>1. UNCHANGED <<tbJob, tbSelected, tbChange, tbBest, tbSize, tbRound, tbResult>>
        BY <1>6 DEF builderVars
  <2>2. (IsBuilt /\ RoundsLeft => Fair(tbResult.tx))'
        BY <2>1 DEF JustInv, IsBuilt, RoundsLeft, Inputs, Fair, Asked, Target
  <2>3. Phase => Phase'
    <3>1. Held' = Held /\ Inputs' = Inputs /\ BareTarget' = BareTarget /\ FullTarget' = FullTarget
          BY <2>1, SameNumbers
    <3>2. Fair(tbBest) => Fair(tbBest)'
          BY <2>1 DEF Fair, Asked, Target
    <3> QED BY <2>1, <3>1, <3>2 DEF Phase, Searching, Pinned, Settling, Swinging, Bare
  <2> QED BY <1>0, <2>1, <2>2, <2>3 DEF JustInv
<1> QED BY <1>1, <1>2, <1>3, <1>4, <1>5, <1>6 DEF BuilderNext

\* A fair transaction overpays by no more than the property allows.
LEMMA FairIsJustRight ==
  ASSUME JustInv, RoundsLeft
  PROVE  FeeJustRight
<1>1. FeeInv
      BY DEF JustInv
<1>2. FeeEnough
      BY <1>1, PaysIsEnough
<1>3. ASSUME IsBuilt
      PROVE  LET withChange == [tbResult.tx EXCEPT !.size = @ + OutputSize]
             IN  Overpaid <= DustLimit + Target(tbJob, withChange) - Target(tbJob, tbResult.tx)
  <2> DEFINE tx == tbResult.tx
             withChange == [tx EXCEPT !.size = @ + OutputSize]
  <2>1. tbJob \in Jobs /\ Pays(tx) /\ Fair(tx)
        BY <1>3 DEF JustInv, FeeInv
  <2>2. withChange.size = tx.size + OutputSize
        BY <2>1 DEF Fair
  <2>3. /\ Target(tbJob, withChange) = Asked(tbJob, tx.size + OutputSize)
        /\ Target(tbJob, tx) = Asked(tbJob, tx.size)
    <3> HIDE DEF withChange
    <3> QED BY <2>2 DEF Asked, Target
  <2>4. tx.fee \in Int /\ tx.size \in Nat /\ tx.fee <= DustLimit + Asked(tbJob, tx.size + OutputSize)
        BY <2>1 DEF Pays, Fair
  <2>5. OutputSize \in Nat /\ DustLimit \in Nat
        BY BuilderAssumption
  <2>6. tx.size + OutputSize \in Nat
        BY <2>4, <2>5
  <2>7. Asked(tbJob, tx.size) \in Nat /\ Asked(tbJob, tx.size + OutputSize) \in Nat
        BY <2>1, <2>4, <2>6, AskedIs
  <2>8. Overpaid = tx.fee - Target(tbJob, tx)
        BY DEF Overpaid
  <2> HIDE DEF tx, withChange
  <2>9. Overpaid <= DustLimit + Target(tbJob, withChange) - Target(tbJob, tx)
        BY <2>3, <2>4, <2>5, <2>7, <2>8
  <2> QED BY <2>9 DEF tx, withChange
<1> QED BY <1>2, <1>3 DEF FeeJustRight

\* The phases hold of every build.
LEMMA JustInvHolds == BuilderSpec => []JustInv
<1>1. BuilderInit => FeeInv
      BY DEF BuilderInit, FeeInv, IsBuilt, Unbuilt
<1>2. BuilderInit => JustInv
      BY <1>1 DEF BuilderInit, JustInv, IsBuilt, Unbuilt
<1>3. JustInv /\ [BuilderNext]_builderVars => JustInv'
      BY JustStep
<1> QED BY <1>2, <1>3, PTL DEF BuilderSpec

\* A build that spends few enough of the wallet's outputs to have three rounds left for
\* its change hands out a transaction that overpays by less than a change output would have
\* cost and dust: for any batch, wallet, sizes and rates.
THEOREM FeeJustRightWithRoundsLeft == BuilderSpec => [](RoundsLeft => FeeJustRight)
<1>1. JustInv => (RoundsLeft => FeeJustRight)
      BY FairIsJustRight
<1> QED BY <1>1, JustInvHolds, PTL

\* With as many rounds as the wallet has outputs and three more, no build does otherwise.
THEOREM FeeJustRightHolds ==
  ASSUME MaxIterations >= Cardinality(Coin) + 3
  PROVE  BuilderSpec => []FeeJustRight
<1>1. JustInv => FeeJustRight
  <2> SUFFICES ASSUME JustInv PROVE RoundsLeft
      BY FairIsJustRight
  <2>1. IsFiniteSet(Coin) /\ MaxIterations \in Nat
        BY BuilderAssumption
  <2>2. tbSelected \in SUBSET Coin
        BY DEF JustInv, FeeInv
  <2>3. Inputs \in Nat /\ Inputs <= Cardinality(Coin) /\ Cardinality(Coin) \in Nat
        BY <2>1, <2>2, FS_Subset, FS_CardinalityType DEF Inputs
  <2> QED BY <2>1, <2>3 DEF RoundsLeft
<1> QED BY <1>1, JustInvHolds, PTL
=============================================================================
