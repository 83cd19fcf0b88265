---------------------------- MODULE OrderIntake ----------------------------
(***************************************************************************)
(* The orderbook service: a request is priced against the strategies of its  *)
(* pair and against what the liquidity watcher last saw of the solver's       *)
(* funds, and the matched order is written in one database transaction.        *)
(*                                                                         *)
(* Amounts are integers in the smallest unit and the arithmetic is exact;      *)
(* the code's decimals keep a hundred digits. The fees are u64 and wrap around, *)
(* as a release build does. One pair of assets, so one entry of the liquidity   *)
(* snapshot.                                                                  *)
(***************************************************************************)
EXTENDS Integers, FiniteSets, Functions, FiniteSetsExt

CONSTANTS
  Request,       \* calls of POST /orders
  SecretHash,
  Bps,           \* 10_000
  MaxSlippage,   \* max_user_slippage_bps
  Slippages,     \* what a customer may ask for
  Word,          \* 2^64
  StrategyFees,  \* fee of a strategy
  AffiliateFees, \* affiliate_fee of a request, which nothing validates
  FixedFee,      \* fixed_fee of one of the strategies
  SourcePrices, DestPrices,  \* prices the feed may give for the two tokens
  Amounts,       \* from_amount or to_amount
  MinAmount, MaxAmount,
  SourceUnit, DestUnit,   \* 10^decimals of the two tokens
  SolverFunds,   \* the solver's balance on the destination chain
  SourceFamily, DestFamily  \* how the two chains derive swap ids

ASSUME IntakeAssumption ==
  /\ Bps \in Nat \ {0} /\ MaxSlippage \in 0 .. Bps - 1
  /\ Word \in Nat /\ Bps < Word
  /\ StrategyFees \cup AffiliateFees \subseteq 0 .. Word - 1
  /\ SourcePrices \cup DestPrices \subseteq Nat \ {0}
  /\ SourceUnit \in Nat \ {0} /\ DestUnit \in Nat \ {0}
  /\ Amounts \subseteq Nat /\ Slippages \subseteq Nat /\ FixedFee \in Nat

VARIABLES
  inReq,      \* the requests being served
  inTx,       \* rows a request's transaction has inserted and not committed
  inSwaps,    \* swaps
  inOrders,   \* create_orders
  inMatches,  \* matched_orders
  inBalance,  \* the solver's funds on chain
  inFetch,    \* the balance a refresh has read and not yet published
  inView      \* the snapshot of the liquidity watcher

intakeVars == <<inReq, inTx, inSwaps, inOrders, inMatches, inBalance, inFetch, inView>>
inTables == <<inSwaps, inOrders, inMatches>>
inLiquidity == <<inBalance, inFetch, inView>>

NoView == -1
NoRows == [swaps |-> {}, orders |-> {}]
IdleRequest == [pc |-> "idle"]

IntakeInit ==
  /\ inReq = [r \in Request |-> IdleRequest] /\ inTx = [r \in Request |-> NoRows]
  /\ inSwaps = {} /\ inOrders = {} /\ inMatches = {}
  /\ inBalance = SolverFunds /\ inFetch = NoView /\ inView = NoView

(***************************************************************************)
(* Quotes                                                                  *)
(***************************************************************************)
IntakeStrategy == [fee : StrategyFees, fixed : {0, FixedFee}]

\* The fee of the route, and what is left of the whole after it.
TotalFee(s, q) == (s.fee + q.affiliate) % Word
LeftAfter(fee) == (Bps - fee) % Word

\* Division as to_bigint does it: towards zero. Fees larger than the amount make
\* the payout negative, and nothing rejects it.
Truncated(n, d) == IF n >= 0 THEN n \div d ELSE -((-n) \div d)
RoundedUp(n, d) == (n + d - 1) \div d

OutputAmount(s, fee, input, pin, pout, slip) ==
  Truncated((input * pin * (Bps - fee) - s.fixed * Bps * SourceUnit) * DestUnit,
            SourceUnit * pout * (Bps - slip))

InputAmountFor(s, fee, output, pin, pout, slip) ==
  RoundedUp((output * pout * (Bps - slip) + s.fixed * Bps * DestUnit) * SourceUnit,
            DestUnit * pin * LeftAfter(fee))

SlippageAsked(slip) == slip

SlippageGranted(slip) == IF slip < MaxSlippage THEN slip ELSE MaxSlippage

InLimits(amount) == amount \in MinAmount .. MaxAmount

\* The route of one strategy; the limits hold for the source amount.
RouteOf(s, q, pin, pout) ==
  LET slip == SlippageGranted(q.slip)
      fee == TotalFee(s, q)
      src == IF q.exactIn THEN q.amount
             ELSE InputAmountFor(s, fee, q.amount, pin, pout, slip)
      dst == IF q.exactIn THEN OutputAmount(s, fee, q.amount, pin, pout, slip)
             ELSE q.amount
  IN  [strategy |-> s, fee |-> fee, src |-> src, dst |-> dst, pin |-> pin,
       pout |-> pout, slip |-> slip, exactIn |-> q.exactIn]

\* The division by what is left panics.
DividesByZero(q) ==
  ~q.exactIn /\ \E s \in IntakeStrategy : LeftAfter(TotalFee(s, q)) = 0

CanFulfill(route) == inView # NoView /\ inView >= route.dst

\* Equal routes keep the order of a hash map, which is none.
BestOf(routes, exactIn) ==
  {x \in routes : \A y \in routes : IF exactIn THEN x.dst >= y.dst ELSE x.src <= y.src}

Moves(r, pc) == inReq' = [inReq EXCEPT ![r].pc = pc]
Refused(r) == inReq' = [inReq EXCEPT ![r] = IdleRequest]

RequestArrives(r) ==
  /\ inReq[r].pc = "idle"
  /\ \E h \in SecretHash, a \in Amounts, slip \in Slippages, exact \in BOOLEAN,
        affiliate \in AffiliateFees :
       inReq' = [inReq EXCEPT ![r] =
         [pc |-> "check", hash |-> h, amount |-> a, slip |-> slip, exactIn |-> exact,
          affiliate |-> affiliate]]
  /\ UNCHANGED <<inTx, inTables, inLiquidity>>

ChecksSecret(r) ==
  /\ inReq[r].pc = "check"
  /\ IF \E o \in inOrders : o.hash = inReq[r].hash THEN Refused(r) ELSE Moves(r, "quote")
  /\ UNCHANGED <<inTx, inTables, inLiquidity>>

\* One strategy outside its limits fails the whole quote.
Quotes(r) ==
  /\ inReq[r].pc = "quote"
  /\ \E pin \in SourcePrices, pout \in DestPrices :
       LET routes == {RouteOf(s, inReq[r], pin, pout) : s \in IntakeStrategy}
           payable == {x \in routes : CanFulfill(x)}
       IN  IF \/ DividesByZero(inReq[r])
              \/ payable = {}
              \/ \E x \in routes : ~InLimits(x.src)
           THEN Refused(r)
           ELSE \E best \in BestOf(payable, inReq[r].exactIn) :
                  inReq' = [inReq EXCEPT ![r] =
                    [pc |-> "begin", hash |-> inReq[r].hash, route |-> best]]
  /\ UNCHANGED <<inTx, inTables, inLiquidity>>

(***************************************************************************)
(* The matched order                                                       *)
(***************************************************************************)
Leg(chain, route, h) ==
  [chain |-> chain, secret |-> h, htlc |-> chain,
   initiator |-> IF chain = "source" THEN "customer" ELSE "solver",
   redeemer |-> IF chain = "source" THEN "solver" ELSE "customer",
   timelock |-> chain,
   amount |-> IF chain = "source" THEN route.src ELSE route.dst]

\* What each family of chains hashes into the id of a swap.
IdParts ==
  LET base == {"chain", "secret", "initiator"}
      terms == {"redeemer", "timelock"}
  IN  [solana |-> base, evm_v1 |-> base,
       bitcoin |-> base \cup terms,
       starknet |-> base \cup terms \cup {"amount"},
       evm_v2 |-> base \cup terms \cup {"amount"},
       evm_v3 |-> base \cup terms \cup {"amount", "htlc"},
       sui |-> base \cup terms \cup {"amount", "htlc"}]

ASSUME FamilyAssumption == {SourceFamily, DestFamily} \subseteq DOMAIN IdParts

FamilyOf(chain) == IF chain = "source" THEN SourceFamily ELSE DestFamily

SwapId(leg) == Restrict(leg, IdParts[FamilyOf(leg.chain)])

SwapRows(r) == {SwapId(Leg(c, inReq[r].route, inReq[r].hash)) : c \in {"source", "destination"}}

\* A row that another transaction has inserted makes an insert of the same key
\* wait for that transaction's end.
HeldElsewhere(r, key, table) ==
  \E q \in Request \ {r} : \E row \in inTx[q][table] : row = key

RollsBack(r) == inTx' = [inTx EXCEPT ![r] = NoRows] /\ UNCHANGED inTables

\* Without the transaction: what was inserted stays.
KeepsInserted(r) ==
  /\ inSwaps' = inSwaps \cup inTx[r].swaps
  /\ inTx' = [inTx EXCEPT ![r] = NoRows] /\ UNCHANGED <<inOrders, inMatches>>

GivesUp(r) == RollsBack(r)

InsertsSwaps(r) ==
  /\ inReq[r].pc = "begin"
  /\ \A id \in SwapRows(r) : ~HeldElsewhere(r, id, "swaps")
  /\ IF SwapRows(r) \cap inSwaps # {}
     THEN Refused(r) /\ GivesUp(r)
     ELSE /\ inTx' = [inTx EXCEPT ![r].swaps = SwapRows(r)]
          /\ Moves(r, "order") /\ UNCHANGED inTables
  /\ UNCHANGED inLiquidity

InsertsOrder(r) ==
  /\ inReq[r].pc = "order"
  /\ ~HeldElsewhere(r, inReq[r].hash, "orders")
  /\ IF \E o \in inOrders : o.hash = inReq[r].hash
     THEN Refused(r) /\ GivesUp(r)
     ELSE /\ inTx' = [inTx EXCEPT ![r].orders = {inReq[r].hash}]
          /\ Moves(r, "match") /\ UNCHANGED inTables
  /\ UNCHANGED inLiquidity

\* The new order: neither leg has started. The columns initiate_block_number
\* are null.
NewOrder(r) ==
  [hash |-> inReq[r].hash, route |-> inReq[r].route, deposit |-> FALSE,
   lock |-> "null"]

InsertsMatchAndCommits(r) ==
  /\ inReq[r].pc = "match"
  /\ inSwaps' = inSwaps \cup inTx[r].swaps
  /\ inOrders' = inOrders \cup {NewOrder(r)}
  /\ inMatches' = inMatches \cup {[order |-> inReq[r].hash, swaps |-> inTx[r].swaps]}
  /\ inTx' = [inTx EXCEPT ![r] = NoRows] /\ Refused(r)
  /\ UNCHANGED inLiquidity

\* A statement fails, the client goes away or the process dies.
CreationFails(r) ==
  /\ inReq[r].pc \in {"order", "match"}
  /\ Refused(r) /\ GivesUp(r) /\ UNCHANGED inLiquidity

(***************************************************************************)
(* Liquidity and the life of an order, as far as it takes funds             *)
(***************************************************************************)
\* The orders whose destination amount get_solver_committed_funds adds up. The
\* column is null until a watcher writes it, and null is not 0.
CommittedOrders == {o \in inOrders : o.lock = "zero" /\ o.deposit}

RefreshReadsBalance ==
  /\ inFetch = NoView
  /\ inFetch' = inBalance \/ (inFetch' = NoView /\ inView # NoView)
  /\ inView' = IF inFetch' = NoView THEN NoView ELSE inView
  /\ UNCHANGED <<inReq, inTx, inTables, inBalance>>

\* The query leaves out orders whose deadline is over, which any may be; when it
\* fails it counts as none.
RefreshPublishes ==
  /\ inFetch # NoView
  /\ \E open \in SUBSET CommittedOrders :
       inView' = Max({0, inFetch - MapThenSumSet(LAMBDA o : o.route.dst, open)})
  /\ inFetch' = NoView
  /\ UNCHANGED <<inReq, inTx, inTables, inBalance>>

OrderMoves(o, new) ==
  /\ inOrders' = (inOrders \ {o}) \cup {new}
  /\ UNCHANGED <<inReq, inTx, inSwaps, inMatches, inFetch, inView>>

CustomerDeposits(o) ==
  ~o.deposit /\ OrderMoves(o, [o EXCEPT !.deposit = TRUE]) /\ UNCHANGED inBalance

\* The solver locks; a watcher records the lock from the mempool as block 0 or
\* from its block.
SolverLocks(o) ==
  /\ o.deposit /\ o.lock = "null" /\ o.route.dst \in 1 .. inBalance
  /\ \E lock \in {"zero", "mined"} : OrderMoves(o, [o EXCEPT !.lock = lock])
  /\ inBalance' = inBalance - o.route.dst

IntakeNext ==
  \/ \E r \in Request :
       \/ RequestArrives(r) \/ ChecksSecret(r) \/ Quotes(r)
       \/ InsertsSwaps(r) \/ InsertsOrder(r) \/ InsertsMatchAndCommits(r)
       \/ CreationFails(r)
  \/ RefreshReadsBalance \/ RefreshPublishes
  \/ \E o \in inOrders : CustomerDeposits(o) \/ SolverLocks(o)

IntakeSpec == IntakeInit /\ [][IntakeNext]_intakeVars

(***************************************************************************)
(* Properties                                                              *)
(***************************************************************************)
\* Concurrent requests, refusals half way and lost connections never leave part
\* of an order behind: every secret hash has one order, every order one match
\* with two swaps, and no swap row stands alone or belongs to two orders.
OrdersWhole ==
  /\ \A o1, o2 \in inOrders : o1.hash = o2.hash => o1 = o2
  /\ {m.order : m \in inMatches} = {o.hash : o \in inOrders}
  /\ UNION {m.swaps : m \in inMatches} = inSwaps
  /\ Cardinality(inSwaps) = 2 * Cardinality(inMatches)

\* However much slippage a customer asks for, the solver pays out at most what
\* comes in at the prices of the quote, enlarged by the configured maximum. Where
\* the customer fixes the payout this holds for fees up to the whole only:
\* affiliate_fee is not validated, and 10_000 less a larger fee wraps around.
PayoutBounded ==
  \A o \in inOrders :
    o.route.exactIn \/ o.route.fee <= Bps =>
      o.route.dst * o.route.pout * SourceUnit * (Bps - MaxSlippage)
        <= o.route.src * o.route.pin * DestUnit * Bps
=============================================================================
