-------------------------- MODULE OrderbookProofs ---------------------------
(***************************************************************************)
(* Proofs about the order book service and its solvers, for any requests,  *)
(* prices, depths and policies: matched orders are whole and pay out no more*)
(* than the bound, the levels the book keeps are the venue's, a price that is*)
(* served is recent, and isolation groups hold for both ends of a route.   *)
(***************************************************************************)
EXTENDS OrderIntake, PriceFeed, SolverPolicy, BookFeed, SequenceTheorems, SumLemmas

-----------------------------------------------------------------------------
(* Matched orders are whole, and pay out no more than the bound. What a     *)
(* transaction has inserted nobody else has, committed or not.              *)

\* the bound of PayoutBounded
RouteOK(x) ==
  x.exactIn \/ x.fee <= Bps =>
    x.dst * x.pout * SourceUnit * (Bps - MaxSlippage) <= x.src * x.pin * DestUnit * Bps

Rows(route, h) == {SwapId(Leg(c, route, h)) : c \in {"source", "destination"}}

\* A request, and what its transaction has inserted.
Served(req, tx) ==
  \/ req = IdleRequest /\ tx = NoRows
  \/ /\ req \in [pc : {"check", "quote"}, hash : SecretHash, amount : Amounts,
                 slip : Slippages, exactIn : BOOLEAN,
                 affiliate : AffiliateFees]
     /\ tx = NoRows
  \/ /\ req = [pc |-> req.pc, hash |-> req.hash, route |-> req.route]
     /\ req.pc \in {"begin", "order", "match"} /\ RouteOK(req.route)
     /\ tx = [swaps |-> IF req.pc = "begin" THEN {} ELSE Rows(req.route, req.hash),
              orders |-> IF req.pc = "match" THEN {req.hash} ELSE {}]

OrderShape(o) ==
  o = [hash |-> o.hash, route |-> o.route, deposit |-> o.deposit, lock |-> o.lock]

Apart ==
  /\ \A r \in Request :
       /\ inTx[r].swaps \cap inSwaps = {}
       /\ \A o \in inOrders : o.hash \notin inTx[r].orders
  /\ \A r, q \in Request : r # q =>
       inTx[r].swaps \cap inTx[q].swaps = {} /\ inTx[r].orders \cap inTx[q].orders = {}

TablesOK ==
  /\ IsFiniteSet(inSwaps) /\ IsFiniteSet(inMatches)
  /\ \A o \in inOrders : OrderShape(o) /\ RouteOK(o.route)
  /\ OrdersWhole

IntakeInv ==
  /\ inReq = [r \in Request |-> inReq[r]] /\ inTx = [r \in Request |-> inTx[r]]
  /\ \A r \in Request : Served(inReq[r], inTx[r])
  /\ Apart /\ TablesOK

\* The invariant holds with empty tables.
LEMMA IntakeInitInv == IntakeInit => IntakeInv
<1> SUFFICES ASSUME IntakeInit PROVE IntakeInv
    OBVIOUS
<1>1. TablesOK
  <2>1. IsFiniteSet({}) /\ Cardinality({}) = 0
        BY FS_EmptySet
  <2> QED BY <2>1 DEF IntakeInit, TablesOK, OrdersWhole
<1> QED BY <1>1 DEF IntakeInit, IntakeInv, Served, Apart, NoRows

\* The invariant contains both properties.
LEMMA IntakeFromInv == IntakeInv => OrdersWhole /\ PayoutBounded
BY DEF IntakeInv, TablesOK, PayoutBounded, RouteOK

\* The two swaps of an order differ: every family hashes the chain.
LEMMA TwoRows ==
  ASSUME NEW route, NEW h
  PROVE  IsFiniteSet(Rows(route, h)) /\ Cardinality(Rows(route, h)) = 2
<1> DEFINE a == SwapId(Leg("source", route, h)) b == SwapId(Leg("destination", route, h))
<1>1. \A c : Leg(c, route, h).chain = c
      BY DEF Leg
<1>2. "chain" \in IdParts[SourceFamily] /\ "chain" \in IdParts[DestFamily]
      BY FamilyAssumption DEF IdParts
<1>3. a["chain"] = "source" /\ b["chain"] = "destination"
      BY <1>1, <1>2 DEF SwapId, FamilyOf, Restrict
<1>4. Rows(route, h) = {a} \cup {b} /\ a \notin {b}
      BY <1>3 DEF Rows
<1> HIDE DEF a, b
<1>5. IsFiniteSet({b}) /\ Cardinality({b}) = 1
      BY FS_Singleton
<1> QED BY <1>4, <1>5, FS_AddElement

-----------------------------------------------------------------------------
(* Requests that write nothing.                                            *)

\* A request that moves without a commit, and what its transaction then holds.
LEMMA RequestKeepsInv ==
  ASSUME IntakeInv, NEW r \in Request, NEW req, NEW tx,
         inReq' = [inReq EXCEPT ![r] = req], inTx' = [inTx EXCEPT ![r] = tx],
         Served(req, tx), UNCHANGED inTables,
         tx.swaps \cap inSwaps = {}, \A o \in inOrders : o.hash \notin tx.orders,
         \A q \in Request \ {r} :
           tx.swaps \cap inTx[q].swaps = {} /\ tx.orders \cap inTx[q].orders = {}
  PROVE  IntakeInv'
<1>1. TablesOK'
      BY DEF IntakeInv, TablesOK, OrdersWhole, inTables, OrderShape, RouteOK
<1>2. Apart'
      BY DEF IntakeInv, Apart, inTables
<1>3. \A q \in Request : Served(inReq'[q], inTx'[q])
      BY DEF IntakeInv
<1> QED BY <1>1, <1>2, <1>3 DEF IntakeInv

\* A column of a record.
LEMMA RowsOfOrder ==
  ASSUME NEW a, NEW b, NEW new
  PROVE  /\ [[swaps |-> a, orders |-> b] EXCEPT !.swaps = new] = [swaps |-> new, orders |-> b]
         /\ [[swaps |-> a, orders |-> b] EXCEPT !.orders = new] = [swaps |-> a, orders |-> new]
OBVIOUS

\* A column of an order is replaced.
LEMMA OrderColumns ==
  ASSUME NEW o, OrderShape(o), NEW new
  PROVE  /\ OrderShape([o EXCEPT !.deposit = new]) /\ OrderShape([o EXCEPT !.lock = new])
         /\ [o EXCEPT !.deposit = new].hash = o.hash /\ [o EXCEPT !.lock = new].hash = o.hash
         /\ [o EXCEPT !.deposit = new].route = o.route /\ [o EXCEPT !.lock = new].route = o.route
<1>1. ASSUME NEW h, NEW x, NEW d, NEW l
      PROVE  LET y == [hash |-> h, route |-> x, deposit |-> d, lock |-> l]
             IN  /\ [y EXCEPT !.deposit = new]
                       = [hash |-> h, route |-> x, deposit |-> new, lock |-> l]
                 /\ [y EXCEPT !.lock = new]
                       = [hash |-> h, route |-> x, deposit |-> d, lock |-> new]
      OBVIOUS
<1>2. o = [hash |-> o.hash, route |-> o.route, deposit |-> o.deposit, lock |-> o.lock]
      BY DEF OrderShape
<1>3. [o EXCEPT !.deposit = new]
        = [hash |-> o.hash, route |-> o.route, deposit |-> new, lock |-> o.lock]
      BY <1>1, <1>2
<1>4. [o EXCEPT !.lock = new]
        = [hash |-> o.hash, route |-> o.route, deposit |-> o.deposit, lock |-> new]
      BY <1>1, <1>2
<1> QED BY <1>3, <1>4 DEF OrderShape

\* A refusal rolls back what was inserted.
LEMMA IdleKeepsInv ==
  ASSUME IntakeInv, NEW r \in Request, Refused(r), GivesUp(r)
  PROVE  IntakeInv'
<1>1. Served(IdleRequest, NoRows)
      BY DEF Served
<1>2. NoRows.swaps = {} /\ NoRows.orders = {}
      BY DEF NoRows
<1> QED BY <1>1, <1>2, RequestKeepsInv DEF Refused, GivesUp, RollsBack

-----------------------------------------------------------------------------
(* The arithmetic of a quote: rounding is against the customer and the     *)
(* slippage granted is at most the maximum.                                *)

\* A quotient is not above the fraction.
LEMMA FloorBelow ==
  ASSUME NEW n \in Nat, NEW d \in Nat \ {0}
  PROVE  n \div d \in Nat /\ (n \div d) * d <= n
OBVIOUS

\* A quotient rounded up is not below the fraction.
LEMMA CeilAbove ==
  ASSUME NEW n \in Nat, NEW d \in Nat \ {0}
  PROVE  RoundedUp(n, d) \in Nat /\ RoundedUp(n, d) * d >= n
<1> DEFINE m == n + d - 1
<1>1. m \in Nat /\ m \div d \in Nat /\ m = ((m \div d) * d) + (m % d) /\ m % d \in 0 .. d - 1
      OBVIOUS
<1> QED BY <1>1 DEF RoundedUp

\* A product with a natural keeps the order.
LEMMA TimesMonotone ==
  ASSUME NEW a \in Int, NEW b \in Int, NEW c \in Nat, a <= b
  PROVE  a * c <= b * c
OBVIOUS

\* The product of naturals is one.
LEMMA ProductNat ==
  ASSUME NEW a \in Nat, NEW b \in Nat
  PROVE  a * b \in Nat
OBVIOUS

\* Truncation of a negative number rounds up, to no more than zero.
LEMMA TruncatedBelow ==
  ASSUME NEW n \in Int, NEW d \in Nat \ {0}, NEW bound \in Nat, n <= bound
  PROVE  Truncated(n, d) \in Int /\ Truncated(n, d) * d <= bound
<1>1. CASE n >= 0
      BY <1>1, FloorBelow DEF Truncated
<1>2. CASE n < 0
  <2>1. -n \in Nat /\ (-n) \div d \in Nat
        BY <1>2, FloorBelow
  <2>2. Truncated(n, d) = -((-n) \div d)
        BY <1>2 DEF Truncated
  <2>3. ((-n) \div d) * d \in Nat
        BY <2>1, ProductNat
  <2> QED BY <2>1, <2>2, <2>3
<1> QED BY <1>1, <1>2

\* What is paid out for a given amount in.
LEMMA ExactInBounded ==
  ASSUME NEW s \in IntakeStrategy, NEW fee \in Nat, NEW a \in Nat,
         NEW pin \in Nat \ {0}, NEW pout \in Nat \ {0}, NEW slip \in 0 .. MaxSlippage
  PROVE  OutputAmount(s, fee, a, pin, pout, slip) * pout * SourceUnit * (Bps - MaxSlippage)
           <= a * pin * DestUnit * Bps
<1> DEFINE net == a * pin * (Bps - fee) - s.fixed * Bps * SourceUnit
           d == SourceUnit * pout * (Bps - slip)
           out == OutputAmount(s, fee, a, pin, pout, slip)
           unit == pout * SourceUnit
<1> USE IntakeAssumption
<1>1. /\ s.fixed \in Nat /\ Bps \in Nat \ {0}
      /\ SourceUnit \in Nat \ {0} /\ DestUnit \in Nat \ {0}
      /\ MaxSlippage \in Nat /\ MaxSlippage < Bps
      BY DEF IntakeStrategy
<1>2. /\ Bps - fee \in Int /\ Bps - fee <= Bps
      /\ Bps - slip \in Nat \ {0} /\ Bps - MaxSlippage \in Nat
      /\ Bps - MaxSlippage <= Bps - slip
      BY <1>1
<1>3. unit \in Nat /\ unit # 0
      BY <1>1
<1>4. d = unit * (Bps - slip) /\ d \in Nat \ {0}
      BY <1>1, <1>2, <1>3
<1>5. a * pin \in Nat /\ s.fixed * Bps * SourceUnit \in Nat
      BY <1>1, ProductNat
<1>6. /\ a * pin * (Bps - fee) \in Int /\ a * pin * Bps \in Nat
      /\ a * pin * (Bps - fee) <= a * pin * Bps
      BY <1>1, <1>2, <1>5
<1>7. net \in Int /\ net <= a * pin * Bps /\ a * pin * Bps \in Nat
      BY <1>1, <1>5, <1>6
<1>8. net * DestUnit <= a * pin * Bps * DestUnit /\ a * pin * Bps * DestUnit \in Nat
      /\ net * DestUnit \in Int
      BY <1>1, <1>7, TimesMonotone
<1>9. out = Truncated(net * DestUnit, d)
      BY DEF OutputAmount
<1> HIDE DEF net, d, out, unit
<1>10. out \in Int /\ out * d <= a * pin * Bps * DestUnit
      BY <1>4, <1>8, <1>9, TruncatedBelow
<1>11. unit * (Bps - MaxSlippage) \in Nat /\ unit * (Bps - MaxSlippage) <= d
      BY <1>2, <1>3, <1>4
<1>12. out * (unit * (Bps - MaxSlippage)) <= a * pin * Bps * DestUnit
  <2>1. CASE out >= 0
        BY <1>4, <1>8, <1>10, <1>11, <2>1
  <2>2. CASE out < 0
        BY <1>8, <1>10, <1>11, <2>2
  <2> QED BY <1>10, <2>1, <2>2
<1>13. a * pin * Bps * DestUnit = a * pin * DestUnit * Bps
      BY <1>1, <1>5
<1>14. out * (unit * (Bps - MaxSlippage)) = out * pout * SourceUnit * (Bps - MaxSlippage)
      BY <1>1, <1>2, <1>10 DEF unit
<1> QED BY <1>12, <1>13, <1>14 DEF out

\* What is asked for a given payout.
LEMMA ExactOutBounded ==
  ASSUME NEW s \in IntakeStrategy, NEW fee \in 0 .. Bps - 1, NEW a \in Nat,
         NEW pin \in Nat \ {0}, NEW pout \in Nat \ {0}, NEW slip \in 0 .. MaxSlippage
  PROVE  a * pout * SourceUnit * (Bps - MaxSlippage)
           <= InputAmountFor(s, fee, a, pin, pout, slip) * pin * DestUnit * Bps
<1> DEFINE need == a * pout * (Bps - slip) + s.fixed * Bps * DestUnit
           d == DestUnit * pin * (Bps - fee)
           in == InputAmountFor(s, fee, a, pin, pout, slip)
           unit == pin * DestUnit
<1> USE IntakeAssumption
<1>1. /\ s.fixed \in Nat /\ Bps \in Nat \ {0}
      /\ SourceUnit \in Nat \ {0} /\ DestUnit \in Nat \ {0}
      /\ MaxSlippage \in Nat /\ MaxSlippage < Bps
      BY DEF IntakeStrategy
<1>2. /\ Bps - fee \in Nat \ {0} /\ Bps - fee <= Bps /\ LeftAfter(fee) = Bps - fee
      /\ Bps - slip \in Nat /\ Bps - MaxSlippage \in Nat
      /\ Bps - MaxSlippage <= Bps - slip
  <2>1. Bps - fee \in 0 .. Word - 1 /\ Word \in Nat
        BY <1>1
  <2>2. (Bps - fee) % Word = Bps - fee
        BY <2>1
  <2> QED BY <1>1, <2>2 DEF LeftAfter
<1>3. unit \in Nat \ {0}
      BY <1>1
<1>4. d = unit * (Bps - fee) /\ d \in Nat \ {0} /\ d <= unit * Bps
      BY <1>1, <1>2, <1>3
<1>5. a * pout \in Nat /\ s.fixed * Bps * DestUnit \in Nat
      BY <1>1, ProductNat
<1>6. /\ a * pout * (Bps - slip) \in Nat /\ a * pout * (Bps - MaxSlippage) \in Nat
      /\ a * pout * (Bps - MaxSlippage) <= a * pout * (Bps - slip)
      BY <1>2, <1>5
<1>7. need \in Nat /\ a * pout * (Bps - MaxSlippage) <= need
      BY <1>5, <1>6
<1>8. /\ need * SourceUnit \in Nat
      /\ a * pout * (Bps - MaxSlippage) * SourceUnit <= need * SourceUnit
      BY <1>1, <1>6, <1>7, TimesMonotone, ProductNat
<1>9. in = RoundedUp(need * SourceUnit, d)
      BY <1>2 DEF InputAmountFor
<1> HIDE DEF need, d, in, unit
<1>10. in \in Nat /\ in * d >= need * SourceUnit
      BY <1>4, <1>8, <1>9, CeilAbove
<1>11. in * d <= in * (unit * Bps)
      BY <1>1, <1>3, <1>4, <1>10
<1>12. a * pout * (Bps - MaxSlippage) * SourceUnit <= in * (unit * Bps)
      BY <1>1, <1>3, <1>4, <1>6, <1>8, <1>10, <1>11
<1>13. a * pout * (Bps - MaxSlippage) * SourceUnit = a * pout * SourceUnit * (Bps - MaxSlippage)
      BY <1>1, <1>2, <1>5
<1>14. in * (unit * Bps) = in * pin * DestUnit * Bps
      BY <1>1, <1>10 DEF unit
<1> QED BY <1>12, <1>13, <1>14 DEF in

\* Whichever side the customer fixes, and whatever slippage is asked for.
LEMMA RouteBounded ==
  ASSUME NEW s \in IntakeStrategy, NEW pin \in SourcePrices, NEW pout \in DestPrices,
         NEW q, q.amount \in Amounts, q.slip \in Slippages, q.affiliate \in AffiliateFees,
         ~DividesByZero(q)
  PROVE  RouteOK(RouteOf(s, q, pin, pout))
<1> DEFINE slip == SlippageGranted(q.slip)
           fee == TotalFee(s, q)
<1>1. slip \in 0 .. MaxSlippage
  <2>1. MaxSlippage \in Nat /\ Slippages \subseteq Nat
        BY IntakeAssumption
  <2>2. q.slip \in Nat
        BY <2>1
  <2> QED BY <2>1, <2>2 DEF SlippageGranted
<1>2. q.amount \in Nat /\ pin \in Nat \ {0} /\ pout \in Nat \ {0}
      BY IntakeAssumption
<1>3. fee \in Nat /\ Bps \in Nat
  <2>1. s.fee \in StrategyFees
        BY DEF IntakeStrategy
  <2>2. StrategyFees \cup AffiliateFees \subseteq 0 .. Word - 1 /\ Word \in Nat
        /\ Bps \in Nat /\ Bps < Word
        BY IntakeAssumption
  <2>3. s.fee + q.affiliate \in Nat /\ Word \in Nat \ {0}
        BY <2>1, <2>2
  <2> QED BY <2>2, <2>3 DEF TotalFee
<1>4. OutputAmount(s, fee, q.amount, pin, pout, slip) * pout * SourceUnit * (Bps - MaxSlippage)
        <= q.amount * pin * DestUnit * Bps
      BY <1>1, <1>2, <1>3, ExactInBounded
<1>5. ASSUME fee < Bps
      PROVE  q.amount * pout * SourceUnit * (Bps - MaxSlippage)
               <= InputAmountFor(s, fee, q.amount, pin, pout, slip) * pin * DestUnit * Bps
  <2>1. fee \in 0 .. Bps - 1
        BY <1>3, <1>5
  <2> QED BY <1>1, <1>2, <2>1, ExactOutBounded
<1>6. ASSUME ~q.exactIn PROVE fee # Bps
  <2>1. LeftAfter(fee) # 0
        BY <1>6 DEF DividesByZero
  <2>2. (Bps - Bps) % Word = 0
        BY IntakeAssumption
  <2> QED BY <2>1, <2>2 DEF LeftAfter
<1> HIDE DEF slip, fee
<1>7. CASE q.exactIn
      BY <1>4, <1>7 DEF RouteOK, RouteOf, slip, fee
<1>8. CASE ~q.exactIn
  <2> DEFINE x == RouteOf(s, q, pin, pout)
  <2>1. /\ x.fee = fee /\ x.dst = q.amount /\ x.pin = pin /\ x.pout = pout
        /\ x.src = InputAmountFor(s, fee, q.amount, pin, pout, slip) /\ ~x.exactIn
        BY <1>8 DEF RouteOf, slip, fee
  <2> HIDE DEF x
  <2>2. fee <= Bps => fee < Bps
        BY <1>3, <1>6, <1>8
  <2>3. RouteOK(x)
        BY <1>5, <2>1, <2>2 DEF RouteOK
  <2> QED BY <2>3 DEF x
<1> QED BY <1>7, <1>8

-----------------------------------------------------------------------------
(* One step per action.                                                    *)

\* Before the transaction there is nothing of the request in the tables.
LEMMA QuoteKeepsInv ==
  ASSUME IntakeInv, NEW r \in Request, RequestArrives(r) \/ ChecksSecret(r) \/ Quotes(r)
  PROVE  IntakeInv'
<1>1. Served(inReq[r], inTx[r]) /\ Served(IdleRequest, NoRows)
      BY DEF IntakeInv, Served
<1>2. NoRows.swaps = {} /\ NoRows.orders = {}
      BY DEF NoRows
<1>3. inReq[r].pc \in {"idle", "check", "quote"} => inTx[r] = NoRows
      BY <1>1 DEF Served
<1>4. UNCHANGED <<inTx, inTables>> /\ inReq[r].pc \in {"idle", "check", "quote"}
      BY DEF RequestArrives, ChecksSecret, Quotes
<1>5. inTx' = [inTx EXCEPT ![r] = NoRows]
      BY <1>3, <1>4 DEF IntakeInv
<1>6. ASSUME NEW req, inReq' = [inReq EXCEPT ![r] = req], Served(req, NoRows)
      PROVE  IntakeInv'
      BY <1>2, <1>4, <1>5, <1>6, RequestKeepsInv
<1>7. CASE RequestArrives(r)
  <2>1. PICK h \in SecretHash, a \in Amounts, slip \in Slippages, exact \in BOOLEAN,
             affiliate \in AffiliateFees :
          inReq' = [inReq EXCEPT ![r] =
            [pc |-> "check", hash |-> h, amount |-> a, slip |-> slip, exactIn |-> exact,
             affiliate |-> affiliate]]
        BY <1>7 DEF RequestArrives
  <2>2. Served([pc |-> "check", hash |-> h, amount |-> a, slip |-> slip, exactIn |-> exact,
                affiliate |-> affiliate], NoRows)
        BY DEF Served
  <2> QED BY <1>6, <2>1, <2>2
<1>8. CASE ChecksSecret(r)
  <2>1. CASE Refused(r)
        BY <1>1, <1>6, <2>1 DEF Refused
  <2>2. CASE Moves(r, "quote")
    <3>1. inReq[r].pc = "check"
          BY <1>8 DEF ChecksSecret
    <3>2. Served([inReq[r] EXCEPT !.pc = "quote"], NoRows)
          BY <1>1, <3>1 DEF Served, IdleRequest
    <3>3. inReq' = [inReq EXCEPT ![r] = [inReq[r] EXCEPT !.pc = "quote"]]
          BY <2>2 DEF Moves
    <3> HIDE DEF Moves
    <3> QED BY <1>6, <3>2, <3>3
  <2> QED BY <1>8, <2>1, <2>2 DEF ChecksSecret
<1>9. CASE Quotes(r)
  <2>1. PICK pin \in SourcePrices, pout \in DestPrices :
          LET routes == {RouteOf(s, inReq[r], pin, pout) : s \in IntakeStrategy}
              payable == {x \in routes : CanFulfill(x)}
          IN  IF \/ DividesByZero(inReq[r])
                 \/ payable = {}
                 \/ \E x \in routes : ~InLimits(x.src)
              THEN Refused(r)
              ELSE \E best \in BestOf(payable, inReq[r].exactIn) :
                     inReq' = [inReq EXCEPT ![r] =
                       [pc |-> "begin", hash |-> inReq[r].hash, route |-> best]]
        BY <1>9 DEF Quotes
  <2>2. CASE Refused(r)
        BY <1>1, <1>6, <2>2 DEF Refused
  <2>3. CASE ~Refused(r)
    <3>1. PICK s \in IntakeStrategy :
            inReq' = [inReq EXCEPT ![r] =
              [pc |-> "begin", hash |-> inReq[r].hash,
               route |-> RouteOf(s, inReq[r], pin, pout)]]
          BY <2>1, <2>3 DEF BestOf
    <3>2. /\ inReq[r].amount \in Amounts /\ inReq[r].slip \in Slippages
          /\ inReq[r].affiliate \in AffiliateFees
          BY <1>1, <1>9 DEF Served, IdleRequest, Quotes
    <3>3. RouteOK(RouteOf(s, inReq[r], pin, pout))
          BY <2>1, <2>3, <3>2, RouteBounded
    <3>4. Served([pc |-> "begin", hash |-> inReq[r].hash,
                  route |-> RouteOf(s, inReq[r], pin, pout)], NoRows)
          BY <3>3 DEF Served, NoRows
    <3> QED BY <1>6, <3>1, <3>4
  <2> QED BY <2>2, <2>3
<1> QED BY <1>7, <1>8, <1>9

\* The transaction's inserts: what it adds nobody else has.
LEMMA InsertKeepsInv ==
  ASSUME IntakeInv, NEW r \in Request, InsertsSwaps(r) \/ InsertsOrder(r) \/ CreationFails(r)
  PROVE  IntakeInv'
<1> DEFINE req == inReq[r] rows == Rows(req.route, req.hash)
<1>1. Served(req, inTx[r])
      BY DEF IntakeInv
<1>2. CASE Refused(r) /\ GivesUp(r)
      BY <1>2, IdleKeepsInv
<1>3. CASE InsertsSwaps(r) /\ ~(Refused(r) /\ GivesUp(r))
  <2>1. /\ req.pc = "begin" /\ Moves(r, "order") /\ UNCHANGED inTables
        /\ inTx' = [inTx EXCEPT ![r].swaps = rows] /\ rows \cap inSwaps = {}
        /\ \A id \in rows : ~HeldElsewhere(r, id, "swaps")
        BY <1>3 DEF InsertsSwaps, SwapRows, Rows
  <2>2. /\ req = [pc |-> req.pc, hash |-> req.hash, route |-> req.route]
        /\ RouteOK(req.route) /\ inTx[r] = [swaps |-> {}, orders |-> {}]
        BY <1>1, <2>1 DEF Served, IdleRequest
  <2>3. [req EXCEPT !.pc = "order"] = [pc |-> "order", hash |-> req.hash, route |-> req.route]
        BY <2>2
  <2>4. Served([pc |-> "order", hash |-> req.hash, route |-> req.route],
               [swaps |-> rows, orders |-> {}])
        BY <2>2 DEF Served
  <2>5. inReq' = [inReq EXCEPT ![r] = [pc |-> "order", hash |-> req.hash, route |-> req.route]]
        BY <2>1, <2>3 DEF Moves
  <2>6. inTx' = [inTx EXCEPT ![r] = [swaps |-> rows, orders |-> {}]]
    <3>1. inTx' = [inTx EXCEPT ![r] = [inTx[r] EXCEPT !.swaps = rows]]
          BY <2>1
    <3>2. inTx[r] = [swaps |-> {}, orders |-> {}]
          BY <2>2
    <3> HIDE DEF req, rows
    <3>3. [inTx[r] EXCEPT !.swaps = rows] = [swaps |-> rows, orders |-> {}]
          BY <3>2, RowsOfOrder
    <3> QED BY <3>1, <3>3
  <2>7. \A q \in Request \ {r} : rows \cap inTx[q].swaps = {}
        BY <2>1 DEF HeldElsewhere
  <2> DEFINE new == [pc |-> "order", hash |-> req.hash, route |-> req.route]
             tx == [swaps |-> rows, orders |-> {}]
  <2>8. tx.swaps = rows /\ tx.orders = {}
        OBVIOUS
  <2>9. Served(new, tx) /\ inReq' = [inReq EXCEPT ![r] = new] /\ inTx' = [inTx EXCEPT ![r] = tx]
        BY <2>4, <2>5, <2>6
  <2> HIDE DEF req, rows, new, tx
  <2> QED BY <2>1, <2>7, <2>8, <2>9, RequestKeepsInv
<1>4. CASE InsertsOrder(r) /\ ~(Refused(r) /\ GivesUp(r))
  <2>1. /\ req.pc = "order" /\ Moves(r, "match") /\ UNCHANGED inTables
        /\ inTx' = [inTx EXCEPT ![r].orders = {req.hash}]
        /\ \A o \in inOrders : o.hash # req.hash
        /\ ~HeldElsewhere(r, req.hash, "orders")
        BY <1>4 DEF InsertsOrder
  <2>2. /\ req = [pc |-> req.pc, hash |-> req.hash, route |-> req.route]
        /\ RouteOK(req.route) /\ inTx[r] = [swaps |-> rows, orders |-> {}]
        BY <1>1, <2>1 DEF Served, IdleRequest
  <2>3. [req EXCEPT !.pc = "match"] = [pc |-> "match", hash |-> req.hash, route |-> req.route]
        BY <2>2
  <2>4. Served([pc |-> "match", hash |-> req.hash, route |-> req.route],
               [swaps |-> rows, orders |-> {req.hash}])
        BY <2>2 DEF Served
  <2>5. inReq' = [inReq EXCEPT ![r] = [pc |-> "match", hash |-> req.hash, route |-> req.route]]
        BY <2>1, <2>3 DEF Moves
  <2>6. inTx' = [inTx EXCEPT ![r] = [swaps |-> rows, orders |-> {req.hash}]]
    <3>1. inTx' = [inTx EXCEPT ![r] = [inTx[r] EXCEPT !.orders = {req.hash}]]
          BY <2>1
    <3>2. inTx[r] = [swaps |-> rows, orders |-> {}]
          BY <2>2
    <3> HIDE DEF req, rows
    <3>3. [inTx[r] EXCEPT !.orders = {req.hash}] = [swaps |-> rows, orders |-> {req.hash}]
          BY <3>2, RowsOfOrder
    <3> QED BY <3>1, <3>3
  <2>7. \A q \in Request \ {r} :
          {req.hash} \cap inTx[q].orders = {} /\ rows \cap inTx[q].swaps = {}
        BY <2>1, <2>2 DEF HeldElsewhere, IntakeInv, Apart
  <2>8. rows \cap inSwaps = {}
        BY <2>2 DEF IntakeInv, Apart
  <2> DEFINE new == [pc |-> "match", hash |-> req.hash, route |-> req.route]
             tx == [swaps |-> rows, orders |-> {req.hash}]
  <2>9. tx.swaps = rows /\ tx.orders = {req.hash}
        OBVIOUS
  <2>10. Served(new, tx) /\ inReq' = [inReq EXCEPT ![r] = new] /\ inTx' = [inTx EXCEPT ![r] = tx]
        BY <2>4, <2>5, <2>6
  <2> HIDE DEF req, rows, new, tx
  <2>11. \A o \in inOrders : o.hash \notin tx.orders
        BY <2>1, <2>9
  <2>12. /\ tx.swaps \cap inSwaps = {}
         /\ \A q \in Request \ {r} :
              tx.swaps \cap inTx[q].swaps = {} /\ tx.orders \cap inTx[q].orders = {}
        BY <2>7, <2>8, <2>9
  <2>13. UNCHANGED inTables
        BY <2>1
  <2> QED BY <2>10, <2>11, <2>12, <2>13, RequestKeepsInv
<1> QED BY <1>2, <1>3, <1>4 DEF CreationFails

\* The commit adds one order, one match and two swaps.
LEMMA CommitKeepsInv ==
  ASSUME IntakeInv, NEW r \in Request, InsertsMatchAndCommits(r)
  PROVE  IntakeInv'
<1> DEFINE req == inReq[r] rows == Rows(req.route, req.hash) order == NewOrder(r)
           match == [order |-> req.hash, swaps |-> rows]
<1>1. Served(req, inTx[r]) /\ req.pc = "match"
      BY DEF IntakeInv, InsertsMatchAndCommits
<1>2. RouteOK(req.route) /\ inTx[r] = [swaps |-> rows, orders |-> {req.hash}]
      BY <1>1 DEF Served, IdleRequest
<1>3. /\ inSwaps' = inSwaps \cup rows /\ inOrders' = inOrders \cup {order}
      /\ inMatches' = inMatches \cup {match}
      /\ inTx' = [inTx EXCEPT ![r] = NoRows] /\ inReq' = [inReq EXCEPT ![r] = IdleRequest]
      BY <1>2 DEF InsertsMatchAndCommits, Refused
<1>4. order.hash = req.hash /\ order.route = req.route /\ OrderShape(order)
      BY DEF NewOrder, OrderShape
<1>5. IsFiniteSet(rows) /\ Cardinality(rows) = 2
      BY TwoRows
<1>11. match.order = req.hash /\ match.swaps = rows
      OBVIOUS
<1> HIDE DEF req, rows, order, match
<1>6. /\ rows \cap inSwaps = {} /\ \A o \in inOrders : o.hash # req.hash
      /\ \A q \in Request \ {r} : rows \cap inTx[q].swaps = {} /\ req.hash \notin inTx[q].orders
      BY <1>2 DEF IntakeInv, Apart
<1>7. Apart'
      BY <1>3, <1>4, <1>6 DEF IntakeInv, Apart, NoRows
<1>8. TablesOK'
  <2> USE DEF IntakeInv, TablesOK, OrdersWhole
  <2>1. match \notin inMatches
    <3>1. ASSUME match \in inMatches PROVE FALSE
      <4>1. match.order \in {o.hash : o \in inOrders}
            BY <3>1
      <4> QED BY <4>1, <1>6, <1>11
    <3> QED BY <3>1
  <2>2. IsFiniteSet(inMatches') /\ Cardinality(inMatches') = Cardinality(inMatches) + 1
        BY <1>3, <2>1, FS_AddElement
  <2>3. /\ IsFiniteSet(inSwaps')
        /\ Cardinality(inSwaps') = Cardinality(inSwaps) + Cardinality(rows)
    <3>1. Cardinality(inSwaps \cap rows) = 0
          BY <1>6, FS_EmptySet
    <3>2. Cardinality(inSwaps) \in Nat
          BY FS_CardinalityType
    <3>3. IsFiniteSet(inSwaps) /\ IsFiniteSet(rows)
          BY <1>5
    <3> HIDE DEF IntakeInv, TablesOK, OrdersWhole
    <3>4. /\ IsFiniteSet(inSwaps \cup rows)
          /\ Cardinality(inSwaps \cup rows)
               = Cardinality(inSwaps) + Cardinality(rows) - Cardinality(inSwaps \cap rows)
          BY <3>3, FS_Union, Zenon
    <3>5. inSwaps' = inSwaps \cup rows
          BY <1>3
    <3>6. Cardinality(rows) = 2
          BY <1>5
    <3>7. Cardinality(inSwaps \cup rows) = Cardinality(inSwaps) + Cardinality(rows)
          BY <3>1, <3>2, <3>4, <3>6
    <3> QED BY <3>4, <3>5, <3>7
  <2>4. Cardinality(inSwaps') = 2 * Cardinality(inMatches')
    <3>1. Cardinality(inMatches) \in Nat
          BY FS_CardinalityType
    <3> QED BY <1>5, <2>2, <2>3, <3>1
  <2>5. UNION {m.swaps : m \in inMatches'} = inSwaps'
    <3>1. {m.swaps : m \in inMatches'} = {m.swaps : m \in inMatches} \cup {rows}
          BY <1>3, <1>11
    <3>2. \A S, T : UNION (S \cup {T}) = (UNION S) \cup T
          OBVIOUS
    <3>3. UNION {m.swaps : m \in inMatches} = inSwaps
          BY Zenon
    <3> QED BY <1>3, <3>1, <3>2, <3>3
  <2>6. {m.order : m \in inMatches'} = {o.hash : o \in inOrders'}
    <3>1. {m.order : m \in inMatches'} = {m.order : m \in inMatches} \cup {req.hash}
          BY <1>3, <1>11
    <3>2. {o.hash : o \in inOrders'} = {o.hash : o \in inOrders} \cup {req.hash}
          BY <1>3, <1>4
    <3> QED BY <3>1, <3>2
  <2>7. \A o1, o2 \in inOrders' : o1.hash = o2.hash => o1 = o2
        BY <1>3, <1>4, <1>6
  <2>8. \A o \in inOrders' : OrderShape(o) /\ RouteOK(o.route)
        BY <1>2, <1>3, <1>4
  <2>9. OrdersWhole'
        BY <2>4, <2>5, <2>6, <2>7
  <2> HIDE DEF OrdersWhole
  <2> QED BY <2>2, <2>3, <2>8, <2>9 DEF OrderShape, RouteOK
<1>9. Served(IdleRequest, NoRows)
      BY DEF Served
<1>10. \A q \in Request : Served(inReq'[q], inTx'[q])
      BY <1>3, <1>9 DEF IntakeInv
<1> QED BY <1>3, <1>7, <1>8, <1>10 DEF IntakeInv

\* A deposit or a lock changes two columns of one order.
LEMMA OrderKeepsInv ==
  ASSUME IntakeInv, NEW o \in inOrders, CustomerDeposits(o) \/ SolverLocks(o)
  PROVE  IntakeInv'
<1>1. \E new : OrderMoves(o, new) /\ OrderShape(new) /\ new.hash = o.hash /\ new.route = o.route
  <2>1. OrderShape(o)
        BY DEF IntakeInv, TablesOK
  <2>2. CASE CustomerDeposits(o)
    <3>1. OrderMoves(o, [o EXCEPT !.deposit = TRUE])
          BY <2>2 DEF CustomerDeposits
    <3> QED BY <2>1, <3>1, OrderColumns
  <2>3. CASE SolverLocks(o)
    <3>1. PICK lock \in {"zero", "mined"} : OrderMoves(o, [o EXCEPT !.lock = lock])
          BY <2>3 DEF SolverLocks
    <3> QED BY <2>1, <3>1, OrderColumns
  <2> QED BY <2>2, <2>3
<1>2. PICK new : OrderMoves(o, new) /\ OrderShape(new) /\ new.hash = o.hash /\ new.route = o.route
      BY <1>1
<1>3. /\ inOrders' = (inOrders \ {o}) \cup {new}
      /\ UNCHANGED <<inReq, inTx, inSwaps, inMatches>>
      BY <1>2 DEF OrderMoves
<1>4. {x.hash : x \in inOrders'} = {x.hash : x \in inOrders}
      BY <1>2, <1>3
<1>5. OrdersWhole'
      BY <1>2, <1>3, <1>4 DEF IntakeInv, TablesOK, OrdersWhole
<1>6. TablesOK'
  <2>1. \A x \in inOrders' : OrderShape(x) /\ RouteOK(x.route)
        BY <1>2, <1>3 DEF IntakeInv, TablesOK
  <2> QED BY <1>3, <1>5, <2>1 DEF IntakeInv, TablesOK, OrderShape, RouteOK
<1>7. Apart'
      BY <1>2, <1>3 DEF IntakeInv, Apart
<1> QED BY <1>3, <1>6, <1>7 DEF IntakeInv

\* Every step keeps the invariant.
LEMMA IntakeNextKeepsInv == IntakeInv /\ [IntakeNext]_intakeVars => IntakeInv'
<1> SUFFICES ASSUME IntakeInv, [IntakeNext]_intakeVars PROVE IntakeInv'
    OBVIOUS
<1>1. CASE RefreshReadsBalance \/ RefreshPublishes \/ UNCHANGED intakeVars
  <2>1. UNCHANGED <<inReq, inTx, inSwaps, inOrders, inMatches>>
        BY <1>1 DEF RefreshReadsBalance, RefreshPublishes, intakeVars, inTables
  <2> QED BY <2>1 DEF IntakeInv, Apart, TablesOK, OrdersWhole
<1> QED BY <1>1, QuoteKeepsInv, InsertKeepsInv, CommitKeepsInv, OrderKeepsInv DEF IntakeNext

\* The invariant holds in every reachable state.
LEMMA IntakeInvHolds == IntakeSpec => []IntakeInv
BY IntakeInitInv, IntakeNextKeepsInv, PTL DEF IntakeSpec

\* For any number of concurrent requests, whatever fails half way: every order has one
\* match with two swaps of its own, and nothing else is left in the tables
\* (create_matched_order's transaction).
THEOREM OrdersWholeHolds == IntakeSpec => []OrdersWhole
BY IntakeInvHolds, IntakeFromInv, PTL

\* For all prices, amounts, slippages and u64 fees: the payout of an order whose fee, as the
\* service adds it up, is at most the whole - of any order whose customer fixes what goes
\* in - is at most what comes in at the quote's prices, enlarged by the configured maximum
\* slippage (matcher.rs).
THEOREM PayoutBoundedHolds == IntakeSpec => []PayoutBounded
BY IntakeInvHolds, IntakeFromInv, PTL

-----------------------------------------------------------------------------
(* The book of a venue.                                                    *)

Sides == [BookPrice -> Quantity]
Histories == [Nat -> Sides]
BookEvents == [first : Nat, last : Nat, prev : Nat, levels : SUBSET BookPrice, after : Sides]

\* From id `from` to id `to` only the levels in `levels` changed.
OnlyChanged(H, levels, from, to) ==
  \A k \in from .. to, p \in BookPrice : p \notin levels => H[k][p] = H[to][p]

EventOK(H, e) ==
  /\ e.first = e.prev + 1 /\ e.prev <= e.last /\ e.last <= bfId
  /\ e.after = H[e.last] /\ OnlyChanged(H, e.levels, e.prev, e.last)

QueueOK(H, queue) ==
  queue \in Seq(BookEvents) /\ \A i \in 1 .. Len(queue) : EventOK(H, queue[i])

\* Every level of `side` is one of `truth`.
LevelsOf(side, truth) == \A p \in BookPrice : side[p] # 0 => side[p] = truth[p]

\* A local book, and the venue's side when it had that id
LocalOK(H, book, truth) ==
  /\ book.id \in Nat /\ book.id <= bfId /\ LevelsOf(book.side, truth)
  /\ book.id # 0 => truth = H[book.id]

VenueOK(H) ==
  /\ bfId \in Nat \ {0} /\ bfVenue = H[bfId]
  /\ bfUnsent.after \in Nat /\ bfUnsent.after <= bfId /\ bfUnsent.levels \subseteq BookPrice
  /\ OnlyChanged(H, bfUnsent.levels, bfUnsent.after, bfId)

HistoryInv(H) ==
  /\ VenueOK(H) /\ QueueOK(H, bfQueue) /\ QueueOK(H, bfHeld)
  /\ LocalOK(H, bfLocal, bfTruth)
  /\ LevelsOf(bfBook.side, bfBook.truth)

BookInv == \E H \in Histories : HistoryInv(H)

\* The invariant contains the property.
LEMMA LevelsByInv == BookInv => LevelsReal
BY DEF BookInv, HistoryInv, LocalOK, LevelsOf, LevelsReal

\* One side for all ids is the history of a venue where nothing has happened.
LEMMA BookInitInv == BookInit => BookInv
<1> SUFFICES ASSUME BookInit PROVE BookInv
    OBVIOUS
<1> DEFINE H == [k \in Nat |-> bfVenue]
<1>1. H \in Histories
      BY DEF BookInit, Histories, Sides
<1>2. bfId = 1 /\ bfUnsent.after = 1 /\ bfUnsent.levels = {} /\ bfQueue = <<>> /\ bfHeld = <<>>
      BY DEF BookInit
<1>3. VenueOK(H)
      BY <1>2 DEF VenueOK, OnlyChanged
<1>4. QueueOK(H, bfQueue) /\ QueueOK(H, bfHeld)
      BY <1>2 DEF QueueOK
<1>5. LocalOK(H, bfLocal, bfTruth) /\ LevelsOf(bfBook.side, bfBook.truth)
      BY <1>2 DEF BookInit, NewBook, Empty, LocalOK, LevelsOf
<1> QED BY <1>1, <1>3, <1>4, <1>5 DEF BookInv, HistoryInv

\* The best levels of a side are levels of it.
LEMMA TopLevels ==
  ASSUME NEW side, NEW n, NEW truth, LevelsOf(side, truth)
  PROVE  LevelsOf(Top(side, n), truth)
BY DEF LevelsOf, Top

\* An event that covers the id a book stands at takes it to its own last id.
LEMMA AppliedLevels ==
  ASSUME NEW H \in Histories, NEW book, NEW truth, NEW e \in BookEvents,
         LocalOK(H, book, truth), EventOK(H, e), book.id # 0,
         e.last >= book.id, Follows(book, e), bfId \in Nat
  PROVE  LocalOK(H, Applied(book, e), e.after)
<1> DEFINE side == [p \in BookPrice |-> IF p \in e.levels THEN e.after[p] ELSE book.side[p]]
<1>1. e.first \in Nat /\ e.last \in Nat /\ e.prev \in Nat
      BY DEF BookEvents
<1>2. book.id \in e.prev .. e.last
      BY <1>1 DEF Follows, EventOK, LocalOK
<1>3. \A p \in BookPrice : p \notin e.levels => truth[p] = e.after[p]
      BY <1>2 DEF EventOK, LocalOK, OnlyChanged
<1>4. LevelsOf(side, e.after)
      BY <1>3 DEF LevelsOf, LocalOK
<1> HIDE DEF side
<1>5. LevelsOf(Top(side, BookDepth), e.after)
      BY <1>4, TopLevels
<1>6. Applied(book, e) = [id |-> e.last, side |-> Top(side, BookDepth), rebuilt |-> FALSE]
      BY DEF Applied, side
<1> QED BY <1>1, <1>5, <1>6 DEF LocalOK, EventOK

\* Whatever the handler makes of an event, the book is true at its id.
LEMMA HandlesKeeps ==
  ASSUME NEW H \in Histories, HistoryInv(H), NEW book, NEW truth, NEW e \in BookEvents,
         LocalOK(H, book, truth), book.id # 0, EventOK(H, e), Handles(book, truth, e),
         bfId' = bfId
  PROVE  LocalOK(H, bfLocal, bfTruth)' /\ LevelsOf(bfBook.side, bfBook.truth)'
<1>1. bfId \in Nat /\ e.last \in Nat /\ book.id \in Nat
      BY DEF HistoryInv, VenueOK, BookEvents, LocalOK
<1>2. CASE e.last < book.id
      BY <1>1, <1>2 DEF Handles, LocalOK, HistoryInv
<1>3. CASE e.last >= book.id /\ ~Follows(book, e)
  <2>1. bfLocal' = NewBook /\ bfTruth' = Empty /\ bfBook' = bfBook
        BY <1>1, <1>3 DEF Handles
  <2> QED BY <1>1, <2>1 DEF LocalOK, LevelsOf, NewBook, Empty, HistoryInv
<1>4. CASE e.last >= book.id /\ Follows(book, e)
  <2>1. /\ bfLocal' = Applied(book, e) /\ bfTruth' = e.after
        /\ bfBook' = [side |-> Applied(book, e).side, truth |-> e.after]
        BY <1>1, <1>4 DEF Handles
  <2>2. LocalOK(H, Applied(book, e), e.after)
        BY <1>1, <1>4, AppliedLevels
  <2> QED BY <2>1, <2>2 DEF LocalOK
<1> QED BY <1>1, <1>2, <1>3, <1>4

\* The socket and the handler: the venue's side stays what it is.
LEMMA FeedSteps ==
  ASSUME NEW H \in Histories, HistoryInv(H),
         \/ EventSkipped \/ EventHandled \/ SnapshotFetched \/ SnapshotFails
         \/ FeedReconnects
  PROVE  HistoryInv(H)'
<1>1. bfVenue' = bfVenue /\ bfId' = bfId /\ bfUnsent' = bfUnsent
      BY DEF EventSkipped, EventHandled, SnapshotFetched, SnapshotFails, FeedReconnects, bfOutside
<1>2. VenueOK(H)'
      BY <1>1 DEF HistoryInv, VenueOK
<1>3. \A queue : QueueOK(H, queue) => QueueOK(H, queue)'
      BY <1>1 DEF QueueOK, EventOK
<1>4. bfLocal' = bfLocal /\ bfTruth' = bfTruth => LocalOK(H, bfLocal, bfTruth)'
      BY <1>1 DEF HistoryInv, LocalOK
<1>5. bfBook' = bfBook => LevelsOf(bfBook.side, bfBook.truth)'
      BY DEF HistoryInv
<1>6. QueueOK(H, <<>>)
      BY DEF QueueOK
<1>7. bfQueue # <<>> => /\ QueueOK(H, Tail(bfQueue))
                        /\ Head(bfQueue) \in BookEvents /\ EventOK(H, Head(bfQueue))
                        /\ QueueOK(H, <<Head(bfQueue)>>)
  <2> SUFFICES ASSUME bfQueue # <<>>
               PROVE  /\ QueueOK(H, Tail(bfQueue))
                      /\ Head(bfQueue) \in BookEvents /\ EventOK(H, Head(bfQueue))
                      /\ QueueOK(H, <<Head(bfQueue)>>)
      OBVIOUS
  <2>1. bfQueue \in Seq(BookEvents) /\ \A i \in 1 .. Len(bfQueue) : EventOK(H, bfQueue[i])
        BY DEF HistoryInv, QueueOK
  <2>2. /\ Head(bfQueue) \in BookEvents /\ Tail(bfQueue) \in Seq(BookEvents)
        /\ Len(Tail(bfQueue)) = Len(bfQueue) - 1 /\ Len(bfQueue) \in Nat \ {0}
        /\ \A i \in 1 .. Len(Tail(bfQueue)) : Tail(bfQueue)[i] = bfQueue[i + 1]
        BY <2>1, HeadTailProperties, EmptySeq
  <2>3. EventOK(H, Head(bfQueue))
        BY <2>1, <2>2
  <2>4. QueueOK(H, Tail(bfQueue))
    <3> SUFFICES ASSUME NEW i \in 1 .. Len(Tail(bfQueue)) PROVE EventOK(H, Tail(bfQueue)[i])
        BY <2>2 DEF QueueOK
    <3> QED BY <2>1, <2>2
  <2> HIDE DEF EventOK
  <2> DEFINE head == Head(bfQueue)
  <2>5. head \in BookEvents /\ EventOK(H, head)
        BY <2>2, <2>3
  <2> HIDE DEF head
  <2>6. QueueOK(H, <<head>>)
        BY <2>5 DEF QueueOK
  <2> QED BY <2>2, <2>3, <2>4, <2>6 DEF head
<1>8. CASE EventSkipped
      BY <1>2, <1>3, <1>4, <1>5, <1>7, <1>8 DEF EventSkipped, HistoryInv
<1>9. CASE SnapshotFails
      BY <1>2, <1>3, <1>4, <1>5, <1>6, <1>9 DEF SnapshotFails, HistoryInv
<1>10. CASE FeedReconnects
  <2>1. LocalOK(H, bfLocal, bfTruth)'
        BY <1>2, <1>10 DEF FeedReconnects, LocalOK, LevelsOf, NewBook, Empty, VenueOK
  <2> QED BY <1>2, <1>3, <1>5, <1>6, <1>10, <2>1 DEF FeedReconnects, HistoryInv
<1>11. CASE EventHandled
  <2>1. QueueOK(H, bfQueue)'
        BY <1>3, <1>7, <1>11 DEF EventHandled
  <2>2. CASE bfLocal.id = 0
        BY <1>2, <1>3, <1>4, <1>5, <1>7, <1>11, <2>1, <2>2 DEF EventHandled, HistoryInv
  <2>3. CASE bfLocal.id # 0
    <3>1. bfHeld' = bfHeld /\ Handles(bfLocal, bfTruth, Head(bfQueue)) /\ bfQueue # <<>>
          BY <1>11, <2>3 DEF EventHandled
    <3>2. LocalOK(H, bfLocal, bfTruth)' /\ LevelsOf(bfBook.side, bfBook.truth)'
          BY <1>1, <1>7, <2>3, <3>1, HandlesKeeps DEF HistoryInv
    <3> QED BY <1>2, <1>3, <2>1, <3>1, <3>2 DEF HistoryInv
  <2> QED BY <2>2, <2>3
<1>12. CASE SnapshotFetched
  <2> DEFINE book == [id |-> bfId, side |-> Top(bfVenue, SnapshotLimit), rebuilt |-> TRUE]
  <2>1. /\ bfHeld # <<>> /\ bfHeld' = <<>> /\ bfQueue' = bfQueue
        /\ Handles(book, bfVenue, bfHeld[1])
        BY <1>12 DEF SnapshotFetched
  <2>2. bfHeld[1] \in BookEvents /\ EventOK(H, bfHeld[1])
    <3>1. bfHeld \in Seq(BookEvents) /\ Len(bfHeld) \in Nat \ {0}
          BY <2>1, EmptySeq DEF HistoryInv, QueueOK
    <3> QED BY <3>1 DEF HistoryInv, QueueOK
  <2>3. LevelsOf(Top(bfVenue, SnapshotLimit), bfVenue)
        BY TopLevels DEF LevelsOf
  <2>4. LocalOK(H, book, bfVenue) /\ book.id # 0
        BY <2>3 DEF HistoryInv, VenueOK, LocalOK
  <2> HIDE DEF book
  <2>5. LocalOK(H, bfLocal, bfTruth)' /\ LevelsOf(bfBook.side, bfBook.truth)'
        BY <1>1, <2>1, <2>2, <2>4, HandlesKeeps
  <2> QED BY <1>2, <1>3, <1>6, <2>1, <2>5 DEF HistoryInv
<1> QED BY <1>8, <1>9, <1>10, <1>11, <1>12

\* An event that goes out is right about the ids since the last one.
LEMMA SentKeeps ==
  ASSUME NEW H \in Histories, HistoryInv(H), EventSent
  PROVE  HistoryInv(H)'
<1> DEFINE e == [first |-> bfUnsent.after + 1, last |-> bfId, prev |-> bfUnsent.after,
                 levels |-> bfUnsent.levels, after |-> bfVenue]
<1>1. /\ bfQueue' = Append(bfQueue, e) /\ bfUnsent' = [after |-> bfId, levels |-> {}]
      /\ UNCHANGED <<bfVenue, bfId, bfHeld, bfLocal, bfTruth, bfBook>>
      BY DEF EventSent
<1>2. e \in BookEvents /\ EventOK(H, e)
      BY DEF HistoryInv, VenueOK, BookEvents, EventOK, Histories, Sides
<1> HIDE DEF e
<1>3. \A f : EventOK(H, f) => EventOK(H, f)'
      BY <1>1 DEF EventOK
<1>4. VenueOK(H)'
      BY <1>1 DEF HistoryInv, VenueOK, OnlyChanged
<1>5. QueueOK(H, bfQueue)'
  <2>1. bfQueue \in Seq(BookEvents) /\ \A i \in 1 .. Len(bfQueue) : EventOK(H, bfQueue[i])
        BY DEF HistoryInv, QueueOK
  <2>2. /\ Append(bfQueue, e) \in Seq(BookEvents) /\ Len(bfQueue) \in Nat
        /\ Len(Append(bfQueue, e)) = Len(bfQueue) + 1
        /\ \A i \in 1 .. Len(bfQueue) : Append(bfQueue, e)[i] = bfQueue[i]
        /\ Append(bfQueue, e)[Len(bfQueue) + 1] = e
        BY <1>2, <2>1, AppendProperties
  <2>3. \A i \in 1 .. Len(bfQueue) + 1 : EventOK(H, Append(bfQueue, e)[i])
        BY <1>2, <2>1, <2>2
  <2> QED BY <1>1, <1>3, <2>2, <2>3 DEF QueueOK
<1>6. QueueOK(H, bfHeld)' /\ LocalOK(H, bfLocal, bfTruth)'
      BY <1>1, <1>3 DEF HistoryInv, QueueOK, LocalOK
<1> QED BY <1>1, <1>4, <1>5, <1>6 DEF HistoryInv

\* A change of the venue's side is the next id's history.
LEMMA VenueKeeps ==
  ASSUME NEW H \in Histories, HistoryInv(H), VenueChanges
  PROVE  BookInv'
<1>1. PICK p \in BookPrice, q \in Quantity :
        /\ bfVenue' = [bfVenue EXCEPT ![p] = q]
        /\ bfUnsent' = [bfUnsent EXCEPT !.levels = @ \cup {p}]
      BY DEF VenueChanges
<1>2. bfId' = bfId + 1 /\ UNCHANGED <<bfQueue, bfHeld, bfLocal, bfTruth, bfBook>>
      BY DEF VenueChanges
<1>3. bfId \in Nat \ {0} /\ bfVenue = H[bfId] /\ bfVenue \in Sides
      BY DEF HistoryInv, VenueOK, Histories
<1>4. PICK G \in Histories :
        G[bfId + 1] = bfVenue' /\ \A k \in 0 .. bfId : G[k] = H[k]
  <2> DEFINE next == [H EXCEPT ![bfId + 1] = bfVenue']
  <2>1. next \in Histories /\ next[bfId + 1] = bfVenue' /\ \A k \in 0 .. bfId : next[k] = H[k]
        BY <1>1, <1>3 DEF Histories, Sides
  <2> HIDE DEF next
  <2> QED BY <2>1
<1>5. \A e \in BookEvents : EventOK(H, e) => EventOK(G, e)'
  <2> SUFFICES ASSUME NEW e \in BookEvents, EventOK(H, e) PROVE EventOK(G, e)'
      OBVIOUS
  <2>1. e.prev \in Nat /\ e.last \in Nat /\ e.last <= bfId /\ e.prev <= e.last
        BY DEF BookEvents, EventOK
  <2>2. OnlyChanged(G, e.levels, e.prev, e.last)
        BY <1>3, <1>4, <2>1 DEF EventOK, OnlyChanged
  <2> QED BY <1>2, <1>3, <1>4, <2>1, <2>2 DEF EventOK
<1>6. QueueOK(G, bfQueue)' /\ QueueOK(G, bfHeld)'
  <2>1. \A queue : QueueOK(H, queue) => QueueOK(G, queue)'
    <3> SUFFICES ASSUME NEW queue, QueueOK(H, queue) PROVE QueueOK(G, queue)'
        OBVIOUS
    <3>1. \A i \in 1 .. Len(queue) : queue[i] \in BookEvents
          BY DEF QueueOK
    <3> QED BY <1>5, <3>1 DEF QueueOK
  <2> QED BY <1>2, <2>1 DEF HistoryInv
<1>7. LocalOK(G, bfLocal, bfTruth)'
      BY <1>2, <1>3, <1>4 DEF HistoryInv, LocalOK
<1>8. VenueOK(G)'
  <2>1. /\ bfUnsent.after \in Nat /\ bfUnsent.after <= bfId /\ bfUnsent.levels \subseteq BookPrice
        /\ OnlyChanged(H, bfUnsent.levels, bfUnsent.after, bfId)
        BY DEF HistoryInv, VenueOK
  <2>2. bfUnsent'.after = bfUnsent.after /\ bfUnsent'.levels = bfUnsent.levels \cup {p}
        BY <1>1
  <2>3. OnlyChanged(G, bfUnsent'.levels, bfUnsent.after, bfId + 1)
    <3> SUFFICES ASSUME NEW k \in bfUnsent.after .. bfId + 1, NEW r \in BookPrice,
                        r \notin bfUnsent'.levels
                 PROVE  G[k][r] = G[bfId + 1][r]
        BY DEF OnlyChanged
    <3>1. bfVenue'[r] = bfVenue[r] /\ r \notin bfUnsent.levels
          BY <1>1, <1>3, <2>2 DEF Sides
    <3>2. CASE k = bfId + 1
          BY <3>2
    <3>3. CASE k \in bfUnsent.after .. bfId
          BY <1>3, <1>4, <2>1, <3>1, <3>3 DEF OnlyChanged
    <3> QED BY <1>3, <2>1, <3>2, <3>3
  <2> QED BY <1>2, <1>3, <1>4, <2>1, <2>2, <2>3 DEF VenueOK
<1>9. LevelsOf(bfBook.side, bfBook.truth)'
      BY <1>2 DEF HistoryInv
<1> QED BY <1>4, <1>6, <1>7, <1>8, <1>9 DEF BookInv, HistoryInv

\* The invariant does not change when nothing does.
LEMMA BookStutters == ASSUME NEW H \in Histories, HistoryInv(H), UNCHANGED bookVars
                      PROVE  HistoryInv(H)'
<1>1. \A e : EventOK(H, e) => EventOK(H, e)'
      BY DEF EventOK, bookVars, bfOutside
<1> QED BY <1>1 DEF HistoryInv, VenueOK, QueueOK, LocalOK, bookVars, bfOutside

\* The local book and the book that prices come from show levels that the venue had, at
\* the id the book stands at (binance.rs: handle_text, apply_depth_event).
THEOREM LevelsRealHolds == BookSpec => []LevelsReal
<1>1. BookInv /\ [BookNext]_bookVars => BookInv'
  <2> SUFFICES ASSUME NEW H \in Histories, HistoryInv(H), [BookNext]_bookVars
               PROVE  BookInv'
      BY DEF BookInv
  <2>1. CASE VenueChanges
        BY <2>1, VenueKeeps
  <2>2. CASE EventSent
        BY <2>2, SentKeeps DEF BookInv
  <2>3. CASE EventSkipped \/ EventHandled \/ SnapshotFetched \/ SnapshotFails \/ FeedReconnects
        BY <2>3, FeedSteps DEF BookInv
  <2>4. CASE UNCHANGED bookVars
        BY <2>4, BookStutters DEF BookInv
  <2> QED BY <2>1, <2>2, <2>3, <2>4 DEF BookNext
<1> QED BY BookInitInv, LevelsByInv, <1>1, PTL DEF BookSpec

-----------------------------------------------------------------------------
(* Prices are recent. A book that counts was updated since the mark that    *)
(* was due; every tick of the worker replaces the price by one of that      *)
(* second.                                                                  *)

Oldest == Max({VenueStaleness + 1, AggStaleness})

Booked(b) == b.at > 0 /\ ~b.stale

BookShape(b, now) ==
  b = [at |-> b.at, mid |-> b.mid, stale |-> b.stale] /\ b.at \in 0 .. now
  /\ b.stale \in BOOLEAN

Within(b, now, seconds) == Booked(b) => now - b.at <= seconds

\* The staleness worker has looked at the book this second, and left it.
Checked(v, done, copies) ==
  "staleness" \in done \/ (copies # {} /\ \A x \in copies : x[1] # v)

\* The copies are those of this second, and the books that are not copied have the mark
\* they should have.
BooksOK ==
  /\ DOMAIN pfBook = Venue /\ DOMAIN pfAgg = Aggregator
  /\ \A a \in Aggregator : BookShape(pfAgg[a], pfNow)
  /\ \A v \in Venue :
       /\ BookShape(pfBook[v], pfNow) /\ Within(pfBook[v], pfNow, VenueStaleness + 1)
       /\ Checked(v, pfDone, pfCopies) => Within(pfBook[v], pfNow, VenueStaleness)
  /\ \A x \in pfCopies :
       /\ x[1] \in Venue /\ BookShape(x[2], pfNow)
       /\ Within(x[2], pfNow, VenueStaleness)
  /\ pfCopies # {} => "staleness" \notin pfDone

SnapOfNow(snap) == snap # NoPrice => snap.oldest \in Nat /\ pfNow - snap.oldest <= Oldest

TaskOK(k) ==
  /\ pfTask[k] = [pc |-> pfTask[k].pc, snap |-> pfTask[k].snap]
  /\ pfTask[k].pc \in {"idle", "compute", "insert"}
  /\ pfTask[k].pc = "insert" => SnapOfNow(pfTask[k].snap)

\* Seconds since the worker's last round, VwmpTick while one is due.
SinceRound ==
  IF pfNow % VwmpTick = 0 /\ ~("vwmp" \in pfDone /\ pfTask["worker"].pc = "idle")
  THEN VwmpTick ELSE pfNow % VwmpTick

SnapOK == pfSnap # NoPrice => pfSnap.oldest \in Nat /\ pfNow - pfSnap.oldest <= Oldest + SinceRound

PriceInv ==
  /\ pfNow \in Nat \ {0}
  /\ BooksOK /\ SnapOK
  /\ DOMAIN pfTask = Computing /\ \A k \in Computing : TaskOK(k)

\* The age of the oldest sample that counts is bounded by either threshold.
LEMMA OldestBounds ==
  Oldest \in Nat /\ Oldest >= VenueStaleness + 1 /\ Oldest >= AggStaleness
<1> DEFINE a == VenueStaleness + 1 b == AggStaleness m == IF a >= b THEN a ELSE b
<1>1. a \in Nat /\ b \in Nat
      BY PriceAssumption
<1>2. m \in {a, b} /\ \A y \in {a, b} : m >= y
      BY <1>1
<1>3. \A x \in {a, b} : (\A y \in {a, b} : x >= y) => x = m
      BY <1>1
<1> HIDE DEF a, b, m
<1>4. Max({a, b}) = m
      BY <1>2, <1>3 DEF Max
<1> QED BY <1>1, <1>4 DEF Oldest, a, b, m

\* The worker's last round is at most one tick ago.
LEMMA SinceRoundBounds ==
  ASSUME pfNow \in Nat
  PROVE  SinceRound \in Nat /\ SinceRound <= VwmpTick
BY PriceAssumption DEF SinceRound

\* The invariant holds with empty caches and no price.
LEMMA PriceInitInv == PriceInit => PriceInv
<1> SUFFICES ASSUME PriceInit PROVE PriceInv
    OBVIOUS
<1>1. BooksOK
  <2>1. BookShape(Nothing, 1) /\ ~Booked(Nothing)
        BY DEF BookShape, Booked, Nothing
  <2>2. \A seconds : Within(Nothing, 1, seconds)
        BY <2>1 DEF Within
  <2> QED BY <2>1, <2>2 DEF PriceInit, BooksOK
<1> QED BY <1>1 DEF PriceInit, PriceInv, SnapOK, TaskOK, IdleTask

\* A price is as old as its samples were, and the time since the round.
LEMMA PriceFromInv == PriceInv => PriceRecent
BY SinceRoundBounds, OldestBounds, PriceAssumption
   DEF PriceInv, SnapOK, PriceRecent, Oldest

\* What compute_vwmp makes of books that count and recent aggregator prices.
LEMMA ComputedRecent ==
  ASSUME PriceInv, NEW weighed \in SUBSET BookSamples
  PROVE  SnapOfNow(SnapshotOf(weighed \cup AggSamples))
<1> DEFINE samples == weighed \cup AggSamples
           kept == {s \in samples : WithinOutlierThreshold(s.mid, TwiceMedian(samples))}
           ages == {s.at : s \in kept}
<1>1. \A s \in samples : s.at \in Nat /\ pfNow - s.at <= Oldest
  <2>1. \A s \in BookSamples : s.at \in Nat /\ pfNow - s.at <= Oldest
    <3> SUFFICES ASSUME NEW v \in Venue, Booked(pfBook[v])
                 PROVE  pfBook[v].at \in Nat /\ pfNow - pfBook[v].at <= Oldest
        BY DEF BookSamples, Booked, Sample
    <3> QED BY OldestBounds, PriceAssumption DEF PriceInv, BooksOK, BookShape, Within
  <2>2. \A s \in AggSamples : s.at \in Nat /\ pfNow - s.at <= Oldest
    <3> SUFFICES ASSUME NEW a \in Aggregator, pfNow - pfAgg[a].at <= AggStaleness
                 PROVE  pfAgg[a].at \in Nat /\ pfNow - pfAgg[a].at <= Oldest
        BY DEF AggSamples, Sample
    <3> QED BY OldestBounds, PriceAssumption DEF PriceInv, BooksOK, BookShape
  <2> QED BY <2>1, <2>2
<1>2. CASE kept = {}
      BY <1>2 DEF SnapshotOf, SnapOfNow
<1>3. CASE kept # {}
  <2>1. SnapshotOf(samples) = [oldest |-> Min(ages), mids |-> {s.mid : s \in kept}]
        BY <1>3, Zenon DEF SnapshotOf
  <2>2. kept \subseteq samples
        OBVIOUS
  <2> HIDE DEF samples, kept
  <2>3. ages \subseteq Nat /\ ages # {}
        BY <1>1, <1>3, <2>2
  <2>4. Min(ages) \in ages
        BY <2>3, MinIn
  <2> HIDE DEF ages
  <2>5. SnapshotOf(samples).oldest = Min(ages)
        BY <2>1
  <2>6. PICK s \in samples : s.at = Min(ages)
        BY <2>2, <2>4 DEF ages
  <2>7. SnapOfNow(SnapshotOf(samples))
        BY <1>1, <2>5, <2>6 DEF SnapOfNow
  <2> QED BY <2>7 DEF samples
<1> QED BY <1>2, <1>3

\* What a second does to the time since the last multiple.
LEMMA NextSecond ==
  ASSUME NEW n \in Nat, NEW t \in Nat \ {0}
  PROVE  n % t \in Nat /\ ((n + 1) % t = 0 => (n % t) = t - 1)
         /\ ((n + 1) % t # 0 => (n + 1) % t = (n % t) + 1)
<1> DEFINE q == n \div t m == n % t
<1>1. q \in Nat /\ m \in 0 .. t - 1 /\ n = t * q + m
      OBVIOUS
<1> HIDE DEF q, m
<1>2. CASE m = t - 1
  <2>1. n + 1 = t * (q + 1)
        BY <1>1, <1>2
  <2>2. (n + 1) % t = 0
    <3>1. \A k \in Nat : (t * k) % t = 0
          OBVIOUS
    <3> QED BY <1>1, <2>1, <3>1
  <2> QED BY <1>1, <1>2, <2>2 DEF m
<1>3. CASE m # t - 1
  <2>1. n + 1 = t * q + (m + 1) /\ m + 1 \in 0 .. t - 1
        BY <1>1, <1>3
  <2>2. (n + 1) % t = m + 1
    <3>1. \A k \in Nat, r \in 0 .. t - 1 : (t * k + r) % t = r
          OBVIOUS
    <3> QED BY <1>1, <2>1, <3>1
  <2> QED BY <1>1, <2>1, <2>2 DEF m
<1> QED BY <1>2, <1>3

-----------------------------------------------------------------------------
(* One step per action.                                                    *)

\* A book with another mark.
LEMMA MarkedShape ==
  ASSUME NEW b, NEW now, BookShape(b, now), NEW m \in BOOLEAN
  PROVE  /\ BookShape([b EXCEPT !.stale = m], now)
         /\ [b EXCEPT !.stale = m].at = b.at /\ [b EXCEPT !.stale = m].stale = m
<1>1. ASSUME NEW at, NEW mid, NEW stale, b = [at |-> at, mid |-> mid, stale |-> stale]
      PROVE  [b EXCEPT !.stale = m] = [at |-> at, mid |-> mid, stale |-> m]
      BY <1>1
<1>2. [b EXCEPT !.stale = m] = [at |-> b.at, mid |-> b.mid, stale |-> m]
      BY <1>1 DEF BookShape
<1> QED BY <1>2 DEF BookShape

\* A book is replaced by one that is recent, or marked.
LEMMA BookReplaced ==
  ASSUME BooksOK, UNCHANGED <<pfNow, pfDone, pfCopies, pfAgg>>, NEW v \in Venue, NEW b,
         pfBook' = [pfBook EXCEPT ![v] = b], BookShape(b, pfNow),
         Within(b, pfNow, VenueStaleness), pfNow \in Nat
  PROVE  BooksOK'
<1>1. Within(b, pfNow, VenueStaleness + 1)
      BY PriceAssumption DEF Within, BookShape
<1>2. \A u \in Venue : pfBook'[u] = IF u = v THEN b ELSE pfBook[u]
      BY DEF BooksOK
<1>3. DOMAIN pfBook' = Venue
      BY DEF BooksOK
<1> QED BY <1>1, <1>2, <1>3 DEF BooksOK

\* A sample that comes in, or a venue that goes away.
LEMMA SampleKeepsInv ==
  ASSUME PriceInv,
         \/ \E v \in Venue : VenueDisconnected(v) \/ \E m \in MidPrice : BookArrives(v, m)
         \/ \E a \in Aggregator, m \in MidPrice : PriceArrives(a, m)
  PROVE  PriceInv'
<1>1. UNCHANGED <<pfNow, pfSnap, pfDone, pfCopies>>
      BY DEF VenueDisconnected, BookArrives, PriceArrives
<1>2. pfTask' = pfTask \/ (pfTask["arrival"].pc = "idle" /\ ArrivalComputes)
      BY DEF VenueDisconnected, BookArrives, PriceArrives
<1>3. /\ DOMAIN pfTask' = Computing /\ (\A k \in Computing : TaskOK(k)')
      /\ pfTask'["worker"] = pfTask["worker"]
      BY <1>1, <1>2 DEF PriceInv, TaskOK, SnapOfNow, Oldest, ArrivalComputes, Computing
<1>4. SnapOK'
      BY <1>1, <1>3 DEF PriceInv, SnapOK, SinceRound, Oldest
<1>5. BooksOK'
  <2>1. ASSUME NEW v \in Venue, VenueDisconnected(v) PROVE BooksOK'
    <3> DEFINE b == [pfBook[v] EXCEPT !.stale = TRUE]
    <3>1. pfBook' = [pfBook EXCEPT ![v] = b] /\ pfAgg' = pfAgg
          BY <2>1 DEF VenueDisconnected
    <3>2. BookShape(b, pfNow) /\ b.stale
          BY MarkedShape DEF PriceInv, BooksOK
    <3> HIDE DEF b
    <3>3. Within(b, pfNow, VenueStaleness)
          BY <3>2 DEF Within, Booked
    <3> QED BY <1>1, <3>1, <3>2, <3>3, BookReplaced DEF PriceInv
  <2>2. ASSUME NEW v \in Venue, NEW m \in MidPrice, BookArrives(v, m) PROVE BooksOK'
    <3> DEFINE b == [at |-> pfNow, mid |-> m, stale |-> FALSE]
    <3>1. pfBook' = [pfBook EXCEPT ![v] = b] /\ pfAgg' = pfAgg
          BY <2>2 DEF BookArrives
    <3>2. BookShape(b, pfNow) /\ Within(b, pfNow, VenueStaleness)
          BY PriceAssumption DEF PriceInv, BookShape, Within
    <3> HIDE DEF b
    <3> QED BY <1>1, <3>1, <3>2, BookReplaced DEF PriceInv
  <2>3. ASSUME NEW a \in Aggregator, NEW m \in MidPrice, PriceArrives(a, m) PROVE BooksOK'
    <3> DEFINE b == [at |-> pfNow, mid |-> m, stale |-> FALSE]
    <3>1. pfAgg' = [pfAgg EXCEPT ![a] = b] /\ pfBook' = pfBook
          BY <2>3 DEF PriceArrives
    <3>2. BookShape(b, pfNow)
          BY DEF PriceInv, BookShape
    <3> HIDE DEF b
    <3>3. DOMAIN pfAgg' = Aggregator
          BY <3>1 DEF PriceInv, BooksOK
    <3>4. \A x \in Aggregator : BookShape(pfAgg'[x], pfNow)
          BY <3>1, <3>2 DEF PriceInv, BooksOK
    <3> QED BY <1>1, <3>1, <3>3, <3>4 DEF PriceInv, BooksOK
  <2> QED BY <2>1, <2>2, <2>3
<1> QED BY <1>1, <1>3, <1>4, <1>5 DEF PriceInv

\* A computation sees the caches of one second.
LEMMA ComputationKeepsInv ==
  ASSUME PriceInv, NEW k \in Computing, Computes(k),
         UNCHANGED <<pfNow, pfBook, pfAgg, pfSnap, pfCopies>>,
         \/ k = "arrival" /\ pfDone' = pfDone
         \/ k = "worker" /\ pfDone' = pfDone \cup {"vwmp"}
  PROVE  PriceInv'
<1>1. PICK weighed \in SUBSET BookSamples :
        pfTask' = [pfTask EXCEPT ![k] =
          [pc |-> "insert", snap |-> IF weighed \cup AggSamples = {} THEN NoPrice
                                     ELSE SnapshotOf(weighed \cup AggSamples)]]
      BY Zenon DEF Computes
<1> DEFINE snap == IF weighed \cup AggSamples = {} THEN NoPrice
                   ELSE SnapshotOf(weighed \cup AggSamples)
<1>2. SnapOfNow(snap)
      BY ComputedRecent DEF SnapOfNow
<1> HIDE DEF snap
<1>3. \A i \in Computing : TaskOK(i)'
      BY <1>1, <1>2 DEF PriceInv, TaskOK, SnapOfNow, Oldest, snap
<1>4. SinceRound' \in Nat /\ SinceRound' >= SinceRound
  <2>1. pfNow % VwmpTick \in Nat /\ pfNow % VwmpTick <= VwmpTick
        BY PriceAssumption DEF PriceInv
  <2>2. "vwmp" \in pfDone' /\ pfTask'["worker"].pc = "idle"
          => "vwmp" \in pfDone /\ pfTask["worker"].pc = "idle"
    <3>1. CASE k = "arrival" /\ pfDone' = pfDone
      <4>1. pfTask'["worker"] = pfTask["worker"]
            BY <1>1, <3>1 DEF PriceInv, Computing
      <4> QED BY <3>1, <4>1
    <3>2. CASE k = "worker"
      <4>1. pfTask'["worker"].pc = "insert"
            BY <1>1, <3>2 DEF PriceInv, Computing
      <4> QED BY <3>2, <4>1
    <3> QED BY <3>1, <3>2
  <2> QED BY <2>1, <2>2, PriceAssumption DEF SinceRound
<1>5. SnapOK'
      BY <1>4, OldestBounds, SinceRoundBounds DEF PriceInv, SnapOK, Oldest
<1>6. BooksOK'
      BY DEF PriceInv, BooksOK, Checked
<1> QED BY <1>1, <1>3, <1>5, <1>6 DEF PriceInv

\* What was computed this second becomes the price.
LEMMA InsertsKeepsInv ==
  ASSUME PriceInv, NEW k \in Computing, InsertsSnapshot(k)
  PROVE  PriceInv'
<1>1. SnapOfNow(pfSnap')
      BY DEF PriceInv, TaskOK, InsertsSnapshot, SnapOfNow
<1>2. SnapOK'
  <2>1. pfNow' \in Nat /\ UNCHANGED pfNow
        BY DEF PriceInv, InsertsSnapshot
  <2>2. SinceRound' \in Nat
        BY <2>1, PriceAssumption DEF SinceRound
  <2> QED BY <1>1, <2>1, <2>2, OldestBounds DEF SnapOK, SnapOfNow, Oldest
<1>3. BooksOK'
      BY DEF PriceInv, BooksOK, InsertsSnapshot
<1>4. \A i \in Computing : TaskOK(i)'
      BY DEF PriceInv, TaskOK, SnapOfNow, Oldest, InsertsSnapshot, IdleTask
<1> QED BY <1>2, <1>3, <1>4 DEF PriceInv, InsertsSnapshot

\* The two halves of a round of the staleness worker, in one second.
LEMMA StalenessKeepsInv ==
  ASSUME PriceInv, CopiesBooks \/ WritesBooks
  PROVE  PriceInv'
<1>1. UNCHANGED <<pfNow, pfAgg, pfSnap, pfTask>> /\ ("vwmp" \in pfDone' <=> "vwmp" \in pfDone)
      BY DEF CopiesBooks, WritesBooks
<1>2. SnapOK' /\ (\A k \in Computing : TaskOK(k)')
      BY <1>1 DEF PriceInv, SnapOK, SinceRound, Oldest, TaskOK, SnapOfNow
<1>4. pfNow \in Nat /\ BooksOK /\ VenueStaleness \in Nat
      BY PriceAssumption DEF PriceInv
<1>3. BooksOK'
  <2>1. CASE CopiesBooks
    <3> DEFINE changed == {v \in Venue : pfBook[v].at > 0
                                         /\ pfBook[v].stale # StaleNow(pfBook[v])}
               copy(v) == [pfBook[v] EXCEPT !.stale = ~@]
    <3>1. /\ pfCopies' = {<<v, copy(v)>> : v \in changed} /\ UNCHANGED pfBook
          /\ pfDone' = IF changed = {} THEN pfDone \cup {"staleness"} ELSE pfDone
          /\ "staleness" \notin pfDone /\ pfCopies = {}
          BY <2>1, Zenon DEF CopiesBooks
    <3>2. ASSUME NEW v \in changed
          PROVE  BookShape(copy(v), pfNow) /\ Within(copy(v), pfNow, VenueStaleness)
      <4>1. BookShape(pfBook[v], pfNow)
            BY <1>4 DEF BooksOK
      <4> DEFINE m == ~pfBook[v].stale
      <4>2. m \in BOOLEAN /\ copy(v) = [pfBook[v] EXCEPT !.stale = m]
            OBVIOUS
      <4>3. BookShape(copy(v), pfNow) /\ copy(v).at = pfBook[v].at /\ copy(v).stale = m
        <5> HIDE DEF m
        <5> QED BY <4>1, <4>2, MarkedShape
      <4>4. m => StaleNow(pfBook[v])
            BY <4>1 DEF BookShape, StaleNow
      <4>5. ~m => ~StaleNow(pfBook[v])
            BY <4>1 DEF BookShape, StaleNow
      <4> HIDE DEF m, copy
      <4> QED BY <1>4, <4>1, <4>2, <4>3, <4>5 DEF Within, Booked, StaleNow, BookShape
    <3>3. ASSUME NEW v \in Venue \ changed PROVE Within(pfBook[v], pfNow, VenueStaleness)
          BY <1>4, <3>3 DEF Within, Booked, StaleNow, BooksOK, BookShape
    <3> HIDE DEF changed, copy
    <3>6. changed \subseteq Venue
          BY DEF changed
    <3>7. ASSUME NEW x \in pfCopies'
          PROVE  /\ x[1] \in Venue /\ BookShape(x[2], pfNow)
                 /\ Within(x[2], pfNow, VenueStaleness)
      <4>1. PICK v \in changed : x = <<v, copy(v)>>
            BY <3>1
      <4>2. x[1] = v /\ x[2] = copy(v)
            BY <4>1
      <4> QED BY <3>2, <3>6, <4>2
    <3>8. pfCopies' # {} => "staleness" \notin pfDone'
          BY <3>1
    <3>9. ASSUME NEW v \in Venue, Checked(v, pfDone', pfCopies')
          PROVE  Within(pfBook[v], pfNow, VenueStaleness)
      <4>1. v \notin changed
        <5> SUFFICES ASSUME v \in changed PROVE FALSE
            OBVIOUS
        <5>1. <<v, copy(v)>> \in pfCopies' /\ <<v, copy(v)>>[1] = v
              BY <3>1
        <5>2. "staleness" \notin pfDone'
              BY <3>1
        <5> QED BY <3>9, <5>1, <5>2 DEF Checked
      <4> QED BY <3>3, <4>1
    <3> QED BY <1>1, <1>4, <3>1, <3>7, <3>8, <3>9 DEF BooksOK
  <2>2. CASE WritesBooks
    <3> DEFINE mine(v) == {x \in pfCopies : x[1] = v}
    <3>1. /\ pfBook' = [v \in Venue |-> IF mine(v) = {} THEN pfBook[v]
                                       ELSE (CHOOSE x \in mine(v) : TRUE)[2]]
          /\ pfCopies # {} /\ pfCopies' = {}
          BY <2>2, Zenon DEF WritesBooks
    <3>2. ASSUME NEW v \in Venue
          PROVE  /\ BookShape(pfBook'[v], pfNow)
                 /\ Within(pfBook'[v], pfNow, VenueStaleness)
      <4>1. CASE mine(v) = {}
        <5>1. pfBook'[v] = pfBook[v]
              BY <3>1, <4>1
        <5>2. Checked(v, pfDone, pfCopies)
              BY <3>1, <4>1 DEF Checked
        <5> QED BY <1>4, <5>1, <5>2 DEF BooksOK
      <4>2. CASE mine(v) # {}
        <5>1. PICK x \in pfCopies : pfBook'[v] = x[2]
              BY <3>1, <4>2
        <5> QED BY <1>4, <5>1 DEF BooksOK
      <4> QED BY <4>1, <4>2
    <3>3. ASSUME NEW v \in Venue PROVE Within(pfBook'[v], pfNow, VenueStaleness + 1)
      <4> DEFINE b == pfBook'[v]
      <4>1. BookShape(b, pfNow) /\ Within(b, pfNow, VenueStaleness)
            BY <3>2
      <4> HIDE DEF b
      <4>2. Within(b, pfNow, VenueStaleness + 1)
            BY <1>4, <4>1 DEF Within, BookShape
      <4> QED BY <4>2 DEF b
    <3> HIDE DEF mine
    <3>4. DOMAIN pfBook' = Venue
          BY <3>1
    <3> QED BY <1>1, <1>4, <3>1, <3>2, <3>3, <3>4 DEF BooksOK
  <2> QED BY <2>1, <2>2
<1> QED BY <1>1, <1>2, <1>3, <1>4 DEF PriceInv

\* A second passes only after both rounds of the one before.
LEMMA SecondKeepsInv ==
  ASSUME PriceInv, SecondPasses
  PROVE  PriceInv'
<1>1. /\ pfNow' = pfNow + 1 /\ pfDone' = {} /\ pfDone = Due /\ pfNow \in Nat
      /\ \A k \in Computing : pfTask[k].pc = "idle"
      /\ UNCHANGED <<pfBook, pfAgg, pfSnap, pfTask, pfCopies>>
      BY DEF SecondPasses, PriceInv
<1>2. "staleness" \in pfDone /\ pfCopies = {}
      BY <1>1 DEF Due, PriceInv, BooksOK
<1>3. BooksOK'
  <2>1. BooksOK /\ VenueStaleness \in Nat
        BY PriceAssumption DEF PriceInv
  <2>2. ASSUME NEW b, BookShape(b, pfNow) PROVE BookShape(b, pfNow + 1)
        BY <1>1, <2>2 DEF BookShape
  <2>3. ASSUME NEW v \in Venue PROVE Within(pfBook[v], pfNow + 1, VenueStaleness + 1)
    <3>1. Within(pfBook[v], pfNow, VenueStaleness) /\ BookShape(pfBook[v], pfNow)
          BY <1>2, <2>1 DEF BooksOK, Checked
    <3> QED BY <1>1, <2>1, <3>1 DEF Within, BookShape
  <2>4. \A v \in Venue : ~Checked(v, pfDone', pfCopies')
        BY <1>1, <1>2 DEF Checked
  <2> QED BY <1>1, <1>2, <2>1, <2>2, <2>3, <2>4 DEF BooksOK
<1>4. SinceRound = pfNow % VwmpTick
      BY <1>1 DEF SinceRound, Due, Computing
<1>5. SinceRound \in Nat /\ SinceRound' \in Nat /\ SinceRound + 1 <= SinceRound'
  <2>1. SinceRound' = IF (pfNow + 1) % VwmpTick = 0 THEN VwmpTick
                      ELSE (pfNow + 1) % VwmpTick
        BY <1>1 DEF SinceRound
  <2>2. VwmpTick \in Nat \ {0}
        BY PriceAssumption
  <2>3. /\ pfNow % VwmpTick \in Nat
        /\ ((pfNow + 1) % VwmpTick = 0 => pfNow % VwmpTick = VwmpTick - 1)
        /\ ((pfNow + 1) % VwmpTick # 0
               => (pfNow + 1) % VwmpTick = (pfNow % VwmpTick) + 1)
        BY <1>1, <2>2, NextSecond
  <2> QED BY <1>4, <2>1, <2>2, <2>3
<1>6. SnapOK'
      BY <1>1, <1>5, OldestBounds DEF PriceInv, SnapOK, Oldest
<1> QED BY <1>1, <1>3, <1>6 DEF PriceInv, TaskOK, SnapOfNow

\* Every step keeps the invariant.
LEMMA PriceNextKeepsInv == PriceInv /\ [PriceNext]_priceVars => PriceInv'
<1> SUFFICES ASSUME PriceInv, [PriceNext]_priceVars PROVE PriceInv'
    OBVIOUS
<1>1. CASE UNCHANGED priceVars
      BY <1>1 DEF priceVars, PriceInv, BooksOK, SnapOK, SinceRound, Oldest,
                  TaskOK, SnapOfNow
<1>4. "arrival" \in Computing /\ "worker" \in Computing
      BY DEF Computing
<1>2. CASE ComputesForArrival
      BY <1>2, <1>4, ComputationKeepsInv DEF ComputesForArrival
<1>3. CASE VwmpWorkerTicks
      BY <1>3, <1>4, ComputationKeepsInv DEF VwmpWorkerTicks
<1> QED BY <1>1, <1>2, <1>3, SampleKeepsInv, InsertsKeepsInv, StalenessKeepsInv, SecondKeepsInv
        DEF PriceNext

\* For all thresholds, ticks and numbers of sources: the oldest sample in the price that
\* quotes are given at is bounded, whatever the marks, the copies of the staleness worker
\* and the computations under way overwrite.
THEOREM PriceRecentHolds == PriceSpec => []PriceRecent
<1>1. PriceSpec => []PriceInv
      BY PriceInitInv, PriceNextKeepsInv, PTL DEF PriceSpec
<1> QED BY <1>1, PriceFromInv, PTL

-----------------------------------------------------------------------------
(* Isolation groups of named assets hold for both ends of a route.         *)

ConfigOK(config) ==
  /\ config = [groups |-> config.groups, blacklist |-> config.blacklist,
               whitelist |-> config.whitelist, overrides |-> config.overrides,
               assets |-> config.assets]
  /\ config.groups \subseteq AssetPair

PolicyInv ==
  /\ ConfigOK(poServed)
  /\ \/ poPolicy = NoPolicy /\ poStrategies = {}
     \/ /\ poPolicy = Built(poServed)
        /\ poStrategies \in {{}, Strategies(Built(poServed))}

\* The invariant holds before a policy is loaded.
LEMMA PolicyInitInv == PolicyInit => PolicyInv
BY DEF PolicyInit, PolicyInv, ConfigOK, OpenConfig

\* Every step keeps the invariant: what is used was built from what is served.
LEMMA PolicyNextKeepsInv == PolicyInv /\ [PolicyNext]_policyVars => PolicyInv'
<1> SUFFICES ASSUME PolicyInv, [PolicyNext]_policyVars PROVE PolicyInv'
    OBVIOUS
<1> USE DEF PolicyInv
<1>1. NoPolicy.loaded = FALSE /\ Built(poServed).loaded = TRUE
      BY DEF NoPolicy, Built
<1>2. CASE GroupsServed \/ ListsServed \/ OverrideServed
  <2>1. poPolicy = NoPolicy /\ UNCHANGED <<poPolicy, poStrategies>> /\ poStrategies = {}
        BY <1>1, <1>2 DEF GroupsServed, ListsServed, OverrideServed
  <2>2. ConfigOK(poServed')
    <3>1. CASE GroupsServed
          BY <3>1 DEF GroupsServed, ConfigOK
    <3>2. CASE ListsServed
          BY <3>2 DEF ListsServed, ConfigOK
    <3>3. CASE OverrideServed
      <4>1. PICK list : poServed' = [poServed EXCEPT !.overrides = list]
            BY <3>3 DEF OverrideServed
      <4> QED BY <4>1 DEF ConfigOK
    <3> QED BY <1>2, <3>1, <3>2, <3>3
  <2> QED BY <2>1, <2>2 DEF ConfigOK
<1>3. CASE PolicyRefreshes
      BY <1>3 DEF PolicyRefreshes, ConfigOK
<1>4. CASE StrategiesBuilt
      BY <1>1, <1>4 DEF StrategiesBuilt, ConfigOK
<1>5. CASE UNCHANGED policyVars
      BY <1>5 DEF policyVars, ConfigOK
<1> QED BY <1>2, <1>3, <1>4, <1>5 DEF PolicyNext

\* Patterns that name an asset match that asset only.
LEMMA NamedMatch ==
  ASSUME NEW a \in AssetId, NEW b \in AssetId
  PROVE  AssetMatch(a, b) <=> a = b
BY PolicyAssumption DEF AssetId, AssetMatch, FieldMatch

\* A rule for the very asset decides, and it alone.
LEMMA NamedDecides ==
  ASSUME NEW rules, DOMAIN rules \subseteq AssetId, NEW a \in AssetId
  PROVE  Deciding(rules, a) = DOMAIN rules \cap {a}
BY NamedMatch DEF Deciding

\* A rule for the very asset admits what it lists.
LEMMA NamedAdmits ==
  ASSUME NEW rules, NEW p \in AssetId, rules[p] \subseteq AssetId, NEW other \in AssetId
  PROVE  RuleAdmits(rules, p, other) <=> other \in rules[p]
BY NamedMatch DEF RuleAdmits

\* Groups of named assets isolate a route at both of its ends.
LEMMA NamedGroupsTwoSided ==
  ASSUME NEW groups, groups \subseteq AssetPair,
         \A p \in groups : p.source \in AssetId /\ p.dest \in AssetId,
         NEW policy, policy.outgoing = Outgoing(groups), policy.incoming = Incoming(groups),
         NEW s \in AssetId, NEW d \in AssetId, NotIsolated(policy, s, d)
  PROVE  \/ \E p \in Directed(groups) : p.source = s /\ p.dest = d
         \/ /\ s \notin {p.source : p \in Directed(groups)}
            /\ d \notin {p.dest : p \in Directed(groups)}
<1> DEFINE all == Directed(groups) out == policy.outgoing into == policy.incoming
<1>1. \A p \in all : p.source \in AssetId /\ p.dest \in AssetId
      BY DEF Directed, TurnedPair, AssetPair
<1>2. /\ DOMAIN out = {p.source : p \in all} /\ DOMAIN into = {p.dest : p \in all}
      /\ \A a \in DOMAIN out : out[a] = {p.dest : p \in {q \in all : q.source = a}}
      /\ \A a \in DOMAIN into : into[a] = {p.source : p \in {q \in all : q.dest = a}}
      BY DEF Outgoing, Incoming
<1> HIDE DEF all, out, into
<1>3. DOMAIN out \subseteq AssetId /\ DOMAIN into \subseteq AssetId
      BY <1>1, <1>2
<1>4. Deciding(out, s) = DOMAIN out \cap {s} /\ Deciding(into, d) = DOMAIN into \cap {d}
      BY <1>3, NamedDecides
<1>5. CASE s \in DOMAIN out
  <2>1. RuleAdmits(out, s, d)
        BY <1>4, <1>5 DEF NotIsolated, out
  <2>2. out[s] \subseteq AssetId
        BY <1>1, <1>2, <1>5
  <2>3. d \in out[s]
        BY <2>1, <2>2, NamedAdmits
  <2> QED BY <1>2, <1>5, <2>3 DEF all
<1>6. CASE s \notin DOMAIN out /\ d \in DOMAIN into
  <2>1. RuleAdmits(into, d, s)
        BY <1>4, <1>6 DEF NotIsolated, out, into
  <2>2. into[d] \subseteq AssetId
        BY <1>1, <1>2, <1>6
  <2>3. s \in into[d]
        BY <2>1, <2>2, NamedAdmits
  <2> QED BY <1>2, <1>6, <2>3 DEF all
<1>7. CASE s \notin DOMAIN out /\ d \notin DOMAIN into
      BY <1>2, <1>7 DEF all
<1> QED BY <1>5, <1>6, <1>7

\* The invariant contains the property.
LEMMA GroupsFromInv == PolicyInv => ExactGroupsTwoSided
<1> SUFFICES ASSUME PolicyInv, NEW t \in poStrategies,
                    \A p \in poServed.groups : p.source \in AssetId /\ p.dest \in AssetId
             PROVE  \/ \E p \in Directed(poServed.groups) : p.source = t.source /\ p.dest = t.dest
                    \/ /\ t.source \notin {p.source : p \in Directed(poServed.groups)}
                       /\ t.dest \notin {p.dest : p \in Directed(poServed.groups)}
    BY DEF ExactGroupsTwoSided
<1> DEFINE policy == Built(poServed)
<1>1. t \in Strategies(policy) /\ poServed.groups \subseteq AssetPair
      BY DEF PolicyInv, ConfigOK
<1>2. policy.outgoing = Outgoing(poServed.groups) /\ policy.incoming = Incoming(poServed.groups)
      BY DEF Built
<1> HIDE DEF policy
<1>3. PICK r \in Routes(policy) : t.source = r.source /\ t.dest = r.dest
      BY <1>1 DEF Strategies
<1>4. r.source \in AssetId /\ r.dest \in AssetId /\ NotIsolated(policy, r.source, r.dest)
      BY DEF Routes, ValidPair
<1> QED BY <1>1, <1>2, <1>3, <1>4, NamedGroupsTwoSided

\* For any assets, groups and refreshes of the policy: with groups that name their assets,
\* a route the service offers respects the groups of both its ends (is_not_isolated).
THEOREM ExactGroupsTwoSidedHolds == PolicySpec => []ExactGroupsTwoSided
<1>1. PolicySpec => []PolicyInv
      BY PolicyInitInv, PolicyNextKeepsInv, PTL DEF PolicySpec
<1> QED BY <1>1, GroupsFromInv, PTL
=============================================================================
