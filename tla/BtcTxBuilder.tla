---------------------------- MODULE BtcTxBuilder ----------------------------
(***************************************************************************)
(* The transaction builder of btc-executor: for a set of wallet requests it   *)
(* looks for wallet outputs and a change amount such that the fee left over    *)
(* is the one the transaction's size asks for. A round of the loop is a step.  *)
(*                                                                         *)
(* Signatures have a fixed length, so a size is a sum over inputs and outputs,   *)
(* and no step from one candidate to the next is as small as the tolerance.     *)
(* The wallet's outputs do not change during a build: every round asks Electrs  *)
(* again, and the wallet leaves out what other batches hold. The order of the    *)
(* inputs is left out: neither a size nor a fee depends on it.                   *)
(***************************************************************************)
EXTENDS Integers, FiniteSets, FiniteSetsExt, Functions

CONSTANTS
  Coin,           \* outputs of the wallet, numbered
  CoinValues,     \* what they may be worth
  SpendValues,    \* values of the HTLCs a batch spends, 0 for none
  SendValues,     \* what a batch pays out: sends and paired outputs, 0 for none
  BaseSize, InputSize, OutputSize,   \* virtual bytes
  RateUnit,       \* fee rates are integers in 1/RateUnit
  FeeRates,
  PreviousFees,   \* fee of the replaced transaction and its descendants
  DustLimit, MinChange,              \* DUST_LIMIT, min_change_value
  MaxIterations, SizeTolerance

ASSUME BuilderAssumption ==
  /\ Coin \subseteq Nat \ {0} /\ IsFiniteSet(Coin)
  /\ CoinValues \subseteq Nat \ {0} /\ RateUnit \in Nat \ {0}
  /\ SpendValues \subseteq Nat /\ SendValues \subseteq Nat
  /\ FeeRates \subseteq Nat /\ PreviousFees \subseteq Nat
  /\ {BaseSize, InputSize, OutputSize, DustLimit, MinChange, SizeTolerance} \subseteq Nat
  /\ InputSize - OutputSize > SizeTolerance /\ OutputSize > SizeTolerance
  /\ MaxIterations \in Nat \ {0}

VARIABLES
  tbJob,       \* the batch, the rates and the wallet's outputs
  tbSelected,  \* cover.selected()
  tbChange,
  tbBest,      \* best_overpay
  tbSize,      \* last_size
  tbRound,
  tbResult     \* the receipt, or why there is none

builderVars == <<tbJob, tbSelected, tbChange, tbBest, tbSize, tbRound, tbResult>>

NoJob == [rate |-> 0]
NoTx == [fee |-> 0]
Unbuilt == [outcome |-> "none"]
NoPrevious == -1
NoLineage == 0

BuilderInit ==
  /\ tbJob = NoJob /\ tbSelected = {} /\ tbChange = 0 /\ tbBest = NoTx /\ tbSize = 0
  /\ tbRound = 0 /\ tbResult = Unbuilt

(***************************************************************************)
(* Fees                                                                    *)
(***************************************************************************)
Scaled(rate, size) == (rate * size + RateUnit - 1) \div RateUnit

\* What the outputs of a job leave, before the wallet's outputs
Balance(job) == job.spends - job.sends

ValueOf(job, coins) == SumFunctionOnSet(job.value, coins)

\* build: the change output is there only above dust.
TxOf(job, selected, change) ==
  LET kept == IF change > DustLimit THEN change ELSE 0
      size == BaseSize + InputSize * Cardinality(selected) + (IF kept > 0 THEN OutputSize ELSE 0)
  IN  [coins |-> selected, change |-> kept, size |-> size,
       fee |-> Balance(job) + ValueOf(job, selected) - kept]

\* A replacement at a higher rate only
TargetOfRate(job, tx) ==
  Scaled(IF job.previous = NoPrevious THEN job.rate ELSE Max({job.rate, job.previousRate + 1}),
         tx.size + 1)

\* target, with one virtual byte to spare. A replacement pays a higher rate and a
\* higher fee than what it replaces.
Target(job, tx) ==
  LET v == tx.size + 1
      market == Scaled(job.rate, v)
  IN  IF job.previous = NoPrevious THEN market
      ELSE Max({Scaled(job.previousRate + 1, v), job.previous + v, market})

(***************************************************************************)
(* The cover                                                               *)
(***************************************************************************)
Cover(job) == job.carried \cup ({job.lineage} \ {NoLineage})

\* Electrs does not list what the replaced transaction spends; other batches' outputs
\* are ignored.
Available == Coin \ (tbJob.hidden \cup tbSelected)

Before(a, b) == \/ tbJob.value[a] > tbJob.value[b]
                \/ tbJob.value[a] = tbJob.value[b] /\ a < b

\* The greatest first, until they are worth what is needed: the outputs without which
\* no choice of that kind is worth enough
Greedy(coins, needed) ==
  LET enough == {chosen \in SUBSET coins :
                   /\ \A b \in chosen, a \in coins : Before(a, b) => a \in chosen
                   /\ ValueOf(tbJob, chosen) >= needed}
  IN  IF enough = {} THEN {} ELSE {c \in coins : \A chosen \in enough : c \in chosen}

(***************************************************************************)
(* build_tx_inner_with_options                                             *)
(***************************************************************************)
\* A batch: fresh, chained to a confirmed change output, or replacing a transaction
\* whose wallet inputs it carries on.
Requested ==
  /\ tbJob = NoJob
  /\ \E value \in [Coin -> CoinValues], spends \in SpendValues, sends \in SendValues,
        rate \in FeeRates, hidden \in SUBSET Coin, previous \in PreviousFees \cup {NoPrevious} :
       \E carried \in SUBSET hidden, lineage \in {NoLineage} \cup hidden,
          previousRate \in FeeRates :
         /\ previous = NoPrevious => carried = {} /\ previousRate = rate
         /\ tbJob' = [value |-> value, spends |-> spends, sends |-> sends, rate |-> rate,
                      hidden |-> hidden, carried |-> carried, lineage |-> lineage,
                      previous |-> previous, previousRate |-> previousRate]
  /\ LET job == tbJob'
         valid == /\ job.spends > 0 \/ job.sends > 0
                  /\ job.sends > 0 => job.sends >= DustLimit
                  /\ job.lineage \notin job.carried
     IN  IF valid
         THEN tbSelected' = Cover(job) /\ UNCHANGED tbResult
         ELSE tbResult' = [outcome |-> "invalid"] /\ UNCHANGED tbSelected
  /\ tbChange' = MinChange
  /\ UNCHANGED <<tbBest, tbSize, tbRound>>

Candidate == TxOf(tbJob, tbSelected, tbChange)
Delta == Candidate.fee - Target(tbJob, Candidate)

\* best_overpay once this round's candidate has been looked at
BestNow ==
  IF Delta > 0 /\ (tbBest = NoTx \/ Delta < tbBest.fee - Target(tbJob, tbBest))
  THEN Candidate ELSE tbBest

\* The receipt names the outputs that are selected by now.
Receipt(tx) == [outcome |-> "built", tx |-> tx, covers |-> tbSelected]

FallsBack(otherwise) ==
  tbResult' = IF BestNow = NoTx THEN [outcome |-> otherwise] ELSE Receipt(BestNow)

\* plan_fee_actions: the change goes down to its floor at most, what is missing then
\* comes from more outputs.
Change ==
  IF Delta > 0 THEN tbChange + Delta
  ELSE tbChange - Min({-Delta, tbChange - Min({tbChange, MinChange})})

Needed ==
  IF Delta < 0 THEN -Delta - (tbChange - Change) ELSE Max({0, MinChange - Change})

Building == tbJob # NoJob /\ tbResult = Unbuilt /\ tbRound < MaxIterations

Grew == tbSize > 0 /\ Candidate.size - tbSize \in 1 .. SizeTolerance

Converged ==
  /\ Building
  /\ Grew \/ (Delta = 0 /\ Needed = 0)
  /\ tbResult' = IF Candidate.fee < 0 THEN [outcome |-> "client"] ELSE Receipt(Candidate)
  /\ UNCHANGED <<tbJob, tbSelected, tbChange, tbBest, tbSize, tbRound>>

NextRound ==
  /\ tbBest' = BestNow /\ tbSize' = Candidate.size /\ tbChange' = Change
  /\ tbRound' = tbRound + 1
  /\ UNCHANGED tbJob

Adjusts ==
  /\ Building /\ ~Grew /\ Delta # 0 /\ Needed = 0
  /\ NextRound /\ UNCHANGED <<tbSelected, tbResult>>

AddsCover ==
  /\ Building /\ ~Grew /\ Needed > 0
  /\ LET extra == Greedy(Available, Needed)
     IN  IF extra = {}
         THEN /\ FallsBack("insufficient")
              /\ UNCHANGED <<tbJob, tbSelected, tbChange, tbBest, tbSize, tbRound>>
         ELSE NextRound /\ tbSelected' = tbSelected \cup extra /\ UNCHANGED tbResult

RunsOut ==
  /\ tbJob # NoJob /\ tbResult = Unbuilt /\ tbRound = MaxIterations
  /\ tbResult' = IF tbBest = NoTx THEN [outcome |-> "exceeded"] ELSE Receipt(tbBest)
  /\ UNCHANGED <<tbJob, tbSelected, tbChange, tbBest, tbSize, tbRound>>

BuilderNext == Requested \/ Converged \/ Adjusts \/ AddsCover \/ RunsOut

BuilderSpec == BuilderInit /\ [][BuilderNext]_builderVars

(***************************************************************************)
(* Properties                                                              *)
(***************************************************************************)
IsBuilt == tbResult.outcome = "built"
Overpaid == tbResult.tx.fee - Target(tbJob, tbResult.tx)

\* A transaction that is handed out pays what its size asks for, and a replacement pays
\* for its size on top of all it replaces, or the network would not take it.
FeeEnough ==
  IsBuilt =>
    /\ Overpaid >= 0
    /\ tbJob.previous # NoPrevious => tbResult.tx.fee >= tbJob.previous + tbResult.tx.size

\* It pays more than that only by what would not have made a change output above dust:
\* candidates that swing around the dust limit, rounds that run out and funds that run
\* out end in the cheapest of those that pay enough (build_with_fee_floor, fallback_best).
FeeJustRight ==
  /\ FeeEnough
  /\ IsBuilt =>
       LET withChange == [tbResult.tx EXCEPT !.size = @ + OutputSize]
       IN  Overpaid <= DustLimit + Target(tbJob, withChange) - Target(tbJob, tbResult.tx)
=============================================================================
