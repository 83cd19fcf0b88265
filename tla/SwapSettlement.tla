--------------------------- MODULE SwapSettlement ---------------------------
(***************************************************************************)
(* One matched order settled end to end, Bitcoin source to Initia          *)
(* destination (README.md, "Example Trade: Bitcoin -> Initia"): the two    *)
(* chains, the order's row in the orderbook database, the solver-orders    *)
(* cache, btc-watcher and initia-watcher writing the row, initia-executor  *)
(* (initiator, refunder and the /secret endpoint) and btc-executor acting  *)
(* on it, and the customer's browser revealing the secret.                 *)
(*                                                                         *)
(* Every process reads a row that may be old and writes it later, so each  *)
(* read and each write that the code separates by an await is an action    *)
(* of its own.                                                             *)
(*                                                                         *)
(* Simplifications:                                                        *)
(*  - one order: orders share no state but the solver's balances;          *)
(*  - amounts: the deposit is one output of the order's amount, so         *)
(*    handle_inits makes the row fully filled with the first event and     *)
(*    "filled" is the same as "initiated"; the partial-fill branch of      *)
(*    can_instant_refund is therefore never taken here;                    *)
(*  - a block number is kept as "no", "mempool" (hash set, block 0) or     *)
(*    "block" for the source, and heights are counted from the deposit's   *)
(*    and the lock's own block (depositAge, lockAge): the row's number is  *)
(*    always the receipt's or the log's, so latest >= init + timelock is   *)
(*    age >= timelock;                                                     *)
(*  - the redeem hash and the secret are written by the same statement     *)
(*    (update_swap_redeem), hence one field;                               *)
(*  - the wallet behind btc-executor is reduced to the set of requests it  *)
(*    has accepted, and keeps. A request btc-executor repeats (its cache    *)
(*    holds what it submitted for an hour, and not across a restart) is    *)
(*    one the wallet knows already, so it is not submitted again here.     *)
(***************************************************************************)
EXTENDS Naturals, FiniteSets

CONSTANTS
  SrcTimelock,    \* blocks before the customer may refund the deposit
  DstTimelock,    \* blocks before the solver may refund the destination
  HasSacp,        \* the order carries instant_refund_tx_bytes
  Surprises,      \* what else may happen: "eviction" of unconfirmed Bitcoin
                  \* transactions, "screening" hits, "refund" by the customer
  MaxInFlight,    \* bound: btc-watcher events between observation and write
  MaxFaults       \* bound: process crashes and failed database writes

ASSUME TimelockAssumption == SrcTimelock \in Nat /\ DstTimelock \in Nat
ASSUME SwitchAssumption ==
  HasSacp \in BOOLEAN /\ Surprises \subseteq {"eviction", "screening", "refund"}
ASSUME BoundAssumption == MaxInFlight \in Nat /\ MaxFaults \in Nat

VARIABLES
  deposit,     \* the customer's payment into the source HTLC
  depositAge,  \* Bitcoin blocks since the deposit was mined
  spend,       \* the transaction spending the source HTLC: its branch, mined or not
  lock,        \* the destination HTLC on Initia
  lockAge,     \* Initia blocks since the lock
  tx,          \* each initia-executor task's transaction on Initia
  row,         \* the order's row in the orderbook database
  cached,      \* the orders solver-orders serves: {} or one copy of the row
  svc,         \* where each initia-executor task stands
  logs,        \* how many HTLC logs initia-watcher has handled
  btcEvents,   \* swap events btc-watcher has parsed and not yet stored
  btcExec,     \* the action btc-executor is about to execute
  requests,    \* requests the Bitcoin wallet has accepted
  overdue,     \* created_at plus btc-watcher's deadline buffer has passed, and
               \* the row has no deposit
  faults       \* faults so far

chainVars == <<deposit, depositAge, spend, lock, lockAge>>
iniVars   == <<tx, svc, logs>>
btcVars   == <<btcExec, requests, overdue>>
vars == <<chainVars, iniVars, btcVars, row, cached, btcEvents, faults>>

Task == {"initiator", "refunder", "secret"}
Seen == {"no", "mempool", "block"}
Branch == {"redeem", "refund", "instant"}

SrcRow == [init : Seen, redeem : Seen, refund : Seen]
DstRow == [init : BOOLEAN, redeem : BOOLEAN, refund : BOOLEAN]
Row == [src : SrcRow, dst : DstRow, blacklisted : BOOLEAN]
SwapEvent == {"init", "redeem", "refund"} \X {"mempool", "block"}

Init ==
  /\ deposit = "no" /\ depositAge = 0
  /\ spend = [branch |-> "no", mined |-> FALSE]
  /\ lock = "none" /\ lockAge = 0
  /\ tx = [t \in Task |-> "none"]
  /\ row = [src |-> [init |-> "no", redeem |-> "no", refund |-> "no"],
            dst |-> [init |-> FALSE, redeem |-> FALSE, refund |-> FALSE],
            blacklisted |-> FALSE]
  /\ cached = {}
  /\ svc = [t \in Task |-> "idle"]
  /\ logs = 0 /\ btcEvents = {}
  /\ btcExec = "idle" /\ requests = {} /\ overdue = FALSE
  /\ faults = 0

-----------------------------------------------------------------------------
(* The chains and the customer.                                            *)

Closed == {"redeemed", "refunded"}

Spendable ==
  /\ deposit \in {"mempool", "block"}
  /\ \/ spend.branch = "no"
     \/ "eviction" \in Surprises /\ ~spend.mined

UserDeposits ==
  /\ deposit = "no"
  /\ deposit' = "mempool"
  /\ UNCHANGED <<depositAge, spend, lock, lockAge, iniVars, btcVars, row,
                 cached, btcEvents, faults>>

DepositMined ==
  /\ deposit = "mempool"
  /\ deposit' = "block"
  /\ UNCHANGED <<depositAge, spend, lock, lockAge, iniVars, btcVars, row,
                 cached, btcEvents, faults>>

\* The unconfirmed deposit is replaced; a child spending it goes with it.
DepositEvicted ==
  /\ "eviction" \in Surprises
  /\ deposit = "mempool"
  /\ deposit' = "evicted"
  /\ spend' = [branch |-> "no", mined |-> FALSE]
  /\ UNCHANGED <<depositAge, lock, lockAge, iniVars, btcVars, row, cached,
                 btcEvents, faults>>

BtcBlock ==
  /\ deposit = "block"
  /\ depositAge < SrcTimelock
  /\ depositAge' = depositAge + 1
  /\ UNCHANGED <<deposit, spend, lock, lockAge, iniVars, btcVars, row, cached,
                 btcEvents, faults>>

UserRefunds ==
  /\ "refund" \in Surprises
  /\ deposit = "block"
  /\ depositAge >= SrcTimelock
  /\ Spendable /\ spend.branch # "refund"
  /\ spend' = [branch |-> "refund", mined |-> FALSE]
  /\ UNCHANGED <<deposit, depositAge, lock, lockAge, iniVars, btcVars, row,
                 cached, btcEvents, faults>>

SpendMined ==
  /\ deposit = "block"
  /\ spend.branch # "no" /\ ~spend.mined
  /\ spend' = [spend EXCEPT !.mined = TRUE]
  /\ UNCHANGED <<deposit, depositAge, lock, lockAge, iniVars, btcVars, row,
                 cached, btcEvents, faults>>

SpendEvicted ==
  /\ "eviction" \in Surprises
  /\ spend.branch # "no" /\ ~spend.mined
  /\ spend' = [branch |-> "no", mined |-> FALSE]
  /\ UNCHANGED <<deposit, depositAge, lock, lockAge, iniVars, btcVars, row,
                 cached, btcEvents, faults>>

IniBlock ==
  /\ lock # "none"
  /\ lockAge < DstTimelock
  /\ lockAge' = lockAge + 1
  /\ UNCHANGED <<deposit, depositAge, spend, lock, iniVars, btcVars, row,
                 cached, btcEvents, faults>>

-----------------------------------------------------------------------------
(* btc-watcher: mempool transactions, blocks and the address poller all    *)
(* parse what the chain shows into events and store them afterwards, so an *)
(* event may be written when the chain has moved on.                       *)

ChainEvents ==
  {<<"init", s>> : s \in {deposit} \cap {"mempool", "block"}}
    \cup {<<IF spend.branch = "redeem" THEN "redeem" ELSE "refund",
            IF spend.mined THEN "block" ELSE "mempool">> :
            b \in {spend.branch} \ {"no"}}

\* Time passes.
BufferPasses ==
  /\ ~overdue /\ row.src.init = "no"
  /\ overdue' = TRUE
  /\ UNCHANGED <<chainVars, iniVars, btcExec, requests, row, cached, btcEvents,
                 faults>>

\* get_swaps: the swaps the watcher still looks at
Watched(r) ==
  \/ r.src.init = "no" /\ ~overdue
  \/ r.src.init # "no" /\ r.src.redeem # "block" /\ r.src.refund # "block"

BtcWatcherObserves(e) ==
  /\ e \in ChainEvents
  /\ Watched(row)
  /\ Cardinality(btcEvents) < MaxInFlight
  /\ btcEvents' = btcEvents \cup {e}
  /\ UNCHANGED <<chainVars, iniVars, btcVars, row, cached, faults>>

BtcWatcherStores(e) ==
  /\ e \in btcEvents
  /\ btcEvents' = btcEvents \ {e}
  /\ row' = [row EXCEPT !.src[e[1]] = e[2]]
  /\ overdue' = (overdue /\ row'.src.init = "no")
  /\ UNCHANGED <<chainVars, iniVars, btcExec, requests, cached, faults>>

\* The screener flags an input of the deposit: no initiate event, a mark.
BtcWatcherBlacklists ==
  /\ "screening" \in Surprises
  /\ deposit \in {"mempool", "block"}
  /\ Watched(row) /\ ~row.blacklisted
  /\ row' = [row EXCEPT !.blacklisted = TRUE]
  /\ UNCHANGED <<chainVars, iniVars, btcVars, cached, btcEvents, faults>>

\* Mutant: swaps whose deposit is spent already are left out.
BackfillOpenOnly ==
  /\ row.src.init = "mempool" /\ row.src.redeem = "no"
  /\ deposit = "block"
  /\ row' = [row EXCEPT !.src.init = "block"]
  /\ UNCHANGED <<chainVars, iniVars, btcVars, cached, btcEvents, faults>>

BackfillInitiate ==
  /\ row.src.init = "mempool"
  /\ deposit = "block"
  /\ row' = [row EXCEPT !.src.init = "block"]
  /\ UNCHANGED <<chainVars, iniVars, btcVars, cached, btcEvents, faults>>

-----------------------------------------------------------------------------
(* solver-orders: the pending orders, copied from the database.            *)

\* Mutants: the query forgets the orders to refund, or those to redeem.
PendingWithoutRefunds(r) ==
  \/ r.src.init # "no" /\ r.src.refund = "no" /\ ~r.dst.init
  \/ r.dst.redeem /\ r.src.redeem = "no" /\ r.src.refund = "no"
  \/ r.src.refund = "no" /\ r.src.redeem = "no" /\ r.dst.refund

PendingWithoutRedeems(r) ==
  \/ r.src.init # "no" /\ r.src.refund = "no" /\ ~r.dst.init
  \/ r.dst.init /\ ~r.dst.refund /\ ~r.dst.redeem
  \/ r.src.refund = "no" /\ r.src.redeem = "no" /\ r.dst.refund

\* get_solver_pending_orders
Pending(r) ==
  \/ r.src.init # "no" /\ r.src.refund = "no" /\ ~r.dst.init
  \/ r.dst.redeem /\ r.src.redeem = "no" /\ r.src.refund = "no"
  \/ r.dst.init /\ ~r.dst.refund /\ ~r.dst.redeem
  \/ r.src.refund = "no" /\ r.src.redeem = "no" /\ r.dst.refund

SyncCache ==
  /\ cached' = {r \in {row} : Pending(r)}
  /\ UNCHANGED <<chainVars, iniVars, btcVars, row, btcEvents, faults>>

-----------------------------------------------------------------------------
(* The order mapper, shared by the executors. wanted is the verdict        *)
(* of the deadline and of check_price_threshold when the order is mapped:  *)
(* prices move both ways, so it is a fresh choice every time.              *)

SwapCompleted(s) == s.refund \/ s.redeem

CanInstantRefund(r, wanted) ==
  /\ r.src.init = "block" /\ r.src.refund = "no"
  /\ r.dst.init => SwapCompleted(r.dst)
  /\ ~r.dst.redeem
  /\ r.dst.refund \/ ~wanted

CanInitiate(r, wanted) ==
  /\ ~r.blacklisted
  /\ r.src.init # "no"
  /\ ~r.dst.init
  /\ ~CanInstantRefund(r, wanted)

CanRefund(r) ==
  /\ ~SwapCompleted(r.dst)
  /\ r.dst.init
  /\ lockAge >= DstTimelock

\* Mutant: redeems as soon as the destination is locked.
CanRedeemLocked(r) ==
  /\ r.src.refund = "no" /\ r.src.redeem = "no"
  /\ r.src.init = "block"
  /\ r.dst.init

CanRedeem(r) ==
  /\ r.src.refund = "no" /\ r.src.redeem = "no"
  /\ r.src.init = "block"
  /\ r.dst.redeem

\* Mutant: the fallback does not ask for the secret.
ForceWithoutSecret(r) ==
  /\ r.src.refund = "no" /\ r.src.redeem = "no"
  /\ r.src.init # "no"

\* btc-executor's fallback when the mapper answers NoOp
ForceSourceRedeem(r) ==
  /\ r.src.refund = "no" /\ r.src.redeem = "no"
  /\ r.src.init # "no"
  /\ r.dst.redeem

\* Mutant: the source side is offered a refund, as the destination side is.
SourceActionRefunds(r, wanted) ==
  IF CanRedeem(r) THEN "redeem"
  ELSE IF CanInstantRefund(r, wanted) THEN "refund"
  ELSE "idle"

SourceAction(r, wanted) ==
  IF CanRedeem(r) THEN "redeem"
  ELSE IF CanInstantRefund(r, wanted) THEN "instant"
  ELSE IF ForceSourceRedeem(r) THEN "redeem"
  ELSE "idle"

-----------------------------------------------------------------------------
(* initia-executor. A task polls the cache and maps the order, sends a     *)
(* transaction (gas estimation fails when the call would revert), waits    *)
(* for the receipt and writes the row. The receipt's status is not looked  *)
(* at. The initiator passes no block number to the mapper.                 *)

InitiatorPolls ==
  /\ svc["initiator"] = "idle"
  /\ \E r \in cached, wanted \in BOOLEAN : CanInitiate(r, wanted)
  /\ svc' = [svc EXCEPT !["initiator"] = "sending"]
  /\ UNCHANGED <<chainVars, tx, logs, btcVars, row, cached,
                 btcEvents, faults>>

RefunderPolls ==
  /\ svc["refunder"] = "idle"
  /\ \E r \in cached : CanRefund(r)
  /\ svc' = [svc EXCEPT !["refunder"] = "sending"]
  /\ UNCHANGED <<chainVars, tx, logs, btcVars, row, cached,
                 btcEvents, faults>>

\* The browser polls the order, finds it locked and POSTs the secret; the
\* next POST waits for the answer to this one.
BrowserReveals ==
  /\ svc["secret"] = "idle"
  /\ row.dst.init /\ ~SwapCompleted(row.dst)
  /\ row.src.refund = "no" /\ row.src.redeem = "no"
  /\ svc' = [svc EXCEPT !["secret"] = "posted"]
  /\ UNCHANGED <<chainVars, tx, logs, btcVars, row, cached, btcEvents,
                 faults>>

\* handle_secret up to the transaction: reads the destination swap's row
SecretChecked ==
  /\ svc["secret"] = "posted"
  /\ svc' = [svc EXCEPT !["secret"] =
               IF row.dst.init /\ ~SwapCompleted(row.dst) THEN "sending" ELSE "idle"]
  /\ UNCHANGED <<chainVars, tx, logs, btcVars, row, cached, btcEvents,
                 faults>>

\* Whether the contract accepts the task's call now, and what it leaves.
Accepted(t) ==
  CASE t = "initiator" -> lock = "none"
    [] t = "refunder"  -> lock = "locked" /\ lockAge >= DstTimelock
    [] t = "secret"    -> lock = "locked"

Outcome(t) ==
  CASE t = "initiator" -> "locked"
    [] t = "refunder"  -> "refunded"
    [] t = "secret"    -> "redeemed"

TaskSends(t) ==
  /\ svc[t] = "sending"
  /\ tx[t] # "pending"
  /\ IF Accepted(t)
     THEN svc' = [svc EXCEPT ![t] = "waiting"] /\ tx' = [tx EXCEPT ![t] = "pending"]
     ELSE svc' = [svc EXCEPT ![t] = "idle"] /\ UNCHANGED tx
  /\ UNCHANGED <<chainVars, logs, btcVars, row, cached, btcEvents, faults>>

TxExecuted(t) ==
  /\ tx[t] = "pending"
  /\ IF Accepted(t) THEN lock' = Outcome(t) ELSE UNCHANGED lock
  /\ tx' = [tx EXCEPT ![t] = IF svc[t] # "waiting" THEN "none"
                             ELSE IF Accepted(t) THEN "ok" ELSE "reverted"]
  /\ UNCHANGED <<deposit, depositAge, spend, lockAge, svc, logs,
                 btcVars, row, cached, btcEvents, faults>>

\* The row's field a task writes when it has its receipt.
FieldOf(t) ==
  CASE t = "initiator" -> "init"
    [] t = "refunder"  -> "refund"
    [] t = "secret"    -> "redeem"

\* Mutants: the row is written when the transaction is sent, or never.
SentRecorded(t) ==
  /\ svc[t] = "waiting"
  /\ row' = [row EXCEPT !.dst[FieldOf(t)] = TRUE]
  /\ svc' = [svc EXCEPT ![t] = "idle"]
  /\ UNCHANGED <<chainVars, tx, logs, btcVars, cached, btcEvents, faults>>

ReceiptDropped(t) ==
  /\ svc[t] = "waiting"
  /\ tx[t] \in {"ok", "reverted"}
  /\ svc' = [svc EXCEPT ![t] = "idle"]
  /\ tx' = [tx EXCEPT ![t] = "none"]
  /\ UNCHANGED <<chainVars, row, logs, btcVars, cached, btcEvents, faults>>

ReceiptRecorded(t) ==
  /\ svc[t] = "waiting"
  /\ tx[t] \in {"ok", "reverted"}
  /\ row' = [row EXCEPT !.dst[FieldOf(t)] = TRUE]
  /\ svc' = [svc EXCEPT ![t] = "idle"]
  /\ tx' = [tx EXCEPT ![t] = "none"]
  /\ UNCHANGED <<chainVars, logs, btcVars, cached, btcEvents,
                 faults>>

\* The process dies: what was sent stays sent, nobody waits for it.
InitiaExecutorCrashes ==
  /\ faults < MaxFaults
  /\ faults' = faults + 1
  /\ \E t \in Task : svc[t] # "idle"
  /\ svc' = [t \in Task |-> "idle"]
  /\ tx' = [t \in Task |-> IF tx[t] = "pending" THEN "pending" ELSE "none"]
  /\ UNCHANGED <<chainVars, logs, btcVars, row, cached, btcEvents>>

-----------------------------------------------------------------------------
(* initia-watcher: the HTLC's logs in order; a log whose write fails is    *)
(* reported and skipped.                                                   *)

LogCount == IF lock = "none" THEN 0 ELSE IF lock = "locked" THEN 1 ELSE 2

LogField ==
  IF logs = 0 THEN "init" ELSE IF lock = "redeemed" THEN "redeem" ELSE "refund"

InitiaWatcherStores ==
  /\ logs < LogCount
  /\ logs' = logs + 1
  /\ row' = [row EXCEPT !.dst[LogField] = TRUE]
  /\ UNCHANGED <<chainVars, tx, svc, btcVars, cached, btcEvents,
                 faults>>

InitiaWatcherSkips ==
  /\ logs < LogCount
  /\ faults < MaxFaults
  /\ faults' = faults + 1
  /\ logs' = logs + 1
  /\ UNCHANGED <<chainVars, tx, svc, btcVars, row, cached, btcEvents>>

-----------------------------------------------------------------------------
(* btc-executor and the wallet behind it.                                  *)

BtcExecutorPolls ==
  /\ btcExec = "idle"
  /\ \E r \in cached, wanted \in BOOLEAN :
       btcExec' \in {SourceAction(r, wanted)} \ ({"idle"} \cup requests)
  /\ UNCHANGED <<chainVars, iniVars, requests, overdue, row, cached, btcEvents,
                 faults>>

\* resolve_htlc_utxo finds the HTLC's output, spent ones are not listed
UtxoListed == deposit \in {"mempool", "block"} /\ spend.branch = "no"

BtcExecutorSubmits ==
  /\ btcExec # "idle"
  /\ btcExec' = "idle"
  /\ requests' = requests \cup
       {a \in {btcExec} : UtxoListed /\ (a = "instant" => HasSacp)}
  /\ UNCHANGED <<chainVars, iniVars, overdue, row, cached, btcEvents, faults>>

BtcExecutorCrashes ==
  /\ faults < MaxFaults
  /\ faults' = faults + 1
  /\ btcExec # "idle"
  /\ btcExec' = "idle"
  /\ UNCHANGED <<chainVars, iniVars, requests, overdue, row, cached, btcEvents>>

WalletBroadcasts(a) ==
  /\ a \in requests
  /\ Spendable /\ spend.branch # a
  /\ spend' = [branch |-> a, mined |-> FALSE]
  /\ UNCHANGED <<deposit, depositAge, lock, lockAge, iniVars, btcVars, row,
                 cached, btcEvents, faults>>

-----------------------------------------------------------------------------
Chains ==
  \/ UserDeposits \/ DepositMined \/ DepositEvicted \/ BtcBlock
  \/ UserRefunds \/ SpendMined \/ SpendEvicted
  \/ IniBlock

BtcWatcher ==
  \/ \E e \in SwapEvent : BtcWatcherObserves(e) \/ BtcWatcherStores(e)
  \/ BtcWatcherBlacklists \/ BackfillInitiate \/ BufferPasses

InitiaExecutor ==
  \/ InitiatorPolls \/ RefunderPolls \/ BrowserReveals \/ SecretChecked
  \/ \E t \in Task : TaskSends(t) \/ TxExecuted(t) \/ ReceiptRecorded(t)
  \/ InitiaExecutorCrashes

InitiaWatcher == InitiaWatcherStores \/ InitiaWatcherSkips

BtcExecutor ==
  \/ BtcExecutorPolls \/ BtcExecutorSubmits \/ BtcExecutorCrashes
  \/ \E a \in {"redeem", "instant"} : WalletBroadcasts(a)

Next ==
  \/ Chains \/ BtcWatcher \/ SyncCache
  \/ InitiaExecutor \/ InitiaWatcher \/ BtcExecutor

Spec == Init /\ [][Next]_vars

(* Each service is a loop that sleeps and polls again, so its steps are    *)
(* fair; so are block production and the inclusion of what was broadcast.  *)
(* btc-watcher reads every block, whatever else it is busy with, so the    *)
(* observation of a mined transaction is strongly fair (MaxInFlight is     *)
(* ours, not the code's); what it hears of the mempool may be lost. What   *)
(* the customer, the screener and the faults do is left to chance, and so  *)
(* is whatever the liveness properties do not need.                        *)
Fairness ==
  /\ WF_vars(DepositMined) /\ WF_vars(SpendMined) /\ WF_vars(IniBlock)
  /\ \A kind \in {"init", "redeem", "refund"} :
        SF_vars(BtcWatcherObserves(<<kind, "block">>))
  /\ WF_vars(\E e \in SwapEvent : BtcWatcherStores(e))
  /\ WF_vars(BackfillInitiate) /\ WF_vars(SyncCache)
  /\ WF_vars(RefunderPolls \/ TaskSends("refunder"))
  /\ \A t \in Task : WF_vars(TxExecuted(t)) /\ WF_vars(ReceiptRecorded(t))
  /\ WF_vars(InitiaWatcherStores)
  /\ WF_vars(BtcExecutorPolls \/ BtcExecutorSubmits)
  /\ WF_vars(WalletBroadcasts("redeem"))

FairSpec == Spec /\ Fairness

-----------------------------------------------------------------------------
(* What has to hold.                                                       *)

\* Every variable stays in its domain: what the proofs start from.
TypeOK ==
  /\ deposit \in {"no", "mempool", "block", "evicted"}
  /\ depositAge \in Nat
  /\ spend \in [branch : Branch \cup {"no"}, mined : BOOLEAN]
  /\ lock \in {"none", "locked"} \cup Closed
  /\ lockAge \in Nat
  /\ tx \in [Task -> {"none", "pending", "ok", "reverted"}]
  /\ row \in Row
  /\ cached \in SUBSET Row
  /\ svc \in [Task -> {"idle", "posted", "sending", "waiting"}]
  /\ logs \in Nat
  /\ btcEvents \in SUBSET SwapEvent
  /\ btcExec \in {"idle", "redeem", "instant"}
  /\ requests \in SUBSET {"redeem", "instant"} /\ overdue \in BOOLEAN
  /\ faults \in Nat

\* Two services and an HTTP endpoint write the destination half of the row,
\* each from what it saw earlier (a receipt, a log): whatever the interleaving,
\* the row never reports a step of the swap that its chain has not reached.
\* Only which of the two ways the HTLC closed can be reported wrongly
\* (RedeemMeansDestinationRedeemed). update_swap_initiate, update_swap_redeem
\* and update_swap_refund are what is guarded.
RowNeverAheadOfChain ==
  /\ row.src.init # "no" => deposit # "no"
  /\ row.src.redeem # "no" => "redeem" \in requests
  /\ row.dst.init => lock # "none"
  /\ row.dst.redeem \/ row.dst.refund => lock \in Closed

\* The solver takes the customer's deposit, or is about to, only when its own
\* leg can no longer be given back to it or taken from it: from the stale
\* cached copy of the row, through the executor and the wallet's queue, to the
\* broadcast.
ClaimOnlyAfterDestinationClosed ==
  "redeem" \in requests \cup {btcExec, spend.branch} => lock \in Closed

\* The whole pipeline implements the two-ledger trade of AtomicSwap. A deposit
\* counts as claimed or returned once the spending transaction is mined.
Swap == INSTANCE AtomicSwap WITH
  src <- IF spend.mined
         THEN IF spend.branch = "redeem" THEN "claimed" ELSE "returned"
         ELSE IF deposit = "no" THEN "unfunded"
         ELSE IF deposit = "evicted" THEN "gone"
         ELSE "funded",
  dst <- CASE lock = "none" -> "none"
           [] lock = "locked" -> "locked"
           [] lock = "redeemed" -> "claimed"
           [] lock = "refunded" -> "returned"

SwapSpec == Swap!Spec

\* The solver's funds never stay in the destination HTLC, whichever log the
\* watcher misses or whenever initia-executor dies, once.
LockReleased == lock = "locked" ~> lock \in Closed

\* However the destination closed, the row comes to say that it did, through
\* the executor's own write or through the watcher's.
OutcomeRecorded == lock \in Closed ~> row.dst.redeem \/ row.dst.refund

\* Once the customer has taken the destination funds, the deposit does not
\* stay in the source HTLC: the row, the cache, btc-executor and the wallet
\* carry the secret to Bitcoin (unless the customer's refund wins the race
\* after SrcTimelock, or an instant refund was already queued).
SourceSettled == lock = "redeemed" ~> spend.mined

\* An event parsed from the mempool may be written after the deposit's block
\* was, and puts the row back to "no block": observation and the backfill
\* bring the block number back for good. A deposit that the row has not heard
\* of when the deadline's buffer ends is not looked for any more.
InitiateHeals ==
  deposit = "block" /\ row.src.init # "no" ~> [](row.src.init = "block")

-----------------------------------------------------------------------------
(* What the code's comments say and the code does not do.                  *)

\* order_mapper.rs, can_redeem: "Destination must have been redeemed (secret
\* populated by watcher after initia executor redeems)". The /secret endpoint
\* writes the redeem hash and the secret for a transaction that may have
\* reverted.
RedeemMeansDestinationRedeemed == btcExec = "redeem" => lock = "redeemed"

\* order_mapper.rs, can_instant_refund: "Destination swap must not have
\* initiate without refund". The check reads the row, and the row learns of
\* the lock only after the transaction was sent and mined.
InstantRefundNeedsNoLock ==
  [][btcExec # "instant" /\ btcExec' = "instant" => lock # "locked"]_vars
=============================================================================
