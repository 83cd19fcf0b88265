# uniPay in TLA+

uniPay settles trades between chains with hash-time-locked contracts (HTLCs):
a customer pays into a source HTLC, a solver locks the counter-value in a
destination HTLC, the customer's secret opens the destination and, once it is
public, the source. A dozen services share one order database and act on it
from polling loops. What makes the system right or wrong is mostly not in any
one of them: it is in the order in which they read the row, touch a chain and
write the row, and in what is left when one of them dies in between. That is
what this directory models.

The trade and the wallet:

- `AtomicSwap`: what a trade promises, two ledgers and nothing else.
- `SwapSettlement`: one Bitcoin-to-Initia trade through every service that
  takes part in it; implements `AtomicSwap`. `SwapSettlementProofs` proves it.
- `BtcWallet`: btc-executor's batching wallet, from enqueue to confirmation,
  with the database and with crashes. `BtcWalletProofs` proves that it confirms
  only what was paid and pays nothing twice.

The services on each chain:

- `BtcWatcher`: btc-watcher's five tasks, its caches and a swap's row.
- `ZmqFeed`: the numbering of the node's notifications.
- `BitcoinHtlc`: the Bitcoin library's batches, refunds and instant refunds.
  `WatcherProofs` is about these three: blocks in the row are real, the feed never
  goes deaf, and what the library signs is accepted.
- `EvmWatcher`, `EvmExecutor`: the two services of an EVM chain.
- `SolanaSwap`: both services of Solana on one order.
- `BtcTxBuilder`: the fee loop of the transactions the wallet sends.
  `ChainServicesProofs` is about these four: rows say what happened, what is
  remembered as done is done, and what is built pays its fee.

The platform around them:

- `OrderIntake`, `BookFeed`, `PriceFeed`, `SolverPolicy`: the orderbook service,
  from the venues' books to the rows of an order. `OrderbookProofs`: orders are whole
  and pay out no more than their quote allows, prices are recent, the book's levels are
  the venue's, isolation groups hold for both ends.
- `StackerKeeper`, `StackerVault`: staking for merchants. `StackerProofs`: no strategy
  is stuck, what is delegated is recorded, an unbonding from a fresh position is covered.
- `RollupWithdrawals`: the finalizer of withdrawals and the tracker in the
  browser; `BrowserSwap`: the customer's browser and its secret. `CustomerProofs`: no
  withdrawal is passed over or called final too soon; the secret outlives the deposit.

`SumLemmas` holds what several of these proofs need of sums over finite sets, smallest
elements and sorting.

`MCSwapSettlement`, `MCBtcWallet`, `MCBtcWatcher`, `MCChainServices`, `MCPlatform`
and the `.cfg` files are the instances for TLC. `PROJECT.json` lists components,
runs, mutants, findings, hazards and theorems, and for every definition the source
lines it stands for.

## 1. Inventory

For each part: the state it keeps, what it does, what it talks to, what is hard
about it, and what would make it correct.

### 1.1 The order row and the order mapper (`src/Tars-rs/crates/orderbook`)

*State.* `swaps`, `matched_orders`, `create_orders` in Postgres. A swap row
holds, for each of initiate, redeem and refund, a transaction hash, a block
number and a time, plus the secret and the filled amount. *Operations.*
`create_matched_order`; `update_swap_initiate/redeem/refund`;
`get_solver_pending_orders` (what the executors see); `add_instant_refund_sacp`;
`OrderMapper::map`, which turns a row into Redeem, InstantRefund, Initiate,
Refund or NoOp for one side of the order. *Interactions.* Everything: two
watchers, three executors and an HTTP endpoint write the row, with plain SQL
updates and no version check. *Hard.* The row is always a late picture of two
chains and several of them are in use at once. *Correct when* the row never
reports what its chain has not done; the mapper never gives an action that is
unsafe on the row it can see, nor one that was safe when the row was read and no
longer is.

### 1.2 solver-orders

*State.* A cache of the pending orders by chain and solver, replaced every poll.
*Operations.* `process_orders`; two GET handlers. *Hard.* Staleness; limits (5000
rows, a number of orders per solver and chain). *Correct when* every order that
needs an action is served in the end and stale ones do no harm.

### 1.3 btc-watcher

*State.* The cache of watched swaps, the cache of processed events, channels of
ZMQ transactions and blocks, the swap rows. *Operations.* mempool batches,
blocks, an address poller, the confirmation updater with its backfill, the
screener. *Hard.* Five tasks write the same columns from observations of
different age; mempool transactions disappear; notifications are lost.
*Correct when* every mined deposit, redeem and refund is recorded in the end with
its block number, whatever is written in between, and flagged deposits are not
initiated.

### 1.4 initia-executor and initia-watcher

*State.* None of their own, except what a task holds across its awaits, and the
watcher's checkpoint. *Operations.* Initiator (locks the destination), refunder,
redeemer (for trades whose source is Initia), `POST /secret`; the watcher turns
logs into updates. *Hard.* Sends, waits for a receipt, then writes: a crash in
between leaves a transaction nobody waits for, and the receipt may say the call
reverted. *Correct when* what they write is what happened and the solver's
lock never stays open.

### 1.5 btc-executor

*State.* A request cache (one hour); the wallet: pending requests (free or
anchored to a confirmed change output), live lineages (the transactions that were
built for the same requests), confirmations to be handled, and the table
`bitcoin_wallet_requests`. *Operations.* The executor maps orders, finds the
HTLC's output and enqueues requests. The wallet's runner ticks: confirm, observe,
reconcile, plan, execute. *Hard.* Persist, broadcast and bookkeeping are three
steps; the mempool drops, returns and replaces transactions; after a restart all
is rebuilt from rows. *Correct when* every request is paid, once, memory and rows
agree, and a restart is always possible.

### 1.6 evm-watcher and evm-executor

*State.* Cached pending swaps per chain, the previous block; a request cache, a
nonce, the hashes of the replacements of a transaction. *Operations.* Poll swaps,
read orders and events over a block range, write; map, simulate, submit in
multicalls, replace while stuck. *Hard.* Pairing answers with questions, range
boundaries, a replaced transaction mined after it was given up. *Correct when* no
event is lost or attributed to another swap and no action is submitted twice.

### 1.7 solana-watcher and solana-executor

*State.* A signature cursor; rows. *Operations.* Fetch transactions since the
cursor, apply events; redeem source swaps whose secret is known. *Hard.* Batches
come newest first; one failing event is skipped; redeem and record are two steps.
*Correct when* every event is applied in an order that has the same result as
the chain's.

### 1.8 orderbook service and its policy

*State.* Balances polled from chains, committed funds from the database; local order
books of three venues, prices of two aggregators, the price of each asset that was
inserted last; strategies generated from a solver's policy. *Operations.* Keep the
books, compute prices, quote, match, create an order in one database transaction,
refresh liquidity and policy. *Hard.* The balance is checked when the quote is made and
spent much later; a book's snapshot and its events come over two connections; prices are
used without asking whether they are healthy; two requests may carry the same secret
hash; rules overlap and isolate. *Correct when* an order exists as a whole or not at all,
costs the solver no more than was configured, is priced from what a venue really
showed not long ago, and takes a route both ends allow.

### 1.9 stacker

*State.* Strategies, executions, positions, grants, withdrawals in Postgres; locks in
the keeper's memory. *Operations.* The keeper's tick provides liquidity and
delegates; the API prepares and confirms grants, pauses and resumes strategies, and
prepares unbonding messages. *Hard.* Ticks overlap, locks are released before the run
ends, the database is written after the chain, rows are written as they were read.
*Correct when* what is delegated for a user is accounted for, no strategy is stuck, and an
unbonding asks for what is there.

### 1.10 initia-fe, initia-rollup

*State.* The browser keeps secrets, one pending order per hook and the records of
withdrawals in localStorage; the finalizer keeps the next sequence number in a file.
*Operations.* Three hooks create an order, lock its source side and reveal the secret; a
tracker follows withdrawals; `finalize-withdrawals.ts` releases them in order. *Hard.*
The page closes at any time, resets and a second order go on while polls of the first
are under way, ticks overlap; submit and save are two steps. *Correct when* a secret is not
lost while it is worth money, nothing is shown as final that is not, no withdrawal is
skipped.

### 1.11 The libraries (`src/Tars-rs`)

The Bitcoin crate has a batcher that redeems several HTLCs at once, a refund by the
timelock and an instant refund that both parties sign (the services use its scripts; the
batcher has no caller among them); the EVM crate the transaction handler and multicall of
evm-executor; the policy crate the rules of 1.8. *Hard.* Signatures commit to parts of a
transaction, and what they commit to is looked up at different times. *Correct when* what
was signed is accepted on chain.

The hazards that follow from all this, each at its line, are in `PROJECT.json`.

## 2. Plan

In the order of what a mistake costs; all but the last entry are done.

1. `AtomicSwap`, `SwapSettlement`: the trade itself, with its proofs.
2. `PaymentPromise`, `BtcWallet`: the solver's money on Bitcoin, with its proofs.
3. `BtcWatcher`: one swap, five tasks, two caches, amounts, screener and
   confirmations; `ZmqFeed` below it.
4. `EvmWatcher`, `EvmExecutor`, `SolanaSwap`: the services of the other chains.
5. `OrderIntake`, `BookFeed`, `PriceFeed`, `SolverPolicy`: where orders come from.
6. `StackerKeeper`, `StackerVault`, `RollupWithdrawals`, `BrowserSwap`: users' funds
   outside the trade.
7. `BtcTxBuilder`, `BitcoinHtlc`: fees, change and signatures.
8. Proofs of the safety invariants that the runs of 3 to 7 check (section 9).
9. Left: a refinement from `BtcWatcher` to the watcher
   steps of `SwapSettlement`, with its proof; several orders that compete for one balance;
   initia-executor's redeemer.

## 3. `SwapSettlement`

One matched order. Each variable is a thing somebody can read late: the
chains (`deposit`, `spend`, `lock` and their ages), the row (`row`), the copy
solver-orders serves (`cached`), where each initia-executor task stands (`svc`)
and what became of its transaction (`tx`), the events btc-watcher has parsed and
not stored (`btcEvents`), the action btc-executor is about to execute
(`btcExec`) and the requests the wallet has accepted (`requests`).

| Code | Actions |
| --- | --- |
| `initiator.rs`: process, initiate_destination | `InitiatorPolls`, `TaskSends`, `ReceiptRecorded` for task "initiator" |
| `refunder.rs`: process, refund_swap | `RefunderPolls`, `TaskSends`, `ReceiptRecorded` for "refunder" |
| `api.rs`: handle_secret; the browser | `BrowserReveals`, `SecretChecked`, `TaskSends`, `ReceiptRecorded` for "secret" |
| `htlc_watcher.rs` | `InitiaWatcherStores`, `InitiaWatcherSkips` |
| btc-watcher: parser, processors, address poller | `BtcWatcherObserves`, `BtcWatcherStores`, `BtcWatcherBlacklists` |
| btc-watcher: `get_swaps` and its deadline buffer | `Watched`, `overdue`, `BufferPasses` |
| btc-watcher: `update_confirmations.rs` | `BackfillInitiate` |
| solver-orders: `cache.rs` | `SyncCache` (`Pending` is the query) |
| order mapper | `CanInitiate`, `CanInstantRefund`, `CanRefund`, `CanRedeem`, `SourceAction` |
| btc-executor | `BtcExecutorPolls`, `BtcExecutorSubmits`, `WalletBroadcasts` |
| the chains, the customer | `UserDeposits` .. `IniBlock`, `TxExecuted` |

Every await between a read and a write is a boundary between two actions. Prices
and deadlines are a fresh choice each time an order is mapped (`wanted`), since
prices move both ways. HTLC contracts are not in the repository; `Accepted` and
`Outcome` are what the callers rely on.

What is checked:

- `RowNeverAheadOfChain`: through all interleavings of three services that write
  the row from what they saw earlier, the row never reports a step its chain has
  not reached.
- `ClaimOnlyAfterDestinationClosed`: the solver's claim, from the mapping of a
  stale copy to the broadcast, happens only once the destination has closed.
- `SwapSpec`: the pipeline implements `AtomicSwap`, whose `ClaimSrc` and
  `LockDst` carry the rules of the trade.
- `LockReleased`, `OutcomeRecorded`, `SourceSettled`, `InitiateHeals`: the trade
  moves on, with one crash or failed write anywhere. A swap without a deposit in its row
  is watched until `created_at + deadline_buffer`; a deposit that the row has not heard of by
  then is not looked for any more, so `InitiateHeals` speaks of rows that know of theirs.

Two runs show where comments and code disagree (see *Findings*).

*Bounds.* Timelocks of one block on the destination and none or one on the source: only
before and after matter to the guards. `MaxInFlight` = 1 bounds events between
observation and storage; an event can still be stored arbitrarily late. The
safety run has every surprise at once and no fault (a crash only forgets, and a
skipped log only withholds a write: the proofs cover any number of both); the
liveness run has one fault, a buffer that may end at any time before the deposit is
recorded, and no surprise, because evictions and the customer's own
refund really do end a trade early.

*Fairness.* The services are loops that sleep and poll again, so their steps are
weakly fair; so are blocks. The observation of a mined transaction is strongly
fair: btc-watcher reads every block, and what can interrupt it in the model is
only the bound on events in flight. Nothing the customer, the screener or a fault
does is fair, nor are the initiator, `/secret` and the mempool observations: no property
needs them. `CHECK_DEADLOCK FALSE`: a finished trade has nothing left to do.

## 4. `BtcWallet`

Requests are dedupe keys; those in `Spend` spend an HTLC, so two transactions
that pay one compete for its output; those in `TakesOutput` take an output of the batch
(sends, and spends with a recipient), of which a batch has `MaxOutputs`. Transactions are
numbered as they are built.

| Code | Model |
| --- | --- |
| `bitcoin_wallet_requests` | `row`: status, lineage, head (`batch_txid`), history, anchor |
| runner handle, channel, `incoming` + `pending.free`, `pending.anchored` | `submitting`, `inbox`, `free`, `anchored` |
| `live_lineages`, `confirmations_pending` | `lin`: head, all txids, history by request, winner, misses |
| `process_tick` | `at` = confirm, observe, reconcile, execute; `todo`: lineages left |
| planned actions; the batch between persist and answer | `plan`, `sending` |
| handle_confirmation / persist_confirmation | `HandleConfirmation` |
| observe_live_lineages, probe_missing_head_resolution | `Observe`, `Observed` |
| handle_missing_lineage, reconcile.rs, persist_reconciliation | `ReconcileNoSurvivor`, `ReconcileConfirmed`, `ReconcileInMempool` |
| runtime.tick, planner.rs | `PlanBatches`, `Plans` |
| persist_and_submit_broadcast, broadcaster | `PersistBroadcast`, `NodeAccepts`, `NodeRejects`, `NodeAcceptsUnheard`, `BatchAccepted`, `BatchRejected`, `RevertFails` |
| `ensure_txid_history_append_is_safe`, rows that are not pending | `Repeats`: `PersistBroadcast` refuses the batch |
| restore, recover_wallet_runtime | `Restore`, `Recover`, `RecoveryEnds` |

A database statement and the memory update that follows it without an await that
can fail are one action. Faults are named in `Glitch` and switched on by
`Glitches`; `MaxFaults` bounds how many happen.

What is checked:

- `PromiseSpec`: the wallet implements `PaymentPromise`, which knows only the status of
  each request and which mined transactions pay it, those the network never lost (*kept*)
  apart from those it lost once (*stray*). A request goes back from inflight to pending only
  without a kept payment, becomes confirmed only with a payment, and a kept payment is made
  only while the request is inflight and has none. A lineage that survived restarts mixes
  transactions with different requests, and any of them may win; what the others are then
  told is the part of this that is hard to get right.
- `PaidOnce`: of the transactions that pay a request, at most one that the network
  had never lost is mined, whatever crashes happen and wherever.
- `HeldOnce`, `RowsMirrorMemory`: a request is in one place of memory, and its row
  says the same. The rows of a refused batch whose `revert_broadcast` fails
  (`runtime.rs:267`) do not: they stay inflight with a transaction that memory has dropped
  (`unreverted`, `Stranded`) until a restart reads them. They are excepted.
- `RecordedOnNetwork`: what the network has is in the history of the requests it
  pays, which is what makes recovery possible.
- `EventuallyPaid`: a request whose row is pending is paid, or `persist_broadcast` goes on
  refusing it at every tick (`Refusable`). It does so to a batch that turns out as a
  transaction its row already names (the builder may make the same one again, with the same
  txid), and to every batch with a stranded request. Both last until something else changes
  the batch or the process restarts; the code has no other way out.

*Planning.* `Plans` is every outcome of the planner: one batch for each anchor
(`Groups`), and the free requests in a batch of their own (`FreshPlans`) or joined to an
anchor's (`MixedPlans`); which is cheapest is a choice. The cap on outputs stops more than
a batch: an anchor's requests that do not fit stop all planning, and free requests that do
not fit wait together, for nothing splits them.

*Bounds.* Two requests, one to an address and one from an HTLC; two lineages;
two misses before a batch is given up (so that one miss can be survived); five
or six transactions, enough for a request to be rebuilt after each of the faults,
and four faults (three for liveness), enough for an eviction, a crash, a return
and a failed lookup in one behaviour. The bookkeeping run has three requests that take an
output each and two outputs in a batch, so that groups fit, join and are too large, with
five transactions and three faults. When `MaxTx` transactions are built no other
one can be; the liveness run needs one more than it has faults and requests, and
checks that nothing deadlocks on the way. In the safety runs a process
whose rows cannot be restored stays down, so there deadlock is not checked.

*What the runs leave out, and why.* The bookkeeping run excludes two faults that
break its properties in the code: `funding` (the survivor's funding inputs cannot
be loaded: memory takes the old lineage back after rows and pending requests have
changed, which breaks `HeldOnce` and `RowsMirrorMemory` at four faults) and
`reply` (which has its own run). The liveness run excludes `reply` and `return`
(a transaction that comes back takes the HTLC away and every later batch with that
spend is refused), and `ttl` (a request dropped from memory waits for a restart); its
requests fit in one batch together, because a group that does not is never planned and the
property would be false.
The safety run has them all, and so have the proofs of payment and confirmation.

*Fairness.* The runner is one task and ticks for ever (and is restarted when it
dies); `select!` chooses at random between a command and a tick, so commands are
strongly fair; miners mine what the mempool holds; a caller that wrote its row
sends the command.

## 5. The services on each chain

### 5.1 `BtcWatcher` and `ZmqFeed`

One swap, with the tasks of `watch` each holding what it has parsed until it writes it.

| Code | Model |
| --- | --- |
| the row, `is_blacklisted` | `swapRow` |
| moka cache and `listen_for_pending_swaps` | `swapCache`, `refresh`; `RefreshReads`, `RefreshSets` |
| `tx_processor.rs`, `block_processor.rs`, `address_poller.rs` | `MempoolParses`, `BlockParses`, `PollerParses`, `held` |
| `tx_event.rs`: amounts, screening | `ParsedEvents` |
| `swap_store.rs`: handle_inits/redeems/refunds, marks | `EventsStored`, `StoreFails`, `Updated`, `Marked` |
| `update_confirmations.rs` | `updater`; `UpdaterLooks`, `UpdaterWrites` |
| `zmq_events.rs` | `ZmqFeed`: `Connect`, `HandleMessage`, `IsSequenceValid` |

- `BlocksAreReal`: though five tasks write the same columns from observations of
  different age, a block number is that of a mined transaction.
- `DepositBlockRecorded`, `SpendRecorded`: what is mined is recorded, and stays, with
  the poller and the backfill alone: the feed may lose everything. Both speak of
  behaviours in which the mempool feed has nothing more to say in the end, as a node
  publishes a transaction twice at most.
  A deposit's block is not recorded where a spend is recorded in a block on a row that
  names the deposit's rival: the swap is then watched no longer and the backfill asks for
  the wrong transaction (`NamesAnother`).
- `NodeIsHeard`: as long as fewer than `RESET_THRESHOLD` numbers are dropped in a row, no
  message of the node's start that the listener connected to is taken for a duplicate,
  wherever the numbers wrap around, and a node that restarted under a live socket is heard
  again after a threshold of messages. The publisher may drop any number: a longer gap round
  the wrap-around, or between the restart and the socket's reconnection, does silence the
  topic until the number passes the last one heard, and what is refused after such a gap
  (`lost`) is not counted.

*Bounds.* Two rival deposits, one of them known to the screener, a redeem and a refund;
two blocks; two tasks that hold events at a time, which is what a race needs. Three
scenarios (`never`): two rival deposits with a redeem and a deadline that is far, one deposit
with a refund, and two deposits that nobody spends. Sequence numbers of
`ZmqFeed` end at 4, with a reset threshold of 2, a margin of 1 for the wrap-around and one
message under way. *Fairness.* The tasks are loops
that sleep: looks and ends of a batch are weakly fair; the poller and the updater's
writes may fail again and again but not for ever (strongly fair). Parsing the feed is
not fair.

### 5.2 `EvmWatcher`

| Code | Model |
| --- | --- |
| `multi.rs`: the cache that is emptied and filled | `evmCache`, `evmReload`; `ReloadReads`, `ReloadInserts` |
| `watcher.rs`, one pass | `evmPass`; `WatchFetchesOrders`, `WatchReadsHeight`, `WatchStoresRange`, `WatchStoresConfs` |
| `validate_swap.rs`, `block_range.rs`, `validate_event.rs` | `NeedsEvents`, `GroupBlockRanges`, `ValidatedEvents` |
| `store.rs` | `EvmPending`, `Recorded`, `Confirmed` |
| errors of a node or a statement, restarts | `WatchFails`, `WatchLosesConfs`, `EvmWatcherRestarts` |

`EvmRowsReal`: cache, orders, height and logs are read at four times, in passes that break
off, from nodes that lag; a row only says what the contract says of an order with the row's
terms, and never more confirmations than there are. `EvmRecorded`: an initiation is
recorded unless the deadline passes first, and then its fulfilment is. *Bounds.* One swap,
three blocks, ranges of two, two confirmations: an event falls on either side of a range's
edge and of the confirmation window. *Not modelled:* `Recorded` drops the check that the
initiation is at most a minute older than the order (`store.rs:172`), so that the model
records more than the code. *Fairness.* An RPC, a statement and an up to date node
that fail again and again work at some time; so does the refill of the cache.

### 5.3 `EvmExecutor`

The loop of `Executor::run` is `exRun.step`; the transactions of the account are slots, and
one that is mined makes the others void, as they carry the same nonce. `ExFetches` (cache
filter and mapping), `ExSubmits` (dry run, multicall), `ExConfirmed`, `ExReplaces`,
`ExWatchesNext` (`PendingTxHandler::handle_tx`), `ExForgets` (time to live),
`ExecutorRestarts`. `ExCachedIsDone`: a cached request is done, whichever of the transactions
was mined and whatever the handler missed. `ExActsInTheEnd`: what the solver has to do is
done unless the user comes first, so that again and again nothing is left to do; a request
that can no longer be performed does not hold up its batch. A claimed order is redeemed or, where the
mapper finds its deadline passed or its price off (`refused`, a choice at each poll), given
back with the solver's signature. *Bounds.* One order of each kind, two slots, one
replacement. *Fairness.* For each order in turn a batch with it is fetched, submitted and
mined at some time.

### 5.4 `SolanaSwap`

The program's log, the watcher's cursor and batch (`SolFetches`, `SolEventWritten`,
`SolEventLost`), `updateConfirmations`, and the executor's two pollers and `POST /secret`
(`SolTaskStarts`, `SolTaskSends`, `SolSendFails`, `SolTaskRecords`). `SolRowReal`: what five
tasks of two processes write is what the program did. A watcher that starts without a cursor
sees only the newest 100 transactions of the program (`watcher.ts:61`): `SolWatcherRestarts`
starts at any place of the log. `SolSpendRecorded`: a spend in a batch of its own is recorded
if no write fails and no such page ends before it (`solSkipped`). `SolSettles`: again and
again there is nothing left to do about the source swap: the solver gets it once the secret
is known, and an expired one does not stay open. *Bounds.* One order; one failed write of an
event (`solLost`). *Fairness.* Loops; a call that is possible is made at some time.

### 5.5 `BtcTxBuilder` and `BitcoinHtlc`

`BtcTxBuilder`: a round of `build_with_fee_floor` is a step; coins, HTLCs and payments have
values, transactions sizes. `FeeJustRight`: what is handed out pays what its size asks for,
a replacement more than what it replaces, and not more than a change output would have
cost, also when candidates swing around the dust limit and `fallback_best` chooses.
What is selected is a set: the order of inputs changes neither size nor fee. `Greedy` is
the prefix of the outputs by value without which no prefix is worth enough.
*Bounds.* Three coins of two values, fee rates in halves, sizes of a few units, chosen so
that every branch of the loop is taken.

`BitcoinHtlc`: one call (batch, refund or instant refund) while others deposit, spend and
mine blocks (`ChainMoves`). A signature is who signed what under which flags.
`BatchVerifies`: a batch is valid as long as nobody spends an input, pays its fee exactly
and shares it evenly, whatever overlapping or false requests were in the queue.
`RefundsHonoured`: a refund is refused for nothing but an input gone or too young; an
accepted instant refund holds on chain if it spends what it was validated against
(`bhSigned.against`). `SacpRoundTrip`: signing, building and validating see the outputs in
three orders and agree. *Bounds.* Three outputs of two HTLCs, two of
them in one transaction; two values, one of which is too small for its share of a fee. *Not
modelled:* a request that names another value than the output has, or an index its
transaction lacks, is refused by the code (`validate.rs`) and is not among the requests; the
indexer's answers to one validation are taken at one moment.

## 6. The platform

### 6.1 `OrderIntake`

`POST /orders`: `ChecksSecret`, `Quotes`, `InsertsSwaps`, `InsertsOrder`,
`InsertsMatchAndCommits`, `CreationFails`; the liquidity watcher: `RefreshReadsBalance`,
`RefreshPublishes`. Amounts are integers and the rounding of the matcher is kept.
`OrdersWhole`: concurrent requests with the same secret hash and failures half way leave no
part of an order. `PayoutBounded`: an order costs at most what comes in at the prices of its
quote, plus the configured slippage. `affiliate_fee` is whatever u64 the request says, and
the matcher's `10_000 - (fee + affiliate_fee)` is taken in u64 (`TotalFee`, `LeftAfter`,
modulo `Word`; a division by zero ends the request). Where the customer fixes the payout, the
bound is therefore claimed for fees up to the whole only; where the input is fixed it holds
for all. *Bounds.* Affiliate fees of nothing and of the whole, `Word` = 64. Two requests, two
secret hashes; a slippage asked for that is above the maximum; a pair whose decimals differ;
a fixed fee.

### 6.2 `BookFeed`, `PriceFeed`

`BookFeed` keeps the true side of the venue beside the local one. `EventHandled` is
`handle_text` with its snapshot fetch in between (`SnapshotFetched`). `LevelsReal`: every
level is the venue's at the id the book stands at. *Bounds.* Two prices, one in the local
book's depth; three events in the socket; seven updates.

`PriceFeed`: samples arrive, an arrival and a worker compute (`Computes`), the staleness
worker copies books and writes them back (`CopiesBooks`, `WritesBooks`). `PriceRecent`: the
oldest sample in a price is at most the thresholds, one second and a round of the worker
old, although nobody asks whether the price is healthy. *Bounds.* One venue, one
aggregator, six seconds.

### 6.3 `SolverPolicy`

The rules of a policy over patterns of assets (`Deciding`, `NotIsolated`, `FeeOf`,
`ValidPair`), the refresh of the policy and the strategies built from it.
`ExactGroupsTwoSided`: with groups that name their assets an offered route respects the
groups of both its ends, though the code looks at the destination's only when the source has
none. A behaviour is of one service with one configuration: one that refreshes its policy
from the aggregator, or the orderbook, which builds its policy and strategies from its own
settings when it starts (`policy_builder.rs`). *Bounds.* Three chains, one token, two rules
of a kind: any two groups that touch.

### 6.4 `StackerKeeper`, `StackerVault`

A tick's awaits are boundaries: `TakesStrategy`, `ChecksGrants`, `ReadsBalance`,
`CreatesExecution`, `MarksExecuting`, `SendsDelegation`, `RecordsSuccess`,
`SyncsAndSettles`, and the paths of an error (`RecordingThrows`, `RecordsFailure`,
`ReopensAfterFailure`, `TickThrows`, `KeeperRestarts`); grants, pause and resume are the
API's read and write. `KeeperNeverStuck`: only a crash or a failing statement outside the
`try` leaves a strategy executing. `DelegatedIsRecorded`: what is delegated is in the
executions, even when two ticks run one strategy. *Bounds.* One strategy, two ticks,
two executions, two units of time.

`StackerVault` takes up where a run has sent its transaction: `ReadsSnapshot`,
`ReadsPosition`, `WritesPosition`, and `CreateUnbond` with `SignsUnbond`.
`UnbondCovered`: as long as nothing was unbonded since, a position never asks for more than
is bonded. *Bounds.* Two strategies with a run each, two deposits, one unbonding.

### 6.5 `RollupWithdrawals`

The bridge (`TreeFinished`, `OutputProposed`, `TxExecuted`, `ReleasedElsewhere`), the
finalizer (`FinalizerPolls` .. `FinalizerSaves`, `FinalizerEnds` with a file cut short) and
the browser's tracker (`TickReads`, `TickLooks`, `TickSearches`, `TickWrites`).
`NoneUntried`: no sequence below the saved one was passed over. `ShownFinalIsDue`: what is
shown as final is released or due, though overlapping ticks merge their patches in any
order. *Bounds.* Two withdrawals, two starts, two overlapping ticks, a period of one.

### 6.6 `BrowserSwap`

One of the three hooks per behaviour (`bsKind`), with page closes and opens, the abort flag,
polls and reveals under way. `SecretOutlivesDeposit`: while the funds are locked and
the order can settle the secret is in storage, except for orders the Bitcoin hook gives up.
*Bounds.* Two orders, two loads of the page.

### 6.7 Sums

These eleven modules, with `BtcTxBuilder`, `BitcoinHtlc` and `ZmqFeed` among them, share no
state. `MCPlatform` checks them as a sum: `part` says which one a behaviour is of, and the
others stay in one initial state, so that the states of the parts add up and do not
multiply. The rollup is two parts, with the finalizer and with the tracker, which meet only
on L1. `Tick`, `Request`, `Poll`, `BrowserOrder`, `ZmqTopic` and `VaultStrategy` are given
the same two values, of which each part uses one set: a permutation of the values permutes
the set that matters, and the symmetry is sound. `MCChainServices` is the same sum for
sections 5.2 to 5.4; there the fairness of a part is stated for its own steps, and no
symmetry is used. `CHECK_DEADLOCK FALSE` in both: finite inputs run out, and a finished
order has nothing left to do.

## 7. Runs

| Run | Shows |
| --- | --- |
| settlement_safety | type, row, claim and refinement with every surprise |
| settlement_liveness | the lock closes, is recorded, the source follows, block numbers heal |
| settlement_reverted_receipt | *violation*: a reverted redeem is recorded as a redeem |
| settlement_instant_refund_race | *violation*: instant refund and lock at once |
| wallet_safety | the promise to the callers and single payment, under all ten faults |
| wallet_bookkeeping | memory, rows and network agree, also after failed reverts |
| wallet_liveness | every request is paid, or refused for ever by `persist_broadcast` |
| wallet_lost_reply | *violation*: a lost answer removes the record of a broadcast |
| wallet_restore | *violation*: rows that cannot be restored |
| btc_watcher | block numbers are real; deposits and spends are recorded for good |
| chain_services | rows of EVM and Solana are real; what is due is recorded and done |
| platform | the sixteen invariants of section 6, `BtcTxBuilder`, `BitcoinHtlc` and `ZmqFeed` |

Each property of a passing run has a mutant: one definition changed as a
plausible mistake would, under which the same run finds the property violated.

## 8. Where code, comments and documents disagree

### Findings

1. `initia-executor` never reads a receipt's status. If a redeem and a refund are
   in flight around the timelock, the one that reverts is recorded too; a reverted
   redeem makes btc-executor claim the deposit for a destination the solver got
   back. (`order_mapper.rs:491` says otherwise.)
2. The check "Destination swap must not have initiate without refund"
   (`order_mapper.rs:293`) reads a row that does not know the lock yet.
3. An unknown RPC error counts as a rejection and the record of the broadcast is
   reverted, against `runner.rs:1644` and `runtime.rs:240`; the `Ambiguous`
   answer that would keep it is never produced.
4. Going back to an older transaction leaves rows that `restore` refuses
   (`bitcoin_wallet.rs:1276` against `:1207`).

### Divergences no run is about

Met while the modules were written; the models follow the code in each of them. Several are
reasons why a property is stated as it is.

- *btc-watcher.* The confirmation updater counts from block 0 for swaps still in the
  mempool; the poller records deposits that are not confirmed and never screens them; an
  evicted refund's hash stays on the row. After a restart whose last number was small the
  feed's first messages are refused until the number passes it; a gap of 1000 dropped numbers
  or more can do the same. A rival deposit that is recorded from the mempool while the other
  one is mined and redeemed leaves block 0 in a row that nobody watches. A deposit first
  seen after the deadline's buffer is never recorded.
- *evm-watcher.* A swap is looked at only within `required_confirmations` of its
  initiation: with polls further apart its confirmations are never completed.
- *Solana.* Batches are written newest first and errors of single events are only logged: a
  redeem that comes with its initiation is lost to the watcher, and one older than the newest
  100 transactions to a watcher without a cursor. `getPendingRefunds` compares a number of
  slots with seconds since 1970, so that it always holds.
- *stacker.* `executeActiveStrategy` is returned without `await` and the lock is free at
  once (`docs/superpowers/plans/2026-04-23-stacker-backend-keeper.md:521` means it to be
  held); a pause during a run is overwritten; success is recorded on broadcast. A position
  keeps its share when the event of a deposit is not found and is not touched by unbonding;
  an unbonding from a position ignores the amount asked for.
- *orderbook.* The query of the committed funds asks for a block number of 0 where creation
  leaves NULL: what is owed to paid orders is not subtracted, and orders that are matched one
  after the other overcommit the snapshot. Slippage that the customer grants increases the
  payout. `affiliate_fee` is not validated: a fee above the whole wraps around where the
  payout is fixed, and the input asked for is next to nothing. A fixed fee above the input
  gives a negative amount. The staleness worker can unmark the books of a venue that has
  disconnected.
- *policy.* A group with a wildcard skips the isolation of the destination when the source
  has a rule.
- *rollup.* The finalizer takes the answer of CheckTx for success; the tracker keeps an
  output index of 0 for ever, and overlapping ticks can turn "finalized" back to "proven".
- *initia-fe.* The Bitcoin hook drops the secret after its timeout and on reset, confirmed
  deposit or not.
- *The wallet.* A `revert_broadcast` that fails leaves rows inflight that memory has as
  pending: every batch with one of them is refused until a restart. A batch built again as
  the same transaction is refused at every tick.
- *Bitcoin.* A batch's receipt may name cover outputs the fallback transaction does not
  use (`builder.rs`). In the library, a request without outputs passes validation and fails
  the batch; an invalid request's outputs invalidate a later valid one;
  `validate_instant_refund_sacp_tx` looks at neither the outputs nor the redeemer's
  signature.

## 9. Proofs

TLAPS checks every theorem for all values of the constants that satisfy the named
assumptions in the modules (timelocks and bounds are naturals, `Surprises` and
`Glitches` are subsets of the named kinds).

### `SwapSettlementProofs`

`TypeCorrect` is inductive as it stands, one lemma per group of actions.
`RowCorrect` and `ClaimCorrect` are not: what a task will write depends on what it
is waiting for. The invariant `Inv` therefore says of every place a fact passes
through that it is no newer than the chain it came from:

- `PaidInv`: a row or cached row with an initiate, an event, a task or transaction
  of the initiator, a lock, a spend: each presupposes the deposit;
- `LockInv`: the destination half of every copy of the row, and every transaction
  that has executed, whether it worked or reverted, presupposes the state of the
  lock it will report;
- `ClaimInv`: a redeem that btc-executor has mapped or asked the wallet for means
  that the lock is closed, and a redeem spend, event or column that it was asked for.

Each of these is stable because no chain step goes back. `InvHolds` proves it
inductive; `RowCorrect` and `ClaimCorrect` follow. `SwapRefinement` maps every
step to a step of `AtomicSwap` or a stutter, from `Inv`: `ClaimSrc` is enabled
because a redeem can only be mined after it was requested.

### `BtcWalletProofs`

For any number of requests, transactions and lineages, any thresholds, and under all
ten faults, any number of times.

A transaction is *sound* when the network has it and never lost it. `PaidOnce` says
that no request is paid by two sound mined transactions; on its own it is not
inductive, since nothing in it keeps the runner from building a request again. The
invariant says why it does not:

- `RowInv`: the only sound transaction that pays a request is the head of its row,
  it is in the row's history, and the row is inflight or confirmed. A pending
  row has none. A confirmed row's head is mined and pays it;
- `LineageInv`: for the requests still inflight in a lineage its head is that
  transaction; when the runner counts a miss, or sees another transaction win, the
  head is not sound. Only the rows that are still inflight in the lineage are
  spoken of: after a failed lookup of funding inputs memory holds requests that
  belong elsewhere by now, and it is the check of the rows' status and
  lineage in persistence that keeps this harmless;
- `SendingInv`: between its record and its outcome a transaction is the head of the
  rows it pays and in no lineage, and a refused one is not sound;
- `NetworkInv`, `PhaseInv`: bookkeeping of the network and of the tick.

`InvHolds` has one lemma per action; the two steps that requeue requests
(`WonStep`, `KeptStep`) rest on `MemberFacts`, that the requests left out have no
sound transaction. A restart is covered by `RestoredOK`: what restore insists on,
that the rows of a lineage agree on their head, is what the rebuilt lineage
needs. `ConfirmationCorrect` (a confirmed row's head is a mined transaction that pays it) and
`SinglePayment` follow. `WalletRefinement` maps every step to one of `PaymentPromise` or a
stutter, under the mapping of section 4: mining a sound transaction is a first payment by
`RowInv`, the end of a lineage is one `Resolve` of its paid and its unpaid requests together
(`WonPromise`, `MissedPromise`, from `MemberFacts`), and answers, ticks, death and restart
touch neither statuses nor what is mined (`SameMined`). `RecordCorrect` adds that
nothing but `revert_broadcast` takes a transaction out of a history, and assumes that
no answer of the node is lost; the run wallet_lost_reply shows that it needs to.

Two of its books are proved only for runs in which reconciliation can load the funding inputs
of its survivor (`"funding" \notin Glitches`, the hypothesis of both theorems, which allow
every other fault, failed reverts and lost answers included; the run wallet_bookkeeping makes
the same choice, for the reason given in section 4). `HeldOnceHolds`: a request is in one
place of the runner's memory. `RowsMirrorMemoryHolds`: its row says which, but for the
requests a failed revert has stranded. The invariant, `Books`, is about one request at a time
(`RequestOK`), so that a step needs only the requests it moves: it waits in at most one place
with a row that is pending, or is in the one lineage its row names; while a batch is under
way between its record and its outcome its requests are still pending in memory and inflight
in their rows (`Paying`), and what the plan holds has come out of the pending requests
(`PlanOK`).

### `WatcherProofs`

- `BlocksAreRealHolds`: any transactions, heights and screening. The five tasks carry what
  they saw of the chain until they write it. `WatcherInv` says that whatever is carried
  names the block of its own transaction (`EventReal`, `FoundReal`), that the row's blocks
  are those of transactions mined (`RowOK`), and that one of the spends excludes the others
  (`ChainOK`). Late writes are harmless because a mined transaction stays where it is.
- `NodeIsHeardHolds`: any topics, sequence numbers and starts. What the reader will accept
  depends on numbers that are still on the wire. `HeardSince(p)` says there is for each topic
  a last number `p` the node sent before the wire, from which the wire's messages follow each
  other, with gaps for dropped ones, up to the node's counter (a gap of a threshold or more
  marks the message after it `lost`, and nothing is claimed until one is forwarded); `Reach`
  says how far two numbers of the same or of different starts can be apart, wrap-around
  included.
- `RefundsHonouredHolds`, `BatchVerifiesHolds`, `SacpRoundTripHolds`: any outputs and
  values, dust limit, timelock, sizes, rates and fees. `HtlcInv` has a part for each caller.
  *Instant refund:* `SignedInv`, `BuiltInv` and `AgainstInv` say what was signed, built and
  validated as functions of the *set* of outputs listed. The listings of the three steps
  differ in order; the library sorts (`InOrder`), and what a listing is worth is what its
  set is worth (`SetWorth`), so equal sets give equal hashes. *Batch:* `CheckInv` says that
  the requests that passed list outputs set aside for them and share none, `BatchInv` that
  the transaction built of them is `Sound` (the node could refuse it for nothing but a spent
  or young input) and `Fair` (it pays the fee its size asks for and every output an even
  share). The pieces of two requests are joined by `FlattenSeq`, which is recursive; the
  proof unfolds it for one and for two pieces, which is all a batch of the model has.
  *Refund:* `RefundInv`, `Sound` and no more than the timelock.

### `ChainServicesProofs`

- `EvmRowsRealHolds`: any orders, block ranges and confirmations. `EvmInv` says that a row
  agrees with its order (`RowAgrees`), and that a pass holds heights and confirmations no
  newer than the chain's.
- `ExCachedIsDoneHolds`: any orders, slots and replacements. `ExecutorInv` adds that a batch
  confirmed on chain is done, and that the slots the handler follows hold its own batch or
  nothing: whichever of the hashes turns out confirmed, it is this batch that was done. It
  needs that requests are mapped as the order mapper does it, an order being either paid or
  claimed (`ExecutorConstants`).
- `SolRowRealHolds`: `SolInv` says that whatever waits to be written, in the watcher's batch
  or in a task, has happened; `LogGrows` that nothing which happened is undone.
- `FeeEnoughHolds`: any wallet outputs, values, rates, sizes, previous fees and round limit.
  `FeeEnough` is the conjunct of `FeeJustRight` that the network enforces: what is handed
  out pays its target. `FeeInv` says that the size of the last round is one that fewer or as
  many inputs have (`Sizes`) and that the best transaction so far pays (`Pays`). `NeverGrew`
  follows: the loop's size tolerance, which would accept a transaction without looking at
  its fee, never applies, because an input more, or the change output, adds more bytes than
  `SizeTolerance`. This is about templates of fixed size, as the wallet's are.
- `FeeJustRightHolds`, `FeeJustRightWithRoundsLeft`: the upper half. No single round is fair
  on its own, so `JustInv` says where in the loop a build is (`Phase`): *searching*, nothing
  pays yet and every round has added an output; *pinned*, the change is what is left and
  above its floor; *settling*, the best so far pays too much and one of the next two rounds
  has the change right; *swinging*, the best is already fair. Each phase bounds the number of
  the round by that of the inputs, so a build that ends for want of rounds ends fair if three
  are left (`RoundsLeft`). The arithmetic is that the target is convex in the size but for
  rounding (`AllowanceKept`): what a change output adds to it does not shrink as inputs are
  added. The bound is tight: with one round fewer TLC finds a build that adds its last output
  in the last round and hands out the transaction that pays the whole of it as fee. In the
  code `MAX_ITERATIONS` is 16, so that this is granted for builds that select up to 13 of the
  wallet's outputs, and for those alone.

### `OrderbookProofs`

- `OrdersWholeHolds`, `PayoutBoundedHolds`: any number of requests, prices, fees, amounts,
  decimals and slippages. `IntakeInv` says of a request what its transaction has inserted at
  each statement (`Served`), that open transactions share no row with each other or with the
  tables (`Apart`), and that every route quoted with a fixed input, or with a fee up to the whole,
  keeps the bound on what it pays (`RouteOK`; any u64 fees, wrapping as they do),
  which is arithmetic on two roundings and a slippage (`RouteBounded` and the lemmas before
  it); the rows of a new order are its own because their ids contain its hash.
- `LevelsRealHolds`: any prices, quantities and depth. `BookInv` says there is a history of
  the venue's side, one for each update id, such that every event, queued or held for a
  snapshot, is right about the ids it covers, and the local book stands at one of them. An
  event that follows on moves the book along the history; one that does not is skipped or
  answered with a snapshot, which is the history's last.
- `PriceRecentHolds`: any thresholds and ticks, any number of venues and aggregators.
  `BooksOK`: a book that is not marked stale was updated within its threshold and one
  second, or its threshold alone once the staleness worker has looked at it, in copies of
  this second; `SnapOK`: the price is as old as that and the time since the worker's round
  (`SinceRound`).
- `ExactGroupsTwoSidedHolds`: any assets, lists and groups. `PolicyInv`: strategies come
  from the policy that is built from what is served, of whatever version.

### `StackerProofs`

- `KeeperNeverStuckHolds`: any strategies, ticks, runs and clocks. The claim is inductive
  once it is known what a tick holds at each of its awaits (`TicksFit`): an
  execution of the strategy it works on, which is given an outcome before the row is opened.
- `DelegatedIsRecordedHolds`: `SentInv` compares sums: what is bonded and what is in
  transactions under way is at most the amounts of the executions, less those written and
  not yet broadcast (`Unsent`). A step moves one term from one sum to the other.
- `UnbondCoveredHolds`: any quotes and pool figures. `VaultInv` relates positions, runs and
  deposits: a snapshot is what a transaction of the run bonded, what a deposit of this epoch
  bonded is still there, and the share a run has read is still in the position, since no one
  else writes it.

### `CustomerProofs`

- `SecretOutlivesDepositHolds`: any orders and page loads. `BrowserInv` moves the claim back
  to the moment an order is committed, before the wallet is asked: from there until it has
  settled the secret is kept, or the hook has given the order up.
- `NoneUntriedHolds`: any number of withdrawals and restarts. `FinalizerInv` says at which
  sequence the process is in each of its steps, and that all below the file's and its own
  has been tried; what is tried stays tried.
- `ShownFinalIsDueHolds`: any number of overlapping polls. Patches are merged field by field
  into a record that another poll may have changed meanwhile; `TrackerInv` therefore states
  what holds of a record one field at a time (`Sound`), for the stored one and for both
  copies of every poll. Every part of it is stable: outputs are not withdrawn, what is
  released stays released, and time goes on.

### `SumLemmas`

Amounts are summed with the community modules' folds, and the prover has no induction over
data. A sum over a finite set is a sum over a recursive function chosen by `CHOOSE`; that it
exists and is unique is proved with the library's well-founded *minimum* instead: if it
failed there would be a smallest subset for which it fails. From that follow the lemmas the
proofs cite: a sum of naturals is one, a term can be taken out, a part is at most the whole,
sums over places and over the set they name agree, sums add up, and a finite set of naturals
can be listed in order.

### Assumptions

What the proofs need beyond the types of constants, and why the code grants it:

| Assumption | Needed for | In the code |
| --- | --- | --- |
| `ResetThreshold > 0`, `2 * ResetThreshold <= SeqMax` | `NodeIsHeardHolds` | `RESET_THRESHOLD` is 1000, numbers are `u32` (`zmq_events.rs`) |
| `OutputSize`, `InputSize - OutputSize` above `SizeTolerance` | `FeeEnoughHolds` | `SIZE_TOLERANCE` is 2 bytes; an output has 31 or more, an input 41 and its witness, and the wallet's more than its change output |
| `MaxIterations >= Cardinality(Coin) + 3` | `FeeJustRightHolds` | not granted for wallets with more than 13 outputs: a hypothesis; `FeeJustRightWithRoundsLeft` asks it of the build at hand |
| finite sets of outputs and coins | sums | a wallet lists finitely many |
| `Paid \cap Claimed = {}` | `ExCachedIsDoneHolds` | the mapper returns one action per side of an order |
| `MaxSlippage < Bps < Word`, prices above 0 | `PayoutBoundedHolds` | configuration, and 10_000 < 2^64; quotes without a price are refused. Fees are any numbers below `Word` |
| `Spend \subseteq Request`, the other requests take an output | all of `BtcWalletProofs` | a send adds its recipient to the batch's outputs, a spend only if it has one (`request_output_count`, `planner.rs`) |
| `"funding" \notin Glitches` | `HeldOnceHolds`, `RowsMirrorMemoryHolds` | not granted: a hypothesis, see above |
| no lost answer | `RecordCorrect` | not granted: a hypothesis, see wallet_lost_reply |

### Only model-checked

Every safety invariant of a passing run has a theorem. What is left:

- Liveness: `DepositBlockRecorded`, `SpendRecorded`, `EvmRecorded`, `ExActsInTheEnd`,
  `SolSpendRecorded`, `SolSettles`, `LockReleased`, `OutcomeRecorded`, `SourceSettled`,
  `InitiateHeals`, `EventuallyPaid`. The prover has neither fairness nor ENABLED.
- The violations, which are counterexamples.

## 10. Not modelled

- *Of the trade:* several orders at once (they share nothing but balances, and the wallet);
  partial fills; initia-executor's redeemer, for trades whose source is Initia; the limits
  of solver-orders; Rbf actions and `submit_and_wait` in the wallet (the planner never emits
  the first, nothing calls the second).
- *Of the services:* several chains in one process (their tasks share only the table); the
  time columns of rows; Starknet and Sui, of which only the derivation of swap ids is
  in the repository's services; read-only handlers.
- *Of the platform:* registration of users and merchants, the yield figures and reward
  withdrawals of the stacker (confirm accepts any hash, any number of times, so there
  is nothing to promise); venues that replace whole books; quotes across several pairs.
- *Not at all:* the orderbook's command line tool (one trade by hand, in sequence);
  clients and keys (I/O, a choice in the modules that use them); the fiat, quote, api and
  utils crates (stateless helpers and types); the rollup's launch, deploy and
  seed scripts, which run once; configuration, encoding and presentation.
