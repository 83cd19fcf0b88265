---------------------------- MODULE EvmExecutor ----------------------------
(***************************************************************************)
(* evm-executor on one chain: the loop of Executor::run, its cache, the     *)
(* transactions of its account and PendingTxHandler, which watches and       *)
(* replaces them, while users act on the same HTLCs and the rows lag.        *)
(*                                                                          *)
(* A transaction is sent with the account's next nonce, so that of those     *)
(* that wait one is mined and the others are void. An order's swap on this    *)
(* chain is one the solver pays (it initiates it, and refunds it when it      *)
(* expires) or one it claims (it redeems it, or gives it back with its        *)
(* signature). A chunk is a whole batch: BATCH_LIMIT is not reached.          *)
(***************************************************************************)
EXTENDS Integers, Sequences, FiniteSets

CONSTANTS
  Paid,            \* orders whose swap on the chain the solver initiates
  Claimed,         \* orders whose swap on the chain it redeems
  TxSlots,         \* bound: transactions that are waiting or watched
  MaxReplacements  \* MAX_REPLACEMENT_ATTEMPTS

ASSUME ExecutorConstants ==
  /\ Paid \cap Claimed = {}
  /\ {TxSlots, MaxReplacements} \subseteq Nat

VARIABLES
  exChain,   \* the HTLCs
  exExpired, \* swaps whose timelock has passed
  exRow,     \* the swaps' rows, behind the chain
  exTx,      \* the account's transactions, by slot: status and batch
  exCache,   \* requests done, for an hour
  exRun      \* where the loop is: its step, its batch and the handler's state

exOutside == <<exChain, exExpired, exRow>>
exVars == <<exOutside, exTx, exCache, exRun>>

ExOrder == Paid \cup Claimed
ExAction == {"Initiate", "Redeem", "Refund", "InstantRefund"}
ExRequest == [order : ExOrder, act : ExAction]
ExSlot == 1 .. TxSlots
UnusedTx == [status |-> "void", batch |-> {}]
ExIdle == [step |-> "idle", batch |-> {}, hash |-> 0, queue |-> <<>>,
           attempts |-> 0]

-----------------------------------------------------------------------------
(* The contract.                                                           *)

Performable(req) ==
  IF req.act = "Initiate" THEN exChain[req.order] = "none"
  ELSE /\ exChain[req.order] = "initiated"
       /\ req.act = "Refund" => req.order \in exExpired

Done(act) == CASE act = "Initiate" -> "initiated" [] act = "Redeem" -> "redeemed"
               [] act \in {"Refund", "InstantRefund"} -> "refunded"

Performed(batch) ==
  [o \in ExOrder |-> IF \E req \in batch : req.order = o
                     THEN Done((CHOOSE req \in batch : req.order = o).act)
                     ELSE exChain[o]]

\* The user redeems what was paid, or refunds what was to be claimed.
ExUserActs(o) ==
  /\ exChain[o] = "initiated"
  /\ o \in Claimed => o \in exExpired
  /\ exChain' = [exChain EXCEPT ![o] = IF o \in Paid THEN "redeemed"
                                       ELSE "refunded"]
  /\ UNCHANGED <<exExpired, exRow, exTx, exCache, exRun>>

ExExpires(o) ==
  /\ exRow[o] # "absent" /\ exChain[o] = "initiated" /\ o \notin exExpired
  /\ exExpired' = exExpired \cup {o}
  /\ UNCHANGED <<exChain, exRow, exTx, exCache, exRun>>

\* An order comes up: one to pay, or one whose user has initiated.
ExOrderPlaced(o) ==
  /\ exRow[o] = "absent"
  /\ exRow' = [exRow EXCEPT ![o] = exChain[o]]
  /\ UNCHANGED <<exChain, exExpired, exTx, exCache, exRun>>

\* evm-watcher
ExRowCatchesUp(o) ==
  /\ exRow[o] # "absent" /\ exRow[o] # exChain[o]
  /\ exRow' = [exRow EXCEPT ![o] = exChain[o]]
  /\ UNCHANGED <<exChain, exExpired, exTx, exCache, exRun>>

-----------------------------------------------------------------------------
(* The account's transactions.                                             *)

\* Mutant: the calls of a multicall may fail each on its own.
MinedLeniently(batch) ==
  [status |-> "confirmed", done |-> {req \in batch : Performable(req)}]

\* multicall, allow_failure being false: all of it or nothing
MinedResult(batch) ==
  IF \A req \in batch : Performable(req)
  THEN [status |-> "confirmed", done |-> batch]
  ELSE [status |-> "reverted", done |-> {}]

\* What the handler may still look at.
Followed(run) ==
  IF run.step # "watch" THEN {}
  ELSE {run.hash} \cup {run.queue[k] : k \in DOMAIN run.queue}

\* What nobody will look at again needs no slot.
Remembered(txs, run) ==
  [j \in ExSlot |-> IF txs[j].status = "waiting" \/ j \in Followed(run)
                    THEN txs[j] ELSE UnusedTx]

\* The nonce is used up: the others will never be mined.
ExTxMined(i) ==
  LET result == MinedResult(exTx[i].batch)
  IN /\ exTx[i].status = "waiting"
     /\ exTx' = Remembered(
                   [j \in ExSlot |->
                      IF j = i THEN [exTx[i] EXCEPT !.status = result.status]
                      ELSE IF exTx[j].status = "waiting" THEN UnusedTx
                      ELSE exTx[j]], exRun)
     /\ exChain' = Performed(result.done)
     /\ UNCHANGED <<exExpired, exRow, exCache, exRun>>

ExTxDropped(i) ==
  /\ exTx[i].status = "waiting"
  /\ exTx' = [exTx EXCEPT ![i] = UnusedTx]
  /\ UNCHANGED <<exOutside, exCache, exRun>>

\* (the bound on what may wait is that of the slots)
FreeSlots == {i \in ExSlot \ Followed(exRun) : exTx[i].status # "waiting"}

\* The transaction that waits keeps waiting somewhere, but the one sent now
\* is as good.
Sent(i, batch) == exTx' = [exTx EXCEPT ![i] = [status |-> "waiting",
                                               batch |-> batch]]

-----------------------------------------------------------------------------
(* Executor::run                                                           *)

\* get_block_numbers: the mapper compares the timelock with the head the node
\* reports (when it reports none nothing is mapped, see ExFetches).
TimelockOver(o) == o \in exExpired

\* OrderMapper::map, for this chain: see SwapSettlement for the whole of it. A
\* claimed order that its checks of deadline and price refuse, while the secret is
\* unknown, is given back at once; one to pay is not mapped.
Wishes(o, refused) ==
  IF o \in Paid
  THEN (IF exRow[o] = "none" THEN {"Initiate"} ELSE {})
       \cup (IF exRow[o] = "initiated" /\ TimelockOver(o) THEN {"Refund"} ELSE {})
  ELSE IF exRow[o] # "initiated" THEN {}
       ELSE IF o \in refused THEN {"InstantRefund"} ELSE {"Redeem"}

\* Mutant: the key of the cache is the order alone.
CachedByOrder(req) == \E known \in exCache : known.order = req.order

\* filter_cached_requests
ExCached(req) == req \in exCache

\* Orders, block numbers, prepare_requests: some of the orders are not there
\* or cannot be mapped, some are refused for now (prices move both ways).
ExFetches ==
  /\ exRun.step = "idle"
  /\ \E missing \in SUBSET ExOrder, refused \in SUBSET Claimed :
       LET batch == {req \in ExRequest : /\ req.order \notin missing
                                         /\ req.act \in Wishes(req.order, refused)
                                         /\ ~ExCached(req)}
       IN batch # {} /\ exRun' = [ExIdle EXCEPT !.step = "submit", !.batch = batch]
  /\ UNCHANGED <<exOutside, exTx, exCache>>

DryRun(batch) == {req \in batch : Performable(req)}

\* dry_run_and_filter and submi_transaction: where one transaction waits
\* already, with three times the fee. (What happens between the two might as
\* well happen before the transaction is mined.)
ExSubmits ==
  LET valid == DryRun(exRun.batch)
      i == CHOOSE i \in FreeSlots : TRUE
  IN /\ exRun.step = "submit" /\ valid # {} /\ FreeSlots # {}
     /\ Sent(i, valid)
     /\ exRun' = [exRun EXCEPT !.step = "watch", !.batch = valid, !.hash = i]
     /\ UNCHANGED <<exOutside, exCache>>

\* Nothing is left of the batch, or a call fails.
ExGivesUp ==
  /\ exRun.step = "submit"
  /\ exRun' = ExIdle
  /\ UNCHANGED <<exOutside, exTx, exCache>>

-----------------------------------------------------------------------------
(* PendingTxHandler::handle_tx                                             *)

Watched == exTx[exRun.hash]

\* update_cache
ExConfirmed ==
  /\ exRun.step = "watch" /\ Watched.status = "confirmed"
  /\ exCache' = exCache \cup exRun.batch
  /\ exRun' = ExIdle /\ exTx' = Remembered(exTx, ExIdle)
  /\ UNCHANGED exOutside

\* should_replace
MayReplace == exRun.attempts < MaxReplacements

\* submit_replacement_transaction: the same nonce and requests for more fees;
\* the old one is watched still.
ExReplaces ==
  /\ exRun.step = "watch" /\ Watched.status = "waiting"
  /\ MayReplace /\ FreeSlots # {}
  /\ LET i == CHOOSE i \in FreeSlots : TRUE
     IN /\ Sent(i, exRun.batch)
        /\ exRun' = [exRun EXCEPT !.attempts = @ + 1,
                       !.queue = <<i, exRun.hash>> \o @]
  /\ UNCHANGED <<exOutside, exCache>>

\* Mutant: a batch that is given up counts as done.
DropsCached == exCache \cup exRun.batch

DropsKept == exCache

\* Reverted, not found, or not known to this node for the moment: the next
\* of the queue, or the batch is given up.
ExWatchesNext ==
  /\ exRun.step = "watch" /\ Watched.status # "confirmed"
  /\ IF exRun.queue = <<>>
     THEN exRun' = ExIdle /\ exCache' = DropsKept
     ELSE /\ exRun' = [exRun EXCEPT !.hash = Head(exRun.queue),
                                     !.queue = Tail(exRun.queue)]
          /\ UNCHANGED exCache
  /\ exTx' = Remembered(exTx, exRun')
  /\ UNCHANGED exOutside

\* Time to live or capacity.
ExForgets(req) ==
  /\ exCache' = exCache \ {req} /\ exCache' # exCache
  /\ UNCHANGED <<exOutside, exTx, exRun>>

ExecutorRestarts ==
  /\ exCache' = {} /\ exRun' = ExIdle /\ exTx' = Remembered(exTx, ExIdle)
  /\ UNCHANGED exOutside

-----------------------------------------------------------------------------

ExecutorInit ==
  /\ exChain = [o \in ExOrder |-> IF o \in Paid THEN "none" ELSE "initiated"]
  /\ exRow = [o \in ExOrder |-> "absent"] /\ exExpired = {}
  /\ exTx = [i \in ExSlot |-> UnusedTx]
  /\ exCache = {} /\ exRun = ExIdle

ExecutorNext ==
  \/ \E o \in ExOrder : \/ ExOrderPlaced(o) \/ ExRowCatchesUp(o)
                        \/ ExUserActs(o) \/ ExExpires(o)
  \/ \E i \in ExSlot : ExTxMined(i) \/ ExTxDropped(i)
  \/ ExFetches \/ ExSubmits \/ ExGivesUp
  \/ ExConfirmed \/ ExReplaces \/ ExWatchesNext
  \/ \E req \in ExRequest : ExForgets(req)
  \/ ExecutorRestarts

(* The watcher works and the loop goes on. For each order in turn, a batch   *)
(* with it is fetched, its calls succeed and its transaction is mined.       *)
For(o) == \E req \in exRun.batch : req.order = o

ExecutorWeak(n) ==
  CASE n = 1 -> ExGivesUp
    [] n = 2 -> ExConfirmed \/ ExWatchesNext

ExecutorStrong(n, o) ==
  CASE n = 1 -> ExFetches /\ For(o)'
    [] n = 2 -> ExSubmits /\ For(o)'
    [] n = 3 -> \E i \in ExSlot : /\ \E req \in exTx[i].batch : req.order = o
                                 /\ ExTxMined(i)

ExecutorFairness ==
  /\ WF_exVars(\E o \in ExOrder : ExRowCatchesUp(o))
  /\ \A n \in 1 .. 2 : WF_exVars(ExecutorWeak(n))
  /\ \A n \in 1 .. 3, o \in ExOrder : SF_exVars(ExecutorStrong(n, o))

ExecutorSpec == ExecutorInit /\ [][ExecutorNext]_exVars /\ ExecutorFairness

-----------------------------------------------------------------------------
(* What has to hold.                                                       *)

\* A cached request is left alone for an hour. It is done then, whichever of
\* the transactions with the same nonce was mined, whatever the users did
\* between the dry run and the block, and whatever of it the handler missed.
ExCachedIsDone ==
  \A req \in exCache :
    IF req.act = "Initiate" THEN exChain[req.order] # "none"
    ELSE exChain[req.order] = Done(req.act)

\* What the chain still wants of the solver for an order it knows of.
WorkLeft(o) ==
  /\ exRow[o] # "absent"
  /\ IF o \in Paid
     THEN exChain[o] = "none" \/ (exChain[o] = "initiated" /\ o \in exExpired)
     ELSE exChain[o] = "initiated"

\* What the solver has to do is done in the end, unless the user comes first:
\* a paid swap is initiated and given back after its timelock, a claimed one
\* redeemed or given back. One request that cannot be performed any more does
\* not hold up the others of its batch, nor does a batch that was given up.
ExActsInTheEnd ==
  \A o \in ExOrder : []<>~WorkLeft(o)
=============================================================================
