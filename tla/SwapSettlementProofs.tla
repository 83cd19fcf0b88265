------------------------ MODULE SwapSettlementProofs ------------------------
(***************************************************************************)
(* Proofs about SwapSettlement, for every timelock, every bound and every  *)
(* choice of Surprises: its type invariant, the inductive invariant Inv    *)
(* that follows a claim from the chain to the row, the cache, btc-executor *)
(* and back to the chain, the safety properties it implies, and the        *)
(* refinement of AtomicSwap.                                               *)
(***************************************************************************)
EXTENDS SwapSettlement, TLAPS

-----------------------------------------------------------------------------
(* Updating one field of a row.                                            *)

\* Writing one field of the source half leaves a row, and the other fields
\* as they were (BtcWatcherStores, BackfillInitiate).
LEMMA SrcUpdate ==
  ASSUME NEW r \in Row, NEW f \in {"init", "redeem", "refund"}, NEW v \in Seen
  PROVE  LET r2 == [r EXCEPT !.src[f] = v]
         IN  /\ r2 \in Row
             /\ r2.dst = r.dst
             /\ r2.src[f] = v
             /\ \A g \in {"init", "redeem", "refund"} \ {f} : r2.src[g] = r.src[g]
BY DEF Row, SrcRow, DstRow, Seen

\* The same for the destination half (ReceiptRecorded, InitiaWatcherStores).
LEMMA DstUpdate ==
  ASSUME NEW r \in Row, NEW f \in {"init", "redeem", "refund"}
  PROVE  LET r2 == [r EXCEPT !.dst[f] = TRUE]
         IN  /\ r2 \in Row
             /\ r2.src = r.src
             /\ r2.dst[f] = TRUE
             /\ \A g \in {"init", "redeem", "refund"} \ {f} : r2.dst[g] = r.dst[g]
BY DEF Row, SrcRow, DstRow, Seen
-----------------------------------------------------------------------------
(* Type correctness.                                                       *)

\* The initial states have their types.
LEMMA InitTypeOK == Init => TypeOK
<1> SUFFICES ASSUME Init PROVE TypeOK
    OBVIOUS
<1>1. row \in Row
      BY DEF Init, Row, SrcRow, DstRow, Seen
<1>2. overdue \in BOOLEAN /\ btcExec = "idle"
      BY DEF Init
<1> QED
    BY <1>1, <1>2, TimelockAssumption DEF Init, TypeOK, Task, Branch, Closed, SwapEvent

\* The two chains and the customer leave every variable in its domain,
LEMMA ChainsTypeOK == TypeOK /\ Chains => TypeOK'
<1> SUFFICES ASSUME TypeOK, Chains PROVE TypeOK'
    OBVIOUS
<1> USE DEF TypeOK, iniVars, btcVars
<1>1. CASE UserDeposits
      BY <1>1 DEF UserDeposits
<1>2. CASE DepositMined
      BY <1>2 DEF DepositMined
<1>3. CASE DepositEvicted
      BY <1>3 DEF DepositEvicted
<1>4. CASE BtcBlock
      BY <1>4 DEF BtcBlock
<1>5. CASE IniBlock
      BY <1>5 DEF IniBlock
<1>6. CASE UserRefunds
      BY <1>6 DEF UserRefunds, Branch
<1>7. CASE SpendMined
      BY <1>7 DEF SpendMined
<1>8. CASE SpendEvicted
      BY <1>8 DEF SpendEvicted
<1>9. QED BY <1>1, <1>2, <1>3, <1>4, <1>5, <1>6, <1>7, <1>8 DEF Chains

\* as do btc-watcher's observations and writes,
LEMMA BtcWatcherTypeOK == TypeOK /\ BtcWatcher => TypeOK'
<1> SUFFICES ASSUME TypeOK, BtcWatcher PROVE TypeOK'
    OBVIOUS
<1>1. ASSUME NEW e \in SwapEvent, BtcWatcherObserves(e) PROVE TypeOK'
      BY <1>1 DEF TypeOK, BtcWatcherObserves, chainVars, iniVars, btcVars
<1>2. ASSUME NEW e \in SwapEvent, BtcWatcherStores(e) PROVE TypeOK'
      BY <1>2, SrcUpdate DEF TypeOK, BtcWatcherStores, SwapEvent, Seen, chainVars,
         iniVars, btcVars
<1>3. CASE BtcWatcherBlacklists
      BY <1>3 DEF TypeOK, BtcWatcherBlacklists, Row, chainVars, iniVars, btcVars
<1>4. CASE BackfillInitiate
      BY <1>4 DEF TypeOK, BackfillInitiate, Row, SrcRow, Seen, chainVars, iniVars,
         btcVars
<1>5. CASE BufferPasses
      BY <1>5 DEF TypeOK, BufferPasses, chainVars, iniVars
<1>6. QED BY <1>1, <1>2, <1>3, <1>4, <1>5 DEF BtcWatcher

\* the copy solver-orders takes,
LEMMA SyncCacheTypeOK == TypeOK /\ SyncCache => TypeOK'
BY DEF TypeOK, SyncCache, chainVars, iniVars, btcVars

\* the tasks of initia-executor,
LEMMA InitiaExecutorTypeOK == TypeOK /\ InitiaExecutor => TypeOK'
<1> SUFFICES ASSUME TypeOK, InitiaExecutor PROVE TypeOK'
    OBVIOUS
<1> USE DEF chainVars, btcVars, Task
<1>1. CASE InitiatorPolls \/ RefunderPolls \/ BrowserReveals \/ SecretChecked
      BY <1>1, ZenonT(40) DEF TypeOK, InitiatorPolls, RefunderPolls, BrowserReveals, SecretChecked
<1>2. ASSUME NEW t \in Task, TaskSends(t) PROVE TypeOK'
      BY <1>2 DEF TypeOK, TaskSends
<1>3. ASSUME NEW t \in Task, TxExecuted(t) PROVE TypeOK'
      BY <1>3 DEF TypeOK, TxExecuted, Outcome, Closed
<1>4. ASSUME NEW t \in Task, ReceiptRecorded(t) PROVE TypeOK'
  <2>1. FieldOf(t) \in {"init", "redeem", "refund"}
        BY DEF FieldOf
  <2>2. row' \in Row
        BY <1>4, <2>1, DstUpdate DEF TypeOK, ReceiptRecorded
  <2>3. QED BY <1>4, <2>2 DEF TypeOK, ReceiptRecorded
<1>5. CASE InitiaExecutorCrashes
      BY <1>5 DEF TypeOK, InitiaExecutorCrashes
<1>6. QED BY <1>1, <1>2, <1>3, <1>4, <1>5 DEF InitiaExecutor

\* the logs initia-watcher stores,
LEMMA InitiaWatcherTypeOK == TypeOK /\ InitiaWatcher => TypeOK'
<1> SUFFICES ASSUME TypeOK, InitiaWatcher PROVE TypeOK'
    OBVIOUS
<1>1. CASE InitiaWatcherStores
  <2>1. LogField \in {"init", "redeem", "refund"}
        BY DEF LogField
  <2>2. row' \in Row
        BY <1>1, <2>1, DstUpdate DEF TypeOK, InitiaWatcherStores
  <2>3. QED BY <1>1, <2>2 DEF TypeOK, InitiaWatcherStores, chainVars, btcVars
<1>2. CASE InitiaWatcherSkips
      BY <1>2 DEF TypeOK, InitiaWatcherSkips, chainVars, btcVars
<1>3. QED BY <1>1, <1>2 DEF InitiaWatcher

\* btc-executor and its wallet,
LEMMA BtcExecutorTypeOK == TypeOK /\ BtcExecutor => TypeOK'
<1> SUFFICES ASSUME TypeOK, BtcExecutor PROVE TypeOK'
    OBVIOUS
<1> USE DEF chainVars, iniVars, btcVars
<1>1. CASE BtcExecutorPolls
      BY <1>1 DEF TypeOK, BtcExecutorPolls, SourceAction
<1>2. CASE BtcExecutorSubmits
      BY <1>2 DEF TypeOK, BtcExecutorSubmits
<1>3. CASE BtcExecutorCrashes
      BY <1>3 DEF TypeOK, BtcExecutorCrashes
<1>4. ASSUME NEW a \in {"redeem", "instant"}, WalletBroadcasts(a) PROVE TypeOK'
      BY <1>4 DEF TypeOK, WalletBroadcasts, Branch
<1>5. QED BY <1>1, <1>2, <1>3, <1>4 DEF BtcExecutor

\* and a stuttering step.
LEMMA StutterTypeOK == TypeOK /\ UNCHANGED vars => TypeOK'
BY DEF TypeOK, vars, chainVars, iniVars, btcVars

\* Whatever the processes, the chains and the customer do, every variable
\* stays in its domain.
THEOREM TypeCorrect == Spec => []TypeOK
<1>1. TypeOK /\ [Next]_vars => TypeOK'
      BY ChainsTypeOK, BtcWatcherTypeOK, SyncCacheTypeOK, InitiaExecutorTypeOK,
         InitiaWatcherTypeOK, BtcExecutorTypeOK, StutterTypeOK DEF Next
<1>2. QED BY InitTypeOK, <1>1, PTL DEF Spec
-----------------------------------------------------------------------------
(* The inductive invariant. Nothing about the spending of the deposit      *)
(* follows from the row, which lags; what does hold is that every copy of  *)
(* a fact - a row, a cached row, an event, a pending transaction, a wallet *)
(* request - is no newer than the chain it came from.                      *)

Paid == deposit # "no"

\* Nothing is known, queued or locked for an order nobody paid into.
PaidInv ==
  /\ \A r \in cached \cup {row} : r.src.init # "no" => Paid
  /\ btcEvents # {} => Paid
  /\ svc["initiator"] # "idle" => Paid
  /\ tx["initiator"] # "none" => Paid
  /\ lock # "none" => Paid
  /\ spend.branch # "no" => Paid
  /\ spend.mined => deposit = "block" /\ spend.branch # "no"

\* The destination half of every copy of the row lags behind the lock, and a
\* transaction that has executed, reverted or not, leaves the lock where its
\* task will say it is.
LockInv ==
  /\ \A r \in cached \cup {row} :
       /\ r.dst.init => lock # "none"
       /\ r.dst.redeem \/ r.dst.refund => lock \in Closed
  /\ tx["initiator"] \in {"ok", "reverted"} => lock # "none"
  /\ tx["refunder"] # "none" => lock # "none" /\ lockAge >= DstTimelock
  /\ tx["refunder"] \in {"ok", "reverted"} => lock \in Closed
  /\ tx["secret"] # "none" => lock # "none"
  /\ tx["secret"] \in {"ok", "reverted"} => lock \in Closed

\* A claim of the deposit starts from a copy of the row with the secret, and
\* everything the watcher reports of it from the wallet's request.
ClaimInv ==
  /\ "redeem" \in requests \cup {btcExec} => lock \in Closed
  /\ spend.branch = "redeem" => "redeem" \in requests
  /\ \A e \in btcEvents : e[1] = "redeem" => "redeem" \in requests
  /\ row.src.redeem # "no" => "redeem" \in requests

Inv == TypeOK /\ PaidInv /\ LockInv /\ ClaimInv

\* A trade that has not begun satisfies Inv.
LEMMA InitInv == Init => Inv
BY InitTypeOK DEF Init, Inv, PaidInv, LockInv, ClaimInv, Task

\* No chain step takes back what a copy already reports.
LEMMA ChainsInv == Inv /\ Chains => Inv'
<1> SUFFICES ASSUME Inv, Chains PROVE Inv'
    OBVIOUS
<1> USE DEF Inv, PaidInv, LockInv, ClaimInv, Paid, iniVars, btcVars
<1>0. TypeOK'
      BY ChainsTypeOK
<1>1. CASE UserDeposits
      BY <1>0, <1>1 DEF UserDeposits
<1>2. CASE DepositMined \/ DepositEvicted
      BY <1>0, <1>2 DEF DepositMined, DepositEvicted
<1>3. CASE BtcBlock \/ IniBlock
      BY <1>0, <1>3, TimelockAssumption DEF BtcBlock, IniBlock, TypeOK
<1>4. CASE UserRefunds
      BY <1>0, <1>4 DEF UserRefunds
<1>5. CASE SpendMined
      BY <1>0, <1>5 DEF SpendMined, TypeOK
<1>6. CASE SpendEvicted
      BY <1>0, <1>6 DEF SpendEvicted
<1>7. QED BY <1>1, <1>2, <1>3, <1>4, <1>5, <1>6 DEF Chains

\* What btc-watcher writes was observed on the chain before.
LEMMA BtcWatcherInv == Inv /\ BtcWatcher => Inv'
<1> SUFFICES ASSUME Inv, BtcWatcher PROVE Inv'
    OBVIOUS
<1> USE DEF Inv, PaidInv, LockInv, ClaimInv, Paid, chainVars, iniVars, btcVars
<1>0. TypeOK'
      BY BtcWatcherTypeOK
<1>1. ASSUME NEW e \in SwapEvent, BtcWatcherObserves(e) PROVE Inv'
  <2>1. Paid
        BY <1>1 DEF BtcWatcherObserves, ChainEvents
  <2>2. e[1] = "redeem" => spend.branch = "redeem"
        BY <1>1 DEF BtcWatcherObserves, ChainEvents
  <2>3. QED BY <1>0, <1>1, <2>1, <2>2 DEF BtcWatcherObserves
<1>2. ASSUME NEW e \in SwapEvent, BtcWatcherStores(e) PROVE Inv'
  <2>1. e[1] \in {"init", "redeem", "refund"} /\ e[2] \in Seen
        BY DEF SwapEvent, Seen
  <2>2. /\ row'.dst = row.dst
        /\ row'.src.init # "no" => Paid
        /\ row'.src.redeem # "no" => "redeem" \in requests
        BY <1>2, <2>1, SrcUpdate DEF BtcWatcherStores, TypeOK
  <2>3. QED BY <1>0, <1>2, <2>2 DEF BtcWatcherStores
<1>3. CASE BtcWatcherBlacklists
      BY <1>0, <1>3 DEF BtcWatcherBlacklists, TypeOK, Row
<1>4. CASE BackfillInitiate
      BY <1>0, <1>4 DEF BackfillInitiate, TypeOK, Row, SrcRow
<1>5. CASE BufferPasses
      BY <1>0, <1>5 DEF BufferPasses
<1>6. QED BY <1>1, <1>2, <1>3, <1>4, <1>5 DEF BtcWatcher

\* A copy of a row that satisfies Inv does.
LEMMA SyncCacheInv == Inv /\ SyncCache => Inv'
BY SyncCacheTypeOK DEF Inv, PaidInv, LockInv, ClaimInv, Paid, SyncCache,
   chainVars, iniVars, btcVars

\* A task sends and records only what the row and the lock allow.
LEMMA InitiaExecutorInv == Inv /\ InitiaExecutor => Inv'
<1> SUFFICES ASSUME Inv, InitiaExecutor PROVE Inv'
    OBVIOUS
<1> USE DEF Inv, PaidInv, LockInv, ClaimInv, Paid, chainVars, btcVars, Task
<1>0. TypeOK'
      BY InitiaExecutorTypeOK
<1>1. CASE InitiatorPolls
      BY <1>0, <1>1 DEF InitiatorPolls, CanInitiate, TypeOK
<1>2. CASE RefunderPolls \/ BrowserReveals \/ SecretChecked
      BY <1>0, <1>2 DEF RefunderPolls, BrowserReveals, SecretChecked, TypeOK
<1>3. ASSUME NEW t \in Task, TaskSends(t) PROVE Inv'
      BY <1>0, <1>3, ZenonT(40) DEF TaskSends, Accepted, TypeOK
<1>4. ASSUME NEW t \in Task, TxExecuted(t) PROVE Inv'
      BY <1>0, <1>4 DEF TxExecuted, Accepted, Outcome, Closed, TypeOK
<1>5. ASSUME NEW t \in Task, ReceiptRecorded(t) PROVE Inv'
  <2>1. /\ row'.src = row.src
        /\ row'.dst.init => lock # "none"
        /\ row'.dst.redeem \/ row'.dst.refund => lock \in Closed
        BY <1>5, DstUpdate DEF ReceiptRecorded, FieldOf, TypeOK
  <2>2. QED BY <1>0, <1>5, <2>1 DEF ReceiptRecorded, TypeOK
<1>6. CASE InitiaExecutorCrashes
      BY <1>0, <1>6 DEF InitiaExecutorCrashes, TypeOK
<1>7. QED BY <1>1, <1>2, <1>3, <1>4, <1>5, <1>6 DEF InitiaExecutor

\* A log is stored after the contract has emitted it.
LEMMA InitiaWatcherInv == Inv /\ InitiaWatcher => Inv'
<1> SUFFICES ASSUME Inv, InitiaWatcher PROVE Inv'
    OBVIOUS
<1> USE DEF Inv, PaidInv, LockInv, ClaimInv, Paid, chainVars, btcVars
<1>0. TypeOK'
      BY InitiaWatcherTypeOK
<1>1. CASE InitiaWatcherStores
  <2>1. /\ LogField \in {"init", "redeem", "refund"}
        /\ LogField = "init" => lock # "none"
        /\ LogField \in {"redeem", "refund"} => lock \in Closed
        BY <1>1 DEF InitiaWatcherStores, LogField, LogCount, Closed, TypeOK
  <2>2. /\ row'.src = row.src
        /\ row'.dst.init => lock # "none"
        /\ row'.dst.redeem \/ row'.dst.refund => lock \in Closed
        BY <1>1, <2>1, DstUpdate DEF InitiaWatcherStores, TypeOK
  <2>3. QED BY <1>0, <1>1, <2>2 DEF InitiaWatcherStores
<1>2. CASE InitiaWatcherSkips
      BY <1>0, <1>2 DEF InitiaWatcherSkips
<1>3. QED BY <1>1, <1>2 DEF InitiaWatcher

\* A claim is mapped from a copy whose secret means a closed lock.
LEMMA BtcExecutorInv == Inv /\ BtcExecutor => Inv'
<1> SUFFICES ASSUME Inv, BtcExecutor PROVE Inv'
    OBVIOUS
<1> USE DEF Inv, PaidInv, LockInv, ClaimInv, Paid, chainVars, iniVars, btcVars
<1>0. TypeOK'
      BY BtcExecutorTypeOK
<1>1. CASE BtcExecutorPolls
  <2>1. PICK r \in cached, wanted \in BOOLEAN :
          btcExec' \in {SourceAction(r, wanted)} \ ({"idle"} \cup requests)
        BY <1>1 DEF BtcExecutorPolls
  <2>2. btcExec' = "redeem" => r.dst.redeem
        BY <2>1 DEF SourceAction, CanRedeem, ForceSourceRedeem
  <2>3. QED BY <1>0, <1>1, <2>2 DEF BtcExecutorPolls
<1>2. CASE BtcExecutorSubmits
      BY <1>0, <1>2 DEF BtcExecutorSubmits
<1>3. CASE BtcExecutorCrashes
      BY <1>0, <1>3 DEF BtcExecutorCrashes
<1>4. ASSUME NEW a \in {"redeem", "instant"}, WalletBroadcasts(a) PROVE Inv'
      BY <1>0, <1>4 DEF WalletBroadcasts, Spendable
<1>5. QED BY <1>1, <1>2, <1>3, <1>4 DEF BtcExecutor

\* A stuttering step keeps Inv.
LEMMA StutterInv == Inv /\ UNCHANGED vars => Inv'
BY StutterTypeOK DEF Inv, PaidInv, LockInv, ClaimInv, Paid, vars, chainVars,
   iniVars, btcVars

\* Inv holds in every reachable state of the settlement pipeline.
THEOREM InvHolds == Spec => []Inv
<1>1. Inv /\ [Next]_vars => Inv'
      BY ChainsInv, BtcWatcherInv, SyncCacheInv, InitiaExecutorInv,
         InitiaWatcherInv, BtcExecutorInv, StutterInv DEF Next
<1>2. QED BY InitInv, <1>1, PTL DEF Spec

\* The row never reports a step its chain has not reached, whichever of the
\* writers of update_swap_* comes first, last or twice.
THEOREM RowCorrect == Spec => []RowNeverAheadOfChain
<1>1. Inv => RowNeverAheadOfChain
      BY DEF Inv, PaidInv, LockInv, ClaimInv, Paid, RowNeverAheadOfChain
<1>2. QED BY InvHolds, <1>1, PTL

\* btc-executor and the wallet claim the deposit only when the destination
\* HTLC is closed.
THEOREM ClaimCorrect == Spec => []ClaimOnlyAfterDestinationClosed
<1>1. Inv => ClaimOnlyAfterDestinationClosed
      BY DEF Inv, ClaimInv, ClaimOnlyAfterDestinationClosed
<1>2. QED BY InvHolds, <1>1, PTL
-----------------------------------------------------------------------------
(* The pipeline implements AtomicSwap. Only the chains' own steps, the     *)
(* execution of a transaction and the wallet's broadcast touch what        *)
(* AtomicSwap sees; every other step stutters.                             *)

\* The initial states are initial states of the atomic swap.
LEMMA InitSwap == Init => Swap!Init
BY DEF Init, Swap!Init

\* A step that leaves the two ledgers alone is a stutter of AtomicSwap.
LEMMA StutterSwap == UNCHANGED <<deposit, spend, lock>> => UNCHANGED Swap!vars
BY DEF Swap!vars

\* Each step of the chains is a step of AtomicSwap or a stutter.
LEMMA ChainsSwap == Inv /\ Chains => [Swap!Next]_Swap!vars
<1> SUFFICES ASSUME Inv, Chains PROVE Swap!Next \/ UNCHANGED Swap!vars
    OBVIOUS
<1> USE DEF Inv, TypeOK, PaidInv, LockInv, ClaimInv, Paid
<1>1. CASE UserDeposits
  <2>1. Swap!Fund
        BY <1>1 DEF UserDeposits, Swap!Fund
  <2>2. QED BY <2>1 DEF Swap!Next
<1>2. CASE DepositMined
      BY <1>2 DEF DepositMined, Swap!vars
<1>3. CASE DepositEvicted
  <2>1. Swap!Vanish
        BY <1>3 DEF DepositEvicted, Swap!Vanish
  <2>2. QED BY <2>1 DEF Swap!Next
<1>4. CASE BtcBlock \/ IniBlock
      BY <1>4, StutterSwap DEF BtcBlock, IniBlock
<1>5. CASE UserRefunds
      BY <1>5 DEF UserRefunds, Spendable, Swap!vars
<1>6. CASE SpendMined
  <2>1. CASE spend.branch = "redeem"
    <3>1. lock \in Closed
          BY <2>1
    <3>2. Swap!ClaimSrc
          BY <1>6, <2>1, <3>1 DEF SpendMined, Swap!ClaimSrc, Closed, Branch
    <3>3. QED BY <3>2 DEF Swap!Next
  <2>2. CASE spend.branch # "redeem"
    <3>1. Swap!ReturnSrc
          BY <1>6, <2>2 DEF SpendMined, Swap!ReturnSrc
    <3>2. QED BY <3>1 DEF Swap!Next
  <2>3. QED BY <2>1, <2>2
<1>7. CASE SpendEvicted
      BY <1>7 DEF SpendEvicted, Swap!vars
<1>8. QED BY <1>1, <1>2, <1>3, <1>4, <1>5, <1>6, <1>7 DEF Chains

\* A mined transaction of initia-executor locks, redeems or refunds the destination.
LEMMA TxExecutedSwap ==
  ASSUME Inv, NEW t \in Task, TxExecuted(t)
  PROVE  Swap!Next \/ UNCHANGED Swap!vars
<1> USE DEF Inv, TypeOK, PaidInv, LockInv, Paid, Task
<1>1. CASE ~Accepted(t)
      BY <1>1, StutterSwap DEF TxExecuted
<1>2. CASE Accepted(t) /\ t = "initiator"
  <2>1. Paid /\ lock = "none" /\ lock' = "locked" /\ UNCHANGED <<deposit, spend>>
        BY <1>2 DEF TxExecuted, Accepted, Outcome
  <2>2. Swap!LockDst
        BY <2>1 DEF Swap!LockDst
  <2>3. QED BY <2>2 DEF Swap!Next
<1>3. CASE Accepted(t) /\ t # "initiator"
  <2>1. lock = "locked" /\ lock' \in Closed /\ UNCHANGED <<deposit, spend>>
        BY <1>3 DEF TxExecuted, Accepted, Outcome, Closed
  <2>2. Swap!CloseDst
        BY <2>1 DEF Swap!CloseDst, Closed
  <2>3. QED BY <2>2 DEF Swap!Next
<1>4. QED BY <1>1, <1>2, <1>3

\* The wallet's broadcast is a stutter: a claim counts once it is mined.
LEMMA BroadcastSwap ==
  ASSUME Inv, NEW a \in {"redeem", "instant"}, WalletBroadcasts(a)
  PROVE  UNCHANGED Swap!vars
BY DEF Inv, TypeOK, PaidInv, WalletBroadcasts, Spendable, Swap!vars

\* Every behaviour of the pipeline is a behaviour of the two-ledger trade: the
\* solver locks only for an order somebody paid into and takes the deposit
\* only when its own leg is closed.
THEOREM SwapRefinement == Spec => SwapSpec
<1>1. Inv /\ [Next]_vars => [Swap!Next]_Swap!vars
  <2> SUFFICES ASSUME Inv, [Next]_vars PROVE Swap!Next \/ UNCHANGED Swap!vars
      OBVIOUS
  <2>1. CASE Chains
        BY <2>1, ChainsSwap
  <2>2. CASE BtcWatcher \/ SyncCache
        BY <2>2, StutterSwap DEF BtcWatcher, SyncCache, BtcWatcherObserves,
           BtcWatcherStores, BtcWatcherBlacklists, BackfillInitiate, BufferPasses,
           chainVars
  <2>3. CASE InitiaExecutor
    <3>1. CASE \E t \in Task : TxExecuted(t)
          BY <3>1, TxExecutedSwap
    <3>2. CASE \E t \in Task : TaskSends(t) \/ ReceiptRecorded(t)
          BY <3>2, StutterSwap DEF TaskSends, ReceiptRecorded, chainVars
    <3>3. CASE \/ InitiatorPolls \/ RefunderPolls \/ BrowserReveals
               \/ SecretChecked \/ InitiaExecutorCrashes
          BY <3>3, StutterSwap DEF InitiatorPolls, RefunderPolls, BrowserReveals,
             SecretChecked, InitiaExecutorCrashes, chainVars
    <3>4. QED BY <2>3, <3>1, <3>2, <3>3 DEF InitiaExecutor
  <2>4. CASE InitiaWatcher
        BY <2>4, StutterSwap DEF InitiaWatcher, InitiaWatcherStores,
           InitiaWatcherSkips, chainVars
  <2>5. CASE BtcExecutor
    <3>1. CASE \E a \in {"redeem", "instant"} : WalletBroadcasts(a)
          BY <3>1, BroadcastSwap
    <3>2. CASE BtcExecutorPolls \/ BtcExecutorSubmits \/ BtcExecutorCrashes
          BY <3>2, StutterSwap DEF BtcExecutorPolls, BtcExecutorSubmits,
             BtcExecutorCrashes, chainVars
    <3>3. QED BY <2>5, <3>1, <3>2 DEF BtcExecutor
  <2>6. CASE UNCHANGED vars
        BY <2>6, StutterSwap DEF vars, chainVars
  <2>7. QED BY <2>1, <2>2, <2>3, <2>4, <2>5, <2>6 DEF Next
<1>2. QED BY InitSwap, InvHolds, <1>1, PTL DEF Spec, SwapSpec, Swap!Spec
=============================================================================
