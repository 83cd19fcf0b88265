---------------------------- MODULE StackerVault ----------------------------
(***************************************************************************)
(* The merchant's stake and its way out: the keeper's runs add to what is     *)
(* bonded for the merchant and note it in the strategy's position, from the     *)
(* event of their own transaction if they find it; the API prepares unbonding    *)
(* messages from the position, or else from the pool's price, and the merchant   *)
(* signs them later. Unbonding does not touch the positions.                    *)
(*                                                                         *)
(* All strategies stake in one pool with one validator, each with one run at a  *)
(* time.                                                                    *)
(***************************************************************************)
EXTENDS Integers, Sequences, FiniteSetsExt

CONSTANTS
  VaultStrategy,
  LpQuotes,       \* LP that simulations quote
  SlipLp,         \* LP that maxSlippageBps lets a deposit lose
  UnbondInputs,   \* amounts merchants ask to unbond
  PoolCoins, PoolShares,  \* coin_a_amount and total_share, as they may be read
  WeightReciprocal,
  VaultDeposits,  \* bound on the runs
  Unbonds         \* bound on the unbondings executed

ASSUME VaultAssumption ==
  /\ LpQuotes \subseteq Nat \ {0} /\ UnbondInputs \subseteq Nat \ {0}
  /\ PoolCoins \subseteq Nat /\ PoolShares \subseteq Nat /\ WeightReciprocal \in Nat \ {0}
  /\ {SlipLp, VaultDeposits, Unbonds} \subseteq Nat

VARIABLES
  vtMode,      \* KEEPER_MODE: live or dry-run
  vtBonded,    \* get_bonded_locked_delegations: LP bonded for the merchant
  vtEpoch,     \* unbondings executed so far
  vtPosition,  \* positions: lastDelegatedLpBalance and lockedShare of lastRewardSnapshot
  vtRun,       \* the run of each strategy
  vtTx,        \* the transactions of the runs
  vtPrepared,  \* unbonding messages that are not signed yet
  vtSeen       \* per strategy the epoch of the last deposit whose event was found

vaultVars ==
  <<vtMode, vtBonded, vtEpoch, vtPosition, vtRun, vtTx, vtPrepared, vtSeen>>

Untold == 0
NoPosition == [delegated |-> Untold, locked |-> Untold]
NoVaultRun == [pc |-> "idle", tx |-> 0, snapshot |-> Untold, old |-> Untold, read |-> 0]

VaultInit ==
  /\ vtMode \in {"live", "dry-run"}
  /\ vtBonded = 0 /\ vtEpoch = 0 /\ vtTx = <<>> /\ vtPrepared = {}
  /\ vtPosition = [s \in VaultStrategy |-> NoPosition]
  /\ vtRun = [s \in VaultStrategy |-> NoVaultRun]
  /\ vtSeen = [s \in VaultStrategy |-> -1]

(***************************************************************************)
(* A run of the keeper                                                      *)
(***************************************************************************)
vtApiOnly == <<vtMode, vtPrepared>>

VaultRunStarts(s, tx, run) ==
  /\ vtRun[s].pc = "idle" /\ Len(vtTx) < VaultDeposits
  /\ vtTx' = Append(vtTx, tx)
  /\ vtRun' = [vtRun EXCEPT ![s] = [run EXCEPT !.tx = Len(vtTx) + 1]]

\* singleAssetProvideDelegate: simulate, sign and broadcast
BroadcastsDeposit(s) ==
  /\ vtMode = "live"
  /\ \E quote \in LpQuotes :
       VaultRunStarts(s, [status |-> "sent", lp |-> quote, epoch |-> 0],
                      [NoVaultRun EXCEPT !.pc = "sent"])
  /\ UNCHANGED <<vtApiOnly, vtBonded, vtEpoch, vtPosition, vtSeen>>

\* The dry-run client does it all in memory, one LP for one coin.
DryRunDeposits(s) ==
  /\ vtMode = "dry-run"
  /\ \E amount \in LpQuotes :
       /\ VaultRunStarts(s, [status |-> "included", lp |-> amount, epoch |-> vtEpoch],
                         [NoVaultRun EXCEPT !.pc = "sync", !.snapshot = amount])
       /\ vtBonded' = vtBonded + amount
  /\ UNCHANGED <<vtApiOnly, vtEpoch, vtPosition, vtSeen>>

\* A block takes a transaction, or minLiquidity is not reached and it fails.
DepositIncluded(n) ==
  /\ vtTx[n].status = "sent"
  /\ \/ \E lp \in Max({1, vtTx[n].lp - SlipLp}) .. vtTx[n].lp :
          /\ vtBonded' = vtBonded + lp
          /\ vtTx' = [vtTx EXCEPT ![n] =
                        [status |-> "included", lp |-> lp, epoch |-> vtEpoch]]
     \/ vtTx' = [vtTx EXCEPT ![n].status = "failed"] /\ UNCHANGED vtBonded
  /\ UNCHANGED <<vtApiOnly, vtEpoch, vtPosition, vtRun, vtSeen>>

\* tryReadRewardSnapshot gives up after five attempts and on every other error; a failed
\* transaction has no event.
ReadsSnapshot(s) ==
  /\ vtRun[s].pc = "sent"
  /\ LET tx == vtTx[vtRun[s].tx]
     IN \E found \in {Untold} \cup {lp \in {tx.lp} : tx.status = "included"} :
          vtRun' = [vtRun EXCEPT ![s].pc = "sync", ![s].snapshot = found]
  /\ UNCHANGED <<vtApiOnly, vtBonded, vtEpoch, vtPosition, vtTx, vtSeen>>

\* syncPosition: the existing row first, then the balances. A query that fails ends the run.
ReadsPosition(s) ==
  /\ vtRun[s].pc = "sync"
  /\ \/ vtRun' = [vtRun EXCEPT ![s].pc = "write", ![s].old = vtPosition[s].locked,
                               ![s].read = vtBonded]
     \/ vtRun' = [vtRun EXCEPT ![s] = NoVaultRun]
  /\ UNCHANGED <<vtApiOnly, vtBonded, vtEpoch, vtPosition, vtTx, vtSeen>>

\* Mutant of LockedShare: the share that is there already stays.
ShareKept(run) == IF run.old # Untold THEN run.old ELSE run.snapshot

\* rewardSnapshot ?? existingPosition.lastRewardSnapshot
LockedShare(run) == IF run.snapshot # Untold THEN run.snapshot ELSE run.old

WritesPosition(s) ==
  /\ vtRun[s].pc = "write"
  /\ vtPosition' = [vtPosition EXCEPT ![s] =
       [delegated |-> vtRun[s].read, locked |-> LockedShare(vtRun[s])]]
  /\ vtSeen' = IF vtRun[s].snapshot = Untold THEN vtSeen
               ELSE [vtSeen EXCEPT ![s] = vtTx[vtRun[s].tx].epoch]
  /\ vtRun' = [vtRun EXCEPT ![s] = NoVaultRun]
  /\ UNCHANGED <<vtApiOnly, vtBonded, vtEpoch, vtTx>>

(***************************************************************************)
(* The API                                                                  *)
(***************************************************************************)
\* resolveTrackedLpAmount: of the share, else of the balance, what is positive
Tracked(s) ==
  IF vtPosition[s].locked > 0 THEN vtPosition[s].locked ELSE vtPosition[s].delegated

ComputeLpFromInput(input, coin, share) ==
  IF coin = 0 THEN 0 ELSE (input * share) \div (coin * WeightReciprocal)

\* Nothing tracked: the pool's price, and one to one when the node does not answer.
Estimates(input) ==
  {input} \cup {ComputeLpFromInput(input, coin, share) : coin \in PoolCoins, share \in PoolShares}

CreateUnbond(s) ==
  /\ vtPrepared = {}
  /\ \E lp \in IF Tracked(s) > 0 THEN {Tracked(s)}
               ELSE UNION {Estimates(input) : input \in UnbondInputs} :
       /\ lp > 0
       /\ vtPrepared' = {[strategy |-> s, lp |-> lp, tracked |-> Tracked(s) > 0]}
  /\ UNCHANGED <<vtMode, vtBonded, vtEpoch, vtPosition, vtRun, vtTx, vtSeen>>

\* The merchant signs, or drops the message. The module refuses more than is bonded.
SignsUnbond ==
  /\ vtPrepared # {} /\ vtPrepared' = {}
  /\ \/ \E u \in vtPrepared :
          /\ vtEpoch < Unbonds /\ u.lp <= vtBonded
          /\ vtBonded' = vtBonded - u.lp /\ vtEpoch' = vtEpoch + 1
     \/ UNCHANGED <<vtBonded, vtEpoch>>
  /\ UNCHANGED <<vtMode, vtPosition, vtRun, vtTx, vtSeen>>

VaultNext ==
  \/ \E s \in VaultStrategy :
       \/ BroadcastsDeposit(s) \/ DryRunDeposits(s)
       \/ ReadsSnapshot(s) \/ ReadsPosition(s) \/ WritesPosition(s) \/ CreateUnbond(s)
  \/ \E n \in DOMAIN vtTx : DepositIncluded(n)
  \/ SignsUnbond

VaultSpec == VaultInit /\ [][VaultNext]_vaultVars

(***************************************************************************)
(* Properties                                                              *)
(***************************************************************************)
\* The unbonding that is prepared from a strategy's position can be executed, as long as
\* nothing was unbonded since the deposit that the position tells of: runs of several
\* strategies, events that are not found and figures read long before they are written
\* never make it more than what is bonded (createUnbond, syncPosition).
UnbondCovered ==
  \A s \in VaultStrategy : vtSeen[s] = vtEpoch => Tracked(s) <= vtBonded
=============================================================================
