----------------------------- MODULE MCPlatform -----------------------------
(***************************************************************************)
(* The parts of the platform around the swaps, each by itself: a behaviour  *)
(* is one of one of them, `part`. The rollup's withdrawals come twice, with   *)
(* the finalizer and with the tracker, which do not meet but on L1.           *)
(***************************************************************************)
EXTENDS StackerKeeper, StackerVault, OrderIntake, BookFeed, PriceFeed, SolverPolicy,
        RollupWithdrawals, BrowserSwap, BtcTxBuilder, BitcoinHtlc, ZmqFeed, TLC

VARIABLE part

platformVars ==
  <<part, stackerVars, vaultVars, intakeVars, bookVars, priceVars, policyVars, withdrawVars,
    browserVars, builderVars, htlcVars, zmqVars>>

Parts ==
  {"stacker", "vault", "intake", "book", "price", "policy", "finalizer", "tracker",
   "browser", "builder", "htlc", "zmq"}

\* The initial states of a part that is not the one under way are one state.
PlatformInit ==
  /\ part \in Parts
  /\ StackerInit /\ (part # "stacker" => stMode = "authz")
  /\ VaultInit /\ (part # "vault" => vtMode = "live")
  /\ IntakeInit
  /\ BookInit /\ (part # "book" => bfVenue = Empty)
  /\ PriceInit
  /\ PolicyInit
  /\ WithdrawInit
  /\ BrowserInit /\ (part # "browser" => bsKind = "evm")
  /\ BuilderInit
  /\ HtlcInit /\ (part # "htlc" => bhFlow = "batch" /\ \A u \in HtlcOutput : bhOut[u].value = Max(OutputValues))
  /\ ZmqInit /\ (part # "zmq" => \A t \in ZmqTopic : zqNode[t] = 0)

Only(name, others) == part = name /\ UNCHANGED <<part, others>>

PlatformNext ==
  \/ /\ Only("stacker",
          <<vaultVars, intakeVars, bookVars, priceVars, policyVars, withdrawVars, browserVars,
          builderVars, htlcVars, zmqVars>>)
     /\ StackerNext
  \/ /\ Only("vault",
          <<stackerVars, intakeVars, bookVars, priceVars, policyVars, withdrawVars, browserVars,
          builderVars, htlcVars, zmqVars>>)
     /\ VaultNext
  \/ /\ Only("intake",
          <<stackerVars, vaultVars, bookVars, priceVars, policyVars, withdrawVars, browserVars,
          builderVars, htlcVars, zmqVars>>)
     /\ IntakeNext
  \/ /\ Only("book",
          <<stackerVars, vaultVars, intakeVars, priceVars, policyVars, withdrawVars, browserVars,
          builderVars, htlcVars, zmqVars>>)
     /\ BookNext
  \/ /\ Only("price",
          <<stackerVars, vaultVars, intakeVars, bookVars, policyVars, withdrawVars, browserVars,
          builderVars, htlcVars, zmqVars>>)
     /\ PriceNext
  \/ /\ Only("policy",
          <<stackerVars, vaultVars, intakeVars, bookVars, priceVars, withdrawVars, browserVars,
          builderVars, htlcVars, zmqVars>>)
     /\ PolicyNext
  \/ /\ Only("finalizer",
          <<stackerVars, vaultVars, intakeVars, bookVars, priceVars, policyVars, browserVars,
          builderVars, htlcVars, zmqVars>>)
     /\ BridgeSteps \/ FinalizerSteps
  \/ /\ Only("tracker",
          <<stackerVars, vaultVars, intakeVars, bookVars, priceVars, policyVars, browserVars,
          builderVars, htlcVars, zmqVars>>)
     /\ BridgeSteps \/ TrackerSteps
  \/ /\ Only("browser",
          <<stackerVars, vaultVars, intakeVars, bookVars, priceVars, policyVars, withdrawVars,
          builderVars, htlcVars, zmqVars>>)
     /\ BrowserNext
  \/ /\ Only("builder",
          <<stackerVars, vaultVars, intakeVars, bookVars, priceVars, policyVars, withdrawVars,
          browserVars, htlcVars, zmqVars>>)
     /\ BuilderNext
  \/ /\ Only("htlc",
          <<stackerVars, vaultVars, intakeVars, bookVars, priceVars, policyVars, withdrawVars,
          browserVars, builderVars, zmqVars>>)
     /\ HtlcNext
  \/ /\ Only("zmq",
          <<stackerVars, vaultVars, intakeVars, bookVars, priceVars, policyVars, withdrawVars,
          browserVars, builderVars, htlcVars>>)
     /\ ZmqNext

PlatformSpec == PlatformInit /\ [][PlatformNext]_platformVars

\* Tick, Request, Poll, BrowserOrder, ZmqTopic and VaultStrategy are given the same two
\* values: only one of them matters in a part, and one swap serves them all.
PlatformSymmetry == Permutations(Tick)
=============================================================================
