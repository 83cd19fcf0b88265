----------------------------- MODULE BrowserSwap -----------------------------
(***************************************************************************)
(* The customer's browser: the hooks that create an order, lock the source    *)
(* side from the wallet, keep the secret in localStorage until the solver has  *)
(* locked its side, and hand it to the executor. One behaviour is one of the   *)
(* three hooks (EVM, Bitcoin, Solana), with the page closed and opened at any   *)
(* time.                                                                     *)
(*                                                                         *)
(* The order the API reports is the state of the chains, without delay; the    *)
(* watchers and executors between them are other modules.                     *)
(***************************************************************************)
EXTENDS Integers, FiniteSets

CONSTANTS
  BrowserOrder,   \* orders the customer creates
  HookKinds,      \* subset of {"evm", "btc", "sol"}
  Loads           \* bound: times the page is opened

ASSUME BrowserAssumption ==
  HookKinds \subseteq {"evm", "btc", "sol"} /\ Loads \in Nat

VARIABLES
  bsKind,     \* the hook that is used
  bsOpen,     \* the page is loaded
  bsLoads,
  bsFlow,     \* how far the start function of an order has run
  bsIdle,     \* step is idle or error: the pay button is offered
  bsAbort,    \* abortRef
  bsPoll,     \* the order the interval of the hook polls
  bsPending,  \* the order of the hook's STORAGE_KEY
  bsSecrets,  \* the orders whose secret is in localStorage
  bsReveals,  \* reveal requests under way
  bsSent,     \* orders whose source side the wallet may lock
  bsLegs,     \* the two swaps of an order
  bsKnown,    \* secrets the executor has been given
  bsGivenUp   \* orders whose secret the customer's hook has dropped for good

storageVars == <<bsPending, bsSecrets, bsGivenUp>>
pageVars == <<bsFlow, bsIdle, bsAbort, bsPoll>>
browserVars == <<bsKind, bsOpen, bsLoads, pageVars, storageVars, bsReveals, bsSent, bsLegs, bsKnown>>

None == "none"
Untouched == [src |-> "none", dst |-> "none"]

BrowserInit ==
  /\ bsKind \in HookKinds
  /\ bsOpen = FALSE /\ bsLoads = 0
  /\ bsFlow = [o \in BrowserOrder |-> "none"]
  /\ bsIdle = TRUE /\ bsAbort = FALSE /\ bsPoll = None
  /\ bsPending = None /\ bsSecrets = {} /\ bsGivenUp = {}
  /\ bsReveals = {} /\ bsSent = {} /\ bsKnown = {}
  /\ bsLegs = [o \in BrowserOrder |-> Untouched]

(***************************************************************************)
(* The chains                                                              *)
(***************************************************************************)
LegMoves(o, side, from, to) ==
  bsLegs[o][side] = from /\ bsLegs' = [bsLegs EXCEPT ![o][side] = to]

ChainSteps ==
  /\ \E o \in BrowserOrder :
       \/ o \in bsSent /\ LegMoves(o, "src", "none", "locked")
       \/ bsLegs[o].src = "locked" /\ LegMoves(o, "dst", "none", "locked")
       \/ o \in bsKnown /\ LegMoves(o, "dst", "locked", "redeemed")
       \/ o \in bsKnown /\ bsLegs[o].dst # "none" /\ LegMoves(o, "src", "locked", "redeemed")
       \/ LegMoves(o, "dst", "locked", "refunded")
       \/ LegMoves(o, "src", "locked", "refunded")
  /\ UNCHANGED <<bsKind, bsOpen, bsLoads, pageVars, storageVars, bsReveals, bsSent, bsKnown>>

(* stepFromOrder *)
Refunded(o) == bsLegs[o].src = "refunded" \/ bsLegs[o].dst = "refunded"
Settled(o) == Refunded(o) \/ bsLegs[o].src = "redeemed"

WantsSecret(o) == ~Settled(o) /\ bsLegs[o].dst = "locked"

(***************************************************************************)
(* Starting a swap                                                         *)
(***************************************************************************)
PageOnly == UNCHANGED <<bsKind, bsOpen, bsLoads, bsReveals, bsLegs, bsKnown>>

(* The Bitcoin and Solana hooks store the secret before there is an order. *)
StartsSwap(o) ==
  /\ bsOpen /\ bsIdle /\ bsFlow[o] = "none"
  /\ bsFlow' = [bsFlow EXCEPT ![o] = "creating"]
  /\ bsIdle' = FALSE /\ bsAbort' = FALSE
  /\ bsSecrets' = IF bsKind = "evm" THEN bsSecrets ELSE bsSecrets \cup {o}
  /\ UNCHANGED <<bsPoll, bsPending, bsGivenUp, bsSent>> /\ PageOnly

(* The Bitcoin hook takes the secret back; a running reset hides the error. *)
CreateFails(o) ==
  /\ bsFlow[o] = "creating"
  /\ bsFlow' = [bsFlow EXCEPT ![o] = "over"]
  /\ bsIdle' = (bsIdle \/ ~bsAbort)
  /\ bsSecrets' = IF bsKind = "btc" THEN bsSecrets \ {o} ELSE bsSecrets
  /\ UNCHANGED <<bsAbort, bsPoll, bsPending, bsGivenUp, bsSent>> /\ PageOnly

(* useSwap: the secret is stored under the order before the wallet is asked. *)
CreatedEvm(o) ==
  /\ bsFlow[o] = "creating" /\ bsKind = "evm"
  /\ bsSecrets' = bsSecrets \cup {o}
  /\ bsFlow' = [bsFlow EXCEPT ![o] = IF bsAbort THEN "over" ELSE "locking"]
  /\ UNCHANGED <<bsIdle, bsAbort, bsPoll, bsPending, bsGivenUp, bsSent>> /\ PageOnly

(* useBitcoinSwap: the deposit address is shown, or UniSat is asked to pay it.     *)
(* Nothing looks at abortRef, and the interval of another order is replaced.       *)
CreatedBtc(o) ==
  /\ bsFlow[o] = "creating" /\ bsKind = "btc"
  /\ bsPending' = o /\ bsSent' = bsSent \cup {o}
  /\ \/ bsFlow' = [bsFlow EXCEPT ![o] = "over"] /\ bsPoll' = o
     \/ bsFlow' = [bsFlow EXCEPT ![o] = "locking"] /\ UNCHANGED bsPoll
  /\ UNCHANGED <<bsIdle, bsAbort, bsSecrets, bsGivenUp>> /\ PageOnly

CreatedSol(o) ==
  /\ bsFlow[o] = "creating" /\ bsKind = "sol"
  /\ bsFlow' = [bsFlow EXCEPT ![o] = "locking"]
  /\ UNCHANGED <<bsIdle, bsAbort, bsPoll, storageVars, bsSent>> /\ PageOnly

(* The wallet signs: from here on the chain decides. *)
WalletSends(o) ==
  /\ bsFlow[o] = "locking" /\ bsKind # "btc"
  /\ bsSent' = bsSent \cup {o} /\ bsFlow' = [bsFlow EXCEPT ![o] = "waiting"]
  /\ UNCHANGED <<bsIdle, bsAbort, bsPoll, storageVars>> /\ PageOnly

(* The receipt, the confirmation or UniSat's answer: the order is polled, and now  *)
(* stored as pending if it was not when it was created. Only useSwap looks at       *)
(* abortRef first.                                                                *)
SourceConfirmed(o) ==
  /\ bsFlow[o] = IF bsKind = "btc" THEN "locking" ELSE "waiting"
  /\ bsKind # "btc" => bsLegs[o].src # "none"
  /\ bsFlow' = [bsFlow EXCEPT ![o] = "over"]
  /\ IF bsKind = "evm" /\ bsAbort THEN UNCHANGED <<bsPending, bsPoll>>
     ELSE bsPending' = (IF bsKind = "btc" THEN bsPending ELSE o) /\ bsPoll' = o
  /\ UNCHANGED <<bsIdle, bsAbort, bsSecrets, bsGivenUp, bsSent>> /\ PageOnly

(* The popup is closed, the dry run fails, or no receipt comes in time, whatever   *)
(* becomes of the transaction.                                                    *)
WalletFails(o) ==
  /\ bsFlow[o] \in {"locking", "waiting"}
  /\ bsFlow' = [bsFlow EXCEPT ![o] = "over"]
  /\ bsIdle' = (bsIdle \/ ~bsAbort)
  /\ bsPending' = IF bsKind = "btc" /\ ~bsAbort THEN None ELSE bsPending
  /\ UNCHANGED <<bsAbort, bsPoll, bsSecrets, bsGivenUp, bsSent>> /\ PageOnly

(***************************************************************************)
(* Following it                                                            *)
(***************************************************************************)
Forget(o) == bsSecrets' = bsSecrets \ {o}

(* One answer of GET /orders/{id} to the hook's interval *)
HookPolls ==
  /\ bsOpen /\ bsPoll # None /\ ~bsAbort
  /\ IF Settled(bsPoll)
     THEN Forget(bsPoll) /\ bsPoll' = None /\ bsPending' = None /\ UNCHANGED bsReveals
     ELSE /\ WantsSecret(bsPoll) /\ bsPoll \in bsSecrets /\ bsPoll \notin bsReveals
          /\ bsReveals' = bsReveals \cup {bsPoll}
          /\ UNCHANGED <<bsSecrets, bsPoll, bsPending>>
  /\ UNCHANGED <<bsKind, bsOpen, bsLoads, bsFlow, bsIdle, bsAbort, bsGivenUp, bsSent, bsLegs,
                 bsKnown>>

(* A timeout that cleans up alike in every hook *)
TimeoutDrops(kind) == TRUE

TimeoutDropsSecret(kind) == kind = "btc"

(* 360 polls without an end *)
PollTimesOut ==
  /\ bsOpen /\ bsPoll # None
  /\ bsPoll' = None /\ bsPending' = None /\ bsIdle' = TRUE
  /\ IF TimeoutDropsSecret(bsKind) THEN Forget(bsPoll) ELSE UNCHANGED bsSecrets
  /\ bsGivenUp' = IF bsKind = "btc" THEN bsGivenUp \cup {bsPoll} ELSE bsGivenUp
  /\ UNCHANGED <<bsFlow, bsAbort, bsSent>> /\ PageOnly

(* useSecretPoller: every order with a stored secret, whatever the hook is doing *)
SecretPollerLooks(o) ==
  /\ bsOpen /\ bsKind = "evm" /\ o \in bsSecrets
  /\ IF Settled(o) THEN Forget(o) /\ UNCHANGED bsReveals
     ELSE bsLegs[o].dst # "none" /\ bsReveals' = bsReveals \cup {o} /\ UNCHANGED bsSecrets
  /\ UNCHANGED <<bsKind, bsOpen, bsLoads, pageVars, bsPending, bsGivenUp, bsSent, bsLegs, bsKnown>>

RevealAnswered(o) ==
  /\ o \in bsReveals /\ bsReveals' = bsReveals \ {o}
  /\ bsKnown' \in {bsKnown, bsKnown \cup {o}}
  /\ UNCHANGED <<bsKind, bsOpen, bsLoads, pageVars, storageVars, bsSent, bsLegs>>

(* The button, and a return to the pay page: the Bitcoin hook drops the secret of   *)
(* the pending order with it.                                                      *)
Resets ==
  /\ bsOpen /\ ~bsIdle
  /\ bsAbort' = TRUE /\ bsPoll' = None /\ bsIdle' = TRUE /\ bsPending' = None
  /\ IF bsKind = "btc" /\ bsPending # None
     THEN Forget(bsPending) /\ bsGivenUp' = bsGivenUp \cup {bsPending}
     ELSE UNCHANGED <<bsSecrets, bsGivenUp>>
  /\ UNCHANGED <<bsFlow, bsSent>> /\ PageOnly

(* The timer that ends the abort does not wait for the flow it was to stop. *)
AbortEnds ==
  /\ bsAbort /\ bsAbort' = FALSE
  /\ UNCHANGED <<bsFlow, bsIdle, bsPoll, storageVars, bsSent>> /\ PageOnly

LeavesPayPage ==
  /\ bsOpen /\ bsPending # None /\ bsPending' = None
  /\ UNCHANGED <<pageVars, bsSecrets, bsGivenUp, bsSent>> /\ PageOnly

(***************************************************************************)
(* The page                                                                *)
(***************************************************************************)
PageCloses ==
  /\ bsOpen /\ bsOpen' = FALSE
  /\ bsFlow' = [o \in BrowserOrder |-> IF bsFlow[o] = "none" THEN "none" ELSE "over"]
  /\ bsIdle' = TRUE /\ bsAbort' = FALSE /\ bsPoll' = None
  /\ UNCHANGED <<bsKind, bsLoads, storageVars, bsReveals, bsSent, bsLegs, bsKnown>>

(* The pending order is taken up again; useSwap, without one, looks through the    *)
(* stored secrets.                                                               *)
PageOpens ==
  /\ ~bsOpen /\ bsLoads < Loads /\ bsOpen' = TRUE /\ bsLoads' = bsLoads + 1
  /\ \/ bsPending # None /\ bsPoll' = bsPending /\ bsIdle' = FALSE /\ UNCHANGED bsPending
     \/ /\ bsPending = None /\ bsKind = "evm"
        /\ \E o \in bsSecrets :
             ~Settled(o) /\ bsPoll' = o /\ bsPending' = o /\ bsIdle' = FALSE
     \/ /\ bsPending = None
        /\ bsKind = "evm" => \A o \in bsSecrets : Settled(o)
        /\ UNCHANGED <<bsPoll, bsIdle, bsPending>>
  /\ UNCHANGED <<bsKind, bsFlow, bsAbort, bsSecrets, bsGivenUp, bsReveals, bsSent, bsLegs, bsKnown>>

BrowserNext ==
  \/ ChainSteps \/ HookPolls \/ PollTimesOut \/ Resets \/ AbortEnds \/ LeavesPayPage
  \/ PageCloses \/ PageOpens
  \/ \E o \in BrowserOrder :
       \/ StartsSwap(o) \/ CreateFails(o) \/ CreatedEvm(o) \/ CreatedBtc(o) \/ CreatedSol(o)
       \/ WalletSends(o) \/ SourceConfirmed(o) \/ WalletFails(o)
       \/ SecretPollerLooks(o) \/ RevealAnswered(o)

BrowserSpec == BrowserInit /\ [][BrowserNext]_browserVars

(***************************************************************************)
(* Properties                                                              *)
(***************************************************************************)
(* As long as the customer's funds are locked and the order can still settle, the  *)
(* secret is in the browser's storage: no reload, reset, timeout or second order     *)
(* loses it, except that the Bitcoin hook drops the secret of an order it gives up  *)
(* (startPolling, reset, useSecretPoller).                                        *)
SecretOutlivesDeposit ==
  \A o \in BrowserOrder :
    bsLegs[o].src = "locked" /\ ~Refunded(o) /\ o \notin bsGivenUp => o \in bsSecrets
=============================================================================
