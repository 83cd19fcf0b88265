--------------------------- MODULE StackerKeeper ---------------------------
(***************************************************************************)
(* The stacker: a keeper that wakes up on a timer, takes the strategies      *)
(* that may run and stakes a part of their owner's balance, and the API      *)
(* through which the owner grants, pauses and resumes. Ticks overlap (the     *)
(* timer does not wait for the last one), every await of the keeper and of     *)
(* the API lets the others run, and every write is an unconditional UPDATE.    *)
(*                                                                         *)
(* One owner and one grants row; the strategies share the owner's balance.     *)
(***************************************************************************)
EXTENDS Integers, FiniteSets, Functions, FiniteSetsExt

CONSTANTS
  Strategy,        \* the strategies of the owner
  Tick,            \* callbacks of the timer that can be under way together
  Runs,            \* bound on the rows of `executions`
  StackerClock,    \* bound on time
  Deposit,         \* what the owner's account holds at first
  MinBalance,      \* minBalanceAmount
  MaxPerRun,       \* maxAmountPerRun
  Cooldown,        \* cooldownSeconds
  GrantLife        \* grantExpiryHours

ASSUME StackerAssumption ==
  /\ "none" \notin Strategy
  /\ {Runs, StackerClock, Deposit, MinBalance, MaxPerRun, Cooldown, GrantLife} \subseteq Nat

VARIABLES
  stMode,       \* executionMode
  stNow,        \* the clock
  stRow,        \* strategies: status and nextEligibleAt
  stGrant,      \* the grants row: status of the bundle and its expiry
  stChainGrant, \* expiry of the grants on chain, 0 for none
  stExec,       \* executions
  stBalance,    \* input tokens of the owner
  stBonded,     \* what has been delegated for the owner
  stSent,       \* broadcast transactions that are not in a block yet
  stTick,       \* the ticks of the keeper
  stLocks,      \* StrategyLocks
  stApi,        \* the request the API is serving
  stCut         \* strategies whose run was cut short by a crash or the database

stackerVars == <<stMode, stNow, stRow, stGrant, stChainGrant, stExec, stBalance,
                 stBonded, stSent, stTick, stLocks, stApi, stCut>>
stChain == <<stChainGrant, stBalance, stBonded, stSent>>
stKeeperOnly == <<stMode, stNow, stGrant, stChainGrant, stApi>>

NoRun == [strategy |-> "none", status |-> "none", amount |-> 0]
NoTick == [pc |-> "idle", now |-> 0, left |-> {}, s |-> "none", amount |-> 0,
           run |-> 0]
NoRequest == [op |-> "none", s |-> "none", expires |-> 0]

StackerInit ==
  /\ stMode \in {"authz", "direct"}
  /\ stNow = 1
  /\ stRow = [s \in Strategy |->
                [status |-> IF stMode = "direct" THEN "active" ELSE "grant_pending",
                 next |-> 0]]
  /\ stGrant = [status |-> "none", expires |-> 0]
  /\ stChainGrant = 0
  /\ stExec = [r \in 1 .. Runs |-> NoRun]
  /\ stBalance = Deposit /\ stBonded = 0 /\ stSent = {}
  /\ stTick = [t \in Tick |-> NoTick]
  /\ stLocks = {} /\ stApi = NoRequest /\ stCut = {}

(***************************************************************************)
(* The keeper: one tick                                                    *)
(***************************************************************************)
\* The statuses from which canTransitionStrategyStatus lets a row go.
Transitions ==
  [to \in {"paused", "active"} |->
     IF to = "paused"
     THEN {"paused", "draft", "grant_pending", "active", "executing", "partial_lp",
           "error"}
     ELSE {"active", "grant_pending", "executing", "paused"}]

GrantBundleActive(now) == stGrant.status = "active" /\ stGrant.expires > now

Runnable(now) ==
  {s \in Strategy : stRow[s].status = "active" /\ stRow[s].next <= now}

Goes(t, pc) == stTick' = [stTick EXCEPT ![t].pc = pc]

\* The loop of runTick goes on without the strategies of `done`.
LoopGoesOn(t, done) ==
  LET rest == stTick[t].left \ done
  IN  stTick' = [stTick EXCEPT ![t] =
        IF rest = {} THEN NoTick
        ELSE [NoTick EXCEPT !.pc = "next", !.now = stTick[t].now, !.left = rest]]

TickStarts(t) ==
  /\ stTick[t].pc = "idle" /\ Runnable(stNow) # {}
  /\ stTick' = [stTick EXCEPT ![t] =
       [NoTick EXCEPT !.pc = "next", !.now = stNow, !.left = Runnable(stNow)]]
  /\ UNCHANGED <<stKeeperOnly, stRow, stExec, stBalance, stBonded, stSent, stLocks,
                 stCut>>

\* The rows come in no order. A strategy whose lock is held is skipped.
TakesStrategy(t) ==
  /\ stTick[t].pc = "next"
  /\ \E s \in stTick[t].left :
       IF s \in stLocks
       THEN LoopGoesOn(t, {s}) /\ UNCHANGED stLocks
       ELSE /\ stTick' = [stTick EXCEPT ![t].pc = "grants", ![t].s = s]
            /\ stLocks' = stLocks \cup {s}
  /\ UNCHANGED <<stKeeperOnly, stRow, stExec, stBalance, stBonded, stSent, stCut>>

LocksAfterCheck(t) == stLocks \ {stTick[t].s}

\* executeActiveStrategy is returned, not awaited: the lock is free again as
\* soon as it waits for the balance.
ChecksGrants(t) ==
  /\ stTick[t].pc = "grants"
  /\ IF stMode = "direct" \/ GrantBundleActive(stTick[t].now)
     THEN Goes(t, "balance") /\ stLocks' = LocksAfterCheck(t)
     ELSE Goes(t, "expire") /\ UNCHANGED stLocks
  /\ UNCHANGED <<stKeeperOnly, stRow, stExec, stBalance, stBonded, stSent, stCut>>

MarksExpired(t) ==
  /\ stTick[t].pc = "expire"
  /\ stRow' = [stRow EXCEPT ![stTick[t].s].status = "expired"]
  /\ stLocks' = LocksAfterCheck(t)
  /\ LoopGoesOn(t, {stTick[t].s})
  /\ UNCHANGED <<stKeeperOnly, stExec, stBalance, stBonded, stSent, stCut>>

\* minBigIntString
InputAmount == IF stBalance < MaxPerRun THEN stBalance ELSE MaxPerRun

ReadsBalance(t) ==
  /\ stTick[t].pc = "balance"
  /\ IF stBalance < MinBalance
     THEN LoopGoesOn(t, {stTick[t].s})
     ELSE stTick' = [stTick EXCEPT ![t].pc = "create", ![t].amount = InputAmount]
  /\ UNCHANGED <<stKeeperOnly, stRow, stExec, stBalance, stBonded, stSent, stLocks,
                 stCut>>

FreeRunsAndDone == {r \in 1 .. Runs : stExec[r].status # "providing"}

FreeRuns == {r \in 1 .. Runs : stExec[r] = NoRun}

CreatesExecution(t) ==
  /\ stTick[t].pc = "create" /\ FreeRuns # {}
  /\ LET r == Min(FreeRuns)
     IN  /\ stExec' = [stExec EXCEPT ![r] =
              [strategy |-> stTick[t].s, status |-> "providing",
               amount |-> stTick[t].amount]]
         /\ stTick' = [stTick EXCEPT ![t].pc = "mark", ![t].run = r]
  /\ UNCHANGED <<stKeeperOnly, stRow, stBalance, stBonded, stSent, stLocks, stCut>>

MarksExecuting(t) ==
  /\ stTick[t].pc = "mark"
  /\ stRow' = [stRow EXCEPT ![stTick[t].s].status = "executing"]
  /\ Goes(t, "send")
  /\ UNCHANGED <<stKeeperOnly, stExec, stBalance, stBonded, stSent, stLocks, stCut>>

\* singleAssetProvideDelegate broadcasts and does not wait for the block. It
\* throws before the broadcast (a query, the simulation, the node's refusal) or
\* after it (the second reading of the delegations).
SendsDelegation(t) ==
  /\ stTick[t].pc = "send"
  /\ \/ /\ stSent' = stSent \cup {[run |-> stTick[t].run, amount |-> stTick[t].amount]}
        /\ Goes(t, "record") \/ Goes(t, "failed")
     \/ Goes(t, "failed") /\ UNCHANGED stSent
  /\ UNCHANGED <<stKeeperOnly, stRow, stExec, stBalance, stBonded, stLocks, stCut>>

RecordsSuccess(t) ==
  /\ stTick[t].pc = "record"
  /\ stExec' = [stExec EXCEPT ![stTick[t].run].status = "success"]
  /\ Goes(t, "sync")
  /\ UNCHANGED <<stKeeperOnly, stRow, stBalance, stBonded, stSent, stLocks, stCut>>

Reopened(t) == [status |-> "active", next |-> stTick[t].now + Cooldown]

\* syncPosition reads the chain and writes what the dashboard shows, then the
\* strategy is patched, whatever its status is by now.
SyncsAndSettles(t) ==
  /\ stTick[t].pc = "sync"
  /\ stRow' = [stRow EXCEPT ![stTick[t].s] = Reopened(t)]
  /\ LoopGoesOn(t, {stTick[t].s})
  /\ UNCHANGED <<stKeeperOnly, stExec, stBalance, stBonded, stSent, stLocks, stCut>>

\* The two writes after the delegation are inside the try as well.
RecordingThrows(t) ==
  /\ stTick[t].pc \in {"record", "sync"}
  /\ Goes(t, "failed")
  /\ UNCHANGED <<stKeeperOnly, stRow, stExec, stBalance, stBonded, stSent, stLocks,
                 stCut>>

RecordsFailure(t) ==
  /\ stTick[t].pc = "failed"
  /\ stExec' = [stExec EXCEPT ![stTick[t].run].status = "failed"]
  /\ Goes(t, "reopen")
  /\ UNCHANGED <<stKeeperOnly, stRow, stBalance, stBonded, stSent, stLocks, stCut>>

FailureEndsRun(t) ==
  /\ stTick[t].pc = "reopen"
  /\ LoopGoesOn(t, {stTick[t].s})
  /\ UNCHANGED <<stKeeperOnly, stRow, stExec, stBalance, stBonded, stSent, stLocks, stCut>>

ReopensAfterFailure(t) ==
  /\ stTick[t].pc = "reopen"
  /\ stRow' = [stRow EXCEPT ![stTick[t].s] = Reopened(t)]
  /\ LoopGoesOn(t, {stTick[t].s})
  /\ UNCHANGED <<stKeeperOnly, stExec, stBalance, stBonded, stSent, stLocks, stCut>>

\* An error outside the try ends the tick; `finally` still frees the lock that
\* is held while the grants are looked up.
TickThrows(t) ==
  /\ stTick[t].pc \in {"grants", "expire", "balance", "create", "mark", "failed",
                       "reopen"}
  /\ stTick' = [stTick EXCEPT ![t] = NoTick]
  /\ stLocks' = IF stTick[t].pc \in {"grants", "expire"}
                THEN LocksAfterCheck(t) ELSE stLocks
  /\ stCut' = stCut \cup {stTick[t].s}
  /\ UNCHANGED <<stKeeperOnly, stRow, stExec, stBalance, stBonded, stSent>>

\* The process exits in the middle of everything (shutdown does not wait either).
KeeperRestarts ==
  /\ \E t \in Tick : stTick[t] # NoTick
  /\ stTick' = [t \in Tick |-> NoTick] /\ stLocks' = {}
  /\ stCut' = stCut \cup ({stTick[t].s : t \in Tick} \ {"none"})
  /\ UNCHANGED <<stKeeperOnly, stRow, stExec, stBalance, stBonded, stSent>>

(***************************************************************************)
(* The API                                                                  *)
(***************************************************************************)
stApiOnly == <<stMode, stNow, stExec, stTick, stLocks, stCut, stChain>>

PrepareGrants ==
  /\ stMode = "authz" /\ stApi = NoRequest
  /\ stGrant' = [status |-> "pending", expires |-> stNow + GrantLife]
  /\ UNCHANGED <<stApiOnly, stRow, stApi>>

\* pause and resume read the row, check the transition, then patch whatever
\* the row has become.
ChangeRequested(s, to) ==
  /\ stApi = NoRequest
  /\ stRow[s].status \in Transitions[to]
  /\ stApi' = [NoRequest EXCEPT !.op = to, !.s = s]
  /\ UNCHANGED <<stApiOnly, stRow, stGrant>>

\* confirm: the grants row is read and the chain asked whether grants exist,
\* not until when.
ConfirmRequested(s) ==
  /\ stApi = NoRequest /\ stMode = "authz"
  /\ stGrant.status # "none" /\ stChainGrant > stNow
  /\ stApi' = [op |-> "confirm", s |-> s, expires |-> stGrant.expires]
  /\ UNCHANGED <<stApiOnly, stRow, stGrant>>

ConfirmWrites ==
  /\ stApi.op = "confirm"
  /\ stGrant' = [status |-> "active", expires |-> stApi.expires]
  /\ stApi' = [NoRequest EXCEPT !.op = "active", !.s = stApi.s]
  /\ UNCHANGED <<stApiOnly, stRow>>

ChangeWritten ==
  /\ stApi.op \in {"paused", "active"}
  /\ stRow' = [stRow EXCEPT ![stApi.s].status = stApi.op]
  /\ stApi' = NoRequest
  /\ UNCHANGED <<stApiOnly, stGrant>>

(***************************************************************************)
(* The chain and the clock                                                  *)
(***************************************************************************)
OwnerSignsGrants ==
  /\ stGrant.status # "none" /\ stChainGrant <= stNow
  /\ stChainGrant' = stGrant.expires
  /\ UNCHANGED <<stMode, stNow, stRow, stGrant, stExec, stBalance, stBonded, stSent,
                 stTick, stLocks, stApi, stCut>>

\* A broadcast transaction is executed, or fails in its block (slippage, grants
\* gone, balance gone) or never reaches one.
Delivered(tx) ==
  /\ tx \in stSent
  /\ stSent' = stSent \ {tx}
  /\ \/ /\ stBalance >= tx.amount /\ (stMode = "direct" \/ stChainGrant > stNow)
        /\ stBalance' = stBalance - tx.amount /\ stBonded' = stBonded + tx.amount
     \/ UNCHANGED <<stBalance, stBonded>>
  /\ UNCHANGED <<stMode, stNow, stRow, stGrant, stChainGrant, stExec, stTick, stLocks,
                 stApi, stCut>>

StackerTimePasses ==
  /\ stNow < StackerClock /\ stNow' = stNow + 1
  /\ UNCHANGED <<stMode, stRow, stGrant, stExec, stTick, stLocks, stApi, stCut, stChain>>

KeeperStep(t) ==
  \/ TickStarts(t) \/ TakesStrategy(t) \/ ChecksGrants(t) \/ MarksExpired(t)
  \/ ReadsBalance(t) \/ CreatesExecution(t) \/ MarksExecuting(t) \/ SendsDelegation(t)
  \/ RecordsSuccess(t) \/ SyncsAndSettles(t) \/ RecordingThrows(t)
  \/ RecordsFailure(t) \/ ReopensAfterFailure(t) \/ TickThrows(t)

StackerNext ==
  \/ \E t \in Tick : KeeperStep(t)
  \/ KeeperRestarts
  \/ PrepareGrants \/ ConfirmWrites \/ ChangeWritten
  \/ \E s \in Strategy :
       ConfirmRequested(s) \/ \E to \in {"paused", "active"} : ChangeRequested(s, to)
  \/ OwnerSignsGrants \/ StackerTimePasses
  \/ \E tx \in stSent : Delivered(tx)

StackerSpec == StackerInit /\ [][StackerNext]_stackerVars

(***************************************************************************)
(* Properties                                                              *)
(***************************************************************************)
Working == {"send", "record", "sync", "failed", "reopen"}

\* A strategy is left `executing`, where no tick picks it up again, or an
\* execution `providing`, only by a crash or by a database error outside the
\* try: while nothing of the kind has happened some tick is at work on it,
\* however ticks, pauses and confirmations overlap.
KeeperNeverStuck ==
  \A s \in Strategy \ stCut :
    /\ stRow[s].status = "executing" =>
         \E t \in Tick : stTick[t].s = s /\ stTick[t].pc \in Working
    /\ \A r \in 1 .. Runs :
         (stExec[r].strategy = s /\ stExec[r].status = "providing") =>
            \E t \in Tick : stTick[t].run = r

\* Whatever is delegated for the owner is in the executions table, under the
\* amount that was sent, even when the keeper dies right after the broadcast or
\* when two ticks run the same strategy: the rows that are not queued account for
\* at least the delegated amount and the transactions under way.
DelegatedIsRecorded ==
  /\ \A tx \in stSent : stExec[tx.run].amount = tx.amount
  /\ stBonded + SumFunction([tx \in stSent |-> tx.amount])
       <= SumFunction([r \in 1 .. Runs |-> stExec[r].amount])
=============================================================================
