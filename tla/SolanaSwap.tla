----------------------------- MODULE SolanaSwap -----------------------------
(***************************************************************************)
(* solana-watcher and solana-executor, for one order whose source swap is   *)
(* an HTLC of the native program: the program's log, the watcher's cursor    *)
(* and batch, the confirmations task, the executor's two pollers and its     *)
(* POST /secret, and the rows all of them read and write.                    *)
(*                                                                          *)
(* A transaction hash is a Boolean, since a swap has one transaction of each *)
(* kind; the program makes at most one of redeem and refund succeed. The     *)
(* watcher of the SPL program is another instance with the same rows.        *)
(***************************************************************************)
EXTENDS Integers, Sequences, SequencesExt

VARIABLES
  solLog,     \* events of the program for the swap, oldest first
  solFinal,   \* how many of them are finalized
  solExpired, \* the HTLC's slot of expiry has passed
  solDest,    \* the destination swap's row
  solRow,     \* the source swap's row
  solCursor,  \* how many events the watcher does not fetch any more
  solBatch,   \* of the batch under way, the events still to be written, and
              \* the cursor after it
  solTask,    \* of each task of the executor, what it does next
  solLost,    \* a write of an event has failed (bound: one such write)
  solSkipped  \* the watcher has started from a page without the spend

solChain == <<solLog, solFinal, solExpired, solDest>>
solWatcherMem == <<solCursor, solBatch>>
solFaults == <<solLost, solSkipped>>
solVars == <<solChain, solRow, solWatcherMem, solTask, solFaults>>

SolTask == {"redeemPoller", "refundPoller", "server"}

SolOpen == Len(solLog) = 1
SolSpent(kind) == Len(solLog) = 2 /\ solLog[2] = kind
NoBatch == [todo |-> <<>>, upto |-> 0]

-----------------------------------------------------------------------------
(* The chains.                                                             *)

SolInitiated ==
  /\ solLog = <<>>
  /\ solLog' = <<"Initiated">>
  /\ UNCHANGED <<solFinal, solExpired, solDest, solRow, solWatcherMem,
                 solTask, solFaults>>

\* The program's redeem and refund.
SolSpendable(kind) == SolOpen /\ (kind = "Refunded" => solExpired)

\* The initiator refunds it without the executor.
SolUserRefunds ==
  /\ SolSpendable("Refunded")
  /\ solLog' = Append(solLog, "Refunded")
  /\ UNCHANGED <<solFinal, solExpired, solDest, solRow, solWatcherMem,
                 solTask, solFaults>>

SolFinalizes ==
  /\ solFinal < Len(solLog)
  /\ solFinal' = solFinal + 1
  /\ UNCHANGED <<solLog, solExpired, solDest, solRow, solWatcherMem, solTask,
                 solFaults>>

SolExpires ==
  /\ SolOpen /\ ~solExpired
  /\ solExpired' = TRUE
  /\ UNCHANGED <<solLog, solFinal, solDest, solRow, solWatcherMem, solTask,
                 solFaults>>

\* The destination swap's row, as its own watcher writes it.
SolDestMoves ==
  /\ \/ solDest = "none" /\ solDest' = "initiated"
     \/ solDest = "initiated" /\ solDest' \in {"redeemed", "refunded"}
  /\ UNCHANGED <<solLog, solFinal, solExpired, solRow, solWatcherMem, solTask,
                 solFaults>>

-----------------------------------------------------------------------------
(* Watcher.run: processFrom again and again.                               *)

\* getTransactions: newest first, until the cursor
FetchedEvents == Reverse(SubSeq(solLog, solCursor + 1, Len(solLog)))

\* An error of an RPC or of the parser leaves everything as it was.
SolFetches ==
  /\ solBatch = NoBatch /\ solCursor < Len(solLog)
  /\ solBatch' = [todo |-> FetchedEvents, upto |-> Len(solLog)]
  /\ UNCHANGED <<solChain, solRow, solCursor, solTask, solFaults>>

\* Mutant: a spend counts only once the initiation is final.
AppliedWhenFinal(r, kind) ==
  LET unspent == r.init /\ ~r.redeem /\ ~r.refund /\ r.confs = 2
  IN CASE kind = "Initiated" /\ ~r.init -> [r EXCEPT !.init = TRUE, !.confs = 1]
       [] kind = "Redeemed" /\ unspent -> [r EXCEPT !.redeem = TRUE]
       [] kind = "Refunded" /\ unspent -> [r EXCEPT !.refund = TRUE]
       [] OTHER -> r

\* handleInitiated, handleRedeemed, handleRefunded
Applied(r, kind) ==
  LET unspent == r.init /\ ~r.redeem /\ ~r.refund
  IN CASE kind = "Initiated" /\ ~r.init -> [r EXCEPT !.init = TRUE, !.confs = 1]
       [] kind = "Redeemed" /\ unspent -> [r EXCEPT !.redeem = TRUE]
       [] kind = "Refunded" /\ unspent -> [r EXCEPT !.refund = TRUE]
       [] OTHER -> r

\* One turn of updateEvents; after the last one the newest event is `from`.
SolEventDone ==
  LET rest == Tail(solBatch.todo)
  IN /\ solBatch.todo # <<>>
     /\ solBatch' = IF rest = <<>> THEN NoBatch
                    ELSE [solBatch EXCEPT !.todo = rest]
     /\ solCursor' = IF rest = <<>> THEN solBatch.upto ELSE solCursor

SolEventWritten ==
  /\ SolEventDone
  /\ solRow' = Applied(solRow, Head(solBatch.todo))
  /\ UNCHANGED <<solChain, solTask, solFaults>>

\* A statement fails: that is logged, and the next event follows.
SolEventLost ==
  /\ SolEventDone
  /\ ~solLost /\ solLost' = TRUE
  /\ UNCHANGED <<solChain, solRow, solTask, solSkipped>>

-----------------------------------------------------------------------------
(* updateConfirmations                                                     *)

Unconfirmed(r) == r.init /\ ~r.redeem /\ ~r.refund /\ r.confs < 2

\* Mutant: a confirmed transaction counts as finalized.
StatusOptimistic == 0 .. 2

\* enumerateConfirmationString of the initiation, from a node that may be late
StatusRead == 0 .. (IF solFinal > 0 THEN 2 ELSE 1)

\* (What the write does not check again cannot change after the read.)
SolUpdatesConfirmations(status) ==
  /\ Unconfirmed(solRow) /\ status \in StatusRead /\ solRow.confs < status
  /\ solRow' = [solRow EXCEPT !.confs = status]
  /\ UNCHANGED <<solChain, solWatcherMem, solTask, solFaults>>

\* A new process starts from startAfterTransaction, or, when that is empty,
\* from the oldest of the newest 100 transactions of the program, which may be
\* past any of the swap's. (They are those of its first fetch: until that
\* succeeds the process has done nothing, and counts as not started.)
SolWatcherRestarts ==
  /\ solCursor' \in 0 .. Len(solLog) /\ solBatch' = NoBatch
  /\ solSkipped' = (solCursor' = 2)
  /\ UNCHANGED <<solChain, solRow, solTask, solLost>>

-----------------------------------------------------------------------------
(* solana-executor                                                         *)

\* Mutant: the destination's initiation for its redeem.
PendingRedeemInitiated ==
  /\ solRow.init /\ ~solRow.redeem /\ ~solRow.refund
  /\ solDest = "initiated"

\* getPendingRedeems
PendingRedeem ==
  /\ solRow.init /\ ~solRow.redeem /\ ~solRow.refund
  /\ solDest = "redeemed"

\* getPendingRefunds: the timelock, a number of slots, is always less than
\* the seconds since 1970 it is compared with.
PendingRefund == solRow.init /\ ~solRow.redeem /\ ~solRow.refund

KindOfTask(task) == IF task = "refundPoller" THEN "Refunded" ELSE "Redeemed"

\* The row is looked up. The server is asked with the secret, wherever it is
\* from, and has the checks of the refund poller.
SolTaskStarts(task) ==
  /\ solTask[task] = "idle"
  /\ IF task = "redeemPoller" THEN PendingRedeem ELSE PendingRefund
  /\ solTask' = [solTask EXCEPT ![task] = "send"]
  /\ UNCHANGED <<solChain, solRow, solWatcherMem, solFaults>>

\* nativeRedeem, nativeRefund
SolTaskSends(task) ==
  /\ solTask[task] = "send" /\ SolSpendable(KindOfTask(task))
  /\ solLog' = Append(solLog, KindOfTask(task))
  /\ solTask' = [solTask EXCEPT ![task] = "record"]
  /\ UNCHANGED <<solFinal, solExpired, solDest, solRow, solWatcherMem,
                 solFaults>>

\* Mutant: the error is not seen.
AfterErrorRecord == "record"

\* An error ends the turn.
AfterError == "idle"

\* The call fails, before or after the transaction got through.
SolSendFails(task) ==
  /\ solTask[task] = "send"
  /\ \/ UNCHANGED solLog
     \/ /\ SolSpendable(KindOfTask(task))
        /\ solLog' = Append(solLog, KindOfTask(task))
  /\ solTask' = [solTask EXCEPT ![task] = AfterError]
  /\ UNCHANGED <<solFinal, solExpired, solDest, solRow, solWatcherMem,
                 solFaults>>

\* recordRedeem, recordRefund; or getSlot or the statement fails
SolTaskRecords(task) ==
  /\ solTask[task] = "record"
  /\ \/ solRow' = IF KindOfTask(task) = "Redeemed"
                  THEN [solRow EXCEPT !.redeem = TRUE]
                  ELSE [solRow EXCEPT !.refund = TRUE]
     \/ UNCHANGED solRow
  /\ solTask' = [solTask EXCEPT ![task] = "idle"]
  /\ UNCHANGED <<solChain, solWatcherMem, solFaults>>

SolExecutorRestarts ==
  /\ solTask' = [task \in SolTask |-> "idle"]
  /\ UNCHANGED <<solChain, solRow, solWatcherMem, solFaults>>

-----------------------------------------------------------------------------

SolanaInit ==
  /\ solLog = <<>> /\ solFinal = 0 /\ solExpired = FALSE /\ solDest = "none"
  /\ solRow = [init |-> FALSE, redeem |-> FALSE, refund |-> FALSE, confs |-> 0]
  /\ solCursor = 0 /\ solBatch = NoBatch
  /\ solTask = [task \in SolTask |-> "idle"]
  /\ solLost = FALSE /\ solSkipped = FALSE

SolanaNext ==
  \/ SolInitiated \/ SolUserRefunds \/ SolFinalizes \/ SolExpires
  \/ SolDestMoves
  \/ SolFetches \/ SolEventWritten \/ SolEventLost
  \/ \E status \in 1 .. 2 : SolUpdatesConfirmations(status)
  \/ SolWatcherRestarts
  \/ \E task \in SolTask : \/ SolTaskStarts(task) \/ SolTaskSends(task)
                           \/ SolSendFails(task) \/ SolTaskRecords(task)
  \/ SolExecutorRestarts

(* The tasks are loops. A statement, a call that is possible and the process *)
(* that makes it do not fail for ever. What is read of a status is the truth *)
(* at times. The server is asked or not.                                     *)
SolanaWeak(n) ==
  CASE n = 1 -> SolFetches
    [] n = 2 -> SolFinalizes
    [] n = 3 -> SolUpdatesConfirmations(2)
    [] n = 4 -> SolTaskStarts("redeemPoller")
    [] n = 5 -> SolTaskStarts("refundPoller")

SolanaStrong(n) ==
  CASE n = 1 -> SolEventWritten
    [] n = 2 -> SolTaskSends("redeemPoller")
    [] n = 3 -> SolTaskSends("refundPoller")

SolanaFairness ==
  /\ \A n \in 1 .. 5 : WF_solVars(SolanaWeak(n))
  /\ \A n \in 1 .. 3 : SF_solVars(SolanaStrong(n))

SolanaSpec == SolanaInit /\ [][SolanaNext]_solVars /\ SolanaFairness

-----------------------------------------------------------------------------
(* What has to hold.                                                       *)

\* Five tasks of two processes write the row from what they read before, over
\* crashes, failed calls and replays of the log: what it says of a spend is
\* what the program did, it never has two spends, and it is not finalized
\* before the initiation is.
SolRowReal ==
  /\ solRow.redeem => SolSpent("Redeemed")
  /\ solRow.refund => SolSpent("Refunded")
  /\ solRow.init => solLog # <<>>
  /\ solRow.confs = 2 => solFinal > 0

\* A spend the watcher finds in a batch of its own gets into the row, if no
\* write fails: over restarts and replays of the watcher, and if the executor
\* crashed between sending and recording. Only a watcher that starts without a
\* cursor when the newest page of the program's transactions is past the spend
\* leaves it out. (In one batch with the initiation it is lost too, since the
\* batch is written newest first.)
SolSpendRecorded ==
  Len(solLog) = 2 /\ solCursor = 1 /\ solRow.init
    ~> \/ solLost \/ solSkipped
       \/ SolSpent("Redeemed") /\ solRow.redeem
       \/ SolSpent("Refunded") /\ solRow.refund

\* What there is to do about the source swap: get it once the destination's
\* secret is known, or give it back once it has expired.
SolWorkLeft ==
  /\ SolOpen /\ solRow.init
  /\ solDest = "redeemed" \/ solExpired

\* It is done in the end, although calls fail, replies get lost and two pollers
\* work on the same row.
SolSettles == []<>~SolWorkLeft
=============================================================================
