------------------------- MODULE RollupWithdrawals -------------------------
(***************************************************************************)
(* Withdrawals from the rollup to Initia L1: the bridge executor and L1 as    *)
(* the scripts and the browser use them, the finalizer that releases what is  *)
(* due, in order, from a state file, and the tracker that shows the merchant   *)
(* how far a withdrawal has come.                                            *)
(*                                                                         *)
(* One clock for L1 and the machines; L1's last block may be one unit behind.  *)
(* Outputs are never deleted: nothing in the scripts looks at challenges.      *)
(***************************************************************************)
EXTENDS Integers, Sequences, FiniteSets, FiniteSetsExt

CONSTANTS
  Withdrawals,     \* bound: withdrawals initiated on the rollup
  FinalPeriod,     \* finalization_period of the bridge
  WithdrawClock,   \* bound on time
  FinalizerRuns,   \* bound: starts of the finalizer
  Poll             \* ticks of the tracker that may overlap

ASSUME WithdrawAssumption ==
  Withdrawals \in Nat \ {0} /\ FinalPeriod \in Nat /\ FinalizerRuns \in Nat

VARIABLES
  wdNow,
  wdBurned,    \* withdrawals initiated on the rollup: sequences 1 .. wdBurned
  wdTree,      \* the executor's outputs: the last sequence each one covers
  wdOutputs,   \* when each of them was proposed on L1, in order
  wdPool,      \* finalize transactions broadcast and in no block yet
  wdSent,      \* sequences the finalizer has broadcast
  wdReleased,  \* sequences finalized on L1
  fz,          \* the finalizer process
  fzFile,      \* nextSequence in its state file, NoFile when it cannot be read
  fzRuns,
  wtRecord,    \* the record of withdrawal 1 in the browser
  wtTick       \* the ticks that work on it

bridgeVars == <<wdNow, wdBurned, wdTree, wdOutputs, wdPool, wdSent, wdReleased>>
finalizerVars == <<fz, fzFile, fzRuns>>
trackerVars == <<wtRecord, wtTick>>
withdrawVars == <<bridgeVars, finalizerVars, trackerVars>>

NoFile == 0
Unknown == -1
Down == [pc |-> "down", next |-> 0, last |-> 0, seq |-> 0, at |-> 0]
Resting == [pc |-> "idle"]

NewRecord == [status |-> "pending", sequence |-> FALSE, output |-> Unknown,
              proposed |-> Unknown, period |-> FALSE, l1Tx |-> FALSE]

WithdrawInit ==
  /\ wdNow = 1 /\ wdBurned = 0 /\ wdTree = <<>> /\ wdOutputs = <<>>
  /\ wdPool = {} /\ wdSent = {} /\ wdReleased = {}
  /\ fz = Down /\ fzFile = NoFile /\ fzRuns = 0
  /\ wtRecord = NewRecord /\ wtTick = [p \in Poll |-> Resting]

(***************************************************************************)
(* The bridge, as the scripts see it                                       *)
(***************************************************************************)
Covered == IF wdTree = <<>> THEN 0 ELSE wdTree[Len(wdTree)]

(* GET /withdrawal/{seq}: output_index, 0 as long as there is no proof *)
OutputIndex(seq) ==
  IF seq > Covered THEN 0 ELSE Min({i \in DOMAIN wdTree : seq <= wdTree[i]})

ProposedAt(seq) ==
  IF OutputIndex(seq) \in DOMAIN wdOutputs THEN wdOutputs[OutputIndex(seq)] ELSE Unknown

DueOnL1(seq, time) == ProposedAt(seq) # Unknown /\ time >= ProposedAt(seq) + FinalPeriod

WithdrawTick ==
  /\ wdNow < WithdrawClock /\ wdNow' = wdNow + 1
  /\ UNCHANGED <<wdBurned, wdTree, wdOutputs, wdPool, wdSent, wdReleased,
                 finalizerVars, trackerVars>>

Burned ==
  /\ wdBurned < Withdrawals /\ wdBurned' = wdBurned + 1
  /\ UNCHANGED <<wdNow, wdTree, wdOutputs, wdPool, wdSent, wdReleased,
                 finalizerVars, trackerVars>>

TreeFinished ==
  /\ wdBurned > Covered /\ wdTree' = Append(wdTree, wdBurned)
  /\ UNCHANGED <<wdNow, wdBurned, wdOutputs, wdPool, wdSent, wdReleased,
                 finalizerVars, trackerVars>>

OutputProposed ==
  /\ Len(wdOutputs) < Len(wdTree) /\ wdOutputs' = Append(wdOutputs, wdNow)
  /\ UNCHANGED <<wdNow, wdBurned, wdTree, wdPool, wdSent, wdReleased,
                 finalizerVars, trackerVars>>

(* A broadcast transaction is executed, or fails in its block. *)
TxExecuted ==
  /\ \E s \in wdPool, ok \in BOOLEAN :
       /\ wdPool' = wdPool \ {s}
       /\ wdReleased' = IF ok THEN wdReleased \cup {s} ELSE wdReleased
  /\ UNCHANGED <<wdNow, wdBurned, wdTree, wdOutputs, wdSent, finalizerVars, trackerVars>>

(* Anybody may finalize a withdrawal. *)
ReleasedElsewhere ==
  /\ \E s \in 1 .. wdBurned :
       DueOnL1(s, wdNow) /\ s \notin wdReleased /\ wdReleased' = wdReleased \cup {s}
  /\ UNCHANGED <<wdNow, wdBurned, wdTree, wdOutputs, wdPool, wdSent,
                 finalizerVars, trackerVars>>

(***************************************************************************)
(* The finalizer                                                           *)
(***************************************************************************)
(* loadState: without a readable state for this bridge it begins at the first *)
FinalizerStarts ==
  /\ fz.pc = "down" /\ fzRuns < FinalizerRuns /\ fzRuns' = fzRuns + 1
  /\ fz' = [Down EXCEPT !.pc = "poll", !.next = IF fzFile = NoFile THEN 1 ELSE fzFile]
  /\ UNCHANGED <<fzFile, bridgeVars, trackerVars>>

FinalizerPolls ==
  /\ fz.pc = "poll" /\ wdBurned >= fz.next
  /\ fz' = [fz EXCEPT !.pc = "withdrawal", !.last = wdBurned, !.seq = fz.next]
  /\ UNCHANGED <<fzFile, fzRuns, bridgeVars, trackerVars>>

BackToPoll == fz' = [fz EXCEPT !.pc = "poll", !.last = 0, !.seq = 0, !.at = 0]

FetchesWithdrawal ==
  /\ fz.pc = "withdrawal"
  /\ IF OutputIndex(fz.seq) > 0 THEN fz' = [fz EXCEPT !.pc = "output"] ELSE BackToPoll
  /\ UNCHANGED <<fzFile, fzRuns, bridgeVars, trackerVars>>

(* A missing output and a failing node are waited for alike. *)
ReadsOutput ==
  /\ fz.pc = "output"
  /\ IF DueOnL1(fz.seq, wdNow) THEN fz' = [fz EXCEPT !.pc = "send"] ELSE BackToPoll
  /\ UNCHANGED <<fzFile, fzRuns, bridgeVars, trackerVars>>

(* finalizeOnce: what the command answers. It simulates on L1 first, and        *)
(* "success" says that the node took the transaction.                          *)
FinalizeResult(seq, l1Time) ==
  IF seq \in wdReleased THEN "already-finalized"
  ELSE IF ~DueOnL1(seq, l1Time) THEN "not-finalized" ELSE "success"

(* Every answer that is not an unknown failure *)
AdvancesAnyway(kind) == kind \in {"success", "already-finalized", "not-finalized"}

Advances(kind) == kind \in {"success", "already-finalized"}

Finalizes ==
  /\ fz.pc = "send"
  /\ \E lag \in {0, 1} :
       LET kind == FinalizeResult(fz.seq, wdNow - lag)
       IN  /\ IF Advances(kind) THEN fz' = [fz EXCEPT !.pc = "save", !.next = fz.seq + 1]
              ELSE BackToPoll
           /\ wdPool' = IF kind = "success" THEN wdPool \cup {fz.seq} ELSE wdPool
           /\ wdSent' = IF kind = "success" THEN wdSent \cup {fz.seq} ELSE wdSent
  /\ UNCHANGED <<wdNow, wdBurned, wdTree, wdOutputs, wdReleased, fzFile, fzRuns, trackerVars>>

FinalizerSaves ==
  /\ fz.pc = "save" /\ fzFile' = fz.next
  /\ IF fz.seq < fz.last THEN fz' = [fz EXCEPT !.pc = "withdrawal", !.seq = fz.seq + 1]
     ELSE BackToPoll
  /\ UNCHANGED <<fzRuns, bridgeVars, trackerVars>>

(* Any failure the script does not know ends it, a verification failure and an   *)
(* interrupt too.                                                               *)
FinalizerEnds ==
  /\ fz.pc # "down" /\ fz' = Down
  /\ UNCHANGED <<fzFile, fzRuns, bridgeVars, trackerVars>>

(* writeFileSync truncates before it writes. *)
EndsInSave ==
  /\ fz.pc = "save" /\ fz' = Down /\ fzFile' = NoFile
  /\ UNCHANGED <<fzRuns, bridgeVars, trackerVars>>

(***************************************************************************)
(* The tracker                                                             *)
(***************************************************************************)
Active(r) == r.status \in {"pending", "proven"} \/ ~r.l1Tx

(* tick reads the stored record; advance then works on that copy. *)
TickReads(p) ==
  /\ wtTick[p].pc = "idle" /\ wdBurned > 0 /\ Active(wtRecord)
  /\ wtTick' = [wtTick EXCEPT ![p] = [pc |-> "look", record |-> wtRecord, new |-> wtRecord]]
  /\ UNCHANGED <<wtRecord, bridgeVars, finalizerVars>>

(* The sequence, the output the executor has put it in, and its proposal: what the *)
(* copy lacks is fetched. Output 0 is kept like any other.                         *)
TickLooks(p) ==
  /\ wtTick[p].pc = "look"
  /\ LET r == wtTick[p].record
         out == IF r.output = Unknown THEN OutputIndex(1) ELSE r.output
         time == IF r.proposed # Unknown THEN r.proposed
                 ELSE IF out \in DOMAIN wdOutputs THEN wdOutputs[out] ELSE Unknown
     IN  wtTick' = [wtTick EXCEPT ![p].pc = "search", ![p].new =
           [r EXCEPT !.sequence = TRUE, !.output = out, !.proposed = time, !.period = TRUE,
                     !.status = IF r.output = Unknown THEN "proven" ELSE r.status]]
  /\ UNCHANGED <<wtRecord, bridgeVars, finalizerVars>>

(* Without the time of the proposal the period counts as passed. *)
PeriodElapsedLax(r) == wdNow >= r.proposed + FinalPeriod

PeriodElapsed(r) == r.proposed # Unknown /\ wdNow >= r.proposed + FinalPeriod

(* The finalize transaction is looked up on L1; failing that, the passed period   *)
(* is taken for the release.                                                     *)
TickSearches(p) ==
  /\ wtTick[p].pc = "search"
  /\ LET n == wtTick[p].new
         r == wtTick[p].record
         look == ~r.l1Tx /\ (PeriodElapsed(n) \/ r.status \in {"proven", "finalized"})
     IN  wtTick' = [wtTick EXCEPT ![p].pc = "write", ![p].new =
           IF look /\ 1 \in wdReleased THEN [n EXCEPT !.status = "finalized", !.l1Tx = TRUE]
           ELSE IF PeriodElapsed(n) THEN [n EXCEPT !.status = "finalized"] ELSE n]
  /\ UNCHANGED <<wtRecord, bridgeVars, finalizerVars>>

(* updateRecord: the fields that changed are patched into what is stored by now. *)
TickWrites(p) ==
  /\ wtTick[p].pc = "write"
  /\ wtRecord' = [f \in DOMAIN wtRecord |->
                   IF wtTick[p].new[f] # wtTick[p].record[f] THEN wtTick[p].new[f]
                   ELSE wtRecord[f]]
  /\ wtTick' = [wtTick EXCEPT ![p] = Resting]
  /\ UNCHANGED <<bridgeVars, finalizerVars>>

(* A request fails: the patch is lost. *)
TickFails(p) ==
  /\ wtTick[p].pc \in {"look", "search"}
  /\ wtTick' = [wtTick EXCEPT ![p] = Resting]
  /\ UNCHANGED <<wtRecord, bridgeVars, finalizerVars>>

BridgeSteps ==
  \/ WithdrawTick \/ Burned \/ TreeFinished \/ OutputProposed \/ TxExecuted \/ ReleasedElsewhere

FinalizerSteps ==
  \/ FinalizerStarts \/ FinalizerPolls \/ FetchesWithdrawal \/ ReadsOutput
  \/ Finalizes \/ FinalizerSaves \/ FinalizerEnds \/ EndsInSave

TrackerSteps ==
  \E p \in Poll :
    TickReads(p) \/ TickLooks(p) \/ TickSearches(p) \/ TickWrites(p) \/ TickFails(p)

WithdrawNext == BridgeSteps \/ FinalizerSteps \/ TrackerSteps

WithdrawSpec == WithdrawInit /\ [][WithdrawNext]_withdrawVars

(***************************************************************************)
(* Properties                                                              *)
(***************************************************************************)
(* Whatever interrupts the finalizer and whoever else finalizes, a sequence below  *)
(* the one in the state file has been broadcast or released: no withdrawal is       *)
(* passed over untried (main, loadState, saveState).                               *)
NoneUntried ==
  \A s \in 1 .. Withdrawals :
    s < fzFile \/ s < fz.next => s \in wdSent \cup wdReleased

(* A withdrawal shown as final is released on L1, or the challenge period of its    *)
(* output has passed, though patches of overlapping ticks are merged in any order    *)
(* (advance, updateRecord). A shown L1 transaction is real.                          *)
ShownFinalIsDue ==
  /\ wtRecord.status = "finalized" => 1 \in wdReleased \/ DueOnL1(1, wdNow)
  /\ wtRecord.l1Tx => 1 \in wdReleased
=============================================================================
