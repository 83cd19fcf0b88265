--------------------------- MODULE CustomerProofs ---------------------------
(***************************************************************************)
(* Proofs about what runs on the customer's side: the secret outlives the  *)
(* deposit in BrowserSwap, the finalizer of RollupWithdrawals passes no    *)
(* withdrawal over untried, and the page calls final only what is due.     *)
(***************************************************************************)
EXTENDS BrowserSwap, RollupWithdrawals, SumLemmas

-----------------------------------------------------------------------------
(* The page and the secret it keeps.                                       *)

\* The source side may have been locked, or will be without another look at the secret.
Committed(o) ==
  \/ o \in bsSent \/ bsFlow[o] \in {"locking", "waiting"}
  \/ bsFlow[o] = "creating" /\ bsKind # "evm"

LegsOK(o) == DOMAIN bsLegs[o] = {"src", "dst"}

FlowOK(o) ==
  /\ bsFlow[o] \in {"none", "creating", "locking", "waiting", "over"}
  /\ o \in bsSent => bsFlow[o] \in {"locking", "waiting", "over"}
  /\ bsLegs[o].src # "none" => o \in bsSent

\* The secret is there from before the order is committed until it has settled.
SecretKept(o) == Committed(o) /\ ~Settled(o) /\ o \notin bsGivenUp => o \in bsSecrets

BrowserInv ==
  /\ DOMAIN bsFlow = BrowserOrder /\ DOMAIN bsLegs = BrowserOrder
  /\ \A o \in BrowserOrder : LegsOK(o) /\ FlowOK(o) /\ SecretKept(o)

\* The invariant holds on an empty page.
LEMMA BrowserInitInv == BrowserInit => BrowserInv
BY DEF BrowserInit, BrowserInv, LegsOK, FlowOK, SecretKept, Committed, Untouched

\* The invariant contains the property.
LEMMA SecretByInv == BrowserInv => SecretOutlivesDeposit
BY DEF BrowserInv, FlowOK, SecretKept, Committed, Settled, SecretOutlivesDeposit

\* A settled order stays settled: no chain takes a redeem or a refund back.
LEMMA ChainKeeps == BrowserInv /\ ChainSteps => BrowserInv'
<1> SUFFICES ASSUME BrowserInv, ChainSteps PROVE BrowserInv'
    OBVIOUS
<1>1. UNCHANGED <<bsKind, bsFlow, bsSecrets, bsGivenUp, bsSent>>
      BY DEF ChainSteps, pageVars, storageVars
<1>2. PICK o \in BrowserOrder, side \in {"src", "dst"},
           from \in {"none", "locked"}, to \in {"locked", "redeemed", "refunded"} :
        /\ LegMoves(o, side, from, to)
        /\ side = "src" /\ from = "none" => o \in bsSent
      BY DEF ChainSteps
<1>3. /\ DOMAIN bsLegs' = BrowserOrder
      /\ \A p \in BrowserOrder \ {o} : bsLegs'[p] = bsLegs[p]
      /\ DOMAIN bsLegs'[o] = {"src", "dst"}
      /\ bsLegs'[o].src = IF side = "src" THEN to ELSE bsLegs[o].src
      /\ bsLegs'[o].dst = IF side = "dst" THEN to ELSE bsLegs[o].dst
      BY <1>2 DEF LegMoves, BrowserInv, LegsOK
<1>4. \A p \in BrowserOrder : Settled(p) => Settled(p)'
      BY <1>2, <1>3 DEF LegMoves, Settled, Refunded
<1>5. \A p \in BrowserOrder : LegsOK(p)'
      BY <1>3 DEF BrowserInv, LegsOK
<1>6. \A p \in BrowserOrder : FlowOK(p)'
      BY <1>1, <1>2, <1>3 DEF BrowserInv, FlowOK, LegMoves
<1>7. \A p \in BrowserOrder : SecretKept(p)'
      BY <1>1, <1>4 DEF BrowserInv, SecretKept, Committed
<1> QED BY <1>1, <1>3, <1>5, <1>6, <1>7 DEF BrowserInv

\* Every other step leaves the chains alone; what it has to show is this.
LEMMA PageKeeps ==
  ASSUME BrowserInv, UNCHANGED <<bsLegs, bsKind>>, DOMAIN bsFlow' = BrowserOrder,
         \A o \in BrowserOrder :
           /\ bsFlow'[o] \in {"none", "creating", "locking", "waiting", "over"}
           /\ o \in bsSent => o \in bsSent'
           /\ o \in bsSent' => bsFlow'[o] \in {"locking", "waiting", "over"}
           /\ SecretKept(o)'
  PROVE  BrowserInv'
BY DEF BrowserInv, LegsOK, FlowOK

\* Orders a step does not touch.
LEMMA SecretStays ==
  ASSUME BrowserInv, NEW o \in BrowserOrder, UNCHANGED <<bsLegs, bsKind>>,
         Committed(o)' => Committed(o), o \in bsGivenUp => o \in bsGivenUp',
         o \in bsSecrets => o \in bsSecrets' \/ o \in bsGivenUp' \/ Settled(o)
  PROVE  SecretKept(o)'
BY DEF BrowserInv, SecretKept, Settled, Refunded

\* The start functions: each stores the secret before it commits the order.
LEMMA StartKeeps ==
  ASSUME BrowserInv, NEW o \in BrowserOrder,
         \/ StartsSwap(o) \/ CreateFails(o) \/ CreatedEvm(o) \/ CreatedBtc(o) \/ CreatedSol(o)
         \/ WalletSends(o) \/ SourceConfirmed(o) \/ WalletFails(o)
  PROVE  BrowserInv'
<1> USE DEF PageOnly, storageVars, BrowserInv
<1>1. UNCHANGED <<bsLegs, bsKind, bsGivenUp>>
      BY DEF StartsSwap, CreateFails, CreatedEvm, CreatedBtc, CreatedSol, WalletSends,
             SourceConfirmed, WalletFails
<1>2. /\ DOMAIN bsFlow' = BrowserOrder
      /\ \A p \in BrowserOrder \ {o} :
           /\ bsFlow'[p] = bsFlow[p] /\ (p \in bsSent <=> p \in bsSent')
           /\ p \in bsSecrets => p \in bsSecrets'
      BY DEF StartsSwap, CreateFails, CreatedEvm, CreatedBtc, CreatedSol, WalletSends,
             SourceConfirmed, WalletFails, Forget
<1>3. \A p \in BrowserOrder \ {o} : SecretKept(p)'
      BY <1>1, <1>2, SecretStays DEF Committed
<1>4. /\ bsFlow'[o] \in {"creating", "locking", "waiting", "over"}
      /\ o \in bsSent => o \in bsSent'
      /\ o \in bsSent' => bsFlow'[o] \in {"locking", "waiting", "over"}
      BY DEF StartsSwap, CreateFails, CreatedEvm, CreatedBtc, CreatedSol, WalletSends,
             SourceConfirmed, WalletFails, FlowOK
<1>5. SecretKept(o)'
  <2>1. CASE StartsSwap(o)
        BY <2>1 DEF StartsSwap, SecretKept, Committed, FlowOK
  <2>2. CASE CreateFails(o)
        BY <1>1, <2>2 DEF CreateFails, SecretKept, Committed, FlowOK
  <2>3. CASE CreatedEvm(o)
        BY <2>3 DEF CreatedEvm, SecretKept
  <2>4. CASE CreatedBtc(o)
    <3>1. bsFlow[o] = "creating" /\ bsKind # "evm" /\ bsSecrets' = bsSecrets
          BY <2>4 DEF CreatedBtc
    <3> QED BY <1>1, <3>1 DEF SecretKept, Committed, Settled, Refunded
  <2>5. CASE CreatedSol(o)
        BY <1>1, <2>5, SecretStays DEF CreatedSol, Committed
  <2>6. CASE WalletSends(o)
        BY <1>1, <2>6, SecretStays DEF WalletSends, Committed
  <2>7. CASE SourceConfirmed(o)
        BY <1>1, <2>7, SecretStays DEF SourceConfirmed, Committed
  <2>8. CASE WalletFails(o)
        BY <1>1, <2>8, SecretStays DEF WalletFails, Committed
  <2> QED BY <2>1, <2>2, <2>3, <2>4, <2>5, <2>6, <2>7, <2>8
<1>6. \A p \in BrowserOrder :
        /\ bsFlow'[p] \in {"none", "creating", "locking", "waiting", "over"}
        /\ p \in bsSent => p \in bsSent'
        /\ p \in bsSent' => bsFlow'[p] \in {"locking", "waiting", "over"}
        /\ SecretKept(p)'
      BY <1>2, <1>3, <1>4, <1>5 DEF FlowOK
<1> QED BY <1>1, <1>2, <1>6, PageKeeps

\* Whatever follows an order forgets its secret only when it has settled, or gives it up.
LEMMA FollowKeeps ==
  ASSUME BrowserInv,
         \/ HookPolls \/ PollTimesOut \/ Resets \/ AbortEnds \/ LeavesPayPage
         \/ \E o \in BrowserOrder : SecretPollerLooks(o) \/ RevealAnswered(o)
  PROVE  BrowserInv'
<1> USE DEF PageOnly, storageVars, pageVars
<1>1. UNCHANGED <<bsLegs, bsKind, bsFlow, bsSent>>
      BY DEF HookPolls, PollTimesOut, Resets, AbortEnds, LeavesPayPage, SecretPollerLooks,
             RevealAnswered
<1>2. \A o \in BrowserOrder :
        /\ o \in bsGivenUp => o \in bsGivenUp'
        /\ o \in bsSecrets => o \in bsSecrets' \/ o \in bsGivenUp' \/ Settled(o)
      BY DEF HookPolls, PollTimesOut, Resets, AbortEnds, LeavesPayPage, SecretPollerLooks,
             RevealAnswered, Forget, TimeoutDropsSecret
<1>3. \A o \in BrowserOrder : SecretKept(o)'
      BY <1>1, <1>2, SecretStays DEF Committed
<1> QED BY <1>1, <1>3, PageKeeps DEF BrowserInv, FlowOK

\* Closing and opening the page leaves storage alone.
LEMMA PageOpensKeeps ==
  ASSUME BrowserInv, PageCloses \/ PageOpens
  PROVE  BrowserInv'
<1>1. UNCHANGED <<bsLegs, bsKind, bsSent, bsSecrets, bsGivenUp>>
      BY DEF PageCloses, PageOpens, storageVars
<1>2. /\ DOMAIN bsFlow' = BrowserOrder
      /\ \A o \in BrowserOrder :
           \/ bsFlow'[o] = bsFlow[o]
           \/ bsFlow'[o] = "over" /\ bsFlow[o] # "none"
      BY DEF PageCloses, PageOpens, BrowserInv
<1>3. \A o \in BrowserOrder : SecretKept(o)'
      BY <1>1, <1>2, SecretStays DEF Committed
<1> QED BY <1>1, <1>2, <1>3, PageKeeps DEF BrowserInv, FlowOK

\* The invariant does not change when nothing does.
LEMMA BrowserStutters == BrowserInv /\ UNCHANGED browserVars => BrowserInv'
BY DEF BrowserInv, LegsOK, FlowOK, SecretKept, Committed, Settled, Refunded, browserVars,
       pageVars, storageVars

\* While the customer's funds are locked and the order can settle, the secret is in the
\* browser's storage, unless the Bitcoin hook has given the order up (useSwap.ts,
\* useBitcoinSwap.ts, useSolanaSwap.ts, useSecretPoller).
THEOREM SecretOutlivesDepositHolds == BrowserSpec => []SecretOutlivesDeposit
<1>1. BrowserInv /\ [BrowserNext]_browserVars => BrowserInv'
      BY ChainKeeps, StartKeeps, FollowKeeps, PageOpensKeeps, BrowserStutters DEF BrowserNext
<1> QED BY BrowserInitInv, SecretByInv, <1>1, PTL DEF BrowserSpec

-----------------------------------------------------------------------------
(* The finalizer.                                                          *)

\* Broadcast by the finalizer, or released on L1 by whomever.
Tried(n) == \A s \in 1 .. Withdrawals : s < n => s \in wdSent \cup wdReleased

Phase == {"down", "poll", "withdrawal", "output", "send", "save"}

Process == [pc : Phase, next : Nat, last : Nat, seq : Nat, at : Nat]

\* All that the state file and the process count as done is tried; while it works
\* the process is at the sequence that comes next, and at the one after it when it saves.
FinalizerInv ==
  /\ fzFile \in Nat /\ wdBurned \in Nat /\ fz \in Process
  /\ Tried(fzFile) /\ Tried(fz.next)
  /\ fz.pc \in {"withdrawal", "output", "send"} => fz.seq = fz.next
  /\ fz.pc = "save" => fz.next = fz.seq + 1

\* What was tried stays tried: a broadcast is never forgotten, a release never undone.
LEMMA TriedGrows ==
  ASSUME NEW n \in Nat, Tried(n), wdSent \subseteq wdSent', wdReleased \subseteq wdReleased'
  PROVE  Tried(n)'
BY DEF Tried

\* The scripts start with nothing counted as done (loadState without a file).
LEMMA FinalizerInitInv == WithdrawInit => FinalizerInv
BY WithdrawAssumption DEF WithdrawInit, FinalizerInv, Process, Phase, Tried, Down, NoFile

\* The bridge and the tracker leave the finalizer alone, and no step of theirs takes a
\* broadcast or a release back.
LEMMA OthersKeepInv == FinalizerInv /\ (BridgeSteps \/ TrackerSteps) => FinalizerInv'
<1> SUFFICES ASSUME FinalizerInv, BridgeSteps \/ TrackerSteps PROVE FinalizerInv'
    OBVIOUS
<1>1. UNCHANGED <<fz, fzFile>> /\ wdSent' = wdSent /\ wdReleased \subseteq wdReleased'
      BY DEF BridgeSteps, TrackerSteps, WithdrawTick, Burned, TreeFinished, OutputProposed,
             TxExecuted, ReleasedElsewhere, TickReads, TickLooks, TickSearches, TickWrites,
             TickFails, bridgeVars, finalizerVars
<1>2. wdBurned' \in {wdBurned, wdBurned + 1}
      BY DEF BridgeSteps, TrackerSteps, WithdrawTick, Burned, TreeFinished,
             OutputProposed, TxExecuted, ReleasedElsewhere, TickReads, TickLooks,
             TickSearches, TickWrites, TickFails, bridgeVars
<1>3. Tried(fzFile)' /\ Tried(fz.next)'
      BY <1>1, WithdrawAssumption DEF Tried, FinalizerInv
<1> QED BY <1>1, <1>2, <1>3 DEF FinalizerInv

\* Each step of the finalizer: only an answer that says broadcast or released moves it on.
LEMMA FinalizerKeepsInv == FinalizerInv /\ FinalizerSteps => FinalizerInv'
<1> SUFFICES ASSUME FinalizerInv, FinalizerSteps PROVE FinalizerInv'
    OBVIOUS
<1> USE WithdrawAssumption DEF FinalizerInv
<1>n. fz.next \in Nat /\ fz.last \in Nat /\ fz.seq \in Nat /\ fz.at \in Nat
      BY DEF Process
<1> USE <1>n
<1>0. BackToPoll => /\ fz' = [pc |-> "poll", next |-> fz.next, last |-> 0, seq |-> 0, at |-> 0]
                    /\ fz' \in Process /\ fz'.next = fz.next /\ fz'.pc = "poll"
  <2>1. BackToPoll => fz' = [pc |-> "poll", next |-> fz.next, last |-> 0, seq |-> 0, at |-> 0]
        BY DEF BackToPoll, Process
  <2> QED BY <2>1 DEF Process, Phase
<1>d. Down \in Process /\ Down.pc = "down" /\ Down.next = 0 /\ Tried(0)
      BY DEF Down, Process, Phase, Tried
<1>1. CASE FinalizerStarts
  <2>1. PICK n \in Nat : fz' = [pc |-> "poll", next |-> n, last |-> 0, seq |-> 0, at |-> 0]
                          /\ Tried(n)
    <3>1. /\ (IF fzFile = NoFile THEN 1 ELSE fzFile) \in Nat
          /\ Tried(IF fzFile = NoFile THEN 1 ELSE fzFile)
          BY DEF Tried
    <3>2. fz' = [pc |-> "poll", next |-> IF fzFile = NoFile THEN 1 ELSE fzFile, last |-> 0,
                 seq |-> 0, at |-> 0]
          BY <1>1 DEF FinalizerStarts, Down
    <3> QED BY <3>1, <3>2
  <2>2. UNCHANGED <<fzFile, wdBurned, wdSent, wdReleased>>
        BY <1>1 DEF FinalizerStarts, bridgeVars
  <2>3. fz' \in Process /\ fz'.pc = "poll" /\ fz'.next = n
        BY <2>1 DEF Process, Phase
  <2> QED BY <2>1, <2>2, <2>3 DEF Tried
<1>2. CASE FinalizerPolls
  <2>1. fz' = [pc |-> "withdrawal", next |-> fz.next, last |-> wdBurned, seq |-> fz.next,
               at |-> fz.at]
        BY <1>2 DEF FinalizerPolls, Process
  <2>2. UNCHANGED <<fzFile, wdBurned, wdSent, wdReleased>>
        BY <1>2 DEF FinalizerPolls, bridgeVars
  <2>3. fz' \in Process /\ fz'.pc = "withdrawal" /\ fz'.next = fz.next /\ fz'.seq = fz.next
        BY <2>1 DEF Process, Phase
  <2> QED BY <2>2, <2>3 DEF Tried
<1>3. CASE FetchesWithdrawal
  <2>1. UNCHANGED <<fzFile, wdBurned, wdSent, wdReleased>> /\ fz.pc = "withdrawal"
        BY <1>3 DEF FetchesWithdrawal, bridgeVars
  <2>2. CASE BackToPoll
        BY <2>1, <2>2, <1>0 DEF Tried
  <2>3. CASE fz' = [fz EXCEPT !.pc = "output"]
    <3>1. fz' \in Process /\ fz'.pc = "output" /\ fz'.next = fz.next /\ fz'.seq = fz.seq
          BY <2>3 DEF Process, Phase
    <3> QED BY <2>1, <3>1 DEF Tried
  <2> QED BY <1>3, <2>2, <2>3 DEF FetchesWithdrawal
<1>4. CASE ReadsOutput
  <2>1. UNCHANGED <<fzFile, wdBurned, wdSent, wdReleased>> /\ fz.pc = "output"
        BY <1>4 DEF ReadsOutput, bridgeVars
  <2>2. CASE BackToPoll
        BY <2>1, <2>2, <1>0 DEF Tried
  <2>3. CASE fz' = [fz EXCEPT !.pc = "send"]
    <3>1. fz' \in Process /\ fz'.pc = "send" /\ fz'.next = fz.next /\ fz'.seq = fz.seq
          BY <2>3 DEF Process, Phase
    <3> QED BY <2>1, <3>1 DEF Tried
  <2> QED BY <1>4, <2>2, <2>3 DEF ReadsOutput
<1>5. CASE Finalizes
  <2>1. PICK lag \in {0, 1} :
          LET kind == FinalizeResult(fz.seq, wdNow - lag)
          IN  /\ IF Advances(kind) THEN fz' = [fz EXCEPT !.pc = "save", !.next = fz.seq + 1]
                 ELSE BackToPoll
              /\ wdPool' = IF kind = "success" THEN wdPool \cup {fz.seq} ELSE wdPool
              /\ wdSent' = IF kind = "success" THEN wdSent \cup {fz.seq} ELSE wdSent
        BY <1>5 DEF Finalizes
  <2>2. fzFile' = fzFile /\ wdReleased' = wdReleased /\ wdBurned' = wdBurned
        BY <1>5 DEF Finalizes
  <2>3. wdSent \subseteq wdSent'
        BY <2>1
  <2>4. Tried(fzFile)' /\ \A s \in 1 .. Withdrawals : s < fz.next => s \in (wdSent \cup wdReleased)'
        BY <2>2, <2>3 DEF Tried
  <2> DEFINE kind == FinalizeResult(fz.seq, wdNow - lag)
  <2>5. CASE Advances(kind)
    <3>1. fz.seq \in (wdSent \cup wdReleased)'
          BY <2>1, <2>2, <2>5 DEF Advances, FinalizeResult
    <3>2. fz' = [pc |-> "save", next |-> fz.seq + 1, last |-> fz.last, seq |-> fz.seq,
                 at |-> fz.at]
          BY <2>1, <2>5 DEF Process
    <3>3. fz' \in Process /\ fz'.pc = "save" /\ fz'.next = fz.seq + 1 /\ fz'.seq = fz.seq
          BY <3>2 DEF Process, Phase
    <3>4. fz.seq = fz.next
          BY <1>5 DEF Finalizes
    <3>5. Tried(fz.next)'
          BY <3>1, <3>3, <3>4, <2>4 DEF Tried
    <3> QED BY <3>3, <3>5, <2>2, <2>4
  <2>6. CASE ~Advances(kind)
    <3>1. BackToPoll
          BY <2>1, <2>6
    <3> QED BY <3>1, <1>0, <2>2, <2>4 DEF Tried
  <2> QED BY <2>5, <2>6
<1>6. CASE FinalizerSaves
  <2>1. UNCHANGED <<wdBurned, wdSent, wdReleased>> /\ fz.pc = "save" /\ fzFile' = fz.next
        BY <1>6 DEF FinalizerSaves, bridgeVars
  <2>2. CASE BackToPoll
        BY <2>1, <2>2, <1>0 DEF Tried
  <2>3. CASE fz' = [fz EXCEPT !.pc = "withdrawal", !.seq = fz.seq + 1]
    <3>1. fz' = [pc |-> "withdrawal", next |-> fz.next, last |-> fz.last,
                 seq |-> fz.seq + 1, at |-> fz.at]
          BY <2>3 DEF Process
    <3>2. fz' \in Process /\ fz'.pc = "withdrawal" /\ fz'.next = fz.next
             /\ fz'.seq = fz.seq + 1
          BY <3>1 DEF Process, Phase
    <3> QED BY <2>1, <3>2 DEF Tried
  <2> QED BY <1>6, <2>2, <2>3 DEF FinalizerSaves
<1>7. CASE FinalizerEnds
      BY <1>7, <1>d DEF FinalizerEnds, bridgeVars, Tried
<1>8. CASE EndsInSave
      BY <1>8, <1>d DEF EndsInSave, NoFile, bridgeVars, Tried
<1> QED BY <1>1, <1>2, <1>3, <1>4, <1>5, <1>6, <1>7, <1>8 DEF FinalizerSteps

\* The invariant does not change when nothing does.
LEMMA WithdrawStutters == FinalizerInv /\ UNCHANGED withdrawVars => FinalizerInv'
BY DEF FinalizerInv, Tried, withdrawVars, bridgeVars, finalizerVars

\* Whatever interrupts the finalizer, every sequence below the one in its state file or
\* in its hands was broadcast or released (finalize-withdrawals.ts: main, saveState).
THEOREM NoneUntriedHolds == WithdrawSpec => []NoneUntried
<1>1. FinalizerInv => NoneUntried
      BY DEF FinalizerInv, NoneUntried, Tried
<1>2. FinalizerInv /\ [WithdrawNext]_withdrawVars => FinalizerInv'
      BY OthersKeepInv, FinalizerKeepsInv, WithdrawStutters DEF WithdrawNext
<1> QED BY FinalizerInitInv, <1>1, <1>2, PTL DEF WithdrawSpec

-----------------------------------------------------------------------------
(* What the page shows of a withdrawal.                                    *)

\* The bridge: an output covers at least one withdrawal, and once it is proposed
\* the time of its proposal stands.
BridgeTypes ==
  /\ wdNow \in Nat /\ wdBurned \in Nat
  /\ wdTree \in Seq(Nat \ {0}) /\ wdOutputs \in Seq(Nat)
  /\ Len(wdOutputs) <= Len(wdTree)

\* The challenge period of the first output has passed.
DueFrom(outputs, now) == outputs # <<>> /\ now >= outputs[1] + FinalPeriod

Fields == {"status", "sequence", "output", "proposed", "period", "l1Tx"}

\* What holds of a record holds field by field, as patches are merged by field.
Sound(r, released, outputs, now) ==
  /\ DOMAIN r = Fields
  /\ r.status \in {"pending", "proven", "finalized"}
  /\ r.status = "finalized" => 1 \in released \/ DueFrom(outputs, now)
  /\ r.output \in {Unknown, 0, 1}
  /\ r.proposed = Unknown \/ (outputs # <<>> /\ r.proposed = outputs[1])
  /\ r.l1Tx \in BOOLEAN /\ (r.l1Tx => 1 \in released)

\* A tick that has read the record has two sound copies of it.
TickSound(x, released, outputs, now) ==
  /\ x.pc \in {"idle", "look", "search", "write"}
  /\ x.pc # "idle" => /\ x = [pc |-> x.pc, record |-> x.record, new |-> x.new]
                      /\ Sound(x.record, released, outputs, now)
                      /\ Sound(x.new, released, outputs, now)

TrackerInv ==
  /\ BridgeTypes
  /\ Sound(wtRecord, wdReleased, wdOutputs, wdNow)
  /\ DOMAIN wtTick = Poll
  /\ \A p \in Poll : TickSound(wtTick[p], wdReleased, wdOutputs, wdNow)

\* The output withdrawal 1 is in, if any, is the first.
LEMMA FirstOutput ==
  ASSUME BridgeTypes
  PROVE  /\ OutputIndex(1) \in {0, 1}
         /\ wdTree # <<>> => OutputIndex(1) = 1
         /\ wdTree = <<>> => OutputIndex(1) = 0
<1>1. CASE wdTree = <<>>
      BY <1>1 DEF OutputIndex, Covered
<1>2. CASE wdTree # <<>>
  <2>1. Len(wdTree) \in Nat \ {0} /\ DOMAIN wdTree = 1 .. Len(wdTree)
        BY <1>2 DEF BridgeTypes
  <2>2. \A i \in DOMAIN wdTree : wdTree[i] \in Nat \ {0}
        BY DEF BridgeTypes
  <2> DEFINE T == {i \in DOMAIN wdTree : 1 <= wdTree[i]}
  <2>3. 1 \in T /\ \A i \in T : i >= 1 /\ i \in Nat
        BY <2>1, <2>2
  <2>4. Min(T) = 1
    <3> HIDE DEF T
    <3>1. \A x \in T : (\A y \in T : x <= y) => x = 1
          BY <2>3
    <3>2. \A y \in T : 1 <= y
          BY <2>3
    <3> QED BY <2>3, <3>1, <3>2 DEF Min
  <2>5. ~(1 > Covered)
        BY <1>2, <2>1, <2>2 DEF Covered
  <2> QED BY <1>2, <2>4, <2>5 DEF OutputIndex
<1> QED BY <1>1, <1>2

\* The proposal of the output of withdrawal 1.
LEMMA FirstProposal ==
  ASSUME BridgeTypes
  PROVE  /\ wdOutputs # <<>> => ProposedAt(1) = wdOutputs[1] /\ wdOutputs[1] \in Nat
         /\ wdOutputs = <<>> => ProposedAt(1) = Unknown
<1>1. CASE wdOutputs = <<>>
      BY <1>1, FirstOutput DEF ProposedAt
<1>2. CASE wdOutputs # <<>>
  <2>1. Len(wdOutputs) \in Nat \ {0} /\ DOMAIN wdOutputs = 1 .. Len(wdOutputs)
        BY <1>2 DEF BridgeTypes
  <2>2. wdTree # <<>>
        BY <2>1 DEF BridgeTypes
  <2> QED BY <1>2, <2>1, <2>2, FirstOutput DEF ProposedAt, BridgeTypes
<1> QED BY <1>1, <1>2

\* A withdrawal is due on L1 by the outputs proposed so far.
LEMMA DueIff ==
  ASSUME BridgeTypes
  PROVE  DueOnL1(1, wdNow) <=> DueFrom(wdOutputs, wdNow)
<1>1. CASE wdOutputs = <<>>
      BY <1>1, FirstProposal DEF DueOnL1, DueFrom
<1>2. CASE wdOutputs # <<>>
  <2>1. ProposedAt(1) = wdOutputs[1] /\ wdOutputs[1] \in Nat /\ wdOutputs[1] # Unknown
        BY <1>2, FirstProposal DEF Unknown
  <2> QED BY <1>2, <2>1 DEF DueOnL1, DueFrom
<1> QED BY <1>1, <1>2

\* The invariant holds before anything is withdrawn.
LEMMA TrackerInitInv == WithdrawInit => TrackerInv
<1> SUFFICES ASSUME WithdrawInit PROVE TrackerInv
    OBVIOUS
<1>1. BridgeTypes
      BY DEF WithdrawInit, BridgeTypes
<1>2. Sound(wtRecord, wdReleased, wdOutputs, wdNow)
      BY DEF WithdrawInit, Sound, NewRecord, Fields
<1>3. \A p \in Poll : TickSound(wtTick[p], wdReleased, wdOutputs, wdNow)
      BY DEF WithdrawInit, TickSound, Resting
<1> QED BY <1>1, <1>2, <1>3 DEF TrackerInv, WithdrawInit

\* Releases are not undone, the first output keeps its time, and time passes.
LEMMA SoundGrows ==
  ASSUME NEW r, NEW R, NEW Q, NEW o \in Seq(Nat), NEW u \in Seq(Nat),
         NEW n \in Nat, NEW m \in Nat,
         R \subseteq Q, n <= m, o = <<>> \/ (u # <<>> /\ u[1] = o[1]),
         Sound(r, R, o, n)
  PROVE  Sound(r, Q, u, m)
<1>1. DueFrom(o, n) => DueFrom(u, m)
  <2>1. o # <<>> => o[1] \in Nat
        OBVIOUS
  <2> QED BY <2>1, WithdrawAssumption DEF DueFrom
<1> QED BY <1>1 DEF Sound

\* A bridge that only moves forward leaves what the page shows true.
LEMMA BridgeKeeps ==
  ASSUME TrackerInv, BridgeTypes', UNCHANGED trackerVars,
         wdReleased \subseteq wdReleased', wdNow <= wdNow',
         wdOutputs = <<>> \/ (wdOutputs' # <<>> /\ wdOutputs'[1] = wdOutputs[1])
  PROVE  TrackerInv'
<1>1. /\ wdOutputs \in Seq(Nat) /\ wdOutputs' \in Seq(Nat)
      /\ wdNow \in Nat /\ wdNow' \in Nat
      BY DEF TrackerInv, BridgeTypes
<1>2. wtRecord' = wtRecord /\ wtTick' = wtTick
      BY DEF trackerVars
<1>3. Sound(wtRecord, wdReleased', wdOutputs', wdNow')
      BY <1>1, SoundGrows DEF TrackerInv
<1>4. ASSUME NEW p \in Poll PROVE TickSound(wtTick[p], wdReleased', wdOutputs', wdNow')
  <2>1. TickSound(wtTick[p], wdReleased, wdOutputs, wdNow)
        BY DEF TrackerInv
  <2> QED BY <1>1, <2>1, SoundGrows DEF TickSound
<1> QED BY <1>2, <1>3, <1>4 DEF TrackerInv

\* The steps of the rollup and of L1 only move the bridge forward.
LEMMA BridgeStepsKeep ==
  ASSUME TrackerInv, BridgeSteps PROVE TrackerInv'
<1> USE DEF TrackerInv, BridgeTypes, finalizerVars
<1>1. CASE WithdrawTick
      BY <1>1, BridgeKeeps DEF WithdrawTick
<1>2. CASE Burned
      BY <1>2, BridgeKeeps DEF Burned
<1>3. CASE TreeFinished
  <2>1. Covered \in Nat
        BY DEF Covered
  <2>2. wdBurned \in Nat \ {0}
        BY <1>3, <2>1 DEF TreeFinished
  <2>3. wdTree' \in Seq(Nat \ {0}) /\ Len(wdTree') = Len(wdTree) + 1 /\ Len(wdTree) \in Nat
        BY <1>3, <2>2 DEF TreeFinished
  <2>4. BridgeTypes'
        BY <1>3, <2>3 DEF TreeFinished
  <2> QED BY <1>3, <2>4, BridgeKeeps DEF TreeFinished
<1>4. CASE OutputProposed
  <2>1. /\ wdOutputs' \in Seq(Nat) /\ Len(wdOutputs') = Len(wdOutputs) + 1
        /\ wdOutputs # <<>> => wdOutputs'[1] = wdOutputs[1]
        /\ wdOutputs' # <<>>
        BY <1>4 DEF OutputProposed
  <2>2. BridgeTypes'
        BY <1>4, <2>1 DEF OutputProposed
  <2> QED BY <1>4, <2>1, <2>2, BridgeKeeps DEF OutputProposed
<1>5. CASE TxExecuted \/ ReleasedElsewhere
  <2>1. /\ wdReleased \subseteq wdReleased'
        /\ UNCHANGED <<wdNow, wdBurned, wdTree, wdOutputs, trackerVars>>
        BY <1>5 DEF TxExecuted, ReleasedElsewhere
  <2> QED BY <2>1, BridgeKeeps
<1> QED BY <1>1, <1>2, <1>3, <1>4, <1>5 DEF BridgeSteps

\* The finalizer touches nothing the page looks at but the releases.
LEMMA FinalizerStepsKeep ==
  ASSUME TrackerInv, FinalizerSteps PROVE TrackerInv'
<1>1. UNCHANGED <<wdNow, wdBurned, wdTree, wdOutputs, wdReleased, trackerVars>>
      BY DEF FinalizerSteps, FinalizerStarts, FinalizerPolls, FetchesWithdrawal, ReadsOutput,
             Finalizes, FinalizerSaves, FinalizerEnds, EndsInSave, bridgeVars
<1> QED BY <1>1, BridgeKeeps DEF TrackerInv, BridgeTypes

\* A tick changes and the record stays.
LEMMA TickKeeps ==
  ASSUME TrackerInv, UNCHANGED <<bridgeVars, wtRecord>>, NEW p \in Poll, NEW y,
         wtTick' = [wtTick EXCEPT ![p] = y],
         TickSound(y, wdReleased, wdOutputs, wdNow)
  PROVE  TrackerInv'
<1>1. \A q \in Poll : TickSound(wtTick'[q], wdReleased, wdOutputs, wdNow)
      BY DEF TrackerInv
<1> QED BY <1>1 DEF TrackerInv, BridgeTypes, bridgeVars

\* A poll at rest shows nothing new.
LEMMA RestingIsSound == \A R, o, n : TickSound(Resting, R, o, n)
BY DEF TickSound, Resting

\* One field of a record is replaced.
LEMMA OneField ==
  ASSUME NEW r, DOMAIN r = Fields, NEW f \in Fields, NEW v
  PROVE  /\ DOMAIN [r EXCEPT ![f] = v] = Fields /\ [r EXCEPT ![f] = v][f] = v
         /\ \A g \in Fields \ {f} : [r EXCEPT ![f] = v][g] = r[g]
OBVIOUS

\* A poll starts with the record as it is.
LEMMA TickReadsKeeps ==
  ASSUME TrackerInv, NEW p \in Poll, TickReads(p) PROVE TrackerInv'
<1> DEFINE y == [pc |-> "look", record |-> wtRecord, new |-> wtRecord]
<1>1. wtTick' = [wtTick EXCEPT ![p] = y] /\ UNCHANGED <<bridgeVars, wtRecord>>
      BY DEF TickReads
<1>2. TickSound(y, wdReleased, wdOutputs, wdNow)
      BY DEF TickSound, TrackerInv
<1> QED BY <1>1, <1>2, TickKeeps

\* Two fields of a poll are replaced.
LEMMA TwoOfTick ==
  ASSUME NEW x, x = [pc |-> x.pc, record |-> x.record, new |-> x.new], NEW pc, NEW n
  PROVE  [x EXCEPT !.pc = pc, !.new = n] = [pc |-> pc, record |-> x.record, new |-> n]
<1>1. [x EXCEPT !.pc = pc] = [pc |-> pc, record |-> x.record, new |-> x.new]
      OBVIOUS
<1>2. [[pc |-> pc, record |-> x.record, new |-> x.new] EXCEPT !.new = n]
      = [pc |-> pc, record |-> x.record, new |-> n]
      OBVIOUS
<1> QED BY <1>1, <1>2

\* A poll that asks the bridge learns what is so.
LEMMA TickLooksKeeps ==
  ASSUME TrackerInv, NEW p \in Poll, TickLooks(p) PROVE TrackerInv'
<1> DEFINE x == wtTick[p]
           r == x.record
           out == IF r.output = Unknown THEN OutputIndex(1) ELSE r.output
           time == IF r.proposed # Unknown THEN r.proposed
                   ELSE IF out \in DOMAIN wdOutputs THEN wdOutputs[out] ELSE Unknown
           status == IF r.output = Unknown THEN "proven" ELSE r.status
           n == [r EXCEPT !.sequence = TRUE, !.output = out, !.proposed = time,
                          !.period = TRUE, !.status = status]
           y == [pc |-> "search", record |-> r, new |-> n]
<1>1. /\ x.pc = "look" /\ UNCHANGED <<bridgeVars, wtRecord>>
      /\ x = [pc |-> x.pc, record |-> r, new |-> x.new]
      /\ Sound(r, wdReleased, wdOutputs, wdNow) /\ BridgeTypes
      BY DEF TickLooks, TrackerInv, TickSound
<1>2. out \in {0, 1} /\ out \in {Unknown, 0, 1}
      BY <1>1, FirstOutput DEF Sound
<1>3. time = Unknown \/ (wdOutputs # <<>> /\ time = wdOutputs[1])
  <2>1. DOMAIN wdOutputs = 1 .. Len(wdOutputs) /\ Len(wdOutputs) \in Nat
        BY <1>1 DEF BridgeTypes
  <2>2. out \in DOMAIN wdOutputs => out = 1 /\ wdOutputs # <<>>
        BY <1>2, <2>1
  <2> HIDE DEF out
  <2> QED BY <1>1, <2>2 DEF Sound
<1>4. wtTick' = [wtTick EXCEPT ![p].pc = "search", ![p].new = n]
      BY DEF TickLooks
<1> HIDE DEF out, time
<1>5. DOMAIN n = Fields /\ n.output = out /\ n.proposed = time /\ n.status = status
      /\ n.l1Tx = r.l1Tx
  <2> DEFINE a == [r EXCEPT !["sequence"] = TRUE]
             b == [a EXCEPT !["output"] = out]
             c == [b EXCEPT !["proposed"] = time]
             d == [c EXCEPT !["period"] = TRUE]
             e == [d EXCEPT !["status"] = status]
  <2>0. DOMAIN r = Fields
        BY <1>1 DEF Sound
  <2>f. Fields = {"status", "sequence", "output", "proposed", "period", "l1Tx"}
        BY DEF Fields
  <2>n. n = e
        OBVIOUS
  <2> HIDE DEF r, status, n, a, b, c, d, e
  <2>1. DOMAIN a = Fields /\ a.l1Tx = r.l1Tx
        BY <2>0, <2>f, OneField DEF a
  <2>2. DOMAIN b = Fields /\ b.l1Tx = r.l1Tx /\ b.output = out
        BY <2>1, <2>f, OneField DEF b
  <2>3. DOMAIN c = Fields /\ c.l1Tx = r.l1Tx /\ c.output = out /\ c.proposed = time
        BY <2>2, <2>f, OneField DEF c
  <2>4. DOMAIN d = Fields /\ d.l1Tx = r.l1Tx /\ d.output = out /\ d.proposed = time
        BY <2>3, <2>f, OneField DEF d
  <2>5. /\ DOMAIN e = Fields /\ e.l1Tx = r.l1Tx /\ e.output = out /\ e.proposed = time
        /\ e.status = status
        BY <2>4, <2>f, OneField DEF e
  <2> QED BY <2>5, <2>n
<1> HIDE DEF n
<1>6. Sound(n, wdReleased, wdOutputs, wdNow)
      BY <1>1, <1>2, <1>3, <1>5 DEF Sound
<1>7. wtTick' = [wtTick EXCEPT ![p] = y]
  <2>1. wtTick' = [wtTick EXCEPT ![p] = [x EXCEPT !.pc = "search", !.new = n]]
        BY <1>4
  <2>2. [x EXCEPT !.pc = "search", !.new = n] = y
        BY <1>1, TwoOfTick
  <2> QED BY <2>1, <2>2
<1>8. TickSound(y, wdReleased, wdOutputs, wdNow)
      BY <1>1, <1>6 DEF TickSound
<1> QED BY <1>1, <1>7, <1>8, TickKeeps

\* A poll that searches L1 for the release finds only what is there.
LEMMA TickSearchesKeeps ==
  ASSUME TrackerInv, NEW p \in Poll, TickSearches(p) PROVE TrackerInv'
<1> DEFINE x == wtTick[p]
           n == x.new
           fin == [n EXCEPT !.status = "finalized"]
           both == [n EXCEPT !.status = "finalized", !.l1Tx = TRUE]
           look == ~x.record.l1Tx /\ (PeriodElapsed(n)
                                       \/ x.record.status \in {"proven", "finalized"})
           m == IF look /\ 1 \in wdReleased THEN both
                ELSE IF PeriodElapsed(n) THEN fin ELSE n
           y == [pc |-> "write", record |-> x.record, new |-> m]
<1>1. /\ x.pc = "search" /\ UNCHANGED <<bridgeVars, wtRecord>>
      /\ x = [pc |-> x.pc, record |-> x.record, new |-> n]
      /\ Sound(x.record, wdReleased, wdOutputs, wdNow)
      /\ Sound(n, wdReleased, wdOutputs, wdNow) /\ BridgeTypes
      BY DEF TickSearches, TrackerInv, TickSound
<1>2. wtTick' = [wtTick EXCEPT ![p].pc = "write", ![p].new = m]
      BY DEF TickSearches
<1>3. Sound(m, wdReleased, wdOutputs, wdNow)
  <2>0. /\ DOMAIN n = Fields /\ {"status", "l1Tx", "output", "proposed"} \subseteq Fields
        BY <1>1 DEF Sound, Fields
  <2>1. /\ DOMAIN fin = Fields /\ fin.status = "finalized"
        /\ fin.output = n.output /\ fin.proposed = n.proposed /\ fin.l1Tx = n.l1Tx
        BY <2>0, OneField
  <2>2. both = [fin EXCEPT !["l1Tx"] = TRUE]
        OBVIOUS
  <2> HIDE DEF both
  <2>3. /\ DOMAIN both = Fields /\ both.status = "finalized"
        /\ both.output = n.output /\ both.proposed = n.proposed /\ both.l1Tx = TRUE
    <3> HIDE DEF fin
    <3> QED BY <2>0, <2>1, <2>2, OneField
  <2>4. PeriodElapsed(n) => DueFrom(wdOutputs, wdNow)
        BY <1>1 DEF PeriodElapsed, DueFrom, Sound
  <2> HIDE DEF fin, n
  <2>5. Sound(fin, wdReleased, wdOutputs, wdNow) \/ ~PeriodElapsed(n)
        BY <1>1, <2>1, <2>4 DEF Sound
  <2>6. Sound(both, wdReleased, wdOutputs, wdNow) \/ 1 \notin wdReleased
        BY <1>1, <2>3 DEF Sound
  <2> QED BY <1>1, <2>5, <2>6
<1> HIDE DEF m
<1>4. wtTick' = [wtTick EXCEPT ![p] = y]
  <2>1. wtTick' = [wtTick EXCEPT ![p] = [x EXCEPT !.pc = "write", !.new = m]]
        BY <1>2
  <2>2. [x EXCEPT !.pc = "write", !.new = m] = y
        BY <1>1, TwoOfTick
  <2> QED BY <2>1, <2>2
<1>5. TickSound(y, wdReleased, wdOutputs, wdNow)
      BY <1>1, <1>3 DEF TickSound
<1> QED BY <1>1, <1>4, <1>5, TickKeeps

\* The patch is merged into whatever the record has become.
LEMMA TickWritesKeeps ==
  ASSUME TrackerInv, NEW p \in Poll, TickWrites(p) PROVE TrackerInv'
<1> DEFINE x == wtTick[p]
<1>1. /\ x.pc = "write" /\ UNCHANGED bridgeVars
      /\ Sound(x.record, wdReleased, wdOutputs, wdNow)
      /\ Sound(x.new, wdReleased, wdOutputs, wdNow)
      /\ Sound(wtRecord, wdReleased, wdOutputs, wdNow)
      BY DEF TickWrites, TrackerInv, TickSound
<1>2. /\ DOMAIN wtRecord' = Fields
      /\ \A f \in Fields : wtRecord'[f] \in {x.new[f], wtRecord[f]}
      BY <1>1 DEF TickWrites, Sound
<1>3. Sound(wtRecord', wdReleased, wdOutputs, wdNow)
  <2>1. {"status", "output", "proposed", "l1Tx"} \subseteq Fields
        BY DEF Fields
  <2>2. /\ wtRecord'.status \in {x.new.status, wtRecord.status}
        /\ wtRecord'.output \in {x.new.output, wtRecord.output}
        /\ wtRecord'.proposed \in {x.new.proposed, wtRecord.proposed}
        /\ wtRecord'.l1Tx \in {x.new.l1Tx, wtRecord.l1Tx}
        BY <1>2, <2>1
  <2> QED BY <1>1, <1>2, <2>2 DEF Sound
<1>4. \A q \in Poll : TickSound(wtTick'[q], wdReleased, wdOutputs, wdNow)
      BY RestingIsSound DEF TickWrites, TrackerInv
<1> QED BY <1>1, <1>3, <1>4 DEF TrackerInv, BridgeTypes, bridgeVars, TickWrites

\* A poll that fails writes nothing.
LEMMA TickFailsKeeps ==
  ASSUME TrackerInv, NEW p \in Poll, TickFails(p) PROVE TrackerInv'
BY RestingIsSound, TickKeeps DEF TickFails

\* Every step keeps the invariant.
LEMMA TrackerInvStep == TrackerInv /\ [WithdrawNext]_withdrawVars => TrackerInv'
<1> SUFFICES ASSUME TrackerInv, [WithdrawNext]_withdrawVars PROVE TrackerInv'
    OBVIOUS
<1>1. CASE TrackerSteps
      BY <1>1, TickReadsKeeps, TickLooksKeeps, TickSearchesKeeps, TickWritesKeeps,
         TickFailsKeeps DEF TrackerSteps
<1>2. CASE UNCHANGED withdrawVars
      BY <1>2, BridgeKeeps DEF withdrawVars, bridgeVars, TrackerInv, BridgeTypes
<1> QED BY <1>1, <1>2, BridgeStepsKeep, FinalizerStepsKeep DEF WithdrawNext

\* For any polls and however they overlap: a withdrawal is shown as final only when L1 has
\* released it or would, and a shown L1 transaction is real (withdrawal-tracker.ts: advance,
\* updateRecord).
THEOREM ShownFinalIsDueHolds == WithdrawSpec => []ShownFinalIsDue
<1>1. TrackerInv => ShownFinalIsDue
      BY DueIff DEF TrackerInv, Sound, ShownFinalIsDue
<1> QED BY <1>1, TrackerInitInv, TrackerInvStep, PTL DEF WithdrawSpec
=============================================================================
