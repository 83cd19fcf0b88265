----------------------------- MODULE BtcWallet ------------------------------
(***************************************************************************)
(* The Bitcoin wallet of btc-executor: callers enqueue payment requests,   *)
(* one runner task batches them into transactions, records each batch in   *)
(* the database before it broadcasts it, and follows the batch until it is *)
(* confirmed, lost and requeued, or won by an older transaction of the     *)
(* same lineage. The process may die between any two of these steps.       *)
(*                                                                         *)
(* Simplifications:                                                        *)
(*  - a txid_history is a set: transactions are numbered in the order they *)
(*    are built and every history grows in that order;                     *)
(*  - a lineage is named after the transaction it was created with. The    *)
(*    planner never emits an Rbf action, and a Chained one finds no live    *)
(*    lineage with its anchor (the requests orphaned by a confirmation     *)
(*    are grouped, planned and submitted together), so every batch starts  *)
(*    a lineage of its own;                                                *)
(*  - an anchor is the confirmed transaction it comes from; its age and    *)
(*    the age of a pending request are choices;                            *)
(*  - the wallet's own coins are not counted: two transactions compete     *)
(*    when they spend the same HTLC, not when they share a fee input;      *)
(*  - a request the loop of run has received counts as free at once: nothing *)
(*    looks at pending.free before the tick that takes it over;            *)
(*  - the observer's answers are taken at one moment for all transactions  *)
(*    of a lineage;                                                        *)
(*  - submit_and_wait and resolve_pending have no caller and are left out. *)
(***************************************************************************)
EXTENDS Naturals, FiniteSets

CONSTANTS
  Request,        \* the dedupe keys
  Spend,          \* the requests that spend an HTLC (the others pay an address)
  MaxTx,          \* bound: transactions built and not taken back
  MissThreshold,  \* missing_batch_threshold
  MaxLineages,    \* max_concurrent_lineages
  TakesOutput,    \* the requests that take an output: sends, spends with a recipient
  MaxOutputs,     \* max_outputs_per_batch
  Glitches,       \* what may go wrong, out of Glitch
  MaxFaults       \* bound: how often

\* The process dies; the mempool drops a transaction; a dropped transaction
\* comes back; the node's answer is lost; the node refuses; the rows of a batch
\* it refused cannot be restored; the observer or the database does not answer;
\* the survivor's funding inputs cannot be loaded; a batch cannot be built; a
\* request is pending for too long.
Glitch == {"crash", "eviction", "return", "reply", "reject", "revert",
           "observer", "funding", "build", "ttl"}

ASSUME RequestAssumption == Spend \subseteq Request /\ Request \ Spend \subseteq TakesOutput
ASSUME WalletBoundAssumption ==
  /\ MaxTx \in Nat /\ MaxFaults \in Nat
  /\ MissThreshold \in Nat \ {0} /\ MaxLineages \in Nat \ {0} /\ MaxOutputs \in Nat
ASSUME GlitchAssumption == Glitches \subseteq Glitch

VARIABLES
  chain,       \* where each transaction is
  content,     \* the requests each transaction pays; {}: not built
  slipped,     \* the transactions the network dropped once, or took without saying
  unreverted,  \* the transactions the node refused and the rows have kept
  row,         \* the request's row in bitcoin_wallet_requests
  submitting,  \* requests enqueued in the database and not yet sent to the runner
  inbox,       \* requests in the runner's channel
  free,        \* incoming and runtime.pending.free
  anchored,    \* runtime.pending.anchored
  lin,         \* runtime.live_lineages and confirmations_pending, by lineage
  at,          \* the phase of the tick the runner is in
  todo,        \* the lineages this phase has still to handle
  plan,        \* the actions planned and not executed
  sending,     \* the batch between persist_broadcast and its outcome
  faults       \* faults so far

chainVars == <<chain, content, slipped, unreverted>>
memVars == <<submitting, inbox, free, anchored, lin>>
tickVars == <<at, todo, plan, sending>>
vars == <<chainVars, row, memVars, tickVars, faults>>

TxId == 1..MaxTx
TxOrNone == 0..MaxTx
Action == [anchor : TxOrNone, reqs : SUBSET Request]
Row == [status : {"absent", "pending", "inflight", "confirmed"},
        lineage : TxOrNone, head : TxOrNone, history : SUBSET TxId,
        anchor : TxOrNone]
Lineage == [head : TxOrNone, all : SUBSET TxId,
            hist : [Request -> SUBSET TxId], winner : TxOrNone,
            misses : 0..MissThreshold]

NoLineage == [head |-> 0, all |-> {}, hist |-> [r \in Request |-> {}],
              winner |-> 0, misses |-> 0]
NoBatch == [tx |-> 0, reply |-> "none"]

Live == {l \in TxId : lin[l].head # 0 /\ lin[l].winner = 0}
Won == {l \in TxId : lin[l].winner # 0}
Members(l) == {r \in Request : lin[l].hist[r] # {}}
OnNetwork == {t \in TxId : chain[t] \in {"mempool", "mined"}}

Init ==
  /\ chain = [t \in TxId |-> "none"]
  /\ content = [t \in TxId |-> {}]
  /\ slipped = {} /\ unreverted = {}
  /\ row = [r \in Request |-> [status |-> "absent", lineage |-> 0, head |-> 0,
                               history |-> {}, anchor |-> 0]]
  /\ submitting = {} /\ inbox = {} /\ free = {} /\ anchored = {}
  /\ lin = [l \in TxId |-> NoLineage]
  /\ at = "idle" /\ todo = {} /\ plan = {} /\ sending = NoBatch
  /\ faults = 0

Fault(kind) ==
  /\ kind \in Glitches
  /\ faults < MaxFaults
  /\ faults' = faults + 1

-----------------------------------------------------------------------------
(* Bitcoin.                                                                *)

Competes(t, u) == t # u /\ content[t] \cap content[u] \cap Spend # {}
Rivals(t) == {u \in OnNetwork : Competes(t, u)}

Mine(t) ==
  /\ chain[t] = "mempool"
  /\ chain' = [chain EXCEPT ![t] = "mined"]
  /\ UNCHANGED <<content, slipped, unreverted, row, memVars, tickVars, faults>>

Evict(t) ==
  /\ chain[t] = "mempool"
  /\ Fault("eviction")
  /\ chain' = [chain EXCEPT ![t] = "gone"]
  /\ slipped' = slipped \cup {t}
  /\ UNCHANGED <<content, unreverted, row, memVars, tickVars>>

\* Some node still had it and announces it again.
Return(t) ==
  /\ chain[t] = "gone" /\ Rivals(t) = {}
  /\ Fault("return")
  /\ chain' = [chain EXCEPT ![t] = "mempool"]
  /\ UNCHANGED <<content, slipped, unreverted, row, memVars, tickVars>>

-----------------------------------------------------------------------------
(* The callers.                                                            *)

Enqueue(r) ==
  /\ at \notin {"down", "recover"}
  /\ row[r].status = "absent"
  /\ row' = [row EXCEPT ![r].status = "pending"]
  /\ submitting' = submitting \cup {r}
  /\ UNCHANGED <<chainVars, inbox, free, anchored, lin, tickVars, faults>>

Submit(r) ==
  /\ r \in submitting
  /\ submitting' = submitting \ {r}
  /\ inbox' = inbox \cup {r}
  /\ UNCHANGED <<chainVars, row, free, anchored, lin, tickVars, faults>>

\* One turn of the loop of run; the other one is a tick.
Receive(r) ==
  /\ at = "idle" /\ r \in inbox
  /\ inbox' = inbox \ {r}
  /\ free' = free \cup {r}
  /\ UNCHANGED <<chainVars, row, submitting, anchored, lin, tickVars, faults>>

-----------------------------------------------------------------------------
(* What persistence checks and writes.                                     *)

RowsInflight(R, l) == \A r \in R : row[r].status = "inflight" /\ row[r].lineage = l

RowsPending(R) == \A r \in R : row[r].status = "pending"

\* Mutant: the transaction is recorded and the status is not.
ToInflightUnmarked(rows, R, l, t) ==
  [r \in Request |->
     IF r \in R THEN [rows[r] EXCEPT !.history = @ \cup {t}] ELSE rows[r]]

ToInflight(rows, R, l, t) ==
  [r \in Request |->
     IF r \in R
     THEN [rows[r] EXCEPT !.status = "inflight", !.lineage = l, !.head = t,
                          !.history = @ \cup {t}]
     ELSE rows[r]]

\* update_rows_to_surviving_inflight: the history is left as it is
ToSurviving(rows, R, t) ==
  [r \in Request |-> IF r \in R THEN [rows[r] EXCEPT !.head = t] ELSE rows[r]]

ToConfirmed(rows, R, t) ==
  [r \in Request |->
     IF r \in R
     THEN [rows[r] EXCEPT !.status = "confirmed", !.head = t, !.anchor = 0]
     ELSE rows[r]]

\* Mutant: the history goes with the lineage.
ToPendingForgets(rows, R, a) ==
  [r \in Request |->
     IF r \in R
     THEN [rows[r] EXCEPT !.status = "pending", !.lineage = 0, !.head = 0,
                          !.history = {}, !.anchor = a]
     ELSE rows[r]]

ToPending(rows, R, a) ==
  [r \in Request |->
     IF r \in R
     THEN [rows[r] EXCEPT !.status = "pending", !.lineage = 0, !.head = 0,
                          !.anchor = a]
     ELSE rows[r]]

\* The snapshots of a batch of pending rows, taken before ToInflight(_, _, _, t)
Reverted(rows, R, t) ==
  [r \in Request |->
     IF r \in R
     THEN [rows[r] EXCEPT !.status = "pending", !.lineage = 0, !.head = 0,
                          !.history = @ \ {t}]
     ELSE rows[r]]

\* The requests that were in t when it was the lineage's head.
Carried(l, t) == {r \in Members(l) : t \in lin[l].hist[r]}

\* A plan names a request that t carried, and its rows are still the lineage's.
Settles(l, t) == Carried(l, t) # {} /\ RowsInflight(Members(l), l)

\* The rows of a lineage that t won: the requests it carried are confirmed, the
\* others pending again, with an anchor or without.
RowsSettled(l, t, a) ==
  ToPending(ToConfirmed(row, Carried(l, t), t), Members(l) \ Carried(l, t), a)

\* The same when t is not mined yet.
RowsAdopted(l, t) ==
  ToPending(ToSurviving(row, Carried(l, t), t), Members(l) \ Carried(l, t), 0)

\* Back to pending.free, or to pending.anchored when there is an anchor.
Requeue(R, a) ==
  IF a = 0 THEN free' = free \cup R /\ UNCHANGED anchored
           ELSE anchored' = anchored \cup (R \X {a}) /\ UNCHANGED free

\* A young winner's change becomes the anchor of the requests it left out.
AnchorFor(t, R) == IF R = {} THEN {0} ELSE {0, t}

-----------------------------------------------------------------------------
(* process_tick, phase by phase.                                           *)

TickBegins ==
  /\ at = "idle"
  /\ at' = "confirm" /\ todo' = Won
  /\ UNCHANGED <<chainVars, row, memVars, plan, sending, faults>>

Handled(phase, l) ==
  /\ at = phase /\ l \in todo
  /\ todo' = todo \ {l}
  /\ UNCHANGED <<chainVars, submitting, inbox, at, plan, sending>>

\* Mutant: every request of the lineage is taken to be in the winner.
ConfirmAll(l) ==
  /\ Handled("confirm", l)
  /\ RowsInflight(Members(l), l)
  /\ row' = ToConfirmed(row, Members(l), lin[l].winner)
  /\ lin' = [lin EXCEPT ![l] = NoLineage]
  /\ UNCHANGED <<free, anchored, faults>>

HandleConfirmation(l) ==
  LET w == lin[l].winner
      orphans == Members(l) \ Carried(l, w)
  IN /\ Handled("confirm", l)
     /\ IF Settles(l, w)
        THEN \E a \in AnchorFor(w, orphans) :
               /\ row' = RowsSettled(l, w, a)
               /\ Requeue(orphans, a)
               /\ lin' = [lin EXCEPT ![l] = NoLineage]
        ELSE UNCHANGED <<row, free, anchored, lin>>
     /\ UNCHANGED faults

\* The winner cannot be loaded, or the database does not answer.
ConfirmationFails(l) ==
  /\ Handled("confirm", l)
  /\ Fault("observer")
  /\ UNCHANGED <<row, free, anchored, lin>>

ObserveBegins ==
  /\ at = "confirm" /\ todo = {}
  /\ at' = "observe" /\ todo' = Live
  /\ UNCHANGED <<chainVars, row, memVars, plan, sending, faults>>

\* What a look at the lineage's head, and past a missing head at its older
\* transactions, makes of the lineage. all_txids merges the histories of
\* several requests, so which surviving transaction is met first is a choice.
Observed(l, missed) ==
  LET L == lin[l]
      survivors == L.all \cap OnNetwork
  IN IF chain[L.head] = "mined" THEN {[L EXCEPT !.winner = L.head, !.misses = 0]}
     ELSE IF chain[L.head] = "mempool" THEN {[L EXCEPT !.misses = 0]}
     ELSE IF survivors = {} THEN {[L EXCEPT !.misses = missed]}
     ELSE {IF chain[s] = "mined" THEN [L EXCEPT !.winner = s, !.misses = 0]
           ELSE [L EXCEPT !.head = s, !.misses = 0] : s \in survivors}

AtMost(n, bound) == IF n > bound THEN bound ELSE n

Observe(l) ==
  /\ Handled("observe", l)
  /\ \E L \in Observed(l, AtMost(lin[l].misses + 1, MissThreshold)) :
       lin' = [lin EXCEPT ![l] = L]
  /\ UNCHANGED <<row, free, anchored, faults>>

ObserverFails(l) ==
  /\ at \in {"observe", "recover"} /\ Handled(at, l)
  /\ Fault("observer")
  /\ UNCHANGED <<row, free, anchored, lin>>

ReconcileBegins ==
  /\ at = "observe" /\ todo = {}
  /\ at' = "reconcile"
  /\ todo' = {l \in Live : lin[l].misses >= MissThreshold}
  /\ UNCHANGED <<chainVars, row, memVars, plan, sending, faults>>

\* reconcile_missing_lineage failed: the lineage goes back as it was, its
\* counter starts again.
Restored(l) == [lin EXCEPT ![l].misses = 0]

ReconcileNoSurvivor(l) ==
  /\ Handled("reconcile", l)
  /\ lin[l].all \cap OnNetwork = {}
  /\ IF RowsInflight(Members(l), l)
     THEN /\ row' = ToPending(row, Members(l), 0)
          /\ Requeue(Members(l), 0)
          /\ lin' = [lin EXCEPT ![l] = NoLineage]
     ELSE lin' = Restored(l) /\ UNCHANGED <<row, free, anchored>>
  /\ UNCHANGED faults

ReconcileConfirmed(l, s) ==
  LET orphans == Members(l) \ Carried(l, s) IN
  /\ Handled("reconcile", l)
  /\ s \in lin[l].all /\ chain[s] = "mined"
  /\ IF Settles(l, s)
     THEN \E a \in AnchorFor(s, orphans) :
            /\ row' = RowsSettled(l, s, a)
            /\ Requeue(orphans, a)
            /\ lin' = [lin EXCEPT ![l] = NoLineage]
     ELSE lin' = Restored(l) /\ UNCHANGED <<row, free, anchored>>
  /\ UNCHANGED faults

FundingLost == Fault("funding")

\* The funding inputs of the survivor are loaded after the database and the
\* pending requests have been changed: if that fails the old lineage is back.
ReconcileInMempool(l, s) ==
  LET orphans == Members(l) \ Carried(l, s)
      kept == [lin[l] EXCEPT !.head = s, !.misses = 0,
                 !.hist = [r \in Request |->
                             IF r \in Carried(l, s) THEN lin[l].hist[r] ELSE {}]]
  IN /\ Handled("reconcile", l)
     /\ s \in lin[l].all /\ chain[s] = "mempool"
     /\ IF Settles(l, s)
        THEN /\ row' = RowsAdopted(l, s)
             /\ Requeue(orphans, 0)
             /\ \/ lin' = [lin EXCEPT ![l] = kept] /\ UNCHANGED faults
                \/ lin' = Restored(l) /\ FundingLost
        ELSE lin' = Restored(l) /\ UNCHANGED <<row, free, anchored, faults>>

ReconcileFails(l) ==
  /\ Handled("reconcile", l)
  /\ Fault("observer")
  /\ lin' = Restored(l)
  /\ UNCHANGED <<row, free, anchored>>

\* One batch for each anchor.
Groups(A) ==
  {[anchor |-> p[2], reqs |-> {q[1] : q \in {x \in A : x[2] = p[2]}}] : p \in A}

Fits(R) == Cardinality(R \cap TakesOutput) <= MaxOutputs

\* All the free requests in a batch of their own, while there is room for
\* another lineage,
FreshPlans(F, A) ==
  IF Fits(F) /\ Cardinality(Live) < MaxLineages
  THEN {Groups(A) \cup {[anchor |-> 0, reqs |-> F]}} ELSE {}

\* or in one of the anchors' batches, whichever the builder says is cheaper.
MixedPlans(F, A) ==
  {(Groups(A) \ {g}) \cup {[g EXCEPT !.reqs = @ \cup F]} :
     g \in {h \in Groups(A) : Fits(h.reqs \cup F)}}

\* plan_wallet_batches: a group that does not fit stops all planning, free
\* requests that do not fit wait together.
Plans(F, A) ==
  IF \E g \in Groups(A) : ~Fits(g.reqs) THEN {{}}
  ELSE IF F = {} \/ FreshPlans(F, A) \cup MixedPlans(F, A) = {} THEN {Groups(A)}
  ELSE FreshPlans(F, A) \cup MixedPlans(F, A)

\* What is pending once the anchors in old have been released.
FreeAfter(old) == free \cup {p[1] : p \in {x \in anchored : x[2] \in old}}

AnchoredAfter(old) == {p \in anchored : p[2] \notin old}

\* runtime.tick: anchors old enough are released, requests pending for too
\* long are dropped from memory, batches are planned.
PlanBatches ==
  /\ at = "reconcile" /\ todo = {}
  /\ at' = "execute"
  /\ \E old \in SUBSET {p[2] : p \in anchored} :
       LET F == FreeAfter(old)
           A == AnchoredAfter(old)
       IN \/ /\ free' = F /\ anchored' = A
             /\ plan' \in Plans(F, A)
             /\ UNCHANGED faults
          \/ \E stale \in SUBSET (F \cup {p[1] : p \in A}) \ {{}} :
               /\ Fault("ttl")
               /\ free' = F \ stale
               /\ anchored' = {p \in A : p[1] \notin stale}
               /\ plan' \in Plans(free', anchored')
  /\ UNCHANGED <<chainVars, row, submitting, inbox, lin, todo, sending>>

TickEnds ==
  /\ at = "execute" /\ plan = {} /\ sending = NoBatch
  /\ at' = "idle"
  /\ UNCHANGED <<chainVars, row, memVars, todo, plan, sending, faults>>

-----------------------------------------------------------------------------
(* execute_action and submit_built_lineage.                                *)

Fresh(t) == content[t] = {} /\ \A u \in 1..(t - 1) : content[u] # {}

Executes(act) ==
  /\ at = "execute" /\ sending = NoBatch
  /\ act \in plan /\ plan' = plan \ {act}

\* persist_broadcast; a batch it refuses is given up for this tick. (The check
\* of the histories, which no new transaction fails, is in Repeats.)
PersistBroadcast(act, t) ==
  /\ Executes(act) /\ Fresh(t)
  /\ IF RowsPending(act.reqs)
     THEN /\ row' = ToInflight(row, act.reqs, t, t)
          /\ content' = [content EXCEPT ![t] = act.reqs]
          /\ sending' = [tx |-> t, reply |-> "none"]
     ELSE UNCHANGED <<row, content, sending>>
  /\ UNCHANGED <<chain, slipped, unreverted, memVars, at, todo, faults>>

\* No coins, no fee rate, no answer from the database: the action is given up,
\* its requests stay pending.
CannotBuild == Fault("build")

\* The builder has no choices: of the same requests, coins and fee rate it makes
\* the same transaction. One the network does not have leaves its coins free, so
\* it can be built again; its txid is in the rows' histories, and
\* ensure_txid_history_append_is_safe refuses it, at this tick as at the others.
Repeats(R) ==
  \E t \in TxId \ OnNetwork : content[t] = R /\ \E r \in R : t \in row[r].history

BuildFails(act) ==
  /\ Executes(act)
  /\ CannotBuild \/ (Repeats(act.reqs) /\ UNCHANGED faults)
  /\ UNCHANGED <<chainVars, row, memVars, at, todo, sending>>

Sent == sending.tx # 0 /\ sending.reply = "none"

Answer(reply) == sending' = [sending EXCEPT !.reply = reply]

\* sendrawtransaction: accepted, possibly in the place of what it competes
\* with in the mempool.
NodeAccepts ==
  LET t == sending.tx IN
  /\ Sent
  /\ \A u \in Rivals(t) : chain[u] = "mempool"
  /\ chain' = [u \in TxId |-> IF u = t THEN "mempool"
                              ELSE IF u \in Rivals(t) THEN "gone" ELSE chain[u]]
  /\ slipped' = slipped \cup Rivals(t)
  /\ Answer("accepted")
  /\ UNCHANGED <<content, unreverted, row, memVars, at, todo, plan, faults>>

\* Refused, because an input is taken or, once in a while, for its fee; or
\* the call did not reach the node.
NodeRejects ==
  /\ Sent
  /\ IF Rivals(sending.tx) # {} THEN UNCHANGED faults ELSE Fault("reject")
  /\ Answer("rejected")
  /\ UNCHANGED <<chainVars, row, memVars, at, todo, plan>>

\* The node takes the transaction and its answer is lost: the broadcaster
\* reads the unknown error as a rejection.
NodeAcceptsUnheard ==
  /\ Sent
  /\ Rivals(sending.tx) = {}
  /\ Fault("reply")
  /\ chain' = [chain EXCEPT ![sending.tx] = "mempool"]
  /\ slipped' = slipped \cup {sending.tx}
  /\ Answer("rejected")
  /\ UNCHANGED <<content, unreverted, row, memVars, at, todo, plan>>

\* The lineage a batch begins. Its requests forget what they were in before:
\* that is only in their rows.
NewLineage(t) ==
  [head |-> t, all |-> {t},
   hist |-> [r \in Request |-> IF r \in content[t] THEN {t} ELSE {}],
   winner |-> 0, misses |-> 0]

\* Mutants: the requests of an accepted batch stay pending in memory; the
\* rows of a rejected one stay inflight.
AcceptedKept ==
  LET t == sending.tx IN
  /\ sending.reply = "accepted"
  /\ lin' = [lin EXCEPT ![t] = NewLineage(t)]
  /\ sending' = NoBatch
  /\ UNCHANGED <<chainVars, row, submitting, inbox, free, anchored, at, todo,
                 plan, faults>>

RejectedKept ==
  /\ sending.reply = "rejected"
  /\ sending' = NoBatch
  /\ UNCHANGED <<chainVars, row, memVars, at, todo, plan, faults>>

BatchAccepted ==
  LET t == sending.tx IN
  /\ sending.reply = "accepted"
  /\ lin' = [lin EXCEPT ![t] = NewLineage(t)]
  /\ free' = free \ content[t]
  /\ anchored' = {p \in anchored : p[1] \notin content[t]}
  /\ sending' = NoBatch
  /\ UNCHANGED <<chainVars, row, submitting, inbox, at, todo, plan, faults>>

\* revert_broadcast. A transaction nobody has is forgotten altogether.
BatchRejected ==
  LET t == sending.tx IN
  /\ sending.reply = "rejected"
  /\ row' = Reverted(row, content[t], t)
  /\ content' = [content EXCEPT ![t] = IF chain[t] = "none" THEN {} ELSE @]
  /\ sending' = NoBatch
  /\ UNCHANGED <<chain, slipped, unreverted, memVars, at, todo, plan, faults>>

\* The rows cannot be restored: they stay inflight, with a transaction nobody
\* keeps, while memory goes on to plan for the requests.
RevertFails ==
  /\ sending.reply = "rejected"
  /\ Fault("revert")
  /\ unreverted' = unreverted \cup {sending.tx}
  /\ sending' = NoBatch
  /\ UNCHANGED <<chain, content, slipped, row, memVars, at, todo, plan>>

-----------------------------------------------------------------------------
(* The process dies and comes back.                                        *)

Crash ==
  /\ at # "down"
  /\ Fault("crash")
  /\ at' = "down"
  /\ submitting' = {} /\ inbox' = {} /\ free' = {} /\ anchored' = {}
  /\ lin' = [l \in TxId |-> NoLineage]
  /\ todo' = {} /\ plan' = {} /\ sending' = NoBatch
  /\ UNCHANGED <<chainVars, row>>

Inflight(l) == {r \in Request : row[r].status = "inflight" /\ row[r].lineage = l}

\* What restore insists on: a row's history ends at its head, the rows of a
\* lineage agree on the head and on the anchor. (That it can merge their
\* histories into one order goes without saying for two rows; the check that
\* can refuse three is left out.)
Restorable ==
  \A r \in Request : row[r].status = "inflight" =>
    /\ row[r].head \in row[r].history
    /\ \A t \in row[r].history : t <= row[r].head
    /\ \A q \in Inflight(row[r].lineage) :
         /\ row[q].head = row[r].head
         /\ row[q].anchor \in {0, row[r].anchor} \/ row[r].anchor = 0

RestoredLineage(l) ==
  LET R == Inflight(l) IN
  IF R = {} THEN NoLineage
  ELSE [head |-> row[CHOOSE r \in R : TRUE].head, all |-> UNION {row[r].history : r \in R},
        hist |-> [r \in Request |-> IF r \in R THEN row[r].history ELSE {}],
        winner |-> 0, misses |-> 0]

\* Mutant: the pending rows are not read back.
RestoreInflightOnly ==
  /\ at = "down" /\ Restorable
  /\ at' = "recover"
  /\ lin' = [l \in TxId |-> RestoredLineage(l)]
  /\ todo' = {l \in TxId : Inflight(l) # {}}
  /\ UNCHANGED <<chainVars, row, submitting, inbox, free, anchored, plan,
                 sending, faults>>

\* recover_wallet_runtime: the rows first, then a look at every lineage.
Restore ==
  LET P == {r \in Request : row[r].status = "pending"} IN
  /\ at = "down" /\ Restorable
  /\ at' = "recover"
  /\ free' = {r \in P : row[r].anchor = 0}
  /\ anchored' = {<<r, row[r].anchor>> : r \in P \ free'}
  /\ lin' = [l \in TxId |-> RestoredLineage(l)]
  /\ todo' = {l \in TxId : Inflight(l) # {}}
  /\ UNCHANGED <<chainVars, row, submitting, inbox, plan, sending, faults>>

Recover(l) ==
  /\ Handled("recover", l)
  /\ \E L \in Observed(l, 0) : lin' = [lin EXCEPT ![l] = L]
  /\ UNCHANGED <<row, free, anchored, faults>>

RecoveryEnds ==
  /\ at = "recover" /\ todo = {}
  /\ at' = "idle"
  /\ UNCHANGED <<chainVars, row, memVars, todo, plan, sending, faults>>

-----------------------------------------------------------------------------
Network == \E t \in TxId : Mine(t) \/ Evict(t) \/ Return(t)

Requests == \E r \in Request : Enqueue(r) \/ Submit(r) \/ Receive(r)

Confirming == \E l \in TxId : HandleConfirmation(l) \/ ConfirmationFails(l)

Observing == \E l \in TxId : Observe(l) \/ ObserverFails(l)

Reconciling ==
  \E l \in TxId :
    \/ ReconcileNoSurvivor(l) \/ ReconcileFails(l)
    \/ \E s \in TxId : ReconcileConfirmed(l, s) \/ ReconcileInMempool(l, s)

Executing ==
  \/ \E act \in plan : BuildFails(act) \/ \E t \in TxId : PersistBroadcast(act, t)
  \/ NodeAccepts \/ NodeRejects \/ NodeAcceptsUnheard
  \/ BatchAccepted \/ BatchRejected \/ RevertFails

Recovering == Restore \/ (\E l \in TxId : Recover(l)) \/ RecoveryEnds

Runner ==
  \/ TickBegins \/ Confirming \/ ObserveBegins \/ Observing
  \/ ReconcileBegins \/ Reconciling \/ PlanBatches \/ Executing \/ TickEnds
  \/ Recovering

Next == Network \/ Requests \/ Runner \/ Crash

Spec == Init /\ [][Next]_vars

(* The runner is one task that ticks for ever, and is restarted when it    *)
(* dies; select! picks at random between a tick and a command that waits,  *)
(* so a command is not passed over for ever; miners mine what the mempool  *)
(* holds; a caller that has written its row goes on to send the command.   *)
Fairness ==
  /\ WF_vars(Runner)
  /\ \A r \in Request : WF_vars(Submit(r)) /\ SF_vars(Receive(r))
  /\ \A t \in TxId : WF_vars(Mine(t))

FairSpec == Spec /\ Fairness

-----------------------------------------------------------------------------
(* What has to hold.                                                       *)

\* Every variable stays in its domain: what the proofs start from.
TypeOK ==
  /\ chain \in [TxId -> {"none", "mempool", "mined", "gone"}]
  /\ content \in [TxId -> SUBSET Request]
  /\ slipped \in SUBSET TxId /\ unreverted \in SUBSET TxOrNone
  /\ row \in [Request -> Row]
  /\ submitting \in SUBSET Request /\ inbox \in SUBSET Request
  /\ free \in SUBSET Request /\ anchored \in SUBSET (Request \X TxId)
  /\ lin \in [TxId -> Lineage]
  /\ at \in {"idle", "confirm", "observe", "reconcile", "execute", "down", "recover"}
  /\ todo \in SUBSET TxId
  /\ plan \in SUBSET Action
  /\ sending \in [tx : TxOrNone, reply : {"none", "accepted", "rejected"}]
  /\ faults \in Nat

\* A request is in one place of the process's memory: on its way to the
\* runner, pending (free or for one anchor), or in one lineage.
Places(r) ==
  {q \in {<<"submitting", submitting>>, <<"inbox", inbox>>, <<"free", free>>} : r \in q[2]}
    \cup {<<"anchored", p>> : p \in {x \in anchored : x[1] = r}}
    \cup {<<"lineage", l>> : l \in {x \in TxId : r \in Members(x)}}

HeldOnce == \A r \in Request : Cardinality(Places(r)) <= 1

Waiting == free \cup {p[1] : p \in anchored}

\* What a revert that failed leaves of a request.
Stranded ==
  {r \in Request : row[r].status = "inflight" /\ row[r].head \in unreverted}

\* The database agrees: the rows of a lineage's requests are inflight in it, the
\* rows of the others pending, unless a revert_broadcast failed and left them
\* with a transaction the node refused: those are inflight until a restart.
RowsMirrorMemory ==
  /\ \A l \in TxId : RowsInflight(Members(l), l)
  /\ RowsPending((submitting \cup inbox \cup Waiting)
                   \ (Stranded \cup UNION {content[t] : t \in {sending.tx} \ {0}}))

\* A request is recorded as paid only by a mined transaction that pays it.
ConfirmedMeansMined ==
  \A r \in Request : row[r].status = "confirmed" =>
    chain[row[r].head] = "mined" /\ r \in content[row[r].head]

\* Whatever the network has of the wallet's transactions is in the history of
\* the requests they pay.
RecordedOnNetwork ==
  \A t \in OnNetwork : \A r \in content[t] : t \in row[r].history

\* No crash makes the wallet pay twice: of the transactions that pay a request,
\* at most one is mined that the network had never lost.
PaidOnce ==
  \A r \in Request :
    Cardinality({t \in TxId \ slipped : chain[t] = "mined" /\ r \in content[t]}) <= 1

\* What the callers see of all this is a wallet that gives a request up only
\* while no transaction has paid it for good, confirms it only when one has
\* been mined, and so pays once (PaymentPromise): each step is one of its steps,
\* or none.
MinedFor(r, T) == {t \in T : chain[t] = "mined" /\ r \in content[t]}

Promise == INSTANCE PaymentPromise WITH
  Tx <- TxId,
  status <- [r \in Request |-> row[r].status],
  kept <- [r \in Request |-> MinedFor(r, TxId \ slipped)],
  stray <- [r \in Request |-> MinedFor(r, TxId \cap slipped)]

PromiseSpec == Promise!Spec

AlwaysRestorable == Restorable

\* persist_broadcast may refuse a waiting request at every tick: the builder
\* makes a transaction again that its row already names, or a batch holds a
\* stranded request.
Refusable(r) ==
  \/ Waiting \cap Stranded # {}
  \/ r \in Waiting /\ row[r].history \ OnNetwork # {}

\* A request that reached the database is paid, or persist_broadcast goes on
\* refusing it for ever while the runner goes on trying.
EventuallyPaid ==
  \A r \in Request :
    row[r].status = "pending" ~> row[r].status = "confirmed" \/ []Refusable(r)
=============================================================================
