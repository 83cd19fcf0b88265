--------------------------- MODULE BtcWalletProofs ---------------------------
(***************************************************************************)
(* Proofs about the wallet of BtcWallet, for any number of requests,       *)
(* transactions and lineages and any set of faults: its types, that a      *)
(* confirmed request was paid by a mined transaction, that no crash makes  *)
(* the wallet pay twice, that the network holds no transaction the rows do  *)
(* not know as long as no answer of the node is lost, that the process      *)
(* holds a request in one place, that the rows say which, and that the     *)
(* wallet implements PaymentPromise.                                       *)
(***************************************************************************)
EXTENDS BtcWallet, FiniteSetTheorems, TLAPS

(***************************************************************************)
(* The inductive invariant. A transaction is sound when the network has it *)
(* and never lost it. A request has at most one sound transaction, the     *)
(* head of its row; the runner gives a head up only when it is not sound,  *)
(* and a request is built again only when it has none.                     *)
(***************************************************************************)

Sound(t) == chain[t] \in {"mempool", "mined"} /\ t \notin slipped

Pays(t, r) == r \in content[t]

\* What the network lost is known to be lost, and it has only what was built.
NetworkInv ==
  \A t \in TxId : /\ chain[t] = "gone" => t \in slipped
                  /\ chain[t] # "none" => content[t] # {}

\* The batch between its record and its outcome: nobody else knows of it.
SendingInv ==
  /\ \A a \in plan : a.reqs # {}
  /\ sending.tx = 0 => sending.reply = "none"
  /\ sending.tx # 0 =>
       /\ at = "execute" /\ content[sending.tx] # {}
       /\ Members(sending.tx) = {} /\ \A l \in TxId : sending.tx \notin lin[l].all
       /\ sending.reply = "none" => chain[sending.tx] = "none"
       /\ sending.reply = "rejected" => ~Sound(sending.tx)
       /\ \A r \in content[sending.tx] :
            /\ row[r].status = "inflight" /\ row[r].lineage = sending.tx
            /\ row[r].head = sending.tx /\ sending.tx \in row[r].history

\* A row knows the sound transaction that pays it as its head, and is built
\* again only when there is none.
RowOK(r, w) ==
  /\ \A t \in w.history : Pays(t, r)
  /\ w.status = "inflight" => w.lineage # 0 /\ Pays(w.lineage, r)
  /\ w.status = "confirmed" =>
       w.head # 0 /\ chain[w.head] = "mined" /\ Pays(w.head, r)
  /\ \A t \in TxId : Pays(t, r) /\ Sound(t) =>
       w.status \in {"inflight", "confirmed"} /\ t = w.head /\ t \in w.history

RowInv == \A r \in Request : RowOK(r, row[r])

\* A lineage in memory knows of its transactions what the network does, and
\* the sound transaction of a request still inflight in it is its head.
LineageOK(l, L) ==
  /\ L.head # 0 => L.head \in L.all
  /\ \A u \in L.all : content[u] # {}
  /\ L.misses > 0 => L.head # 0 /\ ~Sound(L.head)
  /\ L.winner # 0 =>
       /\ chain[L.winner] = "mined" /\ L.head # 0
       /\ L.winner # L.head => ~Sound(L.head)
  /\ \A r \in Request : \A t \in L.hist[r] : t \in L.all /\ Pays(t, r)
  /\ \A r \in Request : L.hist[r] # {} =>
       /\ Pays(l, r)
       /\ row[r].status = "inflight" /\ row[r].lineage = l =>
            \A t \in TxId : Pays(t, r) /\ Sound(t) => t = L.head /\ t \in L.hist[r]

LineageInv == \A l \in TxId : LineageOK(l, lin[l])

\* The lineages a phase of the tick is about to handle are those it is for.
PhaseInv ==
  \A l \in todo :
    /\ at \in {"observe", "reconcile", "recover"} =>
         lin[l].head # 0 /\ lin[l].winner = 0
    /\ at = "reconcile" => lin[l].misses > 0

Inv == TypeOK /\ NetworkInv /\ SendingInv /\ RowInv /\ LineageInv /\ PhaseInv
-----------------------------------------------------------------------------
(* What the writes of wallet persistence do to a row.                      *)

\* Transaction ids are positive numbers, and 0 is none of them.
LEMMA TxIdFacts == TxId \subseteq Nat \ {0} /\ TxOrNone = TxId \cup {0}
BY WalletBoundAssumption DEF TxId, TxOrNone

\* persist_broadcast moves rows to a new lineage and records its transaction.
LEMMA ToInflightRows ==
  ASSUME NEW rows \in [Request -> Row], NEW R, NEW l \in TxId, NEW t \in TxId,
         NEW new, new = ToInflight(rows, R, l, t)
  PROVE  /\ new \in [Request -> Row]
         /\ \A r \in Request \ R : new[r] = rows[r]
         /\ \A r \in Request \cap R :
              /\ new[r].status = "inflight" /\ new[r].lineage = l /\ new[r].head = t
              /\ new[r].history = rows[r].history \cup {t}
<1>1. \A r \in Request : rows[r].history \cup {t} \in SUBSET TxId
      BY DEF Row
<1>2. l \in TxOrNone /\ t \in TxOrNone
      BY WalletBoundAssumption DEF TxOrNone, TxId
<1>3. \A r \in Request : new[r] \in Row
      BY <1>1, <1>2 DEF ToInflight, Row
<1>4. QED BY <1>3 DEF ToInflight, Row

\* update_rows_to_surviving_inflight moves the head only.
LEMMA ToSurvivingRows ==
  ASSUME NEW rows \in [Request -> Row], NEW R, NEW t \in TxId,
         NEW new, new = ToSurviving(rows, R, t)
  PROVE  /\ new \in [Request -> Row]
         /\ \A r \in Request \ R : new[r] = rows[r]
         /\ \A r \in Request \cap R :
              /\ new[r].status = rows[r].status /\ new[r].lineage = rows[r].lineage
              /\ new[r].head = t /\ new[r].history = rows[r].history
BY TxIdFacts DEF ToSurviving, Row

\* A confirmed row keeps its history and has the winner as its head.
LEMMA ToConfirmedRows ==
  ASSUME NEW rows \in [Request -> Row], NEW R, NEW t \in TxId,
         NEW new, new = ToConfirmed(rows, R, t)
  PROVE  /\ new \in [Request -> Row]
         /\ \A r \in Request \ R : new[r] = rows[r]
         /\ \A r \in Request \cap R :
              /\ new[r].status = "confirmed" /\ new[r].head = t
              /\ new[r].history = rows[r].history
<1>1. 0 \in TxOrNone /\ TxId \subseteq TxOrNone
      BY TxIdFacts
<1>2. \A r \in Request : new[r] \in Row
      BY <1>1 DEF ToConfirmed, Row
<1>3. QED BY <1>2 DEF ToConfirmed, Row

\* A requeued row keeps its history.
LEMMA ToPendingRows ==
  ASSUME NEW rows \in [Request -> Row], NEW R, NEW a \in TxOrNone,
         NEW new, new = ToPending(rows, R, a)
  PROVE  /\ new \in [Request -> Row]
         /\ \A r \in Request \ R : new[r] = rows[r]
         /\ \A r \in Request \cap R :
              new[r].status = "pending" /\ new[r].history = rows[r].history
<1>1. 0 \in TxOrNone /\ TxId \subseteq TxOrNone
      BY TxIdFacts
<1>2. \A r \in Request : new[r] \in Row
      BY <1>1 DEF ToPending, Row
<1>3. QED BY <1>2 DEF ToPending, Row

\* revert_broadcast takes the transaction out of the history.
LEMMA RevertedRows ==
  ASSUME NEW rows \in [Request -> Row], NEW R, NEW t,
         NEW new, new = Reverted(rows, R, t)
  PROVE  /\ new \in [Request -> Row]
         /\ \A r \in Request \ R : new[r] = rows[r]
         /\ \A r \in Request \cap R :
              new[r].status = "pending" /\ new[r].history = rows[r].history \ {t}
<1>1. 0 \in TxOrNone
      BY TxIdFacts
<1>2. \A r \in Request : rows[r].history \ {t} \in SUBSET TxId
      BY DEF Row
<1>3. \A r \in Request : new[r] \in Row
      BY <1>1, <1>2 DEF Reverted, Row
<1>4. QED BY <1>3 DEF Reverted, Row
-----------------------------------------------------------------------------
(* Type correctness.                                                       *)

\* The lineage that is not there is one.
LEMMA NoLineageType == NoLineage \in Lineage
BY TxIdFacts, WalletBoundAssumption DEF NoLineage, Lineage

\* The empty wallet is well typed.
LEMMA InitTypeOK == Init => TypeOK
BY NoLineageType, TxIdFacts DEF Init, TypeOK, Row, NoBatch

\* What Bitcoin does to transactions leaves every variable in its domain.
LEMMA NetworkTypeOK == TypeOK /\ Network => TypeOK'
<1> SUFFICES ASSUME TypeOK, Network PROVE TypeOK'
    OBVIOUS
<1> USE DEF TypeOK, memVars, tickVars
<1> PICK t \in TxId : Mine(t) \/ Evict(t) \/ Return(t)
    BY DEF Network
<1>1. CASE Mine(t)
      BY <1>1 DEF Mine
<1>2. CASE Evict(t)
      BY <1>2 DEF Evict, Fault
<1>3. CASE Return(t)
      BY <1>3 DEF Return, Fault
<1>4. QED BY <1>1, <1>2, <1>3

\* So do the callers and the runner's intake of commands,
LEMMA RequestsTypeOK == TypeOK /\ Requests => TypeOK'
<1> SUFFICES ASSUME TypeOK, Requests PROVE TypeOK'
    OBVIOUS
<1> USE DEF TypeOK, chainVars, tickVars
<1> PICK r \in Request : Enqueue(r) \/ Submit(r) \/ Receive(r)
    BY DEF Requests
<1>1. CASE Enqueue(r)
      BY <1>1 DEF Enqueue, Row
<1>2. CASE Submit(r)
      BY <1>2 DEF Submit
<1>3. CASE Receive(r)
      BY <1>3 DEF Receive
<1>4. QED BY <1>1, <1>2, <1>3

\* What a phase's lookup makes of a lineage is a lineage.
LEMMA ObservedType ==
  ASSUME TypeOK, NEW l \in TxId, NEW missed \in 0..MissThreshold,
         NEW L \in Observed(l, missed)
  PROVE  L \in Lineage
<1>1. lin[l] \in Lineage /\ 0 \in 0..MissThreshold
      BY WalletBoundAssumption DEF TypeOK
<1>2. lin[l].all \cap OnNetwork \subseteq TxOrNone
      BY <1>1, TxIdFacts DEF Lineage
<1>3. QED BY <1>1, <1>2, ZenonT(40) DEF Observed, Lineage

\* A lineage put back after a failed reconciliation is a lineage.
LEMMA RestoredType ==
  ASSUME TypeOK, NEW l \in TxId
  PROVE  Restored(l) \in [TxId -> Lineage]
<1>1. 0 \in 0..MissThreshold
      BY WalletBoundAssumption
<1>2. lin \in [TxId -> Lineage]
      BY DEF TypeOK
<1>3. [lin[l] EXCEPT !.misses = 0] \in Lineage
      BY <1>1, <1>2 DEF Lineage
<1>4. Restored(l) = [lin EXCEPT ![l] = [lin[l] EXCEPT !.misses = 0]]
      BY DEF Restored
<1>5. QED BY <1>2, <1>3, <1>4

\* Requests go back to one of the two pending buckets.
LEMMA RequeueType ==
  ASSUME TypeOK, NEW R \in SUBSET Request, NEW a \in TxOrNone, Requeue(R, a)
  PROVE  free' \in SUBSET Request /\ anchored' \in SUBSET (Request \X TxId)
BY TxIdFacts DEF TypeOK, Requeue

\* The members of a lineage are requests, and so are those a transaction carried.
LEMMA MembersType ==
  ASSUME NEW l, NEW t
  PROVE  Members(l) \in SUBSET Request /\ Carried(l, t) \in SUBSET Members(l)
BY DEF Members, Carried

\* The anchor of orphans is a transaction or none.
LEMMA AnchorType ==
  ASSUME NEW t \in TxId, NEW R, NEW a \in AnchorFor(t, R)
  PROVE  a \in TxOrNone
BY TxIdFacts DEF AnchorFor

\* Nothing of a lineage is carried by no transaction.
LEMMA CarriedTx ==
  ASSUME TypeOK, NEW l \in TxId, NEW t, Carried(l, t) # {}
  PROVE  t \in TxId
BY DEF TypeOK, Carried, Members, Lineage

\* The confirmation phase of a tick keeps the types,
LEMMA ConfirmingTypeOK == TypeOK /\ Confirming => TypeOK'
<1> SUFFICES ASSUME TypeOK, Confirming PROVE TypeOK'
    OBVIOUS
<1> USE DEF Handled, chainVars
<1> PICK l \in TxId : HandleConfirmation(l) \/ ConfirmationFails(l)
    BY DEF Confirming
<1>1. CASE ConfirmationFails(l)
      BY <1>1 DEF TypeOK, ConfirmationFails, Fault
<1>2. CASE HandleConfirmation(l)
  <2> DEFINE w == lin[l].winner
             orphans == Members(l) \ Carried(l, w)
  <2>1. CASE UNCHANGED <<row, free, anchored, lin>>
        BY <1>2, <2>1 DEF TypeOK, HandleConfirmation, Settles, RowsSettled
  <2>2. CASE ~UNCHANGED <<row, free, anchored, lin>>
    <3>1. Carried(l, w) # {} /\ w \in TxId
          BY <1>2, <2>2, CarriedTx DEF HandleConfirmation, Settles, RowsSettled
    <3>2. PICK a \in AnchorFor(w, orphans) :
            /\ row' = ToPending(ToConfirmed(row, Carried(l, w), w), orphans, a)
            /\ Requeue(orphans, a)
            /\ lin' = [lin EXCEPT ![l] = NoLineage]
          BY <1>2, <2>2 DEF HandleConfirmation, Settles, RowsSettled
    <3>3. a \in TxOrNone /\ orphans \in SUBSET Request
          BY <3>1, AnchorType, MembersType
    <3>4. ToConfirmed(row, Carried(l, w), w) \in [Request -> Row]
          BY <3>1, ToConfirmedRows DEF TypeOK
    <3>5. row' \in [Request -> Row]
          BY <3>2, <3>3, <3>4, ToPendingRows
    <3>6. free' \in SUBSET Request /\ anchored' \in SUBSET (Request \X TxId)
          BY <3>2, <3>3, RequeueType
    <3>7. lin' \in [TxId -> Lineage]
          BY <3>2, NoLineageType DEF TypeOK
    <3>8. QED BY <1>2, <3>5, <3>6, <3>7 DEF TypeOK, HandleConfirmation, Settles, RowsSettled
  <2>3. QED BY <2>1, <2>2
<1>3. QED BY <1>1, <1>2

\* as do the look at live lineages,
LEMMA ObservingTypeOK == TypeOK /\ Observing => TypeOK'
<1> SUFFICES ASSUME TypeOK, Observing PROVE TypeOK'
    OBVIOUS
<1> USE DEF Handled, chainVars
<1> PICK l \in TxId : Observe(l) \/ ObserverFails(l)
    BY DEF Observing
<1>1. CASE Observe(l)
  <2>1. AtMost(lin[l].misses + 1, MissThreshold) \in 0..MissThreshold
        BY WalletBoundAssumption DEF TypeOK, Lineage, AtMost
  <2>2. lin' \in [TxId -> Lineage]
        BY <1>1, <2>1, ObservedType DEF Observe, TypeOK
  <2>3. QED BY <1>1, <2>2 DEF TypeOK, Observe
<1>2. CASE ObserverFails(l)
      BY <1>2 DEF TypeOK, ObserverFails, Fault
<1>3. QED BY <1>1, <1>2

\* the reconciliation of missing ones,
LEMMA ReconcilingTypeOK == TypeOK /\ Reconciling => TypeOK'
<1> SUFFICES ASSUME TypeOK, Reconciling PROVE TypeOK'
    OBVIOUS
<1> USE DEF Handled, chainVars
<1> PICK l \in TxId :
      \/ ReconcileNoSurvivor(l) \/ ReconcileFails(l)
      \/ \E s \in TxId : ReconcileConfirmed(l, s) \/ ReconcileInMempool(l, s)
    BY DEF Reconciling
<1>0. /\ NoLineage \in Lineage /\ Restored(l) \in [TxId -> Lineage] /\ 0 \in TxOrNone
      /\ Members(l) \in SUBSET Request
      BY NoLineageType, RestoredType, TxIdFacts, MembersType
<1>1. CASE ReconcileNoSurvivor(l)
  <2>1. CASE RowsInflight(Members(l), l)
    <3>1. row' \in [Request -> Row]
          BY <1>0, <1>1, <2>1, ToPendingRows DEF ReconcileNoSurvivor, TypeOK
    <3>2. free' \in SUBSET Request /\ anchored' \in SUBSET (Request \X TxId)
          BY <1>0, <1>1, <2>1, RequeueType DEF ReconcileNoSurvivor
    <3>3. QED BY <1>0, <1>1, <2>1, <3>1, <3>2 DEF ReconcileNoSurvivor, TypeOK
  <2>2. CASE ~RowsInflight(Members(l), l)
        BY <1>0, <1>1, <2>2 DEF ReconcileNoSurvivor, TypeOK
  <2>3. QED BY <2>1, <2>2
<1>2. CASE ReconcileFails(l)
      BY <1>0, <1>2 DEF ReconcileFails, Fault, TypeOK
<1>3. ASSUME NEW s \in TxId, ReconcileConfirmed(l, s) PROVE TypeOK'
  <2> DEFINE orphans == Members(l) \ Carried(l, s)
  <2>1. CASE Carried(l, s) # {} /\ RowsInflight(Members(l), l)
    <3>1. PICK a \in AnchorFor(s, orphans) :
            /\ row' = ToPending(ToConfirmed(row, Carried(l, s), s), orphans, a)
            /\ Requeue(orphans, a)
            /\ lin' = [lin EXCEPT ![l] = NoLineage]
          BY <1>3, <2>1 DEF ReconcileConfirmed, Settles, RowsSettled
    <3>2. a \in TxOrNone /\ orphans \in SUBSET Request
          BY <1>0, AnchorType
    <3>3. ToConfirmed(row, Carried(l, s), s) \in [Request -> Row]
          BY ToConfirmedRows DEF TypeOK
    <3>4. row' \in [Request -> Row]
          BY <3>1, <3>2, <3>3, ToPendingRows
    <3>5. free' \in SUBSET Request /\ anchored' \in SUBSET (Request \X TxId)
          BY <3>1, <3>2, RequeueType
    <3>6. lin' \in [TxId -> Lineage]
          BY <1>0, <3>1 DEF TypeOK
    <3>7. QED BY <1>3, <3>4, <3>5, <3>6 DEF ReconcileConfirmed, TypeOK, Settles, RowsSettled
  <2>2. CASE ~(Carried(l, s) # {} /\ RowsInflight(Members(l), l))
        BY <1>0, <1>3, <2>2 DEF ReconcileConfirmed, TypeOK, Settles, RowsSettled
  <2>3. QED BY <2>1, <2>2
<1>4. ASSUME NEW s \in TxId, ReconcileInMempool(l, s) PROVE TypeOK'
  <2> DEFINE orphans == Members(l) \ Carried(l, s)
             kept == [lin[l] EXCEPT !.head = s, !.misses = 0,
                        !.hist = [r \in Request |->
                                    IF r \in Carried(l, s) THEN lin[l].hist[r] ELSE {}]]
  <2>1. CASE Carried(l, s) # {} /\ RowsInflight(Members(l), l)
    <3>1. orphans \in SUBSET Request
          BY <1>0
    <3>2. /\ row' = ToPending(ToSurviving(row, Carried(l, s), s), orphans, 0)
          /\ Requeue(orphans, 0)
          /\ lin' = [lin EXCEPT ![l] = kept] \/ lin' = Restored(l)
          /\ faults' = faults \/ Fault("funding")
          BY <1>4, <2>1 DEF ReconcileInMempool, Settles, RowsAdopted, FundingLost
    <3>3. ToSurviving(row, Carried(l, s), s) \in [Request -> Row]
          BY ToSurvivingRows DEF TypeOK
    <3>4. row' \in [Request -> Row]
          BY <1>0, <3>2, <3>3, ToPendingRows
    <3>5. free' \in SUBSET Request /\ anchored' \in SUBSET (Request \X TxId)
          BY <1>0, <3>1, <3>2, RequeueType
    <3>6. s \in TxOrNone /\ 0 \in 0..MissThreshold /\ lin[l] \in Lineage
          BY TxIdFacts, WalletBoundAssumption DEF TypeOK
    <3>7. kept \in Lineage
      <4>1. [r \in Request |-> IF r \in Carried(l, s) THEN lin[l].hist[r] ELSE {}]
              \in [Request -> SUBSET TxId]
            BY <3>6 DEF Lineage
      <4>2. QED BY <3>6, <4>1 DEF Lineage
    <3>8. lin' \in [TxId -> Lineage]
          BY <1>0, <3>2, <3>7 DEF TypeOK
    <3>9. faults' \in Nat
          BY <3>2 DEF Fault, TypeOK
    <3>10. QED BY <1>4, <3>4, <3>5, <3>8, <3>9 DEF ReconcileInMempool, TypeOK, Settles,
        RowsAdopted, FundingLost
  <2>2. CASE ~(Carried(l, s) # {} /\ RowsInflight(Members(l), l))
        BY <1>0, <1>4, <2>2 DEF ReconcileInMempool, TypeOK, Settles, RowsAdopted,
                            FundingLost
  <2>3. QED BY <2>1, <2>2
<1>5. QED BY <1>1, <1>2, <1>3, <1>4

\* The group of an anchor is what is pending for it.
LEMMA GroupsType ==
  ASSUME NEW A \in SUBSET (Request \X TxId), NEW g \in Groups(A)
  PROVE  g \in Action /\ g.reqs # {} /\ \A z \in g.reqs : \E x \in A : x[1] = z
<1>1. PICK q \in A : g = [anchor |-> q[2], reqs |-> {z[1] : z \in {x \in A : x[2] = q[2]}}]
      BY DEF Groups
<1>2. q[1] \in g.reqs /\ q[2] \in TxOrNone
      BY <1>1, TxIdFacts
<1>3. g.reqs \in SUBSET Request
      BY <1>1
<1>4. QED BY <1>1, <1>2, <1>3 DEF Action

\* A plan has groups as they are, and the free requests in a batch of their own
\* or in one of the groups.
LEMMA PlansShape ==
  ASSUME NEW F, NEW A, NEW p \in Plans(F, A)
  PROVE  \/ p \subseteq Groups(A)
         \/ F # {} /\ p = Groups(A) \cup {[anchor |-> 0, reqs |-> F]}
         \/ F # {} /\ \E g \in Groups(A) :
              p = (Groups(A) \ {g}) \cup {[g EXCEPT !.reqs = @ \cup F]}
<1>1. \/ p = {} \/ p = Groups(A)
      \/ F # {} /\ (p \in FreshPlans(F, A) \/ p \in MixedPlans(F, A))
      BY DEF Plans
<1>2. ASSUME p \in FreshPlans(F, A) PROVE p = Groups(A) \cup {[anchor |-> 0, reqs |-> F]}
      BY <1>2 DEF FreshPlans
<1>3. ASSUME p \in MixedPlans(F, A)
      PROVE  \E g \in Groups(A) : p = (Groups(A) \ {g}) \cup {[g EXCEPT !.reqs = @ \cup F]}
      BY <1>3 DEF MixedPlans
<1>4. QED BY <1>1, <1>2, <1>3

\* plan_wallet_batches makes batches of pending requests, none of them empty.
LEMMA PlansType ==
  ASSUME NEW F \in SUBSET Request, NEW A \in SUBSET (Request \X TxId),
         NEW p \in Plans(F, A)
  PROVE  p \in SUBSET Action /\ \A act \in p : act.reqs # {}
<1>1. \A g \in Groups(A) : g \in Action /\ g.reqs # {}
      BY GroupsType
<1>2. CASE p \subseteq Groups(A)
      BY <1>1, <1>2
<1>3. CASE F # {} /\ p = Groups(A) \cup {[anchor |-> 0, reqs |-> F]}
  <2>1. [anchor |-> 0, reqs |-> F] \in Action
        BY TxIdFacts DEF Action
  <2>2. QED BY <1>1, <1>3, <2>1
<1>4. ASSUME F # {}, NEW g \in Groups(A),
             p = (Groups(A) \ {g}) \cup {[g EXCEPT !.reqs = @ \cup F]}
      PROVE  p \in SUBSET Action /\ \A act \in p : act.reqs # {}
  <2>1. [g EXCEPT !.reqs = @ \cup F] \in Action /\ [g EXCEPT !.reqs = @ \cup F].reqs # {}
        BY <1>1, <1>4 DEF Action
  <2>2. QED BY <1>1, <1>4, <2>1
<1>5. QED BY <1>2, <1>3, <1>4, PlansShape

\* The requests runtime.tick releases, drops and plans, whatever it chooses.
LEMMA PlanBatchesFacts ==
  ASSUME TypeOK, PlanBatches
  PROVE  /\ free' \in SUBSET Request /\ anchored' \in SUBSET (Request \X TxId)
         /\ plan' \in SUBSET Action /\ \A act \in plan' : act.reqs # {}
<1>1. PICK old \in SUBSET {p[2] : p \in anchored} :
        LET F == free \cup {p[1] : p \in {x \in anchored : x[2] \in old}}
            A == {p \in anchored : p[2] \notin old}
        IN \/ free' = F /\ anchored' = A /\ plan' \in Plans(F, A)
           \/ \E stale \in SUBSET (F \cup {p[1] : p \in A}) \ {{}} :
                /\ free' = F \ stale
                /\ anchored' = {p \in A : p[1] \notin stale}
                /\ plan' \in Plans(free', anchored')
      BY DEF PlanBatches, FreeAfter, AnchoredAfter
<1> DEFINE F == free \cup {p[1] : p \in {x \in anchored : x[2] \in old}}
           A == {p \in anchored : p[2] \notin old}
<1>2. F \in SUBSET Request /\ A \in SUBSET (Request \X TxId)
      BY DEF TypeOK
<1>3. /\ free' \in SUBSET Request /\ anchored' \in SUBSET (Request \X TxId)
      /\ plan' \in Plans(free', anchored')
  <2> HIDE DEF F, A
  <2>1. \/ free' = F /\ anchored' = A /\ plan' \in Plans(F, A)
        \/ \E stale \in SUBSET (F \cup {p[1] : p \in A}) \ {{}} :
             /\ free' = F \ stale
             /\ anchored' = {p \in A : p[1] \notin stale}
             /\ plan' \in Plans(free', anchored')
        BY <1>1 DEF F, A
  <2>2. QED BY <1>2, <2>1
<1>4. QED BY <1>3, PlansType

\* the execution of planned batches up to the node's answer,
LEMMA ExecutingTypeOK == TypeOK /\ Executing => TypeOK'
<1> SUFFICES ASSUME TypeOK, Executing PROVE TypeOK'
    OBVIOUS
<1> USE DEF memVars, chainVars
<1>1. ASSUME NEW act \in plan, BuildFails(act) PROVE TypeOK'
      BY <1>1 DEF TypeOK, BuildFails, Fault, Executes, CannotBuild
<1>2. ASSUME NEW act \in plan, NEW t \in TxId, PersistBroadcast(act, t) PROVE TypeOK'
  <2>1. act.reqs \in SUBSET Request /\ t \in TxOrNone
        BY TxIdFacts DEF TypeOK, Action
  <2>2. row' \in [Request -> Row]
    <3>1. row' = ToInflight(row, act.reqs, t, t) \/ row' = row
          BY <1>2 DEF PersistBroadcast, Executes
    <3>2. row \in [Request -> Row]
          BY DEF TypeOK
    <3>3. ToInflight(row, act.reqs, t, t) \in [Request -> Row]
          BY <3>2, ToInflightRows
    <3>4. QED BY <3>1, <3>2, <3>3
  <2>3. content' \in [TxId -> SUBSET Request]
        BY <1>2, <2>1 DEF PersistBroadcast, TypeOK, Executes
  <2>4. sending' \in [tx : TxOrNone, reply : {"none", "accepted", "rejected"}]
        BY <1>2, <2>1 DEF PersistBroadcast, TypeOK, Executes
  <2>5. QED BY <1>2, <2>2, <2>3, <2>4 DEF PersistBroadcast, TypeOK, Executes
<1>3. CASE NodeAccepts \/ NodeRejects \/ NodeAcceptsUnheard
  <2>1. sending.tx \in TxId /\ Rivals(sending.tx) \in SUBSET TxId
        BY <1>3, TxIdFacts DEF NodeAccepts, NodeRejects, NodeAcceptsUnheard, Sent, TypeOK,
           Rivals, OnNetwork
  <2>2. sending' \in [tx : TxOrNone, reply : {"none", "accepted", "rejected"}]
        BY <1>3 DEF NodeAccepts, NodeRejects, NodeAcceptsUnheard, Answer, TypeOK
  <2>3. faults' \in Nat
        BY <1>3 DEF NodeAccepts, NodeRejects, NodeAcceptsUnheard, Fault, TypeOK
  <2>4. chain' \in [TxId -> {"none", "mempool", "mined", "gone"}]
        BY <1>3, <2>1 DEF NodeAccepts, NodeRejects, NodeAcceptsUnheard, TypeOK
  <2>5. slipped' \in SUBSET TxId
        BY <1>3, <2>1 DEF NodeAccepts, NodeRejects, NodeAcceptsUnheard, TypeOK
  <2>6. QED BY <1>3, <2>2, <2>3, <2>4, <2>5
        DEF NodeAccepts, NodeRejects, NodeAcceptsUnheard, TypeOK
<1>4. CASE BatchAccepted
  <2> DEFINE t == sending.tx
             L == [head |-> t, all |-> {t},
                   hist |-> [r \in Request |-> IF r \in content[t] THEN {t} ELSE {}],
                   winner |-> 0, misses |-> 0]
  <2>1. t \in TxId => L \in Lineage
    <3> HAVE t \in TxId
    <3>1. [r \in Request |-> IF r \in content[t] THEN {t} ELSE {}]
            \in [Request -> SUBSET TxId]
          OBVIOUS
    <3>2. t \in TxOrNone /\ 0 \in TxOrNone /\ 0 \in 0..MissThreshold
          BY TxIdFacts, WalletBoundAssumption
    <3>3. QED BY <3>1, <3>2 DEF Lineage
  <2>2. lin' \in [TxId -> Lineage]
    <3>1. lin' = [lin EXCEPT ![t] = L]
          BY <1>4 DEF BatchAccepted, NewLineage
    <3> HIDE DEF L, t
    <3>2. QED BY <2>1, <3>1 DEF TypeOK
  <2>3. NoBatch \in [tx : TxOrNone, reply : {"none", "accepted", "rejected"}]
        BY TxIdFacts DEF NoBatch
  <2>4. QED BY <1>4, <2>2, <2>3 DEF BatchAccepted, TypeOK, NewLineage
<1>5. CASE BatchRejected
  <2>1. NoBatch \in [tx : TxOrNone, reply : {"none", "accepted", "rejected"}]
        BY TxIdFacts DEF NoBatch
  <2>2. content' \in [TxId -> SUBSET Request]
        BY <1>5 DEF BatchRejected, TypeOK
  <2>3. row' \in [Request -> Row]
        BY <1>5, RevertedRows DEF BatchRejected, TypeOK
  <2>4. QED BY <1>5, <2>1, <2>2, <2>3 DEF BatchRejected, TypeOK
<1>6. CASE RevertFails
  <2>1. /\ NoBatch \in [tx : TxOrNone, reply : {"none", "accepted", "rejected"}]
        /\ sending.tx \in TxOrNone
        BY TxIdFacts DEF NoBatch, TypeOK
  <2>2. QED BY <1>6, <2>1 DEF RevertFails, Fault, TypeOK
<1>7. QED BY <1>1, <1>2, <1>3, <1>4, <1>5, <1>6 DEF Executing

\* the death of the process
LEMMA CrashTypeOK == TypeOK /\ Crash => TypeOK'
BY NoLineageType, TxIdFacts DEF TypeOK, Crash, Fault, NoBatch, chainVars

\* The lineage rebuilt from rows is one.
LEMMA RestoredLineageType ==
  ASSUME TypeOK, NEW l \in TxId
  PROVE  RestoredLineage(l) \in Lineage
<1> DEFINE R == Inflight(l)
           h == [r \in Request |-> IF r \in R THEN row[r].history ELSE {}]
<1>1. CASE R = {}
      BY <1>1, NoLineageType DEF RestoredLineage
<1>2. CASE R # {}
  <2>1. (CHOOSE r \in R : TRUE) \in Request
        BY <1>2 DEF Inflight
  <2>2. \A r \in Request : row[r].head \in TxOrNone /\ row[r].history \in SUBSET TxId
        BY DEF TypeOK, Row
  <2>3. UNION {row[r].history : r \in R} \in SUBSET TxId
        BY <2>2 DEF Inflight
  <2>4. h \in [Request -> SUBSET TxId]
        BY <2>2
  <2>5. 0 \in TxOrNone /\ 0 \in 0..MissThreshold
        BY TxIdFacts, WalletBoundAssumption
  <2>6. RestoredLineage(l) =
          [head |-> row[CHOOSE r \in R : TRUE].head, all |-> UNION {row[r].history : r \in R},
           hist |-> h, winner |-> 0, misses |-> 0]
        BY <1>2 DEF RestoredLineage
  <2> HIDE DEF R, h
  <2>7. QED BY <2>1, <2>2, <2>3, <2>4, <2>5, <2>6 DEF Lineage
<1>3. QED BY <1>1, <1>2

\* and its return.
LEMMA RecoveringTypeOK == TypeOK /\ Recovering => TypeOK'
<1> SUFFICES ASSUME TypeOK, Recovering PROVE TypeOK'
    OBVIOUS
<1>1. CASE Restore
  <2>1. /\ lin' = [l \in TxId |-> RestoredLineage(l)]
        /\ lin' \in [TxId -> Lineage]
        BY <1>1, RestoredLineageType DEF Restore
  <2>2. free' \in SUBSET Request /\ todo' \in SUBSET TxId
        BY <1>1 DEF Restore
  <2>3. \A r \in Request : row[r].anchor \in TxOrNone
        BY DEF TypeOK, Row
  <2>4. anchored' \in SUBSET (Request \X TxId)
        BY <1>1, <2>3, TxIdFacts DEF Restore
  <2>5. QED BY <1>1, <2>1, <2>2, <2>4 DEF Restore, TypeOK, chainVars
<1>2. ASSUME NEW l \in TxId, Recover(l) PROVE TypeOK'
  <2>1. 0 \in 0..MissThreshold
        BY WalletBoundAssumption
  <2>2. lin' \in [TxId -> Lineage]
        BY <1>2, <2>1, ObservedType DEF Recover, TypeOK
  <2>3. QED BY <1>2, <2>2 DEF TypeOK, Recover, Handled, chainVars
<1>3. CASE RecoveryEnds
      BY <1>3 DEF RecoveryEnds, TypeOK, chainVars, memVars
<1>4. QED BY <1>1, <1>2, <1>3 DEF Recovering

\* All of the runner's steps together.
LEMMA RunnerTypeOK == TypeOK /\ Runner => TypeOK'
<1> SUFFICES ASSUME TypeOK, Runner PROVE TypeOK'
    OBVIOUS
<1> USE DEF chainVars, memVars
<1>1. CASE TickBegins \/ ObserveBegins \/ ReconcileBegins \/ TickEnds
      BY <1>1 DEF TypeOK, TickBegins, ObserveBegins, ReconcileBegins, TickEnds, Won, Live
<1>2. CASE PlanBatches
  <2>1. faults' = faults \/ Fault("ttl")
        BY <1>2 DEF PlanBatches, FreeAfter, AnchoredAfter
  <2>2. faults' \in Nat
        BY <2>1 DEF Fault, TypeOK
  <2>3. /\ at' = "execute"
        /\ UNCHANGED <<chainVars, row, submitting, inbox, lin, todo, sending>>
        BY <1>2 DEF PlanBatches, FreeAfter, AnchoredAfter
  <2>4. QED BY <1>2, <2>2, <2>3, PlanBatchesFacts DEF TypeOK
<1>3. QED BY <1>1, <1>2, ConfirmingTypeOK, ObservingTypeOK, ReconcilingTypeOK,
          ExecutingTypeOK, RecoveringTypeOK DEF Runner

\* A stuttering step.
LEMMA StutterTypeOK == TypeOK /\ UNCHANGED vars => TypeOK'
BY DEF TypeOK, vars, chainVars, memVars, tickVars

\* Every variable stays in its domain, whatever fails.
THEOREM TypeCorrect == Spec => []TypeOK
<1>1. TypeOK /\ [Next]_vars => TypeOK'
      BY NetworkTypeOK, RequestsTypeOK, RunnerTypeOK, CrashTypeOK, StutterTypeOK DEF Next
<1>2. QED BY InitTypeOK, <1>1, PTL DEF Spec
-----------------------------------------------------------------------------
(* What a step of the network leaves true of rows and lineages.            *)

\* A step after which no other transaction is sound.
Quiet ==
  \A t \in TxId :
    /\ Sound(t)' => Sound(t)
    /\ chain[t] = "mined" => chain'[t] = "mined"
    /\ chain'[t] = "none" => chain[t] = "none"

\* A step that leaves the network alone.
LEMMA StillQuiet == UNCHANGED <<chain, slipped>> => Quiet
BY DEF Quiet, Sound

\* Rows that are right before such a step are right after it.
LEMMA RowsStep ==
  ASSUME TypeOK, TypeOK', Quiet, content' = content,
         \A r \in Request : RowOK(r, row'[r])
  PROVE  RowInv'
<1> SUFFICES ASSUME NEW r \in Request PROVE RowOK(r, row[r])'
    BY DEF RowInv
<1>1. /\ row'[r].history \in SUBSET TxId
      /\ row'[r].head # 0 => row'[r].head \in TxId
      BY TxIdFacts DEF TypeOK, Row
<1>2. QED BY <1>1 DEF RowOK, Pays, Quiet

\* So are lineages, when no row has joined one meanwhile.
LEMMA LineagesStep ==
  ASSUME TypeOK', Quiet, content' = content,
         \A l \in TxId : LineageOK(l, lin'[l]),
         \A r \in Request : row'[r].status = "inflight" =>
           row[r].status = "inflight" /\ row'[r].lineage = row[r].lineage
  PROVE  LineageInv'
<1> SUFFICES ASSUME NEW l \in TxId PROVE LineageOK(l, lin[l])'
    BY DEF LineageInv
<1>0. LineageOK(l, lin'[l]) /\ lin'[l] \in Lineage
      BY DEF TypeOK
<1>2. lin'[l].head # 0 => lin'[l].head \in TxId
      BY <1>0, TxIdFacts DEF Lineage
<1>3. lin'[l].winner # 0 => lin'[l].winner \in TxId
      BY <1>0, TxIdFacts DEF Lineage
<1>4. (\A u \in lin[l].all : content[u] # {})'
      BY <1>0 DEF LineageOK
<1>5. (lin[l].misses > 0 => lin[l].head # 0 /\ ~Sound(lin[l].head))'
  <2> SUFFICES ASSUME lin'[l].misses > 0 PROVE lin'[l].head # 0 /\ ~(Sound(lin[l].head)')
      OBVIOUS
  <2>1. lin'[l].head # 0 /\ ~Sound(lin'[l].head)
        BY <1>0 DEF LineageOK
  <2>2. QED BY <1>2, <2>1 DEF Quiet, Sound
<1>6. (lin[l].winner # 0 =>
         /\ chain[lin[l].winner] = "mined" /\ lin[l].head # 0
         /\ lin[l].winner # lin[l].head => ~Sound(lin[l].head))'
      BY <1>0, <1>2, <1>3 DEF LineageOK, Quiet, Sound
<1>7. (\A r \in Request : \A t \in lin[l].hist[r] : t \in lin[l].all /\ Pays(t, r))'
      BY <1>0 DEF LineageOK, Pays
<1>8. (\A r \in Request : lin[l].hist[r] # {} =>
         /\ Pays(l, r)
         /\ row[r].status = "inflight" /\ row[r].lineage = l =>
              \A t \in TxId : Pays(t, r) /\ Sound(t) =>
                t = lin[l].head /\ t \in lin[l].hist[r])'
      BY <1>0 DEF LineageOK, Pays, Quiet, Sound
<1>9. (lin[l].head # 0 => lin[l].head \in lin[l].all)'
      BY <1>0 DEF LineageOK
<1>10. QED BY <1>4, <1>5, <1>6, <1>7, <1>8, <1>9 DEF LineageOK

\* A lineage that is not there is a good one.
LEMMA NoLineageOK == ASSUME NEW l PROVE LineageOK(l, NoLineage)
BY DEF LineageOK, NoLineage

\* A step that leaves the rows and the runner's picture alone.
LEMMA QuietInv ==
  ASSUME Inv, TypeOK', Quiet, UNCHANGED <<content, row, lin>>
  PROVE  RowInv' /\ LineageInv'
<1>1. \A r \in Request : RowOK(r, row'[r])
      BY DEF Inv, RowInv
<1>2. \A l \in TxId : LineageOK(l, lin'[l])
      BY DEF Inv, LineageInv
<1>3. QED BY <1>1, <1>2, RowsStep, LineagesStep DEF Inv

\* The empty wallet satisfies Inv.
LEMMA InitInv == Init => Inv
BY InitTypeOK, TxIdFacts DEF Init, Inv, NetworkInv, SendingInv, RowInv, RowOK, LineageInv,
   LineageOK, PhaseInv, NoLineage, NoBatch, Pays

\* Mining, eviction and return make no other transaction sound.
LEMMA NetworkStep == Inv /\ Network => Inv'
<1> SUFFICES ASSUME Inv, Network PROVE Inv'
    OBVIOUS
<1>1. UNCHANGED <<content, row, memVars, tickVars>>
      BY DEF Network, Mine, Evict, Return
<1>2. /\ Quiet
      /\ \A t \in TxId : chain'[t] = "gone" => t \in slipped'
      /\ \A t \in TxId : chain'[t] # "none" <=> chain[t] # "none"
  <2> USE DEF Inv, TypeOK, NetworkInv, Quiet, Sound
  <2> PICK t \in TxId : Mine(t) \/ Evict(t) \/ Return(t)
      BY DEF Network
  <2>1. CASE Mine(t)
        BY <2>1 DEF Mine
  <2>2. CASE Evict(t)
        BY <2>2 DEF Evict
  <2>3. CASE Return(t)
        BY <2>3 DEF Return
  <2>4. QED BY <2>1, <2>2, <2>3
<1>3. TypeOK'
      BY NetworkTypeOK DEF Inv
<1>4. RowInv' /\ LineageInv'
      BY <1>1, <1>2, <1>3, QuietInv DEF memVars, tickVars
<1>5. NetworkInv'
      BY <1>1, <1>2 DEF Inv, NetworkInv
<1>6. SendingInv'
  <2>1. sending.tx # 0 => sending.tx \in TxId
        BY TxIdFacts DEF Inv, TypeOK
  <2>2. QED BY <1>1, <1>2, <2>1 DEF Inv, SendingInv, Quiet, memVars, tickVars, Members
<1>7. PhaseInv'
      BY <1>1 DEF Inv, PhaseInv, memVars, tickVars
<1>8. QED BY <1>3, <1>4, <1>5, <1>6, <1>7 DEF Inv
-----------------------------------------------------------------------------
(* The callers and the phases of a tick that only look.                    *)

\* New requests arrive at the wallet.
LEMMA RequestsStep == Inv /\ Requests => Inv'
<1> SUFFICES ASSUME Inv, Requests PROVE Inv'
    OBVIOUS
<1>1. TypeOK' /\ Quiet
      BY RequestsTypeOK, StillQuiet DEF Inv, Requests, Enqueue, Submit, Receive, chainVars
<1>2. UNCHANGED <<chainVars, lin, tickVars>>
      BY DEF Requests, Enqueue, Submit, Receive
<1>3. PICK r \in Request :
        \/ row' = row
        \/ row[r].status = "absent" /\ row' = [row EXCEPT ![r].status = "pending"]
      BY DEF Requests, Enqueue, Submit, Receive
<1>4. \A q \in Request :
        \/ row'[q] = row[q]
        \/ /\ row[q].status = "absent" /\ row'[q].status = "pending"
           /\ row'[q].history = row[q].history
  <2> TAKE q \in Request
  <2>1. row[r] \in Row
        BY DEF Inv, TypeOK
  <2>2. CASE row' = [row EXCEPT ![r].status = "pending"] /\ q = r
        BY <1>3, <2>1, <2>2 DEF Inv, TypeOK, Row
  <2>3. CASE row' = [row EXCEPT ![r].status = "pending"] /\ q # r
        BY <2>3 DEF Inv, TypeOK
  <2>4. QED BY <1>3, <2>2, <2>3
<1>5. \A q \in Request : RowOK(q, row'[q])
  <2> SUFFICES ASSUME NEW q \in Request PROVE RowOK(q, row'[q])
      OBVIOUS
  <2>1. RowOK(q, row[q])
        BY DEF Inv, RowInv
  <2>2. QED BY <1>4, <2>1 DEF RowOK
<1>6. RowInv'
      BY <1>1, <1>2, <1>5, RowsStep DEF Inv, chainVars
<1>7. LineageInv'
      BY <1>1, <1>2, <1>4, LineagesStep DEF Inv, chainVars, tickVars, LineageInv
<1>8. NetworkInv'
      BY <1>2 DEF Inv, NetworkInv, chainVars
<1>9. SendingInv'
  <2>1. sending.tx # 0 => \A q \in content[sending.tx] : q \in Request
        BY TxIdFacts DEF Inv, TypeOK
  <2>2. sending.tx # 0 => \A q \in content[sending.tx] : row'[q] = row[q]
        BY <1>4, <2>1 DEF Inv, SendingInv
  <2>3. QED BY <1>2, <2>2 DEF Inv, SendingInv, chainVars, tickVars, Members, Sound
<1>10. PhaseInv'
      BY <1>2 DEF Inv, PhaseInv, tickVars
<1>11. QED BY <1>1, <1>6, <1>7, <1>8, <1>9, <1>10 DEF Inv

\* A step of the runner that touches neither rows nor lineages nor the batch
\* on its way keeps Inv when it respects the phases.
LEMMA LookStep ==
  ASSUME Inv, TypeOK', UNCHANGED <<chainVars, row, lin, sending>>,
         \A a \in plan' : a.reqs # {}, sending.tx # 0 => at' = "execute",
         PhaseInv'
  PROVE  Inv'
<1>1. RowInv' /\ LineageInv'
      BY StillQuiet, QuietInv DEF chainVars
<1>2. NetworkInv'
      BY DEF Inv, NetworkInv, chainVars
<1>3. SendingInv'
      BY DEF Inv, SendingInv, chainVars, Members, Sound
<1>4. QED BY <1>1, <1>2, <1>3 DEF Inv

\* The steps that begin a phase choose the lineages it is for.
LEMMA PhasesStep ==
  Inv /\ (TickBegins \/ ObserveBegins \/ ReconcileBegins \/ PlanBatches \/ TickEnds
          \/ RecoveryEnds) => Inv'
<1> SUFFICES ASSUME Inv, TickBegins \/ ObserveBegins \/ ReconcileBegins \/ PlanBatches
                         \/ TickEnds \/ RecoveryEnds
             PROVE  Inv'
    OBVIOUS
<1>1. TypeOK'
      BY RunnerTypeOK DEF Inv, Runner, Recovering
<1>2. UNCHANGED <<chainVars, row, lin, sending>>
      BY DEF TickBegins, ObserveBegins, ReconcileBegins, PlanBatches, TickEnds, RecoveryEnds,
         memVars, FreeAfter, AnchoredAfter
<1>3. \A a \in plan' : a.reqs # {}
  <2>1. CASE PlanBatches
        BY <2>1, PlanBatchesFacts DEF Inv
  <2>2. CASE ~PlanBatches
        BY <2>2 DEF TickBegins, ObserveBegins, ReconcileBegins, TickEnds, RecoveryEnds, Inv,
           SendingInv
  <2>3. QED BY <2>1, <2>2
<1>4. sending.tx = 0 \/ at' = "execute"
      BY DEF Inv, SendingInv, TickBegins, ObserveBegins, ReconcileBegins, PlanBatches,
         TickEnds, RecoveryEnds, NoBatch, FreeAfter, AnchoredAfter
<1>5. PhaseInv'
  <2>1. CASE ObserveBegins
        BY <2>1 DEF ObserveBegins, PhaseInv, Live, memVars
  <2>2. CASE ReconcileBegins
    <3>1. \A l \in todo' : /\ lin[l].head # 0 /\ lin[l].winner = 0
                           /\ lin[l].misses >= MissThreshold /\ lin[l].misses \in Nat
          BY <2>2, WalletBoundAssumption DEF ReconcileBegins, Live, Inv, TypeOK, Lineage
    <3>2. \A l \in todo' : lin[l].misses > 0
          BY <3>1, WalletBoundAssumption
    <3>3. QED BY <1>2, <3>1, <3>2 DEF PhaseInv
  <2>3. CASE TickBegins \/ PlanBatches \/ TickEnds \/ RecoveryEnds
        BY <2>3 DEF TickBegins, PlanBatches, TickEnds, RecoveryEnds, PhaseInv, FreeAfter,
                AnchoredAfter
  <2>4. QED BY <2>1, <2>2, <2>3
<1>6. QED BY <1>1, <1>2, <1>3, <1>4, <1>5, LookStep

\* A lookup that fails changes nothing but what is left to do.
LEMMA FailedLooksStep ==
  ASSUME Inv, NEW l \in TxId, ConfirmationFails(l) \/ ObserverFails(l)
  PROVE  Inv'
<1>1. TypeOK'
      BY ConfirmingTypeOK, ObservingTypeOK DEF Inv, Confirming, Observing
<1>2. /\ UNCHANGED <<chainVars, row, lin, sending, plan, at>>
      /\ todo' \subseteq todo
      BY DEF ConfirmationFails, ObserverFails, Handled
<1>3. PhaseInv'
      BY <1>2 DEF Inv, PhaseInv
<1>4. QED BY <1>1, <1>2, <1>3, LookStep DEF Inv, SendingInv

\* A look at a lineage's transactions leaves it a good one.
LEMMA ObservedOK ==
  ASSUME Inv, NEW l \in TxId, lin[l].head # 0, lin[l].winner = 0, NEW missed \in 0..MissThreshold,
         NEW L \in Observed(l, missed)
  PROVE  LineageOK(l, L) /\ L.head # 0
<1> DEFINE M == lin[l]
           survivors == M.all \cap OnNetwork
<1>1. LineageOK(l, M) /\ M \in Lineage
      BY DEF Inv, LineageInv, TypeOK
<1>2. M.head \in TxId /\ M.head \in M.all
      BY <1>1, TxIdFacts DEF Lineage, LineageOK
<1>3. CASE chain[M.head] = "mined"
  <2>1. L = [M EXCEPT !.winner = M.head, !.misses = 0]
        BY <1>3 DEF Observed
  <2>2. QED BY <1>1, <1>2, <1>3, <2>1 DEF LineageOK, Lineage
<1>4. CASE chain[M.head] = "mempool"
  <2>1. L = [M EXCEPT !.misses = 0]
        BY <1>4 DEF Observed
  <2>2. QED BY <1>1, <1>2, <2>1 DEF LineageOK, Lineage
<1>5. CASE chain[M.head] \notin {"mined", "mempool"}
  <2>0. ~Sound(M.head)
        BY <1>5 DEF Sound
  <2>1. CASE survivors = {}
    <3>1. L = [M EXCEPT !.misses = missed]
          BY <1>5, <2>1 DEF Observed
    <3>2. QED BY <1>1, <1>2, <2>0, <3>1 DEF LineageOK, Lineage
  <2>2. CASE survivors # {}
    <3>1. PICK s \in survivors :
            L = IF chain[s] = "mined" THEN [M EXCEPT !.winner = s, !.misses = 0]
                ELSE [M EXCEPT !.head = s, !.misses = 0]
          BY <1>5, <2>2 DEF Observed
    <3>2. s \in TxId /\ s \in M.all /\ s # 0
          BY TxIdFacts DEF OnNetwork
    <3>3. CASE chain[s] = "mined"
      <4>1. L = [M EXCEPT !.winner = s, !.misses = 0]
            BY <3>1, <3>3
      <4>2. QED BY <1>1, <1>2, <2>0, <3>2, <3>3, <4>1 DEF LineageOK, Lineage
    <3>4. CASE chain[s] # "mined"
      <4>1. L = [M EXCEPT !.head = s, !.misses = 0]
            BY <3>1, <3>4
      <4>2. /\ L.head = s /\ L.all = M.all /\ L.hist = M.hist /\ L.winner = M.winner
            /\ L.misses = 0
            BY <1>1, <4>1 DEF Lineage
      <4>3. QED BY <1>1, <1>2, <2>0, <3>2, <4>2 DEF LineageOK
    <3>5. QED BY <3>3, <3>4
  <2>3. QED BY <2>1, <2>2
<1>6. QED BY <1>3, <1>4, <1>5
-----------------------------------------------------------------------------
(* The phases that change lineages and rows.                               *)

\* What is left to show of a step that handles one lineage of a phase.
LEMMA HandledStep ==
  ASSUME Inv, NEW l \in TxId, NEW phase \in {"confirm", "observe", "reconcile", "recover"},
         Handled(phase, l), TypeOK', RowInv', LineageInv',
         \A k \in TxId \ {l} : lin'[k] = lin[k]
  PROVE  Inv'
<1>1. /\ UNCHANGED <<chainVars, at, plan, sending>>
      /\ todo' = todo \ {l} /\ at = phase
      BY DEF Handled
<1>2. NetworkInv'
      BY <1>1 DEF Inv, NetworkInv, chainVars
<1>3. SendingInv'
      BY <1>1 DEF Inv, SendingInv
<1>4. \A k \in todo' : k \in todo /\ k \in TxId \ {l}
      BY <1>1 DEF Inv, TypeOK
<1>5. PhaseInv'
      BY <1>1, <1>4 DEF Inv, PhaseInv
<1>6. QED BY <1>2, <1>3, <1>5 DEF Inv

\* One lineage is replaced by a good one and the rows stay.
LEMMA LineageStep ==
  ASSUME Inv, TypeOK', UNCHANGED <<chainVars, row, sending>>,
         NEW l \in TxId, NEW L, LineageOK(l, L), lin' = [lin EXCEPT ![l] = L]
  PROVE  RowInv' /\ LineageInv' /\ \A k \in TxId \ {l} : lin'[k] = lin[k]
<1>1. lin'[l] = L /\ \A k \in TxId \ {l} : lin'[k] = lin[k]
      BY DEF Inv, TypeOK
<1>2. \A k \in TxId : LineageOK(k, lin'[k])
      BY <1>1 DEF Inv, LineageInv
<1>3. LineageInv'
      BY <1>2, StillQuiet, LineagesStep DEF Inv, chainVars
<1>4. RowInv'
      BY StillQuiet, RowsStep DEF Inv, RowInv, chainVars
<1>5. QED BY <1>1, <1>3, <1>4

\* Observe and Recover replace a lineage by what was seen of it.
LEMMA LookedStep ==
  ASSUME Inv, NEW l \in TxId, Observe(l) \/ Recover(l)
  PROVE  Inv'
<1>1. TypeOK'
      BY ObservingTypeOK, RecoveringTypeOK DEF Inv, Observing, Recovering
<1>2. PICK phase \in {"observe", "recover"} : Handled(phase, l)
      BY DEF Observe, Recover
<1>3. lin[l].head # 0 /\ lin[l].winner = 0
      BY <1>2 DEF Handled, Inv, PhaseInv
<1>4. PICK missed \in 0..MissThreshold : \E L \in Observed(l, missed) :
        lin' = [lin EXCEPT ![l] = L]
  <2>1. AtMost(lin[l].misses + 1, MissThreshold) \in 0..MissThreshold
        BY WalletBoundAssumption DEF Inv, TypeOK, Lineage, AtMost
  <2>2. 0 \in 0..MissThreshold
        BY WalletBoundAssumption
  <2>3. QED BY <2>1, <2>2 DEF Observe, Recover
<1>5. PICK L \in Observed(l, missed) : lin' = [lin EXCEPT ![l] = L]
      BY <1>4
<1>6. LineageOK(l, L)
      BY <1>3, ObservedOK
<1>7. UNCHANGED <<chainVars, row, sending>>
      BY DEF Observe, Recover, Handled
<1>8. RowInv' /\ LineageInv' /\ \A k \in TxId \ {l} : lin'[k] = lin[k]
      BY <1>1, <1>5, <1>6, <1>7, LineageStep
<1>9. QED BY <1>1, <1>2, <1>8, HandledStep

\* Members of a lineage whose rows are inflight in it: what their rows know.
LEMMA MemberFacts ==
  ASSUME Inv, NEW l \in TxId, RowsInflight(Members(l), l), NEW r \in Members(l)
  PROVE  /\ r \in Request /\ RowOK(r, row[r])
         /\ row[r].status = "inflight" /\ row[r].lineage = l
         /\ \A t \in lin[l].hist[r] : Pays(t, r)
         /\ \A t \in TxId : Pays(t, r) /\ Sound(t) => t = lin[l].head /\ t \in lin[l].hist[r]
<1>1. r \in Request /\ lin[l].hist[r] # {} /\ RowOK(r, row[r])
      BY DEF Members, Inv, RowInv
<1>2. row[r].status = "inflight" /\ row[r].lineage = l
      BY DEF RowsInflight
<1>3. LineageOK(l, lin[l])
      BY DEF Inv, LineageInv
<1>4. QED BY <1>1, <1>2, <1>3 DEF LineageOK

\* A row may go back to pending when no sound transaction pays it.
LEMMA RequeuedOK ==
  ASSUME NEW r, NEW w, NEW v, RowOK(r, w), v.status = "pending", v.history = w.history,
         \A t \in TxId : ~(Pays(t, r) /\ Sound(t))
  PROVE  RowOK(r, v)
BY DEF RowOK

\* A row may be confirmed by a mined transaction that is its only sound one.
LEMMA ConfirmedOK ==
  ASSUME NEW r, NEW w, NEW v, RowOK(r, w), v.status = "confirmed", v.history = w.history,
         NEW t \in TxId, v.head = t, chain[t] = "mined", Pays(t, r),
         \A u \in TxId : Pays(u, r) /\ Sound(u) => u = t
  PROVE  RowOK(r, v)
BY TxIdFacts DEF RowOK

\* persist_confirmation and the confirmed outcome of persist_reconciliation:
\* the winner's requests are paid, the others have no sound transaction left.
LEMMA WonStep ==
  ASSUME Inv, TypeOK', UNCHANGED <<chainVars, sending>>,
         NEW l \in TxId, NEW w \in TxId, RowsInflight(Members(l), l),
         chain[w] = "mined", w # lin[l].head => ~Sound(lin[l].head),
         NEW a \in TxOrNone,
         row' = ToPending(ToConfirmed(row, Carried(l, w), w), Members(l) \ Carried(l, w), a),
         lin' = [lin EXCEPT ![l] = NoLineage]
  PROVE  RowInv' /\ LineageInv' /\ \A k \in TxId \ {l} : lin'[k] = lin[k]
<1> DEFINE C == Carried(l, w)
           O == Members(l) \ C
           mid == ToConfirmed(row, C, w)
<1>1. C \subseteq Members(l) /\ Members(l) \subseteq Request
      BY MembersType
<1>2. /\ mid \in [Request -> Row]
      /\ \A r \in Request \ C : mid[r] = row[r]
      /\ \A r \in Request \cap C : /\ mid[r].status = "confirmed" /\ mid[r].head = w
                                   /\ mid[r].history = row[r].history
      BY ToConfirmedRows DEF Inv, TypeOK
<1>3. /\ \A r \in Request \ O : row'[r] = mid[r]
      /\ \A r \in Request \cap O : row'[r].status = "pending" /\ row'[r].history = mid[r].history
  <2> HIDE DEF mid, O
  <2>1. row' = ToPending(mid, O, a)
        BY DEF mid, O
  <2> DEFINE new == ToPending(mid, O, a)
  <2>2. mid \in [Request -> Row] /\ new = ToPending(mid, O, a)
        BY <1>2
  <2> HIDE DEF new
  <2>3. /\ \A r \in Request \ O : new[r] = mid[r]
        /\ \A r \in Request \cap O : new[r].status = "pending" /\ new[r].history = mid[r].history
        BY <2>2, ToPendingRows
  <2>4. QED BY <2>1, <2>2, <2>3
<1>4. \A r \in Request \ Members(l) : row'[r] = row[r]
      BY <1>1, <1>2, <1>3
<1>5. \A r \in C : RowOK(r, row'[r]) /\ row'[r].status = "confirmed"
  <2> TAKE r \in C
  <2>1. /\ r \in Request /\ r \in Members(l) /\ w \in lin[l].hist[r]
        /\ row'[r].status = "confirmed" /\ row'[r].head = w
        /\ row'[r].history = row[r].history
        BY <1>1, <1>2, <1>3 DEF Carried
  <2>2. RowOK(r, row[r]) /\ Pays(w, r) /\ \A u \in TxId : Pays(u, r) /\ Sound(u) => u = w
        BY <2>1, MemberFacts
  <2> HIDE DEF C, O, mid
  <2>3. QED BY <2>1, <2>2, ConfirmedOK
<1>6. \A r \in O : RowOK(r, row'[r]) /\ row'[r].status = "pending"
  <2> TAKE r \in O
  <2>1. /\ r \in Request /\ r \in Members(l) /\ w \notin lin[l].hist[r]
        /\ row'[r].status = "pending" /\ row'[r].history = row[r].history
        BY <1>1, <1>2, <1>3 DEF Carried
  <2>2. RowOK(r, row[r]) /\ \A u \in TxId : ~(Pays(u, r) /\ Sound(u))
        BY <2>1, MemberFacts
  <2> HIDE DEF C, O, mid
  <2>3. QED BY <2>1, <2>2, RequeuedOK
<1>7. \A r \in Request : RowOK(r, row'[r])
      BY <1>4, <1>5, <1>6 DEF Inv, RowInv
<1>8. RowInv'
      BY <1>7, StillQuiet, RowsStep DEF Inv, chainVars
<1>9. \A r \in Request : row'[r].status = "inflight" => row'[r] = row[r]
      BY <1>4, <1>5, <1>6
<1>10. lin'[l] = NoLineage /\ \A k \in TxId \ {l} : lin'[k] = lin[k]
      BY DEF Inv, TypeOK
<1>11. \A k \in TxId : LineageOK(k, lin'[k])
      BY <1>10, NoLineageOK DEF Inv, LineageInv
<1>12. LineageInv'
      BY <1>9, <1>11, StillQuiet, LineagesStep DEF chainVars
<1>13. QED BY <1>8, <1>10, <1>12

\* handle_confirmation keeps Inv.
LEMMA ConfirmStep ==
  ASSUME Inv, NEW l \in TxId, HandleConfirmation(l)
  PROVE  Inv'
<1> DEFINE w == lin[l].winner
           orphans == Members(l) \ Carried(l, w)
<1>1. TypeOK' /\ Handled("confirm", l)
      BY ConfirmingTypeOK DEF Inv, Confirming, HandleConfirmation, Settles, RowsSettled
<1>2. CASE UNCHANGED <<row, lin>>
  <2>1. RowInv' /\ LineageInv'
        BY <1>1, <1>2, StillQuiet, QuietInv DEF Handled, chainVars
  <2>2. QED BY <1>1, <1>2, <2>1, HandledStep
<1>3. CASE ~UNCHANGED <<row, lin>>
  <2>1. /\ Carried(l, w) # {} /\ RowsInflight(Members(l), l)
        /\ \E a \in AnchorFor(w, orphans) :
             /\ row' = ToPending(ToConfirmed(row, Carried(l, w), w), orphans, a)
             /\ lin' = [lin EXCEPT ![l] = NoLineage]
        BY <1>3 DEF HandleConfirmation, Settles, RowsSettled
  <2>2. w \in TxId
        BY <2>1, CarriedTx DEF Inv
  <2>3. PICK a \in TxOrNone :
             /\ row' = ToPending(ToConfirmed(row, Carried(l, w), w), orphans, a)
             /\ lin' = [lin EXCEPT ![l] = NoLineage]
        BY <2>1, <2>2, AnchorType
  <2>4. chain[w] = "mined" /\ (w # lin[l].head => ~Sound(lin[l].head))
        BY <2>2, TxIdFacts DEF Inv, LineageInv, LineageOK
  <2>5. UNCHANGED <<chainVars, sending>>
        BY <1>1 DEF Handled
  <2>6. RowInv' /\ LineageInv' /\ \A k \in TxId \ {l} : lin'[k] = lin[k]
        BY <1>1, <2>1, <2>2, <2>3, <2>4, <2>5, WonStep
  <2>7. QED BY <1>1, <2>6, HandledStep
<1>4. QED BY <1>2, <1>3

\* A lineage that is reconciled has an unsound head, and its members have no
\* sound transaction at all.
LEMMA MissedFacts ==
  ASSUME Inv, NEW l \in TxId, Handled("reconcile", l)
  PROVE  /\ lin[l].head # 0 /\ lin[l].winner = 0 /\ ~Sound(lin[l].head)
         /\ LineageOK(l, lin[l])
         /\ RowsInflight(Members(l), l) =>
              \A r \in Members(l) : \A t \in TxId : ~(Pays(t, r) /\ Sound(t))
<1>1. lin[l].head # 0 /\ lin[l].winner = 0 /\ lin[l].misses > 0 /\ LineageOK(l, lin[l])
      BY DEF Handled, Inv, PhaseInv, LineageInv
<1>2. ~Sound(lin[l].head)
      BY <1>1 DEF LineageOK
<1>3. QED BY <1>1, <1>2, MemberFacts

\* The lineage goes back as it was.
LEMMA RestoredStep ==
  ASSUME Inv, NEW l \in TxId, Handled("reconcile", l), TypeOK', row' = row,
         lin' = Restored(l)
  PROVE  Inv'
<1> DEFINE L == [lin[l] EXCEPT !.misses = 0]
<1>1. LineageOK(l, L)
      BY MissedFacts DEF LineageOK, Inv, TypeOK, Lineage
<1>2. lin' = [lin EXCEPT ![l] = L]
      BY DEF Restored, Inv, TypeOK
<1>3. UNCHANGED <<chainVars, row, sending>>
      BY DEF Handled
<1> HIDE DEF L
<1>4. RowInv' /\ LineageInv' /\ \A k \in TxId \ {l} : lin'[k] = lin[k]
      BY <1>1, <1>2, <1>3, LineageStep
<1>5. QED BY <1>4, HandledStep

\* A row may change its head when no sound transaction pays it.
LEMMA SurvivingOK ==
  ASSUME NEW r, NEW w, NEW v, RowOK(r, w), w.status = "inflight",
         v.status = w.status, v.lineage = w.lineage, v.history = w.history,
         \A t \in TxId : ~(Pays(t, r) /\ Sound(t))
  PROVE  RowOK(r, v)
BY DEF RowOK

\* persist_reconciliation without a confirmed survivor: the rows in C go on
\* with the transaction s, the others are pending.
LEMMA KeptStep ==
  ASSUME Inv, TypeOK', UNCHANGED <<chainVars, sending>>,
         NEW l \in TxId, Handled("reconcile", l), RowsInflight(Members(l), l),
         NEW C \in SUBSET Members(l), NEW s \in TxId, NEW mid \in [Request -> Row],
         mid = ToSurviving(row, C, s), row' = ToPending(mid, Members(l) \ C, 0),
         NEW L, LineageOK(l, L), lin' = [lin EXCEPT ![l] = L]
  PROVE  Inv'
<1> DEFINE O == Members(l) \ C
<1>1. C \subseteq Members(l) /\ Members(l) \subseteq Request /\ 0 \in TxOrNone
      BY MembersType, TxIdFacts
<1>2. /\ \A r \in Request \ C : mid[r] = row[r]
      /\ \A r \in Request \cap C : /\ mid[r].status = row[r].status
                                   /\ mid[r].lineage = row[r].lineage
                                   /\ mid[r].head = s /\ mid[r].history = row[r].history
      BY ToSurvivingRows DEF Inv, TypeOK
<1>3. /\ \A r \in Request \ O : row'[r] = mid[r]
      /\ \A r \in Request \cap O : row'[r].status = "pending" /\ row'[r].history = mid[r].history
      BY <1>1, ToPendingRows
<1>4. \A r \in Request \ Members(l) : row'[r] = row[r]
      BY <1>1, <1>2, <1>3
<1>5. \A r \in C : /\ RowOK(r, row'[r])
                   /\ row'[r].status = row[r].status /\ row'[r].lineage = row[r].lineage
  <2> TAKE r \in C
  <2>1. /\ r \in Request /\ r \in Members(l) /\ row'[r].status = row[r].status
        /\ row'[r].lineage = row[r].lineage /\ row'[r].history = row[r].history
        BY <1>1, <1>2, <1>3
  <2>2. /\ RowOK(r, row[r]) /\ row[r].status = "inflight"
        /\ \A u \in TxId : ~(Pays(u, r) /\ Sound(u))
        BY <2>1, MemberFacts, MissedFacts
  <2>3. QED BY <2>1, <2>2, SurvivingOK
<1>6. \A r \in O : RowOK(r, row'[r]) /\ row'[r].status = "pending"
  <2> TAKE r \in O
  <2>1. /\ r \in Request /\ r \in Members(l)
        /\ row'[r].status = "pending" /\ row'[r].history = row[r].history
        BY <1>1, <1>2, <1>3
  <2>2. RowOK(r, row[r]) /\ \A u \in TxId : ~(Pays(u, r) /\ Sound(u))
        BY <2>1, MemberFacts, MissedFacts
  <2>3. QED BY <2>1, <2>2, RequeuedOK
<1>7. \A r \in Request : RowOK(r, row'[r])
      BY <1>4, <1>5, <1>6 DEF Inv, RowInv
<1>8. RowInv'
      BY <1>7, StillQuiet, RowsStep DEF Inv, chainVars
<1>9. \A r \in Request : row'[r].status = "inflight" =>
        row[r].status = "inflight" /\ row'[r].lineage = row[r].lineage
      BY <1>4, <1>5, <1>6
<1>10. lin'[l] = L /\ \A k \in TxId \ {l} : lin'[k] = lin[k]
      BY DEF Inv, TypeOK
<1>11. \A k \in TxId : LineageOK(k, lin'[k])
      BY <1>10 DEF Inv, LineageInv
<1>12. LineageInv'
      BY <1>9, <1>11, StillQuiet, LineagesStep DEF chainVars
<1>13. QED BY <1>8, <1>10, <1>12, HandledStep

\* handle_missing_lineage keeps Inv, also when the funding inputs fail to load.
LEMMA ReconcileStep == Inv /\ Reconciling => Inv'
<1> SUFFICES ASSUME Inv, Reconciling PROVE Inv'
    OBVIOUS
<1>0. TypeOK'
      BY ReconcilingTypeOK DEF Inv
<1> PICK l \in TxId :
      \/ ReconcileNoSurvivor(l) \/ ReconcileFails(l)
      \/ \E s \in TxId : ReconcileConfirmed(l, s) \/ ReconcileInMempool(l, s)
    BY DEF Reconciling
<1>1. Handled("reconcile", l) /\ UNCHANGED <<chainVars, sending>>
      BY DEF ReconcileNoSurvivor, ReconcileFails, ReconcileConfirmed, ReconcileInMempool,
         Handled, Settles, RowsSettled, RowsAdopted, FundingLost
<1>2. CASE row' = row /\ lin' = Restored(l)
      BY <1>0, <1>1, <1>2, RestoredStep
<1>3. CASE ReconcileNoSurvivor(l) /\ RowsInflight(Members(l), l)
  <2> DEFINE mid == ToSurviving(row, {}, l)
  <2>1. row \in [Request -> Row]
        BY DEF Inv, TypeOK
  <2>2. mid = row
        BY <2>1 DEF ToSurviving
  <2>3. row' = ToPending(row, Members(l), 0) /\ lin' = [lin EXCEPT ![l] = NoLineage]
        BY <1>3 DEF ReconcileNoSurvivor
  <2>4. Members(l) \ {} = Members(l) /\ {} \in SUBSET Members(l)
        OBVIOUS
  <2>5. LineageOK(l, NoLineage)
        BY NoLineageOK
  <2> HIDE DEF mid
  <2>6. mid = ToSurviving(row, {}, l)
        BY DEF mid
  <2>7. row' = ToPending(mid, Members(l) \ {}, 0) /\ mid \in [Request -> Row]
        BY <2>1, <2>2, <2>3, <2>4
  <2>8. QED BY <1>0, <1>1, <1>3, <2>3, <2>4, <2>5, <2>6, <2>7, KeptStep
<1>4. ASSUME NEW s \in TxId, ReconcileConfirmed(l, s), RowsInflight(Members(l), l),
             Carried(l, s) # {}
      PROVE  Inv'
  <2> DEFINE orphans == Members(l) \ Carried(l, s)
  <2>1. PICK a \in TxOrNone :
          /\ row' = ToPending(ToConfirmed(row, Carried(l, s), s), orphans, a)
          /\ lin' = [lin EXCEPT ![l] = NoLineage]
        BY <1>4, AnchorType DEF ReconcileConfirmed, Settles, RowsSettled
  <2>2. chain[s] = "mined" /\ ~Sound(lin[l].head)
        BY <1>1, <1>4, MissedFacts DEF ReconcileConfirmed, Settles, RowsSettled
  <2>3. RowInv' /\ LineageInv' /\ \A k \in TxId \ {l} : lin'[k] = lin[k]
        BY <1>0, <1>1, <1>4, <2>1, <2>2, WonStep
  <2>4. QED BY <1>0, <1>1, <2>3, HandledStep
<1>5. ASSUME NEW s \in TxId, ReconcileInMempool(l, s), RowsInflight(Members(l), l),
             Carried(l, s) # {}, lin' # Restored(l)
      PROVE  Inv'
  <2> DEFINE C == Carried(l, s)
             h == [r \in Request |-> IF r \in C THEN lin[l].hist[r] ELSE {}]
             kept == [lin[l] EXCEPT !.head = s, !.misses = 0, !.hist = h]
             mid == ToSurviving(row, C, s)
  <2>1. row' = ToPending(mid, Members(l) \ C, 0) /\ lin' = [lin EXCEPT ![l] = kept]
        BY <1>5 DEF ReconcileInMempool, Settles, RowsAdopted, FundingLost
  <2>2. mid \in [Request -> Row] /\ C \in SUBSET Members(l)
        BY ToSurvivingRows, MembersType DEF Inv, TypeOK
  <2>3. LineageOK(l, kept)
    <3>1. lin[l] \in Lineage
          BY DEF Inv, TypeOK
    <3> HIDE DEF h, C
    <3>2. /\ kept.head = s /\ kept.misses = 0 /\ kept.hist = h
          /\ kept.winner = lin[l].winner /\ kept.all = lin[l].all
          BY <3>1 DEF Lineage
    <3>3. \A r \in Request : h[r] # {} => h[r] = lin[l].hist[r]
          BY DEF h
    <3>4. s \in lin[l].all /\ s # 0
          BY <1>5, TxIdFacts DEF ReconcileInMempool, Settles, RowsAdopted, FundingLost
    <3>5. /\ lin[l].winner = 0 /\ ~Sound(lin[l].head) /\ LineageOK(l, lin[l])
          BY <1>1, MissedFacts
    <3> HIDE DEF kept
    <3>6. QED BY <3>2, <3>3, <3>4, <3>5 DEF LineageOK
  <2>4. mid = ToSurviving(row, C, s)
        OBVIOUS
  <2> HIDE DEF kept, mid
  <2>5. QED BY <1>0, <1>1, <1>5, <2>1, <2>2, <2>3, <2>4, KeptStep
<1>6. ASSUME NEW s \in TxId, ReconcileInMempool(l, s), RowsInflight(Members(l), l),
             Carried(l, s) # {}, lin' = Restored(l)
      PROVE  Inv'
  <2> DEFINE C == Carried(l, s)
             L == [lin[l] EXCEPT !.misses = 0]
             mid == ToSurviving(row, C, s)
  <2>1. row' = ToPending(mid, Members(l) \ C, 0)
        BY <1>6 DEF ReconcileInMempool, Settles, RowsAdopted, FundingLost
  <2>2. mid \in [Request -> Row] /\ C \in SUBSET Members(l)
        BY ToSurvivingRows, MembersType DEF Inv, TypeOK
  <2>3. LineageOK(l, L)
        BY <1>1, MissedFacts DEF LineageOK, Inv, TypeOK, Lineage
  <2>4. lin' = [lin EXCEPT ![l] = L]
        BY <1>6 DEF Restored, Inv, TypeOK
  <2>5. mid = ToSurviving(row, C, s)
        OBVIOUS
  <2> HIDE DEF L, mid
  <2>6. QED BY <1>0, <1>1, <1>6, <2>1, <2>2, <2>3, <2>4, <2>5, KeptStep
<1>7. \/ row' = row /\ lin' = Restored(l)
      \/ ReconcileNoSurvivor(l) /\ RowsInflight(Members(l), l)
      \/ \E s \in TxId : /\ ReconcileConfirmed(l, s) /\ RowsInflight(Members(l), l)
                         /\ Carried(l, s) # {}
      \/ \E s \in TxId : /\ ReconcileInMempool(l, s) /\ RowsInflight(Members(l), l)
                         /\ Carried(l, s) # {}
      BY DEF ReconcileNoSurvivor, ReconcileFails, ReconcileConfirmed, ReconcileInMempool,
         Settles, RowsSettled, RowsAdopted, FundingLost
<1>8. QED BY <1>2, <1>3, <1>4, <1>5, <1>6, <1>7
-----------------------------------------------------------------------------
(* From the record of a batch to its outcome.                              *)

\* A batch that cannot be built leaves its lineage as it was.
LEMMA BuildFailsStep ==
  ASSUME Inv, NEW act \in plan, BuildFails(act)
  PROVE  Inv'
<1>1. TypeOK'
      BY ExecutingTypeOK DEF Inv, Executing
<1>2. /\ UNCHANGED <<chainVars, row, lin, sending, at, todo>>
      /\ plan' \subseteq plan
      BY DEF BuildFails, memVars, Executes, CannotBuild
<1>3. PhaseInv'
      BY <1>2 DEF Inv, PhaseInv
<1>4. QED BY <1>1, <1>2, <1>3, LookStep DEF Inv, SendingInv

\* persist_broadcast: a fresh transaction is in no row, in no lineage and not
\* on the network, and pending rows have no sound transaction.
LEMMA PersistStep ==
  ASSUME Inv, NEW act \in plan, NEW t \in TxId, PersistBroadcast(act, t)
  PROVE  Inv'
<1>1. TypeOK'
      BY ExecutingTypeOK DEF Inv, Executing
<1>2. /\ at = "execute" /\ sending = NoBatch /\ content[t] = {}
      /\ plan' \subseteq plan /\ UNCHANGED <<chain, slipped, unreverted, lin, at, todo>>
      /\ act.reqs # {} /\ act.reqs \in SUBSET Request
      BY DEF PersistBroadcast, Fresh, memVars, Inv, SendingInv, TypeOK, Action, Executes
<1>3. PhaseInv'
      BY <1>2 DEF Inv, PhaseInv
<1>4. CASE ~RowsPending(act.reqs)
  <2>1. UNCHANGED <<content, row, sending>>
        BY <1>4 DEF PersistBroadcast, Executes
  <2>2. QED BY <1>1, <1>2, <1>3, <2>1, LookStep DEF Inv, SendingInv, chainVars
<1>5. CASE RowsPending(act.reqs)
  <2> DEFINE R == act.reqs
  <2>1. /\ row' = ToInflight(row, R, t, t)
        /\ content' = [content EXCEPT ![t] = R]
        /\ sending' = [tx |-> t, reply |-> "none"]
        BY <1>5 DEF PersistBroadcast, Executes
  <2>2. /\ content'[t] = R /\ \A u \in TxId \ {t} : content'[u] = content[u]
        /\ sending'.tx = t /\ sending'.reply = "none" /\ sending.tx = 0 /\ t # 0
        BY <1>2, <2>1, TxIdFacts DEF Inv, TypeOK, NoBatch
  <2>3. /\ \A r \in Request \ R : row'[r] = row[r]
        /\ \A r \in Request \cap R :
             /\ row'[r].status = "inflight" /\ row'[r].lineage = t /\ row'[r].head = t
             /\ row'[r].history = row[r].history \cup {t}
    <3>1. row \in [Request -> Row]
          BY DEF Inv, TypeOK
    <3> DEFINE new == ToInflight(row, R, t, t)
    <3>2. new = ToInflight(row, R, t, t)
          OBVIOUS
    <3> HIDE DEF R, new
    <3>3. /\ \A r \in Request \ R : new[r] = row[r]
          /\ \A r \in Request \cap R :
               /\ new[r].status = "inflight" /\ new[r].lineage = t /\ new[r].head = t
               /\ new[r].history = row[r].history \cup {t}
          BY <3>1, <3>2 DEF ToInflight, Row
    <3>4. QED BY <2>1, <3>2, <3>3
  <2>4. chain[t] = "none"
        BY <1>2 DEF Inv, NetworkInv
  <2>5. NetworkInv'
        BY <1>2, <2>2, <2>4 DEF Inv, NetworkInv
  <2>6. \A r \in Request : RowOK(r, row[r])
        BY DEF Inv, RowInv
  <2>7. \A r \in R : \A u \in TxId : ~(Pays(u, r) /\ Sound(u))
        BY <1>2, <1>5, <2>6 DEF RowsPending, RowOK
  <2>8. \A u \in TxId : \A r \in Request :
          /\ Sound(u)' <=> Sound(u)
          /\ Pays(u, r)' <=> Pays(u, r) \/ (u = t /\ r \in R)
        BY <1>2, <2>2 DEF Sound, Pays
  <2>9. ~Sound(t)
        BY <2>4 DEF Sound
  <2>10. RowInv'
    <3> SUFFICES ASSUME NEW r \in Request PROVE RowOK(r, row[r])'
        BY DEF RowInv
    <3>1. /\ row[r].history \in SUBSET TxId /\ RowOK(r, row[r])
          /\ row[r].head # 0 => row[r].head \in TxId
          /\ row[r].lineage # 0 => row[r].lineage \in TxId
          BY <2>6, TxIdFacts DEF Inv, TypeOK, Row
    <3>2. CASE r \in R
      <4>1. \A u \in TxId : ~(Pays(u, r)' /\ Sound(u)')
            BY <2>7, <2>8, <2>9, <3>2
      <4>2. \A u \in row'[r].history : Pays(u, r)'
            BY <2>3, <2>8, <3>1, <3>2 DEF RowOK
      <4>3. Pays(t, r)'
            BY <2>8, <3>2
      <4>4. /\ row'[r].status = "inflight" /\ row'[r].lineage = t
            BY <2>3, <3>2
      <4>5. QED BY <2>2, <4>1, <4>2, <4>3, <4>4 DEF RowOK
    <3>3. CASE r \notin R
      <4>1. row'[r] = row[r]
            BY <2>3, <3>3
      <4>2. QED BY <1>2, <2>8, <2>9, <3>1, <3>3, <4>1 DEF RowOK
    <3>4. QED BY <3>2, <3>3
  <2>11. LineageInv'
    <3> SUFFICES ASSUME NEW l \in TxId PROVE LineageOK(l, lin[l])'
        BY DEF LineageInv
    <3>1. LineageOK(l, lin[l]) /\ lin[l] \in Lineage /\ lin'[l] = lin[l]
          BY <1>2 DEF Inv, LineageInv, TypeOK
    <3>2. \A u \in lin[l].all : u \in TxId /\ u # t
          BY <1>2, <3>1 DEF LineageOK, Lineage
    <3>3. /\ lin[l].head # 0 => lin[l].head \in TxId
          /\ lin[l].winner # 0 => lin[l].winner \in TxId
          BY <3>1, TxIdFacts DEF Lineage
    <3>4. (\A u \in lin[l].all : content[u] # {})'
          BY <2>2, <3>1, <3>2 DEF LineageOK
    <3>5. (/\ lin[l].misses > 0 => lin[l].head # 0 /\ ~Sound(lin[l].head)
           /\ lin[l].winner # 0 =>
                /\ chain[lin[l].winner] = "mined" /\ lin[l].head # 0
                /\ lin[l].winner # lin[l].head => ~Sound(lin[l].head))'
          BY <1>2, <3>1 DEF LineageOK, Sound
    <3>6. (\A r \in Request : \A u \in lin[l].hist[r] : u \in lin[l].all /\ Pays(u, r))'
          BY <2>8, <3>1, <3>2 DEF LineageOK
    <3>7. (\A r \in Request : lin[l].hist[r] # {} =>
             /\ Pays(l, r)
             /\ row[r].status = "inflight" /\ row[r].lineage = l =>
                  \A u \in TxId : Pays(u, r) /\ Sound(u) =>
                    u = lin[l].head /\ u \in lin[l].hist[r])'
      <4> SUFFICES ASSUME NEW r \in Request, lin[l].hist[r] # {}
                   PROVE  /\ Pays(l, r)'
                          /\ row'[r].status = "inflight" /\ row'[r].lineage = l =>
                               \A u \in TxId : Pays(u, r)' /\ Sound(u)' =>
                                 u = lin[l].head /\ u \in lin[l].hist[r]
          BY <3>1
      <4>1. Pays(l, r) /\ l # t
            BY <1>2, <3>1 DEF LineageOK, Pays
      <4>2. CASE r \in R
            BY <2>3, <2>8, <4>1, <4>2
      <4>3. CASE r \notin R
            BY <2>3, <2>8, <3>1, <4>1, <4>3 DEF LineageOK
      <4>4. QED BY <4>2, <4>3
    <3>8. (lin[l].head # 0 => lin[l].head \in lin[l].all)'
          BY <3>1 DEF LineageOK
    <3>9. QED BY <3>4, <3>5, <3>6, <3>7, <3>8 DEF LineageOK
  <2>12. SendingInv'
    <3>1. Members(t)' = {}
      <4>1. \A r \in Request : lin[t].hist[r] = {}
            BY <1>2 DEF Inv, LineageInv, LineageOK, Pays
      <4>2. QED BY <1>2, <4>1 DEF Members
    <3>2. \A r \in R : /\ row'[r].status = "inflight" /\ row'[r].lineage = t
                       /\ row'[r].head = t /\ t \in row'[r].history
          BY <1>2, <2>3
    <3>3. \A a \in plan' : a.reqs # {}
          BY <1>2 DEF Inv, SendingInv
    <3>4. \A l \in TxId : t \notin lin'[l].all
          BY <1>2 DEF Inv, LineageInv, LineageOK
    <3>5. QED BY <1>2, <2>2, <2>4, <3>1, <3>2, <3>3, <3>4 DEF SendingInv
  <2>13. QED BY <1>1, <1>3, <2>5, <2>10, <2>11, <2>12 DEF Inv
<1>6. QED BY <1>4, <1>5

\* The node refuses, or takes the transaction without saying so.
LEMMA UnheardStep ==
  ASSUME Inv, NodeRejects \/ NodeAcceptsUnheard
  PROVE  Inv'
<1> DEFINE t == sending.tx
<1>1. TypeOK'
      BY ExecutingTypeOK DEF Inv, Executing
<1>2. /\ t \in TxId /\ chain[t] = "none"
      /\ UNCHANGED <<content, row, lin, at, todo, plan>>
      /\ sending'.tx = t /\ sending'.reply = "rejected"
      BY TxIdFacts DEF NodeRejects, NodeAcceptsUnheard, Sent, Answer, memVars, chainVars, Inv,
         TypeOK, SendingInv
<1>0. /\ t # 0 /\ content[t] # {}
       /\ Members(t) = {} /\ \A l \in TxId : t \notin lin[l].all
       /\ \A r \in content[t] : /\ row[r].status = "inflight" /\ row[r].lineage = t
                                /\ row[r].head = t /\ t \in row[r].history
       /\ at = "execute" /\ \A a \in plan : a.reqs # {}
      BY <1>2, TxIdFacts DEF Inv, SendingInv
<1>3. \/ UNCHANGED <<chain, slipped>>
      \/ chain' = [chain EXCEPT ![t] = "mempool"] /\ slipped' = slipped \cup {t}
      BY DEF NodeRejects, NodeAcceptsUnheard, chainVars
<1>4. Quiet
      BY <1>2, <1>3 DEF Quiet, Sound, Inv, TypeOK
<1>5. ~Sound(t)'
      BY <1>2, <1>3 DEF Sound
<1>6. RowInv' /\ LineageInv'
      BY <1>1, <1>2, <1>4, QuietInv
<1>7. NetworkInv'
  <2> SUFFICES ASSUME NEW u \in TxId
               PROVE  /\ chain'[u] = "gone" => u \in slipped'
                      /\ chain'[u] # "none" => content'[u] # {}
      BY DEF NetworkInv
  <2>1. /\ chain[u] = "gone" => u \in slipped
        /\ chain[u] # "none" => content[u] # {}
        BY DEF Inv, NetworkInv
  <2>2. u # t => chain'[u] = chain[u]
        BY <1>3 DEF Inv, TypeOK
  <2>3. u = t => chain'[u] \in {"none", "mempool"}
        BY <1>2, <1>3 DEF Inv, TypeOK
  <2>4. QED BY <1>2, <1>0, <1>3, <2>1, <2>2, <2>3
<1>8. SendingInv'
      BY <1>2, <1>0, <1>5 DEF SendingInv, Members, Sound
<1>9. PhaseInv'
      BY <1>2 DEF Inv, PhaseInv
<1>10. QED BY <1>1, <1>6, <1>7, <1>8, <1>9 DEF Inv

\* The node takes the transaction: its requests' rows have it as their head,
\* no lineage has it yet.
LEMMA AcceptStep ==
  ASSUME Inv, NodeAccepts
  PROVE  Inv'
<1> DEFINE t == sending.tx
<1>1. TypeOK'
      BY ExecutingTypeOK DEF Inv, Executing
<1>2. /\ t \in TxId /\ t # 0 /\ chain[t] = "none" /\ content[t] # {}
      /\ UNCHANGED <<content, row, lin, at, todo, plan>>
      /\ sending'.tx = t /\ sending'.reply = "accepted"
      BY TxIdFacts DEF NodeAccepts, Sent, Answer, memVars, Inv, TypeOK, SendingInv
<1>3. \A u \in TxId :
        /\ u # t => /\ Sound(u)' => Sound(u)
                    /\ chain'[u] = "none" => chain[u] = "none"
                    /\ chain'[u] # "none" => chain[u] # "none"
        /\ chain[u] = "mined" => chain'[u] = "mined"
        /\ chain'[u] = "gone" => u \in slipped'
  <2> TAKE u \in TxId
  <2>1. /\ chain'[u] = IF u = t THEN "mempool" ELSE IF u \in Rivals(t) THEN "gone" ELSE chain[u]
        /\ slipped' = slipped \cup Rivals(t)
        /\ \A v \in Rivals(t) : chain[v] = "mempool"
        BY DEF NodeAccepts
  <2>2. chain[u] = "gone" => u \in slipped
        BY DEF Inv, NetworkInv
  <2>3. QED BY <1>2, <2>1, <2>2 DEF Sound
<1>4. /\ Members(t) = {} /\ \A l \in TxId : t \notin lin[l].all
      /\ \A r \in content[t] : /\ row[r].status = "inflight" /\ row[r].lineage = t
                               /\ row[r].head = t /\ t \in row[r].history
      BY <1>2 DEF Inv, SendingInv
<1>5. NetworkInv'
      BY <1>2, <1>3 DEF Inv, NetworkInv
<1>6. RowInv'
  <2> SUFFICES ASSUME NEW r \in Request PROVE RowOK(r, row[r])'
      BY DEF RowInv
  <2>1. RowOK(r, row[r]) /\ (row[r].head # 0 => row[r].head \in TxId)
        BY TxIdFacts DEF Inv, RowInv, TypeOK, Row
  <2>2. QED BY <1>2, <1>3, <1>4, <2>1 DEF RowOK, Pays
<1>7. LineageInv'
  <2> SUFFICES ASSUME NEW l \in TxId PROVE LineageOK(l, lin[l])'
      BY DEF LineageInv
  <2>1. /\ LineageOK(l, lin[l]) /\ lin'[l] = lin[l]
        /\ lin[l].head # 0 => lin[l].head \in TxId
        /\ lin[l].winner # 0 => lin[l].winner \in TxId
        BY <1>2, TxIdFacts DEF Inv, LineageInv, TypeOK, Lineage
  <2>2. lin[l].head # t
        BY <1>2, <1>4, <2>1 DEF LineageOK
  <2>3. (/\ lin[l].misses > 0 => lin[l].head # 0 /\ ~Sound(lin[l].head)
         /\ lin[l].winner # 0 =>
              /\ chain[lin[l].winner] = "mined" /\ lin[l].head # 0
              /\ lin[l].winner # lin[l].head => ~Sound(lin[l].head))'
        BY <1>2, <1>3, <2>1, <2>2 DEF LineageOK
  <2>4. \A r \in Request : lin[l].hist[r] # {} =>
          /\ Pays(l, r)'
          /\ row'[r].status = "inflight" /\ row'[r].lineage = l =>
               \A u \in TxId : Pays(u, r)' /\ Sound(u)' =>
                 u = lin[l].head /\ u \in lin[l].hist[r]
    <3> SUFFICES ASSUME NEW r \in Request, lin[l].hist[r] # {}
                 PROVE  /\ Pays(l, r)'
                        /\ row'[r].status = "inflight" /\ row'[r].lineage = l =>
                             \A u \in TxId : Pays(u, r)' /\ Sound(u)' =>
                               u = lin[l].head /\ u \in lin[l].hist[r]
        OBVIOUS
    <3>1. l # t
          BY <1>4 DEF Members
    <3>2. row[r].lineage = l => ~Pays(t, r)
          BY <1>4, <3>1 DEF Pays
    <3>3. QED BY <1>2, <1>3, <2>1, <3>2 DEF LineageOK, Pays
  <2>5. QED BY <1>2, <2>1, <2>3, <2>4 DEF LineageOK, Pays
<1>8. SendingInv'
      BY <1>2, <1>4 DEF Inv, SendingInv, Members
<1>9. PhaseInv'
      BY <1>2 DEF Inv, PhaseInv
<1>10. QED BY <1>1, <1>5, <1>6, <1>7, <1>8, <1>9 DEF Inv

\* The accepted batch becomes a lineage, whose head is its requests' only sound
\* transaction.
LEMMA AcceptedStep ==
  ASSUME Inv, BatchAccepted
  PROVE  Inv'
<1> DEFINE t == sending.tx
           h == [r \in Request |-> IF r \in content[t] THEN {t} ELSE {}]
           L == [head |-> t, all |-> {t}, hist |-> h, winner |-> 0, misses |-> 0]
<1>1. TypeOK'
      BY ExecutingTypeOK DEF Inv, Executing
<1>2. /\ t \in TxId /\ t # 0 /\ content[t] # {} /\ at = "execute"
      /\ UNCHANGED <<chainVars, row, at, todo, plan>> /\ sending' = NoBatch
      /\ lin' = [lin EXCEPT ![t] = L]
      BY TxIdFacts DEF BatchAccepted, Inv, TypeOK, SendingInv, NewLineage
<1>3. LineageOK(t, L)
  <2>1. \A r \in Request : \A u \in TxId : Pays(t, r) /\ Pays(u, r) /\ Sound(u) => u = t
        BY <1>2 DEF Inv, SendingInv, RowInv, RowOK, Pays
  <2>2. \A r \in Request : /\ r \in content[t] => h[r] = {t}
                           /\ r \notin content[t] => h[r] = {}
        OBVIOUS
  <2>3. /\ L.head = t /\ L.all = {t} /\ L.hist = h /\ L.winner = 0 /\ L.misses = 0
        OBVIOUS
  <2> HIDE DEF h, L
  <2>4. QED BY <1>2, <2>1, <2>2, <2>3 DEF LineageOK, Pays
<1> HIDE DEF L
<1>4. \A l \in TxId : LineageOK(l, lin'[l])
      BY <1>2, <1>3 DEF Inv, LineageInv, TypeOK
<1>5. LineageInv'
      BY <1>1, <1>2, <1>4, StillQuiet, LineagesStep DEF chainVars
<1>6. RowInv'
      BY <1>1, <1>2, StillQuiet, RowsStep DEF Inv, RowInv, chainVars
<1>7. NetworkInv'
      BY <1>2 DEF Inv, NetworkInv, chainVars
<1>8. SendingInv'
      BY <1>2 DEF Inv, SendingInv, NoBatch
<1>9. PhaseInv'
      BY <1>2 DEF PhaseInv
<1>10. QED BY <1>1, <1>5, <1>6, <1>7, <1>8, <1>9 DEF Inv

\* revert_broadcast: what is forgotten is in no lineage and in no row but those
\* that are put back, and these have no sound transaction.
LEMMA RejectedStep ==
  ASSUME Inv, BatchRejected
  PROVE  Inv'
<1> DEFINE t == sending.tx
<1>1. TypeOK'
      BY ExecutingTypeOK DEF Inv, Executing
<1>2. /\ t \in TxId /\ t # 0 /\ at = "execute" /\ ~Sound(t)
      /\ UNCHANGED <<chain, slipped, lin, at, todo, plan>> /\ sending' = NoBatch
      /\ row' = Reverted(row, content[t], t)
      /\ content' = [content EXCEPT ![t] = IF chain[t] = "none" THEN {} ELSE @]
      BY TxIdFacts DEF BatchRejected, memVars, Inv, TypeOK, SendingInv
<1>3. /\ \A r \in Request \ content[t] : row'[r] = row[r]
      /\ \A r \in Request \cap content[t] :
           row'[r].status = "pending" /\ row'[r].history = row[r].history \ {t}
  <2> DEFINE R == content[t]
             new == Reverted(row, R, t)
  <2>1. row \in [Request -> Row] /\ new = Reverted(row, R, t)
        BY DEF Inv, TypeOK
  <2> HIDE DEF R, new
  <2>2. /\ \A r \in Request \ R : new[r] = row[r]
        /\ \A r \in Request \cap R :
             new[r].status = "pending" /\ new[r].history = row[r].history \ {t}
        BY <2>1 DEF Reverted, Row
  <2>3. QED BY <1>2, <2>1, <2>2 DEF R
<1>4. /\ \A u \in TxId \ {t} : content'[u] = content[u]
      /\ content'[t] \subseteq content[t]
      /\ chain[t] # "none" => content'[t] = content[t]
      BY <1>2 DEF Inv, TypeOK
<1>5. \A u \in TxId : \A r \in Request :
        /\ Sound(u)' <=> Sound(u)
        /\ Pays(u, r)' => Pays(u, r)
        /\ Pays(u, r) /\ u # t => Pays(u, r)'
      BY <1>2, <1>4 DEF Sound, Pays
<1>6. NetworkInv'
      BY <1>2, <1>4 DEF Inv, NetworkInv
<1>7. RowInv'
  <2> SUFFICES ASSUME NEW r \in Request PROVE RowOK(r, row[r])'
      BY DEF RowInv
  <2>1. /\ row[r].history \in SUBSET TxId /\ RowOK(r, row[r])
        /\ row[r].head # 0 => row[r].head \in TxId
        /\ row[r].lineage # 0 => row[r].lineage \in TxId
        BY TxIdFacts DEF Inv, RowInv, TypeOK, Row
  <2>2. CASE r \in content[t]
    <3>1. row[r].head = t
          BY <1>2, <2>2 DEF Inv, SendingInv
    <3>2. \A u \in TxId : ~(Pays(u, r)' /\ Sound(u)')
          BY <1>2, <1>5, <2>1, <3>1 DEF RowOK
    <3>3. \A u \in row'[r].history : Pays(u, r)'
          BY <1>3, <1>5, <2>1, <2>2 DEF RowOK
    <3>4. QED BY <1>3, <2>2, <3>2, <3>3 DEF RowOK
  <2>3. CASE r \notin content[t]
    <3>1. row'[r] = row[r] /\ ~Pays(t, r)
          BY <1>3, <2>3 DEF Pays
    <3>2. QED BY <1>2, <1>5, <2>1, <3>1 DEF RowOK
  <2>4. QED BY <2>2, <2>3
<1>8. LineageInv'
  <2> SUFFICES ASSUME NEW l \in TxId PROVE LineageOK(l, lin[l])'
      BY DEF LineageInv
  <2>1. /\ LineageOK(l, lin[l]) /\ lin'[l] = lin[l] /\ lin[l] \in Lineage
        /\ lin[l].all \subseteq TxId /\ t \notin lin[l].all
        BY <1>2, TxIdFacts DEF Inv, LineageInv, TypeOK, Lineage, SendingInv
  <2>2. \A r \in Request : lin[l].hist[r] # {} => l # t
        BY <1>2 DEF Inv, SendingInv, Members
  <2>3. (/\ lin[l].misses > 0 => lin[l].head # 0 /\ ~Sound(lin[l].head)
         /\ lin[l].winner # 0 =>
              /\ chain[lin[l].winner] = "mined" /\ lin[l].head # 0
              /\ lin[l].winner # lin[l].head => ~Sound(lin[l].head))'
        BY <1>2, <2>1 DEF LineageOK, Sound
  <2>4. (\A u \in lin[l].all : content[u] # {})'
        BY <1>4, <2>1 DEF LineageOK
  <2>5. (\A r \in Request : \A u \in lin[l].hist[r] : u \in lin[l].all /\ Pays(u, r))'
        BY <1>5, <2>1 DEF LineageOK
  <2>6. \A r \in Request : lin[l].hist[r] # {} =>
          /\ Pays(l, r)'
          /\ row'[r].status = "inflight" /\ row'[r].lineage = l =>
               \A u \in TxId : Pays(u, r)' /\ Sound(u)' =>
                 u = lin[l].head /\ u \in lin[l].hist[r]
        BY <1>3, <1>5, <2>1, <2>2 DEF LineageOK
  <2>7. QED BY <2>1, <2>3, <2>4, <2>5, <2>6 DEF LineageOK
<1>9. SendingInv'
      BY <1>2 DEF Inv, SendingInv, NoBatch
<1>10. PhaseInv'
      BY <1>2 DEF PhaseInv
<1>11. QED BY <1>1, <1>6, <1>7, <1>8, <1>9, <1>10 DEF Inv

\* The rows keep what they have, which is all that is known of the batch.
LEMMA RevertFailsStep ==
  ASSUME Inv, RevertFails
  PROVE  Inv'
<1>1. TypeOK'
      BY ExecutingTypeOK DEF Inv, Executing
<1>2. /\ UNCHANGED <<chain, content, slipped, row, lin, at, todo, plan>>
      /\ sending' = NoBatch
      BY DEF RevertFails, memVars
<1>3. RowInv' /\ LineageInv'
      BY <1>1, <1>2, StillQuiet, QuietInv
<1>4. NetworkInv' /\ SendingInv' /\ PhaseInv'
      BY <1>2 DEF Inv, NetworkInv, SendingInv, PhaseInv, NoBatch
<1>5. QED BY <1>1, <1>3, <1>4 DEF Inv
-----------------------------------------------------------------------------
(* Death and return.                                                       *)

\* What the process held is gone; the rows stay.
LEMMA CrashStep == Inv /\ Crash => Inv'
<1> SUFFICES ASSUME Inv, Crash PROVE Inv'
    OBVIOUS
<1>1. TypeOK'
      BY CrashTypeOK DEF Inv
<1>2. /\ UNCHANGED <<chainVars, row>> /\ lin' = [l \in TxId |-> NoLineage]
      /\ todo' = {} /\ plan' = {} /\ sending' = NoBatch
      BY DEF Crash
<1>3. \A l \in TxId : LineageOK(l, lin'[l])
      BY <1>2, NoLineageOK
<1>4. LineageInv'
      BY <1>1, <1>2, <1>3, StillQuiet, LineagesStep DEF chainVars
<1>5. RowInv'
      BY <1>1, <1>2, StillQuiet, RowsStep DEF Inv, RowInv, chainVars
<1>6. NetworkInv' /\ SendingInv' /\ PhaseInv'
      BY <1>2 DEF Inv, NetworkInv, SendingInv, PhaseInv, NoBatch, chainVars
<1>7. QED BY <1>1, <1>4, <1>5, <1>6 DEF Inv

\* What restore builds from the rows of a lineage is good, for their common
\* head is the sound transaction of each of them, if any is sound.
LEMMA RestoredOK ==
  ASSUME Inv, Restorable, NEW l \in TxId
  PROVE  /\ LineageOK(l, RestoredLineage(l))
         /\ Inflight(l) # {} =>
              RestoredLineage(l).head # 0 /\ RestoredLineage(l).winner = 0
<1> DEFINE R == Inflight(l)
           q == CHOOSE r \in R : TRUE
           L == RestoredLineage(l)
<1>1. CASE R = {}
      BY <1>1, NoLineageOK DEF RestoredLineage
<1>2. CASE R # {}
  <2>1. q \in R /\ \A r \in R : r \in Request /\ row[r].status = "inflight" /\ row[r].lineage = l
        BY <1>2 DEF Inflight
  <2>2. \A r \in R : /\ row[r].head \in row[r].history /\ row[r].head = row[q].head
                     /\ RowOK(r, row[r]) /\ row[r].history \subseteq TxId
    <3> TAKE r \in R
    <3>1. /\ row[r].head \in row[r].history
          /\ \A p \in Inflight(l) : row[p].head = row[r].head
          BY <2>1 DEF Restorable
    <3>2. QED BY <2>1, <3>1 DEF Inv, RowInv, TypeOK, Row
  <2>3. /\ L.head = row[q].head /\ L.all = UNION {row[r].history : r \in R}
        /\ L.winner = 0 /\ L.misses = 0
        /\ \A r \in Request : /\ r \in R => L.hist[r] = row[r].history
                              /\ r \notin R => L.hist[r] = {}
        BY <1>2 DEF RestoredLineage
  <2> HIDE DEF R, q, L
  <2>4. \A r \in R : \A u \in row[r].history : Pays(u, r) /\ u \in L.all /\ content[u] # {}
        BY <2>2, <2>3 DEF RowOK, Pays
  <2>5. \A u \in L.all : content[u] # {}
        BY <2>3, <2>4
  <2>6. \A r \in R : /\ Pays(l, r)
                     /\ \A t \in TxId : Pays(t, r) /\ Sound(t) => t = L.head /\ t \in L.hist[r]
        BY <2>1, <2>2, <2>3 DEF RowOK
  <2>7. L.head \in L.all /\ L.head # 0
        BY <2>1, <2>2, <2>3, <2>4, TxIdFacts
  <2>8. LineageOK(l, L)
        BY <2>3, <2>4, <2>5, <2>6, <2>7 DEF LineageOK
  <2>9. QED BY <2>3, <2>7, <2>8 DEF L
<1>3. QED BY <1>1, <1>2

\* A restart keeps Inv, for the rows determine the lineages.
LEMMA RestoreStep == Inv /\ Restore => Inv'
<1> SUFFICES ASSUME Inv, Restore PROVE Inv'
    OBVIOUS
<1>1. TypeOK'
      BY RecoveringTypeOK DEF Inv, Recovering
<1>2. /\ UNCHANGED <<chainVars, row, plan, sending>>
      /\ lin' = [l \in TxId |-> RestoredLineage(l)]
      /\ todo' = {l \in TxId : Inflight(l) # {}}
      /\ at = "down" /\ at' = "recover" /\ Restorable
      BY DEF Restore
<1>3. \A l \in TxId : LineageOK(l, lin'[l])
      BY <1>2, RestoredOK
<1>4. LineageInv'
      BY <1>1, <1>2, <1>3, StillQuiet, LineagesStep DEF chainVars
<1>5. RowInv'
      BY <1>1, <1>2, StillQuiet, RowsStep DEF Inv, RowInv, chainVars
<1>6. NetworkInv' /\ SendingInv'
      BY <1>2 DEF Inv, NetworkInv, SendingInv, chainVars
<1>7. PhaseInv'
      BY <1>2, RestoredOK DEF PhaseInv
<1>8. QED BY <1>1, <1>4, <1>5, <1>6, <1>7 DEF Inv

\* Every step of the runner keeps Inv.
LEMMA RunnerStep == Inv /\ Runner => Inv'
BY PhasesStep, FailedLooksStep, LookedStep, ConfirmStep, ReconcileStep, BuildFailsStep,
   PersistStep, UnheardStep, AcceptStep, AcceptedStep, RejectedStep, RevertFailsStep,
   RestoreStep
   DEF Runner, Confirming, Observing, Executing, Recovering

\* A stuttering step does.
LEMMA StutterStep == Inv /\ UNCHANGED vars => Inv'
<1> SUFFICES ASSUME Inv, UNCHANGED vars PROVE Inv'
    OBVIOUS
<1>1. TypeOK'
      BY StutterTypeOK DEF Inv
<1>2. UNCHANGED <<chainVars, row, lin, sending, plan, todo, at>>
      BY DEF vars, memVars, tickVars
<1>3. PhaseInv'
      BY <1>2 DEF Inv, PhaseInv
<1>4. QED BY <1>1, <1>2, <1>3, LookStep DEF Inv, SendingInv

\* The inductive invariant holds throughout.
THEOREM InvHolds == Spec => []Inv
<1>1. Inv /\ [Next]_vars => Inv'
      BY NetworkStep, RequestsStep, RunnerStep, CrashStep, StutterStep DEF Next
<1>2. QED BY InitInv, <1>1, PTL DEF Spec
-----------------------------------------------------------------------------
(* What follows.                                                           *)

\* A request is recorded as confirmed only when a mined transaction pays it,
\* whatever mixture of transactions its lineage was rebuilt from.
THEOREM ConfirmationCorrect == Spec => []ConfirmedMeansMined
<1>1. Inv => ConfirmedMeansMined
      BY DEF Inv, RowInv, RowOK, Pays, ConfirmedMeansMined
<1>2. QED BY InvHolds, <1>1, PTL

\* No crash, at whatever point, and none of the other faults makes the wallet pay
\* a request by two mined transactions of which the network lost neither.
THEOREM SinglePayment == Spec => []PaidOnce
<1>1. Inv => PaidOnce
  <2> SUFFICES ASSUME Inv, NEW r \in Request
               PROVE  Cardinality({t \in TxId \ slipped :
                                     chain[t] = "mined" /\ r \in content[t]}) <= 1
      BY DEF PaidOnce
  <2> DEFINE S == {t \in TxId \ slipped : chain[t] = "mined" /\ r \in content[t]}
  <2>1. \A t \in S : t = row[r].head
        BY DEF Inv, RowInv, RowOK, Pays, Sound
  <2>2. S = {} \/ S = {row[r].head}
        BY <2>1
  <2>3. Cardinality({}) = 0 /\ Cardinality({row[r].head}) = 1
        BY FS_EmptySet, FS_Singleton
  <2>4. Cardinality(S) \in {0, 1}
        BY <2>2, <2>3
  <2> HIDE DEF S
  <2>5. Cardinality(S) <= 1
        BY <2>4
  <2>6. QED BY <2>5 DEF S
<1>2. QED BY InvHolds, <1>1, PTL
-----------------------------------------------------------------------------
(* The wallet keeps what it promises (PaymentPromise). The abstract steps,   *)
(* told in the terms of the wallet: what a step does to the status of a      *)
(* request, and which mined transactions pay it.                             *)

\* A transaction that is mined stays mined, keeps what it pays, and was lost before
\* or never; and none is mined by this step.
SameMined ==
  \A t \in TxId :
    /\ chain'[t] = "mined" <=> chain[t] = "mined"
    /\ chain[t] = "mined" => content'[t] = content[t] /\ (t \in slipped' <=> t \in slipped)

NoKept(r) == \A t \in TxId : ~(Pays(t, r) /\ Sound(t))

\* Then the payments of every request are what they were.
LEMMA SamePayments ==
  ASSUME SameMined
  PROVE  /\ [r \in Request |-> MinedFor(r, TxId \ slipped)]'
              = [r \in Request |-> MinedFor(r, TxId \ slipped)]
         /\ [r \in Request |-> MinedFor(r, TxId \cap slipped)]'
              = [r \in Request |-> MinedFor(r, TxId \cap slipped)]
<1>1. \A r \in Request : MinedFor(r, TxId \ slipped)' = MinedFor(r, TxId \ slipped)
      BY DEF SameMined, MinedFor
<1>2. \A r \in Request : MinedFor(r, TxId \cap slipped)' = MinedFor(r, TxId \cap slipped)
      BY DEF SameMined, MinedFor
<1> QED BY <1>1, <1>2

\* A request no sound transaction pays has no kept payment.
LEMMA NoKeptUnpaid ==
  ASSUME NEW R \in SUBSET Request, \A r \in R : NoKept(r)
  PROVE  Promise!Unpaid(R)
BY DEF Promise!Unpaid, MinedFor, NoKept, Pays, Sound

\* A step that leaves the status of every request and the mined transactions alone.
LEMMA PromiseStutters ==
  ASSUME SameMined, \A r \in Request : row'[r].status = row[r].status
  PROVE  UNCHANGED Promise!vars
BY SamePayments DEF Promise!vars

LEMMA PromiseAccepts ==
  ASSUME SameMined, NEW r \in Request, row[r].status = "absent", row'[r].status = "pending",
         \A q \in Request \ {r} : row'[q].status = row[q].status
  PROVE  Promise!Next
<1>1. Promise!Accept(r)
      BY SamePayments DEF Promise!Accept, Promise!With
<1> QED BY <1>1 DEF Promise!Next

LEMMA PromiseUndertakes ==
  ASSUME SameMined, NEW R \in SUBSET Request, \A r \in R : NoKept(r),
         \A r \in R : row[r].status = "pending" /\ row'[r].status = "inflight",
         \A r \in Request \ R : row'[r].status = row[r].status
  PROVE  Promise!Next
<1>1. Promise!Unpaid(R)
      BY NoKeptUnpaid
<1>2. Promise!Undertake(R)
      BY SamePayments, <1>1 DEF Promise!Undertake, Promise!With
<1> QED BY <1>2 DEF Promise!Next

LEMMA PromiseResolves ==
  ASSUME SameMined, NEW P \in SUBSET Request, NEW G \in SUBSET Request, P \cap G = {},
         \A r \in P \cup G : row[r].status = "inflight",
         NEW w, \A r \in P : w \in TxId /\ chain[w] = "mined" /\ Pays(w, r),
         \A r \in G : NoKept(r),
         \A r \in P : row'[r].status = "confirmed",
         \A r \in G : row'[r].status = "pending",
         \A r \in Request \ (P \cup G) : row'[r].status = row[r].status
  PROVE  Promise!Next
<1>1. Promise!Unpaid(G)
      BY NoKeptUnpaid
<1>2. \A r \in P : w \in MinedFor(r, TxId \ slipped) \cup MinedFor(r, TxId \cap slipped)
      BY DEF MinedFor, Pays
<1>3. \A r \in P : MinedFor(r, TxId \ slipped) \cup MinedFor(r, TxId \cap slipped) # {}
      BY <1>2
<1>4. Promise!Resolve(P, G)
      BY SamePayments, <1>1, <1>3 DEF Promise!Resolve, Promise!With
<1> QED BY <1>4 DEF Promise!Next

\* A transaction of the wallet is mined: if the network never lost it, it is the first
\* such payment of each of its requests, and they are waiting for it.
LEMMA MinePromise ==
  ASSUME Inv, NEW t \in TxId, Mine(t)
  PROVE  Promise!Next
<1> DEFINE R == content[t]
<1>1. /\ chain[t] = "mempool" /\ chain' = [chain EXCEPT ![t] = "mined"]
      /\ UNCHANGED <<content, slipped, row>> /\ R \in SUBSET Request
      /\ chain \in [TxId -> {"none", "mempool", "mined", "gone"}]
      BY DEF Mine, Inv, TypeOK
<1>2. \A u \in TxId : chain'[u] = "mined" <=> chain[u] = "mined" \/ u = t
      BY <1>1
<1>3. CASE t \notin slipped
  <2>1. \A r \in R : Pays(t, r) /\ Sound(t) /\ RowOK(r, row[r])
        BY <1>1, <1>3 DEF Pays, Sound, Inv, RowInv
  <2>2. \A r \in R : row[r].status = "inflight" /\ t = row[r].head
        BY <1>1, <2>1 DEF RowOK
  <2>3. \A r \in R : MinedFor(r, TxId \ slipped) = {}
        BY <1>1, <2>1, <2>2 DEF RowOK, MinedFor, Pays, Sound
  <2>4. \A r \in Request : MinedFor(r, TxId \ slipped)'
                             = IF r \in R THEN MinedFor(r, TxId \ slipped) \cup {t}
                               ELSE MinedFor(r, TxId \ slipped)
        BY <1>1, <1>2, <1>3 DEF MinedFor
  <2>5. \A r \in Request : MinedFor(r, TxId \cap slipped)' = MinedFor(r, TxId \cap slipped)
        BY <1>1, <1>2, <1>3 DEF MinedFor
  <2> HIDE DEF R
  <2>6. Promise!Pay(t, R)
        BY <1>1, <2>2, <2>3, <2>4, <2>5 DEF Promise!Pay, Promise!Unpaid, Promise!Credited
  <2> QED BY <1>1, <2>6 DEF Promise!Next
<1>4. CASE t \in slipped
  <2>1. \A r \in Request : MinedFor(r, TxId \cap slipped)'
                             = IF r \in R THEN MinedFor(r, TxId \cap slipped) \cup {t}
                               ELSE MinedFor(r, TxId \cap slipped)
        BY <1>1, <1>2, <1>4 DEF MinedFor
  <2>2. \A r \in Request : MinedFor(r, TxId \ slipped)' = MinedFor(r, TxId \ slipped)
        BY <1>1, <1>2, <1>4 DEF MinedFor
  <2> HIDE DEF R
  <2>3. Promise!PayLate(t, R)
        BY <1>1, <2>1, <2>2 DEF Promise!PayLate, Promise!Credited
  <2> QED BY <1>1, <2>3 DEF Promise!Next
<1> QED BY <1>3, <1>4

\* The rest of what the network does reaches no mined transaction.
LEMMA NetworkPromise ==
  ASSUME Inv, Network
  PROVE  [Promise!Next]_Promise!vars
<1> PICK t \in TxId : Mine(t) \/ Evict(t) \/ Return(t)
    BY DEF Network
<1>1. CASE Mine(t)
      BY <1>1, MinePromise
<1>2. CASE Evict(t) \/ Return(t)
  <2>1. SameMined /\ row' = row
        BY <1>2 DEF Evict, Return, SameMined, Inv, TypeOK
  <2> QED BY <2>1, PromiseStutters
<1> QED BY <1>1, <1>2

LEMMA RequestsPromise ==
  ASSUME Inv, Requests
  PROVE  [Promise!Next]_Promise!vars
<1> PICK r \in Request : Enqueue(r) \/ Submit(r) \/ Receive(r)
    BY DEF Requests
<1>1. SameMined
      BY DEF Enqueue, Submit, Receive, SameMined, chainVars
<1>2. CASE Enqueue(r)
  <2>1. /\ row[r].status = "absent" /\ row'[r].status = "pending"
        /\ \A q \in Request \ {r} : row'[q].status = row[q].status
        BY <1>2 DEF Enqueue, Inv, TypeOK, Row
  <2> QED BY <1>1, <2>1, PromiseAccepts
<1>3. CASE Submit(r) \/ Receive(r)
      BY <1>1, <1>3, PromiseStutters DEF Submit, Receive
<1> QED BY <1>2, <1>3

\* A lineage is won: its winner's requests are paid, and the others are free again
\* because no sound transaction pays them.
LEMMA WonPromise ==
  ASSUME Inv, SameMined, NEW l \in TxId, NEW w \in TxId, RowsInflight(Members(l), l),
         chain[w] = "mined", w # lin[l].head => ~Sound(lin[l].head),
         NEW a \in TxOrNone,
         row' = ToPending(ToConfirmed(row, Carried(l, w), w), Members(l) \ Carried(l, w), a)
  PROVE  Promise!Next
<1> DEFINE C == Carried(l, w)
           O == Members(l) \ C
           mid == ToConfirmed(row, C, w)
<1>1. C \in SUBSET Members(l) /\ C \in SUBSET Request /\ O \in SUBSET Request /\ C \cap O = {}
      BY MembersType
<1>2. \A r \in C \cup O : row[r].status = "inflight"
      BY <1>1, MemberFacts
<1>3. \A r \in C : Pays(w, r)
      BY <1>1, MemberFacts DEF Carried
<1>4. \A r \in O : NoKept(r)
      BY MemberFacts DEF Carried, NoKept
<1>5. /\ mid \in [Request -> Row]
      /\ \A r \in Request \ C : mid[r] = row[r]
      /\ \A r \in Request \cap C : mid[r].status = "confirmed"
  <2>1. row \in [Request -> Row] /\ mid = ToConfirmed(row, C, w)
        BY DEF Inv, TypeOK
  <2> HIDE DEF mid
  <2> QED BY <2>1, ToConfirmedRows
<1>6. row' = ToPending(mid, O, a)
      OBVIOUS
<1> HIDE DEF mid, C, O
<1>7. /\ \A r \in Request \ O : row'[r] = mid[r]
      /\ \A r \in Request \cap O : row'[r].status = "pending"
      BY <1>5, <1>6 DEF ToPending, Row
<1>8. /\ \A r \in C : row'[r].status = "confirmed"
      /\ \A r \in O : row'[r].status = "pending"
      /\ \A r \in Request \ (C \cup O) : row'[r].status = row[r].status
  <2>1. \A r \in C : r \in Request \ O /\ r \in Request \cap C
        BY <1>1
  <2>2. \A r \in Request \ (C \cup O) : r \in Request \ O /\ r \in Request \ C
        BY <1>1
  <2>3. \A r \in O : r \in Request \cap O
        BY <1>1
  <2>4. \A r \in C : row'[r] = mid[r] /\ mid[r].status = "confirmed"
        BY <2>1, <1>5, <1>7
  <2>5. \A r \in Request \ (C \cup O) : row'[r] = mid[r] /\ mid[r] = row[r]
        BY <2>2, <1>5, <1>7
  <2> QED BY <2>3, <2>4, <2>5, <1>7
<1> QED BY <1>1, <1>2, <1>3, <1>4, <1>8, PromiseResolves

\* A lineage has missed: its members have no sound transaction, so those that do not
\* go on with an older one are free again.
LEMMA MissedPromise ==
  ASSUME Inv, SameMined, NEW l \in TxId, Handled("reconcile", l),
         RowsInflight(Members(l), l), NEW C \in SUBSET Members(l), NEW s \in TxId,
         row' = ToPending(ToSurviving(row, C, s), Members(l) \ C, 0)
  PROVE  Promise!Next
<1> DEFINE O == Members(l) \ C
           mid == ToSurviving(row, C, s)
<1>1. /\ mid \in [Request -> Row]
      /\ \A r \in Request : mid[r].status = row[r].status
  <2>1. row \in [Request -> Row] /\ mid = ToSurviving(row, C, s)
        BY DEF Inv, TypeOK
  <2> HIDE DEF mid
  <2> QED BY <2>1, ToSurvivingRows
<1>2. row' = ToPending(mid, O, 0) /\ 0 \in TxOrNone
      BY TxIdFacts
<1>3. O \in SUBSET Request /\ \A r \in O : r \in Members(l)
      BY MembersType
<1>4. \A r \in O : row[r].status = "inflight" /\ NoKept(r)
      BY <1>3, MemberFacts, MissedFacts DEF NoKept
<1> HIDE DEF mid, O
<1>5. /\ \A r \in Request \ O : row'[r] = mid[r]
      /\ \A r \in Request \cap O : row'[r].status = "pending"
      BY <1>1, <1>2 DEF ToPending, Row
<1>6. /\ \A r \in O : row'[r].status = "pending"
      /\ \A r \in Request \ O : row'[r].status = row[r].status
      BY <1>1, <1>3, <1>5
<1> QED BY <1>3, <1>4, <1>6, PromiseResolves, {} \in SUBSET Request

LEMMA ConfirmingPromise ==
  ASSUME Inv, NEW l \in TxId, HandleConfirmation(l) \/ ConfirmationFails(l)
  PROVE  [Promise!Next]_Promise!vars
<1> DEFINE w == lin[l].winner
           orphans == Members(l) \ Carried(l, w)
<1>1. SameMined
      BY DEF HandleConfirmation, ConfirmationFails, Handled, chainVars, SameMined, Settles,
         RowsSettled
<1>2. CASE row' = row
      BY <1>1, <1>2, PromiseStutters
<1>3. CASE row' # row
  <2>1. /\ Carried(l, w) # {} /\ RowsInflight(Members(l), l)
        /\ \E a \in AnchorFor(w, orphans) :
             row' = ToPending(ToConfirmed(row, Carried(l, w), w), orphans, a)
        BY <1>3 DEF HandleConfirmation, ConfirmationFails, Settles, RowsSettled
  <2>2. w \in TxId
        BY <2>1, CarriedTx DEF Inv
  <2>3. PICK a \in TxOrNone :
          row' = ToPending(ToConfirmed(row, Carried(l, w), w), orphans, a)
        BY <2>1, <2>2, AnchorType
  <2>4. chain[w] = "mined" /\ (w # lin[l].head => ~Sound(lin[l].head))
        BY <2>2, TxIdFacts DEF Inv, LineageInv, LineageOK
  <2>5. Promise!Next
        BY <1>1, <2>1, <2>2, <2>3, <2>4, WonPromise
  <2> QED BY <2>5
<1> QED BY <1>2, <1>3

LEMMA ReconcilingPromise ==
  ASSUME Inv, Reconciling
  PROVE  [Promise!Next]_Promise!vars
<1> PICK l \in TxId :
      \/ ReconcileNoSurvivor(l) \/ ReconcileFails(l)
      \/ \E s \in TxId : ReconcileConfirmed(l, s) \/ ReconcileInMempool(l, s)
    BY DEF Reconciling
<1>1. Handled("reconcile", l) /\ SameMined
      BY DEF ReconcileNoSurvivor, ReconcileFails, ReconcileConfirmed, ReconcileInMempool,
         Handled, chainVars, SameMined, Settles, RowsSettled, RowsAdopted, FundingLost
<1>2. CASE row' = row
      BY <1>1, <1>2, PromiseStutters
<1>3. CASE ReconcileNoSurvivor(l) /\ row' # row
  <2>1. RowsInflight(Members(l), l) /\ row' = ToPending(row, Members(l), 0)
        BY <1>3 DEF ReconcileNoSurvivor
  <2>2. row = ToSurviving(row, {}, l)
        BY DEF ToSurviving, Inv, TypeOK
  <2>3. Members(l) \ {} = Members(l) /\ {} \in SUBSET Members(l)
        OBVIOUS
  <2>4. row' = ToPending(ToSurviving(row, {}, l), Members(l) \ {}, 0)
        BY <2>1, <2>2, <2>3
  <2>5. Promise!Next
        BY <1>1, <2>1, <2>3, <2>4, MissedPromise
  <2> QED BY <2>5
<1>4. ASSUME NEW s \in TxId, ReconcileConfirmed(l, s), row' # row
      PROVE  Promise!Next
  <2>1. /\ RowsInflight(Members(l), l) /\ chain[s] = "mined"
        /\ \E a \in AnchorFor(s, Members(l) \ Carried(l, s)) :
             row' = ToPending(ToConfirmed(row, Carried(l, s), s),
                              Members(l) \ Carried(l, s), a)
        BY <1>4 DEF ReconcileConfirmed, Settles, RowsSettled
  <2>2. PICK a \in TxOrNone :
          row' = ToPending(ToConfirmed(row, Carried(l, s), s), Members(l) \ Carried(l, s), a)
        BY <2>1, AnchorType
  <2>3. ~Sound(lin[l].head)
        BY <1>1, MissedFacts
  <2> QED BY <1>1, <2>1, <2>2, <2>3, WonPromise
<1>5. ASSUME NEW s \in TxId, ReconcileInMempool(l, s), row' # row
      PROVE  Promise!Next
  <2>1. /\ RowsInflight(Members(l), l) /\ Carried(l, s) \in SUBSET Members(l)
        /\ row' = ToPending(ToSurviving(row, Carried(l, s), s),
                            Members(l) \ Carried(l, s), 0)
        BY <1>5, MembersType DEF ReconcileInMempool, Settles, RowsAdopted, FundingLost
  <2> QED BY <1>1, <2>1, MissedPromise
<1>6. row' = row \/ ReconcileNoSurvivor(l)
        \/ \E s \in TxId : ReconcileConfirmed(l, s) \/ ReconcileInMempool(l, s)
      BY DEF ReconcileFails
<1> QED BY <1>2, <1>3, <1>4, <1>5, <1>6

\* A batch is recorded: none of its requests has a sound transaction.
LEMMA PersistPromise ==
  ASSUME Inv, NEW act \in plan, NEW t \in TxId, PersistBroadcast(act, t)
  PROVE  [Promise!Next]_Promise!vars
<1>1. content[t] = {} /\ UNCHANGED <<chain, slipped>> /\ act.reqs \in SUBSET Request
      BY DEF PersistBroadcast, Fresh, Inv, TypeOK, Action, Executes
<1>2. chain[t] = "none"
      BY <1>1 DEF Inv, NetworkInv
<1>3. CASE RowsPending(act.reqs)
  <2> DEFINE R == act.reqs
  <2>1. row' = ToInflight(row, R, t, t) /\ content' = [content EXCEPT ![t] = R]
        BY <1>3 DEF PersistBroadcast, Executes
  <2>2. SameMined
        BY <1>1, <1>2, <2>1 DEF SameMined, Inv, TypeOK
  <2>3. \A r \in R : row[r].status = "pending" /\ NoKept(r)
        BY <1>1, <1>3 DEF RowsPending, Inv, RowInv, RowOK, NoKept
  <2>4. row \in [Request -> Row] /\ R \in SUBSET Request
        BY <1>1 DEF Inv, TypeOK
  <2> HIDE DEF R
  <2>5. /\ \A r \in R : row'[r].status = "inflight"
        /\ \A r \in Request \ R : row'[r].status = row[r].status
    <3> DEFINE new == ToInflight(row, R, t, t)
    <3>1. new = ToInflight(row, R, t, t) /\ row' = new
          BY <2>1
    <3> HIDE DEF new
    <3>2. /\ \A r \in Request \ R : new[r] = row[r]
          /\ \A r \in Request \cap R :
               /\ new[r].status = "inflight" /\ new[r].lineage = t /\ new[r].head = t
               /\ new[r].history = row[r].history \cup {t}
          BY <2>4, <3>1 DEF ToInflight, Row
    <3> QED BY <2>4, <3>1, <3>2
  <2>6. Promise!Next
        BY <2>2, <2>3, <2>4, <2>5, PromiseUndertakes
  <2> QED BY <2>6
<1>4. CASE ~RowsPending(act.reqs)
      BY <1>1, <1>4, PromiseStutters DEF PersistBroadcast, SameMined, Executes
<1> QED BY <1>3, <1>4

\* The node's answer moves nothing that is mined, and the record of a refused batch is
\* taken back from requests that no sound transaction pays.
LEMMA AnswerPromise ==
  ASSUME Inv, NodeAccepts \/ NodeRejects \/ NodeAcceptsUnheard
  PROVE  UNCHANGED Promise!vars
<1>1. sending.tx \in TxId /\ chain[sending.tx] = "none" /\ row' = row
      BY TxIdFacts DEF NodeAccepts, NodeRejects, NodeAcceptsUnheard, Sent, Inv, TypeOK, SendingInv, chainVars
<1>2. SameMined
  <2>1. CASE NodeAccepts
        BY <1>1, <2>1 DEF NodeAccepts, SameMined, Rivals, OnNetwork, Competes
  <2>2. CASE NodeRejects
        BY <2>2 DEF NodeRejects, SameMined, chainVars
  <2>3. CASE NodeAcceptsUnheard
        BY <1>1, <2>3 DEF NodeAcceptsUnheard, SameMined, Inv, TypeOK
  <2> QED BY <2>1, <2>2, <2>3
<1> QED BY <1>1, <1>2, PromiseStutters

LEMMA RejectedPromise ==
  ASSUME Inv, BatchRejected
  PROVE  Promise!Next
<1> DEFINE t == sending.tx
           R == content[t]
<1>1. /\ t \in TxId /\ ~Sound(t) /\ R \in SUBSET Request
      /\ \A r \in R : row[r].status = "inflight" /\ row[r].head = t
      BY TxIdFacts DEF BatchRejected, Inv, TypeOK, SendingInv
<1>2. \A r \in R : NoKept(r)
      BY <1>1 DEF Inv, RowInv, RowOK, NoKept
<1>3. /\ row' = Reverted(row, R, t) /\ row \in [Request -> Row]
      /\ UNCHANGED <<chain, slipped>>
      /\ content' = [content EXCEPT ![t] = IF chain[t] = "none" THEN {} ELSE @]
      BY DEF BatchRejected, Inv, TypeOK
<1>4. SameMined
      BY <1>1, <1>3 DEF SameMined, Inv, TypeOK
<1> HIDE DEF R
<1>5. /\ \A r \in R : row'[r].status = "pending"
      /\ \A r \in Request \ R : row'[r].status = row[r].status
      BY <1>1, <1>3 DEF Reverted, Row
<1> QED BY <1>1, <1>2, <1>4, <1>5, PromiseResolves, {} \in SUBSET Request

LEMMA ExecutingPromise ==
  ASSUME Inv, Executing
  PROVE  [Promise!Next]_Promise!vars
<1>1. ASSUME NEW act \in plan, NEW t \in TxId, PersistBroadcast(act, t)
      PROVE  [Promise!Next]_Promise!vars
      BY <1>1, PersistPromise
<1>2. CASE (\E act \in plan : BuildFails(act)) \/ BatchAccepted \/ RevertFails
  <2>1. SameMined /\ row' = row
        BY <1>2 DEF BuildFails, BatchAccepted, RevertFails, SameMined, chainVars, Executes,
                CannotBuild, NewLineage
  <2> QED BY <2>1, PromiseStutters
<1>3. CASE NodeAccepts \/ NodeRejects \/ NodeAcceptsUnheard
      BY <1>3, AnswerPromise
<1>4. CASE BatchRejected
      BY <1>4, RejectedPromise
<1> QED BY <1>1, <1>2, <1>3, <1>4 DEF Executing

\* The other steps of the process, its death and its return are none of the caller's
\* business.
LEMMA ProcessPromise ==
  ASSUME \/ TickBegins \/ ObserveBegins \/ Observing \/ ReconcileBegins \/ PlanBatches
         \/ TickEnds \/ Recovering \/ Crash \/ UNCHANGED vars
  PROVE  UNCHANGED Promise!vars
<1>1. row' = row /\ UNCHANGED chainVars
      BY DEF TickBegins, ObserveBegins, Observing, Observe, ObserverFails, ReconcileBegins,
         PlanBatches, TickEnds, Recovering, Restore, Recover, RecoveryEnds, Crash, Handled, vars,
         FreeAfter, AnchoredAfter
<1>2. SameMined
      BY <1>1 DEF SameMined, chainVars
<1> QED BY <1>1, <1>2, PromiseStutters

LEMMA InitPromise == Init => Promise!Init
BY DEF Init, Promise!Init, MinedFor

\* Whatever crashes, is lost, refused or answered late: to its callers the wallet is one
\* that gives no request up that has been paid, and pays none twice.
THEOREM WalletRefinement == Spec => PromiseSpec
<1>1. Inv /\ [Next]_vars => [Promise!Next]_Promise!vars
  <2> SUFFICES ASSUME Inv, [Next]_vars PROVE [Promise!Next]_Promise!vars
      OBVIOUS
  <2>1. CASE Network
        BY <2>1, NetworkPromise
  <2>2. CASE Requests
        BY <2>2, RequestsPromise
  <2>3. CASE Confirming
        BY <2>3, ConfirmingPromise DEF Confirming
  <2>4. CASE Reconciling
        BY <2>4, ReconcilingPromise
  <2>5. CASE Executing
        BY <2>5, ExecutingPromise
  <2>6. CASE \/ TickBegins \/ ObserveBegins \/ Observing \/ ReconcileBegins \/ PlanBatches
             \/ TickEnds \/ Recovering \/ Crash \/ UNCHANGED vars
        BY <2>6, ProcessPromise
  <2> QED BY <2>1, <2>2, <2>3, <2>4, <2>5, <2>6 DEF Next, Runner
<1> QED BY <1>1, InitPromise, InvHolds, PTL DEF Spec, PromiseSpec, Promise!Spec
-----------------------------------------------------------------------------
(* The record of what was broadcast. A transaction is in the history of    *)
(* the requests it pays from before its broadcast on, and taken out of it  *)
(* only when the node does not have it, unless an answer got lost.         *)

Recorded ==
  /\ \A t \in TxId : \A r \in content[t] : t \in row[r].history
  /\ sending.reply = "rejected" => chain[sending.tx] = "none"

\* Nothing but revert_broadcast takes a transaction out of a history.
LEMMA HistoryKept ==
  ASSUME TypeOK, Next, ~BatchRejected
  PROVE  \A r \in Request : row[r].history \subseteq row'[r].history
<1>0. row \in [Request -> Row]
      BY DEF TypeOK
<1>1. CASE row' = row
      BY <1>1
<1>2. ASSUME NEW r \in Request, Enqueue(r) PROVE \A q \in Request : row'[q].history = row[q].history
      BY <1>0, <1>2 DEF Enqueue, Row
<1>3. ASSUME NEW C, NEW O, NEW w \in TxId, NEW a \in TxOrNone, NEW mid,
             mid = ToConfirmed(row, C, w) \/ mid = ToSurviving(row, C, w) \/ mid = row,
             row' = ToPending(mid, O, a)
      PROVE  \A q \in Request : row'[q].history = row[q].history
  <2>1. mid \in [Request -> Row] /\ \A q \in Request : mid[q].history = row[q].history
        BY <1>0, <1>3, ToConfirmedRows, ToSurvivingRows
  <2>2. \A q \in Request : row'[q].history = mid[q].history
        BY <1>3, <2>1 DEF ToPending, Row
  <2>3. QED BY <2>1, <2>2
<1>4. ASSUME NEW l \in TxId, HandleConfirmation(l), row' # row
      PROVE  \A q \in Request : row'[q].history = row[q].history
  <2> DEFINE w == lin[l].winner
             O == Members(l) \ Carried(l, w)
  <2>1. Carried(l, w) # {} /\ \E a \in AnchorFor(w, O) :
          row' = ToPending(ToConfirmed(row, Carried(l, w), w), O, a)
        BY <1>4 DEF HandleConfirmation, Settles, RowsSettled
  <2>2. w \in TxId
        BY <2>1, CarriedTx
  <2>3. QED BY <1>3, <2>1, <2>2, AnchorType
<1>5. ASSUME NEW l \in TxId, ReconcileNoSurvivor(l), row' # row
      PROVE  \A q \in Request : row'[q].history = row[q].history
      BY <1>3, <1>5, TxIdFacts DEF ReconcileNoSurvivor
<1>6. ASSUME NEW l \in TxId, NEW s \in TxId, ReconcileConfirmed(l, s), row' # row
      PROVE  \A q \in Request : row'[q].history = row[q].history
      BY <1>3, <1>6, AnchorType DEF ReconcileConfirmed, Settles, RowsSettled
<1>7. ASSUME NEW l \in TxId, NEW s \in TxId, ReconcileInMempool(l, s), row' # row
      PROVE  \A q \in Request : row'[q].history = row[q].history
      BY <1>3, <1>7, TxIdFacts DEF ReconcileInMempool, Settles, RowsAdopted, FundingLost
<1>8. ASSUME NEW act, NEW t \in TxId, PersistBroadcast(act, t), row' # row
      PROVE  \A q \in Request : row[q].history \subseteq row'[q].history
  <2>1. row' = ToInflight(row, act.reqs, t, t)
        BY <1>8 DEF PersistBroadcast, Executes
  <2>2. QED BY <1>0, <2>1 DEF ToInflight, Row
<1>9. \/ row' = row
      \/ \E r \in Request : Enqueue(r)
      \/ \E l \in TxId : \/ HandleConfirmation(l) \/ ReconcileNoSurvivor(l)
                         \/ \E s \in TxId : ReconcileConfirmed(l, s) \/ ReconcileInMempool(l, s)
      \/ \E act \in plan : \E t \in TxId : PersistBroadcast(act, t)
  <2>1. CASE Network \/ Crash
        BY <2>1 DEF Network, Mine, Evict, Return, Crash
  <2>2. CASE Requests
        BY <2>2 DEF Requests, Submit, Receive
  <2>3. CASE TickBegins \/ ObserveBegins \/ ReconcileBegins \/ PlanBatches \/ TickEnds
             \/ Observing \/ Recovering
        BY <2>3 DEF TickBegins, ObserveBegins, ReconcileBegins, PlanBatches, TickEnds,
           Observing, Observe, ObserverFails, Recovering, Restore, Recover, RecoveryEnds,
                FreeAfter, AnchoredAfter
  <2>4. CASE Confirming \/ Reconciling
        BY <2>4 DEF Confirming, ConfirmationFails, Reconciling, ReconcileFails
  <2>5. CASE Executing
        BY <2>5 DEF Executing, BuildFails, NodeAccepts, NodeRejects, NodeAcceptsUnheard,
           BatchAccepted, RevertFails, Executes, CannotBuild, NewLineage
  <2>6. QED BY <2>1, <2>2, <2>3, <2>4, <2>5 DEF Next, Runner
<1>10. QED BY <1>1, <1>2, <1>4, <1>5, <1>6, <1>7, <1>8, <1>9

\* Every step keeps the record when no answer is lost.
LEMMA RecordedStep ==
  ASSUME "reply" \notin Glitches, Inv, Recorded, [Next]_vars
  PROVE  Recorded'
<1>0. TypeOK
      BY DEF Inv
<1>1. CASE UNCHANGED vars
      BY <1>1 DEF Recorded, vars, chainVars, tickVars
<1>2. CASE BatchRejected
  <2> DEFINE t == sending.tx
  <2>1. /\ sending.reply = "rejected" /\ t \in TxId /\ chain[t] = "none"
        /\ row' = Reverted(row, content[t], t) /\ sending' = NoBatch
        /\ content' = [content EXCEPT ![t] = {}]
        BY <1>2, TxIdFacts DEF BatchRejected, Recorded, Inv, SendingInv, TypeOK
  <2>2. \A r \in Request : row[r].history \ {t} \subseteq row'[r].history
    <3> DEFINE R == content[t]
    <3>1. row \in [Request -> Row] /\ row' = Reverted(row, R, t)
          BY <1>0, <2>1 DEF TypeOK
    <3> HIDE DEF R, t
    <3>2. \A r \in Request : Reverted(row, R, t)[r].history \in {row[r].history, row[r].history \ {t}}
          BY <3>1 DEF Reverted, Row
    <3>3. QED BY <3>1, <3>2
  <2>3. \A u \in TxId : \A r \in content'[u] : r \in content[u] /\ u # t /\ r \in Request
        BY <1>0, <2>1 DEF TypeOK
  <2>4. QED BY <2>1, <2>2, <2>3 DEF Recorded, NoBatch
<1>3. ASSUME NEW act \in plan, NEW t \in TxId, PersistBroadcast(act, t), RowsPending(act.reqs)
      PROVE  Recorded'
  <2> DEFINE R == act.reqs
  <2>1. /\ row' = ToInflight(row, R, t, t) /\ content' = [content EXCEPT ![t] = R]
        /\ sending'.reply = "none"
        BY <1>3 DEF PersistBroadcast, Executes
  <2>2. R \subseteq Request
        BY <1>0 DEF TypeOK, Action
  <2>3. \A r \in Request : /\ row[r].history \subseteq row'[r].history
                           /\ r \in R => t \in row'[r].history
    <3>1. row \in [Request -> Row]
          BY <1>0 DEF TypeOK
    <3> HIDE DEF R
    <3>2. \A r \in Request : /\ row'[r] # row[r] => row'[r].history = row[r].history \cup {t}
                             /\ r \in R => row'[r].history = row[r].history \cup {t}
          BY <2>1, <3>1 DEF ToInflight, Row
    <3>3. QED BY <3>2
  <2>4. \A u \in TxId : \A r \in content'[u] :
          r \in Request /\ (r \in content[u] \/ (u = t /\ r \in R))
        BY <1>0, <2>1, <2>2 DEF TypeOK
  <2>5. QED BY <2>1, <2>3, <2>4 DEF Recorded
<1>4. ASSUME Next, ~BatchRejected, content' = content,
             \/ sending'.reply # "rejected"
             \/ sending' = sending /\ \A t \in TxId : chain[t] = "none" => chain'[t] = "none"
             \/ NodeRejects
      PROVE  Recorded'
  <2>1. \A r \in Request : row[r].history \subseteq row'[r].history
        BY <1>0, <1>4, HistoryKept
  <2>2. \A t \in TxId : \A r \in content'[t] : t \in row'[r].history
        BY <1>0, <1>4, <2>1 DEF Recorded, TypeOK
  <2>3. sending'.reply = "rejected" => chain'[sending'.tx] = "none"
    <3>1. sending.reply = "rejected" => sending.tx \in TxId
          BY <1>0, TxIdFacts DEF Inv, SendingInv, TypeOK
    <3>2. NodeRejects => chain'[sending'.tx] = "none"
          BY <1>0 DEF NodeRejects, Sent, Answer, chainVars, Inv, SendingInv, TypeOK
    <3>3. QED BY <1>4, <3>1, <3>2 DEF Recorded
  <2>4. QED BY <2>2, <2>3 DEF Recorded
<1>5. ASSUME Next, ~BatchRejected,
             ~ \E act \in plan : \E t \in TxId : PersistBroadcast(act, t) /\ RowsPending(act.reqs)
      PROVE  /\ content' = content
             /\ \/ sending'.reply # "rejected"
                \/ sending' = sending /\ \A t \in TxId : chain[t] = "none" => chain'[t] = "none"
                \/ NodeRejects
  <2>1. CASE Network
        BY <1>0, <2>1 DEF Network, Mine, Evict, Return, tickVars, TypeOK
  <2>2. CASE Requests
        BY <2>2 DEF Requests, Enqueue, Submit, Receive, chainVars, tickVars
  <2>3. CASE Crash
        BY <2>3 DEF Crash, chainVars, NoBatch
  <2>4. CASE TickBegins \/ ObserveBegins \/ ReconcileBegins \/ PlanBatches \/ TickEnds
             \/ Recovering
        BY <2>4 DEF TickBegins, ObserveBegins, ReconcileBegins, PlanBatches, TickEnds,
           Recovering, Restore, Recover, RecoveryEnds, Handled, chainVars, FreeAfter,
                AnchoredAfter
  <2>5. CASE Confirming \/ Observing \/ Reconciling
        BY <2>5 DEF Confirming, HandleConfirmation, ConfirmationFails, Observing, Observe,
           ObserverFails, Reconciling, ReconcileNoSurvivor, ReconcileFails,
           ReconcileConfirmed, ReconcileInMempool, Handled, chainVars, Settles, RowsSettled,
                RowsAdopted, FundingLost
  <2>6. CASE Executing
    <3>1. ~NodeAcceptsUnheard
          BY DEF NodeAcceptsUnheard, Fault
    <3>2. ASSUME NEW act \in plan, NEW t \in TxId, PersistBroadcast(act, t)
          PROVE  UNCHANGED <<content, sending, chain>>
          BY <1>5, <3>2 DEF PersistBroadcast, Executes
    <3>3. ASSUME NEW act \in plan, BuildFails(act) PROVE UNCHANGED <<content, sending, chain>>
          BY <3>3 DEF BuildFails, chainVars, Executes, CannotBuild
    <3>4. CASE NodeAccepts
          BY <1>0, <3>4 DEF NodeAccepts, Answer, TypeOK
    <3>5. CASE NodeRejects
          BY <3>5 DEF NodeRejects, chainVars
    <3>6. CASE BatchAccepted
          BY <3>6 DEF BatchAccepted, chainVars, NoBatch, NewLineage
    <3>7. CASE RevertFails
          BY <3>7 DEF RevertFails, NoBatch
    <3>8. QED BY <1>5, <2>6, <3>1, <3>2, <3>3, <3>4, <3>5, <3>6, <3>7 DEF Executing
  <2>7. QED BY <1>5, <2>1, <2>2, <2>3, <2>4, <2>5, <2>6 DEF Next, Runner
<1>6. QED BY <1>1, <1>2, <1>3, <1>4, <1>5

\* As long as no answer of the node is lost, the network has nothing of the
\* wallet that is not in the history of the rows it pays, through every crash:
\* this is what recovery relies on.
THEOREM RecordCorrect ==
  ASSUME "reply" \notin Glitches
  PROVE  Spec => []RecordedOnNetwork
<1>1. Init => Recorded
      BY DEF Init, Recorded, NoBatch
<1>2. Inv /\ Recorded /\ [Next]_vars => Recorded'
      BY RecordedStep
<1>3. Recorded => RecordedOnNetwork
      BY DEF Recorded, RecordedOnNetwork, OnNetwork
<1>4. QED BY InvHolds, <1>1, <1>2, <1>3, PTL DEF Spec

-----------------------------------------------------------------------------
(* The books of the process: what holds of one request in memory and in    *)
(* its row.                                                                *)

Anchored(r) == \E p \in anchored : p[1] = r

\* On its way to the runner, or pending in it.
Waits(r) == r \in submitting \/ r \in inbox \/ r \in free \/ Anchored(r)

\* In the batch between its record and its outcome.
Paying(r) == sending.tx # 0 /\ r \in content[sending.tx]

\* One place in memory, and a row that says which: pending while it waits,
\* inflight in the lineage that holds it. A batch recorded and not yet
\* answered for has its rows inflight while its requests are still pending,
\* and so has one whose rows could not be restored.
RequestOK(r) ==
  /\ r \in submitting => r \notin inbox /\ r \notin free /\ ~Anchored(r)
  /\ r \in inbox => r \notin free /\ ~Anchored(r)
  /\ r \in free => ~Anchored(r)
  /\ \A p, q \in anchored : p[1] = r /\ q[1] = r => p = q
  /\ \A l \in TxId : lin[l].hist[r] # {} => row[r].status = "inflight" /\ row[r].lineage = l
  /\ Waits(r) => \A l \in TxId : lin[l].hist[r] = {}
  /\ Waits(r) /\ ~Paying(r) => row[r].status = "pending" \/ r \in Stranded
  /\ Paying(r) => r \in free \/ Anchored(r)

\* What is planned was pending in the runner, and may have joined a lineage.
PlanOK ==
  /\ plan # {} => at = "execute"
  /\ \A act \in plan : \A r \in act.reqs :
       r \in free \/ Anchored(r) \/ \E l \in TxId : lin[l].hist[r] # {}

\* A process that is down has no memory.
DownOK ==
  at = "down" => /\ submitting = {} /\ inbox = {} /\ free = {} /\ anchored = {}
                 /\ \A l \in TxId : \A r \in Request : lin[l].hist[r] = {}

Books == (\A r \in Request : RequestOK(r)) /\ PlanOK /\ DownOK

\* A request the step does not touch.
LEMMA SameRequest ==
  ASSUME NEW r \in Request, RequestOK(r),
         r \in submitting' <=> r \in submitting, r \in inbox' <=> r \in inbox,
         r \in free' <=> r \in free,
         \A p : p[1] = r => (p \in anchored' <=> p \in anchored),
         \A l \in TxId : lin'[l].hist[r] # {} => lin[l].hist[r] # {},
         row'[r] = row[r], unreverted \subseteq unreverted', Paying(r)' <=> Paying(r)
  PROVE  RequestOK(r)'
<1>0. r \in Stranded => r \in Stranded'
      BY DEF Stranded
<1>1. Anchored(r)' <=> Anchored(r)
      BY DEF Anchored
<1>2. \A p, q \in anchored' : p[1] = r /\ q[1] = r => p \in anchored /\ q \in anchored
      OBVIOUS
<1>3. Waits(r)' <=> Waits(r)
      BY <1>1 DEF Waits
<1>4. QED BY <1>0, <1>1, <1>2, <1>3 DEF RequestOK

\* A step that moves no request and writes no row.
LEMMA StandingStep ==
  ASSUME Books, UNCHANGED <<submitting, inbox, free, anchored, row, content, unreverted>>,
         sending'.tx = sending.tx,
         \A l \in TxId : \A r \in Request : lin'[l].hist[r] = lin[l].hist[r],
         plan' \subseteq plan, plan' # {} => at' = "execute", at' # "down",
         TypeOK
  PROVE  Books'
<1>1. ASSUME NEW r \in Request PROVE RequestOK(r)'
  <2>1. Paying(r)' <=> Paying(r)
        BY DEF Paying
  <2>2. RequestOK(r)
        BY DEF Books
  <2>3. QED BY <2>1, <2>2, SameRequest
<1>2. PlanOK'
  <2>1. \A act \in plan : act.reqs \subseteq Request
        BY DEF TypeOK, Action
  <2>2. QED BY <2>1 DEF Books, PlanOK, Anchored
<1>3. QED BY <1>1, <1>2 DEF Books, DownOK

\* Bitcoin does not touch the books.
LEMMA NetworkBooks == Inv /\ Books /\ Network => Books'
<1> SUFFICES ASSUME Inv, Books, Network PROVE Books'
    OBVIOUS
<1>1. PICK t \in TxId : Mine(t) \/ Evict(t) \/ Return(t)
      BY DEF Network
<1>2. UNCHANGED <<content, unreverted, row, memVars, tickVars>>
      BY <1>1 DEF Mine, Evict, Return
<1>3. CASE at = "down"
      BY <1>2, <1>3 DEF memVars, tickVars, Books, RequestOK, PlanOK, DownOK, Waits, Anchored,
         Paying, Stranded
<1>4. CASE at # "down"
      BY <1>2, <1>4, StandingStep DEF memVars, tickVars, Books, PlanOK, Inv
<1>5. QED BY <1>3, <1>4

\* A new request is nowhere else; a command moves on.
LEMMA RequestsBooks == Inv /\ Books /\ Requests => Books'
<1> SUFFICES ASSUME Inv, Books, Requests PROVE Books'
    OBVIOUS
<1>1. PICK q \in Request : Enqueue(q) \/ Submit(q) \/ Receive(q)
      BY DEF Requests
<1>2. /\ UNCHANGED <<chain, content, unreverted, anchored, lin, at, plan, sending>>
      /\ free' = free \/ (free' = free \cup {q} /\ q \in inbox /\ at = "idle")
      BY <1>1 DEF Enqueue, Submit, Receive, chainVars, tickVars
<1>3. at # "down"
      BY <1>1 DEF Enqueue, Submit, Receive, Books, DownOK
<1>4. PlanOK' /\ DownOK'
      BY <1>2, <1>3 DEF Books, PlanOK, DownOK, Anchored
<1>5. ASSUME NEW r \in Request, r # q PROVE RequestOK(r)'
  <2>1. /\ r \in submitting' <=> r \in submitting
        /\ r \in inbox' <=> r \in inbox
        /\ r \in free' <=> r \in free
        /\ row'[r] = row[r]
        BY <1>1, <1>5 DEF Enqueue, Submit, Receive, Inv, TypeOK
  <2>2. Paying(r)' <=> Paying(r)
        BY <1>2 DEF Paying
  <2>3. RequestOK(r)
        BY DEF Books
  <2>4. QED BY <1>2, <2>1, <2>2, <2>3, SameRequest
<1>6. RequestOK(q)'
  <2>0. RequestOK(q) /\ (Paying(q)' <=> Paying(q)) /\ (Anchored(q)' <=> Anchored(q))
        BY <1>2 DEF Books, Paying, Anchored
  <2>1. CASE Enqueue(q)
    <3>1. row[q].status = "absent" /\ row' = [row EXCEPT ![q].status = "pending"]
          BY <2>1 DEF Enqueue
    <3>2. ~Paying(q)
          BY <3>1 DEF Paying, Inv, SendingInv
    <3>3. ~Waits(q) /\ \A l \in TxId : lin[l].hist[q] = {}
          BY <2>0, <3>1, <3>2 DEF RequestOK, Stranded
    <3>4. row'[q].status = "pending"
          BY <3>1 DEF Inv, TypeOK, Row
    <3>5. QED BY <1>2, <2>0, <2>1, <3>2, <3>3, <3>4 DEF Enqueue, RequestOK, Waits, Anchored
  <2>2. CASE Submit(q)
    <3>1. q \notin inbox /\ q \notin free /\ ~Anchored(q) /\ Waits(q) /\ ~Paying(q)
          BY <2>0, <2>2 DEF Submit, RequestOK, Waits
    <3>2. QED BY <1>2, <2>0, <2>2, <3>1 DEF Submit, RequestOK, Waits, Anchored, Stranded
  <2>3. CASE Receive(q)
    <3>1. q \notin submitting /\ q \notin free /\ ~Anchored(q) /\ Waits(q) /\ ~Paying(q)
          BY <2>0, <2>3 DEF Receive, RequestOK, Waits
    <3>2. QED BY <1>2, <2>0, <2>3, <3>1 DEF Receive, RequestOK, Waits, Anchored, Stranded
  <2>4. QED BY <1>1, <2>1, <2>2, <2>3
<1>7. QED BY <1>4, <1>5, <1>6 DEF Books

\* The steps of a tick that only look: the phases, and what fails.
LEMMA PhasesBooks ==
  ASSUME Inv, Books,
         \/ TickBegins \/ ObserveBegins \/ ReconcileBegins \/ TickEnds \/ RecoveryEnds
         \/ \E l \in TxId : \/ ConfirmationFails(l) \/ ObserverFails(l) \/ ReconcileFails(l)
                            \/ Observe(l) \/ Recover(l)
         \/ \E act \in plan : BuildFails(act)
         \/ NodeAccepts \/ NodeRejects \/ NodeAcceptsUnheard
  PROVE  Books'
<1>0. TypeOK /\ (plan # {} => at = "execute")
      BY DEF Inv, Books, PlanOK
<1>1. CASE \/ TickBegins \/ ObserveBegins \/ ReconcileBegins \/ TickEnds \/ RecoveryEnds
  <2>1. /\ UNCHANGED <<submitting, inbox, free, anchored, row, content, unreverted,
                        sending, lin, plan>>
        /\ at' # "down" /\ plan = {}
        BY <1>0, <1>1 DEF TickBegins, ObserveBegins, ReconcileBegins, TickEnds, RecoveryEnds,
           chainVars, memVars
  <2>2. QED BY <1>0, <2>1, StandingStep
<1>2. ASSUME NEW l \in TxId, ConfirmationFails(l) \/ ObserverFails(l) \/ ReconcileFails(l)
                             \/ Observe(l) \/ Recover(l)
      PROVE  Books'
  <2>1. /\ UNCHANGED <<submitting, inbox, free, anchored, row, content, unreverted,
                        sending, plan, at>>
        /\ at \in {"confirm", "observe", "recover", "reconcile"}
        BY <1>2 DEF ConfirmationFails, ObserverFails, ReconcileFails, Observe, Recover,
           Handled, chainVars
  <2>2. \A k \in TxId : lin'[k].hist = lin[k].hist
    <3>1. CASE ConfirmationFails(l) \/ ObserverFails(l)
          BY <3>1 DEF ConfirmationFails, ObserverFails
    <3>2. CASE ReconcileFails(l)
          BY <3>2, <1>0 DEF ReconcileFails, Restored, TypeOK, Lineage
    <3>3. ASSUME NEW missed, NEW L \in Observed(l, missed)
          PROVE  L.hist = lin[l].hist
      <4>1. lin[l] \in Lineage
            BY <1>0 DEF TypeOK
      <4>2. QED BY <3>3, <4>1, ZenonT(40) DEF Observed, Lineage
    <3>4. CASE Observe(l)
          BY <3>3, <3>4, <1>0 DEF Observe, TypeOK
    <3>5. CASE Recover(l)
          BY <3>3, <3>5, <1>0 DEF Recover, TypeOK
    <3>6. QED BY <1>2, <3>1, <3>2, <3>4, <3>5
  <2>3. QED BY <1>0, <2>1, <2>2, StandingStep
<1>3. ASSUME NEW act \in plan, BuildFails(act) PROVE Books'
  <2>1. /\ UNCHANGED <<submitting, inbox, free, anchored, row, content, unreverted,
                        sending, lin, at>>
        /\ plan' \subseteq plan /\ at = "execute"
        BY <1>3 DEF BuildFails, chainVars, memVars, Executes, CannotBuild
  <2>2. QED BY <1>0, <2>1, StandingStep
<1>4. CASE NodeAccepts \/ NodeRejects \/ NodeAcceptsUnheard
  <2>1. /\ UNCHANGED <<submitting, inbox, free, anchored, row, content, unreverted,
                        lin, plan, at>>
        /\ sending.tx # 0
        BY <1>4 DEF NodeAccepts, NodeRejects, NodeAcceptsUnheard, Sent, chainVars, memVars
  <2>2. sending'.tx = sending.tx
        BY <1>0, <1>4 DEF NodeAccepts, NodeRejects, NodeAcceptsUnheard, Answer, TypeOK
  <2>3. at = "execute"
        BY <2>1 DEF Inv, SendingInv
  <2>4. QED BY <1>0, <2>1, <2>2, <2>3, StandingStep
<1>5. QED BY <1>1, <1>2, <1>3, <1>4

\* A lineage is settled or shrinks: those it lets go wait again, the others it
\* had are done or stay in it.
LEMMA LeaveStep ==
  ASSUME Inv, Books, NEW l \in TxId, at \notin {"execute", "down"}, at' = at,
         NEW R \in SUBSET Members(l), NEW a, Requeue(R, a), RowsInflight(Members(l), l),
         UNCHANGED <<submitting, inbox, plan, sending, content, unreverted>>,
         \A r \in Request \ Members(l) : row'[r] = row[r],
         \A r \in R : row'[r].status = "pending",
         \A k \in TxId \ {l} : lin'[k] = lin[k],
         \A r \in Request : lin'[l].hist[r] # {} =>
            /\ r \in Members(l) \ R
            /\ row'[r].status = row[r].status /\ row'[r].lineage = row[r].lineage
  PROVE  Books'
<1>1. sending.tx = 0 /\ sending'.tx = 0 /\ plan = {} /\ plan' = {}
      BY DEF Inv, SendingInv, Books, PlanOK
<1>2. PlanOK' /\ DownOK'
      BY <1>1 DEF PlanOK, DownOK
<1>3. R \subseteq Request
      BY DEF Members
<1>4. \A p : p \in anchored' => p \in anchored \/ p[1] \in R
      BY DEF Requeue
<1>5. \A p : p \in anchored => p \in anchored'
      BY DEF Requeue
<1>6. \A r : r \in free => r \in free'
      BY DEF Requeue
<1>7. \A r : r \in free' => r \in free \/ r \in R
      BY DEF Requeue
<1>8. ASSUME NEW r \in Request, r \notin Members(l) PROVE RequestOK(r)'
  <2>1. \A k \in TxId : lin'[k].hist[r] # {} => lin[k].hist[r] # {}
        BY <1>8 DEF Members
  <2>2. RequestOK(r) /\ (Paying(r)' <=> Paying(r)) /\ r \notin R
        BY <1>1, <1>8 DEF Books, Paying
  <2>3. r \in free' <=> r \in free
        BY <1>6, <1>7, <2>2
  <2>4. \A p : p[1] = r => (p \in anchored' <=> p \in anchored)
        BY <1>4, <1>5, <2>2
  <2>5. QED BY <1>8, <2>1, <2>2, <2>3, <2>4, SameRequest
<1>9. ASSUME NEW r \in Members(l) PROVE RequestOK(r)'
  <2>0. r \in Request /\ RequestOK(r) /\ lin[l].hist[r] # {} /\ ~Paying(r) /\ ~Paying(r)'
        BY <1>1 DEF Members, Books, Paying
  <2>1. row[r].status = "inflight" /\ row[r].lineage = l
        BY DEF RowsInflight
  <2>2. ~Waits(r)
        BY <2>0 DEF RequestOK
  <2>3. r \notin submitting' /\ r \notin inbox'
        BY <2>2 DEF Waits
  <2>4. \A k \in TxId \ {l} : lin'[k].hist[r] = {}
        BY <2>0, <2>1 DEF RequestOK
  <2>5. ~(r \in free' /\ Anchored(r)') /\ (r \in free' \/ Anchored(r)' => r \in R)
    <3>1. r \notin free /\ \A p \in anchored : p[1] # r
          BY <2>2 DEF Waits, Anchored
    <3>2. CASE a = 0
          BY <3>1, <3>2 DEF Requeue, Anchored
    <3>3. CASE a # 0
          BY <3>1, <3>3, <1>4 DEF Requeue, Anchored
    <3>4. QED BY <3>2, <3>3
  <2>6. \A p, q \in anchored' : p[1] = r /\ q[1] = r => p = q
    <3>1. \A p \in anchored : p[1] # r
          BY <2>2 DEF Waits, Anchored
    <3>2. \A p \in anchored' : p[1] = r => p \in R \X {a}
          BY <3>1 DEF Requeue
    <3>3. \A p, q \in R \X {a} : p[1] = q[1] => p = q
          OBVIOUS
    <3>4. QED BY <3>2, <3>3
  <2>7. \A k \in TxId : lin'[k].hist[r] # {} => row'[r].status = "inflight" /\ row'[r].lineage = k
        BY <2>0, <2>1, <2>4
  <2>8. Waits(r)' => row'[r].status = "pending" /\ \A k \in TxId : lin'[k].hist[r] = {}
        BY <2>0, <2>3, <2>4, <2>5 DEF Waits
  <2>9. QED BY <2>0, <2>3, <2>5, <2>6, <2>7, <2>8 DEF RequestOK
<1>10. QED BY <1>2, <1>8, <1>9 DEF Books

\* What a confirmation writes: the carried rows are confirmed, the others wait.
LEMMA ConfirmedRows ==
  ASSUME TypeOK, NEW l \in TxId, NEW w \in TxId, NEW a \in TxOrNone,
         row' = ToPending(ToConfirmed(row, Carried(l, w), w), Members(l) \ Carried(l, w), a)
  PROVE  /\ \A r \in Request \ Members(l) : row'[r] = row[r]
         /\ \A r \in Members(l) \ Carried(l, w) : row'[r].status = "pending"
<1>0. row \in [Request -> Row] /\ Carried(l, w) \subseteq Members(l) /\ Members(l) \subseteq Request
      BY DEF TypeOK, Carried, Members
<1>1. PICK rows : rows = ToConfirmed(row, Carried(l, w), w)
      OBVIOUS
<1>2. /\ rows \in [Request -> Row]
      /\ \A r \in Request \ Carried(l, w) : rows[r] = row[r]
      BY <1>0, <1>1, ToConfirmedRows
<1>3. /\ \A r \in Request \ (Members(l) \ Carried(l, w)) : row'[r] = rows[r]
      /\ \A r \in Request \cap (Members(l) \ Carried(l, w)) : row'[r].status = "pending"
      BY <1>1, <1>2, ToPendingRows
<1>4. QED BY <1>0, <1>2, <1>3

\* A lineage is confirmed, by the confirmation phase or by a reconciliation.
LEMMA SettledStep ==
  ASSUME Inv, Books, NEW l \in TxId, at \notin {"execute", "down"}, at' = at,
         NEW w \in TxId, NEW a \in TxOrNone, RowsInflight(Members(l), l),
         UNCHANGED <<submitting, inbox, plan, sending, content, unreverted>>,
         row' = ToPending(ToConfirmed(row, Carried(l, w), w), Members(l) \ Carried(l, w), a),
         Requeue(Members(l) \ Carried(l, w), a),
         lin' = [lin EXCEPT ![l] = NoLineage]
  PROVE  Books'
<1>1. TypeOK
      BY DEF Inv
<1>2. \A k \in TxId \ {l} : lin'[k] = lin[k]
      BY <1>1 DEF TypeOK
<1>3. \A r \in Request : lin'[l].hist[r] = {}
      BY <1>1 DEF TypeOK, NoLineage
<1>4. /\ \A r \in Request \ Members(l) : row'[r] = row[r]
      /\ \A r \in Members(l) \ Carried(l, w) : row'[r].status = "pending"
      BY <1>1, ConfirmedRows
<1>5. QED BY <1>2, <1>3, <1>4, LeaveStep

\* The rows follow a confirmation: what the lineage held is final.
LEMMA ConfirmBooks ==
  ASSUME Inv, Books, NEW l \in TxId, HandleConfirmation(l)
  PROVE  Books'
<1>0. TypeOK
      BY DEF Inv
<1>1. /\ UNCHANGED <<submitting, inbox, plan, sending, content, unreverted, at>>
      /\ at = "confirm"
      BY DEF HandleConfirmation, Handled, chainVars, Settles, RowsSettled
<1>2. CASE UNCHANGED <<row, free, anchored, lin>>
      BY <1>0, <1>1, <1>2, StandingStep DEF Books, PlanOK
<1>3. CASE ~UNCHANGED <<row, free, anchored, lin>>
  <2>1. Carried(l, lin[l].winner) # {} /\ RowsInflight(Members(l), l)
        BY <1>3 DEF HandleConfirmation, Settles, RowsSettled
  <2>2. lin[l].winner \in TxId
        BY <1>0, <2>1, CarriedTx
  <2>3. PICK a \in AnchorFor(lin[l].winner, Members(l) \ Carried(l, lin[l].winner)) :
          /\ row' = ToPending(ToConfirmed(row, Carried(l, lin[l].winner), lin[l].winner),
                              Members(l) \ Carried(l, lin[l].winner), a)
          /\ Requeue(Members(l) \ Carried(l, lin[l].winner), a)
          /\ lin' = [lin EXCEPT ![l] = NoLineage]
        BY <1>3, <2>1 DEF HandleConfirmation, Settles, RowsSettled
  <2>4. a \in TxOrNone
        BY <2>2, AnchorType
  <2>5. QED BY <1>1, <2>1, <2>2, <2>3, <2>4, SettledStep
<1>4. QED BY <1>2, <1>3

\* A failed reconciliation puts the lineage back.
LEMMA RestoredHist ==
  ASSUME TypeOK, NEW l \in TxId, NEW k \in TxId
  PROVE  Restored(l)[k].hist = lin[k].hist
BY DEF TypeOK, Lineage, Restored

\* The rows follow the reconciliation of a lineage, whichever way it ends.
LEMMA ReconcileBooks ==
  ASSUME "funding" \notin Glitches, Inv, Books, NEW l \in TxId,
         \/ ReconcileNoSurvivor(l)
         \/ \E s \in TxId : ReconcileConfirmed(l, s) \/ ReconcileInMempool(l, s)
  PROVE  Books'
<1>0. TypeOK /\ lin[l] \in Lineage
      BY DEF Inv, TypeOK
<1>1. /\ UNCHANGED <<submitting, inbox, plan, sending, content, unreverted, at>>
      /\ at = "reconcile"
      BY DEF ReconcileNoSurvivor, ReconcileConfirmed, ReconcileInMempool, Handled, chainVars,
         Settles, RowsSettled, RowsAdopted, FundingLost
<1>2. CASE lin' = Restored(l) /\ UNCHANGED <<row, free, anchored>>
      BY <1>0, <1>1, <1>2, RestoredHist, StandingStep DEF Books, PlanOK
<1>3. CASE ReconcileNoSurvivor(l)
  <2>1. CASE ~RowsInflight(Members(l), l)
        BY <1>2, <1>3, <2>1 DEF ReconcileNoSurvivor
  <2>2. CASE RowsInflight(Members(l), l)
    <3>1. /\ row' = ToPending(row, Members(l), 0)
          /\ Requeue(Members(l), 0) /\ lin' = [lin EXCEPT ![l] = NoLineage]
          BY <1>3, <2>2 DEF ReconcileNoSurvivor
    <3>2. \A k \in TxId \ {l} : lin'[k] = lin[k]
          BY <1>0, <3>1 DEF TypeOK
    <3>3. \A r \in Request : lin'[l].hist[r] = {}
          BY <1>0, <3>1 DEF TypeOK, NoLineage
    <3>4. /\ \A r \in Request \ Members(l) : row'[r] = row[r]
          /\ \A r \in Members(l) : row'[r].status = "pending"
          BY <1>0, <3>1, ToPendingRows, TxIdFacts DEF TypeOK, Members
    <3>5. QED BY <1>1, <2>2, <3>1, <3>2, <3>3, <3>4, LeaveStep
  <2>3. QED BY <2>1, <2>2
<1>4. ASSUME NEW s \in TxId, ReconcileConfirmed(l, s) PROVE Books'
  <2>1. CASE ~(Carried(l, s) # {} /\ RowsInflight(Members(l), l))
        BY <1>2, <1>4, <2>1 DEF ReconcileConfirmed, Settles, RowsSettled
  <2>2. CASE Carried(l, s) # {} /\ RowsInflight(Members(l), l)
    <3>1. PICK a \in AnchorFor(s, Members(l) \ Carried(l, s)) :
            /\ row' = ToPending(ToConfirmed(row, Carried(l, s), s), Members(l) \ Carried(l, s), a)
            /\ Requeue(Members(l) \ Carried(l, s), a)
            /\ lin' = [lin EXCEPT ![l] = NoLineage]
          BY <1>4, <2>2 DEF ReconcileConfirmed, Settles, RowsSettled
    <3>2. a \in TxOrNone
          BY AnchorType
    <3>3. QED BY <1>1, <2>2, <3>1, <3>2, SettledStep
  <2>3. QED BY <2>1, <2>2
<1>5. ASSUME NEW s \in TxId, ReconcileInMempool(l, s) PROVE Books'
  <2>1. CASE ~(Carried(l, s) # {} /\ RowsInflight(Members(l), l))
        BY <1>2, <1>5, <2>1 DEF ReconcileInMempool, Settles, RowsAdopted, FundingLost
  <2>2. CASE Carried(l, s) # {} /\ RowsInflight(Members(l), l)
    <3> DEFINE stay == Carried(l, s)
               h == [r \in Request |-> IF r \in stay THEN lin[l].hist[r] ELSE {}]
               kept == [lin[l] EXCEPT !.head = s, !.misses = 0, !.hist = h]
    <3>1. /\ row' = ToPending(ToSurviving(row, stay, s), Members(l) \ stay, 0)
          /\ Requeue(Members(l) \ stay, 0)
          /\ lin' = [lin EXCEPT ![l] = kept]
          BY <1>5, <2>2 DEF ReconcileInMempool, Fault, Settles, RowsAdopted, FundingLost
    <3>2. stay \subseteq Members(l) /\ Members(l) \subseteq Request
          BY DEF Members, Carried
    <3>3. kept.hist = h
          BY <1>0 DEF Lineage
    <3>4. lin'[l].hist = h /\ \A k \in TxId \ {l} : lin'[k] = lin[k]
      <4> HIDE DEF kept, h
      <4>1. QED BY <1>0, <3>1, <3>3 DEF TypeOK
    <3>5. \A r \in Request : lin'[l].hist[r] # {} => r \in stay
          BY <3>4
    <3>6. PICK rows : rows = ToSurviving(row, stay, s)
          OBVIOUS
    <3>7. /\ rows \in [Request -> Row]
          /\ \A r \in Request \ stay : rows[r] = row[r]
          /\ \A r \in Request \cap stay : rows[r].status = row[r].status
                                          /\ rows[r].lineage = row[r].lineage
      <4> HIDE DEF stay
      <4>1. QED BY <1>0, <3>6, ToSurvivingRows DEF TypeOK
    <3>8. /\ \A r \in Request \ (Members(l) \ stay) : row'[r] = rows[r]
          /\ \A r \in Request \cap (Members(l) \ stay) : row'[r].status = "pending"
      <4> HIDE DEF stay
      <4>1. QED BY <3>1, <3>6, <3>7, ToPendingRows, TxIdFacts
    <3>9. /\ \A r \in Request \ Members(l) : row'[r] = row[r]
          /\ \A r \in Members(l) \ stay : row'[r].status = "pending"
          /\ \A r \in stay : row'[r].status = row[r].status /\ row'[r].lineage = row[r].lineage
      <4> HIDE DEF stay
      <4>1. QED BY <3>2, <3>7, <3>8
    <3> HIDE DEF stay, h, kept
    <3>10. PICK R : R = Members(l) \ stay
          OBVIOUS
    <3>11. /\ R \in SUBSET Members(l) /\ Requeue(R, 0)
           /\ \A r \in R : row'[r].status = "pending"
          BY <3>1, <3>9, <3>10
    <3>12. \A r \in Request : lin'[l].hist[r] # {} =>
             /\ r \in Members(l) \ R
             /\ row'[r].status = row[r].status /\ row'[r].lineage = row[r].lineage
          BY <3>2, <3>5, <3>9, <3>10
    <3>13. QED BY <1>1, <2>2, <3>4, <3>9, <3>11, <3>12, LeaveStep
  <2>3. QED BY <2>1, <2>2
<1>6. QED BY <1>3, <1>4, <1>5

\* A batch is made of pending requests.
LEMMA PlansFrom ==
  ASSUME NEW F \in SUBSET Request, NEW A \in SUBSET (Request \X TxId),
         NEW p \in Plans(F, A), NEW act \in p, NEW r \in act.reqs
  PROVE  r \in F \/ \E x \in A : x[1] = r
<1>1. \A g \in Groups(A) : g \in Action /\ \A z \in g.reqs : \E x \in A : x[1] = z
      BY GroupsType
<1>2. CASE act \in Groups(A)
      BY <1>1, <1>2
<1>3. CASE act = [anchor |-> 0, reqs |-> F]
      BY <1>3
<1>4. ASSUME NEW g \in Groups(A), act = [g EXCEPT !.reqs = @ \cup F]
      PROVE  r \in F \/ \E x \in A : x[1] = r
  <2>1. act.reqs = g.reqs \cup F
        BY <1>1, <1>4 DEF Action
  <2>2. QED BY <1>1, <2>1
<1>5. \/ p \subseteq Groups(A)
      \/ p = Groups(A) \cup {[anchor |-> 0, reqs |-> F]}
      \/ \E g \in Groups(A) : p = (Groups(A) \ {g}) \cup {[g EXCEPT !.reqs = @ \cup F]}
      BY PlansShape
<1>6. QED BY <1>2, <1>3, <1>4, <1>5

\* What a tick releases, drops and plans.
LEMMA PlannedFacts ==
  ASSUME TypeOK, PlanBatches
  PROVE  /\ \A r \in free' : r \in free \/ Anchored(r)
         /\ anchored' \subseteq anchored
         /\ \A p \in anchored' : p[1] \in free' => p[1] \in free
              \/ \E q \in anchored : q[1] = p[1] /\ q # p
         /\ \A act \in plan' : \A r \in act.reqs : r \in free' \/ \E p \in anchored' : p[1] = r
<1>1. PICK old \in SUBSET {p[2] : p \in anchored} :
        LET F == free \cup {p[1] : p \in {x \in anchored : x[2] \in old}}
            A == {p \in anchored : p[2] \notin old}
        IN \/ free' = F /\ anchored' = A /\ plan' \in Plans(F, A)
           \/ \E stale \in SUBSET (F \cup {p[1] : p \in A}) \ {{}} :
                /\ free' = F \ stale
                /\ anchored' = {p \in A : p[1] \notin stale}
                /\ plan' \in Plans(free', anchored')
      BY DEF PlanBatches, FreeAfter, AnchoredAfter
<1> DEFINE F == free \cup {p[1] : p \in {x \in anchored : x[2] \in old}}
           A == {p \in anchored : p[2] \notin old}
<1>2. /\ F \in SUBSET Request /\ A \in SUBSET (Request \X TxId) /\ A \subseteq anchored
      /\ \A r \in F : r \in free \/ \E p \in anchored : p[1] = r /\ p[2] \in old
      /\ \A p \in A : p[2] \notin old
      BY DEF TypeOK
<1>3. /\ free' \subseteq F /\ anchored' \subseteq A
      /\ plan' \in Plans(free', anchored')
  <2> HIDE DEF F, A
  <2>1. \/ free' = F /\ anchored' = A /\ plan' \in Plans(F, A)
        \/ \E stale \in SUBSET (F \cup {p[1] : p \in A}) \ {{}} :
             /\ free' = F \ stale
             /\ anchored' = {p \in A : p[1] \notin stale}
             /\ plan' \in Plans(free', anchored')
        BY <1>1 DEF F, A
  <2>2. QED BY <2>1
<1> HIDE DEF F, A
<1>4. \A act \in plan' : \A r \in act.reqs : r \in free' \/ \E p \in anchored' : p[1] = r
      BY <1>2, <1>3, PlansFrom
<1>5. \A r \in free' : r \in free \/ \E p \in anchored : p[1] = r /\ p[2] \in old
      BY <1>2, <1>3
<1>6. \A p \in anchored' : p \in anchored /\ p[2] \notin old
      BY <1>2, <1>3
<1>7. QED BY <1>4, <1>5, <1>6 DEF Anchored

\* Planning takes requests from the queue and puts each of them in one action.
LEMMA PlanBooks == Inv /\ Books /\ PlanBatches => Books'
<1> SUFFICES ASSUME Inv, Books, PlanBatches PROVE Books'
    OBVIOUS
<1>0. /\ \A r \in free' : r \in free \/ Anchored(r)
      /\ anchored' \subseteq anchored
      /\ \A p \in anchored' : p[1] \in free' => p[1] \in free
           \/ \E q \in anchored : q[1] = p[1] /\ q # p
      /\ \A act \in plan' : \A r \in act.reqs : r \in free' \/ \E p \in anchored' : p[1] = r
      BY PlannedFacts DEF Inv
<1>1. /\ UNCHANGED <<content, unreverted, row, submitting, inbox, lin, sending>>
      /\ at = "reconcile" /\ at' = "execute"
      BY DEF PlanBatches, chainVars, FreeAfter, AnchoredAfter
<1>2. sending.tx = 0
      BY <1>1 DEF Inv, SendingInv
<1>3. PlanOK' /\ DownOK'
      BY <1>0, <1>1 DEF PlanOK, DownOK, Anchored
<1>4. ASSUME NEW r \in Request PROVE RequestOK(r)'
  <2>1. RequestOK(r)
        BY DEF Books
  <2>2. ~Paying(r) /\ ~Paying(r)'
        BY <1>1, <1>2 DEF Paying
  <2>3. Anchored(r)' => Anchored(r)
        BY <1>0 DEF Anchored
  <2>4. r \in free' => ~Anchored(r)'
    <3>1. ASSUME r \in free', NEW p \in anchored', p[1] = r PROVE FALSE
      <4>1. p \in anchored /\ (r \in free \/ \E q \in anchored : q[1] = r /\ q # p)
            BY <1>0, <3>1
      <4>2. r \in free => ~Anchored(r)
            BY <2>1 DEF RequestOK
      <4>3. \A q \in anchored : q[1] = r => q = p
            BY <2>1, <3>1, <4>1 DEF RequestOK
      <4>4. QED BY <3>1, <4>1, <4>2, <4>3 DEF Anchored
    <3>2. QED BY <3>1 DEF Anchored
  <2>5. Waits(r)' => Waits(r)
        BY <1>0, <1>1, <2>3 DEF Waits
  <2>6. \A p, q \in anchored' : p[1] = r /\ q[1] = r => p = q
        BY <1>0, <2>1 DEF RequestOK
  <2>7. r \in free' \/ Anchored(r)' => r \notin submitting /\ r \notin inbox
        BY <1>0, <2>1, <2>3 DEF RequestOK
  <2>8. r \in submitting => r \notin inbox
        BY <2>1 DEF RequestOK
  <2>9. \A l \in TxId : lin'[l].hist[r] # {} => row'[r].status = "inflight" /\ row'[r].lineage = l
        BY <1>1, <2>1 DEF RequestOK
  <2>10. Waits(r)' => /\ \A l \in TxId : lin'[l].hist[r] = {}
                      /\ row'[r].status = "pending" \/ r \in Stranded'
        BY <1>1, <2>1, <2>2, <2>5 DEF RequestOK, Stranded
  <2>11. QED BY <1>1, <2>2, <2>4, <2>6, <2>7, <2>8, <2>9, <2>10 DEF RequestOK
<1>5. QED BY <1>3, <1>4 DEF Books

\* A batch is recorded: its rows go inflight before its requests leave memory.
LEMMA PersistBooks ==
  ASSUME Inv, Books, NEW act \in plan, NEW t \in TxId, PersistBroadcast(act, t)
  PROVE  Books'
<1>0. TypeOK /\ act.reqs \subseteq Request
      BY DEF Inv, TypeOK, Action
<1>1. /\ UNCHANGED <<submitting, inbox, free, anchored, lin, at, unreverted>>
      /\ at = "execute" /\ sending.tx = 0 /\ plan' \subseteq plan
      BY DEF PersistBroadcast, memVars, NoBatch, Executes
<1>2. CASE ~RowsPending(act.reqs)
  <2>1. UNCHANGED <<row, content, sending>>
        BY <1>2 DEF PersistBroadcast, Executes
  <2>2. QED BY <1>0, <1>1, <2>1, StandingStep
<1>3. CASE RowsPending(act.reqs)
  <2>1. /\ row' = ToInflight(row, act.reqs, t, t)
        /\ content' = [content EXCEPT ![t] = act.reqs]
        /\ sending' = [tx |-> t, reply |-> "none"]
        BY <1>3 DEF PersistBroadcast, Executes
  <2>2. sending'.tx = t /\ t # 0 /\ content'[t] = act.reqs
        BY <1>0, <2>1, TxIdFacts DEF TypeOK
  <2>3. \A r : Paying(r)' <=> r \in act.reqs
        BY <2>2 DEF Paying
  <2>4. \A r : ~Paying(r)
        BY <1>1 DEF Paying
  <2>5. /\ \A r \in Request \ act.reqs : row'[r] = row[r]
        /\ \A r \in act.reqs : row[r].status = "pending"
    <3>1. row \in [Request -> Row]
          BY <1>0 DEF TypeOK
    <3>2. \A r \in Request \ act.reqs : row'[r] = row[r]
          BY <2>1 DEF ToInflight
    <3>3. QED BY <1>3, <3>2 DEF RowsPending
  <2>6. PlanOK' /\ DownOK'
        BY <1>1 DEF Books, PlanOK, DownOK, Anchored
  <2>7. ASSUME NEW r \in Request, r \notin act.reqs PROVE RequestOK(r)'
    <3>1. RequestOK(r) /\ (Paying(r)' <=> Paying(r))
          BY <2>3, <2>4, <2>7 DEF Books
    <3>2. QED BY <1>1, <2>5, <2>7, <3>1, SameRequest
  <2>8. ASSUME NEW r \in Request, r \in act.reqs PROVE RequestOK(r)'
    <3>1. RequestOK(r) /\ row[r].status = "pending" /\ Paying(r)'
          BY <2>3, <2>5, <2>8 DEF Books
    <3>2. \A l \in TxId : lin[l].hist[r] = {}
          BY <3>1 DEF RequestOK
    <3>3. r \in free \/ Anchored(r)
          BY <2>8, <3>2 DEF Books, PlanOK
    <3>4. QED BY <1>1, <3>1, <3>2, <3>3 DEF RequestOK, Anchored
  <2>9. QED BY <2>6, <2>7, <2>8 DEF Books
<1>4. QED BY <1>2, <1>3

\* The node took it: the requests move from pending to the new lineage.
LEMMA AcceptedBooks == Inv /\ Books /\ BatchAccepted => Books'
<1> SUFFICES ASSUME Inv, Books, BatchAccepted PROVE Books'
    OBVIOUS
<1> DEFINE t == sending.tx
<1>0. TypeOK
      BY DEF Inv
<1>1. /\ UNCHANGED <<content, unreverted, row, submitting, inbox, at, plan>>
      /\ free' = free \ content[t]
      /\ anchored' = {p \in anchored : p[1] \notin content[t]}
      /\ sending' = NoBatch
      BY DEF BatchAccepted, chainVars, NewLineage
<1>2. t \in TxId /\ at = "execute" /\ Members(t) = {}
      BY <1>0, TxIdFacts DEF BatchAccepted, Inv, SendingInv, TypeOK, NewLineage
<1>3. \A r \in content[t] : /\ r \in Request
                            /\ row[r].status = "inflight" /\ row[r].lineage = t
      BY <1>0, <1>2, TxIdFacts DEF Inv, SendingInv, TypeOK
<1>4. \A r \in Request : lin'[t].hist[r] = IF r \in content[t] THEN {t} ELSE {}
      BY <1>0, <1>2 DEF BatchAccepted, TypeOK, NewLineage
<1>5. \A k \in TxId \ {t} : lin'[k] = lin[k]
      BY <1>0, <1>2 DEF BatchAccepted, TypeOK, NewLineage
<1>6. \A r : ~Paying(r)'
      BY <1>1 DEF Paying, NoBatch
<1>7. \A r : Paying(r) <=> r \in content[t]
      BY <1>2, TxIdFacts DEF Paying
<1> HIDE DEF t
<1>8. \A r \in Request : \A k \in TxId : lin[k].hist[r] # {} => k # t
      BY <1>2 DEF Members
<1>9. PlanOK' /\ DownOK'
  <2>1. ASSUME NEW act \in plan, NEW r \in act.reqs
        PROVE  r \in free' \/ Anchored(r)' \/ \E l \in TxId : lin'[l].hist[r] # {}
    <3>1. r \in Request
          BY <1>0 DEF TypeOK, Action
    <3>2. CASE r \in content[t]
          BY <1>2, <1>4, <3>1, <3>2
    <3>3. CASE r \notin content[t]
      <4>1. r \in free \/ Anchored(r) \/ \E l \in TxId : lin[l].hist[r] # {}
            BY DEF Books, PlanOK
      <4>2. r \in free => r \in free'
            BY <1>1, <3>3
      <4>3. Anchored(r) => Anchored(r)'
            BY <1>1, <3>3 DEF Anchored
      <4>4. QED BY <1>5, <1>8, <3>1, <4>1, <4>2, <4>3
    <3>4. QED BY <3>2, <3>3
  <2>2. QED BY <1>1, <1>2, <2>1 DEF PlanOK, DownOK
<1>10. ASSUME NEW r \in Request, r \notin content[t] PROVE RequestOK(r)'
  <2>1. RequestOK(r) /\ (Paying(r)' <=> Paying(r))
        BY <1>6, <1>7, <1>10 DEF Books
  <2>2. \A l \in TxId : lin'[l].hist[r] # {} => lin[l].hist[r] # {}
        BY <1>4, <1>5, <1>10
  <2>3. r \in free' <=> r \in free
        BY <1>1, <1>10
  <2>4. \A p : p[1] = r => (p \in anchored' <=> p \in anchored)
        BY <1>1, <1>10
  <2>5. QED BY <1>1, <2>1, <2>2, <2>3, <2>4, SameRequest
<1>11. ASSUME NEW r \in Request, r \in content[t] PROVE RequestOK(r)'
  <2>1. RequestOK(r) /\ Paying(r) /\ row[r].status = "inflight" /\ row[r].lineage = t
        BY <1>3, <1>7, <1>11 DEF Books
  <2>2. r \notin submitting /\ r \notin inbox
        BY <2>1 DEF RequestOK
  <2>3. r \notin free' /\ \A p \in anchored' : p[1] # r
        BY <1>1, <1>11
  <2>4. \A l \in TxId : lin'[l].hist[r] # {} => l = t
        BY <1>5, <2>1 DEF RequestOK
  <2>5. QED BY <1>1, <1>6, <2>1, <2>2, <2>3, <2>4 DEF RequestOK, Waits, Anchored
<1>12. QED BY <1>9, <1>10, <1>11 DEF Books

\* The node refused it: the rows go back to pending, where memory has them.
LEMMA RejectedBooks == Inv /\ Books /\ BatchRejected => Books'
<1> SUFFICES ASSUME Inv, Books, BatchRejected PROVE Books'
    OBVIOUS
<1> DEFINE t == sending.tx
<1>0. TypeOK
      BY DEF Inv
<1>1. /\ UNCHANGED <<submitting, inbox, free, anchored, lin, at, plan, unreverted>>
      /\ row' = Reverted(row, content[t], t) /\ sending' = NoBatch
      BY DEF BatchRejected, memVars
<1>2. t \in TxId /\ at = "execute"
      BY <1>0, TxIdFacts DEF BatchRejected, Inv, SendingInv, TypeOK
<1>3. \A r : ~Paying(r)'
      BY <1>1 DEF Paying, NoBatch
<1>4. \A r : Paying(r) <=> r \in content[t]
      BY <1>2, TxIdFacts DEF Paying
<1>5. /\ \A r \in Request \ content[t] : row'[r] = row[r]
      /\ \A r \in Request \cap content[t] : row'[r].status = "pending"
      BY <1>0, <1>1, RevertedRows DEF TypeOK
<1>6. \A r \in content[t] : \A l \in TxId : lin[l].hist[r] # {} => l = t
  <2>1. \A r \in content[t] : row[r].lineage = t
        BY <1>2, TxIdFacts DEF Inv, SendingInv
  <2>2. content[t] \subseteq Request
        BY <1>0, <1>2 DEF TypeOK
  <2>3. QED BY <2>1, <2>2 DEF Books, RequestOK
<1>7. \A r \in Request : lin[t].hist[r] = {}
      BY <1>2, TxIdFacts DEF Inv, SendingInv, Members
<1> HIDE DEF t
<1>8. PlanOK' /\ DownOK'
      BY <1>1 DEF Books, PlanOK, DownOK, Anchored
<1>9. ASSUME NEW r \in Request, r \notin content[t] PROVE RequestOK(r)'
  <2>1. RequestOK(r) /\ (Paying(r)' <=> Paying(r))
        BY <1>3, <1>4, <1>9 DEF Books
  <2>2. QED BY <1>1, <1>5, <1>9, <2>1, SameRequest
<1>10. ASSUME NEW r \in Request, r \in content[t] PROVE RequestOK(r)'
  <2>1. RequestOK(r) /\ row'[r].status = "pending" /\ \A l \in TxId : lin[l].hist[r] = {}
        BY <1>5, <1>6, <1>7, <1>10 DEF Books
  <2>2. QED BY <1>1, <1>3, <2>1 DEF RequestOK, Waits, Anchored
<1>11. QED BY <1>8, <1>9, <1>10 DEF Books

\* The rows of the refused batch stay inflight, and its requests wait.
LEMMA RevertFailsBooks == Inv /\ Books /\ RevertFails => Books'
<1> SUFFICES ASSUME Inv, Books, RevertFails PROVE Books'
    OBVIOUS
<1> DEFINE t == sending.tx
<1>0. TypeOK
      BY DEF Inv
<1>1. /\ UNCHANGED <<submitting, inbox, free, anchored, lin, at, plan, row, content>>
      /\ sending' = NoBatch /\ unreverted' = unreverted \cup {t}
      BY DEF RevertFails, memVars
<1>2. t \in TxId /\ t # 0
      BY <1>0, TxIdFacts DEF RevertFails, Inv, SendingInv, TypeOK
<1>3. \A r : ~Paying(r)'
      BY <1>1 DEF Paying, NoBatch
<1>4. \A r : Paying(r) <=> r \in content[t]
      BY <1>2 DEF Paying
<1>5. /\ \A r \in content[t] : /\ row[r].status = "inflight" /\ row[r].head = t
                               /\ row[r].lineage = t
      /\ \A r \in Request : lin[t].hist[r] = {}
      BY <1>2 DEF Inv, SendingInv, Members
<1> HIDE DEF t
<1>6. PlanOK' /\ DownOK'
      BY <1>1 DEF Books, PlanOK, DownOK, Anchored
<1>7. ASSUME NEW r \in Request, r \notin content[t] PROVE RequestOK(r)'
  <2>1. RequestOK(r) /\ (Paying(r)' <=> Paying(r))
        BY <1>3, <1>4, <1>7 DEF Books
  <2>2. QED BY <1>1, <1>7, <2>1, SameRequest
<1>8. ASSUME NEW r \in Request, r \in content[t] PROVE RequestOK(r)'
  <2>1. RequestOK(r) /\ \A l \in TxId : lin[l].hist[r] = {}
        BY <1>5, <1>8 DEF Books, RequestOK
  <2>2. r \in Stranded'
        BY <1>1, <1>5, <1>8 DEF Stranded
  <2>3. QED BY <1>1, <1>3, <2>1, <2>2 DEF RequestOK, Waits, Anchored
<1>9. QED BY <1>6, <1>7, <1>8 DEF Books

\* After a crash memory is empty, as the rows of what is not in flight say.
LEMMA CrashBooks == Inv /\ Crash => Books'
<1> SUFFICES ASSUME Inv, Crash PROVE Books'
    OBVIOUS
<1>1. /\ submitting' = {} /\ inbox' = {} /\ free' = {} /\ anchored' = {} /\ plan' = {}
      /\ sending'.tx = 0
      BY DEF Crash, NoBatch
<1>2. \A l \in TxId : \A r \in Request : lin'[l].hist[r] = {}
      BY DEF Crash, NoLineage
<1>3. QED BY <1>1, <1>2 DEF Books, RequestOK, PlanOK, DownOK, Waits, Anchored, Paying

\* What the rows say is where restore puts the requests.
LEMMA RestoreBooks == Inv /\ Books /\ Restore => Books'
<1> SUFFICES ASSUME Inv, Books, Restore PROVE Books'
    OBVIOUS
<1>0. at = "down" /\ sending.tx = 0 /\ plan = {}
      BY DEF Restore, Inv, SendingInv, Books, PlanOK
<1>1. /\ UNCHANGED <<row, submitting, inbox, plan, sending>> /\ at' = "recover"
      /\ submitting = {} /\ inbox = {}
      BY <1>0 DEF Restore, Books, DownOK
<1>2. /\ \A r \in free' : r \in Request /\ row[r].status = "pending"
      /\ \A p \in anchored' : p[1] \notin free' /\ row[p[1]].status = "pending"
                              /\ p = <<p[1], row[p[1]].anchor>>
      BY DEF Restore
<1>3. \A l \in TxId : \A r \in Request : lin'[l].hist[r] # {} => r \in Inflight(l)
      BY DEF Restore, RestoredLineage, NoLineage
<1>4. PlanOK' /\ DownOK'
      BY <1>0, <1>1 DEF PlanOK, DownOK
<1>5. ASSUME NEW r \in Request PROVE RequestOK(r)'
  <2>1. ~Paying(r)'
        BY <1>0, <1>1 DEF Paying
  <2>2. \A p, q \in anchored' : p[1] = r /\ q[1] = r => p = q
        BY <1>2
  <2>3. Waits(r)' => row[r].status = "pending"
        BY <1>1, <1>2 DEF Waits, Anchored
  <2>4. \A l \in TxId : lin'[l].hist[r] # {} => row[r].status = "inflight" /\ row[r].lineage = l
        BY <1>3 DEF Inflight
  <2>5. r \in free' => ~Anchored(r)'
        BY <1>2 DEF Anchored
  <2>6. Waits(r)' => \A l \in TxId : lin'[l].hist[r] = {}
        BY <2>3, <2>4
  <2>7. QED BY <1>1, <2>1, <2>2, <2>3, <2>4, <2>5, <2>6 DEF RequestOK
<1>6. QED BY <1>4, <1>5 DEF Books

\* Every step keeps the books, as long as the funding query does not fail.
LEMMA BooksStep == "funding" \notin Glitches /\ Inv /\ Books /\ [Next]_vars => Books'
<1> SUFFICES ASSUME "funding" \notin Glitches, Inv, Books, [Next]_vars PROVE Books'
    OBVIOUS
<1>1. CASE UNCHANGED vars
  <2>1. UNCHANGED <<submitting, inbox, free, anchored, lin, row, content, unreverted,
                    sending, plan, at>>
        BY <1>1 DEF vars, chainVars, memVars, tickVars
  <2>2. QED BY <2>1 DEF Books, RequestOK, PlanOK, DownOK, Waits, Anchored, Paying, Stranded
<1>2. CASE Confirming \/ Observing
      BY <1>2, ConfirmBooks, PhasesBooks DEF Confirming, Observing
<1>3. CASE Reconciling
      BY <1>3, ReconcileBooks, PhasesBooks DEF Reconciling
<1>4. CASE Executing
      BY <1>4, PersistBooks, AcceptedBooks, RejectedBooks, RevertFailsBooks, PhasesBooks
         DEF Executing
<1>5. CASE Recovering
      BY <1>5, RestoreBooks, PhasesBooks DEF Recovering
<1>6. CASE TickBegins \/ ObserveBegins \/ ReconcileBegins \/ TickEnds
      BY <1>6, PhasesBooks
<1>7. QED BY <1>1, <1>2, <1>3, <1>4, <1>5, <1>6, NetworkBooks, RequestsBooks, PlanBooks,
          CrashBooks DEF Next, Runner

\* The books are right at the start: there is no request.
LEMMA InitBooks == Init => Books
<1> SUFFICES ASSUME Init PROVE Books
    OBVIOUS
<1>1. /\ submitting = {} /\ inbox = {} /\ free = {} /\ anchored = {} /\ plan = {}
      /\ sending.tx = 0 /\ \A l \in TxId : \A r \in Request : lin[l].hist[r] = {}
      BY DEF Init, NoBatch, NoLineage
<1>2. QED BY <1>1 DEF Books, RequestOK, PlanOK, DownOK, Waits, Anchored, Paying

\* The books are right in every reachable state.
LEMMA BooksHold ==
  ASSUME "funding" \notin Glitches
  PROVE  Spec => []Books
<1>1. Inv /\ Books /\ [Next]_vars => Books'
      BY BooksStep
<1>2. QED BY InitBooks, InvHolds, <1>1, PTL DEF Spec

\* The database agrees with memory at every step, so that a crash loses nothing
\* that recovery would not find, as long as reconciliation can load the
\* survivor's funding inputs. The rows that a failed revert_broadcast leaves
\* inflight are the only ones that do not say where memory has the request.
THEOREM RowsMirrorMemoryHolds ==
  ASSUME "funding" \notin Glitches
  PROVE  Spec => []RowsMirrorMemory
<1>1. Inv /\ Books => RowsMirrorMemory
  <2> SUFFICES ASSUME Inv, Books PROVE RowsMirrorMemory
      OBVIOUS
  <2>1. \A l \in TxId : RowsInflight(Members(l), l)
        BY DEF Books, RequestOK, RowsInflight, Members
  <2>2. ASSUME NEW r \in (submitting \cup inbox \cup Waiting)
                 \ (Stranded \cup UNION {content[t] : t \in {sending.tx} \ {0}})
        PROVE  row[r].status = "pending"
    <3>1. r \in Request
          BY DEF Inv, TypeOK, Waiting
    <3>2. Waits(r)
          BY DEF Waits, Anchored, Waiting
    <3>3. ~Paying(r)
          BY DEF Paying
    <3>4. QED BY <3>1, <3>2, <3>3 DEF Books, RequestOK
  <2>3. QED BY <2>1, <2>2 DEF RowsMirrorMemory, RowsPending
<1>2. QED BY InvHolds, BooksHold, <1>1, PTL

\* No crash, refusal or reconciliation leaves a request in two places of the
\* runner's memory, from where it would be paid by two lineages.
THEOREM HeldOnceHolds ==
  ASSUME "funding" \notin Glitches
  PROVE  Spec => []HeldOnce
<1>1. Inv /\ Books => HeldOnce
  <2> SUFFICES ASSUME Inv, Books, NEW r \in Request PROVE Cardinality(Places(r)) <= 1
      BY DEF HeldOnce
  <2>0. RequestOK(r)
        BY DEF Books
  <2>1. \A l \in TxId : r \in Members(l) => row[r].lineage = l
        BY <2>0 DEF RequestOK, Members
  <2>2. \A l \in TxId : r \in Members(l) => ~Waits(r)
        BY <2>0 DEF RequestOK, Members
  <2>3. \A x, y \in Places(r) : x = y
    <3>1. \A x \in Places(r) :
            \/ x = <<"submitting", submitting>> /\ r \in submitting
            \/ x = <<"inbox", inbox>> /\ r \in inbox
            \/ x = <<"free", free>> /\ r \in free
            \/ \E p \in anchored : p[1] = r /\ x = <<"anchored", p>>
            \/ \E l \in TxId : r \in Members(l) /\ x = <<"lineage", l>>
          BY DEF Places
    <3>2. TAKE x, y \in Places(r)
    <3>3. CASE \E l \in TxId : r \in Members(l)
          BY <2>1, <2>2, <3>1, <3>3 DEF Waits, Anchored
    <3>4. CASE \A l \in TxId : r \notin Members(l)
          BY <2>0, <3>1, <3>4 DEF RequestOK, Anchored
    <3>5. QED BY <3>3, <3>4
  <2>4. CASE Places(r) = {}
        BY <2>4, FS_EmptySet
  <2>5. ASSUME NEW x \in Places(r) PROVE Cardinality(Places(r)) <= 1
    <3>1. Places(r) = {x}
          BY <2>3
    <3>2. Cardinality({x}) = 1
          BY FS_Singleton
    <3>3. QED BY <3>1, <3>2
  <2>6. QED BY <2>4, <2>5
<1>2. QED BY InvHolds, BooksHold, <1>1, PTL
=============================================================================
