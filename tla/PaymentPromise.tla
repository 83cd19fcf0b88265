--------------------------- MODULE PaymentPromise ---------------------------
(***************************************************************************)
(* What the Bitcoin wallet promises those who hand it payment requests,    *)
(* told of the requests and of what the chain has paid, and of nothing     *)
(* else: no lineages, batches, ticks or restarts. Module BtcWallet is the  *)
(* machinery that has to keep it.                                          *)
(*                                                                         *)
(* A payment is kept when the network never lost the transaction it is in, *)
(* and stray otherwise: dropped once and mined after all, or taken by a    *)
(* node whose answer was lost. The wallet cannot promise that no stray     *)
(* payment is made; it promises that of kept ones there is never a second, *)
(* because it gives up no request that a kept payment has been made for.   *)
(***************************************************************************)
CONSTANTS Request, Tx

VARIABLES
  status,  \* of each request: absent, pending, inflight or confirmed
  kept,    \* the mined transactions that pay it and were never lost
  stray    \* the mined transactions that pay it and were lost once

vars == <<status, kept, stray>>

With(status_, R, s) == [r \in Request |-> IF r \in R THEN s ELSE status_[r]]
Credited(paid, R, t) == [r \in Request |-> IF r \in R THEN paid[r] \cup {t} ELSE paid[r]]
Unpaid(R) == \A r \in R : kept[r] = {}

Init ==
  /\ status = [r \in Request |-> "absent"]
  /\ kept = [r \in Request |-> {}] /\ stray = [r \in Request |-> {}]

Accept(r) ==
  /\ status[r] = "absent"
  /\ status' = With(status, {r}, "pending")
  /\ UNCHANGED <<kept, stray>>

\* A transaction is made for the requests R, none of which is paid.
Undertake(R) ==
  /\ \A r \in R : status[r] = "pending"
  /\ Unpaid(R)
  /\ status' = With(status, R, "inflight")
  /\ UNCHANGED <<kept, stray>>

\* It is mined: the first kept payment of each of them, while they wait for it.
Pay(t, R) ==
  /\ \A r \in R : status[r] = "inflight"
  /\ Unpaid(R)
  /\ kept' = Credited(kept, R, t)
  /\ UNCHANGED <<status, stray>>

PayLate(t, R) ==
  /\ stray' = Credited(stray, R, t)
  /\ UNCHANGED <<status, kept>>

\* The requests P have been paid and are done with; those of G have not, and
\* wait for another transaction.
Resolve(P, G) ==
  /\ \A r \in P \cup G : status[r] = "inflight"
  /\ \A r \in P : kept[r] \cup stray[r] # {}
  /\ Unpaid(G)
  /\ status' = With(With(status, P, "confirmed"), G, "pending")
  /\ UNCHANGED <<kept, stray>>

Next ==
  \/ \E r \in Request : Accept(r)
  \/ \E R \in SUBSET Request : Undertake(R)
  \/ \E t \in Tx, R \in SUBSET Request : Pay(t, R) \/ PayLate(t, R)
  \/ \E P, G \in SUBSET Request : P \cap G = {} /\ Resolve(P, G)

Spec == Init /\ [][Next]_vars
=============================================================================
