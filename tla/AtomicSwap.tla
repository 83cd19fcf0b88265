----------------------------- MODULE AtomicSwap -----------------------------
(***************************************************************************)
(* What a uniPay trade promises, seen from the two ledgers alone: a source *)
(* leg funded by the customer and a destination leg locked by the solver.  *)
(* Nothing here knows of databases, caches, watchers or executors; module  *)
(* SwapSettlement is the system that has to implement it.                  *)
(*                                                                         *)
(* The two rules that make the trade a trade are the guards of LockDst     *)
(* (the solver never locks for an order nobody paid into) and of ClaimSrc  *)
(* (the solver never takes the customer's deposit while its own leg could  *)
(* still go either way).                                                   *)
(***************************************************************************)
VARIABLES
  src,   \* the source HTLC: unfunded, funded, gone, claimed or returned
  dst    \* the destination HTLC: none, locked, claimed or returned

vars == <<src, dst>>

SrcState == {"unfunded", "funded", "gone", "claimed", "returned"}
DstState == {"none", "locked", "claimed", "returned"}

TypeOK == src \in SrcState /\ dst \in DstState

Init == src = "unfunded" /\ dst = "none"

Fund == src = "unfunded" /\ src' = "funded" /\ UNCHANGED dst

\* An unconfirmed deposit can be replaced by its sender.
Vanish == src = "funded" /\ src' = "gone" /\ UNCHANGED dst

LockDst ==
  /\ dst = "none"
  /\ src # "unfunded"
  /\ dst' = "locked"
  /\ UNCHANGED src

CloseDst ==
  /\ dst = "locked"
  /\ dst' \in {"claimed", "returned"}
  /\ UNCHANGED src

ClaimSrc ==
  /\ src = "funded"
  /\ dst \in {"claimed", "returned"}
  /\ src' = "claimed"
  /\ UNCHANGED dst

ReturnSrc == src = "funded" /\ src' = "returned" /\ UNCHANGED dst

Next == Fund \/ Vanish \/ LockDst \/ CloseDst \/ ClaimSrc \/ ReturnSrc

Spec == Init /\ [][Next]_vars
=============================================================================
