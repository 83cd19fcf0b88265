---------------------------- MODULE MCBtcWallet -----------------------------
(***************************************************************************)
(* BtcWallet for TLC. Two requests, of which b spends an HTLC and a pays   *)
(* an address: a competes with nothing, b with every other transaction     *)
(* that pays b. The run of the bookkeeping has a third one, and outputs    *)
(* for two of the three in a batch. Requests are not interchangeable, so   *)
(* there is no symmetry.                                                   *)
(***************************************************************************)
EXTENDS BtcWallet
=============================================================================
