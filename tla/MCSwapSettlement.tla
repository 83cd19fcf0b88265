-------------------------- MODULE MCSwapSettlement --------------------------
(***************************************************************************)
(* Instances of SwapSettlement for TLC. The configurations choose the      *)
(* timelocks, whether the customer signed an instant refund, whether       *)
(* unconfirmed transactions can disappear, and the two bounds.             *)
(***************************************************************************)
EXTENDS SwapSettlement
=============================================================================
