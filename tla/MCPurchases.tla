----------------------------- MODULE MCPurchases -----------------------------
(***************************************************************************)
(* Instances of Purchases for TLC.                                         *)
(***************************************************************************)
EXTENDS Purchases

=============================================================================
