------------------------------ MODULE MCPayout ------------------------------
(***************************************************************************)
(* Instances of Payout for TLC.  A wallet of two with requests for one or  *)
(* two: a second request may be covered or not, and three keys let one be  *)
(* rejected, one approved and one be under way.                            *)
(***************************************************************************)
EXTENDS Payout

RequestAmounts == { 1, 2 }
=============================================================================
