--------------------------- MODULE MCFundManager ---------------------------
(***************************************************************************)
(* Model checking of FundManager, where every closing fill books a loss.   *)
(***************************************************************************)
EXTENDS FundManager

Loss == {-1}
=============================================================================
