-------------------------- MODULE MCOrderExecution --------------------------
(* A purchase and a smaller sale of one instrument. *)
EXTENDS OrderExecution, TLC

CONSTANTS o1, o2

SignedQuantity == o1 :> 2 @@ o2 :> -1
=============================================================================
