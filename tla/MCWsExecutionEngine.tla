------------------------ MODULE MCWsExecutionEngine ------------------------
(* Orders on one symbol, which share its subscription. *)
EXTENDS WsExecutionEngine

CONSTANTS s1

OneSymbol == [o \in OrderIds |-> s1]
=============================================================================
