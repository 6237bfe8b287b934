------------------------------- MODULE MCServer -------------------------------
(* A purchase and the sale of a holding to settle, contracts with profits and *)
(* losses to close, orders of two sizes against each other, clients that      *)
(* share a symbol in the same or in another mode, and requests that cross,    *)
(* watchers that outlive a stop or a WebSocket engine with its fallback.      *)
EXTENDS Server, TLC

BoughtAndSold == 1 :> 1 @@ 2 :> -1
HeldBefore == 2 :> 1
ClosingPnl == 1 :> 3 @@ 2 :> -1 @@ 3 :> 5
OrderQuantities == {1, -2}
OneOrTwoConnections ==
    {[limit |-> 1, keepAlive |-> TRUE,
      feeds |-> <<{<<1, 1>>, <<2, 1>>}, {<<1, 1>>, <<1, 2>>}>>],
     [limit |-> 2, keepAlive |-> FALSE,
      feeds |-> <<{<<1, 1>>}, {<<2, 1>>}>>]}
WithAndWithoutFallback ==
    {[fallback |-> FALSE, requests |-> {1, 2}, watchers |-> {1}],
     [fallback |-> FALSE, requests |-> {1}, watchers |-> {1, 2}],
     [fallback |-> TRUE, requests |-> {1}, watchers |-> {1}]}
=============================================================================
