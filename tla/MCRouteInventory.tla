---------------------------- MODULE MCRouteInventory ----------------------------
(* The tokens of one route for TLC: two roots, one token of the time before *)
(* the relay kept an inventory, clocks and failed saves.                     *)
EXTENDS RouteInventory

CONSTANTS r1, r2, A, B, l1, l2

Ad(r, root, e, i) == [route |-> r, root |-> root, expires |-> e, id |-> i]
Token(r, root, at, v) == [route |-> r, root |-> root, issued |-> at, validity |-> v]

OneReceiver == [k \in Routes |-> k]
TokenAds == {Ad(r1, A, 9, 1), Ad(r1, B, 9, 2)}
NoOffers == {}
OldToken == {Token(r1, A, 1, 2)}
=============================================================================
