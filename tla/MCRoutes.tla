------------------------------ MODULE MCRoutes ------------------------------
(* RouteInventory and CarrierQueue for TLC.  The inventory decides which    *)
(* routes are admitted, the queues only see that a route was removed or     *)
(* approved again, so a behaviour exercises one of the two: the tokens of   *)
(* one route under clocks and failed saves, or the carriers of two routes   *)
(* that share the global limits, the first with a pairing as well.          *)
EXTENDS MCRouteInventory, CarrierQueue

CONSTANTS l3, c2

VARIABLE part

TwoRoutes == [x \in Handlers |-> IF x = l3 THEN r2 ELSE r1]
SomePairing == [x \in Handlers |-> IF x \in {l2, c2} THEN "pairing" ELSE "runtime"]
SameTerms == [x \in Handlers |-> 1]
Pending1 == [k \in Kinds |-> 1]

RoutesInit ==
    /\ part \in {"inventory", "carriers"} /\ InventoryInit /\ CarrierInit
    /\ part = "carriers" => now = 1
RoutesNext ==
    \/ part = "inventory" /\ InventoryNext /\ UNCHANGED <<part, carrierVars>>
    \/ part = "carriers" /\ CarrierNext /\ UNCHANGED <<part, inventoryVars>>
RoutesSpec == RoutesInit /\ [][RoutesNext]_<<part, inventoryVars, carrierVars>>
=============================================================================
