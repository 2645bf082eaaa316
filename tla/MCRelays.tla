------------------------------ MODULE MCRelays ------------------------------
(* What the two relays hold in memory, for TLC: the sessions of the v1 relay *)
(* (RelayService, the instance OneRoute) and the advertisement caches of the *)
(* receiver-owned relay (RouteInventory with two routes, one live and one    *)
(* pending place).  They are different programs, so a behaviour exercises    *)
(* one of them; the symmetry only permutes carriers of the v1 relay.         *)
EXTENDS MCRelayService, RouteInventory

CONSTANTS r2, A, l1

VARIABLE relay

Advertised(route, expires, id) ==
  [route |-> route, root |-> A, expires |-> expires, id |-> id]

TwoRoutes == {r1, r2}
OneReceiver == [k \in TwoRoutes |-> k]
CacheAds ==
  {Advertised(r1, 9, 1), Advertised(r1, 2, 2), Advertised(r2, 9, 3)}
CacheOffers == {[locator |-> l1, proof |-> p] : p \in 1..2}

RelaysInit ==
  /\ relay \in {"sessions", "caches"}
  /\ Init /\ InventoryInit
  /\ relay = "sessions" => now = 1
RelaysNext ==
  \/ relay = "sessions" /\ Next /\ UNCHANGED <<relay, inventoryVars>>
  \/ relay = "caches" /\ InventoryNext /\ UNCHANGED <<relay, vars>>
RelaysSpec == RelaysInit /\ [][RelaysNext]_<<relay, vars, inventoryVars>>
=============================================================================
