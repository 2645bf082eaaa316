--------------------------- MODULE MCRelayService ---------------------------
(* Instances of RelayService for TLC. *)
EXTENDS RelayService, TLC

CONSTANTS k1, k2, d1, c1, c2, r1, ann, p1, p2

Conn(r, p) == [kind |-> "connector", route |-> r, pin |-> p]
User(cl) == [kind |-> "client", name |-> cl]

(* One route, connector carriers of one pin: any of them may register,     *)
(* replace another, or join; two clients compete for one active slot.      *)
OneRoute == (k1 :> Conn(r1, p1)) @@ (k2 :> Conn(r1, p1)) @@ (d1 :> Conn(r1, p1))
            @@ (c1 :> User(ann)) @@ (c2 :> User(ann))

(* One client, and a carrier with a rotated key, for the liveness run. *)
Live == (k1 :> Conn(r1, p1)) @@ (k2 :> Conn(r1, p2)) @@ (d1 :> Conn(r1, p1))
        @@ (c1 :> User(ann))

MCSymmetry == Permutations({k1, k2, d1}) \union Permutations({c1, c2})
=============================================================================
