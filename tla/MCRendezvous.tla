---------------------------- MODULE MCRendezvous ----------------------------
(* Instances of Rendezvous for TLC: one route, two clients. *)
EXTENDS Rendezvous, TLC

CONSTANTS k1, k2, k3, c1, c2, r1, ann, bob, p1

Conn1 == [kind |-> "connector", route |-> r1, pin |-> p1]
User(cl) == [kind |-> "client", name |-> cl]
MCIdentity == (k1 :> Conn1) @@ (k2 :> Conn1) @@ (k3 :> Conn1)
              @@ (c1 :> User(ann)) @@ (c2 :> User(bob))
MCSymmetry == Permutations({k1, k2, k3})
=============================================================================
