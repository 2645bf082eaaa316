----------------------------- MODULE MCSessions -----------------------------
(* The two ends of a session, for TLC: Rendezvous, where relay and connector *)
(* agree on a v1 session, and SessionLease, where client and receiver of the *)
(* receiver-owned relay keep one alive.  The two protocols share nothing; a  *)
(* behaviour exercises one of them.  The client lease is two ticks and the   *)
(* receiver lease three, renewed from the first tick on.                     *)
EXTENDS MCRendezvous, SessionLease

VARIABLE part

LeaseOf == [client |-> 2, receiver |-> 3]
RenewOf == [client |-> 1, receiver |-> 1]

SessionsInit == part \in {"rendezvous", "lease"} /\ Init /\ LeaseInit
SessionsNext ==
  \/ part = "rendezvous" /\ Next /\ UNCHANGED <<part, leaseVars>>
  \/ part = "lease" /\ LeaseNext /\ UNCHANGED <<part, vars>>
  \* the model's clock has ended
  \/ part = "lease" /\ now = MaxNow /\ UNCHANGED <<part, vars, leaseVars>>
SessionsSpec == SessionsInit /\ [][SessionsNext]_<<part, vars, leaseVars>>
=============================================================================
