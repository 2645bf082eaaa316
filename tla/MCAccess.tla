------------------------------ MODULE MCAccess ------------------------------
(* Everything that gates access, for TLC: Connector, TokenBucket and        *)
(* AdmissionGuard.  They run in different processes and share nothing, so a *)
(* behaviour exercises one of them: the connector with one control epoch    *)
(* and three sessions, the first two of one client; the OPEN limiter of the *)
(* relay or of the connector with a burst of two tokens of three ticks      *)
(* each; or the admission guard with three requests of two peers and room   *)
(* for one peer entry.                                                      *)
EXTENDS Connector, TokenBucket, AdmissionGuard, TLC

CONSTANTS e1, s1, s2, s3, ann, bob, q1, q2, q3, ip1, ip2

VARIABLE gate

MCInnerClient == (s1 :> ann) @@ (s2 :> ann) @@ (s3 :> bob)
TwoPeers == (q1 :> ip1) @@ (q2 :> ip1) @@ (q3 :> ip2)

AccessInit ==
  /\ gate \in {"connector", "allowOpen", "allow", "admission"}
  /\ ConnectorInit /\ Init /\ GuardInit
AccessNext ==
  \/ gate = "connector" /\ ConnectorNext /\ UNCHANGED <<gate, vars, guardVars>>
  \/ gate = "allowOpen" /\ (Tick \/ AllowOpen \/ Mark) /\ UNCHANGED <<gate, connectorVars, guardVars>>
  \/ gate = "allow" /\ (Tick \/ Allow \/ Mark) /\ UNCHANGED <<gate, connectorVars, guardVars>>
  \/ gate = "admission" /\ GuardNext /\ UNCHANGED <<gate, connectorVars, vars>>
AccessSpec ==
  /\ AccessInit /\ [][AccessNext]_<<gate, connectorVars, vars, guardVars>>
  /\ Fairness
=============================================================================
