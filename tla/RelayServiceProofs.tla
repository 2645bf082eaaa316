------------------------- MODULE RelayServiceProofs -------------------------
(***************************************************************************)
(* Safety of the v1 relay for every number of carriers, routes, clients    *)
(* and pins and for every limit.                                           *)
(*                                                                         *)
(* IInv is inductive, and PendingOnCurrentControl and SendNeverBlocks      *)
(* follow from it.  SessionsSound needs SessionInv on top: who holds each  *)
(* data connection at every moment (Ownership), so that a leg is counted   *)
(* from joinData to finishActive and by one session only; an open leg then *)
(* stands for a place, and the limit on places is one on connections.      *)
(***************************************************************************)
EXTENDS RelayService, FiniteSetTheorems, TLAPS

(* A carrier that registers or holds a control is a connector's. *)
ConnectorPhases ==
  \A c \in Carrier : pc[c] \in {"registering", "registered", "control"} => IsConnector(c)

(* The control of a route was authenticated for that route. *)
ControlsOwnRoute ==
  \A r \in Route :
    controls[r] # None => /\ IsConnector(controls[r])
                          /\ Identity[controls[r]].route = r

(* A pending session is still opening or waiting and is unresolved. *)
PendingUnresolved ==
  \A s \in pending : pc[s] \in {"opening", "waiting"} /\ resolved[s] = {}

(* Before the first frame nothing was resolved, a session has its item     *)
(* until it is closed, and it holds a leg only while that is copied or     *)
(* released.                                                               *)
SessionPhases == {"opening", "waiting", "late", "discarding", "copying", "finishing"}
HandlerPhases ==
  \A s \in Carrier :
    /\ pc[s] \in {"idle", "handshake", "preface"} => resolved[s] = {}
    /\ pc[s] \in SessionPhases => item[s] \in Items
    /\ pc[s] \notin {"copying", "finishing"} => connector[s] = None

(* A channel never holds two values. *)
ResolvedOnce == \A s \in Carrier : \A x, y \in resolved[s] : x = y

IInv == /\ TypeOK
        /\ ConnectorPhases
        /\ ControlsOwnRoute
        /\ PendingUnresolved
        /\ PendingOnCurrentControl
        /\ HandlerPhases
        /\ ResolvedOnce

-----------------------------------------------------------------------------
(* The route and the pin outer TLS authenticated for a connector. *)
LEMMA ConnectorIdentity ==
  ASSUME NEW c \in Carrier, IsConnector(c)
  PROVE  Identity[c].route \in Route /\ Identity[c].pin \in Pin
BY IdentityAssumption DEF IsConnector, ClientPeer, ConnectorPeer

(* The name of a client. *)
LEMMA ClientIdentity ==
  ASSUME NEW c \in Carrier, IsClient(c)
  PROVE  Identity[c].name \in Client
BY IdentityAssumption DEF IsClient, ClientPeer, ConnectorPeer

(* The counts that ResolveAll subtracts are natural numbers. *)
LEMMA CountType ==
  ASSUME NEW S \in SUBSET Carrier
  PROVE  /\ \A r \in Route : Cardinality(Of(S, r)) \in Nat
         /\ \A cl \in Client : Cardinality(By(S, cl)) \in Nat
BY FS_Subset, FS_CardinalityType, CarrierAssumption DEF Of, By

(* ResolveAll keeps the types of what it writes. *)
LEMMA ResolveAllType ==
  ASSUME TypeOK, NEW S \in SUBSET Carrier, NEW leg \in Carrier \union {None},
         ResolveAll(S, leg)
  PROVE  /\ pending' \subseteq Carrier
         /\ pendingPerRoute' \in [Route -> Int]
         /\ clientPending' \in [Client -> Int]
         /\ resolved' \in [Carrier -> SUBSET (Carrier \union {None})]
<1>1. pendingPerRoute' \in [Route -> Int]
  BY CountType DEF TypeOK, ResolveAll
<1>2. clientPending' \in [Client -> Int]
  BY CountType DEF TypeOK, ResolveAll
<1>3. QED
  BY <1>1, <1>2 DEF TypeOK, ResolveAll

-----------------------------------------------------------------------------
(* Every action of a handler preserves the type invariant. *)
LEMMA StepType ==
  ASSUME IInv, NEW c \in Carrier, Step(c)
  PROVE  TypeOK'
<1> USE DEF IInv
<1>1. CASE Accept(c)
  BY <1>1 DEF TypeOK, Accept, Goto, Return, TablesUnchanged, counters, Phases
<1>2. CASE Authenticated(c)
  BY <1>2 DEF TypeOK, Authenticated, Goto, TablesUnchanged, counters, Phases
<1>3. CASE Reject(c)
  BY <1>3 DEF TypeOK, Reject, Goto, Return, TablesUnchanged, counters, Phases
<1>4. CASE ControlRegister(c)
  BY <1>4 DEF TypeOK, ControlRegister, Goto, TablesUnchanged, counters, Phases
<1>5. CASE RegisterFails(c)
  BY <1>5 DEF TypeOK, RegisterFails, Goto, Return, TablesUnchanged, counters, Phases
<1>23. CASE RegisterWritten(c)
  BY <1>23 DEF TypeOK, RegisterWritten, Goto, TablesUnchanged, counters, Phases
<1>6. CASE InstallControl(c)
  <2> DEFINE r == Identity[c].route
             old == controls[r]
             clients == IF old = None THEN {} ELSE HeldBy(old)
  <2>1. r \in Route
    BY <1>6, ConnectorIdentity DEF InstallControl, ConnectorPhases
  <2>2. clients \in SUBSET Carrier
    BY DEF TypeOK, HeldBy
  <2>3. ResolveAll(clients, None)
    BY <1>6 DEF InstallControl
  <2>4. old \in Carrier \union {None}
    BY <2>1 DEF TypeOK
  <2> HIDE DEF clients
  <2>5. /\ pc' = [pc EXCEPT ![c] = "control"]
        /\ controls' = [controls EXCEPT ![r] = c]
        /\ doomed' = doomed \union clients \union ({old} \ {None})
    BY <1>6 DEF InstallControl, Goto, clients
  <2>6. UNCHANGED <<activeGlobal, activePerRoute, clientActive, handshakes, item, expired,
                    connector, alive, stopping>>
    BY <1>6 DEF InstallControl, ActiveUnchanged
  <2> QED BY <2>2, <2>3, <2>4, <2>5, <2>6, ResolveAllType DEF TypeOK, Phases
<1>7. CASE ControlEnds(c)
  <2> DEFINE r == Identity[c].route
             clients == IF controls[r] = c THEN HeldBy(c) ELSE {}
  <2>1. clients \in SUBSET Carrier
    BY DEF TypeOK, HeldBy
  <2>2. ResolveAll(clients, None)
    BY <1>7 DEF ControlEnds
  <2>3. doomed' = doomed \union clients
    BY <1>7 DEF ControlEnds
  <2>4. controls' \in [Route -> Carrier \union {None}]
    BY <1>7 DEF ControlEnds, TypeOK
  <2> HIDE DEF clients
  <2> QED BY <1>7, <2>1, <2>2, <2>3, <2>4, ResolveAllType
          DEF ControlEnds, Return, Goto, ActiveUnchanged, TypeOK, Phases
<1>8. ASSUME NEW s \in Carrier, ControlCancel(c, s)
      PROVE  TypeOK'
  <2>1. HeldBy(c) \intersect {s} \in SUBSET Carrier
    OBVIOUS
  <2>2. ResolveAll(HeldBy(c) \intersect {s}, None)
    BY <1>8 DEF ControlCancel
  <2>3. doomed' = doomed \union (HeldBy(c) \intersect {s})
    BY <1>8 DEF ControlCancel
  <2> QED BY <1>8, <2>1, <2>2, <2>3, ResolveAllType
          DEF ControlCancel, ActiveUnchanged, TypeOK
<1>9. ASSUME NEW r \in Route, ClientOpen(c, r)
      PROVE  TypeOK'
  <2>1. Identity[c].name \in Client
    BY <1>9, ClientIdentity DEF ClientOpen
  <2>2. controls[r] # None => Identity[controls[r]].pin \in Pin
    BY ConnectorIdentity DEF ControlsOwnRoute, TypeOK
  <2>3. item' \in [Carrier -> Items \union {None}]
    BY <1>9, <2>1, <2>2 DEF ClientOpen, TypeOK, Items, MayPend
  <2> QED BY <1>9, <2>1, <2>3
          DEF ClientOpen, TypeOK, ActiveUnchanged, Goto, Return, Phases
<1>10. CASE OpenWritten(c)
  BY <1>10 DEF TypeOK, OpenWritten, Goto, TablesUnchanged, counters, Phases
<1>11. ASSUME NEW phase \in Phases, CancelOr(c, phase)
       PROVE  TypeOK'
  <2>1. CASE c \in pending /\ ResolveAll({c}, None) /\ Return(c)
    BY <1>11, <2>1, ResolveAllType DEF CancelOr, Return, Goto, ActiveUnchanged, TypeOK, Phases
  <2>2. CASE c \notin pending
    BY <1>11, <2>2 DEF CancelOr, Goto, ActiveUnchanged, TypeOK
  <2> QED BY <1>11, <2>1, <2>2 DEF CancelOr
<1>12. CASE OpenWriteFails(c)
  BY <1>11, <1>12 DEF OpenWriteFails, Phases
<1>13. CASE JoinDeadline(c)
  BY <1>13 DEF TypeOK, JoinDeadline, counters
<1>14. CASE JoinTimeout(c)
  BY <1>11, <1>14 DEF JoinTimeout, Phases
<1>15. CASE ClientStops(c)
  BY <1>11, <1>15 DEF ClientStops, Phases
<1>16. CASE ReceiveResolution(c)
  BY <1>16 DEF TypeOK, ReceiveResolution, Goto, Return, counters, Phases
<1>17. CASE DiscardResolution(c)
  BY <1>17 DEF TypeOK, DiscardResolution, Goto, Return, counters, Phases
<1>18. CASE EndCopy(c)
  BY <1>18 DEF TypeOK, EndCopy, Goto, counters, Phases
<1>19. CASE FinishActive(c)
  BY <1>19 DEF TypeOK, FinishActive, Goto, Return, Phases, HandlerPhases, SessionPhases, Items
<1>20. ASSUME NEW e \in Carrier, NEW s \in Carrier, DataJoin(c, e, s)
       PROVE  TypeOK'
  <2>1. CASE MayJoin(c, e, s) /\ Goto(c, "joined") /\ ResolveAll({s}, c)
    <3>1. Identity[c].route \in Route
      BY <1>20, ConnectorIdentity DEF DataJoin
    <3>2. item[s].name \in Client
      BY <2>1 DEF MayJoin, PendingUnresolved, HandlerPhases, SessionPhases, Items
    <3>3. /\ activeGlobal' \in Int
          /\ activePerRoute' \in [Route -> Int]
          /\ clientActive' \in [Client -> Int]
      BY <1>20, <2>1, <3>1, <3>2 DEF DataJoin, TypeOK
    <3>4. /\ pc' \in [Carrier -> Phases]
          /\ handshakes' \in Int
          /\ UNCHANGED <<alive, controls, item, expired, connector, doomed, stopping>>
      BY <1>20, <2>1 DEF DataJoin, Goto, TypeOK, Phases
    <3> QED BY <2>1, <3>3, <3>4, ResolveAllType DEF TypeOK
  <2>2. CASE ~MayJoin(c, e, s)
    BY <1>20, <2>2 DEF DataJoin, Goto, Return, ActiveUnchanged, TypeOK, Phases
  <2> QED BY <1>20, <2>1, <2>2 DEF DataJoin
<1>21. CASE Abort(c)
  BY <1>21 DEF TypeOK, Abort, counters
<1>22. QED
  BY <1>1, <1>2, <1>3, <1>4, <1>5, <1>6, <1>7, <1>8, <1>9, <1>10, <1>12, <1>13,
     <1>14, <1>15, <1>16, <1>17, <1>18, <1>19, <1>20, <1>21, <1>23 DEF Step

-----------------------------------------------------------------------------
(* The part of IInv that is not typing. *)
Core == /\ ConnectorPhases
        /\ ControlsOwnRoute
        /\ PendingUnresolved
        /\ PendingOnCurrentControl
        /\ HandlerPhases
        /\ ResolvedOnce

(* ResolveAll sends once to sessions whose channel was empty. *)
LEMMA ResolveAllSends ==
  ASSUME IInv, NEW S \in SUBSET pending, NEW leg \in Carrier \union {None},
         ResolveAll(S, leg)
  PROVE  /\ pending' = pending \ S
         /\ \A s \in Carrier : resolved'[s] = IF s \in S THEN {leg} ELSE resolved[s]
         /\ ResolvedOnce'
BY DEF IInv, TypeOK, ResolveAll, PendingUnresolved, ResolvedOnce

(* Every action of a handler preserves the rest of the invariant. *)
LEMMA StepCore ==
  ASSUME IInv, NEW c \in Carrier, Step(c)
  PROVE  Core'
<1> USE DEF IInv, Core
<1>1. CASE Accept(c)
  BY <1>1 DEF Accept, Goto, Return, TablesUnchanged, counters, TypeOK, ConnectorPhases,
     ControlsOwnRoute, PendingUnresolved, PendingOnCurrentControl, HandlerPhases,
     SessionPhases, ResolvedOnce
<1>2. CASE Authenticated(c)
  BY <1>2 DEF Authenticated, Goto, TablesUnchanged, counters, TypeOK, ConnectorPhases,
     ControlsOwnRoute, PendingUnresolved, PendingOnCurrentControl, HandlerPhases,
     SessionPhases, ResolvedOnce
<1>3. CASE Reject(c)
  BY <1>3 DEF Reject, Goto, Return, TablesUnchanged, counters, TypeOK, ConnectorPhases,
     ControlsOwnRoute, PendingUnresolved, PendingOnCurrentControl, HandlerPhases,
     SessionPhases, ResolvedOnce
<1>4. CASE ControlRegister(c)
  BY <1>4 DEF ControlRegister, Goto, TablesUnchanged, counters, TypeOK, ConnectorPhases,
     ControlsOwnRoute, PendingUnresolved, PendingOnCurrentControl, HandlerPhases,
     SessionPhases, ResolvedOnce
<1>5. CASE RegisterFails(c)
  BY <1>5 DEF RegisterFails, Goto, Return, TablesUnchanged, counters, TypeOK, ConnectorPhases,
     ControlsOwnRoute, PendingUnresolved, PendingOnCurrentControl, HandlerPhases,
     SessionPhases, ResolvedOnce
<1>23. CASE RegisterWritten(c)
  BY <1>23 DEF RegisterWritten, Goto, TablesUnchanged, counters, TypeOK, ConnectorPhases,
     ControlsOwnRoute, PendingUnresolved, PendingOnCurrentControl, HandlerPhases,
     SessionPhases, ResolvedOnce
<1>6. CASE InstallControl(c)
  <2> DEFINE r == Identity[c].route
             old == controls[r]
             clients == IF old = None THEN {} ELSE HeldBy(old)
  <2>1. r \in Route /\ IsConnector(c)
    BY <1>6, ConnectorIdentity DEF InstallControl, ConnectorPhases
  <2>2. /\ pc[c] = "registered"
        /\ pc' = [pc EXCEPT ![c] = "control"]
        /\ controls' = [controls EXCEPT ![r] = c]
        /\ UNCHANGED <<item, connector>>
    BY <1>6 DEF InstallControl, Goto
  <2>3. ResolveAll(clients, None)
    BY <1>6 DEF InstallControl
  <2>4. clients \in SUBSET pending
    BY DEF HeldBy
  <2>5. \A s \in pending \ clients : item[s].route # r
    <3>1. \A s \in pending : item[s].control \in Carrier
      BY DEF PendingUnresolved, HandlerPhases, SessionPhases, Items, TypeOK
    <3> QED BY <2>1, <3>1, CarrierAssumption
            DEF HeldBy, PendingOnCurrentControl, ControlsOwnRoute, TypeOK
  <2> HIDE DEF clients
  <2>6. /\ pending' = pending \ clients
        /\ \A s \in Carrier : resolved'[s] = IF s \in clients THEN {None} ELSE resolved[s]
        /\ ResolvedOnce'
    BY <2>3, <2>4, ResolveAllSends
  <2>7. ConnectorPhases' /\ ControlsOwnRoute'
    BY <2>1, <2>2 DEF ConnectorPhases, ControlsOwnRoute, TypeOK, IsConnector
  <2>8. PendingUnresolved' /\ PendingOnCurrentControl'
    BY <2>2, <2>5, <2>6 DEF PendingUnresolved, PendingOnCurrentControl, TypeOK
  <2>9. HandlerPhases'
    BY <2>2, <2>4, <2>6 DEF HandlerPhases, SessionPhases, PendingUnresolved, TypeOK
  <2> QED BY <2>6, <2>7, <2>8, <2>9
<1>7. CASE ControlEnds(c)
  <2> DEFINE r == Identity[c].route
             clients == IF controls[r] = c THEN HeldBy(c) ELSE {}
  <2>1. r \in Route /\ IsConnector(c)
    BY <1>7, ConnectorIdentity DEF ControlEnds, ConnectorPhases
  <2>2. /\ pc[c] = "control"
        /\ pc' = [pc EXCEPT ![c] = "closed"]
        /\ controls' = [controls EXCEPT ![r] = IF controls[r] = c THEN None ELSE @]
        /\ UNCHANGED <<item, connector>>
    BY <1>7 DEF ControlEnds, Return, Goto
  <2>3. ResolveAll(clients, None)
    BY <1>7 DEF ControlEnds
  <2>4. clients \in SUBSET pending
    BY DEF HeldBy
  <2>5. \A s \in pending \ clients : item[s].route # r \/ controls[r] # c
    BY <2>1 DEF HeldBy, PendingOnCurrentControl, ControlsOwnRoute, TypeOK
  <2> HIDE DEF clients
  <2>6. /\ pending' = pending \ clients
        /\ \A s \in Carrier : resolved'[s] = IF s \in clients THEN {None} ELSE resolved[s]
        /\ ResolvedOnce'
    BY <2>3, <2>4, ResolveAllSends
  <2>7. ConnectorPhases' /\ ControlsOwnRoute'
    BY <2>1, <2>2 DEF ConnectorPhases, ControlsOwnRoute, TypeOK, IsConnector
  <2>8. PendingUnresolved' /\ PendingOnCurrentControl'
    BY <2>2, <2>5, <2>6 DEF PendingUnresolved, PendingOnCurrentControl, TypeOK
  <2>9. HandlerPhases'
    BY <2>2, <2>4, <2>6 DEF HandlerPhases, SessionPhases, PendingUnresolved, TypeOK
  <2> QED BY <2>6, <2>7, <2>8, <2>9
<1>8. ASSUME NEW s \in Carrier, ControlCancel(c, s)
      PROVE  Core'
  <2> DEFINE found == HeldBy(c) \intersect {s}
  <2>1. found \in SUBSET pending
    BY DEF HeldBy
  <2>2. ResolveAll(found, None) /\ UNCHANGED <<pc, controls, item, connector>>
    BY <1>8 DEF ControlCancel
  <2> HIDE DEF found
  <2>3. /\ pending' = pending \ found
        /\ \A x \in Carrier : resolved'[x] = IF x \in found THEN {None} ELSE resolved[x]
        /\ ResolvedOnce'
    BY <2>1, <2>2, ResolveAllSends
  <2>4. HandlerPhases'
    BY <2>1, <2>2, <2>3 DEF HandlerPhases, SessionPhases, PendingUnresolved, TypeOK
  <2> QED BY <2>2, <2>3, <2>4 DEF ConnectorPhases, ControlsOwnRoute, PendingUnresolved,
             PendingOnCurrentControl, TypeOK
<1>9. ASSUME NEW r \in Route, ClientOpen(c, r)
      PROVE  Core'
  <2>1. c \notin pending /\ resolved[c] = {} /\ connector[c] = None
    BY <1>9 DEF ClientOpen, PendingUnresolved, HandlerPhases
  <2>2. CASE MayPend(Identity[c].name, r)
    <3>1. /\ pc' = [pc EXCEPT ![c] = "opening"]
          /\ pending' = pending \union {c}
          /\ item' = [item EXCEPT ![c] = [route |-> r, control |-> controls[r],
                          pin |-> Identity[controls[r]].pin, name |-> Identity[c].name]]
          /\ UNCHANGED <<controls, resolved, connector>>
      BY <1>9, <2>2 DEF ClientOpen, Goto
    <3>2. item'[c] \in Items
      <4>1. controls[r] \in Carrier /\ IsConnector(controls[r])
        BY <2>2 DEF MayPend, TypeOK, ControlsOwnRoute
      <4>2. Identity[c].name \in Client
        BY <1>9, ClientIdentity DEF ClientOpen
      <4> QED BY <3>1, <4>1, <4>2, ConnectorIdentity DEF TypeOK, Items
    <3>3. HandlerPhases'
      BY <2>1, <3>1, <3>2 DEF HandlerPhases, SessionPhases, TypeOK
    <3>4. ConnectorPhases' /\ ControlsOwnRoute' /\ ResolvedOnce'
      BY <3>1 DEF ConnectorPhases, ControlsOwnRoute, ResolvedOnce, TypeOK
    <3>5. PendingUnresolved' /\ PendingOnCurrentControl'
      BY <2>1, <3>1 DEF PendingUnresolved, PendingOnCurrentControl, TypeOK
    <3> QED BY <3>3, <3>4, <3>5
  <2>3. CASE ~MayPend(Identity[c].name, r)
    BY <1>9, <2>1, <2>3 DEF ClientOpen, Goto, Return, TypeOK, ConnectorPhases,
     ControlsOwnRoute, PendingUnresolved, PendingOnCurrentControl, HandlerPhases,
     SessionPhases, ResolvedOnce
  <2> QED BY <2>2, <2>3
<1>10. CASE OpenWritten(c)
  BY <1>10 DEF OpenWritten, Goto, TablesUnchanged, counters, TypeOK, ConnectorPhases,
     ControlsOwnRoute, PendingUnresolved, PendingOnCurrentControl, HandlerPhases,
     SessionPhases, ResolvedOnce
<1>11. ASSUME NEW phase \in {"late", "discarding"}, CancelOr(c, phase),
              pc[c] \in {"opening", "waiting"}
       PROVE  Core'
  <2>1. CASE c \in pending /\ ResolveAll({c}, None) /\ Return(c)
    <3>1. /\ pending' = pending \ {c}
          /\ \A x \in Carrier : resolved'[x] = IF x \in {c} THEN {None} ELSE resolved[x]
          /\ ResolvedOnce'
      BY <2>1, ResolveAllSends
    <3>2. pc' = [pc EXCEPT ![c] = "closed"] /\ UNCHANGED <<controls, item, connector>>
      BY <1>11, <2>1 DEF CancelOr, Return, Goto
    <3>3. HandlerPhases'
      BY <1>11, <3>1, <3>2 DEF HandlerPhases, SessionPhases, TypeOK
    <3> QED BY <3>1, <3>2, <3>3 DEF ConnectorPhases, ControlsOwnRoute, PendingUnresolved,
               PendingOnCurrentControl, TypeOK
  <2>2. CASE c \notin pending
    BY <1>11, <2>2 DEF CancelOr, Goto, TypeOK, ConnectorPhases,
     ControlsOwnRoute, PendingUnresolved, PendingOnCurrentControl, HandlerPhases,
     SessionPhases, ResolvedOnce
  <2> QED BY <1>11, <2>1, <2>2 DEF CancelOr
<1>12. CASE OpenWriteFails(c)
  BY <1>11, <1>12 DEF OpenWriteFails
<1>13. CASE JoinDeadline(c)
  BY <1>13 DEF JoinDeadline, counters, TypeOK, ConnectorPhases,
     ControlsOwnRoute, PendingUnresolved, PendingOnCurrentControl, HandlerPhases,
     SessionPhases, ResolvedOnce
<1>14. CASE JoinTimeout(c)
  BY <1>11, <1>14 DEF JoinTimeout
<1>15. CASE ClientStops(c)
  BY <1>11, <1>15 DEF ClientStops
<1>16. CASE ReceiveResolution(c)
  <2>1. c \notin pending
    BY <1>16 DEF ReceiveResolution, PendingUnresolved
  <2> QED BY <1>16, <2>1 DEF ReceiveResolution, Goto, Return, TypeOK, ConnectorPhases,
     ControlsOwnRoute, PendingUnresolved, PendingOnCurrentControl, HandlerPhases,
     SessionPhases, ResolvedOnce
<1>17. CASE DiscardResolution(c)
  <2>1. c \notin pending
    BY <1>17 DEF DiscardResolution, PendingUnresolved
  <2> QED BY <1>17, <2>1 DEF DiscardResolution, Goto, Return, TypeOK, ConnectorPhases,
     ControlsOwnRoute, PendingUnresolved, PendingOnCurrentControl, HandlerPhases,
     SessionPhases, ResolvedOnce
<1>18. CASE EndCopy(c)
  BY <1>18 DEF EndCopy, Goto, counters, TypeOK, ConnectorPhases,
     ControlsOwnRoute, PendingUnresolved, PendingOnCurrentControl, HandlerPhases,
     SessionPhases, ResolvedOnce
<1>19. CASE FinishActive(c)
  BY <1>19 DEF FinishActive, Goto, Return, TypeOK, ConnectorPhases,
     ControlsOwnRoute, PendingUnresolved, PendingOnCurrentControl, HandlerPhases,
     SessionPhases, ResolvedOnce
<1>20. ASSUME NEW e \in Carrier, NEW s \in Carrier, DataJoin(c, e, s)
       PROVE  Core'
  <2>1. CASE MayJoin(c, e, s) /\ Goto(c, "joined") /\ ResolveAll({s}, c)
    <3>1. s \in pending /\ s # c
      BY <1>20, <2>1 DEF MayJoin, DataJoin, PendingUnresolved
    <3>2. /\ pending' = pending \ {s}
          /\ \A x \in Carrier : resolved'[x] = IF x \in {s} THEN {c} ELSE resolved[x]
          /\ ResolvedOnce'
      BY <2>1, <3>1, ResolveAllSends
    <3>3. /\ pc[c] = "preface"
          /\ pc' = [pc EXCEPT ![c] = "joined"]
          /\ UNCHANGED <<controls, item, connector>>
      BY <1>20, <2>1 DEF DataJoin, Goto
    <3>4. HandlerPhases'
      BY <3>1, <3>2, <3>3 DEF HandlerPhases, SessionPhases, PendingUnresolved, TypeOK
    <3> QED BY <3>2, <3>3, <3>4 DEF ConnectorPhases, ControlsOwnRoute, PendingUnresolved,
               PendingOnCurrentControl, TypeOK
  <2>2. CASE ~MayJoin(c, e, s)
    BY <1>20, <2>2 DEF DataJoin, Goto, Return, TypeOK, ConnectorPhases,
     ControlsOwnRoute, PendingUnresolved, PendingOnCurrentControl, HandlerPhases,
     SessionPhases, ResolvedOnce
  <2> QED BY <1>20, <2>1, <2>2 DEF DataJoin
<1>21. CASE Abort(c)
  BY <1>21 DEF Abort, counters, TypeOK, ConnectorPhases,
     ControlsOwnRoute, PendingUnresolved, PendingOnCurrentControl, HandlerPhases,
     SessionPhases, ResolvedOnce
<1>22. QED
  BY <1>1, <1>2, <1>3, <1>4, <1>5, <1>6, <1>7, <1>8, <1>9, <1>10, <1>12, <1>13,
     <1>14, <1>15, <1>16, <1>17, <1>18, <1>19, <1>20, <1>21, <1>23 DEF Step

-----------------------------------------------------------------------------
(* IInv holds initially. *)
LEMMA InitIInv == Init => IInv
<1> SUFFICES ASSUME Init PROVE IInv
  OBVIOUS
<1>1. TypeOK
  <2>1. pc \in [Carrier -> Phases] /\ handshakes \in Int
    BY DEF Init, Phases
  <2>2. resolved \in [Carrier -> SUBSET (Carrier \union {None})]
    BY DEF Init
  <2>3. /\ pendingPerRoute \in [Route -> Int] /\ clientPending \in [Client -> Int]
        /\ activeGlobal \in Int
        /\ activePerRoute \in [Route -> Int] /\ clientActive \in [Client -> Int]
    BY DEF Init
  <2>4. /\ controls \in [Route -> Carrier \union {None}]
        /\ item \in [Carrier -> Items \union {None}]
        /\ connector \in [Carrier -> Carrier \union {None}]
    BY DEF Init
  <2>5. /\ pending \subseteq Carrier /\ expired \subseteq Carrier
        /\ doomed \subseteq Carrier /\ alive \subseteq Carrier /\ stopping \in BOOLEAN
    BY DEF Init
  <2> QED BY <2>1, <2>2, <2>3, <2>4, <2>5 DEF TypeOK
<1>2. ConnectorPhases /\ ControlsOwnRoute /\ PendingUnresolved /\ PendingOnCurrentControl
  BY DEF Init, ConnectorPhases, ControlsOwnRoute, PendingUnresolved, PendingOnCurrentControl
<1>3. HandlerPhases /\ ResolvedOnce
  BY DEF Init, HandlerPhases, SessionPhases, ResolvedOnce
<1> QED BY <1>1, <1>2, <1>3 DEF IInv

(* Every step keeps it. *)
LEMMA NextIInv == IInv /\ [Next]_vars => IInv'
<1> SUFFICES ASSUME IInv, [Next]_vars PROVE IInv'
  OBVIOUS
<1>1. ASSUME NEW c \in Carrier, Step(c) PROVE IInv'
  BY <1>1, StepType, StepCore DEF IInv, Core
<1>2. CASE Shutdown
  BY <1>2 DEF Shutdown, counters, IInv, TypeOK, ConnectorPhases,
     ControlsOwnRoute, PendingUnresolved, PendingOnCurrentControl, HandlerPhases,
     SessionPhases, ResolvedOnce
<1>3. CASE UNCHANGED vars
  BY <1>3 DEF vars, counters, IInv, IsConnector, TypeOK, ConnectorPhases,
     ControlsOwnRoute, PendingUnresolved, PendingOnCurrentControl, HandlerPhases,
     SessionPhases, ResolvedOnce
<1>4. CASE Terminated
  BY <1>3, <1>4 DEF Terminated
<1> QED BY <1>1, <1>2, <1>3, <1>4 DEF Next

(* The relay's tables keep their types in every behaviour: no step of      *)
(* Handle or of what it calls stores a nil control, a foreign identity or  *)
(* a malformed item.                                                       *)
THEOREM TypeCorrect == Spec => []TypeOK
<1>1. IInv => TypeOK
  BY DEF IInv
<1> QED BY <1>1, InitIInv, NextIInv, PTL DEF Spec

(* Replacing or losing a control (installControl, removeControl) leaves no *)
(* session pending on it, for any number of routes, carriers and limits.   *)
THEOREM PendingFollowsControl == Spec => []PendingOnCurrentControl
<1>1. IInv => PendingOnCurrentControl
  BY DEF IInv
<1> QED BY <1>1, InitIInv, NextIInv, PTL DEF Spec

(* resolvePendingLocked never sends to a channel that holds a value, so it *)
(* never blocks while it holds Service.mu.                                 *)
THEOREM ResolutionNeverBlocks == Spec => []SendNeverBlocks
<1>1. IInv => SendNeverBlocks
  <2> SUFFICES ASSUME IInv, NEW s \in Carrier
               PROVE  /\ Cardinality(resolved[s]) <= 1
                      /\ s \in pending => LegsOf(s) = {} /\ resolved[s] = {}
    BY DEF SendNeverBlocks
  <2>1. resolved[s] = {} \/ \E x : resolved[s] = {x}
    BY DEF IInv, ResolvedOnce
  <2>2. Cardinality(resolved[s]) <= 1
    <3>1. Cardinality({}) = 0 /\ \A x : Cardinality({x}) = 1
      BY FS_EmptySet, FS_Singleton
    <3>2. CASE resolved[s] = {}
      BY <3>1, <3>2
    <3>3. ASSUME NEW x, resolved[s] = {x} PROVE Cardinality(resolved[s]) <= 1
      <4>1. Cardinality(resolved[s]) = 1
        BY <3>1, <3>3, Zenon
      <4> QED BY <4>1
    <3> QED BY <2>1, <3>2, <3>3
  <2>3. s \in pending => LegsOf(s) = {} /\ resolved[s] = {}
    BY DEF IInv, PendingUnresolved, HandlerPhases, LegsOf
  <2> QED BY <2>2, <2>3
<1> QED BY <1>1, InitIInv, NextIInv, PTL DEF Spec

-----------------------------------------------------------------------------
(* Who holds the data connections, and what keeps the counters exact. *)

Early == {"idle", "handshake", "preface"}
Open == {"opening", "waiting", "late", "discarding"}

(* A carrier that may still be paired, and what is paired, is not marked   *)
(* for an abort; what is marked is a replaced control or a cancelled       *)
(* session.                                                                *)
MarkedApart ==
  /\ \A r \in Route : controls[r] # None => pc[controls[r]] = "control"
  /\ \A c \in Carrier : pc[c] \in {"handshake", "preface"} => c \in alive
  /\ pending \subseteq alive
  /\ \A d \in doomed : /\ pc[d] \notin Early \union {"registering", "registered", "joined"}
                       /\ d \notin pending /\ LegsOf(d) = {}

(* A leg waits in the channel of an open session or is held by a handler   *)
(* that copies or releases it; it was closed before it is released.        *)
LegPlaces ==
  \A s \in Carrier :
    /\ pc[s] \notin Open => resolved[s] \subseteq {None}
    /\ pc[s] \in {"copying", "finishing"} => connector[s] # None /\ resolved[s] = {}
    /\ pc[s] = "finishing" => connector[s] \notin alive

(* A leg was joined for the session that holds it. *)
LegFits ==
  \A s \in Carrier : \A d \in LegsOf(s) :
    /\ pc[d] = "joined" /\ IsConnector(d) /\ item[s] \in Items
    /\ item[s].route = Identity[d].route /\ item[s].pin = Identity[d].pin

(* No two sessions hold one leg, and an open one is held. *)
LegHeldOnce ==
  /\ \A s, t \in Carrier : LegsOf(s) \intersect LegsOf(t) # {} => s = t
  /\ \A d \in alive : pc[d] = "joined" => \E s \in Carrier : d \in LegsOf(s)

Ownership == MarkedApart /\ LegPlaces /\ LegFits /\ LegHeldOnce /\ PairUndisturbed

(* The counters are exact, and the admission tests bound them. *)
Greeting == {c \in Carrier : pc[c] \in {"handshake", "preface"}}
HandshakesExact == handshakes = Cardinality(Greeting)
PendingExact ==
  /\ Cardinality(pending) <= PendingGlobal
  /\ \A r \in Route : /\ pendingPerRoute[r] = Cardinality(Of(pending, r))
                      /\ pendingPerRoute[r] <= PendingPerRoute
  /\ \A cl \in Client : /\ clientPending[cl] = Cardinality(By(pending, cl))
                        /\ clientPending[cl] <= PendingPerClient
ActiveExact ==
  /\ activeGlobal = Cardinality(Active) /\ activeGlobal <= ActiveGlobal
  /\ \A r \in Route : /\ activePerRoute[r] = Cardinality(Of(Active, r))
                      /\ activePerRoute[r] <= ActivePerRoute
  /\ \A cl \in Client : /\ clientActive[cl] = Cardinality(By(Active, cl))
                        /\ clientActive[cl] <= ActivePerClient

SessionInv == Ownership /\ HandshakesExact /\ PendingExact /\ ActiveExact

(* What a session's legs say of it. *)
LEMMA LegFacts ==
  ASSUME IInv, Ownership
  PROVE  /\ \A s \in Carrier : LegsOf(s) \subseteq Carrier
         /\ \A s \in Carrier : LegsOf(s) # {} =>
              /\ pc[s] \in Open \union {"copying", "finishing"}
              /\ s \notin pending /\ s \notin doomed
         /\ \A s \in Carrier : \A d \in LegsOf(s) : pc[d] = "joined" /\ d # s
         /\ \A s \in Carrier : LegsOf(s) = {} => pc[s] \notin {"copying", "finishing"}
         /\ \A s \in Carrier : LegsOf(s) = {} => resolved[s] \subseteq {None}
         /\ \A s \in Carrier : \A d, e \in LegsOf(s) : d = e
<1>1. \A s \in Carrier : LegsOf(s) \subseteq Carrier
  BY DEF LegsOf, IInv, TypeOK
<1>2. \A s \in Carrier : LegsOf(s) # {} => pc[s] \in Open \union {"copying", "finishing"}
  BY DEF LegsOf, IInv, HandlerPhases, Ownership, LegPlaces
<1>3. \A s \in Carrier : LegsOf(s) # {} => s \notin pending /\ s \notin doomed
  BY DEF LegsOf, IInv, PendingUnresolved, HandlerPhases, Ownership, MarkedApart
<1>4. \A s \in Carrier : \A d \in LegsOf(s) : pc[d] = "joined" /\ d # s
  BY <1>2 DEF Ownership, LegFits, Open
<1>5. \A s \in Carrier : LegsOf(s) = {} => pc[s] \notin {"copying", "finishing"}
  BY DEF LegsOf, Ownership, LegPlaces
<1>6. \A s \in Carrier : LegsOf(s) = {} => resolved[s] \subseteq {None}
  BY DEF LegsOf
<1>7. \A s \in Carrier : \A d, e \in LegsOf(s) : d = e
  BY DEF LegsOf, IInv, ResolvedOnce, HandlerPhases, Ownership, LegPlaces
<1> QED BY <1>1, <1>2, <1>3, <1>4, <1>5, <1>6, <1>7

(* A handler c without a leg that moves on and touches no table keeps the  *)
(* ownership.                                                              *)
LEMMA QuietStep ==
  ASSUME IInv, Ownership, NEW c \in Carrier, NEW at \in Phases,
         pc' = [pc EXCEPT ![c] = at], LegsOf(c) = {},
         pc[c] \notin {"joined", "control"}, at \notin {"idle", "joined", "copying", "finishing"},
         c \in doomed => at \notin {"handshake", "preface", "registering", "registered"},
         alive' \in {alive \union {c}, alive \ {c}},
         at \in {"handshake", "preface"} \/ c \in pending => c \in alive',
         \A s \in Carrier : LegsOf(s)' = LegsOf(s),
         \A s \in Carrier \ {c} : resolved'[s] = resolved[s],
         UNCHANGED <<controls, pending, item, connector, doomed>>
  PROVE  Ownership'
<1>1. \A s \in Carrier : LegsOf(s)' = LegsOf(s)
  OBVIOUS
<1>2. /\ \A s \in Carrier : LegsOf(s) \subseteq Carrier
      /\ \A s \in Carrier : \A d \in LegsOf(s) : pc[d] = "joined" /\ d # s
      /\ \A s \in Carrier : LegsOf(s) = {} => resolved[s] \subseteq {None}
  BY LegFacts
<1>3. /\ \A s \in Carrier \ {c} : pc'[s] = pc[s]
      /\ pc'[c] = at
      /\ \A s \in Carrier \ {c} : s \in alive' <=> s \in alive
      /\ alive' \subseteq Carrier
  BY DEF IInv, TypeOK
<1>4. MarkedApart'
  BY <1>1, <1>3 DEF MarkedApart, Ownership, Early, IInv, TypeOK
<1>5. LegPlaces'
  BY <1>1, <1>2, <1>3 DEF LegPlaces, LegsOf, Ownership, Open
<1>6. LegFits' /\ LegHeldOnce'
  BY <1>1, <1>2, <1>3 DEF LegFits, LegHeldOnce, Ownership
<1>7. PairUndisturbed'
  BY <1>1, <1>2, <1>3 DEF PairUndisturbed, Active, Ownership
<1> QED BY <1>4, <1>5, <1>6, <1>7 DEF Ownership

(* An open session c that goes on to another open phase keeps it too. *)
LEMMA OpenStep ==
  ASSUME IInv, Ownership, NEW c \in Carrier, NEW at \in Open, pc[c] \in Open,
         pc' = [pc EXCEPT ![c] = at],
         UNCHANGED <<controls, pending, item, resolved, connector, doomed, alive>>
  PROVE  Ownership'
<1>1. \A s \in Carrier : LegsOf(s)' = LegsOf(s)
  BY DEF LegsOf
<1>2. \A s \in Carrier : \A d \in LegsOf(s) : d \in Carrier /\ pc[d] = "joined" /\ d # s
  BY LegFacts
<1>3. /\ \A s \in Carrier \ {c} : pc'[s] = pc[s]
      /\ pc'[c] = at
  BY DEF IInv, TypeOK
<1>4. MarkedApart'
  BY <1>1, <1>3 DEF MarkedApart, Ownership, Early, IInv, TypeOK, Open
<1>5. LegPlaces'
  BY <1>3 DEF LegPlaces, Ownership, Open
<1>6. LegFits' /\ LegHeldOnce'
  BY <1>1, <1>2, <1>3 DEF LegFits, LegHeldOnce, Ownership, IInv, TypeOK, Open
<1>7. PairUndisturbed'
  BY <1>1, <1>2, <1>3 DEF PairUndisturbed, Active, Ownership, Open
<1> QED BY <1>4, <1>5, <1>6, <1>7 DEF Ownership

(* Cancelling the pending sessions S gives and takes no leg. *)
LEMMA CancelLegs ==
  ASSUME IInv, NEW S \in SUBSET pending, ResolveAll(S, None), UNCHANGED connector
  PROVE  /\ \A s \in Carrier : LegsOf(s)' = LegsOf(s)
         /\ \A s \in S : LegsOf(s) = {}
         /\ pending' = pending \ S
         /\ \A s \in Carrier : resolved'[s] = IF s \in S THEN {None} ELSE resolved[s]
<1>1. /\ pending' = pending \ S
      /\ \A s \in Carrier : resolved'[s] = IF s \in S THEN {None} ELSE resolved[s]
  BY ResolveAllSends
<1>2. \A s \in S : resolved[s] = {} /\ connector[s] = None
  BY DEF IInv, TypeOK, PendingUnresolved, HandlerPhases
<1>3. \A s \in S : LegsOf(s) = {} /\ LegsOf(s)' = {}
  BY <1>1, <1>2 DEF LegsOf, IInv, TypeOK
<1>4. \A s \in Carrier \ S : LegsOf(s)' = LegsOf(s)
  BY <1>1 DEF LegsOf
<1> QED BY <1>1, <1>3, <1>4

(* A step that cancels the sessions S and marks them, or a control that is *)
(* replaced, for an abort; D are the carriers it marks.                    *)
LEMMA CancelStep ==
  ASSUME IInv, Ownership, NEW S \in SUBSET pending, NEW D \in SUBSET Carrier,
         \A s \in Carrier : LegsOf(s)' = LegsOf(s),
         \A s \in S : LegsOf(s) = {},
         pending' = pending \ S,
         \A s \in Carrier : resolved'[s] = IF s \in S THEN {None} ELSE resolved[s],
         UNCHANGED <<item, connector>>,
         doomed' = doomed \union D,
         \A d \in D : d \in S \/ pc[d] = "control",
         NEW c \in Carrier, NEW at \in {"control", "closed", pc[c]}, pc' = [pc EXCEPT ![c] = at],
         at # pc[c] => pc[c] \in {"registered", "control"} \/ c \in S,
         alive' = alive \/ (alive' = alive \ {c} /\ at = "closed" /\ at # pc[c]),
         \A r \in Route : controls'[r] # None =>
           \/ controls'[r] = c /\ at = "control"
           \/ controls'[r] = controls[r] /\ (controls[r] # c \/ at = "control")
  PROVE  Ownership'
<1>2. /\ \A s \in Carrier : \A d \in LegsOf(s) : d \in Carrier /\ pc[d] = "joined" /\ d # s
      /\ \A s \in Carrier : LegsOf(s) # {} => pc[s] \in Open \union {"copying", "finishing"}
                                              /\ s \notin pending /\ s \notin doomed
      /\ \A s \in Carrier : LegsOf(s) = {} => resolved[s] \subseteq {None}
  BY LegFacts
<1>3. /\ \A s \in Carrier \ {c} : pc'[s] = pc[s]
      /\ pc'[c] = at
      /\ \A s \in Carrier \ {c} : s \in alive' <=> s \in alive
      /\ alive' \subseteq alive /\ alive \subseteq Carrier /\ doomed \subseteq Carrier
      /\ pending \subseteq Carrier
  BY DEF IInv, TypeOK
<1>4. \A s \in pending : pc[s] \in {"opening", "waiting"} /\ resolved[s] = {}
  BY DEF IInv, PendingUnresolved
<1>9. at = pc[c] \/ LegsOf(c) = {}
  BY <1>2 DEF Open
<1>5. MarkedApart'
  <2>1. \A r \in Route : controls'[r] # None => pc'[controls'[r]] = "control"
    BY <1>3 DEF MarkedApart, Ownership, IInv, TypeOK
  <2>2. \A x \in Carrier : pc'[x] \in {"handshake", "preface"} => x \in alive'
    BY <1>3 DEF MarkedApart, Ownership
  <2>3. pending' \subseteq alive'
    BY <1>3, <1>4 DEF MarkedApart, Ownership
  <2>4. \A d \in doomed' : /\ pc'[d] \notin Early \union {"registering", "registered", "joined"}
                           /\ d \notin pending' /\ LegsOf(d)' = {}
    <3>1. ASSUME NEW d \in doomed
          PROVE  /\ pc'[d] \notin Early \union {"registering", "registered", "joined"}
                 /\ d \notin pending' /\ LegsOf(d)' = {}
      BY <1>3 DEF MarkedApart, Ownership, Early
    <3>2. ASSUME NEW d \in D
          PROVE  /\ pc'[d] \notin Early \union {"registering", "registered", "joined"}
                 /\ d \notin pending' /\ LegsOf(d)' = {}
      BY <1>2, <1>3, <1>4 DEF Early, Open
    <3> QED BY <3>1, <3>2
  <2> QED BY <2>1, <2>2, <2>3, <2>4 DEF MarkedApart
<1>6. LegPlaces'
  BY <1>2, <1>3, <1>4, <1>9 DEF LegPlaces, Ownership, Open
<1>7. \A d \in Carrier : pc'[d] = "joined" <=> pc[d] = "joined"
  BY <1>3, <1>4
<1>10. LegFits'
  BY <1>2, <1>7 DEF LegFits, Ownership
<1>11. LegHeldOnce'
  BY <1>3, <1>7 DEF LegHeldOnce, Ownership
<1>8. PairUndisturbed'
  <2>1. SUFFICES ASSUME NEW s \in Carrier, LegsOf(s)' # {}, pc'[s] # "finishing",
                        NEW x \in {s} \union LegsOf(s)'
                 PROVE  x \in alive' \ doomed'
    BY DEF PairUndisturbed, Active
  <2>2. LegsOf(s) # {} /\ x \in {s} \union LegsOf(s)
    BY <2>1
  <2>3. pc[s] \in Open \union {"copying"} /\ s \notin pending
    BY <1>2, <1>3, <1>9, <2>1, <2>2
  <2>4. x \in alive /\ x \notin doomed
    BY <2>2, <2>3 DEF PairUndisturbed, Active, Ownership, Open
  <2>5. x \in Carrier /\ (x = s \/ pc[x] = "joined")
    BY <1>2, <2>2
  <2>6. x \notin D
    BY <1>4, <2>2, <2>3, <2>5 DEF Open
  <2>7. x = c => at = pc[c]
    BY <1>4, <1>9, <2>2, <2>5
  <2> QED BY <1>3, <2>4, <2>5, <2>6, <2>7
<1> QED BY <1>5, <1>6, <1>10, <1>11, <1>8 DEF Ownership

(* A handler that takes its leg d out of the channel holds it. *)
LEMMA TakeStep ==
  ASSUME IInv, Ownership, NEW c \in Carrier, pc[c] \in Open, NEW d \in resolved[c], d # None,
         NEW at \in {"copying", "finishing"}, pc' = [pc EXCEPT ![c] = at],
         resolved' = [resolved EXCEPT ![c] = {}], connector' = [connector EXCEPT ![c] = d],
         alive' = IF at = "finishing" THEN alive \ {d} ELSE alive,
         UNCHANGED <<controls, pending, item, doomed>>
  PROVE  Ownership'
<1>1. LegsOf(c) = {d} /\ \A s \in Carrier : LegsOf(s)' = LegsOf(s)
  <2>1. resolved[c] = {d} /\ connector[c] = None
    BY DEF IInv, ResolvedOnce, HandlerPhases, Open
  <2>2. LegsOf(c) = {d} /\ LegsOf(c)' = {d}
    BY <2>1 DEF LegsOf, IInv, TypeOK
  <2>3. \A s \in Carrier \ {c} : LegsOf(s)' = LegsOf(s)
    BY DEF LegsOf, IInv, TypeOK
  <2> QED BY <2>2, <2>3
<1>2. /\ \A s \in Carrier : \A x \in LegsOf(s) : x \in Carrier /\ pc[x] = "joined" /\ x # s
      /\ \A s \in Carrier : LegsOf(s) # {} => pc[s] \in Open \union {"copying", "finishing"}
                                              /\ s \notin pending /\ s \notin doomed
  BY LegFacts
<1>3. /\ \A s \in Carrier \ {c} : /\ pc'[s] = pc[s] /\ resolved'[s] = resolved[s]
                                  /\ connector'[s] = connector[s]
      /\ pc'[c] = at /\ resolved'[c] = {} /\ connector'[c] = d
      /\ alive' \subseteq alive /\ alive \ {d} \subseteq alive' /\ alive \subseteq Carrier
      /\ pending \subseteq Carrier /\ doomed \subseteq Carrier
  BY DEF IInv, TypeOK
<1>4. d \in Carrier /\ pc[d] = "joined" /\ d # c /\ c \notin pending /\ c \notin doomed
  BY <1>1, <1>2
<1>5. \A s \in Carrier \ {c} : d \notin LegsOf(s)
  BY <1>1, <1>4 DEF Ownership, LegHeldOnce
<1>6. \A s \in pending : pc[s] \in {"opening", "waiting"}
  BY DEF IInv, PendingUnresolved
<1>7. MarkedApart'
  <2>1. \A r \in Route : controls'[r] # None => pc'[controls'[r]] = "control"
    BY <1>3 DEF MarkedApart, Ownership, IInv, TypeOK, Open
  <2>2. \A x \in Carrier : pc'[x] \in {"handshake", "preface"} => x \in alive'
    BY <1>3, <1>4 DEF MarkedApart, Ownership
  <2>3. pending' \subseteq alive'
    BY <1>3, <1>4, <1>6 DEF MarkedApart, Ownership
  <2>4. \A x \in doomed' : /\ pc'[x] \notin Early \union {"registering", "registered", "joined"}
                           /\ x \notin pending' /\ LegsOf(x)' = {}
    BY <1>1, <1>3 DEF MarkedApart, Ownership, Early
  <2> QED BY <2>1, <2>2, <2>3, <2>4 DEF MarkedApart
<1>8. LegPlaces'
  BY <1>3, <1>4 DEF LegPlaces, Ownership, Open
<1>9. LegFits' /\ LegHeldOnce'
  <2>1. \A x \in Carrier : pc'[x] = "joined" <=> pc[x] = "joined"
    BY <1>3 DEF Open
  <2> QED BY <1>1, <1>2, <1>3, <2>1 DEF LegFits, LegHeldOnce, Ownership
<1>10. PairUndisturbed'
  <2>1. SUFFICES ASSUME NEW s \in Carrier, LegsOf(s)' # {}, pc'[s] # "finishing",
                        NEW x \in {s} \union LegsOf(s)'
                 PROVE  x \in alive' \ doomed'
    BY DEF PairUndisturbed, Active
  <2>2. LegsOf(s) # {} /\ x \in {s} \union LegsOf(s) /\ pc[s] # "finishing"
    BY <1>1, <1>3, <2>1 DEF Open
  <2>3. x \in alive \ doomed
    BY <2>2 DEF PairUndisturbed, Active, Ownership
  <2>4. CASE x = d
    <3>1. s = c
      BY <1>2, <1>4, <1>5, <2>2, <2>4 DEF Open
    <3> QED BY <1>3, <2>1, <2>3, <3>1
  <2>5. CASE x # d
    BY <1>3, <2>3, <2>5
  <2> QED BY <2>4, <2>5
<1> QED BY <1>7, <1>8, <1>9, <1>10 DEF Ownership

(* Closing the connections of a finished copy. *)
LEMMA EndStep ==
  ASSUME IInv, Ownership, NEW c \in Carrier, EndCopy(c)
  PROVE  Ownership'
<1> DEFINE d == connector[c]
<1>1. /\ pc[c] = "copying" /\ pc' = [pc EXCEPT ![c] = "finishing"]
      /\ alive' = alive \ {c, d}
      /\ UNCHANGED <<controls, pending, item, resolved, connector, doomed>>
  BY DEF EndCopy, Goto
<1>2. LegsOf(c) = {d} /\ \A s \in Carrier : LegsOf(s)' = LegsOf(s)
  <2>1. resolved[c] = {} /\ d # None
    BY <1>1 DEF Ownership, LegPlaces
  <2> QED BY <1>1, <2>1 DEF LegsOf
<1> HIDE DEF d
<1>3. /\ \A s \in Carrier : \A x \in LegsOf(s) : x \in Carrier /\ pc[x] = "joined" /\ x # s
      /\ \A s \in Carrier : LegsOf(s) # {} => pc[s] \in Open \union {"copying", "finishing"}
                                              /\ s \notin pending /\ s \notin doomed
  BY LegFacts
<1>4. /\ \A s \in Carrier \ {c} : pc'[s] = pc[s]
      /\ pc'[c] = "finishing"
      /\ alive \subseteq Carrier /\ pending \subseteq Carrier /\ doomed \subseteq Carrier
  BY <1>1 DEF IInv, TypeOK
<1>5. d \in Carrier /\ pc[d] = "joined" /\ d # c /\ c \notin pending /\ c \notin doomed
  BY <1>2, <1>3
<1>6. \A s \in Carrier \ {c} : d \notin LegsOf(s)
  BY <1>2, <1>5 DEF Ownership, LegHeldOnce
<1>7. \A s \in pending : pc[s] \in {"opening", "waiting"}
  BY DEF IInv, PendingUnresolved
<1>8. MarkedApart'
  <2>1. \A r \in Route : controls'[r] # None => pc'[controls'[r]] = "control"
    BY <1>1, <1>4 DEF MarkedApart, Ownership, IInv, TypeOK
  <2>2. \A x \in Carrier : pc'[x] \in {"handshake", "preface"} => x \in alive'
    BY <1>1, <1>4, <1>5 DEF MarkedApart, Ownership
  <2>3. pending' \subseteq alive'
    BY <1>1, <1>4, <1>5, <1>7 DEF MarkedApart, Ownership
  <2>4. \A x \in doomed' : /\ pc'[x] \notin Early \union {"registering", "registered", "joined"}
                           /\ x \notin pending' /\ LegsOf(x)' = {}
    BY <1>1, <1>2, <1>4 DEF MarkedApart, Ownership, Early
  <2> QED BY <2>1, <2>2, <2>3, <2>4 DEF MarkedApart
<1>9. LegPlaces'
  BY <1>1, <1>4 DEF LegPlaces, Ownership, Open, d
<1>10. LegFits' /\ LegHeldOnce'
  <2>1. \A x \in Carrier : pc'[x] = "joined" <=> pc[x] = "joined"
    BY <1>1, <1>4
  <2> QED BY <1>1, <1>2, <1>3, <1>4, <2>1 DEF LegFits, LegHeldOnce, Ownership
<1>11. PairUndisturbed'
  <2>1. SUFFICES ASSUME NEW s \in Carrier, LegsOf(s)' # {}, pc'[s] # "finishing",
                        NEW x \in {s} \union LegsOf(s)'
                 PROVE  x \in alive' \ doomed'
    BY DEF PairUndisturbed, Active
  <2>2. LegsOf(s) # {} /\ x \in {s} \union LegsOf(s) /\ pc[s] # "finishing" /\ s # c
    BY <1>2, <1>4, <2>1
  <2>3. x \in alive \ doomed
    BY <2>2 DEF PairUndisturbed, Active, Ownership
  <2>4. x # c /\ x # d
    BY <1>1, <1>3, <1>5, <1>6, <2>2 DEF Open
  <2> QED BY <1>1, <2>3, <2>4
<1> QED BY <1>8, <1>9, <1>10, <1>11 DEF Ownership

(* finishActive releases the leg, which is closed. *)
LEMMA FinishStep ==
  ASSUME IInv, Ownership, NEW c \in Carrier, FinishActive(c)
  PROVE  /\ Ownership'
         /\ LegsOf(c) # {} /\ LegsOf(c)' = {}
         /\ \A s \in Carrier \ {c} : LegsOf(s)' = LegsOf(s)
<1> DEFINE d == connector[c]
<1>1. /\ pc[c] = "finishing" /\ pc' = [pc EXCEPT ![c] = "closed"]
      /\ alive' = alive \ {c} /\ connector' = [connector EXCEPT ![c] = None]
      /\ UNCHANGED <<controls, pending, item, resolved, doomed>>
  BY DEF FinishActive, Return, Goto
<1>2. /\ LegsOf(c) = {d} /\ LegsOf(c)' = {}
      /\ \A s \in Carrier \ {c} : LegsOf(s)' = LegsOf(s)
      /\ d \notin alive
  <2>1. resolved[c] = {} /\ d # None /\ d \notin alive
    BY <1>1 DEF Ownership, LegPlaces
  <2> QED BY <1>1, <2>1 DEF LegsOf, IInv, TypeOK
<1> HIDE DEF d
<1>3. /\ \A s \in Carrier : \A x \in LegsOf(s) : x \in Carrier /\ pc[x] = "joined" /\ x # s
      /\ \A s \in Carrier : LegsOf(s) # {} => s \notin pending /\ s \notin doomed
  BY LegFacts
<1>4. /\ \A s \in Carrier \ {c} : pc'[s] = pc[s] /\ connector'[s] = connector[s]
      /\ pc'[c] = "closed"
      /\ alive \subseteq Carrier /\ pending \subseteq Carrier /\ doomed \subseteq Carrier
  BY <1>1 DEF IInv, TypeOK
<1>5. d \in Carrier /\ pc[d] = "joined" /\ d # c /\ c \notin pending /\ c \notin doomed
  BY <1>2, <1>3
<1>6. MarkedApart'
  <2>1. \A r \in Route : controls'[r] # None => pc'[controls'[r]] = "control"
    BY <1>1, <1>4 DEF MarkedApart, Ownership, IInv, TypeOK
  <2>2. \A x \in Carrier : pc'[x] \in {"handshake", "preface"} => x \in alive'
    BY <1>1, <1>4, <1>5 DEF MarkedApart, Ownership
  <2>3. pending' \subseteq alive'
    BY <1>1, <1>4, <1>5 DEF MarkedApart, Ownership
  <2>4. \A x \in doomed' : /\ pc'[x] \notin Early \union {"registering", "registered", "joined"}
                           /\ x \notin pending' /\ LegsOf(x)' = {}
    BY <1>1, <1>2, <1>4, <1>5 DEF MarkedApart, Ownership, Early
  <2> QED BY <2>1, <2>2, <2>3, <2>4 DEF MarkedApart
<1>7. LegPlaces'
  <2>1. resolved[c] = {}
    BY <1>1 DEF Ownership, LegPlaces
  <2> QED BY <1>1, <1>4, <2>1 DEF LegPlaces, Ownership
<1>8. \A x \in Carrier : pc'[x] = "joined" <=> pc[x] = "joined"
  BY <1>1, <1>4
<1>9. LegFits'
  BY <1>1, <1>2, <1>3, <1>8 DEF LegFits, Ownership
<1>10. LegHeldOnce'
  <2>1. \A s, t \in Carrier : LegsOf(s)' \intersect LegsOf(t)' # {} => s = t
    BY <1>2 DEF LegHeldOnce, Ownership
  <2>2. ASSUME NEW x \in alive', pc'[x] = "joined" PROVE \E s \in Carrier : x \in LegsOf(s)'
    <3>1. x \in alive /\ pc[x] = "joined" /\ x # d
      BY <1>1, <1>2, <1>4, <1>8, <2>2
    <3>2. PICK s \in Carrier : x \in LegsOf(s)
      BY <3>1 DEF LegHeldOnce, Ownership
    <3> QED BY <1>2, <3>1, <3>2
  <2> QED BY <2>1, <2>2 DEF LegHeldOnce
<1>11. PairUndisturbed'
  <2>1. SUFFICES ASSUME NEW s \in Carrier, LegsOf(s)' # {}, pc'[s] # "finishing",
                        NEW x \in {s} \union LegsOf(s)'
                 PROVE  x \in alive' \ doomed'
    BY DEF PairUndisturbed, Active
  <2>2. LegsOf(s) # {} /\ x \in {s} \union LegsOf(s) /\ pc[s] # "finishing" /\ s # c
    BY <1>2, <1>4, <2>1
  <2>3. x \in alive \ doomed
    BY <2>2 DEF PairUndisturbed, Active, Ownership
  <2>4. x # c
    BY <1>1, <1>3, <2>2
  <2> QED BY <1>1, <2>3, <2>4
<1> QED BY <1>2, <1>6, <1>7, <1>9, <1>10, <1>11 DEF Ownership

(* joinData hands the leg c to the pending session s. *)
LEMMA JoinStep ==
  ASSUME IInv, Ownership, NEW c \in Carrier, NEW e \in Carrier, NEW s \in Carrier,
         DataJoin(c, e, s), MayJoin(c, e, s)
  PROVE  /\ Ownership'
         /\ s \in pending /\ LegsOf(s) = {} /\ LegsOf(s)' = {c}
         /\ \A x \in Carrier \ {s} : LegsOf(x)' = LegsOf(x)
<1>1. /\ pc[c] = "preface" /\ IsConnector(c) /\ pc' = [pc EXCEPT ![c] = "joined"]
      /\ ResolveAll({s}, c)
      /\ UNCHANGED <<alive, controls, item, connector, doomed>>
  BY DEF DataJoin, Goto
<1>2. /\ s \in pending /\ s # c /\ pc[s] \in {"opening", "waiting"} /\ resolved[s] = {}
      /\ connector[s] = None /\ item[s] \in Items
      /\ item[s].route = Identity[c].route /\ item[s].pin = Identity[c].pin
  BY <1>1 DEF MayJoin, IInv, PendingUnresolved, HandlerPhases, SessionPhases
<1>3. /\ pending' = pending \ {s}
      /\ \A x \in Carrier : resolved'[x] = IF x \in {s} THEN {c} ELSE resolved[x]
  <2>1. {s} \in SUBSET pending /\ c \in Carrier \union {None} /\ ResolveAll({s}, c)
    BY <1>1, <1>2
  <2> QED BY <2>1, ResolveAllSends
<1>4. /\ LegsOf(s) = {} /\ LegsOf(s)' = {c}
      /\ \A x \in Carrier \ {s} : LegsOf(x)' = LegsOf(x)
  BY <1>1, <1>2, <1>3, CarrierAssumption DEF LegsOf
<1>5. /\ \A x \in Carrier : \A d \in LegsOf(x) : d \in Carrier /\ pc[d] = "joined" /\ d # x
      /\ \A x \in Carrier : LegsOf(x) # {} => /\ pc[x] \in Open \union {"copying", "finishing"}
                                              /\ x \notin pending /\ x \notin doomed
      /\ \A x \in Carrier : LegsOf(x) = {} => resolved[x] \subseteq {None}
  BY LegFacts
<1>6. /\ \A x \in Carrier \ {c} : pc'[x] = pc[x]
      /\ pc'[c] = "joined"
      /\ alive \subseteq Carrier /\ pending \subseteq Carrier /\ doomed \subseteq Carrier
  BY <1>1 DEF IInv, TypeOK
<1>7. c \in alive /\ c \notin doomed /\ s \in alive /\ s \notin doomed /\ LegsOf(c) = {}
  BY <1>1, <1>2, <1>5 DEF Ownership, MarkedApart, Early, Open
<1>8. MarkedApart'
  <2>1. \A r \in Route : controls'[r] # None => pc'[controls'[r]] = "control"
    BY <1>1, <1>6 DEF MarkedApart, Ownership, IInv, TypeOK
  <2>2. \A x \in Carrier : pc'[x] \in {"handshake", "preface"} => x \in alive'
    BY <1>1, <1>6 DEF MarkedApart, Ownership
  <2>3. pending' \subseteq alive'
    BY <1>1, <1>3 DEF MarkedApart, Ownership
  <2>4. \A x \in doomed' : /\ pc'[x] \notin Early \union {"registering", "registered", "joined"}
                           /\ x \notin pending' /\ LegsOf(x)' = {}
    BY <1>1, <1>3, <1>4, <1>6, <1>7 DEF MarkedApart, Ownership, Early
  <2> QED BY <2>1, <2>2, <2>3, <2>4 DEF MarkedApart
<1>9. LegPlaces'
  <2>1. \A x \in Carrier : x # s => resolved'[x] = resolved[x]
    BY <1>3
  <2>2. resolved[c] \subseteq {None}
    BY <1>5, <1>7
  <2>3. \A x \in Carrier \ {c, s} :
          /\ pc'[x] \notin Open => resolved'[x] \subseteq {None}
          /\ pc'[x] \in {"copying", "finishing"} => connector'[x] # None /\ resolved'[x] = {}
          /\ pc'[x] = "finishing" => connector'[x] \notin alive'
    BY <1>1, <1>6, <2>1 DEF LegPlaces, Ownership
  <2>4. pc'[s] \in Open /\ pc'[s] \notin {"copying", "finishing"}
    BY <1>2, <1>6 DEF Open
  <2> QED BY <1>2, <1>6, <2>1, <2>2, <2>3, <2>4 DEF LegPlaces
<1>10. LegFits'
  <2>1. ASSUME NEW x \in Carrier, NEW d \in LegsOf(x)'
        PROVE  /\ pc'[d] = "joined" /\ IsConnector(d) /\ item[x] \in Items
               /\ item[x].route = Identity[d].route /\ item[x].pin = Identity[d].pin
    BY <1>1, <1>2, <1>4, <1>5, <1>6, <2>1 DEF LegFits, Ownership
  <2> QED BY <1>1, <2>1 DEF LegFits, IsConnector
<1>11. LegHeldOnce'
  <2>1. \A x \in Carrier : c \notin LegsOf(x)
    BY <1>1, <1>5
  <2>2. \A x, t \in Carrier : LegsOf(x)' \intersect LegsOf(t)' # {} => x = t
    BY <1>4, <2>1 DEF LegHeldOnce, Ownership
  <2>3. ASSUME NEW d \in alive', pc'[d] = "joined" PROVE \E x \in Carrier : d \in LegsOf(x)'
    BY <1>1, <1>4, <1>6, <2>3 DEF LegHeldOnce, Ownership
  <2> QED BY <2>2, <2>3 DEF LegHeldOnce
<1>12. PairUndisturbed'
  BY <1>1, <1>4, <1>5, <1>6, <1>7 DEF PairUndisturbed, Active, Ownership
<1> QED BY <1>2, <1>4, <1>8, <1>9, <1>10, <1>11, <1>12 DEF Ownership

(* beginPending admits c. *)
LEMMA PendStep ==
  ASSUME IInv, Ownership, NEW c \in Carrier, NEW r \in Route,
         ClientOpen(c, r), MayPend(Identity[c].name, r)
  PROVE  /\ Ownership'
         /\ \A s \in Carrier : LegsOf(s)' = LegsOf(s)
         /\ LegsOf(c) = {} /\ c \notin pending
<1>1. /\ pc[c] = "preface" /\ pc' = [pc EXCEPT ![c] = "opening"]
      /\ pending' = pending \union {c}
      /\ \A s \in Carrier \ {c} : item'[s] = item[s]
      /\ UNCHANGED <<alive, controls, resolved, connector, doomed>>
  BY DEF ClientOpen, Goto, IInv, TypeOK
<1>2. \A s \in Carrier : LegsOf(s)' = LegsOf(s)
  BY <1>1 DEF LegsOf
<1>3. /\ \A s \in Carrier : \A d \in LegsOf(s) : d \in Carrier /\ pc[d] = "joined" /\ d # s
      /\ \A s \in Carrier : LegsOf(s) # {} => /\ pc[s] \in Open \union {"copying", "finishing"}
                                              /\ s \notin pending /\ s \notin doomed
      /\ \A s \in Carrier : LegsOf(s) = {} => resolved[s] \subseteq {None}
  BY LegFacts
<1>4. LegsOf(c) = {} /\ c \notin pending /\ c \in alive /\ c \notin doomed
  BY <1>1, <1>3 DEF Open, IInv, PendingUnresolved, Ownership, MarkedApart, Early
<1>5. /\ \A s \in Carrier \ {c} : pc'[s] = pc[s]
      /\ pc'[c] = "opening"
      /\ alive \subseteq Carrier /\ pending \subseteq Carrier /\ doomed \subseteq Carrier
  BY <1>1 DEF IInv, TypeOK
<1>6. MarkedApart'
  <2>1. \A x \in Route : controls'[x] # None => pc'[controls'[x]] = "control"
    BY <1>1, <1>5 DEF MarkedApart, Ownership, IInv, TypeOK
  <2>2. \A x \in Carrier : pc'[x] \in {"handshake", "preface"} => x \in alive'
    BY <1>1, <1>5 DEF MarkedApart, Ownership
  <2>3. pending' \subseteq alive'
    BY <1>1, <1>4 DEF MarkedApart, Ownership
  <2>4. \A x \in doomed' : /\ pc'[x] \notin Early \union {"registering", "registered", "joined"}
                           /\ x \notin pending' /\ LegsOf(x)' = {}
    BY <1>1, <1>2, <1>4, <1>5 DEF MarkedApart, Ownership, Early
  <2> QED BY <2>1, <2>2, <2>3, <2>4 DEF MarkedApart
<1>7. LegPlaces'
  BY <1>1, <1>5 DEF LegPlaces, Ownership, Open
<1>8. \A x \in Carrier : pc'[x] = "joined" <=> pc[x] = "joined"
  BY <1>1, <1>5
<1>9. LegFits'
  BY <1>1, <1>2, <1>3, <1>4, <1>8 DEF LegFits, Ownership, IsConnector
<1>10. LegHeldOnce'
  BY <1>1, <1>2, <1>5, <1>8 DEF LegHeldOnce, Ownership
<1>11. PairUndisturbed'
  BY <1>1, <1>2, <1>4, <1>5 DEF PairUndisturbed, Active, Ownership
<1> QED BY <1>2, <1>4, <1>6, <1>7, <1>9, <1>10, <1>11 DEF Ownership

-----------------------------------------------------------------------------
(* The counters. *)

(* Sets of carriers are finite. *)
LEMMA Finite ==
  \A S \in SUBSET Carrier : IsFiniteSet(S) /\ Cardinality(S) \in Nat
BY FS_Subset, FS_CardinalityType, CarrierAssumption

(* A set of carriers with one more. *)
LEMMA OneMore ==
  ASSUME NEW S \in SUBSET Carrier, NEW x \in Carrier, x \notin S
  PROVE  Cardinality(S \union {x}) = Cardinality(S) + 1
BY Finite, FS_AddElement

(* And with one less. *)
LEMMA OneLess ==
  ASSUME NEW S \in SUBSET Carrier, NEW x \in S
  PROVE  Cardinality(S \ {x}) = Cardinality(S) - 1
BY Finite, FS_RemoveElement

(* What is taken out of a set of carriers counts. *)
LEMMA PartOut ==
  ASSUME NEW S \in SUBSET Carrier, NEW T \in SUBSET S
  PROVE  Cardinality(S \ T) = Cardinality(S) - Cardinality(T)
<1>1. S \intersect T = T
  OBVIOUS
<1> QED BY <1>1, Finite, FS_Difference

(* A handshake slot is taken or given back with the phase it covers. *)
LEMMA SlotStep ==
  ASSUME IInv, HandshakesExact, NEW c \in Carrier, NEW at, pc' = [pc EXCEPT ![c] = at],
         handshakes' = IF at \in {"handshake", "preface"}
                       THEN IF pc[c] \in {"handshake", "preface"} THEN handshakes ELSE handshakes + 1
                       ELSE IF pc[c] \in {"handshake", "preface"} THEN handshakes - 1 ELSE handshakes
  PROVE  HandshakesExact'
<1>1. Greeting \in SUBSET Carrier
  BY DEF Greeting
<1>2. /\ pc'[c] = at /\ \A x \in Carrier \ {c} : pc'[x] = pc[x]
      /\ c \in Greeting <=> pc[c] \in {"handshake", "preface"}
  BY DEF IInv, TypeOK, Greeting
<1>3. CASE c \notin Greeting /\ at \in {"handshake", "preface"}
  <2>1. Greeting' = Greeting \union {c}
    BY <1>2, <1>3 DEF Greeting
  <2> QED BY <1>1, <1>2, <1>3, <2>1, OneMore DEF HandshakesExact
<1>4. CASE c \in Greeting /\ at \notin {"handshake", "preface"}
  <2>1. Greeting' = Greeting \ {c}
    BY <1>2, <1>4 DEF Greeting
  <2> QED BY <1>1, <1>2, <1>4, <2>1, OneLess DEF HandshakesExact
<1>5. CASE c \in Greeting <=> at \in {"handshake", "preface"}
  <2>1. Greeting' = Greeting
    BY <1>2, <1>5 DEF Greeting
  <2> QED BY <1>2, <1>5, <2>1 DEF HandshakesExact
<1> QED BY <1>3, <1>4, <1>5

(* resolvePendingLocked gives back the places of the sessions S. *)
LEMMA ResolveCounts ==
  ASSUME IInv, PendingExact, NEW S \in SUBSET pending, NEW leg, ResolveAll(S, leg),
         UNCHANGED item
  PROVE  PendingExact'
<1>1. /\ pending' = pending \ S /\ pending \in SUBSET Carrier /\ S \in SUBSET Carrier
      /\ pendingPerRoute' = [r \in Route |-> pendingPerRoute[r] - Cardinality(Of(S, r))]
      /\ clientPending' = [cl \in Client |-> clientPending[cl] - Cardinality(By(S, cl))]
  BY DEF ResolveAll, IInv, TypeOK
<1>2. Cardinality(pending') <= PendingGlobal
  <2>1. Cardinality(pending \ S) = Cardinality(pending) - Cardinality(S)
    BY <1>1, PartOut
  <2>2. Cardinality(pending) \in Nat /\ Cardinality(S) \in Nat /\ PendingGlobal \in Nat
    BY <1>1, Finite, LimitAssumption
  <2> QED BY <1>1, <2>1, <2>2 DEF PendingExact
<1>3. ASSUME NEW r \in Route
      PROVE  /\ pendingPerRoute'[r] = Cardinality(Of(pending, r)')
             /\ pendingPerRoute'[r] <= PendingPerRoute
  <2>1. /\ Of(pending, r)' = Of(pending, r) \ Of(S, r)
        /\ Of(pending, r) \in SUBSET Carrier /\ Of(S, r) \in SUBSET Of(pending, r)
    BY <1>1 DEF Of
  <2>2. Cardinality(Of(pending, r) \ Of(S, r)) = Cardinality(Of(pending, r)) - Cardinality(Of(S, r))
    BY <2>1, PartOut
  <2>3. Cardinality(Of(pending, r)) \in Nat /\ Cardinality(Of(S, r)) \in Nat /\ PendingPerRoute \in Nat
    BY <1>1, <2>1, Finite, LimitAssumption
  <2>4. /\ pendingPerRoute'[r] = pendingPerRoute[r] - Cardinality(Of(S, r))
        /\ pendingPerRoute[r] = Cardinality(Of(pending, r)) /\ pendingPerRoute[r] <= PendingPerRoute
    BY <1>1 DEF PendingExact
  <2> QED BY <2>1, <2>2, <2>3, <2>4
<1>4. ASSUME NEW cl \in Client
      PROVE  /\ clientPending'[cl] = Cardinality(By(pending, cl)')
             /\ clientPending'[cl] <= PendingPerClient
  <2>1. /\ By(pending, cl)' = By(pending, cl) \ By(S, cl)
        /\ By(pending, cl) \in SUBSET Carrier /\ By(S, cl) \in SUBSET By(pending, cl)
    BY <1>1 DEF By
  <2>2. Cardinality(By(pending, cl) \ By(S, cl)) = Cardinality(By(pending, cl)) - Cardinality(By(S, cl))
    BY <2>1, PartOut
  <2>3. Cardinality(By(pending, cl)) \in Nat /\ Cardinality(By(S, cl)) \in Nat /\ PendingPerClient \in Nat
    BY <1>1, <2>1, Finite, LimitAssumption
  <2>4. /\ clientPending'[cl] = clientPending[cl] - Cardinality(By(S, cl))
        /\ clientPending[cl] = Cardinality(By(pending, cl)) /\ clientPending[cl] <= PendingPerClient
    BY <1>1 DEF PendingExact
  <2> QED BY <2>1, <2>2, <2>3, <2>4
<1> QED BY <1>2, <1>3, <1>4 DEF PendingExact

(* beginPending takes one place of each kind for c. *)
LEMMA PendCounts ==
  ASSUME IInv, PendingExact, NEW c \in Carrier, c \notin pending, NEW r \in Route,
         ClientOpen(c, r), MayPend(Identity[c].name, r)
  PROVE  PendingExact'
<1> DEFINE name == Identity[c].name
<1>1. /\ pending' = pending \union {c} /\ pending \in SUBSET Carrier
      /\ item'[c].route = r /\ item'[c].name = name
      /\ \A s \in Carrier \ {c} : item'[s] = item[s]
      /\ pendingPerRoute' = [pendingPerRoute EXCEPT ![r] = @ + 1]
      /\ clientPending' = [clientPending EXCEPT ![name] = @ + 1]
  BY DEF ClientOpen, IInv, TypeOK
<1>2. name \in Client
  BY ClientIdentity DEF ClientOpen
<1>3. /\ Cardinality(pending) < PendingGlobal /\ pendingPerRoute[r] < PendingPerRoute
      /\ clientPending[name] < PendingPerClient
  BY DEF MayPend
<1>4. {PendingGlobal, PendingPerRoute, PendingPerClient} \subseteq Nat
  BY LimitAssumption
<1>5. pendingPerRoute \in [Route -> Int] /\ clientPending \in [Client -> Int]
  BY DEF IInv, TypeOK
<1> HIDE DEF name
<1>6. Cardinality(pending') <= PendingGlobal
  BY <1>1, <1>3, <1>4, Finite, OneMore
<1>7. ASSUME NEW q \in Route
      PROVE  /\ pendingPerRoute'[q] = Cardinality(Of(pending, q)')
             /\ pendingPerRoute'[q] <= PendingPerRoute
  <2>1. /\ Of(pending, q)' = IF q = r THEN Of(pending, q) \union {c} ELSE Of(pending, q)
        /\ Of(pending, q) \in SUBSET Carrier /\ c \notin Of(pending, q)
    BY <1>1 DEF Of
  <2>2. Cardinality(Of(pending, q)) \in Nat
        /\ Cardinality(Of(pending, q) \union {c}) = Cardinality(Of(pending, q)) + 1
    BY <2>1, Finite, OneMore
  <2> QED BY <1>1, <1>3, <1>4, <1>5, <2>1, <2>2 DEF PendingExact
<1>8. ASSUME NEW q \in Client
      PROVE  /\ clientPending'[q] = Cardinality(By(pending, q)')
             /\ clientPending'[q] <= PendingPerClient
  <2>1. /\ By(pending, q)' = IF q = name THEN By(pending, q) \union {c} ELSE By(pending, q)
        /\ By(pending, q) \in SUBSET Carrier /\ c \notin By(pending, q)
    BY <1>1 DEF By
  <2>2. Cardinality(By(pending, q)) \in Nat
        /\ Cardinality(By(pending, q) \union {c}) = Cardinality(By(pending, q)) + 1
    BY <2>1, Finite, OneMore
  <2> QED BY <1>1, <1>2, <1>3, <1>4, <1>5, <2>1, <2>2 DEF PendingExact
<1> QED BY <1>6, <1>7, <1>8 DEF PendingExact

(* Sessions that keep their legs keep their places. *)
LEMMA ActiveKept ==
  ASSUME ActiveExact, \A s \in Carrier : LegsOf(s)' = LegsOf(s),
         \A s \in Active : item'[s] = item[s],
         UNCHANGED <<activeGlobal, activePerRoute, clientActive>>
  PROVE  ActiveExact'
<1>1. Active' = Active
  BY DEF Active
<1>2. \A r \in Route : Of(Active, r)' = Of(Active, r)
  BY <1>1 DEF Of
<1>3. \A cl \in Client : By(Active, cl)' = By(Active, cl)
  BY <1>1 DEF By
<1> QED BY <1>1, <1>2, <1>3 DEF ActiveExact

(* joinData takes one place of each kind for s. *)
LEMMA JoinCounts ==
  ASSUME IInv, ActiveExact, NEW c \in Carrier, NEW e \in Carrier, NEW s \in Carrier,
         DataJoin(c, e, s), MayJoin(c, e, s),
         s \in pending, LegsOf(s) = {}, LegsOf(s)' = {c},
         \A x \in Carrier \ {s} : LegsOf(x)' = LegsOf(x)
  PROVE  ActiveExact'
<1> DEFINE r == Identity[c].route
           cl == item[s].name
<1>1. /\ activeGlobal' = activeGlobal + 1
      /\ activePerRoute' = [activePerRoute EXCEPT ![r] = @ + 1]
      /\ clientActive' = [clientActive EXCEPT ![cl] = @ + 1]
      /\ item' = item
  BY DEF DataJoin
<1>2. /\ r \in Route /\ cl \in Client /\ item[s].route = r
      /\ activeGlobal < ActiveGlobal /\ activePerRoute[r] < ActivePerRoute
      /\ clientActive[cl] < ActivePerClient
  <2>1. item[s] \in Items /\ item[s].route = r
    BY DEF MayJoin, IInv, PendingUnresolved, HandlerPhases, SessionPhases
  <2> QED BY <2>1 DEF MayJoin, Items
<1>3. {ActiveGlobal, ActivePerRoute, ActivePerClient} \subseteq Nat
  BY LimitAssumption
<1>4. activePerRoute \in [Route -> Int] /\ clientActive \in [Client -> Int] /\ activeGlobal \in Int
  BY DEF IInv, TypeOK
<1>5. Active' = Active \union {s} /\ s \notin Active /\ Active \in SUBSET Carrier
  BY DEF Active
<1>6. cl = item[s].name
  OBVIOUS
<1> HIDE DEF r, cl
<1>7. activeGlobal' = Cardinality(Active') /\ activeGlobal' <= ActiveGlobal
  BY <1>1, <1>2, <1>3, <1>4, <1>5, OneMore DEF ActiveExact
<1>8. ASSUME NEW q \in Route
      PROVE  /\ activePerRoute'[q] = Cardinality(Of(Active, q)')
             /\ activePerRoute'[q] <= ActivePerRoute
  <2>1. /\ Of(Active, q)' = IF q = r THEN Of(Active, q) \union {s} ELSE Of(Active, q)
        /\ Of(Active, q) \in SUBSET Carrier /\ s \notin Of(Active, q)
    BY <1>1, <1>2, <1>5 DEF Of
  <2>2. Cardinality(Of(Active, q) \union {s}) = Cardinality(Of(Active, q)) + 1
    BY <2>1, OneMore
  <2>3. activePerRoute[q] = Cardinality(Of(Active, q)) /\ activePerRoute[q] <= ActivePerRoute
    BY DEF ActiveExact
  <2> QED BY <1>1, <1>2, <1>3, <1>4, <2>1, <2>2, <2>3
<1>9. ASSUME NEW q \in Client
      PROVE  /\ clientActive'[q] = Cardinality(By(Active, q)')
             /\ clientActive'[q] <= ActivePerClient
  <2>1. /\ By(Active, q)' = IF q = cl THEN By(Active, q) \union {s} ELSE By(Active, q)
        /\ By(Active, q) \in SUBSET Carrier /\ s \notin By(Active, q)
    BY <1>1, <1>5, <1>6 DEF By
  <2>2. Cardinality(By(Active, q) \union {s}) = Cardinality(By(Active, q)) + 1
    BY <2>1, OneMore
  <2>3. clientActive[q] = Cardinality(By(Active, q)) /\ clientActive[q] <= ActivePerClient
    BY DEF ActiveExact
  <2> QED BY <1>1, <1>2, <1>3, <1>4, <2>1, <2>2, <2>3
<1> QED BY <1>7, <1>8, <1>9 DEF ActiveExact

(* finishActive gives them back. *)
LEMMA FinishCounts ==
  ASSUME IInv, ActiveExact, NEW c \in Carrier, FinishActive(c),
         LegsOf(c) # {}, LegsOf(c)' = {},
         \A x \in Carrier \ {c} : LegsOf(x)' = LegsOf(x)
  PROVE  ActiveExact'
<1> DEFINE r == item[c].route
           cl == item[c].name
<1>1. /\ activeGlobal' = activeGlobal - 1
      /\ activePerRoute' = [activePerRoute EXCEPT ![r] = @ - 1]
      /\ clientActive' = [clientActive EXCEPT ![cl] = @ - 1]
      /\ item' = item
  BY DEF FinishActive
<1>2. r \in Route /\ cl \in Client
  BY DEF FinishActive, IInv, HandlerPhases, SessionPhases, Items
<1>3. {ActiveGlobal, ActivePerRoute, ActivePerClient} \subseteq Nat
  BY LimitAssumption
<1>4. activePerRoute \in [Route -> Int] /\ clientActive \in [Client -> Int] /\ activeGlobal \in Int
  BY DEF IInv, TypeOK
<1>5. Active' = Active \ {c} /\ c \in Active /\ Active \in SUBSET Carrier
  BY DEF Active
<1>6. cl = item[c].name /\ r = item[c].route
  OBVIOUS
<1> HIDE DEF r, cl
<1>7. activeGlobal' = Cardinality(Active') /\ activeGlobal' <= ActiveGlobal
  BY <1>1, <1>3, <1>4, <1>5, OneLess DEF ActiveExact
<1>8. ASSUME NEW q \in Route
      PROVE  /\ activePerRoute'[q] = Cardinality(Of(Active, q)')
             /\ activePerRoute'[q] <= ActivePerRoute
  <2>1. /\ Of(Active, q)' = IF q = r THEN Of(Active, q) \ {c} ELSE Of(Active, q)
        /\ Of(Active, q) \in SUBSET Carrier /\ (q = r => c \in Of(Active, q))
    BY <1>1, <1>5, <1>6 DEF Of
  <2>2. q = r => Cardinality(Of(Active, q) \ {c}) = Cardinality(Of(Active, q)) - 1
    BY <2>1, OneLess
  <2>3. activePerRoute[q] = Cardinality(Of(Active, q)) /\ activePerRoute[q] <= ActivePerRoute
    BY DEF ActiveExact
  <2> QED BY <1>1, <1>2, <1>3, <1>4, <2>1, <2>2, <2>3
<1>9. ASSUME NEW q \in Client
      PROVE  /\ clientActive'[q] = Cardinality(By(Active, q)')
             /\ clientActive'[q] <= ActivePerClient
  <2>1. /\ By(Active, q)' = IF q = cl THEN By(Active, q) \ {c} ELSE By(Active, q)
        /\ By(Active, q) \in SUBSET Carrier /\ (q = cl => c \in By(Active, q))
    BY <1>1, <1>5, <1>6 DEF By
  <2>2. q = cl => Cardinality(By(Active, q) \ {c}) = Cardinality(By(Active, q)) - 1
    BY <2>1, OneLess
  <2>3. clientActive[q] = Cardinality(By(Active, q)) /\ clientActive[q] <= ActivePerClient
    BY DEF ActiveExact
  <2> QED BY <1>1, <1>2, <1>3, <1>4, <2>1, <2>2, <2>3
<1> QED BY <1>7, <1>8, <1>9 DEF ActiveExact

(* A step that leaves the tables and the counters alone. *)
LEMMA CountsKept ==
  ASSUME PendingExact, ActiveExact, UNCHANGED <<pending, item, counters>>,
         \A s \in Carrier : LegsOf(s)' = LegsOf(s)
  PROVE  PendingExact' /\ ActiveExact'
<1>1. UNCHANGED <<pending, item, pendingPerRoute, clientPending, activeGlobal, activePerRoute,
                  clientActive>>
  BY DEF counters
<1>2. PendingExact'
  BY <1>1 DEF PendingExact, Of, By
<1>3. ActiveExact'
  BY <1>1, ActiveKept
<1> QED BY <1>2, <1>3

(* A handler before its first frame, or one without a session, moves on. *)
LEMMA EarlyStep ==
  ASSUME IInv, SessionInv, NEW c \in Carrier,
         pc[c] \in Early \union {"registering"},
         NEW at \in {"handshake", "preface", "registering", "registered", "closed"},
         pc' = [pc EXCEPT ![c] = at],
         alive' \in {alive \union {c}, alive \ {c}},
         at \in {"handshake", "preface"} => c \in alive',
         UNCHANGED <<controls, pending, item, resolved, connector, doomed, counters>>,
         handshakes' = IF at \in {"handshake", "preface"}
                       THEN IF pc[c] \in {"handshake", "preface"} THEN handshakes ELSE handshakes + 1
                       ELSE IF pc[c] \in {"handshake", "preface"} THEN handshakes - 1 ELSE handshakes
  PROVE  SessionInv'
<1>1. \A s \in Carrier : LegsOf(s)' = LegsOf(s)
  BY DEF LegsOf
<1>2. LegsOf(c) = {} /\ c \notin doomed /\ c \notin pending
  BY LegFacts DEF SessionInv, Early, Open, Ownership, MarkedApart, IInv, PendingUnresolved
<1>3. Ownership'
  BY <1>1, <1>2, QuietStep DEF SessionInv, Early, Phases
<1>4. HandshakesExact'
  BY SlotStep DEF SessionInv
<1>5. PendingExact' /\ ActiveExact'
  BY <1>1, CountsKept DEF SessionInv
<1> QED BY <1>3, <1>4, <1>5 DEF SessionInv

(* Cancelling the sessions S changes no counter but the pending ones. *)
LEMMA CancelCounts ==
  ASSUME IInv, SessionInv, NEW S \in SUBSET pending, ResolveAll(S, None),
         UNCHANGED <<handshakes, item, connector, activeGlobal, activePerRoute, clientActive>>,
         NEW c \in Carrier, NEW at, pc' = [pc EXCEPT ![c] = at],
         {pc[c], at} \intersect {"handshake", "preface"} = {}
  PROVE  HandshakesExact' /\ PendingExact' /\ ActiveExact'
<1>1. HandshakesExact'
  BY SlotStep DEF SessionInv
<1>2. PendingExact'
  BY ResolveCounts DEF SessionInv
<1>3. ActiveExact'
  <2>1. \A s \in Carrier : LegsOf(s)' = LegsOf(s)
    BY CancelLegs
  <2> QED BY <2>1, ActiveKept DEF SessionInv
<1> QED BY <1>1, <1>2, <1>3

(* cancelPendingItem, or going on when another resolution came first. *)
LEMMA CancelOrKeeps ==
  ASSUME IInv, SessionInv, NEW c \in Carrier, NEW phase \in {"late", "discarding"},
         pc[c] \in {"opening", "waiting"}, CancelOr(c, phase)
  PROVE  SessionInv'
<1>1. CASE c \in pending
  <2>1. /\ ResolveAll({c}, None) /\ pc' = [pc EXCEPT ![c] = "closed"] /\ alive' = alive \ {c}
        /\ UNCHANGED <<handshakes, controls, item, connector, doomed>>
        /\ UNCHANGED <<activeGlobal, activePerRoute, clientActive>>
    BY <1>1 DEF CancelOr, Return, Goto, ActiveUnchanged
  <2>2. {c} \in SUBSET pending
    BY <1>1
  <2>3. /\ \A s \in Carrier : LegsOf(s)' = LegsOf(s)
        /\ \A s \in {c} : LegsOf(s) = {}
        /\ pending' = pending \ {c}
        /\ \A s \in Carrier : resolved'[s] = IF s \in {c} THEN {None} ELSE resolved[s]
    BY <2>1, <2>2, CancelLegs
  <2>4. \A r \in Route : controls[r] # None => controls[r] # c
    BY DEF SessionInv, Ownership, MarkedApart
  <2>5. Ownership'
    <3>1. doomed' = doomed \union {}
      BY <2>1
    <3> QED BY <2>1, <2>2, <2>3, <2>4, <3>1, CancelStep DEF SessionInv
  <2>6. HandshakesExact' /\ PendingExact' /\ ActiveExact'
    BY <2>1, <2>2, CancelCounts
  <2> QED BY <2>5, <2>6 DEF SessionInv
<1>2. CASE c \notin pending
  <2>1. /\ pc' = [pc EXCEPT ![c] = phase]
        /\ UNCHANGED <<pending, pendingPerRoute, clientPending, resolved, alive>>
        /\ UNCHANGED <<handshakes, controls, item, connector, doomed>>
        /\ UNCHANGED <<activeGlobal, activePerRoute, clientActive>>
    BY <1>2 DEF CancelOr, Goto, ActiveUnchanged
  <2>2. Ownership'
    BY <2>1, OpenStep DEF SessionInv, Open
  <2>3. HandshakesExact'
    BY <2>1, SlotStep DEF SessionInv
  <2>4. PendingExact' /\ ActiveExact'
    <3>1. \A s \in Carrier : LegsOf(s)' = LegsOf(s)
      BY <2>1 DEF LegsOf
    <3> QED BY <2>1, <3>1, CountsKept DEF SessionInv, counters
  <2> QED BY <2>2, <2>3, <2>4 DEF SessionInv
<1> QED BY <1>1, <1>2

(* Every action of a handler keeps the sessions' invariant. *)
LEMMA StepSessions ==
  ASSUME IInv, SessionInv, NEW c \in Carrier, Step(c)
  PROVE  SessionInv'
<1>1. CASE Accept(c) \/ Authenticated(c) \/ Reject(c) \/ ControlRegister(c) \/ RegisterFails(c)
           \/ RegisterWritten(c)
  <2>1. /\ UNCHANGED <<controls, pending, item, resolved, connector, doomed, counters>>
        /\ alive \subseteq Carrier
    BY <1>1 DEF Accept, Authenticated, Reject, ControlRegister, RegisterFails, RegisterWritten,
       TablesUnchanged, IInv, TypeOK
  <2>2. pc[c] \in {"handshake", "preface"} => c \in alive
    BY DEF SessionInv, Ownership, MarkedApart
  <2>3. alive' = alive => alive' \in {alive \union {c}, alive \ {c}}
    BY <2>1
  <2>4. CASE Accept(c)
    BY <2>1, <2>4, EarlyStep DEF Accept, Goto, Return, Early
  <2>5. CASE Authenticated(c)
    BY <2>1, <2>2, <2>3, <2>5, EarlyStep DEF Authenticated, Goto, Early
  <2>6. CASE Reject(c)
    BY <2>1, <2>6, EarlyStep DEF Reject, Goto, Return, Early
  <2>7. CASE ControlRegister(c)
    BY <2>1, <2>3, <2>7, EarlyStep DEF ControlRegister, Goto, Early
  <2>8. CASE RegisterFails(c)
    BY <2>1, <2>8, EarlyStep DEF RegisterFails, Goto, Return, Early
  <2>9. CASE RegisterWritten(c)
    BY <2>1, <2>3, <2>9, EarlyStep DEF RegisterWritten, Goto, Early
  <2> QED BY <1>1, <2>4, <2>5, <2>6, <2>7, <2>8, <2>9
<1>2. CASE InstallControl(c)
  <2> DEFINE r == Identity[c].route
             old == controls[r]
             clients == IF old = None THEN {} ELSE HeldBy(old)
             D == clients \union ({old} \ {None})
  <2>1. r \in Route
    BY <1>2, ConnectorIdentity DEF InstallControl, IInv, ConnectorPhases
  <2>2. /\ pc[c] = "registered" /\ pc' = [pc EXCEPT ![c] = "control"]
        /\ controls' = [controls EXCEPT ![r] = c]
        /\ ResolveAll(clients, None)
        /\ doomed' = doomed \union D
        /\ UNCHANGED <<handshakes, item, connector, alive>>
        /\ UNCHANGED <<activeGlobal, activePerRoute, clientActive>>
    BY <1>2 DEF InstallControl, Goto, ActiveUnchanged
  <2>3. clients \in SUBSET pending
    BY DEF HeldBy
  <2>4. D \in SUBSET Carrier /\ \A d \in D : d \in clients \/ pc[d] = "control"
    BY <2>1, <2>3 DEF SessionInv, Ownership, MarkedApart, IInv, TypeOK
  <2> HIDE DEF clients, D
  <2>5. /\ \A s \in Carrier : LegsOf(s)' = LegsOf(s)
        /\ \A s \in clients : LegsOf(s) = {}
        /\ pending' = pending \ clients
        /\ \A s \in Carrier : resolved'[s] = IF s \in clients THEN {None} ELSE resolved[s]
    BY <2>2, <2>3, CancelLegs
  <2>6. \A q \in Route : controls'[q] # None =>
          \/ controls'[q] = c
          \/ controls'[q] = controls[q] /\ controls[q] # c
    BY <2>1, <2>2 DEF IInv, TypeOK
  <2>7. Ownership'
    <3>1. /\ IInv /\ Ownership /\ c \in Carrier /\ UNCHANGED <<item, connector>>
          /\ doomed' = doomed \union D /\ alive' = alive /\ pc[c] = "registered"
      BY <2>2 DEF SessionInv
    <3>2. PICK at \in {"control", "closed", pc[c]} : at = "control"
      OBVIOUS
    <3>3. pc' = [pc EXCEPT ![c] = at]
      BY <2>2, <3>2
    <3> QED BY <2>3, <2>4, <2>5, <2>6, <3>1, <3>2, <3>3, CancelStep
  <2>8. HandshakesExact' /\ PendingExact' /\ ActiveExact'
    BY <2>2, <2>3, CancelCounts
  <2> QED BY <2>7, <2>8 DEF SessionInv
<1>3. CASE ControlEnds(c)
  <2> DEFINE r == Identity[c].route
             clients == IF controls[r] = c THEN HeldBy(c) ELSE {}
  <2>1. r \in Route
    BY <1>3, ConnectorIdentity DEF ControlEnds, IInv, ConnectorPhases
  <2>2. /\ pc[c] = "control" /\ pc' = [pc EXCEPT ![c] = "closed"] /\ alive' = alive \ {c}
        /\ controls' = [controls EXCEPT ![r] = IF controls[r] = c THEN None ELSE @]
        /\ ResolveAll(clients, None)
        /\ doomed' = doomed \union clients
        /\ UNCHANGED <<handshakes, item, connector>>
        /\ UNCHANGED <<activeGlobal, activePerRoute, clientActive>>
    BY <1>3 DEF ControlEnds, Return, Goto, ActiveUnchanged
  <2>3. clients \in SUBSET pending /\ clients \in SUBSET Carrier
    BY DEF HeldBy, IInv, TypeOK
  <2> HIDE DEF clients
  <2>4. /\ \A s \in Carrier : LegsOf(s)' = LegsOf(s)
        /\ \A s \in clients : LegsOf(s) = {}
        /\ pending' = pending \ clients
        /\ \A s \in Carrier : resolved'[s] = IF s \in clients THEN {None} ELSE resolved[s]
    BY <2>2, <2>3, CancelLegs
  <2>5. \A q \in Route : controls'[q] # None => controls'[q] = controls[q] /\ controls[q] # c
    BY <2>1, <2>2, CarrierAssumption DEF IInv, TypeOK, ControlsOwnRoute
  <2>6. Ownership'
    BY <2>2, <2>3, <2>4, <2>5, CancelStep DEF SessionInv
  <2>7. HandshakesExact' /\ PendingExact' /\ ActiveExact'
    BY <2>2, <2>3, CancelCounts
  <2> QED BY <2>6, <2>7 DEF SessionInv
<1>4. ASSUME NEW s \in Carrier, ControlCancel(c, s) PROVE SessionInv'
  <2> DEFINE found == HeldBy(c) \intersect {s}
  <2>1. /\ pc[c] = "control" /\ ResolveAll(found, None) /\ doomed' = doomed \union found
        /\ UNCHANGED <<pc, handshakes, controls, item, connector, alive>>
        /\ UNCHANGED <<activeGlobal, activePerRoute, clientActive>>
    BY <1>4 DEF ControlCancel, ActiveUnchanged
  <2>2. found \in SUBSET pending /\ found \in SUBSET Carrier
    BY DEF HeldBy, IInv, TypeOK
  <2>3. pc' = [pc EXCEPT ![c] = pc[c]]
    BY <2>1 DEF IInv, TypeOK
  <2> HIDE DEF found
  <2>4. /\ \A x \in Carrier : LegsOf(x)' = LegsOf(x)
        /\ \A x \in found : LegsOf(x) = {}
        /\ pending' = pending \ found
        /\ \A x \in Carrier : resolved'[x] = IF x \in found THEN {None} ELSE resolved[x]
    BY <2>1, <2>2, CancelLegs
  <2>5. Ownership'
    BY <2>1, <2>2, <2>3, <2>4, CancelStep DEF SessionInv
  <2>6. HandshakesExact' /\ PendingExact' /\ ActiveExact'
    BY <2>1, <2>2, <2>3, CancelCounts
  <2> QED BY <2>5, <2>6 DEF SessionInv
<1>5. ASSUME NEW r \in Route, ClientOpen(c, r) PROVE SessionInv'
  <2>1. CASE MayPend(Identity[c].name, r)
    <3>1. /\ Ownership'
          /\ \A s \in Carrier : LegsOf(s)' = LegsOf(s)
          /\ LegsOf(c) = {} /\ c \notin pending
      BY <1>5, <2>1, PendStep DEF SessionInv
    <3>2. /\ pc[c] = "preface" /\ pc' = [pc EXCEPT ![c] = "opening"] /\ handshakes' = handshakes - 1
          /\ \A s \in Carrier \ {c} : item'[s] = item[s]
          /\ UNCHANGED <<activeGlobal, activePerRoute, clientActive>>
      BY <1>5, <2>1 DEF ClientOpen, Goto, ActiveUnchanged, IInv, TypeOK
    <3>3. HandshakesExact'
      BY <3>2, SlotStep DEF SessionInv
    <3>4. PendingExact'
      BY <1>5, <2>1, <3>1, PendCounts DEF SessionInv
    <3>5. ActiveExact'
      <4>1. \A s \in Active : item'[s] = item[s]
        BY <3>1, <3>2 DEF Active
      <4> QED BY <3>1, <3>2, <4>1, ActiveKept DEF SessionInv
    <3> QED BY <3>1, <3>3, <3>4, <3>5 DEF SessionInv
  <2>2. CASE ~MayPend(Identity[c].name, r)
    <3>1. /\ pc[c] = "preface" /\ pc' = [pc EXCEPT ![c] = "closed"] /\ alive' = alive \ {c}
          /\ handshakes' = handshakes - 1
          /\ UNCHANGED <<controls, pending, item, resolved, connector, doomed, counters>>
      BY <1>5, <2>2 DEF ClientOpen, Goto, Return, ActiveUnchanged, counters
    <3> QED BY <3>1, EarlyStep DEF Early
  <2> QED BY <2>1, <2>2
<1>6. CASE OpenWritten(c)
  <2>1. /\ pc[c] = "opening" /\ pc' = [pc EXCEPT ![c] = "waiting"]
        /\ UNCHANGED <<handshakes, controls, pending, item, resolved, connector, doomed, alive, counters>>
    BY <1>6 DEF OpenWritten, Goto, TablesUnchanged, counters
  <2>2. Ownership'
    BY <2>1, OpenStep DEF SessionInv, Open
  <2>3. HandshakesExact'
    BY <2>1, SlotStep DEF SessionInv
  <2>4. PendingExact' /\ ActiveExact'
    <3>1. \A s \in Carrier : LegsOf(s)' = LegsOf(s)
      BY <2>1 DEF LegsOf
    <3> QED BY <2>1, <3>1, CountsKept DEF SessionInv
  <2> QED BY <2>2, <2>3, <2>4 DEF SessionInv
<1>7. CASE OpenWriteFails(c)
  BY <1>7, CancelOrKeeps DEF OpenWriteFails
<1>8. CASE JoinTimeout(c)
  BY <1>8, CancelOrKeeps DEF JoinTimeout
<1>9. CASE ClientStops(c)
  BY <1>9, CancelOrKeeps DEF ClientStops
<1>10. CASE JoinDeadline(c)
  <2>1. /\ pc[c] \in {"opening", "waiting"} /\ pc' = [pc EXCEPT ![c] = pc[c]]
        /\ UNCHANGED <<handshakes, controls, pending, item, resolved, connector, doomed, alive, counters>>
    BY <1>10 DEF JoinDeadline, counters, IInv, TypeOK
  <2>2. Ownership'
    BY <2>1, OpenStep DEF SessionInv, Open
  <2>3. HandshakesExact'
    BY <2>1, SlotStep DEF SessionInv
  <2>4. PendingExact' /\ ActiveExact'
    <3>1. \A s \in Carrier : LegsOf(s)' = LegsOf(s)
      BY <2>1 DEF LegsOf
    <3> QED BY <2>1, <3>1, CountsKept DEF SessionInv
  <2> QED BY <2>2, <2>3, <2>4 DEF SessionInv
<1>11. ASSUME ReceiveResolution(c) \/ DiscardResolution(c) PROVE SessionInv'
  <2>1. PICK leg \in resolved[c] :
          /\ resolved' = [resolved EXCEPT ![c] = {}]
          /\ \/ /\ leg = None /\ pc' = [pc EXCEPT ![c] = "closed"] /\ alive' = alive \ {c}
                /\ UNCHANGED connector
             \/ /\ leg # None /\ pc' = [pc EXCEPT ![c] = "copying"] /\ alive' = alive
                /\ connector' = [connector EXCEPT ![c] = leg]
             \/ /\ leg # None /\ pc' = [pc EXCEPT ![c] = "finishing"] /\ alive' = alive \ {leg}
                /\ connector' = [connector EXCEPT ![c] = leg]
    BY <1>11 DEF ReceiveResolution, DiscardResolution, Return, Goto
  <2>2. /\ pc[c] \in {"waiting", "late", "discarding"}
        /\ UNCHANGED <<handshakes, controls, pending, item, doomed, counters>>
    BY <1>11 DEF ReceiveResolution, DiscardResolution
  <2>3. resolved[c] = {leg} /\ connector[c] = None /\ c \notin pending
    BY <2>1, <2>2 DEF IInv, ResolvedOnce, HandlerPhases, PendingUnresolved
  <2>4. \A s \in Carrier \ {c} : /\ resolved'[s] = resolved[s]
                                 /\ connector'[s] = connector[s]
    BY <2>1 DEF IInv, TypeOK
  <2>5. \A s \in Carrier : LegsOf(s)' = LegsOf(s)
    <3>1. LegsOf(c)' = LegsOf(c)
      BY <2>1, <2>3 DEF LegsOf, IInv, TypeOK
    <3>2. \A s \in Carrier \ {c} : LegsOf(s)' = LegsOf(s)
      BY <2>4 DEF LegsOf
    <3> QED BY <3>1, <3>2
  <2>6. Ownership'
    <3>1. CASE leg = None
      <4>1. LegsOf(c) = {}
        BY <2>3, <3>1 DEF LegsOf
      <4>2. /\ pc' = [pc EXCEPT ![c] = "closed"] /\ alive' \in {alive \union {c}, alive \ {c}}
            /\ UNCHANGED <<controls, pending, item, connector, doomed>>
        BY <2>1, <2>2, <3>1
      <4> QED BY <2>2, <2>3, <2>4, <2>5, <4>1, <4>2, QuietStep DEF SessionInv, Phases
    <3>2. CASE leg # None /\ pc' = [pc EXCEPT ![c] = "copying"] /\ alive' = alive
      <4>1. "copying" \in {"copying", "finishing"}
            /\ alive' = IF "copying" = "finishing" THEN alive \ {leg} ELSE alive
        BY <3>2
      <4> QED BY <2>1, <2>2, <3>2, <4>1, TakeStep DEF SessionInv, Open
    <3>3. CASE leg # None /\ pc' = [pc EXCEPT ![c] = "finishing"] /\ alive' = alive \ {leg}
      BY <2>1, <2>2, <3>3, TakeStep DEF SessionInv, Open
    <3> QED BY <2>1, <3>1, <3>2, <3>3
  <2>7. HandshakesExact'
    BY <2>1, <2>2, SlotStep DEF SessionInv
  <2>8. PendingExact' /\ ActiveExact'
    BY <2>2, <2>5, CountsKept DEF SessionInv
  <2> QED BY <2>6, <2>7, <2>8 DEF SessionInv
<1>12. CASE EndCopy(c)
  <2>1. /\ pc[c] = "copying" /\ pc' = [pc EXCEPT ![c] = "finishing"]
        /\ UNCHANGED <<handshakes, pending, item, resolved, connector, counters>>
    BY <1>12 DEF EndCopy, Goto
  <2>2. Ownership'
    BY <1>12, EndStep DEF SessionInv
  <2>3. HandshakesExact'
    BY <2>1, SlotStep DEF SessionInv
  <2>4. PendingExact' /\ ActiveExact'
    <3>1. \A s \in Carrier : LegsOf(s)' = LegsOf(s)
      BY <2>1 DEF LegsOf
    <3> QED BY <2>1, <3>1, CountsKept DEF SessionInv
  <2> QED BY <2>2, <2>3, <2>4 DEF SessionInv
<1>13. CASE FinishActive(c)
  <2>1. /\ pc[c] = "finishing" /\ pc' = [pc EXCEPT ![c] = "closed"]
        /\ UNCHANGED <<handshakes, pending, item, pendingPerRoute, clientPending>>
    BY <1>13 DEF FinishActive, Return, Goto
  <2>2. /\ Ownership'
        /\ LegsOf(c) # {} /\ LegsOf(c)' = {}
        /\ \A s \in Carrier \ {c} : LegsOf(s)' = LegsOf(s)
    BY <1>13, FinishStep DEF SessionInv
  <2>3. HandshakesExact'
    BY <2>1, SlotStep DEF SessionInv
  <2>4. PendingExact'
    BY <2>1 DEF SessionInv, PendingExact, Of, By
  <2>5. ActiveExact'
    BY <1>13, <2>2, FinishCounts DEF SessionInv
  <2> QED BY <2>2, <2>3, <2>4, <2>5 DEF SessionInv
<1>14. ASSUME NEW e \in Carrier, NEW s \in Carrier, DataJoin(c, e, s) PROVE SessionInv'
  <2>1. CASE MayJoin(c, e, s)
    <3>1. /\ pc[c] = "preface" /\ pc' = [pc EXCEPT ![c] = "joined"] /\ handshakes' = handshakes - 1
          /\ ResolveAll({s}, c) /\ UNCHANGED item
      BY <1>14, <2>1 DEF DataJoin, Goto
    <3>2. /\ Ownership'
          /\ s \in pending /\ LegsOf(s) = {} /\ LegsOf(s)' = {c}
          /\ \A x \in Carrier \ {s} : LegsOf(x)' = LegsOf(x)
      BY <1>14, <2>1, JoinStep DEF SessionInv
    <3>3. HandshakesExact'
      BY <3>1, SlotStep DEF SessionInv
    <3>4. PendingExact'
      <4>1. {s} \in SUBSET pending
        BY <3>2
      <4> QED BY <3>1, <4>1, ResolveCounts DEF SessionInv
    <3>5. ActiveExact'
      BY <1>14, <2>1, <3>2, JoinCounts DEF SessionInv
    <3> QED BY <3>2, <3>3, <3>4, <3>5 DEF SessionInv
  <2>2. CASE ~MayJoin(c, e, s)
    <3>1. /\ pc[c] = "preface" /\ pc' = [pc EXCEPT ![c] = "closed"] /\ alive' = alive \ {c}
          /\ handshakes' = handshakes - 1
          /\ UNCHANGED <<controls, pending, item, resolved, connector, doomed, counters>>
      BY <1>14, <2>2 DEF DataJoin, Goto, Return, ActiveUnchanged, counters
    <3> QED BY <3>1, EarlyStep DEF Early
  <2> QED BY <2>1, <2>2
<1>15. CASE Abort(c)
  <2>1. /\ c \in doomed /\ doomed' = doomed \ {c} /\ alive' = alive \ {c}
        /\ UNCHANGED <<pc, handshakes, controls, pending, item, resolved, connector, counters>>
    BY <1>15 DEF Abort
  <2>2. \A s \in Carrier : LegsOf(s)' = LegsOf(s)
    BY <2>1 DEF LegsOf
  <2>3. /\ pc[c] \notin Early \union {"registering", "registered", "joined"}
        /\ c \notin pending /\ LegsOf(c) = {}
    BY <2>1 DEF SessionInv, Ownership, MarkedApart
  <2>4. \A s \in Carrier : \A d \in LegsOf(s) : d # c
    BY <2>3, LegFacts DEF SessionInv
  <2>5. MarkedApart'
    <3>1. /\ \A r \in Route : controls'[r] # None => pc'[controls'[r]] = "control"
          /\ \A x \in Carrier : pc'[x] \in {"handshake", "preface"} => x \in alive'
      BY <2>1, <2>3 DEF SessionInv, Ownership, MarkedApart, Early
    <3>2. pending' \subseteq alive'
      BY <2>1, <2>3 DEF SessionInv, Ownership, MarkedApart
    <3>3. \A d \in doomed' : /\ pc'[d] \notin Early \union {"registering", "registered", "joined"}
                             /\ d \notin pending' /\ LegsOf(d)' = {}
      BY <2>1, <2>2 DEF SessionInv, Ownership, MarkedApart, IInv, TypeOK
    <3> QED BY <3>1, <3>2, <3>3 DEF MarkedApart
  <2>6. LegPlaces'
    BY <2>1 DEF SessionInv, Ownership, LegPlaces
  <2>7. LegFits' /\ LegHeldOnce'
    BY <2>1, <2>2 DEF SessionInv, Ownership, LegFits, LegHeldOnce
  <2>8. PairUndisturbed'
    BY <2>1, <2>2, <2>3, <2>4 DEF SessionInv, Ownership, PairUndisturbed, Active
  <2>9. HandshakesExact'
    BY <2>1 DEF SessionInv, HandshakesExact, Greeting
  <2>10. PendingExact' /\ ActiveExact'
    BY <2>1, <2>2, CountsKept DEF SessionInv
  <2> QED BY <2>5, <2>6, <2>7, <2>8, <2>9, <2>10 DEF SessionInv, Ownership
<1> QED
  BY <1>1, <1>2, <1>3, <1>4, <1>5, <1>6, <1>7, <1>8, <1>9, <1>10, <1>11, <1>12, <1>13,
     <1>14, <1>15 DEF Step

-----------------------------------------------------------------------------
(* The initial state, and what the invariant says of the sessions. *)

(* No session, no leg, no place taken. *)
LEMMA InitSessions == Init => SessionInv
<1> SUFFICES ASSUME Init PROVE SessionInv
  OBVIOUS
<1>1. Cardinality({}) = 0
  BY FS_EmptySet
<1>2. \A s \in Carrier : LegsOf(s) = {}
  BY DEF Init, LegsOf
<1>3. MarkedApart
  BY <1>2 DEF Init, MarkedApart
<1>4. LegPlaces
  BY DEF Init, LegPlaces
<1>5. LegFits /\ LegHeldOnce
  BY <1>2 DEF Init, LegFits, LegHeldOnce
<1>6. Active = {}
  BY <1>2 DEF Active
<1>7. PairUndisturbed
  BY <1>6 DEF PairUndisturbed
<1>8. HandshakesExact
  <2>1. Greeting = {}
    BY DEF Init, Greeting
  <2> QED BY <1>1, <2>1 DEF Init, HandshakesExact
<1>9. PendingExact
  <2>1. pending = {} /\ (\A r \in Route : Of(pending, r) = {}) /\ (\A cl \in Client : By(pending, cl) = {})
    BY DEF Init, Of, By
  <2>2. 0 <= PendingGlobal /\ 0 <= PendingPerRoute /\ 0 <= PendingPerClient
    BY LimitAssumption
  <2>3. (\A r \in Route : pendingPerRoute[r] = 0) /\ (\A cl \in Client : clientPending[cl] = 0)
    BY DEF Init
  <2> QED BY <1>1, <2>1, <2>2, <2>3 DEF PendingExact
<1>10. ActiveExact
  <2>1. (\A r \in Route : Of(Active, r) = {}) /\ (\A cl \in Client : By(Active, cl) = {})
    BY <1>6 DEF Of, By
  <2>2. 0 <= ActiveGlobal /\ 0 <= ActivePerRoute /\ 0 <= ActivePerClient
    BY LimitAssumption
  <2>3. /\ activeGlobal = 0
        /\ \A r \in Route : activePerRoute[r] = 0
        /\ \A cl \in Client : clientActive[cl] = 0
    BY DEF Init
  <2> QED BY <1>1, <1>6, <2>1, <2>2, <2>3 DEF ActiveExact
<1> QED BY <1>3, <1>4, <1>5, <1>7, <1>8, <1>9, <1>10 DEF SessionInv, Ownership

(* Every step keeps the invariant of the sessions. *)
LEMMA NextSessions == IInv /\ SessionInv /\ [Next]_vars => SessionInv'
<1> SUFFICES ASSUME IInv, SessionInv, [Next]_vars PROVE SessionInv'
  OBVIOUS
<1>1. CASE UNCHANGED <<pc, handshakes, controls, pending, item, counters, resolved, connector,
                       doomed, alive>>
  <2>1. \A s \in Carrier : LegsOf(s)' = LegsOf(s)
    BY <1>1 DEF LegsOf
  <2>2. Active' = Active
    BY <2>1 DEF Active
  <2>3. MarkedApart' /\ LegPlaces'
    BY <1>1, <2>1 DEF SessionInv, Ownership, MarkedApart, LegPlaces, IInv, TypeOK
  <2>4. LegFits' /\ LegHeldOnce' /\ PairUndisturbed'
    BY <1>1, <2>1, <2>2 DEF SessionInv, Ownership, LegFits, LegHeldOnce, PairUndisturbed, Active,
       IsConnector
  <2>5. HandshakesExact'
    BY <1>1 DEF SessionInv, HandshakesExact, Greeting
  <2>6. PendingExact' /\ ActiveExact'
    BY <1>1, <2>1, CountsKept DEF SessionInv
  <2> QED BY <2>3, <2>4, <2>5, <2>6 DEF SessionInv, Ownership
<1>2. ASSUME NEW c \in Carrier, Step(c) PROVE SessionInv'
  BY <1>2, StepSessions
<1>3. CASE Shutdown
  BY <1>1, <1>3 DEF Shutdown
<1>4. CASE Terminated \/ UNCHANGED vars
  BY <1>1, <1>4 DEF Terminated, vars
<1> QED BY <1>2, <1>3, <1>4 DEF Next

(* An open leg stands for a place: the open legs L of the sessions A are   *)
(* no more than these.                                                     *)
LEMMA LegsWithin ==
  ASSUME IInv, Ownership, NEW A \in SUBSET Carrier, NEW L \in SUBSET Carrier,
         \A d \in L : \E s \in A : d \in LegsOf(s)
  PROVE  Cardinality(L) <= Cardinality(A)
<1> DEFINE owner == [d \in L |-> CHOOSE s \in A : d \in LegsOf(s)]
<1>1. \A d \in L : owner[d] \in A /\ d \in LegsOf(owner[d])
  OBVIOUS
<1>2. \A s \in Carrier : \A d, e \in LegsOf(s) : d = e
  BY LegFacts
<1>3. owner \in [L -> A]
  BY <1>1
<1> HIDE DEF owner
<1>4. \A d, e \in L : owner[d] = owner[e] => d = e
  BY <1>1, <1>2
<1>5. owner \in Injection(L, A)
  BY <1>3, <1>4 DEF Injection, IsInjective
<1> QED BY <1>5, Finite, FS_Injection

(* The invariant bounds what exists, not only what is counted. *)
LEMMA SessionsFollow == IInv /\ SessionInv => SessionsSound
<1> SUFFICES ASSUME IInv, SessionInv PROVE SessionsSound
  OBVIOUS
<1>1. AccountingExact
  BY DEF SessionInv, HandshakesExact, Greeting, PendingExact, ActiveExact, AccountingExact
<1>2. HardLimits
  <2> DEFINE legs == {d \in alive : pc[d] = "joined"}
  <2>1. legs \in SUBSET Carrier /\ Active \in SUBSET Carrier
    BY DEF IInv, TypeOK, Active
  <2>2. \A d \in legs : \E s \in Active : d \in LegsOf(s)
    BY DEF SessionInv, Ownership, LegHeldOnce, Active
  <2>3. Cardinality(legs) <= ActiveGlobal
    <3>1. Cardinality(legs) <= Cardinality(Active)
      BY <2>1, <2>2, LegsWithin DEF SessionInv
    <3>2. Cardinality(legs) \in Nat /\ Cardinality(Active) \in Nat /\ ActiveGlobal \in Nat
      BY <2>1, Finite, LimitAssumption
    <3>3. Cardinality(Active) <= ActiveGlobal
      BY DEF SessionInv, ActiveExact
    <3> QED BY <3>1, <3>2, <3>3
  <2>4. ASSUME NEW r \in Route
        PROVE  Cardinality({d \in legs : Identity[d].route = r}) <= ActivePerRoute
    <3> DEFINE L == {d \in legs : Identity[d].route = r}
    <3>1. L \in SUBSET Carrier /\ Of(Active, r) \in SUBSET Carrier
      BY <2>1 DEF Of
    <3>2. \A d \in L : \E s \in Of(Active, r) : d \in LegsOf(s)
      BY <2>1, <2>2 DEF Of, SessionInv, Ownership, LegFits
    <3>3. Cardinality(L) <= Cardinality(Of(Active, r))
      BY <3>1, <3>2, LegsWithin DEF SessionInv
    <3>4. Cardinality(L) \in Nat /\ Cardinality(Of(Active, r)) \in Nat /\ ActivePerRoute \in Nat
      BY <3>1, Finite, LimitAssumption
    <3>5. Cardinality(Of(Active, r)) <= ActivePerRoute
      BY DEF SessionInv, ActiveExact
    <3> QED BY <3>3, <3>4, <3>5
  <2>5. /\ Cardinality(pending) <= PendingGlobal
        /\ \A r \in Route : Cardinality(Of(pending, r)) <= PendingPerRoute
        /\ \A cl \in Client : /\ Cardinality(By(pending, cl)) <= PendingPerClient
                              /\ Cardinality(By(Active, cl)) <= ActivePerClient
    BY DEF SessionInv, PendingExact, ActiveExact
  <2> QED BY <2>3, <2>4, <2>5 DEF HardLimits
<1>3. LegOwnedOnce
  <2> SUFFICES ASSUME NEW d \in Carrier
               PROVE  LET owners == {s \in Carrier : d \in LegsOf(s)}
                      IN /\ Cardinality(owners) <= 1
                         /\ owners = {} => ~(pc[d] = "joined" /\ d \in alive)
                         /\ \A s \in owners : /\ pc[d] = "joined"
                                              /\ item[s].route = Identity[d].route
                                              /\ item[s].pin = Identity[d].pin
    BY DEF LegOwnedOnce
  <2> DEFINE owners == {s \in Carrier : d \in LegsOf(s)}
  <2>1. \A s, t \in owners : s = t
    BY DEF SessionInv, Ownership, LegHeldOnce
  <2>2. Cardinality(owners) <= 1
    <3> HIDE DEF owners
    <3>1. CASE owners = {}
      <4>1. Cardinality(owners) = 0
        BY <3>1, FS_EmptySet
      <4> QED BY <4>1
    <3>2. CASE owners # {}
      <4>1. PICK s : owners = {s}
        BY <2>1, <3>2
      <4>2. Cardinality({s}) = 1
        BY FS_Singleton
      <4>3. Cardinality(owners) = 1
        BY <4>1, <4>2, Zenon
      <4> QED BY <4>3
    <3> QED BY <3>1, <3>2
  <2>3. owners = {} => ~(pc[d] = "joined" /\ d \in alive)
    BY DEF SessionInv, Ownership, LegHeldOnce
  <2>4. \A s \in owners : /\ pc[d] = "joined"
                          /\ item[s].route = Identity[d].route /\ item[s].pin = Identity[d].pin
    BY DEF SessionInv, Ownership, LegFits
  <2> QED BY <2>2, <2>3, <2>4
<1> QED BY <1>1, <1>2, <1>3 DEF SessionsSound, SessionInv, Ownership

(* For any number of carriers, routes, clients and pins and for all limits *)
(* of config.Limits: every counter of the service counts exactly what      *)
(* exists, the limits bound the sessions and the open legs themselves, a   *)
(* leg that joinData handed over has one owner that will close it, and a   *)
(* pair is untouched by the loss or replacement of its control.            *)
THEOREM SessionsTheorem == Spec => []SessionsSound
<1>1. Init => IInv /\ SessionInv
  BY InitIInv, InitSessions
<1>2. (IInv /\ SessionInv) /\ [Next]_vars => (IInv /\ SessionInv)'
  BY NextIInv, NextSessions
<1>3. IInv /\ SessionInv => SessionsSound
  BY SessionsFollow
<1> QED BY <1>1, <1>2, <1>3, PTL DEF Spec
=============================================================================
