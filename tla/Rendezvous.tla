----------------------------- MODULE Rendezvous -----------------------------
(***************************************************************************)
(* The v1 relay and one v1 connector together, over a network that loses   *)
(* nothing: what the two programs do to each other when every connection   *)
(* stays up.  Relay and connector steps are those of RelayService and      *)
(* Connector; this module adds the frames in flight on the control         *)
(* connections, the carriers the connector dials, and which side closed    *)
(* them.                                                                   *)
(*                                                                         *)
(* The carrier of a control is its epoch and the carrier of a client its   *)
(* session, as in RelayService, so a connector key is <<control, client>>. *)
(***************************************************************************)
EXTENDS Integers, Sequences, FiniteSets

CONSTANTS Carrier, Route, Client, Pin, Identity, None,
          OuterHandshakes, PendingGlobal, PendingPerRoute, PendingPerClient,
          ActiveGlobal, ActivePerRoute, ActivePerClient,
          ConnPending, ConnActive

ASSUME RendezvousAssumption == None \notin Carrier

VARIABLES
  pc, handshakes, controls, pending, item, expired, pendingPerRoute, clientPending,
  activeGlobal, activePerRoute, clientActive, resolved, connector, doomed, alive, stopping

VARIABLES
  ctl, epoch, usedEpochs, backoff, work, sessions, workers,
  cPending, cActive, cClientActive, pendingHeld, activeHeld, clientHeld, cancelled, stopped

VARIABLES
  wire,              \* frames the relay wrote on each control, not yet read
  ctlCarrier,        \* the carrier of the connector's control attempt, or None
  legOf,             \* the carrier a worker dialed, or None
  hungUp             \* carriers the connector has closed

Relay == INSTANCE RelayService

Clients == {c \in Carrier : Relay!IsClient(c)}
Connectors == Carrier \ Clients

Conn == INSTANCE Connector WITH
          Epoch <- Connectors, Session <- Clients,
          InnerClient <- [c \in Clients |-> Identity[c].name], Capability <- TRUE,
          Pending <- ConnPending, Active <- ConnActive,
          ReconnectMin <- 1, ReconnectMax <- 1,
          pending <- cPending, inUse <- cActive, clientActive <- cClientActive

relayVars == <<pc, handshakes, controls, pending, item, expired, pendingPerRoute,
               clientPending, activeGlobal, activePerRoute, clientActive, resolved,
               connector, doomed, alive, stopping>>
connVars == <<ctl, epoch, usedEpochs, backoff, work, sessions, workers, cPending,
              cActive, cClientActive, pendingHeld, activeHeld, clientHeld, cancelled, stopped>>
vars == <<relayVars, connVars, wire, ctlCarrier, legOf, hungUp>>

Frames == [type : {"REGISTERED", "OPEN", "CANCEL"}, session : Clients \union {None}]
RegisteredFrame == [type |-> "REGISTERED", session |-> None]
OpenFrame(s) == [type |-> "OPEN", session |-> s]
CancelFrame(s) == [type |-> "CANCEL", session |-> s]

Put(k, frame) == wire' = [wire EXCEPT ![k] = Append(@, frame)]
Reads(k, type) == wire[k] # <<>> /\ Head(wire[k]).type = type
Taken(k) == wire' = [wire EXCEPT ![k] = Tail(@)]

Init ==
  /\ Relay!Init
  /\ Conn!ConnectorInit
  /\ wire = [k \in Connectors |-> <<>>]
  /\ ctlCarrier = None
  /\ legOf = [w \in Conn!Key |-> None]
  /\ hungUp = {}

-----------------------------------------------------------------------------
(* Steps of the relay alone. *)

ClientArrives(c) == c \in Clients /\ Relay!Accept(c)

RelayOnly(c) ==
  \/ ClientArrives(c)
  \/ Relay!Authenticated(c)
  \/ c \in hungUp \union Clients /\ Relay!Reject(c)
  \/ Relay!InstallControl(c)
  \/ \E r \in Route : Relay!ClientOpen(c, r)
  \/ Relay!JoinDeadline(c)
  \/ Relay!ReceiveResolution(c)
  \/ Relay!DiscardResolution(c)
  \/ Relay!EndCopy(c)
  \/ Relay!FinishActive(c)
  \/ Relay!Abort(c)

RelayAlone ==
  /\ \E c \in Carrier : RelayOnly(c)
  /\ UNCHANGED <<connVars, wire, ctlCarrier, legOf, hungUp>>

(* The relay reads CANCEL, or finds the control closed by either side. *)
RelayReadsControl(k) ==
  /\ \/ \E s \in Clients : <<k, s>> \in cancelled /\ Relay!ControlCancel(k, s)
     \/ k \in hungUp \union (Carrier \ alive) /\ Relay!ControlEnds(k)
  /\ UNCHANGED <<connVars, wire, ctlCarrier, legOf, hungUp>>

(* The relay writes on a control. *)
RelayRegisters(k) ==
  /\ Relay!RegisterWritten(k)
  /\ Put(k, RegisteredFrame)
  /\ UNCHANGED <<connVars, ctlCarrier, legOf, hungUp>>

(* OPEN is written while the control is up; the write fails once it is not. *)
RelayOpens(c) ==
  /\ item[c] # None
  /\ LET k == item[c].control
         up == k \in alive \ hungUp
     IN \/ up /\ Relay!OpenWritten(c) /\ Put(k, OpenFrame(c))
        \/ ~up /\ Relay!OpenWriteFails(c) /\ UNCHANGED wire
  /\ UNCHANGED <<connVars, ctlCarrier, legOf, hungUp>>

(* serveClient's timer: a session it cancels is reported with CANCEL. *)
RelayTimesOut(c) ==
  /\ Relay!JoinTimeout(c)
  /\ IF c \in pending THEN Put(item[c].control, CancelFrame(c)) ELSE UNCHANGED wire
  /\ UNCHANGED <<connVars, ctlCarrier, legOf, hungUp>>

-----------------------------------------------------------------------------
(* Steps of the connector's control loop. *)

Fresh(k) == k \in Connectors /\ pc[k] = "idle"

(* runControl dials the relay. *)
DialControl(k) ==
  /\ ctl = "connect"
  /\ ctlCarrier = None
  /\ Fresh(k)
  /\ Relay!Accept(k)
  /\ ctlCarrier' = k
  /\ UNCHANGED <<connVars, wire, legOf, hungUp>>

ConnRegisters ==
  /\ ctlCarrier # None
  /\ pc[ctlCarrier] = "preface"
  /\ Conn!ControlConnected
  /\ UNCHANGED <<relayVars, wire, ctlCarrier, legOf, hungUp>>

(* CONTROL_REGISTER reaches the relay. *)
RegisterArrives(k) ==
  /\ k = ctlCarrier
  /\ ctl = "register"
  /\ Relay!ControlRegister(k)
  /\ UNCHANGED <<connVars, wire, ctlCarrier, legOf, hungUp>>

ConnReadsRegistered ==
  /\ ctlCarrier # None
  /\ Reads(ctlCarrier, "REGISTERED")
  /\ Conn!Registered(ctlCarrier)
  /\ Taken(ctlCarrier)
  /\ UNCHANGED <<relayVars, ctlCarrier, legOf, hungUp>>

ConnReadsOpen ==
  /\ ctl = "serve"
  /\ Reads(ctlCarrier, "OPEN")
  /\ LET w == <<ctlCarrier, Head(wire[ctlCarrier]).session>>
     IN Conn!OpenAccepted(w) \/ Conn!OpenRejected(w)
  /\ Taken(ctlCarrier)
  /\ UNCHANGED <<relayVars, ctlCarrier, legOf, hungUp>>

(* runControl closes its connection and returns. *)
HangUpControl ==
  /\ Conn!ControlEnds(FALSE)
  /\ ctlCarrier' = None
  /\ hungUp' = hungUp \union {ctlCarrier}
  /\ UNCHANGED <<relayVars, wire, legOf>>

(* The relay refused or aborted the control. *)
ConnControlLost == ctlCarrier # None /\ ctlCarrier \notin alive /\ HangUpControl

(* The frame is none of those runControl or serveControl accepts then. *)
Accepts == IF ctl = "register" THEN {"REGISTERED"} ELSE {"OPEN"}

ConnInvalidFrame ==
  /\ ctl \in {"register", "serve"}
  /\ wire[ctlCarrier] # <<>>
  /\ Head(wire[ctlCarrier]).type \notin Accepts
  /\ HangUpControl

ConnSleeps ==
  /\ Conn!SleepEnds
  /\ UNCHANGED <<relayVars, wire, ctlCarrier, legOf, hungUp>>

-----------------------------------------------------------------------------
(* Steps of the connector's workers. *)

(* connectOuter of a worker. *)
DialData(w, d) ==
  /\ work[w] = "dial"
  /\ legOf[w] = None
  /\ Fresh(d)
  /\ Relay!Accept(d)
  /\ legOf' = [legOf EXCEPT ![w] = d]
  /\ UNCHANGED <<connVars, wire, ctlCarrier, hungUp>>

(* DATA_JOIN reaches the relay. *)
JoinArrives(w) ==
  /\ legOf[w] # None
  /\ work[w] = "inner"
  /\ Relay!DataJoin(legOf[w], w[1], w[2])
  /\ UNCHANGED <<connVars, wire, ctlCarrier, legOf, hungUp>>

(* The client's inner handshake runs through the relay's pair. *)
Paired(w) == pc[w[2]] = "copying" /\ connector[w[2]] = legOf[w]

WorkerAdvances(w) ==
  /\ \/ legOf[w] # None /\ pc[legOf[w]] = "preface" /\ Conn!OuterConnected(w)
     \/ Conn!JoinWritten(w)
     \/ Paired(w) /\ Conn!InnerAuthenticated(w)
     \/ Paired(w) /\ Conn!EnterActive(w)
     \/ Conn!LocalDialed(w)
     \/ Conn!ReadyWritten(w)
     \/ Conn!CancelWritten(w)
  /\ UNCHANGED <<relayVars, wire, ctlCarrier, legOf, hungUp>>

WorkerHangsUp(w) ==
  /\ Conn!SessionFails(w) \/ Conn!SessionEnds(w)
  /\ hungUp' = hungUp \union ({legOf[w]} \ {None})
  /\ UNCHANGED <<relayVars, wire, ctlCarrier, legOf>>

WorkerLeaves(w) ==
  /\ Conn!WorkerDone(w)
  /\ legOf' = [legOf EXCEPT ![w] = None]
  /\ UNCHANGED <<relayVars, wire, ctlCarrier, hungUp>>

(* Nothing is left to do: all carriers are used up. *)
Settled ==
  /\ \A c \in Clients : pc[c] = "closed"
  /\ \A w \in Conn!Key : work[w] = "none"
  /\ UNCHANGED vars

Next ==
  \/ RelayAlone
  \/ \E k \in Connectors : \/ RelayReadsControl(k) \/ RelayRegisters(k)
                           \/ DialControl(k) \/ RegisterArrives(k)
  \/ \E c \in Clients : RelayOpens(c) \/ RelayTimesOut(c)
  \/ ConnRegisters \/ ConnReadsRegistered \/ ConnReadsOpen
  \/ ConnControlLost \/ ConnInvalidFrame \/ ConnSleeps
  \/ \E w \in Conn!Key : \/ JoinArrives(w) \/ WorkerAdvances(w) \/ WorkerHangsUp(w)
                         \/ WorkerLeaves(w)
                         \/ \E d \in Connectors : DialData(w, d)
  \/ Settled

Spec == Init /\ [][Next]_vars

-----------------------------------------------------------------------------
(* Properties. *)

(* REGISTERED is the first frame a connector sees on a new control, however *)
(* clients race with the registration, so no valid registration is refused. *)
RegisteredFirst ==
  /\ ctl = "register" => (wire[ctlCarrier] = <<>> \/ Reads(ctlCarrier, "REGISTERED"))
  /\ ctl = "serve" => epoch = ctlCarrier /\ ~Reads(ctlCarrier, "REGISTERED")

(* The two ends agree on every pair: a data connection the relay copies to  *)
(* client s was dialed by the connector's worker for s under the control    *)
(* the relay opened s on, or that worker has already left.                  *)
PairAgrees ==
  \A s \in Clients :
    LET d == connector[s]
    IN d # None => \/ legOf[<<item[s].control, s>>] = d
                   \/ d \in hungUp /\ \A w \in Conn!Key : legOf[w] # d

(* Relay and connector never disagree about a registration or a pair. *)
RendezvousAgrees == RegisteredFirst /\ PairAgrees

(* The connector's shared control ends only because the relay closed it:    *)
(* nothing that happens to one session costs the other clients of the route *)
(* their control.                                                           *)
ControlOutlivesSessions ==
  [][ctl = "serve" /\ ctl' # "serve" => ctlCarrier \notin alive]_vars
=============================================================================
