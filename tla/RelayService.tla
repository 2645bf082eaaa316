---------------------------- MODULE RelayService ----------------------------
(***************************************************************************)
(* The v1 rendezvous relay, internal/relay/service.go.                     *)
(*                                                                         *)
(* One carrier is one accepted connection and the goroutine that runs      *)
(* Service.Handle on it.  An action is one critical section of Service.mu  *)
(* or one blocking call between two of them, so every interleaving the     *)
(* goroutines can produce is a behaviour.  A carrier is used once: it      *)
(* stands for the Go pointer, so a control carrier is its own epoch and a  *)
(* client carrier its own session id (both are 256-bit random numbers in   *)
(* the code).                                                              *)
(*                                                                         *)
(* Abstracted: TLS, frame bytes, the OPEN rate bucket (TokenBucket), PING  *)
(* and PONG, and the copied bytes.  What can make them fail is a choice.   *)
(***************************************************************************)
EXTENDS Integers, FiniteSets

CONSTANTS
  Carrier,           \* accepted connections
  Route,             \* configured routes
  Client,            \* configured client DNS names
  Pin,               \* SPKI pins of connectors
  Identity,          \* what outer TLS authenticates on each carrier
  None,
  OuterHandshakes,   \* config.Limits
  PendingGlobal, PendingPerRoute, PendingPerClient,
  ActiveGlobal, ActivePerRoute, ActivePerClient

ClientPeer == [kind : {"client"}, name : Client]
ConnectorPeer == [kind : {"connector"}, route : Route, pin : Pin]

ASSUME CarrierAssumption ==
  /\ IsFiniteSet(Carrier)
  /\ None \notin Carrier
ASSUME IdentityAssumption == Identity \in [Carrier -> ClientPeer \union ConnectorPeer]
ASSUME LimitAssumption ==
  {OuterHandshakes, PendingGlobal, PendingPerRoute, PendingPerClient,
   ActiveGlobal, ActivePerRoute, ActivePerClient} \subseteq Nat

VARIABLES
  pc,                \* where Handle is, per carrier
  handshakes,        \* slots taken in the handshakes channel
  controls,          \* Service.controls: the control of each route
  pending,           \* client carriers with an entry in Service.pending
  item,              \* the *pending built by each client carrier
  expired,           \* items whose deadline has passed
  pendingPerRoute, clientPending,                 \* counters, as in the code
  activeGlobal, activePerRoute, clientActive,
  resolved,          \* buffered value of item.resolved: {} or one element
  connector,         \* the leg a client carrier copies to, or None
  doomed,            \* connections a handler still has to abort
  alive,             \* connections not yet aborted
  stopping           \* the context given to Handle is done

counters == <<pendingPerRoute, clientPending, activeGlobal, activePerRoute, clientActive>>
vars == <<pc, handshakes, controls, pending, item, expired, counters, resolved,
          connector, doomed, alive, stopping>>

Phases == {"idle", "handshake", "preface", "registering", "registered", "control", "opening",
           "waiting", "late", "discarding", "copying", "finishing", "joined", "closed"}

Items == [route : Route, control : Carrier, pin : Pin, name : Client]

IsClient(c) == Identity[c].kind = "client"
IsConnector(c) == Identity[c].kind = "connector"

Goto(c, phase) == pc' = [pc EXCEPT ![c] = phase]

(* Handle's deferred abort of a carrier it still owns. *)
Return(c) ==
  /\ Goto(c, "closed")
  /\ alive' = alive \ {c}

-----------------------------------------------------------------------------
(* resolvePendingLocked(item, leg) for every item of S at once: the entry  *)
(* goes, both counters go down, and leg is sent to the buffered channel.   *)

Of(S, r) == {s \in S : item[s].route = r}
By(S, cl) == {s \in S : item[s].name = cl}

(* Mutant: a cancellation deletes the entry without the nil send. *)
ResolveAllSilent(S, leg) ==
  /\ pending' = pending \ S
  /\ pendingPerRoute' = [r \in Route |-> pendingPerRoute[r] - Cardinality(Of(S, r))]
  /\ clientPending' = [cl \in Client |-> clientPending[cl] - Cardinality(By(S, cl))]
  /\ resolved' = [s \in Carrier |-> IF s \in S THEN resolved[s] \union ({leg} \ {None})
                                    ELSE resolved[s]]

ResolveAll(S, leg) ==
  /\ pending' = pending \ S
  /\ pendingPerRoute' = [r \in Route |-> pendingPerRoute[r] - Cardinality(Of(S, r))]
  /\ clientPending' = [cl \in Client |-> clientPending[cl] - Cardinality(By(S, cl))]
  /\ resolved' = [s \in Carrier |-> IF s \in S THEN resolved[s] \union {leg} ELSE resolved[s]]

(* The items installControl and removeControl cancel with control k. *)
HeldBy(k) == {s \in pending : item[s].control = k /\ item[s].route = Identity[k].route}

ActiveUnchanged == UNCHANGED <<activeGlobal, activePerRoute, clientActive>>
TablesUnchanged == UNCHANGED <<controls, pending, item, expired, counters, resolved,
                               connector, doomed, stopping>>

-----------------------------------------------------------------------------
(* Handle, up to the first frame. *)

Init ==
  /\ pc = [c \in Carrier |-> "idle"]
  /\ handshakes = 0
  /\ controls = [r \in Route |-> None]
  /\ pending = {}
  /\ item = [c \in Carrier |-> None]
  /\ expired = {}
  /\ pendingPerRoute = [r \in Route |-> 0]
  /\ clientPending = [cl \in Client |-> 0]
  /\ activeGlobal = 0
  /\ activePerRoute = [r \in Route |-> 0]
  /\ clientActive = [cl \in Client |-> 0]
  /\ resolved = [c \in Carrier |-> {}]
  /\ connector = [c \in Carrier |-> None]
  /\ doomed = {}
  /\ alive = {}
  /\ stopping = FALSE

(* A new carrier takes a handshake slot or is dropped. *)
Accept(c) ==
  /\ pc[c] = "idle"
  /\ \/ /\ handshakes < OuterHandshakes
        /\ handshakes' = handshakes + 1
        /\ Goto(c, "handshake")
        /\ alive' = alive \union {c}
     \/ /\ handshakes >= OuterHandshakes
        /\ Return(c)
        /\ UNCHANGED handshakes
  /\ TablesUnchanged

(* Outer TLS succeeds and, for a client, consumeClientCarrier grants it. *)
Authenticated(c) ==
  /\ pc[c] = "handshake"
  /\ Goto(c, "preface")
  /\ UNCHANGED <<handshakes, alive>>
  /\ TablesUnchanged

(* TLS failure or deadline, no rate credit, no first frame in time, or a   *)
(* first frame that this peer may not send.                                *)
Reject(c) ==
  /\ pc[c] \in {"handshake", "preface"}
  /\ handshakes' = handshakes - 1
  /\ Return(c)
  /\ TablesUnchanged

-----------------------------------------------------------------------------
(* Connector control connections. *)

(* First frame ControlRegister with the route of the authenticated peer. *)
ControlRegister(c) ==
  /\ pc[c] = "preface"
  /\ IsConnector(c)
  /\ handshakes' = handshakes - 1
  /\ Goto(c, "registering")
  /\ UNCHANGED alive
  /\ TablesUnchanged

(* The write of REGISTERED fails, nothing was installed. *)
RegisterFails(c) ==
  /\ pc[c] = "registering"
  /\ Return(c)
  /\ UNCHANGED handshakes
  /\ TablesUnchanged

(* REGISTERED is written; the control is not yet visible to clients. *)
RegisterWritten(c) ==
  /\ pc[c] = "registering"
  /\ Goto(c, "registered")
  /\ UNCHANGED <<handshakes, alive>>
  /\ TablesUnchanged

(* Mutant: sessions pending on the replaced control stay pending. *)
InstallControlKeepsPending(c) ==
  LET r == Identity[c].route
      old == controls[r]
  IN /\ pc[c] = "registered"
     /\ Goto(c, "control")
     /\ controls' = [controls EXCEPT ![r] = c]
     /\ doomed' = doomed \union ({old} \ {None})
     /\ UNCHANGED <<handshakes, pending, item, expired, counters, resolved, connector,
                    alive, stopping>>

(* installControl replaces the old control and cancels what was pending on *)
(* it; the aborts follow outside the lock.                                 *)
InstallControl(c) ==
  LET r == Identity[c].route
      old == controls[r]
      clients == IF old = None THEN {} ELSE HeldBy(old)
  IN /\ pc[c] = "registered"
     /\ Goto(c, "control")
     /\ controls' = [controls EXCEPT ![r] = c]
     /\ ResolveAll(clients, None)
     /\ doomed' = doomed \union clients \union ({old} \ {None})
     /\ ActiveUnchanged
     /\ UNCHANGED <<handshakes, item, expired, connector, alive, stopping>>

(* CANCEL for session s under this control's epoch: cancelPendingKey. *)
ControlCancel(c, s) ==
  LET found == HeldBy(c) \intersect {s}
  IN /\ pc[c] = "control"
     /\ c \in alive
     /\ ResolveAll(found, None)
     /\ doomed' = doomed \union found
     /\ ActiveUnchanged
     /\ UNCHANGED <<pc, handshakes, controls, item, expired, connector, alive, stopping>>

(* The read fails or times out, a frame is invalid or of another epoch, a  *)
(* PONG cannot be written, or the context is done: removeControl.          *)
ControlEnds(c) ==
  LET r == Identity[c].route
      current == controls[r] = c
      clients == IF current THEN HeldBy(c) ELSE {}
  IN /\ pc[c] = "control"
     /\ controls' = [controls EXCEPT ![r] = IF current THEN None ELSE @]
     /\ ResolveAll(clients, None)
     /\ doomed' = doomed \union clients
     /\ Return(c)
     /\ ActiveUnchanged
     /\ UNCHANGED <<handshakes, item, expired, connector, stopping>>

-----------------------------------------------------------------------------
(* Client connections. *)

(* beginPending's admission test. *)
MayPend(cl, r) ==
  /\ controls[r] # None
  /\ Cardinality(pending) < PendingGlobal
  /\ pendingPerRoute[r] < PendingPerRoute
  /\ clientPending[cl] < PendingPerClient

(* First frame ClientOpen for route r: beginPending. *)
ClientOpen(c, r) ==
  LET cl == Identity[c].name
  IN /\ pc[c] = "preface"
     /\ IsClient(c)
     /\ handshakes' = handshakes - 1
     /\ \/ /\ MayPend(cl, r)
           /\ Goto(c, "opening")
           /\ pending' = pending \union {c}
           /\ item' = [item EXCEPT ![c] = [route |-> r, control |-> controls[r],
                                           pin |-> Identity[controls[r]].pin, name |-> cl]]
           /\ pendingPerRoute' = [pendingPerRoute EXCEPT ![r] = @ + 1]
           /\ clientPending' = [clientPending EXCEPT ![cl] = @ + 1]
           /\ UNCHANGED alive
        \/ /\ ~MayPend(cl, r)
           /\ Return(c)
           /\ UNCHANGED <<pending, item, pendingPerRoute, clientPending>>
     /\ ActiveUnchanged
     /\ UNCHANGED <<controls, expired, resolved, connector, doomed, stopping>>

(* OPEN reaches the control connection of the item. *)
OpenWritten(c) ==
  /\ pc[c] = "opening"
  /\ Goto(c, "waiting")
  /\ UNCHANGED <<handshakes, alive>>
  /\ TablesUnchanged

(* Mutant: cancelPendingItem without the test that the item is still there. *)
CancelAlways(c, phase) ==
  /\ ResolveAll({c}, None)
  /\ Return(c)
  /\ ActiveUnchanged
  /\ UNCHANGED <<handshakes, controls, item, expired, connector, doomed, stopping>>

(* cancelPendingItem, then return; or, when another resolution came first, *)
(* go on to phase.                                                         *)
CancelOr(c, phase) ==
  /\ \/ /\ c \in pending
        /\ ResolveAll({c}, None)
        /\ Return(c)
     \/ /\ c \notin pending
        /\ Goto(c, phase)
        /\ UNCHANGED <<pending, pendingPerRoute, clientPending, resolved, alive>>
  /\ ActiveUnchanged
  /\ UNCHANGED <<handshakes, controls, item, expired, connector, doomed, stopping>>

(* The write of OPEN fails. *)
OpenWriteFails(c) ==
  /\ pc[c] = "opening"
  /\ CancelOr(c, "discarding")

(* Time passes item.deadline: joins are refused from now on. *)
JoinDeadline(c) ==
  /\ pc[c] \in {"opening", "waiting"}
  /\ expired' = expired \union {c}
  /\ c \notin expired
  /\ UNCHANGED <<pc, handshakes, controls, pending, item, counters, resolved,
                 connector, doomed, alive, stopping>>

(* The timer of serveClient fires; a cancelled session is also reported to *)
(* the control connection with CANCEL.                                     *)
JoinTimeout(c) ==
  /\ pc[c] = "waiting"
  /\ c \in expired
  /\ CancelOr(c, "late")

(* The context is done while waiting. *)
ClientStops(c) ==
  /\ pc[c] = "waiting"
  /\ stopping
  /\ CancelOr(c, "discarding")

(* The channel delivers: nil ends the handler, a leg starts copyPair. *)
ReceiveResolution(c) ==
  /\ pc[c] \in {"waiting", "late"}
  /\ \E leg \in resolved[c] :
       /\ resolved' = [resolved EXCEPT ![c] = {}]
       /\ \/ /\ leg = None
             /\ Return(c)
             /\ UNCHANGED connector
          \/ /\ leg # None
             /\ Goto(c, "copying")
             /\ connector' = [connector EXCEPT ![c] = leg]
             /\ UNCHANGED alive
  /\ UNCHANGED <<handshakes, controls, pending, item, expired, counters, doomed, stopping>>

(* Mutant: a leg that won the race is dropped. *)
DiscardResolutionLeaks(c) ==
  /\ pc[c] = "discarding"
  /\ resolved[c] # {}
  /\ resolved' = [resolved EXCEPT ![c] = {}]
  /\ Return(c)
  /\ UNCHANGED <<handshakes, controls, pending, item, expired, counters, connector,
                 doomed, stopping>>

(* discardResolution: a leg that won the race is aborted, then accounted. *)
DiscardResolution(c) ==
  /\ pc[c] = "discarding"
  /\ \E leg \in resolved[c] :
       /\ resolved' = [resolved EXCEPT ![c] = {}]
       /\ \/ /\ leg = None
             /\ Return(c)
             /\ UNCHANGED connector
          \/ /\ leg # None
             /\ Goto(c, "finishing")
             /\ connector' = [connector EXCEPT ![c] = leg]
             /\ alive' = alive \ {leg}
  /\ UNCHANGED <<handshakes, controls, pending, item, expired, counters, doomed, stopping>>

(* copyPair returns: end of stream, idle or lifetime deadline, or shutdown; *)
(* both connections are aborted before the slot is given back.              *)
EndCopy(c) ==
  /\ pc[c] = "copying"
  /\ Goto(c, "finishing")
  /\ alive' = alive \ {c, connector[c]}
  /\ UNCHANGED <<handshakes, controls, pending, item, expired, counters, resolved,
                 connector, doomed, stopping>>

(* finishActive(item), and the handler returns. *)
FinishActive(c) ==
  /\ pc[c] = "finishing"
  /\ activeGlobal' = activeGlobal - 1
  /\ activePerRoute' = [activePerRoute EXCEPT ![item[c].route] = @ - 1]
  /\ clientActive' = [clientActive EXCEPT ![item[c].name] = @ - 1]
  /\ connector' = [connector EXCEPT ![c] = None]
  /\ Return(c)
  /\ UNCHANGED <<handshakes, controls, pending, item, expired, pendingPerRoute,
                 clientPending, resolved, doomed, stopping>>

-----------------------------------------------------------------------------
(* Connector data connections. *)

(* joinData's test for DataJoin(route of d, epoch e, session s). *)
MayJoin(d, e, s) ==
  LET r == Identity[d].route
      p == Identity[d].pin
  IN /\ s \in pending
     /\ item[s].route = r
     /\ item[s].control = e
     /\ controls[r] # None
     /\ controls[r] = item[s].control
     /\ Identity[controls[r]].pin = p
     /\ item[s].pin = p
     /\ s \notin expired
     /\ activeGlobal < ActiveGlobal
     /\ activePerRoute[r] < ActivePerRoute
     /\ clientActive[item[s].name] < ActivePerClient

(* Mutant: the join takes any pending session of its control. *)
DataJoinAny(d, e, s) ==
  /\ pc[d] = "preface"
  /\ IsConnector(d)
  /\ \E t \in Carrier :
       /\ MayJoin(d, e, t)
       /\ ResolveAll({t}, d)
       /\ clientActive' = [clientActive EXCEPT ![item[t].name] = @ + 1]
  /\ handshakes' = handshakes - 1
  /\ Goto(d, "joined")
  /\ activeGlobal' = activeGlobal + 1
  /\ activePerRoute' = [activePerRoute EXCEPT ![Identity[d].route] = @ + 1]
  /\ UNCHANGED <<alive, controls, item, expired, connector, doomed, stopping>>

(* First frame DataJoin: joinData hands d to the client handler of s. *)
DataJoin(d, e, s) ==
  /\ pc[d] = "preface"
  /\ IsConnector(d)
  /\ handshakes' = handshakes - 1
  /\ \/ /\ MayJoin(d, e, s)
        /\ Goto(d, "joined")
        /\ ResolveAll({s}, d)
        /\ activeGlobal' = activeGlobal + 1
        /\ activePerRoute' = [activePerRoute EXCEPT ![Identity[d].route] = @ + 1]
        /\ clientActive' = [clientActive EXCEPT ![item[s].name] = @ + 1]
        /\ UNCHANGED alive
     \/ /\ ~MayJoin(d, e, s)
        /\ Return(d)
        /\ ActiveUnchanged
        /\ UNCHANGED <<pending, pendingPerRoute, clientPending, resolved>>
  /\ UNCHANGED <<controls, item, expired, connector, doomed, stopping>>

-----------------------------------------------------------------------------
(* abortConnection of what installControl, removeControl or CANCEL named. *)
Abort(d) ==
  /\ d \in doomed
  /\ doomed' = doomed \ {d}
  /\ alive' = alive \ {d}
  /\ UNCHANGED <<pc, handshakes, controls, pending, item, expired, counters,
                 resolved, connector, stopping>>

Shutdown ==
  /\ ~stopping
  /\ stopping' = TRUE
  /\ UNCHANGED <<pc, handshakes, controls, pending, item, expired, counters,
                 resolved, connector, doomed, alive>>

(* Every carrier has been handled. *)
Terminated ==
  /\ \A c \in Carrier : pc[c] \in {"closed", "joined"}
  /\ doomed = {}
  /\ UNCHANGED vars

Step(c) ==
  \/ Accept(c) \/ Authenticated(c) \/ Reject(c)
  \/ ControlRegister(c) \/ RegisterFails(c) \/ RegisterWritten(c) \/ InstallControl(c)
  \/ ControlEnds(c)
  \/ \E s \in Carrier : ControlCancel(c, s)
  \/ \E r \in Route : ClientOpen(c, r)
  \/ OpenWritten(c) \/ OpenWriteFails(c)
  \/ JoinDeadline(c) \/ JoinTimeout(c) \/ ClientStops(c)
  \/ ReceiveResolution(c) \/ DiscardResolution(c) \/ EndCopy(c) \/ FinishActive(c)
  \/ \E e \in Carrier, s \in Carrier : DataJoin(c, e, s)
  \/ Abort(c)

Next == (\E c \in Carrier : Step(c)) \/ Shutdown \/ Terminated

Spec == Init /\ [][Next]_vars

(* Fairness: every blocking call of a handler is bounded.  TLS, the first  *)
(* frame and control writes have deadlines, serveClient has its timer,     *)
(* copyPair the session guard's idle and lifetime deadlines, channel       *)
(* receives and aborts are local.  Nothing obliges a peer to connect, to   *)
(* cancel, to join, or a control connection to end.                        *)
Fairness ==
  \A c \in Carrier :
    /\ WF_vars(Authenticated(c) \/ Reject(c) \/ ControlRegister(c)
               \/ \E r \in Route : ClientOpen(c, r))
    /\ WF_vars(RegisterWritten(c) \/ RegisterFails(c))
    /\ WF_vars(InstallControl(c))
    /\ WF_vars(OpenWritten(c) \/ OpenWriteFails(c))
    /\ WF_vars(JoinDeadline(c))
    /\ WF_vars(JoinTimeout(c))
    /\ WF_vars(ReceiveResolution(c))
    /\ WF_vars(DiscardResolution(c))
    /\ WF_vars(EndCopy(c))
    /\ WF_vars(FinishActive(c))
    /\ WF_vars(Abort(c))

FairSpec == Spec /\ Fairness

-----------------------------------------------------------------------------
(* Properties. *)

TypeOK ==
  /\ pc \in [Carrier -> Phases]
  /\ handshakes \in Int
  /\ controls \in [Route -> Carrier \union {None}]
  /\ pending \subseteq Carrier
  /\ item \in [Carrier -> Items \union {None}]
  /\ expired \subseteq Carrier
  /\ pendingPerRoute \in [Route -> Int]
  /\ clientPending \in [Client -> Int]
  /\ activeGlobal \in Int
  /\ activePerRoute \in [Route -> Int]
  /\ clientActive \in [Client -> Int]
  /\ resolved \in [Carrier -> SUBSET (Carrier \union {None})]
  /\ connector \in [Carrier -> Carrier \union {None}]
  /\ doomed \subseteq Carrier
  /\ alive \subseteq Carrier
  /\ stopping \in BOOLEAN

(* The leg a session owns: waiting in its channel or being copied. *)
LegsOf(s) == (resolved[s] \union {connector[s]}) \ {None}
Active == {s \in Carrier : LegsOf(s) # {}}

(* Every counter is the number of things it counts, in every interleaving  *)
(* of joins, cancellations, timeouts, replacements and shutdown: no slot   *)
(* is leaked and none is released twice.                                   *)
AccountingExact ==
  /\ handshakes = Cardinality({c \in Carrier : pc[c] \in {"handshake", "preface"}})
  /\ \A r \in Route : pendingPerRoute[r] = Cardinality(Of(pending, r))
  /\ \A cl \in Client : clientPending[cl] = Cardinality(By(pending, cl))
  /\ activeGlobal = Cardinality(Active)
  /\ \A r \in Route : activePerRoute[r] = Cardinality(Of(Active, r))
  /\ \A cl \in Client : clientActive[cl] = Cardinality(By(Active, cl))

(* The configured limits bound what exists, not only what the counters    *)
(* say: waiting sessions, and open data connections that were joined (a    *)
(* connection is closed before its slot is given back).                    *)
HardLimits ==
  LET legs == {d \in alive : pc[d] = "joined"}
  IN /\ Cardinality(pending) <= PendingGlobal
     /\ Cardinality(legs) <= ActiveGlobal
     /\ \A r \in Route : /\ Cardinality(Of(pending, r)) <= PendingPerRoute
                         /\ Cardinality({d \in legs : Identity[d].route = r}) <= ActivePerRoute
     /\ \A cl \in Client : /\ Cardinality(By(pending, cl)) <= PendingPerClient
                           /\ Cardinality(By(Active, cl)) <= ActivePerClient

(* A session is pending only under the control now installed for its route: *)
(* replacing or losing a control leaves no session that a stale connector   *)
(* could still join.                                                        *)
PendingOnCurrentControl ==
  \A s \in pending : controls[item[s].route] = item[s].control

(* resolvePendingLocked sends on a channel of capacity one while it holds   *)
(* Service.mu; a second send would block the whole relay.  A pending item   *)
(* has never been resolved, and no item is ever resolved twice.             *)
SendNeverBlocks ==
  \A s \in Carrier :
    /\ Cardinality(resolved[s]) <= 1
    /\ s \in pending => LegsOf(s) = {} /\ resolved[s] = {}

(* Ownership of a joined data connection: exactly one client handler holds  *)
(* an open one and will abort it, none is held twice, and the handler is    *)
(* for the same route and was opened under the same connector pin.          *)
LegOwnedOnce ==
  \A d \in Carrier :
    LET owners == {s \in Carrier : d \in LegsOf(s)}
    IN /\ Cardinality(owners) <= 1
       /\ owners = {} => ~(pc[d] = "joined" /\ d \in alive)
       /\ \A s \in owners : /\ pc[d] = "joined"
                            /\ item[s].route = Identity[d].route
                            /\ item[s].pin = Identity[d].pin

(* A paired session survives replacement, loss and CANCEL of its control:   *)
(* neither of its two connections is aborted or marked for it.              *)
PairUndisturbed ==
  \A s \in Active :
    pc[s] # "finishing" => {s} \union LegsOf(s) \subseteq alive \ doomed

(* What may be asked of the relay's sessions in every state: exact counters, *)
(* limits on what really exists, one owner of every connector leg, and pairs *)
(* that outlive their control.                                              *)
SessionsSound == AccountingExact /\ HardLimits /\ LegOwnedOnce /\ PairUndisturbed

(* An opened session always ends: it is paired and copied, or cancelled; a  *)
(* lost timer or shutdown race never leaves the handler waiting.            *)
SessionEnds ==
  \A c \in Carrier : pc[c] = "opening" ~> pc[c] = "closed"

(* A handed-over data connection is always released again. *)
LegReleased ==
  \A d \in Carrier : pc[d] = "joined" ~> d \notin alive

(* A control that is no longer the installed one is closed, whoever         *)
(* replaced it and whatever its own handler is doing.                       *)
ReplacedIsClosed ==
  \A c \in Carrier :
    (pc[c] = "control" /\ controls[Identity[c].route] # c) ~> c \notin alive

(* Every handler comes to its end, whichever of timer, peer and replacement *)
(* wins: a client that asked is answered or closed, a leg handed to it is   *)
(* released, a replaced control is closed.                                  *)
NothingLingers == SessionEnds /\ LegReleased /\ ReplacedIsClosed
=============================================================================
