----------------------------- MODULE Connector -----------------------------
(***************************************************************************)
(* The v1 connector, internal/connector: one goroutine (Run) keeps a       *)
(* control registration alive, one goroutine per accepted OPEN             *)
(* (runSession) joins the relay, authenticates the inner client, takes an  *)
(* active slot and only then dials the fixed local SSH target.             *)
(*                                                                         *)
(* A worker is named by its session key <<epoch, session>>.  The relay is  *)
(* the environment: any frame may arrive while a control is open.  TLS,    *)
(* dials and writes succeed or fail by choice; the OPEN limiter is a       *)
(* choice here and is modelled in TokenBucket.                             *)
(***************************************************************************)
EXTENDS Integers, FiniteSets

CONSTANTS
  Epoch, Session,          \* relay-chosen identifiers
  Client,                  \* capability client ids
  InnerClient,             \* the client each session authenticates as
  Capability,              \* config.InnerProfileRouteCapability
  Pending, Active, ActivePerClient,     \* config.Limits
  ReconnectMin, ReconnectMax,
  None

Key == Epoch \X Session

ASSUME EpochAssumption == IsFiniteSet(Epoch) /\ IsFiniteSet(Session) /\ None \notin Epoch
ASSUME InnerAssumption == InnerClient \in [Session -> Client] /\ Capability \in BOOLEAN
ASSUME SlotAssumption == {Pending, Active, ActivePerClient} \subseteq Nat \ {0}
ASSUME BackoffAssumption == /\ ReconnectMin \in Nat \ {0}
                            /\ ReconnectMax \in Nat
                            /\ ReconnectMin <= ReconnectMax

VARIABLES
  ctl,               \* phase of Run
  epoch,             \* epoch of the open control, or None
  usedEpochs,        \* epochs a relay has handed out
  backoff,           \* Run's local variable
  work,              \* phase of the worker of each key, "none" if there is none
  sessions,          \* Service.sessions
  workers,           \* the WaitGroup's counter
  pending, inUse,   \* elements in the two semaphore channels
  clientActive,      \* Service.clientActive
  pendingHeld, activeHeld, clientHeld,   \* which workers will release what
  cancelled,         \* keys for which CANCEL was written to their open control
  stopped            \* ctx is done

ctlVars == <<ctl, epoch, usedEpochs, backoff>>
slotVars == <<pending, inUse, clientActive, pendingHeld, activeHeld, clientHeld>>
connectorVars == <<ctlVars, work, sessions, workers, slotVars, cancelled, stopped>>

ControlPhases == {"connect", "register", "serve", "pause", "drain", "returned"}
WorkPhases == {"none", "dial", "join", "inner", "slot", "local", "ready", "copy",
               "cancel", "ending"}

(* nextBackoff *)
NextBackoff(current, maximum) ==
  IF current >= maximum \/ current > maximum \div 2 THEN maximum ELSE current * 2

-----------------------------------------------------------------------------
ConnectorInit ==
  /\ ctl = "connect"
  /\ epoch = None
  /\ usedEpochs = {}
  /\ backoff = ReconnectMin
  /\ work = [w \in Key |-> "none"]
  /\ sessions = {}
  /\ workers = 0
  /\ pending = 0
  /\ inUse = 0
  /\ clientActive = [cl \in Client |-> 0]
  /\ pendingHeld = {}
  /\ activeHeld = {}
  /\ clientHeld = {}
  /\ cancelled = {}
  /\ stopped = FALSE

(* control.write(CANCEL): it reaches the relay while this control is open. *)
WriteCancel(w) ==
  cancelled' = IF ctl = "serve" /\ w[1] = epoch THEN cancelled \union {w} ELSE cancelled

-----------------------------------------------------------------------------
(* Run and runControl. *)

(* connectOuter and the write of CONTROL_REGISTER succeed. *)
ControlConnected ==
  /\ ctl = "connect"
  /\ ~stopped
  /\ ctl' = "register"
  /\ UNCHANGED <<epoch, usedEpochs, backoff, work, sessions, workers, slotVars,
                 cancelled, stopped>>

(* REGISTERED with a fresh epoch arrives in time. *)
Registered(e) ==
  /\ ctl = "register"
  /\ e \in Epoch \ usedEpochs
  /\ ctl' = "serve"
  /\ epoch' = e
  /\ usedEpochs' = usedEpochs \union {e}
  /\ UNCHANGED <<backoff, work, sessions, workers, slotVars, cancelled, stopped>>

(* runControl returns: dial, registration, read, PONG or heartbeat failure, *)
(* or a frame serveControl does not accept.  long: the attempt outlived the *)
(* heartbeat timeout, which resets the backoff before the next sleep.       *)
ControlEnds(long) ==
  /\ ctl \in {"connect", "register", "serve"}
  /\ epoch' = None
  /\ \/ /\ stopped
        /\ ctl' = "drain"
        /\ UNCHANGED backoff
     \/ /\ ~stopped
        /\ ctl' = "pause"
        /\ backoff' = IF long THEN ReconnectMin ELSE backoff
  /\ UNCHANGED <<usedEpochs, work, sessions, workers, slotVars, cancelled, stopped>>

(* The jittered sleep ends; nextBackoff applies to the next failure. *)
SleepEnds ==
  /\ ctl = "pause"
  /\ \/ /\ stopped
        /\ ctl' = "drain"
        /\ UNCHANGED backoff
     \/ /\ ~stopped
        /\ ctl' = "connect"
        /\ backoff' = NextBackoff(backoff, ReconnectMax)
  /\ UNCHANGED <<epoch, usedEpochs, work, sessions, workers, slotVars, cancelled, stopped>>

(* workers.Wait returns and Run returns. *)
RunReturns ==
  /\ ctl = "drain"
  /\ workers = 0
  /\ ctl' = "returned"
  /\ UNCHANGED <<epoch, usedEpochs, backoff, work, sessions, workers, slotVars,
                 cancelled, stopped>>

Stop ==
  /\ ~stopped
  /\ stopped' = TRUE
  /\ UNCHANGED <<ctlVars, work, sessions, workers, slotVars, cancelled>>

-----------------------------------------------------------------------------
(* acceptOpen for the frame OPEN(e, s). *)

(* The limiter or the pending semaphore refuses, or the key is a duplicate *)
(* (whose pending slot is taken and given back): only this session goes.   *)
OpenRejected(w) ==
  /\ ctl = "serve"
  /\ w[1] = epoch
  /\ ~stopped
  /\ WriteCancel(w)
  /\ UNCHANGED <<ctlVars, work, sessions, workers, slotVars, stopped>>

OpenAccepted(w) ==
  /\ ctl = "serve"
  /\ w[1] = epoch
  /\ ~stopped
  /\ pending < Pending
  /\ w \notin sessions
  /\ pending' = pending + 1
  /\ pendingHeld' = pendingHeld \union {w}
  /\ sessions' = sessions \union {w}
  /\ workers' = workers + 1
  /\ work' = [work EXCEPT ![w] = "dial"]
  /\ UNCHANGED <<ctlVars, inUse, clientActive, activeHeld, clientHeld, cancelled, stopped>>

-----------------------------------------------------------------------------
(* runSession and serveInner. *)

Advance(w, from, to) ==
  /\ work[w] = from
  /\ work' = [work EXCEPT ![w] = to]
  /\ UNCHANGED <<ctlVars, sessions, workers, cancelled, stopped>>

(* connectOuter, the write of DATA_JOIN, and the inner handshake with a    *)
(* certificate that has not expired.                                       *)
OuterConnected(w) == Advance(w, "dial", "join") /\ UNCHANGED slotVars
JoinWritten(w) == Advance(w, "join", "inner") /\ UNCHANGED slotVars

(* tryAcquireClientActive *)
MayAcquireClient(w) ==
  ~Capability \/ clientActive[InnerClient[w[2]]] < ActivePerClient

InnerAuthenticated(w) ==
  /\ MayAcquireClient(w)
  /\ Advance(w, "inner", "slot")
  /\ IF Capability
     THEN /\ clientActive' = [clientActive EXCEPT ![InnerClient[w[2]]] = @ + 1]
          /\ clientHeld' = clientHeld \union {w}
     ELSE UNCHANGED <<clientActive, clientHeld>>
  /\ UNCHANGED <<pending, inUse, pendingHeld, activeHeld>>

(* tryAcquire(active), then enteredActive gives the pending slot back. *)
EnterActive(w) ==
  /\ inUse < Active
  /\ Advance(w, "slot", "local")
  /\ inUse' = inUse + 1
  /\ activeHeld' = activeHeld \union {w}
  /\ pending' = pending - 1
  /\ pendingHeld' = pendingHeld \ {w}
  /\ UNCHANGED <<clientActive, clientHeld>>

LocalDialed(w) == Advance(w, "local", "ready") /\ UNCHANGED slotVars
ReadyWritten(w) == Advance(w, "ready", "copy") /\ UNCHANGED slotVars

(* serveInner's deferred releases. *)
ReleaseInner(w) ==
  /\ inUse' = IF w \in activeHeld THEN inUse - 1 ELSE inUse
  /\ activeHeld' = activeHeld \ {w}
  /\ clientActive' = IF w \in clientHeld
                     THEN [clientActive EXCEPT ![InnerClient[w[2]]] = IF @ <= 1 THEN 0 ELSE @ - 1]
                     ELSE clientActive
  /\ clientHeld' = clientHeld \ {w}
  /\ UNCHANGED <<pending, pendingHeld>>

(* Mutant: a refused active slot leaves the client's slot taken. *)
SessionFailsKeepsClient(w) ==
  /\ work[w] \in {"dial", "join", "inner", "slot", "local", "ready"}
  /\ Advance(w, work[w], "cancel")
  /\ inUse' = IF w \in activeHeld THEN inUse - 1 ELSE inUse
  /\ activeHeld' = activeHeld \ {w}
  /\ clientHeld' = clientHeld \ {w}
  /\ UNCHANGED <<pending, pendingHeld, clientActive>>

(* An error before READY: any dial, handshake, write, slot or ctx failure. *)
SessionFails(w) ==
  /\ work[w] \in {"dial", "join", "inner", "slot", "local", "ready"}
  /\ Advance(w, work[w], "cancel")
  /\ ReleaseInner(w)

(* copyPair returns after READY. *)
SessionEnds(w) ==
  /\ Advance(w, "copy", "ending")
  /\ ReleaseInner(w)

(* Mutant: the failure is not reported to the relay. *)
CancelDropped(w) ==
  /\ work[w] = "cancel"
  /\ work' = [work EXCEPT ![w] = "ending"]
  /\ UNCHANGED <<ctlVars, sessions, workers, slotVars, cancelled, stopped>>

(* runSession reports the failure on the control. *)
CancelWritten(w) ==
  /\ work[w] = "cancel"
  /\ WriteCancel(w)
  /\ work' = [work EXCEPT ![w] = "ending"]
  /\ UNCHANGED <<ctlVars, sessions, workers, slotVars, stopped>>

(* The worker's deferred calls: the pending slot if it is still held, the  *)
(* session key, the WaitGroup.                                             *)
WorkerDone(w) ==
  /\ work[w] = "ending"
  /\ work' = [work EXCEPT ![w] = "none"]
  /\ pending' = IF w \in pendingHeld THEN pending - 1 ELSE pending
  /\ pendingHeld' = pendingHeld \ {w}
  /\ sessions' = sessions \ {w}
  /\ workers' = workers - 1
  /\ UNCHANGED <<ctlVars, inUse, clientActive, activeHeld, clientHeld, cancelled, stopped>>

Returned == ctl = "returned" /\ UNCHANGED connectorVars

WorkerStep(w) ==
  \/ OuterConnected(w) \/ JoinWritten(w) \/ InnerAuthenticated(w) \/ EnterActive(w)
  \/ LocalDialed(w) \/ ReadyWritten(w) \/ SessionFails(w) \/ SessionEnds(w)
  \/ CancelWritten(w) \/ WorkerDone(w)

ControlStep ==
  \/ ControlConnected \/ SleepEnds \/ RunReturns \/ Stop
  \/ \E e \in Epoch : Registered(e)
  \/ \E long \in BOOLEAN : ControlEnds(long)
  \/ \E w \in Key : OpenRejected(w) \/ OpenAccepted(w)

ConnectorNext == ControlStep \/ (\E w \in Key : WorkerStep(w)) \/ Returned

ConnectorSpec == ConnectorInit /\ [][ConnectorNext]_connectorVars

(* Once ctx is done every blocking call of Run ends (AfterFunc closes the  *)
(* connections, sleepContext selects on ctx); a worker's calls are bounded *)
(* by deadlines, and copyPair by the session guard.                        *)
Fairness ==
  /\ WF_connectorVars(stopped /\ (SleepEnds \/ \E long \in BOOLEAN : ControlEnds(long)))
  /\ WF_connectorVars(RunReturns)
  /\ \A w \in Key : WF_connectorVars(WorkerStep(w))

FairConnector == ConnectorSpec /\ Fairness

-----------------------------------------------------------------------------
(* Properties. *)

(* The semaphores, the per-client counts and the WaitGroup count exactly    *)
(* the workers that will give their element back, whichever call of         *)
(* runSession or serveInner fails: no slot is lost, and no release blocks   *)
(* on an empty channel.                                                     *)
SlotsExact ==
  /\ pending = Cardinality(pendingHeld)
  /\ inUse = Cardinality(activeHeld)
  /\ \A cl \in Client :
       clientActive[cl] = Cardinality({w \in clientHeld : InnerClient[w[2]] = cl})
  /\ workers = Cardinality({w \in Key : work[w] # "none"})
  /\ sessions = {w \in Key : work[w] # "none"}
  /\ \A w \in Key : work[w] = "none" => w \notin pendingHeld \union activeHeld \union clientHeld

(* The local SSH target is never dialed by more sessions at a time than     *)
(* Active, nor for one capability client by more than ActivePerClient, and  *)
(* sessions before that point never outnumber Pending.                      *)
DialGate ==
  LET dialing == {w \in Key : work[w] \in {"local", "ready", "copy"}}
      before == {w \in Key : work[w] \in {"dial", "join", "inner", "slot"}}
  IN /\ Cardinality(dialing) <= Active
     /\ Cardinality(before) <= Pending
     /\ Capability => \A cl \in Client :
          Cardinality({w \in dialing : InnerClient[w[2]] = cl}) <= ActivePerClient

(* Whatever the interleaving of workers: exact slots, and the limits hold   *)
(* for the sessions that really dial.                                      *)
SessionGate == SlotsExact /\ DialGate

(* A worker that gives up before READY tells the relay so while its control *)
(* is open: the client is not left waiting for the join timeout.            *)
FailureReported ==
  [][\A w \in Key :
       (work[w] \notin {"none", "copy", "ending"} /\ work'[w] = "ending"
        /\ ctl = "serve" /\ epoch = w[1])
         => w \in cancelled']_connectorVars

(* After ctx is done Run returns. *)
StopReturns == stopped ~> ctl = "returned"

(* Nobody waits for a worker in vain: neither the relay's client nor Run.   *)
NobodyLeftWaiting == FailureReported /\ StopReturns
=============================================================================
