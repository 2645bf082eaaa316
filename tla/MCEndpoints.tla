---------------------------- MODULE MCEndpoints ----------------------------
(* The endpoints of a tunnel for TLC: TunnelLifecycle, RelayLink,           *)
(* ReceiverWorker and SessionDeadlines.  They share no file and no          *)
(* connection, so a behaviour exercises one of them; the openings of        *)
(* RelayLink are two concurrent starts of SSH ("clients") or the receiver's *)
(* Accept ("receiver").                                                     *)
EXTENDS TunnelLifecycle, RelayLink, ReceiverWorker, SessionDeadlines

CONSTANTS a, r, w1

VARIABLE part

Parts == {"tunnel", "clients", "receiver", "worker", "session"}

EndpointsInit ==
    /\ part \in Parts
    /\ TunnelInit /\ (part # "tunnel" => target)
    /\ LinkInit
    /\ WorkerInit /\ (part # "worker" => stored.offer)
    /\ DeadlineInit

\* A session ends at the bound of the clock, with nothing left to do.
SessionOver == part = "session" /\ clock = MaxClock

EndpointsNext ==
    \/ /\ part = "tunnel" /\ TunnelNext
       /\ UNCHANGED <<part, linkVars, workerVars, deadlineVars>>
    \/ /\ part = "clients" /\ \E o \in Opening \ Accepting : LinkStep(o)
       /\ UNCHANGED <<part, tunnelVars, workerVars, deadlineVars>>
    \/ /\ part = "receiver" /\ \E o \in Accepting : LinkStep(o)
       /\ UNCHANGED <<part, tunnelVars, workerVars, deadlineVars>>
    \/ /\ part = "worker" /\ WorkerNext
       /\ UNCHANGED <<part, tunnelVars, linkVars, deadlineVars>>
    \/ /\ part = "session" /\ DeadlineNext
       /\ UNCHANGED <<part, tunnelVars, linkVars, workerVars>>
    \/ /\ SessionOver
       /\ UNCHANGED <<part, tunnelVars, linkVars, workerVars, deadlineVars>>

\* The fairness of each module (TunnelFair, LinkFair, WorkerFair, DeadlineFair)
\* in the behaviours that exercise it.
TunnelHere == part = "tunnel"
LinkHere(o) == part = IF o \in Accepting THEN "receiver" ELSE "clients"
WorkerHere == part = "worker"
SessionHere == part = "session"
EndpointsFair ==
    /\ \A w \in Workers : /\ WF_tunnelVars(TunnelHere /\ WatchPolicy(w))
                          /\ WF_tunnelVars(TunnelHere /\ Released(w))
    /\ \A o \in Opening :
         /\ WF_linkVars(LinkHere(o) /\ Proceeds(o))
         /\ WF_linkVars(LinkHere(o) /\ ContextCloses(o))
         /\ WF_linkVars(LinkHere(o) /\ (BudgetStarts(o) \/ BudgetCancels(o)))
         /\ \A n \in 1 .. MaxDials :
              WF_linkVars(/\ LinkHere(o)
                          /\ \/ GuardDue(o, n) \/ GuardStarts(o, n)
                             \/ GuardAborts(o, n))
    /\ WF_workerVars(WorkerHere /\ MainProceeds)
    /\ WF_workerVars(WorkerHere /\ PairProceeds)
    /\ WF_workerVars(WorkerHere /\ PolicyTick)
    /\ WF_workerVars(WorkerHere /\ SessionStops)
    /\ WF_deadlineVars(SessionHere /\ ClockTick)
    /\ WF_deadlineVars(SessionHere /\ ClientProceeds)
    /\ WF_deadlineVars(SessionHere /\ ConnectorProceeds)
    /\ WF_deadlineVars(SessionHere /\ CloseTravels)
    /\ \A d \in Directions : WF_deadlineVars(SessionHere /\ CopyProceeds(d))

EndpointsSpec ==
    /\ EndpointsInit
    /\ [][EndpointsNext]_<<part, tunnelVars, linkVars, workerVars, deadlineVars>>
    /\ EndpointsFair

\* What the followed process of a part must not stay in: a worker serving a
\* denied directory, an opening under way, a receiver that outlives the alarm,
\* an open session.  Workers and the two client openings are interchangeable,
\* so following one of them is enough.
Owed ==
    CASE part = "tunnel" -> ServesDenied(w1)
      [] part = "clients" -> StillOpening(a)
      [] part = "receiver" -> StillOpening(r)
      [] part = "worker" -> OutlivesAlarm
      [] part = "session" -> StillOpen

\* Whatever an endpoint has begun or been told to stop, it ends by its own
\* timers and watchers: the relay and the peers may be silent for ever, send
\* for ever or never close (pending.go:14-49, client.go:366-490,
\* worker.go:264-324, session.go:233-304, broker_linux.go:157-185).  The one
\* exception is StillOpen's: a v1 client that copies needs a relay that passes
\* the connector's close on (internal/client/client.go:206, 233-265).
EndpointsEnd == []<>~Owed
=============================================================================
