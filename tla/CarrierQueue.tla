----------------------------- MODULE CarrierQueue -----------------------------
(***************************************************************************)
(* The waiting carriers of the receiver-owned relay                        *)
(* (internal/pairrelay/relay.go): receivers park a leg in a queue, clients *)
(* take one, and the two are joined by a byte copy (runtime) or one        *)
(* request and response (pairing).  Each handler is the goroutine of one   *)
(* connection; every stretch under Relay.mu is one action.                 *)
(*                                                                         *)
(* A handler's claims come from its token.  What matters of them here is   *)
(* the route, the terms compared by sameRouteClaims, and whether a removal *)
(* has cut them off since (RouteInventory: a removal is final, so a cut    *)
(* never heals).                                                           *)
(***************************************************************************)
EXTENDS Integers, FiniteSets, Sequences, SequencesExt

CONSTANTS
    Legs, Clients,       \* receiver and client connections
    CarrierRoutes, Kinds,       \* routeKey; {"pairing", "runtime"}
    RouteOf, KindOf, TermsOf,    \* what the token and the first frame of a connection say
    PendingMax,          \* [Kinds -> PendingPairings, PendingCarriers]
    RouteMax,            \* min(PerRoutePending, claims' limit)
    ActiveMax, RouteActiveMax    \* ActiveCarriers; min(PerRouteActive, claims' limit)

Handlers == Legs \cup Clients
NoLeg == "none"

ASSUME CarrierBounds ==
    /\ Legs \cap Clients = {}
    /\ IsFiniteSet(Legs) /\ IsFiniteSet(Clients)
    /\ NoLeg \notin Handlers
    /\ RouteOf \in [Handlers -> CarrierRoutes] /\ KindOf \in [Handlers -> Kinds]
    /\ PendingMax \in [Kinds -> Nat] /\ RouteMax \in Nat
    /\ ActiveMax \in Nat /\ RouteActiveMax \in Nat

VARIABLES
    phase,      \* where each handler is
    open,       \* its connection is usable
    cut,        \* its claims are refused by checkAdmissionLocked
    tracked,    \* routeConnections
    late,       \* legs whose expiry has passed
    done,       \* leg.done, a channel of one
    claimed,    \* leg.claimed
    queue,      \* pairing and runtime
    pending,    \* pairingPending, runtimePending
    perRoute,   \* pairingPerRoute, runtimePerRoute
    active, activePerRoute,
    taken,      \* the leg a client holds
    removed,    \* routes whose record is "removed"
    closed, cancelled   \* Relay.closed; Relay.ctx

handlerVars == <<phase, open, cut, tracked, late>>
legVars == <<done, claimed>>
queueVars == <<queue, pending, perRoute>>
activeVars == <<active, activePerRoute>>
relayVars == <<removed, closed, cancelled>>
carrierVars == <<handlerVars, legVars, queueVars, activeVars, taken, relayVars>>

LegPhases == {"new", "tracked", "waiting", "owned", "gone"}
ClientPhases == {"new", "tracked", "taken", "ready", "exchange", "copying", "release", "gone"}

\* A client that has its leg and has not yet reported its end.
Holding == {"taken", "ready", "exchange", "copying"}
\* A client counted by acquireActive.
Counted == {"ready", "copying", "release"}

Of(set, r) == {x \in set : RouteOf[x] = r}
In(k, r) == queue[k][r]
StillAdmitted(x) == ~closed /\ ~cut[x]

CarrierInit ==
    /\ phase = [x \in Handlers |-> "new"]
    /\ open = [x \in Handlers |-> TRUE]
    /\ cut = [x \in Handlers |-> FALSE]
    /\ tracked = {}
    /\ late = {}
    /\ done = [l \in Legs |-> FALSE]
    /\ claimed = {}
    /\ queue = [k \in Kinds |-> [r \in CarrierRoutes |-> <<>>]]
    /\ pending = [k \in Kinds |-> 0]
    /\ perRoute = [k \in Kinds |-> [r \in CarrierRoutes |-> 0]]
    /\ active = 0
    /\ activePerRoute = [r \in CarrierRoutes |-> 0]
    /\ taken = [c \in Clients |-> NoLeg]
    /\ removed = {}
    /\ closed = FALSE
    /\ cancelled = FALSE

Goto(x, p) == phase' = [phase EXCEPT ![x] = p]

\* The handler returns: the deferred release untracks the connection and
\* ServeHTTP aborts it.
Leave(x) ==
    /\ Goto(x, "gone")
    /\ tracked' = tracked \ {x}
    /\ open' = [open EXCEPT ![x] = FALSE]

\* finishLeg: a full channel keeps what it has.
Finish(l) == done' = [done EXCEPT ![l] = TRUE]

-----------------------------------------------------------------------------
(* Arrival.  A token of a removed route does not get this far. *)

TrackRouteConnection(x) ==
    /\ phase[x] = "new"
    /\ ~closed
    /\ RouteOf[x] \notin removed
    /\ Goto(x, "tracked")
    /\ tracked' = tracked \cup {x}
    /\ UNCHANGED <<open, cut, late, legVars, queueVars, activeVars, taken, relayVars>>

\* The handshake, the recording of the claims or the first read fails.
GiveUp(x) ==
    /\ phase[x] = "tracked"
    /\ Leave(x)
    /\ UNCHANGED <<cut, late, legVars, queueVars, activeVars, taken, relayVars>>

-----------------------------------------------------------------------------
(* Receivers *)

HasRoom(k, r) == pending[k] < PendingMax[k] /\ perRoute[k][r] < RouteMax

EnqueueLeg(l) ==
    LET k == KindOf[l]
        r == RouteOf[l]
    IN  /\ phase[l] = "tracked"
        /\ IF StillAdmitted(l) /\ HasRoom(k, r)
           THEN /\ queue' = [queue EXCEPT ![k][r] = Append(@, l)]
                /\ pending' = [pending EXCEPT ![k] = @ + 1]
                /\ perRoute' = [perRoute EXCEPT ![k][r] = @ + 1]
                /\ Goto(l, "waiting")
                /\ UNCHANGED <<tracked, open>>
           ELSE Leave(l) /\ UNCHANGED queueVars
        /\ UNCHANGED <<cut, late, legVars, activeVars, taken, relayVars>>

\* The leg's expiry passes; its timer may fire any time after.
ExpireLeg(l) ==
    /\ phase[l] \in {"tracked", "waiting"}
    /\ l \notin late
    /\ late' = late \cup {l}
    /\ UNCHANGED <<phase, open, cut, tracked, legVars, queueVars, activeVars, taken, relayVars>>

\* removeLeg retires a leg that is still queued and not claimed.
Removable(l) == Contains(In(KindOf[l], RouteOf[l]), l) /\ l \notin claimed

\* A mutant: the timer retires the leg without asking who owns it.
RemoveLegRacy(l) ==
    /\ queue' = [queue EXCEPT ![KindOf[l]][RouteOf[l]] = SelectSeq(@, LAMBDA m : m # l)]
    /\ pending' = [pending EXCEPT ![KindOf[l]] = @ - 1]
    /\ perRoute' = [perRoute EXCEPT ![KindOf[l]][RouteOf[l]] = @ - 1]

RemoveLeg(l) ==
    IF Removable(l)
    THEN /\ \E i \in DOMAIN In(KindOf[l], RouteOf[l]) :
              /\ In(KindOf[l], RouteOf[l])[i] = l
              /\ queue' = [queue EXCEPT ![KindOf[l]][RouteOf[l]] = RemoveAt(@, i)]
         /\ pending' = [pending EXCEPT ![KindOf[l]] = @ - 1]
         /\ perRoute' = [perRoute EXCEPT ![KindOf[l]][RouteOf[l]] = @ - 1]
    ELSE UNCHANGED queueVars

\* waitLeg, its three cases; Go picks any that is ready.
WaitDone(l) ==
    /\ phase[l] \in {"waiting", "owned"}
    /\ done[l]
    /\ Leave(l)
    /\ UNCHANGED <<cut, late, legVars, queueVars, activeVars, taken, relayVars>>

WaitCancelled(l) ==
    /\ phase[l] \in {"waiting", "owned"}
    /\ cancelled
    /\ IF phase[l] = "waiting" THEN RemoveLeg(l) ELSE UNCHANGED queueVars
    /\ Leave(l)
    /\ UNCHANGED <<cut, late, legVars, activeVars, taken, relayVars>>

\* The timer retires the leg, or finds that takeLeg won and waits for the owner.
WaitTimer(l) ==
    /\ phase[l] = "waiting"
    /\ l \in late
    /\ RemoveLeg(l)
    /\ IF Removable(l) THEN Leave(l) ELSE Goto(l, "owned") /\ UNCHANGED <<tracked, open>>
    /\ UNCHANGED <<cut, late, legVars, activeVars, taken, relayVars>>

-----------------------------------------------------------------------------
(* Clients *)

Suits(c, l) == l \notin late /\ TermsOf[l] = TermsOf[c]

\* The legs takeLeg passes over: closed, told, and no longer counted.
Skipped(c, q) ==
    LET suitable == {i \in DOMAIN q : Suits(c, q[i])}
        n == IF suitable = {} THEN Len(q) ELSE (CHOOSE i \in suitable : \A j \in suitable : i <= j) - 1
    IN  SubSeq(q, 1, n)

\* takeLeg finds a leg.
TakeLeg(c) ==
    LET k == KindOf[c]
        r == RouteOf[c]
        skipped == Skipped(c, In(k, r))
        rest == SubSeq(In(k, r), Len(skipped) + 1, Len(In(k, r)))
    IN  /\ phase[c] = "tracked"
        /\ StillAdmitted(c)
        /\ rest # <<>>
        /\ queue' = [queue EXCEPT ![k][r] = Tail(rest)]
        /\ pending' = [pending EXCEPT ![k] = @ - Len(skipped) - 1]
        /\ perRoute' = [perRoute EXCEPT ![k][r] = @ - Len(skipped) - 1]
        /\ done' = [l \in Legs |-> done[l] \/ l \in ToSet(skipped)]
        /\ open' = [x \in Handlers |-> open[x] /\ x \notin ToSet(skipped)]
        /\ taken' = [taken EXCEPT ![c] = Head(rest)]
        /\ claimed' = claimed \cup {Head(rest)}
        /\ Goto(c, IF k = "pairing" THEN "exchange" ELSE "taken")
        /\ UNCHANGED <<cut, tracked, late, activeVars, relayVars>>

\* takeLeg finds none, or the claims are refused.
TakeNothing(c) ==
    LET k == KindOf[c]
        r == RouteOf[c]
        skipped == IF StillAdmitted(c) THEN In(k, r) ELSE <<>>
    IN  /\ phase[c] = "tracked"
        /\ StillAdmitted(c) => Skipped(c, In(k, r)) = In(k, r)
        /\ queue' = [queue EXCEPT ![k][r] = IF StillAdmitted(c) THEN <<>> ELSE @]
        /\ pending' = [pending EXCEPT ![k] = @ - Len(skipped)]
        /\ perRoute' = [perRoute EXCEPT ![k][r] = IF StillAdmitted(c) THEN 0 ELSE @]
        /\ done' = [l \in Legs |-> done[l] \/ l \in ToSet(skipped)]
        /\ open' = [x \in Handlers |-> open[x] /\ x # c /\ x \notin ToSet(skipped)]
        /\ Goto(c, "gone")
        /\ tracked' = tracked \ {c}
        /\ UNCHANGED <<cut, late, claimed, activeVars, taken, relayVars>>

\* exchangePairing: one request and one response, or a failure of either; the
\* deferred finishLeg runs in both cases.
ExchangePairing(c) ==
    /\ phase[c] = "exchange"
    /\ Finish(taken[c])
    /\ Leave(c)
    /\ taken' = [taken EXCEPT ![c] = NoLeg]
    /\ UNCHANGED <<cut, late, claimed, queueVars, activeVars, relayVars>>

ActiveRoom(c) ==
    /\ StillAdmitted(c)
    /\ StillAdmitted(taken[c])
    /\ active < ActiveMax
    /\ activePerRoute[RouteOf[c]] < RouteActiveMax

AcquireActive(c) ==
    /\ phase[c] = "taken"
    /\ IF ActiveRoom(c)
       THEN /\ active' = active + 1
            /\ activePerRoute' = [activePerRoute EXCEPT ![RouteOf[c]] = @ + 1]
            /\ Goto(c, "ready")
            /\ UNCHANGED <<tracked, open, done, taken>>
       ELSE /\ Finish(taken[c])
            /\ Leave(c)
            /\ taken' = [taken EXCEPT ![c] = NoLeg]
            /\ UNCHANGED activeVars
    /\ UNCHANGED <<cut, late, claimed, queueVars, relayVars>>

\* READY is written to the receiver and to the client.
WriteReady(c) ==
    /\ phase[c] = "ready"
    /\ open[c] /\ open[taken[c]]
    /\ Goto(c, "copying")
    /\ UNCHANGED <<open, cut, tracked, late, legVars, queueVars, activeVars, taken, relayVars>>

\* A READY cannot be written.
ReadyFails(c) ==
    /\ phase[c] = "ready"
    /\ Finish(taken[c])
    /\ taken' = [taken EXCEPT ![c] = NoLeg]
    /\ Goto(c, "release")
    /\ UNCHANGED <<open, cut, tracked, late, claimed, queueVars, activeVars, relayVars>>

\* copyOpaque ends (a peer closed, the session deadline, an abort) and closes both.
CopyEnds(c) ==
    /\ phase[c] = "copying"
    /\ Finish(taken[c])
    /\ open' = [open EXCEPT ![c] = FALSE, ![taken[c]] = FALSE]
    /\ taken' = [taken EXCEPT ![c] = NoLeg]
    /\ Goto(c, "release")
    /\ UNCHANGED <<cut, tracked, late, claimed, queueVars, activeVars, relayVars>>

ReleaseActive(c) ==
    /\ phase[c] = "release"
    /\ active' = IF active > 0 THEN active - 1 ELSE active
    /\ activePerRoute' = [activePerRoute EXCEPT ![RouteOf[c]] = IF @ > 1 THEN @ - 1 ELSE 0]
    /\ Leave(c)
    /\ UNCHANGED <<cut, late, legVars, queueVars, taken, relayVars>>

-----------------------------------------------------------------------------
(* The relay *)

\* A mutant: only the queued legs are aborted.
RemoveRouteQueued(r) ==
    LET queued == UNION {ToSet(In(k, r)) : k \in Kinds}
    IN  /\ ~closed
        /\ r \notin removed
        /\ removed' = removed \cup {r}
        /\ cut' = [x \in Handlers |-> cut[x] \/ (RouteOf[x] = r /\ phase[x] # "new")]
        /\ open' = [x \in Handlers |-> open[x] /\ x \notin queued]
        /\ done' = [l \in Legs |-> done[l] \/ l \in queued]
        /\ pending' = [k \in Kinds |-> pending[k] - Len(In(k, r))]
        /\ perRoute' = [k \in Kinds |-> [perRoute[k] EXCEPT ![r] = 0]]
        /\ queue' = [k \in Kinds |-> [queue[k] EXCEPT ![r] = <<>>]]
        /\ UNCHANGED <<phase, tracked, late, claimed, activeVars, taken, closed, cancelled>>

\* RemoveRoute aborts every tracked connection of the route and empties its
\* queues.
RemoveRoute(r) ==
    LET queued == UNION {ToSet(In(k, r)) : k \in Kinds}
    IN  /\ ~closed
        /\ r \notin removed
        /\ removed' = removed \cup {r}
        /\ cut' = [x \in Handlers |-> cut[x] \/ (RouteOf[x] = r /\ phase[x] # "new")]
        /\ open' = [x \in Handlers |-> open[x] /\ x \notin Of(tracked, r) \cup queued]
        /\ done' = [l \in Legs |-> done[l] \/ l \in queued]
        /\ pending' = [k \in Kinds |-> pending[k] - Len(In(k, r))]
        /\ perRoute' = [k \in Kinds |-> [perRoute[k] EXCEPT ![r] = 0]]
        /\ queue' = [k \in Kinds |-> [queue[k] EXCEPT ![r] = <<>>]]
        /\ UNCHANGED <<phase, tracked, late, claimed, activeVars, taken, closed, cancelled>>

\* RegisterReceiver approves the route again; old claims stay cut.
Reapprove(r) ==
    /\ r \in removed
    /\ ~closed
    /\ removed' = removed \ {r}
    /\ UNCHANGED <<handlerVars, legVars, queueVars, activeVars, taken, closed, cancelled>>

\* Close, under the lock: the counts are left as they are.
Close ==
    LET queued == UNION {ToSet(In(k, r)) : k \in Kinds, r \in CarrierRoutes}
    IN  /\ ~closed
        /\ closed' = TRUE
        /\ open' = [x \in Handlers |-> open[x] /\ x \notin tracked \cup queued]
        /\ done' = [l \in Legs |-> done[l] \/ l \in queued]
        /\ queue' = [k \in Kinds |-> [r \in CarrierRoutes |-> <<>>]]
        /\ UNCHANGED <<phase, cut, tracked, late, claimed, pending, perRoute, activeVars, taken,
                       removed, cancelled>>

\* Close, after the lock
Cancel ==
    /\ closed /\ ~cancelled
    /\ cancelled' = TRUE
    /\ UNCHANGED <<handlerVars, legVars, queueVars, activeVars, taken, removed, closed>>

LegStep(l) == EnqueueLeg(l) \/ WaitDone(l) \/ WaitCancelled(l) \/ WaitTimer(l)
ClientStep(c) ==
    \/ TakeLeg(c) \/ TakeNothing(c) \/ ExchangePairing(c) \/ AcquireActive(c)
    \/ WriteReady(c) \/ ReadyFails(c) \/ CopyEnds(c) \/ ReleaseActive(c)

CarrierNext ==
    \/ \E x \in Handlers : TrackRouteConnection(x) \/ GiveUp(x)
    \/ \E l \in Legs : LegStep(l) \/ ExpireLeg(l)
    \/ \E c \in Clients : ClientStep(c)
    \/ \E r \in CarrierRoutes : RemoveRoute(r) \/ Reapprove(r)
    \/ Close
    \/ Cancel

CarrierSpec == CarrierInit /\ [][CarrierNext]_carrierVars

-----------------------------------------------------------------------------
(* Properties *)

Waiting(k) == UNION {ToSet(In(k, r)) : r \in CarrierRoutes}
Queued == UNION {Waiting(k) : k \in Kinds}
Active == {c \in Clients : phase[c] \in Counted}

\* While the relay is open its four counters equal what is really queued and
\* active, whatever mix of take, timeout, removal and refusal came before, and
\* the queues and active carriers themselves stay within the limits; a drift
\* would either refuse everyone or lift the limits.
CountsExact ==
    /\ active = Cardinality(Active) /\ active <= ActiveMax
    /\ \A r \in CarrierRoutes : /\ activePerRoute[r] = Cardinality(Of(Active, r))
                              /\ activePerRoute[r] <= RouteActiveMax
    /\ ~closed => \A k \in Kinds :
          /\ \A r \in CarrierRoutes : perRoute[k][r] = Len(In(k, r))
          /\ pending[k] = Cardinality(Waiting(k))
    /\ \A k \in Kinds : \A r \in CarrierRoutes : Len(In(k, r)) <= RouteMax
    /\ \A k \in Kinds : Cardinality(Waiting(k)) <= PendingMax[k]

\* A leg is queued once or held by one client, never both: expiry and promotion
\* are one ownership decision (removeLeg, takeLeg).
OneOwner ==
    /\ \A k \in Kinds, r \in CarrierRoutes : IsInjective(In(k, r))
    /\ \A c, d \in Clients : c # d /\ taken[c] # NoLeg => taken[c] # taken[d]
    /\ \A c \in Clients : taken[c] # NoLeg => taken[c] \notin Queued /\ taken[c] \in claimed

\* The handler of a leg that a client holds is still there, so ServeHTTP cannot
\* abort a live carrier; only the relay's shutdown takes it away.
CarrierKept ==
    \A c \in Clients : phase[c] \in Holding =>
        phase[taken[c]] \in {"waiting", "owned"} \/ cancelled

\* After a removal or Close no connection admitted before it is usable, wherever
\* its handler was: no carrier survives the removal of its route.
RemovalReachesAll ==
    \A x \in Handlers : phase[x] \notin {"new", "gone"} /\ (cut[x] \/ closed) => ~open[x]

\* A leg that left the queue for a client is held by that client or has been
\* told to end.  Its timer no longer runs once it lost the race (waitLeg), so a
\* client that gave up without telling it would keep it, its connection and its
\* handler for ever.
NoOrphan == \A l \in claimed : done[l] \/ \E c \in Clients : taken[c] = l

\* The queues as a whole: exact counts, one owner of every leg, and no leg that is
\* lost, aborted under its client, or kept for ever.
CarriersSound == CountsExact /\ OneOwner /\ CarrierKept /\ NoOrphan
=============================================================================
