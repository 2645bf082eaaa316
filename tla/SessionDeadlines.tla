-------------------------- MODULE SessionDeadlines --------------------------
(***************************************************************************)
(* How long a v1 session may last: the client's connectReady and copySSH   *)
(* (internal/client/client.go), the connector's explicitHandshake,         *)
(* serveInner and copyPair (internal/connector/session.go) and the guard   *)
(* that both directions of copyPair share (internal/sessionguard).         *)
(*                                                                         *)
(* Every phase before READY has a deadline of its own, set and cleared on  *)
(* the same connection; afterwards only the guard's deadline, which every  *)
(* payload read moves, and the drain bound the session.  The two ends read *)
(* one clock, and both peers may send for ever.  The relay between them    *)
(* may close the client's carrier at any time, pass on that the connector  *)
(* has closed, or be silent for ever.  Slots and the control connection    *)
(* are Connector's.                                                        *)
(***************************************************************************)
EXTENDS Naturals, FiniteSets

CONSTANTS
    Phase,      \* the timeout of each phase before READY
    IdleLimit,  \* SessionIdle
    Lifetime,   \* SessionLifetime
    LeafEnd,    \* NotAfter of the client's leaf
    Drain,      \* the drain timeout of either end
    MaxClock    \* bound: the last instant; no deadline is later

ASSUME DeadlineBounds ==
    /\ {Phase, IdleLimit, Lifetime, Drain} \subseteq Nat \ {0}
    /\ IdleLimit <= Lifetime
    /\ MaxClock \in Nat /\ MaxClock > Phase + Lifetime + Drain
    /\ LeafEnd \in 1 .. MaxClock

VARIABLES
    clock,
    end,       \* client and connector: their phase, and their drain's end
    due,       \* the deadline set on each connection
    alive,     \* the connections nobody closed
    copy,      \* the connector's two copy goroutines
    life,      \* the granted lifetime, the guard's expiry and last touch
    carried,   \* payload reads of each direction at or after the expiry
    carrier    \* the client's carrier: open, kept open by a relay that did
               \* not pass the connector's close on, or ended

deadlineVars == << clock, end, due, alive, copy, life, carried, carrier >>

Ends == {"client", "connector"}
Sockets == {"client", "inner", "local"}
Never == MaxClock + 1

\* 'l' copies from inner to local, 'i' from local to inner.
Directions == {"l", "i"}
Source(d) == IF d = "l" THEN "inner" ELSE "local"
Sink(d) == IF d = "l" THEN "local" ELSE "inner"

Minimum(a, b) == IF a < b THEN a ELSE b

\* The time after a delay.
In(delay) == Minimum(clock + delay, MaxClock)

DeadlineInit ==
    /\ clock = 0
    /\ end = [e \in Ends |-> [at |-> "outer", until |-> Never]]
    /\ due = [c \in Sockets |-> IF c = "local" THEN Never ELSE Phase]
    /\ alive = {"client", "inner"}
    /\ copy = [d \in Directions |-> "off"]
    /\ life = [granted |-> 0, expires |-> Never, touched |-> 0]
    /\ carried = [d \in Directions |-> 0]
    /\ carrier = "open"

Socket(e) == IF e = "client" THEN "client" ELSE "inner"

\* A phase that waits for the other end is not over by itself; its deadline
\* or a lost carrier fails it.
Waits == {"outer", "open", "inner", "dial", "ready"}

\* The phase is done: its deadline is cleared, the next one sets its own.
Enter(e, phase) ==
    /\ end' = [end EXCEPT ![e].at = phase]
    /\ due' = [due EXCEPT ![Socket(e)] = In(Phase)]

-----------------------------------------------------------------------------
(* Up to READY.                                                            *)

\* explicitHandshake with the relay, on either end.
OuterDone(e) ==
    /\ end[e].at = "outer" /\ clock < due[Socket(e)]
    /\ Enter(e, "open")
    /\ UNCHANGED << carrier, clock, alive, copy, life, carried >>

\* The route request of the client and the DATA_JOIN of the connector are
\* written.
RequestWritten(e) ==
    /\ end[e].at = "open" /\ clock < due[Socket(e)]
    /\ Enter(e, "inner")
    /\ UNCHANGED << carrier, clock, alive, copy, life, carried >>

\* The inner handshake needs both ends, a valid leaf and the carrier between
\* them.  authenticatedSessionLifetime measures what is left of the leaf; the
\* client waits for READY, the connector dials its fixed SSH target.
InnerDone ==
    /\ \A e \in Ends : end[e].at = "inner" /\ clock < due[Socket(e)]
    /\ {"client", "inner"} \subseteq alive
    /\ clock < LeafEnd
    /\ life' = [life EXCEPT !.granted = Minimum(Lifetime, LeafEnd - clock)]
    /\ end' = [end EXCEPT !["client"].at = "ready", !["connector"].at = "dial"]
    /\ due' = [due EXCEPT !["client"] = In(Phase),
                          !["inner"] = In(Phase)]
    /\ UNCHANGED << carrier, clock, alive, copy, carried >>

\* copyPair: the idle period is no longer than the lifetime.
GuardIdle == Minimum(IdleLimit, life.granted)

\* The local dial succeeded within its context; READY has a write deadline.
LocalDialed ==
    /\ end["connector"].at = "dial" /\ clock < due["inner"]
    /\ alive' = alive \cup {"local"}
    /\ Enter("connector", "ready")
    /\ UNCHANGED << carrier, clock, copy, life, carried >>

\* READY is out: copyPair takes the time, arms the guard on both connections
\* and starts its two copies.
ReadyWritten ==
    /\ end["connector"].at = "ready" /\ clock < due["inner"]
    /\ end' = [end EXCEPT !["connector"].at = "copy"]
    /\ life' = [life EXCEPT !.expires = In(life.granted), !.touched = clock]
    /\ due' = [due EXCEPT !["inner"] = In(GuardIdle),
                          !["local"] = In(GuardIdle)]
    /\ copy' = [d \in Directions |-> "read"]
    /\ UNCHANGED << carrier, clock, alive, carried >>

\* The client reads READY, also when the connector has moved on, and clears
\* its read deadline: the stream has none.
ReadyRead ==
    /\ end["client"].at = "ready" /\ clock < due["client"]
    /\ end["connector"].at \in {"copy", "drain"}
    /\ end' = [end EXCEPT !["client"].at = "copy"]
    /\ due' = [due EXCEPT !["client"] = Never]
    /\ UNCHANGED << carrier, clock, alive, copy, life, carried >>

\* A deadline passed, the peer or the relay closed, or the step failed: the
\* deferred closes of connectReady and serveInner.
PhaseFails(e) ==
    /\ end[e].at \in Waits
    /\ end' = [end EXCEPT ![e].at = "closed"]
    /\ alive' = alive \ (IF e = "client" THEN {"client"}
                                         ELSE {"inner", "local"})
    /\ UNCHANGED << carrier, clock, due, copy, life, carried >>

PhaseEnds(e) == clock >= due[Socket(e)] /\ PhaseFails(e)

-----------------------------------------------------------------------------
(* copyPair and its guard.                                                 *)

\* A copy reads payload.  Nothing is delivered at or after the connection's
\* deadline.
Reads(d) ==
    /\ copy[d] = "read" /\ Source(d) \in alive
    /\ clock < due[Source(d)]
    /\ copy' = [copy EXCEPT ![d] = "touch"]
    /\ carried' = [carried EXCEPT ![d] =
                     IF clock >= life.expires THEN @ + 1 ELSE @]
    /\ UNCHANGED << carrier, clock, end, due, alive, life >>

\* Mutant: the idle deadline is not capped by the absolute expiry.
TouchUncapped(d) ==
    /\ copy[d] = "touch"
    /\ due' = [due EXCEPT !["inner"] = In(GuardIdle),
                          !["local"] = In(GuardIdle)]
    /\ life' = [life EXCEPT !.touched = clock]
    /\ copy' = [copy EXCEPT ![d] = "write"]
    /\ UNCHANGED << carrier, clock, end, alive, carried >>

\* touch, under the guard's mutex: after the expiry the copy ends with what
\* it has read, before it both connections get one deadline.
Touch(d) ==
    /\ copy[d] = "touch"
    /\ IF clock >= life.expires
       THEN /\ copy' = [copy EXCEPT ![d] = "last"]
            /\ UNCHANGED << carrier, due, life >>
       ELSE /\ LET t == Minimum(In(GuardIdle), life.expires) IN
               due' = [due EXCEPT !["inner"] = t, !["local"] = t]
            /\ life' = [life EXCEPT !.touched = clock]
            /\ copy' = [copy EXCEPT ![d] = "write"]
    /\ UNCHANGED << carrier, clock, end, alive, carried >>

\* The payload is written out.
Writes(d) ==
    /\ copy[d] \in {"write", "last"} /\ Sink(d) \in alive
    /\ clock < due[Sink(d)]
    /\ copy' = [copy EXCEPT ![d] = IF @ = "last" THEN "done" ELSE "read"]
    /\ UNCHANGED << carrier, clock, end, due, alive, life, carried >>

\* The source ends, or a read or write meets a deadline or a closed
\* connection.
CopyEnds(d) ==
    /\ copy[d] \in {"read", "write", "last"}
    /\ copy' = [copy EXCEPT ![d] = "done"]
    /\ UNCHANGED << carrier, clock, end, due, alive, life, carried >>

CopyMustEnd(d) ==
    /\ LET c == IF copy[d] = "read" THEN Source(d) ELSE Sink(d) IN
       c \notin alive \/ clock >= due[c]
    /\ CopyEnds(d)

\* The first result: half-close, one drain deadline on both connections (a
\* later touch may move it) and a timer of its own.
StartDrain ==
    /\ end["connector"].at = "copy"
    /\ \E d \in Directions : copy[d] = "done"
    /\ end' = [end EXCEPT !["connector"] = [at |-> "drain",
                                            until |-> In(Drain)]]
    /\ due' = [due EXCEPT !["inner"] = In(Drain),
                          !["local"] = In(Drain)]
    /\ UNCHANGED << carrier, clock, alive, copy, life, carried >>

\* The second result, the drain timer or the end of the service's context.
DrainEnds ==
    /\ end["connector"].at = "drain"
    /\ \/ \A d \in Directions : copy[d] = "done"
       \/ clock >= end["connector"].until
    /\ end' = [end EXCEPT !["connector"].at = "closed"]
    /\ alive' = alive \ {"inner", "local"}
    /\ UNCHANGED << carrier, clock, due, copy, life, carried >>

\* context.AfterFunc: the service stops and closes both connections.
ServiceStops ==
    /\ end["connector"].at \in {"copy", "drain"}
    /\ alive' = alive \ {"inner", "local"}
    /\ UNCHANGED << carrier, clock, end, due, copy, life, carried >>

-----------------------------------------------------------------------------
(* The client's copySSH.                                                   *)

\* stdin is at its end: half-close and a bounded wait for the rest.
ClientInputEnds ==
    /\ end["client"].at = "copy"
    /\ end' = [end EXCEPT !["client"] = [at |-> "drain",
                                         until |-> In(Drain)]]
    /\ due' = [due EXCEPT !["client"] = In(Drain)]
    /\ UNCHANGED << carrier, clock, alive, copy, life, carried >>

\* The relay ends the client's carrier: because the connector has closed, or
\* on its own account.
CarrierEnds ==
    /\ end["client"].at \in {"copy", "drain"} /\ carrier # "ended"
    /\ carrier' = "ended"
    /\ UNCHANGED << clock, end, due, alive, copy, life, carried >>

\* The connector has closed and the relay does not pass it on.
CloseLost ==
    /\ end["client"].at \in {"copy", "drain"} /\ end["connector"].at = "closed"
    /\ carrier = "open"
    /\ carrier' = "silent"
    /\ UNCHANGED << clock, end, due, alive, copy, life, carried >>

\* Mutant: a stream whose carrier has ended waits for stdin as well.
ClientWaitsForInput ==
    /\ end["client"].at = "drain"
    /\ carrier = "ended" \/ clock >= end["client"].until
    /\ end' = [end EXCEPT !["client"].at = "closed"]
    /\ alive' = alive \ {"client"}
    /\ UNCHANGED << carrier, clock, due, copy, life, carried >>

\* The end of the stream, an error, or the drain timeout: Proxy closes and
\* returns.  While both copies run nothing but the carrier ends them.
ClientReturns ==
    /\ \/ end["client"].at \in {"copy", "drain"} /\ carrier = "ended"
       \/ end["client"].at = "drain" /\ clock >= end["client"].until
    /\ end' = [end EXCEPT !["client"].at = "closed"]
    /\ alive' = alive \ {"client"}
    /\ UNCHANGED << carrier, clock, due, copy, life, carried >>

\* Probe closes as soon as it is ready; so does an interrupted ssh.
ClientCloses ==
    /\ end["client"].at \in {"copy", "drain"}
    /\ end' = [end EXCEPT !["client"].at = "closed"]
    /\ alive' = alive \ {"client"}
    /\ UNCHANGED << carrier, clock, due, copy, life, carried >>

ClockTick ==
    /\ clock < MaxClock
    /\ clock' = clock + 1
    /\ UNCHANGED << carrier, end, due, alive, copy, life, carried >>

-----------------------------------------------------------------------------

DeadlineNext ==
    \/ \E e \in Ends : OuterDone(e) \/ RequestWritten(e) \/ PhaseFails(e)
    \/ InnerDone \/ LocalDialed \/ ReadyWritten \/ ReadyRead
    \/ \E d \in Directions : Reads(d) \/ Touch(d) \/ Writes(d) \/ CopyEnds(d)
    \/ StartDrain \/ DrainEnds \/ ServiceStops
    \/ ClientInputEnds \/ CarrierEnds \/ CloseLost
    \/ ClientReturns \/ ClientCloses
    \/ ClockTick

DeadlineSpec == DeadlineInit /\ [][DeadlineNext]_deadlineVars

\* Time passes, a call whose deadline has passed returns, and the goroutines
\* of both ends keep running.  Neither peer is assumed to do anything; the relay
\* passes the connector's close on or loses it.
ClientProceeds == PhaseEnds("client") \/ ClientReturns
ConnectorProceeds == PhaseEnds("connector") \/ StartDrain \/ DrainEnds
CopyProceeds(d) == Touch(d) \/ CopyMustEnd(d)
CloseTravels ==
    /\ end["connector"].at = "closed" /\ carrier = "open"
    /\ CarrierEnds \/ CloseLost
DeadlineFair ==
    /\ WF_deadlineVars(ClockTick) /\ WF_deadlineVars(ClientProceeds)
    /\ WF_deadlineVars(ConnectorProceeds) /\ WF_deadlineVars(CloseTravels)
    /\ \A d \in Directions : WF_deadlineVars(CopyProceeds(d))

-----------------------------------------------------------------------------
(* Properties.                                                             *)

\* While a session copies, its two connections share one deadline, no later
\* than the expiry of the authenticated session and no earlier than a full
\* idle period after the last payload; no deadline of the opening is left on
\* the client's stream; and payload that arrives after the expiry is carried
\* once per direction at most, inside the drain (sessionguard.go:52-68,
\* session.go:238-300, client.go:196-209).
DeadlinesHold ==
    /\ end["connector"].at = "copy" =>
         /\ due["inner"] = due["local"]
         /\ due["inner"] =
              Minimum(life.touched + GuardIdle, life.expires)
    /\ end["client"].at = "copy" => due["client"] = Never
    /\ \A d \in Directions : carried[d] <= 1

\* ARCHITECTURE.md:264-266: every connector session ends no later than the
\* client leaf's NotAfter.  So none whose two ends still copy is open to
\* payload after it.
EndsWithLeaf ==
    clock > LeafEnd /\ (\A e \in Ends : end[e].at = "copy")
      => clock >= due["inner"]

\* The connector's end of every session is over in the end, although both
\* peers and the relay may send for ever, stop answering at any point or never
\* close; so is the client's, unless it copies through a relay that is silent
\* for ever: after READY the client has no deadline and no timer of its own
\* (client.go:206, 243), and then only ssh or its user ends it.  This does not
\* hold for ever once time has passed.
Stranded == end["client"].at = "copy" /\ carrier = "silent"
StillOpen ==
    /\ clock > 0
    /\ end["connector"].at # "closed" \/ ~(end["client"].at = "closed" \/ Stranded)
=============================================================================
