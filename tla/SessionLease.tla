--------------------------- MODULE SessionLease ---------------------------
(***************************************************************************)
(* The authorization lease inside one authenticated session of a pair      *)
(* (internal/leasewire/conn.go) with the session code around it            *)
(* (internal/pairruntime/session.go): the receiver dials SSH only for a    *)
(* ready lease, and the client forwards only after the receiver's READY.   *)
(*                                                                         *)
(* Each endpoint runs a reader, a writer, an expiry watcher and a policy   *)
(* poller over one ordered byte stream, which the relay may delay for as   *)
(* long as it likes or cut.  A host may be suspended (its monotonic clock  *)
(* stands still) or have its wall clock stepped back, each time by less    *)
(* than clockLocked tolerates; every deadline is kept on both clocks.      *)
(* Frames carry only what a check reads: a nonce is the number of its      *)
(* challenge.  The frame encoding, the context digest and TLS itself are   *)
(* left out, and kindLock, which this code never sends.                    *)
(***************************************************************************)
EXTENDS Integers, Sequences

CONSTANTS
    Lease,           \* LeaseDuration of the client and of the receiver
    Renew,           \* RenewEvery of both
    MaxNow,          \* bound: the last instant
    MaxChallenges,   \* bound: challenges an endpoint issues
    MaxBytes,        \* bound: data frames the client's application sends
    MaxDisturbance,  \* bound: suspends or clock steps of one host
    WireCapacity,    \* frames the transport takes before a write blocks
    ControlCapacity  \* capacity of the control queue

Ends == {"client", "receiver"}
Peer(e) == IF e = "client" THEN "receiver" ELSE "client"

ASSUME LeaseBounds == /\ Lease \in [Ends -> Nat] /\ Renew \in [Ends -> Nat]
                      /\ \A e \in Ends : Renew[e] \in 1 .. Lease[e] - 1
                      /\ WireCapacity \in Nat \ {0}
                      /\ ControlCapacity \in Nat \ {0, 1}
                      /\ {MaxNow, MaxChallenges, MaxBytes, MaxDisturbance} \subseteq Nat

VARIABLES
    now,         \* real time
    denier,      \* the end whose host was locked; the other is to be cut off
    lockedAt,    \* when its durable policy was locked
    disturbed,   \* the end whose host's clock was disturbed, and which clock
    skew,        \* by how much that clock is behind
    conn,        \* the connection of each end and what its loops hold
    frames,        \* frames on their way from each end to its peer
    app,         \* the session code above each connection
    lastUse      \* after the lock: when the other last handed over DATA

leaseVars == << now, denier, lockedAt, disturbed, skew, conn, frames, app,
                lastUse >>

Zero == [m |-> 0, w |-> 0]
NoFrame == [kind |-> "none", nonce |-> 0, span |-> 0]
DataFrame == [NoFrame EXCEPT !.kind = "data"]
Start == 1 + MaxDisturbance   \* no clock reads zero

\* err: "none", "stopped", or "protocol" for ErrProtocol.
NewConn == [err |-> "none", initial |-> Zero, lease |-> Zero,
            issued |-> Zero, next |-> Zero, pending |-> FALSE, nonce |-> 0,
            peerNonce |-> 0, grantSent |-> FALSE, ready |-> FALSE,
            control |-> << >>, writes |-> 0, writing |-> NoFrame,
            sent |-> FALSE, holding |-> FALSE, data |-> 0]

-----------------------------------------------------------------------------
(* Clocks and authority.                                                   *)

Clock(e) ==
    [m |-> now - (IF disturbed = [host |-> e, clock |-> "m"] THEN skew ELSE 0),
     w |-> now - (IF disturbed = [host |-> e, clock |-> "w"] THEN skew ELSE 0)]

Plus(t, d) == [m |-> t.m + d, w |-> t.w + d]

\* Mutant: the deadline is kept on the monotonic clock only.
ReachedMonotonic(e, t) == Clock(e).m >= t.m

\* Either clock may expire authority.
Reached(e, t) == Clock(e).m >= t.m \/ Clock(e).w >= t.w

Deadline(e) == IF conn[e].lease = Zero THEN conn[e].initial ELSE conn[e].lease

\* liveLocked.
Live(e) == conn[e].err = "none" /\ ~Reached(e, Deadline(e))

\* checkPolicy: the durable flag is read by the poller, reader and writer.
Permitted(e) == e # denier

\* authorized.
Authorized(e) == Live(e) /\ conn[e].ready /\ conn[e].lease # Zero

\* stop: the first reason stays, and what the loops hold is discarded.
Stop(e, why) == conn' = [conn EXCEPT ![e] = [NewConn EXCEPT !.err = why]]

\* A failed check stops the connection; authorized() calls a live but unready
\* connection a protocol error.
StopUnauthorized(e) == Stop(e, IF Live(e) THEN "protocol" ELSE "stopped")

MarkReady(c) == [c EXCEPT !.ready = @ \/ (c.grantSent /\ c.lease # Zero)]

-----------------------------------------------------------------------------
(* The watcher, the poller and the writer.                                 *)

Challenge(e, n) == [kind |-> "challenge", nonce |-> n, span |-> Lease[e]]

Issue(e, c) ==
    [c EXCEPT !.pending = TRUE, !.nonce = @ + 1, !.issued = Clock(e),
              !.next = Plus(Clock(e), Renew[e]),
              !.control = Append(@, Challenge(e, c.nonce + 1))]

\* wrapWithClock on an unlocked host, at both ends when the handshake is done:
\* the first challenge is queued before the loops start.
Wrapped(e) ==
    LET start == [m |-> Start, w |-> Start] IN
    [NewConn EXCEPT !.initial = Plus(start, Lease[e]), !.issued = start,
                    !.next = Plus(start, Renew[e]), !.pending = TRUE,
                    !.nonce = 1, !.control = << Challenge(e, 1) >>]

LeaseInit ==
    /\ now = Start
    /\ denier = "nobody"
    /\ lockedAt = 0
    /\ disturbed = [host |-> "nobody", clock |-> "none"]
    /\ skew = 0
    /\ conn = [e \in Ends |-> Wrapped(e)]
    /\ frames = [e \in Ends |-> << >>]
    /\ app = [e \in Ends |-> [at |-> "wait", left |-> MaxBytes]]
    /\ lastUse = 0

RenewDue(e) == ~conn[e].pending /\ Reached(e, conn[e].next)

\* watchLoop with beginChallenge: a due renewal issues one challenge.
WatchRenews(e) ==
    /\ Live(e)
    /\ RenewDue(e)
    /\ conn[e].nonce < MaxChallenges
    /\ IF Len(conn[e].control) < ControlCapacity
       THEN conn' = [conn EXCEPT ![e] = Issue(e, @)]
       ELSE Stop(e, "protocol")
    /\ UNCHANGED << now, denier, lockedAt, disturbed, skew, frames, app, lastUse >>

\* The watcher finds the deadline passed or the clocks apart by more than
\* clockTolerance, the poller finds the policy locked, or the stream ended.
Stops(e) ==
    /\ conn[e].err = "none"
    /\ Stop(e, "stopped")
    /\ UNCHANGED << now, denier, lockedAt, disturbed, skew, frames, app, lastUse >>

\* writeLoop before the write: the policy, and for DATA the authorization.
WriterMay(e, f) ==
    Permitted(e) /\ IF f.kind = "data" THEN Authorized(e) ELSE Live(e)

\* Controls are preferred, but a select may still draw a waiting DATA frame.
Takeable(e) ==
    (IF conn[e].control = << >> THEN {} ELSE {Head(conn[e].control)})
    \cup (IF conn[e].writes = 0 THEN {} ELSE {DataFrame})

WriterTakes(e) ==
    /\ conn[e].err = "none"
    /\ conn[e].writing = NoFrame
    /\ \E f \in Takeable(e) :
         IF ~WriterMay(e, f)
         THEN Stop(e, IF f.kind = "data" /\ Permitted(e) /\ Live(e)
                      THEN "protocol" ELSE "stopped")
         ELSE conn' = [conn EXCEPT ![e].writing = f,
                                   ![e].control = IF f.kind = "data" THEN @
                                                  ELSE Tail(@)]
    /\ UNCHANGED << now, denier, lockedAt, disturbed, skew, frames, app, lastUse >>

\* What the writer holds when a frame has left: a grant is not done yet.
Written(c) ==
    CASE c.writing.kind = "grant" -> [c EXCEPT !.sent = TRUE]
      [] c.writing.kind = "data"  -> [c EXCEPT !.writing = NoFrame, !.writes = 0]
      [] OTHER                    -> [c EXCEPT !.writing = NoFrame]

\* raw.Write: bytes leave while the transport takes them, and the write
\* deadline is the lease's.
WriterPuts(e) ==
    /\ conn[e].err = "none"
    /\ conn[e].writing # NoFrame /\ ~conn[e].sent
    /\ IF Reached(e, Deadline(e))
       THEN Stop(e, "stopped") /\ UNCHANGED frames
       ELSE /\ Len(frames[e]) < WireCapacity
            /\ frames' = [frames EXCEPT ![e] = Append(@, conn[e].writing)]
            /\ conn' = [conn EXCEPT ![e] = Written(@)]
    /\ UNCHANGED << now, denier, lockedAt, disturbed, skew, app, lastUse >>

\* Mutant: readiness is looked at only when a grant arrives.
WriterRecordsOnly(e) ==
    /\ conn[e].err = "none" /\ conn[e].sent
    /\ conn' = [conn EXCEPT ![e] = [@ EXCEPT !.grantSent = TRUE,
                                            !.writing = NoFrame,
                                            !.sent = FALSE]]
    /\ UNCHANGED << now, denier, lockedAt, disturbed, skew, frames, app, lastUse >>

\* Only after the write has returned is the grant recorded as sent: the peer
\* may have acted on it by then.
WriterRecords(e) ==
    /\ conn[e].err = "none" /\ conn[e].sent
    /\ conn' = [conn EXCEPT ![e] = MarkReady([@ EXCEPT !.grantSent = TRUE,
                                                      !.writing = NoFrame,
                                                      !.sent = FALSE])]
    /\ UNCHANGED << now, denier, lockedAt, disturbed, skew, frames, app, lastUse >>

-----------------------------------------------------------------------------
(* The reader.                                                             *)

Least(a, b) == IF a < b THEN a ELSE b

\* receiveControl of a challenge: a repeated nonce is an error, and the peer's
\* request is granted up to the local limit.
AnswersChallenge(e, f) ==
    IF f.nonce = conn[e].peerNonce \/ Len(conn[e].control) >= ControlCapacity
    THEN Stop(e, "protocol")
    ELSE conn' = [conn EXCEPT
                    ![e].peerNonce = f.nonce,
                    ![e].control = Append(@, [kind |-> "grant",
                                              nonce |-> f.nonce,
                                              span |-> Least(f.span, Lease[e])])]

\* The deadline was fixed when the challenge was issued.
LeaseFrom(e, f) == Plus(conn[e].issued, f.span)

\* receiveControl of a grant.  A grant that arrives after its own deadline is
\* ErrProtocol in the code too; it is told apart here, for it is the relay's
\* delay and not a fault of either program.
TakesGrant(e, f) ==
    IF ~conn[e].pending \/ f.nonce # conn[e].nonce \/ f.span > Lease[e]
    THEN Stop(e, "protocol")
    ELSE IF Reached(e, LeaseFrom(e, f)) THEN Stop(e, "stopped")
    ELSE LET c == conn[e]
             third == Plus(c.issued, f.span \div 3) IN
         conn' = [conn EXCEPT ![e] =
                    MarkReady([c EXCEPT
                      !.lease = LeaseFrom(e, f), !.pending = FALSE,
                      !.next = IF third.m < c.next.m THEN third ELSE c.next])]

\* receiveControl.  observePeer may also fail, when RecordPeerFloor finds
\* policy.lock busy (store.go:114): that is among Stops.
ReadControl(e) ==
    /\ conn[e].err = "none" /\ ~conn[e].holding
    /\ frames[Peer(e)] # << >>
    /\ LET f == Head(frames[Peer(e)]) IN
       /\ f.kind # "data"
       /\ IF ~(Permitted(e) /\ Live(e)) THEN Stop(e, "stopped")
          ELSE IF f.kind = "challenge" THEN AnswersChallenge(e, f)
          ELSE TakesGrant(e, f)
    /\ frames' = [frames EXCEPT ![Peer(e)] = Tail(@)]
    /\ UNCHANGED << now, denier, lockedAt, disturbed, skew, app, lastUse >>

\* DATA before a lease is a protocol error ...
HaveLease(e) == conn[e].lease # Zero

ReadData(e) ==
    /\ conn[e].err = "none" /\ ~conn[e].holding
    /\ frames[Peer(e)] # << >>
    /\ Head(frames[Peer(e)]).kind = "data"
    /\ frames' = [frames EXCEPT ![Peer(e)] = Tail(@)]
    /\ CASE ~Permitted(e) -> Stop(e, "stopped")
         [] Permitted(e) /\ ~HaveLease(e) -> Stop(e, "protocol")
         [] OTHER -> conn' = [conn EXCEPT ![e].holding = TRUE]
    /\ UNCHANGED << now, denier, lockedAt, disturbed, skew, app, lastUse >>

\* ... and DATA that overtakes the local writer's bookkeeping waits for it.
ReaderAdmits(e) ==
    /\ conn[e].err = "none" /\ conn[e].holding
    /\ conn[e].ready
    /\ IF Authorized(e)
       THEN conn' = [conn EXCEPT ![e].holding = FALSE, ![e].data = @ + 1]
       ELSE StopUnauthorized(e)
    /\ UNCHANGED << now, denier, lockedAt, disturbed, skew, frames, app, lastUse >>

-----------------------------------------------------------------------------
(* The session above the connection.                                       *)

\* authenticate returned a ready lease: the receiver dials its SSH server,
\* the client waits for READY.
SessionReady(e) ==
    /\ app[e].at = "wait"
    /\ Authorized(e)
    /\ app' = [app EXCEPT ![e].at = IF e = "receiver" THEN "dial" ELSE "hello"]
    /\ UNCHANGED << now, denier, lockedAt, disturbed, skew, conn, frames, lastUse >>

\* serveSession: the dial took time, so the lease is checked again before
\* READY is written.
SshDialed(e) ==
    /\ app[e].at = "dial"
    /\ conn[e].err = "none"
    /\ IF Authorized(e)
       THEN /\ app' = [app EXCEPT ![e].at = "open"]
            /\ conn' = [conn EXCEPT ![e].writes = 1]
       ELSE StopUnauthorized(e) /\ UNCHANGED app
    /\ UNCHANGED << now, denier, lockedAt, disturbed, skew, frames, lastUse >>

\* Conn.Read: authorization is checked when the bytes are handed over.
AppReads(e) ==
    /\ conn[e].err = "none"
    /\ conn[e].data > 0
    /\ app[e].at \in {"hello", "open"}
    /\ IF Authorized(e)
       THEN /\ conn' = [conn EXCEPT ![e].data = @ - 1]
            /\ lastUse' = IF denier = Peer(e) THEN now ELSE lastUse
            /\ app' = [app EXCEPT ![e].at = "open"]
       ELSE StopUnauthorized(e) /\ UNCHANGED << lastUse, app >>
    /\ UNCHANGED << now, denier, lockedAt, disturbed, skew, frames >>

\* Conn.Write of the client's copy loop: waitWritable, then submitData.
AppWrites(e) ==
    /\ e = "client"
    /\ conn[e].err = "none"
    /\ app[e].at = "open" /\ app[e].left > 0
    /\ conn[e].writes = 0
    /\ IF Authorized(e)
       THEN /\ conn' = [conn EXCEPT ![e].writes = 1]
            /\ app' = [app EXCEPT ![e].left = @ - 1]
       ELSE StopUnauthorized(e) /\ UNCHANGED app
    /\ UNCHANGED << now, denier, lockedAt, disturbed, skew, frames, lastUse >>

\* Done closed: the SSH socket and the copy loops go with the connection.
SessionCloses(e) ==
    /\ conn[e].err \in {"stopped", "protocol"}
    /\ app[e].at # "closed"
    /\ app' = [app EXCEPT ![e] = [at |-> "closed", left |-> 0]]
    /\ UNCHANGED << now, denier, lockedAt, disturbed, skew, conn, frames, lastUse >>

-----------------------------------------------------------------------------
(* Hosts.                                                                  *)

\* The durable policy is locked by a command of the host (SetLocked).  The
\* lease of the other end depends on its own clocks only, so the disturbed
\* host and the locked host are different ones.
LockHost(e) ==
    /\ denier = "nobody"
    /\ disturbed.host # e
    /\ denier' = e
    /\ lockedAt' = now
    /\ UNCHANGED << now, disturbed, skew, conn, frames, app, lastUse >>

\* One clock of one host falls behind by one: a suspend stops the monotonic
\* clock (m), an adjustment steps the wall clock (w) back.
Disturb(e, clock) ==
    /\ skew < MaxDisturbance
    /\ e # denier
    /\ disturbed \in {[host |-> "nobody", clock |-> "none"],
                      [host |-> e, clock |-> clock]}
    /\ disturbed' = [host |-> e, clock |-> clock]
    /\ skew' = skew + 1

Tick ==
    /\ now < MaxNow
    /\ now' = now + 1
    /\ \/ UNCHANGED << disturbed, skew >>
       \/ \E e \in Ends : Disturb(e, "m")
    /\ UNCHANGED << denier, lockedAt, conn, frames, app, lastUse >>

StepBack(e) ==
    /\ Disturb(e, "w")
    /\ UNCHANGED << now, denier, lockedAt, conn, frames, app, lastUse >>

\* writeLoop: one goroutine
WriterLoop(e) == WriterTakes(e) \/ WriterPuts(e) \/ WriterRecords(e)

Loops(e) ==
    \/ WatchRenews(e) \/ Stops(e)
    \/ WriterLoop(e) \/ ReadControl(e) \/ ReadData(e) \/ ReaderAdmits(e)
    \/ SessionReady(e) \/ SshDialed(e) \/ AppReads(e) \/ AppWrites(e)
    \/ SessionCloses(e)

LeaseNext ==
    \/ \E e \in Ends : Loops(e) \/ LockHost(e) \/ StepBack(e)
    \/ Tick

LeaseSpec == LeaseInit /\ [][LeaseNext]_leaseVars

-----------------------------------------------------------------------------
(* Properties.                                                             *)

\* After one host locked its policy, the other hands over no more DATA once
\* its own lease duration has passed in real time, whatever the relay delays
\* or drops and although one of its two clocks stands still or is stepped
\* back (conn.go:174-176, 206-224, 351-359).
CutoffBound ==
    lastUse > 0 => lastUse < lockedAt + Lease[Peer(denier)]

\* Two correct programs never stop each other as protocol offenders: DATA
\* never overtakes the grant that allows it although the grant is recorded
\* only after it left (conn.go:393-408), no challenge is answered twice, and
\* the four-place control queue never fills (conn.go:271-279).
NoProtocolFault == \A e \in Ends : conn[e].err # "protocol"

\* The two invariants of a session, honest or disturbed.
LeaseHolds == CutoffBound /\ NoProtocolFault

\* The two ends never wait for each other: once every control has been sent and
\* read, both ends are ready, or one of them has stopped (writeLoop and
\* receiveControl both look at readiness, conn.go:240-245, 366, 461).
NeverStalls ==
    (\A e \in Ends : /\ conn[e].err = "none" /\ conn[e].writing = NoFrame
                     /\ conn[e].control = << >> /\ frames[e] = << >>)
    => \A e \in Ends : conn[e].ready
=============================================================================
