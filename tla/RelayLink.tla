------------------------------ MODULE RelayLink ------------------------------
(***************************************************************************)
(* How an endpoint of the receiver-owned relay opens a carrier: endpoint   *)
(* .open with its pending guard (internal/pairrelay/client.go, pending.go) *)
(* as a receiver's Accept and inside a client's openClient, which adds an  *)
(* opening timer, the client operation lock, the token renewal and up to   *)
(* thirty dials (internal/pairruntime/client.go, client_lock.go).          *)
(*                                                                         *)
(* Two timers and the policy watcher race the steps of the opening and     *)
(* must leave a carrier alone once it has been handed over.  A timer's     *)
(* function runs in a goroutine of its own: it may have been started,      *)
(* which Stop reports, and not have acted yet.  The relay may stay silent  *)
(* at every step.  The content of client.json is its version: every write  *)
(* stores the record the opening read, changed.                            *)
(***************************************************************************)
EXTENDS Naturals, FiniteSets

CONSTANTS
    Opening,      \* the calls of openClient and of Accept on one tunnel
    Accepting,    \* those that are a receiver's Accept
    MaxDials,     \* dials of one openClient (30 in the code)
    MaxWrites     \* bound: writes of client.json

ASSUME LinkBounds ==
    /\ Accepting \subseteq Opening
    /\ MaxDials \in Nat \ {0} /\ MaxWrites \in Nat

VARIABLES
    open,      \* each opening: its step and what it holds
    link,      \* its dialled connections with their pending guards
    opLock,    \* the holder of client-operation.lock, {} or one opening
    record     \* the version of client.json

linkVars == << open, link, opLock, record >>

NoLink == [raw |-> "none", deadline |-> FALSE, guard |-> "off"]
Closed == [at |-> "idle", dial |-> 0, ctx |-> "live", budget |-> "off", read |-> 0]

LinkInit ==
    /\ open = [o \in Opening |-> Closed]
    /\ link = [o \in Opening |-> [n \in 1 .. MaxDials |-> NoLink]]
    /\ opLock = {}
    /\ record = 0

Cancelled(o) == open[o].ctx # "live"
Current(o) == link[o][open[o].dial]
SetLink(o, l) == link' = [link EXCEPT ![o][open[o].dial] = l]

\* timer.Stop: it wins unless the timer's function has been started.
Stopped(timer) == IF timer \in {"armed", "due"} THEN "stopped" ELSE timer

\* release and the deferred Stop and Close calls of openClient; for Accept
\* the caller returns to its loop.  A timer that fires later finds its own
\* context or connection ended; of the connections only one that nobody
\* closed would still count.
Releases(o, links) ==
    /\ open' = [open EXCEPT ![o] = Closed]
    /\ opLock' = opLock \ {o}
    /\ link' = [link EXCEPT ![o] =
                  [n \in 1 .. MaxDials |->
                     IF links[n].raw = "open" THEN links[n] ELSE NoLink]]

\* ... after closing the current connection.
Closes(o) == [link[o] EXCEPT ![open[o].dial].raw = "closed"]

-----------------------------------------------------------------------------
(* Before the dial.                                                        *)

\* openClient: admission, the policy watcher and the opening timer come
\* before the wait for the lock.
OpenClient(o) ==
    /\ o \notin Accepting /\ open[o].at = "idle"
    /\ open' = [open EXCEPT ![o] = [Closed EXCEPT !.at = "lock", !.budget = "armed"]]
    /\ UNCHANGED << link, opLock, record >>

\* clientOperationLock, then readClient.
TakeLock(o) ==
    /\ open[o].at = "lock" /\ ~Cancelled(o)
    /\ opLock = {}
    /\ opLock' = {o}
    /\ open' = [open EXCEPT ![o].at = "renew", ![o].read = record]
    /\ UNCHANGED << link, record >>

\* pause returns the cause of a cancelled context, before a lock, between two
\* token renewals or between two dials.
GiveUp(o) ==
    /\ open[o].at \in {"lock", "renew", "pause"}
    /\ Cancelled(o)
    /\ Releases(o, link[o])
    /\ UNCHANGED record

\* RenewToken answered, and the token (or, in renewClient before it, the new
\* credentials) is written with the rest of the record.
SaveRecord(o) ==
    /\ open[o].at = "renew" /\ ~Cancelled(o)
    /\ record < MaxWrites
    /\ record' = open[o].read + 1
    /\ open' = [open EXCEPT ![o].read = record']
    /\ UNCHANGED << link, opLock >>

\* The renewal is done or refused; only ErrTransport is tried again.  A
\* refused renewal leaves the old token to the dial.
StartDials(o) ==
    /\ open[o].at = "renew" /\ ~Cancelled(o)
    /\ open' = [open EXCEPT ![o].at = "pause"]
    /\ UNCHANGED << link, opLock, record >>

\* Accept of the receiver's loop, under the service's context.
Accept(o) ==
    /\ o \in Accepting /\ open[o].at = "idle"
    /\ open' = [open EXCEPT ![o] = [Closed EXCEPT !.at = "pause"]]
    /\ UNCHANGED << link, opLock, record >>

-----------------------------------------------------------------------------
(* endpoint.open.                                                          *)

\* Mutant: the bound of the pending phase is forgotten.
Unguarded == [raw |-> "open", deadline |-> FALSE, guard |-> "off"]

\* guardPendingOpen: a deadline on the raw connection and a timer that aborts
\* it.
Guarded == [raw |-> "open", deadline |-> TRUE, guard |-> "armed"]

\* openClient dials up to thirty times, Accept once.
DialsLeft(o) == open[o].dial < (IF o \in Accepting THEN 1 ELSE MaxDials)

\* The dial succeeds and the pending guard is armed.
Dial(o) ==
    /\ open[o].at = "pause" /\ ~Cancelled(o)
    /\ DialsLeft(o)
    /\ open' = [open EXCEPT ![o].at = "open", ![o].dial = @ + 1]
    /\ link' = [link EXCEPT ![o][open[o].dial + 1] = Guarded]
    /\ UNCHANGED << opLock, record >>

\* The dial fails, with a bounded delay when the relay asked for one.
DialFails(o) ==
    /\ open[o].at = "pause" /\ ~Cancelled(o)
    /\ DialsLeft(o)
    /\ open' = [open EXCEPT ![o].dial = @ + 1]
    /\ UNCHANGED << link, opLock, record >>

\* The last dial has failed.
LastDialFailed(o) ==
    /\ open[o].at = "pause" /\ ~DialsLeft(o)
    /\ Releases(o, link[o])
    /\ UNCHANGED record

\* The relay matched a peer: preface, outer TLS and READY are through.
Ready(o) ==
    /\ open[o].at = "open"
    /\ Current(o).raw = "open"
    /\ open' = [open EXCEPT ![o].at = "promote"]
    /\ UNCHANGED << link, opLock, record >>

\* fail: a write, the handshake or the read failed, because the relay hung up,
\* the deadline passed, the guard aborted the connection or the context ended.
OpenFails(o) ==
    /\ open[o].at = "open"
    /\ open' = [open EXCEPT ![o].at = "pause"]
    /\ SetLink(o, [Current(o) EXCEPT !.raw = "aborted",
                                     !.guard = Stopped(Current(o).guard)])
    /\ UNCHANGED << opLock, record >>

\* Nothing arrives any more: the read of a dead or late connection returns.
ReadEnds(o) ==
    /\ open[o].at = "open"
    /\ \/ Current(o).raw # "open"
       \/ Current(o).deadline /\ Current(o).guard \notin {"armed", "stopped"}
    /\ OpenFails(o)

\* Mutant: promote stops the timer and does not look at the result.
PromoteLinkUnchecked(o) ==
    /\ open[o].at = "promote"
    /\ SetLink(o, [Current(o) EXCEPT !.deadline = FALSE,
                                     !.guard = Stopped(Current(o).guard)])
    /\ open' = [open EXCEPT ![o].at = "session"]
    /\ UNCHANGED << opLock, record >>

\* promote: Stop must win and the deadline must not have passed.
PromoteLink(o) ==
    /\ open[o].at = "promote"
    /\ LET l == Current(o) IN
       IF l.guard = "armed"
       THEN /\ SetLink(o, [l EXCEPT !.deadline = FALSE, !.guard = "stopped"])
            /\ open' = [open EXCEPT ![o].at = "session"]
       ELSE /\ SetLink(o, [l EXCEPT !.raw = "aborted",
                                    !.guard = Stopped(l.guard)])
            /\ open' = [open EXCEPT ![o].at = "pause"]
    /\ UNCHANGED << opLock, record >>

-----------------------------------------------------------------------------
(* After the handover.                                                     *)

\* ClientSession: inner TLS, the lease and READY of the local dial; the
\* receiver's session has its own bounds and returns with its carrier.
SessionReady(o) ==
    /\ open[o].at = "session"
    /\ Current(o).raw = "open"
    /\ open' = [open EXCEPT ![o].at = IF o \in Accepting THEN "live"
                                                         ELSE "settle"]
    /\ UNCHANGED << link, opLock, record >>

\* The inner handshake or one of its ten-second waits fails.
SessionFails(o) ==
    /\ open[o].at = "session"
    /\ Releases(o, Closes(o))
    /\ UNCHANGED record

\* The opening timer must not survive into an established stream; if it won,
\* or the context has ended, this opening fails.
Settle(o) ==
    /\ open[o].at = "settle"
    /\ IF open[o].budget = "armed" /\ ~Cancelled(o)
       THEN /\ open' = [open EXCEPT ![o].at = "live", ![o].budget = "stopped"]
            /\ opLock' = opLock \ {o}
            /\ UNCHANGED link
       ELSE Releases(o, Closes(o))
    /\ UNCHANGED record

\* The stream is over: Proxy and Check close the carrier and call release.
StreamEnds(o) ==
    /\ open[o].at = "live"
    /\ Releases(o, Closes(o))
    /\ UNCHANGED record

-----------------------------------------------------------------------------
(* What happens meanwhile.                                                 *)

\* The pending deadline passes, the timer's function starts, and it aborts
\* its own connection, whatever that is by now.
GuardDue(o, n) ==
    /\ link[o][n].guard = "armed"
    /\ link' = [link EXCEPT ![o][n].guard = "due"]
    /\ UNCHANGED << open, opLock, record >>

GuardStarts(o, n) ==
    /\ link[o][n].guard = "due"
    /\ link' = [link EXCEPT ![o][n].guard = "fired"]
    /\ UNCHANGED << open, opLock, record >>

GuardAborts(o, n) ==
    /\ link[o][n].guard = "fired"
    /\ link' = [link EXCEPT ![o][n].guard = "done",
                            ![o][n].raw = "aborted"]
    /\ UNCHANGED << open, opLock, record >>

\* The opening budget is spent: cancelOpening in the timer's goroutine.
BudgetStarts(o) ==
    /\ open[o].budget = "armed"
    /\ open' = [open EXCEPT ![o].budget = "fired"]
    /\ UNCHANGED << link, opLock, record >>

BudgetCancels(o) ==
    /\ open[o].budget = "fired" /\ open[o].at # "idle"
    /\ open' = [open EXCEPT ![o].budget = "done",
                            ![o].ctx = IF @ = "live" THEN "opening" ELSE @]
    /\ UNCHANGED << link, opLock, record >>

\* The policy watcher, or the caller, ends the context.
PolicyCancels(o) ==
    /\ open[o].at # "idle" /\ ~Cancelled(o)
    /\ open' = [open EXCEPT ![o].ctx = "policy"]
    /\ UNCHANGED << link, opLock, record >>

\* The transport keeps the context: its end closes the connection.
ContextCloses(o) ==
    /\ Cancelled(o) /\ open[o].dial > 0
    /\ Current(o).raw = "open"
    /\ SetLink(o, [Current(o) EXCEPT !.raw = open[o].ctx])
    /\ UNCHANGED << open, opLock, record >>

-----------------------------------------------------------------------------

Timers(o) ==
    \/ BudgetStarts(o) \/ BudgetCancels(o) \/ ContextCloses(o)
    \/ \E n \in 1 .. MaxDials :
         GuardDue(o, n) \/ GuardStarts(o, n) \/ GuardAborts(o, n)

LinkSteps(o) ==
    \/ OpenClient(o) \/ TakeLock(o) \/ GiveUp(o) \/ SaveRecord(o)
    \/ StartDials(o) \/ Accept(o) \/ Dial(o) \/ DialFails(o)
    \/ LastDialFailed(o) \/ Ready(o) \/ OpenFails(o) \/ PromoteLink(o)
    \/ SessionReady(o) \/ SessionFails(o) \/ Settle(o) \/ StreamEnds(o)

LinkStep(o) == LinkSteps(o) \/ Timers(o) \/ PolicyCancels(o)

LinkNext == \E o \in Opening : LinkStep(o)

LinkSpec == LinkInit /\ [][LinkNext]_linkVars

\* What an opening does by itself: a pause ends, a read of a dead connection
\* returns, the bounded handshakes of a session end.
Proceeds(o) ==
    \/ GiveUp(o) \/ StartDials(o) \/ Dial(o) \/ DialFails(o)
    \/ LastDialFailed(o) \/ ReadEnds(o) \/ PromoteLink(o) \/ Settle(o)
    \/ SessionFails(o)

\* Openings proceed, timers fire and their goroutines run.  Nothing is assumed
\* of the relay, of the peer, of the local policy or of the caller.
LinkFair ==
    \A o \in Opening :
      /\ WF_linkVars(Proceeds(o)) /\ WF_linkVars(ContextCloses(o))
      /\ WF_linkVars(BudgetStarts(o) \/ BudgetCancels(o))
      /\ \A n \in 1 .. MaxDials :
           WF_linkVars(GuardDue(o, n) \/ GuardStarts(o, n) \/ GuardAborts(o, n))

-----------------------------------------------------------------------------
(* Properties.                                                             *)

\* A carrier that was handed to the caller is touched by no timer of its
\* opening: no pending guard, deadline or opening budget is left to end it
\* (pending.go:37-42, client.go:484-490).
HandoverClean ==
    \A o \in Opening : open[o].at = "live" =>
      /\ Current(o).guard = "stopped" /\ ~Current(o).deadline
      /\ Current(o).raw \in {"open", "policy"}
      /\ open[o].budget \notin {"armed", "fired", "done"}

\* An opening that ended without a carrier keeps nothing: no connection stays
\* open, and an earlier dial of a running opening is closed too.
NothingLeft ==
    \A o \in Opening, n \in 1 .. MaxDials :
      link[o][n].raw = "open" =>
        n = open[o].dial /\ open[o].at \in {"open", "promote", "session",
                                            "settle", "live"}

\* What an opening writes into client.json builds on what is there: no
\* concurrent start of SSH loses the other's token or credentials.
RecordFresh ==
    \A o \in Opening \ Accepting :
      open[o].at \in {"renew", "pause", "open", "promote", "session", "settle"}
        => open[o].read = record /\ opLock = {o}

LinkSound == HandoverClean /\ NothingLeft /\ RecordFresh

\* Every opening ends, with a carrier or without one, although the relay and
\* the peer may be silent for ever: a receiver's by the pending guard alone,
\* a client's by the opening budget, also while it waits for the lock.  So
\* this holds of no opening for ever.
StillOpening(o) == open[o].at \notin {"idle", "live"}
=============================================================================
