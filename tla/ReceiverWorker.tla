--------------------------- MODULE ReceiverWorker ---------------------------
(***************************************************************************)
(* The unprivileged worker of a Target: serveReceiver with its setup       *)
(* loop, the goroutine that answers pairing requests, the loop that keeps  *)
(* one warm leg at the relay and the sessions it starts, under a semaphore *)
(* of four (internal/pairruntime/worker.go).  It reaches its state only    *)
(* through the authority process, which answers one call at a time         *)
(* (ServeAgent, ReceiverBackend), so a call of the agent is one step.      *)
(*                                                                         *)
(* The relay is what its clients see of it: it may be unreachable or       *)
(* restart, approve the route again or remove it.  A token stands for the  *)
(* local approval it descends from; a renewal keeps that and changes only  *)
(* validity, which is left out, as are the leaves that Snapshot refreshes  *)
(* in the same call.  Waits between retries are steps that may be late.    *)
(***************************************************************************)
EXTENDS Naturals, FiniteSets

CONSTANTS
    Slots,           \* the capacity of the semaphore (4 in the code)
    MaxApprovals,    \* bound: approvals of the route at the relay
    MaxGenerations   \* bound: credential generations of the paired client

ASSUME WorkerBounds ==
    Slots \in Nat \ {0} /\ MaxApprovals \in Nat /\ MaxGenerations \in Nat

NoToken == 0

VARIABLES
    stored,     \* receiver.json's token, the authority's generation and
                \* whether pair-offer.json was made
    relay,      \* what the relay holds for this route
    proc,       \* the main loop and the pairing goroutine: step and locals
    sem,        \* places taken in the semaphore
    sessions,   \* sessions served: the slot, the peer's and our generation
    matched,    \* the generation of the client our leg was matched with
    client,     \* the generation the paired client holds
    denied,     \* the local policy is locked
    cancelled   \* the worker's context has ended

workerVars == << stored, relay, proc, sem, sessions, matched, client, denied,
                 cancelled >>

Loops == {"main", "pair"}
IdleLoop == [at |-> "off", token |-> NoToken, scope |-> 0]

WorkerInit ==
    \* A receiver created with --legacy-codes has no pair-offer.json.
    /\ stored \in [token : {NoToken}, paired : {0}, offer : BOOLEAN]
    /\ relay = [up |-> TRUE, offered |-> FALSE, registered |-> NoToken,
                approvals |-> 0, cutoff |-> 0, leg |-> FALSE]
    /\ proc = [p \in Loops |->
                 IF p = "main" THEN [IdleLoop EXCEPT !.at = "start"]
                                ELSE IdleLoop]
    /\ sem = 0
    /\ sessions = {}
    /\ matched = 0
    /\ client = 0
    /\ denied = FALSE
    /\ cancelled = FALSE

\* Mutant: Snapshot hands out the pairing offer of a paired receiver too.
PendingOfferAlways == TRUE

\* Snapshot attaches pair-offer.json, where there is one, only while no
\* client is paired.
PendingOffer == stored.paired = 0 /\ stored.offer

\* checkAdmissionLocked: a token issued before the removal stays refused.
TokenAdmitted(t) == t > relay.cutoff

Goto(p, at) == proc' = [proc EXCEPT ![p].at = at]

\* Where a loop goes on after publish failed: setup publishes again what it
\* holds, the pairing goroutine takes a new Snapshot.
Again(p) == IF p = "main" THEN "publish" ELSE "snap"

-----------------------------------------------------------------------------
(* Calls of either loop: publish and the calls it makes.                   *)

\* publishOffer: nothing of a removed route, and with a token only the exact
\* current registration.
Removed == relay.cutoff # 0 /\ relay.cutoff = relay.approvals
Accepts(t) ==
    /\ relay.up /\ ~Removed
    /\ t # NoToken => TokenAdmitted(t) /\ relay.registered \in {NoToken, t}

\* The relay acknowledged the offer and, with a token, restored the
\* registration; without an offer the bare advertisement is published, which
\* happens only before there is a token.  Ready is announced after the first
\* publication of a start.
PublishDone(p, next) ==
    /\ proc[p].at = "publish" /\ ~cancelled
    /\ Accepts(proc[p].token)
    /\ relay' = [relay EXCEPT !.offered = TRUE,
                              !.registered = IF proc[p].token = NoToken THEN @
                                             ELSE proc[p].token]
    /\ Goto(p, next)
    /\ UNCHANGED << stored, sem, sessions, matched, client, denied, cancelled >>

\* A refusal, not an unreachable relay: a local re-approval may have replaced
\* the token, which FetchRegistration returns.
Replaceable(p) == relay.up /\ PendingOffer /\ proc[p].token # NoToken

PublishRefused(p) ==
    /\ proc[p].at = "publish" /\ ~cancelled
    /\ ~Accepts(proc[p].token) /\ Replaceable(p)
    /\ Goto(p, "fetch")
    /\ UNCHANGED << stored, relay, sem, sessions, matched, client, denied,
                    cancelled >>

\* Any other failure is tried again, in setup without a trace.
PublishFails(p) ==
    /\ proc[p].at = "publish" /\ ~cancelled
    /\ ~Accepts(proc[p].token) /\ ~Replaceable(p)
    /\ Goto(p, Again(p))
    /\ UNCHANGED << stored, relay, sem, sessions, matched, client, denied,
                    cancelled >>

\* FetchRegistration: the registration of exactly this advertisement.
Deliverable ==
    relay.up /\ relay.registered # NoToken /\ TokenAdmitted(relay.registered)

Fetched(p) ==
    /\ proc[p].at = "fetch" /\ ~cancelled
    /\ Deliverable
    /\ proc' = [proc EXCEPT ![p].at = "save", ![p].token = relay.registered]
    /\ UNCHANGED << stored, relay, sem, sessions, matched, client, denied,
                    cancelled >>

FetchFails(p) ==
    /\ proc[p].at = "fetch" /\ ~cancelled
    /\ ~Deliverable
    /\ Goto(p, Again(p))
    /\ UNCHANGED << stored, relay, sem, sessions, matched, client, denied,
                    cancelled >>

\* SaveToken of the agent: receiver.json is read and written in one call.
SaveToken(p, next) ==
    /\ proc[p].at = "save"
    /\ stored' = [stored EXCEPT !.token = proc[p].token]
    /\ Goto(p, next)
    /\ UNCHANGED << relay, sem, sessions, matched, client, denied, cancelled >>

\* The agent could not write it.  Inside publish that is one more failed
\* publication; the first token of a setup and a renewed one end the worker.
SaveFails(p) ==
    /\ proc[p].at = "save"
    /\ IF p = "main" /\ (stored.token = NoToken \/ proc["pair"].at # "off")
       THEN Goto(p, "drain") /\ cancelled' = TRUE
       ELSE /\ proc' = [proc EXCEPT ![p].at = Again(p), ![p].token = stored.token]
            /\ UNCHANGED cancelled
    /\ UNCHANGED << stored, relay, sem, sessions, matched, client, denied >>

-----------------------------------------------------------------------------
(* Setup: until the relay has the offer and the Target a token.            *)

\* The first Snapshot.  A registered receiver without an offer needs no
\* publication to reconnect.
Start ==
    /\ proc["main"].at = "start"
    /\ IF stored.token = NoToken \/ PendingOffer
       THEN proc' = [proc EXCEPT !["main"] =
                       [@ EXCEPT !.at = "publish", !.token = stored.token]]
       ELSE proc' = [proc EXCEPT !["main"].at = "snap", !["pair"].at = "snap"]
    /\ UNCHANGED << stored, relay, sem, sessions, matched, client, denied,
                    cancelled >>

\* Mutant: setup republishes its offer and never asks for the registration.
SetupNeverFetches ==
    /\ proc["main"].at = "setup" /\ ~cancelled
    /\ proc' = IF proc["main"].token = NoToken
               THEN [proc EXCEPT !["main"].at = "publish"]
               ELSE [proc EXCEPT !["main"].at = "snap", !["pair"].at = "snap"]
    /\ UNCHANGED << stored, relay, sem, sessions, matched, client, denied,
                    cancelled >>

\* Setup has its token: the pairing goroutine starts, the main loop begins.
Setup ==
    /\ proc["main"].at = "setup" /\ ~cancelled
    /\ proc' = IF proc["main"].token = NoToken
               THEN [proc EXCEPT !["main"].at = "fetch"]
               ELSE [proc EXCEPT !["main"].at = "snap", !["pair"].at = "snap"]
    /\ UNCHANGED << stored, relay, sem, sessions, matched, client, denied,
                    cancelled >>

SetupLoop ==
    \/ Start \/ Setup
    \/ PublishDone("main", "setup") \/ PublishRefused("main")
    \/ Fetched("main") \/ FetchFails("main")
    \/ /\ proc["pair"].at = "off"
       /\ SaveToken("main", IF stored.token = NoToken THEN "setup" ELSE "publish")

-----------------------------------------------------------------------------
(* The pairing goroutine.                                                  *)

PairSnapshot ==
    /\ proc["pair"].at = "snap" /\ ~cancelled
    /\ proc' = [proc EXCEPT !["pair"] =
                  [@ EXCEPT !.at = IF PendingOffer THEN "publish" ELSE "accept",
                            !.token = stored.token]]
    /\ UNCHANGED << stored, relay, sem, sessions, matched, client, denied,
                    cancelled >>

\* AcceptPairing: an authenticated request is answered by Exchange, which
\* claims the pairing or renews the credentials; the answer may be lost.
Exchange ==
    /\ proc["pair"].at = "accept" /\ ~cancelled
    /\ relay.up /\ TokenAdmitted(proc["pair"].token)
    /\ ~denied
    /\ stored.paired < MaxGenerations
    /\ stored' = [stored EXCEPT !.paired = @ + 1]
    /\ client' \in {client, stored'.paired}
    /\ Goto("pair", "snap")
    /\ UNCHANGED << relay, sem, sessions, matched, denied, cancelled >>

\* The 25 seconds passed, the leg was refused or lost, or the exchange failed.
PairAcceptEnds ==
    /\ proc["pair"].at = "accept"
    /\ Goto("pair", "snap")
    /\ UNCHANGED << stored, relay, sem, sessions, matched, client, denied,
                    cancelled >>

PairLoop ==
    \/ PairSnapshot \/ PairAcceptEnds
    \/ PublishDone("pair", "accept") \/ PublishRefused("pair")
    \/ PublishFails("pair")
    \/ Fetched("pair") \/ FetchFails("pair") \/ SaveToken("pair", "publish")

-----------------------------------------------------------------------------
(* The main loop: one warm leg and the sessions it becomes.                *)

\* The loop waits while no client is paired.
Snapshot ==
    /\ proc["main"].at = "snap" /\ ~cancelled
    /\ stored.paired # 0
    /\ proc' = [proc EXCEPT !["main"] = [at |-> "renew", token |-> stored.token,
                                         scope |-> stored.paired]]
    /\ UNCHANGED << stored, relay, sem, sessions, matched, client, denied,
                    cancelled >>

\* RenewToken: the relay reissues the claims of an admitted token.
TokenRenewed ==
    /\ proc["main"].at = "renew" /\ ~cancelled
    /\ relay.up /\ TokenAdmitted(proc["main"].token)
    /\ Goto("main", "save")
    /\ UNCHANGED << stored, relay, sem, sessions, matched, client, denied,
                    cancelled >>

\* Any refusal leaves the old token to the runtime leg; an unreachable relay
\* is not dialled a second time.
RenewFails ==
    /\ proc["main"].at = "renew" /\ ~cancelled
    /\ Goto("main", IF relay.up THEN "slot" ELSE "snap")
    /\ UNCHANGED << stored, relay, sem, sessions, matched, client, denied,
                    cancelled >>

TakeSlot ==
    /\ proc["main"].at = "slot" /\ ~cancelled
    /\ sem < Slots
    /\ sem' = sem + 1
    /\ Goto("main", "accept")
    /\ UNCHANGED << stored, relay, sessions, matched, client, denied,
                    cancelled >>

\* The leg is queued at the relay ...
AcceptQueued ==
    /\ proc["main"].at = "accept" /\ ~cancelled
    /\ relay.up /\ ~relay.leg /\ TokenAdmitted(proc["main"].token)
    /\ relay' = [relay EXCEPT !.leg = TRUE]
    /\ UNCHANGED << stored, proc, sem, sessions, matched, client, denied,
                    cancelled >>

\* ... and matched with the paired client's dial.
Matched ==
    /\ proc["main"].at = "accept" /\ relay.leg
    /\ client # 0
    /\ relay' = [relay EXCEPT !.leg = FALSE]
    /\ matched' = client
    /\ Goto("main", "fresh")
    /\ UNCHANGED << stored, sem, sessions, client, denied, cancelled >>

\* The pending timeout, a refusal, a lost carrier or the end of the context.
AcceptFails ==
    /\ proc["main"].at = "accept"
    /\ relay' = [relay EXCEPT !.leg = FALSE]
    /\ sem' = sem - 1
    /\ Goto("main", "snap")
    /\ UNCHANGED << stored, sessions, matched, client, denied, cancelled >>

\* The slot of a session: any that is free.
FreeSlot ==
    CHOOSE n \in 1 .. Slots : \A s \in sessions : s.slot # n

\* Mutant: the session is authorised with the record read before the wait.
ServeStale ==
    /\ proc["main"].at = "fresh"
    /\ sessions' = sessions \cup
         {[slot |-> FreeSlot, peer |-> matched, scope |-> proc["main"].scope]}
    /\ matched' = 0
    /\ Goto("main", "snap")
    /\ UNCHANGED << stored, relay, sem, client, denied, cancelled >>

\* A credential renewal may have committed while the leg waited: a second
\* Snapshot decides, and the session takes over the place in the semaphore.
ServeFresh ==
    /\ proc["main"].at = "fresh"
    /\ sessions' = sessions \cup
         {[slot |-> FreeSlot, peer |-> matched, scope |-> stored.paired]}
    /\ matched' = 0
    /\ Goto("main", "snap")
    /\ UNCHANGED << stored, relay, sem, client, denied, cancelled >>

\* The fresh record authorises nobody: close the leg, keep the loop.
FreshRefused ==
    /\ proc["main"].at = "fresh"
    /\ sem' = sem - 1
    /\ matched' = 0
    /\ Goto("main", "snap")
    /\ UNCHANGED << stored, relay, sessions, client, denied, cancelled >>

\* A session's goroutine returns, for whatever reason.
SessionReturns(s) ==
    /\ sessions' = sessions \ {s}
    /\ sem' = sem - 1
    /\ UNCHANGED << stored, relay, proc, matched, client, denied, cancelled >>

MainLoop ==
    \/ Snapshot \/ TokenRenewed \/ RenewFails \/ TakeSlot \/ AcceptQueued
    \/ Matched \/ AcceptFails \/ ServeFresh \/ FreshRefused
    \/ proc["pair"].at # "off" /\ SaveToken("main", "slot")

-----------------------------------------------------------------------------
(* The end of the worker.                                                  *)

\* The ticker: the agent reports a locked or unreadable policy.
PolicyTick ==
    /\ denied /\ ~cancelled
    /\ proc["main"].at \notin {"start", "returned"}
    /\ cancelled' = TRUE
    /\ UNCHANGED << stored, relay, proc, sem, sessions, matched, client, denied >>

\* Every wait of the two loops ends with the context.
LoopStops(p) ==
    /\ cancelled
    /\ proc[p].at \in {"publish", "fetch", "setup", "snap", "renew", "slot"}
    /\ Goto(p, IF p = "main" THEN "drain" ELSE "off")
    /\ UNCHANGED << stored, relay, sem, sessions, matched, client, denied,
                    cancelled >>

\* The deferred cancel and tasks.Wait.
Returns ==
    /\ proc["main"].at = "drain"
    /\ proc["pair"].at = "off" /\ sessions = {}
    /\ Goto("main", "returned")
    /\ UNCHANGED << stored, relay, sem, sessions, matched, client, denied,
                    cancelled >>

\* The process ends at any point, or is started again after it returned; a
\* locked policy starts no worker.
Restarts ==
    /\ proc["main"].at # "start"
    /\ proc["main"].at = "returned" => ~denied
    /\ proc' = [proc EXCEPT !["pair"] = IdleLoop,
                  !["main"] = [IdleLoop EXCEPT !.at = IF denied THEN "returned"
                                                  ELSE "start"]]
    /\ sem' = 0 /\ sessions' = {} /\ matched' = 0
    /\ relay' = [relay EXCEPT !.leg = FALSE]
    /\ cancelled' = FALSE
    /\ UNCHANGED << stored, client, denied >>

-----------------------------------------------------------------------------
(* The relay and its administrator, the local alarm.                       *)

\* RegisterReceiver on an advertisement the relay knows.
ApproveRoute ==
    /\ relay.up /\ relay.offered
    /\ relay.approvals < MaxApprovals
    /\ relay' = [relay EXCEPT !.approvals = @ + 1,
                              !.registered = relay.approvals + 1]
    /\ UNCHANGED << stored, proc, sem, sessions, matched, client, denied,
                    cancelled >>

\* RemoveAdmission: every token so far is refused, every carrier aborted.
Remove ==
    /\ relay.up /\ ~Removed /\ relay.approvals > 0
    /\ relay' = [relay EXCEPT !.cutoff = relay.approvals,
                              !.registered = NoToken, !.leg = FALSE]
    /\ UNCHANGED << stored, proc, sem, sessions, matched, client, denied,
                    cancelled >>

\* The relay goes away with its queues and caches; its admissions persist.
RelayDown ==
    /\ relay.up
    /\ relay' = [relay EXCEPT !.up = FALSE, !.offered = FALSE,
                              !.registered = NoToken, !.leg = FALSE]
    /\ UNCHANGED << stored, proc, sem, sessions, matched, client, denied,
                    cancelled >>

RelayUp ==
    /\ ~relay.up
    /\ relay' = [relay EXCEPT !.up = TRUE]
    /\ UNCHANGED << stored, proc, sem, sessions, matched, client, denied,
                    cancelled >>

Deny ==
    /\ ~denied
    /\ denied' = TRUE
    /\ UNCHANGED << stored, relay, proc, sem, sessions, matched, client,
                    cancelled >>

RelayMoves == ApproveRoute \/ Remove \/ RelayDown \/ RelayUp

WorkerNext ==
    \/ SetupLoop \/ PairLoop \/ Exchange \/ MainLoop
    \/ (\E s \in sessions : SessionReturns(s))
    \/ (\E p \in Loops : SaveFails(p))
    \/ PolicyTick \/ (\E p \in Loops : LoopStops(p)) \/ Returns \/ Restarts
    \/ RelayMoves \/ Deny

WorkerSpec == WorkerInit /\ [][WorkerNext]_workerVars

\* Each goroutine keeps running: calls of the agent and of a reachable relay
\* return, waits end, the ticker ticks, and a session ends with its context.
\* Nothing is assumed of the relay, its administrator or the client.
MainProceeds == SetupLoop \/ MainLoop \/ LoopStops("main") \/ Returns
PairProceeds == PairLoop \/ LoopStops("pair")
SessionStops == cancelled /\ \E s \in sessions : SessionReturns(s)
WorkerFair ==
    /\ WF_workerVars(MainProceeds) /\ WF_workerVars(PairProceeds)
    /\ WF_workerVars(PolicyTick) /\ WF_workerVars(SessionStops)

-----------------------------------------------------------------------------
(* Properties.                                                             *)

\* A client that renewed its credentials is never judged by the record the
\* receiver read before the renewal (worker.go:453-470); the places of the
\* semaphore are those of the warm leg and the sessions on every path; and
\* what has returned left nothing running (worker.go:324).
WorkerSound ==
    /\ \A s \in sessions : s.scope >= s.peer
    /\ sem = Cardinality(sessions)
             + (IF proc["main"].at \in {"accept", "fresh"} THEN 1 ELSE 0)
    /\ proc["main"].at = "returned" => proc["pair"].at = "off" /\ sem = 0

\* Two goroutines write receiver.json's token, each after a wait on the
\* network: neither ever replaces the token of an approval by that of an
\* earlier one (worker.go:253-261, 408-423, store.go:367-380).
TokenNeverRegresses == [][stored'.token >= stored.token]_workerVars

\* Once the relay stays reachable, the worker running, its files writable and
\* the route approved, it is back without help: a pending receiver waits for
\* its client with a token the relay accepts, a paired one offers warm legs
\* again and again or has all its places in use.  A pending receiver that has
\* an offer, or no token yet, finds a new approval of the route by itself; one
\* made with --legacy-codes keeps the token it has for ever, so after a removal
\* a new approval does not bring it back, and only the token it holds counts
\* for it (worker.go:247, 283, 338).
Approvals ==
    {stored.token} \cup
        (IF PendingOffer \/ stored.token = NoToken THEN {relay.registered} ELSE {})
Approved == \E t \in Approvals : t # NoToken /\ TokenAdmitted(t)
Favourable ==
    relay.up /\ ~denied /\ ~cancelled /\ (stored.paired = 0 => Approved)
Back ==
    IF stored.paired = 0
    THEN proc["pair"].at = "accept" /\ TokenAdmitted(proc["pair"].token)
    ELSE proc["main"].at = "accept" \/ Cardinality(sessions) = Slots
Undisturbed == ~Restarts /\ \A p \in Loops : ~SaveFails(p)
ComesBack == <>[]Favourable /\ <>[][Undisturbed]_workerVars => []<>Back

\* A locked policy ends the worker with everything it runs: this never holds
\* for ever.
OutlivesAlarm == denied /\ proc["main"].at # "returned"
=============================================================================
