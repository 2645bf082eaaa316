-------------------------------- MODULE Pairing --------------------------------
(* Pairing and credential renewal between a receiver and its clients            *)
(* (internal/receiverpairing, and PairClient, ResumeClient, renewClient and     *)
(* Exchange of internal/pairruntime).                                           *)
(*                                                                              *)
(* The receiver keeps one durable record under state.lock, each client keeps    *)
(* client.json under client-operation.lock. Requests travel over a relay that   *)
(* may lose, delay and repeat them; an answer only reaches a client that still  *)
(* waits for it. A file replacement that fails may or may not have reached the  *)
(* disk, and a client may stop between any two steps. Signatures, encryption    *)
(* and digests are perfect: a request is its identity. The local policy file,   *)
(* removal and rebuilding of a tunnel are left out: no policy is locked here.   *)
EXTENDS Naturals, Sequences, FiniteSets

CONSTANTS Clients,      \* installations that were given a code
          None,         \* no client, request or attempt
          MaxRetired,   \* maxRetiredCodes
          MaxAttempts,  \* bound: pairing attempts created
          MaxRequests   \* bound: requests created by each client

ASSUME PairingAssumption ==
    /\ None \notin Clients
    /\ MaxRetired \in Nat \ {0}
    /\ MaxAttempts \in Nat
    /\ MaxRequests \in [Clients -> Nat]

VARIABLES
    rcv,      \* the receiver's state.json
    cli,      \* client.json of each client
    stage,       \* what each client's current operation waits for
    inbox,    \* the answer that reached a waiting client, if any
    sent,     \* requests put on the network, ever
    expired,  \* requests past ExpiresUnix
    attempts, \* number of pairing attempts created
    late,     \* attempts past ExpiresUnix
    made      \* number of requests created by each client

pairingVars == <<rcv, cli, stage, inbox, sent, expired, attempts, late, made>>

--------------------------------------------------------------------------------
(* Messages. "pair" spends the code of an attempt; "renew" asks for generation  *)
(* known + 1. id stands for the nonce, the keys and the digest. A status query  *)
(* asks which generation the receiver committed, for the pending renewal it     *)
(* names; it changes nothing, so only the one a client waits for is kept.       *)
PairRequest(c, a, i) == [kind |-> "pair", client |-> c, attempt |-> a, known |-> 0, id |-> i]
Renewal(c, g, i) == [kind |-> "renew", client |-> c, attempt |-> 0, known |-> g, id |-> i]

\* The generation a request asks for (CredentialGeneration).
Next_(r) == r.known + 1

Grant(r) == {[kind |-> "grant", of |-> r.id, gen |-> Next_(r)]}
Snapshot(r, g) == {[kind |-> "status", of |-> r.id, gen |-> g]}

--------------------------------------------------------------------------------
\* Places where a client waits for an answer.
Waiting == {"pair", "renew", "query", "again"}

NoPeer == [client |-> None, attempt |-> 0, initial |-> 0, gen |-> 0, auth |-> 0,
           last |-> 0, locked |-> FALSE, revoked |-> FALSE]

\* client.json: pend is Pending or PendingRenewal, pkeys PendingKeys.
NoClient == [pend |-> {}, pkeys |-> 0, gen |-> 0, keys |-> 0, auth |-> 0]

PairingInit ==
    /\ rcv = [local |-> FALSE, attempt |-> 0, peer |-> NoPeer, retired |-> <<>>]
    /\ cli = [c \in Clients |-> NoClient]
    /\ stage = [c \in Clients |-> "idle"]
    /\ inbox = [c \in Clients |-> {}]
    /\ sent = {} /\ expired = {} /\ late = {}
    /\ attempts = 0 /\ made = [c \in Clients |-> 0]

Paired == rcv.peer # NoPeer
Denied == rcv.local \/ rcv.peer.locked \/ rcv.peer.revoked

\* appendRetiredCode; the code of an attempt is fresh, so it is never there yet.
AppendRetired(s, a) == Append(IF Len(s) = MaxRetired THEN Tail(s) ELSE s, a)

--------------------------------------------------------------------------------
(* The receiver's local operations.                                             *)
ReceiverOnly == UNCHANGED <<cli, stage, inbox, sent, expired, made>>

CreateAttempt ==
    /\ attempts < MaxAttempts
    /\ ~rcv.local /\ ~Paired
    /\ rcv.attempt # 0 => rcv.attempt \in late
    /\ attempts' = attempts + 1
    /\ rcv' = [rcv EXCEPT !.attempt = attempts + 1,
                          !.retired = IF rcv.attempt = 0 THEN @ ELSE AppendRetired(@, rcv.attempt)]
    /\ ReceiverOnly /\ UNCHANGED late

CancelAttempt ==
    /\ rcv.attempt # 0
    /\ rcv' = [rcv EXCEPT !.attempt = 0, !.retired = AppendRetired(@, rcv.attempt)]
    /\ ReceiverOnly /\ UNCHANGED <<attempts, late>>

SetLocalLocked(b) ==
    /\ rcv' = [rcv EXCEPT !.local = b]
    /\ ReceiverOnly /\ UNCHANGED <<attempts, late>>

SetPeerLocked(b) ==
    /\ Paired
    /\ rcv.peer.revoked => b
    /\ rcv' = [rcv EXCEPT !.peer.locked = b]
    /\ ReceiverOnly /\ UNCHANGED <<attempts, late>>

RevokePeer ==
    /\ Paired
    /\ rcv' = [rcv EXCEPT !.peer.locked = TRUE, !.peer.revoked = TRUE]
    /\ ReceiverOnly /\ UNCHANGED <<attempts, late>>

\* The consent names the peer that was shown to the operator.
RetireForReplacement(expected) ==
    /\ rcv.peer.client = expected
    /\ rcv' = [rcv EXCEPT !.local = TRUE, !.peer.locked = Paired, !.peer.revoked = Paired]
    /\ ReceiverOnly /\ UNCHANGED <<attempts, late>>

--------------------------------------------------------------------------------
(* The receiver's answers (ReceiverBackend.Exchange): Claim, else Renew, else    *)
(* RenewalStatus. Each is one critical section of state.lock. A refused request  *)
(* gets no answer.                                                              *)

\* The answer reaches the client that waits for it, or is lost.
Answer(r, a) ==
    \/ inbox' = inbox
    \/ /\ r \in cli[r.client].pend /\ stage[r.client] \in {"pair", "renew", "again"}
       /\ inbox' = [inbox EXCEPT ![r.client] = a]

Served == UNCHANGED <<cli, stage, sent, expired, attempts, late, made>>

\* The record holds the response to r, by its digest (ids are per client).
Remembered(r) ==
    /\ Paired /\ ~Denied /\ r.client = rcv.peer.client
    /\ r.id = IF r.kind = "pair" THEN rcv.peer.initial ELSE rcv.peer.last

\* A mutant: the request is not bound to the attempt that is open.
ClaimableAnyAttempt(r) ==
    /\ r.kind = "pair" /\ ~rcv.local /\ ~Paired
    /\ r \notin expired

Claimable(r) ==
    /\ r.kind = "pair" /\ ~rcv.local /\ ~Paired
    /\ rcv.attempt # 0 /\ r.attempt = rcv.attempt
    /\ r \notin expired /\ rcv.attempt \notin late

\* A mutant: the generation that is current may be issued once more.
RenewableSame(r) ==
    /\ r.kind = "renew" /\ Paired /\ ~Denied /\ r.client = rcv.peer.client
    /\ r \notin expired
    /\ Next_(r) \in {rcv.peer.gen, rcv.peer.gen + 1}

Renewable(r) ==
    /\ r.kind = "renew" /\ Paired /\ ~Denied /\ r.client = rcv.peer.client
    /\ r \notin expired
    /\ Next_(r) = rcv.peer.gen + 1

\* The same request again, in Claim or Renew: the stored response, at any time.
Repeat(r) ==
    /\ Remembered(r)
    /\ Answer(r, Grant(r))
    /\ UNCHANGED rcv /\ Served

Claim(r) ==
    /\ Claimable(r)
    /\ rcv' = [rcv EXCEPT !.peer = [NoPeer EXCEPT !.client = r.client, !.attempt = r.attempt,
                                       !.initial = r.id, !.gen = 1, !.auth = r.id],
                          !.attempt = 0, !.retired = AppendRetired(@, r.attempt)]
    /\ Answer(r, Grant(r))
    /\ Served

Renew(r) ==
    /\ ~Remembered(r) /\ Renewable(r)
    /\ rcv' = [rcv EXCEPT !.peer.gen = Next_(r), !.peer.auth = r.id, !.peer.last = r.id]
    /\ Answer(r, Grant(r))
    /\ Served

\* A mutant: only a renewal that was committed is reported.
ReportableCommitted(r) ==
    /\ Paired /\ ~Denied /\ r.client = rcv.peer.client
    /\ rcv.peer.gen = r.known + 1

\* The query names the renewal r that is pending at its client.
Reportable(r) ==
    /\ Paired /\ ~Denied /\ r.client = rcv.peer.client
    /\ rcv.peer.gen \in {r.known, r.known + 1}

RenewalStatus(r) ==
    /\ Reportable(r)
    /\ inbox' = [inbox EXCEPT ![r.client] = Snapshot(r, rcv.peer.gen)]
    /\ UNCHANGED rcv /\ Served

Exchange ==
    \/ \E r \in sent : Repeat(r) \/ Claim(r) \/ Renew(r)
    \/ \E c \in Clients : stage[c] = "query" /\ \E r \in cli[c].pend : RenewalStatus(r)

--------------------------------------------------------------------------------
(* The client. A step that writes client.json may fail, with the file replaced   *)
(* or not; the operation then returns and nothing more is sent.                 *)
ClientOnly == UNCHANGED <<rcv, expired, attempts, late>>

Goes(c, where) ==
    /\ stage' = [stage EXCEPT ![c] = where]
    /\ inbox' = [inbox EXCEPT ![c] = {}]

\* writeRecord of new, then on to where; or an error, with either content.
Save(c, new, where) ==
    \/ cli' = [cli EXCEPT ![c] = new] /\ Goes(c, where)
    \/ \E stored \in {cli[c], new} : cli' = [cli EXCEPT ![c] = stored] /\ Goes(c, "idle")

Send(c, r, where) ==
    /\ sent' = sent \union {r}
    /\ Goes(c, where)

\* A new request and its keys replace the pending ones in one write, and the
\* request is sent after it. (One that is saved and not sent is one that is lost.)
SaveAndSend(c, r, where) ==
    /\ made[c] < MaxRequests[c]
    /\ Save(c, [cli[c] EXCEPT !.pend = {r}, !.pkeys = r.id], where)
    /\ made' = IF cli' = cli THEN made ELSE [made EXCEPT ![c] = r.id]
    /\ sent' = IF stage'[c] = where THEN sent \union {r} ELSE sent

PairClient(c, a) ==
    /\ cli[c] = NoClient /\ stage[c] = "idle"
    /\ a \notin late
    /\ SaveAndSend(c, PairRequest(c, a, made[c] + 1), "pair")
    /\ ClientOnly

ResumeClient(c) ==
    /\ stage[c] = "idle"
    /\ \E r \in cli[c].pend : r.kind = "pair" /\ Send(c, r, "pair")
    /\ ClientOnly /\ UNCHANGED <<cli, made>>

\* openClient: a pending renewal is resumed, a certificate that is still good is
\* used, and one near its end is renewed. Its age is not modelled.
OpenResume(c) ==
    /\ stage[c] = "idle" /\ cli[c].gen > 0
    /\ \E r \in cli[c].pend : Send(c, r, "renew")
    /\ ClientOnly /\ UNCHANGED <<cli, made>>

OpenDial(c) ==
    /\ stage[c] = "idle" /\ cli[c].gen > 0 /\ cli[c].pend = {}
    /\ Goes(c, "dial")
    /\ ClientOnly /\ UNCHANGED <<cli, sent, made>>

OpenRenew(c) ==
    /\ stage[c] = "idle" /\ cli[c].gen > 0 /\ cli[c].pend = {}
    /\ SaveAndSend(c, Renewal(c, cli[c].gen, made[c] + 1), "renew")
    /\ ClientOnly

\* commitClient: the certificate has to match the pending keys.
Commit(c, r, where) ==
    /\ cli[c].pkeys = r.id
    /\ Save(c, [pend |-> {}, pkeys |-> 0, gen |-> Next_(r), keys |-> cli[c].pkeys, auth |-> r.id], where)

\* OpenResponse and OpenRenewalResponse of an answer that is still valid.
PairDone(c) ==
    /\ stage[c] = "pair" /\ inbox[c] # {}
    /\ \E r \in cli[c].pend :
          /\ r \notin expired /\ r.attempt \notin late
          /\ Commit(c, r, "idle")
    /\ ClientOnly /\ UNCHANGED <<sent, made>>

RenewDone(c) ==
    /\ stage[c] \in {"renew", "again"} /\ inbox[c] # {}
    /\ \E r \in cli[c].pend : r \notin expired /\ Commit(c, r, "dial")
    /\ ClientOnly /\ UNCHANGED <<sent, made>>

\* stageClientRenewal: a fresh request after generation g.
Stage(c, g) == SaveAndSend(c, Renewal(c, g, made[c] + 1), "again")

\* RecoverExpiredRenewal: an expired receipt proves the commit, nothing more.
RecoverExpired(c) ==
    /\ stage[c] = "renew" /\ inbox[c] # {}
    /\ \E r \in cli[c].pend : r \in expired /\ Stage(c, Next_(r))
    /\ ClientOnly

\* No answer: ask what was committed.
AskStatus(c) ==
    /\ stage[c] = "renew" /\ inbox[c] = {}
    /\ Goes(c, "query")
    /\ ClientOnly /\ UNCHANGED <<cli, sent, made>>

RecoverStatus(c) ==
    /\ stage[c] = "query"
    /\ \E answer \in inbox[c], r \in cli[c].pend :
          answer.gen \in {r.known, Next_(r)} /\ Stage(c, answer.gen)
    /\ ClientOnly

\* The operation ends: an answer that does not verify, a deadline, a cancelled
\* context, a rate limit, the end of the session, or the process is stopped.
GiveUp(c) ==
    /\ stage[c] # "idle"
    /\ Goes(c, "idle")
    /\ ClientOnly /\ UNCHANGED <<cli, sent, made>>

--------------------------------------------------------------------------------
(* Time.                                                                        *)
Pending == UNION {cli[c].pend : c \in Clients}

Expire(r) ==
    /\ r \notin expired
    /\ expired' = expired \union {r}
    /\ UNCHANGED <<rcv, cli, stage, inbox, sent, attempts, late, made>>

\* A request never outlives the advertisement it answers.
ExpireAttempt(a) ==
    /\ a \notin late
    /\ late' = late \union {a}
    /\ expired' = expired \union {r \in sent \union Pending : r.attempt = a}
    /\ UNCHANGED <<rcv, cli, stage, inbox, sent, attempts, made>>

LocalStep ==
    \/ CreateAttempt \/ CancelAttempt \/ RevokePeer
    \/ \E b \in BOOLEAN : SetLocalLocked(b) \/ SetPeerLocked(b)
    \/ \E p \in Clients \union {None} : RetireForReplacement(p)

ClientStep(c) ==
    \/ \E a \in 1..attempts : PairClient(c, a)
    \/ ResumeClient(c) \/ PairDone(c)
    \/ OpenResume(c) \/ OpenDial(c) \/ OpenRenew(c) \/ RenewDone(c)
    \/ RecoverExpired(c) \/ AskStatus(c) \/ RecoverStatus(c)
    \/ GiveUp(c)

PairingNext ==
    \/ LocalStep
    \/ Exchange
    \/ \E c \in Clients : ClientStep(c)
    \/ \E r \in sent \union Pending : Expire(r)
    \/ \E a \in 1..attempts : ExpireAttempt(a)

PairingSpec == PairingInit /\ [][PairingNext]_pairingVars

(* Fairness. From some time on the relay and the disk work: an answer that the   *)
(* receiver gives arrives before the deadline and before it expires, and writes *)
(* succeed. Requests sent earlier may still arrive. The user keeps opening the  *)
(* tunnel and each operation goes on.                                           *)
Usable(r) == r \notin expired /\ r.attempt \notin late
Answered(c) == \E r \in cli[c].pend : Remembered(r) \/ Claimable(r) \/ Renewable(r)

\* When a working network still lets the operation end without its result.
Hopeless(c) ==
    CASE stage[c] = "renew" -> FALSE
      [] stage[c] = "query" -> \/ made[c] = MaxRequests[c]
                               \/ inbox[c] = {} /\ \A r \in cli[c].pend : ~Reportable(r)
      [] OTHER -> \A r \in cli[c].pend : ~Usable(r) \/ (inbox[c] = {} /\ ~Answered(c))

Calm ==
    /\ UNCHANGED <<expired, late>>
    /\ \A c \in Clients :
          /\ stage[c] \in Waiting /\ stage'[c] = "idle" /\ cli'[c].pend # {} => Hopeless(c)
          /\ stage[c] = "renew" /\ stage'[c] = "query" => ~Answered(c)

ClientProceeds(c) ==
    \/ ResumeClient(c) \/ PairDone(c) \/ OpenResume(c) \/ RenewDone(c) \/ RecoverExpired(c)
    \/ AskStatus(c) \/ RecoverStatus(c) \/ GiveUp(c)
    \/ Exchange /\ inbox'[c] # inbox[c]

PairingFair == <>[][Calm]_pairingVars /\ \A c \in Clients : WF_pairingVars(ClientProceeds(c))
--------------------------------------------------------------------------------
(* Properties.                                                                  *)

(* A client that holds credentials is the receiver's one peer, however many      *)
(* installations raced with the same code; and when a client dials, the          *)
(* receiver's record authorizes exactly the credentials it dials with: no older *)
(* or repeated renewal can still move the receiver on.                          *)
DialAgrees ==
    \A c \in Clients :
        /\ cli[c].gen > 0 => rcv.peer.client = c
        /\ stage[c] = "dial" => rcv.peer.gen = cli[c].gen /\ rcv.peer.auth = cli[c].auth

(* RenewalStatus never refuses the query of a pending renewal as outside it:     *)
(* whatever was lost or repeated, the receiver is at the generation the client  *)
(* knows or at the next one.                                                    *)
Reconcilable ==
    \A c \in Clients : \A r \in cli[c].pend :
        r.kind = "renew" => rcv.peer.gen \in {r.known, Next_(r)}

(* Receiver and client stay together through lost, repeated and late answers. *)
PeersTogether == DialAgrees /\ Reconcilable

(* A code that was cancelled, replaced or spent never pairs anyone.             *)
RetiredNeverPairs ==
    [][rcv'.peer.client # rcv.peer.client =>
         \A i \in 1..Len(rcv.retired) : rcv.retired[i] # rcv'.peer.attempt]_pairingVars

\* Only a fresh request would do and the bound on them is reached.
OutOfRequests(c) ==
    /\ made[c] = MaxRequests[c]
    /\ \A r \in cli[c].pend :
          ~Usable(r) \/ ~Answered(c)

(* A renewal the receiver may have committed, or a pairing it has committed, is  *)
(* completed at the client.                                                     *)
Recovers ==
    \A c \in Clients :
        cli[c].pend # {} /\ rcv.peer.client = c
          ~> \/ cli[c].pend = {} \/ Denied \/ OutOfRequests(c)
             \/ cli[c].gen = 0 /\ \A r \in cli[c].pend : ~Usable(r)
================================================================================
