---------------------------- MODULE RouteInventory ----------------------------
(***************************************************************************)
(* The admission inventory of the receiver-owned relay (internal/pairrelay *)
(* inventory.go, advertisement_cache.go, token.go and the handlers of      *)
(* relay.go and offer.go that use them): which route tokens the relay      *)
(* accepts, which advertisements it keeps, and what of both survives a     *)
(* failed save or a restart.                                               *)
(*                                                                         *)
(* Every operation under Relay.mu is one action.  The handler of an        *)
(* authenticated connection takes the lock three times (track, observe,    *)
(* renew), so it is three actions.  Refusals that change nothing except    *)
(* dropping expired entries are FetchOffer steps.  A token is its claims:  *)
(* the HMAC is perfect, so the tokens anyone can present are the released  *)
(* ones.  RouteLimits are folded into the validity asked for, Generation   *)
(* is left out (only renewal writes it and nothing but overflow reads it). *)
(***************************************************************************)
EXTENDS Integers, FiniteSets

CONSTANTS
    Routes,       \* routeKey: receiver and route IDs
    ReceiverOf,   \* [Routes -> receiver IDs]
    Roots,        \* admission root hashes
    Ads,          \* [route, root, expires, id]: signed advertisements
    Offers,       \* [locator, proof]: what an offer adds to an advertisement
    Validities,   \* token terms a local approval may ask for
    Legacy,       \* tokens minted before the relay kept an inventory
    Conns,        \* authenticated connections in progress
    Absent,
    MaxTime, Ahead, Grace,     \* bound on the clock; 5 min; MaxExpiredRenewalGrace
    LiveTTL, PendingTTL,       \* AdvertisementTTL, PendingAdvertisementTTL
    RegLimit, PendingLimit, MaxRecords   \* registrationLimit(), PendingAdvertisements, MaxAdmissionRecords

Times == 1..MaxTime
Stamps == 0..(MaxTime + Ahead)
Statuses == {"approved", "observed", "removed"}
Records == [root: Roots, status: Statuses, last: Stamps, reject: Stamps]
Tokens == [route: Routes, root: Roots, issued: Stamps \ {0}, validity: Validities]
CacheEntries == [ad: Ads, expires: Int, offer: Offers \cup {Absent}]
Pool == [Routes -> CacheEntries \cup {Absent}]
Deliveries == [token: Tokens, ad: Ads]

ASSUME BoundsAssumption ==
    /\ IsFiniteSet(Routes)
    /\ MaxTime \in Nat \ {0} /\ Ahead \in Nat /\ Grace \in Nat
    /\ LiveTTL \in Nat \ {0} /\ PendingTTL \in Nat \ {0}
    /\ RegLimit \in Nat \ {0} /\ PendingLimit \in Nat \ {0} /\ MaxRecords \in Nat \ {0}
    /\ Validities \subseteq Nat \ {0}

ASSUME InputsAssumption ==
    /\ \A a \in Ads : a.route \in Routes /\ a.root \in Roots /\ a.expires \in Int
    /\ Legacy \subseteq Tokens
    /\ \A t \in Legacy : t.issued = 1

ASSUME AbsentAssumption ==
    Absent \notin Records \cup CacheEntries \cup Deliveries \cup Tokens \cup Offers

VARIABLES
    now,            \* the wall clock; it may be set back
    admissions,     \* Relay.admissions
    disk,           \* admissions.v1.json
    pools,          \* advertisements, retainedAdvertisements, pendingAdvertisements
    registrations,  \* tokens kept for delivery to their receiver
    conns,          \* handleAuthenticated calls in progress
    tokens,         \* tokens that have left the relay
    revoked         \* tokens released before an acknowledged removal of their route

inventoryVars == <<now, admissions, disk, pools, registrations, conns, tokens, revoked>>

Later(a, b) == IF a >= b THEN a ELSE b
Earlier(a, b) == IF a <= b THEN a ELSE b
Held(f) == {k \in Routes : f[k] # Absent}
Empty == [k \in Routes |-> Absent]

-----------------------------------------------------------------------------
(* Tokens *)

Expires(t) == t.issued + t.validity

\* openToken: not from more than five minutes ahead, not expired (or within
\* the renewal grace)
OpenToken(t, at, renewal) ==
    /\ at >= t.issued - Ahead
    /\ at < Expires(t) \/ (renewal /\ at - Expires(t) <= Grace)

RejectsIn(inv, t) ==
    LET r == inv[t.route]
    IN  /\ r # Absent
        /\ r.status = "removed" \/ t.issued <= r.reject \/ r.root # t.root

\* A mutant: only the status is looked at, as if reapproval cleared the cutoff.
AdmittedByStatus(t) ==
    IF admissions[t.route] = Absent THEN TRUE ELSE admissions[t.route].status # "removed"

Admitted(t) == ~RejectsIn(admissions, t)

-----------------------------------------------------------------------------
(* Advertisement pools *)

AdvertisementIn(p, k) ==
    IF p.live[k] # Absent THEN p.live[k]
    ELSE IF p.retained[k] # Absent THEN p.retained[k] ELSE p.pending[k]

Protects(inv, k, entry) ==
    inv[k] # Absent /\ inv[k].status # "removed" /\ inv[k].root = entry.ad.root

ProtectedCapacity(p, k) ==
    \/ p.live[k] # Absent
    \/ p.retained[k] # Absent
    \/ Cardinality(Held(p.live)) + Cardinality(Held(p.retained)) < RegLimit

AdvertisementExpiry(ad, at, ttl) == Earlier(at + ttl, ad.expires)

Expire(p, at) ==
    LET keep(f) == [k \in Routes |-> IF f[k] # Absent /\ at >= f[k].expires THEN Absent ELSE f[k]]
    IN  [live |-> keep(p.live), retained |-> keep(p.retained), pending |-> keep(p.pending)]

ExpireRegistrations(g, at) ==
    [k \in Routes |-> IF g[k] # Absent /\ at >= Expires(g[k].token) THEN Absent ELSE g[k]]

Only(p, k, pool, entry) ==
    [live |-> [p.live EXCEPT ![k] = IF pool = "live" THEN entry ELSE Absent],
     retained |-> [p.retained EXCEPT ![k] = IF pool = "retained" THEN entry ELSE Absent],
     pending |-> [p.pending EXCEPT ![k] = IF pool = "pending" THEN entry ELSE Absent]]

\* storePendingAdvertisementLocked: the entry that expires first makes room.
StorePending(p, k, entry, at) ==
    LET full == p.pending[k] = Absent /\ Cardinality(Held(p.pending)) >= PendingLimit
        first == {e \in Held(p.pending) :
                    \A f \in Held(p.pending) : p.pending[e].expires <= p.pending[f].expires}
        room == IF full THEN {[p EXCEPT !.pending[e] = Absent] : e \in first} ELSE {p}
        stored == [entry EXCEPT !.expires = AdvertisementExpiry(entry.ad, at, PendingTTL)]
    IN  {Only(q, k, "pending", stored) : q \in room}

\* cacheAdvertisementLocked: a published entry keeps the offer it had.
WithOffer(p, k, ad, offer) ==
    LET previous == AdvertisementIn(p, k)
    IN  [ad |-> ad, expires |-> 0,
         offer |-> IF offer = Absent /\ previous # Absent THEN previous.offer ELSE offer]

SameLocator(e, f) == e.offer # Absent /\ f.offer # Absent /\ e.offer.locator = f.offer.locator

LocatorTaken(p, k, entry) ==
    \E j \in Routes \ {k}, q \in {"live", "retained", "pending"} :
        p[q][j] # Absent /\ SameLocator(p[q][j], entry)

Conflicts(p, k, ad, offer) ==
    LET previous == AdvertisementIn(p, k)
    IN  /\ previous # Absent
        /\ offer # Absent \/ previous.offer # Absent
        /\ \/ previous.ad # ad
           \/ offer # Absent /\ previous.offer # Absent /\ offer # previous.offer

\* The pools after a publication; empty when cacheAdvertisementLocked refuses.
CacheAdvertisement(p, k, ad, offer, at) ==
    LET entry == WithOffer(p, k, ad, offer)
        live == [entry EXCEPT !.expires = AdvertisementExpiry(ad, at, LiveTTL)]
    IN  IF \/ admissions[k] # Absent /\ admissions[k].root # ad.root
           \/ p.retained[k] # Absent
           \/ Conflicts(p, k, ad, offer)
           \/ LocatorTaken(p, k, entry)
        THEN {}
        ELSE IF ~Protects(admissions, k, entry) THEN StorePending(p, k, entry, at)
        ELSE IF ProtectedCapacity(p, k) THEN {Only(p, k, "live", live)} ELSE {}

Promote(inv, p, k, at) ==
    LET entry == IF p.pending[k] # Absent THEN p.pending[k] ELSE p.retained[k]
    IN  IF entry = Absent \/ ~Protects(inv, k, entry) THEN p
        ELSE Only(p, k, "live",
                  [entry EXCEPT !.expires = AdvertisementExpiry(entry.ad, at, LiveTTL)])

-----------------------------------------------------------------------------
(* Saving a record.  A failed save may or may not have reached the disk:   *)
(* ReplaceFile can fail after its rename.                                  *)

Outcome(ok, inv, d, p) == [ok |-> ok, inv |-> inv, disk |-> d, pools |-> p]

\* A mutant: a failed save leaves the new record in memory whatever it says.
SaveAdmissionKeeps(p, k, next) ==
    LET stored == [admissions EXCEPT ![k] = next]
    IN  {Outcome(TRUE, stored, stored, Promote(stored, p, k, now))}
        \cup {Outcome(FALSE, stored, d, p) : d \in {disk, stored}}

\* A mutant: the advertisement is promoted before the save is known to hold.
SaveAdmissionPromotes(p, k, next) ==
    LET stored == [admissions EXCEPT ![k] = next]
        promoted == Promote(stored, p, k, now)
    IN  {Outcome(TRUE, stored, stored, promoted), Outcome(FALSE, admissions, disk, promoted)}

SaveAdmission(p, k, next) ==
    LET previous == admissions[k]
        stored == [admissions EXCEPT ![k] = next]
        ad == AdvertisementIn(p, k)
    IN  IF \/ previous = Absent /\ Cardinality(Held(admissions)) >= MaxRecords
           \/ /\ ad # Absent
              /\ next.status # "removed"
              /\ next.root = ad.ad.root
              /\ ~ProtectedCapacity(p, k)
        THEN {Outcome(FALSE, admissions, disk, p)}
        ELSE IF previous = next /\ next.status # "removed"
        THEN {Outcome(TRUE, admissions, disk, Promote(admissions, p, k, now))}
        ELSE {Outcome(TRUE, stored, stored, Promote(stored, p, k, now))}
             \cup {Outcome(FALSE, IF next.status = "removed" THEN stored ELSE admissions, d, p) :
                     d \in {disk, stored}}

RecordFor(t, status) ==
    LET r == admissions[t.route]
    IN  IF r = Absent
        THEN [root |-> t.root, status |-> status, last |-> t.issued, reject |-> 0]
        ELSE [r EXCEPT !.status = IF status = "observed" THEN status ELSE @,
                       !.last = Later(@, t.issued)]

RecordClaims(p, t, status) ==
    IF Admitted(t) THEN SaveAdmission(p, t.route, RecordFor(t, status))
    ELSE {Outcome(FALSE, admissions, disk, p)}

Install(o) == admissions' = o.inv /\ disk' = o.disk /\ pools' = o.pools

-----------------------------------------------------------------------------
Idle == [phase |-> "idle", token |-> Absent, renewal |-> FALSE]

InventoryInit ==
    /\ now \in Times
    /\ admissions = Empty
    /\ disk = Empty
    /\ pools = [live |-> Empty, retained |-> Empty, pending |-> Empty]
    /\ registrations = Empty
    /\ conns = [c \in Conns |-> Idle]
    /\ tokens = Legacy
    /\ revoked = {}

\* The clock advances, or an operator or NTP sets it back.
SetClock ==
    /\ now' \in Times \ {now}
    /\ UNCHANGED <<admissions, disk, pools, registrations, conns, tokens, revoked>>

PublishAdvertisement(ad) ==
    /\ now < ad.expires
    /\ pools' \in CacheAdvertisement(Expire(pools, now), ad.route, ad, Absent, now)
    /\ registrations' = ExpireRegistrations(registrations, now)
    /\ UNCHANGED <<now, admissions, disk, conns, tokens, revoked>>

\* publishOffer without a token
PublishOffer(ad, offer) ==
    /\ now < ad.expires
    /\ admissions[ad.route] # Absent => admissions[ad.route].status # "removed"
    /\ pools' \in CacheAdvertisement(Expire(pools, now), ad.route, ad, offer, now)
    /\ registrations' = ExpireRegistrations(registrations, now)
    /\ UNCHANGED <<now, admissions, disk, conns, tokens, revoked>>

\* publishOffer with the token the receiver already holds restores its delivery
RestoreOffer(ad, offer, t) ==
    LET k == ad.route
        kept == ExpireRegistrations(registrations, now)
        restored == [token |-> t, ad |-> ad]
    IN  /\ now < ad.expires
        /\ t.route = k /\ t.root = ad.root
        /\ OpenToken(t, now, FALSE)
        /\ Admitted(t)
        /\ IF kept[k] # Absent THEN kept[k] = restored
           ELSE Cardinality(Held(kept)) < RegLimit
        /\ pools' \in CacheAdvertisement(Expire(pools, now), k, ad, offer, now)
        /\ registrations' = [kept EXCEPT ![k] = restored]
        /\ UNCHANGED <<now, admissions, disk, conns, tokens, revoked>>

\* fetchOffer, fetchAdvertisement and fetchRegistration, and every refusal of
\* the operations above: expired entries are dropped
FetchOffer ==
    /\ pools' = Expire(pools, now)
    /\ registrations' = ExpireRegistrations(registrations, now)
    /\ UNCHANGED <<now, admissions, disk, conns, tokens, revoked>>

-----------------------------------------------------------------------------
(* Local approval: RegisterReceiver *)

\* The one advertisement of a receiver, over the three pools.
Matches(p, receiver) ==
    {m \in {"live", "retained", "pending"} \X Routes :
        ReceiverOf[m[2]] = receiver /\ p[m[1]][m[2]] # Absent}

Registrable(p, kept, k) ==
    /\ Cardinality(Matches(p, ReceiverOf[k])) = 1
    /\ AdvertisementIn(p, k) # Absent
    /\ kept[k] # Absent \/ Cardinality(Held(kept)) < RegLimit
    /\ ProtectedCapacity(p, k)

\* Repeating the same approval keeps the token already delivered.
SameApproval(kept, k, ad, validity) ==
    /\ kept[k] # Absent
    /\ kept[k].ad = ad
    /\ OpenToken(kept[k].token, now, FALSE)
    /\ Admitted(kept[k].token)
    /\ kept[k].token.root = ad.root
    /\ kept[k].token.validity = validity

RepeatApproval(k, validity) ==
    LET p == Expire(pools, now)
        kept == ExpireRegistrations(registrations, now)
    IN  /\ Registrable(p, kept, k)
        /\ SameApproval(kept, k, AdvertisementIn(p, k).ad, validity)
        /\ \E o \in RecordClaims(p, kept[k].token, "approved") : Install(o)
        /\ registrations' = kept
        /\ UNCHANGED <<now, conns, tokens, revoked>>

\* A mutant: the token carries the current second.
IssueTimeNow(k) == now

\* A fresh token is issued after the removal cutoff, even in the same second.
IssueTime(k) ==
    IF admissions[k] # Absent /\ now <= admissions[k].reject
    THEN admissions[k].reject + 1 ELSE now

Approve(k, validity) ==
    LET p == Expire(pools, now)
        kept == ExpireRegistrations(registrations, now)
        ad == AdvertisementIn(p, k).ad
        policy == admissions[k]
        t == [route |-> k, root |-> ad.root, issued |-> IssueTime(k), validity |-> validity]
        record == IF policy = Absent
                  THEN [root |-> ad.root, status |-> "approved", last |-> t.issued, reject |-> 0]
                  ELSE [policy EXCEPT !.status = IF @ = "observed" THEN @ ELSE "approved",
                                      !.last = Later(@, t.issued)]
    IN  /\ Registrable(p, kept, k)
        /\ ~SameApproval(kept, k, ad, validity)
        /\ policy # Absent => policy.root = ad.root
        /\ t.issued <= now + Ahead
        /\ \E o \in SaveAdmission(p, k, record) :
              /\ Install(o)
              /\ registrations' = IF o.ok THEN [kept EXCEPT ![k] = [token |-> t, ad |-> ad]] ELSE kept
              /\ tokens' = IF o.ok THEN tokens \cup {t} ELSE tokens
        /\ UNCHANGED <<now, conns, revoked>>

\* RemoveAdmission: the route is denied in memory even when the save fails; the
\* advertisement is kept, without its offer, for an explicit local reapproval.
Cutoff(r) == Later(Later(r.reject, r.last), now)

Retire(p, k) ==
    LET ad == AdvertisementIn(p, k)
    IN  IF ad = Absent THEN p
        ELSE IF ProtectedCapacity(p, k) THEN Only(p, k, "retained", [ad EXCEPT !.offer = Absent])
        ELSE [p EXCEPT !.live[k] = Absent, !.pending[k] = Absent]

RemoveAdmission(k) ==
    /\ admissions[k] # Absent
    /\ LET record == [admissions[k] EXCEPT !.status = "removed", !.reject = Cutoff(admissions[k])]
       IN  \E o \in SaveAdmission(pools, k, record) :
              /\ Install([o EXCEPT !.pools = Retire(o.pools, k)])
              /\ revoked' = IF o.ok THEN revoked \cup {t \in tokens : t.route = k} ELSE revoked
    /\ registrations' = [registrations EXCEPT ![k] = Absent]
    /\ UNCHANGED <<now, conns, tokens>>

-----------------------------------------------------------------------------
(* handleAuthenticated: open the token and track the connection; after the *)
(* TLS handshake observe the claims; a renewal then takes the lock again.  *)

Track(c, t, renewal) ==
    /\ conns[c] = Idle
    /\ OpenToken(t, now, renewal)
    /\ Admitted(t)
    /\ conns' = [conns EXCEPT ![c] = [phase |-> "tracked", token |-> t, renewal |-> renewal]]
    /\ UNCHANGED <<now, admissions, disk, pools, registrations, tokens, revoked>>

HandshakeFails(c) ==
    /\ conns[c].phase = "tracked"
    /\ conns' = [conns EXCEPT ![c] = Idle]
    /\ UNCHANGED <<now, admissions, disk, pools, registrations, tokens, revoked>>

Observe(c) ==
    /\ conns[c].phase = "tracked"
    /\ \E o \in RecordClaims(pools, conns[c].token, "observed") :
          /\ Install(o)
          /\ conns' = [conns EXCEPT ![c] =
                IF o.ok /\ @.renewal THEN [@ EXCEPT !.phase = "observed"] ELSE Idle]
    /\ UNCHANGED <<now, registrations, tokens, revoked>>

Renewed(t) == [t EXCEPT !.issued = Later(now, t.issued)]

Renew(c) ==
    LET t == conns[c].token
        r == Renewed(t)
    IN  /\ conns[c].phase = "observed"
        /\ IF Admitted(t) /\ OpenToken(t, r.issued, TRUE)
           THEN \E o \in RecordClaims(pools, r, "observed") :
                   /\ Install(o)
                   /\ tokens' = IF o.ok THEN tokens \cup {r} ELSE tokens
           ELSE UNCHANGED <<admissions, disk, pools, tokens>>
        /\ conns' = [conns EXCEPT ![c] = Idle]
        /\ UNCHANGED <<now, registrations, revoked>>

\* admissionKey: what loadAdmissions and encodeAdmissionState accept
ValidRecord(r) ==
    /\ r.last > 0
    /\ r.status = "removed" => r.reject >= r.last
    /\ r.status # "removed" => r.last > r.reject

ValidInventory(inv) ==
    /\ Cardinality(Held(inv)) <= MaxRecords
    /\ \A k \in Held(inv) : ValidRecord(inv[k])

\* The process stops at any point and Serve starts again from the saved file.
Restart ==
    /\ ValidInventory(disk)
    /\ admissions' = disk
    /\ pools' = [live |-> Empty, retained |-> Empty, pending |-> Empty]
    /\ registrations' = Empty
    /\ conns' = [c \in Conns |-> Idle]
    /\ UNCHANGED <<now, disk, tokens, revoked>>

InventoryNext ==
    \/ SetClock
    \/ \E ad \in Ads : PublishAdvertisement(ad)
    \/ \E ad \in Ads, o \in Offers : PublishOffer(ad, o)
    \/ \E ad \in Ads, o \in Offers, t \in tokens : RestoreOffer(ad, o, t)
    \/ FetchOffer
    \/ \E k \in Routes, v \in Validities : RepeatApproval(k, v) \/ Approve(k, v)
    \/ \E k \in Routes : RemoveAdmission(k)
    \/ \E c \in Conns, t \in tokens, renewal \in BOOLEAN : Track(c, t, renewal)
    \/ \E c \in Conns : HandshakeFails(c) \/ Observe(c) \/ Renew(c)
    \/ Restart

InventorySpec == InventoryInit /\ [][InventoryNext]_inventoryVars

-----------------------------------------------------------------------------
(* Properties *)

\* Every variable keeps its type; the inventory and its file hold records.
InventoryTypeOK ==
    /\ now \in Times
    /\ admissions \in [Routes -> Records \cup {Absent}]
    /\ disk \in [Routes -> Records \cup {Absent}]
    /\ pools \in [live: Pool, retained: Pool, pending: Pool]
    /\ registrations \in [Routes -> Deliveries \cup {Absent}]
    /\ conns \in [Conns -> {Idle} \cup
          [phase: {"tracked", "observed"}, token: Tokens, renewal: BOOLEAN]]
    /\ tokens \subseteq Tokens
    /\ revoked \subseteq tokens

\* A token released before an acknowledged RemoveAdmission is never accepted
\* again: not after a reapproval in the same second or with the clock set back,
\* not by a renewal in progress, and not after a failed save or a restart
\* ("Cutoffs are never discarded, including after an explicit local reapproval").
RemovalIsFinal == \A t \in revoked : ~Admitted(t)

\* admissionKey accepts every record the relay saves, so that a restart can load
\* the inventory: an active record was issued a token after its cutoff, a
\* removed one was not.
Restartable == ValidInventory(disk) /\ ValidInventory(admissions)

\* The protected pool holds only routes the saved policy approves with the same
\* root, the retained one only removed routes; a route has at most one
\* advertisement in all pools, and pools and registrations keep their limits.
PoolsFollowPolicy ==
    /\ \A k \in Routes : Cardinality({q \in DOMAIN pools : pools[q][k] # Absent}) <= 1
    /\ Cardinality(Held(pools.live)) + Cardinality(Held(pools.retained)) <= RegLimit
    /\ Cardinality(Held(pools.pending)) <= PendingLimit
    /\ Cardinality(Held(registrations)) <= RegLimit
    /\ \A k \in Routes :
        /\ pools.live[k] # Absent => Protects(admissions, k, pools.live[k])
        /\ pools.retained[k] # Absent =>
              admissions[k] # Absent /\ admissions[k].status = "removed"

\* A locator resolves to one route, and never to a removed one.
OffersResolve ==
    \A q, s \in DOMAIN pools, j, k \in Routes :
        pools[q][j] # Absent /\ pools[s][k] # Absent =>
            /\ SameLocator(pools[q][j], pools[s][k]) => j = k
            /\ pools[q][j].offer # Absent =>
                  (admissions[j] # Absent => admissions[j].status # "removed")

\* A token waiting for delivery to its receiver is one the relay would accept.
DeliverableAdmitted == \A k \in Held(registrations) : Admitted(registrations[k].token)

\* Advertisements, offers and tokens held for delivery never say more than the
\* saved policy does, whatever was approved, removed, replaced or expired before.
CachesFollowPolicy == PoolsFollowPolicy /\ OffersResolve /\ DeliverableAdmitted

\* A removed route is reopened in the running process only by a record that is
\* also on disk: a failed approval cannot reopen admission.
ReopenIsDurable ==
    [][\A k \in Routes :
        (admissions[k] # Absent /\ admissions[k].status = "removed"
            /\ (admissions'[k] = Absent \/ admissions'[k].status # "removed"))
        => disk'[k] = admissions'[k]]_inventoryVars

=============================================================================
