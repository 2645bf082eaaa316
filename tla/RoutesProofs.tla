----------------------------- MODULE RoutesProofs -----------------------------
(***************************************************************************)
(* Proofs about the admission inventory, for any number of routes, tokens  *)
(* and connections and any clock.                                          *)
(*                                                                         *)
(* RemovalIsFinal is not inductive: it speaks of the running process only, *)
(* while a restart replaces the inventory by the saved one, and it needs   *)
(* to know that the cutoff of a removal lies after every token released.   *)
(* IInv adds what the saved file holds: no released token is younger than  *)
(* the last one recorded (Covered), the file is not behind memory          *)
(* (DiskNotBehind), and every revoked token lies within the cutoff in      *)
(* memory and on disk (CutoffHeld).                                        *)
(*                                                                         *)
(* CachesFollowPolicy needs CacheInv on top: PoolsGood says of the three   *)
(* pools what the policy in force allows (it is proved of each operator    *)
(* once: Only, Expire, StorePending, CacheAdvertisement, Promote, Retire), *)
(* and the tokens held for delivery or by a connection are released ones.  *)
(* LegacyOneRoot is the one hypothesis: the tokens of a route that predate *)
(* the inventory name one root.                                            *)
(***************************************************************************)
EXTENDS RouteInventory, CarrierQueue, SequenceTheorems, FiniteSetTheorems, TLAPS

PoolsType == [live: Pool, retained: Pool, pending: Pool]
Inventory == [Routes -> Records \cup {Absent}]

Covered ==
    \A t \in tokens : t.issued <= 1 \/
        (admissions[t.route] # Absent /\ t.issued <= admissions[t.route].last)

DiskNotBehind ==
    \A k \in Routes : admissions[k] # Absent =>
        disk[k] # Absent /\ admissions[k].last <= disk[k].last

CutoffIn(inv) == \A t \in revoked : inv[t.route] # Absent /\ t.issued <= inv[t.route].reject

CutoffHeld == CutoffIn(admissions) /\ CutoffIn(disk)

IInv == InventoryTypeOK /\ Covered /\ DiskNotBehind /\ CutoffHeld

-----------------------------------------------------------------------------
(* The advertisement operators keep the pools well typed. *)

\* A copy stored in one pool only leaves three well-typed pools.
LEMMA OnlyType ==
    ASSUME NEW p \in PoolsType, NEW k \in Routes, NEW pool, NEW entry \in CacheEntries
    PROVE  Only(p, k, pool, entry) \in PoolsType
  BY DEF Only, PoolsType, Pool

\* Dropping expired entries (expireAdvertisementsLocked) keeps the types.
LEMMA ExpireType ==
    ASSUME NEW p \in PoolsType, NEW at \in Int
    PROVE  Expire(p, at) \in PoolsType
  BY DEF Expire, PoolsType, Pool

\* Dropping expired deliveries keeps the types.
LEMMA ExpireRegistrationsType ==
    ASSUME NEW g \in [Routes -> Deliveries \cup {Absent}], NEW at \in Int
    PROVE  ExpireRegistrations(g, at) \in [Routes -> Deliveries \cup {Absent}]
  BY DEF ExpireRegistrations

\* The local expiry of an advertisement is a time.
LEMMA ExpiryType ==
    ASSUME NEW ad \in Ads, NEW at \in Int, NEW ttl \in Int
    PROVE  AdvertisementExpiry(ad, at, ttl) \in Int
  BY InputsAssumption DEF AdvertisementExpiry, Earlier

\* What advertisementLocked returns is an entry of one of the pools.
LEMMA AdvertisementInType ==
    ASSUME NEW p \in PoolsType, NEW k \in Routes
    PROVE  AdvertisementIn(p, k) \in CacheEntries \cup {Absent}
  BY DEF AdvertisementIn, PoolsType, Pool

\* promoteAdvertisementLocked keeps the types.
LEMMA PromoteType ==
    ASSUME NEW p \in PoolsType, NEW k \in Routes, NEW inv, NEW at \in Int
    PROVE  Promote(inv, p, k, at) \in PoolsType
  <1> DEFINE entry == IF p.pending[k] # Absent THEN p.pending[k] ELSE p.retained[k]
             fresh == [entry EXCEPT !.expires = AdvertisementExpiry(entry.ad, at, LiveTTL)]
  <1>1. CASE entry = Absent \/ ~Protects(inv, k, entry)
    BY <1>1 DEF Promote
  <1>2. CASE ~(entry = Absent \/ ~Protects(inv, k, entry))
    <2>1. entry \in CacheEntries
      BY <1>2 DEF PoolsType, Pool
    <2>2. AdvertisementExpiry(entry.ad, at, LiveTTL) \in Int
      BY <2>1, ExpiryType, BoundsAssumption DEF CacheEntries
    <2>3. fresh \in CacheEntries
      BY <2>1, <2>2 DEF CacheEntries
    <2>4. Only(p, k, "live", fresh) \in PoolsType
      BY <2>3, OnlyType
    <2> QED BY <1>2, <2>4 DEF Promote
  <1> QED BY <1>1, <1>2

\* storePendingAdvertisementLocked keeps the types.
LEMMA StorePendingType ==
    ASSUME NEW p \in PoolsType, NEW k \in Routes, NEW entry \in CacheEntries, NEW at \in Int,
           NEW q \in StorePending(p, k, entry, at)
    PROVE  q \in PoolsType
  <1> DEFINE stored == [entry EXCEPT !.expires = AdvertisementExpiry(entry.ad, at, PendingTTL)]
  <1>1. stored \in CacheEntries
    <2>1. AdvertisementExpiry(entry.ad, at, PendingTTL) \in Int
      BY ExpiryType, BoundsAssumption DEF CacheEntries
    <2> QED BY <2>1 DEF CacheEntries
  <1>2. \A e : [p EXCEPT !.pending[e] = Absent] \in PoolsType
    BY DEF PoolsType, Pool
  <1>3. \E room \in PoolsType : q = Only(room, k, "pending", stored)
    BY <1>2 DEF StorePending
  <1> QED BY <1>1, <1>3, OnlyType

\* cacheAdvertisementLocked keeps the types.
LEMMA CacheType ==
    ASSUME NEW p \in PoolsType, NEW k \in Routes, NEW ad \in Ads, NEW offer \in Offers \cup {Absent},
           NEW at \in Int, NEW q \in CacheAdvertisement(p, k, ad, offer, at)
    PROVE  q \in PoolsType
  <1> DEFINE entry == WithOffer(p, k, ad, offer)
             live == [entry EXCEPT !.expires = AdvertisementExpiry(ad, at, LiveTTL)]
  <1>1. entry \in CacheEntries
    BY AdvertisementInType DEF WithOffer, CacheEntries
  <1>2. live \in CacheEntries
    BY <1>1, ExpiryType, BoundsAssumption DEF CacheEntries
  <1>3. q \in StorePending(p, k, entry, at) \/ q = Only(p, k, "live", live)
    <2> HIDE DEF entry
    <2> QED BY DEF CacheAdvertisement, entry
  <1> QED BY <1>1, <1>2, <1>3, StorePendingType, OnlyType

-----------------------------------------------------------------------------
(* Saving a record. *)

\* What saveAdmissionLocked may leave behind: memory and file are each either
\* as before or the stored inventory; success means the record is in both or
\* was in memory already; a failure keeps only a removal.
SaveResult(o, k, next, stored) ==
    /\ o.pools \in PoolsType
    /\ o.inv \in {admissions, stored}
    /\ o.disk \in {disk, stored}
    /\ o.ok \in BOOLEAN
    /\ o.ok = TRUE => o.inv[k] = next
    /\ o.ok = TRUE =>
          \/ o.inv = stored /\ o.disk = stored
          \/ o.inv = admissions /\ o.disk = disk /\ next.status # "removed"
    /\ o.ok = FALSE /\ next.status # "removed" => o.inv = admissions
    /\ \/ o.inv = admissions /\ o.disk = disk
       \/ admissions[k] # Absent
       \/ Cardinality(Held(admissions)) < MaxRecords

\* Every outcome of saveAdmissionLocked is of this kind.
LEMMA SaveFacts ==
    ASSUME NEW p \in PoolsType, NEW k \in Routes, NEW next, InventoryTypeOK,
           NEW o \in SaveAdmission(p, k, next)
    PROVE  SaveResult(o, k, next, [admissions EXCEPT ![k] = next])
  <1> DEFINE previous == admissions[k]
             stored == [admissions EXCEPT ![k] = next]
             ad == AdvertisementIn(p, k)
             refused == \/ previous = Absent /\ Cardinality(Held(admissions)) >= MaxRecords
                        \/ /\ ad # Absent
                           /\ next.status # "removed"
                           /\ next.root = ad.ad.root
                           /\ ~ProtectedCapacity(p, k)
  <1>t. admissions \in Inventory /\ now \in Int
    BY BoundsAssumption DEF InventoryTypeOK, Inventory, Times
  <1>p. /\ Promote(admissions, p, k, now) \in PoolsType
        /\ Promote(stored, p, k, now) \in PoolsType
    BY <1>t, PromoteType
  <1>k. stored[k] = next
    BY <1>t DEF Inventory
  <1>1. CASE refused
    <2>1. o = Outcome(FALSE, admissions, disk, p)
      BY <1>1 DEF SaveAdmission
    <2> QED BY <2>1 DEF Outcome, SaveResult
  <1>2. CASE ~refused /\ previous = next /\ next.status # "removed"
    <2>1. o = Outcome(TRUE, admissions, disk, Promote(admissions, p, k, now))
      BY <1>2 DEF SaveAdmission
    <2> QED BY <2>1, <1>2, <1>p DEF Outcome, SaveResult
  <1>3. CASE ~refused /\ ~(previous = next /\ next.status # "removed")
    <2>r. admissions[k] # Absent \/ ~(Cardinality(Held(admissions)) >= MaxRecords)
      BY <1>3
    <2>c. Cardinality(Held(admissions)) \in Nat
      BY BoundsAssumption, FS_Subset, FS_CardinalityType DEF Held
    <2>d. admissions[k] # Absent \/ Cardinality(Held(admissions)) < MaxRecords
      BY <2>r, <2>c, BoundsAssumption
    <2>1. \/ o = Outcome(TRUE, stored, stored, Promote(stored, p, k, now))
          \/ \E d \in {disk, stored} :
                o = Outcome(FALSE, IF next.status = "removed" THEN stored ELSE admissions, d, p)
      BY <1>3 DEF SaveAdmission
    <2>2. CASE o = Outcome(TRUE, stored, stored, Promote(stored, p, k, now))
      <3>1. o.ok = TRUE /\ o.inv = stored /\ o.disk = stored /\ o.pools = Promote(stored, p, k, now)
        BY <2>2 DEF Outcome
      <3> QED BY <3>1, <2>d, <1>p, <1>k DEF SaveResult
    <2>3. ASSUME NEW d \in {disk, stored},
                 o = Outcome(FALSE, IF next.status = "removed" THEN stored ELSE admissions, d, p)
          PROVE  LET s == [admissions EXCEPT ![k] = next]
                 IN  /\ o.ok = FALSE
                     /\ o.pools = p
                     /\ o.inv \in {admissions, s}
                     /\ next.status # "removed" => o.inv = admissions
                     /\ o.disk \in {disk, s}
      BY <2>3 DEF Outcome
    <2> QED BY <2>1, <2>2, <2>3, <2>d DEF SaveResult
  <1> QED BY <1>1, <1>2, <1>3

\* An outcome that keeps the invariant: both inventories are well typed, memory
\* only grows, the file is not behind it, and no cutoff is lost.
GoodOutcome(o) ==
    /\ o.pools \in PoolsType /\ o.inv \in Inventory /\ o.disk \in Inventory
    /\ o.ok \in BOOLEAN
    /\ \A j \in Routes : admissions[j] # Absent =>
          o.inv[j] # Absent /\ admissions[j].last <= o.inv[j].last
    /\ \A j \in Routes : o.inv[j] # Absent =>
          o.disk[j] # Absent /\ o.inv[j].last <= o.disk[j].last
    /\ CutoffIn(o.inv) /\ CutoffIn(o.disk)

\* A refusal leaves everything as it was.
LEMMA RefusedGood ==
    ASSUME IInv, NEW p \in PoolsType
    PROVE  GoodOutcome(Outcome(FALSE, admissions, disk, p))
  <1> DEFINE o == Outcome(FALSE, admissions, disk, p)
  <1>1. o.ok = FALSE /\ o.inv = admissions /\ o.disk = disk /\ o.pools = p
    BY DEF Outcome
  <1>2. admissions \in Inventory /\ disk \in Inventory
    BY DEF IInv, InventoryTypeOK, Inventory
  <1>3. \A j \in Routes : admissions[j] # Absent => admissions[j].last <= admissions[j].last
    BY <1>2 DEF Inventory, Records, Stamps
  <1> QED BY <1>1, <1>2, <1>3 DEF GoodOutcome, IInv, DiskNotBehind, CutoffHeld

\* Saving a record that is not older than the one it replaces is a good outcome,
\* whether or not the save succeeds and whether or not it reached the disk.
LEMMA SaveGood ==
    ASSUME IInv, NEW p \in PoolsType, NEW k \in Routes, NEW next \in Records,
           admissions[k] # Absent =>
              admissions[k].last <= next.last /\ admissions[k].reject <= next.reject,
           next.status = "removed" => admissions[k] # Absent /\ next.last = admissions[k].last,
           NEW o \in SaveAdmission(p, k, next)
    PROVE  GoodOutcome(o)
  <1> DEFINE stored == [admissions EXCEPT ![k] = next]
  <1>t. /\ InventoryTypeOK /\ admissions \in Inventory /\ disk \in Inventory
        /\ \A t \in revoked : t.route \in Routes /\ t.issued \in Int
    BY DEF IInv, InventoryTypeOK, Inventory, Tokens, Stamps
  <1>s. /\ o.pools \in PoolsType
        /\ o.inv \in {admissions, stored}
        /\ o.disk \in {disk, stored}
        /\ o.ok \in BOOLEAN
        /\ o.inv = admissions \/ o.disk = stored \/ next.status = "removed"
    <2>1. SaveResult(o, k, next, stored)
      BY <1>t, SaveFacts
    <2>2. CASE o.ok = TRUE
      BY <2>1, <2>2 DEF SaveResult
    <2>3. CASE o.ok = FALSE
      BY <2>1, <2>3 DEF SaveResult
    <2> QED BY <2>1, <2>2, <2>3 DEF SaveResult
  <1>u. stored \in Inventory /\ stored[k] = next /\ \A j \in Routes : j # k => stored[j] = admissions[j]
    BY <1>t DEF Inventory
  <1>n. next # Absent /\ next.last \in Int /\ next.reject \in Int
    BY AbsentAssumption DEF Records, Stamps
  <1>i. /\ \A j \in Routes : admissions[j] # Absent => admissions[j].last \in Int /\ admissions[j].reject \in Int
        /\ \A j \in Routes : disk[j] # Absent => disk[j].last \in Int /\ disk[j].reject \in Int
    BY <1>t DEF Inventory, Records, Stamps
  <1>1. \A j \in Routes : admissions[j] # Absent =>
          /\ stored[j] # Absent
          /\ admissions[j].last <= stored[j].last
          /\ admissions[j].reject <= stored[j].reject
    BY <1>u, <1>n, <1>i
  <1>2. CutoffIn(admissions) /\ CutoffIn(disk) /\ DiskNotBehind
    BY DEF IInv, CutoffHeld
  <1>3. CutoffIn(stored)
    <2> SUFFICES ASSUME NEW t \in revoked
                 PROVE  stored[t.route] # Absent /\ t.issued <= stored[t.route].reject
      BY DEF CutoffIn
    <2>1. admissions[t.route] # Absent /\ t.issued <= admissions[t.route].reject
      BY <1>2 DEF CutoffIn
    <2>2. stored[t.route].reject \in Int
      BY <1>t, <1>u, <1>n, <1>i, <2>1
    <2> QED BY <1>t, <1>1, <1>i, <2>1, <2>2
  <1>4. \A j \in Routes : o.inv[j] # Absent => o.disk[j] # Absent /\ o.inv[j].last <= o.disk[j].last
    <2> SUFFICES ASSUME NEW j \in Routes, o.inv[j] # Absent
                 PROVE  o.disk[j] # Absent /\ o.inv[j].last <= o.disk[j].last
      OBVIOUS
    <2>1. CASE o.inv = admissions /\ o.disk = disk
      BY <2>1, <1>2 DEF DiskNotBehind
    <2>2. CASE o.inv = admissions /\ o.disk = stored
      BY <2>2, <1>1
    <2>3. CASE o.inv = stored /\ o.disk = stored
      BY <2>3, <1>u, <1>n, <1>i
    <2>4. CASE o.inv = stored /\ o.disk = disk /\ next.status = "removed"
      <3>1. admissions[j] # Absent /\ stored[j].last = admissions[j].last
        BY <2>4, <1>u
      <3> QED BY <3>1, <2>4, <1>2 DEF DiskNotBehind
    <2> QED BY <2>1, <2>2, <2>3, <2>4, <1>s
  <1>5. \A j \in Routes : admissions[j] # Absent => o.inv[j] # Absent /\ admissions[j].last <= o.inv[j].last
    <2>1. \A j \in Routes : admissions[j] # Absent => admissions[j].last <= admissions[j].last
      BY <1>i
    <2>2. CASE o.inv = admissions
      BY <2>1, <2>2
    <2>3. CASE o.inv = stored
      BY <2>3, <1>1
    <2> QED BY <1>s, <2>2, <2>3
  <1> QED BY <1>s, <1>t, <1>u, <1>2, <1>3, <1>4, <1>5 DEF GoodOutcome

\* The later of two stamps is a stamp, and at least each of them.
LEMMA LaterFacts ==
    ASSUME NEW a \in Stamps, NEW b \in Stamps
    PROVE  Later(a, b) \in Stamps /\ a <= Later(a, b) /\ b <= Later(a, b)
  BY BoundsAssumption DEF Later, Stamps

\* Recording the claims of a token (recordClaimsLocked) is a good outcome, and
\* once it succeeds the token is not younger than the last one recorded.
LEMMA RecordClaimsGood ==
    ASSUME IInv, NEW p \in PoolsType, NEW t \in Tokens,
           NEW status \in {"approved", "observed"},
           NEW o \in RecordClaims(p, t, status)
    PROVE  /\ GoodOutcome(o)
           /\ o.ok = TRUE => o.inv[t.route] # Absent /\ t.issued <= o.inv[t.route].last
  <1> DEFINE next == RecordFor(t, status)
  <1>t. /\ InventoryTypeOK /\ admissions \in Inventory /\ t.route \in Routes
        /\ t.root \in Roots /\ t.issued \in Stamps
    BY DEF IInv, InventoryTypeOK, Inventory, Tokens
  <1>1. CASE ~Admitted(t)
    <2>1. o = Outcome(FALSE, admissions, disk, p)
      BY <1>1 DEF RecordClaims
    <2> QED BY <2>1, RefusedGood DEF Outcome
  <1>2. CASE Admitted(t)
    <2>1. o \in SaveAdmission(p, t.route, next)
      BY <1>2 DEF RecordClaims
    <2>2. /\ next \in Records /\ t.issued <= next.last /\ next.status # "removed"
          /\ admissions[t.route] # Absent =>
                admissions[t.route].last <= next.last /\ admissions[t.route].reject <= next.reject
      <3>1. CASE admissions[t.route] = Absent
        <4>1. next = [root |-> t.root, status |-> status, last |-> t.issued, reject |-> 0]
          BY <3>1 DEF RecordFor
        <4> QED BY <4>1, <3>1, <1>t, BoundsAssumption DEF Records, Statuses, Stamps
      <3>2. CASE admissions[t.route] # Absent
        <4> DEFINE r == admissions[t.route]
        <4>1. r \in Records
          BY <3>2, <1>t DEF Inventory
        <4>2. r.status # "removed"
          BY <1>2, <3>2 DEF Admitted, RejectsIn
        <4>3. next = [r EXCEPT !.status = IF status = "observed" THEN status ELSE @,
                               !.last = Later(@, t.issued)]
          BY <3>2 DEF RecordFor
        <4>4. r.last \in Stamps /\ r.reject \in Stamps
          BY <4>1 DEF Records
        <4>5. Later(r.last, t.issued) \in Stamps /\ r.last <= Later(r.last, t.issued)
                /\ t.issued <= Later(r.last, t.issued)
          BY <4>4, <1>t, LaterFacts
        <4>6. r.reject <= r.reject
          BY <4>4 DEF Stamps
        <4> HIDE DEF r
        <4>7. /\ next.last = Later(r.last, t.issued) /\ next.reject = r.reject
              /\ next.status = (IF status = "observed" THEN status ELSE r.status)
              /\ next.root = r.root
              /\ next \in [root: Roots, status: Statuses, last: Stamps, reject: Stamps]
          BY <4>1, <4>3, <4>5 DEF Records, Statuses
        <4> QED BY <4>2, <4>5, <4>6, <4>7 DEF Records, r
      <3> QED BY <3>1, <3>2
    <2>3. GoodOutcome(o)
      BY <2>1, <2>2, <1>t, SaveGood
    <2>4. o.ok = TRUE => o.inv[t.route] = next
      <3>1. SaveResult(o, t.route, next, [admissions EXCEPT ![t.route] = next])
        <4> HIDE DEF next
        <4> QED BY <2>1, <2>2, <1>t, SaveFacts
      <3> QED BY <3>1 DEF SaveResult
    <2>5. next # Absent
      BY <2>2, AbsentAssumption
    <2> QED BY <2>2, <2>3, <2>4, <2>5
  <1> QED BY <1>1, <1>2

-----------------------------------------------------------------------------
(* The invariant. *)

ConnType == {Idle} \cup [phase: {"tracked", "observed"}, token: Tokens, renewal: BOOLEAN]

\* Installing a good outcome keeps the invariant's facts about memory and disk;
\* tokens released before stay covered.
LEMMA InstallGood ==
    ASSUME IInv, NEW o, GoodOutcome(o), Install(o)
    PROVE  /\ admissions' \in Inventory /\ disk' \in Inventory /\ pools' \in PoolsType
           /\ DiskNotBehind'
           /\ CutoffIn(admissions') /\ CutoffIn(disk')
           /\ \A t \in tokens : t.issued <= 1 \/
                 (admissions'[t.route] # Absent /\ t.issued <= admissions'[t.route].last)
  <1>1. admissions' = o.inv /\ disk' = o.disk /\ pools' = o.pools
    BY DEF Install
  <1>2. /\ admissions' \in Inventory /\ disk' \in Inventory /\ pools' \in PoolsType
        /\ DiskNotBehind'
        /\ CutoffIn(admissions') /\ CutoffIn(disk')
    BY <1>1 DEF GoodOutcome, DiskNotBehind
  <1>3. ASSUME NEW t \in tokens, ~(t.issued <= 1)
        PROVE  admissions'[t.route] # Absent /\ t.issued <= admissions'[t.route].last
    <2>1. t.route \in Routes /\ t.issued \in Int
      BY DEF IInv, InventoryTypeOK, Tokens, Stamps
    <2>2. admissions[t.route] # Absent /\ t.issued <= admissions[t.route].last
      BY <1>3 DEF IInv, Covered
    <2>3. admissions'[t.route] # Absent /\ admissions[t.route].last <= admissions'[t.route].last
      BY <1>1, <2>1, <2>2 DEF GoodOutcome
    <2>4. admissions[t.route].last \in Int /\ admissions'[t.route].last \in Int
      BY <2>1, <2>2, <2>3, <1>2 DEF IInv, InventoryTypeOK, Inventory, Records, Stamps
    <2> QED BY <2>1, <2>2, <2>3, <2>4
  <1> QED BY <1>2, <1>3

\* The initial state satisfies the invariant.
LEMMA InitIInv == InventoryInit => IInv
  <1> SUFFICES ASSUME InventoryInit PROVE IInv
    OBVIOUS
  <1>1. InventoryTypeOK
    <2>1. Empty \in Inventory /\ Empty \in Pool /\ Empty \in [Routes -> Deliveries \cup {Absent}]
      BY DEF Empty, Inventory, Pool
    <2> QED BY <2>1, InputsAssumption DEF InventoryInit, InventoryTypeOK, Inventory
  <1>2. Covered
    BY InputsAssumption DEF InventoryInit, Covered
  <1>3. DiskNotBehind
    BY DEF InventoryInit, DiskNotBehind, Empty
  <1>4. CutoffHeld
    BY DEF InventoryInit, CutoffHeld, CutoffIn
  <1> QED BY <1>1, <1>2, <1>3, <1>4 DEF IInv

\* A step that leaves the inventory, the file and the released tokens alone
\* keeps the invariant.
LEMMA QuietStep ==
    ASSUME IInv, UNCHANGED <<admissions, disk, tokens, revoked>>, now' \in Times,
           pools' \in PoolsType, registrations' \in [Routes -> Deliveries \cup {Absent}],
           conns' \in [Conns -> ConnType]
    PROVE  IInv'
  BY DEF IInv, InventoryTypeOK, Covered, DiskNotBehind, CutoffHeld, CutoffIn, PoolsType, ConnType

\* A step that installs a good outcome and releases nothing, or one token that
\* the outcome has recorded, keeps the invariant.
LEMMA InstallStep ==
    ASSUME IInv, NEW o, GoodOutcome(o), Install(o), now' = now, revoked' = revoked,
           registrations' \in [Routes -> Deliveries \cup {Absent}], conns' \in [Conns -> ConnType],
           NEW t \in Tokens,
           \/ tokens' = tokens
           \/ /\ tokens' = tokens \cup {t}
              /\ o.inv[t.route] # Absent /\ t.issued <= o.inv[t.route].last
    PROVE  IInv'
  <1>1. /\ admissions' \in Inventory /\ disk' \in Inventory /\ pools' \in PoolsType
        /\ DiskNotBehind'
        /\ CutoffIn(admissions') /\ CutoffIn(disk')
        /\ \A s \in tokens : s.issued <= 1 \/
              (admissions'[s.route] # Absent /\ s.issued <= admissions'[s.route].last)
    BY InstallGood
  <1>2. tokens' \subseteq Tokens /\ revoked' \subseteq tokens'
    BY DEF IInv, InventoryTypeOK
  <1>3. InventoryTypeOK'
    BY <1>1, <1>2 DEF IInv, InventoryTypeOK, Inventory, PoolsType, ConnType
  <1>4. Covered'
    BY <1>1 DEF Covered, Install
  <1>5. CutoffHeld'
    BY <1>1 DEF CutoffHeld, CutoffIn
  <1> QED BY <1>1, <1>3, <1>4, <1>5 DEF IInv

\* What a local approval reads, mints and saves.
Listed(k) == AdvertisementIn(Expire(pools, now), k).ad
Minted(k, validity) ==
    [route |-> k, root |-> Listed(k).root, issued |-> IssueTime(k), validity |-> validity]
Granted(k) ==
    IF admissions[k] = Absent
    THEN [root |-> Listed(k).root, status |-> "approved", last |-> IssueTime(k), reject |-> 0]
    ELSE [admissions[k] EXCEPT !.status = IF @ = "observed" THEN @ ELSE "approved",
                               !.last = Later(@, IssueTime(k))]

\* The record admits the token: same root, and a cutoff before it.
LEMMA ApproveFacts ==
    ASSUME IInv, NEW k \in Routes, NEW validity \in Validities, Approve(k, validity)
    PROVE  /\ Listed(k) \in Ads /\ Minted(k, validity) \in Tokens
           /\ Minted(k, validity).route = k /\ Minted(k, validity).issued = IssueTime(k)
           /\ Minted(k, validity).root = Listed(k).root
           /\ Granted(k) \in Records /\ Granted(k).status # "removed"
           /\ Granted(k).root = Listed(k).root
           /\ Granted(k).reject < IssueTime(k) /\ IssueTime(k) <= Granted(k).last
           /\ admissions[k] # Absent =>
                 /\ admissions[k].root = Listed(k).root
                 /\ admissions[k].last <= Granted(k).last /\ admissions[k].reject <= Granted(k).reject
  <1> DEFINE p == Expire(pools, now)
             ad == Listed(k)
             policy == admissions[k]
             t == Minted(k, validity)
             record == Granted(k)
  <1>t. now \in Times /\ now \in Int /\ pools \in PoolsType /\ admissions \in Inventory
    BY BoundsAssumption DEF IInv, InventoryTypeOK, Inventory, PoolsType, Times
  <1>1. p \in PoolsType
    BY <1>t, ExpireType
  <1>2. ad \in Ads /\ ad.root \in Roots
    <2>1. AdvertisementIn(p, k) # Absent
      BY DEF Approve, Registrable
    <2>2. AdvertisementIn(p, k) \in CacheEntries
      BY <1>1, <2>1, AdvertisementInType
    <2> QED BY <2>2, InputsAssumption DEF CacheEntries, Listed
  <1>3. /\ IssueTime(k) \in Stamps \ {0} /\ IssueTime(k) > 0
        /\ policy # Absent => IssueTime(k) > policy.reject
    <2>1. IssueTime(k) <= now + Ahead
      BY DEF Approve
    <2>2. policy # Absent => policy.reject \in Stamps
      BY <1>t DEF Inventory, Records
    <2> QED BY <2>1, <2>2, <1>t, BoundsAssumption DEF IssueTime, Stamps, Times
  <1>p. policy # Absent => policy.root = ad.root
    BY DEF Approve, Listed
  <1>4. t \in Tokens /\ t.issued = IssueTime(k) /\ t.route = k /\ t.root = ad.root
    <2> HIDE DEF ad
    <2>1. t = [route |-> k, root |-> ad.root, issued |-> IssueTime(k), validity |-> validity]
      BY DEF Minted, ad
    <2> HIDE DEF t
    <2> QED BY <1>2, <1>3, <2>1 DEF Tokens
  <1>6. /\ record \in Records /\ IssueTime(k) <= record.last /\ record.status # "removed"
        /\ policy # Absent => policy.last <= record.last /\ policy.reject <= record.reject
        /\ record.reject < IssueTime(k) /\ record.root = ad.root
    <2>1. CASE policy = Absent
      <3>1. record = [root |-> ad.root, status |-> "approved", last |-> IssueTime(k), reject |-> 0]
        BY <2>1 DEF Granted
      <3> HIDE DEF record, ad
      <3> QED BY <3>1, <2>1, <1>2, <1>3, BoundsAssumption DEF Records, Statuses, Stamps
    <2>2. CASE policy # Absent
      <3>1. policy \in Records /\ policy.last \in Stamps /\ policy.reject \in Stamps
        BY <2>2, <1>t DEF Inventory, Records
      <3>2. /\ Later(policy.last, IssueTime(k)) \in Stamps
            /\ policy.last <= Later(policy.last, IssueTime(k))
            /\ IssueTime(k) <= Later(policy.last, IssueTime(k))
        BY <3>1, <1>3, LaterFacts
      <3>3. record = [policy EXCEPT !.status = IF @ = "observed" THEN @ ELSE "approved",
                                    !.last = Later(@, IssueTime(k))]
        BY <2>2 DEF Granted
      <3>4. policy.reject <= policy.reject
        BY <3>1 DEF Stamps
      <3> HIDE DEF record, policy
      <3>5. /\ record.last = Later(policy.last, IssueTime(k)) /\ record.reject = policy.reject
            /\ record.status \in {"observed", "approved"} /\ record.root = policy.root
            /\ record \in [root: Roots, status: Statuses, last: Stamps, reject: Stamps]
        BY <3>1, <3>2, <3>3 DEF Records, Statuses
      <3>6. record.reject < IssueTime(k)
        BY <2>2, <3>1, <3>5, <1>3 DEF Stamps
      <3> QED BY <2>2, <1>p, <3>2, <3>4, <3>5, <3>6 DEF Records
    <2> QED BY <2>1, <2>2
  <1> QED BY <1>2, <1>4, <1>6, <1>p

\* A local approval (RegisterReceiver issuing a token) saves a valid record, has
\* a good outcome, and releases at most one token, which it has recorded.
LEMMA ApproveOutcome ==
    ASSUME IInv, NEW k \in Routes, NEW validity \in Validities, Approve(k, validity)
    PROVE  /\ now' = now /\ revoked' = revoked /\ conns' = conns
           /\ registrations' \in [Routes -> Deliveries \cup {Absent}]
           /\ Expire(pools, now) \in PoolsType
           /\ \E next \in Records, t \in Tokens : \E o \in SaveAdmission(Expire(pools, now), k, next) :
                 /\ GoodOutcome(o) /\ Install(o) /\ ValidRecord(next)
                 /\ \/ tokens' = tokens
                    \/ /\ tokens' = tokens \cup {t}
                       /\ o.inv[t.route] # Absent /\ t.issued <= o.inv[t.route].last
  <1> DEFINE p == Expire(pools, now)
             kept == ExpireRegistrations(registrations, now)
             ad == Listed(k)
             t == Minted(k, validity)
             record == Granted(k)
  <1>t. /\ InventoryTypeOK /\ now \in Int /\ pools \in PoolsType /\ admissions \in Inventory
        /\ registrations \in [Routes -> Deliveries \cup {Absent}] /\ conns \in [Conns -> ConnType]
    BY BoundsAssumption DEF IInv, InventoryTypeOK, Inventory, PoolsType, ConnType, Times
  <1>1. p \in PoolsType /\ kept \in [Routes -> Deliveries \cup {Absent}]
    BY <1>t, ExpireType, ExpireRegistrationsType
  <1>f. /\ ad \in Ads /\ t \in Tokens /\ t.issued = IssueTime(k) /\ t.route = k
        /\ record \in Records /\ IssueTime(k) <= record.last /\ record.status # "removed"
        /\ admissions[k] # Absent =>
              admissions[k].last <= record.last /\ admissions[k].reject <= record.reject
        /\ record.reject < IssueTime(k)
    BY ApproveFacts
  <1>5. [token |-> t, ad |-> ad] \in Deliveries
    BY <1>f DEF Deliveries
  <1>7. PICK o \in SaveAdmission(p, k, record) :
          /\ Install(o)
          /\ registrations' = IF o.ok THEN [kept EXCEPT ![k] = [token |-> t, ad |-> ad]] ELSE kept
          /\ tokens' = IF o.ok THEN tokens \cup {t} ELSE tokens
    BY DEF Approve, Minted, Listed, Granted
  <1>8. now' = now /\ revoked' = revoked /\ conns' = conns
    BY DEF Approve
  <1> HIDE DEF p, kept, ad, t, record
  <1>9. GoodOutcome(o)
    BY <1>1, <1>f, SaveGood
  <1>10. SaveResult(o, k, record, [admissions EXCEPT ![k] = record])
    BY <1>1, <1>f, <1>t, SaveFacts
  <1>11. record # Absent
    BY <1>f, AbsentAssumption
  <1>12. registrations' \in [Routes -> Deliveries \cup {Absent}]
    BY <1>1, <1>5, <1>7
  <1>13. \/ tokens' = tokens
         \/ /\ tokens' = tokens \cup {t}
            /\ o.inv[t.route] # Absent /\ t.issued <= o.inv[t.route].last
    <2>1. CASE o.ok = TRUE
      BY <2>1, <1>f, <1>7, <1>10, <1>11 DEF SaveResult
    <2>2. CASE o.ok = FALSE
      BY <2>2, <1>7
    <2> QED BY <2>1, <2>2, <1>10 DEF SaveResult
  <1>14. ValidRecord(record)
    <2>1. record.last \in Int /\ record.reject \in Int /\ IssueTime(k) \in Int /\ IssueTime(k) > 0
      BY <1>f, BoundsAssumption DEF Records, Stamps, Tokens
    <2> QED BY <2>1, <1>f DEF ValidRecord
  <1>15. Expire(pools, now) \in PoolsType /\ o \in SaveAdmission(Expire(pools, now), k, record)
    BY <1>1 DEF p
  <1> QED BY <1>f, <1>7, <1>8, <1>9, <1>12, <1>13, <1>14, <1>15

\* A local approval keeps the invariant.
LEMMA ApproveStep ==
    ASSUME IInv, NEW k \in Routes, NEW validity \in Validities, Approve(k, validity)
    PROVE  IInv'
  <1>1. /\ now' = now /\ revoked' = revoked /\ conns' = conns
        /\ registrations' \in [Routes -> Deliveries \cup {Absent}]
        /\ \E t \in Tokens : \E o :
              /\ GoodOutcome(o) /\ Install(o)
              /\ \/ tokens' = tokens
                 \/ /\ tokens' = tokens \cup {t}
                    /\ o.inv[t.route] # Absent /\ t.issued <= o.inv[t.route].last
    BY ApproveOutcome
  <1>2. conns' \in [Conns -> ConnType]
    BY <1>1 DEF IInv, InventoryTypeOK, ConnType
  <1> QED BY <1>1, <1>2, InstallStep


\* RemoveAdmission leaves its own route removed and the others as they were.
LEMMA RemoveReopensNothing ==
    ASSUME IInv, NEW k \in Routes, RemoveAdmission(k), NEW j \in Routes,
           admissions[j] # Absent, admissions[j].status = "removed"
    PROVE  admissions'[j] # Absent /\ admissions'[j].status = "removed"
  <1> DEFINE record == [admissions[k] EXCEPT !.status = "removed", !.reject = Cutoff(admissions[k])]
  <1>1. /\ InventoryTypeOK /\ pools \in PoolsType /\ admissions \in Inventory
        /\ admissions[k] # Absent /\ now \in Stamps
    BY BoundsAssumption DEF IInv, InventoryTypeOK, Inventory, PoolsType, RemoveAdmission, Times, Stamps
  <1>2. admissions[k] \in Records /\ admissions[k].last \in Stamps /\ admissions[k].reject \in Stamps
    BY <1>1 DEF Inventory, Records
  <1>3. Cutoff(admissions[k]) \in Stamps
    BY <1>1, <1>2 DEF Cutoff, Later
  <1>4. record.status = "removed" /\ record # Absent
    BY <1>2, <1>3, AbsentAssumption DEF Records, Statuses
  <1>5. PICK o \in SaveAdmission(pools, k, record) :
          Install([o EXCEPT !.pools = Retire(o.pools, k)])
    BY DEF RemoveAdmission
  <1> HIDE DEF record
  <1>6. SaveResult(o, k, record, [admissions EXCEPT ![k] = record])
    BY <1>1, SaveFacts
  <1>7. admissions' = o.inv
    <2>1. PICK oi, od, op, ok : o = [ok |-> ok, inv |-> oi, disk |-> od, pools |-> op]
      BY DEF SaveAdmission, Outcome
    <2> QED BY <1>5, <2>1 DEF Install
  <1> QED BY <1>1, <1>4, <1>6, <1>7 DEF SaveResult, Inventory

\* RemoveAdmission keeps the invariant: its cutoff lies after every token
\* released for the route, and an acknowledged removal is on disk.
LEMMA RemoveStep ==
    ASSUME IInv, NEW k \in Routes, RemoveAdmission(k)
    PROVE  IInv'
  <1> DEFINE old == admissions[k]
             record == [old EXCEPT !.status = "removed", !.reject = Cutoff(old)]
             stored == [admissions EXCEPT ![k] = record]
  <1>t. /\ InventoryTypeOK /\ now \in Stamps /\ now >= 1 /\ pools \in PoolsType /\ admissions \in Inventory
        /\ registrations \in [Routes -> Deliveries \cup {Absent}] /\ conns \in [Conns -> ConnType]
        /\ old # Absent
    BY BoundsAssumption DEF IInv, InventoryTypeOK, Inventory, PoolsType, ConnType, Times, Stamps, RemoveAdmission
  <1>1. old \in Records /\ old.last \in Stamps /\ old.reject \in Stamps
    BY <1>t DEF Inventory, Records
  <1>2. /\ Cutoff(old) \in Stamps /\ old.reject <= Cutoff(old) /\ old.last <= Cutoff(old)
        /\ 1 <= Cutoff(old)
    BY <1>t, <1>1, BoundsAssumption DEF Cutoff, Later, Stamps
  <1>3. /\ record \in Records /\ record.last = old.last /\ record.reject = Cutoff(old)
        /\ record.status = "removed" /\ record # Absent
    <2> HIDE DEF old
    <2> QED BY <1>1, <1>2, AbsentAssumption DEF Records, Statuses
  <1>4. PICK o \in SaveAdmission(pools, k, record) :
          /\ Install([o EXCEPT !.pools = Retire(o.pools, k)])
          /\ revoked' = IF o.ok THEN revoked \cup {t \in tokens : t.route = k} ELSE revoked
    BY DEF RemoveAdmission
  <1>5. /\ registrations' = [registrations EXCEPT ![k] = Absent]
        /\ now' = now /\ conns' = conns /\ tokens' = tokens
    BY DEF RemoveAdmission
  <1>6. old.last <= old.last
    BY <1>1 DEF Stamps
  <1> HIDE DEF record, old
  <1>7. GoodOutcome(o)
    BY <1>t, <1>2, <1>3, <1>6, SaveGood DEF old
  <1>8. SaveResult(o, k, record, stored)
    BY <1>t, <1>3, SaveFacts
  <1>9. Retire(o.pools, k) \in PoolsType
    <2>1. o.pools \in PoolsType
      BY <1>8 DEF SaveResult
    <2>2. CASE AdvertisementIn(o.pools, k) = Absent
      BY <2>1, <2>2 DEF Retire
    <2>3. CASE AdvertisementIn(o.pools, k) # Absent /\ ~ProtectedCapacity(o.pools, k)
      BY <2>1, <2>3 DEF Retire, PoolsType, Pool
    <2>4. CASE AdvertisementIn(o.pools, k) # Absent /\ ProtectedCapacity(o.pools, k)
      <3>1. AdvertisementIn(o.pools, k) \in CacheEntries
        BY <2>1, <2>4, AdvertisementInType
      <3>2. [AdvertisementIn(o.pools, k) EXCEPT !.offer = Absent] \in CacheEntries
        BY <3>1 DEF CacheEntries
      <3> QED BY <2>1, <2>4, <3>2, OnlyType DEF Retire
    <2> QED BY <2>2, <2>3, <2>4
  <1> DEFINE q == [inv |-> o.inv, disk |-> o.disk, pools |-> Retire(o.pools, k), ok |-> o.ok]
  <1>10. GoodOutcome(q)
    BY <1>7, <1>9 DEF GoodOutcome
  <1>11. Install(q)
    <2>1. admissions' = o.inv /\ disk' = o.disk /\ pools' = Retire(o.pools, k)
      <3>1. PICK oi, od, op, ok : o = [ok |-> ok, inv |-> oi, disk |-> od, pools |-> op]
        BY DEF SaveAdmission, Outcome
      <3> QED BY <1>4, <3>1 DEF Install
    <2> QED BY <2>1 DEF Install
  <1> HIDE DEF q
  <1>12. /\ admissions' \in Inventory /\ disk' \in Inventory /\ pools' \in PoolsType
         /\ DiskNotBehind'
         /\ CutoffIn(admissions') /\ CutoffIn(disk')
         /\ \A s \in tokens : s.issued <= 1 \/
               (admissions'[s.route] # Absent /\ s.issued <= admissions'[s.route].last)
    BY <1>10, <1>11, InstallGood
  <1>13. InventoryTypeOK'
    <2>1. revoked' \subseteq tokens' /\ tokens' \subseteq Tokens
      BY <1>t, <1>4, <1>5 DEF InventoryTypeOK
    <2>2. registrations' \in [Routes -> Deliveries \cup {Absent}]
      BY <1>t, <1>5
    <2> QED BY <1>t, <1>5, <1>12, <2>1, <2>2 DEF InventoryTypeOK, Inventory, PoolsType
  <1>14. Covered'
    BY <1>5, <1>12 DEF Covered
  <1>15. CutoffHeld'
    <2>1. CASE o.ok = FALSE
      <3>1. revoked' = revoked
        BY <1>4, <2>1
      <3> QED BY <3>1, <1>12 DEF CutoffHeld, CutoffIn
    <2>2. CASE o.ok = TRUE
      <3>1. admissions' = stored /\ disk' = stored
        BY <2>2, <1>3, <1>8, <1>11 DEF SaveResult, Install, q
      <3>2. stored[k] = record
        BY <1>t DEF Inventory
      <3>3. ASSUME NEW t \in tokens, t.route = k
            PROVE  stored[t.route] # Absent /\ t.issued <= stored[t.route].reject
        <4>1. t.issued \in Int
          BY <1>t DEF InventoryTypeOK, Tokens, Stamps
        <4>2. t.issued <= 1 \/ t.issued <= old.last
          BY <3>3 DEF IInv, Covered, old
        <4> QED BY <4>1, <4>2, <3>2, <3>3, <1>1, <1>2, <1>3 DEF Stamps
      <3>4. \A t \in revoked : stored[t.route] # Absent /\ t.issued <= stored[t.route].reject
        BY <1>12, <3>1 DEF CutoffIn
      <3>5. revoked' = revoked \cup {t \in tokens : t.route = k}
        BY <1>4, <2>2
      <3>6. \A t \in revoked' : stored[t.route] # Absent /\ t.issued <= stored[t.route].reject
        BY <3>3, <3>4, <3>5
      <3> QED BY <3>1, <3>6 DEF CutoffHeld, CutoffIn
    <2> QED BY <2>1, <2>2, <1>8 DEF SaveResult
  <1> QED BY <1>12, <1>13, <1>14, <1>15 DEF IInv

\* Observing the claims of an authenticated connection keeps the invariant.
LEMMA ObserveStep ==
    ASSUME IInv, NEW c \in Conns, Observe(c)
    PROVE  IInv'
  <1>t. /\ pools \in PoolsType /\ conns \in [Conns -> ConnType]
        /\ registrations \in [Routes -> Deliveries \cup {Absent}]
    BY DEF IInv, InventoryTypeOK, PoolsType, ConnType
  <1>1. conns[c] \in [phase: {"tracked", "observed"}, token: Tokens, renewal: BOOLEAN]
    BY <1>t DEF Observe, ConnType, Idle
  <1>2. PICK o \in RecordClaims(pools, conns[c].token, "observed") :
          /\ Install(o)
          /\ conns' = [conns EXCEPT ![c] =
                IF o.ok /\ @.renewal THEN [@ EXCEPT !.phase = "observed"] ELSE Idle]
    BY DEF Observe
  <1>3. GoodOutcome(o)
    BY <1>t, <1>1, RecordClaimsGood
  <1>4. conns' \in [Conns -> ConnType]
    <2>1. [conns[c] EXCEPT !.phase = "observed"] \in ConnType
      BY <1>1 DEF ConnType
    <2>2. Idle \in ConnType
      BY DEF ConnType
    <2> QED BY <1>t, <1>2, <2>1, <2>2
  <1>5. /\ now' = now /\ revoked' = revoked /\ tokens' = tokens
        /\ registrations' = registrations /\ conns[c].token \in Tokens
    BY <1>1 DEF Observe
  <1> QED BY <1>t, <1>2, <1>3, <1>4, <1>5, InstallStep

\* A renewal keeps the invariant: what it releases it has recorded.
LEMMA RenewStep ==
    ASSUME IInv, NEW c \in Conns, Renew(c)
    PROVE  IInv'
  <1> DEFINE t == conns[c].token
             r == Renewed(t)
  <1>t. /\ pools \in PoolsType /\ conns \in [Conns -> ConnType] /\ now \in Times
        /\ registrations \in [Routes -> Deliveries \cup {Absent}]
    BY DEF IInv, InventoryTypeOK, PoolsType, ConnType
  <1>1. t \in Tokens
    BY <1>t DEF Renew, ConnType, Idle
  <1>2. r \in Tokens
    <2>1. now \in Stamps \ {0} /\ t.issued \in Stamps \ {0}
      BY <1>t, <1>1, BoundsAssumption DEF Times, Stamps, Tokens
    <2>2. Later(now, t.issued) \in Stamps \ {0}
      BY <2>1 DEF Later
    <2> HIDE DEF t
    <2> QED BY <1>1, <2>2 DEF Renewed, Tokens
  <1>3. /\ now' = now /\ revoked' = revoked /\ registrations' = registrations
        /\ conns' \in [Conns -> ConnType]
    BY <1>t DEF Renew, ConnType
  <1>4. CASE Admitted(t) /\ OpenToken(t, r.issued, TRUE)
    <2>1. PICK o \in RecordClaims(pools, r, "observed") :
            Install(o) /\ tokens' = IF o.ok THEN tokens \cup {r} ELSE tokens
      BY <1>4 DEF Renew
    <2> HIDE DEF r
    <2>2. /\ GoodOutcome(o)
          /\ o.ok = TRUE => o.inv[r.route] # Absent /\ r.issued <= o.inv[r.route].last
      BY <1>t, <1>2, RecordClaimsGood
    <2>3. \/ tokens' = tokens
          \/ /\ tokens' = tokens \cup {r}
             /\ o.inv[r.route] # Absent /\ r.issued <= o.inv[r.route].last
      <3>1. CASE o.ok = TRUE
        BY <3>1, <2>1, <2>2
      <3>2. CASE o.ok = FALSE
        BY <3>2, <2>1
      <3> QED BY <3>1, <3>2, <2>2 DEF GoodOutcome
    <2> QED BY <1>t, <1>2, <1>3, <2>1, <2>2, <2>3, InstallStep
  <1>5. CASE ~(Admitted(t) /\ OpenToken(t, r.issued, TRUE))
    <2>1. UNCHANGED <<admissions, disk, pools, tokens>>
      BY <1>5 DEF Renew
    <2> QED BY <1>t, <1>3, <2>1, QuietStep
  <1> QED BY <1>4, <1>5

\* Every step of the relay keeps the invariant.
LEMMA NextIInv == IInv /\ [InventoryNext]_inventoryVars => IInv'
  <1> SUFFICES ASSUME IInv, [InventoryNext]_inventoryVars PROVE IInv'
    OBVIOUS
  <1>t. /\ InventoryTypeOK /\ now \in Times /\ now \in Int /\ pools \in PoolsType
        /\ registrations \in [Routes -> Deliveries \cup {Absent}] /\ conns \in [Conns -> ConnType]
    BY BoundsAssumption DEF IInv, InventoryTypeOK, PoolsType, ConnType, Times
  <1>e. /\ Expire(pools, now) \in PoolsType
        /\ ExpireRegistrations(registrations, now) \in [Routes -> Deliveries \cup {Absent}]
    BY <1>t, ExpireType, ExpireRegistrationsType
  <1>1. CASE SetClock
    BY <1>1, <1>t, QuietStep DEF SetClock
  <1>2. ASSUME NEW ad \in Ads, PublishAdvertisement(ad) PROVE IInv'
    <2>1. pools' \in PoolsType
      <3>1. pools' \in CacheAdvertisement(Expire(pools, now), ad.route, ad, Absent, now)
        BY <1>2 DEF PublishAdvertisement
      <3> QED BY <3>1, <1>t, <1>e, CacheType, InputsAssumption
    <2> QED BY <2>1, <1>2, <1>t, <1>e, QuietStep DEF PublishAdvertisement
  <1>3. ASSUME NEW ad \in Ads, NEW f \in Offers, PublishOffer(ad, f) PROVE IInv'
    <2>1. pools' \in PoolsType
      <3>1. pools' \in CacheAdvertisement(Expire(pools, now), ad.route, ad, f, now)
        BY <1>3 DEF PublishOffer
      <3> QED BY <3>1, <1>t, <1>e, CacheType, InputsAssumption
    <2> QED BY <2>1, <1>3, <1>t, <1>e, QuietStep DEF PublishOffer
  <1>4. ASSUME NEW ad \in Ads, NEW f \in Offers, NEW t \in tokens, RestoreOffer(ad, f, t)
        PROVE  IInv'
    <2>1. pools' \in PoolsType
      <3>1. pools' \in CacheAdvertisement(Expire(pools, now), ad.route, ad, f, now)
        BY <1>4 DEF RestoreOffer
      <3> QED BY <3>1, <1>t, <1>e, CacheType, InputsAssumption
    <2>2. [token |-> t, ad |-> ad] \in Deliveries
      BY <1>t DEF InventoryTypeOK, Deliveries
    <2>3. registrations' \in [Routes -> Deliveries \cup {Absent}]
      BY <1>4, <1>e, <2>2 DEF RestoreOffer
    <2> QED BY <2>1, <2>3, <1>4, <1>t, QuietStep DEF RestoreOffer
  <1>5. CASE FetchOffer
    BY <1>5, <1>t, <1>e, QuietStep DEF FetchOffer
  <1>6. ASSUME NEW k \in Routes, NEW v \in Validities, RepeatApproval(k, v) PROVE IInv'
    <2> DEFINE p == Expire(pools, now)
               kept == ExpireRegistrations(registrations, now)
    <2>1. kept[k].token \in Tokens
      BY <1>6, <1>e DEF RepeatApproval, SameApproval, Deliveries
    <2>2. PICK o \in RecordClaims(p, kept[k].token, "approved") : Install(o)
      BY <1>6 DEF RepeatApproval
    <2>3. GoodOutcome(o)
      BY <1>e, <2>1, RecordClaimsGood
    <2>4. /\ registrations' = kept /\ now' = now /\ conns' = conns
          /\ tokens' = tokens /\ revoked' = revoked
      BY <1>6 DEF RepeatApproval
    <2> HIDE DEF kept
    <2>5. registrations' \in [Routes -> Deliveries \cup {Absent}] /\ conns' \in [Conns -> ConnType]
      BY <1>t, <1>e, <2>4 DEF kept
    <2> QED BY <2>1, <2>2, <2>3, <2>4, <2>5, InstallStep
  <1>7. ASSUME NEW k \in Routes, NEW v \in Validities, Approve(k, v) PROVE IInv'
    BY <1>7, ApproveStep
  <1>8. ASSUME NEW k \in Routes, RemoveAdmission(k) PROVE IInv'
    BY <1>8, RemoveStep
  <1>9. ASSUME NEW c \in Conns, NEW t \in tokens, NEW b \in BOOLEAN, Track(c, t, b) PROVE IInv'
    <2>1. conns' \in [Conns -> ConnType]
      BY <1>9, <1>t DEF Track, ConnType, InventoryTypeOK
    <2> QED BY <2>1, <1>9, <1>t, QuietStep DEF Track
  <1>10. ASSUME NEW c \in Conns, HandshakeFails(c) PROVE IInv'
    <2>1. conns' \in [Conns -> ConnType]
      BY <1>10, <1>t DEF HandshakeFails, ConnType
    <2> QED BY <2>1, <1>10, <1>t, QuietStep DEF HandshakeFails
  <1>11. ASSUME NEW c \in Conns, Observe(c) PROVE IInv'
    BY <1>11, ObserveStep
  <1>12. ASSUME NEW c \in Conns, Renew(c) PROVE IInv'
    BY <1>12, RenewStep
  <1>13. CASE Restart
    <2>1. /\ admissions' = disk /\ disk' = disk /\ tokens' = tokens /\ revoked' = revoked
          /\ now' = now
      BY <1>13 DEF Restart
    <2>2. Empty \in Pool /\ Empty \in [Routes -> Deliveries \cup {Absent}]
      BY DEF Empty, Pool
    <2>3. InventoryTypeOK'
      BY <2>1, <2>2, <1>13, <1>t DEF Restart, InventoryTypeOK
    <2>4. DiskNotBehind'
      BY <2>1, <1>t DEF DiskNotBehind, InventoryTypeOK, Records, Stamps
    <2>5. CutoffHeld'
      BY <2>1 DEF IInv, CutoffHeld, CutoffIn
    <2>6. Covered'
      <3> SUFFICES ASSUME NEW t \in tokens, ~(t.issued <= 1)
                   PROVE  disk[t.route] # Absent /\ t.issued <= disk[t.route].last
        BY <2>1 DEF Covered
      <3>1. t.route \in Routes /\ t.issued \in Int
        BY <1>t DEF InventoryTypeOK, Tokens, Stamps
      <3>2. admissions[t.route] # Absent /\ t.issued <= admissions[t.route].last
        BY DEF IInv, Covered
      <3>3. disk[t.route] # Absent /\ admissions[t.route].last <= disk[t.route].last
        BY <3>1, <3>2 DEF IInv, DiskNotBehind
      <3>4. disk[t.route].last \in Int /\ admissions[t.route].last \in Int
        BY <3>1, <3>2, <3>3, <1>t DEF InventoryTypeOK, Records, Stamps
      <3> QED BY <3>1, <3>2, <3>3, <3>4
    <2> QED BY <2>3, <2>4, <2>5, <2>6 DEF IInv
  <1>14. CASE UNCHANGED inventoryVars
    <2>1. /\ UNCHANGED <<admissions, disk, tokens, revoked>> /\ now' = now /\ pools' = pools
          /\ registrations' = registrations /\ conns' = conns
      BY <1>14 DEF inventoryVars
    <2> QED BY <2>1, <1>t, QuietStep
  <1> QED BY <1>1, <1>2, <1>3, <1>4, <1>5, <1>6, <1>7, <1>8, <1>9, <1>10, <1>11, <1>12, <1>13,
             <1>14 DEF InventoryNext

\* The invariant holds in every reachable state.
THEOREM InvariantHolds == InventorySpec => []IInv
  BY InitIInv, NextIInv, PTL DEF InventorySpec

\* The inventory, its file, the pools and the tokens stay well typed, and no
\* stamp runs more than five minutes ahead of the clock's bound.
THEOREM TypeCorrect == InventorySpec => []InventoryTypeOK
  <1>1. IInv => InventoryTypeOK
    BY DEF IInv
  <1> QED BY <1>1, InvariantHolds, PTL

\* A token released before an acknowledged removal of its route is never
\* accepted again, across reapprovals, renewals in progress, clock changes,
\* failed saves and restarts.
THEOREM RemovalFinal == InventorySpec => []RemovalIsFinal
  <1>1. IInv => RemovalIsFinal
    BY DEF IInv, CutoffHeld, CutoffIn, RemovalIsFinal, Admitted, RejectsIn
  <1> QED BY <1>1, InvariantHolds, PTL

-----------------------------------------------------------------------------
(* The saved inventory can always be loaded again. *)

\* Replacing a record by a valid one keeps an inventory valid.
LEMMA StoreValid ==
    ASSUME NEW inv \in Inventory, NEW k \in Routes, NEW next \in Records,
           ValidInventory(inv), ValidRecord(next),
           inv[k] # Absent \/ Cardinality(Held(inv)) < MaxRecords
    PROVE  ValidInventory([inv EXCEPT ![k] = next])
  <1> DEFINE stored == [inv EXCEPT ![k] = next]
  <1>1. next # Absent
    BY AbsentAssumption
  <1>2. Held(stored) = Held(inv) \cup {k}
    BY <1>1 DEF Held, Inventory
  <1>3. IsFiniteSet(Held(inv)) /\ Cardinality(Held(inv)) \in Nat
    BY BoundsAssumption, FS_Subset, FS_CardinalityType DEF Held
  <1>4. Cardinality(Held(stored)) <= MaxRecords
    <2>1. CASE inv[k] # Absent
      <3>1. Held(stored) = Held(inv)
        BY <2>1, <1>2 DEF Held
      <3> QED BY <3>1 DEF ValidInventory
    <2>2. CASE Cardinality(Held(inv)) < MaxRecords
      <3>1. Cardinality(Held(stored)) = Cardinality(Held(inv))
              \/ Cardinality(Held(stored)) = Cardinality(Held(inv)) + 1
        BY <1>2, <1>3, FS_AddElement
      <3> QED BY <3>1, <2>2, <1>3, BoundsAssumption
    <2> QED BY <2>1, <2>2
  <1>5. \A j \in Held(stored) : ValidRecord(stored[j])
    BY <1>2 DEF ValidInventory, Held, Inventory
  <1> QED BY <1>4, <1>5 DEF ValidInventory

\* Saving a valid record leaves memory and file valid, whatever the outcome.
LEMMA SaveValid ==
    ASSUME InventoryTypeOK, Restartable, NEW p \in PoolsType, NEW k \in Routes, NEW next \in Records,
           ValidRecord(next), NEW o \in SaveAdmission(p, k, next)
    PROVE  ValidInventory(o.inv) /\ ValidInventory(o.disk)
  <1>1. SaveResult(o, k, next, [admissions EXCEPT ![k] = next])
    BY SaveFacts
  <1>2. ValidInventory(admissions) /\ ValidInventory(disk) /\ admissions \in Inventory
    BY DEF Restartable, InventoryTypeOK, Inventory
  <1>3. CASE o.inv = admissions /\ o.disk = disk
    BY <1>2, <1>3
  <1>4. CASE admissions[k] # Absent \/ Cardinality(Held(admissions)) < MaxRecords
    <2>1. ValidInventory([admissions EXCEPT ![k] = next])
      BY <1>2, <1>4, StoreValid
    <2> QED BY <1>1, <1>2, <2>1 DEF SaveResult
  <1> QED BY <1>1, <1>3, <1>4 DEF SaveResult

\* recordClaimsLocked saves a valid record: it checks the token first.
LEMMA RecordClaimsValid ==
    ASSUME InventoryTypeOK, Restartable, NEW p \in PoolsType, NEW t \in Tokens,
           NEW status \in {"approved", "observed"}, NEW o \in RecordClaims(p, t, status)
    PROVE  ValidInventory(o.inv) /\ ValidInventory(o.disk)
  <1> DEFINE next == RecordFor(t, status)
  <1>t. /\ admissions \in Inventory /\ t.route \in Routes
        /\ t.root \in Roots /\ t.issued \in Stamps \ {0} /\ t.issued \in Int /\ t.issued > 0
    BY BoundsAssumption DEF InventoryTypeOK, Inventory, Tokens, Stamps
  <1>1. CASE ~Admitted(t)
    <2>1. o = Outcome(FALSE, admissions, disk, p)
      BY <1>1 DEF RecordClaims
    <2> QED BY <2>1 DEF Outcome, Restartable
  <1>2. CASE Admitted(t)
    <2>1. o \in SaveAdmission(p, t.route, next)
      BY <1>2 DEF RecordClaims
    <2>2. next \in Records /\ ValidRecord(next)
      <3>1. CASE admissions[t.route] = Absent
        <4>1. next = [root |-> t.root, status |-> status, last |-> t.issued, reject |-> 0]
          BY <3>1 DEF RecordFor
        <4> QED BY <4>1, <1>t, BoundsAssumption DEF Records, Statuses, Stamps, ValidRecord
      <3>2. CASE admissions[t.route] # Absent
        <4> DEFINE r == admissions[t.route]
        <4>1. r \in Records /\ r.last \in Stamps /\ r.reject \in Stamps
          BY <3>2, <1>t DEF Inventory, Records
        <4>2. r.status # "removed" /\ ~(t.issued <= r.reject)
          BY <1>2, <3>2 DEF Admitted, RejectsIn
        <4>3. next = [r EXCEPT !.status = IF status = "observed" THEN status ELSE @,
                               !.last = Later(@, t.issued)]
          BY <3>2 DEF RecordFor
        <4>4. /\ Later(r.last, t.issued) \in Stamps /\ Later(r.last, t.issued) > r.reject
              /\ Later(r.last, t.issued) > 0
          BY <4>1, <4>2, <1>t, BoundsAssumption DEF Later, Stamps
        <4> HIDE DEF r
        <4>5. /\ next.last = Later(r.last, t.issued) /\ next.reject = r.reject
              /\ next.status # "removed"
              /\ next \in [root: Roots, status: Statuses, last: Stamps, reject: Stamps]
          BY <4>1, <4>2, <4>3, <4>4 DEF Records, Statuses
        <4> QED BY <4>4, <4>5 DEF Records, ValidRecord
      <3> QED BY <3>1, <3>2
    <2> HIDE DEF next
    <2> QED BY <2>1, <2>2, <1>t, SaveValid
  <1> QED BY <1>1, <1>2

\* RegisterReceiver saves a valid record: its token is issued after the cutoff.
LEMMA ApproveValid ==
    ASSUME IInv, Restartable, NEW k \in Routes, NEW validity \in Validities, Approve(k, validity)
    PROVE  Restartable'
  <1>1. Expire(pools, now) \in PoolsType /\ InventoryTypeOK
    BY ApproveOutcome DEF IInv
  <1>2. PICK next \in Records : \E o \in SaveAdmission(Expire(pools, now), k, next) :
          Install(o) /\ ValidRecord(next)
    BY ApproveOutcome
  <1>3. PICK o \in SaveAdmission(Expire(pools, now), k, next) : Install(o) /\ ValidRecord(next)
    BY <1>2
  <1>4. ValidInventory(o.inv) /\ ValidInventory(o.disk)
    BY <1>1, <1>3, SaveValid
  <1>5. admissions' = o.inv /\ disk' = o.disk
    BY <1>3 DEF Install
  <1> QED BY <1>4, <1>5 DEF Restartable, ValidInventory, Held, ValidRecord

\* RemoveAdmission saves a valid record: the cutoff covers the last token.
LEMMA RemoveValid ==
    ASSUME IInv, Restartable, NEW k \in Routes, RemoveAdmission(k)
    PROVE  Restartable'
  <1> DEFINE old == admissions[k]
             record == [old EXCEPT !.status = "removed", !.reject = Cutoff(old)]
  <1>t. /\ InventoryTypeOK /\ now \in Stamps /\ pools \in PoolsType /\ admissions \in Inventory
        /\ old # Absent
    BY BoundsAssumption DEF IInv, InventoryTypeOK, Inventory, PoolsType, Times, Stamps, RemoveAdmission
  <1>1. old \in Records /\ old.last \in Stamps /\ old.reject \in Stamps /\ old.last > 0
    BY <1>t DEF Inventory, Records, Restartable, ValidInventory, ValidRecord, Held
  <1>2. Cutoff(old) \in Stamps /\ Cutoff(old) >= old.last
    BY <1>t, <1>1, BoundsAssumption DEF Cutoff, Later, Stamps
  <1>3. record \in Records /\ ValidRecord(record)
    <2> HIDE DEF old
    <2>1. /\ record \in [root: Roots, status: Statuses, last: Stamps, reject: Stamps]
          /\ record.last = old.last /\ record.reject = Cutoff(old) /\ record.status = "removed"
      BY <1>1, <1>2 DEF Records, Statuses
    <2> QED BY <2>1, <1>1, <1>2 DEF Records, ValidRecord
  <1>4. PICK o \in SaveAdmission(pools, k, record) :
          Install([o EXCEPT !.pools = Retire(o.pools, k)])
    BY DEF RemoveAdmission
  <1> HIDE DEF record
  <1>5. ValidInventory(o.inv) /\ ValidInventory(o.disk)
    BY <1>t, <1>3, SaveValid
  <1>6. admissions' = o.inv /\ disk' = o.disk
    <2>1. PICK oi, od, op, ok : o = [ok |-> ok, inv |-> oi, disk |-> od, pools |-> op]
      BY DEF SaveAdmission, Outcome
    <2> QED BY <1>4, <2>1 DEF Install
  <1> QED BY <1>5, <1>6 DEF Restartable, ValidInventory, Held, ValidRecord

\* Every step keeps memory and file loadable.
LEMMA NextRestartable == IInv /\ Restartable /\ [InventoryNext]_inventoryVars => Restartable'
  <1> SUFFICES ASSUME IInv, Restartable, [InventoryNext]_inventoryVars PROVE Restartable'
    OBVIOUS
  <1>t. /\ InventoryTypeOK /\ now \in Int /\ pools \in PoolsType
        /\ registrations \in [Routes -> Deliveries \cup {Absent}] /\ conns \in [Conns -> ConnType]
    BY BoundsAssumption DEF IInv, InventoryTypeOK, PoolsType, ConnType, Times
  <1>q. ASSUME UNCHANGED <<admissions, disk>> PROVE Restartable'
    BY <1>q DEF Restartable, ValidInventory, Held, ValidRecord
  <1>i. ASSUME NEW o, Install(o), ValidInventory(o.inv), ValidInventory(o.disk) PROVE Restartable'
    BY <1>i DEF Install, Restartable, ValidInventory, Held, ValidRecord
  <1>1. CASE SetClock \/ FetchOffer \/ UNCHANGED inventoryVars
    BY <1>1, <1>q DEF SetClock, FetchOffer, inventoryVars
  <1>2. ASSUME NEW ad \in Ads, PublishAdvertisement(ad) PROVE Restartable'
    BY <1>2, <1>q DEF PublishAdvertisement
  <1>3. ASSUME NEW ad \in Ads, NEW f \in Offers, PublishOffer(ad, f) PROVE Restartable'
    BY <1>3, <1>q DEF PublishOffer
  <1>4. ASSUME NEW ad \in Ads, NEW f \in Offers, NEW t \in tokens, RestoreOffer(ad, f, t)
        PROVE  Restartable'
    BY <1>4, <1>q DEF RestoreOffer
  <1>5. ASSUME NEW k \in Routes, NEW v \in Validities, RepeatApproval(k, v) PROVE Restartable'
    <2> DEFINE p == Expire(pools, now)
               kept == ExpireRegistrations(registrations, now)
    <2>1. p \in PoolsType /\ kept \in [Routes -> Deliveries \cup {Absent}]
      BY <1>t, ExpireType, ExpireRegistrationsType
    <2>2. kept[k].token \in Tokens
      BY <1>5, <2>1 DEF RepeatApproval, SameApproval, Deliveries
    <2>3. PICK o \in RecordClaims(p, kept[k].token, "approved") : Install(o)
      BY <1>5 DEF RepeatApproval
    <2> HIDE DEF p, kept
    <2> QED BY <1>t, <1>i, <2>1, <2>2, <2>3, RecordClaimsValid
  <1>6. ASSUME NEW k \in Routes, NEW v \in Validities, Approve(k, v) PROVE Restartable'
    BY <1>6, ApproveValid
  <1>7. ASSUME NEW k \in Routes, RemoveAdmission(k) PROVE Restartable'
    BY <1>7, RemoveValid
  <1>8. ASSUME NEW c \in Conns, NEW t \in tokens, NEW b \in BOOLEAN, Track(c, t, b)
        PROVE  Restartable'
    BY <1>8, <1>q DEF Track
  <1>9. ASSUME NEW c \in Conns, HandshakeFails(c) PROVE Restartable'
    BY <1>9, <1>q DEF HandshakeFails
  <1>10. ASSUME NEW c \in Conns, Observe(c) PROVE Restartable'
    <2>1. conns[c].token \in Tokens
      BY <1>10, <1>t DEF Observe, ConnType, Idle
    <2>2. PICK o \in RecordClaims(pools, conns[c].token, "observed") : Install(o)
      BY <1>10 DEF Observe
    <2> QED BY <1>t, <1>i, <2>1, <2>2, RecordClaimsValid
  <1>11. ASSUME NEW c \in Conns, Renew(c) PROVE Restartable'
    <2> DEFINE t == conns[c].token
               r == Renewed(t)
    <2>1. t \in Tokens
      BY <1>11, <1>t DEF Renew, ConnType, Idle
    <2>2. r \in Tokens
      <3>1. now \in Stamps \ {0} /\ t.issued \in Stamps \ {0}
        BY <1>t, <2>1, BoundsAssumption DEF InventoryTypeOK, Times, Stamps, Tokens
      <3>2. Later(now, t.issued) \in Stamps \ {0}
        BY <3>1 DEF Later
      <3> HIDE DEF t
      <3> QED BY <2>1, <3>2 DEF Renewed, Tokens
    <2>3. \/ \E o \in RecordClaims(pools, r, "observed") : Install(o)
          \/ UNCHANGED <<admissions, disk>>
      BY <1>11 DEF Renew
    <2> HIDE DEF r
    <2> QED BY <1>t, <1>i, <1>q, <2>2, <2>3, RecordClaimsValid
  <1>12. CASE Restart
    BY <1>12 DEF Restart, Restartable, ValidInventory, Held, ValidRecord
  <1> QED BY <1>1, <1>2, <1>3, <1>4, <1>5, <1>6, <1>7, <1>8, <1>9, <1>10, <1>11, <1>12 DEF InventoryNext

\* The relay can always restart from its file: every record it saves, or leaves
\* on disk by a save that failed, is one that loadAdmissions accepts.
THEOREM RestartAlways == InventorySpec => []Restartable
  <1>1. InventoryInit => Restartable
    <2> SUFFICES ASSUME InventoryInit PROVE Restartable
      OBVIOUS
    <2>1. Held(Empty) = {}
      BY DEF Held, Empty
    <2>2. ValidInventory(Empty)
      BY <2>1, FS_EmptySet, BoundsAssumption DEF ValidInventory
    <2> QED BY <2>2 DEF InventoryInit, Restartable
  <1> QED BY <1>1, NextRestartable, InvariantHolds, PTL DEF InventorySpec

-----------------------------------------------------------------------------
(* A failed approval cannot reopen a removed route. *)

Reopened(k) ==
    /\ admissions[k] # Absent /\ admissions[k].status = "removed"
    /\ admissions'[k] = Absent \/ admissions'[k].status # "removed"

\* An outcome of saveAdmissionLocked that takes a route out of "removed" has the
\* new record on disk too.
LEMMA SaveDurable ==
    ASSUME InventoryTypeOK, NEW p \in PoolsType, NEW j \in Routes, NEW next,
           NEW o \in SaveAdmission(p, j, next), GoodOutcome(o),
           admissions' = o.inv, disk' = o.disk,
           NEW k \in Routes, Reopened(k)
    PROVE  disk'[k] = admissions'[k]
  <1> DEFINE stored == [admissions EXCEPT ![j] = next]
  <1>1. SaveResult(o, j, next, stored)
    BY SaveFacts
  <1>r. /\ admissions[k] # Absent /\ admissions[k].status = "removed"
        /\ admissions'[k].status # "removed"
    BY DEF Reopened, GoodOutcome
  <1>2. CASE o.inv = admissions
    BY <1>2, <1>r
  <1>3. CASE o.inv = stored /\ o.disk = stored
    BY <1>3
  <1>4. CASE o.inv = stored /\ next.status = "removed"
    <2>1. stored[k] = IF k = j THEN next ELSE admissions[k]
      BY DEF InventoryTypeOK
    <2> QED BY <1>4, <1>r, <2>1
  <1>5. \/ o.inv = admissions
        \/ o.inv = stored /\ o.disk = stored
        \/ o.inv = stored /\ next.status = "removed"
    <2>1. CASE o.ok = TRUE
      BY <2>1, <1>1 DEF SaveResult
    <2>2. CASE o.ok = FALSE
      BY <2>2, <1>1 DEF SaveResult
    <2> QED BY <2>1, <2>2, <1>1 DEF SaveResult
  <1> QED BY <1>2, <1>3, <1>4, <1>5

\* The same for recordClaimsLocked.
LEMMA RecordClaimsDurable ==
    ASSUME IInv, NEW p \in PoolsType, NEW t \in Tokens, NEW status \in {"approved", "observed"},
           NEW o \in RecordClaims(p, t, status), admissions' = o.inv, disk' = o.disk,
           NEW k \in Routes, Reopened(k)
    PROVE  disk'[k] = admissions'[k]
  <1>1. GoodOutcome(o) /\ InventoryTypeOK /\ t.route \in Routes
    BY RecordClaimsGood DEF IInv, Tokens
  <1>2. CASE Admitted(t)
    BY <1>1, <1>2, SaveDurable DEF RecordClaims
  <1>3. CASE ~Admitted(t)
    BY <1>3 DEF RecordClaims, Outcome, Reopened
  <1> QED BY <1>2, <1>3

\* A removed route is admitted again in the running process only by a record
\* that is on disk as well.
THEOREM ReopenDurable == InventorySpec => ReopenIsDurable
  <1>1. ASSUME IInv, [InventoryNext]_inventoryVars, NEW k \in Routes, Reopened(k)
        PROVE  disk'[k] = admissions'[k]
    <2>t. /\ InventoryTypeOK /\ now \in Int /\ pools \in PoolsType
          /\ registrations \in [Routes -> Deliveries \cup {Absent}] /\ conns \in [Conns -> ConnType]
      BY <1>1, BoundsAssumption DEF IInv, InventoryTypeOK, PoolsType, ConnType, Times
    <2>u. admissions' # admissions
      BY <1>1 DEF Reopened
    <2>1. ASSUME NEW j \in Routes, NEW v \in Validities, RepeatApproval(j, v)
          PROVE  disk'[k] = admissions'[k]
      <3> DEFINE p == Expire(pools, now)
                 kept == ExpireRegistrations(registrations, now)
      <3>1. p \in PoolsType /\ kept \in [Routes -> Deliveries \cup {Absent}]
        BY <2>t, ExpireType, ExpireRegistrationsType
      <3>2. kept[j].token \in Tokens
        BY <2>1, <3>1 DEF RepeatApproval, SameApproval, Deliveries
      <3>3. PICK o \in RecordClaims(p, kept[j].token, "approved") : Install(o)
        BY <2>1 DEF RepeatApproval
      <3> HIDE DEF p, kept
      <3> QED BY <1>1, <3>1, <3>2, <3>3, RecordClaimsDurable DEF Install
    <2>2. ASSUME NEW j \in Routes, NEW v \in Validities, Approve(j, v)
          PROVE  disk'[k] = admissions'[k]
      <3>1. PICK next \in Records : \E o \in SaveAdmission(Expire(pools, now), j, next) :
              GoodOutcome(o) /\ Install(o)
        BY <1>1, <2>2, ApproveOutcome
      <3>2. Expire(pools, now) \in PoolsType
        BY <2>t, ExpireType
      <3> QED BY <1>1, <2>t, <3>1, <3>2, SaveDurable DEF Install
    <2>3. ASSUME NEW j \in Routes, RemoveAdmission(j) PROVE disk'[k] = admissions'[k]
      BY <1>1, <2>3, RemoveReopensNothing DEF Reopened
    <2>4. ASSUME NEW c \in Conns, Observe(c) PROVE disk'[k] = admissions'[k]
      <3>1. conns[c].token \in Tokens
        BY <2>4, <2>t DEF Observe, ConnType, Idle
      <3>2. PICK o \in RecordClaims(pools, conns[c].token, "observed") : Install(o)
        BY <2>4 DEF Observe
      <3> QED BY <1>1, <2>t, <3>1, <3>2, RecordClaimsDurable DEF Install
    <2>5. ASSUME NEW c \in Conns, Renew(c) PROVE disk'[k] = admissions'[k]
      <3> DEFINE t == conns[c].token
                 r == Renewed(t)
      <3>1. t \in Tokens
        BY <2>5, <2>t DEF Renew, ConnType, Idle
      <3>2. r \in Tokens
        <4>1. now \in Stamps \ {0} /\ t.issued \in Stamps \ {0}
          BY <2>t, <3>1, BoundsAssumption DEF InventoryTypeOK, Times, Stamps, Tokens
        <4>2. Later(now, t.issued) \in Stamps \ {0}
          BY <4>1 DEF Later
        <4> HIDE DEF t
        <4> QED BY <3>1, <4>2 DEF Renewed, Tokens
      <3>3. \/ \E o \in RecordClaims(pools, r, "observed") : Install(o)
            \/ UNCHANGED admissions
        BY <2>5 DEF Renew
      <3> HIDE DEF r
      <3> QED BY <1>1, <2>t, <2>u, <3>2, <3>3, RecordClaimsDurable DEF Install
    <2>6. CASE Restart
      BY <2>6 DEF Restart
    <2> QED BY <1>1, <2>u, <2>1, <2>2, <2>3, <2>4, <2>5, <2>6
            DEF InventoryNext, inventoryVars, SetClock, PublishAdvertisement, PublishOffer, RestoreOffer,
                FetchOffer, Track, HandshakeFails
  <1>2. IInv /\ [InventoryNext]_inventoryVars =>
          [\A k \in Routes :
            (admissions[k] # Absent /\ admissions[k].status = "removed"
                /\ (admissions'[k] = Absent \/ admissions'[k].status # "removed"))
            => disk'[k] = admissions'[k]]_inventoryVars
    BY <1>1 DEF Reopened
  <1> QED BY <1>2, InvariantHolds, PTL DEF InventorySpec, ReopenIsDurable

-----------------------------------------------------------------------------
(* The caches: pools, offers and deliveries against the saved policy. *)

\* A route has its advertisement in one pool at most.
OnePool(p) ==
    \A k \in Routes :
        /\ p.live[k] # Absent => p.retained[k] = Absent /\ p.pending[k] = Absent
        /\ p.retained[k] # Absent => p.pending[k] = Absent

\* The pools keep their limits.
InLimits(p) ==
    /\ Cardinality(Held(p.live)) + Cardinality(Held(p.retained)) <= RegLimit
    /\ Cardinality(Held(p.pending)) <= PendingLimit

\* Protected routes are approved with the same root, retained ones removed.
PolicyBacks(inv, p) ==
    \A k \in Routes :
        /\ p.live[k] # Absent => Protects(inv, k, p.live[k])
        /\ p.retained[k] # Absent => inv[k] # Absent /\ inv[k].status = "removed"

Offered(p, k) == AdvertisementIn(p, k) # Absent /\ AdvertisementIn(p, k).offer # Absent
Locator(p, k) == AdvertisementIn(p, k).offer.locator

\* A locator leads to one route, and an offered route is not removed.
LocatorsLead(p) ==
    \A j, k \in Routes : Offered(p, j) /\ Offered(p, k) /\ Locator(p, j) = Locator(p, k) => j = k
OfferedOpen(inv, p) ==
    \A k \in Routes : Offered(p, k) /\ inv[k] # Absent => inv[k].status # "removed"

PoolsGood(inv, p) ==
    /\ p \in PoolsType /\ OnePool(p) /\ InLimits(p) /\ PolicyBacks(inv, p)
    /\ LocatorsLead(p) /\ OfferedOpen(inv, p)

-----------------------------------------------------------------------------
\* The routes with an entry are finitely many, so they can be counted.
LEMMA HeldFinite ==
    ASSUME NEW f
    PROVE  IsFiniteSet(Held(f)) /\ Cardinality(Held(f)) \in Nat
  BY BoundsAssumption, FS_Subset, FS_CardinalityType DEF Held

\* A subset of the held routes is no larger.
LEMMA HeldFewer ==
    ASSUME NEW f, NEW g, Held(f) \subseteq Held(g)
    PROVE  Cardinality(Held(f)) <= Cardinality(Held(g))
  BY HeldFinite, FS_Subset

\* One more: a route that had an entry or not.
LEMMA HeldMore ==
    ASSUME NEW f, NEW g, NEW k, Held(g) = Held(f) \cup {k}
    PROVE  /\ k \in Held(f) => Cardinality(Held(g)) = Cardinality(Held(f))
           /\ k \notin Held(f) => Cardinality(Held(g)) = Cardinality(Held(f)) + 1
  <1>1. IsFiniteSet(Held(f))
    BY HeldFinite
  <1>2. CASE k \in Held(f)
    <2>1. Held(g) = Held(f)
      BY <1>2
    <2> QED BY <1>2, <2>1
  <1>3. CASE k \notin Held(f)
    BY <1>1, <1>3, FS_AddElement
  <1> QED BY <1>2, <1>3
\* One less: a route that had an entry or not.
LEMMA HeldLess ==
    ASSUME NEW f, NEW g, NEW k, Held(g) = Held(f) \ {k}
    PROVE  /\ k \notin Held(f) => Cardinality(Held(g)) = Cardinality(Held(f))
           /\ k \in Held(f) => Cardinality(Held(g)) = Cardinality(Held(f)) - 1
  <1>1. IsFiniteSet(Held(f))
    BY HeldFinite
  <1>2. CASE k \notin Held(f)
    <2>1. Held(g) = Held(f)
      BY <1>2
    <2> QED BY <1>2, <2>1
  <1>3. CASE k \in Held(f)
    BY <1>1, <1>3, FS_RemoveElement
  <1> QED BY <1>2, <1>3

\* An entry of any pool is the route's advertisement.
LEMMA OneEntry ==
    ASSUME NEW p \in PoolsType, OnePool(p), NEW k \in Routes
    PROVE  /\ p.live[k] # Absent => AdvertisementIn(p, k) = p.live[k]
           /\ p.retained[k] # Absent => AdvertisementIn(p, k) = p.retained[k]
           /\ p.pending[k] # Absent => AdvertisementIn(p, k) = p.pending[k]
           /\ AdvertisementIn(p, k) # Absent =>
                 AdvertisementIn(p, k) \in {p.live[k], p.retained[k], p.pending[k]}
  BY DEF OnePool, AdvertisementIn

\* What replacing a route's entry by one in a single pool does.
Replaced(p, k, pool, e, q) ==
    /\ q \in PoolsType
    /\ \A j \in Routes : j # k =>
          q.live[j] = p.live[j] /\ q.retained[j] = p.retained[j] /\ q.pending[j] = p.pending[j]
    /\ q.live[k] = IF pool = "live" THEN e ELSE Absent
    /\ q.retained[k] = IF pool = "retained" THEN e ELSE Absent
    /\ q.pending[k] = IF pool = "pending" THEN e ELSE Absent
    /\ e # Absent
\* Only replaces the entries of one route.
LEMMA OnlyFacts ==
    ASSUME NEW p \in PoolsType, NEW k \in Routes, NEW pool, NEW e \in CacheEntries
    PROVE  Replaced(p, k, pool, e, Only(p, k, pool, e))
  <1> DEFINE q == Only(p, k, pool, e)
  <1>1. q \in PoolsType
    BY OnlyType
  <1>2. e # Absent
    BY AbsentAssumption
  <1>3. p.live \in Pool /\ p.retained \in Pool /\ p.pending \in Pool
    BY DEF PoolsType
  <1>4. /\ q.live = [p.live EXCEPT ![k] = IF pool = "live" THEN e ELSE Absent]
        /\ q.retained = [p.retained EXCEPT ![k] = IF pool = "retained" THEN e ELSE Absent]
        /\ q.pending = [p.pending EXCEPT ![k] = IF pool = "pending" THEN e ELSE Absent]
    BY DEF Only
  <1> HIDE DEF q
  <1>5. Replaced(p, k, pool, e, q)
    BY <1>1, <1>2, <1>3, <1>4 DEF Pool, Replaced
  <1> QED BY <1>5 DEF q

\* A change of one route's entry, within the limits, in policy, and with an offer
\* that is new to the other routes, keeps the pools good.
LEMMA OnlyGood ==
    ASSUME NEW old, NEW inv, NEW p, PoolsGood(old, p), NEW k \in Routes,
           \A j \in Routes : j # k => inv[j] = old[j],
           NEW pool \in {"live", "retained", "pending"}, NEW e \in CacheEntries,
           InLimits(Only(p, k, pool, e)),
           pool = "live" => Protects(inv, k, e),
           pool = "retained" => inv[k] # Absent /\ inv[k].status = "removed",
           e.offer # Absent =>
              /\ inv[k] # Absent => inv[k].status # "removed"
              /\ \A j \in Routes : j # k /\ Offered(p, j) => Locator(p, j) # e.offer.locator
    PROVE  PoolsGood(inv, Only(p, k, pool, e))
  <1> DEFINE q == Only(p, k, pool, e)
  <1>1. p \in PoolsType
    BY DEF PoolsGood
  <1>l. InLimits(q)
    OBVIOUS
  <1>r. Replaced(p, k, pool, e, q)
    BY <1>1, OnlyFacts
  <1> HIDE DEF q
  <1>2. /\ q \in PoolsType
        /\ \A j \in Routes : j # k =>
              /\ q.live[j] = p.live[j] /\ q.retained[j] = p.retained[j]
              /\ q.pending[j] = p.pending[j]
        /\ q.live[k] = IF pool = "live" THEN e ELSE Absent
        /\ q.retained[k] = IF pool = "retained" THEN e ELSE Absent
        /\ q.pending[k] = IF pool = "pending" THEN e ELSE Absent
        /\ e # Absent
    BY <1>r DEF Replaced
  <1>3. OnePool(q)
    BY <1>2 DEF PoolsGood, OnePool
  <1>4. PolicyBacks(inv, q)
    BY <1>2 DEF PoolsGood, PolicyBacks, Protects
  <1>5. /\ AdvertisementIn(q, k) = e
        /\ \A j \in Routes : j # k => AdvertisementIn(q, j) = AdvertisementIn(p, j)
    BY <1>2 DEF AdvertisementIn
  <1>6. LocatorsLead(q)
    BY <1>2, <1>5 DEF PoolsGood, LocatorsLead, Offered, Locator
  <1>7. OfferedOpen(inv, q)
    BY <1>2, <1>5 DEF PoolsGood, OfferedOpen, Offered
  <1>8. PoolsGood(inv, q)
    BY <1>2, <1>l, <1>3, <1>4, <1>6, <1>7 DEF PoolsGood
  <1> QED BY <1>8 DEF q

\* Taking entries away keeps the pools good.
LEMMA FewerGood ==
    ASSUME NEW old, NEW inv, NEW p, PoolsGood(old, p), NEW q \in PoolsType,
           \A j \in Routes :
              inv[j] = old[j] \/ (q.live[j] = Absent /\ q.retained[j] = Absent /\ q.pending[j] = Absent),
           \A j \in Routes : /\ q.live[j] \in {Absent, p.live[j]}
                             /\ q.retained[j] \in {Absent, p.retained[j]}
                             /\ q.pending[j] \in {Absent, p.pending[j]}
    PROVE  PoolsGood(inv, q)
  <1>1. p \in PoolsType /\ OnePool(p) /\ InLimits(p)
    BY DEF PoolsGood
  <1>2. OnePool(q)
    BY <1>1 DEF OnePool
  <1>3. InLimits(q)
    <2>1. /\ Cardinality(Held(q.live)) <= Cardinality(Held(p.live))
          /\ Cardinality(Held(q.retained)) <= Cardinality(Held(p.retained))
          /\ Cardinality(Held(q.pending)) <= Cardinality(Held(p.pending))
      BY HeldFewer DEF Held
    <2>2. /\ Cardinality(Held(q.live)) \in Nat /\ Cardinality(Held(p.live)) \in Nat
          /\ Cardinality(Held(q.retained)) \in Nat /\ Cardinality(Held(p.retained)) \in Nat
          /\ Cardinality(Held(q.pending)) \in Nat /\ Cardinality(Held(p.pending)) \in Nat
      BY HeldFinite
    <2> QED BY <1>1, <2>1, <2>2, BoundsAssumption DEF InLimits
  <1>4. PolicyBacks(inv, q)
    BY DEF PoolsGood, PolicyBacks, Protects
  <1>5. \A j \in Routes : AdvertisementIn(q, j) \in {Absent, AdvertisementIn(p, j)}
    BY <1>1 DEF AdvertisementIn, OnePool
  <1>6. LocatorsLead(q)
    BY <1>5 DEF PoolsGood, LocatorsLead, Offered, Locator
  <1>7. OfferedOpen(inv, q)
    BY <1>5 DEF PoolsGood, OfferedOpen, Offered, AdvertisementIn
  <1> QED BY <1>2, <1>3, <1>4, <1>6, <1>7 DEF PoolsGood

\* Dropping what has expired keeps the pools good.
LEMMA ExpireGood ==
    ASSUME NEW inv, NEW p, PoolsGood(inv, p), NEW at \in Int
    PROVE  PoolsGood(inv, Expire(p, at))
  <1>1. p \in PoolsType
    BY DEF PoolsGood
  <1>2. Expire(p, at) \in PoolsType
    BY <1>1, ExpireType
  <1>3. \A j \in Routes : /\ Expire(p, at).live[j] \in {Absent, p.live[j]}
                          /\ Expire(p, at).retained[j] \in {Absent, p.retained[j]}
                          /\ Expire(p, at).pending[j] \in {Absent, p.pending[j]}
    BY DEF Expire
  <1> QED BY <1>2, <1>3, FewerGood

\* Room in the protected pools is room for one more live or retained entry.
LEMMA CapacityLimits ==
    ASSUME NEW p \in PoolsType, OnePool(p), InLimits(p), NEW k \in Routes, ProtectedCapacity(p, k),
           NEW pool \in {"live", "retained"}, NEW e \in CacheEntries
    PROVE  InLimits(Only(p, k, pool, e))
  <1> DEFINE q == Only(p, k, pool, e)
             nl == Cardinality(Held(p.live))
             nr == Cardinality(Held(p.retained))
             np == Cardinality(Held(p.pending))
             ml == Cardinality(Held(q.live))
             mr == Cardinality(Held(q.retained))
             mp == Cardinality(Held(q.pending))
  <1>r. Replaced(p, k, pool, e, q)
    BY OnlyFacts
  <1>1. /\ q \in PoolsType
        /\ \A j \in Routes : j # k =>
              /\ q.live[j] = p.live[j] /\ q.retained[j] = p.retained[j]
              /\ q.pending[j] = p.pending[j]
        /\ q.live[k] = IF pool = "live" THEN e ELSE Absent
        /\ q.retained[k] = IF pool = "retained" THEN e ELSE Absent
        /\ q.pending[k] = Absent
        /\ e # Absent
    <2> HIDE DEF q
    <2> QED BY <1>r DEF Replaced
  <1>2. /\ Held(q.pending) \subseteq Held(p.pending)
        /\ pool = "live" => Held(q.live) = Held(p.live) \cup {k} /\ Held(q.retained) = Held(p.retained) \ {k}
        /\ pool = "retained" => Held(q.live) = Held(p.live) \ {k} /\ Held(q.retained) = Held(p.retained) \cup {k}
    <2> HIDE DEF q
    <2> QED BY <1>1 DEF Held
  <1>3. /\ nl \in Nat /\ nr \in Nat /\ np \in Nat /\ ml \in Nat /\ mr \in Nat /\ mp \in Nat
    BY HeldFinite
  <1>4. mp <= np
    BY <1>2, HeldFewer
  <1>5. /\ k \in Held(p.live) => k \notin Held(p.retained)
        /\ k \in Held(p.live) \/ k \in Held(p.retained) \/ nl + nr < RegLimit
    BY DEF OnePool, ProtectedCapacity, Held
  <1>6. pool = "live" => /\ ml = IF k \in Held(p.live) THEN nl ELSE nl + 1
                         /\ mr = IF k \in Held(p.retained) THEN nr - 1 ELSE nr
    BY <1>2, HeldMore, HeldLess
  <1>7. pool = "retained" => /\ mr = IF k \in Held(p.retained) THEN nr ELSE nr + 1
                             /\ ml = IF k \in Held(p.live) THEN nl - 1 ELSE nl
    BY <1>2, HeldMore, HeldLess
  <1>8. nl + nr <= RegLimit /\ np <= PendingLimit
    BY DEF InLimits
  <1>9. RegLimit \in Nat /\ PendingLimit \in Nat
    BY BoundsAssumption
  <1>10. ml + mr <= RegLimit
    <2> HIDE DEF nl, nr, ml, mr, q
    <2>1. CASE pool = "live"
      BY <1>3, <1>5, <1>6, <1>8, <1>9, <2>1
    <2>2. CASE pool = "retained"
      BY <1>3, <1>5, <1>7, <1>8, <1>9, <2>2
    <2> QED BY <2>1, <2>2
  <1>11. mp <= PendingLimit
    <2> HIDE DEF np, mp
    <2> QED BY <1>3, <1>4, <1>8, <1>9
  <1> QED BY <1>10, <1>11 DEF InLimits

\* promoteAdvertisementLocked, after the record of the route changed: what was
\* pending or retained for it is protected now, or the pools are as they were.
LEMMA PromoteGood ==
    ASSUME IInv, NEW p, PoolsGood(admissions, p), NEW k \in Routes, NEW next \in Records,
           next.status # "removed", NEW at \in Int, NEW stored,
           stored = [admissions EXCEPT ![k] = next],
           admissions[k] # Absent => next.root = admissions[k].root,
           AdvertisementIn(p, k) # Absent /\ next.root = AdvertisementIn(p, k).ad.root
              => ProtectedCapacity(p, k),
           p.retained[k] # Absent => next.root = p.retained[k].ad.root
    PROVE  PoolsGood(stored, Promote(stored, p, k, at))
  <1>1. /\ p \in PoolsType /\ OnePool(p) /\ InLimits(p) /\ admissions \in Inventory
        /\ PolicyBacks(admissions, p) /\ LocatorsLead(p) /\ OfferedOpen(admissions, p)
    BY DEF PoolsGood, IInv, InventoryTypeOK, Inventory
  <1>2. stored[k] = next /\ next # Absent /\ \A j \in Routes : j # k => stored[j] = admissions[j]
    BY <1>1, AbsentAssumption DEF Inventory
  <1> DEFINE entry == IF p.pending[k] # Absent THEN p.pending[k] ELSE p.retained[k]
             fresh == [entry EXCEPT !.expires = AdvertisementExpiry(entry.ad, at, LiveTTL)]
  <1>3. CASE entry = Absent \/ ~Protects(stored, k, entry)
    <2>1. Promote(stored, p, k, at) = p
      BY <1>3 DEF Promote
    <2>2. p.retained[k] = Absent
      <3>1. p.retained[k] # Absent => entry = p.retained[k]
        BY <1>1 DEF OnePool
      <3> HIDE DEF entry
      <3> QED BY <1>2, <1>3, <3>1 DEF Protects
    <2>3. PolicyBacks(stored, p)
      BY <1>1, <1>2, <2>2 DEF PolicyBacks, Protects
    <2>4. OfferedOpen(stored, p)
      BY <1>1, <1>2 DEF OfferedOpen
    <2> QED BY <1>1, <2>1, <2>3, <2>4 DEF PoolsGood
  <1>4. CASE ~(entry = Absent \/ ~Protects(stored, k, entry))
    <2>1. entry \in CacheEntries /\ entry # Absent
      BY <1>1, <1>4 DEF PoolsType, Pool
    <2>2. AdvertisementExpiry(entry.ad, at, LiveTTL) \in Int
      BY <2>1, ExpiryType, BoundsAssumption DEF CacheEntries
    <2>3. AdvertisementIn(p, k) = entry
      BY <1>1, <2>1 DEF AdvertisementIn, OnePool
    <2>p. Promote(stored, p, k, at) = Only(p, k, "live", fresh)
      BY <1>4 DEF Promote
    <2>q. Protects(stored, k, entry)
      BY <1>4
    <2> HIDE DEF entry
    <2>4. fresh \in CacheEntries /\ fresh.offer = entry.offer /\ fresh.ad = entry.ad
      BY <2>1, <2>2 DEF CacheEntries
    <2>5. Protects(stored, k, fresh)
      BY <2>q, <2>4 DEF Protects
    <2>6. InLimits(Only(p, k, "live", fresh))
      <3>1. ProtectedCapacity(p, k)
        BY <1>2, <2>1, <2>3, <2>q DEF Protects
      <3> HIDE DEF fresh
      <3> QED BY <1>1, <2>4, <3>1, CapacityLimits
    <2>7. fresh.offer # Absent =>
             /\ stored[k] # Absent => stored[k].status # "removed"
             /\ \A j \in Routes : j # k /\ Offered(p, j) => Locator(p, j) # fresh.offer.locator
      <3>1. fresh.offer # Absent => Offered(p, k) /\ Locator(p, k) = fresh.offer.locator
        BY <2>1, <2>3, <2>4 DEF Offered, Locator
      <3> HIDE DEF fresh
      <3> QED BY <1>1, <1>2, <3>1 DEF LocatorsLead
    <2> HIDE DEF fresh
    <2>8. PoolsGood(stored, Only(p, k, "live", fresh))
      BY <1>2, <2>4, <2>5, <2>6, <2>7, OnlyGood
    <2> QED BY <2>p, <2>8
  <1> QED BY <1>3, <1>4

\* storePendingAdvertisementLocked: the entry that makes room leaves the pool within
\* its limit.
LEMMA StorePendingGood ==
    ASSUME NEW inv, NEW p, PoolsGood(inv, p), NEW k \in Routes, NEW entry \in CacheEntries,
           NEW at \in Int, NEW q \in StorePending(p, k, entry, at),
           p.retained[k] = Absent,
           entry.offer # Absent =>
              /\ inv[k] # Absent => inv[k].status # "removed"
              /\ \A j \in Routes : j # k /\ Offered(p, j) => Locator(p, j) # entry.offer.locator
    PROVE  PoolsGood(inv, q)
  <1> DEFINE stored == [entry EXCEPT !.expires = AdvertisementExpiry(entry.ad, at, PendingTTL)]
             full == p.pending[k] = Absent /\ Cardinality(Held(p.pending)) >= PendingLimit
  <1>1. p \in PoolsType /\ OnePool(p) /\ InLimits(p)
    BY DEF PoolsGood
  <1>2. stored \in CacheEntries /\ stored.offer = entry.offer
    <2>1. AdvertisementExpiry(entry.ad, at, PendingTTL) \in Int
      BY ExpiryType, BoundsAssumption DEF CacheEntries
    <2> QED BY <2>1 DEF CacheEntries
  <1>3. \E room : /\ q = Only(room, k, "pending", stored)
                  /\ \/ ~full /\ room = p
                     \/ full /\ \E e \in Held(p.pending) : room = [p EXCEPT !.pending[e] = Absent]
    BY DEF StorePending
  <1> HIDE DEF stored, full
  <1>4. PICK room : /\ q = Only(room, k, "pending", stored)
                    /\ \/ ~full /\ room = p
                       \/ full /\ \E e \in Held(p.pending) : room = [p EXCEPT !.pending[e] = Absent]
    BY <1>3
  <1>5. /\ room \in PoolsType /\ room.live = p.live /\ room.retained = p.retained
        /\ \A j \in Routes : room.pending[j] \in {Absent, p.pending[j]}
        /\ full => \E e \in Held(p.pending) : Held(room.pending) = Held(p.pending) \ {e}
        /\ ~full => room.pending = p.pending
    <2>1. CASE ~full /\ room = p
      BY <1>1, <2>1
    <2>2. ASSUME full, NEW e \in Held(p.pending), room = [p EXCEPT !.pending[e] = Absent]
          PROVE  /\ room \in PoolsType /\ room.live = p.live /\ room.retained = p.retained
                 /\ \A j \in Routes : room.pending[j] \in {Absent, p.pending[j]}
                 /\ Held(room.pending) = Held(p.pending) \ {e}
      <3>1. p.pending \in Pool /\ e \in Routes
        BY <1>1 DEF PoolsType, Held
      <3>2. /\ room \in PoolsType /\ room.live = p.live /\ room.retained = p.retained
            /\ room.pending = [p.pending EXCEPT ![e] = Absent]
        BY <1>1, <2>2, <3>1 DEF PoolsType, Pool
      <3> QED BY <3>1, <3>2 DEF Pool, Held
    <2> QED BY <1>4, <2>1, <2>2
  <1>6. PoolsGood(inv, room)
    BY <1>5, FewerGood
  <1>7. \A j \in Routes : AdvertisementIn(room, j) \in {Absent, AdvertisementIn(p, j)}
    BY <1>1, <1>5 DEF AdvertisementIn, OnePool
  <1>8. stored.offer # Absent =>
           /\ inv[k] # Absent => inv[k].status # "removed"
           /\ \A j \in Routes : j # k /\ Offered(room, j) => Locator(room, j) # stored.offer.locator
    BY <1>2, <1>7 DEF Offered, Locator
  <1>9. InLimits(Only(room, k, "pending", stored))
    <2> DEFINE z == Only(room, k, "pending", stored)
               n == Cardinality(Held(p.pending))
               m == Cardinality(Held(room.pending))
    <2>r. Replaced(room, k, "pending", stored, z)
      BY <1>2, <1>5, OnlyFacts
    <2>1. /\ Held(z.pending) = Held(room.pending) \cup {k}
          /\ Held(z.live) \subseteq Held(room.live) /\ Held(z.retained) \subseteq Held(room.retained)
      <3> HIDE DEF z
      <3> QED BY <2>r DEF Replaced, Held
    <2>2. n \in Nat /\ m \in Nat /\ PendingLimit \in Nat \ {0} /\ RegLimit \in Nat
      BY HeldFinite, BoundsAssumption
    <2>3. InLimits(room)
      BY <1>6 DEF PoolsGood
    <2>4. /\ Cardinality(Held(z.live)) <= Cardinality(Held(room.live))
          /\ Cardinality(Held(z.retained)) <= Cardinality(Held(room.retained))
      BY <2>1, HeldFewer
    <2>5. /\ Cardinality(Held(z.live)) \in Nat /\ Cardinality(Held(room.live)) \in Nat
          /\ Cardinality(Held(z.retained)) \in Nat /\ Cardinality(Held(room.retained)) \in Nat
          /\ Cardinality(Held(z.pending)) \in Nat
      BY HeldFinite
    <2>6. Cardinality(Held(z.live)) + Cardinality(Held(z.retained)) <= RegLimit
      <3>1. Cardinality(Held(room.live)) + Cardinality(Held(room.retained)) <= RegLimit
        BY <2>3 DEF InLimits
      <3> HIDE DEF z
      <3> QED BY <2>2, <2>4, <2>5, <3>1
    <2>7. Cardinality(Held(z.pending)) <= PendingLimit
      <3>1. n <= PendingLimit
        BY <1>1 DEF InLimits
      <3>2. full => m = n - 1
        BY <1>5, HeldLess
      <3>3. ~full => m = n /\ (k \in Held(room.pending) \/ n < PendingLimit)
        BY <1>5, <2>2 DEF full, Held
      <3>4. Cardinality(Held(z.pending)) = IF k \in Held(room.pending) THEN m ELSE m + 1
        BY <2>1, HeldMore
      <3> HIDE DEF n, m, z
      <3> QED BY <2>2, <3>1, <3>2, <3>3, <3>4
    <2> QED BY <2>6, <2>7 DEF InLimits
  <1>10. PoolsGood(inv, Only(room, k, "pending", stored))
    BY <1>2, <1>6, <1>8, <1>9, OnlyGood
  <1> QED BY <1>4, <1>10

\* cacheAdvertisementLocked keeps the pools good; a removed route gets no offer.
LEMMA CacheGood ==
    ASSUME IInv, NEW p, PoolsGood(admissions, p), NEW k \in Routes, NEW ad \in Ads,
           NEW offer \in Offers \cup {Absent}, NEW at \in Int,
           offer # Absent => (admissions[k] # Absent => admissions[k].status # "removed"),
           NEW q \in CacheAdvertisement(p, k, ad, offer, at)
    PROVE  PoolsGood(admissions, q)
  <1> DEFINE entry == WithOffer(p, k, ad, offer)
             live == [entry EXCEPT !.expires = AdvertisementExpiry(ad, at, LiveTTL)]
             prev == AdvertisementIn(p, k)
  <1>1. /\ p \in PoolsType /\ OnePool(p) /\ InLimits(p) /\ OfferedOpen(admissions, p)
    BY DEF PoolsGood
  <1>2. prev \in CacheEntries \cup {Absent}
    BY <1>1, AdvertisementInType
  <1>3. /\ entry \in CacheEntries
        /\ entry.offer = IF offer = Absent /\ prev # Absent THEN prev.offer ELSE offer
    <2> HIDE DEF prev
    <2>1. entry = [ad |-> ad, expires |-> 0,
                   offer |-> IF offer = Absent /\ prev # Absent THEN prev.offer ELSE offer]
      BY DEF WithOffer, prev
    <2> HIDE DEF entry
    <2> QED BY <1>2, <2>1 DEF CacheEntries
  <1>4. /\ p.retained[k] = Absent /\ ~LocatorTaken(p, k, entry)
        /\ \/ q \in StorePending(p, k, entry, at)
           \/ q = Only(p, k, "live", live) /\ Protects(admissions, k, entry) /\ ProtectedCapacity(p, k)
    <2> HIDE DEF entry
    <2> QED BY DEF CacheAdvertisement, entry
  <1> HIDE DEF entry
  <1>5. entry.offer # Absent => (admissions[k] # Absent => admissions[k].status # "removed")
    BY <1>1, <1>3 DEF OfferedOpen, Offered
  <1>6. entry.offer # Absent =>
           \A j \in Routes : j # k /\ Offered(p, j) => Locator(p, j) # entry.offer.locator
    <2> SUFFICES ASSUME entry.offer # Absent, NEW j \in Routes, j # k, Offered(p, j),
                        Locator(p, j) = entry.offer.locator
                 PROVE  FALSE
      OBVIOUS
    <2>1. /\ AdvertisementIn(p, j) # Absent /\ SameLocator(AdvertisementIn(p, j), entry)
      BY DEF Offered, Locator, SameLocator
    <2>2. \E s \in {"live", "retained", "pending"} : p[s][j] = AdvertisementIn(p, j)
      BY DEF AdvertisementIn
    <2> QED BY <1>4, <2>1, <2>2 DEF LocatorTaken
  <1>7. CASE q \in StorePending(p, k, entry, at)
    BY <1>3, <1>4, <1>5, <1>6, <1>7, StorePendingGood
  <1>8. CASE q = Only(p, k, "live", live) /\ Protects(admissions, k, entry) /\ ProtectedCapacity(p, k)
    <2>1. AdvertisementExpiry(ad, at, LiveTTL) \in Int
      <3>1. LiveTTL \in Int
        BY BoundsAssumption
      <3> QED BY ONLY <3>1, ExpiryType, ad \in Ads, at \in Int
    <2>2. live \in CacheEntries /\ live.offer = entry.offer /\ live.ad = entry.ad
      BY <1>3, <2>1 DEF CacheEntries
    <2> HIDE DEF live
    <2>3. InLimits(Only(p, k, "live", live))
      BY <1>1, <1>8, <2>2, CapacityLimits
    <2>4. Protects(admissions, k, live)
      BY <1>8, <2>2 DEF Protects
    <2>5. PoolsGood(admissions, Only(p, k, "live", live))
      BY <1>5, <1>6, <2>2, <2>3, <2>4, OnlyGood
    <2> QED BY <1>8, <2>5
  <1> QED BY <1>4, <1>7, <1>8

\* A record that may be saved and is not a removal, and what the save leaves.
Savable(p, k, next) ==
    /\ next.status # "removed"
    /\ admissions[k] # Absent => next.root = admissions[k].root
    /\ p.retained[k] # Absent => next.root = p.retained[k].ad.root
SavedPools(o, k, next) ==
    /\ PoolsGood(o.inv, o.pools)
    /\ o.ok \in BOOLEAN
    /\ o.inv = admissions \/ (o.ok = TRUE /\ o.inv = [admissions EXCEPT ![k] = next])
    /\ o.ok = TRUE => o.inv[k] = next

\* Saving a record that is not a removal keeps the pools good for the inventory in
\* memory, whether or not the save succeeds.
LEMMA SavePools ==
    ASSUME IInv, NEW p, PoolsGood(admissions, p), NEW k \in Routes, NEW next \in Records,
           Savable(p, k, next), NEW o \in SaveAdmission(p, k, next)
    PROVE  SavedPools(o, k, next)
  <1> USE DEF Savable, SavedPools
  <1> DEFINE stored == [admissions EXCEPT ![k] = next]
             refused == \/ admissions[k] = Absent /\ Cardinality(Held(admissions)) >= MaxRecords
                        \/ /\ AdvertisementIn(p, k) # Absent
                           /\ next.status # "removed"
                           /\ next.root = AdvertisementIn(p, k).ad.root
                           /\ ~ProtectedCapacity(p, k)
  <1>1. admissions \in Inventory /\ now \in Int
    BY BoundsAssumption DEF IInv, InventoryTypeOK, Inventory, Times
  <1>2. stored[k] = next /\ (admissions[k] = next => stored = admissions)
    BY <1>1 DEF Inventory
  <1>3. CASE refused
    <2>1. o = Outcome(FALSE, admissions, disk, p)
      BY <1>3 DEF SaveAdmission
    <2> QED BY <2>1 DEF Outcome
  <1>4. CASE ~refused
    <2>1. AdvertisementIn(p, k) # Absent /\ next.root = AdvertisementIn(p, k).ad.root
             => ProtectedCapacity(p, k)
      BY <1>4
    <2>2. \/ o = Outcome(TRUE, stored, stored, Promote(stored, p, k, now))
          \/ admissions[k] = next /\ o = Outcome(TRUE, admissions, disk, Promote(admissions, p, k, now))
          \/ \E d \in {disk, stored} : o = Outcome(FALSE, admissions, d, p)
      BY <1>4 DEF SaveAdmission
    <2> HIDE DEF refused
    <2>s. stored = [admissions EXCEPT ![k] = next]
      OBVIOUS
    <2> HIDE DEF stored
    <2>3. PoolsGood(stored, Promote(stored, p, k, now))
      BY <1>1, <2>1, <2>s, PromoteGood
    <2>4. CASE o = Outcome(TRUE, stored, stored, Promote(stored, p, k, now))
      <3>1. o.ok = TRUE /\ o.inv = stored /\ o.pools = Promote(stored, p, k, now)
        BY <2>4 DEF Outcome
      <3> QED BY <1>2, <2>3, <2>s, <3>1
    <2>5. CASE admissions[k] = next /\ o = Outcome(TRUE, admissions, disk, Promote(admissions, p, k, now))
      <3>1. /\ o.ok = TRUE /\ o.inv = admissions /\ o.pools = Promote(admissions, p, k, now)
            /\ stored = admissions
        BY <1>2, <2>5 DEF Outcome
      <3> QED BY <1>2, <2>3, <2>5, <2>s, <3>1
    <2>6. CASE \E d \in {disk, stored} : o = Outcome(FALSE, admissions, d, p)
      <3>1. o.ok = FALSE /\ o.inv = admissions /\ o.pools = p
        BY <2>6 DEF Outcome
      <3> QED BY <3>1
    <2> QED BY <2>2, <2>4, <2>5, <2>6
  <1> QED BY <1>3, <1>4

\* RemoveAdmission: the advertisement of the route is retained without its offer, or goes.
LEMMA RetireGood ==
    ASSUME IInv, NEW p, PoolsGood(admissions, p), NEW k \in Routes, NEW inv,
           \A j \in Routes : j # k => inv[j] = admissions[j],
           inv[k] # Absent, inv[k].status = "removed"
    PROVE  PoolsGood(inv, Retire(p, k))
  <1> DEFINE ad == AdvertisementIn(p, k)
             bare == [ad EXCEPT !.offer = Absent]
  <1>1. p \in PoolsType /\ OnePool(p) /\ InLimits(p)
    BY DEF PoolsGood
  <1>2. CASE ad = Absent
    <2>1. Retire(p, k) = p
      BY <1>2 DEF Retire
    <2>2. p.live[k] = Absent /\ p.retained[k] = Absent /\ p.pending[k] = Absent
      BY <1>2 DEF AdvertisementIn
    <2>3. PoolsGood(inv, p)
      BY <1>1, <2>2, FewerGood
    <2> QED BY <2>1, <2>3
  <1>3. CASE ad # Absent /\ ProtectedCapacity(p, k)
    <2>1. Retire(p, k) = Only(p, k, "retained", bare)
      BY <1>3 DEF Retire
    <2>2. ad \in CacheEntries
      BY <1>1, <1>3, AdvertisementInType
    <2> HIDE DEF ad
    <2>3. bare \in CacheEntries /\ bare.offer = Absent
      BY <2>2 DEF CacheEntries
    <2> HIDE DEF bare
    <2>4. InLimits(Only(p, k, "retained", bare))
      BY <1>1, <1>3, <2>3, CapacityLimits
    <2>5. PoolsGood(inv, Only(p, k, "retained", bare))
      BY <2>3, <2>4, OnlyGood
    <2> QED BY <2>1, <2>5
  <1>4. CASE ad # Absent /\ ~ProtectedCapacity(p, k)
    <2> DEFINE q == [p EXCEPT !.live[k] = Absent, !.pending[k] = Absent]
    <2>1. Retire(p, k) = q
      BY <1>4 DEF Retire
    <2>2. p.live \in Pool /\ p.retained \in Pool /\ p.pending \in Pool
      BY <1>1 DEF PoolsType
    <2>3. /\ q \in PoolsType /\ q.live = [p.live EXCEPT ![k] = Absent] /\ q.retained = p.retained
          /\ q.pending = [p.pending EXCEPT ![k] = Absent]
      BY <1>1, <2>2 DEF PoolsType, Pool
    <2>4. p.retained[k] = Absent
      BY <1>4 DEF ProtectedCapacity
    <2> HIDE DEF q
    <2>5. /\ \A j \in Routes : /\ q.live[j] \in {Absent, p.live[j]}
                               /\ q.retained[j] \in {Absent, p.retained[j]}
                               /\ q.pending[j] \in {Absent, p.pending[j]}
          /\ q.live[k] = Absent /\ q.retained[k] = Absent /\ q.pending[k] = Absent
      BY <2>2, <2>3, <2>4 DEF Pool
    <2>6. PoolsGood(inv, q)
      <3>1. \A j \in Routes : \/ inv[j] = admissions[j]
                              \/ q.live[j] = Absent /\ q.retained[j] = Absent /\ q.pending[j] = Absent
        BY <2>5
      <3>2. q \in PoolsType
        BY <2>3
      <3> QED BY <2>5, <3>1, <3>2, FewerGood
    <2> QED BY <2>1, <2>6
  <1> QED BY <1>2, <1>3, <1>4

-----------------------------------------------------------------------------
(* Deliveries. *)

\* The tokens of one route that were minted before the relay kept an inventory
\* name one admission root.  Without it the first record of the route could exclude
\* a token that is already held for delivery; fetchRegistration then refuses it.
LegacyOneRoot == \A s, t \in Legacy : s.route = t.route => s.root = t.root

DeliveryLimit == Cardinality(Held(registrations)) <= RegLimit
DeliveriesHold ==
    \A k \in Routes : registrations[k] # Absent =>
        /\ registrations[k].token \in tokens /\ registrations[k].token.route = k
        /\ Admitted(registrations[k].token)
ConnsHold == \A c \in Conns : conns[c] # Idle => conns[c].token \in tokens
FreshRecorded == \A t \in tokens \ Legacy : admissions[t.route] # Absent

CacheInv ==
    /\ PoolsGood(admissions, pools) /\ DeliveryLimit /\ DeliveriesHold /\ ConnsHold
    /\ FreshRecorded

\* A step that leaves policy and tokens alone and delivers nothing new.
LEMMA QuietCaches ==
    ASSUME CacheInv, UNCHANGED <<admissions, tokens>>, PoolsGood(admissions, pools'),
           \A k \in Routes : registrations'[k] \in {Absent, registrations[k]}, ConnsHold'
    PROVE  CacheInv'
  <1>1. DeliveryLimit'
    <2>1. Held(registrations') \subseteq Held(registrations)
      BY DEF Held
    <2>2. Cardinality(Held(registrations')) <= Cardinality(Held(registrations))
      BY <2>1, HeldFewer
    <2>3. /\ Cardinality(Held(registrations')) \in Nat /\ Cardinality(Held(registrations)) \in Nat
          /\ RegLimit \in Nat
      BY HeldFinite, BoundsAssumption
    <2> QED BY <2>2, <2>3 DEF CacheInv, DeliveryLimit, Held
  <1>2. DeliveriesHold'
    BY DEF CacheInv, DeliveriesHold, Admitted
  <1>3. FreshRecorded'
    BY DEF CacheInv, FreshRecorded
  <1> QED BY <1>1, <1>2, <1>3 DEF CacheInv

\* What recording a token's claims may do to the policy of its route.
Claimed(inv, t) ==
    \/ inv = admissions
    \/ \E next \in Records :
          /\ inv = [admissions EXCEPT ![t.route] = next] /\ next.status # "removed"
          /\ admissions[t.route] # Absent =>
                next.root = admissions[t.route].root /\ next.reject = admissions[t.route].reject
                /\ admissions[t.route].status # "removed"
          /\ admissions[t.route] = Absent => next.root = t.root /\ next.reject = 0

\* recordClaimsLocked keeps the pools good and reopens nothing.
LEMMA ClaimsPools ==
    ASSUME IInv, NEW p, PoolsGood(admissions, p), NEW t \in Tokens,
           NEW status \in {"approved", "observed"}, NEW o \in RecordClaims(p, t, status)
    PROVE  PoolsGood(o.inv, o.pools) /\ Claimed(o.inv, t)
  <1> DEFINE next == RecordFor(t, status)
             r == admissions[t.route]
  <1>t. /\ admissions \in Inventory /\ t.route \in Routes /\ t.root \in Roots /\ t.issued \in Stamps
        /\ 0 \in Stamps
    BY BoundsAssumption DEF IInv, InventoryTypeOK, Inventory, Tokens, Stamps
  <1>1. CASE ~Admitted(t)
    <2>1. o = Outcome(FALSE, admissions, disk, p)
      BY <1>1 DEF RecordClaims
    <2>2. o.inv = admissions /\ o.pools = p
      BY <2>1 DEF Outcome
    <2> QED BY <2>2 DEF Claimed
  <1>2. CASE Admitted(t)
    <2>1. o \in SaveAdmission(p, t.route, next)
      BY <1>2 DEF RecordClaims
    <2>2. r # Absent => r.status # "removed"
      BY <1>2 DEF Admitted, RejectsIn
    <2>3. /\ next \in Records /\ next.status # "removed"
          /\ r # Absent => next.root = r.root /\ next.reject = r.reject
          /\ r = Absent => next.root = t.root /\ next.reject = 0
      <3>1. CASE r = Absent
        <4>1. next = [root |-> t.root, status |-> status, last |-> t.issued, reject |-> 0]
          BY <3>1 DEF RecordFor
        <4> HIDE DEF next
        <4> QED BY <4>1, <3>1, <1>t DEF Records, Statuses
      <3>2. CASE r # Absent
        <4>1. r \in Records
          BY <3>2, <1>t DEF Inventory
        <4>2. next = [r EXCEPT !.status = IF status = "observed" THEN status ELSE @,
                               !.last = Later(@, t.issued)]
          BY <3>2 DEF RecordFor
        <4>3. r.last \in Stamps
          BY <4>1 DEF Records
        <4>4. Later(r.last, t.issued) \in Stamps
          BY <4>3, <1>t, LaterFacts
        <4> HIDE DEF r, next
        <4> QED BY <2>2, <3>2, <4>1, <4>2, <4>4 DEF Records, Statuses
      <3> QED BY <3>1, <3>2
    <2>4. p.retained[t.route] = Absent
      BY <1>t, <2>2 DEF PoolsGood, PolicyBacks
    <2>n. next \in Records
      BY <2>3
    <2> HIDE DEF next
    <2>5. /\ PoolsGood(o.inv, o.pools)
          /\ o.inv = admissions \/ o.inv = [admissions EXCEPT ![t.route] = next]
      <3> DEFINE k == t.route
      <3>1. /\ k \in Routes /\ next.status # "removed" /\ o \in SaveAdmission(p, k, next)
            /\ p.retained[k] # Absent => next.root = p.retained[k].ad.root
            /\ admissions[k] # Absent => next.root = admissions[k].root
        BY <1>t, <2>1, <2>3, <2>4
      <3> HIDE DEF k
      <3>2. PICK n \in Records : n = next
        BY <2>n
      <3>3. k \in Routes /\ Savable(p, k, n) /\ o \in SaveAdmission(p, k, n)
        BY <3>1, <3>2 DEF Savable
      <3>4. SavedPools(o, k, n)
        BY <3>3, SavePools
      <3> QED BY <3>2, <3>4 DEF k, SavedPools
    <2>6. Claimed(o.inv, t)
      BY <2>2, <2>3, <2>5, <2>n DEF Claimed
    <2> QED BY <2>5, <2>6
  <1> QED BY <1>1, <1>2

\* A delivery outlives the record of another token of its route.
LEMMA ClaimedDeliveries ==
    ASSUME LegacyOneRoot, IInv, CacheInv, NEW t \in Tokens, NEW u \in tokens, u.route = t.route,
           u.root = t.root, Claimed(admissions', t), NEW k \in Routes, registrations[k] # Absent
    PROVE  ~RejectsIn(admissions', registrations[k].token)
  <1> DEFINE s == registrations[k].token
             r == admissions[k]
  <1>1. /\ s \in tokens /\ s.route = k /\ Admitted(s) /\ s \in Tokens /\ tokens \subseteq Tokens
        /\ admissions \in Inventory /\ t.route \in Routes
    BY DEF CacheInv, DeliveriesHold, IInv, InventoryTypeOK, Inventory, Tokens
  <1>2. s.issued \in Nat /\ s.issued > 0
    BY <1>1, BoundsAssumption DEF Tokens, Stamps
  <1>3. CASE admissions'[k] = r
    BY <1>1, <1>3 DEF Admitted, RejectsIn
  <1>4. CASE admissions'[k] # r
    <2>1. PICK next \in Records :
            /\ admissions' = [admissions EXCEPT ![t.route] = next] /\ next.status # "removed"
            /\ admissions[t.route] # Absent =>
                  next.root = admissions[t.route].root /\ next.reject = admissions[t.route].reject
                  /\ admissions[t.route].status # "removed"
            /\ admissions[t.route] = Absent => next.root = t.root /\ next.reject = 0
      BY <1>4 DEF Claimed
    <2>2. k = t.route /\ admissions'[k] = next
      BY <1>1, <1>4, <2>1 DEF Inventory
    <2>3. CASE r # Absent
      BY <1>1, <2>1, <2>2, <2>3 DEF Admitted, RejectsIn
    <2>4. CASE r = Absent
      <3>1. s \in Legacy /\ u \in Legacy
        BY <1>1, <2>2, <2>4 DEF CacheInv, FreshRecorded
      <3>2. s.root = t.root
        BY <1>1, <2>2, <3>1 DEF LegacyOneRoot
      <3>3. next.root = s.root /\ next.reject = 0
        BY <2>1, <2>2, <2>4, <3>2
      <3>4. ~RejectsIn(admissions', s)
        <4> HIDE DEF s
        <4> QED BY <1>1, <1>2, <2>1, <2>2, <3>3 DEF RejectsIn
      <3> QED BY <3>4
    <2> QED BY <2>3, <2>4
  <1> QED BY <1>3, <1>4

\* A step that records the claims of a token, and may release it, keeps the caches.
LEMMA InstallCaches ==
    ASSUME LegacyOneRoot, IInv, IInv', CacheInv, NEW o, Install(o), PoolsGood(o.inv, o.pools),
           NEW t \in Tokens, NEW u \in tokens, u.route = t.route, u.root = t.root,
           Claimed(o.inv, t),
           \A k \in Routes : registrations'[k] \in {Absent, registrations[k]}, ConnsHold',
           tokens' = tokens \/ (tokens' = tokens \cup {t} /\ o.inv[t.route] # Absent)
    PROVE  CacheInv'
  <1>1. admissions' = o.inv /\ pools' = o.pools
    BY DEF Install
  <1>2. PoolsGood(admissions', pools') /\ Claimed(admissions', t)
    BY <1>1
  <1>3. DeliveryLimit'
    <2>1. Held(registrations') \subseteq Held(registrations)
      BY DEF Held
    <2>2. Cardinality(Held(registrations')) <= Cardinality(Held(registrations))
      BY <2>1, HeldFewer
    <2>3. /\ Cardinality(Held(registrations')) \in Nat /\ Cardinality(Held(registrations)) \in Nat
          /\ RegLimit \in Nat
      BY HeldFinite, BoundsAssumption
    <2> QED BY <2>2, <2>3 DEF CacheInv, DeliveryLimit, Held
  <1>4. DeliveriesHold'
    <2> SUFFICES ASSUME NEW k \in Routes, registrations'[k] # Absent
                 PROVE  /\ registrations'[k].token \in tokens' /\ registrations'[k].token.route = k
                        /\ ~RejectsIn(admissions', registrations'[k].token)
      BY DEF DeliveriesHold, Admitted
    <2>1. registrations'[k] = registrations[k] /\ registrations[k] # Absent
      OBVIOUS
    <2>2. ~RejectsIn(admissions', registrations[k].token)
      BY <1>2, <2>1, ClaimedDeliveries
    <2>3. registrations[k].token \in tokens /\ registrations[k].token.route = k
      BY <2>1 DEF CacheInv, DeliveriesHold
    <2> QED BY <2>1, <2>2, <2>3
  <1>5. FreshRecorded'
    <2>1. \A j \in Routes : admissions[j] # Absent => admissions'[j] # Absent
      <3>1. CASE admissions' = admissions
        BY <3>1
      <3>2. CASE admissions' # admissions
        <4>1. PICK next \in Records : admissions' = [admissions EXCEPT ![t.route] = next]
          BY <1>2, <3>2 DEF Claimed
        <4>2. next # Absent /\ admissions \in Inventory
          BY AbsentAssumption DEF IInv, InventoryTypeOK, Inventory
        <4> QED BY <4>1, <4>2 DEF Inventory
      <3> QED BY <3>1, <3>2
    <2>2. \A s \in tokens : s.route \in Routes
      BY DEF IInv, InventoryTypeOK, Tokens
    <2> QED BY <1>1, <2>1, <2>2 DEF CacheInv, FreshRecorded
  <1> QED BY <1>2, <1>3, <1>4, <1>5 DEF CacheInv

\* Dropping expired deliveries keeps the others.
LEMMA ExpireSome ==
    ASSUME NEW g, NEW at, NEW k \in Routes
    PROVE  ExpireRegistrations(g, at)[k] \in {Absent, g[k]}
  BY DEF ExpireRegistrations

\* What the state gives every step of the handlers.
LEMMA CacheTypes ==
    ASSUME IInv, CacheInv
    PROVE  /\ now \in Int /\ pools \in PoolsType /\ admissions \in Inventory
           /\ conns \in [Conns -> ConnType] /\ tokens \subseteq Tokens
           /\ registrations \in [Routes -> Deliveries \cup {Absent}]
           /\ PoolsGood(admissions, pools) /\ PoolsGood(admissions, Expire(pools, now))
           /\ Expire(pools, now) \in PoolsType
  <1>1. /\ now \in Int /\ pools \in PoolsType /\ admissions \in Inventory
        /\ conns \in [Conns -> ConnType] /\ tokens \subseteq Tokens
        /\ registrations \in [Routes -> Deliveries \cup {Absent}]
    BY BoundsAssumption DEF IInv, InventoryTypeOK, PoolsType, Inventory, ConnType, Times
  <1>2. PoolsGood(admissions, pools)
    BY DEF CacheInv
  <1> QED BY <1>1, <1>2, ExpireGood, ExpireType

\* Publishing an advertisement or an offer, and every fetch.
LEMMA PublishCaches ==
    ASSUME IInv, CacheInv, NEW ad \in Ads, NEW f \in Offers \cup {Absent},
           f # Absent => (admissions[ad.route] # Absent => admissions[ad.route].status # "removed"),
           pools' \in CacheAdvertisement(Expire(pools, now), ad.route, ad, f, now),
           registrations' = ExpireRegistrations(registrations, now),
           UNCHANGED <<admissions, conns, tokens>>
    PROVE  CacheInv'
  <1>1. ad.route \in Routes
    BY InputsAssumption
  <1>2. PoolsGood(admissions, pools')
    BY <1>1, CacheTypes, CacheGood
  <1>3. \A k \in Routes : registrations'[k] \in {Absent, registrations[k]}
    BY ExpireSome
  <1>4. ConnsHold'
    BY DEF CacheInv, ConnsHold
  <1> QED BY <1>2, <1>3, <1>4, QuietCaches

\* Restoring a delivery with a token the relay accepts.
LEMMA RestoreCaches ==
    ASSUME IInv, CacheInv, NEW ad \in Ads, NEW f \in Offers, NEW t \in tokens,
           RestoreOffer(ad, f, t)
    PROVE  CacheInv'
  <1> DEFINE k == ad.route
             kept == ExpireRegistrations(registrations, now)
             restored == [token |-> t, ad |-> ad]
  <1>1. /\ t.route = k /\ Admitted(t)
        /\ IF kept[k] # Absent THEN kept[k] = restored ELSE Cardinality(Held(kept)) < RegLimit
        /\ pools' \in CacheAdvertisement(Expire(pools, now), k, ad, f, now)
        /\ registrations' = [kept EXCEPT ![k] = restored]
        /\ UNCHANGED <<now, admissions, disk, conns, tokens, revoked>>
    BY DEF RestoreOffer
  <1>2. k \in Routes /\ admissions[k] # Absent => admissions[k].status # "removed"
    BY <1>1, InputsAssumption DEF Admitted, RejectsIn
  <1>k. k \in Routes
    BY InputsAssumption
  <1>3. PoolsGood(admissions, pools')
    BY <1>1, <1>2, <1>k, CacheTypes, CacheGood
  <1>4. kept \in [Routes -> Deliveries \cup {Absent}]
    BY CacheTypes, ExpireRegistrationsType
  <1>5. restored # Absent /\ restored.token = t
    <2>1. restored \in Deliveries
      BY CacheTypes DEF Deliveries
    <2> QED BY <2>1, AbsentAssumption
  <1> HIDE DEF restored
  <1>6. registrations'[k] = restored /\ \A j \in Routes : j # k => registrations'[j] = kept[j]
    BY <1>1, <1>4, <1>k
  <1>7. \A j \in Routes : kept[j] \in {Absent, registrations[j]}
    BY ExpireSome
  <1> HIDE DEF kept
  <1>8. DeliveryLimit'
    <2>1. Held(kept) \subseteq Held(registrations)
      BY <1>7 DEF Held
    <2>2. Cardinality(Held(kept)) <= RegLimit
      <3>1. Cardinality(Held(kept)) <= Cardinality(Held(registrations))
        BY <2>1, HeldFewer
      <3> QED BY <3>1, HeldFinite, BoundsAssumption DEF CacheInv, DeliveryLimit
    <2>3. Held(registrations') = Held(kept) \cup {k}
      BY <1>5, <1>6, <1>k DEF Held
    <2>4. /\ k \in Held(kept) => Cardinality(Held(registrations')) = Cardinality(Held(kept))
          /\ k \notin Held(kept) => Cardinality(Held(registrations')) = Cardinality(Held(kept)) + 1
      BY <2>3, HeldMore
    <2>5. k \in Held(kept) \/ Cardinality(Held(kept)) < RegLimit
      BY <1>1, <1>k DEF Held
    <2> QED BY <2>2, <2>4, <2>5, HeldFinite, BoundsAssumption DEF DeliveryLimit, Held
  <1>9. DeliveriesHold'
    <2> SUFFICES ASSUME NEW j \in Routes, registrations'[j] # Absent
                 PROVE  /\ registrations'[j].token \in tokens /\ registrations'[j].token.route = j
                        /\ ~RejectsIn(admissions, registrations'[j].token)
      BY <1>1 DEF DeliveriesHold, Admitted
    <2>1. CASE j = k
      BY <1>1, <1>5, <1>6, <2>1 DEF Admitted
    <2>2. CASE j # k
      BY <1>6, <1>7, <2>2 DEF CacheInv, DeliveriesHold, Admitted
    <2> QED BY <2>1, <2>2
  <1>10. ConnsHold' /\ FreshRecorded'
    BY <1>1 DEF CacheInv, ConnsHold, FreshRecorded
  <1> QED BY <1>1, <1>3, <1>8, <1>9, <1>10 DEF CacheInv

\* Repeating an approval records the token already held for delivery.
LEMMA RepeatCaches ==
    ASSUME LegacyOneRoot, IInv, IInv', CacheInv, NEW k \in Routes, NEW v \in Validities,
           RepeatApproval(k, v)
    PROVE  CacheInv'
  <1> DEFINE p == Expire(pools, now)
             kept == ExpireRegistrations(registrations, now)
  <1>1. /\ kept[k] # Absent /\ registrations' = kept
        /\ \E o \in RecordClaims(p, kept[k].token, "approved") : Install(o)
        /\ UNCHANGED <<now, conns, tokens, revoked>>
    BY DEF RepeatApproval, SameApproval
  <1>2. \A j \in Routes : kept[j] \in {Absent, registrations[j]}
    BY ExpireSome
  <1>p. PoolsGood(admissions, p)
    BY CacheTypes
  <1> HIDE DEF p, kept
  <1>3. PICK t : t = kept[k].token
    OBVIOUS
  <1>4. kept[k] = registrations[k] /\ t \in tokens /\ t \in Tokens
    BY <1>1, <1>2, <1>3, CacheTypes DEF CacheInv, DeliveriesHold
  <1>5. PICK o \in RecordClaims(p, t, "approved") : Install(o)
    BY <1>1, <1>3
  <1>q. PICK pp : pp = p
    OBVIOUS
  <1>6. PoolsGood(o.inv, o.pools) /\ Claimed(o.inv, t)
    <2>1. o \in RecordClaims(pp, t, "approved") /\ PoolsGood(admissions, pp)
      BY <1>q, <1>p, <1>5
    <2> QED BY <1>4, <2>1, ClaimsPools
  <1>7. ConnsHold'
    BY <1>1 DEF CacheInv, ConnsHold
  <1>8. \A j \in Routes : registrations'[j] \in {Absent, registrations[j]}
    BY <1>1, <1>2
  <1> QED BY <1>1, <1>4, <1>5, <1>6, <1>7, <1>8, InstallCaches

\* The claims of an authenticated connection are those of a released token.
LEMMA ConnToken ==
    ASSUME IInv, CacheInv, NEW c \in Conns, conns[c].phase \in {"tracked", "observed"}
    PROVE  conns[c] # Idle /\ conns[c].token \in tokens /\ conns[c].token \in Tokens
  <1>1. conns[c] # Idle
    BY DEF Idle
  <1> QED BY <1>1, CacheTypes DEF CacheInv, ConnsHold

\* Observing the claims of a connection.
LEMMA ObserveCaches ==
    ASSUME LegacyOneRoot, IInv, IInv', CacheInv, NEW c \in Conns, Observe(c)
    PROVE  CacheInv'
  <1>0. /\ conns[c].phase = "tracked"
        /\ UNCHANGED <<now, registrations, tokens, revoked>>
    BY DEF Observe
  <1>1. PICK t : t = conns[c].token
    OBVIOUS
  <1>2. t \in tokens /\ t \in Tokens
    BY <1>0, <1>1, ConnToken
  <1>3. PICK o \in RecordClaims(pools, t, "observed") :
          /\ Install(o)
          /\ conns' = [conns EXCEPT ![c] =
                IF o.ok /\ @.renewal THEN [@ EXCEPT !.phase = "observed"] ELSE Idle]
    BY <1>1 DEF Observe
  <1>4. PoolsGood(o.inv, o.pools) /\ Claimed(o.inv, t)
    <2>1. PICK p : p = pools
      OBVIOUS
    <2>2. o \in RecordClaims(p, t, "observed") /\ PoolsGood(admissions, p)
      BY <1>3, <2>1, CacheTypes
    <2> QED BY <1>2, <2>2, ClaimsPools
  <1>5. ConnsHold'
    <2> SUFFICES ASSUME NEW d \in Conns, conns'[d] # Idle PROVE conns'[d].token \in tokens
      BY <1>0 DEF ConnsHold
    <2>1. conns \in [Conns -> ConnType]
      BY CacheTypes
    <2>2. CASE d = c
      <3>1. conns'[c] = [conns[c] EXCEPT !.phase = "observed"]
        BY <1>3, <2>1, <2>2
      <3>2. conns[c] \in [phase: {"tracked", "observed"}, token: Tokens, renewal: BOOLEAN]
        BY <1>0, <2>1 DEF ConnType, Idle
      <3>3. conns'[c].token = conns[c].token
        BY <3>1, <3>2
      <3> QED BY <1>1, <1>2, <2>2, <3>3
    <2>3. CASE d # c
      <3>1. conns'[d] = conns[d]
        BY <1>3, <2>1, <2>3
      <3> QED BY <3>1 DEF CacheInv, ConnsHold
    <2> QED BY <2>2, <2>3
  <1> QED BY <1>0, <1>2, <1>3, <1>4, <1>5, InstallCaches

\* A renewal records and releases a token of the same route and root.
LEMMA RenewCaches ==
    ASSUME LegacyOneRoot, IInv, IInv', CacheInv, NEW c \in Conns, Renew(c)
    PROVE  CacheInv'
  <1>1. PICK t : t = conns[c].token
    OBVIOUS
  <1>2. PICK r : r = Renewed(t)
    OBVIOUS
  <1>3. t \in tokens /\ t \in Tokens
    BY <1>1, ConnToken DEF Renew
  <1>4. r \in Tokens /\ r.route = t.route /\ r.root = t.root
    <2>1. now \in Times
      BY DEF IInv, InventoryTypeOK
    <2>2. Later(now, t.issued) \in Stamps \ {0}
      BY <1>3, <2>1, BoundsAssumption DEF Later, Times, Stamps, Tokens
    <2> QED BY <1>2, <1>3, <2>2 DEF Renewed, Tokens
  <1>5. conns' = [conns EXCEPT ![c] = Idle] /\ UNCHANGED <<now, registrations, revoked>>
    BY DEF Renew
  <1>6. \A d \in Conns : conns'[d] # Idle => conns'[d].token \in tokens
    BY <1>5, CacheTypes DEF CacheInv, ConnsHold
  <1>7. CASE Admitted(t) /\ OpenToken(t, r.issued, TRUE)
    <2>1. PICK o \in RecordClaims(pools, r, "observed") :
            Install(o) /\ tokens' = IF o.ok THEN tokens \cup {r} ELSE tokens
      BY <1>1, <1>2, <1>7 DEF Renew
    <2>2. PoolsGood(o.inv, o.pools) /\ Claimed(o.inv, r)
      <3>1. PICK p : p = pools
        OBVIOUS
      <3>2. o \in RecordClaims(p, r, "observed") /\ PoolsGood(admissions, p)
        BY <2>1, <3>1, CacheTypes
      <3> QED BY <1>4, <3>2, ClaimsPools
    <2>3. GoodOutcome(o) /\ (o.ok = TRUE => o.inv[r.route] # Absent)
      BY <1>4, <2>1, CacheTypes, RecordClaimsGood
    <2>4. tokens' = tokens \/ (tokens' = tokens \cup {r} /\ o.inv[r.route] # Absent)
      <3>1. CASE o.ok = TRUE
        BY <2>1, <2>3, <3>1
      <3>2. CASE o.ok = FALSE
        BY <2>1, <3>2
      <3> QED BY <2>3, <3>1, <3>2 DEF GoodOutcome
    <2>5. ConnsHold'
      BY <1>6, <2>4 DEF ConnsHold
    <2> QED BY <1>3, <1>4, <1>5, <2>1, <2>2, <2>4, <2>5, InstallCaches
  <1>8. CASE ~(Admitted(t) /\ OpenToken(t, r.issued, TRUE))
    <2>1. UNCHANGED <<admissions, disk, pools, tokens>>
      BY <1>1, <1>2, <1>8 DEF Renew
    <2>2. ConnsHold'
      BY <1>6, <2>1 DEF ConnsHold
    <2>3. PoolsGood(admissions, pools')
      BY <2>1, CacheTypes
    <2> QED BY <1>5, <2>1, <2>2, <2>3, QuietCaches
  <1> QED BY <1>7, <1>8

\* RemoveAdmission drops the delivery, and keeps the advertisement without its offer.
LEMMA RemoveCaches ==
    ASSUME IInv, IInv', CacheInv, NEW k \in Routes, RemoveAdmission(k)
    PROVE  CacheInv'
  <1> DEFINE old == admissions[k]
             record == [old EXCEPT !.status = "removed", !.reject = Cutoff(old)]
             stored == [admissions EXCEPT ![k] = record]
  <1>t. /\ InventoryTypeOK /\ now \in Stamps /\ pools \in PoolsType /\ admissions \in Inventory
        /\ registrations \in [Routes -> Deliveries \cup {Absent}] /\ old # Absent
    BY BoundsAssumption DEF IInv, InventoryTypeOK, Inventory, PoolsType, Times, Stamps, RemoveAdmission
  <1>1. old \in Records /\ old.last \in Stamps /\ old.reject \in Stamps
    BY <1>t DEF Inventory, Records
  <1>2. Cutoff(old) \in Stamps
    BY <1>t, <1>1 DEF Cutoff, Later
  <1>3. record.status = "removed" /\ record # Absent
    <2> HIDE DEF old
    <2> QED BY <1>1, <1>2, AbsentAssumption DEF Records, Statuses
  <1>4. PICK o \in SaveAdmission(pools, k, record) : Install([o EXCEPT !.pools = Retire(o.pools, k)])
    BY DEF RemoveAdmission
  <1>5. /\ registrations' = [registrations EXCEPT ![k] = Absent]
        /\ now' = now /\ conns' = conns /\ tokens' = tokens
    BY DEF RemoveAdmission
  <1> HIDE DEF record, old
  <1>s. stored[k] = record /\ \A j \in Routes : j # k => stored[j] = admissions[j]
    BY <1>t DEF Inventory
  <1>6. o.inv = stored /\ o.pools = pools
    <2>1. Promote(stored, pools, k, now) = pools
      BY <1>3, <1>s DEF Promote, Protects
    <2> HIDE DEF stored
    <2>2. o \in {Outcome(TRUE, stored, stored, Promote(stored, pools, k, now))}
                \cup {Outcome(FALSE, stored, d, pools) : d \in {disk, stored}}
      BY <1>3, <1>4, <1>t DEF SaveAdmission, stored, old
    <2> QED BY <2>1, <2>2 DEF Outcome
  <1>7. admissions' = stored /\ pools' = Retire(pools, k)
    <2>1. PICK oi, od, op, ok : o = [ok |-> ok, inv |-> oi, disk |-> od, pools |-> op]
      BY DEF SaveAdmission, Outcome
    <2>2. admissions' = o.inv /\ pools' = Retire(o.pools, k)
      BY <1>4, <2>1 DEF Install
    <2> QED BY <1>6, <2>2
  <1> HIDE DEF stored
  <1>8. PoolsGood(admissions', pools')
    <2>1. PICK p : p = pools
      OBVIOUS
    <2>2. PoolsGood(admissions, p)
      BY <2>1, CacheTypes
    <2>3. stored[k] # Absent /\ stored[k].status = "removed"
      BY <1>3, <1>s
    <2>4. PICK inv : inv = stored
      OBVIOUS
    <2>5. PoolsGood(inv, Retire(p, k))
      BY <1>s, <2>2, <2>3, <2>4, RetireGood
    <2> QED BY <1>7, <2>1, <2>4, <2>5
  <1>9. registrations'[k] = Absent /\ \A j \in Routes : j # k => registrations'[j] = registrations[j]
    BY <1>5, <1>t
  <1>10. DeliveryLimit'
    <2>1. Held(registrations') \subseteq Held(registrations)
      BY <1>9 DEF Held
    <2>2. Cardinality(Held(registrations')) <= Cardinality(Held(registrations))
      BY <2>1, HeldFewer
    <2>3. /\ Cardinality(Held(registrations')) \in Nat /\ Cardinality(Held(registrations)) \in Nat
          /\ RegLimit \in Nat
      BY HeldFinite, BoundsAssumption
    <2> QED BY <2>2, <2>3 DEF CacheInv, DeliveryLimit, Held
  <1>11. DeliveriesHold'
    <2> SUFFICES ASSUME NEW j \in Routes, registrations'[j] # Absent
                 PROVE  /\ registrations'[j].token \in tokens /\ registrations'[j].token.route = j
                        /\ ~RejectsIn(stored, registrations'[j].token)
      BY <1>5, <1>7 DEF DeliveriesHold, Admitted
    <2>1. j # k /\ registrations'[j] = registrations[j] /\ registrations[j] # Absent
      BY <1>9
    <2>2. /\ registrations[j].token \in tokens /\ registrations[j].token.route = j
          /\ ~RejectsIn(admissions, registrations[j].token)
      BY <2>1 DEF CacheInv, DeliveriesHold, Admitted
    <2> QED BY <1>s, <2>1, <2>2 DEF RejectsIn
  <1>12. ConnsHold'
    BY <1>5 DEF CacheInv, ConnsHold
  <1>13. FreshRecorded'
    <2>1. \A s \in tokens : s.route \in Routes
      BY DEF IInv, InventoryTypeOK, Tokens
    <2> QED BY <1>3, <1>5, <1>7, <1>s, <2>1 DEF CacheInv, FreshRecorded
  <1> QED BY <1>8, <1>10, <1>11, <1>12, <1>13 DEF CacheInv

\* A local approval delivers a token that the record it has saved admits.
LEMMA ApproveCaches ==
    ASSUME IInv, IInv', CacheInv, NEW k \in Routes, NEW v \in Validities, Approve(k, v)
    PROVE  CacheInv'
  <1> DEFINE kept == ExpireRegistrations(registrations, now)
             delivery == [token |-> Minted(k, v), ad |-> Listed(k)]
  <1>1. PICK p : p = Expire(pools, now)
    OBVIOUS
  <1>2. PICK next : next = Granted(k)
    OBVIOUS
  <1>f. /\ Minted(k, v) \in Tokens /\ Listed(k) \in Ads
        /\ Minted(k, v).route = k /\ Minted(k, v).issued = IssueTime(k)
        /\ Minted(k, v).root = Listed(k).root
        /\ next \in Records /\ next.status # "removed" /\ next.root = Listed(k).root
        /\ next.reject < IssueTime(k)
        /\ admissions[k] # Absent => admissions[k].root = next.root
    BY <1>2, ApproveFacts
  <1>3. /\ kept[k] # Absent \/ Cardinality(Held(kept)) < RegLimit
        /\ UNCHANGED <<now, conns, revoked>>
    BY DEF Approve, Registrable
  <1>4. PICK o \in SaveAdmission(p, k, next) :
          /\ Install(o)
          /\ registrations' = IF o.ok THEN [kept EXCEPT ![k] = delivery] ELSE kept
          /\ tokens' = IF o.ok THEN tokens \cup {Minted(k, v)} ELSE tokens
    BY <1>1, <1>2 DEF Approve, Minted, Listed, Granted
  <1>5. delivery # Absent /\ delivery.token = Minted(k, v)
    <2>1. delivery \in Deliveries
      BY <1>f DEF Deliveries
    <2> QED BY <2>1, AbsentAssumption
  <1>6. kept \in [Routes -> Deliveries \cup {Absent}]
    BY CacheTypes, ExpireRegistrationsType
  <1>7. \A j \in Routes : kept[j] \in {Absent, registrations[j]}
    BY ExpireSome
  <1> HIDE DEF delivery, kept
  <1>8. SavedPools(o, k, next)
    <2>1. PoolsGood(admissions, p) /\ p \in PoolsType
      BY <1>1, CacheTypes
    <2>2. p.retained[k] # Absent => Listed(k) = p.retained[k].ad
      BY <1>1, <2>1, OneEntry DEF Listed, PoolsGood
    <2>3. Savable(p, k, next)
      BY <1>f, <2>2 DEF Savable
    <2> QED BY <1>f, <1>4, <2>1, <2>3, SavePools
  <1>9. /\ admissions' = o.inv /\ PoolsGood(admissions', pools') /\ o.ok \in BOOLEAN
        /\ admissions' = admissions \/ (o.ok = TRUE /\ admissions' = [admissions EXCEPT ![k] = next])
        /\ o.ok = TRUE => admissions'[k] = next
    BY <1>4, <1>8 DEF SavedPools, Install
  <1>10. /\ next # Absent /\ \A j \in Routes : j # k => admissions'[j] = admissions[j]
         /\ o.ok = FALSE => admissions' = admissions
         /\ tokens \subseteq tokens'
    BY <1>4, <1>9, <1>f, AbsentAssumption, CacheTypes DEF Inventory
  <1>11. \A j \in Routes : registrations'[j] # Absent =>
            \/ registrations'[j] = registrations[j] /\ (o.ok = TRUE => j # k)
            \/ j = k /\ o.ok = TRUE /\ registrations'[j] = delivery
    <2>1. CASE o.ok = TRUE
      BY <1>4, <1>6, <1>7, <2>1
    <2>2. CASE o.ok = FALSE
      BY <1>4, <1>7, <2>2
    <2> QED BY <1>9, <2>1, <2>2
  <1>12. DeliveryLimit'
    <2>1. Held(kept) \subseteq Held(registrations)
      BY <1>7 DEF Held
    <2>2. Cardinality(Held(kept)) <= RegLimit
      <3>1. Cardinality(Held(kept)) <= Cardinality(Held(registrations))
        BY <2>1, HeldFewer
      <3> QED BY <3>1, HeldFinite, BoundsAssumption DEF CacheInv, DeliveryLimit
    <2>3. CASE o.ok = FALSE
      <3>1. registrations' = kept
        BY <1>4, <2>3
      <3> QED BY <2>2, <3>1 DEF DeliveryLimit, Held
    <2>4. CASE o.ok = TRUE
      <3>1. registrations' = [kept EXCEPT ![k] = delivery]
        BY <1>4, <2>4
      <3>3. Held(registrations') = Held(kept) \cup {k}
        BY <1>5, <1>6, <3>1 DEF Held
      <3>4. /\ k \in Held(kept) => Cardinality(Held(registrations')) = Cardinality(Held(kept))
            /\ k \notin Held(kept) => Cardinality(Held(registrations')) = Cardinality(Held(kept)) + 1
        BY <3>3, HeldMore
      <3>5. k \in Held(kept) \/ Cardinality(Held(kept)) < RegLimit
        BY <1>3 DEF Held
      <3> QED BY <2>2, <3>4, <3>5, HeldFinite, BoundsAssumption DEF DeliveryLimit, Held
    <2> QED BY <1>9, <2>3, <2>4
  <1>13. DeliveriesHold'
    <2> SUFFICES ASSUME NEW j \in Routes, registrations'[j] # Absent
                 PROVE  /\ registrations'[j].token \in tokens' /\ registrations'[j].token.route = j
                        /\ ~RejectsIn(admissions', registrations'[j].token)
      BY DEF DeliveriesHold, Admitted
    <2>1. CASE registrations'[j] = registrations[j] /\ (o.ok = TRUE => j # k)
      <3>1. /\ registrations[j].token \in tokens /\ registrations[j].token.route = j
            /\ ~RejectsIn(admissions, registrations[j].token)
        BY <2>1 DEF CacheInv, DeliveriesHold, Admitted
      <3>2. admissions'[j] = admissions[j]
        BY <1>9, <1>10, <2>1
      <3> QED BY <1>10, <2>1, <3>1, <3>2 DEF RejectsIn
    <2>2. CASE j = k /\ o.ok = TRUE /\ registrations'[j] = delivery
      <3>1. registrations'[j].token = Minted(k, v) /\ admissions'[k] = next
        BY <1>5, <1>9, <2>2
      <3>2. Minted(k, v) \in tokens'
        BY <1>4, <2>2
      <3>3. IssueTime(k) \in Int /\ next.reject \in Int
        BY <1>f DEF Tokens, Records, Stamps
      <3>4. ~RejectsIn(admissions', Minted(k, v))
        BY <1>f, <3>1, <3>3 DEF RejectsIn
      <3> QED BY <1>f, <2>2, <3>1, <3>2, <3>4
    <2> QED BY <1>11, <2>1, <2>2
  <1>14. ConnsHold'
    BY <1>3, <1>10 DEF CacheInv, ConnsHold
  <1>15. FreshRecorded'
    <2> SUFFICES ASSUME NEW s \in tokens', s \notin Legacy PROVE admissions'[s.route] # Absent
      BY DEF FreshRecorded
    <2>1. CASE s \in tokens
      <3>1. admissions[s.route] # Absent /\ s.route \in Routes
        BY <2>1 DEF CacheInv, FreshRecorded, IInv, InventoryTypeOK, Tokens
      <3> QED BY <1>9, <1>10, <3>1
    <2>2. CASE s \notin tokens
      <3>1. s = Minted(k, v) /\ o.ok = TRUE
        BY <1>4, <1>9, <2>2
      <3> QED BY <1>9, <1>10, <1>f, <3>1
    <2> QED BY <2>1, <2>2
  <1> QED BY <1>9, <1>12, <1>13, <1>14, <1>15 DEF CacheInv

\* A restart forgets every cache; what was recorded is on disk.
LEMMA RestartCaches ==
    ASSUME IInv, CacheInv, Restart
    PROVE  CacheInv'
  <1>1. /\ admissions' = disk /\ pools' = [live |-> Empty, retained |-> Empty, pending |-> Empty]
        /\ registrations' = Empty /\ conns' = [c \in Conns |-> Idle] /\ tokens' = tokens
    BY DEF Restart
  <1>e. Empty \in Pool /\ (\A k \in Routes : Empty[k] = Absent) /\ Held(Empty) = {}
    BY DEF Empty, Pool, Held
  <1>2. Cardinality(Held(Empty)) = 0
    BY <1>e, FS_EmptySet
  <1>3. DeliveryLimit'
    BY <1>1, <1>2, BoundsAssumption DEF DeliveryLimit, Held
  <1>4. DeliveriesHold' /\ ConnsHold'
    BY <1>1, <1>e DEF DeliveriesHold, ConnsHold
  <1>5. FreshRecorded'
    <2>1. \A t \in tokens : t.route \in Routes
      BY DEF IInv, InventoryTypeOK, Tokens
    <2> QED BY <1>1, <2>1 DEF CacheInv, FreshRecorded, IInv, DiskNotBehind
  <1>6. PoolsGood(disk, pools')
    <2>1. PICK q : q = pools'
      OBVIOUS
    <2>2. /\ q \in PoolsType /\ q.live = Empty /\ q.retained = Empty /\ q.pending = Empty
      BY <1>1, <1>e, <2>1 DEF PoolsType
    <2>3. InLimits(q)
      BY <2>2, <1>2, BoundsAssumption DEF InLimits
    <2>4. OnePool(q) /\ PolicyBacks(disk, q) /\ \A k \in Routes : AdvertisementIn(q, k) = Absent
      BY <2>2, <1>e DEF OnePool, PolicyBacks, AdvertisementIn
    <2> QED BY <2>1, <2>2, <2>3, <2>4 DEF PoolsGood, LocatorsLead, OfferedOpen, Offered
  <1> QED BY <1>1, <1>3, <1>4, <1>5, <1>6 DEF CacheInv

\* The relay starts with empty caches and the tokens of earlier times.
LEMMA InitCaches == InventoryInit => CacheInv
  <1> SUFFICES ASSUME InventoryInit PROVE CacheInv
    OBVIOUS
  <1>e. Empty \in Pool /\ (\A k \in Routes : Empty[k] = Absent) /\ Held(Empty) = {}
    BY DEF Empty, Pool, Held
  <1>2. Cardinality(Held(Empty)) = 0
    BY <1>e, FS_EmptySet
  <1>3. DeliveryLimit
    BY <1>2, BoundsAssumption DEF DeliveryLimit, Held, InventoryInit
  <1>4. DeliveriesHold /\ ConnsHold /\ FreshRecorded
    BY <1>e DEF DeliveriesHold, ConnsHold, FreshRecorded, InventoryInit
  <1>6. PoolsGood(admissions, pools)
    <2>1. PICK q : q = pools
      OBVIOUS
    <2>2. /\ q \in PoolsType /\ q.live = Empty /\ q.retained = Empty /\ q.pending = Empty
      BY <1>e, <2>1 DEF PoolsType, InventoryInit
    <2>3. InLimits(q)
      BY <2>2, <1>2, BoundsAssumption DEF InLimits
    <2>4. OnePool(q) /\ PolicyBacks(admissions, q) /\ \A k \in Routes : AdvertisementIn(q, k) = Absent
      BY <2>2, <1>e DEF OnePool, PolicyBacks, AdvertisementIn
    <2> QED BY <2>1, <2>2, <2>3, <2>4 DEF PoolsGood, LocatorsLead, OfferedOpen, Offered
  <1> QED BY <1>3, <1>4, <1>6 DEF CacheInv

\* Every step keeps the caches in line with the policy.
LEMMA NextCaches ==
    ASSUME LegacyOneRoot, IInv, IInv', CacheInv, [InventoryNext]_inventoryVars
    PROVE  CacheInv'
  <1>t. PoolsGood(admissions, pools) /\ conns \in [Conns -> ConnType]
    BY CacheTypes
  <1>1. CASE SetClock
    <2>1. UNCHANGED <<admissions, tokens, pools, registrations, conns>>
      BY <1>1 DEF SetClock
    <2>2. ConnsHold'
      BY <2>1 DEF CacheInv, ConnsHold
    <2> QED BY <1>t, <2>1, <2>2, QuietCaches
  <1>2. ASSUME NEW ad \in Ads, PublishAdvertisement(ad) PROVE CacheInv'
    BY <1>2, PublishCaches DEF PublishAdvertisement
  <1>3. ASSUME NEW ad \in Ads, NEW f \in Offers, PublishOffer(ad, f) PROVE CacheInv'
    BY <1>3, PublishCaches DEF PublishOffer
  <1>4. ASSUME NEW ad \in Ads, NEW f \in Offers, NEW t \in tokens, RestoreOffer(ad, f, t)
        PROVE  CacheInv'
    BY <1>4, RestoreCaches
  <1>5. CASE FetchOffer
    <2>1. /\ UNCHANGED <<admissions, tokens, conns>> /\ pools' = Expire(pools, now)
          /\ registrations' = ExpireRegistrations(registrations, now)
      BY <1>5 DEF FetchOffer
    <2>2. ConnsHold'
      BY <2>1 DEF CacheInv, ConnsHold
    <2>3. PoolsGood(admissions, pools') /\ \A k \in Routes : registrations'[k] \in {Absent, registrations[k]}
      BY <2>1, CacheTypes, ExpireSome
    <2> QED BY <2>1, <2>2, <2>3, QuietCaches
  <1>6. ASSUME NEW k \in Routes, NEW v \in Validities, RepeatApproval(k, v) PROVE CacheInv'
    BY <1>6, RepeatCaches
  <1>7. ASSUME NEW k \in Routes, NEW v \in Validities, Approve(k, v) PROVE CacheInv'
    BY <1>7, ApproveCaches
  <1>8. ASSUME NEW k \in Routes, RemoveAdmission(k) PROVE CacheInv'
    BY <1>8, RemoveCaches
  <1>9. ASSUME NEW c \in Conns, NEW t \in tokens, NEW b \in BOOLEAN, Track(c, t, b) PROVE CacheInv'
    <2>1. /\ UNCHANGED <<admissions, tokens, pools, registrations>>
          /\ conns' = [conns EXCEPT ![c] = [phase |-> "tracked", token |-> t, renewal |-> b]]
      BY <1>9 DEF Track
    <2>2. ConnsHold'
      BY <1>t, <2>1 DEF CacheInv, ConnsHold
    <2> QED BY <1>t, <2>1, <2>2, QuietCaches
  <1>10. ASSUME NEW c \in Conns, HandshakeFails(c) PROVE CacheInv'
    <2>1. /\ UNCHANGED <<admissions, tokens, pools, registrations>>
          /\ conns' = [conns EXCEPT ![c] = Idle]
      BY <1>10 DEF HandshakeFails
    <2>2. ConnsHold'
      BY <1>t, <2>1 DEF CacheInv, ConnsHold
    <2> QED BY <1>t, <2>1, <2>2, QuietCaches
  <1>11. ASSUME NEW c \in Conns, Observe(c) PROVE CacheInv'
    BY <1>11, ObserveCaches
  <1>12. ASSUME NEW c \in Conns, Renew(c) PROVE CacheInv'
    BY <1>12, RenewCaches
  <1>13. CASE Restart
    BY <1>13, RestartCaches
  <1>14. CASE UNCHANGED inventoryVars
    <2>1. UNCHANGED <<admissions, tokens, pools, registrations, conns>>
      BY <1>14 DEF inventoryVars
    <2>2. ConnsHold'
      BY <2>1 DEF CacheInv, ConnsHold
    <2> QED BY <1>t, <2>1, <2>2, QuietCaches
  <1> QED BY <1>1, <1>2, <1>3, <1>4, <1>5, <1>6, <1>7, <1>8, <1>9, <1>10, <1>11, <1>12, <1>13,
             <1>14 DEF InventoryNext

\* What the invariant says of the caches is the property the runs check.
LEMMA CachesFollow == ASSUME IInv, CacheInv PROVE CachesFollowPolicy
  <1>t. pools \in PoolsType /\ OnePool(pools) /\ DOMAIN pools = {"live", "retained", "pending"}
    BY CacheTypes DEF PoolsGood, PoolsType
  <1>1. ASSUME NEW k \in Routes
        PROVE  Cardinality({q \in DOMAIN pools : pools[q][k] # Absent}) <= 1
    <2> DEFINE S == {q \in DOMAIN pools : pools[q][k] # Absent}
    <2>1. S \in {{}, {"live"}, {"retained"}, {"pending"}}
      BY <1>t DEF OnePool
    <2> HIDE DEF S
    <2>2. Cardinality(S) \in {0, 1}
      BY <2>1, FS_EmptySet, FS_Singleton
    <2> QED BY <2>2 DEF S
  <1>2. PoolsFollowPolicy
    BY <1>1 DEF PoolsFollowPolicy, CacheInv, PoolsGood, InLimits, PolicyBacks, DeliveryLimit
  <1>3. OffersResolve
    <2> SUFFICES ASSUME NEW q \in DOMAIN pools, NEW s \in DOMAIN pools,
                        NEW j \in Routes, NEW k \in Routes,
                        pools[q][j] # Absent, pools[s][k] # Absent
                 PROVE  /\ SameLocator(pools[q][j], pools[s][k]) => j = k
                        /\ pools[q][j].offer # Absent =>
                              (admissions[j] # Absent => admissions[j].status # "removed")
      BY DEF OffersResolve
    <2>1. AdvertisementIn(pools, j) = pools[q][j] /\ AdvertisementIn(pools, k) = pools[s][k]
      BY <1>t, OneEntry
    <2> QED BY <2>1 DEF CacheInv, PoolsGood, LocatorsLead, OfferedOpen, Offered, Locator, SameLocator
  <1>4. DeliverableAdmitted
    BY DEF DeliverableAdmitted, CacheInv, DeliveriesHold, Held
  <1> QED BY <1>2, <1>3, <1>4 DEF CachesFollowPolicy

\* Advertisements, offers and tokens held for delivery never say more than the policy
\* in force: cacheAdvertisementLocked, promoteAdvertisementLocked, RemoveAdmission,
\* saveAdmissionLocked and the handlers keep pools, locators and deliveries in line with
\* it and within their limits, whatever is approved, removed, renewed, expired or
\* restarted, and whichever saves fail.
THEOREM CachesTheorem == LegacyOneRoot /\ InventorySpec => []CachesFollowPolicy
  <1>1. InventoryInit => IInv /\ CacheInv
    BY InitIInv, InitCaches
  <1>2. LegacyOneRoot /\ IInv /\ CacheInv /\ [InventoryNext]_inventoryVars => (IInv /\ CacheInv)'
    BY NextIInv, NextCaches
  <1>3. IInv /\ CacheInv => CachesFollowPolicy
    BY CachesFollow
  <1>4. CASE LegacyOneRoot
    <2>1. IInv /\ CacheInv /\ [InventoryNext]_inventoryVars => (IInv /\ CacheInv)'
      BY <1>2, <1>4
    <2> QED BY <1>1, <1>3, <2>1, PTL DEF InventorySpec
  <1>5. CASE ~LegacyOneRoot
    BY <1>5
  <1> QED BY <1>4, <1>5

-----------------------------------------------------------------------------
(***************************************************************************)
(* Proofs about the waiting and active carriers of the receiver-owned      *)
(* relay, for any number of connections, routes and limits.                *)
(*                                                                         *)
(* RemovalReachesAll needs only that routeConnections is exactly the set   *)
(* of live handlers (Tracked).  CarriersSound needs who owns a leg at      *)
(* every moment: a queued leg is waiting, unclaimed and untold, a taken    *)
(* one is claimed and untold (QueueHolds, TakenHolds); then a leg leaves   *)
(* the queue once, by one path, and the counters follow the queues because *)
(* a queue without repetition is as long as its set of legs.               *)
(***************************************************************************)

CarrierTypes ==
    /\ phase \in [Handlers -> LegPhases \cup ClientPhases]
    /\ done \in [Legs -> BOOLEAN]
    /\ claimed \in SUBSET Legs
    /\ queue \in [Kinds -> [CarrierRoutes -> Seq(Legs)]]
    /\ pending \in [Kinds -> Int]
    /\ perRoute \in [Kinds -> [CarrierRoutes -> Int]]
    /\ active \in Nat
    /\ activePerRoute \in [CarrierRoutes -> Nat]
    /\ taken \in [Clients -> Legs \cup {NoLeg}]

ConnectionTypes ==
    /\ open \in [Handlers -> BOOLEAN]
    /\ cut \in [Handlers -> BOOLEAN]
    /\ tracked \in SUBSET Handlers

CarrierTypeOK == CarrierTypes /\ ConnectionTypes

\* routeConnections holds the live handlers, and a handler that has not
\* arrived was not cut off.
Tracked ==
    \A x \in Handlers : /\ x \in tracked <=> phase[x] \notin {"new", "gone"}
                        /\ phase[x] = "new" => ~cut[x]

\* A queue of a route is without repetition and holds legs of that route.
Proper(f) ==
    \A r \in CarrierRoutes :
        IsInjective(f[r]) /\ \A l \in ToSet(f[r]) : RouteOf[l] = r

\* A queued leg waits, nobody claimed it and nobody told it to end.
QueueHolds ==
    /\ \A k \in Kinds : Proper(queue[k])
    /\ \A k \in Kinds, r \in CarrierRoutes : \A l \in ToSet(queue[k][r]) :
          KindOf[l] = k /\ phase[l] = "waiting" /\ ~done[l] /\ l \notin claimed
    /\ closed => \A k \in Kinds, r \in CarrierRoutes : queue[k][r] = <<>>

\* A client has a leg exactly between takeLeg and finishLeg; the leg is its own
\* and was not told to end.
TakenHolds ==
    /\ \A c \in Clients : taken[c] # NoLeg <=> phase[c] \in Holding
    /\ \A c \in Clients : taken[c] # NoLeg =>
          /\ taken[c] \in claimed /\ ~done[taken[c]]
          /\ phase[taken[c]] \in {"waiting", "owned"} \/ cancelled
    /\ \A c, d \in Clients : c # d /\ taken[c] # NoLeg => taken[c] # taken[d]
    /\ NoOrphan

\* A leg that was told or claimed has been queued.
FreshHolds ==
    \A l \in Legs : done[l] \/ l \in claimed => phase[l] \notin {"new", "tracked"}

\* The two halves of CountsExact: the active carriers, and the queues.
ActiveCounts ==
    /\ active = Cardinality(Active) /\ active <= ActiveMax
    /\ \A r \in CarrierRoutes : /\ activePerRoute[r] = Cardinality(Of(Active, r))
                              /\ activePerRoute[r] <= RouteActiveMax

QueueCounts ==
    /\ ~closed => \A k \in Kinds :
          /\ \A r \in CarrierRoutes : perRoute[k][r] = Len(In(k, r))
          /\ pending[k] = Cardinality(Waiting(k))
    /\ \A k \in Kinds : \A r \in CarrierRoutes : Len(In(k, r)) <= RouteMax
    /\ \A k \in Kinds : Cardinality(Waiting(k)) <= PendingMax[k]

CarrierInv == CarrierTypes /\ QueueHolds /\ TakenHolds /\ FreshHolds /\ ActiveCounts /\ QueueCounts
Reach == ConnectionTypes /\ Tracked /\ RemovalReachesAll
-----------------------------------------------------------------------------
(* Sequences without repetition. *)

\* A queue without repetition is as long as its set of legs.
LEMMA InjectiveLen ==
    ASSUME NEW q \in Seq(Legs), IsInjective(q)
    PROVE  /\ IsFiniteSet(ToSet(q)) /\ Cardinality(ToSet(q)) = Len(q)
           /\ ToSet(q) \subseteq Legs /\ Len(q) \in Nat
  <1>1. Len(q) \in Nat /\ DOMAIN q = 1 .. Len(q) /\ \A i \in 1 .. Len(q) : q[i] \in Legs
    BY LenProperties, ElementOfSeq
  <1>2. q \in [1 .. Len(q) -> ToSet(q)]
    BY <1>1, LenProperties DEF ToSet
  <1>3. q \in Bijection(1 .. Len(q), ToSet(q))
    BY <1>1, <1>2 DEF Bijection, Injection, Surjection, IsInjective, ToSet
  <1>4. ExistsBijection(1 .. Len(q), ToSet(q))
    BY <1>3 DEF ExistsBijection
  <1>5. IsFiniteSet(1 .. Len(q)) /\ Cardinality(1 .. Len(q)) = Len(q)
    <2> DEFINE n == Len(q)
    <2>1. n \in Nat /\ 1 \in Int /\ n \in Int
      BY <1>1
    <2> HIDE DEF n
    <2>2. IsFiniteSet(1 .. n) /\ Cardinality(1 .. n) = IF 1 > n THEN 0 ELSE n - 1 + 1
      BY <2>1, FS_Interval
    <2>3. IsFiniteSet(1 .. n) /\ Cardinality(1 .. n) = n
      BY <2>1, <2>2
    <2> QED BY <2>3 DEF n
  <1>6. IsFiniteSet(ToSet(q)) /\ Cardinality(ToSet(q)) = Len(q)
    BY <1>4, <1>5, FS_Bijection
  <1> QED BY <1>1, <1>6 DEF ToSet

\* The empty queue.
LEMMA EmptyQueue == <<>> \in Seq(Legs) /\ Len(<<>>) = 0 /\ ToSet(<<>>) = {} /\ IsInjective(<<>>)
  BY DEF ToSet, IsInjective

\* enqueueLeg: a leg that is not queued goes to the end.
LEMMA Appending ==
    ASSUME NEW q \in Seq(Legs), IsInjective(q), NEW l \in Legs, l \notin ToSet(q)
    PROVE  /\ Append(q, l) \in Seq(Legs) /\ Len(Append(q, l)) = Len(q) + 1
           /\ IsInjective(Append(q, l)) /\ ToSet(Append(q, l)) = ToSet(q) \cup {l}
  <1>1. Len(q) \in Nat /\ DOMAIN q = 1 .. Len(q)
    BY LenProperties
  <1>2. /\ Append(q, l) \in Seq(Legs) /\ Len(Append(q, l)) = Len(q) + 1
        /\ DOMAIN Append(q, l) = 1 .. Len(q) + 1
        /\ \A i \in 1 .. Len(q) : Append(q, l)[i] = q[i]
        /\ Append(q, l)[Len(q) + 1] = l
    BY AppendProperties, LenProperties
  <1>3. \A i \in 1 .. Len(q) + 1 : i \in 1 .. Len(q) \/ i = Len(q) + 1
    BY <1>1
  <1>4. IsInjective(Append(q, l))
    BY <1>1, <1>2, <1>3 DEF IsInjective, ToSet
  <1>5. ToSet(Append(q, l)) = ToSet(q) \cup {l}
    BY <1>1, <1>2, <1>3 DEF ToSet
  <1> QED BY <1>2, <1>4, <1>5

\* removeLeg: the leg at position i goes, the others stay in order.
LEMMA Removing ==
    ASSUME NEW q \in Seq(Legs), IsInjective(q), NEW i \in DOMAIN q
    PROVE  /\ RemoveAt(q, i) \in Seq(Legs) /\ Len(RemoveAt(q, i)) = Len(q) - 1
           /\ IsInjective(RemoveAt(q, i)) /\ ToSet(RemoveAt(q, i)) = ToSet(q) \ {q[i]}
  <1> DEFINE n == Len(q)
             a == SubSeq(q, 1, i - 1)
             b == SubSeq(q, i + 1, n)
             s == RemoveAt(q, i)
  <1>1. n \in Nat /\ DOMAIN q = 1 .. n /\ i \in 1 .. n /\ \A j \in 1 .. n : q[j] \in Legs
    BY LenProperties, ElementOfSeq
  <1> HIDE DEF n
  <1>2. /\ a \in Seq(Legs) /\ Len(a) = i - 1 /\ \A j \in 1 .. i - 1 : a[j] = q[j]
    <2>1. \A j \in 1 .. i - 1 : q[j] \in Legs
      BY <1>1
    <2> QED BY <1>1, <2>1, SubSeqProperties
  <1>3. /\ b \in Seq(Legs) /\ Len(b) = n - i /\ \A j \in 1 .. n - i : b[j] = q[i + j]
    <2>1. \A j \in i + 1 .. n : q[j] \in Legs
      BY <1>1
    <2>2. i + 1 \in Int /\ n \in Int
      BY <1>1
    <2>3. /\ b \in Seq(Legs) /\ Len(b) = IF i + 1 <= n THEN n - (i + 1) + 1 ELSE 0
          /\ \A j \in 1 .. n - (i + 1) + 1 : b[j] = q[(i + 1) + j - 1]
      BY <2>1, <2>2, SubSeqProperties
    <2> QED BY <1>1, <2>3
  <1> HIDE DEF a, b
  <1>4. /\ s \in Seq(Legs) /\ Len(s) = n - 1
        /\ \A j \in 1 .. n - 1 : s[j] = IF j < i THEN q[j] ELSE q[j + 1]
    <2>1. s = a \o b
      BY DEF RemoveAt, a, b, n
    <2>2. /\ a \o b \in Seq(Legs) /\ Len(a \o b) = Len(a) + Len(b)
          /\ \A j \in 1 .. Len(a) + Len(b) : (a \o b)[j] = IF j <= Len(a) THEN a[j] ELSE b[j - Len(a)]
      BY <1>2, <1>3, ConcatProperties
    <2> HIDE DEF s
    <2>3. s \in Seq(Legs) /\ Len(s) = n - 1
      BY <1>1, <1>2, <1>3, <2>1, <2>2
    <2>4. ASSUME NEW j \in 1 .. n - 1 PROVE s[j] = IF j < i THEN q[j] ELSE q[j + 1]
      <3>1. CASE j < i
        BY <1>1, <1>2, <1>3, <2>1, <2>2, <3>1
      <3>2. CASE j >= i
        <4>0. /\ j \in 1 .. Len(a) + Len(b) /\ ~(j <= Len(a)) /\ j - Len(a) = j - (i - 1)
              /\ j - (i - 1) \in 1 .. n - i
          BY <1>1, <1>2, <1>3, <3>2
        <4>1. s[j] = b[j - (i - 1)] /\ j - (i - 1) \in 1 .. n - i
          BY <2>1, <2>2, <4>0
        <4>2. i + (j - (i - 1)) = j + 1
          BY <1>1
        <4> QED BY <1>1, <1>3, <3>2, <4>1, <4>2
      <3> QED BY <1>1, <3>1, <3>2
    <2> QED BY <2>3, <2>4
  <1> HIDE DEF s
  <1>5. DOMAIN s = 1 .. n - 1
    BY <1>4, LenProperties
  <1>6. \A j \in 1 .. n - 1 : (IF j < i THEN j ELSE j + 1) \in (1 .. n) \ {i}
    BY <1>1
  <1>7. IsInjective(s)
    <2> SUFFICES ASSUME NEW j \in 1 .. n - 1, NEW m \in 1 .. n - 1, s[j] = s[m] PROVE j = m
      BY <1>5 DEF IsInjective
    <2> DEFINE up(x) == IF x < i THEN x ELSE x + 1
    <2>1. up(j) \in 1 .. n /\ up(m) \in 1 .. n /\ q[up(j)] = q[up(m)]
      BY <1>1, <1>4, <1>6
    <2>2. up(j) = up(m)
      BY <1>1, <2>1 DEF IsInjective
    <2> QED BY <1>1, <2>2
  <1>8. ToSet(s) = ToSet(q) \ {q[i]}
    <2>1. ASSUME NEW x \in ToSet(s) PROVE x \in ToSet(q) \ {q[i]}
      <3>1. PICK j \in 1 .. n - 1 : x = s[j]
        BY <1>5 DEF ToSet
      <3> DEFINE m == IF j < i THEN j ELSE j + 1
      <3>2. m \in 1 .. n /\ m # i /\ x = q[m]
        BY <1>1, <1>4, <1>6, <3>1
      <3> QED BY <1>1, <3>2 DEF ToSet, IsInjective
    <2>2. ASSUME NEW x \in ToSet(q) \ {q[i]} PROVE x \in ToSet(s)
      <3>1. PICK j \in 1 .. n : x = q[j]
        BY <1>1 DEF ToSet
      <3>2. j # i
        BY <3>1
      <3> DEFINE m == IF j < i THEN j ELSE j - 1
      <3>3. m \in 1 .. n - 1 /\ s[m] = q[j]
        BY <1>1, <1>4, <3>1, <3>2
      <3> QED BY <1>5, <3>1, <3>3 DEF ToSet
    <2> QED BY <2>1, <2>2
  <1> QED BY <1>4, <1>7, <1>8 DEF n, s

\* takeLeg: the first m legs are passed over, the next one is taken.
LEMMA Taking ==
    ASSUME NEW q \in Seq(Legs), IsInjective(q), NEW m \in Nat, m < Len(q)
    PROVE  LET rest == SubSeq(q, m + 1, Len(q)) IN
           /\ rest # <<>> /\ Head(rest) = q[m + 1]
           /\ Tail(rest) \in Seq(Legs) /\ Len(Tail(rest)) = Len(q) - m - 1
           /\ IsInjective(Tail(rest))
           /\ ToSet(SubSeq(q, 1, m)) \subseteq ToSet(q)
           /\ q[m + 1] \in ToSet(q) /\ q[m + 1] \notin ToSet(SubSeq(q, 1, m))
           /\ ToSet(Tail(rest)) = ToSet(q) \ (ToSet(SubSeq(q, 1, m)) \cup {q[m + 1]})
  <1> DEFINE n == Len(q)
             rest == SubSeq(q, m + 1, n)
             a == SubSeq(q, 1, m)
             b == SubSeq(q, m + 2, n)
  <1>1. n \in Nat /\ DOMAIN q = 1 .. n /\ m < n /\ \A j \in 1 .. n : q[j] \in Legs
    BY LenProperties, ElementOfSeq
  <1>2. rest # <<>> /\ Head(rest) = q[m + 1] /\ Tail(rest) = b
    <2>1. m + 1 \in 1 .. n /\ n \in m + 1 .. n /\ m + 1 + 1 = m + 2
      BY <1>1
    <2>2. Head(rest) = q[m + 1] /\ Tail(rest) = SubSeq(q, m + 1 + 1, n)
      BY <2>1, HeadTailOfSubSeq
    <2>3. \A j \in m + 1 .. n : q[j] \in Legs
      BY <1>1
    <2>4. Len(rest) = n - (m + 1) + 1 /\ rest \in Seq(Legs)
      <3>1. m + 1 \in Int /\ n \in Int /\ m + 1 <= n
        BY <1>1
      <3> HIDE DEF n
      <3> QED BY <2>3, <3>1, SubSeqProperties
    <2>5. Len(rest) # 0
      <3> HIDE DEF n, rest
      <3> QED BY <1>1, <2>4
    <2> QED BY <2>1, <2>2, <2>5, EmptyQueue
  <1> HIDE DEF n
  <1>3. /\ a \in Seq(Legs) /\ Len(a) = m /\ \A j \in 1 .. m : a[j] = q[j]
    <2>1. \A j \in 1 .. m : q[j] \in Legs
      BY <1>1
    <2> QED BY <1>1, <2>1, SubSeqProperties
  <1>4. /\ b \in Seq(Legs) /\ Len(b) = n - m - 1 /\ \A j \in 1 .. n - m - 1 : b[j] = q[m + 1 + j]
    <2>1. \A j \in m + 2 .. n : q[j] \in Legs
      BY <1>1
    <2>2. m + 2 \in Int /\ n \in Int
      BY <1>1
    <2>3. /\ b \in Seq(Legs) /\ Len(b) = IF m + 2 <= n THEN n - (m + 2) + 1 ELSE 0
          /\ \A j \in 1 .. n - (m + 2) + 1 : b[j] = q[(m + 2) + j - 1]
      BY <2>1, <2>2, SubSeqProperties
    <2> QED BY <1>1, <2>3
  <1> HIDE DEF a, b, rest
  <1>5. DOMAIN a = 1 .. m /\ DOMAIN b = 1 .. n - m - 1
    BY <1>3, <1>4, LenProperties
  <1>6. IsInjective(b)
    <2> SUFFICES ASSUME NEW j \in 1 .. n - m - 1, NEW k \in 1 .. n - m - 1, b[j] = b[k] PROVE j = k
      BY <1>5 DEF IsInjective
    <2>1. m + 1 + j \in 1 .. n /\ m + 1 + k \in 1 .. n /\ q[m + 1 + j] = q[m + 1 + k]
      BY <1>1, <1>4
    <2>2. m + 1 + j = m + 1 + k
      BY <1>1, <2>1 DEF IsInjective
    <2> QED BY <1>1, <2>2
  <1>7. ToSet(a) = {q[j] : j \in 1 .. m}
    BY <1>3, <1>5 DEF ToSet
  <1>8. ToSet(b) = {q[j] : j \in m + 2 .. n}
    <2>1. ASSUME NEW x \in ToSet(b) PROVE \E j \in m + 2 .. n : x = q[j]
      <3>1. PICK j \in 1 .. n - m - 1 : x = b[j]
        BY <1>5 DEF ToSet
      <3>2. m + 1 + j \in m + 2 .. n /\ x = q[m + 1 + j]
        BY <1>1, <1>4, <3>1
      <3> QED BY <3>2
    <2>2. ASSUME NEW j \in m + 2 .. n PROVE q[j] \in ToSet(b)
      <3>1. j - m - 1 \in 1 .. n - m - 1 /\ m + 1 + (j - m - 1) = j
        BY <1>1
      <3> QED BY <1>4, <1>5, <3>1 DEF ToSet
    <2> QED BY <2>1, <2>2
  <1>9. ToSet(q) = {q[j] : j \in 1 .. n} /\ m + 1 \in 1 .. n
    BY <1>1 DEF ToSet
  <1>10. \A j, k \in 1 .. n : q[j] = q[k] => j = k
    BY <1>1 DEF IsInjective
  <1>11. ToSet(a) \subseteq ToSet(q) /\ q[m + 1] \in ToSet(q) /\ q[m + 1] \notin ToSet(a)
    <2>1. 1 .. m \subseteq 1 .. n /\ m + 1 \notin 1 .. m
      BY <1>1
    <2> QED BY <1>7, <1>9, <1>10, <2>1
  <1>12. ToSet(b) = ToSet(q) \ (ToSet(a) \cup {q[m + 1]})
    <2>1. \A j \in 1 .. n : j \in 1 .. m \/ j = m + 1 \/ j \in m + 2 .. n
      BY <1>1
    <2>2. \A j \in m + 2 .. n : j \in 1 .. n /\ j \notin 1 .. m /\ j # m + 1
      BY <1>1
    <2>3. 1 .. m \subseteq 1 .. n
      BY <1>1
    <2> QED BY <1>7, <1>8, <1>9, <1>10, <2>1, <2>2, <2>3
  <1> QED BY <1>2, <1>4, <1>6, <1>11, <1>12 DEF n, a, rest
-----------------------------------------------------------------------------
(* Counting. *)

\* All legs in the queues of one kind.
Members(f) == UNION {ToSet(f[r]) : r \in CarrierRoutes}

\* A change of one route's queue changes the number of queued legs by the
\* change of its length: no leg is in the queues of two routes.
LEMMA Requeue ==
    ASSUME NEW f \in [CarrierRoutes -> Seq(Legs)], NEW g \in [CarrierRoutes -> Seq(Legs)],
           NEW r \in CarrierRoutes, Proper(f), Proper(g),
           \A s \in CarrierRoutes : s # r => g[s] = f[s]
    PROVE  /\ Cardinality(Members(f)) \in Nat
           /\ Len(f[r]) \in Nat /\ Len(g[r]) \in Nat
           /\ Cardinality(Members(g)) = Cardinality(Members(f)) - Len(f[r]) + Len(g[r])
  <1> DEFINE Rest == UNION {ToSet(f[s]) : s \in CarrierRoutes \ {r}}
             F == ToSet(f[r])
             G == ToSet(g[r])
  <1>1. /\ IsFiniteSet(F) /\ Cardinality(F) = Len(f[r]) /\ F \subseteq Legs /\ Len(f[r]) \in Nat
        /\ IsFiniteSet(G) /\ Cardinality(G) = Len(g[r]) /\ G \subseteq Legs /\ Len(g[r]) \in Nat
    BY InjectiveLen DEF Proper
  <1>2. Rest \subseteq Legs
    <2>1. \A s \in CarrierRoutes : ToSet(f[s]) \subseteq Legs
      BY InjectiveLen DEF Proper
    <2> QED BY <2>1
  <1>3. Members(f) = Rest \cup F /\ Members(g) = Rest \cup G
    <2>1. Members(f) = Rest \cup F
      BY DEF Members
    <2>2. Members(g) = Rest \cup G
      BY DEF Members
    <2> QED BY <2>1, <2>2
  <1>4. Rest \cap F = {} /\ Rest \cap G = {}
    <2>1. \A x \in Rest : RouteOf[x] # r
      BY DEF Proper
    <2>2. \A x \in F \cup G : RouteOf[x] = r
      BY DEF Proper
    <2> QED BY <2>1, <2>2
  <1> HIDE DEF Rest, F, G
  <1>5. IsFiniteSet(Rest)
    <2>1. IsFiniteSet(Legs) /\ Rest \in SUBSET Legs
      BY <1>2, CarrierBounds
    <2> QED BY <2>1, FS_Subset
  <1>6. Cardinality(Rest) \in Nat /\ Cardinality({}) = 0
    BY <1>5, FS_CardinalityType, FS_EmptySet
  <1>7. Cardinality(Members(f)) = Cardinality(Rest) + Cardinality(F) - Cardinality(Rest \cap F)
    <2>1. Cardinality(Rest \cup F) = Cardinality(Rest) + Cardinality(F) - Cardinality(Rest \cap F)
      BY <1>1, <1>5, FS_Union
    <2> QED BY <1>3, <2>1, Zenon
  <1>8. Cardinality(Members(g)) = Cardinality(Rest) + Cardinality(G) - Cardinality(Rest \cap G)
    <2>1. Cardinality(Rest \cup G) = Cardinality(Rest) + Cardinality(G) - Cardinality(Rest \cap G)
      BY <1>1, <1>5, FS_Union
    <2> QED BY <1>3, <2>1, Zenon
  <1>9. Cardinality(Rest \cap F) = 0 /\ Cardinality(Rest \cap G) = 0
    BY <1>4, <1>6, Zenon
  <1> QED BY <1>1, <1>6, <1>7, <1>8, <1>9

\* No active carrier was added or dropped.
LEMMA ActiveSame ==
    ASSUME ActiveCounts, Active' = Active, UNCHANGED activeVars
    PROVE  ActiveCounts'
  <1>1. \A r : Of(Active, r)' = Of(Active, r)
    BY DEF Of
  <1> QED BY <1>1 DEF ActiveCounts, activeVars

\* No queue moved.
LEMMA QueueSame ==
    ASSUME QueueCounts, UNCHANGED << queueVars, closed >>
    PROVE  QueueCounts'
  <1>1. \A k, r : In(k, r)' = In(k, r) /\ Waiting(k)' = Waiting(k)
    BY DEF In, Waiting, queueVars
  <1> QED BY <1>1 DEF QueueCounts, queueVars

\* The queue of kind k and route r becomes q; its two counters change by d.
Requeued(k, r, q) == queue' = [queue EXCEPT ![k][r] = q]
Recounted(k, r, d) ==
    /\ pending' = [pending EXCEPT ![k] = pending[k] + d]
    /\ perRoute' = [perRoute EXCEPT ![k][r] = perRoute[k][r] + d]

\* The other queues stay.
LEMMA RequeuedFacts ==
    ASSUME CarrierTypes, NEW k \in Kinds, NEW r \in CarrierRoutes, NEW q \in Seq(Legs), Requeued(k, r, q)
    PROVE  /\ queue' \in [Kinds -> [CarrierRoutes -> Seq(Legs)]]
           /\ queue'[k][r] = q
           /\ \A j \in Kinds, s \in CarrierRoutes : j # k \/ s # r => queue'[j][s] = queue[j][s]
  BY DEF CarrierTypes, Requeued

\* The counters follow the queue.
LEMMA QueueChange ==
    ASSUME CarrierTypes, QueueHolds, QueueCounts, ~closed, ~closed', QueueHolds',
           NEW k \in Kinds, NEW r \in CarrierRoutes, NEW q \in Seq(Legs), NEW d \in Int,
           Requeued(k, r, q), Recounted(k, r, d), d = Len(q) - Len(queue[k][r]),
           d <= 0 \/ (d = 1 /\ HasRoom(k, r))
    PROVE  /\ QueueCounts'
           /\ pending' \in [Kinds -> Int]
           /\ perRoute' \in [Kinds -> [CarrierRoutes -> Int]]
  <1>0. /\ queue' \in [Kinds -> [CarrierRoutes -> Seq(Legs)]]
        /\ queue'[k][r] = q
        /\ \A j \in Kinds, s \in CarrierRoutes : j # k \/ s # r => queue'[j][s] = queue[j][s]
    BY RequeuedFacts
  <1>1. /\ \A j \in Kinds : queue[j] \in [CarrierRoutes -> Seq(Legs)] /\ queue'[j] \in [CarrierRoutes -> Seq(Legs)]
        /\ \A j \in Kinds : Proper(queue[j]) /\ Proper(queue'[j])
        /\ \A j, s : In(j, s) = queue[j][s] /\ In(j, s)' = queue'[j][s]
        /\ \A j : Waiting(j) = Members(queue[j]) /\ Waiting(j)' = Members(queue'[j])
    BY <1>0 DEF CarrierTypes, QueueHolds, Proper, In, Waiting, Members
  <1>2. \A j \in Kinds \ {k} : queue'[j] = queue[j]
    BY <1>0, <1>1
  <1>3. /\ Cardinality(Members(queue[k])) \in Nat /\ Len(queue[k][r]) \in Nat /\ Len(q) \in Nat
        /\ Cardinality(Members(queue'[k])) = Cardinality(Members(queue[k])) - Len(queue[k][r]) + Len(q)
    <2>1. queue'[k][r] = q /\ \A s \in CarrierRoutes : s # r => queue'[k][s] = queue[k][s]
      BY <1>0
    <2> QED BY <1>1, <2>1, Requeue
  <1>4. /\ pending[k] = Cardinality(Members(queue[k])) /\ perRoute[k][r] = Len(queue[k][r])
        /\ Cardinality(Members(queue[k])) <= PendingMax[k] /\ Len(queue[k][r]) <= RouteMax
        /\ PendingMax[k] \in Nat /\ RouteMax \in Nat
    BY <1>1, CarrierBounds DEF QueueCounts
  <1> DEFINE m == Cardinality(Members(queue[k]))
             n == Len(queue[k][r])
  <1>5. /\ pending' \in [Kinds -> Int]
        /\ \A j \in Kinds : pending'[j] = IF j = k THEN m - n + Len(q) ELSE pending[j]
    <2>1. pending' = [pending EXCEPT ![k] = pending[k] + d] /\ pending[k] + d \in Int
      BY <1>3, <1>4 DEF Recounted
    <2>2. pending[k] + d = m - n + Len(q)
      BY <1>3, <1>4
    <2> HIDE DEF m, n
    <2> QED BY <2>1, <2>2 DEF CarrierTypes
  <1>6. /\ perRoute' \in [Kinds -> [CarrierRoutes -> Int]]
        /\ \A j \in Kinds, s \in CarrierRoutes :
              perRoute'[j][s] = IF j = k /\ s = r THEN Len(q) ELSE perRoute[j][s]
    <2>2. perRoute[k][r] + d = Len(q) /\ Len(q) \in Int
      BY <1>3, <1>4
    <2>3. perRoute' = [perRoute EXCEPT ![k] = [perRoute[k] EXCEPT ![r] = Len(q)]]
      BY <2>2 DEF Recounted
    <2>4. [perRoute[k] EXCEPT ![r] = Len(q)] \in [CarrierRoutes -> Int]
      BY <2>2 DEF CarrierTypes
    <2> DEFINE row == [perRoute[k] EXCEPT ![r] = Len(q)]
    <2>5. \A s \in CarrierRoutes : row[s] = IF s = r THEN Len(q) ELSE perRoute[k][s]
      BY DEF CarrierTypes
    <2> HIDE DEF row
    <2>6. perRoute' \in [Kinds -> [CarrierRoutes -> Int]] /\ \A j \in Kinds : perRoute'[j] = IF j = k THEN row ELSE perRoute[j]
      BY <2>3, <2>4 DEF CarrierTypes, row
    <2> QED BY <2>5, <2>6
  <1>7. Len(q) <= RouteMax /\ m - n + Len(q) <= PendingMax[k]
    BY <1>1, <1>3, <1>4 DEF HasRoom
  <1> HIDE DEF m, n
  <1>8. \A j \in Kinds, s \in CarrierRoutes :
           /\ perRoute'[j][s] = Len(queue'[j][s]) /\ Len(queue'[j][s]) <= RouteMax
           /\ pending'[j] = Cardinality(Members(queue'[j]))
           /\ Cardinality(Members(queue'[j])) <= PendingMax[j]
    <2> SUFFICES ASSUME NEW j \in Kinds, NEW s \in CarrierRoutes
                 PROVE  /\ perRoute'[j][s] = Len(queue'[j][s]) /\ Len(queue'[j][s]) <= RouteMax
                        /\ pending'[j] = Cardinality(Members(queue'[j]))
                        /\ Cardinality(Members(queue'[j])) <= PendingMax[j]
      OBVIOUS
    <2>1. /\ perRoute[j][s] = Len(queue[j][s]) /\ Len(queue[j][s]) <= RouteMax
          /\ pending[j] = Cardinality(Members(queue[j]))
          /\ Cardinality(Members(queue[j])) <= PendingMax[j]
      BY <1>1 DEF QueueCounts
    <2>2. CASE j = k
      <3>1. pending'[k] = Cardinality(Members(queue'[k])) /\ Cardinality(Members(queue'[k])) <= PendingMax[k]
        BY <1>3, <1>5, <1>7 DEF m, n
      <3> QED BY <1>0, <1>6, <1>7, <2>1, <2>2, <3>1
    <2>3. CASE j # k
      BY <1>2, <1>5, <1>6, <2>1, <2>3
    <2> QED BY <2>2, <2>3
  <1>9. QueueCounts'
    <2>1. CarrierRoutes # {}
      OBVIOUS
    <2> QED BY <1>1, <1>8, <2>1 DEF QueueCounts
  <1> QED BY <1>5, <1>6, <1>9
-----------------------------------------------------------------------------
(* Ownership. *)

IsQueued(l) == \E k \in Kinds, r \in CarrierRoutes : l \in ToSet(queue[k][r])

\* What is known of a queued and of a taken leg.
LEMMA QueuedFacts ==
    ASSUME CarrierInv, NEW k \in Kinds, NEW r \in CarrierRoutes, NEW l \in ToSet(queue[k][r])
    PROVE  /\ l \in Legs /\ l \in Handlers /\ l \notin Clients
           /\ KindOf[l] = k /\ RouteOf[l] = r
           /\ phase[l] = "waiting" /\ ~done[l] /\ l \notin claimed
           /\ \A c \in Clients : taken[c] # l
  <1>1. queue[k][r] \in Seq(Legs) /\ IsInjective(queue[k][r]) /\ RouteOf[l] = r
    BY DEF CarrierInv, CarrierTypes, QueueHolds, Proper
  <1>2. l \in Legs
    BY <1>1, InjectiveLen
  <1>3. l \notin Clients /\ l # NoLeg /\ l \in Handlers
    BY <1>2, CarrierBounds DEF Handlers
  <1>4. KindOf[l] = k /\ phase[l] = "waiting" /\ ~done[l] /\ l \notin claimed
    BY DEF CarrierInv, QueueHolds
  <1>5. \A c \in Clients : taken[c] # l
    BY <1>3, <1>4 DEF CarrierInv, TakenHolds
  <1> QED BY <1>1, <1>2, <1>3, <1>4, <1>5

\* A client between takeLeg and finishLeg has a leg of its own.
LEMMA TakenFacts ==
    ASSUME CarrierInv, NEW c \in Clients, phase[c] \in Holding
    PROVE  /\ taken[c] \in Legs /\ taken[c] # NoLeg /\ taken[c] \in claimed /\ ~done[taken[c]]
           /\ ~IsQueued(taken[c]) /\ c \notin Legs /\ c \in Handlers /\ taken[c] \in Handlers
  <1>1. taken[c] # NoLeg /\ taken[c] \in claimed /\ ~done[taken[c]] /\ taken[c] \in Legs
    BY DEF CarrierInv, TakenHolds, CarrierTypes
  <1>2. c \notin Legs /\ c \in Handlers /\ taken[c] \in Handlers
    BY <1>1, CarrierBounds DEF Handlers
  <1> QED BY <1>1, <1>2, QueuedFacts DEF IsQueued

\* The queues only lose legs, and what stays is neither told nor claimed.
LEMMA QueueShrinks ==
    ASSUME CarrierInv, queue' \in [Kinds -> [CarrierRoutes -> Seq(Legs)]],
           \A k \in Kinds, r \in CarrierRoutes :
              IsInjective(queue'[k][r]) /\ ToSet(queue'[k][r]) \subseteq ToSet(queue[k][r]),
           \A k \in Kinds, r \in CarrierRoutes : \A l \in ToSet(queue'[k][r]) :
              phase'[l] = phase[l] /\ ~done'[l] /\ l \notin claimed',
           closed' => \A k \in Kinds, r \in CarrierRoutes : queue'[k][r] = <<>>
    PROVE  QueueHolds'
  <1>1. \A k \in Kinds : Proper(queue'[k])
    BY DEF CarrierInv, QueueHolds, Proper
  <1>2. \A k \in Kinds, r \in CarrierRoutes : \A l \in ToSet(queue'[k][r]) :
           KindOf[l] = k /\ phase'[l] = "waiting" /\ ~done'[l] /\ l \notin claimed'
    <2> TAKE k \in Kinds, r \in CarrierRoutes
    <2> TAKE l \in ToSet(queue'[k][r])
    <2>1. l \in ToSet(queue[k][r])
      OBVIOUS
    <2>2. KindOf[l] = k /\ phase[l] = "waiting"
      BY <2>1, QueuedFacts
    <2>3. phase'[l] = phase[l] /\ ~done'[l] /\ l \notin claimed'
      OBVIOUS
    <2> QED BY <2>2, <2>3
  <1> QED BY <1>1, <1>2 DEF QueueHolds, Proper

\* A handler goes on; nothing is queued, taken, told or counted by it.
LEMMA HandlerMoves ==
    ASSUME CarrierInv, NEW x \in Handlers, NEW p \in LegPhases \cup ClientPhases, Goto(x, p),
           UNCHANGED << legVars, queueVars, activeVars, taken, closed, cancelled >>,
           x \in Clients => /\ p \in Holding <=> phase[x] \in Holding
                            /\ p \in Counted <=> phase[x] \in Counted,
           x \in Legs => /\ ~IsQueued(x)
                         /\ p \in {"new", "tracked"} => phase[x] \in {"new", "tracked"}
                         /\ \/ p = "owned" \/ cancelled
                            \/ phase[x] \notin {"waiting", "owned"}
                            \/ \A c \in Clients : taken[c] # x
    PROVE  CarrierInv'
  <1>1. /\ UNCHANGED << done, claimed, queue, pending, perRoute, active, activePerRoute >>
        /\ UNCHANGED << taken, closed, cancelled >>
    BY DEF legVars, queueVars, activeVars
  <1>2. /\ phase' \in [Handlers -> LegPhases \cup ClientPhases]
        /\ \A y \in Handlers : phase'[y] = IF y = x THEN p ELSE phase[y]
    BY DEF CarrierInv, CarrierTypes, Goto
  <1>3. CarrierTypes'
    BY <1>1, <1>2 DEF CarrierInv, CarrierTypes
  <1>4. \A k \in Kinds, r \in CarrierRoutes : \A l \in ToSet(queue[k][r]) : phase'[l] = phase[l]
    BY <1>2, QueuedFacts DEF IsQueued
  <1>5. QueueHolds'
    BY <1>1, <1>4 DEF CarrierInv, QueueHolds
  <1>6. Legs \subseteq Handlers /\ Clients \subseteq Handlers /\ Legs \cap Clients = {}
    BY CarrierBounds DEF Handlers
  <1>7. TakenHolds'
    <2>1. \A c \in Clients : taken[c] # NoLeg <=> phase'[c] \in Holding
      BY <1>2, <1>6 DEF CarrierInv, TakenHolds
    <2>2. ASSUME NEW c \in Clients, taken[c] # NoLeg
          PROVE  /\ taken[c] \in claimed /\ ~done[taken[c]]
                 /\ phase'[taken[c]] \in {"waiting", "owned"} \/ cancelled
      <3>1. /\ taken[c] \in claimed /\ ~done[taken[c]]
            /\ phase[taken[c]] \in {"waiting", "owned"} \/ cancelled
            /\ taken[c] \in Legs
        BY <2>2 DEF CarrierInv, TakenHolds, CarrierTypes
      <3> QED BY <1>2, <1>6, <3>1
    <2> QED BY <1>1, <2>1, <2>2 DEF CarrierInv, TakenHolds, NoOrphan
  <1>8. Active' = Active
    BY <1>2, <1>6 DEF Active
  <1>9. ActiveCounts'
    BY <1>1, <1>8, ActiveSame DEF CarrierInv, activeVars
  <1>10. QueueCounts'
    BY <1>1, QueueSame DEF CarrierInv, queueVars
  <1>11. FreshHolds'
    BY <1>1, <1>2, <1>6 DEF CarrierInv, FreshHolds
  <1> QED BY <1>3, <1>5, <1>7, <1>9, <1>10, <1>11 DEF CarrierInv

\* finishLeg: the client lets its leg go and tells it.
LEMMA Finishes ==
    ASSUME CarrierInv, NEW c \in Clients, phase[c] \in Holding, NEW p \in ClientPhases, p \notin Holding,
           Goto(c, p), Finish(taken[c]), taken' = [taken EXCEPT ![c] = NoLeg],
           p \in Counted <=> phase[c] \in Counted,
           UNCHANGED << claimed, queueVars, activeVars, closed, cancelled >>
    PROVE  CarrierInv'
  <1> DEFINE l == taken[c]
  <1>1. /\ l \in Legs /\ l # NoLeg /\ l \in claimed /\ ~done[l]
        /\ ~IsQueued(l) /\ c \notin Legs /\ c \in Handlers /\ l \in Handlers
    BY TakenFacts
  <1>2. UNCHANGED << claimed, queue, pending, perRoute, active, activePerRoute, closed, cancelled >>
    BY DEF queueVars, activeVars
  <1>3. /\ phase' \in [Handlers -> LegPhases \cup ClientPhases]
        /\ \A y \in Handlers : phase'[y] = IF y = c THEN p ELSE phase[y]
    BY <1>1 DEF CarrierInv, CarrierTypes, Goto
  <1>4. /\ done' \in [Legs -> BOOLEAN] /\ done'[l] /\ \A m \in Legs : m # l => done'[m] = done[m]
    BY <1>1 DEF CarrierInv, CarrierTypes, Finish
  <1>5. /\ taken' \in [Clients -> Legs \cup {NoLeg}]
        /\ \A d \in Clients : taken'[d] = IF d = c THEN NoLeg ELSE taken[d]
    BY DEF CarrierInv, CarrierTypes
  <1> HIDE DEF l
  <1>6. CarrierTypes'
    BY <1>2, <1>3, <1>4, <1>5 DEF CarrierInv, CarrierTypes
  <1>7. Legs \subseteq Handlers /\ Clients \subseteq Handlers /\ Legs \cap Clients = {}
    BY CarrierBounds DEF Handlers
  <1>8. QueueHolds'
    <2>1. \A k \in Kinds, r \in CarrierRoutes : \A m \in ToSet(queue[k][r]) :
             m \in Legs /\ m # l
      BY <1>1, QueuedFacts DEF IsQueued
    <2>2. \A k \in Kinds, r \in CarrierRoutes : \A m \in ToSet(queue[k][r]) :
             phase'[m] = phase[m] /\ done'[m] = done[m]
      BY <1>1, <1>3, <1>4, <1>7, <2>1
    <2> QED BY <1>2, <2>2 DEF CarrierInv, QueueHolds
  <1>9. TakenHolds'
    <2>1. \A d \in Clients : taken'[d] # NoLeg <=> phase'[d] \in Holding
      BY <1>3, <1>5, <1>7 DEF CarrierInv, TakenHolds
    <2>2. ASSUME NEW d \in Clients, taken'[d] # NoLeg
          PROVE  /\ taken'[d] \in claimed /\ ~done'[taken'[d]]
                 /\ phase'[taken'[d]] \in {"waiting", "owned"} \/ cancelled
      <3>1. d # c /\ taken'[d] = taken[d] /\ taken[d] # l
        BY <1>5, <2>2 DEF CarrierInv, TakenHolds, l
      <3>2. /\ taken[d] \in Legs /\ taken[d] \in claimed /\ ~done[taken[d]]
            /\ phase[taken[d]] \in {"waiting", "owned"} \/ cancelled
        BY <1>5, <2>2, <3>1 DEF CarrierInv, TakenHolds, CarrierTypes
      <3> QED BY <1>1, <1>3, <1>4, <1>7, <3>1, <3>2
    <2>3. \A d, e \in Clients : d # e /\ taken'[d] # NoLeg => taken'[d] # taken'[e]
      BY <1>5 DEF CarrierInv, TakenHolds
    <2>4. NoOrphan'
      <3> SUFFICES ASSUME NEW m \in claimed PROVE done'[m] \/ \E d \in Clients : taken'[d] = m
        BY <1>2 DEF NoOrphan
      <3>1. m \in Legs
        BY DEF CarrierInv, CarrierTypes
      <3>2. CASE m = l
        BY <1>4, <3>2
      <3>3. CASE m # l
        BY <1>4, <1>5, <3>1, <3>3 DEF CarrierInv, TakenHolds, NoOrphan, l
      <3> QED BY <3>2, <3>3
    <2> QED BY <1>2, <2>1, <2>2, <2>3, <2>4 DEF TakenHolds
  <1>10. Active' = Active
    BY <1>3, <1>7 DEF Active
  <1>11. ActiveCounts' /\ QueueCounts'
    BY <1>2, <1>10, ActiveSame, QueueSame DEF CarrierInv, activeVars, queueVars
  <1>12. FreshHolds'
    <2> SUFFICES ASSUME NEW m \in Legs, done'[m] \/ m \in claimed PROVE phase'[m] \notin {"new", "tracked"}
      BY <1>2 DEF FreshHolds
    <2>1. phase'[m] = phase[m]
      BY <1>1, <1>3, <1>7
    <2>2. m = l \/ done'[m] = done[m]
      BY <1>4
    <2> QED BY <1>1, <2>1, <2>2 DEF CarrierInv, FreshHolds
  <1> QED BY <1>6, <1>8, <1>9, <1>11, <1>12 DEF CarrierInv
-----------------------------------------------------------------------------
(* Receivers. *)

\* A leg arrives in the queue of its kind and route.
LEMMA EnqueueKeeps == ASSUME CarrierInv, NEW l \in Legs, EnqueueLeg(l) PROVE CarrierInv'
  <1> DEFINE k == KindOf[l]
             r == RouteOf[l]
             q == queue[k][r]
  <1>1. /\ l \in Handlers /\ l \notin Clients /\ k \in Kinds /\ r \in CarrierRoutes
        /\ Legs \subseteq Handlers /\ Clients \subseteq Handlers /\ Legs \cap Clients = {}
    BY CarrierBounds DEF Handlers
  <1>2. phase[l] = "tracked" /\ ~IsQueued(l)
    BY QueuedFacts DEF EnqueueLeg, IsQueued
  <1>3. CASE ~(StillAdmitted(l) /\ HasRoom(k, r))
    <2>1. Goto(l, "gone") /\ UNCHANGED << legVars, queueVars, activeVars, taken, closed, cancelled >>
      BY <1>3 DEF EnqueueLeg, Leave, relayVars
    <2>2. "gone" \in LegPhases \cup ClientPhases
      BY DEF LegPhases
    <2> QED BY <1>1, <1>2, <2>1, <2>2, HandlerMoves
  <1>4. CASE StillAdmitted(l) /\ HasRoom(k, r)
    <2> DEFINE n == Append(q, l)
    <2>1. /\ Requeued(k, r, n) /\ Recounted(k, r, 1)
          /\ Goto(l, "waiting") /\ UNCHANGED << done, claimed, active, activePerRoute, taken, closed, cancelled >>
          /\ ~closed /\ ~closed'
      BY <1>1, <1>4 DEF EnqueueLeg, StillAdmitted, legVars, activeVars, relayVars, Requeued, Recounted
    <2>2. q \in Seq(Legs) /\ IsInjective(q) /\ l \notin ToSet(q)
      BY <1>1, <1>2 DEF CarrierInv, CarrierTypes, QueueHolds, Proper, IsQueued
    <2>3. /\ n \in Seq(Legs) /\ Len(n) = Len(q) + 1 /\ IsInjective(n) /\ ToSet(n) = ToSet(q) \cup {l}
          /\ Len(q) \in Nat
      BY <2>2, Appending, InjectiveLen
    <2> HIDE DEF n
    <2>4. /\ queue' \in [Kinds -> [CarrierRoutes -> Seq(Legs)]] /\ queue'[k][r] = n
          /\ \A j \in Kinds, s \in CarrierRoutes : j # k \/ s # r => queue'[j][s] = queue[j][s]
      BY <1>1, <2>1, <2>3, RequeuedFacts DEF CarrierInv
    <2>5. /\ phase' \in [Handlers -> LegPhases \cup ClientPhases]
          /\ \A y \in Handlers : phase'[y] = IF y = l THEN "waiting" ELSE phase[y]
      BY <1>1, <2>1 DEF CarrierInv, CarrierTypes, Goto, LegPhases
    <2>6. ~done[l] /\ l \notin claimed
      BY <1>2 DEF CarrierInv, FreshHolds
    <2>7. QueueHolds'
      <3>1. ASSUME NEW j \in Kinds, NEW s \in CarrierRoutes
            PROVE  /\ IsInjective(queue'[j][s]) /\ \A m \in ToSet(queue'[j][s]) : RouteOf[m] = s
                   /\ \A m \in ToSet(queue'[j][s]) :
                         KindOf[m] = j /\ phase'[m] = "waiting" /\ ~done[m] /\ m \notin claimed
        <4>1. /\ IsInjective(queue[j][s])
              /\ \A m \in ToSet(queue[j][s]) :
                    /\ m \in Handlers /\ m # l /\ RouteOf[m] = s
                    /\ KindOf[m] = j /\ phase[m] = "waiting" /\ ~done[m] /\ m \notin claimed
          BY <1>2, QueuedFacts DEF CarrierInv, QueueHolds, Proper, IsQueued
        <4>2. CASE j = k /\ s = r
          <5>1. queue'[j][s] = n /\ ToSet(n) = ToSet(queue[j][s]) \cup {l}
            BY <2>3, <2>4, <4>2
          <5>2. RouteOf[l] = s /\ KindOf[l] = j /\ phase'[l] = "waiting"
            BY <1>1, <2>5, <4>2
          <5> QED BY <2>3, <2>5, <2>6, <4>1, <5>1, <5>2
        <4>3. CASE j # k \/ s # r
          <5>1. queue'[j][s] = queue[j][s]
            BY <2>4, <4>3
          <5> QED BY <2>5, <4>1, <5>1
        <4> QED BY <4>2, <4>3
      <3> QED BY <2>1, <3>1 DEF QueueHolds, Proper
    <2>8. QueueCounts' /\ pending' \in [Kinds -> Int] /\ perRoute' \in [Kinds -> [CarrierRoutes -> Int]]
      <3>1. 1 = Len(n) - Len(queue[k][r]) /\ HasRoom(k, r) /\ 1 \in Int
        BY <1>4, <2>3
      <3> HIDE DEF k, r, q
      <3> QED BY <1>1, <2>1, <2>3, <2>7, <3>1, QueueChange DEF CarrierInv
    <2>9. CarrierTypes'
      BY <2>1, <2>4, <2>5, <2>8 DEF CarrierInv, CarrierTypes
    <2>10. TakenHolds'
      <3>1. \A c \in Clients : phase'[c] = phase[c]
        BY <1>1, <2>5
      <3>2. \A c \in Clients : taken[c] # l /\ (taken[c] # NoLeg => taken[c] \in Legs)
        BY <1>1, <2>6, CarrierBounds DEF CarrierInv, TakenHolds, CarrierTypes
      <3>3. \A c \in Clients : taken[c] # NoLeg => phase'[taken[c]] = phase[taken[c]]
        BY <1>1, <2>5, <3>2
      <3> QED BY <2>1, <3>1, <3>3 DEF CarrierInv, TakenHolds, NoOrphan
    <2>11. FreshHolds'
      BY <1>1, <2>1, <2>5 DEF CarrierInv, FreshHolds
    <2>12. Active' = Active
      BY <1>1, <2>5 DEF Active
    <2>13. ActiveCounts'
      BY <2>1, <2>12, ActiveSame DEF CarrierInv, activeVars
    <2> QED BY <2>7, <2>8, <2>9, <2>10, <2>11, <2>13 DEF CarrierInv
  <1> QED BY <1>3, <1>4
\* removeLeg of a leg that is still queued, whose handler then leaves.
LEMMA RetireKeeps ==
    ASSUME CarrierInv, NEW l \in Legs, RemoveLeg(l), Removable(l), Goto(l, "gone"),
           UNCHANGED << legVars, activeVars, taken, closed, cancelled >>
    PROVE  CarrierInv'
  <1> DEFINE k == KindOf[l]
             r == RouteOf[l]
             q == queue[k][r]
  <1>1. /\ l \in Handlers /\ l \notin Clients /\ k \in Kinds /\ r \in CarrierRoutes
        /\ Legs \subseteq Handlers /\ Clients \subseteq Handlers /\ Legs \cap Clients = {}
    BY CarrierBounds DEF Handlers
  <1>2. q \in Seq(Legs) /\ IsInjective(q) /\ In(k, r) = q
    BY <1>1 DEF CarrierInv, CarrierTypes, QueueHolds, Proper, In
  <1>3. PICK i \in DOMAIN q : q[i] = l /\ Requeued(k, r, RemoveAt(q, i))
    BY <1>1, <1>2 DEF RemoveLeg, Requeued, In
  <1>4. /\ Recounted(k, r, -1)
        /\ UNCHANGED << done, claimed, active, activePerRoute, taken, closed, cancelled >>
    <2>1. pending[k] \in Int /\ perRoute[k][r] \in Int
      BY <1>1 DEF CarrierInv, CarrierTypes
    <2>2. pending[k] - 1 = pending[k] + (-1) /\ perRoute[k][r] - 1 = perRoute[k][r] + (-1)
      BY <2>1
    <2> QED BY <1>1, <2>2 DEF RemoveLeg, Recounted, legVars, activeVars
  <1> DEFINE n == RemoveAt(q, i)
  <1>5. /\ n \in Seq(Legs) /\ Len(n) = Len(q) - 1 /\ IsInjective(n) /\ ToSet(n) = ToSet(q) \ {l}
        /\ Len(q) \in Nat
    BY <1>2, <1>3, Removing, InjectiveLen
  <1>6. Requeued(k, r, n) /\ l \in ToSet(q)
    BY <1>3 DEF ToSet
  <1> HIDE DEF n
  <1>7. /\ queue' \in [Kinds -> [CarrierRoutes -> Seq(Legs)]] /\ queue'[k][r] = n
        /\ \A j \in Kinds, s \in CarrierRoutes : j # k \/ s # r => queue'[j][s] = queue[j][s]
    BY <1>1, <1>5, <1>6, RequeuedFacts DEF CarrierInv
  <1>8. /\ phase' \in [Handlers -> LegPhases \cup ClientPhases]
        /\ \A y \in Handlers : phase'[y] = IF y = l THEN "gone" ELSE phase[y]
    BY <1>1 DEF CarrierInv, CarrierTypes, Goto, LegPhases
  <1>9. ~closed /\ ~closed' /\ ~done[l] /\ l \notin claimed /\ \A c \in Clients : taken[c] # l
    <2>1. ~closed
      <3>1. q # <<>>
        BY <1>6, EmptyQueue
      <3> QED BY <1>1, <3>1 DEF CarrierInv, QueueHolds
    <2> QED BY <1>1, <1>4, <1>6, <2>1, QueuedFacts
  <1>10. ASSUME NEW j \in Kinds, NEW s \in CarrierRoutes
         PROVE  /\ IsInjective(queue'[j][s]) /\ ToSet(queue'[j][s]) \subseteq ToSet(queue[j][s])
                /\ l \notin ToSet(queue'[j][s])
    <2>1. CASE j = k /\ s = r
      BY <1>5, <1>7, <2>1
    <2>2. CASE j # k \/ s # r
      <3>1. l \notin ToSet(queue[j][s])
        BY <1>1, <2>2, QueuedFacts
      <3> QED BY <1>7, <2>2, <3>1 DEF CarrierInv, QueueHolds, Proper
    <2> QED BY <2>1, <2>2
  <1>11. QueueHolds'
    <2>1. \A j \in Kinds, s \in CarrierRoutes : \A m \in ToSet(queue'[j][s]) :
             phase'[m] = phase[m] /\ ~done'[m] /\ m \notin claimed'
      <3> TAKE j \in Kinds, s \in CarrierRoutes
      <3> TAKE m \in ToSet(queue'[j][s])
      <3>1. m \in ToSet(queue[j][s]) /\ m # l
        BY <1>10
      <3>2. m \in Handlers /\ ~done[m] /\ m \notin claimed
        BY <3>1, QueuedFacts
      <3> QED BY <1>4, <1>8, <3>1, <3>2
    <2> QED BY <1>7, <1>9, <1>10, <2>1, QueueShrinks
  <1>12. QueueCounts' /\ pending' \in [Kinds -> Int] /\ perRoute' \in [Kinds -> [CarrierRoutes -> Int]]
    <2>1. -1 = Len(n) - Len(queue[k][r]) /\ -1 \in Int /\ -1 <= 0
      BY <1>5
    <2> HIDE DEF k, r, q
    <2> QED BY <1>1, <1>4, <1>5, <1>6, <1>9, <1>11, <2>1, QueueChange DEF CarrierInv
  <1>13. CarrierTypes'
    BY <1>4, <1>7, <1>8, <1>12 DEF CarrierInv, CarrierTypes
  <1>14. TakenHolds'
    <2>1. \A c \in Clients : phase'[c] = phase[c] /\ (taken[c] # NoLeg => taken[c] \in Legs)
      BY <1>1, <1>8 DEF CarrierInv, CarrierTypes
    <2>2. \A c \in Clients : taken[c] # NoLeg => phase'[taken[c]] = phase[taken[c]]
      BY <1>1, <1>8, <1>9, <2>1
    <2> QED BY <1>4, <2>1, <2>2 DEF CarrierInv, TakenHolds, NoOrphan
  <1>15. FreshHolds'
    BY <1>1, <1>4, <1>8 DEF CarrierInv, FreshHolds
  <1>16. Active' = Active
    BY <1>1, <1>8 DEF Active
  <1>17. ActiveCounts'
    BY <1>4, <1>16, ActiveSame DEF CarrierInv, activeVars
  <1> QED BY <1>11, <1>12, <1>13, <1>14, <1>15, <1>17 DEF CarrierInv

\* A leg that removeLeg does not find is in no queue.
LEMMA NotRemovable == ASSUME CarrierInv, NEW l \in Legs, ~Removable(l) PROVE ~IsQueued(l)
  <1> SUFFICES ASSUME NEW k \in Kinds, NEW r \in CarrierRoutes, l \in ToSet(queue[k][r]) PROVE FALSE
    BY DEF IsQueued
  <1>1. KindOf[l] = k /\ RouteOf[l] = r /\ l \notin claimed
    BY QueuedFacts
  <1>2. DOMAIN queue[k][r] = 1 .. Len(queue[k][r])
    BY LenProperties DEF CarrierInv, CarrierTypes
  <1>3. Contains(queue[k][r], l)
    BY <1>2 DEF Contains, ToSet
  <1> QED BY <1>1, <1>3 DEF Removable, In

\* The steps of a receiver's handler.
LEMMA LegKeeps == ASSUME CarrierInv, NEW l \in Legs, LegStep(l) PROVE CarrierInv'
  <1>1. l \in Handlers /\ l \notin Clients /\ {"gone", "owned"} \subseteq LegPhases \cup ClientPhases
    BY CarrierBounds DEF Handlers, LegPhases
  <1>2. CASE EnqueueLeg(l)
    BY <1>2, EnqueueKeeps
  <1>3. CASE WaitDone(l)
    <2>1. /\ Goto(l, "gone") /\ done[l]
          /\ UNCHANGED << legVars, queueVars, activeVars, taken, closed, cancelled >>
      BY <1>3 DEF WaitDone, Leave, relayVars
    <2>2. ~IsQueued(l) /\ \A c \in Clients : taken[c] # l
      <3>1. ~IsQueued(l)
        BY <2>1, QueuedFacts DEF IsQueued
      <3>2. l # NoLeg
        BY <1>1, CarrierBounds
      <3> QED BY <2>1, <3>1, <3>2 DEF CarrierInv, TakenHolds
    <2> QED BY <1>1, <2>1, <2>2, HandlerMoves
  <1>4. CASE WaitCancelled(l)
    <2>1. /\ Goto(l, "gone") /\ cancelled /\ phase[l] \in {"waiting", "owned"}
          /\ UNCHANGED << legVars, activeVars, taken, closed, cancelled >>
          /\ IF phase[l] = "waiting" THEN RemoveLeg(l) ELSE UNCHANGED queueVars
      BY <1>4 DEF WaitCancelled, Leave, relayVars
    <2>2. CASE phase[l] = "waiting" /\ Removable(l)
      BY <2>1, <2>2, RetireKeeps
    <2>3. CASE ~(phase[l] = "waiting" /\ Removable(l))
      <3>1. UNCHANGED queueVars
        BY <2>1, <2>3 DEF RemoveLeg
      <3>2. ~IsQueued(l)
        BY <2>1, <2>3, NotRemovable, QueuedFacts DEF IsQueued
      <3> QED BY <1>1, <2>1, <3>1, <3>2, HandlerMoves
    <2> QED BY <2>2, <2>3
  <1>5. CASE WaitTimer(l)
    <2>1. /\ RemoveLeg(l) /\ UNCHANGED << legVars, activeVars, taken, closed, cancelled >>
      BY <1>5 DEF WaitTimer, relayVars
    <2>2. CASE Removable(l)
      <3>1. Goto(l, "gone")
        BY <1>5, <2>2 DEF WaitTimer, Leave
      <3> QED BY <2>1, <2>2, <3>1, RetireKeeps
    <2>3. CASE ~Removable(l)
      <3>1. Goto(l, "owned") /\ UNCHANGED queueVars
        BY <1>5, <2>1, <2>3 DEF WaitTimer, RemoveLeg
      <3> QED BY <1>1, <2>1, <2>3, <3>1, NotRemovable, HandlerMoves
    <2> QED BY <2>2, <2>3
  <1> QED BY <1>2, <1>3, <1>4, <1>5 DEF LegStep
-----------------------------------------------------------------------------
(* Clients. *)

\* A set of naturals that is not empty has a least element.
LEMMA Least ==
    ASSUME NEW T, T \subseteq Nat, T # {}
    PROVE  \E x \in T : \A y \in T : x <= y
  <1>1. \E x \in T : \A y \in T : ~(<<y, x>> \in OpToRel(<, Nat))
    BY NatLessThanWellFounded, WFMin
  <1>2. PICK x \in T : \A y \in T : ~(<<y, x>> \in OpToRel(<, Nat))
    BY <1>1
  <1>3. \A y \in T : x <= y
    <2> TAKE y \in T
    <2>1. ~(y < x)
      BY <1>2 DEF OpToRel
    <2> QED BY <2>1
  <1> QED BY <1>3

\* takeLeg passes over a prefix of the queue.
LEMMA SkippedPrefix ==
    ASSUME NEW c, NEW q \in Seq(Legs)
    PROVE  \E m \in 0 .. Len(q) : Skipped(c, q) = SubSeq(q, 1, m) /\ Len(Skipped(c, q)) = m
  <1> DEFINE suitable == {i \in DOMAIN q : Suits(c, q[i])}
             first == CHOOSE i \in suitable : \A j \in suitable : i <= j
             m == IF suitable = {} THEN Len(q) ELSE first - 1
  <1>1. Len(q) \in Nat /\ DOMAIN q = 1 .. Len(q) /\ \A i \in 1 .. Len(q) : q[i] \in Legs
    BY LenProperties, ElementOfSeq
  <1>2. m \in 0 .. Len(q)
    <2>1. CASE suitable = {}
      BY <1>1, <2>1
    <2>2. CASE suitable # {}
      <3>1. suitable \subseteq Nat
        BY <1>1
      <3>2. \E i \in suitable : \A j \in suitable : i <= j
        <4> HIDE DEF suitable
        <4> QED BY <2>2, <3>1, Least
      <3>3. first \in suitable
        <4> HIDE DEF suitable
        <4> QED BY <3>2
      <3>4. first \in 1 .. Len(q)
        BY <1>1, <3>3
      <3> HIDE DEF first, suitable
      <3> QED BY <1>1, <2>2, <3>4
    <2> QED BY <2>1, <2>2
  <1>3. Skipped(c, q) = SubSeq(q, 1, m)
    BY DEF Skipped
  <1> HIDE DEF m
  <1>4. Len(SubSeq(q, 1, m)) = m
    <2>1. m \in Int /\ 0 <= m /\ \A i \in 1 .. m : q[i] \in Legs
      BY <1>1, <1>2
    <2>2. Len(SubSeq(q, 1, m)) = IF 1 <= m THEN m - 1 + 1 ELSE 0
      BY <2>1, SubSeqProperties
    <2> QED BY <2>1, <2>2
  <1> QED BY <1>2, <1>3, <1>4

\* The legs of S are told to end.
Tells(S) == done' = [l \in Legs |-> done[l] \/ l \in S]

\* Telling queued legs disturbs no other leg.
LEMMA ToldFacts ==
    ASSUME CarrierInv, NEW S, Tells(S), \A l \in S : IsQueued(l)
    PROVE  /\ done' \in [Legs -> BOOLEAN]
           /\ \A l \in Legs : l \notin S => done'[l] = done[l]
           /\ \A l \in Legs : done[l] => done'[l]
           /\ \A l \in S : l \in Legs /\ phase[l] = "waiting" /\ l \notin claimed
           /\ \A c \in Clients : taken[c] \notin S
  <1>1. done \in [Legs -> BOOLEAN]
    BY DEF CarrierInv, CarrierTypes
  <1>2. /\ done' \in [Legs -> BOOLEAN]
        /\ \A l \in Legs : l \notin S => done'[l] = done[l]
        /\ \A l \in Legs : done[l] => done'[l]
    BY <1>1 DEF Tells
  <1>3. \A l \in S : l \in Legs /\ phase[l] = "waiting" /\ l \notin claimed /\ \A c \in Clients : taken[c] # l
    BY QueuedFacts DEF IsQueued
  <1> QED BY <1>2, <1>3

\* No client took or gave up a leg, and what legs were told was queued.
LEMMA OwnersKeep ==
    ASSUME CarrierInv, NEW S, Tells(S), \A l \in S : IsQueued(l),
           \A x \in Legs : phase'[x] = phase[x],
           \A c \in Clients : phase'[c] \in Holding <=> phase[c] \in Holding,
           UNCHANGED << claimed, taken, cancelled >>
    PROVE  TakenHolds' /\ FreshHolds'
  <1>1. /\ \A l \in Legs : l \notin S => done'[l] = done[l]
        /\ \A l \in Legs : done[l] => done'[l]
        /\ \A l \in S : l \in Legs /\ phase[l] = "waiting" /\ l \notin claimed
        /\ \A c \in Clients : taken[c] \notin S
    BY ToldFacts
  <1>2. \A c \in Clients : taken[c] # NoLeg => taken[c] \in Legs
    BY DEF CarrierInv, CarrierTypes
  <1>3. claimed \subseteq Legs
    BY DEF CarrierInv, CarrierTypes
  <1>4. TakenHolds'
    BY <1>1, <1>2, <1>3 DEF CarrierInv, TakenHolds, NoOrphan
  <1>5. FreshHolds'
    BY <1>1 DEF CarrierInv, FreshHolds
  <1> QED BY <1>4, <1>5

\* takeLeg hands the first suitable leg to the client.
LEMMA TakeKeeps == ASSUME CarrierInv, NEW c \in Clients, TakeLeg(c) PROVE CarrierInv'
  <1> DEFINE k == KindOf[c]
             r == RouteOf[c]
             q == queue[k][r]
             S == ToSet(Skipped(c, q))
  <1>1. /\ c \in Handlers /\ c \notin Legs /\ k \in Kinds /\ r \in CarrierRoutes
        /\ Legs \subseteq Handlers /\ Clients \subseteq Handlers /\ Legs \cap Clients = {}
        /\ NoLeg \notin Legs
    BY CarrierBounds DEF Handlers
  <1>2. q \in Seq(Legs) /\ IsInjective(q) /\ In(k, r) = q /\ Len(q) \in Nat
    BY <1>1, InjectiveLen DEF CarrierInv, CarrierTypes, QueueHolds, Proper, In
  <1>3. PICK m \in 0 .. Len(q) : Skipped(c, q) = SubSeq(q, 1, m) /\ Len(Skipped(c, q)) = m
    BY <1>2, SkippedPrefix
  <1> DEFINE rest == SubSeq(q, m + 1, Len(q))
             n == Tail(rest)
             l == Head(rest)
  <1>4. /\ phase[c] = "tracked" /\ ~closed /\ ~closed' /\ rest # <<>> /\ Requeued(k, r, n)
        /\ pending' = [pending EXCEPT ![k] = pending[k] - m - 1]
        /\ perRoute' = [perRoute EXCEPT ![k][r] = perRoute[k][r] - m - 1]
        /\ Tells(S) /\ taken' = [taken EXCEPT ![c] = l] /\ claimed' = claimed \cup {l}
        /\ Goto(c, IF k = "pairing" THEN "exchange" ELSE "taken")
        /\ UNCHANGED << active, activePerRoute, closed, cancelled >>
    BY <1>1, <1>2, <1>3 DEF TakeLeg, StillAdmitted, Requeued, Tells, activeVars, relayVars
  <1>5. m < Len(q)
    <2>1. m \in Int /\ Len(q) \in Int
      BY <1>2
    <2>2. CASE m = Len(q)
      <3>1. Len(q) < m + 1 /\ m + 1 \in Int
        <4> HIDE DEF q
        <4> QED BY <2>1, <2>2
      <3>2. rest = <<>>
        BY <2>1, <3>1, SubSeqEmpty
      <3> QED BY <1>4, <3>2
    <2> QED BY <1>2, <2>2
  <1>6. /\ n \in Seq(Legs) /\ Len(n) = Len(q) - m - 1 /\ IsInjective(n)
        /\ S \subseteq ToSet(q) /\ l \in ToSet(q) /\ l \notin S
        /\ ToSet(n) = ToSet(q) \ (S \cup {l})
    <2>1. m \in Nat
      BY <1>2
    <2> HIDE DEF k, r, q
    <2>2. /\ l = q[m + 1] /\ n \in Seq(Legs) /\ Len(n) = Len(q) - m - 1 /\ IsInjective(n)
          /\ ToSet(SubSeq(q, 1, m)) \subseteq ToSet(q)
          /\ q[m + 1] \in ToSet(q) /\ q[m + 1] \notin ToSet(SubSeq(q, 1, m))
          /\ ToSet(n) = ToSet(q) \ (ToSet(SubSeq(q, 1, m)) \cup {q[m + 1]})
      BY <1>2, <1>5, <2>1, Taking
    <2>3. S = ToSet(SubSeq(q, 1, m))
      BY <1>3
    <2> HIDE DEF n, l, S
    <2> QED BY <2>2, <2>3
  <1> HIDE DEF n, l, rest, S
  <1>7. /\ l \in Legs /\ phase[l] = "waiting" /\ ~done[l] /\ l \notin claimed /\ l # NoLeg
        /\ \A d \in Clients : taken[d] # l
    <2>1. l \in ToSet(queue[k][r])
      BY <1>6
    <2> HIDE DEF k, r, q
    <2>a. k \in Kinds /\ r \in CarrierRoutes
      BY <1>1
    <2>2. /\ l \in Legs /\ phase[l] = "waiting" /\ ~done[l] /\ l \notin claimed
          /\ \A d \in Clients : taken[d] # l
      BY ONLY CarrierInv, <2>a, <2>1, QueuedFacts
    <2> QED BY <1>1, <2>2
  <1>8. \A x \in S : IsQueued(x)
    BY <1>1, <1>6 DEF IsQueued
  <1>9. /\ done' \in [Legs -> BOOLEAN]
        /\ \A x \in Legs : x \notin S => done'[x] = done[x]
        /\ \A x \in Legs : done[x] => done'[x]
        /\ \A x \in S : x \in Legs /\ phase[x] = "waiting" /\ x \notin claimed
        /\ \A d \in Clients : taken[d] \notin S
    BY <1>4, <1>8, ToldFacts
  <1>10. /\ queue' \in [Kinds -> [CarrierRoutes -> Seq(Legs)]] /\ queue'[k][r] = n
         /\ \A j \in Kinds, s \in CarrierRoutes : j # k \/ s # r => queue'[j][s] = queue[j][s]
    BY <1>1, <1>4, <1>6, RequeuedFacts DEF CarrierInv
  <1>11. /\ phase' \in [Handlers -> LegPhases \cup ClientPhases]
         /\ \A y \in Handlers : y # c => phase'[y] = phase[y]
         /\ phase'[c] = "exchange" \/ phase'[c] = "taken"
    <2>1. {"exchange", "taken"} \subseteq LegPhases \cup ClientPhases
      BY DEF ClientPhases
    <2> QED BY <1>1, <1>4, <2>1 DEF CarrierInv, CarrierTypes, Goto
  <1>12. /\ taken' \in [Clients -> Legs \cup {NoLeg}]
         /\ \A d \in Clients : taken'[d] = IF d = c THEN l ELSE taken[d]
    BY <1>4, <1>7 DEF CarrierInv, CarrierTypes
  <1>13. ASSUME NEW j \in Kinds, NEW s \in CarrierRoutes
         PROVE  /\ IsInjective(queue'[j][s]) /\ ToSet(queue'[j][s]) \subseteq ToSet(queue[j][s])
                /\ l \notin ToSet(queue'[j][s]) /\ ToSet(queue'[j][s]) \cap S = {}
    <2>1. CASE j = k /\ s = r
      BY <1>6, <1>10, <2>1
    <2>2. CASE j # k \/ s # r
      <3>1. \A x \in ToSet(queue[j][s]) : x \notin ToSet(q)
        <4> SUFFICES ASSUME NEW x \in ToSet(queue[j][s]), x \in ToSet(q) PROVE FALSE
          OBVIOUS
        <4>1. KindOf[x] = j /\ RouteOf[x] = s
          BY QueuedFacts
        <4>2. KindOf[x] = k /\ RouteOf[x] = r
          BY <1>1, QueuedFacts
        <4> QED BY <2>2, <4>1, <4>2
      <3> QED BY <1>6, <1>10, <2>2, <3>1 DEF CarrierInv, QueueHolds, Proper
    <2> QED BY <2>1, <2>2
  <1>14. QueueHolds'
    <2>1. \A j \in Kinds, s \in CarrierRoutes : \A x \in ToSet(queue'[j][s]) :
             phase'[x] = phase[x] /\ ~done'[x] /\ x \notin claimed'
      <3> TAKE j \in Kinds, s \in CarrierRoutes
      <3> TAKE x \in ToSet(queue'[j][s])
      <3>1. x \in ToSet(queue[j][s]) /\ x # l /\ x \notin S
        BY <1>13
      <3>2. x \in Legs /\ ~done[x] /\ x \notin claimed
        BY <3>1, QueuedFacts
      <3> QED BY <1>1, <1>4, <1>9, <1>11, <3>1, <3>2
    <2> QED BY <1>4, <1>10, <1>13, <2>1, QueueShrinks
  <1>15. QueueCounts' /\ pending' \in [Kinds -> Int] /\ perRoute' \in [Kinds -> [CarrierRoutes -> Int]]
    <2> DEFINE d == 0 - m - 1
    <2>1. pending[k] \in Int /\ perRoute[k][r] \in Int
      BY <1>1 DEF CarrierInv, CarrierTypes
    <2>2. /\ pending[k] - m - 1 = pending[k] + d /\ perRoute[k][r] - m - 1 = perRoute[k][r] + d
          /\ d = Len(n) - Len(queue[k][r]) /\ d \in Int /\ d <= 0
      <3>1. m \in Int /\ 0 <= m /\ Len(queue[k][r]) \in Int /\ Len(n) = Len(queue[k][r]) - m - 1
        BY <1>2, <1>6
      <3> HIDE DEF k, r, q
      <3>2. d \in Int /\ d <= 0 /\ d = Len(n) - Len(queue[k][r])
        <4> DEFINE L == Len(queue[k][r])
                   N == Len(n)
        <4>1. m \in Int /\ 0 <= m /\ L \in Int /\ N = L - m - 1
          BY <3>1
        <4> HIDE DEF L, N
        <4>2. d \in Int
          BY <4>1
        <4>3. d <= 0
          BY <4>1
        <4>4. d = N - L
          BY <4>1
        <4> QED BY <4>2, <4>3, <4>4 DEF L, N
      <3>3. pending[k] - m - 1 = pending[k] + d
        BY <2>1, <3>1
      <3>4. perRoute[k][r] - m - 1 = perRoute[k][r] + d
        BY <2>1, <3>1
      <3> QED BY <3>2, <3>3, <3>4
    <2> HIDE DEF d
    <2>3. Recounted(k, r, d)
      BY <1>4, <2>2 DEF Recounted
    <2> HIDE DEF k, r, q
    <2> QED BY <1>1, <1>4, <1>6, <1>14, <2>2, <2>3, QueueChange DEF CarrierInv
  <1>16. CarrierTypes'
    <2>1. claimed' \subseteq Legs
      BY <1>4, <1>7 DEF CarrierInv, CarrierTypes
    <2> QED BY <1>4, <1>9, <1>10, <1>11, <1>12, <1>15, <2>1 DEF CarrierInv, CarrierTypes
  <1>17. TakenHolds'
    <2>1. \A d \in Clients : taken'[d] # NoLeg <=> phase'[d] \in Holding
      BY <1>1, <1>7, <1>11, <1>12 DEF CarrierInv, TakenHolds, Holding
    <2>2. ASSUME NEW d \in Clients, taken'[d] # NoLeg
          PROVE  /\ taken'[d] \in claimed' /\ ~done'[taken'[d]]
                 /\ phase'[taken'[d]] \in {"waiting", "owned"} \/ cancelled'
      <3>1. CASE d = c
        <4>1. taken'[d] = l
          BY <1>12, <3>1
        <4>2. l \in claimed' /\ ~done'[l] /\ phase'[l] = "waiting"
          BY <1>1, <1>4, <1>6, <1>7, <1>9, <1>11
        <4> QED BY <4>1, <4>2
      <3>2. CASE d # c
        <4>1. taken'[d] = taken[d] /\ taken[d] \notin S
          BY <1>9, <1>12, <3>2
        <4>2. /\ taken[d] \in Legs /\ taken[d] \in claimed /\ ~done[taken[d]]
              /\ phase[taken[d]] \in {"waiting", "owned"} \/ cancelled
          BY <2>2, <4>1 DEF CarrierInv, TakenHolds, CarrierTypes
        <4> QED BY <1>1, <1>4, <1>9, <1>11, <4>1, <4>2
      <3> QED BY <3>1, <3>2
    <2>3. \A d, e \in Clients : d # e /\ taken'[d] # NoLeg => taken'[d] # taken'[e]
      BY <1>7, <1>12 DEF CarrierInv, TakenHolds
    <2>4. NoOrphan'
      <3> SUFFICES ASSUME NEW x \in claimed' PROVE done'[x] \/ \E d \in Clients : taken'[d] = x
        BY DEF NoOrphan
      <3>1. CASE x = l
        BY <1>12, <3>1
      <3>2. CASE x # l
        <4>1. x \in claimed /\ x \in Legs
          BY <1>4, <3>2 DEF CarrierInv, CarrierTypes
        <4>2. CASE done[x]
          BY <1>9, <4>1, <4>2
        <4>3. ASSUME NEW d \in Clients, taken[d] = x PROVE taken'[d] = x
          <5>1. taken[c] = NoLeg
            BY <1>4 DEF CarrierInv, TakenHolds, Holding
          <5> QED BY <1>1, <1>12, <4>1, <4>3, <5>1
        <4> QED BY <4>1, <4>2, <4>3 DEF CarrierInv, TakenHolds, NoOrphan
      <3> QED BY <3>1, <3>2
    <2> QED BY <2>1, <2>2, <2>3, <2>4 DEF TakenHolds
  <1>18. FreshHolds'
    <2> SUFFICES ASSUME NEW x \in Legs, done'[x] \/ x \in claimed' PROVE phase'[x] \notin {"new", "tracked"}
      BY DEF FreshHolds
    <2>1. phase'[x] = phase[x]
      BY <1>1, <1>11
    <2>2. CASE x \in S \/ x = l
      BY <1>7, <1>9, <2>1, <2>2
    <2>3. CASE x \notin S /\ x # l
      BY <1>4, <1>9, <2>1, <2>3 DEF CarrierInv, FreshHolds
    <2> QED BY <2>2, <2>3
  <1>19. Active' = Active
    BY <1>1, <1>4, <1>11 DEF Active, Counted
  <1>20. ActiveCounts'
    BY <1>4, <1>19, ActiveSame DEF CarrierInv, activeVars
  <1> QED BY <1>14, <1>15, <1>16, <1>17, <1>18, <1>20 DEF CarrierInv
\* takeLeg finds no suitable leg: the whole queue was passed over.
LEMMA TakeNothingKeeps == ASSUME CarrierInv, NEW c \in Clients, TakeNothing(c) PROVE CarrierInv'
  <1> DEFINE k == KindOf[c]
             r == RouteOf[c]
             q == queue[k][r]
  <1>1. /\ c \in Handlers /\ c \notin Legs /\ k \in Kinds /\ r \in CarrierRoutes
        /\ Legs \subseteq Handlers /\ Clients \subseteq Handlers /\ Legs \cap Clients = {}
        /\ "gone" \in LegPhases \cup ClientPhases /\ "gone" \notin Holding \cup Counted
        /\ "tracked" \notin Holding \cup Counted
    BY CarrierBounds DEF Handlers, LegPhases, Holding, Counted
  <1>2. /\ q \in Seq(Legs) /\ IsInjective(q) /\ Len(q) \in Nat /\ q = In(k, r)
        /\ pending[k] \in Int /\ perRoute[k][r] \in Int /\ done \in [Legs -> BOOLEAN]
    BY <1>1, InjectiveLen DEF CarrierInv, CarrierTypes, QueueHolds, Proper, In
  <1>3. /\ phase[c] = "tracked" /\ Goto(c, "gone")
        /\ UNCHANGED << claimed, active, activePerRoute, taken, closed, cancelled >>
    BY DEF TakeNothing, activeVars, relayVars
  <1>4. CASE ~StillAdmitted(c)
    <2>1. queue' = queue
      <3>1. queue' = [queue EXCEPT ![k][r] = queue[k][r]]
        BY <1>1, <1>4 DEF TakeNothing
      <3> HIDE DEF k, r
      <3> QED BY <1>1, <3>1 DEF CarrierInv, CarrierTypes
    <2>2. pending' = pending /\ perRoute' = perRoute
      <3>1. pending' = [pending EXCEPT ![k] = pending[k] - Len(<<>>)]
        BY <1>4 DEF TakeNothing
      <3>2. pending[k] - Len(<<>>) = pending[k]
        BY <1>2
      <3>3. perRoute' = [perRoute EXCEPT ![k][r] = perRoute[k][r]]
        BY <1>1, <1>4 DEF TakeNothing
      <3> HIDE DEF k, r
      <3> QED BY <1>1, <3>1, <3>2, <3>3 DEF CarrierInv, CarrierTypes
    <2>3. done' = done
      <3>1. done' = [l \in Legs |-> done[l] \/ l \in ToSet(<<>>)]
        BY <1>4 DEF TakeNothing
      <3> QED BY <1>2, <3>1, EmptyQueue
    <2>4. UNCHANGED << legVars, queueVars, activeVars, taken, closed, cancelled >>
      BY <1>3, <2>1, <2>2, <2>3 DEF legVars, queueVars, activeVars
    <2> QED BY <1>1, <1>3, <2>4, HandlerMoves
  <1>5. CASE StillAdmitted(c)
    <2> DEFINE S == ToSet(q)
    <2>1. /\ Requeued(k, r, <<>>) /\ Tells(S) /\ ~closed /\ ~closed'
          /\ pending' = [pending EXCEPT ![k] = pending[k] - Len(q)]
          /\ perRoute' = [perRoute EXCEPT ![k][r] = 0]
      BY <1>1, <1>2, <1>3, <1>5 DEF TakeNothing, Requeued, Tells, StillAdmitted
    <2>2. \A x \in S : IsQueued(x)
      <3> HIDE DEF k, r
      <3> QED BY <1>1 DEF IsQueued
    <2> HIDE DEF S
    <2>3. /\ done' \in [Legs -> BOOLEAN]
          /\ \A x \in Legs : x \notin S => done'[x] = done[x]
      BY <2>1, <2>2, ToldFacts
    <2>4. /\ queue' \in [Kinds -> [CarrierRoutes -> Seq(Legs)]] /\ queue'[k][r] = <<>>
          /\ \A j \in Kinds, s \in CarrierRoutes : j # k \/ s # r => queue'[j][s] = queue[j][s]
      <3> DEFINE e == <<>>
      <3>1. e \in Seq(Legs) /\ Requeued(k, r, e)
        BY <2>1, EmptyQueue
      <3> HIDE DEF e, k, r, q
      <3>2. /\ queue' \in [Kinds -> [CarrierRoutes -> Seq(Legs)]] /\ queue'[k][r] = e
            /\ \A j \in Kinds, s \in CarrierRoutes : j # k \/ s # r => queue'[j][s] = queue[j][s]
        BY <1>1, <3>1, RequeuedFacts DEF CarrierInv
      <3> QED BY <3>2 DEF e
    <2>5. /\ phase' \in [Handlers -> LegPhases \cup ClientPhases]
          /\ \A y \in Handlers : phase'[y] = IF y = c THEN "gone" ELSE phase[y]
      BY <1>1, <1>3 DEF CarrierInv, CarrierTypes, Goto
    <2>6. ASSUME NEW j \in Kinds, NEW s \in CarrierRoutes
          PROVE  /\ IsInjective(queue'[j][s]) /\ ToSet(queue'[j][s]) \subseteq ToSet(queue[j][s])
                 /\ ToSet(queue'[j][s]) \cap S = {}
      <3>1. CASE j = k /\ s = r
        BY <2>4, <3>1, EmptyQueue
      <3>2. CASE j # k \/ s # r
        <4>1. \A x \in ToSet(queue[j][s]) : x \notin S
          <5> SUFFICES ASSUME NEW x \in ToSet(queue[j][s]), x \in S PROVE FALSE
            OBVIOUS
          <5>1. KindOf[x] = j /\ RouteOf[x] = s
            BY QueuedFacts
          <5>2. KindOf[x] = k /\ RouteOf[x] = r
            BY <1>1, QueuedFacts DEF S
          <5> QED BY <3>2, <5>1, <5>2
        <4> QED BY <2>4, <3>2, <4>1 DEF CarrierInv, QueueHolds, Proper
      <3> QED BY <3>1, <3>2
    <2>7. QueueHolds'
      <3>1. \A j \in Kinds, s \in CarrierRoutes : \A x \in ToSet(queue'[j][s]) :
               phase'[x] = phase[x] /\ ~done'[x] /\ x \notin claimed'
        <4> TAKE j \in Kinds, s \in CarrierRoutes
        <4> TAKE x \in ToSet(queue'[j][s])
        <4>1. x \in ToSet(queue[j][s]) /\ x \notin S
          BY <2>6
        <4>2. x \in Legs /\ ~done[x] /\ x \notin claimed
          BY <4>1, QueuedFacts
        <4> QED BY <1>1, <1>3, <2>3, <2>5, <4>1, <4>2
      <3> QED BY <2>1, <2>4, <2>6, <3>1, QueueShrinks
    <2>8. QueueCounts' /\ pending' \in [Kinds -> Int] /\ perRoute' \in [Kinds -> [CarrierRoutes -> Int]]
      <3> DEFINE L == Len(queue[k][r])
                 d == 0 - L
      <3>1. perRoute[k][r] = L /\ L \in Nat /\ Len(<<>>) = 0
        BY <1>1, <1>2, <2>1, EmptyQueue DEF CarrierInv, QueueCounts
      <3>2. pending' = [pending EXCEPT ![k] = pending[k] - L]
        BY <2>1
      <3> HIDE DEF L, k, r, q
      <3>3. /\ d \in Int /\ d <= 0 /\ pending[k] - L = pending[k] + d /\ perRoute[k][r] + d = 0
            /\ d = 0 - L
        BY <1>2, <3>1
      <3> HIDE DEF d
      <3>4. Recounted(k, r, d)
        BY <2>1, <3>2, <3>3 DEF Recounted
      <3>5. d = Len(<<>>) - Len(queue[k][r])
        BY <3>1, <3>3 DEF L
      <3> QED BY <1>1, <2>1, <2>7, <3>3, <3>4, <3>5, EmptyQueue, QueueChange DEF CarrierInv
    <2>9. CarrierTypes'
      BY <1>3, <2>3, <2>4, <2>5, <2>8 DEF CarrierInv, CarrierTypes
    <2>10. TakenHolds' /\ FreshHolds'
      <3>1. \A x \in Legs : phase'[x] = phase[x]
        BY <1>1, <2>5
      <3>2. \A d \in Clients : phase'[d] \in Holding <=> phase[d] \in Holding
        BY <1>1, <1>3, <2>5
      <3> QED BY <1>3, <2>1, <2>2, <3>1, <3>2, OwnersKeep
    <2>11. Active' = Active
      BY <1>1, <1>3, <2>5 DEF Active
    <2>12. ActiveCounts'
      BY <1>3, <2>11, ActiveSame DEF CarrierInv, activeVars
    <2> QED BY <2>7, <2>8, <2>9, <2>10, <2>12 DEF CarrierInv
  <1> QED BY <1>4, <1>5

\* The active carriers are finitely many.
LEMMA ActiveFinite ==
    /\ IsFiniteSet(Active) /\ \A r : IsFiniteSet(Of(Active, r))
    /\ Cardinality(Active) \in Nat /\ \A r : Cardinality(Of(Active, r)) \in Nat
  <1>1. IsFiniteSet(Active)
    <2>1. Active \in SUBSET Clients /\ IsFiniteSet(Clients)
      BY CarrierBounds DEF Active
    <2> QED BY <2>1, FS_Subset
  <1>2. \A r : IsFiniteSet(Of(Active, r))
    <2> TAKE r
    <2>1. Of(Active, r) \in SUBSET Active
      BY DEF Of
    <2> QED BY <1>1, <2>1, FS_Subset
  <1> QED BY <1>1, <1>2, FS_CardinalityType

\* acquireActive counts one more carrier, in all and on its route.
LEMMA Acquires ==
    ASSUME CarrierInv, NEW c \in Clients, c \notin Active, Active' = Active \cup {c},
           active' = active + 1, ActiveRoom(c),
           activePerRoute' = [activePerRoute EXCEPT ![RouteOf[c]] = activePerRoute[RouteOf[c]] + 1]
    PROVE  ActiveCounts' /\ active' \in Nat /\ activePerRoute' \in [CarrierRoutes -> Nat]
  <1> DEFINE r == RouteOf[c]
  <1>1. r \in CarrierRoutes /\ activePerRoute \in [CarrierRoutes -> Nat] /\ active \in Nat
        /\ activePerRoute[r] + 1 \in Nat /\ active + 1 \in Nat /\ ActiveMax \in Nat /\ RouteActiveMax \in Nat
    BY CarrierBounds DEF CarrierInv, CarrierTypes, Handlers
  <1>2. /\ activePerRoute' \in [CarrierRoutes -> Nat] /\ active' \in Nat
        /\ \A s \in CarrierRoutes : activePerRoute'[s] = IF s = r THEN activePerRoute[r] + 1 ELSE activePerRoute[s]
    BY <1>1
  <1>3. Cardinality(Active') = active + 1
    BY ActiveFinite, FS_AddElement DEF CarrierInv, ActiveCounts
  <1>4. ASSUME NEW s \in CarrierRoutes
        PROVE  activePerRoute'[s] = Cardinality(Of(Active', s)) /\ activePerRoute'[s] <= RouteActiveMax
    <2>1. activePerRoute[s] = Cardinality(Of(Active, s)) /\ activePerRoute[s] <= RouteActiveMax
      BY DEF CarrierInv, ActiveCounts
    <2>2. CASE s = r
      <3>1. Of(Active', s) = Of(Active, s) \cup {c} /\ c \notin Of(Active, s)
        BY <2>2 DEF Of
      <3>2. Cardinality(Of(Active, s) \cup {c}) = Cardinality(Of(Active, s)) + 1
        BY <3>1, ActiveFinite, FS_AddElement
      <3>3. activePerRoute[s] < RouteActiveMax /\ activePerRoute'[s] = activePerRoute[s] + 1
        BY <1>2, <2>2 DEF ActiveRoom
      <3>4. activePerRoute[s] \in Nat
        BY <1>1
      <3>5. Cardinality(Of(Active', s)) = Cardinality(Of(Active, s)) + 1
        BY <3>1, <3>2, Zenon
      <3> QED BY <1>1, <2>1, <3>3, <3>4, <3>5
    <2>3. CASE s # r
      <3>1. Of(Active', s) = Of(Active, s)
        BY <2>3 DEF Of
      <3> QED BY <1>2, <2>1, <2>3, <3>1
    <2> QED BY <2>2, <2>3
  <1>5. active' <= ActiveMax
    BY <1>1 DEF ActiveRoom
  <1>6. \A s : Of(Active, s)' = Of(Active', s)
    BY DEF Of
  <1> QED BY <1>2, <1>3, <1>4, <1>5, <1>6 DEF ActiveCounts

\* releaseActive counts one less.
LEMMA Releases ==
    ASSUME CarrierInv, NEW c \in Clients, c \in Active, Active' = Active \ {c},
           active' = IF active > 0 THEN active - 1 ELSE active,
           activePerRoute' = [activePerRoute EXCEPT ![RouteOf[c]] =
                                IF activePerRoute[RouteOf[c]] > 1 THEN activePerRoute[RouteOf[c]] - 1 ELSE 0]
    PROVE  ActiveCounts' /\ active' \in Nat /\ activePerRoute' \in [CarrierRoutes -> Nat]
  <1> DEFINE r == RouteOf[c]
             less == IF activePerRoute[r] > 1 THEN activePerRoute[r] - 1 ELSE 0
  <1>1. r \in CarrierRoutes /\ activePerRoute \in [CarrierRoutes -> Nat] /\ active \in Nat
        /\ less \in Nat /\ ActiveMax \in Nat /\ RouteActiveMax \in Nat
    <2>1. r \in CarrierRoutes /\ activePerRoute \in [CarrierRoutes -> Nat] /\ active \in Nat
          /\ ActiveMax \in Nat /\ RouteActiveMax \in Nat
      BY CarrierBounds DEF CarrierInv, CarrierTypes, Handlers
    <2>2. activePerRoute[r] \in Nat
      BY <2>1
    <2> HIDE DEF r
    <2> QED BY <2>1, <2>2
  <1>2. /\ activePerRoute' \in [CarrierRoutes -> Nat]
        /\ \A s \in CarrierRoutes : activePerRoute'[s] = IF s = r THEN less ELSE activePerRoute[s]
    <2> HIDE DEF less
    <2>1. activePerRoute' = [activePerRoute EXCEPT ![r] = less]
      BY DEF less
    <2> QED BY <1>1, <2>1
  <1>3. /\ Cardinality(Active') = Cardinality(Active) - 1
        /\ active = Cardinality(Active) /\ active <= ActiveMax /\ Cardinality(Active) # 0
    BY ActiveFinite, FS_RemoveElement, FS_EmptySet DEF CarrierInv, ActiveCounts
  <1>4. active' = Cardinality(Active') /\ active' <= ActiveMax /\ active' \in Nat
    <2>1. active > 0
      BY <1>1, <1>3
    <2> QED BY <1>1, <1>3, <2>1
  <1>5. ASSUME NEW s \in CarrierRoutes
        PROVE  activePerRoute'[s] = Cardinality(Of(Active', s)) /\ activePerRoute'[s] <= RouteActiveMax
    <2>1. /\ activePerRoute[s] = Cardinality(Of(Active, s)) /\ activePerRoute[s] <= RouteActiveMax
          /\ activePerRoute[s] \in Nat
      BY <1>1 DEF CarrierInv, ActiveCounts
    <2>2. CASE s = r
      <3>1. Of(Active', s) = Of(Active, s) \ {c} /\ c \in Of(Active, s)
        BY <2>2 DEF Of
      <3>2. /\ Cardinality(Of(Active, s) \ {c}) = Cardinality(Of(Active, s)) - 1
            /\ Cardinality(Of(Active, s)) # 0
        BY <3>1, ActiveFinite, FS_RemoveElement, FS_EmptySet
      <3>3. Cardinality(Of(Active', s)) = Cardinality(Of(Active, s)) - 1
        BY <3>1, <3>2, Zenon
      <3>4. activePerRoute'[s] = IF activePerRoute[s] > 1 THEN activePerRoute[s] - 1 ELSE 0
        BY <1>2, <2>2
      <3> QED BY <1>1, <2>1, <3>2, <3>3, <3>4
    <2>3. CASE s # r
      <3>1. Of(Active', s) = Of(Active, s)
        BY <2>3 DEF Of
      <3> QED BY <1>2, <2>1, <2>3, <3>1
    <2> QED BY <2>2, <2>3
  <1>6. \A s : Of(Active, s)' = Of(Active', s)
    BY DEF Of
  <1> QED BY <1>2, <1>4, <1>5, <1>6 DEF ActiveCounts

\* A client is counted or released; its leg stays as it was.
LEMMA CountMoves ==
    ASSUME CarrierInv, NEW c \in Clients, NEW p \in ClientPhases, Goto(c, p),
           p \in Holding <=> phase[c] \in Holding,
           ActiveCounts', active' \in Nat, activePerRoute' \in [CarrierRoutes -> Nat],
           UNCHANGED << legVars, queueVars, taken, closed, cancelled >>
    PROVE  CarrierInv'
  <1>1. /\ UNCHANGED << done, claimed, queue, pending, perRoute, taken, closed, cancelled >>
        /\ c \in Handlers /\ c \notin Legs
        /\ Legs \subseteq Handlers /\ Clients \subseteq Handlers /\ Legs \cap Clients = {}
    BY CarrierBounds DEF legVars, queueVars, Handlers
  <1>2. /\ phase' \in [Handlers -> LegPhases \cup ClientPhases]
        /\ \A y \in Handlers : phase'[y] = IF y = c THEN p ELSE phase[y]
    BY <1>1 DEF CarrierInv, CarrierTypes, Goto
  <1>3. \A x \in Legs : phase'[x] = phase[x]
    BY <1>1, <1>2
  <1>4. CarrierTypes'
    BY <1>1, <1>2 DEF CarrierInv, CarrierTypes
  <1>5. QueueHolds'
    <2>1. \A k \in Kinds, r \in CarrierRoutes : \A l \in ToSet(queue[k][r]) : phase'[l] = phase[l]
      BY <1>3, QueuedFacts
    <2> QED BY <1>1, <2>1 DEF CarrierInv, QueueHolds
  <1>6. TakenHolds'
    <2>1. \A d \in Clients : taken[d] # NoLeg <=> phase'[d] \in Holding
      BY <1>1, <1>2 DEF CarrierInv, TakenHolds
    <2>2. \A d \in Clients : taken[d] # NoLeg => phase'[taken[d]] = phase[taken[d]]
      BY <1>3 DEF CarrierInv, CarrierTypes
    <2> QED BY <1>1, <2>1, <2>2 DEF CarrierInv, TakenHolds, NoOrphan
  <1>7. FreshHolds' /\ QueueCounts'
    BY <1>1, <1>3, QueueSame DEF CarrierInv, FreshHolds, queueVars
  <1> QED BY <1>4, <1>5, <1>6, <1>7 DEF CarrierInv

\* The steps of a client's handler.
LEMMA ClientKeeps == ASSUME CarrierInv, NEW c \in Clients, ClientStep(c) PROVE CarrierInv'
  <1>1. /\ c \in Handlers /\ c \notin Legs /\ phase \in [Handlers -> LegPhases \cup ClientPhases]
        /\ "gone" \in ClientPhases /\ "release" \in ClientPhases /\ "ready" \in ClientPhases
        /\ "copying" \in ClientPhases
        /\ "gone" \notin Holding /\ "release" \notin Holding /\ "gone" \notin Counted /\ "release" \in Counted
        /\ "taken" \in Holding /\ "taken" \notin Counted /\ "ready" \in Holding /\ "ready" \in Counted
        /\ "exchange" \in Holding /\ "exchange" \notin Counted
        /\ "copying" \in Holding /\ "copying" \in Counted
    BY CarrierBounds DEF Handlers, ClientPhases, Holding, Counted, CarrierInv, CarrierTypes
  <1>2. CASE TakeLeg(c)
    BY <1>2, TakeKeeps
  <1>3. CASE TakeNothing(c)
    BY <1>3, TakeNothingKeeps
  <1>4. CASE ExchangePairing(c)
    <2>1. /\ phase[c] = "exchange" /\ Goto(c, "gone") /\ Finish(taken[c])
          /\ taken' = [taken EXCEPT ![c] = NoLeg]
          /\ UNCHANGED << claimed, queueVars, activeVars, closed, cancelled >>
      BY <1>4 DEF ExchangePairing, Leave, relayVars
    <2> QED BY <1>1, <2>1, Finishes
  <1>5. CASE AcquireActive(c) /\ ~ActiveRoom(c)
    <2>1. /\ phase[c] = "taken" /\ Goto(c, "gone") /\ Finish(taken[c])
          /\ taken' = [taken EXCEPT ![c] = NoLeg]
          /\ UNCHANGED << claimed, queueVars, activeVars, closed, cancelled >>
      BY <1>5 DEF AcquireActive, Leave, relayVars
    <2> QED BY <1>1, <2>1, Finishes
  <1>6. CASE AcquireActive(c) /\ ActiveRoom(c)
    <2>1. /\ phase[c] = "taken" /\ Goto(c, "ready") /\ active' = active + 1
          /\ activePerRoute' = [activePerRoute EXCEPT ![RouteOf[c]] = activePerRoute[RouteOf[c]] + 1]
          /\ UNCHANGED << legVars, queueVars, taken, closed, cancelled >>
      BY <1>6 DEF AcquireActive, legVars, relayVars
    <2>2. phase' = [phase EXCEPT ![c] = "ready"]
      BY <2>1 DEF Goto
    <2>3. c \notin Active /\ Active' = Active \cup {c}
      BY <1>1, <2>1, <2>2 DEF Active, Handlers
    <2>4. ActiveCounts' /\ active' \in Nat /\ activePerRoute' \in [CarrierRoutes -> Nat]
      BY <1>6, <2>1, <2>3, Acquires
    <2> QED BY <1>1, <2>1, <2>4, CountMoves
  <1>7. CASE WriteReady(c)
    <2>1. /\ phase[c] = "ready" /\ Goto(c, "copying")
          /\ UNCHANGED << legVars, queueVars, activeVars, taken, closed, cancelled >>
      BY <1>7 DEF WriteReady, relayVars
    <2> QED BY <1>1, <2>1, HandlerMoves
  <1>8. CASE ReadyFails(c)
    <2>1. /\ phase[c] = "ready" /\ Goto(c, "release") /\ Finish(taken[c])
          /\ taken' = [taken EXCEPT ![c] = NoLeg]
          /\ UNCHANGED << claimed, queueVars, activeVars, closed, cancelled >>
      BY <1>8 DEF ReadyFails, relayVars
    <2> QED BY <1>1, <2>1, Finishes
  <1>9. CASE CopyEnds(c)
    <2>1. /\ phase[c] = "copying" /\ Goto(c, "release") /\ Finish(taken[c])
          /\ taken' = [taken EXCEPT ![c] = NoLeg]
          /\ UNCHANGED << claimed, queueVars, activeVars, closed, cancelled >>
      BY <1>9 DEF CopyEnds, relayVars
    <2> QED BY <1>1, <2>1, Finishes
  <1>10. CASE ReleaseActive(c)
    <2>1. /\ phase[c] = "release" /\ Goto(c, "gone")
          /\ active' = IF active > 0 THEN active - 1 ELSE active
          /\ activePerRoute' = [activePerRoute EXCEPT ![RouteOf[c]] =
                                  IF activePerRoute[RouteOf[c]] > 1 THEN activePerRoute[RouteOf[c]] - 1 ELSE 0]
          /\ UNCHANGED << legVars, queueVars, taken, closed, cancelled >>
      BY <1>10 DEF ReleaseActive, Leave, relayVars
    <2>2. phase' = [phase EXCEPT ![c] = "gone"]
      BY <2>1 DEF Goto
    <2>3. c \in Active /\ Active' = Active \ {c}
      BY <1>1, <2>1, <2>2 DEF Active, Handlers
    <2>4. ActiveCounts' /\ active' \in Nat /\ activePerRoute' \in [CarrierRoutes -> Nat]
      BY <2>1, <2>3, Releases
    <2> QED BY <1>1, <2>1, <2>4, CountMoves
  <1> QED BY <1>2, <1>3, <1>4, <1>5, <1>6, <1>7, <1>8, <1>9, <1>10 DEF ClientStep
-----------------------------------------------------------------------------
(* The relay. *)

\* Removal of a route, or shutdown: whole queues are emptied and their legs told.
LEMMA EmptiedKeeps ==
    ASSUME CarrierInv, NEW S, Tells(S), \A l \in S : IsQueued(l),
           queue' \in [Kinds -> [CarrierRoutes -> Seq(Legs)]],
           \A k \in Kinds, r \in CarrierRoutes :
              queue'[k][r] = <<>> \/ (queue'[k][r] = queue[k][r] /\ ToSet(queue[k][r]) \cap S = {}),
           closed' => \A k \in Kinds, r \in CarrierRoutes : queue'[k][r] = <<>>,
           QueueHolds' => /\ QueueCounts' /\ pending' \in [Kinds -> Int]
                          /\ perRoute' \in [Kinds -> [CarrierRoutes -> Int]],
           UNCHANGED << phase, claimed, activeVars, taken, cancelled >>
    PROVE  CarrierInv'
  <1>1. done' \in [Legs -> BOOLEAN] /\ \A l \in Legs : l \notin S => done'[l] = done[l]
    BY ToldFacts
  <1>2. QueueHolds'
    <2>1. ASSUME NEW k \in Kinds, NEW r \in CarrierRoutes
          PROVE  /\ IsInjective(queue'[k][r]) /\ ToSet(queue'[k][r]) \subseteq ToSet(queue[k][r])
                 /\ \A l \in ToSet(queue'[k][r]) : ~done'[l] /\ l \notin claimed
      <3>1. CASE queue'[k][r] = <<>>
        BY <3>1, EmptyQueue
      <3>2. CASE queue'[k][r] = queue[k][r] /\ ToSet(queue[k][r]) \cap S = {}
        <4>1. \A l \in ToSet(queue[k][r]) : l \in Legs /\ ~done[l] /\ l \notin claimed
          BY QueuedFacts
        <4>2. IsInjective(queue[k][r])
          BY DEF CarrierInv, QueueHolds, Proper
        <4> QED BY <1>1, <3>2, <4>1, <4>2
      <3> QED BY <3>1, <3>2
    <2> QED BY <2>1, QueueShrinks
  <1>3. TakenHolds' /\ FreshHolds'
    BY OwnersKeep
  <1>4. Active' = Active
    BY DEF Active
  <1>5. ActiveCounts'
    BY <1>4, ActiveSame DEF CarrierInv
  <1>6. CarrierTypes'
    BY <1>1, <1>2 DEF CarrierInv, CarrierTypes, activeVars
  <1> QED BY <1>2, <1>3, <1>5, <1>6 DEF CarrierInv

\* The queues of one route are emptied, and the counters with them.
LEMMA RouteEmptied ==
    ASSUME CarrierInv, NEW r \in CarrierRoutes, ~closed, ~closed', QueueHolds',
           pending' = [k \in Kinds |-> pending[k] - Len(In(k, r))],
           perRoute' = [k \in Kinds |-> [perRoute[k] EXCEPT ![r] = 0]],
           queue' = [k \in Kinds |-> [queue[k] EXCEPT ![r] = <<>>]]
    PROVE  /\ QueueCounts' /\ pending' \in [Kinds -> Int]
           /\ perRoute' \in [Kinds -> [CarrierRoutes -> Int]]
  <1>1. /\ \A k \in Kinds : queue[k] \in [CarrierRoutes -> Seq(Legs)] /\ queue'[k] \in [CarrierRoutes -> Seq(Legs)]
        /\ \A k \in Kinds, s \in CarrierRoutes : queue'[k][s] = IF s = r THEN <<>> ELSE queue[k][s]
    BY EmptyQueue DEF CarrierInv, CarrierTypes
  <1>2. /\ perRoute' \in [Kinds -> [CarrierRoutes -> Int]]
        /\ \A k \in Kinds, s \in CarrierRoutes : perRoute'[k][s] = IF s = r THEN 0 ELSE perRoute[k][s]
    BY DEF CarrierInv, CarrierTypes
  <1>3. /\ \A k, s : In(k, s) = queue[k][s] /\ In(k, s)' = queue'[k][s]
        /\ \A k : Waiting(k) = Members(queue[k]) /\ Waiting(k)' = Members(queue'[k])
        /\ \A k \in Kinds : Proper(queue[k]) /\ Proper(queue'[k])
    BY DEF CarrierInv, QueueHolds, Proper, In, Waiting, Members
  <1>4. ASSUME NEW k \in Kinds
        PROVE  /\ pending'[k] = Cardinality(Members(queue'[k])) /\ pending'[k] \in Int
               /\ pending'[k] <= PendingMax[k]
    <2> DEFINE m == Cardinality(Members(queue[k]))
               n == Len(queue[k][r])
    <2>1. queue'[k][r] = <<>> /\ \A s \in CarrierRoutes : s # r => queue'[k][s] = queue[k][s]
      BY <1>1
    <2>2. /\ m \in Nat /\ n \in Nat
          /\ Cardinality(Members(queue'[k])) = m - n + Len(queue'[k][r])
      <3> DEFINE f == queue[k]
                 g == queue'[k]
      <3>1. /\ f \in [CarrierRoutes -> Seq(Legs)] /\ g \in [CarrierRoutes -> Seq(Legs)]
            /\ Proper(f) /\ Proper(g) /\ \A s \in CarrierRoutes : s # r => g[s] = f[s]
        BY <1>1, <1>3, <2>1
      <3> HIDE DEF f, g
      <3>2. /\ Cardinality(Members(f)) \in Nat /\ Len(f[r]) \in Nat
            /\ Cardinality(Members(g)) = Cardinality(Members(f)) - Len(f[r]) + Len(g[r])
        BY <3>1, Requeue
      <3> QED BY <3>2 DEF f, g
    <2>3. /\ pending'[k] = pending[k] - n /\ pending[k] = m /\ m <= PendingMax[k] /\ PendingMax[k] \in Nat
          /\ Len(queue'[k][r]) = 0
      BY <1>3, <2>1, EmptyQueue, CarrierBounds DEF CarrierInv, QueueCounts
    <2> HIDE DEF m, n
    <2> QED BY <2>2, <2>3
  <1>5. \A k \in Kinds, s \in CarrierRoutes :
           perRoute'[k][s] = Len(queue'[k][s]) /\ Len(queue'[k][s]) <= RouteMax
    <2> TAKE k \in Kinds, s \in CarrierRoutes
    <2>1. perRoute[k][s] = Len(queue[k][s]) /\ Len(queue[k][s]) <= RouteMax /\ RouteMax \in Nat
      BY <1>3, CarrierBounds DEF CarrierInv, QueueCounts
    <2> QED BY <1>1, <1>2, <2>1, EmptyQueue
  <1>6. pending' \in [Kinds -> Int]
    BY <1>4
  <1> QED BY <1>2, <1>3, <1>4, <1>5, <1>6 DEF QueueCounts

\* RemoveRoute.
LEMMA RemoveKeeps == ASSUME CarrierInv, NEW r \in CarrierRoutes, RemoveRoute(r) PROVE CarrierInv'
  <1> DEFINE S == UNION {ToSet(In(k, r)) : k \in Kinds}
  <1>1. /\ ~closed /\ ~closed' /\ Tells(S)
        /\ pending' = [k \in Kinds |-> pending[k] - Len(In(k, r))]
        /\ perRoute' = [k \in Kinds |-> [perRoute[k] EXCEPT ![r] = 0]]
        /\ queue' = [k \in Kinds |-> [queue[k] EXCEPT ![r] = <<>>]]
        /\ UNCHANGED << phase, claimed, activeVars, taken, cancelled >>
    BY DEF RemoveRoute, Tells
  <1>2. \A l \in S : IsQueued(l) /\ RouteOf[l] = r
    BY QueuedFacts DEF IsQueued, In
  <1>3. /\ queue' \in [Kinds -> [CarrierRoutes -> Seq(Legs)]]
        /\ \A k \in Kinds, s \in CarrierRoutes : queue'[k][s] = IF s = r THEN <<>> ELSE queue[k][s]
    BY <1>1, EmptyQueue DEF CarrierInv, CarrierTypes
  <1> HIDE DEF S
  <1>4. \A k \in Kinds, s \in CarrierRoutes :
           queue'[k][s] = <<>> \/ (queue'[k][s] = queue[k][s] /\ ToSet(queue[k][s]) \cap S = {})
    <2> TAKE k \in Kinds, s \in CarrierRoutes
    <2>1. \A l \in ToSet(queue[k][s]) : RouteOf[l] = s
      BY QueuedFacts
    <2> QED BY <1>2, <1>3, <2>1
  <1>5. QueueHolds' => /\ QueueCounts' /\ pending' \in [Kinds -> Int]
                       /\ perRoute' \in [Kinds -> [CarrierRoutes -> Int]]
    BY <1>1, RouteEmptied
  <1> QED BY <1>1, <1>2, <1>3, <1>4, <1>5, EmptiedKeeps

\* Close: the counters are left, and nothing is queued for them to bound.
LEMMA CloseKeeps == ASSUME CarrierInv, Close PROVE CarrierInv'
  <1> DEFINE S == UNION {ToSet(In(k, r)) : k \in Kinds, r \in CarrierRoutes}
  <1>1. /\ closed' /\ Tells(S)
        /\ queue' = [k \in Kinds |-> [r \in CarrierRoutes |-> <<>>]]
        /\ UNCHANGED << phase, claimed, pending, perRoute, activeVars, taken, cancelled >>
    BY DEF Close, Tells
  <1>2. \A l \in S : IsQueued(l)
    BY DEF IsQueued, In
  <1>3. /\ queue' \in [Kinds -> [CarrierRoutes -> Seq(Legs)]]
        /\ \A k \in Kinds, s \in CarrierRoutes : queue'[k][s] = <<>>
    BY <1>1, EmptyQueue
  <1> HIDE DEF S
  <1>4. QueueCounts'
    <2>1. \A k \in Kinds, s \in CarrierRoutes : Len(In(k, s)') <= RouteMax
      BY <1>3, EmptyQueue, CarrierBounds DEF In
    <2>2. \A k \in Kinds : Waiting(k)' = {}
      BY <1>3, EmptyQueue DEF Waiting, In
    <2>3. ASSUME NEW k \in Kinds PROVE Cardinality(Waiting(k)') <= PendingMax[k]
      <3>1. Cardinality(Waiting(k)') = 0
        <4>1. Waiting(k)' = {}
          BY <2>2
        <4> QED BY <4>1, FS_EmptySet, Zenon
      <3>2. PendingMax[k] \in Nat
        BY CarrierBounds
      <3> QED BY <3>1, <3>2
    <2> QED BY <1>1, <2>1, <2>3 DEF QueueCounts
  <1>5. pending' \in [Kinds -> Int] /\ perRoute' \in [Kinds -> [CarrierRoutes -> Int]]
    BY <1>1 DEF CarrierInv, CarrierTypes
  <1> QED BY <1>1, <1>2, <1>3, <1>4, <1>5, EmptiedKeeps

\* The initial state.
LEMMA CarriersStart == CarrierInit => CarrierInv
  <1> SUFFICES ASSUME CarrierInit PROVE CarrierInv
    OBVIOUS
  <1>0. Legs \subseteq Handlers /\ Clients \subseteq Handlers /\ "new" \in LegPhases
        /\ "new" \notin Holding /\ "new" \notin Counted
    BY DEF Handlers, LegPhases, Holding, Counted
  <1>1. \A k \in Kinds, r \in CarrierRoutes : queue[k][r] = <<>>
    BY DEF CarrierInit
  <1>2. CarrierTypes
    <2>1. queue \in [Kinds -> [CarrierRoutes -> Seq(Legs)]]
      BY EmptyQueue DEF CarrierInit
    <2>2. pending \in [Kinds -> Int] /\ perRoute \in [Kinds -> [CarrierRoutes -> Int]]
      BY DEF CarrierInit
    <2> QED BY <1>0, <2>1, <2>2 DEF CarrierInit, CarrierTypes
  <1>3. QueueHolds
    BY <1>1, EmptyQueue DEF QueueHolds, Proper
  <1>4. TakenHolds /\ FreshHolds
    BY <1>0 DEF CarrierInit, TakenHolds, FreshHolds, NoOrphan
  <1>5. ActiveCounts
    <2>1. Active = {}
      BY <1>0 DEF CarrierInit, Active
    <2>2. \A r : Of(Active, r) = {}
      BY <2>1 DEF Of
    <2>3. Cardinality(Active) = 0 /\ \A r : Cardinality(Of(Active, r)) = 0
      BY <2>1, <2>2, FS_EmptySet, Zenon
    <2>4. active = 0 /\ \A r \in CarrierRoutes : activePerRoute[r] = 0
      BY DEF CarrierInit
    <2> QED BY <2>3, <2>4, CarrierBounds DEF ActiveCounts
  <1>6. QueueCounts
    <2>1. \A k \in Kinds : /\ pending[k] = 0
                           /\ \A r \in CarrierRoutes : perRoute[k][r] = 0 /\ Len(In(k, r)) = 0
      BY <1>1, EmptyQueue DEF CarrierInit, In
    <2>2. \A k \in Kinds : Waiting(k) = {}
      BY <1>1, EmptyQueue DEF Waiting, In
    <2>3. \A k \in Kinds : Cardinality(Waiting(k)) = 0
      BY <2>2, FS_EmptySet, Zenon
    <2> QED BY <2>1, <2>3, CarrierBounds DEF QueueCounts
  <1> QED BY <1>2, <1>3, <1>4, <1>5, <1>6 DEF CarrierInv

\* A step that touches no handler, queue, counter or leg.
LEMMA Untouched ==
    ASSUME CarrierInv, UNCHANGED << phase, legVars, queueVars, activeVars, taken, closed >>,
           cancelled => cancelled'
    PROVE  CarrierInv'
  <1>1. UNCHANGED << done, claimed, queue, pending, perRoute, active, activePerRoute >>
    BY DEF legVars, queueVars, activeVars
  <1>2. CarrierTypes' /\ QueueHolds' /\ FreshHolds'
    BY <1>1 DEF CarrierInv, CarrierTypes, QueueHolds, FreshHolds
  <1>3. TakenHolds'
    BY <1>1 DEF CarrierInv, TakenHolds, NoOrphan
  <1>4. Active' = Active
    BY DEF Active
  <1>5. ActiveCounts' /\ QueueCounts'
    BY <1>4, ActiveSame, QueueSame DEF CarrierInv
  <1> QED BY <1>2, <1>3, <1>5 DEF CarrierInv

\* Every step of the relay.
LEMMA CarriersKeep == ASSUME CarrierInv, [CarrierNext]_carrierVars PROVE CarrierInv'
  <1>1. /\ "tracked" \in LegPhases \cup ClientPhases /\ "gone" \in LegPhases \cup ClientPhases
        /\ "new" \notin Holding \cup Counted /\ "tracked" \notin Holding \cup Counted
        /\ "gone" \notin Holding \cup Counted
    BY DEF LegPhases, Holding, Counted
  <1>2. ASSUME NEW x \in Handlers, phase[x] = "new" \/ phase[x] = "tracked" PROVE ~IsQueued(x)
    BY <1>2, QueuedFacts DEF IsQueued
  <1>3. ASSUME NEW x \in Handlers, TrackRouteConnection(x) PROVE CarrierInv'
    <2>1. /\ phase[x] = "new" /\ Goto(x, "tracked")
          /\ UNCHANGED << legVars, queueVars, activeVars, taken, closed, cancelled >>
      BY <1>3 DEF TrackRouteConnection, relayVars
    <2> QED BY <1>1, <1>2, <2>1, HandlerMoves
  <1>4. ASSUME NEW x \in Handlers, GiveUp(x) PROVE CarrierInv'
    <2>1. /\ phase[x] = "tracked" /\ Goto(x, "gone")
          /\ UNCHANGED << legVars, queueVars, activeVars, taken, closed, cancelled >>
      BY <1>4 DEF GiveUp, Leave, relayVars
    <2> QED BY <1>1, <1>2, <2>1, HandlerMoves
  <1>5. ASSUME NEW l \in Legs, ExpireLeg(l) PROVE CarrierInv'
    BY <1>5, Untouched DEF ExpireLeg, relayVars
  <1>6. ASSUME NEW r \in CarrierRoutes, Reapprove(r) PROVE CarrierInv'
    BY <1>6, Untouched DEF Reapprove, handlerVars
  <1>7. CASE Cancel
    BY <1>7, Untouched DEF Cancel, handlerVars
  <1>8. CASE UNCHANGED carrierVars
    BY <1>8, Untouched DEF carrierVars, handlerVars, relayVars
  <1> QED BY <1>3, <1>4, <1>5, <1>6, <1>7, <1>8, LegKeeps, ClientKeeps, RemoveKeeps, CloseKeeps
          DEF CarrierNext
-----------------------------------------------------------------------------
(* Removal reaches every connection. *)

\* Connections are only ever closed by a step.
Shuts == open' \in [Handlers -> BOOLEAN] /\ \A x \in Handlers : open'[x] => open[x]

\* A handler that has arrived goes on.
LEMMA StaysReached ==
    ASSUME CarrierTypes, Reach, NEW x \in Handlers, phase[x] # "new", phase[x] # "gone",
           NEW p, p # "new", p # "gone", Goto(x, p), Shuts, UNCHANGED << cut, tracked, closed >>
    PROVE  Reach'
  <1>1. \A y \in Handlers : phase'[y] = IF y = x THEN p ELSE phase[y]
    BY DEF CarrierTypes, Goto
  <1>2. Tracked'
    BY <1>1 DEF Reach, Tracked
  <1>3. RemovalReachesAll'
    BY <1>1 DEF Reach, RemovalReachesAll, Shuts
  <1> QED BY <1>2, <1>3 DEF Reach, ConnectionTypes, Shuts

\* A handler leaves.
LEMMA LeavesReached ==
    ASSUME CarrierTypes, Reach, NEW x \in Handlers, phase[x] # "new", Goto(x, "gone"), Shuts,
           tracked' = tracked \ {x}, UNCHANGED << cut, closed >>
    PROVE  Reach'
  <1>1. \A y \in Handlers : phase'[y] = IF y = x THEN "gone" ELSE phase[y]
    BY DEF CarrierTypes, Goto
  <1>2. Tracked'
    BY <1>1 DEF Reach, Tracked
  <1>3. RemovalReachesAll'
    BY <1>1 DEF Reach, RemovalReachesAll, Shuts
  <1> QED BY <1>2, <1>3 DEF Reach, ConnectionTypes, Shuts

\* No handler moves.
LEMMA SameReached ==
    ASSUME Reach, UNCHANGED << phase, open, cut, tracked, closed >>
    PROVE  Reach'
  BY DEF Reach, ConnectionTypes, Tracked, RemovalReachesAll

\* The steps of a receiver's handler.
LEMMA LegReached == ASSUME CarrierTypes, Reach, NEW l \in Legs, LegStep(l) PROVE Reach'
  <1>1. l \in Handlers /\ open \in [Handlers -> BOOLEAN]
    BY DEF Handlers, Reach, ConnectionTypes
  <1>2. phase[l] # "new" /\ phase[l] # "gone" /\ UNCHANGED << cut, closed >>
    BY DEF LegStep, EnqueueLeg, WaitDone, WaitCancelled, WaitTimer, relayVars
  <1>3. \/ Leave(l)
        \/ Goto(l, "waiting") /\ UNCHANGED << tracked, open >>
        \/ Goto(l, "owned") /\ UNCHANGED << tracked, open >>
    BY DEF LegStep, EnqueueLeg, WaitDone, WaitCancelled, WaitTimer
  <1>4. CASE Leave(l)
    BY <1>1, <1>2, <1>4, LeavesReached DEF Leave, Shuts
  <1>5. CASE Goto(l, "waiting") /\ UNCHANGED << tracked, open >>
    BY <1>1, <1>2, <1>5, StaysReached DEF Shuts
  <1>6. CASE Goto(l, "owned") /\ UNCHANGED << tracked, open >>
    BY <1>1, <1>2, <1>6, StaysReached DEF Shuts
  <1> QED BY <1>3, <1>4, <1>5, <1>6

\* The steps of a client's handler.
LEMMA ClientReached == ASSUME CarrierTypes, Reach, NEW c \in Clients, ClientStep(c) PROVE Reach'
  <1>1. c \in Handlers /\ open \in [Handlers -> BOOLEAN]
    BY DEF Handlers, Reach, ConnectionTypes
  <1>2. CASE TakeLeg(c)
    <2>1. phase[c] = "tracked" /\ Shuts /\ UNCHANGED << cut, tracked, closed >>
      BY <1>1, <1>2 DEF TakeLeg, Shuts, relayVars
    <2>2. Goto(c, "exchange") \/ Goto(c, "taken")
      BY <1>2 DEF TakeLeg
    <2> QED BY <1>1, <2>1, <2>2, StaysReached
  <1>3. CASE TakeNothing(c)
    <2>1. /\ phase[c] = "tracked" /\ Shuts /\ UNCHANGED << cut, closed >> /\ Goto(c, "gone")
          /\ tracked' = tracked \ {c}
      BY <1>1, <1>3 DEF TakeNothing, Shuts, relayVars
    <2> QED BY <1>1, <2>1, LeavesReached
  <1>4. CASE ExchangePairing(c) \/ ReleaseActive(c) \/ (AcquireActive(c) /\ ~ActiveRoom(c))
    <2>1. phase[c] # "new" /\ Leave(c) /\ UNCHANGED << cut, closed >>
      BY <1>4 DEF ExchangePairing, ReleaseActive, AcquireActive, relayVars
    <2> QED BY <1>1, <2>1, LeavesReached DEF Leave, Shuts
  <1>5. CASE (AcquireActive(c) /\ ActiveRoom(c)) \/ WriteReady(c) \/ ReadyFails(c)
    <2>1. /\ phase[c] = "taken" \/ phase[c] = "ready"
          /\ Goto(c, "ready") \/ Goto(c, "copying") \/ Goto(c, "release")
          /\ UNCHANGED << open, cut, tracked, closed >>
      BY <1>5 DEF AcquireActive, WriteReady, ReadyFails, relayVars
    <2> QED BY <1>1, <2>1, StaysReached DEF Shuts
  <1>6. CASE CopyEnds(c)
    <2>1. /\ phase[c] = "copying" /\ Goto(c, "release") /\ Shuts /\ UNCHANGED << cut, tracked, closed >>
      BY <1>1, <1>6 DEF CopyEnds, Shuts, relayVars
    <2> QED BY <1>1, <2>1, StaysReached
  <1> QED BY <1>2, <1>3, <1>4, <1>5, <1>6 DEF ClientStep

\* Every step of the relay.
LEMMA NextReached == ASSUME CarrierTypes, Reach, [CarrierNext]_carrierVars PROVE Reach'
  <1>0. open \in [Handlers -> BOOLEAN] /\ cut \in [Handlers -> BOOLEAN] /\ tracked \subseteq Handlers
    BY DEF Reach, ConnectionTypes
  <1>1. ASSUME NEW x \in Handlers, TrackRouteConnection(x) PROVE Reach'
    <2>1. /\ phase[x] = "new" /\ ~closed /\ Goto(x, "tracked") /\ tracked' = tracked \cup {x}
          /\ UNCHANGED << open, cut, closed >>
      BY <1>1 DEF TrackRouteConnection, relayVars
    <2>2. \A y \in Handlers : phase'[y] = IF y = x THEN "tracked" ELSE phase[y]
      BY <2>1 DEF CarrierTypes, Goto
    <2>3. ~cut[x]
      BY <2>1 DEF Reach, Tracked
    <2>4. Tracked'
      BY <2>1, <2>2 DEF Reach, Tracked
    <2>5. RemovalReachesAll'
      BY <2>1, <2>2, <2>3 DEF Reach, RemovalReachesAll
    <2> QED BY <1>0, <2>1, <2>4, <2>5 DEF Reach, ConnectionTypes
  <1>2. ASSUME NEW x \in Handlers, GiveUp(x) PROVE Reach'
    <2>1. phase[x] # "new" /\ Leave(x) /\ UNCHANGED << cut, closed >>
      BY <1>2 DEF GiveUp, relayVars
    <2> QED BY <1>0, <2>1, LeavesReached DEF Leave, Shuts
  <1>3. ASSUME NEW r \in CarrierRoutes, RemoveRoute(r) PROVE Reach'
    <2>1. /\ \A x \in Handlers : /\ cut'[x] <=> cut[x] \/ (RouteOf[x] = r /\ phase[x] # "new")
                                 /\ open'[x] => open[x] /\ x \notin Of(tracked, r)
          /\ cut' \in [Handlers -> BOOLEAN] /\ open' \in [Handlers -> BOOLEAN]
          /\ UNCHANGED << phase, tracked, closed >>
      BY <1>0, <1>3 DEF RemoveRoute
    <2>2. Tracked'
      BY <2>1 DEF Reach, Tracked
    <2>3. RemovalReachesAll'
      BY <2>1 DEF Reach, RemovalReachesAll, Tracked, Of
    <2> QED BY <1>0, <2>1, <2>2, <2>3 DEF Reach, ConnectionTypes
  <1>4. CASE Close
    <2>1. /\ \A x \in Handlers : open'[x] => open[x] /\ x \notin tracked
          /\ open' \in [Handlers -> BOOLEAN]
          /\ UNCHANGED << phase, cut, tracked >>
      <3> DEFINE S == UNION {ToSet(In(k, r)) : k \in Kinds, r \in CarrierRoutes}
      <3>1. /\ open' = [x \in Handlers |-> open[x] /\ x \notin tracked \cup S]
            /\ UNCHANGED << phase, cut, tracked >>
        BY <1>4 DEF Close
      <3> HIDE DEF S
      <3> QED BY <1>0, <3>1
    <2>2. Tracked' /\ RemovalReachesAll'
      BY <2>1 DEF Reach, RemovalReachesAll, Tracked
    <2> QED BY <1>0, <2>1, <2>2 DEF Reach, ConnectionTypes
  <1>5. CASE \/ \E l \in Legs : ExpireLeg(l)
             \/ \E r \in CarrierRoutes : Reapprove(r)
             \/ Cancel \/ UNCHANGED carrierVars
    <2>1. UNCHANGED << phase, open, cut, tracked, closed >>
      BY <1>5 DEF ExpireLeg, Reapprove, Cancel, carrierVars, handlerVars, relayVars
    <2> QED BY <2>1, SameReached
  <1> QED BY <1>1, <1>2, <1>3, <1>4, <1>5, LegReached, ClientReached DEF CarrierNext
-----------------------------------------------------------------------------
(* The theorems. *)

\* What the queues, the owners and the counters of the relay always satisfy.
THEOREM CarriersInductive == CarrierSpec => [](CarrierInv /\ Reach)
  <1>1. CarrierInit => CarrierInv /\ Reach
    <2>1. CarrierInit => Reach
      BY DEF CarrierInit, Reach, ConnectionTypes, Tracked, RemovalReachesAll
    <2> QED BY <2>1, CarriersStart
  <1>2. CarrierInv /\ Reach /\ [CarrierNext]_carrierVars => (CarrierInv /\ Reach)'
    BY CarriersKeep, NextReached DEF CarrierInv
  <1> QED BY <1>1, <1>2, PTL DEF CarrierSpec

\* Every variable of the relay's queues keeps its type.
THEOREM CarriersTyped == CarrierSpec => []CarrierTypeOK
  <1>1. CarrierInv /\ Reach => CarrierTypeOK
    BY DEF CarrierInv, Reach, CarrierTypeOK
  <1> QED BY <1>1, CarriersInductive, PTL

\* The four counters of relay.go are exact and within their limits, a leg has
\* one owner, a carrier keeps its handler, and no leg is forgotten, for any
\* number of connections and any limits.
THEOREM CarriersTheorem == CarrierSpec => []CarriersSound
  <1>1. CarrierInv => CarriersSound
    <2> SUFFICES ASSUME CarrierInv PROVE CarriersSound
      OBVIOUS
    <2>1. CountsExact
      BY DEF CarrierInv, ActiveCounts, QueueCounts, CountsExact
    <2>2. OneOwner
      <3>1. \A k \in Kinds, r \in CarrierRoutes : IsInjective(In(k, r))
        BY DEF CarrierInv, QueueHolds, Proper, In
      <3>2. \A c \in Clients : taken[c] # NoLeg => taken[c] \notin Queued /\ taken[c] \in claimed
        BY QueuedFacts DEF Queued, Waiting, In, CarrierInv, TakenHolds
      <3> QED BY <3>1, <3>2 DEF OneOwner, CarrierInv, TakenHolds
    <2>3. CarrierKept /\ NoOrphan
      BY DEF CarrierInv, TakenHolds, CarrierKept
    <2> QED BY <2>1, <2>2, <2>3 DEF CarriersSound
  <1> QED BY <1>1, CarriersInductive, PTL

\* After RemoveRoute or Close no connection admitted before it is usable,
\* whatever its handler was doing.
THEOREM RemovalTheorem == CarrierSpec => []RemovalReachesAll
  <1>1. CarrierInv /\ Reach => RemovalReachesAll
    BY DEF Reach
  <1> QED BY <1>1, CarriersInductive, PTL

=============================================================================
