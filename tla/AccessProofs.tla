---------------------------- MODULE AccessProofs ----------------------------
(***************************************************************************)
(* Proofs about what gates access, for any number of requests, peers,      *)
(* sessions and clients and any limits: the admission units of the         *)
(* receiver-owned relay, the semaphores of the connector, and the rate of  *)
(* the OPEN limiters.                                                      *)
(***************************************************************************)
EXTENDS Connector, TokenBucket, AdmissionGuard, FiniteSetTheorems, TLAPS

-----------------------------------------------------------------------------
(* Sets that grow and shrink by one. *)

\* What is added counts one more.
LEMMA OneMore ==
    ASSUME NEW S, IsFiniteSet(S), NEW x, x \notin S
    PROVE  IsFiniteSet(S \union {x}) /\ Cardinality(S \union {x}) = Cardinality(S) + 1
           /\ Cardinality(S) \in Nat
  BY FS_AddElement, FS_CardinalityType

\* What is taken out counts one less.
LEMMA OneLess ==
    ASSUME NEW S, IsFiniteSet(S), NEW x \in S
    PROVE  IsFiniteSet(S \ {x}) /\ Cardinality(S \ {x}) = Cardinality(S) - 1
           /\ Cardinality(S) \in Nat /\ Cardinality(S) > 0
  <1>1. IsFiniteSet(S \ {x}) /\ Cardinality(S \ {x}) = Cardinality(S) - 1
    BY FS_RemoveElement
  <1>2. Cardinality(S) \in Nat /\ Cardinality(S \ {x}) \in Nat
    BY <1>1, FS_CardinalityType
  <1> QED BY <1>1, <1>2

-----------------------------------------------------------------------------
(* The admission guard. *)

Phases == {"idle", "arrived", "serving", "authenticated"}
GuardTypes ==
    /\ peers \subseteq Peer
    /\ active \in [Peer -> Int]
    /\ globalActive \in Int
    /\ phase \in [Request -> Phases]
    /\ released \subseteq Request

\* The requests of H that are of peer p.
Of(H, p) == {q \in H : PeerOf[q] = p}

\* UnitsExact for the requests H that hold a unit, the entries P of the map and
\* their units A.
Exact(H, P, A) ==
    \A p \in Peer : /\ p \in P => A[p] = Cardinality(Of(H, p))
                    /\ Of(H, p) # {} => p \in P

GuardInv == GuardTypes /\ UnitsExact

\* The two ways to say it.
LEMMA ExactUnits == UnitsExact <=> globalActive = Cardinality(Holding) /\ Exact(Holding, peers, active)
  BY DEF UnitsExact, Exact, Of

\* The entry of x is set to n; only entries without a unit go.
Sets(A, B, x, n) == (\A p \in Peer : p # x => B[p] = A[p]) /\ B[x] = n
Prunes(P, A, K) == K \subseteq P /\ \A p \in P : p \in K \/ A[p] = 0

\* A request gets a unit of an entry that held as many as there were before it.
LEMMA UnitTaken ==
    ASSUME NEW H \in SUBSET Request, NEW q \in Request, q \notin H, NEW P, NEW A \in [Peer -> Int],
           NEW K, NEW B \in [Peer -> Int], Exact(H, P, A), Prunes(P, A, K),
           Sets(A, B, PeerOf[q], Cardinality(Of(H, PeerOf[q])) + 1)
    PROVE  Cardinality(H \union {q}) = Cardinality(H) + 1
           /\ Exact(H \union {q}, K \union {PeerOf[q]}, B)
  <1>1. IsFiniteSet(H) /\ PeerOf[q] \in Peer
    BY RequestAssumption, FS_Subset
  <1>2. Cardinality(H \union {q}) = Cardinality(H) + 1
    BY <1>1, OneMore
  <1>3. ASSUME NEW p \in Peer
        PROVE  /\ p \in K \union {PeerOf[q]} => B[p] = Cardinality(Of(H \union {q}, p))
               /\ Of(H \union {q}, p) # {} => p \in K \union {PeerOf[q]}
    <2>1. CASE p = PeerOf[q]
      <3>1. Of(H \union {q}, p) = Of(H, p) \union {q} /\ q \notin Of(H, p) /\ Of(H, p) \in SUBSET H
        BY <2>1 DEF Of
      <3>2. IsFiniteSet(Of(H, p))
        BY <1>1, <3>1, FS_Subset
      <3>3. Cardinality(Of(H, p) \union {q}) = Cardinality(Of(H, p)) + 1
        BY <3>1, <3>2, OneMore
      <3> QED BY <2>1, <3>1, <3>3 DEF Sets
    <2>2. CASE p # PeerOf[q]
      <3>1. Of(H \union {q}, p) = Of(H, p) /\ Of(H, p) \in SUBSET H
        BY <2>2 DEF Of
      <3>2. p \in K => B[p] = Cardinality(Of(H, p))
        BY <2>2 DEF Exact, Sets, Prunes
      <3>3. ASSUME Of(H, p) # {} PROVE p \in K
        <4>1. p \in P /\ A[p] = Cardinality(Of(H, p))
          BY <3>3 DEF Exact
        <4>2. IsFiniteSet(Of(H, p))
          BY <1>1, <3>1, FS_Subset
        <4>3. Cardinality(Of(H, p)) # 0
          BY <3>3, <4>2, FS_EmptySet
        <4> QED BY <4>1, <4>3 DEF Prunes
      <3> QED BY <2>2, <3>1, <3>2, <3>3
    <2> QED BY <2>1, <2>2
  <1> QED BY <1>2, <1>3 DEF Exact

\* A request gives its unit back.
LEMMA UnitGiven ==
    ASSUME NEW H \in SUBSET Request, NEW q \in H, NEW P, NEW A \in [Peer -> Int],
           NEW B \in [Peer -> Int], Exact(H, P, A), Sets(A, B, PeerOf[q], A[PeerOf[q]] - 1)
    PROVE  Cardinality(H \ {q}) = Cardinality(H) - 1 /\ Exact(H \ {q}, P, B)
  <1>1. IsFiniteSet(H) /\ q \in Request /\ PeerOf[q] \in Peer
    BY RequestAssumption, FS_Subset
  <1>2. Cardinality(H \ {q}) = Cardinality(H) - 1
    BY <1>1, OneLess
  <1>3. ASSUME NEW p \in Peer
        PROVE  /\ p \in P => B[p] = Cardinality(Of(H \ {q}, p))
               /\ Of(H \ {q}, p) # {} => p \in P
    <2>1. CASE p = PeerOf[q]
      <3>1. Of(H \ {q}, p) = Of(H, p) \ {q} /\ q \in Of(H, p) /\ Of(H, p) \in SUBSET H
        BY <2>1 DEF Of
      <3>2. IsFiniteSet(Of(H, p))
        BY <1>1, <3>1, FS_Subset
      <3>3. Cardinality(Of(H, p) \ {q}) = Cardinality(Of(H, p)) - 1
        BY <3>1, <3>2, OneLess
      <3>4. p \in P /\ A[p] = Cardinality(Of(H, p))
        BY <3>1 DEF Exact
      <3> QED BY <2>1, <3>1, <3>3, <3>4 DEF Sets
    <2>2. CASE p # PeerOf[q]
      <3>1. Of(H \ {q}, p) = Of(H, p)
        BY <2>2 DEF Of
      <3> QED BY <2>2, <3>1 DEF Exact, Sets
    <2> QED BY <2>1, <2>2
  <1> QED BY <1>2, <1>3 DEF Exact

\* The guard starts with no unit out.
LEMMA GuardInitHolds == ASSUME GuardInit PROVE GuardInv
  <1>1. Holding = {} /\ globalActive = 0 /\ peers = {}
    BY DEF GuardInit, Holding
  <1>2. Exact({}, {}, active) /\ Cardinality({}) = 0
    BY FS_EmptySet DEF Exact, Of
  <1>3. GuardTypes
    BY DEF GuardInit, GuardTypes, Phases
  <1> QED BY <1>1, <1>2, <1>3, ExactUnits DEF GuardInv

\* acquire admits.
LEMMA AdmitKeeps == ASSUME GuardInv, NEW q \in Request, Admit(q) PROVE GuardInv'
  <1> DEFINE p == PeerOf[q]
             K == Kept(q)
  <1>1. /\ phase[q] = "arrived" /\ phase' = [phase EXCEPT ![q] = "serving"]
        /\ peers' = K \union {p} /\ active' = [active EXCEPT ![p] = Held(q) + 1]
        /\ globalActive' = globalActive + 1 /\ released' = released \ {q}
    BY DEF Admit, Decide, TouchPeer
  <1>2. GuardTypes /\ p \in Peer
    BY RequestAssumption DEF GuardInv
  <1>3. Holding' = Holding \union {q} /\ q \notin Holding /\ Holding \in SUBSET Request
    BY <1>1, <1>2 DEF Holding, GuardTypes
  <1>4. globalActive = Cardinality(Holding) /\ Exact(Holding, peers, active)
    BY ExactUnits DEF GuardInv
  <1>5. Held(q) = Cardinality(Of(Holding, p)) /\ Held(q) \in Int
    <2>1. CASE Known(q)
      BY <1>2, <1>4, <2>1 DEF Held, Known, Exact, GuardTypes
    <2>2. CASE ~Known(q)
      <3>1. Of(Holding, p) = {}
        BY <1>2, <1>4, <2>2 DEF Known, Exact
      <3> QED BY <2>2, <3>1, FS_EmptySet DEF Held
    <2> QED BY <2>1, <2>2
  <1>6. K \subseteq peers /\ \A r \in peers : r \in K \/ active[r] = 0
    BY DEF Kept, Idle
  <1>7. GuardTypes'
    <2>1. peers' \subseteq Peer
      BY <1>1, <1>2, <1>6 DEF GuardTypes
    <2>2. Held(q) + 1 \in Int
      BY <1>5
    <2> HIDE DEF K, p
    <2>3. active' \in [Peer -> Int]
      BY <1>1, <1>2, <2>2 DEF GuardTypes
    <2>4. globalActive' \in Int /\ phase' \in [Request -> Phases] /\ released' \subseteq Request
      BY <1>1, <1>2 DEF GuardTypes, Phases
    <2> QED BY <2>1, <2>3, <2>4 DEF GuardTypes
  <1>8. Cardinality(Holding \union {q}) = Cardinality(Holding) + 1
        /\ Exact(Holding \union {q}, K \union {p}, active')
    <2>1. /\ active \in [Peer -> Int] /\ active' \in [Peer -> Int]
          /\ \A r \in Peer : r # p => active'[r] = active[r]
          /\ active'[p] = Cardinality(Of(Holding, p)) + 1
      BY <1>1, <1>2, <1>5, <1>7 DEF GuardTypes
    <2>2. Sets(active, active', p, Cardinality(Of(Holding, p)) + 1) /\ Prunes(peers, active, K)
      BY <1>6, <2>1 DEF Sets, Prunes
    <2> HIDE DEF K
    <2> QED BY <1>3, <1>4, <2>1, <2>2, UnitTaken
  <1>9. globalActive' = Cardinality(Holding') /\ Exact(Holding', peers', active')
    BY <1>1, <1>3, <1>4, <1>8
  <1>10. UnitsExact'
    BY <1>9 DEF UnitsExact, Exact, Of
  <1> QED BY <1>7, <1>10 DEF GuardInv
\* acquire refuses: no unit moves, and only entries without a unit go.
LEMMA RefuseKeeps == ASSUME GuardInv, NEW q \in Request, Refuse(q) PROVE GuardInv'
  <1> DEFINE p == PeerOf[q]
             K == Kept(q)
  <1>1. /\ phase[q] = "arrived" /\ phase' = [phase EXCEPT ![q] = "idle"]
        /\ globalActive' = globalActive /\ released' = released
    BY DEF Refuse, Decide
  <1>2. GuardTypes /\ p \in Peer /\ globalActive = Cardinality(Holding) /\ Exact(Holding, peers, active)
    BY RequestAssumption, ExactUnits DEF GuardInv
  <1>3. Holding' = Holding
    BY <1>1, <1>2 DEF Holding, GuardTypes
  <1>4. K \subseteq peers /\ (\A r \in peers : r \in K \/ active[r] = 0) /\ (p \in peers => K = peers)
    BY DEF Kept, Idle, Known
  <1>5. ASSUME NEW r \in Peer, Of(Holding, r) # {} PROVE r \in K
    <2>1. r \in peers /\ active[r] = Cardinality(Of(Holding, r)) /\ Of(Holding, r) \in SUBSET Request
      BY <1>2, <1>5 DEF Exact, Of, Holding
    <2>2. IsFiniteSet(Of(Holding, r))
      BY <2>1, RequestAssumption, FS_Subset
    <2>3. Cardinality(Of(Holding, r)) # 0
      BY <1>5, <2>2, FS_EmptySet
    <2> QED BY <1>4, <2>1, <2>3
  <1>6. \/ UNCHANGED << peers, active >>
        \/ peers' = K /\ UNCHANGED active
        \/ peers' = K \union {p} /\ active' = [active EXCEPT ![p] = Held(q)]
    BY DEF Refuse, TouchPeer, peerVars
  <1> HIDE DEF K
  <1>7. peers' \subseteq Peer /\ active' \in [Peer -> Int] /\ Exact(Holding, peers', active')
    <2>1. CASE UNCHANGED << peers, active >>
      BY <1>2, <2>1 DEF GuardTypes
    <2>2. CASE peers' = K /\ UNCHANGED active
      BY <1>2, <1>4, <1>5, <2>2 DEF GuardTypes, Exact
    <2>3. CASE peers' = K \union {p} /\ active' = [active EXCEPT ![p] = Held(q)]
      <3>1. Held(q) = Cardinality(Of(Holding, p)) /\ Held(q) \in Int
        <4>1. CASE Known(q)
          BY <1>2, <4>1 DEF Held, Known, Exact, GuardTypes
        <4>2. CASE ~Known(q)
          <5>1. Of(Holding, p) = {}
            BY <1>2, <4>2 DEF Known, Exact
          <5> QED BY <4>2, <5>1, FS_EmptySet DEF Held
        <4> QED BY <4>1, <4>2
      <3>2. active' \in [Peer -> Int] /\ active'[p] = Held(q) /\ \A r \in Peer : r # p => active'[r] = active[r]
        BY <1>2, <2>3, <3>1 DEF GuardTypes
      <3>3. peers' \subseteq Peer
        BY <1>2, <1>4, <2>3 DEF GuardTypes
      <3>4. ASSUME NEW r \in Peer
            PROVE  /\ r \in peers' => active'[r] = Cardinality(Of(Holding, r))
                   /\ Of(Holding, r) # {} => r \in peers'
        <4>1. CASE r = p
          BY <2>3, <3>1, <3>2, <4>1
        <4>2. CASE r # p
          BY <1>2, <1>4, <1>5, <2>3, <3>2, <4>2 DEF Exact
        <4> QED BY <4>1, <4>2
      <3> QED BY <3>2, <3>3, <3>4 DEF Exact
    <2> QED BY <1>6, <2>1, <2>2, <2>3
  <1>8. GuardTypes'
    BY <1>1, <1>2, <1>7 DEF GuardTypes, Phases
  <1>9. globalActive' = Cardinality(Holding') /\ Exact(Holding', peers', active')
    BY <1>1, <1>2, <1>3, <1>7
  <1>10. UnitsExact'
    BY <1>9 DEF UnitsExact, Exact, Of
  <1> QED BY <1>8, <1>10 DEF GuardInv

\* The closure gives back one unit, once.
LEMMA ReleaseKeeps ==
    ASSUME GuardInv, NEW q \in Request, Release(q), UNCHANGED peers,
           phase[q] \in {"serving", "authenticated"},
           NEW to \in {"idle", "authenticated"}, phase' = [phase EXCEPT ![q] = to]
    PROVE  GuardInv'
  <1>1. GuardTypes /\ PeerOf[q] \in Peer /\ globalActive = Cardinality(Holding)
        /\ Exact(Holding, peers, active)
    BY RequestAssumption, ExactUnits DEF GuardInv
  <1>2. CASE q \in released
    <2>1. UNCHANGED << active, globalActive, released >>
      BY <1>2 DEF Release
    <2>2. Holding' = Holding
      BY <1>1, <1>2, <2>1 DEF Holding, GuardTypes
    <2>3. GuardTypes'
      BY <1>1, <2>1 DEF GuardTypes, Phases
    <2>4. globalActive' = Cardinality(Holding') /\ Exact(Holding', peers', active')
      BY <1>1, <2>1, <2>2
    <2>5. UnitsExact'
      BY <2>4 DEF UnitsExact, Exact, Of
    <2> QED BY <2>3, <2>5 DEF GuardInv
  <1>3. CASE q \notin released
    <2>1. /\ active' = [active EXCEPT ![PeerOf[q]] = @ - 1]
          /\ globalActive' = globalActive - 1 /\ released' = released \union {q}
      BY <1>3 DEF Release
    <2>2. Holding' = Holding \ {q} /\ q \in Holding /\ Holding \in SUBSET Request
      BY <1>1, <1>3, <2>1 DEF Holding, GuardTypes
    <2>3. /\ active \in [Peer -> Int] /\ active' \in [Peer -> Int]
          /\ \A r \in Peer : r # PeerOf[q] => active'[r] = active[r]
          /\ active'[PeerOf[q]] = active[PeerOf[q]] - 1
      BY <1>1, <2>1 DEF GuardTypes
    <2>4. GuardTypes'
      BY <1>1, <2>1, <2>3 DEF GuardTypes, Phases
    <2>5. Cardinality(Holding \ {q}) = Cardinality(Holding) - 1 /\ Exact(Holding \ {q}, peers, active')
      <3>1. Sets(active, active', PeerOf[q], active[PeerOf[q]] - 1)
        BY <2>3 DEF Sets
      <3> QED BY <1>1, <2>2, <2>3, <3>1, UnitGiven
    <2>6. globalActive' = Cardinality(Holding') /\ Exact(Holding', peers', active')
      BY <1>1, <2>1, <2>2, <2>5
    <2>7. UnitsExact'
      BY <2>6 DEF UnitsExact, Exact, Of
    <2> QED BY <2>4, <2>7 DEF GuardInv
  <1> QED BY <1>2, <1>3

\* Steps that take and give no unit.
LEMMA GuardQuiet ==
    ASSUME GuardInv, UNCHANGED << peers, active, globalActive, released >>,
           phase' \in [Request -> Phases], Holding' = Holding
    PROVE  GuardInv'
  <1>1. GuardTypes'
    BY DEF GuardInv, GuardTypes
  <1>2. UnitsExact'
    BY DEF GuardInv, UnitsExact
  <1> QED BY <1>1, <1>2 DEF GuardInv

\* Every step of the guard keeps it.
LEMMA GuardStepKeeps == ASSUME GuardInv, [GuardNext]_guardVars PROVE GuardInv'
  <1>1. GuardTypes
    BY DEF GuardInv
  <1>2. CASE GuardTick \/ UNCHANGED guardVars
    <2>1. UNCHANGED << peers, active, globalActive, released, phase >>
      BY <1>2 DEF GuardTick, guardVars, peerVars, globalVars
    <2>2. Holding' = Holding
      BY <2>1 DEF Holding
    <2> QED BY <1>1, <2>1, <2>2, GuardQuiet DEF GuardTypes
  <1>3. ASSUME NEW q \in Request, ReadClock(q) PROVE GuardInv'
    <2>1. /\ UNCHANGED << peers, active, globalActive, released >>
          /\ phase[q] = "idle" /\ phase' = [phase EXCEPT ![q] = "arrived"]
      BY <1>3 DEF ReadClock, peerVars, globalVars
    <2>2. Holding' = Holding /\ phase' \in [Request -> Phases]
      BY <1>1, <2>1 DEF Holding, GuardTypes, Phases
    <2> QED BY <2>1, <2>2, GuardQuiet
  <1>4. ASSUME NEW q \in Request, ReleaseAdmission(q) PROVE GuardInv'
    BY <1>4, ReleaseKeeps DEF ReleaseAdmission
  <1>5. ASSUME NEW q \in Request, ServeReturns(q) PROVE GuardInv'
    BY <1>5, ReleaseKeeps DEF ServeReturns
  <1> QED BY <1>2, <1>3, <1>4, <1>5, AdmitKeeps, RefuseKeeps DEF GuardNext

\* admission.go: for any requests, peers and limits, the units in use are those
\* of the requests whose release closure has not run, in the whole and in each
\* peer's entry, and eviction never drops an entry with a unit out.
THEOREM UnitsTheorem == GuardSpec => []UnitsExact
  <1>1. GuardInit => GuardInv
    BY GuardInitHolds
  <1>2. GuardInv /\ [GuardNext]_guardVars => GuardInv'
    BY GuardStepKeeps
  <1>3. GuardInv => UnitsExact
    BY DEF GuardInv
  <1> QED BY <1>1, <1>2, <1>3, PTL DEF GuardSpec
-----------------------------------------------------------------------------
(* The connector. *)

BeforeDial == {"dial", "join", "inner", "slot"}
DialPhases == {"local", "ready", "copy"}

\* The sessions of H whose inner client is cl.
OfClient(H, cl) == {k \in H : InnerClient[k[2]] = cl}

\* With the workers at f: who holds a pending slot, an active slot and a slot of
\* its client, and that the semaphores n and the counts count them.
PendingHolds(f, H, n) ==
    /\ H \subseteq Key /\ n = Cardinality(H) /\ n <= Pending
    /\ \A k \in Key : f[k] \in BeforeDial => k \in H
    /\ \A k \in H : f[k] \in BeforeDial \union {"cancel", "ending"}
ActiveHolds(f, H, n) ==
    /\ H \subseteq Key /\ n = Cardinality(H) /\ n <= Active
    /\ \A k \in Key : k \in H <=> f[k] \in DialPhases
ClientHolds(f, H, A) ==
    /\ H \subseteq Key /\ A \in [Client -> Nat]
    /\ \A cl \in Client : A[cl] = Cardinality(OfClient(H, cl)) /\ (Capability => A[cl] <= ActivePerClient)
    /\ \A k \in Key : k \in H <=> Capability /\ f[k] \in DialPhases \union {"slot"}
WorkersHold(f, S, n) == S = {k \in Key : f[k] # "none"} /\ n = Cardinality(S)

ConnectorTypes ==
    /\ ctl \in ControlPhases
    /\ epoch \in Epoch \union {None}
    /\ usedEpochs \subseteq Epoch
    /\ backoff \in ReconnectMin .. ReconnectMax
    /\ work \in [Key -> WorkPhases]
    /\ cancelled \subseteq Key
    /\ stopped \in BOOLEAN
ConnectorInv ==
    /\ ConnectorTypes
    /\ PendingHolds(work, pendingHeld, pending)
    /\ ActiveHolds(work, activeHeld, inUse)
    /\ ClientHolds(work, clientHeld, clientActive)
    /\ WorkersHold(work, sessions, workers)

\* There are finitely many keys.
LEMMA Keys ==
    /\ IsFiniteSet(Key)
    /\ \A k \in Key : InnerClient[k[2]] \in Client
    /\ \A H \in SUBSET Key : IsFiniteSet(H) /\ Cardinality(H) \in Nat
    /\ \A H \in SUBSET Key : \A cl : IsFiniteSet(OfClient(H, cl)) /\ Cardinality(OfClient(H, cl)) \in Nat
  <1>1. IsFiniteSet(Key)
    BY EpochAssumption, FS_Product DEF Key
  <1>2. \A H \in SUBSET Key : IsFiniteSet(H) /\ Cardinality(H) \in Nat
    BY <1>1, FS_Subset, FS_CardinalityType
  <1>3. \A H \in SUBSET Key : \A cl : OfClient(H, cl) \in SUBSET Key
    BY DEF OfClient
  <1>4. \A k \in Key : InnerClient[k[2]] \in Client
    BY InnerAssumption DEF Key
  <1> QED BY <1>1, <1>2, <1>3, <1>4

\* Only worker w moves.
Moves(f, g, w) ==
    f \in [Key -> WorkPhases] /\ g \in [Key -> WorkPhases] /\ \A k \in Key : k # w => g[k] = f[k]

\* The pending slots: kept, taken, given back.
LEMMA PendingKept ==
    ASSUME NEW f, NEW g, NEW w \in Key, NEW H, NEW n, Moves(f, g, w), PendingHolds(f, H, n),
           g[w] \in BeforeDial => w \in H,
           w \in H => g[w] \in BeforeDial \union {"cancel", "ending"}
    PROVE  PendingHolds(g, H, n)
  BY DEF Moves, PendingHolds

\* acceptOpen takes a pending slot for a worker that had none.
LEMMA PendingTaken ==
    ASSUME NEW f, NEW g, NEW w \in Key, NEW H, NEW n, Moves(f, g, w), PendingHolds(f, H, n),
           f[w] = "none", n < Pending, g[w] = "dial"
    PROVE  PendingHolds(g, H \union {w}, n + 1)
  <1>1. w \notin H /\ IsFiniteSet(H) /\ n \in Nat /\ Pending \in Nat
    BY Keys, SlotAssumption DEF PendingHolds, BeforeDial
  <1>2. Cardinality(H \union {w}) = n + 1
    BY <1>1, OneMore DEF PendingHolds
  <1> QED BY <1>1, <1>2 DEF Moves, PendingHolds, BeforeDial

\* The pending slot of a worker past its wait is given back.
LEMMA PendingGiven ==
    ASSUME NEW f, NEW g, NEW w \in Key, NEW H, NEW n, Moves(f, g, w), PendingHolds(f, H, n),
           w \in H, g[w] \notin BeforeDial
    PROVE  PendingHolds(g, H \ {w}, n - 1)
  <1>1. IsFiniteSet(H) /\ n \in Nat /\ Pending \in Nat
    BY Keys, SlotAssumption DEF PendingHolds
  <1>2. Cardinality(H \ {w}) = n - 1
    BY <1>1, OneLess DEF PendingHolds
  <1> QED BY <1>1, <1>2 DEF Moves, PendingHolds

\* The active slots.
LEMMA ActiveKept ==
    ASSUME NEW f, NEW g, NEW w \in Key, NEW H, NEW n, Moves(f, g, w), ActiveHolds(f, H, n),
           g[w] \in DialPhases <=> f[w] \in DialPhases
    PROVE  ActiveHolds(g, H, n)
  BY DEF Moves, ActiveHolds

\* tryAcquire takes an active slot.
LEMMA ActiveTaken ==
    ASSUME NEW f, NEW g, NEW w \in Key, NEW H, NEW n, Moves(f, g, w), ActiveHolds(f, H, n),
           f[w] \notin DialPhases, n < Active, g[w] \in DialPhases
    PROVE  ActiveHolds(g, H \union {w}, n + 1)
  <1>1. w \notin H /\ IsFiniteSet(H) /\ n \in Nat /\ Active \in Nat
    BY Keys, SlotAssumption DEF ActiveHolds
  <1>2. Cardinality(H \union {w}) = n + 1
    BY <1>1, OneMore DEF ActiveHolds
  <1> QED BY <1>1, <1>2 DEF Moves, ActiveHolds

\* A worker that no longer uses the target gives its active slot back, if it has one.
LEMMA ActiveGiven ==
    ASSUME NEW f, NEW g, NEW w \in Key, NEW H, NEW n, Moves(f, g, w), ActiveHolds(f, H, n),
           g[w] \notin DialPhases
    PROVE  ActiveHolds(g, H \ {w}, IF w \in H THEN n - 1 ELSE n)
  <1>1. IsFiniteSet(H) /\ n \in Nat /\ Active \in Nat
    BY Keys, SlotAssumption DEF ActiveHolds
  <1>2. CASE w \in H
    <2>1. Cardinality(H \ {w}) = n - 1
      BY <1>1, <1>2, OneLess DEF ActiveHolds
    <2> QED BY <1>1, <1>2, <2>1 DEF Moves, ActiveHolds
  <1>3. CASE w \notin H
    <2>1. H \ {w} = H
      BY <1>3
    <2> QED BY <1>3, <2>1 DEF Moves, ActiveHolds
  <1> QED BY <1>2, <1>3
\* The slots of a client: kept, taken, given back.
LEMMA ClientKept ==
    ASSUME NEW f, NEW g, NEW w \in Key, NEW H, NEW A, Moves(f, g, w), ClientHolds(f, H, A),
           Capability => (g[w] \in DialPhases \union {"slot"} <=> f[w] \in DialPhases \union {"slot"})
    PROVE  ClientHolds(g, H, A)
  BY DEF Moves, ClientHolds

\* tryAcquireClientActive.
LEMMA ClientTaken ==
    ASSUME NEW f, NEW g, NEW w \in Key, NEW H, NEW A, Moves(f, g, w), ClientHolds(f, H, A),
           Capability, A[InnerClient[w[2]]] < ActivePerClient, f[w] = "inner", g[w] = "slot"
    PROVE  ClientHolds(g, H \union {w}, [A EXCEPT ![InnerClient[w[2]]] = @ + 1])
  <1> DEFINE c == InnerClient[w[2]]
             B == [A EXCEPT ![c] = @ + 1]
             G == H \union {w}
  <1>1. w \notin H /\ c \in Client /\ A \in [Client -> Nat] /\ ActivePerClient \in Nat /\ H \in SUBSET Key
    BY Keys, SlotAssumption DEF ClientHolds, DialPhases
  <1>2. B \in [Client -> Nat] /\ B[c] = A[c] + 1 /\ \A cl \in Client : cl # c => B[cl] = A[cl]
    BY <1>1
  <1>3. ASSUME NEW cl \in Client
        PROVE  B[cl] = Cardinality(OfClient(G, cl)) /\ B[cl] <= ActivePerClient
    <2>1. CASE cl = c
      <3>1. OfClient(G, cl) = OfClient(H, cl) \union {w} /\ w \notin OfClient(H, cl)
        BY <1>1, <2>1 DEF OfClient
      <3>2. IsFiniteSet(OfClient(H, cl))
        BY <1>1, Keys
      <3>3. Cardinality(OfClient(H, cl) \union {w}) = Cardinality(OfClient(H, cl)) + 1
        BY <3>1, <3>2, OneMore
      <3>4. A[c] = Cardinality(OfClient(H, cl)) /\ A[c] \in Nat /\ A[c] < ActivePerClient
        BY <1>1, <2>1 DEF ClientHolds
      <3> HIDE DEF G, B, c
      <3> QED BY <1>1, <1>2, <2>1, <3>1, <3>3, <3>4
    <2>2. CASE cl # c
      <3>1. OfClient(G, cl) = OfClient(H, cl)
        BY <2>2 DEF OfClient
      <3> QED BY <1>2, <2>2, <3>1 DEF ClientHolds
    <2> QED BY <2>1, <2>2
  <1>4. \A k \in Key : k \in G <=> Capability /\ g[k] \in DialPhases \union {"slot"}
    BY DEF ClientHolds, Moves
  <1> HIDE DEF B
  <1>5. ClientHolds(g, G, B)
    BY <1>1, <1>2, <1>3, <1>4 DEF ClientHolds
  <1> QED BY <1>5 DEF B, G

\* releaseClientActive of a worker that holds a slot.
LEMMA ClientGiven ==
    ASSUME NEW f, NEW g, NEW w \in Key, NEW H, NEW A, Moves(f, g, w), ClientHolds(f, H, A),
           w \in H, g[w] \notin DialPhases \union {"slot"}
    PROVE  ClientHolds(g, H \ {w}, [A EXCEPT ![InnerClient[w[2]]] = IF @ <= 1 THEN 0 ELSE @ - 1])
  <1> DEFINE c == InnerClient[w[2]]
             B == [A EXCEPT ![c] = IF @ <= 1 THEN 0 ELSE @ - 1]
             G == H \ {w}
  <1>1. c \in Client /\ A \in [Client -> Nat] /\ ActivePerClient \in Nat /\ H \in SUBSET Key
    BY Keys, SlotAssumption DEF ClientHolds
  <1>2. A[c] \in Nat /\ A[c] > 0 /\ A[c] = Cardinality(OfClient(H, c))
        /\ Cardinality(OfClient(H, c) \ {w}) = Cardinality(OfClient(H, c)) - 1
    <2>1. w \in OfClient(H, c) /\ IsFiniteSet(OfClient(H, c))
      BY <1>1, Keys DEF OfClient
    <2>2. Cardinality(OfClient(H, c) \ {w}) = Cardinality(OfClient(H, c)) - 1 /\ Cardinality(OfClient(H, c)) > 0
      BY <2>1, OneLess
    <2> QED BY <1>1, <2>2 DEF ClientHolds
  <1>3. B \in [Client -> Nat] /\ B[c] = A[c] - 1 /\ \A cl \in Client : cl # c => B[cl] = A[cl]
    <2>1. (IF A[c] <= 1 THEN 0 ELSE A[c] - 1) = A[c] - 1 /\ A[c] - 1 \in Nat
      BY <1>2
    <2> HIDE DEF c
    <2> QED BY <1>1, <2>1
  <1>4. ASSUME NEW cl \in Client
        PROVE  B[cl] = Cardinality(OfClient(G, cl)) /\ (Capability => B[cl] <= ActivePerClient)
    <2>1. CASE cl = c
      <3>1. OfClient(G, cl) = OfClient(H, cl) \ {w}
        BY DEF OfClient
      <3>2. Capability => A[c] <= ActivePerClient
        BY <1>1 DEF ClientHolds
      <3> HIDE DEF G, B, c
      <3> QED BY <1>1, <1>2, <1>3, <2>1, <3>1, <3>2
    <2>2. CASE cl # c
      <3>1. OfClient(G, cl) = OfClient(H, cl)
        BY <2>2 DEF OfClient
      <3> QED BY <1>3, <2>2, <3>1 DEF ClientHolds
    <2> QED BY <2>1, <2>2
  <1>5. \A k \in Key : k \in G <=> Capability /\ g[k] \in DialPhases \union {"slot"}
    BY DEF ClientHolds, Moves
  <1> HIDE DEF B
  <1>6. ClientHolds(g, G, B)
    BY <1>1, <1>3, <1>4, <1>5 DEF ClientHolds
  <1> QED BY <1>6 DEF B, G

\* The workers and the sessions: kept, one more, one less.
LEMMA WorkersKept ==
    ASSUME NEW f, NEW g, NEW w \in Key, NEW S, NEW n, Moves(f, g, w), WorkersHold(f, S, n),
           f[w] # "none", g[w] # "none"
    PROVE  WorkersHold(g, S, n)
  BY DEF Moves, WorkersHold

\* A worker starts.
LEMMA WorkersMore ==
    ASSUME NEW f, NEW g, NEW w \in Key, NEW S, NEW n, Moves(f, g, w), WorkersHold(f, S, n),
           f[w] = "none", g[w] # "none"
    PROVE  WorkersHold(g, S \union {w}, n + 1)
  <1>1. w \notin S /\ S \in SUBSET Key /\ S \union {w} = {k \in Key : g[k] # "none"}
    BY DEF Moves, WorkersHold
  <1>2. Cardinality(S \union {w}) = n + 1
    BY <1>1, Keys, OneMore DEF WorkersHold
  <1> QED BY <1>1, <1>2 DEF WorkersHold

\* A worker ends.
LEMMA WorkersLess ==
    ASSUME NEW f, NEW g, NEW w \in Key, NEW S, NEW n, Moves(f, g, w), WorkersHold(f, S, n),
           f[w] # "none", g[w] = "none"
    PROVE  WorkersHold(g, S \ {w}, n - 1)
  <1>1. w \in S /\ S \in SUBSET Key /\ S \ {w} = {k \in Key : g[k] # "none"}
    BY DEF Moves, WorkersHold
  <1>2. Cardinality(S \ {w}) = n - 1
    BY <1>1, Keys, OneLess DEF WorkersHold
  <1> QED BY <1>1, <1>2 DEF WorkersHold

\* A worker moves from one phase to another.
LEMMA AdvanceMoves ==
    ASSUME ConnectorInv, NEW w \in Key, NEW to \in WorkPhases, work' = [work EXCEPT ![w] = to]
    PROVE  Moves(work, work', w) /\ work'[w] = to /\ work' \in [Key -> WorkPhases]
  BY DEF ConnectorInv, ConnectorTypes, Moves

\* A worker's step before or after the slots change hands.
LEMMA PlainStep ==
    ASSUME ConnectorInv, NEW w \in Key, NEW from, NEW to,
           \/ from = "dial" /\ to = "join"
           \/ from = "join" /\ to = "inner"
           \/ from = "local" /\ to = "ready"
           \/ from = "ready" /\ to = "copy"
           \/ from = "cancel" /\ to = "ending",
           work[w] = from, work' = [work EXCEPT ![w] = to], UNCHANGED << ctlVars, stopped >>,
           cancelled' \subseteq Key, UNCHANGED slotVars, UNCHANGED << sessions, workers >>
    PROVE  ConnectorInv'
  <1>1. to \in WorkPhases
    BY DEF WorkPhases
  <1>2. Moves(work, work', w) /\ work'[w] = to /\ work' \in [Key -> WorkPhases]
    BY <1>1, AdvanceMoves
  <1>3. /\ PendingHolds(work, pendingHeld, pending) /\ ActiveHolds(work, activeHeld, inUse)
        /\ ClientHolds(work, clientHeld, clientActive) /\ WorkersHold(work, sessions, workers)
    BY DEF ConnectorInv
  <1>4. PendingHolds(work', pendingHeld, pending)
    <2>1. to \in BeforeDial => w \in pendingHeld
      BY <1>3 DEF PendingHolds, BeforeDial
    <2>2. w \in pendingHeld => to \in BeforeDial \union {"cancel", "ending"}
      BY <1>3 DEF PendingHolds, BeforeDial
    <2> QED BY <1>2, <1>3, <2>1, <2>2, PendingKept
  <1>5. ActiveHolds(work', activeHeld, inUse)
    <2>1. to \in DialPhases <=> from \in DialPhases
      BY DEF DialPhases
    <2> QED BY <1>2, <1>3, <2>1, ActiveKept
  <1>6. ClientHolds(work', clientHeld, clientActive)
    <2>1. to \in DialPhases \union {"slot"} <=> from \in DialPhases \union {"slot"}
      BY DEF DialPhases
    <2> QED BY <1>2, <1>3, <2>1, ClientKept
  <1>7. WorkersHold(work', sessions, workers)
    BY <1>2, <1>3, WorkersKept
  <1>8. ConnectorTypes'
    BY <1>2 DEF ConnectorInv, ConnectorTypes, ctlVars
  <1> QED BY <1>4, <1>5, <1>6, <1>7, <1>8 DEF ConnectorInv, slotVars

\* The calls of runSession that leave every slot alone.
Plain(from, to) ==
    \/ from = "dial" /\ to = "join"
    \/ from = "join" /\ to = "inner"
    \/ from = "local" /\ to = "ready"
    \/ from = "ready" /\ to = "copy"

\* The same of a worker that has just gone on to its next call.
LEMMA PlainAdvance ==
    ASSUME ConnectorInv, NEW w \in Key, NEW from, NEW to, Advance(w, from, to), UNCHANGED slotVars,
           Plain(from, to)
    PROVE  ConnectorInv'
  <1>1. /\ work[w] = from /\ work' = [work EXCEPT ![w] = to] /\ UNCHANGED << ctlVars, stopped >>
        /\ UNCHANGED << sessions, workers >>
    BY DEF Advance
  <1>2. cancelled' \subseteq Key
    BY DEF Advance, ConnectorInv, ConnectorTypes
  <1>3. \/ from = "dial" /\ to = "join"
        \/ from = "join" /\ to = "inner"
        \/ from = "local" /\ to = "ready"
        \/ from = "ready" /\ to = "copy"
    BY DEF Plain
  <1> QED BY <1>1, <1>2, <1>3, PlainStep

\* acceptOpen takes a pending slot, the key and the WaitGroup for the new worker.
LEMMA OpenAcceptedKeeps == ASSUME ConnectorInv, NEW w \in Key, OpenAccepted(w) PROVE ConnectorInv'
  <1>1. /\ pending < Pending /\ w \notin sessions /\ pending' = pending + 1
        /\ pendingHeld' = pendingHeld \union {w} /\ sessions' = sessions \union {w}
        /\ workers' = workers + 1 /\ work' = [work EXCEPT ![w] = "dial"]
        /\ UNCHANGED << ctlVars, inUse, clientActive, activeHeld, clientHeld, cancelled, stopped >>
    BY DEF OpenAccepted
  <1>2. /\ PendingHolds(work, pendingHeld, pending) /\ ActiveHolds(work, activeHeld, inUse)
        /\ ClientHolds(work, clientHeld, clientActive) /\ WorkersHold(work, sessions, workers)
    BY DEF ConnectorInv
  <1>3. Moves(work, work', w) /\ work'[w] = "dial" /\ work' \in [Key -> WorkPhases]
    BY <1>1, AdvanceMoves DEF WorkPhases
  <1>4. work[w] = "none"
    BY <1>1, <1>2 DEF WorkersHold
  <1>5. PendingHolds(work', pendingHeld', pending')
    BY <1>1, <1>2, <1>3, <1>4, PendingTaken
  <1>6. ActiveHolds(work', activeHeld, inUse)
    BY <1>2, <1>3, <1>4, ActiveKept DEF DialPhases
  <1>7. ClientHolds(work', clientHeld, clientActive)
    BY <1>2, <1>3, <1>4, ClientKept DEF DialPhases
  <1>8. WorkersHold(work', sessions', workers')
    BY <1>1, <1>2, <1>3, <1>4, WorkersMore
  <1>9. ConnectorTypes'
    BY <1>1, <1>3 DEF ConnectorInv, ConnectorTypes, ctlVars
  <1> QED BY <1>1, <1>5, <1>6, <1>7, <1>8, <1>9 DEF ConnectorInv

\* The inner client is authenticated and its slot taken.
LEMMA InnerAuthenticatedKeeps ==
    ASSUME ConnectorInv, NEW w \in Key, InnerAuthenticated(w) PROVE ConnectorInv'
  <1>1. /\ work[w] = "inner" /\ work' = [work EXCEPT ![w] = "slot"]
        /\ UNCHANGED << ctlVars, sessions, workers, cancelled, stopped >>
        /\ UNCHANGED << pending, inUse, pendingHeld, activeHeld >>
    BY DEF InnerAuthenticated, Advance
  <1>2. /\ PendingHolds(work, pendingHeld, pending) /\ ActiveHolds(work, activeHeld, inUse)
        /\ ClientHolds(work, clientHeld, clientActive) /\ WorkersHold(work, sessions, workers)
    BY DEF ConnectorInv
  <1>3. Moves(work, work', w) /\ work'[w] = "slot" /\ work' \in [Key -> WorkPhases]
    BY <1>1, AdvanceMoves DEF WorkPhases
  <1>4. PendingHolds(work', pendingHeld, pending)
    <2>1. w \in pendingHeld /\ "slot" \in BeforeDial
      BY <1>1, <1>2 DEF PendingHolds, BeforeDial
    <2> QED BY <1>2, <1>3, <2>1, PendingKept
  <1>5. ActiveHolds(work', activeHeld, inUse)
    BY <1>1, <1>2, <1>3, ActiveKept DEF DialPhases
  <1>6. ClientHolds(work', clientHeld', clientActive')
    <2>1. CASE Capability
      <3>1. /\ clientActive' = [clientActive EXCEPT ![InnerClient[w[2]]] = @ + 1]
            /\ clientHeld' = clientHeld \union {w}
            /\ clientActive[InnerClient[w[2]]] < ActivePerClient
        BY <2>1 DEF InnerAuthenticated, MayAcquireClient
      <3>2. ClientHolds(work', clientHeld \union {w},
                        [clientActive EXCEPT ![InnerClient[w[2]]] = @ + 1])
        BY <1>1, <1>2, <1>3, <2>1, <3>1, ClientTaken
      <3> QED BY <3>1, <3>2
    <2>2. CASE ~Capability
      BY <1>2, <1>3, <2>2, ClientKept DEF InnerAuthenticated
    <2> QED BY <2>1, <2>2
  <1>7. WorkersHold(work', sessions, workers)
    BY <1>1, <1>2, <1>3, WorkersKept
  <1>8. ConnectorTypes'
    BY <1>1, <1>3 DEF ConnectorInv, ConnectorTypes, ctlVars
  <1> QED BY <1>1, <1>4, <1>5, <1>6, <1>7, <1>8 DEF ConnectorInv

\* The pending slot is exchanged for an active one.
LEMMA EnterActiveKeeps == ASSUME ConnectorInv, NEW w \in Key, EnterActive(w) PROVE ConnectorInv'
  <1>1. /\ work[w] = "slot" /\ work' = [work EXCEPT ![w] = "local"] /\ inUse < Active
        /\ UNCHANGED << ctlVars, sessions, workers, cancelled, stopped >>
        /\ inUse' = inUse + 1 /\ activeHeld' = activeHeld \union {w}
        /\ pending' = pending - 1 /\ pendingHeld' = pendingHeld \ {w}
        /\ UNCHANGED << clientActive, clientHeld >>
    BY DEF EnterActive, Advance
  <1>2. /\ PendingHolds(work, pendingHeld, pending) /\ ActiveHolds(work, activeHeld, inUse)
        /\ ClientHolds(work, clientHeld, clientActive) /\ WorkersHold(work, sessions, workers)
    BY DEF ConnectorInv
  <1>3. Moves(work, work', w) /\ work'[w] = "local" /\ work' \in [Key -> WorkPhases]
    BY <1>1, AdvanceMoves DEF WorkPhases
  <1>4. PendingHolds(work', pendingHeld', pending')
    <2>1. w \in pendingHeld /\ "local" \notin BeforeDial
      BY <1>1, <1>2 DEF PendingHolds, BeforeDial
    <2> QED BY <1>1, <1>2, <1>3, <2>1, PendingGiven
  <1>5. ActiveHolds(work', activeHeld', inUse')
    BY <1>1, <1>2, <1>3, ActiveTaken DEF DialPhases
  <1>6. ClientHolds(work', clientHeld, clientActive)
    BY <1>1, <1>2, <1>3, ClientKept DEF DialPhases
  <1>7. WorkersHold(work', sessions, workers)
    BY <1>1, <1>2, <1>3, WorkersKept
  <1>8. ConnectorTypes'
    BY <1>1, <1>3 DEF ConnectorInv, ConnectorTypes, ctlVars
  <1> QED BY <1>1, <1>4, <1>5, <1>6, <1>7, <1>8 DEF ConnectorInv

\* serveInner returns, at whichever phase: what it took it gives back.
LEMMA ReleaseInnerKeeps ==
    ASSUME ConnectorInv, NEW w \in Key, NEW to \in {"cancel", "ending"}, work[w] # "none",
           work[w] = "copy" \/ work[w] \in BeforeDial \union {"local", "ready"},
           Advance(w, work[w], to), ReleaseInner(w)
    PROVE  ConnectorInv'
  <1>1. /\ work' = [work EXCEPT ![w] = to]
        /\ UNCHANGED << ctlVars, sessions, workers, cancelled, stopped >>
        /\ inUse' = (IF w \in activeHeld THEN inUse - 1 ELSE inUse) /\ activeHeld' = activeHeld \ {w}
        /\ clientHeld' = clientHeld \ {w} /\ UNCHANGED << pending, pendingHeld >>
        /\ clientActive' = IF w \in clientHeld
                           THEN [clientActive EXCEPT ![InnerClient[w[2]]] = IF @ <= 1 THEN 0 ELSE @ - 1]
                           ELSE clientActive
    BY DEF ReleaseInner, Advance
  <1>2. /\ PendingHolds(work, pendingHeld, pending) /\ ActiveHolds(work, activeHeld, inUse)
        /\ ClientHolds(work, clientHeld, clientActive) /\ WorkersHold(work, sessions, workers)
    BY DEF ConnectorInv
  <1>3. Moves(work, work', w) /\ work'[w] = to /\ work' \in [Key -> WorkPhases]
    BY <1>1, AdvanceMoves DEF WorkPhases
  <1>4. PendingHolds(work', pendingHeld, pending)
    BY <1>2, <1>3, PendingKept DEF BeforeDial
  <1>5. ActiveHolds(work', activeHeld', inUse')
    BY <1>1, <1>2, <1>3, ActiveGiven DEF DialPhases
  <1>6. ClientHolds(work', clientHeld', clientActive')
    <2>1. to \notin DialPhases \union {"slot"}
      BY DEF DialPhases
    <2>2. CASE w \in clientHeld
      BY <1>1, <1>2, <1>3, <2>1, <2>2, ClientGiven
    <2>3. CASE w \notin clientHeld
      <3>1. clientHeld' = clientHeld /\ clientActive' = clientActive
        BY <1>1, <2>3
      <3>2. Capability => work[w] \notin DialPhases \union {"slot"}
        BY <1>2, <2>3 DEF ClientHolds
      <3> QED BY <1>2, <1>3, <2>1, <3>1, <3>2, ClientKept
    <2> QED BY <2>2, <2>3
  <1>7. WorkersHold(work', sessions, workers)
    BY <1>2, <1>3, WorkersKept
  <1>8. ConnectorTypes'
    BY <1>1, <1>3 DEF ConnectorInv, ConnectorTypes, ctlVars
  <1> QED BY <1>1, <1>4, <1>5, <1>6, <1>7, <1>8 DEF ConnectorInv

\* The deferred calls of a worker.
LEMMA WorkerDoneKeeps == ASSUME ConnectorInv, NEW w \in Key, WorkerDone(w) PROVE ConnectorInv'
  <1>1. /\ work[w] = "ending" /\ work' = [work EXCEPT ![w] = "none"]
        /\ pending' = (IF w \in pendingHeld THEN pending - 1 ELSE pending)
        /\ pendingHeld' = pendingHeld \ {w} /\ sessions' = sessions \ {w} /\ workers' = workers - 1
        /\ UNCHANGED << ctlVars, inUse, clientActive, activeHeld, clientHeld, cancelled, stopped >>
    BY DEF WorkerDone
  <1>2. /\ PendingHolds(work, pendingHeld, pending) /\ ActiveHolds(work, activeHeld, inUse)
        /\ ClientHolds(work, clientHeld, clientActive) /\ WorkersHold(work, sessions, workers)
    BY DEF ConnectorInv
  <1>3. Moves(work, work', w) /\ work'[w] = "none" /\ work' \in [Key -> WorkPhases]
    BY <1>1, AdvanceMoves DEF WorkPhases
  <1>4. PendingHolds(work', pendingHeld', pending')
    <2>1. "none" \notin BeforeDial
      BY DEF BeforeDial
    <2>2. CASE w \in pendingHeld
      BY <1>1, <1>2, <1>3, <2>1, <2>2, PendingGiven
    <2>3. CASE w \notin pendingHeld
      <3>1. pendingHeld' = pendingHeld /\ pending' = pending
        BY <1>1, <2>3
      <3> QED BY <1>2, <1>3, <2>1, <2>3, <3>1, PendingKept
    <2> QED BY <2>2, <2>3
  <1>5. ActiveHolds(work', activeHeld, inUse)
    BY <1>1, <1>2, <1>3, ActiveKept DEF DialPhases
  <1>6. ClientHolds(work', clientHeld, clientActive)
    BY <1>1, <1>2, <1>3, ClientKept DEF DialPhases
  <1>7. WorkersHold(work', sessions', workers')
    BY <1>1, <1>2, <1>3, WorkersLess
  <1>8. ConnectorTypes'
    BY <1>1, <1>3 DEF ConnectorInv, ConnectorTypes, ctlVars
  <1> QED BY <1>1, <1>4, <1>5, <1>6, <1>7, <1>8 DEF ConnectorInv
\* nextBackoff stays within the configured times.
LEMMA BackoffFacts ==
    ASSUME NEW b \in ReconnectMin .. ReconnectMax
    PROVE  NextBackoff(b, ReconnectMax) \in ReconnectMin .. ReconnectMax
           /\ ReconnectMin \in ReconnectMin .. ReconnectMax
  BY BackoffAssumption DEF NextBackoff

\* Steps of Run, and frames that are refused, move no worker.
LEMMA ControlKeeps ==
    ASSUME ConnectorInv, ControlStep, \A w \in Key : ~OpenAccepted(w) PROVE ConnectorInv'
  <1>1. ConnectorTypes
    BY DEF ConnectorInv
  <1>2. UNCHANGED << work, sessions, workers, slotVars >> /\ cancelled' \subseteq Key
    <2>1. ASSUME NEW w \in Key, OpenRejected(w) PROVE UNCHANGED << work, sessions, workers, slotVars >> /\ cancelled' \subseteq Key
      BY <1>1, <2>1 DEF OpenRejected, WriteCancel, ConnectorTypes
    <2>2. (\E w \in Key : OpenRejected(w)) \/ UNCHANGED << work, sessions, workers, slotVars, cancelled >>
      BY DEF ControlStep, ControlConnected, SleepEnds, RunReturns, Stop, Registered, ControlEnds
    <2> QED BY <1>1, <2>1, <2>2 DEF ConnectorTypes
  <1>3. ctl' \in ControlPhases
    BY <1>1 DEF ControlStep, ControlConnected, SleepEnds, RunReturns, Stop, Registered, ControlEnds,
                OpenRejected, ctlVars, ConnectorTypes, ControlPhases
  <1>4. backoff' \in ReconnectMin .. ReconnectMax
    <2>1. backoff \in ReconnectMin .. ReconnectMax
      BY <1>1 DEF ConnectorTypes
    <2>2. backoff' = backoff \/ backoff' = ReconnectMin \/ backoff' = NextBackoff(backoff, ReconnectMax)
      BY DEF ControlStep, ControlConnected, SleepEnds, RunReturns, Stop, Registered, ControlEnds,
             OpenRejected, ctlVars
    <2> QED BY <2>1, <2>2, BackoffFacts
  <1>5. epoch' \in Epoch \union {None} /\ usedEpochs' \subseteq Epoch
    BY <1>1 DEF ControlStep, ControlConnected, SleepEnds, RunReturns, Stop, Registered, ControlEnds,
                OpenRejected, ctlVars, ConnectorTypes
  <1>6. stopped' \in BOOLEAN
    BY <1>1 DEF ControlStep, ControlConnected, SleepEnds, RunReturns, Stop, Registered, ControlEnds,
                OpenRejected, ConnectorTypes
  <1>7. ConnectorTypes'
    BY <1>1, <1>2, <1>3, <1>4, <1>5, <1>6 DEF ConnectorTypes
  <1> QED BY <1>2, <1>7 DEF ConnectorInv, slotVars

\* Every step of the connector keeps the invariant.
LEMMA ConnectorKeeps == ASSUME ConnectorInv, [ConnectorNext]_connectorVars PROVE ConnectorInv'
  <1>1. CASE ControlStep
    BY <1>1, OpenAcceptedKeeps, ControlKeeps
  <1>2. ASSUME NEW w \in Key, WorkerStep(w) PROVE ConnectorInv'
    <2>1. CASE OuterConnected(w)
      <3>1. Advance(w, "dial", "join") /\ UNCHANGED slotVars /\ Plain("dial", "join")
        BY <2>1 DEF OuterConnected, Plain
      <3> QED BY <3>1, PlainAdvance
    <2>2. CASE JoinWritten(w)
      <3>1. Advance(w, "join", "inner") /\ UNCHANGED slotVars /\ Plain("join", "inner")
        BY <2>2 DEF JoinWritten, Plain
      <3> QED BY <3>1, PlainAdvance
    <2>3. CASE LocalDialed(w)
      <3>1. Advance(w, "local", "ready") /\ UNCHANGED slotVars /\ Plain("local", "ready")
        BY <2>3 DEF LocalDialed, Plain
      <3> QED BY <3>1, PlainAdvance
    <2>4. CASE ReadyWritten(w)
      <3>1. Advance(w, "ready", "copy") /\ UNCHANGED slotVars /\ Plain("ready", "copy")
        BY <2>4 DEF ReadyWritten, Plain
      <3> QED BY <3>1, PlainAdvance
    <2>5. CASE CancelWritten(w)
      <3>1. cancelled' \subseteq Key
        BY <2>5 DEF CancelWritten, WriteCancel, ConnectorInv, ConnectorTypes
      <3> QED BY <2>5, <3>1, PlainStep DEF CancelWritten
    <2>6. CASE SessionFails(w)
      <3>1. work[w] # "none" /\ work[w] \in BeforeDial \union {"local", "ready"}
        BY <2>6 DEF SessionFails, BeforeDial
      <3> QED BY <2>6, <3>1, ReleaseInnerKeeps DEF SessionFails
    <2>7. CASE SessionEnds(w)
      <3>1. work[w] = "copy" /\ Advance(w, work[w], "ending") /\ ReleaseInner(w)
        BY <2>7 DEF SessionEnds, Advance
      <3> QED BY <3>1, ReleaseInnerKeeps
    <2> QED
      BY <1>2, <2>1, <2>2, <2>3, <2>4, <2>5, <2>6, <2>7, InnerAuthenticatedKeeps, EnterActiveKeeps,
         WorkerDoneKeeps
      DEF WorkerStep
  <1>3. CASE Returned \/ UNCHANGED connectorVars
    <2>1. UNCHANGED << ctlVars, work, sessions, workers, slotVars, cancelled, stopped >>
      BY <1>3 DEF Returned, connectorVars
    <2>2. ConnectorTypes'
      BY <2>1 DEF ConnectorInv, ConnectorTypes, ctlVars
    <2> QED BY <2>1, <2>2 DEF ConnectorInv, slotVars
  <1> QED BY <1>1, <1>2, <1>3 DEF ConnectorNext

\* Nobody holds anything at the start.
LEMMA ConnectorInitHolds == ASSUME ConnectorInit PROVE ConnectorInv
  <1>1. /\ work \in [Key -> WorkPhases] /\ \A k \in Key : work[k] = "none"
        /\ pendingHeld = {} /\ activeHeld = {} /\ clientHeld = {} /\ sessions = {}
        /\ pending = 0 /\ inUse = 0 /\ workers = 0 /\ clientActive = [cl \in Client |-> 0]
    BY DEF ConnectorInit, WorkPhases
  <1>2. Cardinality({}) = 0 /\ {Pending, Active, ActivePerClient} \subseteq Nat
    BY FS_EmptySet, SlotAssumption
  <1>3. PendingHolds(work, {}, 0) /\ ActiveHolds(work, {}, 0)
    BY <1>1, <1>2 DEF PendingHolds, ActiveHolds, BeforeDial, DialPhases
  <1>4. ClientHolds(work, {}, clientActive)
    <2>1. \A cl : OfClient({}, cl) = {}
      BY DEF OfClient
    <2> QED BY <1>1, <1>2, <2>1 DEF ClientHolds, DialPhases
  <1>5. WorkersHold(work, {}, 0)
    BY <1>1, <1>2 DEF WorkersHold
  <1>6. ConnectorTypes
    <2>1. ctl \in ControlPhases /\ epoch \in Epoch \union {None}
      BY DEF ConnectorInit, ControlPhases
    <2>2. usedEpochs \subseteq Epoch /\ cancelled \subseteq Key /\ stopped \in BOOLEAN
      BY DEF ConnectorInit
    <2>3. backoff \in ReconnectMin .. ReconnectMax
      BY BackoffAssumption DEF ConnectorInit
    <2> QED BY <1>1, <2>1, <2>2, <2>3 DEF ConnectorTypes
  <1> QED BY <1>1, <1>3, <1>4, <1>5, <1>6 DEF ConnectorInv

\* The invariant of the connector.
LEMMA ConnectorAlways == ConnectorSpec => []ConnectorInv
  <1>1. ConnectorInit => ConnectorInv
    BY ConnectorInitHolds
  <1>2. ConnectorInv /\ [ConnectorNext]_connectorVars => ConnectorInv'
    BY ConnectorKeeps
  <1> QED BY <1>1, <1>2, PTL DEF ConnectorSpec

\* The local SSH target is dialed by the holders of an active slot only, and
\* those count within the limits.
LEMMA GateHolds == ASSUME ConnectorInv PROVE SessionGate
  <1> DEFINE dialing == {w \in Key : work[w] \in {"local", "ready", "copy"}}
             before == {w \in Key : work[w] \in {"dial", "join", "inner", "slot"}}
  <1>1. /\ PendingHolds(work, pendingHeld, pending) /\ ActiveHolds(work, activeHeld, inUse)
        /\ ClientHolds(work, clientHeld, clientActive) /\ WorkersHold(work, sessions, workers)
    BY DEF ConnectorInv
  <1>2. /\ pendingHeld \in SUBSET Key /\ activeHeld \in SUBSET Key /\ clientHeld \in SUBSET Key
        /\ pending = Cardinality(pendingHeld) /\ inUse = Cardinality(activeHeld)
        /\ pending <= Pending /\ inUse <= Active
    BY <1>1 DEF PendingHolds, ActiveHolds, ClientHolds
  <1>3. SlotsExact
    <2>1. \A cl \in Client : clientActive[cl] = Cardinality({w \in clientHeld : InnerClient[w[2]] = cl})
      BY <1>1 DEF ClientHolds, OfClient
    <2>2. workers = Cardinality({w \in Key : work[w] # "none"}) /\ sessions = {w \in Key : work[w] # "none"}
      BY <1>1 DEF WorkersHold
    <2>3. ASSUME NEW w \in Key, work[w] = "none"
          PROVE  w \notin pendingHeld \union activeHeld \union clientHeld
      BY <1>1, <2>3 DEF PendingHolds, ActiveHolds, ClientHolds, BeforeDial, DialPhases
    <2> QED BY <1>2, <2>1, <2>2, <2>3 DEF SlotsExact
  <1>4. dialing = activeHeld
    BY <1>1, <1>2 DEF ActiveHolds, DialPhases
  <1>5. before \in SUBSET pendingHeld
    BY <1>1 DEF PendingHolds, BeforeDial
  <1>6. Cardinality(dialing) <= Active
    BY <1>2, <1>4
  <1>7. Cardinality(before) <= Pending
    <2>1. /\ IsFiniteSet(pendingHeld) /\ Cardinality(pendingHeld) \in Nat /\ Pending \in Nat
          /\ Cardinality(before) <= Cardinality(pendingHeld) /\ Cardinality(before) \in Nat
      <3>1. IsFiniteSet(pendingHeld) /\ Cardinality(pendingHeld) \in Nat
        BY <1>2, Keys
      <3>2. before \in SUBSET Key
        OBVIOUS
      <3>3. Cardinality(before) \in Nat
        BY <3>2, Keys
      <3> HIDE DEF before
      <3> QED BY <1>5, <3>1, <3>3, FS_Subset, SlotAssumption
    <2> HIDE DEF before
    <2> QED BY <1>2, <2>1
  <1>8. ASSUME Capability, NEW cl \in Client
        PROVE  Cardinality({w \in dialing : InnerClient[w[2]] = cl}) <= ActivePerClient
    <2> DEFINE mine == {w \in dialing : InnerClient[w[2]] = cl}
    <2>1. mine \in SUBSET OfClient(clientHeld, cl)
      BY <1>1, <1>8 DEF ClientHolds, OfClient, DialPhases
    <2>2. mine \in SUBSET Key /\ IsFiniteSet(OfClient(clientHeld, cl))
          /\ Cardinality(OfClient(clientHeld, cl)) \in Nat
      BY <1>2, Keys
    <2>3. clientActive[cl] = Cardinality(OfClient(clientHeld, cl)) /\ clientActive[cl] <= ActivePerClient
          /\ ActivePerClient \in Nat
      BY <1>1, <1>8, SlotAssumption DEF ClientHolds
    <2> HIDE DEF mine
    <2>4. Cardinality(mine) <= Cardinality(OfClient(clientHeld, cl)) /\ Cardinality(mine) \in Nat
      BY <2>1, <2>2, FS_Subset, Keys
    <2>5. Cardinality(mine) <= ActivePerClient
      BY <2>2, <2>3, <2>4
    <2> QED BY <2>5 DEF mine
  <1> QED BY <1>3, <1>6, <1>7, <1>8 DEF SessionGate, DialGate

\* connector.go: whatever call of a worker fails and however workers
\* interleave, no semaphore element is lost or given back twice, and the local
\* SSH target is dialed within the limits, for any keys, clients and limits.
THEOREM GateTheorem == ConnectorSpec => []SessionGate
  <1>1. ConnectorInv => SessionGate
    BY GateHolds
  <1> QED BY <1>1, ConnectorAlways, PTL

\* The phases and the backoff of Run have their types; the backoff stays within
\* the configured times.
THEOREM ConnectorTyped == ConnectorSpec => []ConnectorTypes
  <1>1. ConnectorInv => ConnectorTypes
    BY DEF ConnectorInv
  <1> QED BY <1>1, ConnectorAlways, PTL

\* runSession: a worker that gives up before READY has told the relay so, when
\* its control is still open.
THEOREM FailureTheorem == ConnectorSpec => FailureReported
  <1> DEFINE Reports == \A w \in Key :
               (work[w] \notin {"none", "copy", "ending"} /\ work'[w] = "ending"
                /\ ctl = "serve" /\ epoch = w[1]) => w \in cancelled'
  <1>1. ASSUME ConnectorInv, ConnectorNext PROVE Reports
    <2> SUFFICES ASSUME NEW w \in Key, work[w] \notin {"none", "copy", "ending"}, work'[w] = "ending",
                        ctl = "serve", epoch = w[1]
                 PROVE  w \in cancelled'
      OBVIOUS
    <2>1. work \in [Key -> WorkPhases]
      BY <1>1 DEF ConnectorInv, ConnectorTypes
    <2>2. CASE ControlStep
      <3>1. work' = work \/ \E k \in Key : work' = [work EXCEPT ![k] = "dial"]
        BY <2>2 DEF ControlStep, ControlConnected, SleepEnds, RunReturns, Stop, Registered, ControlEnds,
                    OpenRejected, OpenAccepted
      <3> QED BY <2>1, <3>1
    <2>3. ASSUME NEW k \in Key, WorkerStep(k) PROVE w \in cancelled'
      <3>1. CASE CancelWritten(k)
        BY <2>1, <3>1 DEF CancelWritten, WriteCancel
      <3>2. CASE SessionEnds(k)
        BY <2>1, <3>2 DEF SessionEnds, Advance
      <3>3. CASE ~CancelWritten(k) /\ ~SessionEnds(k)
        <4>1. PICK to \in {"join", "inner", "slot", "local", "ready", "copy", "cancel", "none"} :
                work' = [work EXCEPT ![k] = to]
          BY <2>3, <3>3 DEF WorkerStep, OuterConnected, JoinWritten, InnerAuthenticated, EnterActive,
                           LocalDialed, ReadyWritten, SessionFails, WorkerDone, Advance
        <4> QED BY <2>1, <4>1
      <3> QED BY <3>1, <3>2, <3>3
    <2>4. CASE Returned
      BY <2>4 DEF Returned, connectorVars
    <2> QED BY <1>1, <2>2, <2>3, <2>4 DEF ConnectorNext
  <1>2. ConnectorInv /\ [ConnectorNext]_connectorVars => [Reports]_connectorVars
    BY <1>1
  <1> QED BY <1>2, ConnectorAlways, PTL DEF ConnectorSpec, FailureReported
-----------------------------------------------------------------------------
(* The OPEN limiters of the relay and of the connector. *)

(* Refill times never run ahead of the clock, nor windows. *)
TimesInPast ==
  /\ markClock <= clock
  /\ \A l \in Limiter : last[l] <= clock /\ grantAt[l] <= last[l]

(* Before the first refill of the window nothing was granted in it; after  *)
(* it, credit left and credit spent together grew by the time refilled and *)
(* by what rounding may have added.                                        *)
WindowAccount ==
  \A l \in Limiter :
    IF last[l] < markClock - Lag(l)
    THEN spent[l] = markSpent[l]
    ELSE credit[l] + spent[l] - markSpent[l] <= Capacity + last[l] - markClock + Lag(l) + markDrift[l]

(* Credit since the last grant is not lost, but for rounding. *)
CreditKept ==
  \A l \in Limiter : credit[l] >= last[l] - grantAt[l] - drift[l] \/ credit[l] = Capacity

BucketInv == /\ TypeOK
        /\ TimesInPast
        /\ WindowAccount
        /\ CreditKept
        /\ PatienceIsServed

-----------------------------------------------------------------------------
(* A refill adds at most the time that passed, and all of it below the     *)
(* burst, but for one rounding; it takes nothing away.                     *)
Refills(l, elapsed, refilled) ==
  /\ refilled \in 0..Capacity /\ refilled >= credit[l]
  /\ elapsed <= 0 => refilled = credit[l]
  /\ elapsed > 0 => /\ refilled <= credit[l] + elapsed + Slip(l)
                    /\ refilled >= credit[l] + elapsed - Slip(l) \/ refilled = Capacity

(* allowOpen refills that way. *)
LEMMA RelayRefills ==
  ASSUME TypeOK, NEW elapsed \in Int
  PROVE  Refills("relay", elapsed, RelayRefill(elapsed))
BY BucketAssumption DEF TypeOK, Limiter, RelayRefill, Refills, Slip

(* The same of Allow. *)
LEMMA ConnectorRefills ==
  ASSUME TypeOK, NEW elapsed \in Int, NEW refilled \in ConnectorRefill(elapsed)
  PROVE  Refills("connector", elapsed, refilled)
BY BucketAssumption DEF TypeOK, Limiter, ConnectorRefill, Refills, Slip

(* One attempt preserves the invariant. *)
LEMMA ChargeKeeps ==
  ASSUME BucketInv, NEW l \in Limiter, NEW at \in Nat, at <= clock, at >= clock - Lag(l),
         NEW refilled, Refills(l, at - last[l], refilled), Charge(l, at, refilled)
  PROVE  BucketInv'
<1> USE BucketAssumption
<1> DEFINE grant == refilled >= Interval
<1>1. /\ refilled \in 0..Capacity
      /\ last[l] \in Nat /\ credit[l] \in 0..Capacity /\ spent[l] \in Nat
      /\ grantAt[l] \in Nat /\ markSpent[l] \in Nat
      /\ clock \in Nat /\ markClock \in Nat /\ Lag(l) \in Nat
      /\ drift[l] \in Nat /\ markDrift[l] \in Nat /\ Slip(l) \in Nat
  BY DEF BucketInv, TypeOK, Refills, Lag, Slip
<1>2. /\ last'[l] = IF at > last[l] THEN at ELSE last[l]
      /\ credit'[l] = IF grant THEN refilled - Interval ELSE refilled
      /\ spent'[l] = IF grant THEN spent[l] + Interval ELSE spent[l]
      /\ grantAt'[l] = IF grant THEN last'[l] ELSE grantAt[l]
      /\ waited'[l] = last'[l] - grantAt[l]
      /\ granted'[l] = grant
      /\ drift'[l] = IF grant THEN 0 ELSE drift[l] + (IF at > last[l] THEN Slip(l) ELSE 0)
      /\ markDrift'[l] = markDrift[l] + (IF at > last[l] THEN Slip(l) ELSE 0)
  BY DEF BucketInv, TypeOK, Charge, Drifted
<1>3. \A k \in Limiter \ {l} : /\ last'[k] = last[k] /\ credit'[k] = credit[k]
                               /\ spent'[k] = spent[k] /\ grantAt'[k] = grantAt[k]
                               /\ waited'[k] = waited[k] /\ granted'[k] = granted[k]
                               /\ drift'[k] = drift[k] /\ markDrift'[k] = markDrift[k]
  BY DEF BucketInv, TypeOK, Charge
<1>4. UNCHANGED <<clock, markClock, markSpent>>
  BY DEF Charge
<1>5. TypeOK'
  <2>1. last' \in [Limiter -> Nat] /\ grantAt' \in [Limiter -> Nat]
    BY <1>1 DEF BucketInv, TypeOK, Charge
  <2>2. credit' \in [Limiter -> 0..Capacity] /\ spent' \in [Limiter -> Nat]
    BY <1>1 DEF BucketInv, TypeOK, Charge
  <2>3. waited' \in [Limiter -> Int]
    BY <1>1, <2>1 DEF BucketInv, TypeOK, Charge
  <2>4. granted' \in [Limiter -> BOOLEAN]
    BY DEF BucketInv, TypeOK, Charge
  <2>5. drift' \in [Limiter -> Nat] /\ markDrift' \in [Limiter -> Nat]
    BY <1>1 DEF BucketInv, TypeOK, Charge, Drifted
  <2> QED BY <1>4, <2>1, <2>2, <2>3, <2>4, <2>5 DEF BucketInv, TypeOK
<1>6. TimesInPast'
  <2>1. last'[l] <= clock /\ grantAt'[l] <= last'[l]
    BY <1>1, <1>2 DEF BucketInv, TimesInPast
  <2> QED BY <1>3, <1>4, <2>1 DEF BucketInv, TimesInPast
<1>7. WindowAccount'
  <2> DEFINE Account(k) ==
        IF last'[k] < markClock - Lag(k)
        THEN spent'[k] = markSpent[k]
        ELSE credit'[k] + spent'[k] - markSpent[k] <= Capacity + last'[k] - markClock + Lag(k) + markDrift'[k]
  <2>1. credit'[l] + spent'[l] = refilled + spent[l]
    BY <1>1, <1>2
  <2>2. last'[l] >= markClock - Lag(l)
    BY <1>1, <1>2 DEF BucketInv, TimesInPast
  <2>3. ASSUME last[l] < markClock - Lag(l) PROVE Account(l)
    <3>1. spent[l] = markSpent[l]
      BY <2>3 DEF BucketInv, WindowAccount
    <3>2. last'[l] \in Nat /\ credit'[l] \in Int /\ spent'[l] \in Int /\ markDrift'[l] \in Nat
      BY <1>1, <1>2
    <3> QED BY <1>1, <2>1, <2>2, <3>1, <3>2
  <2>4. ASSUME last[l] >= markClock - Lag(l) PROVE Account(l)
    BY <1>1, <1>2, <2>1, <2>2, <2>4 DEF BucketInv, WindowAccount, Refills
  <2>5. Account(l)
    BY <2>3, <2>4, <1>1
  <2>6. \A k \in Limiter \ {l} : Account(k)
    BY <1>3 DEF BucketInv, WindowAccount
  <2> QED BY <1>4, <2>5, <2>6 DEF WindowAccount
<1>8. CreditKept'
  <2>1. credit'[l] >= last'[l] - grantAt'[l] - drift'[l] \/ credit'[l] = Capacity
    <3>1. grant => credit'[l] >= 0 /\ last'[l] - grantAt'[l] - drift'[l] = 0
      BY <1>1, <1>2
    <3>2. ~grant => refilled # Capacity /\ credit[l] # Capacity
      BY <1>1 DEF Refills
    <3>3. credit[l] # Capacity => credit[l] >= last[l] - grantAt[l] - drift[l]
      BY DEF BucketInv, CreditKept
    <3>4. ~grant => credit'[l] >= last'[l] - grantAt'[l] - drift'[l]
      BY <1>1, <1>2, <3>2, <3>3 DEF Refills
    <3>5. last'[l] - grantAt'[l] - drift'[l] \in Int /\ credit'[l] \in Int
      BY <1>1, <1>2
    <3> QED BY <3>1, <3>4, <3>5
  <2> QED BY <1>3, <2>1 DEF BucketInv, CreditKept
<1>9. PatienceIsServed'
  <2>1. waited'[l] >= Interval + drift'[l] => grant
    <3> SUFFICES ASSUME ~grant PROVE ~(waited'[l] >= Interval + drift'[l])
      OBVIOUS
    <3>1. credit'[l] >= last'[l] - grantAt'[l] - drift'[l] \/ credit'[l] = Capacity
      BY <1>8 DEF CreditKept
    <3>2. credit'[l] = refilled /\ refilled < Interval /\ Interval <= Capacity
      BY <1>1, <1>2
    <3> QED BY <1>1, <1>2, <3>1, <3>2
  <2> HIDE DEF grant
  <2>2. waited'[l] >= Interval + drift'[l] => granted'[l]
    BY <1>2, <2>1, Zenon
  <2> QED BY <1>3, <2>2 DEF BucketInv, PatienceIsServed
<1> QED BY <1>5, <1>6, <1>7, <1>8, <1>9 DEF BucketInv

(* The full buckets of the start. *)
LEMMA BucketInitHolds == Init => BucketInv
<1> SUFFICES ASSUME Init PROVE BucketInv
  OBVIOUS
<1> USE BucketAssumption DEF Init
<1>1. TypeOK
  BY DEF TypeOK
<1>2. TimesInPast /\ WindowAccount /\ CreditKept /\ PatienceIsServed
  BY DEF TimesInPast, WindowAccount, CreditKept, PatienceIsServed, Lag
<1> QED BY <1>1, <1>2 DEF BucketInv

(* Every step of the limiters keeps the invariant. *)
LEMMA BucketKeeps == BucketInv /\ [Next]_vars => BucketInv'
<1> SUFFICES ASSUME BucketInv, [Next]_vars PROVE BucketInv'
  OBVIOUS
<1> USE BucketAssumption
<1>1. CASE Tick
  <2>1. TypeOK' /\ TimesInPast'
    BY <1>1 DEF Tick, BucketInv, TypeOK, TimesInPast
  <2> QED BY <1>1, <2>1 DEF Tick, BucketInv, WindowAccount, CreditKept, PatienceIsServed
<1>2. CASE AllowOpen
  <2>1. PICK at \in {t \in 0..clock : t >= clock - MaxLag} :
          Charge("relay", at, RelayRefill(at - last["relay"]))
    BY <1>2 DEF AllowOpen
  <2>2. at \in Nat /\ at <= clock /\ at >= clock - Lag("relay")
    BY DEF BucketInv, TypeOK, Lag
  <2>3. at - last["relay"] \in Int /\ "relay" \in Limiter
    BY <2>2 DEF BucketInv, TypeOK, Limiter
  <2>4. Refills("relay", at - last["relay"], RelayRefill(at - last["relay"]))
    BY <2>3, RelayRefills DEF BucketInv
  <2> QED BY <2>1, <2>2, <2>3, <2>4, ChargeKeeps
<1>3. CASE Allow
  <2>1. clock \in Nat /\ clock <= clock /\ clock >= clock - Lag("connector")
    BY DEF BucketInv, TypeOK, Lag
  <2>2. clock - last["connector"] \in Int /\ "connector" \in Limiter
    BY <2>1 DEF BucketInv, TypeOK, Limiter
  <2>3. PICK refilled \in ConnectorRefill(clock - last["connector"]) :
          Charge("connector", clock, refilled)
    BY <1>3 DEF Allow
  <2>4. Refills("connector", clock - last["connector"], refilled)
    BY <2>2, <2>3, ConnectorRefills DEF BucketInv
  <2> QED BY <2>1, <2>2, <2>3, <2>4, ChargeKeeps
<1>4. CASE Mark
  <2>1. TypeOK' /\ TimesInPast' /\ CreditKept' /\ PatienceIsServed'
    BY <1>4 DEF Mark, BucketInv, TypeOK, TimesInPast, CreditKept, PatienceIsServed
  <2>2. WindowAccount'
    BY <1>4 DEF Mark, BucketInv, TypeOK, TimesInPast, WindowAccount, Lag
  <2> QED BY <2>1, <2>2 DEF BucketInv
<1>5. CASE UNCHANGED vars
  BY <1>5 DEF vars, BucketInv, TypeOK, TimesInPast, WindowAccount, CreditKept, PatienceIsServed
<1> QED BY <1>1, <1>2, <1>3, <1>4, <1>5 DEF Next

(* In every window allowOpen and Allow grant at most the burst plus what    *)
(* the time of the window refills, for every interval, burst, lag and       *)
(* rounding.                                                                *)
THEOREM RateIsBounded == Spec => []RateBound
<1>1. BucketInv => RateBound
  <2> SUFFICES ASSUME BucketInv, NEW l \in Limiter
               PROVE  spent[l] - markSpent[l] <= Capacity + (clock - markClock) + Lag(l) + markDrift[l]
    BY DEF RateBound
  <2>1. /\ last[l] \in Nat /\ credit[l] \in 0..Capacity /\ spent[l] \in Nat
        /\ markSpent[l] \in Nat /\ clock \in Nat /\ markClock \in Nat /\ Lag(l) \in Nat
        /\ Capacity \in Nat /\ markDrift[l] \in Nat
    BY BucketAssumption DEF BucketInv, TypeOK, Lag
  <2>2. last[l] <= clock /\ markClock <= clock
    BY DEF BucketInv, TimesInPast
  <2>3. IF last[l] < markClock - Lag(l)
        THEN spent[l] = markSpent[l]
        ELSE credit[l] + spent[l] - markSpent[l] <= Capacity + last[l] - markClock + Lag(l) + markDrift[l]
    BY DEF BucketInv, WindowAccount
  <2> QED BY <2>1, <2>2, <2>3
<1> QED BY <1>1, BucketInitHolds, BucketKeeps, PTL DEF Spec

(* Refused attempts lose no credit: whoever waits one interval after a      *)
(* grant, and in the connector one Rounding per retry more, is served.      *)
THEOREM PatienceTheorem == Spec => []PatienceIsServed
<1>1. BucketInv => PatienceIsServed
  BY DEF BucketInv
<1> QED BY <1>1, BucketInitHolds, BucketKeeps, PTL DEF Spec
=============================================================================
