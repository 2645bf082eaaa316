--------------------------- MODULE AdmissionGuard ---------------------------
(***************************************************************************)
(* Pre-authentication admission of the receiver-owned relay:               *)
(* internal/pairrelay/admission.go, as ServeHTTP and handleConnection call *)
(* it.  A request reads the clock, then takes the guard's lock; once       *)
(* admitted it holds one global and one per-peer unit until its release    *)
(* closure has run, which handleConnection calls early and ServeHTTP again *)
(* when it returns.                                                        *)
(*                                                                         *)
(* Tokens are whole numbers: a tick is long enough for the rates to be     *)
(* whole.  MaxGuardTime bounds the clock.                                  *)
(***************************************************************************)
EXTENDS Integers, FiniteSets

CONSTANTS
  Request, Peer, PeerOf,            \* HTTP requests and their admission peer
  MaxActive, MaxPeerActive,         \* 32 and 8 in the code
  MaxPeers,                         \* maxAdmissionPeers
  GlobalRate, GlobalBurst, PeerRate, PeerBurst,
  IdleTime,                         \* one minute
  MaxGuardTime

ASSUME RequestAssumption ==
  IsFiniteSet(Request) /\ IsFiniteSet(Peer) /\ PeerOf \in [Request -> Peer]
ASSUME GuardAssumption ==
  {MaxActive, MaxPeerActive, MaxPeers, GlobalRate, GlobalBurst, PeerRate, PeerBurst,
   IdleTime, MaxGuardTime} \subseteq Nat

VARIABLES
  guardClock,
  peers,                            \* keys of admissionGuard.peers
  tokens, updated, timeSeen, active,    \* fields of each admissionPeer in the map
  globalTokens, globalUpdated, globalActive,
  phase, now, released              \* per request: step, time read, once.Do done

peerVars == <<peers, tokens, updated, timeSeen, active>>
globalVars == <<globalTokens, globalUpdated, globalActive>>
guardVars == <<guardClock, peerVars, globalVars, phase, now, released>>

Never == -1                         \* the zero time.Time

LeastOf(a, b) == IF a <= b THEN a ELSE b
MostOf(a, b) == IF a >= b THEN a ELSE b

(* refill: what it leaves in p.tokens; p.updated becomes t in any case. *)
Refill(left, since, t, rate, burst) ==
  IF since = Never THEN burst ELSE LeastOf(burst, left + MostOf(0, t - since) * rate)

GuardInit ==
  /\ guardClock = 0
  /\ peers = {}
  /\ tokens = [p \in Peer |-> 0]
  /\ updated = [p \in Peer |-> Never]
  /\ timeSeen = [p \in Peer |-> 0]
  /\ active = [p \in Peer |-> 0]
  /\ globalTokens = 0
  /\ globalUpdated = Never
  /\ globalActive = 0
  /\ phase = [q \in Request |-> "idle"]
  /\ now = [q \in Request |-> 0]
  /\ released = {}

GuardTick ==
  /\ guardClock < MaxGuardTime
  /\ guardClock' = guardClock + 1
  /\ UNCHANGED <<peerVars, globalVars, phase, now, released>>

(* ServeHTTP evaluates time.Now() before acquire takes the lock. *)
ReadClock(q) ==
  /\ phase[q] = "idle"
  /\ phase' = [phase EXCEPT ![q] = "arrived"]
  /\ now' = [now EXCEPT ![q] = guardClock]
  /\ UNCHANGED <<guardClock, peerVars, globalVars, released>>

(* The entries a new peer may push out. *)
Idle(t) == {p \in peers : active[p] = 0 /\ t - timeSeen[p] > IdleTime}

(* What acquire computes under the lock: refilled tokens, the entries that *)
(* remain after eviction, and the units of the peer's entry.  A new entry  *)
(* starts from the zero admissionPeer.                                     *)
Known(q) == PeerOf[q] \in peers
GlobalLeft(q) == Refill(globalTokens, globalUpdated, now[q], GlobalRate, GlobalBurst)
PeerLeft(q) == Refill(tokens[PeerOf[q]], IF Known(q) THEN updated[PeerOf[q]] ELSE Never,
                      now[q], PeerRate, PeerBurst)
Kept(q) == IF Known(q) THEN peers ELSE peers \ Idle(now[q])
Held(q) == IF Known(q) THEN active[PeerOf[q]] ELSE 0

GlobalRefuses(q) == globalActive >= MaxActive \/ GlobalLeft(q) < 1
NoEntry(q) == ~Known(q) /\ Cardinality(Kept(q)) >= MaxPeers
PeerRefuses(q) == Held(q) >= MaxPeerActive \/ PeerLeft(q) < 1

Decide(q, outcome) ==
  /\ phase[q] = "arrived"
  /\ phase' = [phase EXCEPT ![q] = outcome]
  /\ globalUpdated' = now[q]
  /\ UNCHANGED <<guardClock, now>>

(* The peer's entry after refill, with n units and left tokens. *)
TouchPeer(q, left, n) ==
  /\ peers' = Kept(q) \union {PeerOf[q]}
  /\ tokens' = [tokens EXCEPT ![PeerOf[q]] = left]
  /\ updated' = [updated EXCEPT ![PeerOf[q]] = now[q]]
  /\ timeSeen' = [timeSeen EXCEPT ![PeerOf[q]] = now[q]]
  /\ active' = [active EXCEPT ![PeerOf[q]] = n]

(* acquire refuses: the refill it did stays. *)
Refuse(q) ==
  /\ Decide(q, "idle")
  /\ globalTokens' = GlobalLeft(q)
  /\ \/ GlobalRefuses(q) /\ UNCHANGED peerVars
     \/ /\ ~GlobalRefuses(q)
        /\ NoEntry(q)
        /\ peers' = Kept(q)
        /\ UNCHANGED <<tokens, updated, timeSeen, active>>
     \/ /\ ~GlobalRefuses(q)
        /\ ~NoEntry(q)
        /\ PeerRefuses(q)
        /\ TouchPeer(q, PeerLeft(q), Held(q))
  /\ UNCHANGED <<globalActive, released>>

(* acquire admits: one token and one unit, of the peer and of the whole. *)
Admit(q) ==
  /\ ~GlobalRefuses(q)
  /\ ~NoEntry(q)
  /\ ~PeerRefuses(q)
  /\ Decide(q, "serving")
  /\ TouchPeer(q, PeerLeft(q) - 1, Held(q) + 1)
  /\ globalTokens' = GlobalLeft(q) - 1
  /\ globalActive' = globalActive + 1
  /\ released' = released \ {q}

(* Mutant: the closure runs its body every time. *)
ReleaseAgain(q) ==
  /\ active' = [active EXCEPT ![PeerOf[q]] = @ - 1]
  /\ globalActive' = globalActive - 1
  /\ released' = released \union {q}

(* The closure acquire returned, guarded by sync.Once. *)
Release(q) ==
  IF q \in released
  THEN UNCHANGED <<active, globalActive, released>>
  ELSE /\ active' = [active EXCEPT ![PeerOf[q]] = @ - 1]
       /\ globalActive' = globalActive - 1
       /\ released' = released \union {q}

(* releaseAdmission: the connection is authenticated and moves to the      *)
(* limits of its operation.                                                *)
ReleaseAdmission(q) ==
  /\ phase[q] = "serving"
  /\ Release(q)
  /\ phase' = [phase EXCEPT ![q] = "authenticated"]
  /\ UNCHANGED <<guardClock, peers, tokens, updated, timeSeen, globalTokens, globalUpdated,
                 now>>

(* ServeHTTP returns and its deferred release runs. *)
ServeReturns(q) ==
  /\ phase[q] \in {"serving", "authenticated"}
  /\ Release(q)
  /\ phase' = [phase EXCEPT ![q] = "idle"]
  /\ UNCHANGED <<guardClock, peers, tokens, updated, timeSeen, globalTokens, globalUpdated,
                 now>>

GuardNext ==
  \/ GuardTick
  \/ \E q \in Request : ReadClock(q) \/ Refuse(q) \/ Admit(q) \/ ReleaseAdmission(q) \/ ServeReturns(q)

GuardSpec == GuardInit /\ [][GuardNext]_guardVars

-----------------------------------------------------------------------------
(* Properties. *)

Holding == {q \in Request : phase[q] \in {"serving", "authenticated"} /\ q \notin released}

(* The units in use are exactly those of requests whose release has not     *)
(* run, globally and in the entry of each peer; no entry with a unit out is *)
(* evicted, so a peer cannot start again from an empty entry.               *)
UnitsExact ==
  /\ globalActive = Cardinality(Holding)
  /\ \A p \in Peer : LET mine == {q \in Holding : PeerOf[q] = p}
                     IN /\ p \in peers => active[p] = Cardinality(mine)
                        /\ mine # {} => p \in peers
=============================================================================
