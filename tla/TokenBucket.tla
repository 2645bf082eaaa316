---------------------------- MODULE TokenBucket ----------------------------
(***************************************************************************)
(* The two OPEN limiters of the v1 profile: clientAdmission.allowOpen of   *)
(* the relay (internal/relay/service.go) and openLimiter.Allow of the      *)
(* connector (internal/connector/limits.go).                               *)
(*                                                                         *)
(* Both keep credit in time: one token is Interval, the burst is Capacity. *)
(* The connector's fractional tokens are its credit divided by Interval.   *)
(* They are a float64: the quotient and the sum of a refill are rounded,    *)
(* each refill by at most Rounding of credit, in either direction (taking   *)
(* a token is exact).  The relay counts whole nanoseconds.                  *)
(* The connector reads the clock under its lock; the relay's callers read  *)
(* it before they take Service.mu, so the time allowOpen sees may be up to *)
(* MaxLag old and out of order.                                            *)
(***************************************************************************)
EXTENDS Integers

CONSTANTS Interval, Capacity, Rounding, MaxLag, MaxTime

ASSUME BucketAssumption ==
  /\ Interval \in Nat \ {0}
  /\ Capacity \in Nat /\ Capacity >= Interval
  /\ Rounding \in Nat
  /\ MaxLag \in Nat
  /\ MaxTime \in Nat

VARIABLES
  clock,
  credit, last,          \* openCredit and lastOpenRefill; tokens and last
  spent,                 \* credit granted since the start
  granted,               \* the last attempt was granted
  grantAt,               \* refill time of the last granted attempt
  waited,                \* refill time passed from there to the last attempt
  markClock, markSpent,  \* an arbitrary earlier moment, and what was spent by then
  drift, markDrift       \* what rounding may amount to since the last grant, since the mark

Limiter == {"relay", "connector"}
vars == <<clock, credit, last, spent, granted, grantAt, waited, markClock, markSpent, drift, markDrift>>

Lag(l) == IF l = "relay" THEN MaxLag ELSE 0
Slip(l) == IF l = "connector" THEN Rounding ELSE 0

Init ==
  /\ clock = 0
  /\ credit = [l \in Limiter |-> Capacity]
  /\ last = [l \in Limiter |-> 0]
  /\ spent = [l \in Limiter |-> 0]
  /\ granted = [l \in Limiter |-> TRUE]
  /\ grantAt = [l \in Limiter |-> 0]
  /\ waited = [l \in Limiter |-> 0]
  /\ markClock = 0
  /\ markSpent = [l \in Limiter |-> 0]
  /\ drift = [l \in Limiter |-> 0]
  /\ markDrift = [l \in Limiter |-> 0]

Tick ==
  /\ clock < MaxTime
  /\ clock' = clock + 1
  /\ UNCHANGED <<credit, last, spent, granted, grantAt, waited, markClock, markSpent, drift, markDrift>>

(* What a full-precision refill leaves in the bucket. *)
RelayRefill(elapsed) ==
  LET missing == Capacity - credit["relay"]
  IN IF elapsed <= 0 THEN credit["relay"]
     ELSE IF missing <= 0 \/ elapsed >= missing THEN Capacity
     ELSE credit["relay"] + elapsed

(* The credits a rounded refill may leave: never less than before it. *)
ConnectorRefill(elapsed) ==
  LET held == credit["connector"]
      sum == {c \in held..(held + elapsed + Rounding) : c >= held + elapsed - Rounding}
  IN IF elapsed <= 0 THEN {held}
     ELSE {IF c > Capacity THEN Capacity ELSE c : c \in sum}

(* What a refill at now adds to the possible rounding. *)
Drifted(l, now) == IF now > last[l] THEN Slip(l) ELSE 0

(* Mutant: time that went backwards is taken for the new refill time. *)
ChargeBackwards(l, now, refilled) ==
  /\ last' = [last EXCEPT ![l] = now]
  /\ waited' = [waited EXCEPT ![l] = last'[l] - grantAt[l]]
  /\ grantAt' = [grantAt EXCEPT ![l] = IF refilled >= Interval THEN last'[l] ELSE @]
  /\ granted' = [granted EXCEPT ![l] = refilled >= Interval]
  /\ credit' = [credit EXCEPT ![l] = IF refilled >= Interval THEN refilled - Interval ELSE refilled]
  /\ spent' = [spent EXCEPT ![l] = IF refilled >= Interval THEN @ + Interval ELSE @]
  /\ drift' = [drift EXCEPT ![l] = IF refilled >= Interval THEN 0 ELSE @ + Drifted(l, now)]
  /\ markDrift' = [markDrift EXCEPT ![l] = @ + Drifted(l, now)]
  /\ UNCHANGED <<clock, markClock, markSpent>>

(* Mutant: a refused attempt throws the partial credit away. *)
ChargeForgets(l, now, refilled) ==
  /\ last' = [last EXCEPT ![l] = IF now > @ THEN now ELSE @]
  /\ waited' = [waited EXCEPT ![l] = last'[l] - grantAt[l]]
  /\ grantAt' = [grantAt EXCEPT ![l] = IF refilled >= Interval THEN last'[l] ELSE @]
  /\ granted' = [granted EXCEPT ![l] = refilled >= Interval]
  /\ credit' = [credit EXCEPT ![l] = IF refilled >= Interval THEN refilled - Interval ELSE 0]
  /\ spent' = [spent EXCEPT ![l] = IF refilled >= Interval THEN @ + Interval ELSE @]
  /\ drift' = [drift EXCEPT ![l] = IF refilled >= Interval THEN 0 ELSE @ + Drifted(l, now)]
  /\ markDrift' = [markDrift EXCEPT ![l] = @ + Drifted(l, now)]
  /\ UNCHANGED <<clock, markClock, markSpent>>

(* The rest of an attempt: the refill time moves forward only, and a whole *)
(* token is taken or nothing.                                              *)
Charge(l, now, refilled) ==
  /\ last' = [last EXCEPT ![l] = IF now > @ THEN now ELSE @]
  /\ waited' = [waited EXCEPT ![l] = last'[l] - grantAt[l]]
  /\ grantAt' = [grantAt EXCEPT ![l] = IF refilled >= Interval THEN last'[l] ELSE @]
  /\ granted' = [granted EXCEPT ![l] = refilled >= Interval]
  /\ credit' = [credit EXCEPT ![l] = IF refilled >= Interval THEN refilled - Interval ELSE refilled]
  /\ spent' = [spent EXCEPT ![l] = IF refilled >= Interval THEN @ + Interval ELSE @]
  /\ drift' = [drift EXCEPT ![l] = IF refilled >= Interval THEN 0 ELSE @ + Drifted(l, now)]
  /\ markDrift' = [markDrift EXCEPT ![l] = @ + Drifted(l, now)]
  /\ UNCHANGED <<clock, markClock, markSpent>>

(* consumeClientCarrier with a time read at most MaxLag ago. *)
AllowOpen ==
  \E now \in {t \in 0..clock : t >= clock - MaxLag} :
    Charge("relay", now, RelayRefill(now - last["relay"]))

(* openLimiter.Allow *)
Allow ==
  \E refilled \in ConnectorRefill(clock - last["connector"]) :
    Charge("connector", clock, refilled)

(* Some observer starts a window now. *)
Mark ==
  /\ markClock' = clock
  /\ markSpent' = spent
  /\ markDrift' = [l \in Limiter |-> 0]
  /\ UNCHANGED <<clock, credit, last, spent, granted, grantAt, waited, drift>>

Next == Tick \/ AllowOpen \/ Allow \/ Mark

Spec == Init /\ [][Next]_vars

-----------------------------------------------------------------------------
(* Properties. *)

TypeOK ==
  /\ clock \in Nat
  /\ credit \in [Limiter -> 0..Capacity]
  /\ last \in [Limiter -> Nat]
  /\ spent \in [Limiter -> Nat]
  /\ granted \in [Limiter -> BOOLEAN]
  /\ grantAt \in [Limiter -> Nat]
  /\ waited \in [Limiter -> Int]
  /\ markClock \in Nat
  /\ markSpent \in [Limiter -> Nat]
  /\ drift \in [Limiter -> Nat]
  /\ markDrift \in [Limiter -> Nat]

(* In every window, whenever it starts, a limiter grants at most one burst  *)
(* plus one token per Interval; reading the clock before taking the lock    *)
(* costs the relay at most the lag once, not once per race, and the         *)
(* connector's fractions at most one Rounding per refill.                   *)
RateBound ==
  \A l \in Limiter :
    spent[l] - markSpent[l] <= Capacity + (clock - markClock) + Lag(l) + markDrift[l]

(* An attempt that comes a whole Interval after the last grant succeeds:    *)
(* refused attempts in between lose no fraction of a token, so retrying     *)
(* early never delays a client.  In the connector each retry may cost one   *)
(* Rounding and no more: ten retries 100 ms apart sum to just under one     *)
(* token, so the attempt at the whole second is still refused.              *)
PatienceIsServed == \A l \in Limiter : waited[l] >= Interval + drift[l] => granted[l]
=============================================================================
