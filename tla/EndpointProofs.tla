---------------------------- MODULE EndpointProofs ----------------------------
(***************************************************************************)
(* Proofs about the endpoints of a tunnel: the carriers that openClient    *)
(* and Accept hand over, for any number of concurrent openings and dials,  *)
(* the worker of a Target, for any semaphore, and the deadlines of a v1    *)
(* session, for any timeouts.                                              *)
(***************************************************************************)
EXTENDS TunnelLifecycle, RelayLink, ReceiverWorker, SessionDeadlines, FiniteSetTheorems, TLAPS

-----------------------------------------------------------------------------
(* The openings of a carrier. *)

OpenAts == {"idle", "lock", "renew", "pause", "open", "promote", "session", "settle", "live"}
Contexts == {"live", "opening", "policy"}
Budgets == {"off", "armed", "fired", "done", "stopped"}
OpenRecord == [at : OpenAts, dial : 0 .. MaxDials, ctx : Contexts, budget : Budgets, read : Nat]
Raws == {"none", "open", "closed", "aborted", "opening", "policy"}
Guards == {"off", "armed", "due", "fired", "done", "stopped"}
LinkRecord == [raw : Raws, deadline : BOOLEAN, guard : Guards]

\* The steps with a current connection, and those after the promotion.
Dialled == {"open", "promote", "session", "settle", "live"}
Promoted == {"session", "settle", "live"}

\* The steps under the client operation lock.
Locked == {"renew", "pause", "open", "promote", "session", "settle"}

\* What ended the current connection l of an opening r: its own pending guard,
\* before the promotion, or the end of its context.
CarrierHolds(r, l) ==
    /\ l.raw # "open" => \/ l.raw = "aborted" /\ l.guard = "done"
                         \/ l.raw = r.ctx /\ r.ctx # "live"
    /\ r.at \in Promoted => l.guard = "stopped" /\ ~l.deadline

\* The opening r of o with its connections L.
OpeningHolds(o, r, L) ==
    /\ r \in OpenRecord /\ L \in [1 .. MaxDials -> LinkRecord]
    /\ o \in Accepting => r.budget = "off" /\ r.at \notin {"lock", "renew", "settle"}
    /\ r.ctx = "opening" => r.budget = "done"
    /\ r.at \in Dialled => r.dial >= 1 /\ CarrierHolds(r, L[r.dial])
    /\ r.at = "live" => r.budget \notin {"armed", "fired", "done"}
    /\ \A n \in 1 .. MaxDials : L[n].raw = "open" => n = r.dial /\ r.at \in Dialled

LinkTypes ==
    /\ open \in [Opening -> OpenRecord]
    /\ link \in [Opening -> [1 .. MaxDials -> LinkRecord]]
    /\ opLock \subseteq Opening
    /\ record \in Nat
LinkInv ==
    /\ LinkTypes
    /\ \A o \in Opening : OpeningHolds(o, open[o], link[o])
    /\ RecordFresh

\* Opening o goes on as r with the connections L, the others stay.
Goes(o, r, L) ==
    /\ open' = [open EXCEPT ![o] = r]
    /\ link' = [link EXCEPT ![o] = L]

\* Such a step keeps the invariant of every opening when it keeps that of o.
LEMMA OpeningGoes ==
    ASSUME LinkInv, NEW o \in Opening, NEW r, NEW L, Goes(o, r, L), OpeningHolds(o, r, L)
    PROVE  /\ open' \in [Opening -> OpenRecord]
           /\ link' \in [Opening -> [1 .. MaxDials -> LinkRecord]]
           /\ \A p \in Opening : OpeningHolds(p, open'[p], link'[p])
           /\ open'[o] = r /\ \A p \in Opening : p # o => open'[p] = open[p]
  <1>1. open \in [Opening -> OpenRecord] /\ link \in [Opening -> [1 .. MaxDials -> LinkRecord]]
    BY DEF LinkInv, LinkTypes
  <1>2. r \in OpenRecord /\ L \in [1 .. MaxDials -> LinkRecord]
    BY DEF OpeningHolds
  <1>3. open'[o] = r /\ link'[o] = L
        /\ \A p \in Opening : p # o => open'[p] = open[p] /\ link'[p] = link[p]
    BY <1>1 DEF Goes
  <1>4. open' \in [Opening -> OpenRecord]
    BY <1>1, <1>2 DEF Goes
  <1>5. link' \in [Opening -> [1 .. MaxDials -> LinkRecord]]
    BY <1>1, <1>2 DEF Goes
  <1>6. \A p \in Opening : OpeningHolds(p, open'[p], link'[p])
    BY <1>3 DEF LinkInv
  <1> QED BY <1>3, <1>4, <1>5, <1>6

\* A step that takes no lock, writes nothing and reads nothing.
LEMMA Quiet ==
    ASSUME LinkInv, NEW o \in Opening, NEW r, NEW L, Goes(o, r, L), OpeningHolds(o, r, L),
           opLock' = opLock, record' = record,
           \/ o \in Accepting \/ r.at \notin Locked
           \/ open[o].at \in Locked /\ r.read = open[o].read
    PROVE  LinkInv'
  <1>1. /\ open' \in [Opening -> OpenRecord]
        /\ link' \in [Opening -> [1 .. MaxDials -> LinkRecord]]
        /\ \A p \in Opening : OpeningHolds(p, open'[p], link'[p])
        /\ open'[o] = r /\ \A p \in Opening : p # o => open'[p] = open[p]
    BY OpeningGoes
  <1>2. LinkTypes'
    BY <1>1 DEF LinkInv, LinkTypes
  <1>3. RecordFresh'
    BY <1>1 DEF LinkInv, RecordFresh, Locked
  <1> QED BY <1>1, <1>2, <1>3 DEF LinkInv

\* A step that gives the lock back.
LEMMA Unlocks ==
    ASSUME LinkInv, NEW o \in Opening, NEW r, NEW L, Goes(o, r, L), OpeningHolds(o, r, L),
           opLock' = opLock \ {o}, record' = record, r.at \notin Locked
    PROVE  LinkInv'
  <1>1. /\ open' \in [Opening -> OpenRecord]
        /\ link' \in [Opening -> [1 .. MaxDials -> LinkRecord]]
        /\ \A p \in Opening : OpeningHolds(p, open'[p], link'[p])
        /\ open'[o] = r /\ \A p \in Opening : p # o => open'[p] = open[p]
    BY OpeningGoes
  <1>2. LinkTypes'
    BY <1>1 DEF LinkInv, LinkTypes
  <1>3. RecordFresh'
    BY <1>1 DEF LinkInv, RecordFresh, Locked
  <1> QED BY <1>1, <1>2, <1>3 DEF LinkInv

\* What the invariant says of one opening.
LEMMA OpeningFacts ==
    ASSUME LinkInv, NEW o \in Opening
    PROVE  /\ open \in [Opening -> OpenRecord] /\ link \in [Opening -> [1 .. MaxDials -> LinkRecord]]
           /\ OpeningHolds(o, open[o], link[o])
           /\ open[o] \in OpenRecord /\ link[o] \in [1 .. MaxDials -> LinkRecord]
           /\ MaxDials \in Nat /\ MaxDials >= 1
  BY LinkBounds DEF LinkInv, LinkTypes

\* A new call starts with no connection and no lock.
LEMMA StartsKeep ==
    ASSUME LinkInv, NEW o \in Opening, OpenClient(o) \/ Accept(o)
    PROVE  LinkInv'
  <1>0. /\ open \in [Opening -> OpenRecord] /\ link \in [Opening -> [1 .. MaxDials -> LinkRecord]]
        /\ OpeningHolds(o, open[o], link[o]) /\ link[o] \in [1 .. MaxDials -> LinkRecord]
        /\ open[o].at = "idle"
    BY OpeningFacts DEF OpenClient, Accept
  <1>1. \A n \in 1 .. MaxDials : link[o][n].raw # "open"
    BY <1>0 DEF OpeningHolds, Dialled
  <1>2. CASE OpenClient(o)
    <2> DEFINE r == [Closed EXCEPT !.at = "lock", !.budget = "armed"]
    <2>1. r \in OpenRecord /\ r.at = "lock" /\ r.ctx = "live" /\ r.budget = "armed"
      <3>1. Closed \in OpenRecord
        BY LinkBounds DEF Closed, OpenRecord, OpenAts, Contexts, Budgets
      <3>2. r \in OpenRecord
        BY <3>1 DEF OpenRecord, OpenAts, Budgets
      <3>3. r.at = "lock" /\ r.ctx = "live" /\ r.budget = "armed"
        BY DEF Closed
      <3> QED BY <3>2, <3>3
    <2>2. Goes(o, r, link[o]) /\ o \notin Accepting /\ opLock' = opLock /\ record' = record
      BY <1>0, <1>2 DEF OpenClient, Goes
    <2> HIDE DEF r
    <2>3. OpeningHolds(o, r, link[o])
      BY <1>0, <1>1, <2>1, <2>2 DEF OpeningHolds, Dialled
    <2> QED BY <2>1, <2>2, <2>3, Quiet DEF Locked
  <1>3. CASE Accept(o)
    <2> DEFINE r == [Closed EXCEPT !.at = "pause"]
    <2>1. r \in OpenRecord /\ r.at = "pause" /\ r.ctx = "live" /\ r.budget = "off"
      BY LinkBounds DEF Closed, OpenRecord, OpenAts, Contexts, Budgets
    <2>2. Goes(o, r, link[o]) /\ o \in Accepting /\ opLock' = opLock /\ record' = record
      BY <1>0, <1>3 DEF Accept, Goes
    <2> HIDE DEF r
    <2>3. OpeningHolds(o, r, link[o])
      BY <1>0, <1>1, <2>1, <2>2 DEF OpeningHolds, Dialled
    <2> QED BY <2>1, <2>2, <2>3, Quiet
  <1> QED BY <1>2, <1>3

\* release, after every connection of the opening has been closed.
LEMMA ReleasesKeep ==
    ASSUME LinkInv, NEW o \in Opening, NEW L \in [1 .. MaxDials -> LinkRecord], Releases(o, L),
           \A n \in 1 .. MaxDials : L[n].raw # "open", record' = record
    PROVE  LinkInv'
  <1> DEFINE M == [n \in 1 .. MaxDials |-> IF L[n].raw = "open" THEN L[n] ELSE NoLink]
  <1>1. Closed \in OpenRecord /\ Closed.at = "idle" /\ Closed.ctx = "live" /\ Closed.budget = "off"
    BY LinkBounds DEF Closed, OpenRecord, OpenAts, Contexts, Budgets
  <1>2. NoLink \in LinkRecord /\ NoLink.raw = "none"
    BY DEF NoLink, LinkRecord, Raws, Guards
  <1>3. M \in [1 .. MaxDials -> LinkRecord] /\ \A n \in 1 .. MaxDials : M[n].raw # "open"
    BY <1>2
  <1>4. Goes(o, Closed, M) /\ opLock' = opLock \ {o}
    BY DEF Releases, Goes
  <1> HIDE DEF M
  <1>5. OpeningHolds(o, Closed, M)
    BY <1>1, <1>3 DEF OpeningHolds, Dialled
  <1> QED BY <1>1, <1>4, <1>5, Unlocks DEF Locked

\* closing the current connection leaves none open.
LEMMA ClosesAll ==
    ASSUME LinkInv, NEW o \in Opening, open[o].at \in Dialled
    PROVE  /\ Closes(o) \in [1 .. MaxDials -> LinkRecord]
           /\ \A n \in 1 .. MaxDials : Closes(o)[n].raw # "open"
  <1>1. /\ OpeningHolds(o, open[o], link[o]) /\ link[o] \in [1 .. MaxDials -> LinkRecord]
        /\ open[o].dial \in 1 .. MaxDials
    BY OpeningFacts DEF OpeningHolds, OpenRecord
  <1>2. ASSUME NEW l \in LinkRecord PROVE [l EXCEPT !.raw = "closed"] \in LinkRecord
    BY DEF LinkRecord, Raws
  <1>3. [link[o][open[o].dial] EXCEPT !.raw = "closed"] \in LinkRecord
    BY <1>1, <1>2
  <1>4. Closes(o) \in [1 .. MaxDials -> LinkRecord]
    BY <1>1, <1>3 DEF Closes
  <1>5. ASSUME NEW n \in 1 .. MaxDials PROVE Closes(o)[n].raw # "open"
    <2>1. CASE n = open[o].dial
      <3>1. Closes(o)[n] = [link[o][n] EXCEPT !.raw = "closed"]
        BY <1>1, <2>1 DEF Closes
      <3>2. link[o][n] \in LinkRecord
        BY <1>1
      <3> QED BY <3>1, <3>2 DEF LinkRecord
    <2>2. CASE n # open[o].dial
      BY <1>1, <2>2 DEF Closes, OpeningHolds
    <2> QED BY <2>1, <2>2
  <1> QED BY <1>4, <1>5

\* The ends of an opening.
LEMMA EndsKeep ==
    ASSUME LinkInv, NEW o \in Opening,
           GiveUp(o) \/ LastDialFailed(o) \/ SessionFails(o) \/ StreamEnds(o)
    PROVE  LinkInv'
  <1>1. CASE GiveUp(o) \/ LastDialFailed(o)
    <2>1. /\ Releases(o, link[o]) /\ record' = record
          /\ open[o].at = "lock" \/ open[o].at = "renew" \/ open[o].at = "pause"
      BY <1>1 DEF GiveUp, LastDialFailed
    <2>2. OpeningHolds(o, open[o], link[o]) /\ link[o] \in [1 .. MaxDials -> LinkRecord]
      BY OpeningFacts
    <2>3. \A n \in 1 .. MaxDials : link[o][n].raw # "open"
      BY <2>1, <2>2 DEF OpeningHolds, Dialled
    <2> QED BY <2>1, <2>2, <2>3, ReleasesKeep
  <1>2. CASE SessionFails(o) \/ StreamEnds(o)
    <2>1. Releases(o, Closes(o)) /\ record' = record /\ open[o].at \in Dialled
      BY <1>2 DEF SessionFails, StreamEnds, Dialled
    <2> QED BY <2>1, ClosesAll, ReleasesKeep
  <1> QED BY <1>1, <1>2

\* An opening whose timer won, or whose context ended, gives its carrier up;
\* the others keep it and nothing that could end it.
LEMMA SettleKeeps == ASSUME LinkInv, NEW o \in Opening, Settle(o) PROVE LinkInv'
  <1>1. CASE ~(open[o].budget = "armed" /\ ~Cancelled(o))
    <2>1. Releases(o, Closes(o)) /\ record' = record /\ open[o].at \in Dialled
      BY <1>1 DEF Settle, Dialled
    <2> QED BY <2>1, ClosesAll, ReleasesKeep
  <1>2. CASE open[o].budget = "armed" /\ ~Cancelled(o)
    <2> DEFINE r == [open[o] EXCEPT !.at = "live", !.budget = "stopped"]
    <2>1. /\ open \in [Opening -> OpenRecord] /\ link \in [Opening -> [1 .. MaxDials -> LinkRecord]]
          /\ OpeningHolds(o, open[o], link[o]) /\ open[o] \in OpenRecord
      BY OpeningFacts
    <2>2. /\ open[o].at = "settle" /\ open[o].budget = "armed" /\ open[o].ctx = "live"
          /\ open' = [open EXCEPT ![o].at = "live", ![o].budget = "stopped"]
          /\ opLock' = opLock \ {o} /\ link' = link /\ record' = record
      BY <1>2 DEF Settle, Cancelled
    <2>3. Goes(o, r, link[o])
      BY <2>1, <2>2 DEF Goes
    <2>4. r \in OpenRecord
      BY <2>1 DEF OpenRecord, OpenAts, Budgets
    <2>5. /\ r.at = "live" /\ r.budget = "stopped" /\ r.ctx = open[o].ctx /\ r.dial = open[o].dial
      BY <2>1 DEF OpenRecord
    <2> HIDE DEF r
    <2>6. OpeningHolds(o, r, link[o])
      BY <2>1, <2>2, <2>4, <2>5 DEF OpeningHolds, CarrierHolds, Dialled, Promoted
    <2> QED BY <2>2, <2>3, <2>5, <2>6, Unlocks DEF Locked
  <1> QED BY <1>1, <1>2

\* The lock is free when it is taken, and the record is read under it.
LEMMA TakeLockKeeps == ASSUME LinkInv, NEW o \in Opening, TakeLock(o) PROVE LinkInv'
  <1> DEFINE r == [open[o] EXCEPT !.at = "renew", !.read = record]
  <1>1. /\ open \in [Opening -> OpenRecord] /\ link \in [Opening -> [1 .. MaxDials -> LinkRecord]]
        /\ OpeningHolds(o, open[o], link[o]) /\ open[o] \in OpenRecord /\ record \in Nat
        /\ opLock \subseteq Opening
    BY OpeningFacts DEF LinkInv, LinkTypes
  <1>2. /\ open[o].at = "lock" /\ opLock = {} /\ opLock' = {o} /\ link' = link /\ record' = record
        /\ open' = [open EXCEPT ![o].at = "renew", ![o].read = record]
    BY DEF TakeLock
  <1>3. Goes(o, r, link[o])
    BY <1>1, <1>2 DEF Goes
  <1>4. r \in OpenRecord
    BY <1>1 DEF OpenRecord, OpenAts
  <1>5. /\ r.at = "renew" /\ r.budget = open[o].budget /\ r.ctx = open[o].ctx /\ r.read = record
        /\ r.dial = open[o].dial
    BY <1>1 DEF OpenRecord
  <1> HIDE DEF r
  <1>6. OpeningHolds(o, r, link[o])
    BY <1>1, <1>2, <1>4, <1>5 DEF OpeningHolds, Dialled
  <1>7. /\ open' \in [Opening -> OpenRecord]
        /\ link' \in [Opening -> [1 .. MaxDials -> LinkRecord]]
        /\ \A p \in Opening : OpeningHolds(p, open'[p], link'[p])
        /\ open'[o] = r /\ \A p \in Opening : p # o => open'[p] = open[p]
    BY <1>3, <1>6, OpeningGoes
  <1>8. RecordFresh'
    BY <1>2, <1>5, <1>7 DEF LinkInv, RecordFresh
  <1>9. LinkTypes'
    BY <1>1, <1>2, <1>7 DEF LinkTypes
  <1> QED BY <1>7, <1>8, <1>9 DEF LinkInv

\* The holder of the lock writes what it has read, changed.
LEMMA SaveRecordKeeps == ASSUME LinkInv, NEW o \in Opening, SaveRecord(o) PROVE LinkInv'
  <1> DEFINE r == [open[o] EXCEPT !.read = record']
  <1>1. /\ open \in [Opening -> OpenRecord] /\ link \in [Opening -> [1 .. MaxDials -> LinkRecord]]
        /\ OpeningHolds(o, open[o], link[o]) /\ open[o] \in OpenRecord /\ record \in Nat
        /\ opLock \subseteq Opening
    BY OpeningFacts DEF LinkInv, LinkTypes
  <1>2. /\ open[o].at = "renew" /\ opLock' = opLock /\ link' = link
        /\ open' = [open EXCEPT ![o].read = record'] /\ record' = open[o].read + 1
    BY DEF SaveRecord
  <1>3. o \notin Accepting /\ opLock = {o} /\ record' \in Nat
    BY <1>1, <1>2 DEF LinkInv, RecordFresh, OpeningHolds, OpenRecord
  <1>4. Goes(o, r, link[o])
    BY <1>1, <1>2 DEF Goes
  <1>5. r \in OpenRecord
    BY <1>1, <1>3 DEF OpenRecord
  <1>6. /\ r.at = "renew" /\ r.budget = open[o].budget /\ r.ctx = open[o].ctx /\ r.read = record'
        /\ r.dial = open[o].dial
    BY <1>1, <1>2 DEF OpenRecord
  <1> HIDE DEF r
  <1>7. OpeningHolds(o, r, link[o])
    BY <1>1, <1>2, <1>5, <1>6 DEF OpeningHolds, Dialled
  <1>8. /\ open' \in [Opening -> OpenRecord]
        /\ link' \in [Opening -> [1 .. MaxDials -> LinkRecord]]
        /\ \A p \in Opening : OpeningHolds(p, open'[p], link'[p])
        /\ open'[o] = r /\ \A p \in Opening : p # o => open'[p] = open[p]
    BY <1>4, <1>7, OpeningGoes
  <1>9. RecordFresh'
    <2>1. ASSUME NEW p \in Opening \ Accepting, p # o PROVE open[p].at \notin Locked
      BY <1>3, <2>1 DEF LinkInv, RecordFresh, Locked
    <2>2. opLock' = {o}
      BY <1>2, <1>3
    <2> QED BY <1>6, <1>8, <2>1, <2>2 DEF RecordFresh, Locked
  <1>10. LinkTypes'
    BY <1>1, <1>2, <1>3, <1>8 DEF LinkTypes
  <1> QED BY <1>8, <1>9, <1>10 DEF LinkInv

\* Steps of an opening that touch no connection.
LEMMA StepKeeps ==
    ASSUME LinkInv, NEW o \in Opening, StartDials(o) \/ DialFails(o) \/ Ready(o) \/ SessionReady(o)
    PROVE  LinkInv'
  <1>1. /\ open \in [Opening -> OpenRecord] /\ link \in [Opening -> [1 .. MaxDials -> LinkRecord]]
        /\ OpeningHolds(o, open[o], link[o]) /\ open[o] \in OpenRecord
        /\ MaxDials \in Nat /\ MaxDials >= 1
    BY OpeningFacts
  <1>2. link' = link /\ opLock' = opLock /\ record' = record
    BY DEF StartDials, DialFails, Ready, SessionReady
  <1>3. CASE DialFails(o)
    <2> DEFINE r == [open[o] EXCEPT !.dial = @ + 1]
    <2>1. open[o].at = "pause" /\ open[o].dial + 1 \in 0 .. MaxDials
      BY <1>1, <1>3 DEF DialFails, DialsLeft, OpenRecord
    <2>2. Goes(o, r, link[o])
      BY <1>1, <1>2, <1>3 DEF DialFails, Goes
    <2>3. r \in OpenRecord
      BY <1>1, <2>1 DEF OpenRecord
    <2>4. r.at = open[o].at /\ r.budget = open[o].budget /\ r.ctx = open[o].ctx /\ r.read = open[o].read
      BY <1>1 DEF OpenRecord
    <2> HIDE DEF r
    <2>5. OpeningHolds(o, r, link[o])
      BY <1>1, <2>1, <2>3, <2>4 DEF OpeningHolds, Dialled
    <2> QED BY <1>2, <2>1, <2>2, <2>4, <2>5, Quiet DEF Locked
  <1>4. ASSUME NEW at \in OpenAts, open' = [open EXCEPT ![o].at = at],
               OpeningHolds(o, [open[o] EXCEPT !.at = at], link[o]),
               o \in Accepting \/ at \notin Locked \/ open[o].at \in Locked
        PROVE  LinkInv'
    <2> DEFINE r == [open[o] EXCEPT !.at = at]
    <2>1. Goes(o, r, link[o])
      BY <1>1, <1>2, <1>4 DEF Goes
    <2>2. r.at = at /\ r.read = open[o].read
      BY <1>1 DEF OpenRecord
    <2> HIDE DEF r
    <2>3. OpeningHolds(o, r, link[o])
      BY <1>4 DEF r
    <2> QED BY <1>2, <1>4, <2>1, <2>2, <2>3, Quiet
  <1>5. ASSUME NEW at \in OpenAts
        PROVE  LET r == [open[o] EXCEPT !.at = at] IN
               /\ r \in OpenRecord /\ r.at = at /\ r.dial = open[o].dial /\ r.ctx = open[o].ctx
               /\ r.budget = open[o].budget
    BY <1>1 DEF OpenRecord
  <1>6. CASE StartDials(o)
    <2>1. open[o].at = "renew" /\ open' = [open EXCEPT ![o].at = "pause"] /\ "pause" \in OpenAts
      BY <1>6 DEF StartDials, OpenAts
    <2>2. OpeningHolds(o, [open[o] EXCEPT !.at = "pause"], link[o])
      BY <1>1, <1>5, <2>1 DEF OpeningHolds, Dialled
    <2> QED BY <1>4, <2>1, <2>2 DEF Locked
  <1>7. CASE Ready(o)
    <2>1. open[o].at = "open" /\ open' = [open EXCEPT ![o].at = "promote"] /\ "promote" \in OpenAts
      BY <1>7 DEF Ready, OpenAts
    <2>2. OpeningHolds(o, [open[o] EXCEPT !.at = "promote"], link[o])
      BY <1>1, <1>5, <2>1 DEF OpeningHolds, CarrierHolds, Dialled, Promoted
    <2> QED BY <1>4, <2>1, <2>2 DEF Locked
  <1>8. CASE SessionReady(o)
    <2> DEFINE at == IF o \in Accepting THEN "live" ELSE "settle"
    <2>1. /\ open[o].at = "session" /\ open' = [open EXCEPT ![o].at = at]
          /\ at \in OpenAts /\ at \in Promoted
      BY <1>8 DEF SessionReady, OpenAts, Promoted
    <2>2. OpeningHolds(o, [open[o] EXCEPT !.at = at], link[o])
      <3>1. (o \in Accepting => at = "live") /\ (o \notin Accepting => at = "settle")
        OBVIOUS
      <3> HIDE DEF at
      <3> QED BY <1>1, <1>5, <2>1, <3>1 DEF OpeningHolds, CarrierHolds, Dialled, Promoted
    <2> QED BY <1>4, <2>1, <2>2 DEF Locked
  <1> QED BY <1>3, <1>6, <1>7, <1>8

\* What a changed connection of o leaves to be shown: its record, its current
\* connection, and that only that one is open.
LEMMA ConnectionGoes ==
    ASSUME LinkInv, NEW o \in Opening, NEW r \in OpenRecord, NEW k \in 1 .. MaxDials, NEW l \in LinkRecord,
           Goes(o, r, [link[o] EXCEPT ![k] = l]), opLock' = opLock, record' = record,
           o \in Accepting \/ r.at \notin Locked \/ (open[o].at \in Locked /\ r.read = open[o].read),
           o \in Accepting => r.budget = "off" /\ r.at \notin {"lock", "renew", "settle"},
           r.ctx = "opening" => r.budget = "done",
           r.at = "live" => r.budget \notin {"armed", "fired", "done"},
           l.raw = "open" => k = r.dial /\ r.at \in Dialled,
           open[o].at \in Dialled =>
             k = open[o].dial \/ (r.at \in Dialled /\ r.dial = open[o].dial),
           r.at \in Dialled =>
             /\ r.dial >= 1
             /\ CarrierHolds(r, IF r.dial = k THEN l ELSE link[o][r.dial])
    PROVE  LinkInv'
  <1> DEFINE L == [link[o] EXCEPT ![k] = l]
  <1>1. /\ OpeningHolds(o, open[o], link[o]) /\ link[o] \in [1 .. MaxDials -> LinkRecord]
        /\ MaxDials \in Nat
    BY OpeningFacts
  <1>2. /\ L \in [1 .. MaxDials -> LinkRecord] /\ L[k] = l
        /\ \A n \in 1 .. MaxDials : n # k => L[n] = link[o][n]
    BY <1>1
  <1>3. Goes(o, r, L)
    OBVIOUS
  <1> HIDE DEF L
  <1>4. r.at \in Dialled => r.dial >= 1 /\ CarrierHolds(r, L[r.dial])
    BY <1>1, <1>2 DEF OpenRecord
  <1>5. \A n \in 1 .. MaxDials : L[n].raw = "open" => n = r.dial /\ r.at \in Dialled
    BY <1>1, <1>2 DEF OpeningHolds
  <1>6. OpeningHolds(o, r, L)
    BY <1>2, <1>4, <1>5 DEF OpeningHolds
  <1> QED BY <1>3, <1>6, Quiet

\* endpoint.open dials and arms the pending guard.
LEMMA DialKeeps == ASSUME LinkInv, NEW o \in Opening, Dial(o) PROVE LinkInv'
  <1> DEFINE r == [open[o] EXCEPT !.at = "open", !.dial = @ + 1]
             k == open[o].dial + 1
  <1>1. /\ open \in [Opening -> OpenRecord] /\ link \in [Opening -> [1 .. MaxDials -> LinkRecord]]
        /\ OpeningHolds(o, open[o], link[o]) /\ open[o] \in OpenRecord
        /\ MaxDials \in Nat /\ MaxDials >= 1
    BY OpeningFacts
  <1>2. /\ open[o].at = "pause" /\ DialsLeft(o) /\ opLock' = opLock /\ record' = record
        /\ open' = [open EXCEPT ![o].at = "open", ![o].dial = @ + 1]
        /\ link' = [link EXCEPT ![o][open[o].dial + 1] = Guarded]
    BY DEF Dial
  <1>3. k \in 1 .. MaxDials
    BY <1>1, <1>2 DEF DialsLeft, OpenRecord
  <1>4. Guarded \in LinkRecord /\ Guarded.raw = "open"
    BY DEF Guarded, LinkRecord, Raws, Guards
  <1>5. r \in OpenRecord
    <2>1. ASSUME NEW n \in 0 .. MaxDials PROVE [open[o] EXCEPT !.at = "open", !.dial = n] \in OpenRecord
      BY <1>1 DEF OpenRecord, OpenAts
    <2>2. k \in 0 .. MaxDials /\ r = [open[o] EXCEPT !.at = "open", !.dial = k]
      BY <1>1, <1>3 DEF OpenRecord
    <2> QED BY <2>1, <2>2
  <1>6. /\ r.at = "open" /\ r.dial = k /\ r.ctx = open[o].ctx /\ r.budget = open[o].budget
        /\ r.read = open[o].read
    BY <1>1 DEF OpenRecord
  <1>7. Goes(o, r, [link[o] EXCEPT ![k] = Guarded])
    BY <1>1, <1>2 DEF Goes
  <1> HIDE DEF r, k
  <1>8. r.dial >= 1 /\ CarrierHolds(r, Guarded)
    BY <1>3, <1>4, <1>6 DEF CarrierHolds, Promoted
  <1>9. /\ o \in Accepting => r.budget = "off" /\ r.at \notin {"lock", "renew", "settle"}
        /\ r.ctx = "opening" => r.budget = "done"
        /\ open[o].at \notin Dialled /\ r.at \in Dialled /\ open[o].at \in Locked
    BY <1>1, <1>2, <1>6 DEF OpeningHolds, Dialled, Locked
  <1> QED BY <1>2, <1>3, <1>4, <1>5, <1>6, <1>7, <1>8, <1>9, ConnectionGoes

\* fail: the connection is aborted and its guard stopped.
LEMMA OpenFailsKeeps ==
    ASSUME LinkInv, NEW o \in Opening, NEW l \in LinkRecord, l.raw = "aborted",
           open[o].at = "open" \/ open[o].at = "promote",
           open' = [open EXCEPT ![o].at = "pause"], SetLink(o, l), opLock' = opLock, record' = record
    PROVE  LinkInv'
  <1> DEFINE r == [open[o] EXCEPT !.at = "pause"]
             k == open[o].dial
  <1>1. /\ open \in [Opening -> OpenRecord] /\ link \in [Opening -> [1 .. MaxDials -> LinkRecord]]
        /\ OpeningHolds(o, open[o], link[o]) /\ open[o] \in OpenRecord
        /\ MaxDials \in Nat /\ MaxDials >= 1
    BY OpeningFacts
  <1>2. k \in 1 .. MaxDials
    BY <1>1 DEF OpeningHolds, OpenRecord, Dialled
  <1>3. r \in OpenRecord
    BY <1>1 DEF OpenRecord, OpenAts
  <1>4. /\ r.at = "pause" /\ r.ctx = open[o].ctx /\ r.budget = open[o].budget /\ r.read = open[o].read
    BY <1>1 DEF OpenRecord
  <1>5. Goes(o, r, [link[o] EXCEPT ![k] = l])
    BY <1>1 DEF Goes, SetLink
  <1> HIDE DEF r
  <1>6. /\ o \in Accepting => r.budget = "off" /\ r.at \notin {"lock", "renew", "settle"}
        /\ r.ctx = "opening" => r.budget = "done"
        /\ r.at \notin Dialled /\ open[o].at \in Locked
    BY <1>1, <1>4 DEF OpeningHolds, Dialled, Locked
  <1> QED BY <1>2, <1>3, <1>4, <1>5, <1>6, ConnectionGoes

\* promote: only a guard that Stop stopped lets the carrier go.
LEMMA PromoteKeeps == ASSUME LinkInv, NEW o \in Opening, PromoteLink(o) PROVE LinkInv'
  <1> DEFINE k == open[o].dial
             l == Current(o)
  <1>1. /\ open \in [Opening -> OpenRecord] /\ link \in [Opening -> [1 .. MaxDials -> LinkRecord]]
        /\ OpeningHolds(o, open[o], link[o]) /\ open[o] \in OpenRecord
        /\ MaxDials \in Nat /\ MaxDials >= 1
    BY OpeningFacts
  <1>2. open[o].at = "promote" /\ opLock' = opLock /\ record' = record
    BY DEF PromoteLink
  <1>3. k \in 1 .. MaxDials
    BY <1>1, <1>2 DEF OpeningHolds, OpenRecord, Dialled
  <1>4. l \in LinkRecord /\ CarrierHolds(open[o], l)
    BY <1>1, <1>2, <1>3 DEF Current, OpeningHolds, Dialled
  <1>5. CASE l.guard = "armed"
    <2> DEFINE r == [open[o] EXCEPT !.at = "session"]
               m == [l EXCEPT !.deadline = FALSE, !.guard = "stopped"]
    <2>1. open' = [open EXCEPT ![o].at = "session"] /\ SetLink(o, m)
      BY <1>5 DEF PromoteLink
    <2>2. r \in OpenRecord
      BY <1>1 DEF OpenRecord, OpenAts
    <2>3. r.at = "session" /\ r.ctx = open[o].ctx /\ r.budget = open[o].budget /\ r.read = open[o].read
          /\ r.dial = k
      BY <1>1 DEF OpenRecord
    <2>4. m \in LinkRecord
      BY <1>4 DEF LinkRecord, Guards
    <2>5. m.raw = l.raw /\ m.guard = "stopped" /\ ~m.deadline
      BY <1>4 DEF LinkRecord
    <2>6. Goes(o, r, [link[o] EXCEPT ![k] = m])
      BY <1>1, <2>1 DEF Goes, SetLink
    <2> HIDE DEF r, m, l
    <2>7. CarrierHolds(r, m)
      BY <1>4, <1>5, <2>3, <2>5 DEF CarrierHolds
    <2>8. /\ o \in Accepting => r.budget = "off" /\ r.at \notin {"lock", "renew", "settle"}
          /\ r.ctx = "opening" => r.budget = "done"
          /\ r.at \in Dialled /\ open[o].at \in Locked
      BY <1>1, <1>2, <2>3 DEF OpeningHolds, Dialled, Locked
    <2>9. r.dial >= 1
      BY <1>3, <2>3
    <2> QED BY <1>2, <1>3, <2>2, <2>3, <2>4, <2>6, <2>7, <2>8, <2>9, ConnectionGoes
  <1>6. CASE l.guard # "armed"
    <2> DEFINE m == [l EXCEPT !.raw = "aborted", !.guard = Stopped(l.guard)]
    <2>1. open' = [open EXCEPT ![o].at = "pause"] /\ SetLink(o, m)
      BY <1>6 DEF PromoteLink
    <2>2. m \in LinkRecord /\ m.raw = "aborted"
      BY <1>4 DEF LinkRecord, Guards, Raws, Stopped
    <2> QED BY <1>2, <2>1, <2>2, OpenFailsKeeps
  <1> QED BY <1>5, <1>6

\* The pending guard acts on its own connection, which is the current one of
\* no promoted opening while the guard has not been stopped.
LEMMA GuardKeeps ==
    ASSUME LinkInv, NEW o \in Opening, NEW n \in 1 .. MaxDials,
           GuardDue(o, n) \/ GuardStarts(o, n) \/ GuardAborts(o, n)
    PROVE  LinkInv'
  <1> DEFINE l == link[o][n]
             r == open[o]
  <1>1. /\ open \in [Opening -> OpenRecord] /\ link \in [Opening -> [1 .. MaxDials -> LinkRecord]]
        /\ OpeningHolds(o, r, link[o]) /\ r \in OpenRecord /\ l \in LinkRecord
    BY OpeningFacts
  <1>2. open' = open /\ opLock' = opLock /\ record' = record /\ l.guard # "stopped"
    BY DEF GuardDue, GuardStarts, GuardAborts
  <1>3. PICK m \in LinkRecord :
             /\ link' = [link EXCEPT ![o][n] = m]
             /\ \/ m.raw = l.raw /\ l.guard # "done"
                \/ m.raw = "aborted" /\ m.guard = "done"
    <2>1. CASE GuardDue(o, n)
      <3>1. [l EXCEPT !.guard = "due"] \in LinkRecord /\ [l EXCEPT !.guard = "due"].raw = l.raw
        BY <1>1 DEF LinkRecord, Guards
      <3>2. link' = [link EXCEPT ![o][n] = [l EXCEPT !.guard = "due"]] /\ l.guard # "done"
        BY <1>1, <2>1 DEF GuardDue
      <3> QED BY <3>1, <3>2
    <2>2. CASE GuardStarts(o, n)
      <3>1. [l EXCEPT !.guard = "fired"] \in LinkRecord /\ [l EXCEPT !.guard = "fired"].raw = l.raw
        BY <1>1 DEF LinkRecord, Guards
      <3>2. link' = [link EXCEPT ![o][n] = [l EXCEPT !.guard = "fired"]] /\ l.guard # "done"
        BY <1>1, <2>2 DEF GuardStarts
      <3> QED BY <3>1, <3>2
    <2>3. CASE GuardAborts(o, n)
      <3> DEFINE m == [l EXCEPT !.guard = "done", !.raw = "aborted"]
      <3>1. m \in LinkRecord
        BY <1>1 DEF LinkRecord, Guards, Raws
      <3>2. m.raw = "aborted" /\ m.guard = "done"
        BY <1>1 DEF LinkRecord
      <3>3. link' = [link EXCEPT ![o][n] = m]
        BY <1>1, <2>3 DEF GuardAborts
      <3> QED BY <3>1, <3>2, <3>3
    <2> QED BY <2>1, <2>2, <2>3
  <1>4. Goes(o, r, [link[o] EXCEPT ![n] = m])
    BY <1>1, <1>2, <1>3 DEF Goes
  <1>5. r.at \in Dialled => r.dial >= 1 /\ CarrierHolds(r, IF r.dial = n THEN m ELSE link[o][r.dial])
    BY <1>1, <1>2, <1>3 DEF OpeningHolds, CarrierHolds
  <1>6. m.raw = "open" => n = r.dial /\ r.at \in Dialled
    BY <1>1, <1>3 DEF OpeningHolds
  <1>7. /\ o \in Accepting => r.budget = "off" /\ r.at \notin {"lock", "renew", "settle"}
        /\ r.ctx = "opening" => r.budget = "done"
        /\ r.at = "live" => r.budget \notin {"armed", "fired", "done"}
    BY <1>1 DEF OpeningHolds
  <1> HIDE DEF l, r
  <1>8. o \in Accepting \/ r.at \notin Locked \/ (open[o].at \in Locked /\ r.read = open[o].read)
    BY DEF r
  <1>9. open[o].at \in Dialled => n = open[o].dial \/ (r.at \in Dialled /\ r.dial = open[o].dial)
    BY DEF r
  <1> QED BY <1>1, <1>2, <1>3, <1>4, <1>5, <1>6, <1>7, <1>8, <1>9, ConnectionGoes

\* The end of the context closes the current connection.
LEMMA ContextKeeps == ASSUME LinkInv, NEW o \in Opening, ContextCloses(o) PROVE LinkInv'
  <1> DEFINE k == open[o].dial
             r == open[o]
             m == [Current(o) EXCEPT !.raw = open[o].ctx]
  <1>1. /\ open \in [Opening -> OpenRecord] /\ link \in [Opening -> [1 .. MaxDials -> LinkRecord]]
        /\ OpeningHolds(o, r, link[o]) /\ r \in OpenRecord /\ MaxDials \in Nat
    BY OpeningFacts
  <1>2. /\ r.ctx # "live" /\ k > 0 /\ Current(o).raw = "open" /\ SetLink(o, m)
        /\ open' = open /\ opLock' = opLock /\ record' = record
    BY DEF ContextCloses, Cancelled
  <1>3. k \in 1 .. MaxDials
    BY <1>1, <1>2 DEF OpenRecord
  <1>4. Current(o) \in LinkRecord /\ Current(o) = link[o][k]
    BY <1>1, <1>3 DEF Current
  <1>5. r.ctx \in Raws /\ r.ctx # "open"
    BY <1>1, <1>2 DEF OpenRecord, Contexts, Raws
  <1>6. m \in LinkRecord
    BY <1>4, <1>5 DEF LinkRecord
  <1>7. m.raw = r.ctx /\ m.guard = Current(o).guard /\ m.deadline = Current(o).deadline
    BY <1>4 DEF LinkRecord
  <1>8. Goes(o, r, [link[o] EXCEPT ![k] = m])
    BY <1>1, <1>2 DEF Goes, SetLink
  <1> HIDE DEF m
  <1>9. r.at \in Dialled => r.dial >= 1 /\ CarrierHolds(r, m)
    BY <1>1, <1>2, <1>4, <1>7 DEF OpeningHolds, CarrierHolds
  <1>10. /\ o \in Accepting => r.budget = "off" /\ r.at \notin {"lock", "renew", "settle"}
         /\ r.ctx = "opening" => r.budget = "done"
         /\ r.at = "live" => r.budget \notin {"armed", "fired", "done"}
    BY <1>1 DEF OpeningHolds
  <1> QED BY <1>1, <1>2, <1>3, <1>5, <1>6, <1>7, <1>8, <1>9, <1>10, ConnectionGoes

\* The opening timer and the policy watcher change only the budget and the
\* context, and never those of a carrier that was handed over by the timer.
LEMMA TimersKeep ==
    ASSUME LinkInv, NEW o \in Opening, BudgetStarts(o) \/ BudgetCancels(o) \/ PolicyCancels(o)
    PROVE  LinkInv'
  <1>1. /\ open \in [Opening -> OpenRecord] /\ link \in [Opening -> [1 .. MaxDials -> LinkRecord]]
        /\ OpeningHolds(o, open[o], link[o]) /\ open[o] \in OpenRecord
    BY OpeningFacts
  <1>2. link' = link /\ opLock' = opLock /\ record' = record
    BY DEF BudgetStarts, BudgetCancels, PolicyCancels
  <1>3. PICK b \in Budgets, c \in Contexts :
             /\ open' = [open EXCEPT ![o].budget = b, ![o].ctx = c]
             /\ open[o].ctx # "live" => c = open[o].ctx
             /\ c = "opening" => b = "done"
             /\ b = open[o].budget \/ (open[o].budget = "armed" \/ open[o].budget = "fired")
    <2>1. CASE BudgetStarts(o)
      <3>1. /\ open' = [open EXCEPT ![o].budget = "fired", ![o].ctx = open[o].ctx]
            /\ open[o].budget = "armed" /\ open[o].ctx \in Contexts
        BY <1>1, <2>1 DEF BudgetStarts, OpenRecord
      <3>2. open[o].ctx # "opening"
        BY <1>1, <3>1 DEF OpeningHolds
      <3>3. "fired" \in Budgets
        BY DEF Budgets
      <3> QED BY <3>1, <3>2, <3>3
    <2>2. CASE BudgetCancels(o)
      <3> DEFINE c == IF open[o].ctx = "live" THEN "opening" ELSE open[o].ctx
      <3>1. open' = [open EXCEPT ![o].budget = "done", ![o].ctx = c] /\ open[o].budget = "fired"
        BY <1>1, <2>2 DEF BudgetCancels, OpenRecord
      <3>2. c \in Contexts /\ "done" \in Budgets
        BY <1>1 DEF OpenRecord, Contexts, Budgets
      <3>3. open[o].ctx # "live" => c = open[o].ctx
        OBVIOUS
      <3> HIDE DEF c
      <3> QED BY <3>1, <3>2, <3>3
    <2>3. CASE PolicyCancels(o)
      <3>1. /\ open' = [open EXCEPT ![o].budget = open[o].budget, ![o].ctx = "policy"]
            /\ open[o].ctx = "live" /\ open[o].budget \in Budgets
        BY <1>1, <2>3 DEF PolicyCancels, Cancelled, OpenRecord
      <3>2. "policy" \in Contexts
        BY DEF Contexts
      <3> QED BY <3>1, <3>2
    <2> QED BY <2>1, <2>2, <2>3
  <1> DEFINE r == [open[o] EXCEPT !.budget = b, !.ctx = c]
  <1>4. Goes(o, r, link[o])
    BY <1>1, <1>2, <1>3 DEF Goes
  <1>5. r \in OpenRecord
    BY <1>1 DEF OpenRecord
  <1>6. r.at = open[o].at /\ r.dial = open[o].dial /\ r.read = open[o].read /\ r.budget = b /\ r.ctx = c
    BY <1>1 DEF OpenRecord
  <1> HIDE DEF r
  <1>7. OpeningHolds(o, r, link[o])
    <2>1. b # open[o].budget => open[o].budget # "off" /\ open[o].at # "live"
      BY <1>1, <1>3 DEF OpeningHolds
    <2>2. r.at \in Dialled => r.dial >= 1 /\ CarrierHolds(r, link[o][r.dial])
      BY <1>1, <1>3, <1>6 DEF OpeningHolds, CarrierHolds
    <2>3. o \in Accepting => r.budget = "off" /\ r.at \notin {"lock", "renew", "settle"}
      BY <1>1, <1>6, <2>1 DEF OpeningHolds
    <2>4. r.at = "live" => r.budget \notin {"armed", "fired", "done"}
      BY <1>1, <1>6, <2>1 DEF OpeningHolds
    <2>5. \A n \in 1 .. MaxDials : link[o][n].raw = "open" => n = r.dial /\ r.at \in Dialled
      BY <1>1, <1>6 DEF OpeningHolds
    <2>6. r.ctx = "opening" => r.budget = "done"
      BY <1>3, <1>6
    <2> QED BY <1>1, <1>5, <2>2, <2>3, <2>4, <2>5, <2>6 DEF OpeningHolds
  <1> QED BY <1>2, <1>4, <1>6, <1>7, Quiet

\* Every step of an opening keeps the invariant.
LEMMA LinkKeeps == ASSUME LinkInv, [LinkNext]_linkVars PROVE LinkInv'
  <1>1. ASSUME NEW o \in Opening, LinkStep(o) PROVE LinkInv'
    <2>1. CASE OpenFails(o)
      <3> DEFINE m == [Current(o) EXCEPT !.raw = "aborted", !.guard = Stopped(Current(o).guard)]
      <3>1. OpeningHolds(o, open[o], link[o]) /\ open[o] \in OpenRecord /\ MaxDials \in Nat
            /\ link[o] \in [1 .. MaxDials -> LinkRecord]
        BY OpeningFacts
      <3>2. open[o].dial \in 1 .. MaxDials
        BY <2>1, <3>1 DEF OpenFails, OpeningHolds, OpenRecord, Dialled
      <3>3. Current(o) \in LinkRecord
        BY <3>1, <3>2 DEF Current
      <3>4. m \in LinkRecord /\ m.raw = "aborted"
        BY <3>3 DEF LinkRecord, Guards, Raws, Stopped
      <3>5. /\ open[o].at = "open" /\ open' = [open EXCEPT ![o].at = "pause"] /\ SetLink(o, m)
            /\ opLock' = opLock /\ record' = record
        BY <2>1 DEF OpenFails
      <3> HIDE DEF m
      <3> QED BY <3>4, <3>5, OpenFailsKeeps
    <2>2. CASE Timers(o)
      BY <2>2, TimersKeep, ContextKeeps, GuardKeeps DEF Timers
    <2> QED BY <1>1, <2>1, <2>2, StartsKeep, TakeLockKeeps, EndsKeep, SaveRecordKeeps, StepKeeps, DialKeeps,
               PromoteKeeps, SettleKeeps, TimersKeep
            DEF LinkStep, LinkSteps
  <1>2. CASE UNCHANGED linkVars
    BY <1>2 DEF linkVars, LinkInv, LinkTypes, RecordFresh
  <1> QED BY <1>1, <1>2 DEF LinkNext

\* No opening has started.
LEMMA LinkStarts == ASSUME LinkInit PROVE LinkInv
  <1>1. Closed \in OpenRecord /\ Closed.at = "idle" /\ Closed.ctx = "live" /\ Closed.budget = "off"
    BY LinkBounds DEF Closed, OpenRecord, OpenAts, Contexts, Budgets
  <1>2. NoLink \in LinkRecord /\ NoLink.raw = "none"
    BY DEF NoLink, LinkRecord, Raws, Guards
  <1>3. LinkTypes
    BY <1>1, <1>2 DEF LinkInit, LinkTypes
  <1>4. ASSUME NEW o \in Opening PROVE OpeningHolds(o, open[o], link[o])
    <2>1. open[o] = Closed /\ link[o] = [n \in 1 .. MaxDials |-> NoLink]
      BY DEF LinkInit
    <2> QED BY <1>1, <1>2, <2>1 DEF OpeningHolds, Dialled
  <1>5. RecordFresh
    BY <1>1 DEF LinkInit, RecordFresh
  <1> QED BY <1>3, <1>4, <1>5 DEF LinkInv

\* The invariant of the openings: what can still end the connection of an
\* opening is its own pending guard, before the promotion, or its context; a
\* budget that fired is not that of a carrier handed over.
THEOREM LinkInductive == LinkSpec => []LinkInv
  <1>1. LinkInit => LinkInv
    BY LinkStarts
  <1>2. LinkInv /\ [LinkNext]_linkVars => LinkInv'
    BY LinkKeeps
  <1> QED BY <1>1, <1>2, PTL DEF LinkSpec

\* For any number of openings and dials: no pending guard, deadline or opening
\* timer is left to end a carrier that endpoint.open or openClient handed over,
\* an opening that ended keeps no connection, and client.json is written only
\* by the opening that read its present content under the operation lock.
THEOREM LinkTheorem == LinkSpec => []LinkSound
  <1>1. LinkInv => LinkSound
    <2> SUFFICES ASSUME LinkInv PROVE LinkSound
      OBVIOUS
    <2>1. HandoverClean
      <3> SUFFICES ASSUME NEW o \in Opening, open[o].at = "live"
                   PROVE  /\ Current(o).guard = "stopped" /\ ~Current(o).deadline
                          /\ Current(o).raw \in {"open", "policy"}
                          /\ open[o].budget \notin {"armed", "fired", "done"}
        BY DEF HandoverClean
      <3>1. OpeningHolds(o, open[o], link[o]) /\ open[o].ctx \in Contexts
        BY OpeningFacts DEF OpenRecord
      <3>2. CarrierHolds(open[o], Current(o)) /\ open[o].budget \notin {"armed", "fired", "done"}
            /\ open[o].ctx # "opening"
        BY <3>1 DEF OpeningHolds, Dialled, Current
      <3> QED BY <3>1, <3>2 DEF CarrierHolds, Promoted, Contexts
    <2>2. NothingLeft
      BY DEF LinkInv, OpeningHolds, NothingLeft, Dialled
    <2> QED BY <2>1, <2>2 DEF LinkInv, LinkSound
  <1> QED BY <1>1, LinkInductive, PTL

-----------------------------------------------------------------------------
(* The worker of a Target. *)

LoopAts == {"off", "start", "publish", "fetch", "save", "setup", "snap", "renew", "slot", "accept",
            "fresh", "drain", "returned"}
LoopRecord == [at : LoopAts, token : Nat, scope : Nat]
SessionRecord == [slot : 1 .. Slots, peer : Nat, scope : Nat]

WorkerTypes ==
    /\ stored \in [token : Nat, paired : Nat, offer : BOOLEAN]
    /\ relay \in [up : BOOLEAN, offered : BOOLEAN, registered : Nat, approvals : Nat, cutoff : Nat,
                  leg : BOOLEAN]
    /\ proc \in [Loops -> LoopRecord]
    /\ sem \in 0 .. Slots
    /\ sessions \subseteq SessionRecord /\ IsFiniteSet(sessions)
    /\ matched \in Nat /\ client \in Nat
    /\ denied \in BOOLEAN /\ cancelled \in BOOLEAN

\* Who may write the token: setup before the pairing goroutine exists, then
\* that goroutine until a client is paired, then the main loop.
TurnsHold ==
    /\ proc["main"].at \in {"start", "publish", "fetch", "setup"} => proc["pair"].at = "off"
    /\ proc["main"].at = "renew" => stored.paired # 0
    /\ proc["main"].at = "save" /\ proc["pair"].at # "off" => stored.paired # 0
    /\ proc["pair"].at \in {"off", "snap", "publish", "fetch", "save", "accept"}
    /\ proc["pair"].at \in {"publish", "fetch", "save"} => stored.paired = 0

\* The token with which loop p is about to publish, renew or save.
TokenHolds(p) ==
    /\ proc[p].token <= relay.approvals
    /\ proc[p].at \in {"publish", "fetch", "setup", "renew"} => proc[p].token = stored.token
    /\ proc[p].at = "save" => /\ proc[p].token >= stored.token
                              /\ \/ relay.registered = NoToken
                                 \/ relay.registered >= proc[p].token
TokensHold ==
    /\ stored.token <= relay.approvals /\ relay.registered <= relay.approvals
    /\ relay.registered = NoToken \/ relay.registered >= stored.token
    /\ \A p \in Loops : TokenHolds(p)

\* No client holds a generation the authority has not committed.
GenerationsHold == matched <= stored.paired /\ client <= stored.paired

WorkerInv ==
    /\ WorkerTypes
    /\ TurnsHold
    /\ TokensHold
    /\ GenerationsHold
    /\ WorkerSound

\* The invariant of the two loops.
LEMMA LoopFacts ==
    ASSUME WorkerInv
    PROVE  /\ proc \in [Loops -> LoopRecord] /\ "main" \in Loops /\ "pair" \in Loops /\ "main" # "pair"
           /\ \A p \in Loops : /\ proc[p] \in LoopRecord /\ proc[p].at \in LoopAts
                               /\ proc[p].token \in Nat /\ TokenHolds(p)
           /\ stored.token \in Nat /\ stored.paired \in Nat
           /\ relay.registered \in Nat /\ relay.approvals \in Nat
  <1>1. proc \in [Loops -> LoopRecord] /\ "main" \in Loops /\ "pair" \in Loops /\ "main" # "pair"
    BY DEF WorkerInv, WorkerTypes, Loops
  <1>2. \A p \in Loops : proc[p] \in LoopRecord /\ TokenHolds(p)
    BY <1>1 DEF WorkerInv, TokensHold
  <1>3. \A p \in Loops : proc[p].at \in LoopAts /\ proc[p].token \in Nat
    BY <1>2 DEF LoopRecord
  <1>4. stored.token \in Nat /\ stored.paired \in Nat /\ relay.registered \in Nat /\ relay.approvals \in Nat
    BY DEF WorkerInv, WorkerTypes
  <1> QED BY <1>1, <1>2, <1>3, <1>4

\* What a loop that only goes on does to the two records.
LEMMA GotoFacts ==
    ASSUME WorkerInv, NEW p \in Loops, NEW at \in LoopAts, Goto(p, at)
    PROVE  /\ proc' \in [Loops -> LoopRecord]
           /\ proc'[p].at = at /\ proc'[p].token = proc[p].token
           /\ \A q \in Loops : q # p => proc'[q] = proc[q]
  <1>1. proc \in [Loops -> LoopRecord]
    BY DEF WorkerInv, WorkerTypes
  <1>2. [proc[p] EXCEPT !.at = at] \in LoopRecord
    BY <1>1 DEF LoopRecord
  <1>3. [proc[p] EXCEPT !.at = at].at = at /\ [proc[p] EXCEPT !.at = at].token = proc[p].token
    BY <1>1 DEF LoopRecord
  <1>4. proc' = [proc EXCEPT ![p] = [proc[p] EXCEPT !.at = at]]
    BY <1>1 DEF Goto
  <1> QED BY <1>1, <1>2, <1>3, <1>4

\* The semaphore counts the warm leg and the sessions after a step that takes
\* and gives back no place.
LEMMA PlacesKept ==
    ASSUME WorkerSound, sem' = sem, sessions' = sessions,
           proc'["main"].at \in {"accept", "fresh"} <=> proc["main"].at \in {"accept", "fresh"},
           proc'["main"].at = "returned" => proc["main"].at = "returned" /\ proc'["pair"].at = "off"
    PROVE  WorkerSound'
  BY DEF WorkerSound

\* A step of loop p that changes nothing but where it is.
LEMMA PlainGoes ==
    ASSUME WorkerInv, NEW p \in Loops, NEW at \in LoopAts, Goto(p, at), TurnsHold', WorkerSound',
           UNCHANGED << stored, relay, sem, sessions, matched, client, denied, cancelled >>,
           at \in {"publish", "fetch", "setup", "renew"} =>
             proc[p].at \in {"publish", "fetch", "setup", "renew"},
           at = "save" => proc[p].at = "renew"
    PROVE  WorkerInv'
  <1>1. /\ proc' \in [Loops -> LoopRecord] /\ proc'[p].at = at /\ proc'[p].token = proc[p].token
        /\ \A q \in Loops : q # p => proc'[q] = proc[q]
    BY GotoFacts
  <1>2. stored' = stored /\ relay' = relay
    OBVIOUS
  <1>3. TokenHolds(p)'
    BY <1>1, <1>2, LoopFacts DEF TokenHolds, WorkerInv, TokensHold
  <1>4. \A q \in Loops : TokenHolds(q)'
    BY <1>1, <1>2, <1>3, LoopFacts DEF TokenHolds
  <1>5. TokensHold'
    BY <1>2, <1>4 DEF TokensHold, WorkerInv
  <1>6. WorkerTypes'
    BY <1>1 DEF WorkerInv, WorkerTypes
  <1>7. GenerationsHold'
    BY DEF WorkerInv, GenerationsHold
  <1> QED BY <1>5, <1>6, <1>7 DEF WorkerInv

\* Retries, refusals, waits that end and the ends of the loops.
LEMMA PlainKeep ==
    ASSUME WorkerInv,
           \/ \E p \in Loops : PublishRefused(p) \/ PublishFails(p) \/ FetchFails(p) \/ LoopStops(p)
           \/ PairAcceptEnds \/ TokenRenewed \/ RenewFails \/ Returns
    PROVE  WorkerInv'
  <1>0. WorkerSound /\ TurnsHold
    BY DEF WorkerInv
  <1>1. ASSUME NEW p \in Loops, NEW at \in LoopAts, Goto(p, at),
               UNCHANGED << stored, relay, sem, sessions, matched, client, denied, cancelled >>,
               proc[p].at = "publish" \/ proc[p].at = "fetch",
               at = "fetch" \/ (p = "main" /\ at = "publish") \/ (p = "pair" /\ at = "snap")
        PROVE  WorkerInv'
    <2>1. /\ proc'[p].at = at /\ \A q \in Loops : q # p => proc'[q] = proc[q]
      BY <1>1, GotoFacts
    <2>2. TurnsHold'
      BY <1>0, <1>1, <2>1 DEF TurnsHold, Loops
    <2>3. sem' = sem /\ sessions' = sessions /\ (p = "main" \/ p = "pair")
      BY <1>1 DEF Loops
    <2>4. proc'["main"].at \in {"accept", "fresh"} <=> proc["main"].at \in {"accept", "fresh"}
      BY <1>1, <2>1, <2>3 DEF Loops
    <2>5. proc'["main"].at # "returned"
      BY <1>0, <1>1, <2>1, <2>3 DEF Loops, WorkerSound
    <2>6. WorkerSound'
      BY <1>0, <2>3, <2>4, <2>5, PlacesKept
    <2> QED BY <1>1, <2>2, <2>6, PlainGoes
  <1>2. ASSUME NEW p \in Loops, PublishRefused(p) PROVE WorkerInv'
    <2>1. "fetch" \in LoopAts
      BY DEF LoopAts
    <2> QED BY <1>1, <1>2, <2>1 DEF PublishRefused
  <1>3. ASSUME NEW p \in Loops, PublishFails(p) \/ FetchFails(p) PROVE WorkerInv'
    <2>1. /\ Again(p) \in LoopAts
          /\ (p = "main" /\ Again(p) = "publish") \/ (p = "pair" /\ Again(p) = "snap")
      BY DEF LoopAts, Again, Loops
    <2> QED BY <1>1, <1>3, <2>1 DEF PublishFails, FetchFails
  <1>4. ASSUME NEW p \in Loops, LoopStops(p) PROVE WorkerInv'
    <2> DEFINE at == IF p = "main" THEN "drain" ELSE "off"
    <2>1. /\ Goto(p, at) /\ at \in LoopAts
          /\ UNCHANGED << stored, relay, sem, sessions, matched, client, denied, cancelled >>
          /\ proc[p].at \in {"publish", "fetch", "setup", "snap", "renew", "slot"}
      BY <1>4 DEF LoopStops, LoopAts
    <2>2. (p = "main" /\ at = "drain") \/ (p = "pair" /\ at = "off")
      BY DEF Loops
    <2> HIDE DEF at
    <2>3. /\ proc'[p].at = at /\ \A q \in Loops : q # p => proc'[q] = proc[q]
      BY <2>1, GotoFacts
    <2>4. TurnsHold'
      BY <1>0, <2>1, <2>2, <2>3 DEF TurnsHold, Loops
    <2>5. WorkerSound'
      BY <1>0, <2>1, <2>2, <2>3, PlacesKept DEF Loops
    <2> QED BY <2>1, <2>2, <2>4, <2>5, PlainGoes
  <1>5. CASE PairAcceptEnds
    <2>1. /\ Goto("pair", "snap") /\ "snap" \in LoopAts /\ "pair" \in Loops /\ proc["pair"].at = "accept"
          /\ UNCHANGED << stored, relay, sem, sessions, matched, client, denied, cancelled >>
      BY <1>5 DEF PairAcceptEnds, LoopAts, Loops
    <2>2. proc'["pair"].at = "snap" /\ proc'["main"] = proc["main"]
      BY <2>1, GotoFacts DEF Loops
    <2>3. TurnsHold'
      BY <1>0, <2>1, <2>2 DEF TurnsHold
    <2>4. WorkerSound'
      BY <1>0, <2>1, <2>2, PlacesKept DEF WorkerSound
    <2> QED BY <2>1, <2>3, <2>4, PlainGoes
  <1>6. CASE TokenRenewed
    <2>1. /\ Goto("main", "save") /\ "save" \in LoopAts /\ "main" \in Loops /\ proc["main"].at = "renew"
          /\ UNCHANGED << stored, relay, sem, sessions, matched, client, denied, cancelled >>
      BY <1>6 DEF TokenRenewed, LoopAts, Loops
    <2>2. proc'["main"].at = "save" /\ proc'["pair"] = proc["pair"]
      BY <2>1, GotoFacts DEF Loops
    <2>3. TurnsHold'
      BY <1>0, <2>1, <2>2 DEF TurnsHold
    <2>4. WorkerSound'
      BY <1>0, <2>1, <2>2, PlacesKept
    <2> QED BY <2>1, <2>3, <2>4, PlainGoes
  <1>7. CASE RenewFails
    <2> DEFINE at == IF relay.up THEN "slot" ELSE "snap"
    <2>1. /\ Goto("main", at) /\ at \in LoopAts /\ "main" \in Loops /\ proc["main"].at = "renew"
          /\ UNCHANGED << stored, relay, sem, sessions, matched, client, denied, cancelled >>
      BY <1>7 DEF RenewFails, LoopAts, Loops
    <2>2. at = "slot" \/ at = "snap"
      OBVIOUS
    <2> HIDE DEF at
    <2>3. proc'["main"].at = at /\ proc'["pair"] = proc["pair"]
      BY <2>1, GotoFacts DEF Loops
    <2>4. TurnsHold'
      BY <1>0, <2>1, <2>2, <2>3 DEF TurnsHold
    <2>5. WorkerSound'
      BY <1>0, <2>1, <2>2, <2>3, PlacesKept
    <2> QED BY <2>1, <2>2, <2>4, <2>5, PlainGoes
  <1>8. CASE Returns
    <2>1. /\ Goto("main", "returned") /\ "returned" \in LoopAts /\ "main" \in Loops
          /\ proc["main"].at = "drain" /\ proc["pair"].at = "off" /\ sessions = {}
          /\ UNCHANGED << stored, relay, sem, sessions, matched, client, denied, cancelled >>
      BY <1>8 DEF Returns, LoopAts, Loops
    <2>2. proc'["main"].at = "returned" /\ proc'["pair"] = proc["pair"]
      BY <2>1, GotoFacts DEF Loops
    <2>3. TurnsHold'
      BY <1>0, <2>1, <2>2 DEF TurnsHold
    <2>4. Cardinality({}) = 0
      BY FS_EmptySet
    <2>5. WorkerSound'
      BY <1>0, <2>1, <2>2, <2>4 DEF WorkerSound
    <2> QED BY <2>1, <2>3, <2>5, PlainGoes
  <1> QED BY <1>2, <1>3, <1>4, <1>5, <1>6, <1>7, <1>8

\* publish: with its token the loop restores the registration the record has.
LEMMA PublishKeeps ==
    ASSUME WorkerInv, PublishDone("main", "setup") \/ PublishDone("pair", "accept")
    PROVE  WorkerInv'
  <1>0. /\ WorkerSound /\ TurnsHold /\ TokensHold /\ TokenHolds("main") /\ TokenHolds("pair")
        /\ relay \in [up : BOOLEAN, offered : BOOLEAN, registered : Nat, approvals : Nat, cutoff : Nat,
                      leg : BOOLEAN]
        /\ proc["main"].token \in Nat /\ proc["pair"].token \in Nat
    BY LoopFacts DEF WorkerInv, WorkerTypes
  <1>1. PICK p \in Loops, at \in LoopAts :
             /\ proc[p].at = "publish" /\ Goto(p, at)
             /\ \/ p = "main" /\ at = "setup"
                \/ p = "pair" /\ at = "accept"
             /\ relay' = [relay EXCEPT !.offered = TRUE,
                            !.registered = IF proc[p].token = NoToken THEN @ ELSE proc[p].token]
             /\ UNCHANGED << stored, sem, sessions, matched, client, denied, cancelled >>
    BY DEF PublishDone, Loops, LoopAts
  <1>2. /\ proc' \in [Loops -> LoopRecord] /\ proc'[p].at = at /\ proc'[p].token = proc[p].token
        /\ \A q \in Loops : q # p => proc'[q] = proc[q]
    BY <1>1, GotoFacts
  <1>3. /\ relay'.approvals = relay.approvals
        /\ relay'.registered = relay.registered \/ relay'.registered = proc[p].token
        /\ relay' \in [up : BOOLEAN, offered : BOOLEAN, registered : Nat, approvals : Nat, cutoff : Nat,
                       leg : BOOLEAN]
    BY <1>0, <1>1 DEF Loops
  <1>4. proc[p].token = stored.token /\ proc[p].token <= relay.approvals
    BY <1>0, <1>1 DEF TokenHolds, Loops
  <1>5. TurnsHold'
    BY <1>0, <1>1, <1>2 DEF TurnsHold, Loops
  <1>6. ASSUME NEW q \in Loops PROVE TokenHolds(q)'
    <2>1. CASE q = p
      BY <1>0, <1>1, <1>2, <1>3, <1>4, <2>1 DEF TokenHolds
    <2>2. CASE q # p
      <3>1. proc[q].at # "save"
        BY <1>0, <1>1, <2>2 DEF TurnsHold, Loops
      <3> QED BY <1>0, <1>1, <1>2, <1>3, <2>2, <3>1 DEF TokenHolds, Loops
    <2> QED BY <2>1, <2>2
  <1>7. TokensHold'
    BY <1>0, <1>1, <1>3, <1>4, <1>6, LoopFacts DEF TokensHold
  <1>8. WorkerTypes'
    BY <1>1, <1>2, <1>3 DEF WorkerInv, WorkerTypes
  <1>9. WorkerSound'
    <2>1. proc["main"].at # "returned" /\ proc'["main"].at # "returned"
      BY <1>0, <1>1, <1>2 DEF WorkerSound, Loops
    <2>2. proc'["main"].at \in {"accept", "fresh"} <=> proc["main"].at \in {"accept", "fresh"}
      BY <1>1, <1>2 DEF Loops
    <2> QED BY <1>0, <1>1, <2>1, <2>2, PlacesKept
  <1>10. GenerationsHold'
    BY <1>1 DEF WorkerInv, GenerationsHold
  <1> QED BY <1>5, <1>7, <1>8, <1>9, <1>10 DEF WorkerInv

\* FetchRegistration: no registration is older than the token of the record.
LEMMA FetchedKeeps == ASSUME WorkerInv, NEW p \in Loops, Fetched(p) PROVE WorkerInv'
  <1>0. /\ WorkerSound /\ TurnsHold /\ TokensHold
        /\ proc \in [Loops -> LoopRecord] /\ proc[p] \in LoopRecord /\ relay.registered \in Nat
    BY LoopFacts DEF WorkerInv
  <1>1. /\ proc[p].at = "fetch" /\ relay.registered # NoToken
        /\ proc' = [proc EXCEPT ![p].at = "save", ![p].token = relay.registered]
        /\ UNCHANGED << stored, relay, sem, sessions, matched, client, denied, cancelled >>
    BY DEF Fetched, Deliverable
  <1>2. [proc[p] EXCEPT !.at = "save", !.token = relay.registered] \in LoopRecord
    BY <1>0 DEF LoopRecord, LoopAts
  <1>3. /\ proc' \in [Loops -> LoopRecord] /\ proc'[p].at = "save" /\ proc'[p].token = relay.registered
        /\ \A q \in Loops : q # p => proc'[q] = proc[q]
    <2>1. /\ [proc[p] EXCEPT !.at = "save", !.token = relay.registered].at = "save"
          /\ [proc[p] EXCEPT !.at = "save", !.token = relay.registered].token = relay.registered
      BY <1>0 DEF LoopRecord
    <2>2. proc' = [proc EXCEPT ![p] = [proc[p] EXCEPT !.at = "save", !.token = relay.registered]]
      BY <1>0, <1>1
    <2> QED BY <1>0, <1>2, <2>1, <2>2
  <1>4. TurnsHold'
    BY <1>0, <1>1, <1>3 DEF TurnsHold, Loops
  <1>5. ASSUME NEW q \in Loops PROVE TokenHolds(q)'
    <2>1. CASE q = p
      BY <1>0, <1>1, <1>3, <2>1 DEF TokenHolds, TokensHold
    <2>2. CASE q # p
      BY <1>0, <1>1, <1>3, <2>2 DEF TokenHolds, TokensHold
    <2> QED BY <2>1, <2>2
  <1>6. TokensHold'
    BY <1>0, <1>1, <1>5 DEF TokensHold
  <1>7. WorkerTypes'
    BY <1>1, <1>3 DEF WorkerInv, WorkerTypes
  <1>8. WorkerSound'
    <2>1. proc["main"].at # "returned" /\ proc'["main"].at # "returned"
      BY <1>0, <1>1, <1>3 DEF WorkerSound, Loops
    <2>2. proc'["main"].at \in {"accept", "fresh"} <=> proc["main"].at \in {"accept", "fresh"}
      BY <1>1, <1>3 DEF Loops
    <2> QED BY <1>0, <1>1, <2>1, <2>2, PlacesKept
  <1>9. GenerationsHold'
    BY <1>1 DEF WorkerInv, GenerationsHold
  <1> QED BY <1>4, <1>6, <1>7, <1>8, <1>9 DEF WorkerInv

\* SaveToken: the other loop holds no token of its own meanwhile.
LEMMA SaveKeeps ==
    ASSUME WorkerInv, NEW p \in Loops, NEW at \in LoopAts, SaveToken(p, at),
           \/ p = "main" /\ proc["pair"].at = "off" /\ (at = "setup" \/ at = "publish")
           \/ p = "main" /\ proc["pair"].at # "off" /\ at = "slot"
           \/ p = "pair" /\ at = "publish"
    PROVE  WorkerInv' /\ stored'.token >= stored.token
  <1>0. /\ WorkerSound /\ TurnsHold /\ TokensHold
        /\ stored \in [token : Nat, paired : Nat, offer : BOOLEAN] /\ proc[p].token \in Nat
    BY LoopFacts DEF WorkerInv, WorkerTypes
  <1>1. /\ proc[p].at = "save" /\ Goto(p, at)
        /\ stored' = [stored EXCEPT !.token = proc[p].token]
        /\ UNCHANGED << relay, sem, sessions, matched, client, denied, cancelled >>
    BY DEF SaveToken
  <1>2. /\ proc' \in [Loops -> LoopRecord] /\ proc'[p].at = at /\ proc'[p].token = proc[p].token
        /\ \A q \in Loops : q # p => proc'[q] = proc[q]
    BY <1>1, GotoFacts
  <1>3. stored'.token = proc[p].token /\ stored'.paired = stored.paired
        /\ stored' \in [token : Nat, paired : Nat, offer : BOOLEAN]
    BY <1>0, <1>1
  <1>4. /\ proc[p].token >= stored.token /\ proc[p].token <= relay.approvals
        /\ relay.registered = NoToken \/ relay.registered >= proc[p].token
    BY <1>0, <1>1 DEF TokensHold, TokenHolds
  <1>5. TurnsHold'
    BY <1>0, <1>1, <1>2, <1>3 DEF TurnsHold, Loops
  <1>6. ASSUME NEW q \in Loops PROVE TokenHolds(q)'
    <2>1. CASE q = p
      BY <1>1, <1>2, <1>3, <1>4, <2>1 DEF TokenHolds
    <2>2. CASE q # p
      <3>1. proc[q].at \notin {"publish", "fetch", "setup", "renew", "save"}
        BY <1>0, <1>1, <2>2 DEF TurnsHold, Loops
      <3> QED BY <1>0, <1>1, <1>2, <2>2, <3>1 DEF TokenHolds, TokensHold
    <2> QED BY <2>1, <2>2
  <1>7. TokensHold'
    BY <1>0, <1>1, <1>3, <1>4, <1>6 DEF TokensHold
  <1>8. WorkerTypes'
    BY <1>1, <1>2, <1>3 DEF WorkerInv, WorkerTypes
  <1>9. WorkerSound'
    <2>1. proc["main"].at # "returned" /\ proc'["main"].at # "returned"
      BY <1>0, <1>1, <1>2 DEF WorkerSound, Loops
    <2>2. proc'["main"].at \in {"accept", "fresh"} <=> proc["main"].at \in {"accept", "fresh"}
      BY <1>1, <1>2 DEF Loops
    <2> QED BY <1>0, <1>1, <2>1, <2>2, PlacesKept
  <1>10. GenerationsHold'
    BY <1>1, <1>3 DEF WorkerInv, GenerationsHold
  <1> QED BY <1>3, <1>4, <1>5, <1>7, <1>8, <1>9, <1>10 DEF WorkerInv

\* A SaveToken that failed leaves the record's token to the loop, or ends it.
LEMMA SaveFailsKeeps == ASSUME WorkerInv, NEW p \in Loops, SaveFails(p) PROVE WorkerInv'
  <1>0. /\ proc \in [Loops -> LoopRecord] /\ proc[p] \in LoopRecord /\ proc[p].token \in Nat
        /\ stored.token \in Nat /\ WorkerSound /\ TurnsHold /\ TokensHold
        /\ \A q \in Loops : TokenHolds(q)
    BY LoopFacts DEF WorkerInv
  <1> DEFINE ends == p = "main" /\ (stored.token = NoToken \/ proc["pair"].at # "off")
             a == IF ends THEN "drain" ELSE Again(p)
             t == IF ends THEN proc[p].token ELSE stored.token
             r == [proc[p] EXCEPT !.at = a, !.token = t]
  <1>1. /\ proc[p].at = "save" /\ cancelled' \in BOOLEAN
        /\ UNCHANGED << stored, relay, sem, sessions, matched, client, denied >>
    BY DEF SaveFails, WorkerInv, WorkerTypes
  <1>2. proc' = [proc EXCEPT ![p] = r]
    <2>1. CASE ends
      <3>1. proc' = [proc EXCEPT ![p].at = "drain"]
        BY <2>1 DEF SaveFails, Goto
      <3>2. r = [proc[p] EXCEPT !.at = "drain"]
        BY <1>0, <2>1 DEF LoopRecord
      <3> QED BY <1>0, <3>1, <3>2
    <2>2. CASE ~ends
      BY <1>0, <2>2 DEF SaveFails
    <2> QED BY <2>1, <2>2
  <1>3. /\ a \in LoopAts
        /\ \/ p = "main" /\ a = "drain"
           \/ p = "main" /\ a = "publish" /\ proc["pair"].at = "off"
           \/ p = "pair" /\ a = "snap"
    BY DEF LoopAts, Again, Loops
  <1>4. t \in Nat /\ t <= relay.approvals /\ (a # "drain" => t = stored.token)
    BY <1>0 DEF TokensHold, TokenHolds, Again
  <1> HIDE DEF a, t
  <1>5. r \in LoopRecord /\ r.at = a /\ r.token = t
    BY <1>0, <1>3, <1>4 DEF LoopRecord
  <1> HIDE DEF r, ends
  <1>6. /\ proc' \in [Loops -> LoopRecord] /\ proc'[p] = r
        /\ \A q \in Loops : q # p => proc'[q] = proc[q]
    BY <1>0, <1>2, <1>5
  <1>7. TurnsHold'
    BY <1>0, <1>1, <1>3, <1>5, <1>6 DEF TurnsHold, Loops
  <1>8. ASSUME NEW q \in Loops PROVE TokenHolds(q)'
    <2>1. CASE q = p
      BY <1>1, <1>3, <1>4, <1>5, <1>6, <2>1 DEF TokenHolds
    <2>2. CASE q # p
      BY <1>0, <1>1, <1>6, <2>2 DEF TokenHolds
    <2> QED BY <2>1, <2>2
  <1>9. TokensHold'
    BY <1>0, <1>1, <1>8 DEF TokensHold
  <1>10. WorkerTypes'
    BY <1>1, <1>6 DEF WorkerInv, WorkerTypes
  <1>11. WorkerSound'
    <2>1. proc["main"].at # "returned" /\ proc'["main"].at # "returned"
      BY <1>0, <1>1, <1>3, <1>5, <1>6 DEF WorkerSound, Loops
    <2>2. proc'["main"].at \in {"accept", "fresh"} <=> proc["main"].at \in {"accept", "fresh"}
      BY <1>1, <1>3, <1>5, <1>6 DEF Loops
    <2> QED BY <1>0, <1>1, <2>1, <2>2, PlacesKept
  <1>12. GenerationsHold'
    BY <1>1 DEF WorkerInv, GenerationsHold
  <1> QED BY <1>7, <1>9, <1>10, <1>11, <1>12 DEF WorkerInv

\* Both loops are set anew, with no token but that of the record.
LEMMA LoopsSet ==
    ASSUME WorkerInv, NEW m \in LoopRecord, NEW q \in LoopRecord,
           proc'["main"] = m, proc'["pair"] = q, proc' \in [Loops -> LoopRecord], TurnsHold',
           UNCHANGED << stored, relay, sem, sessions, matched, client, denied, cancelled >>,
           \/ m.token = stored.token /\ m.at # "save"
           \/ m.token = proc["main"].token /\ m.at \in {"snap", "fetch"} /\ proc["main"].at = "setup"
           \/ m.token = proc["main"].token /\ m.at = proc["main"].at
           \/ m.token = proc["main"].token /\ m.at = "snap",
           \/ q.token = stored.token /\ q.at # "save"
           \/ q = proc["pair"]
           \/ q.token = proc["pair"].token /\ q.at = "snap",
           m.at \in {"accept", "fresh"} <=> proc["main"].at \in {"accept", "fresh"},
           m.at # "returned"
    PROVE  WorkerInv'
  <1>0. /\ WorkerSound /\ TokensHold /\ TokenHolds("main") /\ TokenHolds("pair")
    BY LoopFacts DEF WorkerInv
  <1>1. stored' = stored /\ relay' = relay /\ sem' = sem /\ sessions' = sessions
    OBVIOUS
  <1>2. TokenHolds("main")'
    BY <1>0, <1>1 DEF TokenHolds, TokensHold
  <1>3. TokenHolds("pair")'
    BY <1>0, <1>1 DEF TokenHolds, TokensHold
  <1>4. TokensHold'
    BY <1>0, <1>1, <1>2, <1>3 DEF TokensHold, Loops
  <1>5. WorkerSound'
    BY <1>0, <1>1, PlacesKept
  <1>6. WorkerTypes'
    BY DEF WorkerInv, WorkerTypes
  <1>7. GenerationsHold'
    BY DEF WorkerInv, GenerationsHold
  <1> QED BY <1>4, <1>5, <1>6, <1>7 DEF WorkerInv

\* serveReceiver begins, and setup starts the pairing goroutine.
LEMMA SetupKeeps == ASSUME WorkerInv, Start \/ Setup PROVE WorkerInv'
  <1>0. /\ proc \in [Loops -> LoopRecord] /\ proc["main"] \in LoopRecord /\ proc["pair"] \in LoopRecord
        /\ stored.token \in Nat /\ TurnsHold /\ "main" \in Loops /\ "pair" \in Loops
    BY LoopFacts DEF WorkerInv
  <1>1. /\ UNCHANGED << stored, relay, sem, sessions, matched, client, denied, cancelled >>
        /\ proc["main"].at = "start" \/ proc["main"].at = "setup"
        /\ proc["pair"].at = "off"
    BY <1>0 DEF Start, Setup, TurnsHold
  <1>2. ASSUME NEW r \in LoopRecord, NEW a \in LoopAts
        PROVE  LET s == [r EXCEPT !.at = a] IN s \in LoopRecord /\ s.at = a /\ s.token = r.token
    BY DEF LoopRecord
  <1>3. "snap" \in LoopAts /\ "fetch" \in LoopAts
    BY DEF LoopAts
  <1> DEFINE m == [proc["main"] EXCEPT !.at = "snap"]
             q == [proc["pair"] EXCEPT !.at = "snap"]
             f == [proc["main"] EXCEPT !.at = "fetch"]
             b == [proc["main"] EXCEPT !.at = "publish", !.token = stored.token]
  <1>4. /\ m \in LoopRecord /\ m.at = "snap" /\ m.token = proc["main"].token
        /\ q \in LoopRecord /\ q.at = "snap" /\ q.token = proc["pair"].token
        /\ f \in LoopRecord /\ f.at = "fetch" /\ f.token = proc["main"].token
    BY <1>0, <1>2, <1>3
  <1>5. b \in LoopRecord
    BY <1>0 DEF LoopRecord, LoopAts
  <1>6. b.at = "publish" /\ b.token = stored.token
    BY <1>0 DEF LoopRecord
  <1>7. CASE proc' = [proc EXCEPT !["main"].at = "snap", !["pair"].at = "snap"]
    <2>1. proc' = [proc EXCEPT !["main"] = m, !["pair"] = q]
      BY <1>0, <1>7
    <2> HIDE DEF m, q
    <2>2. proc' \in [Loops -> LoopRecord] /\ proc'["main"] = m /\ proc'["pair"] = q
      BY <1>0, <1>4, <2>1 DEF Loops
    <2>3. TurnsHold'
      BY <1>0, <1>1, <1>4, <2>2 DEF TurnsHold
    <2> QED BY <1>1, <1>4, <2>2, <2>3, LoopsSet
  <1>8. CASE proc' = [proc EXCEPT !["main"].at = "fetch"] /\ proc["main"].at = "setup"
    <2>1. proc' = [proc EXCEPT !["main"] = f]
      BY <1>0, <1>8
    <2> HIDE DEF f
    <2>2. proc' \in [Loops -> LoopRecord] /\ proc'["main"] = f /\ proc'["pair"] = proc["pair"]
      BY <1>0, <1>4, <2>1 DEF Loops
    <2>3. TurnsHold'
      BY <1>0, <1>1, <1>4, <2>2 DEF TurnsHold
    <2> QED BY <1>0, <1>1, <1>4, <1>8, <2>2, <2>3, LoopsSet
  <1>9. CASE proc' = [proc EXCEPT !["main"] = [@ EXCEPT !.at = "publish", !.token = stored.token]]
    <2>1. proc' = [proc EXCEPT !["main"] = b]
      BY <1>0, <1>9
    <2> HIDE DEF b
    <2>2. proc' \in [Loops -> LoopRecord] /\ proc'["main"] = b /\ proc'["pair"] = proc["pair"]
      BY <1>0, <1>5, <2>1 DEF Loops
    <2>3. TurnsHold'
      BY <1>0, <1>1, <1>6, <2>2 DEF TurnsHold
    <2> QED BY <1>0, <1>1, <1>5, <1>6, <2>2, <2>3, LoopsSet
  <1> QED BY <1>7, <1>8, <1>9 DEF Start, Setup

\* Each loop takes its Snapshot.
LEMMA SnapshotsKeep == ASSUME WorkerInv, PairSnapshot \/ Snapshot PROVE WorkerInv'
  <1>0. /\ proc \in [Loops -> LoopRecord] /\ proc["main"] \in LoopRecord /\ proc["pair"] \in LoopRecord
        /\ stored.token \in Nat /\ stored.paired \in Nat /\ TurnsHold /\ WorkerSound
        /\ "main" \in Loops /\ "pair" \in Loops
    BY LoopFacts DEF WorkerInv
  <1>1. UNCHANGED << stored, relay, sem, sessions, matched, client, denied, cancelled >>
    BY DEF PairSnapshot, Snapshot
  <1>2. CASE Snapshot
    <2> DEFINE m == [at |-> "renew", token |-> stored.token, scope |-> stored.paired]
    <2>1. m \in LoopRecord /\ m.at = "renew" /\ m.token = stored.token
      BY <1>0 DEF LoopRecord, LoopAts
    <2>2. proc' = [proc EXCEPT !["main"] = m] /\ proc["main"].at = "snap" /\ stored.paired # 0
      BY <1>2 DEF Snapshot
    <2> HIDE DEF m
    <2>3. proc' \in [Loops -> LoopRecord] /\ proc'["main"] = m /\ proc'["pair"] = proc["pair"]
      BY <1>0, <2>1, <2>2 DEF Loops
    <2>4. TurnsHold'
      BY <1>0, <1>1, <2>1, <2>2, <2>3 DEF TurnsHold
    <2> QED BY <1>0, <1>1, <2>1, <2>2, <2>3, <2>4, LoopsSet
  <1>3. CASE PairSnapshot
    <2> DEFINE a == IF PendingOffer THEN "publish" ELSE "accept"
               q == [proc["pair"] EXCEPT !.at = a, !.token = stored.token]
    <2>1. proc' = [proc EXCEPT !["pair"] = q] /\ proc["pair"].at = "snap"
      BY <1>0, <1>3 DEF PairSnapshot
    <2>2. a \in LoopAts /\ ((a = "publish" /\ stored.paired = 0) \/ a = "accept")
      BY DEF LoopAts, PendingOffer
    <2> HIDE DEF a
    <2>3. q \in LoopRecord
      BY <1>0, <2>2 DEF LoopRecord
    <2>4. q.at = a /\ q.token = stored.token
      BY <1>0 DEF LoopRecord
    <2> HIDE DEF q
    <2>5. proc' \in [Loops -> LoopRecord] /\ proc'["main"] = proc["main"] /\ proc'["pair"] = q
      BY <1>0, <2>1, <2>3 DEF Loops
    <2>6. TurnsHold'
      BY <1>0, <1>1, <2>1, <2>2, <2>4, <2>5 DEF TurnsHold
    <2>7. proc["main"].at # "returned" /\ q.at # "save"
      BY <1>0, <2>1, <2>2, <2>4 DEF WorkerSound
    <2> QED BY <1>0, <1>1, <2>2, <2>3, <2>4, <2>5, <2>6, <2>7, LoopsSet
  <1> QED BY <1>2, <1>3

\* A step of the main loop that takes or gives back a place: what is left to
\* show is about the places.
LEMMA PlacesGo ==
    ASSUME WorkerInv, NEW at \in LoopAts, Goto("main", at),
           at = "accept" \/ at = "fresh" \/ at = "snap",
           proc["main"].at = "slot" \/ proc["main"].at = "accept" \/ proc["main"].at = "fresh",
           UNCHANGED << stored, client, denied, cancelled >>,
           relay' = relay \/ \E b \in BOOLEAN : relay' = [relay EXCEPT !.leg = b],
           sem' \in 0 .. Slots, sessions' \subseteq SessionRecord, IsFiniteSet(sessions'),
           matched' \in Nat, matched' <= stored.paired,
           \A s \in sessions' : s.scope >= s.peer,
           sem' = Cardinality(sessions') + (IF at = "snap" THEN 0 ELSE 1)
    PROVE  WorkerInv'
  <1>0. /\ TurnsHold /\ TokensHold /\ "main" \in Loops /\ "pair" \in Loops /\ "main" # "pair"
        /\ relay \in [up : BOOLEAN, offered : BOOLEAN, registered : Nat, approvals : Nat, cutoff : Nat,
                      leg : BOOLEAN]
    BY DEF WorkerInv, WorkerTypes, Loops
  <1>1. /\ proc' \in [Loops -> LoopRecord] /\ proc'["main"].at = at
        /\ proc'["main"].token = proc["main"].token /\ proc'["pair"] = proc["pair"]
    BY <1>0, GotoFacts
  <1>2. /\ relay' \in [up : BOOLEAN, offered : BOOLEAN, registered : Nat, approvals : Nat, cutoff : Nat,
                       leg : BOOLEAN]
        /\ relay'.registered = relay.registered /\ relay'.approvals = relay.approvals
    BY <1>0
  <1>3. stored' = stored /\ client' = client
    OBVIOUS
  <1>4. TurnsHold'
    BY <1>0, <1>1, <1>3 DEF TurnsHold
  <1>5. TokenHolds("main")' /\ TokenHolds("pair")'
    BY <1>0, <1>1, <1>2, <1>3 DEF TokensHold, TokenHolds
  <1>6. TokensHold'
    BY <1>0, <1>2, <1>3, <1>5 DEF TokensHold, Loops
  <1>7. WorkerTypes'
    BY <1>1, <1>2 DEF WorkerInv, WorkerTypes
  <1>8. GenerationsHold'
    BY <1>3 DEF WorkerInv, GenerationsHold
  <1>9. WorkerSound'
    <2>1. CASE at = "snap"
      BY <1>1, <2>1 DEF WorkerSound
    <2>2. CASE at # "snap"
      BY <1>1, <2>2 DEF WorkerSound
    <2> QED BY <2>1, <2>2
  <1> QED BY <1>4, <1>6, <1>7, <1>8, <1>9 DEF WorkerInv

\* While the loop has a leg of its own there is a free slot, whose session is
\* a new one.
LEMMA SlotIsFree ==
    ASSUME WorkerInv, proc["main"].at = "fresh"
    PROVE  FreeSlot \in 1 .. Slots /\ \A s \in sessions : s.slot # FreeSlot
  <1>1. /\ IsFiniteSet(sessions) /\ sem = Cardinality(sessions) + 1 /\ sem \in 0 .. Slots
        /\ Slots \in Nat /\ Cardinality(sessions) \in Nat
    BY FS_CardinalityType, WorkerBounds DEF WorkerInv, WorkerTypes, WorkerSound
  <1> DEFINE used == {s.slot : s \in sessions}
             f == [s \in sessions |-> s.slot]
  <1>2. IsFiniteSet(used) /\ Cardinality(used) <= Cardinality(sessions)
    <2>1. f \in Surjection(sessions, used)
      BY DEF Surjection
    <2> HIDE DEF used, f
    <2> QED BY <1>1, <2>1, FS_Surjection
  <1>3. Cardinality(used) \in Nat
    BY <1>2, FS_CardinalityType
  <1>4. IsFiniteSet(1 .. Slots) /\ Cardinality(1 .. Slots) = Slots
    BY <1>1, FS_Interval
  <1>5. ~(1 .. Slots \subseteq used)
    <2> SUFFICES ASSUME 1 .. Slots \subseteq used PROVE FALSE
      OBVIOUS
    <2>1. 1 .. Slots \in SUBSET used
      OBVIOUS
    <2> HIDE DEF used
    <2>2. Cardinality(1 .. Slots) <= Cardinality(used)
      BY <1>2, <2>1, FS_Subset
    <2> QED BY <1>1, <1>2, <1>3, <1>4, <2>2
  <1>6. \E n \in 1 .. Slots : \A s \in sessions : s.slot # n
    BY <1>5
  <1> QED BY <1>6 DEF FreeSlot

\* The warm leg: its place, its match, and the session that takes the place over.
LEMMA LegKeeps ==
    ASSUME WorkerInv, TakeSlot \/ Matched \/ AcceptFails \/ ServeFresh \/ FreshRefused
    PROVE  WorkerInv'
  <1>0. /\ sessions \subseteq SessionRecord /\ IsFiniteSet(sessions) /\ Cardinality(sessions) \in Nat
        /\ sem \in 0 .. Slots /\ Slots \in Nat /\ matched \in Nat /\ client \in Nat
        /\ matched <= stored.paired /\ client <= stored.paired /\ stored.paired \in Nat
    BY FS_CardinalityType, WorkerBounds, LoopFacts DEF WorkerInv, WorkerTypes, GenerationsHold
  <1>1. /\ \A s \in sessions : s.scope >= s.peer
        /\ proc["main"].at \in {"accept", "fresh"} => sem = Cardinality(sessions) + 1
        /\ proc["main"].at \notin {"accept", "fresh"} => sem = Cardinality(sessions)
    BY <1>0 DEF WorkerInv, WorkerSound
  <1>2. "accept" \in LoopAts /\ "fresh" \in LoopAts /\ "snap" \in LoopAts
    BY DEF LoopAts
  <1>3. CASE TakeSlot
    <2>1. /\ proc["main"].at = "slot" /\ Goto("main", "accept") /\ sem' = sem + 1 /\ sem < Slots
          /\ UNCHANGED << stored, relay, sessions, matched, client, denied, cancelled >>
      BY <1>3 DEF TakeSlot
    <2>2. sem' \in 0 .. Slots /\ sem' = Cardinality(sessions') + 1
      BY <1>0, <1>1, <2>1
    <2> QED BY <1>0, <1>1, <1>2, <2>1, <2>2, PlacesGo
  <1>4. CASE Matched
    <2>1. /\ proc["main"].at = "accept" /\ Goto("main", "fresh") /\ matched' = client
          /\ relay' = [relay EXCEPT !.leg = FALSE]
          /\ UNCHANGED << stored, sem, sessions, client, denied, cancelled >>
      BY <1>4 DEF Matched
    <2> QED BY <1>0, <1>1, <1>2, <2>1, PlacesGo
  <1>5. CASE AcceptFails
    <2>1. /\ proc["main"].at = "accept" /\ Goto("main", "snap") /\ sem' = sem - 1
          /\ relay' = [relay EXCEPT !.leg = FALSE]
          /\ UNCHANGED << stored, sessions, matched, client, denied, cancelled >>
      BY <1>5 DEF AcceptFails
    <2>2. sem' \in 0 .. Slots /\ sem' = Cardinality(sessions') + 0
      BY <1>0, <1>1, <2>1
    <2> QED BY <1>0, <1>1, <1>2, <2>1, <2>2, PlacesGo
  <1>6. CASE FreshRefused
    <2>1. /\ proc["main"].at = "fresh" /\ Goto("main", "snap") /\ sem' = sem - 1 /\ matched' = 0
          /\ UNCHANGED << stored, relay, sessions, client, denied, cancelled >>
      BY <1>6 DEF FreshRefused
    <2>2. sem' \in 0 .. Slots /\ sem' = Cardinality(sessions') + 0 /\ matched' <= stored.paired
      BY <1>0, <1>1, <2>1
    <2> QED BY <1>0, <1>1, <1>2, <2>1, <2>2, PlacesGo
  <1>7. CASE ServeFresh
    <2> DEFINE s == [slot |-> FreeSlot, peer |-> matched, scope |-> stored.paired]
    <2>1. /\ proc["main"].at = "fresh" /\ Goto("main", "snap") /\ sessions' = sessions \union {s}
          /\ matched' = 0 /\ UNCHANGED << stored, relay, sem, client, denied, cancelled >>
      BY <1>7 DEF ServeFresh
    <2>2. FreeSlot \in 1 .. Slots /\ \A t \in sessions : t.slot # FreeSlot
      BY <2>1, SlotIsFree
    <2>3. s \in SessionRecord /\ s.scope >= s.peer /\ s \notin sessions
      BY <1>0, <2>2 DEF SessionRecord
    <2> HIDE DEF s
    <2>4. IsFiniteSet(sessions') /\ Cardinality(sessions') = Cardinality(sessions) + 1
      BY <1>0, <2>1, <2>3, FS_AddElement
    <2>5. sessions' \subseteq SessionRecord /\ \A t \in sessions' : t.scope >= t.peer
      BY <1>0, <1>1, <2>1, <2>3
    <2>6. sem' \in 0 .. Slots /\ sem' = Cardinality(sessions') + 0 /\ matched' \in Nat
          /\ matched' <= stored.paired
      BY <1>0, <1>1, <2>1, <2>4
    <2> QED BY <1>2, <2>1, <2>4, <2>5, <2>6, PlacesGo
  <1> QED BY <1>3, <1>4, <1>5, <1>6, <1>7

\* A session's goroutine gives its place back.
LEMMA SessionReturnsKeeps ==
    ASSUME WorkerInv, NEW s \in sessions, SessionReturns(s)
    PROVE  WorkerInv'
  <1>1. /\ sessions' = sessions \ {s} /\ sem' = sem - 1
        /\ UNCHANGED << stored, relay, proc, matched, client, denied, cancelled >>
    BY DEF SessionReturns
  <1>2. /\ sessions \subseteq SessionRecord /\ IsFiniteSet(sessions) /\ sem \in 0 .. Slots /\ Slots \in Nat
    BY WorkerBounds DEF WorkerInv, WorkerTypes
  <1>3. /\ IsFiniteSet(sessions \ {s}) /\ Cardinality(sessions \ {s}) = Cardinality(sessions) - 1
        /\ Cardinality(sessions) \in Nat /\ Cardinality(sessions \ {s}) \in Nat
    BY <1>2, FS_RemoveElement, FS_CardinalityType
  <1>4. sem \in Nat /\ sem' \in 0 .. Slots /\ sem # 0
    BY <1>1, <1>2, <1>3 DEF WorkerInv, WorkerSound
  <1>5. WorkerSound'
    BY <1>1, <1>2, <1>3, <1>4 DEF WorkerInv, WorkerSound
  <1>6. WorkerTypes'
    BY <1>1, <1>2, <1>3, <1>4 DEF WorkerInv, WorkerTypes
  <1>7. TurnsHold' /\ GenerationsHold'
    BY <1>1 DEF WorkerInv, TurnsHold, GenerationsHold
  <1>8. TokensHold'
    BY <1>1 DEF WorkerInv, TokensHold, TokenHolds
  <1> QED BY <1>5, <1>6, <1>7, <1>8 DEF WorkerInv

\* Exchange: a generation is committed before the client can hold it.
LEMMA ExchangeKeeps == ASSUME WorkerInv, Exchange PROVE WorkerInv'
  <1>0. /\ TurnsHold /\ TokensHold /\ WorkerSound /\ GenerationsHold /\ "pair" \in Loops /\ "main" \in Loops
        /\ stored \in [token : Nat, paired : Nat, offer : BOOLEAN] /\ matched \in Nat /\ client \in Nat
    BY DEF WorkerInv, WorkerTypes, Loops
  <1>1. /\ proc["pair"].at = "accept" /\ Goto("pair", "snap") /\ "snap" \in LoopAts
        /\ stored' = [stored EXCEPT !.paired = @ + 1]
        /\ client' = client \/ client' = stored'.paired
        /\ UNCHANGED << relay, sem, sessions, matched, denied, cancelled >>
    BY DEF Exchange, LoopAts
  <1>2. /\ stored' \in [token : Nat, paired : Nat, offer : BOOLEAN] /\ stored'.token = stored.token
        /\ stored'.paired = stored.paired + 1
    BY <1>0, <1>1
  <1>3. /\ proc' \in [Loops -> LoopRecord] /\ proc'["pair"].at = "snap"
        /\ proc'["pair"].token = proc["pair"].token /\ proc'["main"] = proc["main"]
    BY <1>0, <1>1, GotoFacts DEF Loops
  <1>4. GenerationsHold' /\ client' \in Nat
    BY <1>0, <1>1, <1>2 DEF GenerationsHold
  <1>5. TurnsHold'
    BY <1>0, <1>1, <1>2, <1>3 DEF TurnsHold
  <1>6. TokenHolds("main")' /\ TokenHolds("pair")'
    BY <1>0, <1>1, <1>2, <1>3 DEF TokensHold, TokenHolds
  <1>7. TokensHold'
    BY <1>0, <1>1, <1>2, <1>6 DEF TokensHold, Loops
  <1>8. WorkerTypes'
    BY <1>1, <1>2, <1>3, <1>4 DEF WorkerInv, WorkerTypes
  <1>9. WorkerSound'
    BY <1>0, <1>1, <1>3 DEF WorkerSound
  <1> QED BY <1>4, <1>5, <1>7, <1>8, <1>9 DEF WorkerInv

\* The process ends or starts again: its loops and sessions are gone.
LEMMA RestartsKeep == ASSUME WorkerInv, Restarts PROVE WorkerInv'
  <1>0. /\ TokensHold /\ GenerationsHold /\ proc \in [Loops -> LoopRecord]
        /\ relay \in [up : BOOLEAN, offered : BOOLEAN, registered : Nat, approvals : Nat, cutoff : Nat,
                      leg : BOOLEAN]
        /\ Slots \in Nat /\ stored.paired \in Nat /\ relay.approvals \in Nat
    BY WorkerBounds DEF WorkerInv, WorkerTypes
  <1> DEFINE a == IF denied THEN "returned" ELSE "start"
             m == [IdleLoop EXCEPT !.at = a]
  <1>1. /\ proc' = [proc EXCEPT !["pair"] = IdleLoop, !["main"] = m]
        /\ sem' = 0 /\ sessions' = {} /\ matched' = 0 /\ relay' = [relay EXCEPT !.leg = FALSE]
        /\ cancelled' = FALSE /\ UNCHANGED << stored, client, denied >>
    BY DEF Restarts
  <1>2. a \in LoopAts /\ (a = "returned" \/ a = "start")
    BY DEF LoopAts
  <1> HIDE DEF a
  <1>3. m \in LoopRecord /\ m.at = a /\ m.token = 0
    BY <1>2 DEF IdleLoop, LoopRecord, NoToken
  <1>4. IdleLoop \in LoopRecord /\ IdleLoop.at = "off" /\ IdleLoop.token = 0
    BY DEF IdleLoop, LoopRecord, LoopAts, NoToken
  <1> HIDE DEF m
  <1>5. proc' \in [Loops -> LoopRecord] /\ proc'["main"] = m /\ proc'["pair"] = IdleLoop
    BY <1>0, <1>1, <1>3, <1>4 DEF Loops
  <1>6. /\ relay' \in [up : BOOLEAN, offered : BOOLEAN, registered : Nat, approvals : Nat, cutoff : Nat,
                       leg : BOOLEAN]
        /\ relay'.registered = relay.registered /\ relay'.approvals = relay.approvals
    BY <1>0, <1>1
  <1>7. IsFiniteSet({}) /\ Cardinality({}) = 0
    BY FS_EmptySet
  <1>8. TurnsHold'
    BY <1>2, <1>3, <1>4, <1>5 DEF TurnsHold
  <1>9. TokenHolds("main")' /\ TokenHolds("pair")'
    BY <1>0, <1>2, <1>3, <1>4, <1>5, <1>6 DEF TokenHolds
  <1>10. TokensHold'
    BY <1>0, <1>1, <1>6, <1>9 DEF TokensHold, Loops
  <1>11. WorkerTypes'
    <2>1. sem' \in 0 .. Slots /\ sessions' \subseteq SessionRecord /\ IsFiniteSet(sessions') /\ matched' \in Nat
      BY <1>0, <1>1, <1>7
    <2>2. /\ stored' \in [token : Nat, paired : Nat, offer : BOOLEAN] /\ client' \in Nat /\ denied' \in BOOLEAN
          /\ cancelled' \in BOOLEAN
      BY <1>1 DEF WorkerInv, WorkerTypes
    <2> QED BY <1>5, <1>6, <2>1, <2>2 DEF WorkerTypes
  <1>12. WorkerSound'
    BY <1>1, <1>2, <1>3, <1>4, <1>5, <1>7 DEF WorkerSound
  <1>13. GenerationsHold'
    BY <1>0, <1>1 DEF GenerationsHold
  <1> QED BY <1>8, <1>10, <1>11, <1>12, <1>13 DEF WorkerInv

\* The relay forgets its registration, or has one of a later approval than any
\* token; the rest of the worker is as it was.
LEMMA RelayKeeps ==
    ASSUME WorkerInv, UNCHANGED << stored, proc, sem, sessions, matched, client >>,
           denied' \in BOOLEAN, cancelled' \in BOOLEAN,
           relay' \in [up : BOOLEAN, offered : BOOLEAN, registered : Nat, approvals : Nat, cutoff : Nat,
                       leg : BOOLEAN],
           \/ relay'.registered = relay.registered /\ relay'.approvals = relay.approvals
           \/ relay'.registered = NoToken /\ relay'.approvals = relay.approvals
           \/ relay'.registered = relay.approvals + 1 /\ relay'.approvals = relay.approvals + 1
    PROVE  WorkerInv'
  <1>1. stored' = stored /\ proc' = proc /\ sem' = sem /\ sessions' = sessions /\ matched' = matched
        /\ client' = client
    OBVIOUS
  <1>2. TurnsHold' /\ GenerationsHold' /\ WorkerSound'
    BY <1>1 DEF WorkerInv, TurnsHold, GenerationsHold, WorkerSound
  <1>3. WorkerTypes'
    BY <1>1 DEF WorkerInv, WorkerTypes
  <1>4. ASSUME NEW p \in Loops PROVE TokenHolds(p)'
    <2>1. /\ TokenHolds(p) /\ proc[p].token \in Nat /\ relay.approvals \in Nat /\ relay.registered \in Nat
          /\ stored.token \in Nat
      BY LoopFacts
    <2> QED BY <1>1, <2>1 DEF TokenHolds, NoToken
  <1>5. TokensHold'
    <2>1. relay.approvals \in Nat /\ stored.token \in Nat /\ TokensHold
      BY LoopFacts DEF WorkerInv
    <2> QED BY <1>1, <1>4, <2>1 DEF TokensHold, NoToken
  <1> QED BY <1>2, <1>3, <1>5 DEF WorkerInv

\* The queued leg, the relay and its administrator, the alarm and the ticker.
LEMMA OutsideKeeps ==
    ASSUME WorkerInv, AcceptQueued \/ RelayMoves \/ Deny \/ PolicyTick
    PROVE  WorkerInv'
  <1>0. /\ relay \in [up : BOOLEAN, offered : BOOLEAN, registered : Nat, approvals : Nat, cutoff : Nat,
                      leg : BOOLEAN]
        /\ denied \in BOOLEAN /\ cancelled \in BOOLEAN
    BY DEF WorkerInv, WorkerTypes
  <1>1. /\ UNCHANGED << stored, proc, sem, sessions, matched, client >>
        /\ denied' \in BOOLEAN /\ cancelled' \in BOOLEAN
    BY <1>0 DEF AcceptQueued, RelayMoves, ApproveRoute, Remove, RelayDown, RelayUp, Deny, PolicyTick
  <1>2. CASE ApproveRoute
    <2>1. relay' = [relay EXCEPT !.approvals = relay.approvals + 1, !.registered = relay.approvals + 1]
      BY <1>0, <1>2 DEF ApproveRoute
    <2>2. /\ relay'.registered = relay.approvals + 1 /\ relay'.approvals = relay.approvals + 1
          /\ relay' \in [up : BOOLEAN, offered : BOOLEAN, registered : Nat, approvals : Nat, cutoff : Nat,
                         leg : BOOLEAN]
      <3>1. ASSUME NEW n \in Nat, NEW r \in [up : BOOLEAN, offered : BOOLEAN, registered : Nat, approvals : Nat,
                                            cutoff : Nat, leg : BOOLEAN]
            PROVE  LET q == [r EXCEPT !.approvals = n, !.registered = n] IN
                   /\ q.registered = n /\ q.approvals = n
                   /\ q \in [up : BOOLEAN, offered : BOOLEAN, registered : Nat, approvals : Nat, cutoff : Nat,
                             leg : BOOLEAN]
        OBVIOUS
      <3>2. relay.approvals + 1 \in Nat
        BY <1>0
      <3> QED BY <1>0, <2>1, <3>1, <3>2
    <2> QED BY <1>1, <2>2, RelayKeeps
  <1>3. CASE Remove
    <2>1. /\ relay'.registered = NoToken /\ relay'.approvals = relay.approvals
          /\ relay' \in [up : BOOLEAN, offered : BOOLEAN, registered : Nat, approvals : Nat, cutoff : Nat,
                         leg : BOOLEAN]
      BY <1>0, <1>3 DEF Remove, NoToken
    <2> QED BY <1>1, <2>1, RelayKeeps
  <1>4. CASE RelayDown
    <2>1. /\ relay'.registered = NoToken /\ relay'.approvals = relay.approvals
          /\ relay' \in [up : BOOLEAN, offered : BOOLEAN, registered : Nat, approvals : Nat, cutoff : Nat,
                         leg : BOOLEAN]
      BY <1>0, <1>4 DEF RelayDown, NoToken
    <2> QED BY <1>1, <2>1, RelayKeeps
  <1>5. CASE AcceptQueued \/ RelayUp \/ Deny \/ PolicyTick
    <2>1. /\ relay'.registered = relay.registered /\ relay'.approvals = relay.approvals
          /\ relay' \in [up : BOOLEAN, offered : BOOLEAN, registered : Nat, approvals : Nat, cutoff : Nat,
                         leg : BOOLEAN]
      BY <1>0, <1>5 DEF AcceptQueued, RelayUp, Deny, PolicyTick
    <2> QED BY <1>1, <2>1, RelayKeeps
  <1> QED BY <1>2, <1>3, <1>4, <1>5 DEF RelayMoves

\* A save of either loop, with where the loop goes on.
LEMMA SavesKeep ==
    ASSUME WorkerInv,
           \/ /\ proc["pair"].at = "off"
              /\ SaveToken("main", IF stored.token = NoToken THEN "setup" ELSE "publish")
           \/ proc["pair"].at # "off" /\ SaveToken("main", "slot")
           \/ SaveToken("pair", "publish")
    PROVE  WorkerInv' /\ stored'.token >= stored.token
  <1>1. "main" \in Loops /\ "pair" \in Loops /\ "setup" \in LoopAts /\ "publish" \in LoopAts
        /\ "slot" \in LoopAts
    BY DEF Loops, LoopAts
  <1>2. CASE proc["pair"].at = "off" /\ SaveToken("main", IF stored.token = NoToken THEN "setup" ELSE "publish")
    <2>1. SaveToken("main", "setup") \/ SaveToken("main", "publish")
      BY <1>2
    <2> QED BY <1>1, <1>2, <2>1, SaveKeeps
  <1>3. CASE proc["pair"].at # "off" /\ SaveToken("main", "slot")
    BY <1>1, <1>3, SaveKeeps
  <1>4. CASE SaveToken("pair", "publish")
    BY <1>1, <1>4, SaveKeeps
  <1> QED BY <1>2, <1>3, <1>4

\* Every step keeps the invariant, and none stores the token of an earlier
\* approval.
LEMMA WorkerKeeps ==
    ASSUME WorkerInv, [WorkerNext]_workerVars
    PROVE  WorkerInv' /\ stored'.token >= stored.token
  <1>0. "main" \in Loops /\ "pair" \in Loops /\ stored.token \in Nat
    BY LoopFacts
  <1> DEFINE Saves ==
               \/ /\ proc["pair"].at = "off"
                  /\ SaveToken("main", IF stored.token = NoToken THEN "setup" ELSE "publish")
               \/ proc["pair"].at # "off" /\ SaveToken("main", "slot")
               \/ SaveToken("pair", "publish")
  <1>1. CASE Saves
    BY <1>1, SavesKeep
  <1>2. CASE Exchange
    <2>1. stored'.token = stored.token
      BY <1>2 DEF Exchange, WorkerInv, WorkerTypes
    <2> QED BY <1>0, <1>2, <2>1, ExchangeKeeps
  <1>3. CASE ~Saves /\ ~Exchange
    <2>1. \/ \E p \in Loops : \/ PublishRefused(p) \/ PublishFails(p) \/ FetchFails(p) \/ LoopStops(p)
                              \/ Fetched(p) \/ SaveFails(p)
          \/ PublishDone("main", "setup") \/ PublishDone("pair", "accept")
          \/ PairAcceptEnds \/ TokenRenewed \/ RenewFails \/ Returns
          \/ Start \/ Setup \/ PairSnapshot \/ Snapshot
          \/ TakeSlot \/ Matched \/ AcceptFails \/ ServeFresh \/ FreshRefused
          \/ AcceptQueued \/ RelayMoves \/ Deny \/ PolicyTick \/ Restarts
          \/ \E s \in sessions : SessionReturns(s)
          \/ UNCHANGED workerVars
      BY <1>0, <1>3 DEF WorkerNext, SetupLoop, PairLoop, MainLoop
    <2> HIDE DEF Saves
    <2>2. stored' = stored
      BY <2>1 DEF PublishRefused, PublishFails, FetchFails, SaveFails, LoopStops, Fetched, PublishDone, PairAcceptEnds, TokenRenewed,
                  RenewFails, Returns, Start, Setup, PairSnapshot, Snapshot, TakeSlot, Matched, AcceptFails,
                  ServeFresh, FreshRefused, AcceptQueued, RelayMoves, ApproveRoute, Remove, RelayDown, RelayUp,
                  Deny, PolicyTick, Restarts, SessionReturns, workerVars
    <2>3. WorkerInv'
      <3>1. CASE UNCHANGED workerVars
        BY <3>1 DEF workerVars, WorkerInv, WorkerTypes, TurnsHold, TokensHold, TokenHolds, GenerationsHold,
                    WorkerSound
      <3>2. CASE \E p \in Loops : \/ PublishRefused(p) \/ PublishFails(p) \/ FetchFails(p) \/ LoopStops(p)
                                  \/ Fetched(p) \/ SaveFails(p)
        BY <3>2, PlainKeep, FetchedKeeps, SaveFailsKeeps
      <3>3. CASE PairAcceptEnds \/ TokenRenewed \/ RenewFails \/ Returns
        BY <3>3, PlainKeep
      <3>4. CASE AcceptQueued \/ RelayMoves \/ Deny \/ PolicyTick \/ Restarts
        BY <3>4, OutsideKeeps, RestartsKeep
      <3> QED BY <2>1, <3>1, <3>2, <3>3, <3>4, PublishKeeps, SetupKeeps, SnapshotsKeep, LegKeeps,
                 SessionReturnsKeeps
    <2> QED BY <1>0, <2>2, <2>3
  <1> QED BY <1>1, <1>2, <1>3

\* The worker before its first Snapshot.
LEMMA WorkerStarts == ASSUME WorkerInit PROVE WorkerInv
  <1>1. Slots \in Nat /\ IsFiniteSet({}) /\ Cardinality({}) = 0
    BY WorkerBounds, FS_EmptySet
  <1>2. IdleLoop \in LoopRecord /\ IdleLoop.at = "off" /\ IdleLoop.token = 0
    BY DEF IdleLoop, LoopRecord, LoopAts, NoToken
  <1>3. LET m == [IdleLoop EXCEPT !.at = "start"] IN m \in LoopRecord /\ m.at = "start" /\ m.token = 0
    BY DEF IdleLoop, LoopRecord, LoopAts, NoToken
  <1>4. /\ proc \in [Loops -> LoopRecord]
        /\ proc["main"] = [IdleLoop EXCEPT !.at = "start"] /\ proc["pair"] = IdleLoop
    BY <1>2, <1>3 DEF WorkerInit, Loops
  <1>5. /\ stored \in [token : Nat, paired : Nat, offer : BOOLEAN] /\ stored.token = 0 /\ stored.paired = 0
        /\ relay \in [up : BOOLEAN, offered : BOOLEAN, registered : Nat, approvals : Nat, cutoff : Nat,
                      leg : BOOLEAN]
        /\ relay.registered = 0 /\ relay.approvals = 0
    BY DEF WorkerInit, NoToken
  <1>6. sem = 0 /\ sessions = {} /\ matched = 0 /\ client = 0 /\ denied \in BOOLEAN /\ cancelled \in BOOLEAN
    BY DEF WorkerInit
  <1>7. WorkerTypes
    BY <1>1, <1>4, <1>5, <1>6 DEF WorkerTypes
  <1>8. TurnsHold
    BY <1>2, <1>3, <1>4 DEF TurnsHold
  <1>9. TokenHolds("main") /\ TokenHolds("pair")
    BY <1>2, <1>3, <1>4, <1>5 DEF TokenHolds
  <1>10. TokensHold
    BY <1>5, <1>9 DEF TokensHold, Loops, NoToken
  <1>11. GenerationsHold
    BY <1>5, <1>6 DEF GenerationsHold
  <1>12. WorkerSound
    BY <1>1, <1>2, <1>3, <1>4, <1>6 DEF WorkerSound
  <1> QED BY <1>7, <1>8, <1>10, <1>11, <1>12 DEF WorkerInv

\* The invariant of the worker: the two loops take turns at the token, and
\* what a loop is about to save descends from no earlier approval than the
\* record, nor from a later one than the registration at the relay.
THEOREM WorkerInductive == WorkerSpec => []WorkerInv
  <1>1. WorkerInit => WorkerInv
    BY WorkerStarts
  <1>2. WorkerInv /\ [WorkerNext]_workerVars => WorkerInv'
    BY WorkerKeeps
  <1> QED BY <1>1, <1>2, PTL DEF WorkerSpec

\* For any semaphore and any number of approvals and generations: no session
\* is judged by a record older than the generation its client holds, the
\* semaphore counts exactly the warm leg and the sessions, and a worker that
\* returned left neither a goroutine nor a place behind.
THEOREM WorkerTheorem == WorkerSpec => []WorkerSound
  <1>1. WorkerInv => WorkerSound
    BY DEF WorkerInv
  <1> QED BY <1>1, WorkerInductive, PTL

\* Setup, the pairing goroutine and the main loop all save a token they got
\* over the network: none replaces that of an approval by an earlier one's.
THEOREM TokenTheorem == WorkerSpec => TokenNeverRegresses
  <1>1. WorkerInv /\ [WorkerNext]_workerVars => [stored'.token >= stored.token]_workerVars
    BY WorkerKeeps
  <1> QED BY <1>1, WorkerInductive, PTL DEF WorkerSpec, TokenNeverRegresses

-----------------------------------------------------------------------------
(* The deadlines of a v1 session. *)

EndAts == Waits \union {"copy", "drain", "closed"}
CopyAts == {"off", "read", "touch", "write", "last", "done"}
DeadlineTypes ==
    /\ clock \in Nat
    /\ end \in [Ends -> [at : EndAts, until : Nat]]
    /\ due \in [Sockets -> Nat]
    /\ alive \subseteq Sockets
    /\ copy \in [Directions -> CopyAts]
    /\ life \in [granted : Nat, expires : Nat, touched : Nat]
    /\ carried \in [Directions -> Nat]

\* Nothing is copied before READY; what was read after the expiry was the last.
CarriedHolds ==
    /\ end["connector"].at \in Waits => \A d \in Directions : copy[d] = "off" /\ carried[d] = 0
    /\ \A d \in Directions :
         carried[d] # 0 => /\ carried[d] = 1 /\ copy[d] \in {"touch", "last", "done"}
                           /\ clock >= life.expires

DeadlineInv ==
    /\ DeadlineTypes
    /\ CarriedHolds
    /\ end["connector"].at = "copy" => life.expires <= MaxClock
    /\ DeadlinesHold

\* The guard's deadline while both directions copy, and the client's.
GuardHolds ==
    end["connector"].at = "copy" =>
      /\ due["inner"] = due["local"]
      /\ due["inner"] = Minimum(life.touched + GuardIdle, life.expires)
      /\ life.expires <= MaxClock
StreamHolds == end["client"].at = "copy" => due["client"] = Never

\* The invariant in these parts.
LEMMA DeadlineParts == DeadlineInv <=> DeadlineTypes /\ CarriedHolds /\ GuardHolds /\ StreamHolds
  <1>1. ASSUME DeadlineTypes, CarriedHolds PROVE \A d \in Directions : carried[d] <= 1
    BY <1>1 DEF CarriedHolds, DeadlineTypes
  <1> QED BY <1>1 DEF DeadlineInv, DeadlinesHold, GuardHolds, StreamHolds

\* The same of the next state.
LEMMA PartsNext ==
    ASSUME DeadlineTypes', CarriedHolds', GuardHolds', StreamHolds'
    PROVE  DeadlineInv'
  <1>1. (\A d \in Directions : carried[d] <= 1)'
    BY DEF CarriedHolds, DeadlineTypes
  <1> QED BY <1>1 DEF DeadlineInv, DeadlinesHold, GuardHolds, StreamHolds

\* Times of the future are natural numbers within the bound.
LEMMA TimeFacts ==
    ASSUME DeadlineTypes
    PROVE  /\ MaxClock \in Nat /\ Phase \in Nat /\ IdleLimit \in Nat /\ Lifetime \in Nat /\ Drain \in Nat
           /\ LeafEnd \in Nat /\ clock \in Nat /\ life.granted \in Nat /\ life.expires \in Nat
           /\ life.touched \in Nat /\ GuardIdle \in Nat /\ Never \in Nat
           /\ \A x \in Nat : In(x) \in Nat /\ In(x) <= MaxClock
  <1>1. /\ MaxClock \in Nat /\ Phase \in Nat /\ IdleLimit \in Nat /\ Lifetime \in Nat /\ Drain \in Nat
        /\ LeafEnd \in Nat
    BY DeadlineBounds
  <1>2. clock \in Nat /\ life.granted \in Nat /\ life.expires \in Nat /\ life.touched \in Nat
    BY DEF DeadlineTypes
  <1>3. GuardIdle \in Nat /\ Never \in Nat
    BY <1>1, <1>2 DEF GuardIdle, Minimum, Never
  <1>4. \A x \in Nat : In(x) \in Nat /\ In(x) <= MaxClock
    BY <1>1, <1>2 DEF In, Minimum
  <1> QED BY <1>1, <1>2, <1>3, <1>4

\* End e goes to phase a.
EndGoes(e, a) ==
    /\ end' \in [Ends -> [at : EndAts, until : Nat]]
    /\ end'[e].at = a /\ \A f \in Ends : f # e => end'[f] = end[f]

\* An end that changes its phase only.
LEMMA PhaseGoes ==
    ASSUME DeadlineTypes, NEW e \in Ends, NEW a \in EndAts, end' = [end EXCEPT ![e].at = a]
    PROVE  EndGoes(e, a)
  <1>1. end \in [Ends -> [at : EndAts, until : Nat]]
    BY DEF DeadlineTypes
  <1>2. [end[e] EXCEPT !.at = a] \in [at : EndAts, until : Nat] /\ [end[e] EXCEPT !.at = a].at = a
    BY <1>1
  <1>3. end' = [end EXCEPT ![e] = [end[e] EXCEPT !.at = a]]
    BY <1>1
  <1> QED BY <1>1, <1>2, <1>3 DEF EndGoes

\* An end that starts its drain.
LEMMA DrainGoes ==
    ASSUME DeadlineTypes, NEW e \in Ends, end' = [end EXCEPT ![e] = [at |-> "drain", until |-> In(Drain)]]
    PROVE  EndGoes(e, "drain")
  <1>1. end \in [Ends -> [at : EndAts, until : Nat]] /\ In(Drain) \in Nat
    BY TimeFacts DEF DeadlineTypes
  <1>2. [at |-> "drain", until |-> In(Drain)] \in [at : EndAts, until : Nat]
    BY <1>1 DEF EndAts
  <1> QED BY <1>1, <1>2 DEF EndGoes

\* A phase of the client that touches no deadline of the connector.
LEMMA ClientKeeps ==
    ASSUME DeadlineInv, NEW a \in EndAts, EndGoes("client", a),
           due' \in [Sockets -> Nat], due'["inner"] = due["inner"], due'["local"] = due["local"],
           a # "copy" \/ due'["client"] = Never,
           alive' \subseteq Sockets, UNCHANGED << clock, copy, life, carried >>
    PROVE  DeadlineInv'
  <1>1. DeadlineTypes /\ CarriedHolds /\ GuardHolds /\ StreamHolds
    BY DeadlineParts
  <1>2. clock' = clock /\ copy' = copy /\ life' = life /\ carried' = carried
    OBVIOUS
  <1>3. end'["connector"] = end["connector"] /\ end'["client"].at = a
        /\ end' \in [Ends -> [at : EndAts, until : Nat]]
    BY DEF EndGoes, Ends
  <1>4. DeadlineTypes'
    BY <1>1, <1>2, <1>3 DEF DeadlineTypes
  <1>5. CarriedHolds'
    BY <1>1, <1>2, <1>3 DEF CarriedHolds
  <1>6. GuardHolds'
    BY <1>1, <1>2, <1>3 DEF GuardHolds, GuardIdle
  <1>7. StreamHolds'
    BY <1>3 DEF StreamHolds, Never
  <1> QED BY <1>4, <1>5, <1>6, <1>7, PartsNext

\* A phase of the connector other than copying; copying may only have been
\* before.
LEMMA ConnectorEndKeeps ==
    ASSUME DeadlineInv, NEW a \in EndAts, EndGoes("connector", a), a # "copy",
           a \in Waits => end["connector"].at \in Waits,
           due' \in [Sockets -> Nat], due'["client"] = due["client"],
           alive' \subseteq Sockets, UNCHANGED << clock, copy, life, carried >>
    PROVE  DeadlineInv'
  <1>1. DeadlineTypes /\ CarriedHolds /\ GuardHolds /\ StreamHolds
    BY DeadlineParts
  <1>2. clock' = clock /\ copy' = copy /\ life' = life /\ carried' = carried
    OBVIOUS
  <1>3. end'["client"] = end["client"] /\ end'["connector"].at = a
        /\ end' \in [Ends -> [at : EndAts, until : Nat]]
    BY DEF EndGoes, Ends
  <1>4. DeadlineTypes'
    BY <1>1, <1>2, <1>3 DEF DeadlineTypes
  <1>5. CarriedHolds'
    BY <1>1, <1>2, <1>3 DEF CarriedHolds
  <1>6. GuardHolds'
    BY <1>3 DEF GuardHolds
  <1>7. StreamHolds'
    BY <1>1, <1>3 DEF StreamHolds, Never
  <1> QED BY <1>4, <1>5, <1>6, <1>7, PartsNext

\* The phases before READY, and the drains and ends of either side.
LEMMA PhasesKeep ==
    ASSUME DeadlineInv,
           \/ \E e \in Ends : OuterDone(e) \/ RequestWritten(e) \/ PhaseFails(e)
           \/ LocalDialed \/ ReadyRead \/ StartDrain \/ DrainEnds
           \/ ClientInputEnds \/ ClientReturns \/ ClientCloses
    PROVE  DeadlineInv'
  <1>0. /\ DeadlineTypes /\ due \in [Sockets -> Nat] /\ alive \subseteq Sockets
        /\ "client" \in Ends /\ "connector" \in Ends
    BY DEF DeadlineInv, DeadlineTypes, Ends
  <1>1. In(Phase) \in Nat /\ In(Drain) \in Nat /\ Never \in Nat
    BY <1>0, TimeFacts
  <1>2. \A a \in {"open", "inner", "ready", "copy", "drain", "closed"} : a \in EndAts
    BY DEF EndAts, Waits
  <1>3. ASSUME NEW e \in Ends, NEW a \in EndAts, a \in {"open", "inner", "ready"}, Enter(e, a),
               end[e].at \in Waits, alive' \subseteq Sockets, UNCHANGED << clock, copy, life, carried >>
        PROVE  DeadlineInv'
    <2>1. EndGoes(e, a)
      BY <1>0, <1>3, PhaseGoes DEF Enter
    <2>2. /\ due' \in [Sockets -> Nat]
          /\ e = "client" => due'["inner"] = due["inner"] /\ due'["local"] = due["local"]
          /\ e = "connector" => due'["client"] = due["client"]
      BY <1>0, <1>1, <1>3 DEF Enter, Sockets, Socket, Ends
    <2>3. CASE e = "client"
      BY <1>3, <2>1, <2>2, <2>3, ClientKeeps
    <2>4. CASE e = "connector"
      BY <1>3, <2>1, <2>2, <2>4, ConnectorEndKeeps
    <2> QED BY <2>3, <2>4 DEF Ends
  <1>4. ASSUME NEW e \in Ends, OuterDone(e) PROVE DeadlineInv'
    <2>1. /\ Enter(e, "open") /\ end[e].at \in Waits /\ alive' \subseteq Sockets
          /\ UNCHANGED << clock, copy, life, carried >>
      BY <1>0, <1>4 DEF OuterDone, Waits
    <2> QED BY <1>2, <1>3, <2>1
  <1>5. ASSUME NEW e \in Ends, RequestWritten(e) PROVE DeadlineInv'
    <2>1. /\ Enter(e, "inner") /\ end[e].at \in Waits /\ alive' \subseteq Sockets
          /\ UNCHANGED << clock, copy, life, carried >>
      BY <1>0, <1>5 DEF RequestWritten, Waits
    <2> QED BY <1>2, <1>3, <2>1
  <1>6. CASE LocalDialed
    <2>1. /\ Enter("connector", "ready") /\ end["connector"].at \in Waits /\ alive' \subseteq Sockets
          /\ UNCHANGED << clock, copy, life, carried >>
      BY <1>0, <1>6 DEF LocalDialed, Waits, Sockets
    <2> QED BY <1>0, <1>2, <1>3, <2>1
  <1>7. ASSUME NEW e \in Ends, PhaseFails(e) PROVE DeadlineInv'
    <2>1. /\ end' = [end EXCEPT ![e].at = "closed"] /\ due' = due /\ alive' \subseteq Sockets
          /\ UNCHANGED << clock, copy, life, carried >>
      BY <1>0, <1>7 DEF PhaseFails
    <2>2. EndGoes(e, "closed") /\ "closed" \in EndAts /\ "closed" \notin Waits
      BY <1>0, <1>2, <2>1, PhaseGoes DEF Waits
    <2>3. CASE e = "client"
      BY <1>0, <2>1, <2>2, <2>3, ClientKeeps
    <2>4. CASE e = "connector"
      BY <1>0, <2>1, <2>2, <2>4, ConnectorEndKeeps
    <2> QED BY <2>3, <2>4 DEF Ends
  <1>8. CASE ReadyRead
    <2>1. /\ end' = [end EXCEPT !["client"].at = "copy"] /\ due' = [due EXCEPT !["client"] = Never]
          /\ UNCHANGED << clock, alive, copy, life, carried >>
      BY <1>8 DEF ReadyRead
    <2>2. EndGoes("client", "copy") /\ "copy" \in EndAts
      BY <1>0, <1>2, <2>1, PhaseGoes
    <2>3. /\ due' \in [Sockets -> Nat] /\ due'["inner"] = due["inner"] /\ due'["local"] = due["local"]
          /\ due'["client"] = Never
      BY <1>0, <1>1, <2>1 DEF Sockets
    <2> QED BY <1>0, <2>1, <2>2, <2>3, ClientKeeps
  <1>9. CASE ClientInputEnds
    <2>1. /\ end' = [end EXCEPT !["client"] = [at |-> "drain", until |-> In(Drain)]]
          /\ due' = [due EXCEPT !["client"] = In(Drain)] /\ UNCHANGED << clock, alive, copy, life, carried >>
      BY <1>9 DEF ClientInputEnds
    <2>2. EndGoes("client", "drain") /\ "drain" \in EndAts
      BY <1>0, <1>2, <2>1, DrainGoes
    <2>3. due' \in [Sockets -> Nat] /\ due'["inner"] = due["inner"] /\ due'["local"] = due["local"]
      BY <1>0, <1>1, <2>1 DEF Sockets
    <2> QED BY <1>0, <2>1, <2>2, <2>3, ClientKeeps
  <1>10. CASE ClientReturns \/ ClientCloses
    <2>1. /\ end' = [end EXCEPT !["client"].at = "closed"] /\ due' = due /\ alive' \subseteq Sockets
          /\ UNCHANGED << clock, copy, life, carried >>
      BY <1>0, <1>10 DEF ClientReturns, ClientCloses
    <2>2. EndGoes("client", "closed") /\ "closed" \in EndAts
      BY <1>0, <1>2, <2>1, PhaseGoes
    <2> QED BY <1>0, <2>1, <2>2, ClientKeeps
  <1>11. CASE StartDrain
    <2>1. /\ end' = [end EXCEPT !["connector"] = [at |-> "drain", until |-> In(Drain)]]
          /\ due' = [due EXCEPT !["inner"] = In(Drain), !["local"] = In(Drain)]
          /\ UNCHANGED << clock, alive, copy, life, carried >>
      BY <1>11 DEF StartDrain
    <2>2. EndGoes("connector", "drain") /\ "drain" \in EndAts /\ "drain" \notin Waits
      BY <1>0, <1>2, <2>1, DrainGoes DEF Waits
    <2>3. due' \in [Sockets -> Nat] /\ due'["client"] = due["client"]
      BY <1>0, <1>1, <2>1 DEF Sockets
    <2> QED BY <1>0, <2>1, <2>2, <2>3, ConnectorEndKeeps
  <1>12. CASE DrainEnds
    <2>1. /\ end' = [end EXCEPT !["connector"].at = "closed"] /\ due' = due /\ alive' \subseteq Sockets
          /\ UNCHANGED << clock, copy, life, carried >>
      BY <1>0, <1>12 DEF DrainEnds
    <2>2. EndGoes("connector", "closed") /\ "closed" \in EndAts /\ "closed" \notin Waits
      BY <1>0, <1>2, <2>1, PhaseGoes DEF Waits
    <2> QED BY <1>0, <2>1, <2>2, ConnectorEndKeeps
  <1> QED BY <1>4, <1>5, <1>6, <1>7, <1>8, <1>9, <1>10, <1>11, <1>12

\* The inner handshake measures the leaf; neither end copies yet.
LEMMA InnerDoneKeeps == ASSUME DeadlineInv, InnerDone PROVE DeadlineInv'
  <1>0. /\ DeadlineTypes /\ CarriedHolds
        /\ end \in [Ends -> [at : EndAts, until : Nat]] /\ due \in [Sockets -> Nat]
        /\ life \in [granted : Nat, expires : Nat, touched : Nat]
        /\ "client" \in Ends /\ "connector" \in Ends
    BY DEF DeadlineInv, DeadlineTypes, Ends
  <1>1. /\ In(Phase) \in Nat /\ Minimum(Lifetime, LeafEnd - clock) \in Nat
    <2>1. clock < LeafEnd
      BY DEF InnerDone
    <2> QED BY <1>0, <2>1, TimeFacts DEF Minimum
  <1>2. /\ \A e \in Ends : end[e].at = "inner"
        /\ life' = [life EXCEPT !.granted = Minimum(Lifetime, LeafEnd - clock)]
        /\ end' = [end EXCEPT !["client"].at = "ready", !["connector"].at = "dial"]
        /\ due' = [due EXCEPT !["client"] = In(Phase), !["inner"] = In(Phase)]
        /\ UNCHANGED << clock, alive, copy, carried >>
    BY DEF InnerDone
  <1>3. /\ end' \in [Ends -> [at : EndAts, until : Nat]]
        /\ end'["client"].at = "ready" /\ end'["connector"].at = "dial"
    <2>1. ASSUME NEW r \in [at : EndAts, until : Nat], NEW a \in EndAts
          PROVE  [r EXCEPT !.at = a] \in [at : EndAts, until : Nat] /\ [r EXCEPT !.at = a].at = a
      OBVIOUS
    <2> DEFINE c == [end["client"] EXCEPT !.at = "ready"]
               d == [end["connector"] EXCEPT !.at = "dial"]
    <2>2. "ready" \in EndAts /\ "dial" \in EndAts
      BY DEF EndAts, Waits
    <2>3. c \in [at : EndAts, until : Nat] /\ d \in [at : EndAts, until : Nat] /\ c.at = "ready" /\ d.at = "dial"
      BY <1>0, <2>1, <2>2
    <2>4. end' = [end EXCEPT !["client"] = c, !["connector"] = d]
      BY <1>0, <1>2
    <2> HIDE DEF c, d
    <2> QED BY <1>0, <2>3, <2>4 DEF Ends
  <1>4. due' \in [Sockets -> Nat]
    BY <1>0, <1>1, <1>2 DEF Sockets
  <1>5. life' \in [granted : Nat, expires : Nat, touched : Nat] /\ life'.expires = life.expires
    BY <1>0, <1>1, <1>2
  <1>6. DeadlineTypes'
    BY <1>0, <1>2, <1>3, <1>4, <1>5 DEF DeadlineTypes
  <1>7. CarriedHolds'
    BY <1>0, <1>2, <1>3, <1>5 DEF CarriedHolds, Waits
  <1>8. GuardHolds' /\ StreamHolds'
    BY <1>3 DEF GuardHolds, StreamHolds
  <1> QED BY <1>6, <1>7, <1>8, PartsNext

\* copyPair arms the guard: the idle period is no longer than the lifetime, so
\* the first deadline is not after the expiry.
LEMMA ReadyWrittenKeeps == ASSUME DeadlineInv, ReadyWritten PROVE DeadlineInv'
  <1>0. /\ DeadlineTypes /\ CarriedHolds /\ StreamHolds
        /\ end \in [Ends -> [at : EndAts, until : Nat]] /\ due \in [Sockets -> Nat]
        /\ life \in [granted : Nat, expires : Nat, touched : Nat]
        /\ "client" \in Ends /\ "connector" \in Ends /\ "copy" \in EndAts
    BY DeadlineParts DEF DeadlineTypes, Ends, EndAts
  <1>1. /\ In(GuardIdle) \in Nat /\ In(life.granted) \in Nat /\ In(life.granted) <= MaxClock /\ clock \in Nat
        /\ GuardIdle \in Nat /\ life.granted \in Nat /\ MaxClock \in Nat /\ IdleLimit \in Nat
    BY <1>0, TimeFacts
  <1>2. /\ end["connector"].at = "ready"
        /\ end' = [end EXCEPT !["connector"].at = "copy"]
        /\ life' = [life EXCEPT !.expires = In(life.granted), !.touched = clock]
        /\ due' = [due EXCEPT !["inner"] = In(GuardIdle), !["local"] = In(GuardIdle)]
        /\ copy' = [d \in Directions |-> "read"]
        /\ UNCHANGED << clock, alive, carried >>
    BY DEF ReadyWritten
  <1>3. EndGoes("connector", "copy")
    BY <1>0, <1>2, PhaseGoes
  <1>4. /\ end' \in [Ends -> [at : EndAts, until : Nat]]
        /\ end'["client"] = end["client"] /\ end'["connector"].at = "copy"
    BY <1>3 DEF EndGoes, Ends
  <1>5. /\ due' \in [Sockets -> Nat] /\ due'["client"] = due["client"]
        /\ due'["inner"] = In(GuardIdle) /\ due'["local"] = In(GuardIdle)
    BY <1>0, <1>1, <1>2 DEF Sockets
  <1>6. life' \in [granted : Nat, expires : Nat, touched : Nat]
    BY <1>0, <1>1, <1>2
  <1>7. life'.expires = In(life.granted) /\ life'.touched = clock /\ life'.granted = life.granted
    BY <1>0, <1>2
  <1>8. copy' \in [Directions -> CopyAts]
    BY <1>2 DEF CopyAts
  <1>9. DeadlineTypes'
    BY <1>0, <1>2, <1>4, <1>5, <1>6, <1>8 DEF DeadlineTypes
  <1>10. CarriedHolds'
    <2>1. \A d \in Directions : carried[d] = 0
      BY <1>0, <1>2 DEF CarriedHolds, Waits
    <2>2. carried' = carried
      BY <1>2
    <2> QED BY <1>4, <2>1, <2>2 DEF CarriedHolds, Waits
  <1>11. GuardHolds'
    <2>1. GuardIdle' = GuardIdle
      BY <1>7 DEF GuardIdle
    <2>2. GuardIdle <= life.granted
      BY <1>1 DEF GuardIdle, Minimum
    <2>3. In(GuardIdle) = Minimum(clock + GuardIdle, In(life.granted))
      BY <1>1, <2>2 DEF In, Minimum
    <2> QED BY <1>1, <1>5, <1>7, <2>1, <2>3 DEF GuardHolds, Minimum
  <1>12. StreamHolds'
    BY <1>0, <1>4, <1>5 DEF StreamHolds, Never
  <1> QED BY <1>9, <1>10, <1>11, <1>12, PartsNext

\* A read after the expiry is the direction's last.
LEMMA ReadsKeep == ASSUME DeadlineInv, NEW d \in Directions, Reads(d) PROVE DeadlineInv'
  <1>0. /\ DeadlineTypes /\ CarriedHolds /\ GuardHolds /\ StreamHolds
        /\ copy \in [Directions -> CopyAts] /\ carried \in [Directions -> Nat]
    BY DeadlineParts DEF DeadlineTypes
  <1>1. /\ copy[d] = "read" /\ copy' = [copy EXCEPT ![d] = "touch"]
        /\ carried' = [carried EXCEPT ![d] = IF clock >= life.expires THEN @ + 1 ELSE @]
        /\ UNCHANGED << clock, end, due, alive, life >>
    BY DEF Reads
  <1>2. /\ copy'[d] = "touch" /\ copy' \in [Directions -> CopyAts]
        /\ \A f \in Directions : f # d => copy'[f] = copy[f]
    BY <1>0, <1>1 DEF CopyAts
  <1>3. carried[d] = 0 /\ end["connector"].at \notin Waits
    BY <1>0, <1>1 DEF CarriedHolds
  <1>4. /\ carried'[d] = IF clock >= life.expires THEN 1 ELSE 0
        /\ \A f \in Directions : f # d => carried'[f] = carried[f]
        /\ carried' \in [Directions -> Nat]
    BY <1>0, <1>1, <1>3
  <1>5. DeadlineTypes'
    BY <1>0, <1>1, <1>2, <1>4 DEF DeadlineTypes
  <1>6. CarriedHolds'
    <2>1. clock' = clock /\ life' = life /\ end' = end
      BY <1>1
    <2>2. ASSUME NEW f \in Directions, carried'[f] # 0
          PROVE  carried'[f] = 1 /\ copy'[f] \in {"touch", "last", "done"} /\ clock >= life.expires
      <3>1. CASE f = d
        BY <1>2, <1>4, <2>2, <3>1
      <3>2. CASE f # d
        BY <1>0, <1>2, <1>4, <2>2, <3>2 DEF CarriedHolds
      <3> QED BY <3>1, <3>2
    <2> QED BY <1>3, <2>1, <2>2 DEF CarriedHolds
  <1>7. GuardHolds' /\ StreamHolds'
    BY <1>0, <1>1 DEF GuardHolds, StreamHolds, GuardIdle
  <1> QED BY <1>5, <1>6, <1>7, PartsNext

\* A copy that moves on without reading.
LEMMA CopyGoes ==
    ASSUME DeadlineInv, NEW d \in Directions, NEW a \in CopyAts, copy' = [copy EXCEPT ![d] = a],
           copy[d] # "off", a # "off",
           copy[d] \in {"touch", "last", "done"} /\ clock >= life.expires => a \in {"touch", "last", "done"},
           clock' = clock, end' = end, life'.expires = life.expires, carried' = carried
    PROVE  CarriedHolds' /\ copy' \in [Directions -> CopyAts]
  <1>0. CarriedHolds /\ copy \in [Directions -> CopyAts]
    BY DEF DeadlineInv, DeadlineTypes
  <1>1. /\ copy'[d] = a /\ copy' \in [Directions -> CopyAts]
        /\ \A f \in Directions : f # d => copy'[f] = copy[f]
    BY <1>0
  <1>2. end["connector"].at \notin Waits
    BY <1>0 DEF CarriedHolds
  <1>3. ASSUME NEW f \in Directions, carried[f] # 0
        PROVE  carried[f] = 1 /\ copy'[f] \in {"touch", "last", "done"} /\ clock >= life.expires
    <2>1. CASE f = d
      BY <1>0, <1>1, <1>3, <2>1 DEF CarriedHolds
    <2>2. CASE f # d
      BY <1>0, <1>1, <1>3, <2>2 DEF CarriedHolds
    <2> QED BY <2>1, <2>2
  <1> QED BY <1>1, <1>2, <1>3 DEF CarriedHolds

\* touch: before the expiry one deadline for both connections, after it the
\* copy ends.
LEMMA TouchKeeps == ASSUME DeadlineInv, NEW d \in Directions, Touch(d) PROVE DeadlineInv'
  <1>0. /\ DeadlineTypes /\ CarriedHolds /\ GuardHolds /\ StreamHolds
        /\ due \in [Sockets -> Nat] /\ life \in [granted : Nat, expires : Nat, touched : Nat]
    BY DeadlineParts DEF DeadlineTypes
  <1>1. copy[d] = "touch" /\ UNCHANGED << clock, end, alive, carried >>
    BY DEF Touch
  <1>2. CASE clock >= life.expires
    <2>1. copy' = [copy EXCEPT ![d] = "last"] /\ due' = due /\ life' = life
      BY <1>2 DEF Touch
    <2>2. "last" \in CopyAts
      BY DEF CopyAts
    <2>3. CarriedHolds' /\ copy' \in [Directions -> CopyAts]
      BY <1>1, <2>1, <2>2, CopyGoes
    <2>4. DeadlineTypes'
      BY <1>0, <1>1, <2>1, <2>3 DEF DeadlineTypes
    <2>5. GuardHolds' /\ StreamHolds'
      BY <1>0, <1>1, <2>1 DEF GuardHolds, StreamHolds, GuardIdle
    <2> QED BY <2>3, <2>4, <2>5, PartsNext
  <1>3. CASE ~(clock >= life.expires)
    <2> DEFINE t == Minimum(In(GuardIdle), life.expires)
    <2>1. /\ copy' = [copy EXCEPT ![d] = "write"] /\ due' = [due EXCEPT !["inner"] = t, !["local"] = t]
          /\ life' = [life EXCEPT !.touched = clock]
      BY <1>3 DEF Touch
    <2>2. /\ In(GuardIdle) \in Nat /\ life.expires \in Nat /\ clock \in Nat /\ GuardIdle \in Nat
          /\ MaxClock \in Nat
      BY <1>0, TimeFacts
    <2>3. t \in Nat
      BY <2>2 DEF Minimum
    <2>4. /\ life' \in [granted : Nat, expires : Nat, touched : Nat] /\ life'.touched = clock
          /\ life'.expires = life.expires /\ life'.granted = life.granted
      BY <1>0, <2>1, <2>2
    <2>5. "write" \in CopyAts
      BY DEF CopyAts
    <2>6. CarriedHolds' /\ copy' \in [Directions -> CopyAts]
      BY <1>1, <1>3, <2>1, <2>4, <2>5, CopyGoes
    <2>7. life.expires <= MaxClock => t = Minimum(clock + GuardIdle, life.expires)
      BY <2>2 DEF In, Minimum
    <2> HIDE DEF t
    <2>8. /\ due' \in [Sockets -> Nat] /\ due'["client"] = due["client"]
          /\ due'["inner"] = t /\ due'["local"] = t
      BY <1>0, <2>1, <2>3 DEF Sockets
    <2>9. DeadlineTypes'
      BY <1>0, <1>1, <2>4, <2>6, <2>8 DEF DeadlineTypes
    <2>10. GuardHolds'
      <3>1. GuardIdle' = GuardIdle /\ end' = end
        BY <1>1, <2>4 DEF GuardIdle
      <3> QED BY <1>0, <2>4, <2>7, <2>8, <3>1 DEF GuardHolds, Minimum
    <2>11. StreamHolds'
      BY <1>0, <1>1, <2>8 DEF StreamHolds, Never
    <2> QED BY <2>6, <2>9, <2>10, <2>11, PartsNext
  <1> QED BY <1>2, <1>3

\* Writes and the ends of a copy.
LEMMA CopiesKeep ==
    ASSUME DeadlineInv, NEW d \in Directions, Writes(d) \/ CopyEnds(d)
    PROVE  DeadlineInv'
  <1>0. /\ DeadlineTypes /\ GuardHolds /\ StreamHolds
    BY DeadlineParts
  <1>1. UNCHANGED << clock, end, due, alive, life, carried >>
    BY DEF Writes, CopyEnds
  <1>2. PICK a \in CopyAts : /\ copy' = [copy EXCEPT ![d] = a] /\ copy[d] # "off" /\ a # "off"
                             /\ copy[d] \in {"touch", "last", "done"} => a \in {"touch", "last", "done"}
    <2>1. CASE CopyEnds(d)
      BY <2>1 DEF CopyEnds, CopyAts
    <2>2. CASE Writes(d)
      <3>1. CASE copy[d] = "last"
        <4>1. copy' = [copy EXCEPT ![d] = "done"]
          BY <2>2, <3>1, <1>0 DEF Writes, DeadlineTypes
        <4> QED BY <3>1, <4>1 DEF CopyAts
      <3>2. CASE copy[d] = "write"
        <4>1. copy' = [copy EXCEPT ![d] = "read"]
          BY <2>2, <3>2, <1>0 DEF Writes, DeadlineTypes
        <4> QED BY <3>2, <4>1 DEF CopyAts
      <3> QED BY <2>2, <3>1, <3>2 DEF Writes
    <2> QED BY <2>1, <2>2
  <1>3. CarriedHolds' /\ copy' \in [Directions -> CopyAts]
    BY <1>1, <1>2, CopyGoes
  <1>4. DeadlineTypes'
    BY <1>0, <1>1, <1>3 DEF DeadlineTypes
  <1>5. GuardHolds' /\ StreamHolds'
    BY <1>0, <1>1 DEF GuardHolds, StreamHolds, GuardIdle
  <1> QED BY <1>3, <1>4, <1>5, PartsNext

\* Every step keeps the invariant.
LEMMA DeadlineKeeps == ASSUME DeadlineInv, [DeadlineNext]_deadlineVars PROVE DeadlineInv'
  <1>0. DeadlineTypes /\ CarriedHolds /\ GuardHolds /\ StreamHolds
    BY DeadlineParts
  <1>1. CASE ClockTick \/ ServiceStops \/ CarrierEnds \/ CloseLost \/ UNCHANGED deadlineVars
    <2>1. /\ end' = end /\ due' = due /\ copy' = copy /\ life' = life /\ carried' = carried
          /\ alive' \subseteq alive /\ (clock' = clock \/ clock' = clock + 1)
      BY <1>1 DEF ClockTick, ServiceStops, CarrierEnds, CloseLost, deadlineVars
    <2>2. clock \in Nat /\ life.expires \in Nat /\ alive \subseteq Sockets
      BY <1>0 DEF DeadlineTypes
    <2>3. clock' \in Nat /\ (clock >= life.expires => clock' >= life.expires) /\ alive' \subseteq Sockets
      BY <2>1, <2>2
    <2>4. DeadlineTypes'
      BY <1>0, <2>1, <2>3 DEF DeadlineTypes
    <2>5. CarriedHolds'
      BY <1>0, <2>1, <2>3 DEF CarriedHolds
    <2>6. GuardHolds' /\ StreamHolds'
      BY <1>0, <2>1 DEF GuardHolds, StreamHolds, GuardIdle
    <2> QED BY <2>4, <2>5, <2>6, PartsNext
  <1> QED BY <1>1, PhasesKeep, InnerDoneKeeps, ReadyWrittenKeeps, ReadsKeep, TouchKeeps, CopiesKeep
          DEF DeadlineNext

\* Both ends have just dialled the relay.
LEMMA DeadlineStarts == ASSUME DeadlineInit PROVE DeadlineInv
  <1>1. MaxClock \in Nat /\ Phase \in Nat /\ Never \in Nat
    BY DeadlineBounds DEF Never
  <1>2. end \in [Ends -> [at : EndAts, until : Nat]] /\ \A e \in Ends : end[e].at = "outer"
    BY <1>1 DEF DeadlineInit, EndAts, Waits
  <1>3. due \in [Sockets -> Nat] /\ alive \subseteq Sockets /\ clock \in Nat
    BY <1>1 DEF DeadlineInit, Sockets
  <1>4. /\ copy \in [Directions -> CopyAts] /\ carried \in [Directions -> Nat]
        /\ \A d \in Directions : copy[d] = "off" /\ carried[d] = 0
    BY DEF DeadlineInit, CopyAts
  <1>5. life \in [granted : Nat, expires : Nat, touched : Nat]
    BY <1>1 DEF DeadlineInit
  <1>6. DeadlineTypes
    BY <1>2, <1>3, <1>4, <1>5 DEF DeadlineTypes
  <1>7. CarriedHolds /\ GuardHolds /\ StreamHolds
    BY <1>2, <1>4 DEF CarriedHolds, GuardHolds, StreamHolds, Ends
  <1> QED BY <1>6, <1>7, DeadlineParts

\* The invariant of a session's deadlines: nothing is copied before READY, and
\* a direction that carried payload after the expiry reads no more.
THEOREM DeadlineInductive == DeadlineSpec => []DeadlineInv
  <1>1. DeadlineInit => DeadlineInv
    BY DeadlineStarts
  <1>2. DeadlineInv /\ [DeadlineNext]_deadlineVars => DeadlineInv'
    BY DeadlineKeeps
  <1> QED BY <1>1, <1>2, PTL DEF DeadlineSpec

\* For any timeouts and lifetimes: while a session copies, its connections have
\* one deadline, a full idle period after the last payload or the expiry if
\* that comes first; the client's stream has none; and each direction carries
\* payload at most once after the expiry, whatever the two peers send.
THEOREM DeadlineTheorem == DeadlineSpec => []DeadlinesHold
  <1>1. DeadlineInv => DeadlinesHold
    BY DEF DeadlineInv
  <1> QED BY <1>1, DeadlineInductive, PTL

-----------------------------------------------------------------------------
(***************************************************************************)
(* Proofs about one local tunnel, for any number of workers and of         *)
(* replaced directories.                                                   *)
(*                                                                         *)
(* DenialHolds is not inductive: a worker that has its gate and passed its *)
(* check but does not serve yet must be excluded too, and the denial must  *)
(* last until the next check.  IInv adds what each operation in flight     *)
(* holds: whose policy.lock a read and a write are under (FloorHolds,      *)
(* KillHolds), what a command under setup.lock has already excluded        *)
(* (MaintHolds), and that the path is never moved under a worker that      *)
(* was admitted through it (PathHeld).                                     *)
(***************************************************************************)

Places == Directories \cup {Nowhere}
Policies == [locked : BOOLEAN, floor : Nat]
WorkSteps == {"idle", "opened", "locked", "admitted", "serve", "running", "stopping"}
FloorSteps == {"idle", "open", "read", "write"}
KillSteps == {"idle", "open", "lock", "read", "write", "drain"}
MaintSteps == {"idle", "stop", "drain", "service", "commit", "policy", "authority", "unlink",
               "retire", "wait", "gate", "unit", "exchange"}
WorkStates == [at : WorkSteps, root : Places, gate : Places, checked : Places, service : Places]
FloorStates == [at : FloorSteps, root : Places, read : Policies]
KillStates == [at : KillSteps, root : Places, read : Policies]
MaintStates == [op : {"none", "remove", "restore", "rebuild"}, at : MaintSteps, root : Places,
                active : BOOLEAN, service : BOOLEAN]

TypeOK ==
    /\ target \in BOOLEAN
    /\ current \in Directories
    /\ policy \in [Directories -> Policies]
    /\ authority \in [Directories -> BOOLEAN]
    /\ removal \in [Directories -> {"none", "removing", "removed"}]
    /\ work \in [Workers -> WorkStates]
    /\ floor \in [Workers -> FloorStates]
    /\ maint \in MaintStates
    /\ kill \in KillStates
    /\ policyLock \in [Directories -> Workers \cup {"free", "kill", "maint"}]
    /\ acked \in SUBSET [denied : Directories, drained : Directories]

\* The worker was admitted through the gate and the policy of d.
Through(w, d) == work[w].gate = d /\ work[w].checked = d

\* A check belongs to the gate that is held.
WorkHolds ==
    \A w \in Workers :
        /\ work[w].at # "idle" => work[w].root \in Directories
        /\ work[w].at \in {"idle", "opened", "locked"} => work[w].checked = Nowhere

FloorHolds ==
    \A w \in Workers :
        /\ floor[w].at # "idle" => floor[w].root \in 1 .. current
        /\ floor[w].at \in {"read", "write"} => policyLock[floor[w].root] = w
        /\ floor[w].at = "write" /\ floor[w].root = current =>
              floor[w].read.locked = policy[current].locked

KillHolds ==
    /\ kill.at \in {"lock", "read", "write", "drain"} => kill.root \in 1 .. current
    /\ kill.at \in {"read", "write"} => policyLock[kill.root] = "kill"
    /\ kill.at = "drain" /\ kill.root = current => policy[current].locked

MaintHolds ==
    /\ maint.op # "none" => maint.root = current
    /\ maint.op = "none" => ~maint.active /\ maint.at = "idle"
    /\ maint.op = "rebuild" => current <= MaxReplacements
    /\ maint.op = "rebuild" /\ maint.at \in {"unit", "exchange"} => maint.active
    /\ maint.op = "remove" => removal[maint.root] = "removing"
    /\ maint.op = "remove" /\ maint.at \in {"service", "commit"} =>
          \A w \in Workers : ~Through(w, maint.root)
    /\ maint.active => \A w \in Workers : work[w].gate # maint.root

AckHolds ==
    \A x \in acked :
        /\ x.drained <= current
        /\ x.denied = x.drained =>
              /\ x.drained = current => policy[current].locked
              /\ \A w \in Workers : ~Through(w, x.drained)

RemovedHolds ==
    \A d \in Directories : removal[d] = "removed" => \A w \in Workers : ~Through(w, d)

\* No directory is exchanged under the gate of a worker admitted through it.
PathHeld == \A w \in Workers, d \in Directories : Through(w, d) => d = current

IInv == /\ TypeOK /\ WorkHolds /\ FloorHolds /\ KillHolds /\ MaintHolds
        /\ AckHolds /\ RemovedHolds /\ PathHeld

-----------------------------------------------------------------------------
(* Types. *)

\* The idle states are well typed.
LEMMA IdleTypes ==
    /\ Nowhere \in Places /\ Nowhere \notin Directories /\ 1 \in Directories
    /\ Directories \subseteq Places /\ Directories \subseteq Nat
    /\ Fresh \in Policies /\ IdleWorker \in WorkStates /\ IdleFloor \in FloorStates
    /\ IdleKill \in KillStates /\ IdleMaint \in MaintStates
  <1>1. /\ Nowhere \in Places /\ Nowhere \notin Directories /\ 1 \in Directories
        /\ Directories \subseteq Places /\ Directories \subseteq Nat
    BY TunnelBounds DEF Places, Directories, Nowhere
  <1>2. Fresh \in Policies
    BY DEF Fresh, Policies
  <1>3. IdleWorker \in WorkStates
    BY <1>1 DEF IdleWorker, WorkStates, WorkSteps
  <1>4. IdleFloor \in FloorStates /\ IdleKill \in KillStates
    BY <1>1, <1>2 DEF IdleFloor, FloorStates, FloorSteps, IdleKill, KillStates, KillSteps
  <1>5. IdleMaint \in MaintStates
    BY <1>1 DEF IdleMaint, MaintStates, MaintSteps
  <1> QED BY <1>1, <1>2, <1>3, <1>4, <1>5

\* Releasing every policy.lock of one holder.
LEMMA UnlocksEffect ==
    ASSUME TypeOK, NEW who, UnlocksPolicy(who)
    PROVE  /\ policyLock' \in [Directories -> Workers \cup {"free", "kill", "maint"}]
           /\ \A d \in Directories : policyLock[d] # who => policyLock'[d] = policyLock[d]
  BY DEF TypeOK, UnlocksPolicy

-----------------------------------------------------------------------------
(* Workers. *)

\* A step of the workers only: their states stay well formed, nobody is newly
\* admitted through a directory and no gate is taken that a command holds.
LEMMA WorkOnly ==
    ASSUME IInv, UNCHANGED << target, current, policy, authority, removal, floor, maint, kill,
                              policyLock, acked >>,
           work' \in [Workers -> WorkStates], WorkHolds',
           \A v \in Workers, d \in Directories : Through(v, d)' => Through(v, d),
           maint.active => \A v \in Workers : work'[v].gate # maint.root
    PROVE  IInv'
  <1>1. TypeOK'
    BY DEF IInv, TypeOK
  <1>2. FloorHolds' /\ KillHolds'
    BY DEF IInv, FloorHolds, KillHolds
  <1>3. maint.op # "none" => maint.root \in Directories
    BY DEF IInv, MaintHolds, TypeOK
  <1>4. MaintHolds'
    BY <1>3 DEF IInv, MaintHolds
  <1>5. AckHolds'
    BY DEF IInv, AckHolds, TypeOK
  <1>6. RemovedHolds' /\ PathHeld'
    BY DEF IInv, RemovedHolds, PathHeld
  <1> QED BY <1>1, <1>2, <1>4, <1>5, <1>6 DEF IInv

\* Only worker w changes, to the state s.
Becomes(w, s) == work' = [work EXCEPT ![w] = s]

\* One worker moves to a state that admits it nowhere new.
LEMMA WorkerMoves ==
    ASSUME IInv, NEW w \in Workers, NEW s \in WorkStates, Becomes(w, s),
           UNCHANGED << target, current, policy, authority, removal, floor, maint, kill,
                        policyLock, acked >>,
           s.at # "idle" => s.root \in Directories,
           s.at \in {"idle", "opened", "locked"} => s.checked = Nowhere,
           \/ s.checked = work[w].checked /\ s.gate = work[w].gate
           \/ s.checked = Nowhere /\ (s.gate = Nowhere \/ SharedFree(s.gate))
    PROVE  IInv'
  <1>1. work' \in [Workers -> WorkStates] /\ \A v \in Workers : work'[v] = IF v = w THEN s ELSE work[v]
    BY DEF IInv, TypeOK, Becomes
  <1>2. WorkHolds'
    BY <1>1 DEF IInv, WorkHolds
  <1>3. \A v \in Workers, d \in Directories : Through(v, d)' => Through(v, d)
    BY <1>1, IdleTypes DEF Through
  <1>4. maint.active => maint.root \in Directories
    BY DEF IInv, MaintHolds, TypeOK
  <1>5. maint.active => \A v \in Workers : work'[v].gate # maint.root
    BY <1>1, <1>4, IdleTypes DEF IInv, MaintHolds, SharedFree
  <1> QED BY <1>1, <1>2, <1>3, <1>5, WorkOnly

\* The check of a worker that already holds its gate: a directory that was
\* denied admits nobody.
LEMMA AdmitCheckKeeps == ASSUME IInv, NEW w \in Workers, AdmitCheck(w) PROVE IInv'
  <1>1. /\ TypeOK /\ work[w] \in WorkStates /\ work[w].at = "locked" /\ current \in Directories
        /\ UNCHANGED << target, current, policy, authority, removal, floor, maint, kill,
                        policyLock, acked >>
    BY DEF IInv, TypeOK, AdmitCheck
  <1>2. CASE Denied(current)
    <2>1. Becomes(w, IdleWorker)
      BY <1>1, <1>2 DEF AdmitCheck, Becomes
    <2>2. IdleWorker.at = "idle" /\ IdleWorker.checked = Nowhere /\ IdleWorker.gate = Nowhere
      BY DEF IdleWorker
    <2> QED BY <1>1, <2>1, <2>2, IdleTypes, WorkerMoves
  <1>3. CASE ~Denied(current)
    <2> DEFINE s == [work[w] EXCEPT !.at = IF target THEN "admitted" ELSE "running",
                                    !.checked = current]
    <2>1. work' = [work EXCEPT ![w] = s]
      BY <1>1, <1>3 DEF AdmitCheck
    <2>2. /\ s \in WorkStates /\ s.at \in {"admitted", "running"} /\ s.checked = current
          /\ s.gate = work[w].gate /\ s.root = work[w].root
      BY <1>1, IdleTypes DEF WorkStates, WorkSteps
    <2> HIDE DEF s
    <2>3. work' \in [Workers -> WorkStates] /\ \A v \in Workers : work'[v] = IF v = w THEN s ELSE work[v]
      BY <1>1, <2>1, <2>2 DEF TypeOK
    <2>4. TypeOK' /\ WorkHolds'
      <3>1. TypeOK'
        BY <1>1, <2>3 DEF TypeOK
      <3>2. work[w].root \in Directories
        BY <1>1 DEF IInv, WorkHolds
      <3> QED BY <2>2, <2>3, <3>1, <3>2 DEF IInv, WorkHolds
    <2>5. FloorHolds' /\ KillHolds'
      BY <1>1 DEF IInv, FloorHolds, KillHolds
    <2>6. \A v \in Workers, d \in Directories : Through(v, d)' => Through(v, d) \/ d = current
      BY <2>2, <2>3 DEF Through
    <2>7. ~policy[current].locked /\ removal[current] = "none"
      BY <1>3 DEF Denied
    <2>8. MaintHolds'
      <3>1. maint.op # "none" => maint.root = current
        BY DEF IInv, MaintHolds
      <3>2. maint.op # "remove"
        BY <2>7, <3>1 DEF IInv, MaintHolds
      <3>3. \A v \in Workers : work'[v].gate = work[v].gate
        BY <2>2, <2>3
      <3> QED BY <1>1, <3>2, <3>3 DEF IInv, MaintHolds
    <2>9. AckHolds'
      BY <1>1, <2>6, <2>7 DEF IInv, AckHolds, TypeOK
    <2>10. RemovedHolds' /\ PathHeld'
      BY <1>1, <2>6, <2>7 DEF IInv, RemovedHolds, PathHeld
    <2> QED BY <2>4, <2>5, <2>8, <2>9, <2>10 DEF IInv
  <1> QED BY <1>2, <1>3

\* A worker that is gone holds no gate and no policy.lock.
LEMMA LeavesKeeps ==
    ASSUME IInv, NEW w \in Workers, Leaves(w),
           UNCHANGED << target, current, policy, authority, removal, maint, kill, acked >>
    PROVE  IInv'
  <1>1. /\ TypeOK
        /\ work' \in [Workers -> WorkStates] /\ floor' \in [Workers -> FloorStates]
        /\ \A v \in Workers : work'[v] = IF v = w THEN IdleWorker ELSE work[v]
        /\ \A v \in Workers : floor'[v] = IF v = w THEN IdleFloor ELSE floor[v]
    BY IdleTypes DEF IInv, TypeOK, Leaves
  <1>2. /\ policyLock' \in [Directories -> Workers \cup {"free", "kill", "maint"}]
        /\ \A d \in Directories : policyLock[d] # w => policyLock'[d] = policyLock[d]
    BY <1>1, UnlocksEffect DEF Leaves
  <1>3. TypeOK'
    BY <1>1, <1>2 DEF TypeOK
  <1>4. /\ IdleWorker.at = "idle" /\ IdleWorker.checked = Nowhere /\ IdleWorker.gate = Nowhere
        /\ IdleFloor.at = "idle"
    BY DEF IdleWorker, IdleFloor
  <1>5. WorkHolds'
    BY <1>1, <1>4 DEF IInv, WorkHolds
  <1>6. current \in Directories /\ 1 .. current \subseteq Directories
    BY <1>1, TunnelBounds DEF TypeOK, Directories
  <1>7. FloorHolds'
    BY <1>1, <1>2, <1>4, <1>6 DEF IInv, FloorHolds
  <1>8. KillHolds'
    BY <1>2, <1>6, TunnelBounds DEF IInv, KillHolds
  <1>9. \A v \in Workers, d \in Directories : Through(v, d)' => Through(v, d)
    BY <1>1, <1>4, IdleTypes DEF Through
  <1>10. maint.op # "none" => maint.root \in Directories
    BY <1>6 DEF IInv, MaintHolds
  <1>11. MaintHolds'
    BY <1>1, <1>4, <1>9, <1>10, IdleTypes DEF IInv, MaintHolds
  <1>12. AckHolds'
    BY <1>1, <1>9 DEF IInv, AckHolds, TypeOK
  <1>13. RemovedHolds' /\ PathHeld'
    BY <1>9 DEF IInv, RemovedHolds, PathHeld
  <1> QED BY <1>3, <1>5, <1>7, <1>8, <1>11, <1>12, <1>13 DEF IInv

\* Admission, service and end of a worker.
LEMMA ServingKeeps ==
    ASSUME IInv, NEW w \in Workers,
           \/ AdmitOpen(w) \/ AdmitLock(w) \/ AdmitCheck(w) \/ ServeOpen(w) \/ ServeLock(w)
           \/ WatchPolicy(w) \/ WorkEnds(w) \/ Released(w) \/ WorkerDies(w)
    PROVE  IInv'
  <1>1. /\ TypeOK /\ work[w] \in WorkStates /\ current \in Directories /\ current \in Places
    BY IdleTypes DEF IInv, TypeOK
  <1>2. /\ IdleWorker \in WorkStates /\ IdleWorker.at = "idle" /\ IdleWorker.checked = Nowhere
        /\ IdleWorker.gate = Nowhere
    BY IdleTypes DEF IdleWorker
  <1>3. /\ work[w].at # "idle" => work[w].root \in Directories
        /\ work[w].at \in {"idle", "opened", "locked"} => work[w].checked = Nowhere
    BY DEF IInv, WorkHolds
  <1>4. CASE AdmitOpen(w)
    <2> DEFINE s == [work[w] EXCEPT !.at = "opened", !.root = current]
    <2>1. Becomes(w, s)
      BY <1>1, <1>4 DEF AdmitOpen, TypeOK, Becomes
    <2>2. s \in WorkStates /\ s.at = "opened" /\ s.root = current /\ s.gate = work[w].gate
          /\ s.checked = work[w].checked
      BY <1>1 DEF WorkStates, WorkSteps
    <2> HIDE DEF s
    <2> QED BY <1>1, <1>3, <1>4, <2>1, <2>2, WorkerMoves DEF AdmitOpen
  <1>5. CASE AdmitLock(w)
    <2> DEFINE s == [work[w] EXCEPT !.at = "locked", !.gate = work[w].root]
    <2>1. /\ work[w].at = "opened"
          /\ UNCHANGED << target, current, policy, authority, removal, floor, maint, kill,
                          policyLock, acked >>
          /\ work' = [work EXCEPT ![w] = IF SharedFree(work[w].root) THEN s ELSE IdleWorker]
      BY <1>1, <1>5 DEF AdmitLock, TypeOK
    <2>2. s \in WorkStates /\ s.at = "locked" /\ s.root = work[w].root /\ s.gate = work[w].root
          /\ s.checked = work[w].checked
      BY <1>1 DEF WorkStates, WorkSteps
    <2> HIDE DEF s
    <2>3. CASE SharedFree(work[w].root)
      <3>1. Becomes(w, s)
        BY <2>1, <2>3 DEF Becomes
      <3> QED BY <1>3, <2>1, <2>2, <2>3, <3>1, WorkerMoves
    <2>4. CASE ~SharedFree(work[w].root)
      <3>1. Becomes(w, IdleWorker)
        BY <2>1, <2>4 DEF Becomes
      <3> QED BY <1>2, <2>1, <3>1, WorkerMoves
    <2> QED BY <2>3, <2>4
  <1>6. CASE AdmitCheck(w)
    BY <1>6, AdmitCheckKeeps
  <1>7. CASE ServeOpen(w)
    <2> DEFINE s == [work[w] EXCEPT !.at = "serve", !.root = current]
    <2>1. Becomes(w, s)
      BY <1>1, <1>7 DEF ServeOpen, TypeOK, Becomes
    <2>2. s \in WorkStates /\ s.at = "serve" /\ s.root = current /\ s.gate = work[w].gate
          /\ s.checked = work[w].checked
      BY <1>1 DEF WorkStates, WorkSteps
    <2> HIDE DEF s
    <2> QED BY <1>1, <1>3, <1>7, <2>1, <2>2, WorkerMoves DEF ServeOpen
  <1>8. CASE ServeLock(w)
    <2> DEFINE s == [work[w] EXCEPT !.at = "running", !.service = work[w].root]
    <2>1. /\ work[w].at = "serve"
          /\ UNCHANGED << target, current, policy, authority, removal, floor, maint, kill,
                          policyLock, acked >>
          /\ work' = [work EXCEPT ![w] = IF ServiceFree(work[w].root) THEN s ELSE IdleWorker]
      BY <1>1, <1>8 DEF ServeLock, TypeOK
    <2>2. s \in WorkStates /\ s.at = "running" /\ s.root = work[w].root /\ s.gate = work[w].gate
          /\ s.checked = work[w].checked
      BY <1>1 DEF WorkStates, WorkSteps
    <2> HIDE DEF s
    <2>3. CASE ServiceFree(work[w].root)
      <3>1. Becomes(w, s)
        BY <2>1, <2>3 DEF Becomes
      <3> QED BY <1>3, <2>1, <2>2, <3>1, WorkerMoves
    <2>4. CASE ~ServiceFree(work[w].root)
      <3>1. Becomes(w, IdleWorker)
        BY <2>1, <2>4 DEF Becomes
      <3> QED BY <1>2, <2>1, <3>1, WorkerMoves
    <2> QED BY <2>3, <2>4
  <1>9. CASE WatchPolicy(w) \/ WorkEnds(w)
    <2> DEFINE s == [work[w] EXCEPT !.at = "stopping"]
    <2>1. Becomes(w, s) /\ work[w].at = "running"
      BY <1>1, <1>9 DEF WatchPolicy, WorkEnds, TypeOK, Becomes
    <2>2. s \in WorkStates /\ s.at = "stopping" /\ s.root = work[w].root /\ s.gate = work[w].gate
          /\ s.checked = work[w].checked
      BY <1>1 DEF WorkStates, WorkSteps
    <2> HIDE DEF s
    <2> QED BY <1>3, <1>9, <2>1, <2>2, WorkerMoves DEF WatchPolicy, WorkEnds
  <1>10. CASE Released(w) \/ WorkerDies(w)
    BY <1>10, LeavesKeeps DEF Released, WorkerDies
  <1> QED BY <1>4, <1>5, <1>6, <1>7, <1>8, <1>9, <1>10

-----------------------------------------------------------------------------
(* Peer floors. *)

\* What a step of RecordPeerFloor and of SetLocked leaves alone.
OthersStay == UNCHANGED << target, current, removal, work, maint >>

\* The parts of the invariant that no policy write and no policy.lock touches.
LEMMA OthersKeep ==
    ASSUME IInv, OthersStay
    PROVE  WorkHolds' /\ MaintHolds' /\ RemovedHolds' /\ PathHeld'
  <1>1. \A w \in Workers : \A d : Through(w, d)' <=> Through(w, d)
    BY DEF OthersStay, Through
  <1> QED BY <1>1 DEF IInv, OthersStay, WorkHolds, MaintHolds, RemovedHolds, PathHeld

\* RecordPeerFloor: under policy.lock of the selected directory nobody else
\* writes its policy, so the value written back is locked when the alarm is.
LEMMA FloorKeeps ==
    ASSUME IInv, NEW w \in Workers,
           FloorOpen(w) \/ FloorLock(w) \/ FloorRead(w) \/ FloorWrite(w)
    PROVE  /\ IInv'
           /\ policy[current].locked => policy'[current].locked
  <1>1. /\ TypeOK /\ floor[w] \in FloorStates /\ current \in Directories
        /\ 1 .. current \subseteq Directories /\ current \in 1 .. current
        /\ policy[current] \in Policies
    BY TunnelBounds DEF IInv, TypeOK, Directories
  <1>2. /\ floor[w].at # "idle" => floor[w].root \in 1 .. current
        /\ floor[w].at \in {"read", "write"} => policyLock[floor[w].root] = w
        /\ floor[w].at = "write" /\ floor[w].root = current =>
              floor[w].read.locked = policy[current].locked
    BY DEF IInv, FloorHolds
  <1>3. w \notin {"free", "kill", "maint"} /\ IdleFloor.at = "idle" /\ IdleFloor \in FloorStates
    BY TunnelBounds, IdleTypes DEF IdleFloor
  <1>4. CASE FloorOpen(w)
    <2> DEFINE s == [floor[w] EXCEPT !.at = "open", !.root = current]
    <2>1. floor' = [floor EXCEPT ![w] = s]
      BY <1>1, <1>4 DEF FloorOpen, TypeOK
    <2>2. s \in FloorStates /\ s.at = "open" /\ s.root = current
      BY <1>1 DEF FloorStates, FloorSteps, Places
    <2> HIDE DEF s
    <2>3. floor' \in [Workers -> FloorStates] /\ \A v \in Workers : floor'[v] = IF v = w THEN s ELSE floor[v]
      BY <1>1, <2>1, <2>2 DEF TypeOK
    <2>4. /\ UNCHANGED << target, current, policy, authority, removal, work, maint, kill,
                          policyLock, acked >> /\ OthersStay
      BY <1>4 DEF FloorOpen, OthersStay
    <2>5. TypeOK' /\ FloorHolds'
      BY <1>1, <2>2, <2>3, <2>4 DEF IInv, TypeOK, FloorHolds
    <2>6. KillHolds' /\ AckHolds'
      BY <2>4 DEF IInv, KillHolds, AckHolds, Through
    <2> QED BY <2>4, <2>5, <2>6, OthersKeep DEF IInv
  <1>5. CASE FloorLock(w)
    <2> DEFINE root == floor[w].root
               s == [floor[w] EXCEPT !.at = "read"]
    <2>1. floor[w].at = "open" /\ root \in Directories
      BY <1>1, <1>2, <1>5 DEF FloorLock
    <2>2. s \in FloorStates /\ s.at = "read" /\ s.root = root
      BY <1>1 DEF FloorStates, FloorSteps
    <2>3. /\ UNCHANGED << target, current, policy, authority, removal, work, maint, kill, acked >>
          /\ OthersStay
      BY <1>5 DEF FloorLock, OthersStay
    <2>4. CASE policyLock[root] = "free"
      <3>1. policyLock' = [policyLock EXCEPT ![root] = w] /\ floor' = [floor EXCEPT ![w] = s]
        BY <1>1, <1>5, <2>4 DEF FloorLock, TypeOK
      <3> HIDE DEF s
      <3>2. /\ floor' \in [Workers -> FloorStates]
            /\ \A v \in Workers : floor'[v] = IF v = w THEN s ELSE floor[v]
            /\ policyLock' \in [Directories -> Workers \cup {"free", "kill", "maint"}]
            /\ \A d \in Directories : policyLock'[d] = IF d = root THEN w ELSE policyLock[d]
        BY <1>1, <2>1, <2>2, <3>1 DEF TypeOK
      <3> HIDE DEF root
      <3>3. TypeOK'
        BY <1>1, <2>3, <3>2 DEF TypeOK
      <3>4. FloorHolds'
        <4> SUFFICES ASSUME NEW v \in Workers
                     PROVE  /\ floor'[v].at # "idle" => floor'[v].root \in 1 .. current
                            /\ floor'[v].at \in {"read", "write"} => policyLock'[floor'[v].root] = v
                            /\ floor'[v].at = "write" /\ floor'[v].root = current =>
                                  floor'[v].read.locked = policy[current].locked
          BY <2>3 DEF FloorHolds
        <4>1. CASE v = w
          BY <1>2, <2>1, <2>2, <3>2, <4>1 DEF root
        <4>2. CASE v # w
          <5>1. floor'[v] = floor[v] /\ v # "free"
            BY <3>2, <4>2, TunnelBounds
          <5>2. floor[v].at \in {"read", "write"} => floor[v].root \in Directories /\ floor[v].root # root
            BY <1>1, <2>4, <5>1 DEF IInv, FloorHolds
          <5> QED BY <3>2, <5>1, <5>2 DEF IInv, FloorHolds
        <4> QED BY <4>1, <4>2
      <3>5. KillHolds'
        <4>1. kill.at \in {"read", "write"} => kill.root \in Directories /\ kill.root # root
          BY <1>1, <2>4 DEF IInv, KillHolds
        <4> QED BY <2>3, <3>2, <4>1 DEF IInv, KillHolds
      <3>6. AckHolds'
        BY <2>3 DEF IInv, AckHolds, Through
      <3> QED BY <2>3, <3>3, <3>4, <3>5, <3>6, OthersKeep DEF IInv
    <2>5. CASE policyLock[root] # "free"
      <3>1. UNCHANGED policyLock /\ floor' = [floor EXCEPT ![w] = IdleFloor]
        BY <1>5, <2>5 DEF FloorLock
      <3>2. floor' \in [Workers -> FloorStates] /\ \A v \in Workers : floor'[v] = IF v = w THEN IdleFloor ELSE floor[v]
        BY <1>1, <1>3, <3>1 DEF TypeOK
      <3>3. TypeOK' /\ FloorHolds'
        BY <1>1, <1>3, <2>3, <3>1, <3>2 DEF IInv, TypeOK, FloorHolds
      <3>4. KillHolds' /\ AckHolds'
        BY <2>3, <3>1 DEF IInv, KillHolds, AckHolds, Through
      <3> QED BY <2>3, <3>3, <3>4, OthersKeep DEF IInv
    <2> QED BY <2>4, <2>5
  <1>6. CASE FloorRead(w)
    <2> DEFINE s == [floor[w] EXCEPT !.at = "write", !.read = policy[current]]
    <2>1. floor' = [floor EXCEPT ![w] = s] /\ floor[w].at = "read"
      BY <1>1, <1>6 DEF FloorRead, TypeOK
    <2>2. s \in FloorStates /\ s.at = "write" /\ s.root = floor[w].root /\ s.read = policy[current]
      BY <1>1 DEF FloorStates, FloorSteps
    <2> HIDE DEF s
    <2>3. floor' \in [Workers -> FloorStates] /\ \A v \in Workers : floor'[v] = IF v = w THEN s ELSE floor[v]
      BY <1>1, <2>1, <2>2 DEF TypeOK
    <2>4. /\ UNCHANGED << target, current, policy, authority, removal, work, maint, kill,
                          policyLock, acked >> /\ OthersStay
      BY <1>6 DEF FloorRead, OthersStay
    <2>5. TypeOK' /\ FloorHolds'
      BY <1>1, <1>2, <2>1, <2>2, <2>3, <2>4 DEF IInv, TypeOK, FloorHolds
    <2>6. KillHolds' /\ AckHolds'
      BY <2>4 DEF IInv, KillHolds, AckHolds, Through
    <2> QED BY <2>4, <2>5, <2>6, OthersKeep DEF IInv
  <1>7. CASE FloorWrite(w)
    <2> DEFINE root == floor[w].root
    <2>1. /\ floor[w].at = "write" /\ root \in Directories /\ policyLock[root] = w
          /\ floor[w].read \in Policies
      BY <1>1, <1>2, <1>7 DEF FloorWrite, FloorStates
    <2>2. PICK g \in floor[w].read.floor .. MaxFloor :
                 policy' = [policy EXCEPT ![root] = [floor[w].read EXCEPT !.floor = g]]
      BY <1>7 DEF FloorWrite
    <2> DEFINE new == [floor[w].read EXCEPT !.floor = g]
    <2>3. new \in Policies /\ new.locked = floor[w].read.locked
      BY <2>1, <2>2, TunnelBounds DEF Policies
    <2> HIDE DEF new
    <2>4. policy' \in [Directories -> Policies] /\ \A d \in Directories : policy'[d] = IF d = root THEN new ELSE policy[d]
      BY <1>1, <2>1, <2>2, <2>3 DEF TypeOK, new
    <2>5. /\ UNCHANGED << target, current, authority, removal, work, maint, kill, acked >>
          /\ OthersStay /\ UnlocksPolicy(w) /\ floor' = [floor EXCEPT ![w] = IdleFloor]
      BY <1>7 DEF FloorWrite, OthersStay
    <2>6. floor' \in [Workers -> FloorStates] /\ \A v \in Workers : floor'[v] = IF v = w THEN IdleFloor ELSE floor[v]
      BY <1>1, <1>3, <2>5 DEF TypeOK
    <2>7. /\ policyLock' \in [Directories -> Workers \cup {"free", "kill", "maint"}]
          /\ \A d \in Directories : policyLock[d] # w => policyLock'[d] = policyLock[d]
      BY <1>1, <2>5, UnlocksEffect
    <2>8. policy'[current].locked = policy[current].locked
      BY <1>1, <1>2, <2>1, <2>3, <2>4
    <2> HIDE DEF root
    <2>9. TypeOK'
      BY <1>1, <2>4, <2>5, <2>6, <2>7 DEF TypeOK
    <2>10. FloorHolds'
      BY <1>1, <1>3, <2>5, <2>6, <2>7, <2>8 DEF IInv, FloorHolds
    <2>11. KillHolds'
      BY <1>1, <1>3, <2>5, <2>7, <2>8 DEF IInv, KillHolds
    <2>12. AckHolds'
      BY <2>5, <2>8 DEF IInv, AckHolds, Through
    <2> QED BY <2>5, <2>8, <2>9, <2>10, <2>11, <2>12, OthersKeep DEF IInv
  <1> QED BY <1>4, <1>5, <1>6, <1>7

-----------------------------------------------------------------------------
(* The alarm. *)

\* A policy.lock that only its holder "who" takes or gives up, and a policy of
\* the selected directory that only gets locked, disturb no peer floor, unless
\* the write is to a directory whose lock who holds.
LEMMA FloorUntouched ==
    ASSUME IInv, NEW who \in {"kill", "maint"}, floor' = floor, current' = current,
           \A d \in Directories : policyLock[d] \notin {who, "free"} => policyLock'[d] = policyLock[d],
           policy'[current].locked = policy[current].locked \/ policyLock[current] \in {who, "free"}
    PROVE  FloorHolds'
  <1> SUFFICES ASSUME NEW w \in Workers
               PROVE  /\ floor[w].at # "idle" => floor[w].root \in 1 .. current
                      /\ floor[w].at \in {"read", "write"} => policyLock'[floor[w].root] = w
                      /\ floor[w].at = "write" /\ floor[w].root = current =>
                            floor[w].read.locked = policy'[current].locked
    BY DEF FloorHolds
  <1>1. w \notin {who, "free"} /\ 1 .. current \subseteq Directories
    BY TunnelBounds DEF IInv, TypeOK, Directories
  <1> QED BY <1>1 DEF IInv, FloorHolds

\* SetLocked: the alarm is written before the drain, and acknowledged when no
\* worker holds a gate of the directory it was written to.
LEMMA KillKeeps ==
    ASSUME IInv, SetLocked
    PROVE  /\ IInv'
           /\ policy[current].locked => policy'[current].locked
           /\ \A d \in Directories : authority[d] => authority'[d]
  <1>1. /\ TypeOK /\ kill \in KillStates /\ current \in Directories
        /\ 1 .. current \subseteq Directories /\ current \in 1 .. current
        /\ policy[current] \in Policies
    BY TunnelBounds DEF IInv, TypeOK, Directories
  <1>2. /\ IdleKill \in KillStates /\ IdleKill.at = "idle" /\ current \in Places
    BY <1>1, IdleTypes DEF IdleKill
  <1>3. CASE KillAuthority
    <2>1. authority' \in [Directories -> BOOLEAN] /\ \A d \in Directories : authority[d] => authority'[d]
      BY <1>1, <1>3 DEF KillAuthority, TypeOK
    <2>2. kill' \in KillStates /\ kill'.at = "open"
      BY <1>1, <1>3 DEF KillAuthority, KillStates, KillSteps
    <2>3. UNCHANGED << target, current, policy, removal, work, floor, maint, policyLock, acked >>
          /\ OthersStay
      BY <1>3 DEF KillAuthority, OthersStay
    <2>4. TypeOK' /\ FloorHolds'
      BY <1>1, <2>1, <2>2, <2>3 DEF IInv, TypeOK, FloorHolds
    <2>5. KillHolds' /\ AckHolds'
      BY <2>2, <2>3 DEF IInv, KillHolds, AckHolds, Through
    <2> QED BY <2>1, <2>3, <2>4, <2>5, OthersKeep DEF IInv
  <1>4. CASE KillOpen
    <2>1. kill' \in KillStates /\ kill'.at = "lock" /\ kill'.root = current
      BY <1>1, <1>2, <1>4 DEF KillOpen, KillStates, KillSteps
    <2>2. UNCHANGED << target, current, policy, authority, removal, work, floor, maint, policyLock, acked >>
          /\ OthersStay
      BY <1>4 DEF KillOpen, OthersStay
    <2>3. TypeOK' /\ FloorHolds'
      BY <1>1, <2>1, <2>2 DEF IInv, TypeOK, FloorHolds
    <2>4. KillHolds' /\ AckHolds'
      BY <1>1, <2>1, <2>2 DEF IInv, KillHolds, AckHolds, Through
    <2> QED BY <2>2, <2>3, <2>4, OthersKeep DEF IInv
  <1>5. CASE KillLock
    <2>1. kill.root \in 1 .. current /\ kill.root \in Directories
      BY <1>1, <1>5 DEF IInv, KillHolds, KillLock
    <2>2. UNCHANGED << target, current, policy, authority, removal, work, floor, maint, acked >>
          /\ OthersStay
      BY <1>5 DEF KillLock, OthersStay
    <2>3. AckHolds'
      BY <2>2 DEF IInv, AckHolds, Through
    <2>4. CASE policyLock[kill.root] = "free"
      <3>1. kill' \in KillStates /\ kill'.at = "read" /\ kill'.root = kill.root
        BY <1>1, <1>5, <2>4 DEF KillLock, KillStates, KillSteps
      <3>2. /\ policyLock' \in [Directories -> Workers \cup {"free", "kill", "maint"}]
            /\ \A d \in Directories : policyLock'[d] = IF d = kill.root THEN "kill" ELSE policyLock[d]
        BY <1>1, <1>5, <2>1, <2>4 DEF KillLock, TypeOK
      <3>3. TypeOK' /\ KillHolds'
        BY <1>1, <2>1, <2>2, <3>1, <3>2 DEF TypeOK, KillHolds
      <3>4. FloorHolds'
        BY <2>2, <2>4, <3>2, FloorUntouched
      <3> QED BY <2>2, <2>3, <3>3, <3>4, OthersKeep DEF IInv
    <2>5. CASE policyLock[kill.root] # "free"
      <3>1. kill' = IdleKill /\ UNCHANGED policyLock
        BY <1>5, <2>5 DEF KillLock
      <3>2. TypeOK' /\ KillHolds'
        BY <1>1, <1>2, <2>2, <3>1 DEF TypeOK, KillHolds
      <3>3. FloorHolds'
        BY <2>2, <3>1 DEF IInv, FloorHolds
      <3> QED BY <2>2, <2>3, <3>2, <3>3, OthersKeep DEF IInv
    <2> QED BY <2>4, <2>5
  <1>6. CASE KillRead
    <2>1. kill' \in KillStates /\ kill'.at = "write" /\ kill'.root = kill.root /\ kill.at = "read"
      BY <1>1, <1>6 DEF KillRead, KillStates, KillSteps
    <2>2. UNCHANGED << target, current, policy, authority, removal, work, floor, maint, policyLock, acked >>
          /\ OthersStay
      BY <1>6 DEF KillRead, OthersStay
    <2>3. TypeOK' /\ FloorHolds'
      BY <1>1, <2>1, <2>2 DEF IInv, TypeOK, FloorHolds
    <2>4. KillHolds' /\ AckHolds'
      BY <1>1, <2>1, <2>2 DEF IInv, KillHolds, AckHolds, Through
    <2> QED BY <2>2, <2>3, <2>4, OthersKeep DEF IInv
  <1>7. CASE KillWrite
    <2> DEFINE new == [kill.read EXCEPT !.locked = TRUE]
    <2>1. kill.at = "write" /\ kill.root \in 1 .. current /\ kill.root \in Directories
          /\ policyLock[kill.root] = "kill"
      BY <1>1, <1>7 DEF IInv, KillHolds, KillWrite
    <2>2. new \in Policies /\ new.locked
      BY <1>1 DEF KillStates, Policies
    <2>3. /\ kill' \in KillStates /\ kill'.at = "drain" /\ kill'.root = kill.root
      BY <1>1, <1>7 DEF KillWrite, KillStates, KillSteps
    <2>4. policy' = [policy EXCEPT ![kill.root] = new]
      BY <1>7 DEF KillWrite
    <2> HIDE DEF new
    <2>5. policy' \in [Directories -> Policies] /\ \A d \in Directories : policy'[d] = IF d = kill.root THEN new ELSE policy[d]
      BY <1>1, <2>1, <2>2, <2>4 DEF TypeOK
    <2>6. UNCHANGED << target, current, authority, removal, work, floor, maint, acked >>
          /\ OthersStay /\ UnlocksPolicy("kill")
      BY <1>7 DEF KillWrite, OthersStay
    <2>7. /\ policyLock' \in [Directories -> Workers \cup {"free", "kill", "maint"}]
          /\ \A d \in Directories : policyLock[d] # "kill" => policyLock'[d] = policyLock[d]
      BY <1>1, <2>6, UnlocksEffect
    <2>8. policy[current].locked => policy'[current].locked
      BY <1>1, <2>2, <2>5
    <2>9. policy'[current].locked = policy[current].locked \/ policyLock[current] \in {"kill", "free"}
      BY <1>1, <2>1, <2>5
    <2>10. TypeOK' /\ KillHolds'
      <3>1. TypeOK'
        BY <1>1, <2>3, <2>5, <2>6, <2>7 DEF TypeOK
      <3>2. KillHolds'
        BY <1>1, <2>1, <2>2, <2>3, <2>5, <2>6 DEF KillHolds
      <3> QED BY <3>1, <3>2
    <2>11. FloorHolds'
      BY <2>6, <2>7, <2>9, FloorUntouched
    <2>12. AckHolds'
      BY <2>6, <2>8 DEF IInv, AckHolds, Through
    <2> QED BY <2>6, <2>8, <2>10, <2>11, <2>12, OthersKeep DEF IInv
  <1>8. CASE KillDrain
    <2>1. kill.at = "drain" /\ kill.root \in 1 .. current /\ kill.root \in Directories
      BY <1>1, <1>8 DEF IInv, KillHolds, KillDrain
    <2>2. /\ acked' = acked \cup {[denied |-> kill.root, drained |-> current]} /\ kill' = IdleKill
          /\ UNCHANGED << target, current, policy, authority, removal, work, floor, maint, policyLock >>
          /\ OthersStay
      BY <1>8 DEF KillDrain, OthersStay
    <2>3. TypeOK' /\ FloorHolds' /\ KillHolds'
      BY <1>1, <1>2, <2>1, <2>2 DEF IInv, TypeOK, FloorHolds, KillHolds
    <2>4. \A w \in Workers : ~Through(w, current)
      BY <1>8 DEF KillDrain, ActiveFree, Through
    <2>5. kill.root = current => policy[current].locked
      BY <2>1 DEF IInv, KillHolds
    <2>6. AckHolds'
      <3> SUFFICES ASSUME NEW x \in acked'
                   PROVE  /\ x.drained <= current
                          /\ x.denied = x.drained =>
                                /\ x.drained = current => policy[current].locked
                                /\ \A w \in Workers : ~Through(w, x.drained)
        BY <2>2 DEF AckHolds, Through
      <3>1. CASE x \in acked
        BY <3>1 DEF IInv, AckHolds
      <3>2. CASE x = [denied |-> kill.root, drained |-> current]
        BY <1>1, <2>4, <2>5, <3>2 DEF Directories
      <3> QED BY <2>2, <3>1, <3>2
    <2> QED BY <2>2, <2>3, <2>6, OthersKeep DEF IInv
  <1>9. CASE KillFails
    <2>1. /\ kill' = IdleKill /\ UnlocksPolicy("kill")
          /\ UNCHANGED << target, current, policy, authority, removal, work, floor, maint, acked >>
          /\ OthersStay
      BY <1>9 DEF KillFails, OthersStay
    <2>2. /\ policyLock' \in [Directories -> Workers \cup {"free", "kill", "maint"}]
          /\ \A d \in Directories : policyLock[d] # "kill" => policyLock'[d] = policyLock[d]
      BY <1>1, <2>1, UnlocksEffect
    <2>3. TypeOK' /\ KillHolds'
      BY <1>1, <1>2, <2>1, <2>2 DEF TypeOK, KillHolds
    <2>4. FloorHolds'
      BY <2>1, <2>2, FloorUntouched
    <2>5. AckHolds'
      BY <2>1 DEF IInv, AckHolds, Through
    <2> QED BY <2>1, <2>3, <2>4, <2>5, OthersKeep DEF IInv
  <1> QED BY <1>3, <1>4, <1>5, <1>6, <1>7, <1>8, <1>9 DEF SetLocked
-----------------------------------------------------------------------------
(* The commands under setup.lock. *)

\* A step that moves the command and perhaps its policy.lock.
LEMMA MaintMoves ==
    ASSUME IInv, UNCHANGED << target, current, policy, authority, removal, work, floor, kill, acked >>,
           maint' \in MaintStates, MaintHolds',
           policyLock' \in [Directories -> Workers \cup {"free", "kill", "maint"}],
           \A d \in Directories : policyLock[d] \notin {"maint", "free"} => policyLock'[d] = policyLock[d]
    PROVE  IInv'
  <1>1. TypeOK' /\ WorkHolds'
    BY DEF IInv, TypeOK, WorkHolds
  <1>2. FloorHolds'
    BY FloorUntouched
  <1>3. 1 .. current \subseteq Directories
    BY TunnelBounds DEF IInv, TypeOK, Directories
  <1>4. KillHolds'
    BY <1>3 DEF IInv, KillHolds
  <1>5. AckHolds' /\ RemovedHolds' /\ PathHeld'
    BY DEF IInv, AckHolds, RemovedHolds, PathHeld, Through
  <1> QED BY <1>1, <1>2, <1>4, <1>5, MaintHolds' DEF IInv

\* No command: nothing is held.
LEMMA IdleMaintHolds == ASSUME maint' = IdleMaint PROVE maint' \in MaintStates /\ MaintHolds'
  BY IdleTypes DEF IdleMaint, MaintHolds

\* A command that begins or goes on is on the selected directory.
LEMMA OnPath ==
    ASSUME IInv
    PROVE  /\ TypeOK /\ maint \in MaintStates /\ current \in Directories /\ current \in Places
           /\ 1 .. current \subseteq Directories
           /\ maint.op # "none" \/ maint.at # "idle" => maint.op # "none" /\ maint.root = current
           /\ maint.op = "none" => ~maint.active
  <1>1. /\ TypeOK /\ maint \in MaintStates /\ current \in Directories
        /\ 1 .. current \subseteq Directories
    BY TunnelBounds DEF IInv, TypeOK, Directories
  <1> QED BY <1>1, IdleTypes DEF IInv, MaintHolds

\* RemoveLocal: the marker, the stop, and the commit after the drain.
LEMMA RemoveKeeps == ASSUME IInv, RemoveBegin \/ RemoveStop \/ RemoveCommit PROVE IInv'
  <1>1. /\ TypeOK /\ maint \in MaintStates /\ current \in Directories /\ current \in Places
        /\ 1 .. current \subseteq Directories
        /\ maint.op # "none" => maint.root = current
        /\ maint.op = "none" => ~maint.active
    BY OnPath
  <1>2. CASE RemoveBegin
    <2>1. /\ removal' = [removal EXCEPT ![current] = "removing"] /\ maint.op = "none"
          /\ UNCHANGED << target, current, policy, authority, work, floor, kill, policyLock, acked >>
      BY <1>2 DEF RemoveBegin
    <2>2. /\ maint' \in MaintStates /\ maint'.op = "remove" /\ maint'.at = "stop"
          /\ maint'.root = current /\ ~maint'.active
      BY <1>1, <1>2 DEF RemoveBegin, MaintStates, MaintSteps
    <2>3. /\ removal' \in [Directories -> {"none", "removing", "removed"}]
          /\ \A d \in Directories : removal'[d] = IF d = current THEN "removing" ELSE removal[d]
      BY <1>1, <2>1 DEF TypeOK
    <2>4. TypeOK' /\ WorkHolds' /\ FloorHolds' /\ KillHolds'
      BY <1>1, <2>1, <2>2, <2>3 DEF IInv, TypeOK, WorkHolds, FloorHolds, KillHolds
    <2>5. MaintHolds'
      BY <1>1, <2>1, <2>2, <2>3 DEF MaintHolds
    <2>6. AckHolds' /\ RemovedHolds' /\ PathHeld'
      BY <2>1, <2>3 DEF IInv, AckHolds, RemovedHolds, PathHeld, Through
    <2> QED BY <2>4, <2>5, <2>6 DEF IInv
  <1>3. CASE RemoveStop
    <2>1. /\ UNCHANGED << target, current, policy, authority, removal, floor, kill, policyLock, acked >>
          /\ maint.op = "remove" /\ maint.at = "stop"
      BY <1>3 DEF RemoveStop
    <2>2. /\ maint' \in MaintStates /\ maint'.op = "remove" /\ maint'.at = "drain"
          /\ maint'.root = maint.root /\ maint'.active = maint.active
      BY <1>1, <1>3 DEF RemoveStop, MaintStates, MaintSteps
    <2>3. PICK stopped \in SUBSET {w \in Workers : work[w].at = "running"} :
             work' = [w \in Workers |-> IF w \in stopped THEN [work[w] EXCEPT !.at = "stopping"]
                                                        ELSE work[w]]
      BY <1>3 DEF RemoveStop
    <2>4. \A w \in Workers : /\ work'[w] \in WorkStates
                             /\ work'[w].root = work[w].root /\ work'[w].gate = work[w].gate
                             /\ work'[w].checked = work[w].checked
                             /\ \/ work'[w].at = work[w].at
                                \/ work'[w].at = "stopping" /\ work[w].at = "running"
      <3> TAKE w \in Workers
      <3>1. work[w] \in WorkStates
        BY <1>1 DEF TypeOK
      <3>2. CASE w \in stopped
        BY <2>3, <3>1, <3>2 DEF WorkStates, WorkSteps
      <3>3. CASE w \notin stopped
        BY <2>3, <3>1, <3>3
      <3> QED BY <3>2, <3>3
    <2>5. work' \in [Workers -> WorkStates]
      BY <2>3, <2>4
    <2>6. TypeOK'
      BY <1>1, <2>1, <2>2, <2>5 DEF TypeOK
    <2>7. WorkHolds'
      BY <2>4 DEF IInv, WorkHolds
    <2>8. FloorHolds' /\ KillHolds'
      BY <2>1 DEF IInv, FloorHolds, KillHolds
    <2>9. \A w \in Workers : \A d : Through(w, d)' <=> Through(w, d)
      BY <2>4 DEF Through
    <2>10. MaintHolds'
      BY <2>1, <2>2, <2>4 DEF IInv, MaintHolds
    <2>11. AckHolds' /\ RemovedHolds' /\ PathHeld'
      BY <2>1, <2>9 DEF IInv, AckHolds, RemovedHolds, PathHeld
    <2> QED BY <2>6, <2>7, <2>8, <2>10, <2>11 DEF IInv
  <1>4. CASE RemoveCommit
    <2>1. /\ maint.op = "remove" /\ maint.at = "commit" /\ maint' = IdleMaint
          /\ removal' = [removal EXCEPT ![maint.root] = "removed"]
          /\ UNCHANGED << target, current, policy, authority, work, floor, kill, policyLock, acked >>
      BY <1>4 DEF RemoveCommit
    <2>2. /\ removal' \in [Directories -> {"none", "removing", "removed"}]
          /\ \A d \in Directories : removal'[d] = IF d = maint.root THEN "removed" ELSE removal[d]
      BY <1>1, <2>1 DEF TypeOK
    <2>3. \A w \in Workers : ~Through(w, maint.root)
      BY <2>1 DEF IInv, MaintHolds
    <2>4. TypeOK' /\ WorkHolds' /\ FloorHolds' /\ KillHolds' /\ MaintHolds'
      BY <1>1, <2>1, <2>2, IdleMaintHolds DEF IInv, TypeOK, WorkHolds, FloorHolds, KillHolds
    <2>5. AckHolds' /\ PathHeld'
      BY <2>1 DEF IInv, AckHolds, PathHeld, Through
    <2>6. RemovedHolds'
      BY <2>1, <2>2, <2>3 DEF IInv, RemovedHolds, Through
    <2> QED BY <2>4, <2>5, <2>6 DEF IInv
  <1> QED BY <1>2, <1>3, <1>4

\* drainLocal: active.lock is free, so nobody who was admitted is left.
LEMMA DrainKeeps == ASSUME IInv, DrainActive \/ DrainService PROVE IInv'
  <1>1. /\ TypeOK /\ maint \in MaintStates /\ maint.op # "none" /\ maint.root = current
        /\ UNCHANGED << target, current, policy, authority, removal, work, floor, kill, policyLock, acked >>
    BY OnPath DEF DrainActive, DrainService
  <1>2. policyLock' \in [Directories -> Workers \cup {"free", "kill", "maint"}]
    BY <1>1 DEF TypeOK
  <1>3. CASE DrainActive
    <2>1. /\ maint' \in MaintStates /\ maint'.at = "service" /\ maint'.active
          /\ maint'.op = maint.op /\ maint'.root = maint.root
      BY <1>1, <1>3 DEF DrainActive, MaintStates, MaintSteps
    <2>2. \A w \in Workers : work[w].gate # maint.root
      BY <1>3 DEF DrainActive, ActiveFree
    <2>3. MaintHolds'
      BY <1>1, <2>1, <2>2 DEF IInv, MaintHolds, Through
    <2> QED BY <1>1, <1>2, <2>1, <2>3, MaintMoves
  <1>4. CASE DrainService
    <2>1. /\ maint' \in MaintStates /\ maint'.at \in {"commit", "drain"} /\ ~maint'.active
          /\ maint'.op = maint.op /\ maint'.root = maint.root /\ maint.at = "service"
      BY <1>1, <1>4 DEF DrainService, MaintStates, MaintSteps
    <2>2. MaintHolds'
      BY <1>1, <2>1 DEF IInv, MaintHolds, Through
    <2> QED BY <1>1, <1>2, <2>1, <2>2, MaintMoves
  <1> QED BY <1>3, <1>4

\* restoreLocal writes neither policy nor authority: it only takes the marker
\* away.
LEMMA RestoreKeeps ==
    ASSUME IInv, \/ RestoreBegin \/ RestoreLock \/ RestorePolicy \/ RestoreAuthority
                 \/ RestoreUnlink
    PROVE  IInv'
  <1>1. /\ TypeOK /\ maint \in MaintStates /\ current \in Directories /\ current \in Places
        /\ 1 .. current \subseteq Directories
        /\ maint.op # "none" => maint.root = current
        /\ maint.op = "none" => ~maint.active
        /\ policyLock \in [Directories -> Workers \cup {"free", "kill", "maint"}]
    BY OnPath DEF TypeOK
  <1>2. CASE RestoreBegin
    <2>1. /\ maint' \in MaintStates /\ maint'.at = "drain" /\ ~maint'.active
          /\ maint'.op = "restore" /\ maint'.root = current
      BY <1>1, <1>2 DEF RestoreBegin, MaintStates, MaintSteps
    <2>2. UNCHANGED << target, current, policy, authority, removal, work, floor, kill, policyLock, acked >>
      BY <1>2 DEF RestoreBegin
    <2>3. MaintHolds'
      BY <2>1, <2>2 DEF MaintHolds
    <2> QED BY <1>1, <2>1, <2>2, <2>3, MaintMoves
  <1>3. CASE RestoreLock
    <2>1. /\ UNCHANGED << target, current, policy, authority, removal, work, floor, kill, acked >>
          /\ maint.op = "restore" /\ maint.root = current
      BY <1>1, <1>3 DEF RestoreLock
    <2>2. CASE policyLock[maint.root] = "free"
      <3>1. /\ policyLock' = [policyLock EXCEPT ![maint.root] = "maint"]
            /\ maint' \in MaintStates /\ maint'.at = "policy" /\ maint'.active = maint.active
            /\ maint'.op = maint.op /\ maint'.root = maint.root
        BY <1>1, <1>3, <2>2 DEF RestoreLock, MaintStates, MaintSteps
      <3>2. MaintHolds'
        BY <2>1, <3>1 DEF IInv, MaintHolds
      <3>3. /\ policyLock' \in [Directories -> Workers \cup {"free", "kill", "maint"}]
            /\ \A d \in Directories : policyLock[d] \notin {"maint", "free"} => policyLock'[d] = policyLock[d]
        BY <1>1, <2>2, <3>1
      <3> QED BY <2>1, <3>1, <3>2, <3>3, MaintMoves
    <2>3. CASE policyLock[maint.root] # "free"
      <3>1. maint' = IdleMaint /\ policyLock' = policyLock
        BY <1>3, <2>3 DEF RestoreLock
      <3> QED BY <1>1, <2>1, <3>1, IdleMaintHolds, MaintMoves
    <2> QED BY <2>2, <2>3
  <1>4. CASE RestorePolicy \/ RestoreAuthority
    <2>1. /\ UNCHANGED << target, current, policy, authority, removal, work, floor, kill, policyLock, acked >>
          /\ maint.op = "restore" /\ maint.root = current
      BY <1>1, <1>4 DEF RestorePolicy, RestoreAuthority
    <2>2. /\ maint' \in MaintStates /\ maint'.active = maint.active
          /\ maint'.op = maint.op /\ maint'.root = maint.root
      BY <1>1, <1>4 DEF RestorePolicy, RestoreAuthority, MaintStates, MaintSteps
    <2>3. MaintHolds'
      BY <2>1, <2>2 DEF IInv, MaintHolds
    <2> QED BY <1>1, <2>1, <2>2, <2>3, MaintMoves
  <1>5. CASE RestoreUnlink
    <2>1. /\ maint.op = "restore" /\ maint' = IdleMaint /\ UnlocksPolicy("maint")
          /\ removal' = [removal EXCEPT ![maint.root] = "none"]
          /\ UNCHANGED << target, current, policy, authority, work, floor, kill, acked >>
      BY <1>5 DEF RestoreUnlink
    <2>2. /\ removal' \in [Directories -> {"none", "removing", "removed"}]
          /\ \A d \in Directories : removal'[d] = "removed" => removal[d] = "removed"
      BY <1>1, <2>1 DEF TypeOK
    <2>3. /\ policyLock' \in [Directories -> Workers \cup {"free", "kill", "maint"}]
          /\ \A d \in Directories : policyLock[d] # "maint" => policyLock'[d] = policyLock[d]
      BY <1>1, <2>1, UnlocksEffect
    <2>4. TypeOK' /\ WorkHolds' /\ MaintHolds'
      BY <1>1, <2>1, <2>2, <2>3, IdleMaintHolds DEF IInv, TypeOK, WorkHolds
    <2>5. FloorHolds'
      BY <2>1, <2>3, FloorUntouched
    <2>6. KillHolds'
      BY <1>1, <2>1, <2>3 DEF IInv, KillHolds
    <2>7. AckHolds' /\ RemovedHolds' /\ PathHeld'
      BY <2>1, <2>2 DEF IInv, AckHolds, RemovedHolds, PathHeld, Through
    <2> QED BY <2>4, <2>5, <2>6, <2>7 DEF IInv
  <1> QED BY <1>2, <1>3, <1>4, <1>5

\* RebuildReceiver: the old directory is denied and drained, and its gate is
\* held, before the path moves on.
LEMMA RebuildKeeps ==
    ASSUME IInv, \/ RebuildBegin \/ RebuildRetire \/ RebuildLock \/ RebuildWait
                 \/ RebuildGate \/ RebuildService \/ RebuildExchange
    PROVE  /\ IInv'
           /\ policy[current].locked => policy'[current].locked
           /\ \A d \in Directories : authority[d] => authority'[d]
  <1>1. /\ TypeOK /\ maint \in MaintStates /\ current \in Directories /\ current \in Places
        /\ 1 .. current \subseteq Directories
        /\ maint.op # "none" => maint.root = current
        /\ maint.op = "none" => ~maint.active
        /\ policyLock \in [Directories -> Workers \cup {"free", "kill", "maint"}]
        /\ policy[current] \in Policies /\ policy \in [Directories -> Policies]
        /\ authority \in [Directories -> BOOLEAN]
    BY OnPath DEF TypeOK
  <1>2. CASE RebuildBegin
    <2>1. /\ maint' \in MaintStates /\ maint'.at = "retire" /\ ~maint'.active
          /\ maint'.op = "rebuild" /\ maint'.root = current
      BY <1>1, <1>2 DEF RebuildBegin, MaintStates, MaintSteps
    <2>2. /\ UNCHANGED << target, current, policy, authority, removal, work, floor, kill, policyLock, acked >>
          /\ current <= MaxReplacements
      BY <1>2 DEF RebuildBegin
    <2>3. MaintHolds'
      BY <2>1, <2>2 DEF MaintHolds
    <2> QED BY <1>1, <2>1, <2>2, <2>3, MaintMoves
  <1>3. CASE RebuildRetire
    <2>1. /\ maint.op = "rebuild" /\ authority' = [authority EXCEPT ![maint.root] = TRUE]
          /\ UNCHANGED << target, current, policy, removal, work, floor, kill, policyLock, acked >>
      BY <1>3 DEF RebuildRetire
    <2>2. /\ maint' \in MaintStates /\ maint'.at = "policy" /\ maint'.active = maint.active
          /\ maint'.op = maint.op /\ maint'.root = maint.root
      BY <1>1, <1>3 DEF RebuildRetire, MaintStates, MaintSteps
    <2>3. authority' \in [Directories -> BOOLEAN] /\ \A d \in Directories : authority[d] => authority'[d]
      BY <1>1, <2>1
    <2>4. TypeOK' /\ WorkHolds' /\ FloorHolds' /\ KillHolds'
      BY <1>1, <2>1, <2>2, <2>3 DEF IInv, TypeOK, WorkHolds, FloorHolds, KillHolds
    <2>5. MaintHolds'
      BY <2>1, <2>2 DEF IInv, MaintHolds
    <2>6. AckHolds' /\ RemovedHolds' /\ PathHeld'
      BY <2>1 DEF IInv, AckHolds, RemovedHolds, PathHeld, Through
    <2> QED BY <2>1, <2>3, <2>4, <2>5, <2>6 DEF IInv
  <1>4. CASE RebuildLock
    <2>1. /\ maint.op = "rebuild" /\ maint.root = current
          /\ UNCHANGED << target, current, authority, removal, work, floor, kill, policyLock, acked >>
      BY <1>1, <1>4 DEF RebuildLock
    <2>2. CASE policyLock[maint.root] = "free"
      <3> DEFINE new == [policy[current] EXCEPT !.locked = TRUE]
      <3>1. policy' = [policy EXCEPT ![current] = new]
        BY <1>1, <1>4, <2>1, <2>2 DEF RebuildLock
      <3>2. new \in Policies /\ new.locked
        BY <1>1 DEF Policies
      <3> HIDE DEF new
      <3>3. policy' \in [Directories -> Policies] /\ policy'[current].locked
        BY <1>1, <3>1, <3>2
      <3>4. /\ maint' \in MaintStates /\ maint'.at = "wait" /\ maint'.active = maint.active
            /\ maint'.op = maint.op /\ maint'.root = maint.root
        BY <1>1, <1>4, <2>2 DEF RebuildLock, MaintStates, MaintSteps
      <3>5. TypeOK' /\ WorkHolds' /\ KillHolds'
        BY <1>1, <2>1, <3>3, <3>4 DEF IInv, TypeOK, WorkHolds, KillHolds
      <3>6. FloorHolds'
        BY <2>1, <2>2, FloorUntouched
      <3>7. MaintHolds'
        BY <2>1, <3>4 DEF IInv, MaintHolds
      <3>8. AckHolds' /\ RemovedHolds' /\ PathHeld'
        BY <2>1, <3>3 DEF IInv, AckHolds, RemovedHolds, PathHeld, Through
      <3> QED BY <2>1, <3>3, <3>5, <3>6, <3>7, <3>8 DEF IInv
    <2>3. CASE policyLock[maint.root] # "free"
      <3>1. maint' = IdleMaint /\ policy' = policy
        BY <1>4, <2>3 DEF RebuildLock
      <3> QED BY <1>1, <2>1, <3>1, IdleMaintHolds, MaintMoves
    <2> QED BY <2>2, <2>3
  <1>5. CASE RebuildWait
    <2>1. /\ maint.op = "rebuild" /\ maint.root = current
          /\ UNCHANGED << target, current, policy, authority, removal, work, floor, kill, policyLock, acked >>
      BY <1>1, <1>5 DEF RebuildWait
    <2>2. /\ maint' \in MaintStates /\ maint'.at = "gate" /\ maint'.active = maint.active
          /\ maint'.op = maint.op /\ maint'.root = maint.root
      BY <1>1, <1>5 DEF RebuildWait, MaintStates, MaintSteps
    <2>3. MaintHolds'
      BY <2>1, <2>2 DEF IInv, MaintHolds
    <2> QED BY <1>1, <2>1, <2>2, <2>3, MaintMoves
  <1>6. CASE RebuildGate
    <2>1. /\ maint.op = "rebuild" /\ maint.root = current
          /\ UNCHANGED << target, current, policy, authority, removal, work, floor, kill, policyLock, acked >>
      BY <1>1, <1>6 DEF RebuildGate
    <2>2. CASE ActiveFree(maint.root)
      <3>1. /\ maint' \in MaintStates /\ maint'.at = "unit" /\ maint'.active
            /\ maint'.op = maint.op /\ maint'.root = maint.root
        BY <1>1, <1>6, <2>2 DEF RebuildGate, MaintStates, MaintSteps
      <3>2. \A w \in Workers : work[w].gate # maint.root
        BY <2>2 DEF ActiveFree
      <3>3. MaintHolds'
        BY <2>1, <3>1, <3>2 DEF IInv, MaintHolds
      <3> QED BY <1>1, <2>1, <3>1, <3>3, MaintMoves
    <2>3. CASE ~ActiveFree(maint.root)
      <3>1. maint' = IdleMaint
        BY <1>6, <2>3 DEF RebuildGate
      <3> QED BY <1>1, <2>1, <3>1, IdleMaintHolds, MaintMoves
    <2> QED BY <2>2, <2>3
  <1>7. CASE RebuildService
    <2>1. /\ maint.op = "rebuild" /\ maint.root = current /\ maint.at = "unit"
          /\ UNCHANGED << target, current, policy, authority, removal, work, floor, kill, policyLock, acked >>
      BY <1>1, <1>7 DEF RebuildService
    <2>2. CASE ServiceFree(maint.root)
      <3>1. /\ maint' \in MaintStates /\ maint'.at = "exchange" /\ maint'.active = maint.active
            /\ maint'.op = maint.op /\ maint'.root = maint.root
        BY <1>1, <1>7, <2>2 DEF RebuildService, MaintStates, MaintSteps
      <3>2. MaintHolds'
        BY <2>1, <3>1 DEF IInv, MaintHolds
      <3> QED BY <1>1, <2>1, <3>1, <3>2, MaintMoves
    <2>3. CASE ~ServiceFree(maint.root)
      <3>1. maint' = IdleMaint
        BY <1>7, <2>3 DEF RebuildService
      <3> QED BY <1>1, <2>1, <3>1, IdleMaintHolds, MaintMoves
    <2> QED BY <2>2, <2>3
  <1>8. CASE RebuildExchange
    <2>1. /\ maint.op = "rebuild" /\ maint.root = current /\ maint.at = "exchange"
          /\ current' = current + 1 /\ maint' = IdleMaint
          /\ UNCHANGED << target, policy, authority, removal, work, floor, kill, policyLock, acked >>
      BY <1>1, <1>8 DEF RebuildExchange
    <2>2. maint.active /\ current <= MaxReplacements
      BY <2>1 DEF IInv, MaintHolds
    <2>3. /\ current + 1 \in Directories /\ current + 1 \notin 1 .. current
          /\ 1 .. current \subseteq 1 .. (current + 1)
          /\ \A n \in Directories : n <= current => n <= current + 1 /\ n # current + 1
      BY <1>1, <2>2, TunnelBounds DEF Directories
    <2>4. \A w \in Workers, d \in Directories : ~Through(w, d)
      BY <2>1, <2>2 DEF IInv, MaintHolds, PathHeld, Through
    <2>5. TypeOK' /\ WorkHolds' /\ MaintHolds'
      BY <1>1, <2>1, <2>3, IdleMaintHolds DEF IInv, TypeOK, WorkHolds
    <2>6. FloorHolds' /\ KillHolds'
      BY <2>1, <2>3 DEF IInv, FloorHolds, KillHolds
    <2>7. AckHolds'
      <3> SUFFICES ASSUME NEW x \in acked
                   PROVE  /\ x.drained <= current + 1 /\ x.drained # current + 1
                          /\ \A w \in Workers : ~Through(w, x.drained)
        BY <2>1 DEF AckHolds, Through
      <3>1. x.drained \in Directories /\ x.drained <= current
        BY <1>1 DEF IInv, AckHolds, TypeOK
      <3> QED BY <2>3, <2>4, <3>1
    <2>8. RemovedHolds' /\ PathHeld'
      BY <2>1, <2>4 DEF RemovedHolds, PathHeld, Through
    <2> QED BY <2>1, <2>5, <2>6, <2>7, <2>8 DEF IInv
  <1> QED BY <1>2, <1>3, <1>4, <1>5, <1>6, <1>7, <1>8

\* Every command under setup.lock.
LEMMA MaintainKeeps ==
    ASSUME IInv, Maintain
    PROVE  /\ IInv'
           /\ policy[current].locked => policy'[current].locked
           /\ \A d \in Directories : authority[d] => authority'[d]
  <1>1. CASE RemoveBegin \/ RemoveStop \/ RemoveCommit
    BY <1>1, RemoveKeeps DEF RemoveBegin, RemoveStop, RemoveCommit
  <1>2. CASE DrainActive \/ DrainService
    BY <1>2, DrainKeeps DEF DrainActive, DrainService
  <1>3. CASE \/ RestoreBegin \/ RestoreLock \/ RestorePolicy \/ RestoreAuthority
             \/ RestoreUnlink
    <2>1. UNCHANGED << policy, authority >>
      BY <1>3 DEF RestoreBegin, RestoreLock, RestorePolicy, RestoreAuthority, RestoreUnlink
    <2> QED BY <1>3, <2>1, RestoreKeeps
  <1>4. CASE \/ RebuildBegin \/ RebuildRetire \/ RebuildLock \/ RebuildWait
             \/ RebuildGate \/ RebuildService \/ RebuildExchange
    BY <1>4, RebuildKeeps
  <1>5. CASE MaintEnds
    <2>1. /\ maint' = IdleMaint /\ UnlocksPolicy("maint") /\ TypeOK
          /\ UNCHANGED << target, current, policy, authority, removal, work, floor, kill, acked >>
      BY <1>5 DEF MaintEnds, IInv
    <2>2. /\ policyLock' \in [Directories -> Workers \cup {"free", "kill", "maint"}]
          /\ \A d \in Directories : policyLock[d] # "maint" => policyLock'[d] = policyLock[d]
      BY <2>1, UnlocksEffect
    <2> QED BY <2>1, <2>2, IdleMaintHolds, MaintMoves
  <1> QED BY <1>1, <1>2, <1>3, <1>4, <1>5 DEF Maintain

-----------------------------------------------------------------------------
(* The theorems. *)

\* The invariant holds at first.
LEMMA InitIInv == ASSUME TunnelInit PROVE IInv
  <1>1. TypeOK
    BY IdleTypes DEF TunnelInit, TypeOK
  <1>2. /\ IdleWorker.at = "idle" /\ IdleWorker.checked = Nowhere /\ IdleWorker.gate = Nowhere
        /\ IdleFloor.at = "idle" /\ IdleKill.at = "idle"
        /\ IdleMaint.op = "none" /\ IdleMaint.at = "idle" /\ ~IdleMaint.active
    BY DEF IdleWorker, IdleFloor, IdleKill, IdleMaint
  <1>3. WorkHolds /\ FloorHolds /\ KillHolds /\ MaintHolds /\ AckHolds
    BY <1>2 DEF TunnelInit, WorkHolds, FloorHolds, KillHolds, MaintHolds, AckHolds
  <1>4. RemovedHolds /\ PathHeld
    BY <1>2, IdleTypes DEF TunnelInit, RemovedHolds, PathHeld, Through
  <1> QED BY <1>1, <1>3, <1>4 DEF IInv

\* A step unlocks neither the policy of the selected directory nor an
\* authority.
Latches == \A d \in Directories :
             /\ d = current /\ policy[d].locked => policy'[d].locked
             /\ authority[d] => authority'[d]

\* Every step keeps the invariant and the latch.
LEMMA NextIInv == ASSUME IInv, [TunnelNext]_tunnelVars PROVE IInv' /\ Latches
  <1>1. CASE UNCHANGED tunnelVars
    BY <1>1 DEF tunnelVars, IInv, TypeOK, WorkHolds, FloorHolds, KillHolds, MaintHolds, AckHolds,
                RemovedHolds, PathHeld, Through, Latches
  <1>2. ASSUME NEW w \in Workers, Work(w) PROVE IInv' /\ Latches
    <2>1. CASE FloorOpen(w) \/ FloorLock(w) \/ FloorRead(w) \/ FloorWrite(w)
      <3>1. authority' = authority
        BY <2>1 DEF FloorOpen, FloorLock, FloorRead, FloorWrite
      <3> QED BY <2>1, <3>1, FloorKeeps DEF Latches
    <2>2. CASE \/ AdmitOpen(w) \/ AdmitLock(w) \/ AdmitCheck(w) \/ ServeOpen(w) \/ ServeLock(w)
               \/ WatchPolicy(w) \/ WorkEnds(w) \/ Released(w) \/ WorkerDies(w)
      <3>1. UNCHANGED << policy, authority >>
        BY <2>2 DEF AdmitOpen, AdmitLock, AdmitCheck, ServeOpen, ServeLock, WatchPolicy, WorkEnds,
                    Released, WorkerDies
      <3> QED BY <2>2, <3>1, ServingKeeps DEF Latches
    <2> QED BY <1>2, <2>1, <2>2 DEF Work
  <1>3. CASE SetLocked
    BY <1>3, KillKeeps DEF Latches
  <1>4. CASE Maintain
    BY <1>4, MaintainKeeps DEF Latches
  <1> QED BY <1>1, <1>2, <1>3, <1>4 DEF TunnelNext

\* The inductive invariant of the tunnel: what every operation in flight
\* holds, for any interleaving of workers, alarm and maintenance.
THEOREM Inductive == TunnelSpec => []IInv
  BY InitIInv, NextIInv, PTL DEF TunnelSpec

\* Type correctness of the tunnel's state.
THEOREM TypeCorrect == TunnelSpec => []TypeOK
  <1>1. IInv => TypeOK
    BY DEF IInv
  <1> QED BY <1>1, Inductive, PTL

\* An acknowledged alarm and a completed removal have excluded every worker
\* admitted through the denied directory (SetLocked, RemoveLocal), for any
\* number of workers and of replaced directories.
THEOREM DenialTheorem == TunnelSpec => []DenialHolds
  <1>1. ASSUME IInv PROVE DenialHolds
    <2> SUFFICES ASSUME NEW d \in Directories, NEW w \in Workers, Through(w, d),
                        \/ [denied |-> d, drained |-> d] \in acked
                        \/ removal[d] = "removed"
                 PROVE  FALSE
      BY DEF DenialHolds, Gated, Through
    <2>1. CASE [denied |-> d, drained |-> d] \in acked
      BY <1>1, <2>1 DEF IInv, AckHolds
    <2>2. CASE removal[d] = "removed"
      BY <1>1, <2>2 DEF IInv, RemovedHolds
    <2> QED BY <2>1, <2>2
  <1> QED BY <1>1, Inductive, PTL

\* The alarm of the selected directory is terminal, whatever peer-floor
\* update, restore or rebuild is in flight (store.go:177-179).
THEOREM AlarmTheorem == TunnelSpec => AlarmLatched
  <1>1. ASSUME IInv, [TunnelNext]_tunnelVars PROVE Latches
    BY <1>1, NextIInv
  <1>2. Latches <=> \A d \in Directories :
                      /\ d = current /\ policy[d].locked => policy'[d].locked
                      /\ authority[d] => authority'[d]
    BY DEF Latches
  <1> QED BY <1>1, <1>2, Inductive, PTL DEF TunnelSpec, AlarmLatched

\* No directory is exchanged under a worker admitted through it: rebuild
\* publishes only under active.lock (rebuild.go).
THEOREM PathTheorem == TunnelSpec => []PathHeld
  <1>1. IInv => PathHeld
    BY DEF IInv
  <1> QED BY <1>1, Inductive, PTL

=============================================================================
