--------------------------- MODULE PackageProofs ---------------------------
(***************************************************************************)
(* Proofs about the package transaction under its supervisor, for any      *)
(* releases, policies and names, and any crash.                            *)
(*                                                                         *)
(* RoleServed speaks of the running unit, the anchor and the files; it     *)
(* needs where selector and link stand at every phase of the journal       *)
(* (PlaceHolds), which releases must still be whole (KeptWhole), and what  *)
(* the running operation decided before it wrote (StepHolds).  EngineInv   *)
(* is that of the engine, SupervisorHolds says when the unit may run.      *)
(*                                                                         *)
(* The second half is about the relay host (RelaySetup), for any number of *)
(* images and faults.  HostInv has one clause per journal on disk          *)
(* (DiskHolds), which is what a reboot or the next setup starts from, and  *)
(* for each command what holds at each of its positions (OpAt).  Every     *)
(* step of every command reaches its next position (StepEffect), and every *)
(* rollback starts with the journal it needs (RollSafe).                   *)
(***************************************************************************)
EXTENDS PackageSupervisor, RelaySetup, TLAPS

Phases == {"none", "planned", "staged", "selected", "retiring", "complete"}
EngineSteps == {"idle", "plan", "stage", "own", "staged", "gate", "select", "link", "selected", "retiring",
          "retire", "complete"}
Selectors == [gen : Nat, current : 0..MaxRelease, previous : 0..MaxRelease]
Digests == {<<>>} \cup (Nat \X (0..MaxPolicy) \X Nat \X Selectors)
Anchors == [gen : Nat, back : Digests, policy : 0..MaxPolicy, highest : Nat, selection : Selectors]
Journals == [phase : Phases, op : {"none", "install", "rollback"}, release : 0..MaxRelease,
             policy : 0..MaxPolicy, before : Selectors, target : Selectors,
             retired : 0..MaxRelease, anchorBefore : Digests, anchorTarget : Digests]
Calls == [op : {"none", "install", "rollback"}, release : 0..MaxRelease, policy : 0..MaxPolicy,
          before : Digests, target : Anchors]
Contents == [Release -> [Name -> {"none", "stage", "both", "final"}]]

PackageTypeOK ==
  /\ selector \in Selectors /\ journal \in Journals /\ active \in 0..MaxRelease
  /\ anchor \in Anchors /\ dir \subseteq Release /\ file \in Contents
  /\ pc \in EngineSteps /\ call \in Calls

-----------------------------------------------------------------------------
\* The two releases a selector names differ.
Distinct(s) == s.previous # 0 => s.current # s.previous

\* What the record of a transaction says of itself.
JournalHolds ==
  journal.phase # "none" =>
    /\ journal.op \in {"install", "rollback"} /\ journal.release \in Release
    /\ journal.target = [gen |-> journal.before.gen + 1, current |-> journal.release,
                         previous |-> journal.before.current]
    /\ journal.release # journal.before.current
    /\ Distinct(journal.before)
    /\ journal.op = "install" =>
         journal.release # journal.before.previous /\ journal.retired = journal.before.previous
    /\ journal.op = "rollback" =>
         journal.release = journal.before.previous /\ journal.retired = 0

\* What anchor a transaction is to commit: this selection, within its own floors.
Commits(d, s) ==
  /\ d # <<>> /\ d[4] = s
  /\ s.current <= d[3] /\ s.previous <= d[3]
  /\ s.current >= Floor[d[2]] /\ s.current \notin Tombs[d[2]]
TargetHolds == journal.phase # "none" => Commits(journal.anchorTarget, journal.target)

\* The selector and the link are where the phase says, or were never written.
PlaceHolds ==
  /\ journal.phase = "none" => selector = NoSelector /\ active = 0 /\ journal = NoJournal
  /\ journal.phase # "none" => ResumeSelector /\ ResumeActiveLink
  /\ selector.gen = 0 => selector = NoSelector

\* The anchor bounds what it selects.
AnchorHolds ==
  /\ anchor.gen = 0 => anchor = NoAnchor
  /\ anchor.selection.current <= anchor.highest /\ anchor.selection.previous <= anchor.highest

\* The releases that may still be run or rolled back to.
Kept ==
  ({journal.before.current}
   \cup (IF journal.phase \in {"planned", "staged", "selected"} THEN {journal.before.previous} ELSE {})
   \cup (IF journal.phase # "planned" THEN {journal.release} ELSE {})) \ {0}
KeptWhole == \A r \in Kept : Whole(r)

\* What the running operation decided, against the disk.
Advances(t) ==
  \/ t = anchor
  \/ /\ t.gen = anchor.gen + 1 /\ t.back = Digest(anchor)
     /\ t.highest >= anchor.highest
     /\ Floor[t.policy] >= Floor[anchor.policy] /\ Tombs[anchor.policy] \subseteq Tombs[t.policy]
PlanHolds ==
  /\ journal.phase \in {"none", "complete"}
  /\ call.op \in {"install", "rollback"} /\ call.release \in Release
  /\ call.release # selector.current
  /\ call.op = "install" => call.release # selector.previous
  /\ call.op = "rollback" => call.release = selector.previous
  /\ Commits(Digest(call.target), TargetSelector(call.release))
StepHolds ==
  /\ pc = "plan" => PlanHolds
  /\ pc \in {"plan", "stage", "own", "staged", "gate"} => Advances(call.target)
  /\ pc \in {"stage", "own"} => journal.phase = "planned" /\ journal.op = "install"
                                /\ call.release = journal.release
  /\ pc = "staged" => journal.phase = "planned" /\ journal.op = "rollback"
  /\ pc = "gate" => journal.phase = "staged" /\ selector = journal.before
  /\ pc = "select" => /\ journal.phase = "staged" /\ selector = journal.before
                      /\ Digest(anchor) = journal.anchorTarget
  /\ pc = "link" => journal.phase = "staged" /\ selector = journal.target
  /\ pc = "selected" => /\ journal.phase = "staged" /\ selector = journal.target
                        /\ active = journal.target.current
  /\ pc = "retiring" => journal.phase = "selected" /\ journal.retired # 0
  /\ pc = "retire" => journal.phase = "retiring" /\ journal.retired # 0
  /\ pc = "complete" => journal.phase \in {"selected", "retiring"}

\* Who runs when: the unit only around complete transactions, unless it slipped by.
SupervisorHolds ==
  /\ record \in {"none", "intent", "restart", "torn"}
  /\ keep \in BOOLEAN /\ owed \in BOOLEAN /\ seen \in BOOLEAN
  /\ phase \in {"off", "pre", "run", "end"} /\ slipped \in BOOLEAN
  /\ phase \in {"off", "pre"} => unit = 0
  /\ phase = "off" => ~slipped
  /\ spc # "idle" => job \in Job
  /\ Interrupted => record = "intent" /\ (phase = "off" \/ slipped)
  /\ pc # "idle" <=> spc = "engine"
  /\ spc \in {"stop", "check", "operate", "engine", "settle"} => record = "intent"
  /\ spc \in {"operate", "engine", "settle"} => phase = "off" \/ slipped
  /\ spc = "settle" => ~Interrupted
  /\ spc \in {"start", "remove"} => record = "restart"
  /\ spc = "write" => record = "none" /\ (owed => seen)
  /\ record = "torn" => spc = "idle"

EngineInv == /\ PackageTypeOK /\ JournalHolds /\ TargetHolds /\ PlaceHolds /\ AnchorHolds
             /\ KeptWhole /\ StepHolds
PackageInv == EngineInv /\ SupervisorHolds /\ RunsComplete /\ RestartObligation

-----------------------------------------------------------------------------
(* Records and digests. *)

\* The fields a digest commits to.
LEMMA DigestFacts ==
  ASSUME NEW a \in Anchors
  PROVE  /\ Digest(a) \in Digests /\ Digest(a) # <<>>
         /\ Digest(a)[2] = a.policy /\ Digest(a)[3] = a.highest /\ Digest(a)[4] = a.selection
  BY DEF Anchors, Digest, Digests

\* The selectors and anchors an operation builds are well formed.
LEMMA BuildFacts ==
  ASSUME PackageTypeOK, NEW r \in 0..MaxRelease, NEW p \in 0..MaxPolicy, NEW h \in Nat,
         NEW s \in Selectors
  PROVE  /\ TargetSelector(r) \in Selectors /\ TargetAnchor(p, h, s) \in Anchors
         /\ Highest(r) \in Nat /\ Highest(r) >= r /\ Highest(r) >= anchor.highest
  <1>1. anchor \in Anchors /\ selector \in Selectors
    BY DEF PackageTypeOK
  <1>2. Digest(anchor) \in Digests
    BY <1>1, DigestFacts
  <1>3. anchor.gen + 1 \in Nat /\ anchor.highest \in Nat
    BY <1>1 DEF Anchors
  <1>4. selector.gen + 1 \in Nat /\ selector.current \in 0..MaxRelease
    BY <1>1 DEF Selectors
  <1>5. TargetSelector(r) \in Selectors
    BY <1>4 DEF TargetSelector, Selectors
  <1>6. TargetAnchor(p, h, s) \in Anchors
    BY <1>2, <1>3 DEF TargetAnchor, Anchors
  <1>7. Highest(r) \in Nat /\ Highest(r) >= r /\ Highest(r) >= anchor.highest
    BY <1>3, PolicyAssumption DEF Highest
  <1> QED BY <1>5, <1>6, <1>7

\* An anchor an operation builds advances the one in force.
LEMMA BuildAdvances ==
  ASSUME PackageTypeOK, NEW p \in 0..MaxPolicy, NEW h \in Nat, NEW s \in Selectors,
         h >= anchor.highest, p = anchor.policy \/ PolicyAdvance(p)
  PROVE  Advances(TargetAnchor(p, h, s))
  <1>1. anchor.policy \in 0..MaxPolicy /\ anchor.gen \in Nat /\ anchor.highest \in Nat
    BY DEF PackageTypeOK, Anchors
  <1>2. Floor[p] >= Floor[anchor.policy] /\ Tombs[anchor.policy] \subseteq Tombs[p]
    <2>1. CASE p = anchor.policy
      <3>1. Floor[p] \in Nat
        BY PolicyAssumption
      <3> QED BY <2>1, <3>1
    <2>2. CASE PolicyAdvance(p)
      BY <2>2 DEF PolicyAdvance
    <2> QED BY <2>1, <2>2
  <1> QED BY <1>1, <1>2 DEF Advances, TargetAnchor

-----------------------------------------------------------------------------
(* The decisions. *)

\* What a step that leaves the disk alone has to show.
LEMMA DiskSame ==
  ASSUME EngineInv, UNCHANGED disk, pc' \in EngineSteps, call' \in Calls, StepHolds'
  PROVE  EngineInv'
  <1> USE DEF disk
  <1>1. PackageTypeOK'
    BY DEF EngineInv, PackageTypeOK
  <1>2. JournalHolds' /\ TargetHolds'
    BY DEF EngineInv, JournalHolds, TargetHolds, Distinct, Commits
  <1>3. PlaceHolds' /\ AnchorHolds'
    BY DEF EngineInv, PlaceHolds, AnchorHolds, ResumeSelector, ResumeActiveLink
  <1>4. KeptWhole'
    BY DEF EngineInv, KeptWhole, Kept, Whole
  <1> QED BY <1>1, <1>2, <1>3, <1>4 DEF EngineInv

\* The process ends, having changed nothing.
LEMMA EndKeeps ==
  ASSUME EngineInv, UNCHANGED disk, pc' = "idle", call' = NoCall
  PROVE  EngineInv'
  <1>1. call' \in Calls
    BY PolicyAssumption DEF NoCall, Calls, NoAnchor, NoSelector, Anchors, Selectors, Digests
  <1>2. StepHolds'
    BY DEF StepHolds
  <1> QED BY <1>1, <1>2, DiskSame DEF EngineSteps

\* A readable disk without a transaction under way: the anchor holds the selector.
LEMMA SettledFacts ==
  ASSUME EngineInv, Readable, ~Interrupted
  PROVE  /\ journal.phase \in {"none", "complete"}
         /\ selector.current <= anchor.highest /\ selector.previous <= anchor.highest
         /\ Distinct(selector)
  <1>1. journal.phase \in {"none", "complete"}
    BY DEF Interrupted
  <1>2. anchor.selection = selector
    <2>1. CASE anchor.gen = 0
      BY <2>1 DEF Readable, AnchorAgrees, Interrupted, EngineInv, PlaceHolds, AnchorHolds, NoAnchor
    <2>2. CASE anchor.gen # 0
      BY <2>2 DEF Readable, AnchorAgrees, Interrupted
    <2> QED BY <2>1, <2>2
  <1>3. selector.current <= anchor.highest /\ selector.previous <= anchor.highest
    BY <1>2 DEF EngineInv, AnchorHolds
  <1>4. Distinct(selector)
    <2>1. CASE journal.phase = "none"
      BY <2>1 DEF EngineInv, PlaceHolds, NoSelector, Distinct
    <2>2. CASE journal.phase = "complete"
      BY <2>2 DEF EngineInv, PlaceHolds, ResumeSelector, JournalHolds, Distinct
    <2> QED BY <1>1, <2>1, <2>2
  <1> QED BY <1>1, <1>3, <1>4

\* A new transaction sets out.
LEMMA PlanningKeeps ==
  ASSUME EngineInv, UNCHANGED disk, pc' = "plan", call' \in Calls, PlanHolds', Advances(call.target)'
  PROVE  EngineInv'
  <1>1. StepHolds'
    BY DEF StepHolds
  <1> QED BY <1>1, DiskSame DEF EngineSteps

\* Apply of a release that is not selected yet.
LEMMA ApplyNewKeeps ==
  ASSUME EngineInv, NEW r \in Release, NEW p \in Policy, NEW exe \in Exe, ApplyNew(r, p, exe),
         Begin("plan", [op |-> "install", release |-> r, policy |-> p, before |-> Digest(anchor),
                        target |-> TargetAnchor(p, Highest(r), TargetSelector(r))])
  PROVE  EngineInv'
  <1> DEFINE t == TargetAnchor(p, Highest(r), TargetSelector(r))
  <1>1. PackageTypeOK /\ r \in 0..MaxRelease /\ p \in 0..MaxPolicy /\ r \in Nat
    BY PolicyAssumption DEF EngineInv, Release, Policy
  <1>2. /\ Readable /\ ~Interrupted /\ PolicyAccepted(p) /\ ReleaseAccepted(r, p)
        /\ selector.current # r
    BY DEF ApplyNew, Admissible
  <1>3. /\ journal.phase \in {"none", "complete"}
        /\ selector.current <= anchor.highest /\ selector.previous <= anchor.highest
    BY <1>2, SettledFacts
  <1>4. /\ TargetSelector(r) \in Selectors /\ Highest(r) \in Nat /\ Highest(r) >= r
        /\ Highest(r) >= anchor.highest
    <2>1. NoSelector \in Selectors /\ 0 \in Nat
      BY PolicyAssumption DEF NoSelector, Selectors
    <2> QED BY <1>1, <2>1, BuildFacts
  <1>5. t \in Anchors
    BY <1>1, <1>4, BuildFacts
  <1>6. /\ anchor \in Anchors /\ anchor.highest \in Nat /\ anchor.policy \in 0..MaxPolicy
        /\ selector.current \in 0..MaxRelease /\ selector.previous \in 0..MaxRelease
    BY <1>1 DEF PackageTypeOK, Anchors, Selectors
  <1>7. r > anchor.highest
    <2>1. anchor.gen # 0 => anchor.selection = selector
      BY <1>2 DEF Readable, AnchorAgrees, Interrupted
    <2>2. anchor.gen = 0 => anchor.highest = 0
      BY DEF EngineInv, AnchorHolds, NoAnchor
    <2>3. r # 0
      BY DEF Release
    <2> QED BY <1>2, <2>1, <2>2, <2>3 DEF ReleaseAccepted
  <1>8. r # selector.previous
    BY <1>1, <1>3, <1>6, <1>7
  <1>9. Advances(t)
    BY <1>1, <1>2, <1>4, BuildAdvances DEF PolicyAccepted, PolicyAtAnchor
  <1>10. /\ TargetSelector(r).current = r /\ TargetSelector(r).previous = selector.current
         /\ t.policy = p /\ t.highest = Highest(r) /\ t.selection = TargetSelector(r)
    BY DEF TargetSelector, TargetAnchor
  <1>11. Commits(Digest(t), TargetSelector(r))
    <2>1. Digest(t) # <<>> /\ Digest(t)[2] = p /\ Digest(t)[3] = Highest(r) /\ Digest(t)[4] = TargetSelector(r)
      BY <1>5, <1>10, DigestFacts
    <2>2. r <= Highest(r) /\ selector.current <= Highest(r)
      BY <1>1, <1>3, <1>4, <1>6, PolicyAssumption
    <2> QED BY <1>2, <1>10, <2>1, <2>2 DEF Commits, ReleaseAccepted
  <1>12. Digest(anchor) \in Digests
    BY <1>6, DigestFacts
  <1>13. /\ pc' = "plan" /\ UNCHANGED disk
         /\ call' = [op |-> "install", release |-> r, policy |-> p, before |-> Digest(anchor),
                     target |-> t]
    BY DEF Begin
  <1> HIDE DEF t
  <1>14. call' \in Calls /\ call'.op = "install" /\ call'.release = r /\ call'.target = t
    BY <1>1, <1>5, <1>12, <1>13 DEF Calls
  <1>15. PlanHolds'
    BY <1>2, <1>3, <1>8, <1>11, <1>13, <1>14 DEF PlanHolds, disk, TargetSelector, Commits
  <1>16. Advances(call.target)'
    BY <1>9, <1>13, <1>14 DEF Advances, disk
  <1> QED BY <1>13, <1>14, <1>15, <1>16, PlanningKeeps

\* Rollback to the retained release.
LEMMA RollbackKeeps ==
  ASSUME EngineInv, NEW r \in Release, NEW exe \in Exe, Rollback(r, exe)
  PROVE  EngineInv'
  <1> DEFINE t == TargetAnchor(anchor.policy, anchor.highest, TargetSelector(r))
  <1>1. PackageTypeOK /\ r \in 0..MaxRelease /\ r \in Nat
    BY PolicyAssumption DEF EngineInv, Release
  <1>2. /\ Readable /\ journal.phase = "complete" /\ r # 0 /\ r = selector.previous
        /\ r >= Floor[anchor.policy] /\ r \notin Tombs[anchor.policy] /\ ~Interrupted
    BY DEF Rollback, RollbackAllowed, Interrupted
  <1>3. /\ selector.current <= anchor.highest /\ selector.previous <= anchor.highest
        /\ Distinct(selector)
    BY <1>2, SettledFacts
  <1>4. /\ anchor \in Anchors /\ anchor.highest \in Nat /\ anchor.policy \in 0..MaxPolicy
        /\ selector \in Selectors
    BY <1>1 DEF PackageTypeOK, Anchors
  <1>5. TargetSelector(r) \in Selectors
    BY <1>1, <1>4, BuildFacts
  <1>6. t \in Anchors
    BY <1>1, <1>4, <1>5, BuildFacts
  <1>7. Advances(t)
    <2>1. anchor.highest >= anchor.highest
      BY <1>4
    <2> QED BY <1>1, <1>4, <1>5, <2>1, BuildAdvances
  <1>8. /\ TargetSelector(r).current = r /\ TargetSelector(r).previous = selector.current
        /\ t.policy = anchor.policy /\ t.highest = anchor.highest /\ t.selection = TargetSelector(r)
    BY DEF TargetSelector, TargetAnchor
  <1>9. Commits(Digest(t), TargetSelector(r))
    <2>1. /\ Digest(t) # <<>> /\ Digest(t)[2] = anchor.policy /\ Digest(t)[3] = anchor.highest
          /\ Digest(t)[4] = TargetSelector(r)
      BY <1>6, <1>8, DigestFacts
    <2> QED BY <1>2, <1>3, <1>8, <2>1 DEF Commits
  <1>10. Digest(anchor) \in Digests
    BY <1>4, DigestFacts
  <1>11. /\ pc' = "plan" /\ UNCHANGED disk
         /\ call' = [op |-> "rollback", release |-> r, policy |-> anchor.policy,
                     before |-> Digest(anchor), target |-> t]
    BY DEF Rollback, Begin
  <1> HIDE DEF t
  <1>12. call' \in Calls /\ call'.op = "rollback" /\ call'.release = r /\ call'.target = t
    BY <1>1, <1>4, <1>6, <1>10, <1>11 DEF Calls
  <1>13. PlanHolds'
    BY <1>2, <1>3, <1>9, <1>11, <1>12 DEF PlanHolds, disk, TargetSelector, Commits, Distinct
  <1>14. Advances(call.target)'
    BY <1>7, <1>11, <1>12 DEF Advances, disk
  <1> QED BY <1>11, <1>12, <1>13, <1>14, PlanningKeeps

\* Where an interrupted transaction is taken up again.
LEMMA ResumeKeeps ==
  ASSUME EngineInv, Interrupted, UNCHANGED disk, pc' = ResumeAt, call' \in Calls,
         call'.release = journal.release, Advances(call.target)'
  PROVE  EngineInv'
  <1>1. /\ journal.phase \in {"planned", "staged", "selected", "retiring"}
        /\ journal.op \in {"install", "rollback"}
    BY DEF EngineInv, PackageTypeOK, Journals, Phases, Interrupted, JournalHolds
  <1>2. ResumeSelector /\ ResumeActiveLink
    BY <1>1 DEF EngineInv, PlaceHolds
  <1>3. pc' \in EngineSteps
    BY DEF ResumeAt, AfterSelect, AfterLink, AfterSelected, EngineSteps
  <1>4. StepHolds'
    <2>1. CASE journal.phase = "planned"
      <3>1. pc' = IF journal.op = "install" THEN "stage" ELSE "staged"
        BY <2>1 DEF ResumeAt
      <3> QED BY <1>1, <2>1, <3>1 DEF StepHolds, disk
    <2>2. CASE journal.phase = "staged"
      <3>1. /\ selector \in {journal.before, journal.target}
            /\ selector = journal.target \/ active = journal.before.current
        BY <1>2, <2>2 DEF ResumeSelector, ResumeActiveLink
      <3>2. pc' = IF selector # journal.target THEN "gate"
                  ELSE IF active = journal.target.current THEN "selected" ELSE "link"
        BY <2>2 DEF ResumeAt, AfterSelect, AfterLink
      <3> QED BY <2>2, <3>1, <3>2 DEF StepHolds, disk
    <2>3. CASE journal.phase \in {"selected", "retiring"}
      <3>1. selector = journal.target /\ active = journal.target.current
        BY <1>2, <2>3 DEF ResumeSelector, ResumeActiveLink
      <3>2. pc' = IF journal.retired = 0 THEN "complete"
                  ELSE IF journal.phase = "retiring" THEN "retire" ELSE "retiring"
        BY <2>3, <3>1 DEF ResumeAt, AfterSelect, AfterLink, AfterSelected
      <3> QED BY <2>3, <3>1, <3>2 DEF StepHolds, disk
    <2> QED BY <1>1, <2>1, <2>2, <2>3
  <1> QED BY <1>3, <1>4, DiskSame

\* Apply of the release an interrupted transaction was installing.
LEMMA ApplyResumeKeeps ==
  ASSUME EngineInv, NEW r \in Release, NEW p \in Policy, NEW exe \in Exe, ApplyResume(r, p, exe),
         Begin(ResumeAt,
               [op |-> "install", release |-> r, policy |-> p, before |-> Digest(anchor),
                target |-> IF Digest(anchor) = journal.anchorTarget THEN anchor
                           ELSE TargetAnchor(p, Highest(r), journal.target)])
  PROVE  EngineInv'
  <1> DEFINE t == IF Digest(anchor) = journal.anchorTarget THEN anchor
                  ELSE TargetAnchor(p, Highest(r), journal.target)
  <1>1. PackageTypeOK /\ r \in 0..MaxRelease /\ p \in 0..MaxPolicy
    BY PolicyAssumption DEF EngineInv, Release, Policy
  <1>2. Interrupted /\ journal.release = r /\ PolicyAccepted(p)
    BY DEF ApplyResume, JournalMatches, Admissible
  <1>3. anchor \in Anchors /\ journal.target \in Selectors
    BY <1>1 DEF PackageTypeOK, Journals
  <1>4. Highest(r) \in Nat /\ Highest(r) >= anchor.highest
    BY <1>1, <1>3, BuildFacts
  <1>5. TargetAnchor(p, Highest(r), journal.target) \in Anchors
    BY <1>1, <1>3, <1>4, BuildFacts
  <1>6. Advances(TargetAnchor(p, Highest(r), journal.target))
    BY <1>1, <1>2, <1>3, <1>4, BuildAdvances DEF PolicyAccepted, PolicyAtAnchor
  <1>7. Advances(anchor)
    BY DEF Advances
  <1>8. t \in Anchors /\ Advances(t)
    BY <1>3, <1>5, <1>6, <1>7
  <1>9. Digest(anchor) \in Digests
    BY <1>3, DigestFacts
  <1>10. /\ pc' = ResumeAt /\ UNCHANGED disk
         /\ call' = [op |-> "install", release |-> r, policy |-> p, before |-> Digest(anchor),
                     target |-> t]
    BY DEF Begin
  <1> HIDE DEF t
  <1>11. call' \in Calls /\ call'.release = r /\ call'.target = t
    BY <1>1, <1>8, <1>9, <1>10 DEF Calls
  <1>12. Advances(call.target)'
    BY <1>8, <1>10, <1>11 DEF Advances, disk
  <1> QED BY <1>2, <1>10, <1>11, <1>12, ResumeKeeps

\* Recover finishes what the anchor contains.
LEMMA RecoverKeeps == ASSUME EngineInv, NEW exe \in Exe, Recover(exe) PROVE EngineInv'
  <1>1. Interrupted /\ UNCHANGED disk /\ pc' = ResumeAt
        /\ call' = [op |-> journal.op, release |-> journal.release, policy |-> journal.policy,
                    before |-> journal.anchorBefore, target |-> anchor]
    BY DEF Recover, RecoverAllowed, Begin
  <1>2. anchor \in Anchors /\ journal \in Journals
    BY DEF EngineInv, PackageTypeOK
  <1>3. call' \in Calls /\ call'.release = journal.release /\ call'.target = anchor
    BY <1>1, <1>2 DEF Calls, Journals
  <1>4. Advances(call.target)'
    BY <1>1, <1>3 DEF Advances, disk
  <1> QED BY <1>1, <1>3, <1>4, ResumeKeeps

\* Apply in either form.
LEMMA ApplyKeeps ==
  ASSUME EngineInv, NEW r \in Release, NEW p \in Policy, NEW exe \in Exe, Apply(r, p, exe)
  PROVE  EngineInv'
  BY ApplyNewKeeps, ApplyResumeKeeps DEF Apply

-----------------------------------------------------------------------------
(* The steps. *)

\* Two changes of the files of one release alone: whole releases stay whole.
LEMMA OtherWhole ==
  ASSUME PackageTypeOK, NEW r, NEW x \in Release, x # r, Whole(x),
         \A y \in Release : y # r => file'[y] = file[y], \A y \in dir : y # r => y \in dir'
  PROVE  Whole(x)'
  BY DEF Whole

\* A step that moves neither selector, journal, link nor anchor.
LEMMA FilesOnly ==
  ASSUME EngineInv, UNCHANGED <<selector, journal, active, anchor, call>>,
         pc' = pc \/ (pc \in {"stage", "own"} /\ pc' \in {"stage", "own"}),
         dir' \subseteq Release, file' \in Contents, KeptWhole'
  PROVE  EngineInv'
  <1>1. PackageTypeOK'
    BY DEF EngineInv, PackageTypeOK, EngineSteps
  <1>2. JournalHolds' /\ TargetHolds'
    BY DEF EngineInv, JournalHolds, TargetHolds, Distinct, Commits
  <1>3. PlaceHolds' /\ AnchorHolds'
    BY DEF EngineInv, PlaceHolds, AnchorHolds, ResumeSelector, ResumeActiveLink
  <1>4. StepHolds'
    BY DEF EngineInv, StepHolds, PlanHolds, TargetSelector, Commits, Advances
  <1> QED BY <1>1, <1>2, <1>3, <1>4 DEF EngineInv

\* The releases that must stay are releases.
LEMMA KeptReleases == ASSUME EngineInv PROVE Kept \subseteq Release
  BY DEF EngineInv, PackageTypeOK, Journals, Selectors, Kept, Release

\* Writing into a release that is not whole takes nothing from one that is.
LEMMA StagingKeeps ==
  ASSUME EngineInv, pc = "stage", ~Whole(call.release), NEW n, NEW s \in {"none", "stage", "both", "final"},
         Put(call.release, n, s), UNCHANGED <<selector, journal, active, anchor, dir>>
  PROVE  /\ file' \in Contents /\ KeptWhole'
  <1>1. file \in Contents
    BY DEF EngineInv, PackageTypeOK
  <1>2. file' \in Contents /\ \A y \in Release : y # call.release => file'[y] = file[y]
    BY <1>1 DEF Put, Contents
  <1>3. KeptWhole'
    <2> SUFFICES ASSUME NEW x \in Kept PROVE Whole(x)'
      BY DEF KeptWhole, Kept
    <2>1. x \in Release /\ Whole(x)
      BY KeptReleases DEF EngineInv, KeptWhole
    <2>2. x # call.release
      BY <2>1
    <2> QED BY <1>2, <2>1, <2>2, OtherWhole DEF EngineInv
  <1> QED BY <1>2, <1>3

\* The steps that publish one file.
LEMMA StageStepsKeep ==
  ASSUME EngineInv, RecoverPayloadStage \/ WriteStage \/ LinkStage \/ UnlinkStage
  PROVE  EngineInv'
  <1>1. \E s \in {"none", "stage", "both", "final"} : Put(call.release, NextName(call.release), s)
    BY DEF RecoverPayloadStage, WriteStage, LinkStage, UnlinkStage
  <1>2. /\ pc = "stage" /\ ~Whole(call.release) /\ pc' = pc
        /\ UNCHANGED <<selector, journal, active, anchor, dir, call>>
    BY DEF RecoverPayloadStage, WriteStage, LinkStage, UnlinkStage, Staging, OnlyFiles
  <1>3. file' \in Contents /\ KeptWhole'
    BY <1>1, <1>2, StagingKeeps
  <1>4. dir' \subseteq Release
    BY <1>2 DEF EngineInv, PackageTypeOK
  <1> QED BY <1>2, <1>3, <1>4, FilesOnly

\* Giving a directory or a stage its group, and refusing one that never got it.
LEMMA OwnKeeps == ASSUME EngineInv, OwnDirectory \/ OwnStage \/ StageRefuses PROVE EngineInv'
  <1>1. CASE OwnDirectory \/ OwnStage
    <2>1. /\ pc' = pc \/ (pc \in {"stage", "own"} /\ pc' \in {"stage", "own"})
          /\ UNCHANGED <<selector, journal, active, anchor, call, dir, file>>
      BY <1>1 DEF OwnDirectory, OwnStage, OnlyFiles, Goto
    <2>2. dir' \subseteq Release /\ file' \in Contents
      BY <2>1 DEF EngineInv, PackageTypeOK
    <2>3. KeptWhole'
      BY <2>1 DEF EngineInv, KeptWhole, Kept, Whole
    <2> QED BY <2>1, <2>2, <2>3, FilesOnly
  <1>2. CASE StageRefuses
    BY <1>2, EndKeeps DEF StageRefuses, Return
  <1> QED BY <1>1, <1>2

\* A failed staging removes its own stage.
LEMMA StageFailsKeeps == ASSUME EngineInv, StageFails PROVE EngineInv'
  <1> DEFINE n == NextName(call.release)
             s == IF file[call.release][n] = "both" THEN "final" ELSE "none"
  <1>1. /\ pc = "stage" /\ ~Whole(call.release) /\ pc' = "idle" /\ call' = NoCall
        /\ UNCHANGED <<selector, journal, active, anchor, dir>> /\ Put(call.release, n, s)
    BY DEF StageFails, Staging, Return
  <1>2. s \in {"none", "stage", "both", "final"}
    OBVIOUS
  <1> HIDE DEF n, s
  <1>3. file' \in Contents /\ KeptWhole'
    BY <1>1, <1>2, StagingKeeps
  <1>4. call' \in Calls
    BY <1>1, PolicyAssumption DEF NoCall, Calls, NoAnchor, NoSelector, Anchors, Selectors, Digests
  <1>5. PackageTypeOK'
    BY <1>1, <1>3, <1>4 DEF EngineInv, PackageTypeOK, EngineSteps
  <1>6. JournalHolds' /\ TargetHolds'
    BY <1>1 DEF EngineInv, JournalHolds, TargetHolds, Distinct, Commits
  <1>7. PlaceHolds' /\ AnchorHolds'
    BY <1>1 DEF EngineInv, PlaceHolds, AnchorHolds, ResumeSelector, ResumeActiveLink
  <1>8. StepHolds'
    BY <1>1 DEF StepHolds
  <1> QED BY <1>3, <1>5, <1>6, <1>7, <1>8 DEF EngineInv

\* A new directory, and what retirement removes.
LEMMA MakeDirectoryKeeps == ASSUME EngineInv, MakeDirectory PROVE EngineInv'
  <1>1. /\ pc = "stage" /\ pc' = "own" /\ dir' = dir \cup {call.release}
        /\ UNCHANGED <<selector, journal, active, anchor, call, file>>
    BY DEF MakeDirectory, Goto
  <1>2. call.release \in Release
    BY <1>1 DEF EngineInv, StepHolds, JournalHolds
  <1>3. dir' \subseteq Release /\ file' \in Contents
    BY <1>1, <1>2 DEF EngineInv, PackageTypeOK
  <1>4. KeptWhole'
    BY <1>1 DEF EngineInv, KeptWhole, Kept, Whole
  <1> QED BY <1>1, <1>3, <1>4, FilesOnly

\* What is being retired is not kept.
LEMMA RetiredFacts ==
  ASSUME EngineInv, pc = "retire"
  PROVE  journal.retired \notin Kept /\ journal.phase = "retiring"
  <1>1. journal.phase = "retiring" /\ journal.retired # 0
    BY DEF EngineInv, StepHolds
  <1>2. /\ journal.op = "install" /\ journal.retired = journal.before.previous
        /\ journal.release # journal.before.previous /\ Distinct(journal.before)
    BY <1>1 DEF EngineInv, JournalHolds
  <1> QED BY <1>1, <1>2 DEF Kept, Distinct

\* Retiring the files and the directory of the release that is not kept.
LEMMA RetireKeeps == ASSUME EngineInv, RetireFile \/ RetireDirectory PROVE EngineInv'
  <1> DEFINE r == journal.retired
  <1>1. /\ pc = "retire" /\ pc' = pc
        /\ UNCHANGED <<selector, journal, active, anchor, call>>
        /\ dir' \subseteq Release /\ file' \in Contents
        /\ \A y \in Release : y # r => file'[y] = file[y]
        /\ \A y \in dir : y # r => y \in dir'
    <2>1. file \in Contents /\ dir \subseteq Release
      BY DEF EngineInv, PackageTypeOK
    <2>2. CASE RetireFile
      <3>1. PICK n : Put(r, n, "none")
        BY <2>2 DEF RetireFile
      <3>2. file' \in Contents /\ \A y \in Release : y # r => file'[y] = file[y]
        BY <2>1, <3>1 DEF Put, Contents
      <3> QED BY <2>1, <2>2, <3>2 DEF RetireFile, OnlyFiles
    <2>3. CASE RetireDirectory
      BY <2>1, <2>3 DEF RetireDirectory, Goto
    <2> QED BY <2>2, <2>3
  <1>2. r \notin Kept /\ journal.phase = "retiring"
    BY <1>1, RetiredFacts
  <1>3. KeptWhole'
    <2> SUFFICES ASSUME NEW x \in Kept PROVE Whole(x)'
      BY <1>1 DEF KeptWhole, Kept
    <2>1. x \in Release /\ Whole(x) /\ x # r
      BY <1>2, KeptReleases DEF EngineInv, KeptWhole
    <2> HIDE DEF r
    <2> QED BY <1>1, <2>1, OtherWhole DEF EngineInv
  <1> QED BY <1>1, <1>3, FilesOnly

\* The planned record.
LEMMA PlanKeeps == ASSUME EngineInv, Plan PROVE EngineInv'
  <1>1. /\ pc = "plan" /\ UNCHANGED <<selector, active, anchor, dir, file, call>>
        /\ journal' = [phase |-> "planned", op |-> call.op, release |-> call.release,
                       policy |-> call.policy, before |-> selector,
                       target |-> TargetSelector(call.release),
                       retired |-> IF call.op = "install" THEN selector.previous ELSE 0,
                       anchorBefore |-> call.before, anchorTarget |-> Digest(call.target)]
        /\ pc' = IF call.op = "install" THEN "stage" ELSE "staged"
    BY DEF Plan, Goto
  <1>2. PackageTypeOK /\ PlanHolds /\ Advances(call.target)
    BY <1>1 DEF EngineInv, StepHolds
  <1>3. selector \in Selectors /\ call \in Calls /\ anchor \in Anchors
    BY <1>2 DEF PackageTypeOK
  <1>4. TargetSelector(call.release) \in Selectors
    <2>1. call.release \in 0..MaxRelease /\ 0 \in 0..MaxPolicy /\ 0 \in Nat
      BY <1>3, PolicyAssumption DEF Calls
    <2> QED BY <1>2, <1>3, <2>1, BuildFacts
  <1>5. Digest(call.target) \in Digests
    BY <1>3, DigestFacts DEF Calls
  <1>6. journal' \in Journals
    <2>1. /\ call.release \in 0..MaxRelease /\ call.policy \in 0..MaxPolicy
          /\ call.op \in {"none", "install", "rollback"} /\ call.before \in Digests
          /\ (IF call.op = "install" THEN selector.previous ELSE 0) \in 0..MaxRelease
      BY <1>3, PolicyAssumption DEF Calls, Selectors
    <2> QED BY <1>1, <1>3, <1>4, <1>5, <2>1 DEF Journals, Phases
  <1>7. PackageTypeOK'
    BY <1>1, <1>2, <1>6 DEF PackageTypeOK, EngineSteps
  <1>8. /\ journal'.phase = "planned" /\ journal'.op = call.op /\ journal'.release = call.release
        /\ journal'.before = selector /\ journal'.target = TargetSelector(call.release)
        /\ journal'.retired = IF call.op = "install" THEN selector.previous ELSE 0
        /\ journal'.anchorTarget = Digest(call.target)
    BY <1>1
  <1>9. Distinct(selector)
    <2>1. CASE journal.phase = "none"
      BY <2>1 DEF EngineInv, PlaceHolds, NoSelector, Distinct
    <2>2. CASE journal.phase = "complete"
      BY <2>2 DEF EngineInv, PlaceHolds, ResumeSelector, JournalHolds, Distinct
    <2> QED BY <1>2, <2>1, <2>2 DEF PlanHolds
  <1>10. JournalHolds'
    BY <1>2, <1>8, <1>9 DEF PlanHolds, JournalHolds, TargetSelector, Distinct
  <1>11. TargetHolds'
    BY <1>2, <1>8 DEF PlanHolds, TargetHolds, Commits
  <1>12. active = selector.current
    BY <1>2 DEF PlanHolds, EngineInv, PlaceHolds, ResumeSelector, ResumeActiveLink, NoSelector
  <1>13. PlaceHolds'
    BY <1>1, <1>8, <1>12 DEF EngineInv, PlaceHolds, ResumeSelector, ResumeActiveLink
  <1>14. AnchorHolds'
    BY <1>1 DEF EngineInv, AnchorHolds
  <1>15. KeptWhole'
    <2>1. \A r \in {selector.current, selector.previous} \ {0} : Whole(r)
      <3>1. CASE journal.phase = "none"
        BY <3>1 DEF EngineInv, PlaceHolds, NoSelector
      <3>2. CASE journal.phase = "complete"
        <4>1. selector.current = journal.release /\ selector.previous = journal.before.current
          BY <3>2 DEF EngineInv, PlaceHolds, ResumeSelector, JournalHolds
        <4> QED BY <3>2, <4>1 DEF EngineInv, KeptWhole, Kept
      <3> QED BY <1>2, <3>1, <3>2 DEF PlanHolds
    <2>2. Kept' \subseteq {selector.current, selector.previous} \ {0}
      BY <1>8 DEF Kept
    <2> QED BY <1>1, <2>1, <2>2 DEF KeptWhole, Whole
  <1>16. StepHolds'
    BY <1>1, <1>2, <1>8 DEF StepHolds, Advances, PlanHolds
  <1> QED BY <1>7, <1>10, <1>11, <1>13, <1>14, <1>15, <1>16 DEF EngineInv

\* The journal enters a phase, and the call goes on or ends.
LEMMA PhaseKeeps ==
  ASSUME EngineInv, NEW ph \in Phases \ {"none"}, journal.phase # "none", SetPhase(ph),
         pc' \in EngineSteps, call' \in Calls,
         KeptWhole', ResumeSelector', ResumeActiveLink', StepHolds'
  PROVE  EngineInv'
  <1>1. journal \in Journals /\ PackageTypeOK
    BY DEF EngineInv, PackageTypeOK
  <1>2. journal' = [journal EXCEPT !.phase = ph] /\ UNCHANGED <<selector, active, anchor, dir, file>>
    BY DEF SetPhase
  <1>3. journal' \in Journals
    BY <1>1, <1>2 DEF Journals
  <1>4. /\ journal'.phase = ph /\ journal'.op = journal.op /\ journal'.release = journal.release
        /\ journal'.before = journal.before /\ journal'.target = journal.target
        /\ journal'.retired = journal.retired /\ journal'.anchorTarget = journal.anchorTarget
    BY <1>1, <1>2 DEF Journals
  <1>5. PackageTypeOK'
    BY <1>1, <1>2, <1>3 DEF PackageTypeOK
  <1>6. JournalHolds' /\ TargetHolds'
    BY <1>4 DEF EngineInv, JournalHolds, TargetHolds, Distinct, Commits
  <1>7. PlaceHolds' /\ AnchorHolds'
    BY <1>2, <1>4 DEF EngineInv, PlaceHolds, AnchorHolds
  <1> QED BY <1>5, <1>6, <1>7 DEF EngineInv

\* The fields of the journal that a change of phase leaves alone.
LEMMA PhaseFacts ==
  ASSUME EngineInv, NEW ph, SetPhase(ph)
  PROVE  /\ journal'.phase = ph /\ journal'.op = journal.op /\ journal'.release = journal.release
         /\ journal'.before = journal.before /\ journal'.target = journal.target
         /\ journal'.retired = journal.retired /\ journal'.anchorTarget = journal.anchorTarget
         /\ UNCHANGED <<selector, active, anchor, dir, file>>
  BY DEF EngineInv, PackageTypeOK, SetPhase, Journals

\* The journal says staged once the release is whole.
LEMMA JournalStagedKeeps == ASSUME EngineInv, JournalStaged PROVE EngineInv'
  <1>1. /\ pc \in {"stage", "staged"} /\ SetPhase("staged") /\ pc' = "gate" /\ UNCHANGED call
    BY DEF JournalStaged, Goto
  <1>2. journal.phase = "planned"
    BY <1>1 DEF EngineInv, StepHolds
  <1>3. /\ journal'.phase = "staged" /\ journal'.op = journal.op /\ journal'.release = journal.release
        /\ journal'.before = journal.before /\ journal'.target = journal.target
        /\ UNCHANGED <<selector, active, anchor, dir, file>>
    BY <1>1, PhaseFacts
  <1>4. selector = journal.before /\ active = journal.before.current
    BY <1>2 DEF EngineInv, PlaceHolds, ResumeSelector, ResumeActiveLink
  <1>5. ResumeSelector' /\ ResumeActiveLink'
    BY <1>3, <1>4 DEF ResumeSelector, ResumeActiveLink
  <1>6. Whole(journal.release)
    <2>1. CASE pc = "stage"
      BY <2>1 DEF JournalStaged, EngineInv, StepHolds
    <2>2. CASE pc = "staged"
      <3>1. journal.release = journal.before.previous /\ journal.release # 0
        BY <1>2, <2>2 DEF EngineInv, StepHolds, JournalHolds, Release
      <3> QED BY <1>2, <3>1 DEF EngineInv, KeptWhole, Kept
    <2> QED BY <1>1, <2>1, <2>2
  <1>7. KeptWhole'
    <2>1. Kept' \subseteq Kept \cup {journal.release}
      BY <1>2, <1>3 DEF Kept
    <2>2. \A r \in Kept : Whole(r)
      BY DEF EngineInv, KeptWhole
    <2> QED BY <1>3, <1>6, <2>1, <2>2 DEF KeptWhole, Whole
  <1>8. StepHolds'
    <2>1. Advances(call.target)
      BY <1>1 DEF EngineInv, StepHolds
    <2> QED BY <1>1, <1>3, <1>4, <2>1 DEF StepHolds, Advances
  <1>9. pc' \in EngineSteps /\ call' \in Calls /\ "staged" \in Phases \ {"none"}
    BY <1>1 DEF EngineInv, PackageTypeOK, EngineSteps, Phases
  <1> QED BY <1>1, <1>2, <1>5, <1>7, <1>8, <1>9, PhaseKeeps

\* The gate commits exactly the selection of the journal.
LEMMA AnchorGateKeeps == ASSUME EngineInv, AnchorGate PROVE EngineInv'
  <1>1. CASE GateRefuses
    <2>1. UNCHANGED disk /\ pc' = "idle" /\ call' = NoCall
      BY <1>1 DEF AnchorGate, Return
    <2> QED BY <2>1, EndKeeps
  <1>2. CASE ~GateRefuses
    <2>1. /\ pc = "gate" /\ pc' = "select" /\ UNCHANGED <<selector, journal, active, dir, file, call>>
          /\ anchor' = IF Digest(anchor) = journal.anchorTarget THEN anchor ELSE call.target
          /\ journal.anchorTarget = Digest(call.target)
      BY <1>2 DEF AnchorGate, Goto, GateRefuses
    <2>2. /\ journal.phase = "staged" /\ selector = journal.before /\ Advances(call.target)
          /\ call \in Calls /\ anchor \in Anchors /\ call.target \in Anchors
      BY <2>1 DEF EngineInv, StepHolds, PackageTypeOK, Calls
    <2>3. anchor' \in Anchors /\ Digest(anchor') = journal.anchorTarget
      BY <2>1, <2>2
    <2>4. PackageTypeOK'
      BY <2>1, <2>3 DEF EngineInv, PackageTypeOK, EngineSteps
    <2>5. JournalHolds' /\ TargetHolds'
      BY <2>1 DEF EngineInv, JournalHolds, TargetHolds, Distinct, Commits
    <2>6. PlaceHolds'
      BY <2>1 DEF EngineInv, PlaceHolds, ResumeSelector, ResumeActiveLink
    <2>7. AnchorHolds'
      <3>1. anchor'.gen = 0 => anchor' = NoAnchor
        <4>1. anchor.gen \in Nat
          BY <2>2 DEF Anchors
        <4> QED BY <2>1, <2>2, <4>1 DEF EngineInv, AnchorHolds, Advances
      <3>2. /\ Digest(anchor')[3] = anchor'.highest /\ Digest(anchor')[4] = anchor'.selection
        BY <2>3, DigestFacts
      <3>3. Commits(journal.anchorTarget, journal.target)
        BY <2>2 DEF EngineInv, TargetHolds
      <3> QED BY <2>3, <3>1, <3>2, <3>3 DEF AnchorHolds, Commits
    <2>8. KeptWhole'
      BY <2>1 DEF EngineInv, KeptWhole, Kept, Whole
    <2>9. StepHolds'
      <3>1. Digest(anchor)' = journal'.anchorTarget
        BY <2>1, <2>3 DEF Digest
      <3> QED BY <2>1, <2>2, <3>1 DEF StepHolds
    <2> QED BY <2>4, <2>5, <2>6, <2>7, <2>8, <2>9 DEF EngineInv
  <1> QED BY <1>1, <1>2

\* What follows the selector and the link.
LEMMA MovedKeeps ==
  ASSUME EngineInv, journal.phase = "staged", UNCHANGED <<journal, anchor, dir, file, call>>,
         selector' = journal.target,
         \/ active' = active /\ active = journal.before.current /\ pc' \in {"link", "selected"}
            /\ (pc' = "selected" => active = journal.target.current)
         \/ active' = journal.target.current /\ pc' = "selected"
  PROVE  EngineInv'
  <1>1. PackageTypeOK
    BY DEF EngineInv
  <1>2. journal.target \in Selectors
    BY <1>1 DEF PackageTypeOK, Journals
  <1>3. PackageTypeOK'
    BY <1>1, <1>2 DEF PackageTypeOK, EngineSteps, Selectors
  <1>4. JournalHolds' /\ TargetHolds'
    BY DEF EngineInv, JournalHolds, TargetHolds, Distinct, Commits
  <1>5. PlaceHolds'
    <2>1. selector'.gen # 0
      <3>1. journal.before.gen \in Nat
        BY <1>1 DEF PackageTypeOK, Journals, Selectors
      <3> QED BY <3>1 DEF EngineInv, JournalHolds
    <2> QED BY <2>1 DEF PlaceHolds, ResumeSelector, ResumeActiveLink
  <1>6. AnchorHolds' /\ KeptWhole'
    BY DEF EngineInv, AnchorHolds, KeptWhole, Kept, Whole
  <1>7. StepHolds'
    BY DEF StepHolds
  <1> QED BY <1>3, <1>4, <1>5, <1>6, <1>7 DEF EngineInv

\* The selector is replaced by the one the journal names.
LEMMA ReplaceSelectorKeeps == ASSUME EngineInv, ReplaceSelector PROVE EngineInv'
  <1>1. /\ pc = "select" /\ selector' = journal.target /\ pc' = AfterSelect
        /\ UNCHANGED <<journal, active, anchor, dir, file, call>>
    BY DEF ReplaceSelector, Goto
  <1>2. journal.phase = "staged" /\ selector = journal.before
    BY <1>1 DEF EngineInv, StepHolds
  <1>3. active = journal.before.current
    <2>1. journal.before # journal.target
      <3>1. journal.before.gen \in Nat
        BY DEF EngineInv, PackageTypeOK, Journals, Selectors
      <3>2. journal.target.gen = journal.before.gen + 1
        BY <1>2 DEF EngineInv, JournalHolds
      <3> QED BY <3>1, <3>2
    <2> QED BY <1>2, <2>1 DEF EngineInv, PlaceHolds, ResumeActiveLink
  <1>4. pc' = IF active = journal.target.current THEN "selected" ELSE "link"
    BY <1>1, <1>2 DEF AfterSelect, AfterLink
  <1> QED BY <1>1, <1>2, <1>3, <1>4, MovedKeeps

\* The link follows the selector.
LEMMA ReplaceActiveLinkKeeps == ASSUME EngineInv, ReplaceActiveLink PROVE EngineInv'
  <1>1. /\ pc = "link" /\ active' = journal.target.current /\ pc' = AfterLink
        /\ UNCHANGED <<selector, journal, anchor, dir, file, call>>
    BY DEF ReplaceActiveLink, Goto
  <1>2. journal.phase = "staged" /\ selector' = journal.target
    BY <1>1 DEF EngineInv, StepHolds
  <1>3. pc' = "selected"
    BY <1>1, <1>2 DEF AfterLink
  <1> QED BY <1>1, <1>2, <1>3, MovedKeeps

\* The later phases: the selector and the link are at the target, and no more is kept.
LEMMA LaterKeeps ==
  ASSUME EngineInv, NEW ph \in {"selected", "retiring", "complete"}, SetPhase(ph),
         journal.phase \in {"staged", "selected", "retiring"}, selector = journal.target,
         active = journal.target.current, ph = "selected" => journal.phase = "staged",
         pc' \in EngineSteps, call' \in Calls, StepHolds'
  PROVE  EngineInv'
  <1>1. /\ journal'.phase = ph /\ journal'.release = journal.release
        /\ journal'.before = journal.before /\ journal'.target = journal.target
        /\ UNCHANGED <<selector, active, dir, file>>
    BY PhaseFacts
  <1>2. ResumeSelector' /\ ResumeActiveLink'
    BY <1>1 DEF ResumeSelector, ResumeActiveLink
  <1>3. KeptWhole'
    <2>1. Kept' \subseteq Kept
      BY <1>1 DEF Kept
    <2> QED BY <1>1, <2>1 DEF EngineInv, KeptWhole, Whole
  <1>4. ph \in Phases \ {"none"}
    BY DEF Phases
  <1> QED BY <1>2, <1>3, <1>4, PhaseKeeps

\* Where the later steps find the selector and the link.
LEMMA LaterFacts ==
  ASSUME EngineInv, pc \in {"selected", "retiring", "retire", "complete"}
  PROVE  /\ journal.phase \in {"staged", "selected", "retiring"}
         /\ selector = journal.target /\ active = journal.target.current
         /\ pc = "selected" => journal.phase = "staged"
         /\ pc = "retiring" => journal.phase = "selected" /\ journal.retired # 0
         /\ pc \in {"retire", "complete"} => journal.phase \in {"selected", "retiring"}
  BY DEF EngineInv, StepHolds, PlaceHolds, ResumeSelector, ResumeActiveLink

\* The last journal phases: selected, retiring and complete.
LEMMA LaterStepsKeep ==
  ASSUME EngineInv, JournalSelected \/ JournalRetiring \/ JournalComplete
  PROVE  EngineInv'
  <1>1. call \in Calls /\ NoCall \in Calls
    BY PolicyAssumption
    DEF EngineInv, PackageTypeOK, NoCall, Calls, NoAnchor, NoSelector, Anchors, Selectors, Digests
  <1>2. CASE JournalSelected
    <2>1. pc = "selected" /\ SetPhase("selected") /\ pc' = AfterSelected /\ call' = call
      BY <1>2 DEF JournalSelected, Goto
    <2>2. /\ journal.phase = "staged" /\ selector = journal.target /\ active = journal.target.current
      BY <2>1, LaterFacts
    <2>3. pc' = IF journal.retired = 0 THEN "complete" ELSE "retiring"
      BY <2>1, <2>2 DEF AfterSelected
    <2>4. journal'.phase = "selected" /\ journal'.retired = journal.retired
      BY <2>1, PhaseFacts
    <2>5. StepHolds' /\ pc' \in EngineSteps
      BY <2>3, <2>4 DEF StepHolds, EngineSteps
    <2> QED BY <1>1, <2>1, <2>2, <2>5, LaterKeeps
  <1>3. CASE JournalRetiring
    <2>1. pc = "retiring" /\ SetPhase("retiring") /\ pc' = "retire" /\ call' = call
      BY <1>3 DEF JournalRetiring, Goto
    <2>2. /\ journal.phase = "selected" /\ selector = journal.target /\ active = journal.target.current
          /\ journal.retired # 0
      BY <2>1, LaterFacts
    <2>4. journal'.phase = "retiring" /\ journal'.retired = journal.retired
      BY <2>1, PhaseFacts
    <2>5. StepHolds' /\ pc' \in EngineSteps
      BY <2>1, <2>2, <2>4 DEF StepHolds, EngineSteps
    <2> QED BY <1>1, <2>1, <2>2, <2>5, LaterKeeps
  <1>4. CASE JournalComplete
    <2>1. pc \in {"complete", "retire"} /\ SetPhase("complete") /\ pc' = "idle" /\ call' = NoCall
      BY <1>4 DEF JournalComplete, Return
    <2>2. /\ journal.phase \in {"selected", "retiring"} /\ selector = journal.target
          /\ active = journal.target.current
      BY <2>1, LaterFacts
    <2>3. StepHolds' /\ pc' \in EngineSteps
      BY <2>1 DEF StepHolds, EngineSteps
    <2> QED BY <1>1, <2>1, <2>2, <2>3, LaterKeeps
  <1> QED BY <1>2, <1>3, <1>4

\* Every step of a running operation.
LEMMA StepKeeps == ASSUME EngineInv, Step PROVE EngineInv'
  BY PlanKeeps, MakeDirectoryKeeps, OwnKeeps, StageStepsKeep, JournalStagedKeeps, AnchorGateKeeps,
     ReplaceSelectorKeeps, ReplaceActiveLinkKeeps, LaterStepsKeep, RetireKeeps DEF Step

\* An operation that ends in an error.
LEMMA FailKeeps == ASSUME EngineInv, StageFails \/ Interrupt PROVE EngineInv'
  <1>1. CASE StageFails
    BY <1>1, StageFailsKeeps
  <1>2. CASE Interrupt
    BY <1>2, EndKeeps DEF Interrupt, Return
  <1> QED BY <1>1, <1>2

\* An empty disk.
LEMMA EngineStarts == Init => EngineInv
  <1> SUFFICES ASSUME Init PROVE EngineInv
    OBVIOUS
  <1> USE DEF Init
  <1>1. NoSelector \in Selectors /\ <<>> \in Digests /\ 0 \in 0..MaxRelease /\ 0 \in 0..MaxPolicy
    BY PolicyAssumption DEF NoSelector, Selectors, Digests
  <1>2. NoAnchor \in Anchors
    BY <1>1 DEF NoAnchor, Anchors
  <1>3. NoJournal \in Journals /\ NoCall \in Calls
    BY <1>1, <1>2 DEF NoJournal, NoCall, Journals, Calls, Phases
  <1>4. PackageTypeOK
    BY <1>1, <1>2, <1>3 DEF PackageTypeOK, Contents, EngineSteps
  <1>5. journal.phase = "none" /\ journal.before = NoSelector /\ journal.release = 0
    BY DEF NoJournal
  <1>6. JournalHolds /\ TargetHolds /\ PlaceHolds
    BY <1>5 DEF JournalHolds, TargetHolds, PlaceHolds
  <1>7. AnchorHolds
    BY DEF AnchorHolds, NoAnchor, NoSelector
  <1>8. KeptWhole
    BY <1>5 DEF KeptWhole, Kept, NoSelector
  <1>9. StepHolds
    BY DEF StepHolds
  <1> QED BY <1>4, <1>6, <1>7, <1>8, <1>9 DEF EngineInv

-----------------------------------------------------------------------------
(* The supervisor around an operation. *)

SupervisedInv == SupervisorHolds /\ RunsComplete /\ RestartObligation

\* A step of the supervisor or of systemd that leaves the engine and its disk alone.
LEMMA EngineRests == ASSUME EngineInv, UNCHANGED <<disk, pc, call>> PROVE EngineInv'
  <1>1. pc' \in EngineSteps /\ call' \in Calls
    BY DEF EngineInv, PackageTypeOK
  <1>2. StepHolds'
    BY DEF EngineInv, StepHolds, PlanHolds, TargetSelector, Commits, Advances, disk
  <1> QED BY <1>1, <1>2, DiskSame

\* An operation that succeeds has completed its journal.
LEMMA EndsComplete ==
  ASSUME EngineInv, Step, pc' = "idle", outcome' = "ok"
  PROVE  journal'.phase = "complete"
  <1>1. CASE JournalComplete
    BY <1>1, PhaseFacts DEF JournalComplete
  <1>2. CASE AnchorGate \/ StageRefuses
    BY <1>2 DEF AnchorGate, StageRefuses, Return, Goto
  <1>3. CASE \/ RecoverPayloadStage \/ WriteStage \/ OwnStage \/ LinkStage \/ UnlinkStage
             \/ RetireFile
    BY <1>3 DEF RecoverPayloadStage, WriteStage, OwnStage, LinkStage, UnlinkStage, RetireFile, Staging
  <1>4. CASE Plan \/ MakeDirectory \/ OwnDirectory \/ JournalStaged \/ ReplaceSelector \/ ReplaceActiveLink
             \/ JournalSelected \/ JournalRetiring \/ RetireDirectory
    BY <1>4 DEF Plan, MakeDirectory, OwnDirectory, JournalStaged, ReplaceSelector, ReplaceActiveLink,
                JournalSelected, JournalRetiring, RetireDirectory, Goto, AfterSelect, AfterLink,
                AfterSelected
  <1> QED BY <1>1, <1>2, <1>3, <1>4 DEF Step

\* An operation that starts is running.
LEMMA BeginsRunning ==
  ASSUME NEW r, NEW p, NEW exe, Apply(r, p, exe) \/ Rollback(r, exe) \/ Recover(exe)
  PROVE  pc' # "idle" /\ UNCHANGED disk
  BY DEF Apply, Rollback, Recover, Begin, ResumeAt, AfterSelect, AfterLink, AfterSelected

\* The steps of the supervisor between operations.
LEMMA SupervisorKeeps ==
  ASSUME SupervisedInv, UNCHANGED <<journal, active, pc>>,
         \/ \E j \in Job : Run(j)
         \/ ReadRecord \/ WriteIntent \/ TearIntent \/ StopUnit \/ Check \/ Settle \/ StartUnit
         \/ RemoveRecord \/ SupervisorFails
  PROVE  SupervisedInv'
  <1>0. /\ SupervisorHolds /\ RunsComplete /\ RestartObligation
        /\ Interrupted' = Interrupted
    BY DEF SupervisedInv, Interrupted
  <1> USE <1>0 DEF SupervisorHolds, RunsComplete, RestartObligation, SupervisedInv, systemd, Active,
                   Exit
  <1>1. CASE \E j \in Job : Run(j)
    BY <1>1 DEF Run
  <1>2. CASE ReadRecord
    BY <1>2 DEF ReadRecord
  <1>3. CASE WriteIntent
    BY <1>3 DEF WriteIntent
  <1>4. CASE TearIntent
    BY <1>4 DEF TearIntent
  <1>5. CASE StopUnit
    BY <1>5 DEF StopUnit, Off
  <1>6. CASE Check
    BY <1>6 DEF Check
  <1>7. CASE Settle
    BY <1>7 DEF Settle
  <1>8. CASE StartUnit
    BY <1>8 DEF StartUnit
  <1>9. CASE RemoveRecord
    BY <1>9 DEF RemoveRecord
  <1>10. CASE SupervisorFails
    BY <1>10 DEF SupervisorFails
  <1> QED BY <1>1, <1>2, <1>3, <1>4, <1>5, <1>6, <1>7, <1>8, <1>9, <1>10

\* systemd's own: no start begins under the intent, and one that runs runs what is linked.
LEMMA SystemdKeeps ==
  ASSUME SupervisedInv, UNCHANGED <<journal, active, pc>>,
         UnitBegins \/ UnitRuns \/ UnitEnds \/ UnitGone
  PROVE  SupervisedInv'
  <1>0. /\ SupervisorHolds /\ RunsComplete /\ RestartObligation
        /\ Interrupted' = Interrupted
    BY DEF SupervisedInv, Interrupted
  <1> USE <1>0 DEF SupervisorHolds, RunsComplete, RestartObligation, SupervisedInv
  <1>1. CASE UnitBegins
    BY <1>1 DEF UnitBegins
  <1>2. CASE UnitRuns
    BY <1>2 DEF UnitRuns
  <1>3. CASE UnitEnds
    BY <1>3 DEF UnitEnds
  <1>4. CASE UnitGone
    BY <1>4 DEF UnitGone, Off
  <1> QED BY <1>1, <1>2, <1>3, <1>4

\* The operation itself: the intent is on disk throughout, and the unit is down or slipped by.
LEMMA OperationKeeps ==
  ASSUME EngineInv, SupervisedInv, Operate \/ Engine \/ EngineFails
  PROVE  EngineInv' /\ SupervisedInv'
  <1>1. /\ spc \in {"operate", "engine"} /\ record = "intent" /\ (phase = "off" \/ slipped)
        /\ UNCHANGED <<record, keep, phase, unit, slipped, owed>>
        /\ seen' \in BOOLEAN
        /\ (spc' # "idle" => job' = job)
    BY DEF SupervisedInv, SupervisorHolds, Operate, Engine, EngineFails, systemd, Exit
  <1>2. EngineInv' /\ spc' \in {"idle", "engine", "settle"} /\ (pc' # "idle" <=> spc' = "engine")
        /\ (spc' = "settle" => ~Interrupted')
    <2>1. CASE Operate /\ InPlace(job) /\ Nothing /\ spc' = "settle"
      <3>1. ~Interrupted /\ UNCHANGED <<disk, pc, call>> /\ pc = "idle"
        BY <2>1 DEF InPlace, ApplyAgain, RecoverNothing, Interrupted, Nothing
      <3> QED BY <2>1, <3>1, EngineRests DEF Interrupted, disk
    <2>2. CASE Operate /\ spc' = "engine"
               /\ \/ job.kind = "apply" /\ Apply(job.release, job.policy, job.exe)
                  \/ job.kind = "rollback" /\ Rollback(job.release, job.exe)
                  \/ job.kind = "recover" /\ Recover(job.exe)
      <3>1. pc' # "idle"
        BY <2>2, BeginsRunning
      <3>2. job \in Job
        BY <1>1 DEF SupervisedInv, SupervisorHolds
      <3>3. EngineInv'
        BY <2>2, <3>2, ApplyKeeps, RollbackKeeps, RecoverKeeps DEF Job
      <3> QED BY <2>2, <3>1, <3>3
    <2>3. CASE Engine
      <3>1. EngineInv'
        BY <2>3, StepKeeps DEF Engine
      <3>2. spc' = IF pc' = "idle" THEN IF outcome' = "ok" THEN "settle" ELSE "idle" ELSE "engine"
        BY <2>3 DEF Engine, Exit
      <3>3. spc' = "settle" => journal'.phase = "complete"
        BY <2>3, <3>2, EndsComplete DEF Engine
      <3> QED BY <3>1, <3>2, <3>3 DEF Interrupted
    <2>4. CASE EngineFails
      <3>1. EngineInv' /\ spc' = "idle" /\ pc' = "idle"
        BY <2>4, FailKeeps DEF EngineFails, StageFails, Interrupt, Return, Exit
      <3> QED BY <3>1
    <2> QED BY <2>1, <2>2, <2>3, <2>4 DEF Operate
  <1>3. SupervisedInv'
    BY <1>1, <1>2 DEF SupervisedInv, SupervisorHolds, RunsComplete, RestartObligation
  <1> QED BY <1>2, <1>3

\* Every step of supervisor and engine keeps the invariant.
LEMMA PackageKeeps == PackageInv /\ [SupervisedNext]_allVars => PackageInv'
  <1> SUFFICES ASSUME PackageInv, [SupervisedNext]_allVars PROVE PackageInv'
    OBVIOUS
  <1>0. EngineInv /\ SupervisedInv
    BY DEF PackageInv, SupervisedInv
  <1>1. CASE \/ \E j \in Job : Run(j)
             \/ ReadRecord \/ WriteIntent \/ TearIntent \/ StopUnit \/ Check \/ Settle \/ StartUnit
             \/ RemoveRecord \/ SupervisorFails
             \/ UnitBegins \/ UnitRuns \/ UnitEnds \/ UnitGone
    <2>1. UNCHANGED <<disk, pc, call>>
      BY <1>1 DEF Run, ReadRecord, WriteIntent, TearIntent, StopUnit, Check, Settle, StartUnit,
                  RemoveRecord, SupervisorFails, UnitBegins, UnitRuns, UnitEnds, UnitGone, vars
    <2>2. EngineInv'
      BY <1>0, <2>1, EngineRests
    <2>3. SupervisedInv'
      BY <1>0, <1>1, <2>1, SupervisorKeeps, SystemdKeeps DEF disk
    <2> QED BY <2>2, <2>3 DEF PackageInv, SupervisedInv
  <1>2. CASE Operate \/ Engine \/ EngineFails
    BY <1>0, <1>2, OperationKeeps DEF PackageInv, SupervisedInv
  <1>3. CASE UNCHANGED allVars
    <2>1. UNCHANGED <<disk, pc, call>> /\ UNCHANGED supervisor
      BY <1>3 DEF allVars, vars
    <2>2. EngineInv'
      BY <1>0, <2>1, EngineRests
    <2>3. SupervisedInv'
      BY <1>0, <2>1
      DEF SupervisedInv, SupervisorHolds, RunsComplete, RestartObligation, supervisor, systemd, disk,
          Interrupted
    <2> QED BY <2>2, <2>3 DEF PackageInv, SupervisedInv
  <1> QED BY <1>1, <1>2, <1>3 DEF SupervisedNext, Proceed

\* The machine starts without a package.
LEMMA PackageStarts == SupervisedInit => PackageInv
  <1> SUFFICES ASSUME SupervisedInit PROVE PackageInv
    OBVIOUS
  <1>1. EngineInv /\ ~Interrupted /\ pc = "idle"
    BY EngineStarts DEF SupervisedInit, Init, NoJournal, Interrupted
  <1>2. SupervisorHolds /\ RunsComplete /\ RestartObligation
    BY <1>1 DEF SupervisedInit, SupervisorHolds, RunsComplete, RestartObligation
  <1> QED BY <1>1, <1>2 DEF PackageInv

\* The releases of the selector and of the link are among those kept.
LEMMA KeptEndpoints == ASSUME EngineInv PROVE EndpointsWhole
  <1>1. CASE journal.phase = "none"
    BY <1>1 DEF EngineInv, PlaceHolds, NoSelector, EndpointsWhole
  <1>2. CASE journal.phase # "none"
    <2>1. /\ journal.target.current = journal.release
          /\ journal.target.previous = journal.before.current
      BY <1>2 DEF EngineInv, JournalHolds
    <2>2. ResumeSelector /\ ResumeActiveLink
      BY <1>2 DEF EngineInv, PlaceHolds
    <2>3. journal.phase \in Phases
      BY DEF EngineInv, PackageTypeOK, Journals
    <2>4. {active, selector.current, selector.previous} \ {0} \subseteq Kept
      <3>1. CASE journal.phase = "planned"
        BY <2>2, <3>1 DEF ResumeSelector, ResumeActiveLink, Kept
      <3>2. CASE journal.phase = "staged"
        BY <2>1, <2>2, <3>2 DEF ResumeSelector, ResumeActiveLink, Kept
      <3>3. CASE journal.phase \in {"selected", "retiring", "complete"}
        BY <2>1, <2>2, <3>3 DEF ResumeSelector, ResumeActiveLink, Kept
      <3> QED BY <1>2, <2>3, <3>1, <3>2, <3>3 DEF Phases
    <2> QED BY <2>4 DEF EngineInv, KeptWhole, EndpointsWhole
  <1> QED BY <1>1, <1>2

-----------------------------------------------------------------------------
(* The invariant holds on every host: the transaction engine and its supervisor. *)
THEOREM PackageInductive == SupervisedSpec => []PackageInv
  BY PackageStarts, PackageKeeps, PTL DEF SupervisedSpec

(* RoleServed for any releases, policies, files and interruptions: whatever     *)
(* the moment the engine, the supervisor or systemd stops, the releases that    *)
(* run or may be rolled back to are whole, the unit runs a complete one, and    *)
(* the restart that is owed is on disk.                                         *)
THEOREM RoleTheorem == SupervisedSpec => []RoleServed
  <1>1. PackageInv => RoleServed
    BY KeptEndpoints DEF PackageInv, RoleServed
  <1> QED BY <1>1, PackageInductive, PTL

-----------------------------------------------------------------------------
(* Downgrades. *)

\* A selector that moves.
LEMMA SelectorMoves ==
  ASSUME EngineInv, Step, selector' # selector
  PROVE  ReplaceSelector
  BY DEF Step, Plan, MakeDirectory, OwnDirectory, StageRefuses, RecoverPayloadStage, WriteStage,
         OwnStage, LinkStage, UnlinkStage, disk,
         OnlyFiles, JournalStaged, AnchorGate, ReplaceActiveLink, JournalSelected,
         JournalRetiring, RetireFile, RetireDirectory, JournalComplete, SetPhase

\* An anchor that moves.
LEMMA AnchorMoves ==
  ASSUME EngineInv, Step, anchor' # anchor
  PROVE  AnchorGate
  BY DEF Step, Plan, MakeDirectory, OwnDirectory, StageRefuses, RecoverPayloadStage, WriteStage,
         OwnStage, LinkStage, UnlinkStage, disk,
         OnlyFiles, JournalStaged, ReplaceSelector, ReplaceActiveLink, JournalSelected,
         JournalRetiring, RetireFile, RetireDirectory, JournalComplete, SetPhase

\* What NeverDowngrades says of one step.
Publishes ==
  selector' # selector =>
    /\ selector' = anchor.selection
    /\ selector'.current >= Floor[anchor.policy]
    /\ selector'.current \notin Tombs[anchor.policy]
AnchorAdvances ==
  anchor' # anchor =>
    /\ anchor'.gen = anchor.gen + 1 /\ anchor'.back = Digest(anchor)
    /\ anchor'.highest >= anchor.highest
    /\ Floor[anchor'.policy] >= Floor[anchor.policy]
    /\ Tombs[anchor.policy] \subseteq Tombs[anchor'.policy]

\* No step of the engine lowers what the anchor protects.
LEMMA StepNeverDowngrades == ASSUME EngineInv, Step PROVE Publishes /\ AnchorAdvances
  <1>1. ASSUME selector' # selector
        PROVE  /\ selector' = anchor.selection /\ selector'.current >= Floor[anchor.policy]
               /\ selector'.current \notin Tombs[anchor.policy]
    <2>1. ReplaceSelector
      BY <1>1, SelectorMoves
    <2>2. /\ selector' = journal.target /\ Digest(anchor) = journal.anchorTarget
          /\ journal.phase = "staged"
      BY <2>1 DEF ReplaceSelector, EngineInv, StepHolds
    <2>3. Commits(Digest(anchor), journal.target)
      BY <2>2 DEF EngineInv, TargetHolds
    <2>4. Digest(anchor)[2] = anchor.policy /\ Digest(anchor)[4] = anchor.selection
      BY DigestFacts DEF EngineInv, PackageTypeOK
    <2> QED BY <2>2, <2>3, <2>4 DEF Commits
  <1>2. ASSUME anchor' # anchor
        PROVE  /\ anchor'.gen = anchor.gen + 1 /\ anchor'.back = Digest(anchor)
               /\ anchor'.highest >= anchor.highest
               /\ Floor[anchor'.policy] >= Floor[anchor.policy]
               /\ Tombs[anchor.policy] \subseteq Tombs[anchor'.policy]
    <2>1. AnchorGate
      BY <1>2, AnchorMoves
    <2>2. anchor' = call.target /\ Advances(call.target)
      BY <1>2, <2>1 DEF AnchorGate, EngineInv, StepHolds, disk
    <2> QED BY <1>2, <2>2 DEF Advances
  <1> QED BY <1>1, <1>2 DEF Publishes, AnchorAdvances

\* No step at all lowers it: the supervisor never writes the anchor.
LEMMA NextNeverDowngrades ==
  ASSUME PackageInv, [SupervisedNext]_allVars PROVE Publishes /\ AnchorAdvances
  <1>1. CASE Engine
    BY <1>1, StepNeverDowngrades DEF Engine, PackageInv
  <1>2. CASE \/ \E j \in Job : Run(j)
             \/ ReadRecord \/ WriteIntent \/ TearIntent \/ StopUnit \/ Check \/ Operate \/ Settle
             \/ StartUnit \/ RemoveRecord \/ EngineFails \/ SupervisorFails
             \/ UnitBegins \/ UnitRuns \/ UnitEnds \/ UnitGone \/ UNCHANGED allVars
    <2>1. UNCHANGED <<selector, anchor>>
      BY <1>2 DEF Run, ReadRecord, WriteIntent, TearIntent, StopUnit, Check, Operate, Nothing, Apply,
                  Rollback, Recover, Begin, Settle, StartUnit, RemoveRecord, EngineFails, StageFails,
                  Interrupt, SupervisorFails, UnitBegins, UnitRuns, UnitEnds, UnitGone, vars, allVars,
                  disk
    <2> QED BY <2>1 DEF Publishes, AnchorAdvances
  <1> QED BY <1>1, <1>2 DEF SupervisedNext, Proceed

(* NeverDowngrades for any releases, policies, files and interruptions: a        *)
(* selector is published only when the anchor holds exactly it, within the       *)
(* anchor's floor and tombstones, and the anchor never gives up what it has.     *)
THEOREM DowngradeTheorem == SupervisedSpec => NeverDowngrades
  <1>1. PackageInv /\ [SupervisedNext]_allVars => [Publishes /\ AnchorAdvances]_vars
    BY NextNeverDowngrades
  <1> QED BY <1>1, PackageInductive, PTL DEF SupervisedSpec, NeverDowngrades, Publishes, AnchorAdvances

-----------------------------------------------------------------------------
(* The relay host                                                          *)

(* The records of a host's disk and of what systemd has loaded, enabled    *)
(* and running.                                                            *)
Image == Nat \ {0}
Sites == {"none", "plain", "peer"}
Units == [image : Nat, data : {"none", "own", "legacy"}]
UpgradeIntents == [image : Image, previous : Image, site : Sites, enabled : BOOLEAN, running : BOOLEAN,
                   unseen : BOOLEAN]
MigrationIntents == [image : Image, phase : {"prepared", "committed"}, site : Sites]
FileRecords ==
  [unit : Units, oldUnit : {"none", "plain", "guard"}, setup : Nat, pending : Nat,
   upgrade : UpgradeIntents \cup {NoIntent}, migration : MigrationIntents \cup {NoIntent},
   binding : {"none", "own", "legacy"}, site : Sites, data : {"none", "raw", "dir", "ready"}]
HostRecords ==
  [loaded : Units, loadedOld : {"none", "plain", "guard"}, enabled : BOOLEAN,
   enabledOld : BOOLEAN, running : Units, runningOld : BOOLEAN, unseen : BOOLEAN]

(* No journal is left on disk.                                             *)
Rests(f) == f.pending = NoImage /\ f.upgrade = NoIntent /\ f.migration = NoIntent

(* The start hook of the instance's unit finds the data it is bound to.    *)
Hooks(f) == f.binding = "legacy" \/ (f.binding = "own" /\ f.data = "ready")

(* No manually installed relay is left to start or to keep running.        *)
OldGone(f, h) == f.oldUnit = "none" /\ h.loadedOld = "none" /\ ~h.runningOld

(* A saved relay: its unit is written and loaded, it can start, and it     *)
(* runs whenever it is enabled, or was not seen to.                        *)
Saved(f, h) ==
  /\ f.setup # NoImage
  /\ Hooks(f)
  /\ f.unit = UnitOf(f.setup, f.binding) /\ h.loaded = f.unit
  /\ h.running \in {NoUnit, f.unit}
  /\ h.enabled => h.running = f.unit \/ h.unseen

(* The instance has no saved relay, no unit and nothing enabled or         *)
(* running.                                                                *)
Bare(f, h) == f.setup = NoImage /\ f.unit = NoUnit /\ h.running = NoUnit /\ ~h.enabled

(* The states setup promises: a saved relay without an old one, or none of *)
(* its own and the old relay, if there is one, untouched.                  *)
Quiet(f, h) ==
  \/ Saved(f, h) /\ OldGone(f, h)
  \/ /\ Bare(f, h)
     /\ f.binding # "legacy"
     /\ \/ OldGone(f, h)
        \/ f.oldUnit = "plain" /\ h.runningOld /\ h.enabledOld

(* While pending.json exists there is no old relay, the data is whole, and *)
(* a setup that was already saved is complete.                             *)
FreshHolds(f, h) ==
  /\ f.upgrade = NoIntent /\ f.migration = NoIntent
  /\ f.binding = "own" /\ f.data = "ready" /\ OldGone(f, h)
  /\ h.running.data # "legacy"
  /\ f.unit.data # "legacy"
  /\ \/ f.setup = f.pending /\ Saved(f, h)
     \/ f.setup = NoImage /\ (f.unit = NoUnit => Bare(f, h))

(* While upgrade.json exists unit and setup.json are of one of the two     *)
(* generations it names, so the rollback recognises them.                  *)
UpgradeHolds(f, h) ==
  /\ f.pending = NoImage /\ f.migration = NoIntent
  /\ Hooks(f) /\ OldGone(f, h)
  /\ f.unit \in {UnitOf(f.upgrade.previous, f.binding), UnitOf(f.upgrade.image, f.binding)}
  /\ f.setup \in {f.upgrade.previous, f.upgrade.image}
  /\ f.upgrade.enabled => f.upgrade.running \/ f.upgrade.unseen

(* The old relay is stopped and its unit, written and loaded, refuses to   *)
(* start while migration.json exists.                                      *)
Fenced(f, h) == f.oldUnit = "guard" /\ h.loadedOld = "guard" /\ ~h.runningOld

(* A prepared migration runs the managed relay, or would at the next boot, *)
(* only with the old one fenced.                                           *)
PreparedHolds(f, h) ==
  /\ f.unit \in {NoUnit, UnitOf(f.migration.image, "legacy")}
  /\ h.running # NoUnit \/ (h.enabled /\ f.unit # NoUnit) => Fenced(f, h)

(* A committed migration has everything written, and the old relay cannot  *)
(* come back.                                                              *)
CommittedHolds(f, h) ==
  /\ f.binding = "legacy" /\ f.setup = f.migration.image
  /\ f.unit = UnitOf(f.setup, "legacy")
  /\ f.oldUnit # "plain" /\ h.loadedOld # "plain" /\ ~h.runningOld

(* What migration.json stands for, by its phase.                           *)
MigrationHolds(f, h) ==
  /\ f.pending = NoImage /\ f.upgrade = NoIntent
  /\ f.binding # "none"
  /\ IF f.migration.phase = "prepared" THEN PreparedHolds(f, h) ELSE CommittedHolds(f, h)

(* What the journals on disk say of the host: the part of the invariant    *)
(* that survives a kill and a power loss.                                  *)
DiskHolds(f, h) ==
  /\ Rests(f) => Quiet(f, h)
  /\ f.pending # NoImage => FreshHolds(f, h)
  /\ f.upgrade # NoIntent => UpgradeHolds(f, h)
  /\ f.migration # NoIntent => MigrationHolds(f, h)

(* What holds at each position of a command: before step k of command m.   *)
(* First setup.                                                            *)
FreshAt(k, m, f, h) ==
  /\ f.binding = "own" /\ f.upgrade = NoIntent /\ f.migration = NoIntent /\ OldGone(f, h)
  /\ k <= 4 => Bare(f, h)
  /\ k >= 3 => f.data = "ready"
  /\ k >= 4 => f.pending = m.image
  /\ 4 <= k /\ k <= 10 => f.setup = NoImage
  /\ k >= 5 => f.unit = UnitOf(m.image, "own")
  /\ k >= 6 => h.loaded = f.unit
  /\ k >= 10 => h.running = f.unit
  /\ k = 11 => f.setup = m.image

(* First setup's undoing; its first two steps are taken with the pending   *)
(* journal still on disk.                                                  *)
UnfreshAt(k, m, f, h) ==
  /\ m.then = "stop"
  /\ k <= 2 => f.pending # NoImage
  /\ k = 2 => ~h.enabled

(* The recovery of a first setup that was not saved.                       *)
RecoverFreshAt(k, m, f, h) ==
  /\ f.pending # NoImage /\ f.setup # f.pending
  /\ k >= 2 => ~h.enabled
  /\ k >= 3 => h.running = NoUnit

(* The recovery of one that was.                                           *)
UnpendAt(k, m, f, h) == f.pending # NoImage /\ f.setup = f.pending

(* The verification of a relay that needs no change.                       *)
ConfirmAt(k, m, f, h) ==
  /\ Rests(f) /\ f.setup = m.image
  /\ k = 2 => h.running = f.unit

(* An upgrade, from the journal to its removal.                            *)
UpgradeAt(k, m, f, h) ==
  /\ m.intent \in UpgradeIntents
  /\ k = 1 => /\ Rests(f) /\ f.setup = m.intent.previous
              /\ m.intent.enabled => m.intent.running \/ m.intent.unseen
  /\ k >= 2 => f.upgrade = m.intent
  /\ k >= 3 => f.site = "peer"
  /\ k >= 5 => f.unit = UnitOf(m.image, f.binding)
  /\ k >= 6 => h.loaded = f.unit
  /\ k >= 7 => h.enabled
  /\ k >= 9 => h.running = f.unit
  /\ k = 10 => f.setup = m.image

(* The rollback of an upgrade.                                             *)
RestoreAt(k, m, f, h) ==
  /\ m.intent \in UpgradeIntents /\ f.upgrade = m.intent
  /\ k >= 3 => f.site = m.intent.site
  /\ 4 <= k /\ k <= 8 => h.running = NoUnit
  /\ k >= 5 => f.unit = UnitOf(m.intent.previous, f.binding)
  /\ k >= 6 => f.setup = m.intent.previous
  /\ k >= 7 => h.loaded = f.unit
  /\ k >= 8 => h.enabled = m.intent.enabled
  /\ k >= 9 => h.running = IF m.intent.running THEN f.unit ELSE NoUnit
  /\ k >= 9 => m.intent.running \/ h.unseen = m.intent.unseen

(* A migration: fence the old unit, move the binding, start and verify,    *)
(* commit, remove the old unit.                                            *)
MigrateAt(k, m, f, h) ==
  /\ m.intent \in MigrationIntents /\ m.intent.phase = "prepared"
  /\ f.binding # "none"
  /\ k = 1 => Rests(f) /\ Bare(f, h) /\ f.oldUnit = "plain"
  /\ 2 <= k /\ k <= 14 => f.migration = m.intent
  /\ k <= 10 => ~h.enabled /\ h.running = NoUnit
  /\ 4 <= k /\ k <= 16 => f.oldUnit = "guard"
  /\ 5 <= k /\ k <= 17 => h.loadedOld = "guard"
  /\ k >= 7 => ~h.runningOld
  /\ k >= 8 => f.binding = "legacy"
  /\ k >= 9 => f.unit = UnitOf(m.image, "legacy")
  /\ k >= 10 => h.loaded = f.unit
  /\ k >= 11 => h.enabled
  /\ k >= 13 => h.running = f.unit
  /\ k >= 14 => f.setup = m.image
  /\ k >= 15 => /\ f.migration # NoIntent /\ f.migration.image = m.image
                 /\ f.migration.phase = "committed"
  /\ k >= 17 => f.oldUnit = "none"
  /\ k = 18 => h.loadedOld = "none"

(* The rollback of a prepared migration.                                   *)
RestoreMigrationAt(k, m, f, h) ==
  /\ f.migration = m.intent /\ f.migration # NoIntent /\ f.migration.phase = "prepared"
  /\ k >= 4 => ~h.enabled
  /\ k >= 5 => h.running = NoUnit
  /\ k >= 6 => f.unit = NoUnit
  /\ k >= 7 => f.setup = NoImage
  /\ k >= 8 => f.binding = "own"
  /\ k >= 9 => f.oldUnit = "plain"
  /\ k >= 11 => h.enabledOld
  /\ k >= 13 => h.runningOld

(* The end of a committed migration.                                       *)
FinishAt(k, m, f, h) ==
  /\ f.migration = m.intent /\ f.migration # NoIntent /\ f.migration.phase = "committed"
 
  /\ k >= 3 => h.running = f.unit /\ h.enabled
  /\ k >= 4 => f.oldUnit = "none"
  /\ k >= 5 => h.loadedOld = "none" /\ h.loaded = f.unit

(* The uninstallation of a saved relay.                                    *)
UninstallAt(k, m, f, h) ==
  /\ Rests(f) /\ f.setup # NoImage
  /\ k = 2 => ~h.enabled

(* Recovery is over: only a pending first setup without a unit may be      *)
(* left.                                                                   *)
SelectHolds(f, h) ==
  /\ f.upgrade = NoIntent /\ f.migration = NoIntent /\ f.binding # "none"
  /\ f.pending # NoImage => Bare(f, h)

(* The position's facts of whichever command m runs.                       *)
OpAt(k, m, f, h) ==
  /\ m.op = "fresh" => FreshAt(k, m, f, h)
  /\ m.op = "unfresh" => UnfreshAt(k, m, f, h)
  /\ m.op = "recoverFresh" => RecoverFreshAt(k, m, f, h)
  /\ m.op = "unpend" => UnpendAt(k, m, f, h)
  /\ m.op = "confirm" => ConfirmAt(k, m, f, h)
  /\ m.op = "upgrade" => UpgradeAt(k, m, f, h)
  /\ m.op = "restore" => RestoreAt(k, m, f, h)
  /\ m.op = "migrate" => MigrateAt(k, m, f, h)
  /\ m.op = "restoreMigration" => RestoreMigrationAt(k, m, f, h)
  /\ m.op = "finish" => FinishAt(k, m, f, h)
  /\ m.op = "uninstall" => UninstallAt(k, m, f, h)

(* The number of steps of a command (LengthIs).                            *)
Length(op) ==
  CASE op = "fresh" -> 11 [] op = "unfresh" -> 3 [] op = "recoverFresh" -> 3 [] op = "unpend" -> 1
    [] op = "confirm" -> 2 [] op = "upgrade" -> 10 [] op = "restore" -> 10 [] op = "migrate" -> 18
    [] op = "restoreMigration" -> 13 [] op = "finish" -> 5 [] op = "uninstall" -> 2

Commanding == {"fresh", "unfresh", "recoverFresh", "unpend", "confirm", "upgrade", "restore",
               "migrate", "restoreMigration", "finish", "uninstall"}

(* The manager runs a command, at one of its steps.                        *)
Commanded(m) ==
  /\ m.op \in Commanding /\ m.at \in 1 .. Length(m.op)
  /\ m.image \in Image /\ m.image = m.intent.image /\ m.then \in {"stop", "select"}
  /\ m.edited \in Sites \cup {"no"}
  /\ m = [op |-> m.op, at |-> m.at, image |-> m.image,
          intent |-> m.intent, then |-> m.then, edited |-> m.edited]

(* The manager is idle, selects, or runs a command whose position's facts  *)
(* hold.                                                                   *)
ManagerHolds ==
  \/ manager = NoManager
  \/ manager = Selecting /\ SelectHolds(files, host)
  \/ Commanded(manager) /\ OpAt(manager.at, manager, files, host)

(* The inductive invariant of the relay host.                              *)
HostInv ==
  /\ files \in FileRecords /\ host \in HostRecords /\ installed \in Image
  /\ DiskHolds(files, host)
  /\ ManagerHolds

(* The units and their fields.                                             *)
LEMMA UnitFacts ==
  /\ NoUnit \in Units /\ NoUnit.data = "none" /\ NoUnit.image = 0
  /\ \A i \in Image, b \in {"none", "own", "legacy"} :
       /\ UnitOf(i, b) \in Units /\ UnitOf(i, b) # NoUnit
       /\ UnitOf(i, b).data = b /\ UnitOf(i, b).image = i
  BY DEF NoUnit, NoImage, UnitOf, Units, Image

(* The journals' contents and their fields.                                *)
LEMMA IntentFacts ==
  /\ \A j \in UpgradeIntents : j # NoIntent /\ j.image \in Image /\ j.previous \in Image
                               /\ j.enabled \in BOOLEAN /\ j.running \in BOOLEAN
                               /\ j.unseen \in BOOLEAN
  /\ \A j \in MigrationIntents : j # NoIntent /\ j.image \in Image
                                 /\ j.phase \in {"prepared", "committed"}
  BY DEF NoIntent, NoImage, UpgradeIntents, MigrationIntents, Image

(* The fields of the files.                                                *)
LEMMA FileTypes ==
  ASSUME NEW f \in FileRecords
  PROVE  /\ f.unit \in Units /\ f.oldUnit \in {"none", "plain", "guard"} /\ f.setup \in Nat
         /\ f.pending \in Nat /\ f.upgrade \in UpgradeIntents \cup {NoIntent}
         /\ f.migration \in MigrationIntents \cup {NoIntent}
         /\ f.binding \in {"none", "own", "legacy"} /\ f.site \in Sites
         /\ f.data \in {"none", "raw", "dir", "ready"}
  BY DEF FileRecords

(* The fields of the host.                                                 *)
LEMMA HostTypes ==
  ASSUME NEW h \in HostRecords
  PROVE  /\ h.loaded \in Units /\ h.loadedOld \in {"none", "plain", "guard"}
         /\ h.enabled \in BOOLEAN /\ h.enabledOld \in BOOLEAN
         /\ h.running \in Units /\ h.runningOld \in BOOLEAN /\ h.unseen \in BOOLEAN
  BY DEF HostRecords

(* The invariant without the manager.                                      *)
World == files \in FileRecords /\ host \in HostRecords /\ DiskHolds(files, host)

(* One field of the files, or of the host, is replaced and the others are  *)
(* kept: what the write or the systemctl command of a step amounts to.  A  *)
(* relay that is started, or stopped, leaves unseen open.                  *)
UnitBecomes(v) ==
  /\ files' \in FileRecords /\ host' = host /\ files'.unit = v
  /\ files'.oldUnit = files.oldUnit /\ files'.setup = files.setup
  /\ files'.pending = files.pending /\ files'.upgrade = files.upgrade
  /\ files'.migration = files.migration /\ files'.binding = files.binding
  /\ files'.site = files.site /\ files'.data = files.data

OldUnitBecomes(v) ==
  /\ files' \in FileRecords /\ host' = host /\ files'.oldUnit = v
  /\ files'.unit = files.unit /\ files'.setup = files.setup
  /\ files'.pending = files.pending /\ files'.upgrade = files.upgrade
  /\ files'.migration = files.migration /\ files'.binding = files.binding
  /\ files'.site = files.site /\ files'.data = files.data

SetupBecomes(v) ==
  /\ files' \in FileRecords /\ host' = host /\ files'.setup = v /\ files'.unit = files.unit
  /\ files'.oldUnit = files.oldUnit /\ files'.pending = files.pending
  /\ files'.upgrade = files.upgrade /\ files'.migration = files.migration
  /\ files'.binding = files.binding /\ files'.site = files.site /\ files'.data = files.data

PendingBecomes(v) ==
  /\ files' \in FileRecords /\ host' = host /\ files'.pending = v
  /\ files'.unit = files.unit /\ files'.oldUnit = files.oldUnit
  /\ files'.setup = files.setup /\ files'.upgrade = files.upgrade
  /\ files'.migration = files.migration /\ files'.binding = files.binding
  /\ files'.site = files.site /\ files'.data = files.data

UpgradeBecomes(v) ==
  /\ files' \in FileRecords /\ host' = host /\ files'.upgrade = v
  /\ files'.unit = files.unit /\ files'.oldUnit = files.oldUnit
  /\ files'.setup = files.setup /\ files'.pending = files.pending
  /\ files'.migration = files.migration /\ files'.binding = files.binding
  /\ files'.site = files.site /\ files'.data = files.data

MigrationBecomes(v) ==
  /\ files' \in FileRecords /\ host' = host /\ files'.migration = v
  /\ files'.unit = files.unit /\ files'.oldUnit = files.oldUnit
  /\ files'.setup = files.setup /\ files'.pending = files.pending
  /\ files'.upgrade = files.upgrade /\ files'.binding = files.binding
  /\ files'.site = files.site /\ files'.data = files.data

BindingBecomes(v) ==
  /\ files' \in FileRecords /\ host' = host /\ files'.binding = v
  /\ files'.unit = files.unit /\ files'.oldUnit = files.oldUnit
  /\ files'.setup = files.setup /\ files'.pending = files.pending
  /\ files'.upgrade = files.upgrade /\ files'.migration = files.migration
  /\ files'.site = files.site /\ files'.data = files.data

SiteBecomes(v) ==
  /\ files' \in FileRecords /\ host' = host /\ files'.site = v /\ files'.unit = files.unit
  /\ files'.oldUnit = files.oldUnit /\ files'.setup = files.setup
  /\ files'.pending = files.pending /\ files'.upgrade = files.upgrade
  /\ files'.migration = files.migration /\ files'.binding = files.binding
  /\ files'.data = files.data

DataBecomes(v) ==
  /\ files' \in FileRecords /\ host' = host /\ files'.data = v /\ files'.unit = files.unit
  /\ files'.oldUnit = files.oldUnit /\ files'.setup = files.setup
  /\ files'.pending = files.pending /\ files'.upgrade = files.upgrade
  /\ files'.migration = files.migration /\ files'.binding = files.binding
  /\ files'.site = files.site

EnabledBecomes(v) ==
  /\ host' \in HostRecords /\ files' = files /\ host'.enabled = v
  /\ host'.loaded = host.loaded /\ host'.loadedOld = host.loadedOld
  /\ host'.enabledOld = host.enabledOld /\ host'.running = host.running
  /\ host'.runningOld = host.runningOld /\ host'.unseen = host.unseen

EnabledOldBecomes(v) ==
  /\ host' \in HostRecords /\ files' = files /\ host'.enabledOld = v
  /\ host'.loaded = host.loaded /\ host'.loadedOld = host.loadedOld
  /\ host'.enabled = host.enabled /\ host'.running = host.running
  /\ host'.runningOld = host.runningOld /\ host'.unseen = host.unseen

RunningBecomes(v) ==
  /\ host' \in HostRecords /\ files' = files /\ host'.running = v
  /\ host'.loaded = host.loaded /\ host'.loadedOld = host.loadedOld
  /\ host'.enabled = host.enabled /\ host'.enabledOld = host.enabledOld
  /\ host'.runningOld = host.runningOld

RunningOldBecomes(v) ==
  /\ host' \in HostRecords /\ files' = files /\ host'.runningOld = v
  /\ host'.loaded = host.loaded /\ host'.loadedOld = host.loadedOld
  /\ host'.enabled = host.enabled /\ host'.enabledOld = host.enabledOld
  /\ host'.running = host.running /\ host'.unseen = host.unseen

(* systemctl daemon-reload loads both units as they are on disk.           *)
Reloads ==
  /\ host' \in HostRecords /\ files' = files /\ host'.loaded = files.unit
  /\ host'.loadedOld = files.oldUnit /\ host'.enabled = host.enabled
  /\ host'.enabledOld = host.enabledOld /\ host'.running = host.running
  /\ host'.runningOld = host.runningOld /\ host'.unseen = host.unseen

(* The step unlinks a journal.                                             *)
Removes == At("forget") \/ At("unpend")

(* After this step a rollback would find the journal it undoes.            *)
RollSafe ==
  /\ manager.op = "fresh" /\ manager.at >= 6 => files'.pending # NoImage
  /\ manager.op = "upgrade" /\ manager.at >= 2 => files'.upgrade = manager.intent
  /\ manager.op = "migrate" /\ 2 <= manager.at /\ manager.at <= 13 => files'.migration = manager.intent

(* The step took effect: the next position's facts hold, or the command is *)
(* over and the next may be selected, and a rollback is safe.              *)
Reached ==
  /\ World'
  /\ manager.at < Length(manager.op) => OpAt(manager.at + 1, manager, files', host')
  /\ manager.at = Length(manager.op) => manager.then = "stop" \/ SelectHolds(files', host')
  /\ ~Removes => RollSafe

(* After a step that took effect the manager goes on or rolls back, never  *)
(* after an unlink.                                                        *)
Proceeds ==
  \/ manager' = Succeeded
  \/ /\ manager.at < Length(manager.op)
     /\ \E v \in Sites \cup {"no"} : manager' = [Succeeded EXCEPT !.edited = v]
  \/ manager' = RollsBack /\ ~Removes

(* The step changed nothing: the manager rolls back or stops.              *)
Halted == UNCHANGED <<files, host>> /\ manager' \in {RollsBack, NoManager}

(* What every step of a command does.                                      *)
StepEffect == installed' = installed /\ ((Reached /\ Proceeds) \/ Halted)

(* At a step the manager takes the action of that step and no other.       *)
LEMMA StepIs ==
  ASSUME ManagerStep, NEW s, At(s)
  PROVE  /\ (s = "mkdir" => MakeData) /\ (s = "init" => InitData) /\ (s = "pend" => Pend)
         /\ (s = "unpend" => Unpend) /\ (s = "journal" => Journal)
         /\ (s = "unit" => WriteUnit) /\ (s = "save" => SaveSetup)
         /\ (s = "unsave" => Unsave) /\ (s = "removeUnit" => RemoveUnit)
         /\ (s = "guard" => Guard) /\ (s = "unguard" => Unguard)
         /\ (s = "removeOld" => RemoveOld) /\ (s = "bind" => Bind)
         /\ (s = "unbind" => Unbind) /\ (s = "commit" => CommitMigration)
         /\ (s = "forget" => Forget) /\ (s = "edit" => EditRoute)
         /\ (s = "reroute" => RestoreRoute) /\ (s = "unedit" => UneditRoute)
         /\ (s = "reload" => Reload) /\ (s = "enable" => Enable)
         /\ (s = "disable" => Disable) /\ (s = "able" => Able) /\ (s = "stop" => StopRelay)
         /\ (s = "disableOld" => DisableOld) /\ (s = "stopOld" => StopOld)
         /\ (s = "enableOld" => EnableOld) /\ (s = "start" => StartRelay)
         /\ (s = "restart" => Restart) /\ (s = "startOld" => StartOld)
         /\ (s = "verify" => Verify) /\ (s = "verifyOld" => VerifyOld)
         /\ (s = "validate" => Validate)
  <1>1. \A t : At(t) => t = s BY DEF At
  <1>2. ~Select BY DEF At, Select, Selecting
  <1>3. CASE MakeData
    <2>1. s = "mkdir" BY <1>1, <1>3 DEF MakeData, Writes
    <2> QED BY <1>3, <2>1
  <1>4. CASE InitData
    <2>1. s = "init" BY <1>1, <1>4 DEF InitData, Writes
    <2> QED BY <1>4, <2>1
  <1>5. CASE Pend
    <2>1. s = "pend" BY <1>1, <1>5 DEF Pend, Writes
    <2> QED BY <1>5, <2>1
  <1>6. CASE Unpend
    <2>1. s = "unpend" BY <1>1, <1>6 DEF Unpend, Writes
    <2> QED BY <1>6, <2>1
  <1>7. CASE Journal
    <2>1. s = "journal" BY <1>1, <1>7 DEF Journal, Writes
    <2> QED BY <1>7, <2>1
  <1>8. CASE WriteUnit
    <2>1. s = "unit" BY <1>1, <1>8 DEF WriteUnit, Writes
    <2> QED BY <1>8, <2>1
  <1>9. CASE SaveSetup
    <2>1. s = "save" BY <1>1, <1>9 DEF SaveSetup, Writes
    <2> QED BY <1>9, <2>1
  <1>10. CASE Unsave
    <2>1. s = "unsave" BY <1>1, <1>10 DEF Unsave, Writes
    <2> QED BY <1>10, <2>1
  <1>11. CASE RemoveUnit
    <2>1. s = "removeUnit" BY <1>1, <1>11 DEF RemoveUnit, Writes
    <2> QED BY <1>11, <2>1
  <1>12. CASE Guard
    <2>1. s = "guard" BY <1>1, <1>12 DEF Guard, Writes
    <2> QED BY <1>12, <2>1
  <1>13. CASE Unguard
    <2>1. s = "unguard" BY <1>1, <1>13 DEF Unguard, Writes
    <2> QED BY <1>13, <2>1
  <1>14. CASE RemoveOld
    <2>1. s = "removeOld" BY <1>1, <1>14 DEF RemoveOld, Writes
    <2> QED BY <1>14, <2>1
  <1>15. CASE Bind
    <2>1. s = "bind" BY <1>1, <1>15 DEF Bind, Writes
    <2> QED BY <1>15, <2>1
  <1>16. CASE Unbind
    <2>1. s = "unbind" BY <1>1, <1>16 DEF Unbind, Writes
    <2> QED BY <1>16, <2>1
  <1>17. CASE CommitMigration
    <2>1. s = "commit" BY <1>1, <1>17 DEF CommitMigration, Writes
    <2> QED BY <1>17, <2>1
  <1>18. CASE Forget
    <2>1. s = "forget" BY <1>1, <1>18 DEF Forget, Writes
    <2> QED BY <1>18, <2>1
  <1>19. CASE EditRoute
    <2>1. s = "edit" BY <1>1, <1>19 DEF EditRoute
    <2> QED BY <1>19, <2>1
  <1>20. CASE RestoreRoute
    <2>1. s = "reroute" BY <1>1, <1>20 DEF RestoreRoute, Writes
    <2> QED BY <1>20, <2>1
  <1>21. CASE UneditRoute
    <2>1. s = "unedit" BY <1>1, <1>21 DEF UneditRoute, Writes
    <2> QED BY <1>21, <2>1
  <1>22. CASE Reload
    <2>1. s = "reload" BY <1>1, <1>22 DEF Reload, Commands
    <2> QED BY <1>22, <2>1
  <1>23. CASE Enable
    <2>1. s = "enable" BY <1>1, <1>23 DEF Enable, Commands
    <2> QED BY <1>23, <2>1
  <1>24. CASE Disable
    <2>1. s = "disable" BY <1>1, <1>24 DEF Disable, Commands
    <2> QED BY <1>24, <2>1
  <1>25. CASE Able
    <2>1. s = "able" BY <1>1, <1>25 DEF Able, Commands
    <2> QED BY <1>25, <2>1
  <1>26. CASE StopRelay
    <2>1. s = "stop" BY <1>1, <1>26 DEF StopRelay, Commands
    <2> QED BY <1>26, <2>1
  <1>27. CASE DisableOld
    <2>1. s = "disableOld" BY <1>1, <1>27 DEF DisableOld, Commands
    <2> QED BY <1>27, <2>1
  <1>28. CASE StopOld
    <2>1. s = "stopOld" BY <1>1, <1>28 DEF StopOld, Commands
    <2> QED BY <1>28, <2>1
  <1>29. CASE EnableOld
    <2>1. s = "enableOld" BY <1>1, <1>29 DEF EnableOld, Commands
    <2> QED BY <1>29, <2>1
  <1>30. CASE StartRelay
    <2>1. s = "start" BY <1>1, <1>30 DEF StartRelay, Start, Commands
    <2> QED BY <1>30, <2>1
  <1>31. CASE Restart
    <2>1. s = "restart" BY <1>1, <1>31 DEF Restart
    <2> QED BY <1>31, <2>1
  <1>32. CASE StartOld
    <2>1. s = "startOld" BY <1>1, <1>32 DEF StartOld, Commands
    <2> QED BY <1>32, <2>1
  <1>33. CASE Verify
    <2>1. s = "verify" BY <1>1, <1>33 DEF Verify
    <2> QED BY <1>33, <2>1
  <1>34. CASE VerifyOld
    <2>1. s = "verifyOld" BY <1>1, <1>34 DEF VerifyOld
    <2> QED BY <1>34, <2>1
  <1>35. CASE Validate
    <2>1. s = "validate" BY <1>1, <1>35 DEF Validate
    <2> QED BY <1>35, <2>1
  <1> QED BY <1>2, <1>3, <1>4, <1>5, <1>6, <1>7, <1>8, <1>9, <1>10, <1>11, <1>12, <1>13, <1>14,
    <1>15, <1>16, <1>17, <1>18, <1>19, <1>20, <1>21, <1>22, <1>23, <1>24, <1>25, <1>26, <1>27,
    <1>28, <1>29, <1>30, <1>31, <1>32, <1>33, <1>34, <1>35 DEF ManagerStep

(* Which step is at which position of a command.                           *)
LEMMA FreshPlaces ==
  ASSUME manager.op = "fresh"
  PROVE  /\ Len(Steps(manager.op)) = 11 /\ Length(manager.op) = 11
         /\ (manager.at = 1 => At("mkdir")) /\ (manager.at = 2 => At("init"))
         /\ (manager.at = 3 => At("pend")) /\ (manager.at = 4 => At("unit"))
         /\ (manager.at = 5 => At("reload")) /\ (manager.at = 6 => At("enable"))
         /\ (manager.at = 7 => At("start")) /\ (manager.at = 8 => At("edit"))
         /\ (manager.at = 9 => At("verify")) /\ (manager.at = 10 => At("save"))
         /\ (manager.at = 11 => At("unpend"))
  BY DEF Steps, Length, At

(* The same of its undoing.                                                *)
LEMMA UnfreshPlaces ==
  ASSUME manager.op = "unfresh"
  PROVE  /\ Len(Steps(manager.op)) = 3 /\ Length(manager.op) = 3
         /\ (manager.at = 1 => At("disable")) /\ (manager.at = 2 => At("stop"))
         /\ (manager.at = 3 => At("unedit"))
  BY DEF Steps, Length, At

(* The same of the recovery of one not saved.                              *)
LEMMA RecoverFreshPlaces ==
  ASSUME manager.op = "recoverFresh"
  PROVE  /\ Len(Steps(manager.op)) = 3 /\ Length(manager.op) = 3
         /\ (manager.at = 1 => At("disable")) /\ (manager.at = 2 => At("stop"))
         /\ (manager.at = 3 => At("removeUnit"))
  BY DEF Steps, Length, At

(* The same of the recovery of one that was.                               *)
LEMMA UnpendPlaces ==
  ASSUME manager.op = "unpend"
  PROVE  /\ Len(Steps(manager.op)) = 1 /\ Length(manager.op) = 1
         /\ (manager.at = 1 => At("unpend"))
  BY DEF Steps, Length, At

(* The same of a confirmation.                                             *)
LEMMA ConfirmPlaces ==
  ASSUME manager.op = "confirm"
  PROVE  /\ Len(Steps(manager.op)) = 2 /\ Length(manager.op) = 2
         /\ (manager.at = 1 => At("verify")) /\ (manager.at = 2 => At("enable"))
  BY DEF Steps, Length, At

(* The same of an upgrade.                                                 *)
LEMMA UpgradePlaces ==
  ASSUME manager.op = "upgrade"
  PROVE  /\ Len(Steps(manager.op)) = 10 /\ Length(manager.op) = 10
         /\ (manager.at = 1 => At("journal")) /\ (manager.at = 2 => At("edit"))
         /\ (manager.at = 3 => At("stop")) /\ (manager.at = 4 => At("unit"))
         /\ (manager.at = 5 => At("reload")) /\ (manager.at = 6 => At("enable"))
         /\ (manager.at = 7 => At("start")) /\ (manager.at = 8 => At("verify"))
         /\ (manager.at = 9 => At("save")) /\ (manager.at = 10 => At("forget"))
  BY DEF Steps, Length, At, Upgrading

(* The same of its rollback.                                               *)
LEMMA RestorePlaces ==
  ASSUME manager.op = "restore"
  PROVE  /\ Len(Steps(manager.op)) = 10 /\ Length(manager.op) = 10
         /\ (manager.at = 1 => At("validate")) /\ (manager.at = 2 => At("reroute"))
         /\ (manager.at = 3 => At("stop")) /\ (manager.at = 4 => At("unit"))
         /\ (manager.at = 5 => At("save")) /\ (manager.at = 6 => At("reload"))
         /\ (manager.at = 7 => At("able")) /\ (manager.at = 8 => At("restart"))
         /\ (manager.at = 9 => At("verify")) /\ (manager.at = 10 => At("forget"))
  BY DEF Steps, Length, At, Restoring

(* The same of a migration.                                                *)
LEMMA MigratePlaces ==
  ASSUME manager.op = "migrate"
  PROVE  /\ Len(Steps(manager.op)) = 18 /\ Length(manager.op) = 18
         /\ (manager.at = 1 => At("journal")) /\ (manager.at = 2 => At("edit"))
         /\ (manager.at = 3 => At("guard")) /\ (manager.at = 4 => At("reload"))
         /\ (manager.at = 5 => At("disableOld")) /\ (manager.at = 6 => At("stopOld"))
         /\ (manager.at = 7 => At("bind")) /\ (manager.at = 8 => At("unit"))
         /\ (manager.at = 9 => At("reload")) /\ (manager.at = 10 => At("enable"))
         /\ (manager.at = 11 => At("start")) /\ (manager.at = 12 => At("verify"))
         /\ (manager.at = 13 => At("save")) /\ (manager.at = 14 => At("commit"))
         /\ (manager.at = 15 => At("verify")) /\ (manager.at = 16 => At("removeOld"))
         /\ (manager.at = 17 => At("reload")) /\ (manager.at = 18 => At("forget"))
  BY DEF Steps, Length, At, Migrating

(* The same of its rollback.                                               *)
LEMMA RestoreMigrationPlaces ==
  ASSUME manager.op = "restoreMigration"
  PROVE  /\ Len(Steps(manager.op)) = 13 /\ Length(manager.op) = 13
         /\ (manager.at = 1 => At("validate")) /\ (manager.at = 2 => At("reroute"))
         /\ (manager.at = 3 => At("disable")) /\ (manager.at = 4 => At("stop"))
         /\ (manager.at = 5 => At("removeUnit")) /\ (manager.at = 6 => At("unsave"))
         /\ (manager.at = 7 => At("unbind")) /\ (manager.at = 8 => At("unguard"))
         /\ (manager.at = 9 => At("reload")) /\ (manager.at = 10 => At("enableOld"))
         /\ (manager.at = 11 => At("startOld")) /\ (manager.at = 12 => At("verifyOld"))
         /\ (manager.at = 13 => At("forget"))
  BY DEF Steps, Length, At

(* The same of the end of a committed one.                                 *)
LEMMA FinishPlaces ==
  ASSUME manager.op = "finish"
  PROVE  /\ Len(Steps(manager.op)) = 5 /\ Length(manager.op) = 5
         /\ (manager.at = 1 => At("validate")) /\ (manager.at = 2 => At("verify"))
         /\ (manager.at = 3 => At("removeOld")) /\ (manager.at = 4 => At("reload"))
         /\ (manager.at = 5 => At("forget"))
  BY DEF Steps, Length, At

(* The same of an uninstallation.                                          *)
LEMMA UninstallPlaces ==
  ASSUME manager.op = "uninstall"
  PROVE  /\ Len(Steps(manager.op)) = 2 /\ Length(manager.op) = 2
         /\ (manager.at = 1 => At("disable")) /\ (manager.at = 2 => At("stop"))
  BY DEF Steps, Length, At

(* Every step of first setup reaches its next position. The lemmas that    *)
(* follow say the same of each command: what a position's facts say is     *)
(* enough for the step taken there to establish the next position's, and   *)
(* for the clause of the journal on disk.                                  *)
LEMMA FreshSteps ==
  ASSUME HostInv, manager.op = "fresh", ManagerStep, ~UnlinkMisleads
  PROVE  StepEffect
  <1> USE UnitFacts, IntentFacts
  <1>0. Commanded(manager) /\ FreshAt(manager.at, manager, files, host) /\ World
    BY DEF HostInv, ManagerHolds, OpAt, NoManager, Selecting, World
  <1>t. /\ files \in FileRecords /\ host \in HostRecords
        /\ manager.image \in Image /\ manager.image \in Nat /\ manager.image = manager.intent.image
        /\ manager.edited \in Sites \cup {"no"} /\ Length(manager.op) = 11 /\ manager.at \in 1 .. 11
        /\ Len(Steps(manager.op)) = 11
    BY <1>0, FreshPlaces DEF World, Commanded, Image
  <1>f. /\ files.unit \in Units /\ files.oldUnit \in {"none", "plain", "guard"}
        /\ files.setup \in Nat /\ files.pending \in Nat /\ files.upgrade \in UpgradeIntents \cup {NoIntent}
        /\ files.migration \in MigrationIntents \cup {NoIntent}
        /\ files.binding \in {"none", "own", "legacy"} /\ files.site \in Sites
        /\ files.data \in {"none", "raw", "dir", "ready"}
        /\ host.loaded \in Units /\ host.loadedOld \in {"none", "plain", "guard"}
        /\ host.enabled \in BOOLEAN /\ host.enabledOld \in BOOLEAN
        /\ host.running \in Units /\ host.runningOld \in BOOLEAN /\ host.unseen \in BOOLEAN
    BY <1>t, FileTypes, HostTypes
  <1>1. CASE manager.at = 1
    <2>1. At("mkdir") /\ MakeData BY <1>1, StepIs, FreshPlaces
    <2>2. CASE files.data = "raw"
      BY <2>1, <2>2 DEF MakeData, StepEffect, Halted
    <2>3. CASE files.data # "raw"
      <3>1. installed' = installed /\ Proceeds
        <4>1. CASE Writes("mkdir", IF files.data = "none" THEN [files EXCEPT !.data = "dir"] ELSE files)
          BY <2>1, <4>1 DEF Writes, Done, Proceeds, Removes
        <4>2. CASE /\ At("mkdir") /\ manager' = RollsBack
                   /\ UNCHANGED <<host, installed>>
          BY <4>2 DEF At, Proceeds, Removes
        <4> QED BY <2>1, <2>3, <4>1, <4>2 DEF MakeData
      <3>2. PICK v \in {"none", "raw", "dir", "ready"} :
              DataBecomes(v) /\ (files.data = "ready" => v = "ready")
        <4>1. CASE files.data = "none" /\ files' = [files EXCEPT !.data = "raw"] /\ host' = host
          BY <1>t, <4>1 DEF DataBecomes, FileRecords
        <4>2. CASE /\ files' = IF files.data = "none" THEN [files EXCEPT !.data = "dir"] ELSE files
                   /\ host' = host
          <5>1. DataBecomes(IF files.data = "none" THEN "dir" ELSE files.data)
            BY <1>t, <1>f, <4>2 DEF DataBecomes, FileRecords
          <5> QED BY <1>f, <5>1
        <4> QED BY <2>1, <2>3, <4>1, <4>2 DEF MakeData, Writes
      <3>3. World'
        BY <1>0, <1>t, <1>f, <1>1, <3>2
           DEF DataBecomes, World, DiskHolds, Rests, Quiet, Saved, Bare, OldGone, Hooks, FreshHolds,
           FreshAt, NoImage, Image
      <3>4. FreshAt(2, manager, files', host')
        BY <1>0, <1>1, <3>2 DEF DataBecomes, Bare, OldGone, FreshAt
      <3> QED BY <1>0, <1>t, <1>1, <2>1, <3>1, <3>3, <3>4
         DEF StepEffect, Reached, RollSafe, Removes, OpAt, FreshAt, NoImage, Image
    <2> QED BY <2>2, <2>3
  <1>2. CASE manager.at = 2
    <2>1. At("init") /\ InitData BY <1>2, StepIs, FreshPlaces
    <2>2. installed' = installed /\ Proceeds
      BY <2>1 DEF InitData, Writes, Done, Proceeds, Removes
    <2>v. "ready" \in {"none", "raw", "dir", "ready"} OBVIOUS
    <2>3. DataBecomes("ready")
      BY <1>t, <2>1, <2>v DEF InitData, Writes, DataBecomes, FileRecords
    <2>4. World' /\ FreshAt(3, manager, files', host')
      BY <1>0, <1>t, <1>f, <1>2, <2>3
         DEF DataBecomes, World, DiskHolds, Rests, Quiet, Saved, Bare, OldGone, Hooks, FreshHolds,
         FreshAt, NoImage, Image
    <2> QED BY <1>0, <1>t, <1>2, <2>1, <2>2, <2>4
       DEF StepEffect, Reached, RollSafe, Removes, OpAt, FreshAt, NoImage, Image
  <1>3. CASE manager.at = 3
    <2>1. At("pend") /\ Pend BY <1>3, StepIs, FreshPlaces
    <2>2. installed' = installed /\ Proceeds
      BY <2>1 DEF Pend, Writes, Done, Proceeds, Removes
    <2>v. manager.image \in Nat
      BY <1>0, <1>t, <1>f, <1>3 DEF FreshAt, NoImage, Image, Sites, UpgradeIntents, MigrationIntents
    <2>3. PendingBecomes(manager.image)
      BY <1>t, <2>1, <2>v DEF Pend, Writes, PendingBecomes, FileRecords
    <2>4. World' /\ FreshAt(4, manager, files', host')
      BY <1>0, <1>t, <1>f, <1>3, <2>3
         DEF PendingBecomes, World, DiskHolds, Rests, Quiet, Saved, Bare, OldGone, Hooks,
         FreshHolds, FreshAt, NoImage, Image
    <2> QED BY <1>0, <1>t, <1>3, <2>1, <2>2, <2>4
       DEF StepEffect, Reached, RollSafe, Removes, OpAt, FreshAt, NoImage, Image
  <1>4. CASE manager.at = 4
    <2>1. At("unit") /\ WriteUnit BY <1>4, StepIs, FreshPlaces
    <2>2. installed' = installed /\ Proceeds
      BY <2>1 DEF WriteUnit, Writes, Done, Proceeds, Removes
    <2>v. UnitOf(manager.image, files.binding) \in Units
      BY <1>0, <1>t, <1>f, <1>4 DEF FreshAt, NoImage, Image, Sites, UpgradeIntents, MigrationIntents
    <2>3. UnitBecomes(UnitOf(manager.image, files.binding))
      BY <1>t, <2>1, <2>v DEF WriteUnit, Writes, UnitBecomes, FileRecords
    <2>4. World' /\ FreshAt(5, manager, files', host')
      BY <1>0, <1>t, <1>f, <1>4, <2>3
         DEF UnitBecomes, World, DiskHolds, Rests, Quiet, Saved, Bare, OldGone, Hooks, FreshHolds,
         FreshAt, NoImage, Image
    <2> QED BY <1>0, <1>t, <1>4, <2>1, <2>2, <2>4
       DEF StepEffect, Reached, RollSafe, Removes, OpAt, FreshAt, NoImage, Image
  <1>5. CASE manager.at = 5
    <2>1. At("reload") /\ Reload BY <1>5, StepIs, FreshPlaces
    <2>2. installed' = installed /\ Proceeds
      BY <2>1 DEF Reload, Commands, Done, Proceeds, Removes
    <2>3. Reloads BY <1>t, <1>f, <2>1 DEF Reload, Commands, Reloads, HostRecords
    <2>4. World' /\ FreshAt(6, manager, files', host')
      BY <1>0, <1>t, <1>f, <1>5, <2>3
         DEF Reloads, World, DiskHolds, Rests, Quiet, Saved, Bare, OldGone, Hooks, FreshHolds,
         FreshAt, NoImage, Image
    <2> QED BY <1>0, <1>t, <1>5, <2>1, <2>2, <2>4
       DEF StepEffect, Reached, RollSafe, Removes, OpAt, FreshAt, NoImage, Image
  <1>6. CASE manager.at = 6
    <2>1. At("enable") /\ Enable BY <1>6, StepIs, FreshPlaces
    <2>2. installed' = installed /\ Proceeds
      BY <2>1 DEF Enable, Commands, Done, Proceeds, Removes
    <2>v. TRUE \in BOOLEAN OBVIOUS
    <2>3. EnabledBecomes(TRUE) BY <1>t, <2>1, <2>v DEF Enable, Commands, EnabledBecomes, HostRecords
    <2>4. World' /\ FreshAt(7, manager, files', host')
      BY <1>0, <1>t, <1>f, <1>6, <2>3
         DEF EnabledBecomes, World, DiskHolds, Rests, Quiet, Saved, Bare, OldGone, Hooks,
         FreshHolds, FreshAt, NoImage, Image
    <2> QED BY <1>0, <1>t, <1>6, <2>1, <2>2, <2>4
       DEF StepEffect, Reached, RollSafe, Removes, OpAt, FreshAt, NoImage, Image
  <1>7. CASE manager.at = 7
    <2>1. At("start") /\ StartRelay BY <1>7, StepIs, FreshPlaces
    <2>2. CASE ~Startable(host.loaded)
      BY <2>1, <2>2 DEF StartRelay, Start, StepEffect, Halted
    <2>3. CASE Startable(host.loaded)
      <3>1. installed' = installed /\ Proceeds
        BY <2>1, <2>3 DEF StartRelay, Start, Commands, Done, Proceeds, Removes
      <3>2. RunningBecomes(IF host.running = NoUnit THEN host.loaded ELSE host.running)
        BY <1>t, <1>f, <2>1, <2>3 DEF StartRelay, Start, Commands, RunningBecomes, HostRecords
      <3>3. World' /\ FreshAt(8, manager, files', host')
        BY <1>0, <1>t, <1>f, <1>7, <3>2
           DEF RunningBecomes, World, DiskHolds, Rests, Quiet, Saved, Bare, OldGone, Hooks,
           FreshHolds, FreshAt, NoImage, Image
      <3> QED BY <1>0, <1>t, <1>7, <2>1, <3>1, <3>3
         DEF StepEffect, Reached, RollSafe, Removes, OpAt, FreshAt, NoImage, Image
    <2> QED BY <2>2, <2>3
  <1>8. CASE manager.at = 8
    <2>1. At("edit") /\ EditRoute BY <1>8, StepIs, FreshPlaces
    <2>2. installed' = installed /\ Proceeds
      BY <1>t, <1>8, <2>1 DEF EditRoute, Proceeds, Removes, At, HostRecords, FileRecords, Sites
    <2>v. "peer" \in Sites BY DEF Sites
    <2>3. SiteBecomes("peer")
      BY <1>t, <2>1, <2>v DEF EditRoute, SiteBecomes, FileRecords
    <2>4. World' /\ FreshAt(9, manager, files', host')
      BY <1>0, <1>t, <1>f, <1>8, <2>3
         DEF SiteBecomes, World, DiskHolds, Rests, Quiet, Saved, Bare, OldGone, Hooks, FreshHolds,
         FreshAt, NoImage, Image
    <2> QED BY <1>0, <1>t, <1>8, <2>1, <2>2, <2>4
       DEF StepEffect, Reached, RollSafe, Removes, OpAt, FreshAt, NoImage, Image
  <1>9. CASE manager.at = 9
    <2>1. At("verify") /\ Verify BY <1>9, StepIs, FreshPlaces
    <2>2. CASE ~(Verified \/ (manager.op = "restore" /\ ~manager.intent.running))
      BY <2>1, <2>2 DEF Verify, StepEffect, Halted
    <2>3. CASE Verified \/ (manager.op = "restore" /\ ~manager.intent.running)
      <3>1. installed' = installed /\ Proceeds /\ files' = files /\ host' = host
        BY <2>1, <2>3 DEF Verify, Done, Proceeds, Removes
      <3>2. World' /\ FreshAt(10, manager, files', host')
        BY <1>0, <1>t, <1>f, <1>9, <2>3, <3>1 DEF World, Verified, FreshAt, NoImage, Image
      <3> QED BY <1>0, <1>t, <1>9, <2>1, <3>1, <3>2
         DEF StepEffect, Reached, RollSafe, Removes, OpAt, FreshAt, NoImage, Image
    <2> QED BY <2>2, <2>3
  <1>10. CASE manager.at = 10
    <2>1. At("save") /\ SaveSetup BY <1>10, StepIs, FreshPlaces
    <2>2. installed' = installed /\ Proceeds
      BY <2>1 DEF SaveSetup, Writes, Done, Proceeds, Removes
    <2>v. manager.image \in Nat
      BY <1>0, <1>t, <1>f, <1>10
         DEF FreshAt, NoImage, Image, Sites, UpgradeIntents, MigrationIntents
    <2>3. SetupBecomes(manager.image)
      BY <1>t, <2>1, <2>v DEF SaveSetup, Writes, SetupBecomes, FileRecords
    <2>4. World' /\ FreshAt(11, manager, files', host')
      BY <1>0, <1>t, <1>f, <1>10, <2>3
         DEF SetupBecomes, World, DiskHolds, Rests, Quiet, Saved, Bare, OldGone, Hooks,
         FreshHolds, FreshAt, NoImage, Image
    <2> QED BY <1>0, <1>t, <1>10, <2>1, <2>2, <2>4
       DEF StepEffect, Reached, RollSafe, Removes, OpAt, FreshAt, NoImage, Image
  <1>11. CASE manager.at = 11
    <2>1. At("unpend") /\ Unpend BY <1>11, StepIs, FreshPlaces
    <2>2. installed' = installed /\ Proceeds
      BY <2>1 DEF Unpend, Writes, Done, Proceeds, Removes
    <2>v. NoImage \in Nat
      BY <1>0, <1>t, <1>f, <1>11
         DEF FreshAt, NoImage, Image, Sites, UpgradeIntents, MigrationIntents
    <2>3. PendingBecomes(NoImage)
      BY <1>t, <2>1, <2>v DEF Unpend, Writes, PendingBecomes, FileRecords
    <2>4. World' /\ SelectHolds(files', host')
      BY <1>0, <1>t, <1>f, <1>11, <2>3
         DEF PendingBecomes, World, DiskHolds, Rests, Quiet, Saved, Bare, OldGone, Hooks,
         FreshHolds, FreshAt, NoImage, Image, SelectHolds
    <2> QED BY <1>0, <1>t, <1>11, <2>1, <2>2, <2>4
       DEF StepEffect, Reached, RollSafe, Removes, OpAt, FreshAt, NoImage, Image
  <1> QED BY <1>t, <1>1, <1>2, <1>3, <1>4, <1>5, <1>6, <1>7, <1>8, <1>9, <1>10, <1>11

(* Its undoing.                                                            *)
LEMMA UnfreshSteps ==
  ASSUME HostInv, manager.op = "unfresh", ManagerStep, ~UnlinkMisleads
  PROVE  StepEffect
  <1> USE UnitFacts, IntentFacts
  <1>0. Commanded(manager) /\ UnfreshAt(manager.at, manager, files, host) /\ World
    BY DEF HostInv, ManagerHolds, OpAt, NoManager, Selecting, World
  <1>t. /\ files \in FileRecords /\ host \in HostRecords
        /\ manager.image \in Image /\ manager.image \in Nat /\ manager.image = manager.intent.image
        /\ manager.edited \in Sites \cup {"no"} /\ Length(manager.op) = 3 /\ manager.at \in 1 .. 3
        /\ Len(Steps(manager.op)) = 3
    BY <1>0, UnfreshPlaces DEF World, Commanded, Image
  <1>f. /\ files.unit \in Units /\ files.oldUnit \in {"none", "plain", "guard"}
        /\ files.setup \in Nat /\ files.pending \in Nat /\ files.upgrade \in UpgradeIntents \cup {NoIntent}
        /\ files.migration \in MigrationIntents \cup {NoIntent}
        /\ files.binding \in {"none", "own", "legacy"} /\ files.site \in Sites
        /\ files.data \in {"none", "raw", "dir", "ready"}
        /\ host.loaded \in Units /\ host.loadedOld \in {"none", "plain", "guard"}
        /\ host.enabled \in BOOLEAN /\ host.enabledOld \in BOOLEAN
        /\ host.running \in Units /\ host.runningOld \in BOOLEAN /\ host.unseen \in BOOLEAN
    BY <1>t, FileTypes, HostTypes
  <1>1. CASE manager.at = 1
    <2>1. At("disable") /\ Disable BY <1>1, StepIs, UnfreshPlaces
    <2>2. installed' = installed /\ Proceeds
      BY <2>1 DEF Disable, Commands, Done, Proceeds, Removes
    <2>v. FALSE \in BOOLEAN OBVIOUS
    <2>3. EnabledBecomes(FALSE)
      BY <1>t, <2>1, <2>v DEF Disable, Commands, EnabledBecomes, HostRecords
    <2>4. World' /\ UnfreshAt(2, manager, files', host')
      BY <1>0, <1>t, <1>f, <1>1, <2>3
         DEF EnabledBecomes, World, DiskHolds, Rests, Quiet, Saved, Bare, OldGone, Hooks,
         FreshHolds, UnfreshAt, NoImage, Image
    <2> QED BY <1>0, <1>t, <1>1, <2>1, <2>2, <2>4
       DEF StepEffect, Reached, RollSafe, Removes, OpAt, UnfreshAt, NoImage, Image
  <1>2. CASE manager.at = 2
    <2>1. At("stop") /\ StopRelay BY <1>2, StepIs, UnfreshPlaces
    <2>2. installed' = installed /\ Proceeds
      BY <2>1 DEF StopRelay, Commands, Done, Proceeds, Removes
    <2>v. NoUnit \in Units BY <1>0, <1>2 DEF UnfreshAt
    <2>3. RunningBecomes(NoUnit)
      BY <1>t, <2>1, <2>v DEF StopRelay, Commands, RunningBecomes, HostRecords
    <2>4. World' /\ UnfreshAt(3, manager, files', host')
      BY <1>0, <1>t, <1>f, <1>2, <2>3
         DEF RunningBecomes, World, DiskHolds, Rests, Quiet, Saved, Bare, OldGone, Hooks,
         FreshHolds, UnfreshAt, NoImage, Image
    <2> QED BY <1>0, <1>t, <1>2, <2>1, <2>2, <2>4
       DEF StepEffect, Reached, RollSafe, Removes, OpAt, UnfreshAt, NoImage, Image
  <1>3. CASE manager.at = 3
    <2>1. At("unedit") /\ UneditRoute BY <1>3, StepIs, UnfreshPlaces
    <2>2. installed' = installed /\ Proceeds
      BY <2>1 DEF UneditRoute, Writes, Done, Proceeds, Removes
    <2>v. (IF manager.edited = "no" THEN files.site ELSE manager.edited) \in Sites
      BY <1>0, <1>t, <1>f, <1>3
         DEF UnfreshAt, NoImage, Image, Sites, UpgradeIntents, MigrationIntents
    <2>3. SiteBecomes(IF manager.edited = "no" THEN files.site ELSE manager.edited)
      BY <1>t, <2>1, <2>v DEF UneditRoute, Writes, SiteBecomes, FileRecords
    <2>4. World'
      BY <1>0, <1>t, <1>f, <1>3, <2>3
         DEF SiteBecomes, World, DiskHolds, Rests, Quiet, Saved, Bare, OldGone, Hooks, FreshHolds,
         UpgradeHolds, MigrationHolds, PreparedHolds, CommittedHolds, Fenced, UnfreshAt
    <2> QED BY <1>0, <1>t, <1>3, <2>1, <2>2, <2>4
       DEF StepEffect, Reached, RollSafe, Removes, OpAt, UnfreshAt, NoImage, Image
  <1> QED BY <1>t, <1>1, <1>2, <1>3

(* The recovery of a first setup that was not saved.                       *)
LEMMA RecoverFreshSteps ==
  ASSUME HostInv, manager.op = "recoverFresh", ManagerStep, ~UnlinkMisleads
  PROVE  StepEffect
  <1> USE UnitFacts, IntentFacts
  <1>0. Commanded(manager) /\ RecoverFreshAt(manager.at, manager, files, host) /\ World
    BY DEF HostInv, ManagerHolds, OpAt, NoManager, Selecting, World
  <1>t. /\ files \in FileRecords /\ host \in HostRecords
        /\ manager.image \in Image /\ manager.image \in Nat /\ manager.image = manager.intent.image
        /\ manager.edited \in Sites \cup {"no"} /\ Length(manager.op) = 3 /\ manager.at \in 1 .. 3
        /\ Len(Steps(manager.op)) = 3
    BY <1>0, RecoverFreshPlaces DEF World, Commanded, Image
  <1>f. /\ files.unit \in Units /\ files.oldUnit \in {"none", "plain", "guard"}
        /\ files.setup \in Nat /\ files.pending \in Nat /\ files.upgrade \in UpgradeIntents \cup {NoIntent}
        /\ files.migration \in MigrationIntents \cup {NoIntent}
        /\ files.binding \in {"none", "own", "legacy"} /\ files.site \in Sites
        /\ files.data \in {"none", "raw", "dir", "ready"}
        /\ host.loaded \in Units /\ host.loadedOld \in {"none", "plain", "guard"}
        /\ host.enabled \in BOOLEAN /\ host.enabledOld \in BOOLEAN
        /\ host.running \in Units /\ host.runningOld \in BOOLEAN /\ host.unseen \in BOOLEAN
    BY <1>t, FileTypes, HostTypes
  <1>1. CASE manager.at = 1
    <2>1. At("disable") /\ Disable BY <1>1, StepIs, RecoverFreshPlaces
    <2>2. installed' = installed /\ Proceeds
      BY <2>1 DEF Disable, Commands, Done, Proceeds, Removes
    <2>v. FALSE \in BOOLEAN OBVIOUS
    <2>3. EnabledBecomes(FALSE)
      BY <1>t, <2>1, <2>v DEF Disable, Commands, EnabledBecomes, HostRecords
    <2>4. World' /\ RecoverFreshAt(2, manager, files', host')
      BY <1>0, <1>t, <1>f, <1>1, <2>3
         DEF EnabledBecomes, World, DiskHolds, Rests, Quiet, Saved, Bare, OldGone, Hooks,
         FreshHolds, RecoverFreshAt, NoImage, Image
    <2> QED BY <1>0, <1>t, <1>1, <2>1, <2>2, <2>4
       DEF StepEffect, Reached, RollSafe, Removes, OpAt, RecoverFreshAt, NoImage, Image
  <1>2. CASE manager.at = 2
    <2>1. At("stop") /\ StopRelay BY <1>2, StepIs, RecoverFreshPlaces
    <2>2. installed' = installed /\ Proceeds
      BY <2>1 DEF StopRelay, Commands, Done, Proceeds, Removes
    <2>v. NoUnit \in Units BY <1>0, <1>2 DEF RecoverFreshAt
    <2>3. RunningBecomes(NoUnit)
      BY <1>t, <2>1, <2>v DEF StopRelay, Commands, RunningBecomes, HostRecords
    <2>4. World' /\ RecoverFreshAt(3, manager, files', host')
      BY <1>0, <1>t, <1>f, <1>2, <2>3
         DEF RunningBecomes, World, DiskHolds, Rests, Quiet, Saved, Bare, OldGone, Hooks,
         FreshHolds, RecoverFreshAt, NoImage, Image
    <2> QED BY <1>0, <1>t, <1>2, <2>1, <2>2, <2>4
       DEF StepEffect, Reached, RollSafe, Removes, OpAt, RecoverFreshAt, NoImage, Image
  <1>3. CASE manager.at = 3
    <2>1. At("removeUnit") /\ RemoveUnit BY <1>3, StepIs, RecoverFreshPlaces
    <2>2. installed' = installed /\ Proceeds
      BY <2>1 DEF RemoveUnit, Writes, Done, Proceeds, Removes
    <2>v. NoUnit \in Units
      BY <1>0, <1>t, <1>f, <1>3
         DEF RecoverFreshAt, NoImage, Image, Sites, UpgradeIntents, MigrationIntents
    <2>3. UnitBecomes(NoUnit)
      BY <1>t, <2>1, <2>v DEF RemoveUnit, Writes, UnitBecomes, FileRecords
    <2>4. World' /\ SelectHolds(files', host')
      BY <1>0, <1>t, <1>f, <1>3, <2>3
         DEF UnitBecomes, World, DiskHolds, Rests, Quiet, Saved, Bare, OldGone, Hooks, FreshHolds,
         RecoverFreshAt, NoImage, Image, SelectHolds
    <2> QED BY <1>0, <1>t, <1>3, <2>1, <2>2, <2>4
       DEF StepEffect, Reached, RollSafe, Removes, OpAt, RecoverFreshAt, NoImage, Image
  <1> QED BY <1>t, <1>1, <1>2, <1>3

(* The recovery of one that was.                                           *)
LEMMA UnpendSteps ==
  ASSUME HostInv, manager.op = "unpend", ManagerStep, ~UnlinkMisleads
  PROVE  StepEffect
  <1> USE UnitFacts, IntentFacts
  <1>0. Commanded(manager) /\ UnpendAt(manager.at, manager, files, host) /\ World
    BY DEF HostInv, ManagerHolds, OpAt, NoManager, Selecting, World
  <1>t. /\ files \in FileRecords /\ host \in HostRecords
        /\ manager.image \in Image /\ manager.image \in Nat /\ manager.image = manager.intent.image
        /\ manager.edited \in Sites \cup {"no"} /\ Length(manager.op) = 1 /\ manager.at \in 1 .. 1
        /\ Len(Steps(manager.op)) = 1
    BY <1>0, UnpendPlaces DEF World, Commanded, Image
  <1>f. /\ files.unit \in Units /\ files.oldUnit \in {"none", "plain", "guard"}
        /\ files.setup \in Nat /\ files.pending \in Nat /\ files.upgrade \in UpgradeIntents \cup {NoIntent}
        /\ files.migration \in MigrationIntents \cup {NoIntent}
        /\ files.binding \in {"none", "own", "legacy"} /\ files.site \in Sites
        /\ files.data \in {"none", "raw", "dir", "ready"}
        /\ host.loaded \in Units /\ host.loadedOld \in {"none", "plain", "guard"}
        /\ host.enabled \in BOOLEAN /\ host.enabledOld \in BOOLEAN
        /\ host.running \in Units /\ host.runningOld \in BOOLEAN /\ host.unseen \in BOOLEAN
    BY <1>t, FileTypes, HostTypes
  <1>1. CASE manager.at = 1
    <2>1. At("unpend") /\ Unpend BY <1>1, StepIs, UnpendPlaces
    <2>2. installed' = installed /\ Proceeds
      BY <2>1 DEF Unpend, Writes, Done, Proceeds, Removes
    <2>v. NoImage \in Nat
      BY <1>0, <1>t, <1>f, <1>1
         DEF UnpendAt, NoImage, Image, Sites, UpgradeIntents, MigrationIntents
    <2>3. PendingBecomes(NoImage)
      BY <1>t, <2>1, <2>v DEF Unpend, Writes, PendingBecomes, FileRecords
    <2>4. World' /\ SelectHolds(files', host')
      BY <1>0, <1>t, <1>f, <1>1, <2>3
         DEF PendingBecomes, World, DiskHolds, Rests, Quiet, Saved, Bare, OldGone, Hooks,
         FreshHolds, UnpendAt, NoImage, Image, SelectHolds
    <2> QED BY <1>0, <1>t, <1>1, <2>1, <2>2, <2>4
       DEF StepEffect, Reached, RollSafe, Removes, OpAt, UnpendAt, NoImage, Image
  <1> QED BY <1>t, <1>1

(* A confirmation.                                                         *)
LEMMA ConfirmSteps ==
  ASSUME HostInv, manager.op = "confirm", ManagerStep, ~UnlinkMisleads
  PROVE  StepEffect
  <1> USE UnitFacts, IntentFacts
  <1>0. Commanded(manager) /\ ConfirmAt(manager.at, manager, files, host) /\ World
    BY DEF HostInv, ManagerHolds, OpAt, NoManager, Selecting, World
  <1>t. /\ files \in FileRecords /\ host \in HostRecords
        /\ manager.image \in Image /\ manager.image \in Nat /\ manager.image = manager.intent.image
        /\ manager.edited \in Sites \cup {"no"} /\ Length(manager.op) = 2 /\ manager.at \in 1 .. 2
        /\ Len(Steps(manager.op)) = 2
    BY <1>0, ConfirmPlaces DEF World, Commanded, Image
  <1>f. /\ files.unit \in Units /\ files.oldUnit \in {"none", "plain", "guard"}
        /\ files.setup \in Nat /\ files.pending \in Nat /\ files.upgrade \in UpgradeIntents \cup {NoIntent}
        /\ files.migration \in MigrationIntents \cup {NoIntent}
        /\ files.binding \in {"none", "own", "legacy"} /\ files.site \in Sites
        /\ files.data \in {"none", "raw", "dir", "ready"}
        /\ host.loaded \in Units /\ host.loadedOld \in {"none", "plain", "guard"}
        /\ host.enabled \in BOOLEAN /\ host.enabledOld \in BOOLEAN
        /\ host.running \in Units /\ host.runningOld \in BOOLEAN /\ host.unseen \in BOOLEAN
    BY <1>t, FileTypes, HostTypes
  <1>1. CASE manager.at = 1
    <2>1. At("verify") /\ Verify BY <1>1, StepIs, ConfirmPlaces
    <2>2. CASE ~(Verified \/ (manager.op = "restore" /\ ~manager.intent.running))
      BY <2>1, <2>2 DEF Verify, StepEffect, Halted
    <2>3. CASE Verified \/ (manager.op = "restore" /\ ~manager.intent.running)
      <3>1. installed' = installed /\ Proceeds /\ files' = files /\ host' = host
        BY <2>1, <2>3 DEF Verify, Done, Proceeds, Removes
      <3>u. files.unit = UnitOf(manager.image, files.binding)
        BY <1>0, <1>t, <1>f
           DEF World, DiskHolds, Rests, Quiet, Saved, Bare, ConfirmAt, NoImage, Image
      <3>2. World' /\ ConfirmAt(2, manager, files', host')
        BY <1>0, <1>t, <1>f, <1>1, <2>3, <3>1, <3>u DEF World, Verified, ConfirmAt, NoImage, Image
      <3> QED BY <1>0, <1>t, <1>1, <2>1, <3>1, <3>2
         DEF StepEffect, Reached, RollSafe, Removes, OpAt, ConfirmAt, NoImage, Image
    <2> QED BY <2>2, <2>3
  <1>2. CASE manager.at = 2
    <2>1. At("enable") /\ Enable BY <1>2, StepIs, ConfirmPlaces
    <2>2. installed' = installed /\ Proceeds
      BY <2>1 DEF Enable, Commands, Done, Proceeds, Removes
    <2>v. TRUE \in BOOLEAN OBVIOUS
    <2>3. EnabledBecomes(TRUE) BY <1>t, <2>1, <2>v DEF Enable, Commands, EnabledBecomes, HostRecords
    <2>4. World' /\ SelectHolds(files', host')
      BY <1>0, <1>t, <1>f, <1>2, <2>3
         DEF EnabledBecomes, World, DiskHolds, Rests, Quiet, Saved, Bare, OldGone, Hooks,
         ConfirmAt, NoImage, Image, SelectHolds
    <2> QED BY <1>0, <1>t, <1>2, <2>1, <2>2, <2>4
       DEF StepEffect, Reached, RollSafe, Removes, OpAt, ConfirmAt, NoImage, Image
  <1> QED BY <1>t, <1>1, <1>2

(* An upgrade.                                                             *)
LEMMA UpgradeSteps ==
  ASSUME HostInv, manager.op = "upgrade", ManagerStep, ~UnlinkMisleads
  PROVE  StepEffect
  <1> USE UnitFacts, IntentFacts
  <1>0. Commanded(manager) /\ UpgradeAt(manager.at, manager, files, host) /\ World
    BY DEF HostInv, ManagerHolds, OpAt, NoManager, Selecting, World
  <1>t. /\ files \in FileRecords /\ host \in HostRecords
        /\ manager.image \in Image /\ manager.image \in Nat /\ manager.image = manager.intent.image
        /\ manager.edited \in Sites \cup {"no"} /\ Length(manager.op) = 10 /\ manager.at \in 1 .. 10
        /\ Len(Steps(manager.op)) = 10
    BY <1>0, UpgradePlaces DEF World, Commanded, Image
  <1>f. /\ files.unit \in Units /\ files.oldUnit \in {"none", "plain", "guard"}
        /\ files.setup \in Nat /\ files.pending \in Nat /\ files.upgrade \in UpgradeIntents \cup {NoIntent}
        /\ files.migration \in MigrationIntents \cup {NoIntent}
        /\ files.binding \in {"none", "own", "legacy"} /\ files.site \in Sites
        /\ files.data \in {"none", "raw", "dir", "ready"}
        /\ host.loaded \in Units /\ host.loadedOld \in {"none", "plain", "guard"}
        /\ host.enabled \in BOOLEAN /\ host.enabledOld \in BOOLEAN
        /\ host.running \in Units /\ host.runningOld \in BOOLEAN /\ host.unseen \in BOOLEAN
    BY <1>t, FileTypes, HostTypes
  <1>1. CASE manager.at = 1
    <2>1. At("journal") /\ Journal BY <1>1, StepIs, UpgradePlaces
    <2>2. installed' = installed /\ Proceeds
      BY <2>1 DEF Journal, Writes, Done, Proceeds, Removes
    <2>v. manager.intent \in UpgradeIntents \cup {NoIntent}
      BY <1>0, <1>t, <1>f, <1>1
         DEF UpgradeAt, NoImage, Image, Sites, UpgradeIntents, MigrationIntents
    <2>3. UpgradeBecomes(manager.intent)
      BY <1>t, <2>1, <2>v DEF Journal, Writes, UpgradeBecomes, FileRecords
    <2>4. World' /\ UpgradeAt(2, manager, files', host')
      BY <1>0, <1>t, <1>f, <1>1, <2>3
         DEF UpgradeBecomes, World, DiskHolds, Rests, Quiet, Saved, Bare, OldGone, Hooks,
         UpgradeHolds, UpgradeAt, NoImage, Image
    <2> QED BY <1>0, <1>t, <1>1, <2>1, <2>2, <2>4
       DEF StepEffect, Reached, RollSafe, Removes, OpAt, UpgradeAt, NoImage, Image
  <1>2. CASE manager.at = 2
    <2>1. At("edit") /\ EditRoute BY <1>2, StepIs, UpgradePlaces
    <2>2. installed' = installed /\ Proceeds
      BY <1>t, <1>2, <2>1 DEF EditRoute, Proceeds, Removes, At, HostRecords, FileRecords, Sites
    <2>v. "peer" \in Sites BY DEF Sites
    <2>3. SiteBecomes("peer")
      BY <1>t, <2>1, <2>v DEF EditRoute, SiteBecomes, FileRecords
    <2>4. World' /\ UpgradeAt(3, manager, files', host')
      BY <1>0, <1>t, <1>f, <1>2, <2>3
         DEF SiteBecomes, World, DiskHolds, Rests, Quiet, Saved, Bare, OldGone, Hooks,
         UpgradeHolds, UpgradeAt, NoImage, Image
    <2> QED BY <1>0, <1>t, <1>2, <2>1, <2>2, <2>4
       DEF StepEffect, Reached, RollSafe, Removes, OpAt, UpgradeAt, NoImage, Image
  <1>3. CASE manager.at = 3
    <2>1. At("stop") /\ StopRelay BY <1>3, StepIs, UpgradePlaces
    <2>2. installed' = installed /\ Proceeds
      BY <2>1 DEF StopRelay, Commands, Done, Proceeds, Removes
    <2>v. NoUnit \in Units BY <1>0, <1>3 DEF UpgradeAt
    <2>3. RunningBecomes(NoUnit)
      BY <1>t, <2>1, <2>v DEF StopRelay, Commands, RunningBecomes, HostRecords
    <2>4. World' /\ UpgradeAt(4, manager, files', host')
      BY <1>0, <1>t, <1>f, <1>3, <2>3
         DEF RunningBecomes, World, DiskHolds, Rests, Quiet, Saved, Bare, OldGone, Hooks,
         UpgradeHolds, UpgradeAt, NoImage, Image
    <2> QED BY <1>0, <1>t, <1>3, <2>1, <2>2, <2>4
       DEF StepEffect, Reached, RollSafe, Removes, OpAt, UpgradeAt, NoImage, Image
  <1>4. CASE manager.at = 4
    <2>1. At("unit") /\ WriteUnit BY <1>4, StepIs, UpgradePlaces
    <2>2. installed' = installed /\ Proceeds
      BY <2>1 DEF WriteUnit, Writes, Done, Proceeds, Removes
    <2>v. UnitOf(manager.image, files.binding) \in Units
      BY <1>0, <1>t, <1>f, <1>4
         DEF UpgradeAt, NoImage, Image, Sites, UpgradeIntents, MigrationIntents
    <2>3. UnitBecomes(UnitOf(manager.image, files.binding))
      BY <1>t, <2>1, <2>v DEF WriteUnit, Writes, UnitBecomes, FileRecords
    <2>4. World' /\ UpgradeAt(5, manager, files', host')
      BY <1>0, <1>t, <1>f, <1>4, <2>3
         DEF UnitBecomes, World, DiskHolds, Rests, Quiet, Saved, Bare, OldGone, Hooks,
         UpgradeHolds, UpgradeAt, NoImage, Image
    <2> QED BY <1>0, <1>t, <1>4, <2>1, <2>2, <2>4
       DEF StepEffect, Reached, RollSafe, Removes, OpAt, UpgradeAt, NoImage, Image
  <1>5. CASE manager.at = 5
    <2>1. At("reload") /\ Reload BY <1>5, StepIs, UpgradePlaces
    <2>2. installed' = installed /\ Proceeds
      BY <2>1 DEF Reload, Commands, Done, Proceeds, Removes
    <2>3. Reloads BY <1>t, <1>f, <2>1 DEF Reload, Commands, Reloads, HostRecords
    <2>4. World' /\ UpgradeAt(6, manager, files', host')
      BY <1>0, <1>t, <1>f, <1>5, <2>3
         DEF Reloads, World, DiskHolds, Rests, Quiet, Saved, Bare, OldGone, Hooks, UpgradeHolds,
         UpgradeAt, NoImage, Image
    <2> QED BY <1>0, <1>t, <1>5, <2>1, <2>2, <2>4
       DEF StepEffect, Reached, RollSafe, Removes, OpAt, UpgradeAt, NoImage, Image
  <1>6. CASE manager.at = 6
    <2>1. At("enable") /\ Enable BY <1>6, StepIs, UpgradePlaces
    <2>2. installed' = installed /\ Proceeds
      BY <2>1 DEF Enable, Commands, Done, Proceeds, Removes
    <2>v. TRUE \in BOOLEAN OBVIOUS
    <2>3. EnabledBecomes(TRUE) BY <1>t, <2>1, <2>v DEF Enable, Commands, EnabledBecomes, HostRecords
    <2>4. World' /\ UpgradeAt(7, manager, files', host')
      BY <1>0, <1>t, <1>f, <1>6, <2>3
         DEF EnabledBecomes, World, DiskHolds, Rests, Quiet, Saved, Bare, OldGone, Hooks,
         UpgradeHolds, UpgradeAt, NoImage, Image
    <2> QED BY <1>0, <1>t, <1>6, <2>1, <2>2, <2>4
       DEF StepEffect, Reached, RollSafe, Removes, OpAt, UpgradeAt, NoImage, Image
  <1>7. CASE manager.at = 7
    <2>1. At("start") /\ StartRelay BY <1>7, StepIs, UpgradePlaces
    <2>2. CASE ~Startable(host.loaded)
      BY <2>1, <2>2 DEF StartRelay, Start, StepEffect, Halted
    <2>3. CASE Startable(host.loaded)
      <3>1. installed' = installed /\ Proceeds
        BY <2>1, <2>3 DEF StartRelay, Start, Commands, Done, Proceeds, Removes
      <3>2. RunningBecomes(IF host.running = NoUnit THEN host.loaded ELSE host.running)
        BY <1>t, <1>f, <2>1, <2>3 DEF StartRelay, Start, Commands, RunningBecomes, HostRecords
      <3>3. World' /\ UpgradeAt(8, manager, files', host')
        BY <1>0, <1>t, <1>f, <1>7, <3>2
           DEF RunningBecomes, World, DiskHolds, Rests, Quiet, Saved, Bare, OldGone, Hooks,
           UpgradeHolds, UpgradeAt, NoImage, Image
      <3> QED BY <1>0, <1>t, <1>7, <2>1, <3>1, <3>3
         DEF StepEffect, Reached, RollSafe, Removes, OpAt, UpgradeAt, NoImage, Image
    <2> QED BY <2>2, <2>3
  <1>8. CASE manager.at = 8
    <2>1. At("verify") /\ Verify BY <1>8, StepIs, UpgradePlaces
    <2>2. CASE ~(Verified \/ (manager.op = "restore" /\ ~manager.intent.running))
      BY <2>1, <2>2 DEF Verify, StepEffect, Halted
    <2>3. CASE Verified \/ (manager.op = "restore" /\ ~manager.intent.running)
      <3>1. installed' = installed /\ Proceeds /\ files' = files /\ host' = host
        BY <2>1, <2>3 DEF Verify, Done, Proceeds, Removes
      <3>2. World' /\ UpgradeAt(9, manager, files', host')
        BY <1>0, <1>t, <1>f, <1>8, <2>3, <3>1 DEF World, Verified, UpgradeAt, NoImage, Image
      <3> QED BY <1>0, <1>t, <1>8, <2>1, <3>1, <3>2
         DEF StepEffect, Reached, RollSafe, Removes, OpAt, UpgradeAt, NoImage, Image
    <2> QED BY <2>2, <2>3
  <1>9. CASE manager.at = 9
    <2>1. At("save") /\ SaveSetup BY <1>9, StepIs, UpgradePlaces
    <2>2. installed' = installed /\ Proceeds
      BY <2>1 DEF SaveSetup, Writes, Done, Proceeds, Removes
    <2>v. manager.image \in Nat
      BY <1>0, <1>t, <1>f, <1>9
         DEF UpgradeAt, NoImage, Image, Sites, UpgradeIntents, MigrationIntents
    <2>3. SetupBecomes(manager.image)
      BY <1>t, <2>1, <2>v DEF SaveSetup, Writes, SetupBecomes, FileRecords
    <2>4. World' /\ UpgradeAt(10, manager, files', host')
      BY <1>0, <1>t, <1>f, <1>9, <2>3
         DEF SetupBecomes, World, DiskHolds, Rests, Quiet, Saved, Bare, OldGone, Hooks,
         UpgradeHolds, UpgradeAt, NoImage, Image
    <2> QED BY <1>0, <1>t, <1>9, <2>1, <2>2, <2>4
       DEF StepEffect, Reached, RollSafe, Removes, OpAt, UpgradeAt, NoImage, Image
  <1>10. CASE manager.at = 10
    <2>1. At("forget") /\ Forget BY <1>10, StepIs, UpgradePlaces
    <2>2. installed' = installed /\ Proceeds
      BY <2>1 DEF Forget, Writes, Done, Proceeds, Removes
    <2>v. NoIntent \in UpgradeIntents \cup {NoIntent}
      BY <1>0, <1>t, <1>f, <1>10
         DEF UpgradeAt, NoImage, Image, Sites, UpgradeIntents, MigrationIntents
    <2>3. UpgradeBecomes(NoIntent)
      BY <1>t, <2>1, <2>v DEF Forget, Writes, UpgradeBecomes, FileRecords
    <2>4. World' /\ SelectHolds(files', host')
      BY <1>0, <1>t, <1>f, <1>10, <2>3
         DEF UpgradeBecomes, World, DiskHolds, Rests, Quiet, Saved, Bare, OldGone, Hooks,
         UpgradeHolds, UpgradeAt, NoImage, Image, SelectHolds
    <2> QED BY <1>0, <1>t, <1>10, <2>1, <2>2, <2>4
       DEF StepEffect, Reached, RollSafe, Removes, OpAt, UpgradeAt, NoImage, Image
  <1> QED BY <1>t, <1>1, <1>2, <1>3, <1>4, <1>5, <1>6, <1>7, <1>8, <1>9, <1>10

(* Its rollback: it ends with the relay the journal recorded, running if   *)
(* it ran.                                                                 *)
LEMMA RestoreSteps ==
  ASSUME HostInv, manager.op = "restore", ManagerStep, ~UnlinkMisleads
  PROVE  StepEffect
  <1> USE UnitFacts, IntentFacts
  <1>0. Commanded(manager) /\ RestoreAt(manager.at, manager, files, host) /\ World
    BY DEF HostInv, ManagerHolds, OpAt, NoManager, Selecting, World
  <1>t. /\ files \in FileRecords /\ host \in HostRecords
        /\ manager.image \in Image /\ manager.image \in Nat /\ manager.image = manager.intent.image
        /\ manager.edited \in Sites \cup {"no"} /\ Length(manager.op) = 10 /\ manager.at \in 1 .. 10
        /\ Len(Steps(manager.op)) = 10
    BY <1>0, RestorePlaces DEF World, Commanded, Image
  <1>f. /\ files.unit \in Units /\ files.oldUnit \in {"none", "plain", "guard"}
        /\ files.setup \in Nat /\ files.pending \in Nat /\ files.upgrade \in UpgradeIntents \cup {NoIntent}
        /\ files.migration \in MigrationIntents \cup {NoIntent}
        /\ files.binding \in {"none", "own", "legacy"} /\ files.site \in Sites
        /\ files.data \in {"none", "raw", "dir", "ready"}
        /\ host.loaded \in Units /\ host.loadedOld \in {"none", "plain", "guard"}
        /\ host.enabled \in BOOLEAN /\ host.enabledOld \in BOOLEAN
        /\ host.running \in Units /\ host.runningOld \in BOOLEAN /\ host.unseen \in BOOLEAN
    BY <1>t, FileTypes, HostTypes
  <1>1. CASE manager.at = 1
    <2>1. At("validate") /\ Validate BY <1>1, StepIs, RestorePlaces
    <2>2. CASE ~(Recognized)
      BY <2>1, <2>2 DEF Validate, StepEffect, Halted
    <2>3. CASE Recognized
      <3>1. installed' = installed /\ Proceeds /\ files' = files /\ host' = host
        BY <2>1, <2>3 DEF Validate, Done, Proceeds, Removes
      <3>2. World' /\ RestoreAt(2, manager, files', host')
        BY <1>0, <1>t, <1>f, <1>1, <2>3, <3>1 DEF World, Verified, RestoreAt, NoImage, Image
      <3> QED BY <1>0, <1>t, <1>1, <2>1, <3>1, <3>2
         DEF StepEffect, Reached, RollSafe, Removes, OpAt, RestoreAt, NoImage, Image
    <2> QED BY <2>2, <2>3
  <1>2. CASE manager.at = 2
    <2>1. At("reroute") /\ RestoreRoute BY <1>2, StepIs, RestorePlaces
    <2>2. installed' = installed /\ Proceeds
      BY <2>1 DEF RestoreRoute, Writes, Done, Proceeds, Removes
    <2>v. manager.intent.site \in Sites
      BY <1>0, <1>t, <1>f, <1>2
         DEF RestoreAt, NoImage, Image, Sites, UpgradeIntents, MigrationIntents
    <2>3. SiteBecomes(manager.intent.site)
      BY <1>t, <2>1, <2>v DEF RestoreRoute, Writes, SiteBecomes, FileRecords
    <2>4. World' /\ RestoreAt(3, manager, files', host')
      BY <1>0, <1>t, <1>f, <1>2, <2>3
         DEF SiteBecomes, World, DiskHolds, Rests, Quiet, Saved, Bare, OldGone, Hooks,
         UpgradeHolds, RestoreAt, NoImage, Image
    <2> QED BY <1>0, <1>t, <1>2, <2>1, <2>2, <2>4
       DEF StepEffect, Reached, RollSafe, Removes, OpAt, RestoreAt, NoImage, Image
  <1>3. CASE manager.at = 3
    <2>1. At("stop") /\ StopRelay BY <1>3, StepIs, RestorePlaces
    <2>2. installed' = installed /\ Proceeds
      BY <2>1 DEF StopRelay, Commands, Done, Proceeds, Removes
    <2>v. NoUnit \in Units BY <1>0, <1>3 DEF RestoreAt
    <2>3. RunningBecomes(NoUnit)
      BY <1>t, <2>1, <2>v DEF StopRelay, Commands, RunningBecomes, HostRecords
    <2>4. World' /\ RestoreAt(4, manager, files', host')
      BY <1>0, <1>t, <1>f, <1>3, <2>3
         DEF RunningBecomes, World, DiskHolds, Rests, Quiet, Saved, Bare, OldGone, Hooks,
         UpgradeHolds, RestoreAt, NoImage, Image
    <2> QED BY <1>0, <1>t, <1>3, <2>1, <2>2, <2>4
       DEF StepEffect, Reached, RollSafe, Removes, OpAt, RestoreAt, NoImage, Image
  <1>4. CASE manager.at = 4
    <2>1. At("unit") /\ WriteUnit BY <1>4, StepIs, RestorePlaces
    <2>2. installed' = installed /\ Proceeds
      BY <2>1 DEF WriteUnit, Writes, Done, Proceeds, Removes
    <2>v. UnitOf(manager.intent.previous, files.binding) \in Units
      BY <1>0, <1>t, <1>f, <1>4
         DEF RestoreAt, NoImage, Image, Sites, UpgradeIntents, MigrationIntents
    <2>3. UnitBecomes(UnitOf(manager.intent.previous, files.binding))
      BY <1>t, <2>1, <2>v DEF WriteUnit, Writes, UnitBecomes, FileRecords
    <2>4. World' /\ RestoreAt(5, manager, files', host')
      BY <1>0, <1>t, <1>f, <1>4, <2>3
         DEF UnitBecomes, World, DiskHolds, Rests, Quiet, Saved, Bare, OldGone, Hooks,
         UpgradeHolds, RestoreAt, NoImage, Image
    <2> QED BY <1>0, <1>t, <1>4, <2>1, <2>2, <2>4
       DEF StepEffect, Reached, RollSafe, Removes, OpAt, RestoreAt, NoImage, Image
  <1>5. CASE manager.at = 5
    <2>1. At("save") /\ SaveSetup BY <1>5, StepIs, RestorePlaces
    <2>2. installed' = installed /\ Proceeds
      BY <2>1 DEF SaveSetup, Writes, Done, Proceeds, Removes
    <2>v. manager.intent.previous \in Nat
      BY <1>0, <1>t, <1>f, <1>5
         DEF RestoreAt, NoImage, Image, Sites, UpgradeIntents, MigrationIntents
    <2>3. SetupBecomes(manager.intent.previous)
      BY <1>t, <2>1, <2>v DEF SaveSetup, Writes, SetupBecomes, FileRecords
    <2>4. World' /\ RestoreAt(6, manager, files', host')
      BY <1>0, <1>t, <1>f, <1>5, <2>3
         DEF SetupBecomes, World, DiskHolds, Rests, Quiet, Saved, Bare, OldGone, Hooks,
         UpgradeHolds, RestoreAt, NoImage, Image
    <2> QED BY <1>0, <1>t, <1>5, <2>1, <2>2, <2>4
       DEF StepEffect, Reached, RollSafe, Removes, OpAt, RestoreAt, NoImage, Image
  <1>6. CASE manager.at = 6
    <2>1. At("reload") /\ Reload BY <1>6, StepIs, RestorePlaces
    <2>2. installed' = installed /\ Proceeds
      BY <2>1 DEF Reload, Commands, Done, Proceeds, Removes
    <2>3. Reloads BY <1>t, <1>f, <2>1 DEF Reload, Commands, Reloads, HostRecords
    <2>4. World' /\ RestoreAt(7, manager, files', host')
      BY <1>0, <1>t, <1>f, <1>6, <2>3
         DEF Reloads, World, DiskHolds, Rests, Quiet, Saved, Bare, OldGone, Hooks, UpgradeHolds,
         RestoreAt, NoImage, Image
    <2> QED BY <1>0, <1>t, <1>6, <2>1, <2>2, <2>4
       DEF StepEffect, Reached, RollSafe, Removes, OpAt, RestoreAt, NoImage, Image
  <1>7. CASE manager.at = 7
    <2>1. At("able") /\ Able BY <1>7, StepIs, RestorePlaces
    <2>2. installed' = installed /\ Proceeds
      BY <2>1 DEF Able, Commands, Done, Proceeds, Removes
    <2>v. manager.intent.enabled \in BOOLEAN BY <1>0, <1>7 DEF RestoreAt
    <2>3. EnabledBecomes(manager.intent.enabled)
      BY <1>t, <2>1, <2>v DEF Able, Commands, EnabledBecomes, HostRecords
    <2>4. World' /\ RestoreAt(8, manager, files', host')
      BY <1>0, <1>t, <1>f, <1>7, <2>3
         DEF EnabledBecomes, World, DiskHolds, Rests, Quiet, Saved, Bare, OldGone, Hooks,
         UpgradeHolds, RestoreAt, NoImage, Image
    <2> QED BY <1>0, <1>t, <1>7, <2>1, <2>2, <2>4
       DEF StepEffect, Reached, RollSafe, Removes, OpAt, RestoreAt, NoImage, Image
  <1>8. CASE manager.at = 8
    <2>1. At("restart") /\ Restart BY <1>8, StepIs, RestorePlaces
    <2>2. CASE manager.intent.running /\ ~Startable(host.loaded)
      BY <2>1, <2>2 DEF Restart, Start, StepEffect, Halted
    <2>3. CASE ~(manager.intent.running /\ ~Startable(host.loaded))
      <3>1. installed' = installed /\ Proceeds
        BY <2>1, <2>3 DEF Restart, Start, Commands, Done, Proceeds, Removes
      <3>2. RunningBecomes(IF manager.intent.running /\ host.running = NoUnit THEN host.loaded ELSE host.running)
        <4>1. CASE ~manager.intent.running
          <5>1. host' = [host EXCEPT !.unseen = manager.intent.unseen] /\ files' = files
            BY <2>1, <4>1 DEF Restart, Commands
          <5>2. manager.intent.unseen \in BOOLEAN BY <1>0 DEF RestoreAt, UpgradeIntents
          <5> QED BY <1>t, <1>f, <4>1, <5>1, <5>2 DEF RunningBecomes, HostRecords
        <4>2. CASE manager.intent.running
          <5>1. /\ host' = IF host.running = NoUnit
                           THEN [host EXCEPT !.running = host.loaded, !.unseen = FALSE] ELSE host
                /\ files' = files
            BY <2>1, <2>3, <4>2 DEF Restart, Start, Commands
          <5> QED BY <1>t, <1>f, <4>2, <5>1 DEF RunningBecomes, HostRecords
        <4> QED BY <4>1, <4>2
      <3>u. manager.intent.running \/ host'.unseen = manager.intent.unseen
        BY <1>t, <2>1 DEF Restart, Commands, HostRecords
      <3>3. World' /\ RestoreAt(9, manager, files', host')
        BY <1>0, <1>t, <1>f, <1>8, <3>2, <3>u
           DEF RunningBecomes, World, DiskHolds, Rests, Quiet, Saved, Bare, OldGone, Hooks,
           UpgradeHolds, RestoreAt, NoImage, Image
      <3> QED BY <1>0, <1>t, <1>8, <2>1, <3>1, <3>3
         DEF StepEffect, Reached, RollSafe, Removes, OpAt, RestoreAt, NoImage, Image
    <2> QED BY <2>2, <2>3
  <1>9. CASE manager.at = 9
    <2>1. At("verify") /\ Verify BY <1>9, StepIs, RestorePlaces
    <2>2. CASE ~(Verified \/ (manager.op = "restore" /\ ~manager.intent.running))
      BY <2>1, <2>2 DEF Verify, StepEffect, Halted
    <2>3. CASE Verified \/ (manager.op = "restore" /\ ~manager.intent.running)
      <3>1. installed' = installed /\ Proceeds /\ files' = files /\ host' = host
        BY <2>1, <2>3 DEF Verify, Done, Proceeds, Removes
      <3>2. World' /\ RestoreAt(10, manager, files', host')
        BY <1>0, <1>t, <1>f, <1>9, <2>3, <3>1 DEF World, Verified, RestoreAt, NoImage, Image
      <3> QED BY <1>0, <1>t, <1>9, <2>1, <3>1, <3>2
         DEF StepEffect, Reached, RollSafe, Removes, OpAt, RestoreAt, NoImage, Image
    <2> QED BY <2>2, <2>3
  <1>10. CASE manager.at = 10
    <2>1. At("forget") /\ Forget BY <1>10, StepIs, RestorePlaces
    <2>2. installed' = installed /\ Proceeds
      BY <2>1 DEF Forget, Writes, Done, Proceeds, Removes
    <2>v. NoIntent \in UpgradeIntents \cup {NoIntent}
      BY <1>0, <1>t, <1>f, <1>10
         DEF RestoreAt, NoImage, Image, Sites, UpgradeIntents, MigrationIntents
    <2>3. UpgradeBecomes(NoIntent)
      BY <1>t, <2>1, <2>v DEF Forget, Writes, UpgradeBecomes, FileRecords
    <2>4. World' /\ SelectHolds(files', host')
      BY <1>0, <1>t, <1>f, <1>10, <2>3
         DEF UpgradeBecomes, World, DiskHolds, Rests, Quiet, Saved, Bare, OldGone, Hooks,
         UpgradeHolds, RestoreAt, NoImage, Image, SelectHolds
    <2> QED BY <1>0, <1>t, <1>10, <2>1, <2>2, <2>4
       DEF StepEffect, Reached, RollSafe, Removes, OpAt, RestoreAt, NoImage, Image
  <1> QED BY <1>t, <1>1, <1>2, <1>3, <1>4, <1>5, <1>6, <1>7, <1>8, <1>9, <1>10

(* A migration: the old relay is stopped behind its guard before the       *)
(* managed unit exists.                                                    *)
LEMMA MigrateSteps ==
  ASSUME HostInv, manager.op = "migrate", ManagerStep, ~UnlinkMisleads
  PROVE  StepEffect
  <1> USE UnitFacts, IntentFacts
  <1>0. Commanded(manager) /\ MigrateAt(manager.at, manager, files, host) /\ World
    BY DEF HostInv, ManagerHolds, OpAt, NoManager, Selecting, World
  <1>t. /\ files \in FileRecords /\ host \in HostRecords
        /\ manager.image \in Image /\ manager.image \in Nat /\ manager.image = manager.intent.image
        /\ manager.edited \in Sites \cup {"no"} /\ Length(manager.op) = 18 /\ manager.at \in 1 .. 18
        /\ Len(Steps(manager.op)) = 18
    BY <1>0, MigratePlaces DEF World, Commanded, Image
  <1>f. /\ files.unit \in Units /\ files.oldUnit \in {"none", "plain", "guard"}
        /\ files.setup \in Nat /\ files.pending \in Nat /\ files.upgrade \in UpgradeIntents \cup {NoIntent}
        /\ files.migration \in MigrationIntents \cup {NoIntent}
        /\ files.binding \in {"none", "own", "legacy"} /\ files.site \in Sites
        /\ files.data \in {"none", "raw", "dir", "ready"}
        /\ host.loaded \in Units /\ host.loadedOld \in {"none", "plain", "guard"}
        /\ host.enabled \in BOOLEAN /\ host.enabledOld \in BOOLEAN
        /\ host.running \in Units /\ host.runningOld \in BOOLEAN /\ host.unseen \in BOOLEAN
    BY <1>t, FileTypes, HostTypes
  <1>1. CASE manager.at = 1
    <2>1. At("journal") /\ Journal BY <1>1, StepIs, MigratePlaces
    <2>2. installed' = installed /\ Proceeds
      BY <2>1 DEF Journal, Writes, Done, Proceeds, Removes
    <2>v. manager.intent \in MigrationIntents \cup {NoIntent}
      BY <1>0, <1>t, <1>f, <1>1
         DEF MigrateAt, NoImage, Image, Sites, UpgradeIntents, MigrationIntents
    <2>3. MigrationBecomes(manager.intent)
      BY <1>t, <2>1, <2>v DEF Journal, Writes, MigrationBecomes, FileRecords
    <2>4. World' /\ MigrateAt(2, manager, files', host')
      BY <1>0, <1>t, <1>f, <1>1, <2>3
         DEF MigrationBecomes, World, DiskHolds, Rests, Quiet, Saved, Bare, OldGone, Hooks,
         MigrationHolds, PreparedHolds, CommittedHolds, Fenced, MigrateAt, NoImage, Image
    <2> QED BY <1>0, <1>t, <1>1, <2>1, <2>2, <2>4
       DEF StepEffect, Reached, RollSafe, Removes, OpAt, MigrateAt, NoImage, Image
  <1>2. CASE manager.at = 2
    <2>1. At("edit") /\ EditRoute BY <1>2, StepIs, MigratePlaces
    <2>2. installed' = installed /\ Proceeds
      BY <1>t, <1>2, <2>1 DEF EditRoute, Proceeds, Removes, At, HostRecords, FileRecords, Sites
    <2>v. "peer" \in Sites BY DEF Sites
    <2>3. SiteBecomes("peer")
      BY <1>t, <2>1, <2>v DEF EditRoute, SiteBecomes, FileRecords
    <2>4. World' /\ MigrateAt(3, manager, files', host')
      BY <1>0, <1>t, <1>f, <1>2, <2>3
         DEF SiteBecomes, World, DiskHolds, Rests, Quiet, Saved, Bare, OldGone, Hooks,
         MigrationHolds, PreparedHolds, CommittedHolds, Fenced, MigrateAt, NoImage, Image
    <2> QED BY <1>0, <1>t, <1>2, <2>1, <2>2, <2>4
       DEF StepEffect, Reached, RollSafe, Removes, OpAt, MigrateAt, NoImage, Image
  <1>3. CASE manager.at = 3
    <2>1. At("guard") /\ Guard BY <1>3, StepIs, MigratePlaces
    <2>2. installed' = installed /\ Proceeds
      BY <2>1 DEF Guard, Writes, Done, Proceeds, Removes
    <2>v. "guard" \in {"none", "plain", "guard"} OBVIOUS
    <2>3. OldUnitBecomes("guard")
      BY <1>t, <2>1, <2>v DEF Guard, Writes, OldUnitBecomes, FileRecords
    <2>4. World' /\ MigrateAt(4, manager, files', host')
      BY <1>0, <1>t, <1>f, <1>3, <2>3
         DEF OldUnitBecomes, World, DiskHolds, Rests, Quiet, Saved, Bare, OldGone, Hooks,
         MigrationHolds, PreparedHolds, CommittedHolds, Fenced, MigrateAt, NoImage, Image
    <2> QED BY <1>0, <1>t, <1>3, <2>1, <2>2, <2>4
       DEF StepEffect, Reached, RollSafe, Removes, OpAt, MigrateAt, NoImage, Image
  <1>4. CASE manager.at = 4
    <2>1. At("reload") /\ Reload BY <1>4, StepIs, MigratePlaces
    <2>2. installed' = installed /\ Proceeds
      BY <2>1 DEF Reload, Commands, Done, Proceeds, Removes
    <2>3. Reloads BY <1>t, <1>f, <2>1 DEF Reload, Commands, Reloads, HostRecords
    <2>4. World' /\ MigrateAt(5, manager, files', host')
      BY <1>0, <1>t, <1>f, <1>4, <2>3
         DEF Reloads, World, DiskHolds, Rests, Quiet, Saved, Bare, OldGone, Hooks, MigrationHolds,
         PreparedHolds, CommittedHolds, Fenced, MigrateAt, NoImage, Image
    <2> QED BY <1>0, <1>t, <1>4, <2>1, <2>2, <2>4
       DEF StepEffect, Reached, RollSafe, Removes, OpAt, MigrateAt, NoImage, Image
  <1>5. CASE manager.at = 5
    <2>1. At("disableOld") /\ DisableOld BY <1>5, StepIs, MigratePlaces
    <2>2. installed' = installed /\ Proceeds
      BY <2>1 DEF DisableOld, Commands, Done, Proceeds, Removes
    <2>v. FALSE \in BOOLEAN OBVIOUS
    <2>3. EnabledOldBecomes(FALSE)
      BY <1>t, <2>1, <2>v DEF DisableOld, Commands, EnabledOldBecomes, HostRecords
    <2>4. World' /\ MigrateAt(6, manager, files', host')
      BY <1>0, <1>t, <1>f, <1>5, <2>3
         DEF EnabledOldBecomes, World, DiskHolds, Rests, Quiet, Saved, Bare, OldGone, Hooks,
         MigrationHolds, PreparedHolds, CommittedHolds, Fenced, MigrateAt, NoImage, Image
    <2> QED BY <1>0, <1>t, <1>5, <2>1, <2>2, <2>4
       DEF StepEffect, Reached, RollSafe, Removes, OpAt, MigrateAt, NoImage, Image
  <1>6. CASE manager.at = 6
    <2>1. At("stopOld") /\ StopOld BY <1>6, StepIs, MigratePlaces
    <2>2. installed' = installed /\ Proceeds
      BY <2>1 DEF StopOld, Commands, Done, Proceeds, Removes
    <2>v. FALSE \in BOOLEAN OBVIOUS
    <2>3. RunningOldBecomes(FALSE)
      BY <1>t, <2>1, <2>v DEF StopOld, Commands, RunningOldBecomes, HostRecords
    <2>4. World' /\ MigrateAt(7, manager, files', host')
      BY <1>0, <1>t, <1>f, <1>6, <2>3
         DEF RunningOldBecomes, World, DiskHolds, Rests, Quiet, Saved, Bare, OldGone, Hooks,
         MigrationHolds, PreparedHolds, CommittedHolds, Fenced, MigrateAt, NoImage, Image
    <2> QED BY <1>0, <1>t, <1>6, <2>1, <2>2, <2>4
       DEF StepEffect, Reached, RollSafe, Removes, OpAt, MigrateAt, NoImage, Image
  <1>7. CASE manager.at = 7
    <2>1. At("bind") /\ Bind BY <1>7, StepIs, MigratePlaces
    <2>2. installed' = installed /\ Proceeds
      BY <2>1 DEF Bind, Writes, Done, Proceeds, Removes
    <2>v. "legacy" \in {"none", "own", "legacy"} OBVIOUS
    <2>3. BindingBecomes("legacy")
      BY <1>t, <2>1, <2>v DEF Bind, Writes, BindingBecomes, FileRecords
    <2>4. World' /\ MigrateAt(8, manager, files', host')
      BY <1>0, <1>t, <1>f, <1>7, <2>3
         DEF BindingBecomes, World, DiskHolds, Rests, Quiet, Saved, Bare, OldGone, Hooks,
         MigrationHolds, PreparedHolds, CommittedHolds, Fenced, MigrateAt, NoImage, Image
    <2> QED BY <1>0, <1>t, <1>7, <2>1, <2>2, <2>4
       DEF StepEffect, Reached, RollSafe, Removes, OpAt, MigrateAt, NoImage, Image
  <1>8. CASE manager.at = 8
    <2>1. At("unit") /\ WriteUnit BY <1>8, StepIs, MigratePlaces
    <2>2. installed' = installed /\ Proceeds
      BY <2>1 DEF WriteUnit, Writes, Done, Proceeds, Removes
    <2>v. UnitOf(manager.image, files.binding) \in Units
      BY <1>0, <1>t, <1>f, <1>8
         DEF MigrateAt, NoImage, Image, Sites, UpgradeIntents, MigrationIntents
    <2>3. UnitBecomes(UnitOf(manager.image, files.binding))
      BY <1>t, <2>1, <2>v DEF WriteUnit, Writes, UnitBecomes, FileRecords
    <2>4. World' /\ MigrateAt(9, manager, files', host')
      BY <1>0, <1>t, <1>f, <1>8, <2>3
         DEF UnitBecomes, World, DiskHolds, Rests, Quiet, Saved, Bare, OldGone, Hooks,
         MigrationHolds, PreparedHolds, CommittedHolds, Fenced, MigrateAt, NoImage, Image
    <2> QED BY <1>0, <1>t, <1>8, <2>1, <2>2, <2>4
       DEF StepEffect, Reached, RollSafe, Removes, OpAt, MigrateAt, NoImage, Image
  <1>9. CASE manager.at = 9
    <2>1. At("reload") /\ Reload BY <1>9, StepIs, MigratePlaces
    <2>2. installed' = installed /\ Proceeds
      BY <2>1 DEF Reload, Commands, Done, Proceeds, Removes
    <2>3. Reloads BY <1>t, <1>f, <2>1 DEF Reload, Commands, Reloads, HostRecords
    <2>4. World' /\ MigrateAt(10, manager, files', host')
      BY <1>0, <1>t, <1>f, <1>9, <2>3
         DEF Reloads, World, DiskHolds, Rests, Quiet, Saved, Bare, OldGone, Hooks, MigrationHolds,
         PreparedHolds, CommittedHolds, Fenced, MigrateAt, NoImage, Image
    <2> QED BY <1>0, <1>t, <1>9, <2>1, <2>2, <2>4
       DEF StepEffect, Reached, RollSafe, Removes, OpAt, MigrateAt, NoImage, Image
  <1>10. CASE manager.at = 10
    <2>1. At("enable") /\ Enable BY <1>10, StepIs, MigratePlaces
    <2>2. installed' = installed /\ Proceeds
      BY <2>1 DEF Enable, Commands, Done, Proceeds, Removes
    <2>v. TRUE \in BOOLEAN OBVIOUS
    <2>3. EnabledBecomes(TRUE) BY <1>t, <2>1, <2>v DEF Enable, Commands, EnabledBecomes, HostRecords
    <2>4. World' /\ MigrateAt(11, manager, files', host')
      BY <1>0, <1>t, <1>f, <1>10, <2>3
         DEF EnabledBecomes, World, DiskHolds, Rests, Quiet, Saved, Bare, OldGone, Hooks,
         MigrationHolds, PreparedHolds, CommittedHolds, Fenced, MigrateAt, NoImage, Image
    <2> QED BY <1>0, <1>t, <1>10, <2>1, <2>2, <2>4
       DEF StepEffect, Reached, RollSafe, Removes, OpAt, MigrateAt, NoImage, Image
  <1>11. CASE manager.at = 11
    <2>1. At("start") /\ StartRelay BY <1>11, StepIs, MigratePlaces
    <2>2. CASE ~Startable(host.loaded)
      BY <2>1, <2>2 DEF StartRelay, Start, StepEffect, Halted
    <2>3. CASE Startable(host.loaded)
      <3>1. installed' = installed /\ Proceeds
        BY <2>1, <2>3 DEF StartRelay, Start, Commands, Done, Proceeds, Removes
      <3>2. RunningBecomes(IF host.running = NoUnit THEN host.loaded ELSE host.running)
        BY <1>t, <1>f, <2>1, <2>3 DEF StartRelay, Start, Commands, RunningBecomes, HostRecords
      <3>3. World' /\ MigrateAt(12, manager, files', host')
        BY <1>0, <1>t, <1>f, <1>11, <3>2
           DEF RunningBecomes, World, DiskHolds, Rests, Quiet, Saved, Bare, OldGone, Hooks,
           MigrationHolds, PreparedHolds, CommittedHolds, Fenced, MigrateAt, NoImage, Image
      <3> QED BY <1>0, <1>t, <1>11, <2>1, <3>1, <3>3
         DEF StepEffect, Reached, RollSafe, Removes, OpAt, MigrateAt, NoImage, Image
    <2> QED BY <2>2, <2>3
  <1>12. CASE manager.at = 12
    <2>1. At("verify") /\ Verify BY <1>12, StepIs, MigratePlaces
    <2>2. CASE ~(Verified \/ (manager.op = "restore" /\ ~manager.intent.running))
      BY <2>1, <2>2 DEF Verify, StepEffect, Halted
    <2>3. CASE Verified \/ (manager.op = "restore" /\ ~manager.intent.running)
      <3>1. installed' = installed /\ Proceeds /\ files' = files /\ host' = host
        BY <2>1, <2>3 DEF Verify, Done, Proceeds, Removes
      <3>2. World' /\ MigrateAt(13, manager, files', host')
        BY <1>0, <1>t, <1>f, <1>12, <2>3, <3>1 DEF World, Verified, MigrateAt, NoImage, Image
      <3> QED BY <1>0, <1>t, <1>12, <2>1, <3>1, <3>2
         DEF StepEffect, Reached, RollSafe, Removes, OpAt, MigrateAt, NoImage, Image
    <2> QED BY <2>2, <2>3
  <1>13. CASE manager.at = 13
    <2>1. At("save") /\ SaveSetup BY <1>13, StepIs, MigratePlaces
    <2>2. installed' = installed /\ Proceeds
      BY <2>1 DEF SaveSetup, Writes, Done, Proceeds, Removes
    <2>v. manager.image \in Nat
      BY <1>0, <1>t, <1>f, <1>13
         DEF MigrateAt, NoImage, Image, Sites, UpgradeIntents, MigrationIntents
    <2>3. SetupBecomes(manager.image)
      BY <1>t, <2>1, <2>v DEF SaveSetup, Writes, SetupBecomes, FileRecords
    <2>4. World' /\ MigrateAt(14, manager, files', host')
      BY <1>0, <1>t, <1>f, <1>13, <2>3
         DEF SetupBecomes, World, DiskHolds, Rests, Quiet, Saved, Bare, OldGone, Hooks,
         MigrationHolds, PreparedHolds, CommittedHolds, Fenced, MigrateAt, NoImage, Image
    <2> QED BY <1>0, <1>t, <1>13, <2>1, <2>2, <2>4
       DEF StepEffect, Reached, RollSafe, Removes, OpAt, MigrateAt, NoImage, Image
  <1>14. CASE manager.at = 14
    <2>1. At("commit") /\ CommitMigration BY <1>14, StepIs, MigratePlaces
    <2>2. installed' = installed /\ Proceeds
      BY <2>1 DEF CommitMigration, Writes, Done, Proceeds, Removes
    <2>j. PICK j : j = [files.migration EXCEPT !.phase = "committed"] OBVIOUS
    <2>i. j \in MigrationIntents /\ j.image = manager.image /\ j.phase = "committed"
      BY <1>0, <1>t, <1>14, <2>j DEF MigrateAt, MigrationIntents
    <2>3. MigrationBecomes(j)
      BY <1>t, <2>1, <2>j, <2>i DEF CommitMigration, Writes, MigrationBecomes, FileRecords
    <2>4. World' /\ MigrateAt(15, manager, files', host')
      BY <1>0, <1>t, <1>f, <1>14, <2>i, <2>3
         DEF MigrationBecomes, World, DiskHolds, Rests, Quiet, Saved, Bare, OldGone, Hooks,
         MigrationHolds, PreparedHolds, CommittedHolds, Fenced, MigrateAt, NoImage, Image
    <2> QED BY <1>0, <1>t, <1>14, <2>1, <2>2, <2>4
       DEF StepEffect, Reached, RollSafe, Removes, OpAt, MigrateAt, NoImage, Image
  <1>15. CASE manager.at = 15
    <2>1. At("verify") /\ Verify BY <1>15, StepIs, MigratePlaces
    <2>2. CASE ~(Verified \/ (manager.op = "restore" /\ ~manager.intent.running))
      BY <2>1, <2>2 DEF Verify, StepEffect, Halted
    <2>3. CASE Verified \/ (manager.op = "restore" /\ ~manager.intent.running)
      <3>1. installed' = installed /\ Proceeds /\ files' = files /\ host' = host
        BY <2>1, <2>3 DEF Verify, Done, Proceeds, Removes
      <3>2. World' /\ MigrateAt(16, manager, files', host')
        BY <1>0, <1>t, <1>f, <1>15, <2>3, <3>1 DEF World, Verified, MigrateAt, NoImage, Image
      <3> QED BY <1>0, <1>t, <1>15, <2>1, <3>1, <3>2
         DEF StepEffect, Reached, RollSafe, Removes, OpAt, MigrateAt, NoImage, Image
    <2> QED BY <2>2, <2>3
  <1>16. CASE manager.at = 16
    <2>1. At("removeOld") /\ RemoveOld BY <1>16, StepIs, MigratePlaces
    <2>2. installed' = installed /\ Proceeds
      BY <2>1 DEF RemoveOld, Writes, Done, Proceeds, Removes
    <2>v. "none" \in {"none", "plain", "guard"} OBVIOUS
    <2>3. OldUnitBecomes("none")
      BY <1>t, <2>1, <2>v DEF RemoveOld, Writes, OldUnitBecomes, FileRecords
    <2>4. World' /\ MigrateAt(17, manager, files', host')
      BY <1>0, <1>t, <1>f, <1>16, <2>3
         DEF OldUnitBecomes, World, DiskHolds, Rests, Quiet, Saved, Bare, OldGone, Hooks,
         MigrationHolds, PreparedHolds, CommittedHolds, Fenced, MigrateAt, NoImage, Image
    <2> QED BY <1>0, <1>t, <1>16, <2>1, <2>2, <2>4
       DEF StepEffect, Reached, RollSafe, Removes, OpAt, MigrateAt, NoImage, Image
  <1>17. CASE manager.at = 17
    <2>1. At("reload") /\ Reload BY <1>17, StepIs, MigratePlaces
    <2>2. installed' = installed /\ Proceeds
      BY <2>1 DEF Reload, Commands, Done, Proceeds, Removes
    <2>3. Reloads BY <1>t, <1>f, <2>1 DEF Reload, Commands, Reloads, HostRecords
    <2>4. World' /\ MigrateAt(18, manager, files', host')
      BY <1>0, <1>t, <1>f, <1>17, <2>3
         DEF Reloads, World, DiskHolds, Rests, Quiet, Saved, Bare, OldGone, Hooks, MigrationHolds,
         PreparedHolds, CommittedHolds, Fenced, MigrateAt, NoImage, Image
    <2> QED BY <1>0, <1>t, <1>17, <2>1, <2>2, <2>4
       DEF StepEffect, Reached, RollSafe, Removes, OpAt, MigrateAt, NoImage, Image
  <1>18. CASE manager.at = 18
    <2>1. At("forget") /\ Forget BY <1>18, StepIs, MigratePlaces
    <2>2. installed' = installed /\ Proceeds
      BY <2>1 DEF Forget, Writes, Done, Proceeds, Removes
    <2>v. NoIntent \in MigrationIntents \cup {NoIntent}
      BY <1>0, <1>t, <1>f, <1>18
         DEF MigrateAt, NoImage, Image, Sites, UpgradeIntents, MigrationIntents
    <2>3. MigrationBecomes(NoIntent)
      BY <1>t, <2>1, <2>v DEF Forget, Writes, MigrationBecomes, FileRecords
    <2>4. World' /\ SelectHolds(files', host')
      BY <1>0, <1>t, <1>f, <1>18, <2>3
         DEF MigrationBecomes, World, DiskHolds, Rests, Quiet, Saved, Bare, OldGone, Hooks,
         MigrationHolds, PreparedHolds, CommittedHolds, Fenced, MigrateAt, NoImage, Image,
         SelectHolds
    <2> QED BY <1>0, <1>t, <1>18, <2>1, <2>2, <2>4
       DEF StepEffect, Reached, RollSafe, Removes, OpAt, MigrateAt, NoImage, Image
  <1> QED BY <1>t, <1>1, <1>2, <1>3, <1>4, <1>5, <1>6, <1>7, <1>8, <1>9, <1>10, <1>11, <1>12,
    <1>13, <1>14, <1>15, <1>16, <1>17, <1>18

(* Its rollback: the managed relay is stopped and unbound before the guard *)
(* is lifted.                                                              *)
LEMMA RestoreMigrationSteps ==
  ASSUME HostInv, manager.op = "restoreMigration", ManagerStep, ~UnlinkMisleads
  PROVE  StepEffect
  <1> USE UnitFacts, IntentFacts
  <1>0. Commanded(manager) /\ RestoreMigrationAt(manager.at, manager, files, host) /\ World
    BY DEF HostInv, ManagerHolds, OpAt, NoManager, Selecting, World
  <1>t. /\ files \in FileRecords /\ host \in HostRecords
        /\ manager.image \in Image /\ manager.image \in Nat /\ manager.image = manager.intent.image
        /\ manager.edited \in Sites \cup {"no"} /\ Length(manager.op) = 13 /\ manager.at \in 1 .. 13
        /\ Len(Steps(manager.op)) = 13
    BY <1>0, RestoreMigrationPlaces DEF World, Commanded, Image
  <1>f. /\ files.unit \in Units /\ files.oldUnit \in {"none", "plain", "guard"}
        /\ files.setup \in Nat /\ files.pending \in Nat /\ files.upgrade \in UpgradeIntents \cup {NoIntent}
        /\ files.migration \in MigrationIntents \cup {NoIntent}
        /\ files.binding \in {"none", "own", "legacy"} /\ files.site \in Sites
        /\ files.data \in {"none", "raw", "dir", "ready"}
        /\ host.loaded \in Units /\ host.loadedOld \in {"none", "plain", "guard"}
        /\ host.enabled \in BOOLEAN /\ host.enabledOld \in BOOLEAN
        /\ host.running \in Units /\ host.runningOld \in BOOLEAN /\ host.unseen \in BOOLEAN
    BY <1>t, FileTypes, HostTypes
  <1>1. CASE manager.at = 1
    <2>1. At("validate") /\ Validate BY <1>1, StepIs, RestoreMigrationPlaces
    <2>2. CASE ~(Recognized)
      BY <2>1, <2>2 DEF Validate, StepEffect, Halted
    <2>3. CASE Recognized
      <3>1. installed' = installed /\ Proceeds /\ files' = files /\ host' = host
        BY <2>1, <2>3 DEF Validate, Done, Proceeds, Removes
      <3>2. World' /\ RestoreMigrationAt(2, manager, files', host')
        BY <1>0, <1>t, <1>f, <1>1, <2>3, <3>1
           DEF World, Verified, RestoreMigrationAt, NoImage, Image
      <3> QED BY <1>0, <1>t, <1>1, <2>1, <3>1, <3>2
         DEF StepEffect, Reached, RollSafe, Removes, OpAt, RestoreMigrationAt, NoImage, Image
    <2> QED BY <2>2, <2>3
  <1>2. CASE manager.at = 2
    <2>1. At("reroute") /\ RestoreRoute BY <1>2, StepIs, RestoreMigrationPlaces
    <2>2. installed' = installed /\ Proceeds
      BY <2>1 DEF RestoreRoute, Writes, Done, Proceeds, Removes
    <2>v. manager.intent.site \in Sites
      BY <1>0, <1>t, <1>f, <1>2
         DEF RestoreMigrationAt, NoImage, Image, Sites, UpgradeIntents, MigrationIntents
    <2>3. SiteBecomes(manager.intent.site)
      BY <1>t, <2>1, <2>v DEF RestoreRoute, Writes, SiteBecomes, FileRecords
    <2>4. World' /\ RestoreMigrationAt(3, manager, files', host')
      BY <1>0, <1>t, <1>f, <1>2, <2>3
         DEF SiteBecomes, World, DiskHolds, Rests, Quiet, Saved, Bare, OldGone, Hooks,
         MigrationHolds, PreparedHolds, CommittedHolds, Fenced, RestoreMigrationAt, NoImage, Image
    <2> QED BY <1>0, <1>t, <1>2, <2>1, <2>2, <2>4
       DEF StepEffect, Reached, RollSafe, Removes, OpAt, RestoreMigrationAt, NoImage, Image
  <1>3. CASE manager.at = 3
    <2>1. At("disable") /\ Disable BY <1>3, StepIs, RestoreMigrationPlaces
    <2>2. installed' = installed /\ Proceeds
      BY <2>1 DEF Disable, Commands, Done, Proceeds, Removes
    <2>v. FALSE \in BOOLEAN OBVIOUS
    <2>3. EnabledBecomes(FALSE)
      BY <1>t, <2>1, <2>v DEF Disable, Commands, EnabledBecomes, HostRecords
    <2>4. World' /\ RestoreMigrationAt(4, manager, files', host')
      BY <1>0, <1>t, <1>f, <1>3, <2>3
         DEF EnabledBecomes, World, DiskHolds, Rests, Quiet, Saved, Bare, OldGone, Hooks,
         MigrationHolds, PreparedHolds, CommittedHolds, Fenced, RestoreMigrationAt, NoImage, Image
    <2> QED BY <1>0, <1>t, <1>3, <2>1, <2>2, <2>4
       DEF StepEffect, Reached, RollSafe, Removes, OpAt, RestoreMigrationAt, NoImage, Image
  <1>4. CASE manager.at = 4
    <2>1. At("stop") /\ StopRelay BY <1>4, StepIs, RestoreMigrationPlaces
    <2>2. installed' = installed /\ Proceeds
      BY <2>1 DEF StopRelay, Commands, Done, Proceeds, Removes
    <2>v. NoUnit \in Units BY <1>0, <1>4 DEF RestoreMigrationAt
    <2>3. RunningBecomes(NoUnit)
      BY <1>t, <2>1, <2>v DEF StopRelay, Commands, RunningBecomes, HostRecords
    <2>4. World' /\ RestoreMigrationAt(5, manager, files', host')
      BY <1>0, <1>t, <1>f, <1>4, <2>3
         DEF RunningBecomes, World, DiskHolds, Rests, Quiet, Saved, Bare, OldGone, Hooks,
         MigrationHolds, PreparedHolds, CommittedHolds, Fenced, RestoreMigrationAt, NoImage, Image
    <2> QED BY <1>0, <1>t, <1>4, <2>1, <2>2, <2>4
       DEF StepEffect, Reached, RollSafe, Removes, OpAt, RestoreMigrationAt, NoImage, Image
  <1>5. CASE manager.at = 5
    <2>1. At("removeUnit") /\ RemoveUnit BY <1>5, StepIs, RestoreMigrationPlaces
    <2>2. installed' = installed /\ Proceeds
      BY <2>1 DEF RemoveUnit, Writes, Done, Proceeds, Removes
    <2>v. NoUnit \in Units
      BY <1>0, <1>t, <1>f, <1>5
         DEF RestoreMigrationAt, NoImage, Image, Sites, UpgradeIntents, MigrationIntents
    <2>3. UnitBecomes(NoUnit)
      BY <1>t, <2>1, <2>v DEF RemoveUnit, Writes, UnitBecomes, FileRecords
    <2>4. World' /\ RestoreMigrationAt(6, manager, files', host')
      BY <1>0, <1>t, <1>f, <1>5, <2>3
         DEF UnitBecomes, World, DiskHolds, Rests, Quiet, Saved, Bare, OldGone, Hooks,
         MigrationHolds, PreparedHolds, CommittedHolds, Fenced, RestoreMigrationAt, NoImage, Image
    <2> QED BY <1>0, <1>t, <1>5, <2>1, <2>2, <2>4
       DEF StepEffect, Reached, RollSafe, Removes, OpAt, RestoreMigrationAt, NoImage, Image
  <1>6. CASE manager.at = 6
    <2>1. At("unsave") /\ Unsave BY <1>6, StepIs, RestoreMigrationPlaces
    <2>2. installed' = installed /\ Proceeds
      BY <2>1 DEF Unsave, Writes, Done, Proceeds, Removes
    <2>v. NoImage \in Nat
      BY <1>0, <1>t, <1>f, <1>6
         DEF RestoreMigrationAt, NoImage, Image, Sites, UpgradeIntents, MigrationIntents
    <2>3. SetupBecomes(NoImage)
      BY <1>t, <2>1, <2>v DEF Unsave, Writes, SetupBecomes, FileRecords
    <2>4. World' /\ RestoreMigrationAt(7, manager, files', host')
      BY <1>0, <1>t, <1>f, <1>6, <2>3
         DEF SetupBecomes, World, DiskHolds, Rests, Quiet, Saved, Bare, OldGone, Hooks,
         MigrationHolds, PreparedHolds, CommittedHolds, Fenced, RestoreMigrationAt, NoImage, Image
    <2> QED BY <1>0, <1>t, <1>6, <2>1, <2>2, <2>4
       DEF StepEffect, Reached, RollSafe, Removes, OpAt, RestoreMigrationAt, NoImage, Image
  <1>7. CASE manager.at = 7
    <2>1. At("unbind") /\ Unbind BY <1>7, StepIs, RestoreMigrationPlaces
    <2>2. installed' = installed /\ Proceeds
      BY <2>1 DEF Unbind, Writes, Done, Proceeds, Removes
    <2>v. "own" \in {"none", "own", "legacy"} OBVIOUS
    <2>3. BindingBecomes("own")
      BY <1>t, <2>1, <2>v DEF Unbind, Writes, BindingBecomes, FileRecords
    <2>4. World' /\ RestoreMigrationAt(8, manager, files', host')
      BY <1>0, <1>t, <1>f, <1>7, <2>3
         DEF BindingBecomes, World, DiskHolds, Rests, Quiet, Saved, Bare, OldGone, Hooks,
         MigrationHolds, PreparedHolds, CommittedHolds, Fenced, RestoreMigrationAt, NoImage, Image
    <2> QED BY <1>0, <1>t, <1>7, <2>1, <2>2, <2>4
       DEF StepEffect, Reached, RollSafe, Removes, OpAt, RestoreMigrationAt, NoImage, Image
  <1>8. CASE manager.at = 8
    <2>1. At("unguard") /\ Unguard BY <1>8, StepIs, RestoreMigrationPlaces
    <2>2. installed' = installed /\ Proceeds
      BY <2>1 DEF Unguard, Writes, Done, Proceeds, Removes
    <2>v. "plain" \in {"none", "plain", "guard"} OBVIOUS
    <2>3. OldUnitBecomes("plain")
      BY <1>t, <2>1, <2>v DEF Unguard, Writes, OldUnitBecomes, FileRecords
    <2>4. World' /\ RestoreMigrationAt(9, manager, files', host')
      BY <1>0, <1>t, <1>f, <1>8, <2>3
         DEF OldUnitBecomes, World, DiskHolds, Rests, Quiet, Saved, Bare, OldGone, Hooks,
         MigrationHolds, PreparedHolds, CommittedHolds, Fenced, RestoreMigrationAt, NoImage, Image
    <2> QED BY <1>0, <1>t, <1>8, <2>1, <2>2, <2>4
       DEF StepEffect, Reached, RollSafe, Removes, OpAt, RestoreMigrationAt, NoImage, Image
  <1>9. CASE manager.at = 9
    <2>1. At("reload") /\ Reload BY <1>9, StepIs, RestoreMigrationPlaces
    <2>2. installed' = installed /\ Proceeds
      BY <2>1 DEF Reload, Commands, Done, Proceeds, Removes
    <2>3. Reloads BY <1>t, <1>f, <2>1 DEF Reload, Commands, Reloads, HostRecords
    <2>4. World' /\ RestoreMigrationAt(10, manager, files', host')
      BY <1>0, <1>t, <1>f, <1>9, <2>3
         DEF Reloads, World, DiskHolds, Rests, Quiet, Saved, Bare, OldGone, Hooks, MigrationHolds,
         PreparedHolds, CommittedHolds, Fenced, RestoreMigrationAt, NoImage, Image
    <2> QED BY <1>0, <1>t, <1>9, <2>1, <2>2, <2>4
       DEF StepEffect, Reached, RollSafe, Removes, OpAt, RestoreMigrationAt, NoImage, Image
  <1>10. CASE manager.at = 10
    <2>1. At("enableOld") /\ EnableOld BY <1>10, StepIs, RestoreMigrationPlaces
    <2>2. installed' = installed /\ Proceeds
      BY <2>1 DEF EnableOld, Commands, Done, Proceeds, Removes
    <2>v. TRUE \in BOOLEAN OBVIOUS
    <2>3. EnabledOldBecomes(TRUE)
      BY <1>t, <2>1, <2>v DEF EnableOld, Commands, EnabledOldBecomes, HostRecords
    <2>4. World' /\ RestoreMigrationAt(11, manager, files', host')
      BY <1>0, <1>t, <1>f, <1>10, <2>3
         DEF EnabledOldBecomes, World, DiskHolds, Rests, Quiet, Saved, Bare, OldGone, Hooks,
         MigrationHolds, PreparedHolds, CommittedHolds, Fenced, RestoreMigrationAt, NoImage, Image
    <2> QED BY <1>0, <1>t, <1>10, <2>1, <2>2, <2>4
       DEF StepEffect, Reached, RollSafe, Removes, OpAt, RestoreMigrationAt, NoImage, Image
  <1>11. CASE manager.at = 11
    <2>1. At("startOld") /\ StartOld BY <1>11, StepIs, RestoreMigrationPlaces
    <2>2. installed' = installed /\ Proceeds
      BY <2>1 DEF StartOld, Commands, Done, Proceeds, Removes
    <2>v. PICK v \in BOOLEAN : v = (host.runningOld \/ OldStartable(host.loadedOld)) OBVIOUS
    <2>3. RunningOldBecomes(v)
      BY <1>t, <2>1, <2>v DEF StartOld, Commands, RunningOldBecomes, HostRecords
    <2>4. World' /\ RestoreMigrationAt(12, manager, files', host')
      BY <1>0, <1>t, <1>f, <1>11, <2>3
         DEF RunningOldBecomes, World, DiskHolds, Rests, Quiet, Saved, Bare, OldGone, Hooks,
         MigrationHolds, PreparedHolds, CommittedHolds, Fenced, RestoreMigrationAt, NoImage, Image
    <2> QED BY <1>0, <1>t, <1>11, <2>1, <2>2, <2>4
       DEF StepEffect, Reached, RollSafe, Removes, OpAt, RestoreMigrationAt, NoImage, Image
  <1>12. CASE manager.at = 12
    <2>1. At("verifyOld") /\ VerifyOld BY <1>12, StepIs, RestoreMigrationPlaces
    <2>2. CASE ~(host.runningOld /\ files.site = manager.intent.site)
      BY <2>1, <2>2 DEF VerifyOld, StepEffect, Halted
    <2>3. CASE host.runningOld /\ files.site = manager.intent.site
      <3>1. installed' = installed /\ Proceeds /\ files' = files /\ host' = host
        BY <2>1, <2>3 DEF VerifyOld, Done, Proceeds, Removes
      <3>2. World' /\ RestoreMigrationAt(13, manager, files', host')
        BY <1>0, <1>t, <1>f, <1>12, <2>3, <3>1
           DEF World, Verified, RestoreMigrationAt, NoImage, Image
      <3> QED BY <1>0, <1>t, <1>12, <2>1, <3>1, <3>2
         DEF StepEffect, Reached, RollSafe, Removes, OpAt, RestoreMigrationAt, NoImage, Image
    <2> QED BY <2>2, <2>3
  <1>13. CASE manager.at = 13
    <2>1. At("forget") /\ Forget BY <1>13, StepIs, RestoreMigrationPlaces
    <2>2. installed' = installed /\ Proceeds
      BY <2>1 DEF Forget, Writes, Done, Proceeds, Removes
    <2>v. NoIntent \in MigrationIntents \cup {NoIntent}
      BY <1>0, <1>t, <1>f, <1>13
         DEF RestoreMigrationAt, NoImage, Image, Sites, UpgradeIntents, MigrationIntents
    <2>3. MigrationBecomes(NoIntent)
      BY <1>t, <2>1, <2>v DEF Forget, Writes, MigrationBecomes, FileRecords
    <2>4. World' /\ SelectHolds(files', host')
      BY <1>0, <1>t, <1>f, <1>13, <2>3
         DEF MigrationBecomes, World, DiskHolds, Rests, Quiet, Saved, Bare, OldGone, Hooks,
         MigrationHolds, PreparedHolds, CommittedHolds, Fenced, RestoreMigrationAt, NoImage,
         Image, SelectHolds
    <2> QED BY <1>0, <1>t, <1>13, <2>1, <2>2, <2>4
       DEF StepEffect, Reached, RollSafe, Removes, OpAt, RestoreMigrationAt, NoImage, Image
  <1> QED BY <1>t, <1>1, <1>2, <1>3, <1>4, <1>5, <1>6, <1>7, <1>8, <1>9, <1>10, <1>11, <1>12, <1>13

(* The end of a committed migration.                                       *)
LEMMA FinishSteps ==
  ASSUME HostInv, manager.op = "finish", ManagerStep, ~UnlinkMisleads
  PROVE  StepEffect
  <1> USE UnitFacts, IntentFacts
  <1>0. Commanded(manager) /\ FinishAt(manager.at, manager, files, host) /\ World
    BY DEF HostInv, ManagerHolds, OpAt, NoManager, Selecting, World
  <1>t. /\ files \in FileRecords /\ host \in HostRecords
        /\ manager.image \in Image /\ manager.image \in Nat /\ manager.image = manager.intent.image
        /\ manager.edited \in Sites \cup {"no"} /\ Length(manager.op) = 5 /\ manager.at \in 1 .. 5
        /\ Len(Steps(manager.op)) = 5
    BY <1>0, FinishPlaces DEF World, Commanded, Image
  <1>f. /\ files.unit \in Units /\ files.oldUnit \in {"none", "plain", "guard"}
        /\ files.setup \in Nat /\ files.pending \in Nat /\ files.upgrade \in UpgradeIntents \cup {NoIntent}
        /\ files.migration \in MigrationIntents \cup {NoIntent}
        /\ files.binding \in {"none", "own", "legacy"} /\ files.site \in Sites
        /\ files.data \in {"none", "raw", "dir", "ready"}
        /\ host.loaded \in Units /\ host.loadedOld \in {"none", "plain", "guard"}
        /\ host.enabled \in BOOLEAN /\ host.enabledOld \in BOOLEAN
        /\ host.running \in Units /\ host.runningOld \in BOOLEAN /\ host.unseen \in BOOLEAN
    BY <1>t, FileTypes, HostTypes
  <1>1. CASE manager.at = 1
    <2>1. At("validate") /\ Validate BY <1>1, StepIs, FinishPlaces
    <2>2. CASE ~(Recognized)
      BY <2>1, <2>2 DEF Validate, StepEffect, Halted
    <2>3. CASE Recognized
      <3>1. installed' = installed /\ Proceeds /\ files' = files /\ host' = host
        BY <2>1, <2>3 DEF Validate, Done, Proceeds, Removes
      <3>2. World' /\ FinishAt(2, manager, files', host')
        BY <1>0, <1>t, <1>f, <1>1, <2>3, <3>1 DEF World, Verified, FinishAt, NoImage, Image
      <3> QED BY <1>0, <1>t, <1>1, <2>1, <3>1, <3>2
         DEF StepEffect, Reached, RollSafe, Removes, OpAt, FinishAt, NoImage, Image
    <2> QED BY <2>2, <2>3
  <1>2. CASE manager.at = 2
    <2>1. At("verify") /\ Verify BY <1>2, StepIs, FinishPlaces
    <2>2. CASE ~(Verified \/ (manager.op = "restore" /\ ~manager.intent.running))
      BY <2>1, <2>2 DEF Verify, StepEffect, Halted
    <2>3. CASE Verified \/ (manager.op = "restore" /\ ~manager.intent.running)
      <3>1. installed' = installed /\ Proceeds /\ files' = files /\ host' = host
        BY <2>1, <2>3 DEF Verify, Done, Proceeds, Removes
      <3>u. files.unit = UnitOf(manager.image, files.binding)
        BY <1>0, <1>t, <1>f DEF World, DiskHolds, MigrationHolds, CommittedHolds, FinishAt
      <3>2. World' /\ FinishAt(3, manager, files', host')
        BY <1>0, <1>t, <1>f, <1>2, <2>3, <3>1, <3>u DEF World, Verified, FinishAt, NoImage, Image
      <3> QED BY <1>0, <1>t, <1>2, <2>1, <3>1, <3>2
         DEF StepEffect, Reached, RollSafe, Removes, OpAt, FinishAt, NoImage, Image
    <2> QED BY <2>2, <2>3
  <1>3. CASE manager.at = 3
    <2>1. At("removeOld") /\ RemoveOld BY <1>3, StepIs, FinishPlaces
    <2>2. installed' = installed /\ Proceeds
      BY <2>1 DEF RemoveOld, Writes, Done, Proceeds, Removes
    <2>v. "none" \in {"none", "plain", "guard"} OBVIOUS
    <2>3. OldUnitBecomes("none")
      BY <1>t, <2>1, <2>v DEF RemoveOld, Writes, OldUnitBecomes, FileRecords
    <2>4. World' /\ FinishAt(4, manager, files', host')
      BY <1>0, <1>t, <1>f, <1>3, <2>3
         DEF OldUnitBecomes, World, DiskHolds, Rests, Quiet, Saved, Bare, OldGone, Hooks,
         MigrationHolds, PreparedHolds, CommittedHolds, Fenced, FinishAt, NoImage, Image
    <2> QED BY <1>0, <1>t, <1>3, <2>1, <2>2, <2>4
       DEF StepEffect, Reached, RollSafe, Removes, OpAt, FinishAt, NoImage, Image
  <1>4. CASE manager.at = 4
    <2>1. At("reload") /\ Reload BY <1>4, StepIs, FinishPlaces
    <2>2. installed' = installed /\ Proceeds
      BY <2>1 DEF Reload, Commands, Done, Proceeds, Removes
    <2>3. Reloads BY <1>t, <1>f, <2>1 DEF Reload, Commands, Reloads, HostRecords
    <2>4. World' /\ FinishAt(5, manager, files', host')
      BY <1>0, <1>t, <1>f, <1>4, <2>3
         DEF Reloads, World, DiskHolds, Rests, Quiet, Saved, Bare, OldGone, Hooks, MigrationHolds,
         PreparedHolds, CommittedHolds, Fenced, FinishAt, NoImage, Image
    <2> QED BY <1>0, <1>t, <1>4, <2>1, <2>2, <2>4
       DEF StepEffect, Reached, RollSafe, Removes, OpAt, FinishAt, NoImage, Image
  <1>5. CASE manager.at = 5
    <2>1. At("forget") /\ Forget BY <1>5, StepIs, FinishPlaces
    <2>2. installed' = installed /\ Proceeds
      BY <2>1 DEF Forget, Writes, Done, Proceeds, Removes
    <2>v. NoIntent \in MigrationIntents \cup {NoIntent}
      BY <1>0, <1>t, <1>f, <1>5
         DEF FinishAt, NoImage, Image, Sites, UpgradeIntents, MigrationIntents
    <2>3. MigrationBecomes(NoIntent)
      BY <1>t, <2>1, <2>v DEF Forget, Writes, MigrationBecomes, FileRecords
    <2>4. World' /\ SelectHolds(files', host')
      BY <1>0, <1>t, <1>f, <1>5, <2>3
         DEF MigrationBecomes, World, DiskHolds, Rests, Quiet, Saved, Bare, OldGone, Hooks,
         MigrationHolds, PreparedHolds, CommittedHolds, Fenced, FinishAt, NoImage, Image,
         SelectHolds
    <2> QED BY <1>0, <1>t, <1>5, <2>1, <2>2, <2>4
       DEF StepEffect, Reached, RollSafe, Removes, OpAt, FinishAt, NoImage, Image
  <1> QED BY <1>t, <1>1, <1>2, <1>3, <1>4, <1>5

(* An uninstallation.                                                      *)
LEMMA UninstallSteps ==
  ASSUME HostInv, manager.op = "uninstall", ManagerStep, ~UnlinkMisleads
  PROVE  StepEffect
  <1> USE UnitFacts, IntentFacts
  <1>0. Commanded(manager) /\ UninstallAt(manager.at, manager, files, host) /\ World
    BY DEF HostInv, ManagerHolds, OpAt, NoManager, Selecting, World
  <1>t. /\ files \in FileRecords /\ host \in HostRecords
        /\ manager.image \in Image /\ manager.image \in Nat /\ manager.image = manager.intent.image
        /\ manager.edited \in Sites \cup {"no"} /\ Length(manager.op) = 2 /\ manager.at \in 1 .. 2
        /\ Len(Steps(manager.op)) = 2
    BY <1>0, UninstallPlaces DEF World, Commanded, Image
  <1>f. /\ files.unit \in Units /\ files.oldUnit \in {"none", "plain", "guard"}
        /\ files.setup \in Nat /\ files.pending \in Nat /\ files.upgrade \in UpgradeIntents \cup {NoIntent}
        /\ files.migration \in MigrationIntents \cup {NoIntent}
        /\ files.binding \in {"none", "own", "legacy"} /\ files.site \in Sites
        /\ files.data \in {"none", "raw", "dir", "ready"}
        /\ host.loaded \in Units /\ host.loadedOld \in {"none", "plain", "guard"}
        /\ host.enabled \in BOOLEAN /\ host.enabledOld \in BOOLEAN
        /\ host.running \in Units /\ host.runningOld \in BOOLEAN /\ host.unseen \in BOOLEAN
    BY <1>t, FileTypes, HostTypes
  <1>1. CASE manager.at = 1
    <2>1. At("disable") /\ Disable BY <1>1, StepIs, UninstallPlaces
    <2>2. installed' = installed /\ Proceeds
      BY <2>1 DEF Disable, Commands, Done, Proceeds, Removes
    <2>v. FALSE \in BOOLEAN OBVIOUS
    <2>3. EnabledBecomes(FALSE)
      BY <1>t, <2>1, <2>v DEF Disable, Commands, EnabledBecomes, HostRecords
    <2>4. World' /\ UninstallAt(2, manager, files', host')
      BY <1>0, <1>t, <1>f, <1>1, <2>3
         DEF EnabledBecomes, World, DiskHolds, Rests, Quiet, Saved, Bare, OldGone, Hooks,
         UninstallAt, NoImage, Image
    <2> QED BY <1>0, <1>t, <1>1, <2>1, <2>2, <2>4
       DEF StepEffect, Reached, RollSafe, Removes, OpAt, UninstallAt, NoImage, Image
  <1>2. CASE manager.at = 2
    <2>1. At("stop") /\ StopRelay BY <1>2, StepIs, UninstallPlaces
    <2>2. installed' = installed /\ Proceeds
      BY <2>1 DEF StopRelay, Commands, Done, Proceeds, Removes
    <2>v. NoUnit \in Units BY <1>0, <1>2 DEF UninstallAt
    <2>3. RunningBecomes(NoUnit)
      BY <1>t, <2>1, <2>v DEF StopRelay, Commands, RunningBecomes, HostRecords
    <2>4. World' /\ SelectHolds(files', host')
      BY <1>0, <1>t, <1>f, <1>2, <2>3
         DEF RunningBecomes, World, DiskHolds, Rests, Quiet, Saved, Bare, OldGone, Hooks,
         UninstallAt, NoImage, Image, SelectHolds
    <2> QED BY <1>0, <1>t, <1>2, <2>1, <2>2, <2>4
       DEF StepEffect, Reached, RollSafe, Removes, OpAt, UninstallAt, NoImage, Image
  <1> QED BY <1>t, <1>1, <1>2

(* The facts of a position depend on the command, its intent and what      *)
(* follows it, not on the route it has edited.                             *)
LEMMA SameOperation ==
  ASSUME NEW k, NEW m, NEW n, NEW f, NEW h, OpAt(k, m, f, h),
         n.op = m.op, n.image = m.image, n.intent = m.intent, n.then = m.then
  PROVE  OpAt(k, n, f, h)
  <1>1. CASE m.op = "fresh" BY <1>1 DEF OpAt, FreshAt
  <1>2. CASE m.op = "unfresh" BY <1>2 DEF OpAt, UnfreshAt
  <1>3. CASE m.op = "recoverFresh" BY <1>3 DEF OpAt, RecoverFreshAt
  <1>4. CASE m.op = "unpend" BY <1>4 DEF OpAt, UnpendAt
  <1>5. CASE m.op = "confirm" BY <1>5 DEF OpAt, ConfirmAt
  <1>6. CASE m.op = "upgrade" BY <1>6 DEF OpAt, UpgradeAt
  <1>7. CASE m.op = "restore" BY <1>7 DEF OpAt, RestoreAt
  <1>8. CASE m.op = "migrate" BY <1>8 DEF OpAt, MigrateAt
  <1>9. CASE m.op = "restoreMigration" BY <1>9 DEF OpAt, RestoreMigrationAt
  <1>10. CASE m.op = "finish" BY <1>10 DEF OpAt, FinishAt
  <1>11. CASE m.op = "uninstall" BY <1>11 DEF OpAt, UninstallAt
  <1> QED BY <1>1, <1>2, <1>3, <1>4, <1>5, <1>6, <1>7, <1>8, <1>9, <1>10, <1>11 DEF OpAt

(* A manager that takes a step other than selecting runs a command, and    *)
(* the step has the effect the lemmas above say.                           *)
LEMMA CommandSteps ==
  ASSUME HostInv, ManagerStep, ~UnlinkMisleads, manager # Selecting
  PROVE  Commanded(manager) /\ StepEffect
  <1>1. manager # NoManager
    <2> SUFFICES ASSUME manager = NoManager PROVE FALSE OBVIOUS
    <2>1. manager.at = 0 BY DEF NoManager
    <2>2. \A s : ~At(s) BY <2>1 DEF At
    <2> QED
      BY <2>2 DEF ManagerStep, MakeData, InitData, Pend, Unpend, Journal, WriteUnit, SaveSetup,
        Unsave, RemoveUnit, Guard, Unguard, RemoveOld, Bind, Unbind, CommitMigration, Forget,
        EditRoute, RestoreRoute, UneditRoute, Reload, Enable, Disable, Able, StopRelay,
        DisableOld, StopOld, EnableOld, StartRelay, Start, Restart, StartOld, Verify, VerifyOld,
        Validate, Select, Writes, Commands
  <1>2. Commanded(manager) BY <1>1 DEF HostInv, ManagerHolds
  <1>3. manager.op \in Commanding BY <1>2 DEF Commanded
  <1> QED
    BY <1>2, <1>3, FreshSteps, UnfreshSteps, RecoverFreshSteps, UnpendSteps, ConfirmSteps,
       UpgradeSteps, RestoreSteps, MigrateSteps, RestoreMigrationSteps, FinishSteps,
       UninstallSteps DEF Commanding

(* Length is the length of a command's step sequence.                      *)
LEMMA LengthIs ==
  ASSUME NEW op \in Commanding
  PROVE  Len(Steps(op)) = Length(op) /\ Length(op) \in Nat \ {0}
  BY DEF Steps, Length, Commanding, Upgrading, Migrating, Restoring

(* After a step that succeeded the manager's part of the invariant holds.  *)
LEMMA SucceededHolds ==
  ASSUME Commanded(manager), Reached,
         NEW v \in Sites \cup {"no"}, v = manager.edited \/ manager.at < Length(manager.op),
         manager' = IF v = manager.edited THEN Succeeded ELSE [Succeeded EXCEPT !.edited = v]
  PROVE  ManagerHolds'
  <1>0. /\ Len(Steps(manager.op)) = Length(manager.op) /\ Length(manager.op) \in Nat \ {0}
        /\ manager.at \in 1 .. Length(manager.op)
    BY LengthIs DEF Commanded
  <1>1. CASE manager.at < Length(manager.op)
    <2>1. manager' = [op |-> manager.op, at |-> manager.at + 1, image |-> manager.image,
                      intent |-> manager.intent, then |-> manager.then, edited |-> v]
      BY <1>0, <1>1 DEF Succeeded, Commanded
    <2>2. Commanded(manager') BY <1>0, <1>1, <2>1 DEF Commanded
    <2>3. PICK m : m = manager OBVIOUS
    <2>4. PICK n : n = manager' OBVIOUS
    <2>5. PICK f : f = files' OBVIOUS
    <2>6. PICK h : h = host' OBVIOUS
    <2>7. OpAt(m.at + 1, m, f, h) BY <1>1, <2>3, <2>5, <2>6 DEF Reached
    <2>8. n.op = m.op /\ n.image = m.image /\ n.intent = m.intent /\ n.then = m.then
          /\ n.at = m.at + 1
      BY <2>1, <2>3, <2>4
    <2>9. OpAt(n.at, n, f, h) BY <2>7, <2>8, SameOperation
    <2> QED BY <2>2, <2>4, <2>5, <2>6, <2>9 DEF ManagerHolds
  <1>2. CASE manager.at = Length(manager.op)
    <2>1. manager' = IF manager.then = "select" THEN Selecting ELSE NoManager
      BY <1>0, <1>2 DEF Succeeded
    <2>2. manager.then = "stop" \/ SelectHolds(files', host') BY <1>2 DEF Reached
    <2> QED BY <2>1, <2>2 DEF ManagerHolds
  <1> QED BY <1>0, <1>1, <1>2

(* After an error it holds as well: the rollback that starts, if one does, *)
(* finds its journal.                                                      *)
LEMMA RolledBackHolds ==
  ASSUME Commanded(manager), OpAt(manager.at, manager, files, host), RollSafe, World',
         manager' = RollsBack
  PROVE  ManagerHolds'
  <1>0. manager.at \in 1 .. Length(manager.op) /\ manager.intent.image \in Image
        /\ manager.edited \in Sites \cup {"no"}
    BY DEF Commanded
  <1>t. manager.op \in Commanding /\ manager.at \in Nat BY <1>0, LengthIs DEF Commanded
  <1>1. CASE manager.op = "fresh"
    <2>1. \A k \in 1 .. 11 : Steps(manager.op)[k] = "enable" => k = 6
      BY <1>1 DEF Steps
    <2>2. manager.at \in 1 .. 11 BY <1>0, <1>1, FreshPlaces
    <2>3. At("enable") \/ Since("enable") => manager.at >= 6
      BY <2>1, <2>2 DEF At, Since
    <2>4. \/ manager' = NoManager
          \/ \E k \in {1, 3} :
               /\ manager' = [op |-> "unfresh", at |-> k, image |-> manager.intent.image,
                              intent |-> manager.intent, then |-> "stop",
                              edited |-> manager.edited]
               /\ k = 1 => manager.at >= 6
      <3>1. PICK k \in {1, 3} : k = IF At("enable") \/ Since("enable") THEN 1 ELSE 3 OBVIOUS
      <3>2. CASE At("pend") \/ Since("pend")
        <4>1. manager' = [Running("unfresh", manager.intent, "stop") EXCEPT
                            !.edited = manager.edited, !.at = k]
          BY <1>1, <3>1, <3>2 DEF RollsBack
        <4>2. manager' = [op |-> "unfresh", at |-> k, image |-> manager.intent.image,
                          intent |-> manager.intent, then |-> "stop",
                          edited |-> manager.edited]
          BY <4>1 DEF Running
        <4>3. k = 1 => manager.at >= 6 BY <2>3, <3>1
        <4> QED BY <4>2, <4>3
      <3>3. CASE ~(At("pend") \/ Since("pend")) BY <1>1, <3>3 DEF RollsBack
      <3> QED BY <3>2, <3>3
    <2>5. CASE manager' = NoManager BY <2>5 DEF ManagerHolds
    <2>6. ASSUME NEW k \in {1, 3}, k = 1 => manager.at >= 6,
                 manager' = [op |-> "unfresh", at |-> k, image |-> manager.intent.image,
                             intent |-> manager.intent, then |-> "stop",
                             edited |-> manager.edited]
          PROVE  ManagerHolds'
      <3>1. Commanded(manager')
        BY <1>0, <2>6 DEF Commanded, Commanding, Length
      <3>2. UnfreshAt(k, manager', files', host')
        BY <1>1, <2>6 DEF UnfreshAt, RollSafe
      <3> QED BY <2>6, <3>1, <3>2 DEF ManagerHolds, OpAt
    <2> QED BY <2>4, <2>5, <2>6
  <1>2. CASE manager.op = "unfresh"
    <2>1. manager.then = "stop" BY <1>2 DEF OpAt, UnfreshAt
    <2>2. \/ manager' = NoManager
          \/ manager' = [op |-> "unfresh", at |-> 3, image |-> manager.image,
                         intent |-> manager.intent, then |-> "stop", edited |-> manager.edited]
      BY <1>2, <2>1 DEF RollsBack, Commanded
    <2>3. CASE manager' = NoManager BY <2>3 DEF ManagerHolds
    <2>4. CASE manager' = [op |-> "unfresh", at |-> 3, image |-> manager.image,
                           intent |-> manager.intent, then |-> "stop", edited |-> manager.edited]
      <3>1. Commanded(manager') BY <1>0, <2>4 DEF Commanded, Commanding, Length
      <3>2. UnfreshAt(3, manager', files', host') BY <2>4 DEF UnfreshAt
      <3> QED BY <2>4, <3>1, <3>2 DEF ManagerHolds, OpAt
    <2> QED BY <2>2, <2>3, <2>4
  <1>3. CASE manager.op = "upgrade"
    <2>1. manager.intent \in UpgradeIntents BY <1>3 DEF OpAt, UpgradeAt
    <2>2. Since("journal") => manager.at >= 2 BY <1>t DEF Since
    <2>3. \/ manager' = NoManager
          \/ /\ manager.at >= 2
             /\ manager' = [op |-> "restore", at |-> 1, image |-> manager.intent.image,
                            intent |-> manager.intent, then |-> "stop", edited |-> "no"]
      BY <1>3, <2>2 DEF RollsBack, Running
    <2>4. CASE manager' = NoManager BY <2>4 DEF ManagerHolds
    <2>5. CASE /\ manager.at >= 2
               /\ manager' = [op |-> "restore", at |-> 1, image |-> manager.intent.image,
                              intent |-> manager.intent, then |-> "stop", edited |-> "no"]
      <3>1. Commanded(manager') BY <1>0, <2>5 DEF Commanded, Commanding, Length
      <3>2. RestoreAt(1, manager', files', host') BY <1>3, <2>1, <2>5 DEF RestoreAt, RollSafe
      <3> QED BY <2>5, <3>1, <3>2 DEF ManagerHolds, OpAt
    <2> QED BY <2>3, <2>4, <2>5
  <1>4. CASE manager.op = "migrate"
    <2>1. manager.intent \in MigrationIntents /\ manager.intent.phase = "prepared"
      BY <1>4 DEF OpAt, MigrateAt
    <2>2. Since("journal") => manager.at >= 2 BY <1>t DEF Since
    <2>3. Steps(manager.op)[14] = "commit" BY <1>4 DEF Steps, Migrating
    <2>4. manager.at >= 14 => At("commit") \/ Since("commit")
      BY <1>t, <2>3 DEF At, Since
    <2>5. \/ manager' = NoManager
          \/ /\ 2 <= manager.at /\ manager.at <= 13
             /\ manager' = [op |-> "restoreMigration", at |-> 1, image |-> manager.intent.image,
                            intent |-> manager.intent, then |-> "stop", edited |-> "no"]
      BY <1>t, <1>4, <2>2, <2>4 DEF RollsBack, Running
    <2>6. CASE manager' = NoManager BY <2>6 DEF ManagerHolds
    <2>7. CASE /\ 2 <= manager.at /\ manager.at <= 13
               /\ manager' = [op |-> "restoreMigration", at |-> 1, image |-> manager.intent.image,
                              intent |-> manager.intent, then |-> "stop", edited |-> "no"]
      <3>1. Commanded(manager') BY <1>0, <2>7 DEF Commanded, Commanding, Length
      <3>2. RestoreMigrationAt(1, manager', files', host')
        BY <1>4, <2>1, <2>7, IntentFacts DEF RestoreMigrationAt, RollSafe
      <3> QED BY <2>7, <3>1, <3>2 DEF ManagerHolds, OpAt
    <2> QED BY <2>5, <2>6, <2>7
  <1>5. CASE manager.op \notin {"fresh", "unfresh", "upgrade", "migrate"}
    <2>1. manager' = NoManager BY <1>5 DEF RollsBack
    <2> QED BY <2>1 DEF ManagerHolds
  <1> QED BY <1>1, <1>2, <1>3, <1>4, <1>5

(* A step that changed nothing and failed keeps the invariant.             *)
LEMMA HaltedHolds ==
  ASSUME HostInv, Commanded(manager), Halted, installed' = installed
  PROVE  HostInv'
  <1>1. World' /\ installed' \in Image BY DEF HostInv, World, Halted
  <1>2. OpAt(manager.at, manager, files, host)
    BY DEF HostInv, ManagerHolds, Commanded, Commanding, NoManager, Selecting
  <1>3. RollSafe
    BY <1>2 DEF RollSafe, OpAt, FreshAt, UpgradeAt, MigrateAt, Halted, Commanded, NoImage, Image
  <1>4. CASE manager' = NoManager BY <1>1, <1>4 DEF HostInv, World, ManagerHolds
  <1>5. CASE manager' = RollsBack
    <2>1. ManagerHolds' BY <1>1, <1>2, <1>3, <1>5, RolledBackHolds
    <2> QED BY <1>1, <2>1 DEF HostInv, World
  <1> QED BY <1>4, <1>5 DEF Halted

(* Every step of a command keeps the invariant.                            *)
LEMMA CommandHolds ==
  ASSUME HostInv, ManagerStep, ~UnlinkMisleads, manager # Selecting
  PROVE  HostInv'
  <1>1. Commanded(manager) /\ StepEffect BY CommandSteps
  <1>2. installed' = installed BY <1>1 DEF StepEffect
  <1>3. CASE Halted BY <1>1, <1>2, <1>3, HaltedHolds
  <1>4. CASE Reached /\ Proceeds
    <2>1. World' /\ installed' \in Image BY <1>2, <1>4 DEF HostInv, Reached
    <2>2. manager.edited \in Sites \cup {"no"} BY <1>1 DEF Commanded
    <2>3. ManagerHolds'
      <3>1. CASE manager' = Succeeded
        <4>1. PICK v \in Sites \cup {"no"} : v = manager.edited BY <2>2
        <4> QED BY <1>1, <1>4, <3>1, <4>1, SucceededHolds
      <3>2. ASSUME manager.at < Length(manager.op), NEW v \in Sites \cup {"no"},
                   manager' = [Succeeded EXCEPT !.edited = v]
            PROVE  ManagerHolds'
        <4>1. CASE v # manager.edited BY <1>1, <1>4, <3>2, <4>1, SucceededHolds
        <4>2. CASE v = manager.edited
          <5>1. manager' = Succeeded
            BY <1>1, <3>2, <4>2, LengthIs DEF Succeeded, Commanded
          <5> QED BY <1>1, <1>4, <4>2, <5>1, SucceededHolds
        <4> QED BY <4>1, <4>2
      <3>3. CASE manager' = RollsBack /\ ~Removes
        <4>1. OpAt(manager.at, manager, files, host)
          BY <1>1 DEF HostInv, ManagerHolds, Commanded, Commanding, NoManager, Selecting
        <4>2. RollSafe BY <1>4, <3>3 DEF Reached
        <4> QED BY <1>1, <2>1, <3>3, <4>1, <4>2, RolledBackHolds
      <3> QED BY <1>4, <3>1, <3>2, <3>3 DEF Proceeds
    <2> QED BY <2>1, <2>3 DEF HostInv, World
  <1> QED BY <1>1, <1>3, <1>4 DEF StepEffect

(* A command that starts is at its first step.                             *)
LEMMA RunningCommands ==
  ASSUME NEW op \in Commanding, NEW j, j.image \in Image, NEW t \in {"stop", "select"}
  PROVE  /\ Commanded(Running(op, j, t)) /\ Running(op, j, t).op = op
         /\ Running(op, j, t).at = 1 /\ Running(op, j, t).image = j.image
         /\ Running(op, j, t).intent = j /\ Running(op, j, t).then = t
  BY LengthIs DEF Running, Commanded

(* The fields' types, from the invariant.                                  *)
LEMMA WorldFacts ==
  ASSUME World
  PROVE  /\ files.unit \in Units /\ files.oldUnit \in {"none", "plain", "guard"}
         /\ files.setup \in Nat /\ files.pending \in Nat /\ files.upgrade \in UpgradeIntents \cup {NoIntent}
         /\ files.migration \in MigrationIntents \cup {NoIntent}
         /\ files.binding \in {"none", "own", "legacy"} /\ files.site \in Sites
         /\ files.data \in {"none", "raw", "dir", "ready"}
         /\ host.loaded \in Units /\ host.loadedOld \in {"none", "plain", "guard"}
         /\ host.enabled \in BOOLEAN /\ host.enabledOld \in BOOLEAN
         /\ host.running \in Units /\ host.runningOld \in BOOLEAN /\ host.unseen \in BOOLEAN
  BY FileTypes, HostTypes DEF World

(* A command that starts keeps the invariant if its first position's facts *)
(* hold.                                                                   *)
LEMMA StartsHolds ==
  ASSUME World', installed' \in Image, NEW op \in Commanding, NEW j, j.image \in Image,
         NEW t \in {"stop", "select"}, manager' = Running(op, j, t),
         OpAt(1, manager', files', host')
  PROVE  HostInv'
  <1>1. Commanded(manager') /\ manager'.at = 1 BY RunningCommands
  <1> QED BY <1>1 DEF HostInv, World, ManagerHolds

(* What Select starts may start: an upgrade on a saved relay, a migration  *)
(* on an instance that owns nothing, a first setup where no old relay is   *)
(* left.                                                                   *)
LEMMA SelectKeeps ==
  ASSUME HostInv, Select
  PROVE  HostInv'
  <1>0. /\ World /\ installed \in Image /\ SelectHolds(files, host)
    BY DEF HostInv, World, ManagerHolds, Select, Selecting, NoManager, Commanded, Commanding
  <1>u. files' = files /\ host' = host /\ installed' = installed BY DEF Select
  <1>w. World' /\ installed' \in Image BY <1>0, <1>u DEF World
  <1>f. /\ files.setup \in Nat /\ files.binding \in {"none", "own", "legacy"} /\ files.site \in Sites
        /\ host.enabled \in BOOLEAN /\ host.unseen \in BOOLEAN
    BY <1>0, WorldFacts
  <1>1. CASE manager' = NoManager BY <1>1, <1>w DEF HostInv, World, ManagerHolds
  <1>2. CASE manager' = Running("confirm", Only(installed), "stop") /\ files.setup # NoImage
             /\ files.setup = installed
    <2>1. Rests(files) BY <1>0, <1>2 DEF SelectHolds, Bare, Rests
    <2>2. PICK j : j = Only(installed) OBVIOUS
    <2>3. j.image = installed BY <2>2 DEF Only
    <2>4. manager'.op = "confirm" /\ manager'.image = installed
      BY <1>0, <1>2, <2>2, <2>3, RunningCommands DEF Commanding
    <2>5. OpAt(1, manager', files', host') BY <1>2, <1>u, <2>1, <2>4 DEF OpAt, ConfirmAt
    <2> QED BY <1>0, <1>2, <1>w, <2>2, <2>3, <2>5, StartsHolds DEF Commanding
  <1>3. ASSUME NEW reading \in Readings, ReadAs(reading), files.setup # NoImage,
               manager' = Running("upgrade", UpgradeIntent(reading), "stop")
        PROVE  HostInv'
    <2>1. Rests(files) BY <1>0, <1>3 DEF SelectHolds, Bare, Rests
    <2>2. Saved(files, host) BY <1>0, <1>3, <2>1 DEF World, DiskHolds, Quiet, Bare
    <2>3. PICK j : j = UpgradeIntent(reading) OBVIOUS
    <2>4. files.setup \in Image BY <1>3, <1>f DEF NoImage, Image
    <2>a. reading.active \in BOOLEAN /\ reading.enabled \in BOOLEAN BY DEF Readings
    <2>5. j \in UpgradeIntents /\ j.image = installed /\ j.previous = files.setup
      BY <1>0, <1>f, <2>3, <2>4, <2>a DEF UpgradeIntent, UpgradeIntents
    <2>6. j.enabled => j.running \/ j.unseen
      <3>1. host.enabled => host.running # NoUnit \/ host.unseen
        BY <1>f, <2>2, <2>4, UnitFacts DEF Saved
      <3>2. reading.enabled => host.enabled BY <1>3 DEF ReadAs, Truth
      <3> QED BY <2>3, <3>1, <3>2 DEF UpgradeIntent, Truth
    <2>7. manager'.op = "upgrade" /\ manager'.intent = j
      BY <1>0, <1>3, <2>3, <2>5, RunningCommands DEF Commanding
    <2>8. OpAt(1, manager', files', host')
      BY <1>u, <2>1, <2>5, <2>6, <2>7 DEF OpAt, UpgradeAt
    <2> QED BY <1>0, <1>3, <1>w, <2>3, <2>5, <2>8, StartsHolds DEF Commanding
  <1>4. CASE manager' = Running("migrate", MigrationIntent, "stop") /\ ManualFound /\ Unowned
    <2>1. Rests(files) /\ Bare(files, host) /\ files.oldUnit = "plain" /\ files.binding # "none"
      BY <1>0, <1>4 DEF SelectHolds, Bare, Rests, Unowned, ManualFound
    <2>2. PICK j : j = MigrationIntent OBVIOUS
    <2>3. j \in MigrationIntents /\ j.image = installed /\ j.phase = "prepared"
      BY <1>0, <1>f, <2>2 DEF MigrationIntent, MigrationIntents
    <2>4. manager'.op = "migrate" /\ manager'.intent = j
      BY <1>0, <1>4, <2>2, <2>3, RunningCommands DEF Commanding
    <2>5. OpAt(1, manager', files', host')
      BY <1>u, <2>1, <2>3, <2>4 DEF OpAt, MigrateAt, Bare
    <2> QED BY <1>0, <1>4, <1>w, <2>2, <2>3, <2>5, StartsHolds DEF Commanding
  <1>5. CASE /\ manager' = Running("fresh", Only(installed), "stop")
             /\ files.setup = NoImage /\ ~host.runningOld /\ host.running = NoUnit
    <2>1. Bare(files, host) /\ OldGone(files, host) /\ files.binding = "own"
      <3>1. CASE files.pending = NoImage
        BY <1>0, <1>f, <1>5, <3>1 DEF World, DiskHolds, SelectHolds, Rests, Quiet, Saved
      <3>2. CASE files.pending # NoImage
        BY <1>0, <3>2 DEF World, DiskHolds, SelectHolds, FreshHolds
      <3> QED BY <3>1, <3>2
    <2>2. PICK j : j = Only(installed) OBVIOUS
    <2>3. j.image = installed BY <2>2 DEF Only
    <2>4. manager'.op = "fresh" BY <1>0, <1>5, <2>2, <2>3, RunningCommands DEF Commanding
    <2>5. FreshAt(1, manager', files', host')
      BY <1>0, <1>u, <2>1 DEF FreshAt, SelectHolds
    <2>6. OpAt(1, manager', files', host') BY <2>4, <2>5 DEF OpAt
    <2> QED BY <1>0, <1>5, <1>w, <2>2, <2>3, <2>6, StartsHolds DEF Commanding
  <1> QED BY <1>1, <1>2, <1>3, <1>4, <1>5 DEF Select, UpgradeOrConfirm, MigrateOrSetUp

(* Setup starts the recovery the journal on disk asks for, and reserves    *)
(* the instance only where it owns nothing.                                *)
LEMMA SetupKeeps ==
  ASSUME HostInv, Setup
  PROVE  HostInv'
  <1>0. World /\ installed \in Image BY DEF HostInv, World
  <1>f. /\ files.setup \in Nat /\ files.pending \in Nat
        /\ files.upgrade \in UpgradeIntents \cup {NoIntent}
        /\ files.migration \in MigrationIntents \cup {NoIntent}
        /\ files.binding \in {"none", "own", "legacy"}
    BY <1>0, WorldFacts
  <1>1. /\ files.binding # "none" => files' = files
        /\ files.binding = "none" =>
             /\ Rests(files) /\ Bare(files, host) /\ BindingBecomes("own")
    <2>1. CASE files.binding # "none" BY <2>1 DEF Setup, Reserved
    <2>2. CASE files.binding = "none"
      <3>1. Rests(files)
        BY <1>0, <2>2 DEF World, DiskHolds, Rests, FreshHolds, UpgradeHolds, Hooks, MigrationHolds
      <3>2. Bare(files, host) BY <1>0, <2>2, <3>1 DEF World, DiskHolds, Quiet, Saved, Hooks
      <3>3. files' = [files EXCEPT !.binding = "own"] /\ host' = host
        BY <2>2 DEF Setup, Reserved
      <3>4. BindingBecomes("own") BY <1>0, <3>3 DEF World, FileRecords, BindingBecomes
      <3> QED BY <2>2, <3>1, <3>2, <3>4
    <2> QED BY <2>1, <2>2
  <1>2. /\ files'.setup = files.setup /\ files'.pending = files.pending
        /\ files'.upgrade = files.upgrade /\ files'.migration = files.migration
        /\ files'.unit = files.unit /\ files'.binding # "none" /\ host' = host
    BY <1>1 DEF BindingBecomes, Setup
  <1>w. World' /\ installed' \in Image
    <2>1. CASE files.binding # "none" BY <1>0, <1>1, <2>1 DEF World, Setup
    <2>2. CASE files.binding = "none"
      BY <1>0, <1>1, <2>2 DEF World, DiskHolds, Rests, Quiet, Bare, OldGone, BindingBecomes, Setup
    <2> QED BY <2>1, <2>2
  <1>3. CASE files.migration # NoIntent
    <2>1. files.migration \in MigrationIntents BY <1>f, <1>3
    <2>2. PICK j : j = files.migration OBVIOUS
    <2>3. j.image \in Image /\ j.phase \in {"prepared", "committed"} BY <2>1, <2>2, IntentFacts
    <2>4. CASE files.migration.phase = "committed"
      <3>1. manager' = Running("finish", j, "stop") BY <1>3, <2>2, <2>4 DEF Setup
      <3>2. manager'.op = "finish" /\ manager'.intent = j
        BY <2>3, <3>1, RunningCommands DEF Commanding
      <3>3. OpAt(1, manager', files', host') BY <1>2, <1>3, <2>2, <2>4, <3>2 DEF OpAt, FinishAt
      <3> QED BY <1>w, <2>3, <3>1, <3>3, StartsHolds DEF Commanding
    <2>5. CASE files.migration.phase = "prepared"
      <3>1. manager' = Running("restoreMigration", j, "select") BY <1>3, <2>2, <2>5 DEF Setup
      <3>2. manager'.op = "restoreMigration" /\ manager'.intent = j
        BY <2>3, <3>1, RunningCommands DEF Commanding
      <3>3. OpAt(1, manager', files', host')
        BY <1>2, <1>3, <2>2, <2>5, <3>2 DEF OpAt, RestoreMigrationAt
      <3> QED BY <1>w, <2>3, <3>1, <3>3, StartsHolds DEF Commanding
    <2> QED BY <2>2, <2>3, <2>4, <2>5
  <1>4. CASE files.migration = NoIntent /\ files.pending # NoImage
    <2>1. manager' = RecoverFresh BY <1>4 DEF Setup
    <2>2. PICK j : j = Only(installed) OBVIOUS
    <2>3. j.image \in Image BY <1>0, <2>2 DEF Only
    <2>4. FreshHolds(files, host) BY <1>0, <1>4 DEF World, DiskHolds
    <2>5. CASE files.setup = files.pending
      <3>1. manager' = Running("unpend", j, "select") BY <2>1, <2>2, <2>5 DEF RecoverFresh
      <3>2. manager'.op = "unpend" BY <2>3, <3>1, RunningCommands DEF Commanding
      <3>3. OpAt(1, manager', files', host') BY <1>2, <1>4, <2>5, <3>2 DEF OpAt, UnpendAt
      <3> QED BY <1>w, <2>3, <3>1, <3>3, StartsHolds DEF Commanding
    <2>6. CASE files.setup # files.pending /\ files.unit = NoUnit
      <3>1. manager' = Selecting BY <2>1, <2>6 DEF RecoverFresh
      <3>2. SelectHolds(files', host')
        BY <1>2, <2>4, <2>6 DEF SelectHolds, FreshHolds, Bare
      <3> QED BY <1>w, <3>1, <3>2 DEF HostInv, World, ManagerHolds
    <2>7. CASE files.setup # files.pending /\ files.unit # NoUnit
      <3>1. manager' = Running("recoverFresh", j, "select") BY <2>1, <2>2, <2>7 DEF RecoverFresh
      <3>2. manager'.op = "recoverFresh" BY <2>3, <3>1, RunningCommands DEF Commanding
      <3>3. OpAt(1, manager', files', host') BY <1>2, <1>4, <2>7, <3>2 DEF OpAt, RecoverFreshAt
      <3> QED BY <1>w, <2>3, <3>1, <3>3, StartsHolds DEF Commanding
    <2> QED BY <2>5, <2>6, <2>7
  <1>5. CASE files.migration = NoIntent /\ files.pending = NoImage /\ files.upgrade # NoIntent
    <2>1. PICK j : j = files.upgrade OBVIOUS
    <2>2. j \in UpgradeIntents /\ j.image \in Image BY <1>f, <1>5, <2>1, IntentFacts
    <2>3. manager' = Running("restore", j, "select") BY <1>5, <2>1 DEF Setup
    <2>4. manager'.op = "restore" /\ manager'.intent = j
      BY <2>2, <2>3, RunningCommands DEF Commanding
    <2>5. OpAt(1, manager', files', host') BY <1>2, <2>1, <2>2, <2>4 DEF OpAt, RestoreAt
    <2> QED BY <1>w, <2>2, <2>3, <2>5, StartsHolds DEF Commanding
  <1>6. CASE files.migration = NoIntent /\ files.pending = NoImage /\ files.upgrade = NoIntent
    <2>1. manager' = Selecting BY <1>6 DEF Setup
    <2>2. SelectHolds(files', host') BY <1>2, <1>6 DEF SelectHolds
    <2> QED BY <1>w, <2>1, <2>2 DEF HostInv, World, ManagerHolds
  <1> QED BY <1>3, <1>4, <1>5, <1>6

(* An uninstallation starts from a saved relay.                            *)
LEMMA UninstallKeeps ==
  ASSUME HostInv, Uninstall
  PROVE  HostInv'
  <1>0. World /\ installed \in Image BY DEF HostInv, World
  <1>1. files' = files /\ host' = host /\ installed' = installed BY DEF Uninstall
  <1>2. Rests(files) /\ files.setup # NoImage BY DEF Uninstall, Journalled, Rests
  <1>3. PICK j : j = Only(files.setup) OBVIOUS
  <1>4. j.image \in Image
    BY <1>0, <1>2, <1>3, WorldFacts DEF Only, NoImage, Image
  <1>5. manager' = Running("uninstall", j, "stop") BY <1>3 DEF Uninstall
  <1>6. manager'.op = "uninstall" BY <1>4, <1>5, RunningCommands DEF Commanding
  <1>7. OpAt(1, manager', files', host') BY <1>1, <1>2, <1>6 DEF OpAt, UninstallAt
  <1>8. World' /\ installed' \in Image BY <1>0, <1>1 DEF World
  <1> QED BY <1>4, <1>5, <1>7, <1>8, StartsHolds DEF Commanding

(* What a boot makes of the host.                                          *)
Booted ==
  /\ host' \in HostRecords /\ files' = files
  /\ host'.loaded = files.unit /\ host'.loadedOld = files.oldUnit
  /\ host'.enabled = host.enabled /\ host'.enabledOld = host.enabledOld
  /\ host.enabled /\ files.unit # NoUnit /\ Hooks(files) => host'.running = files.unit
  /\ host'.running # NoUnit => host.enabled /\ files.unit # NoUnit /\ host'.running = files.unit
  /\ host.enabledOld /\ files.oldUnit = "plain" => host'.runningOld
  /\ host'.runningOld =>
       files.oldUnit = "plain" \/ (files.oldUnit = "guard" /\ files.migration = NoIntent)

(* A power loss keeps the invariant: systemd starts what is enabled, and   *)
(* the clause of the journal on disk says that this is at most one relay   *)
(* per data directory.                                                     *)
LEMMA PowerLossKeeps ==
  ASSUME HostInv, PowerLoss
  PROVE  HostInv'
  <1>0. World /\ installed \in Image BY DEF HostInv, World
  <1>f. /\ files.unit \in Units /\ files.oldUnit \in {"none", "plain", "guard"}
        /\ files.setup \in Nat /\ files.pending \in Nat
        /\ files.upgrade \in UpgradeIntents \cup {NoIntent}
        /\ files.migration \in MigrationIntents \cup {NoIntent}
        /\ files.binding \in {"none", "own", "legacy"}
        /\ host.enabled \in BOOLEAN /\ host.enabledOld \in BOOLEAN
    BY <1>0, WorldFacts
  <1>1. Booted
    <2>1. files' = files /\ host' = Boots BY DEF PowerLoss
    <2>2. PICK r : r = IF host.enabled /\ files.unit # NoUnit /\ Hooks(files)
                       THEN files.unit ELSE NoUnit
      OBVIOUS
    <2>3. PICK o : o = (host.enabledOld
                         /\ (files.oldUnit = "plain"
                              \/ (files.oldUnit = "guard" /\ files.migration = NoIntent)))
      OBVIOUS
    <2>u. PICK u : u = (host.unseen /\ ~(host.enabled /\ files.unit # NoUnit /\ Hooks(files)))
      OBVIOUS
    <2>4. r \in Units /\ o \in BOOLEAN /\ u \in BOOLEAN BY <1>f, <2>2, <2>3, <2>u, UnitFacts
    <2>5. host' = [host EXCEPT !.loaded = files.unit, !.loadedOld = files.oldUnit,
                               !.running = r, !.runningOld = o, !.unseen = u]
      BY <2>1, <2>2, <2>3, <2>u DEF Boots, Startable, HookPasses, Hooks, OldStartable
    <2>6. /\ host' \in HostRecords /\ host'.loaded = files.unit
          /\ host'.loadedOld = files.oldUnit /\ host'.enabled = host.enabled
          /\ host'.enabledOld = host.enabledOld /\ host'.running = r /\ host'.runningOld = o
      BY <1>0, <1>f, <2>4, <2>5 DEF World, HostRecords
    <2>7. /\ host.enabled /\ files.unit # NoUnit /\ Hooks(files) => r = files.unit
          /\ r # NoUnit => host.enabled /\ files.unit # NoUnit /\ r = files.unit
      BY <2>2
    <2>8. /\ host.enabledOld /\ files.oldUnit = "plain" => o
          /\ o => files.oldUnit = "plain" \/ (files.oldUnit = "guard" /\ files.migration = NoIntent)
      BY <2>3
    <2> QED BY <2>1, <2>6, <2>7, <2>8 DEF Booted
  <1> USE UnitFacts, IntentFacts
  <1>2. Rests(files) => Quiet(files', host')
    <2> SUFFICES ASSUME Rests(files) PROVE Quiet(files', host') OBVIOUS
    <2>1. Quiet(files, host) BY <1>0 DEF World, DiskHolds
    <2>2. CASE Saved(files, host) /\ OldGone(files, host)
      BY <1>f, <1>1, <2>2 DEF Booted, Quiet, Saved, OldGone
    <2>3. CASE Bare(files, host) /\ files.binding # "legacy"
                /\ (OldGone(files, host)
                     \/ (files.oldUnit = "plain" /\ host.runningOld /\ host.enabledOld))
      BY <1>f, <1>1, <2>3 DEF Booted, Quiet, Bare, OldGone
    <2> QED BY <2>1, <2>2, <2>3 DEF Quiet
  <1>3. files.pending # NoImage => FreshHolds(files', host')
    BY <1>0, <1>f, <1>1 DEF World, DiskHolds, FreshHolds, Booted, Saved, OldGone, Bare
  <1>4. files.upgrade # NoIntent => UpgradeHolds(files', host')
    BY <1>0, <1>f, <1>1 DEF World, DiskHolds, UpgradeHolds, Booted, OldGone
  <1>5. files.migration # NoIntent => MigrationHolds(files', host')
    BY <1>0, <1>f, <1>1 DEF World, DiskHolds, MigrationHolds, PreparedHolds, CommittedHolds,
       Fenced, Booted
  <1>6. DiskHolds(files', host') BY <1>1, <1>2, <1>3, <1>4, <1>5 DEF DiskHolds, Booted
  <1>7. manager' = NoManager /\ installed' = installed BY DEF PowerLoss
  <1> QED BY <1>0, <1>1, <1>6, <1>7 DEF HostInv, World, ManagerHolds, Booted

(* Starting the old unit by hand keeps it: the unit can only be started    *)
(* while a prepared migration has not yet fenced it.                       *)
LEMMA AdministratorKeeps ==
  ASSUME HostInv, AdministratorStartsOld
  PROVE  HostInv'
  <1>0. World /\ installed \in Image BY DEF HostInv, World
  <1>1. RunningOldBecomes(TRUE)
    BY <1>0 DEF AdministratorStartsOld, World, HostRecords, RunningOldBecomes
  <1>2. manager' = manager /\ installed' = installed BY DEF AdministratorStartsOld
  <1>3. /\ ~host.runningOld
        /\ host.loadedOld = "plain" \/ (host.loadedOld = "guard" /\ files.migration = NoIntent)
    BY DEF AdministratorStartsOld, OldStartable
  <1>4. /\ ~Rests(files) /\ files.pending = NoImage /\ files.upgrade = NoIntent
        /\ ~OldGone(files, host)
    BY <1>0, <1>3 DEF World, DiskHolds, Quiet, FreshHolds, UpgradeHolds, OldGone
  <1>5. files.migration # NoIntent BY <1>4 DEF Rests
  <1>6. MigrationHolds(files', host')
    BY <1>0, <1>1, <1>3, <1>5
       DEF World, DiskHolds, MigrationHolds, PreparedHolds, CommittedHolds, Fenced,
       RunningOldBecomes
  <1>7. DiskHolds(files', host')
    BY <1>1, <1>4, <1>5, <1>6 DEF DiskHolds, RunningOldBecomes, Rests
  <1>8. ManagerHolds'
    <2>1. CASE manager = NoManager BY <1>2, <2>1 DEF ManagerHolds
    <2>2. CASE manager = Selecting
      BY <1>5, <2>2
         DEF HostInv, ManagerHolds, SelectHolds, NoManager, Selecting, Commanded, Commanding
    <2>3. CASE Commanded(manager) /\ OpAt(manager.at, manager, files, host)
      <3>1. OpAt(manager.at, manager, files', host')
        <4>0. manager.op \in Commanding /\ manager.at \in 1 .. Length(manager.op)
          BY <2>3 DEF Commanded
        <4>a. manager.at \in Nat BY <4>0, LengthIs
        <4>1. CASE manager.op = "fresh" BY <1>4, <2>3, <4>1 DEF OpAt, FreshAt
        <4>2. CASE manager.op = "unfresh"
          BY <1>1, <2>3, <4>2 DEF OpAt, UnfreshAt, RunningOldBecomes
        <4>3. CASE manager.op \in {"recoverFresh", "unpend"}
          BY <1>4, <2>3, <4>3 DEF OpAt, RecoverFreshAt, UnpendAt
        <4>4. CASE manager.op \in {"confirm", "uninstall"}
          BY <1>4, <2>3, <4>4 DEF OpAt, ConfirmAt, UninstallAt
        <4>5. CASE manager.op = "upgrade"
          BY <1>1, <2>3, <4>5 DEF OpAt, UpgradeAt, RunningOldBecomes
        <4>6. CASE manager.op = "restore"
          BY <1>1, <2>3, <4>6 DEF OpAt, RestoreAt, RunningOldBecomes
        <4>7. CASE manager.op = "migrate"
          <5>1. MigrateAt(manager.at, manager, files, host) BY <2>3, <4>7 DEF OpAt
          <5>2. manager.at <= 18 BY <4>0, <4>7, MigratePlaces
          <5>3. manager.at < 7 BY <1>3, <1>5, <4>a, <5>1, <5>2 DEF MigrateAt
          <5>4. MigrateAt(manager.at, manager, files', host')
            BY <1>1, <4>a, <5>1, <5>3 DEF MigrateAt, Bare, RunningOldBecomes
          <5> QED BY <4>7, <5>4 DEF OpAt
        <4>8. CASE manager.op = "restoreMigration"
          BY <1>1, <2>3, <4>8 DEF OpAt, RestoreMigrationAt, RunningOldBecomes
        <4>9. CASE manager.op = "finish"
          BY <1>1, <2>3, <4>9 DEF OpAt, FinishAt, RunningOldBecomes
        <4> QED BY <4>0, <4>1, <4>2, <4>3, <4>4, <4>5, <4>6, <4>7, <4>8, <4>9 DEF Commanding
      <3> QED BY <1>2, <2>3, <3>1 DEF ManagerHolds
    <2> QED BY <2>1, <2>2, <2>3 DEF HostInv, ManagerHolds
  <1> QED BY <1>0, <1>1, <1>2, <1>7, <1>8 DEF HostInv, World, RunningOldBecomes

(* The invariant holds at the start.                                       *)
LEMMA HostInitial == RelayInit => HostInv
  <1> SUFFICES ASSUME RelayInit PROVE HostInv OBVIOUS
  <1> USE UnitFacts
  <1>1. manager = NoManager /\ installed = 1 BY DEF RelayInit
  <1>2. PICK found \in {"nothing", "manual", "managed"} :
          LET manual == found = "manual"
              managed == found = "managed"
              first == IF managed THEN UnitOf(1, "own") ELSE NoUnit
              oldUnit == IF manual THEN "plain" ELSE "none" IN
          /\ files = [unit |-> first, oldUnit |-> oldUnit, setup |-> first.image,
                      pending |-> NoImage, upgrade |-> NoIntent, migration |-> NoIntent,
                      binding |-> IF managed THEN "own" ELSE "none",
                      site |-> IF found = "nothing" THEN "none" ELSE "plain",
                      data |-> IF managed THEN "ready" ELSE "none"]
          /\ host = [loaded |-> first, loadedOld |-> oldUnit, enabled |-> managed,
                     enabledOld |-> manual, running |-> first, runningOld |-> manual,
                     unseen |-> FALSE]
    BY DEF RelayInit
  <1>3. 1 \in Image BY DEF Image
  <1>4. files \in FileRecords /\ host \in HostRecords
    BY <1>2, <1>3 DEF FileRecords, HostRecords, Sites, NoImage
  <1>5. CASE found = "nothing"
    BY <1>1, <1>2, <1>3, <1>4, <1>5
       DEF HostInv, ManagerHolds, DiskHolds, Quiet, Bare, OldGone, NoImage
  <1>6. CASE found = "manual"
    BY <1>1, <1>2, <1>3, <1>4, <1>6 DEF HostInv, ManagerHolds, DiskHolds, Quiet, Bare, NoImage
  <1>7. CASE found = "managed"
    <2>1. PICK u : u = UnitOf(1, "own") OBVIOUS
    <2>2. u # NoUnit /\ u.image = 1 BY <1>3, <2>1
    <2>3. /\ files = [unit |-> u, oldUnit |-> "none", setup |-> 1, pending |-> NoImage,
                      upgrade |-> NoIntent, migration |-> NoIntent, binding |-> "own",
                      site |-> "plain", data |-> "ready"]
          /\ host = [loaded |-> u, loadedOld |-> "none", enabled |-> TRUE,
                     enabledOld |-> FALSE, running |-> u, runningOld |-> FALSE,
                     unseen |-> FALSE]
      BY <1>2, <1>7, <2>1, <2>2
    <2>4. Saved(files, host) /\ OldGone(files, host)
      BY <2>1, <2>3 DEF Saved, Hooks, OldGone, NoImage
    <2> QED BY <1>1, <1>3, <1>4, <2>3, <2>4 DEF HostInv, ManagerHolds, DiskHolds, Quiet
  <1> QED BY <1>2, <1>5, <1>6, <1>7

(* Every step keeps it.                                                    *)
LEMMA HostInductive ==
  ASSUME HostInv, [RelayNext]_relayVars, ~UnlinkMisleads
  PROVE  HostInv'
  <1>1. CASE ManagerStep
    <2>1. CASE manager = Selecting
      <3>1. \A s : ~At(s) BY <2>1 DEF Selecting, At
      <3>2. Select
        BY <1>1, <3>1 DEF ManagerStep, MakeData, InitData, Pend, Unpend, Journal, WriteUnit,
          SaveSetup, Unsave, RemoveUnit, Guard, Unguard, RemoveOld, Bind, Unbind,
          CommitMigration, Forget, EditRoute, RestoreRoute, UneditRoute, Reload, Enable,
          Disable, Able, StopRelay, DisableOld, StopOld, EnableOld, StartRelay, Start, Restart,
          StartOld, Verify, VerifyOld, Validate, Writes, Commands
      <3> QED BY <3>2, SelectKeeps
    <2> QED BY <1>1, <2>1, CommandHolds
  <1>2. CASE Setup BY <1>2, SetupKeeps
  <1>3. CASE Uninstall BY <1>3, UninstallKeeps
  <1>4. CASE InstallPackage
    <2>1. installed' \in Image BY <1>4 DEF InstallPackage, HostInv, Image
    <2> QED BY <1>4, <2>1 DEF InstallPackage, HostInv, ManagerHolds
  <1>5. CASE StepFails
    <2>1. Commanded(manager)
      BY <1>5 DEF StepFails, HostInv, ManagerHolds, NoManager, Selecting
    <2>2. Halted /\ installed' = installed BY <1>5 DEF StepFails, Halted
    <2> QED BY <2>1, <2>2, HaltedHolds
  <1>6. CASE ManagerKilled BY <1>6 DEF ManagerKilled, HostInv, ManagerHolds
  <1>7. CASE PowerLoss BY <1>7, PowerLossKeeps
  <1>8. CASE AdministratorStartsOld BY <1>8, AdministratorKeeps
  <1>9. CASE UNCHANGED relayVars BY <1>9 DEF relayVars, HostInv, ManagerHolds
  <1> QED BY <1>1, <1>2, <1>3, <1>4, <1>5, <1>6, <1>7, <1>8, <1>9 DEF RelayNext

(* The invariant implies that the host is sound.                           *)
LEMMA HostInvSound == HostInv => HostSound
  <1> SUFFICES ASSUME HostInv PROVE HostSound OBVIOUS
  <1>0. World BY DEF HostInv, World
  <1> USE UnitFacts, IntentFacts
  <1>f. /\ files.upgrade \in UpgradeIntents \cup {NoIntent}
        /\ files.migration \in MigrationIntents \cup {NoIntent}
        /\ files.setup \in Nat /\ files.binding \in {"none", "own", "legacy"}
    BY <1>0, WorldFacts
  <1>1. OneRelayPerData
    <2> SUFFICES ASSUME host.running.data = "legacy" PROVE ~host.runningOld
      BY DEF OneRelayPerData
    <2>1. host.running # NoUnit OBVIOUS
    <2>2. CASE Rests(files)
      BY <1>0, <2>1, <2>2 DEF World, DiskHolds, Quiet, Bare, OldGone
    <2>3. CASE files.pending # NoImage \/ files.upgrade # NoIntent
      BY <1>0, <2>3 DEF World, DiskHolds, FreshHolds, UpgradeHolds, OldGone
    <2>4. CASE files.migration # NoIntent
      BY <1>0, <1>f, <2>1, <2>4
         DEF World, DiskHolds, MigrationHolds, PreparedHolds, CommittedHolds, Fenced
    <2> QED BY <2>2, <2>3, <2>4 DEF Rests
  <1>2. QuietIsConsistent
    <2> SUFFICES ASSUME ~Journalled PROVE QuietIsConsistent
      BY DEF QuietIsConsistent
    <2>1. Quiet(files, host) BY <1>0 DEF Journalled, Rests, World, DiskHolds
    <2>2. CASE Saved(files, host) /\ OldGone(files, host)
      BY <2>2 DEF QuietIsConsistent, Saved, OldGone
    <2>3. CASE Bare(files, host) /\ files.binding # "legacy"
                /\ (OldGone(files, host)
                     \/ (files.oldUnit = "plain" /\ host.runningOld /\ host.enabledOld))
      BY <2>3 DEF QuietIsConsistent, Bare, OldGone
    <2> QED BY <2>1, <2>2, <2>3 DEF Quiet
  <1> QED BY <1>1, <1>2 DEF HostSound

(* The relay host is sound at every instant (HostSound): no step, failed   *)
(* step, rollback, kill, power loss or start by hand has two relays on one *)
(* data directory, and with no command running and no journal left the     *)
(* host is in a state ApplySetup promises. Hypothesis: an unlink that      *)
(* reports an error has not removed the name.                              *)
THEOREM HostTheorem == ~UnlinkMisleads /\ RelaySpec => []HostSound
  <1>1. CASE ~UnlinkMisleads
    <2>1. HostInv /\ [RelayNext]_relayVars => HostInv' BY <1>1, HostInductive
    <2>2. RelaySpec => []HostSound BY HostInitial, HostInvSound, <2>1, PTL DEF RelaySpec
    <2> QED BY <2>2, PTL
  <1>2. CASE UnlinkMisleads
    <2> QED BY <1>2, PTL
  <1> QED BY <1>1, <1>2

(* An upgrade's journal is removed only by the last step of the upgrade or *)
(* of its rollback.                                                        *)
LEMMA ForgetsHere ==
  ASSUME HostInv, ManagerStep, ~UnlinkMisleads, manager # Selecting,
         files.upgrade # NoIntent, files'.upgrade = NoIntent
  PROVE  /\ Commanded(manager) /\ OpAt(manager.at, manager, files, host)
         /\ manager.op \in {"upgrade", "restore"} /\ manager.at = 10
  <1>1. Commanded(manager) /\ StepEffect BY CommandSteps
  <1>2. OpAt(manager.at, manager, files, host) /\ World
    BY <1>1 DEF HostInv, World, ManagerHolds, Commanded, Commanding, NoManager, Selecting
  <1>3. files.pending = NoImage /\ files.migration = NoIntent /\ ~Rests(files)
    BY <1>2 DEF World, DiskHolds, UpgradeHolds, Rests
  <1>4. manager.op \in Commanding /\ manager.at \in 1 .. Length(manager.op)
    BY <1>1 DEF Commanded
  <1>5. manager.at \in Nat BY <1>4, LengthIs
  <1>6. manager.op \notin {"fresh", "recoverFresh", "unpend", "confirm", "uninstall"}
    BY <1>2, <1>3 DEF OpAt, FreshAt, RecoverFreshAt, UnpendAt, ConfirmAt, UninstallAt
  <1>7. manager.op \notin {"restoreMigration", "finish"}
    BY <1>2, <1>3 DEF OpAt, RestoreMigrationAt, FinishAt
  <1>8. manager.op # "migrate"
    <2> SUFFICES ASSUME manager.op = "migrate" PROVE FALSE OBVIOUS
    <2>1. MigrateAt(manager.at, manager, files, host) BY <1>2 DEF OpAt
    <2>2. manager.at \in 1 .. 18 BY <1>4, MigratePlaces
    <2> QED BY <1>3, <2>1, <2>2, IntentFacts DEF MigrateAt
  <1>9. manager.op # "unfresh"
    <2> SUFFICES ASSUME manager.op = "unfresh" PROVE FALSE OBVIOUS
    <2>1. manager.at \in 1 .. 3 BY <1>4, UnfreshPlaces
    <2>2. CASE manager.at = 1
      <3>1. At("disable") /\ Disable BY <2>2, StepIs, UnfreshPlaces
      <3> QED BY <3>1 DEF Disable, Commands
    <2>3. CASE manager.at = 2
      <3>1. At("stop") /\ StopRelay BY <2>3, StepIs, UnfreshPlaces
      <3> QED BY <3>1 DEF StopRelay, Commands
    <2>4. CASE manager.at = 3
      <3>1. At("unedit") /\ UneditRoute BY <2>4, StepIs, UnfreshPlaces
      <3>2. files \in FileRecords BY <1>2 DEF World
      <3>3. files'.upgrade = files.upgrade BY <3>1, <3>2 DEF UneditRoute, Writes, FileRecords
      <3> QED BY <3>3
    <2> QED BY <2>1, <2>2, <2>3, <2>4
  <1>10. manager.op \in {"upgrade", "restore"} BY <1>4, <1>6, <1>7, <1>8, <1>9 DEF Commanding
  <1>11. Length(manager.op) = 10 BY <1>10 DEF Length
  <1>12. manager.at = 10
    <2> SUFFICES ASSUME manager.at < 10 PROVE FALSE BY <1>4, <1>11
    <2>1. Reached BY <1>1 DEF StepEffect, Halted
    <2>2. OpAt(manager.at + 1, manager, files', host') BY <1>11, <2>1 DEF Reached
    <2>3. CASE manager.op = "upgrade"
      BY <1>4, <1>11, <2>2, <2>3, IntentFacts DEF OpAt, UpgradeAt
    <2>4. CASE manager.op = "restore" BY <2>2, <2>4, IntentFacts DEF OpAt, RestoreAt
    <2> QED BY <1>10, <2>3, <2>4
  <1> QED BY <1>1, <1>2, <1>10, <1>12

(* The action of UpgradeAllOrNothing.                                      *)
AllOrNothing ==
  LET j == files.upgrade IN
     j # NoIntent /\ files'.upgrade = NoIntent =>
       \/ /\ files'.setup = j.image /\ files'.site = "peer"
          /\ host'.enabled /\ host'.running = files'.unit
          /\ files'.unit = UnitOf(j.image, files'.binding)
       \/ /\ files'.setup = j.previous /\ files'.site = j.site
          /\ files'.unit = UnitOf(j.previous, files'.binding) /\ host'.loaded = files'.unit
          /\ host'.enabled = j.enabled
          /\ host'.running = IF j.running THEN files'.unit ELSE NoUnit

(* Every step that removes an upgrade's journal leaves the upgrade         *)
(* complete or undone.                                                     *)
LEMMA UpgradeStep ==
  ASSUME HostInv, [RelayNext]_relayVars, ~UnlinkMisleads
  PROVE  AllOrNothing
  <1> SUFFICES ASSUME files.upgrade # NoIntent, files'.upgrade = NoIntent PROVE AllOrNothing
    BY DEF AllOrNothing
  <1>0. files \in FileRecords BY DEF HostInv
  <1>1. CASE ManagerStep
    <2>1. manager # Selecting
      BY DEF HostInv, ManagerHolds, SelectHolds, NoManager, Selecting, Commanded, Commanding
    <2>2. /\ Commanded(manager) /\ OpAt(manager.at, manager, files, host)
          /\ manager.op \in {"upgrade", "restore"} /\ manager.at = 10
      BY <1>1, <2>1, ForgetsHere
    <2>3. At("forget") /\ Forget BY <1>1, <2>2, StepIs, UpgradePlaces, RestorePlaces
    <2>4. files' = [files EXCEPT !.upgrade = NoIntent] /\ host' = host
      BY <2>2, <2>3 DEF Forget, Writes
    <2>5. UpgradeBecomes(NoIntent) BY <1>0, <2>4 DEF FileRecords, UpgradeBecomes
    <2>6. manager.image = manager.intent.image BY <2>2 DEF Commanded
    <2>7. CASE manager.op = "upgrade"
      BY <2>2, <2>5, <2>6, <2>7 DEF OpAt, UpgradeAt, UpgradeBecomes, AllOrNothing
    <2>8. CASE manager.op = "restore"
      BY <2>2, <2>5, <2>6, <2>8 DEF OpAt, RestoreAt, UpgradeBecomes, AllOrNothing
    <2> QED BY <2>2, <2>7, <2>8
  <1>2. CASE Setup
    <2>1. files'.upgrade = files.upgrade BY <1>0, <1>2 DEF Setup, Reserved, FileRecords
    <2> QED BY <2>1
  <1>3. CASE Uninstall BY <1>3 DEF Uninstall
  <1>4. CASE InstallPackage BY <1>4 DEF InstallPackage
  <1>5. CASE StepFails BY <1>5 DEF StepFails
  <1>6. CASE ManagerKilled BY <1>6 DEF ManagerKilled
  <1>7. CASE PowerLoss BY <1>7 DEF PowerLoss
  <1>8. CASE AdministratorStartsOld BY <1>8 DEF AdministratorStartsOld
  <1>9. CASE UNCHANGED relayVars BY <1>9 DEF relayVars
  <1> QED BY <1>1, <1>2, <1>3, <1>4, <1>5, <1>6, <1>7, <1>8, <1>9 DEF RelayNext

(* An upgrade is all or nothing (UpgradeAllOrNothing): its journal         *)
(* disappears only when the new relay is saved, enabled and running behind *)
(* the new route, or everything upgradeManaged recorded is as before. Same *)
(* hypothesis.                                                             *)
THEOREM UpgradeTheorem == ~UnlinkMisleads /\ RelaySpec => UpgradeAllOrNothing
  <1>1. CASE ~UnlinkMisleads
    <2>1. HostInv /\ [RelayNext]_relayVars => HostInv' BY <1>1, HostInductive
    <2>2. HostInv /\ [RelayNext]_relayVars => AllOrNothing BY <1>1, UpgradeStep
    <2>3. RelaySpec => [][AllOrNothing]_relayVars
      BY HostInitial, <2>1, <2>2, PTL DEF RelaySpec
    <2>4. RelaySpec => UpgradeAllOrNothing BY <2>3 DEF UpgradeAllOrNothing, AllOrNothing
    <2> QED BY <2>4, PTL
  <1>2. CASE UnlinkMisleads
    <2> QED BY <1>2, PTL
  <1> QED BY <1>1, <1>2
=============================================================================
