------------------------- MODULE PackageTransaction -------------------------
(***************************************************************************)
(* The package transaction engine of one role: internal/packagetxn, with   *)
(* the release gate of internal/release.  An operation (Apply, Rollback,   *)
(* Recover) holds the role's locks while it runs, so there is one process; *)
(* what makes it hard is that the process can stop between any two durable *)
(* steps, and that the next operation then decides from the disk alone     *)
(* what happened.                                                          *)
(*                                                                         *)
(* A release is named by its sequence and a policy by its own; 0 is the    *)
(* empty string or "none".  A receipt digest stands and falls with the     *)
(* release it names, so it is left out; the digest of an anchor is its     *)
(* content.  Files are never corrupted or changed by anyone else.  A new   *)
(* directory and a new file are given their group after they are created;  *)
(* what a process leaves between the two is refused ever after (bare).     *)
(* MaxGen bounds the selector generation, MaxCrashes the interruptions.    *)
(***************************************************************************)
EXTENDS Integers, Sequences, FiniteSets

CONSTANTS
  MaxRelease,            \* signed releases 1..MaxRelease exist
  MaxPolicy,             \* signed policies 1..MaxPolicy exist
  Floor, Tombs,          \* per policy: MinimumReleaseSequence, TombstonedReleaseIDs
  Files,                 \* the installed files of a release, in their sorted order
  ReaderFiles,           \* those of them that belong to the reader group
  MaxGen, MaxCrashes

Release == 1..MaxRelease
Policy == 1..MaxPolicy

ASSUME PolicyAssumption ==
  /\ MaxRelease \in Nat /\ MaxPolicy \in Nat
  /\ Floor \in [0..MaxPolicy -> Nat] /\ Floor[0] = 0
  /\ Tombs \in [0..MaxPolicy -> SUBSET Release] /\ Tombs[0] = {}
ASSUME FilesAssumption == \E i \in 1..Len(Files) : Files[i] = "owntransitctl"
ASSUME BoundAssumption == MaxGen \in Nat /\ MaxCrashes \in Nat

Order == Append(Files, "receipt")               \* the receipt is written last
Name == {Order[i] : i \in 1..Len(Order)}

VARIABLES
  selector,              \* selector.json
  journal,               \* journal.json
  active,                \* the release the link "current" names
  anchor,                \* anchor.json under the rollback-anchor root
  dir,                   \* release directories that exist
  file,                  \* [dir][name]: none, stage, both (stage linked to final), final
  bare,                  \* what was created and not yet given its group: none, directory, stage
  pc, call,              \* the running operation: its next step and its decision
  mine,                  \* the payload stage this process created
  outcome,               \* what the last operation returned
  crashes

disk == <<selector, journal, active, anchor, dir, file, bare>>
vars == <<disk, pc, call, mine, outcome, crashes>>

-----------------------------------------------------------------------------
(* Records. *)

NoSelector == [gen |-> 0, current |-> 0, previous |-> 0]
NoJournal ==
  [phase |-> "none", op |-> "none", release |-> 0, policy |-> 0, before |-> NoSelector,
   target |-> NoSelector, retired |-> 0, anchorBefore |-> <<>>, anchorTarget |-> <<>>]
NoAnchor ==
  [gen |-> 0, back |-> <<>>, policy |-> 0, highest |-> 0, selection |-> NoSelector]
NoCall == [op |-> "none", release |-> 0, policy |-> 0, before |-> <<>>, target |-> NoAnchor]

(* digestPackageAnchor.  The chain through back is cut after one link. *)
Digest(a) == <<a.gen, a.policy, a.highest, a.selection>>

(* An executable: the owntransitctl of an unpacked bundle or of a release. *)
Exe == {"bundle", "installed"} \X Release

Init ==
  /\ selector = NoSelector
  /\ journal = NoJournal
  /\ active = 0
  /\ anchor = NoAnchor
  /\ dir = {}
  /\ file = [r \in Release |-> [n \in Name |-> "none"]]
  /\ bare = "none"
  /\ pc = "idle"
  /\ call = NoCall
  /\ mine = "none"
  /\ outcome = "none"
  /\ crashes = 0

-----------------------------------------------------------------------------
(* What an operation reads and checks before it writes anything. *)

(* loadAndVerifyRelease: receipt and exactly its files, single-linked. *)
Whole(r) == r \in dir /\ \A n \in Name : file[r][n] = "final"

(* validateResumeSelector *)
ResumeSelector ==
  CASE journal.phase = "planned" -> selector = journal.before
    [] journal.phase = "staged" -> selector \in {journal.before, journal.target}
    [] OTHER -> selector = journal.target

(* validateResumeActiveLink *)
ResumeActiveLink ==
  CASE journal.phase = "planned" -> active = journal.before.current
    [] journal.phase = "staged" ->
         \/ active = journal.before.current
         \/ selector = journal.target /\ active = journal.target.current
    [] OTHER -> active = journal.target.current

Interrupted == journal.phase \notin {"none", "complete"}

(* The releases inspectTransactionState loads, and those it tolerates. *)
Required ==
  {selector.current, selector.previous, journal.before.current}
  \union (IF journal.phase \in {"planned", "staged", "selected"} THEN {journal.before.previous} ELSE {})
  \union (IF journal.phase \in {"staged", "selected", "complete"} THEN {journal.release} ELSE {})
Allowed ==
  {selector.current, selector.previous}
  \union (IF Interrupted THEN {journal.release, journal.retired} ELSE {})

(* "journal predecessor has an invalid release ordering" *)
Ordered ==
  journal.before.current # 0 =>
    IF journal.op = "install" THEN journal.before.current < journal.release
                              ELSE journal.before.current > journal.release

(* inspectTransactionState finds nothing that the journal does not explain. *)
Explained ==
  /\ journal.phase = "none" => selector.gen = 0 /\ active = selector.current
  /\ \A r \in Required \ {0} : Whole(r)
  /\ journal.phase # "none" => ResumeSelector /\ ResumeActiveLink /\ Ordered
  /\ dir \subseteq Allowed

(* validateAnchorAgainstSnapshot *)
AnchorAgrees ==
  \/ IF anchor.gen = 0 THEN selector.gen = 0 ELSE anchor.selection = selector
  \/ Interrupted /\ journal.anchorTarget = Digest(anchor) /\ anchor.selection = journal.target

(* verifyPolicyForPackageAnchor: the committed policy, or one that only    *)
(* strengthens it.                                                         *)
PolicyAtAnchor(p) == anchor.gen # 0 /\ p = anchor.policy
PolicyAdvance(p) ==
  p > anchor.policy /\ Floor[p] >= Floor[anchor.policy] /\ Tombs[anchor.policy] \subseteq Tombs[p]
PolicyAccepted(p) == PolicyAtAnchor(p) \/ PolicyAdvance(p)

(* release.VerifyForInstall *)
ReleaseAccepted(r, p) ==
  /\ r > anchor.highest \/ (r = anchor.highest /\ r = anchor.selection.current)
  /\ r >= Floor[p]
  /\ r \notin Tombs[anchor.policy] \union Tombs[p]

(* verifyRunningLifecycle, with the path that OpenLifecycle enforces.  No  *)
(* path is expected when a release is selected and none is active.         *)
RunningAuthentic(exe, candidate) ==
  /\ exe[1] = "installed" => exe[2] \in dir /\ file[exe[2]]["owntransitctl"] = "final"
  /\ CASE active # 0 -> exe = <<"installed", active>>
       [] active = 0 /\ selector.current # 0 -> FALSE
       [] OTHER -> candidate # 0 /\ exe = <<"bundle", candidate>>

TargetSelector(r) == [gen |-> selector.gen + 1, current |-> r, previous |-> selector.current]

(* targetAnchorForInstall, and the anchor rollback builds. *)
TargetAnchor(p, highest, selection) ==
  [gen |-> anchor.gen + 1, back |-> Digest(anchor), policy |-> p, highest |-> highest,
   selection |-> selection]
Highest(r) == IF r > anchor.highest THEN r ELSE anchor.highest

Readable == Explained /\ AnchorAgrees

(* journalMatchesDecision *)
JournalMatches(op, r) == journal.op = op /\ journal.release = r

(* Apply, up to the decision: a new transaction, the rest of an interrupted *)
(* one, or the release that is selected already.                           *)
Admissible(r, p, exe) ==
  RunningAuthentic(exe, r) /\ ReleaseAccepted(r, p) /\ PolicyAccepted(p) /\ Readable
ApplyNew(r, p, exe) ==
  ~Interrupted /\ selector.current # r /\ selector.gen < MaxGen /\ Admissible(r, p, exe)
ApplyResume(r, p, exe) ==
  /\ Interrupted
  /\ JournalMatches("install", r) /\ journal.policy = p
  /\ Digest(anchor) \in {journal.anchorBefore, journal.anchorTarget}
  /\ Admissible(r, p, exe)
ApplyAgain(r, p, exe) ==
  /\ journal.phase = "complete" /\ selector.current = r
  /\ p = anchor.policy
  /\ JournalMatches("install", r)
  /\ Admissible(r, p, exe)

(* Mutant: rollback forgets the floor and the tombstones of the anchor. *)
RollbackAnyway(r, exe) ==
  /\ Readable /\ journal.phase = "complete" /\ selector.gen < MaxGen
  /\ r # 0 /\ r = selector.previous /\ r = anchor.selection.previous
  /\ RunningAuthentic(exe, 0)

(* Rollback accepts only the exact retained release, above the floors. *)
RollbackAllowed(r, exe) ==
  /\ journal.phase = "complete" /\ selector.gen < MaxGen
  /\ r # 0 /\ r = selector.previous /\ r = anchor.selection.previous
  /\ r >= Floor[anchor.policy] /\ r \notin Tombs[anchor.policy]
  /\ RunningAuthentic(exe, 0) /\ Readable

(* Mutant: Recover too insists on an anchor that still holds the old state. *)
RecoverTooEarly(exe) ==
  /\ Readable /\ Interrupted
  /\ journal.phase # "planned"
  /\ journal.anchorTarget = Digest(anchor) /\ journal.policy = anchor.policy
  /\ selector = anchor.selection
  /\ RunningAuthentic(exe, 0)
  /\ Whole(journal.release)

(* Recover finishes only what the anchor already contains. *)
RecoverAllowed(exe) ==
  /\ Interrupted
  /\ journal.phase # "planned"
  /\ journal.anchorTarget = Digest(anchor) /\ journal.policy = anchor.policy
  /\ anchor.back = journal.anchorBefore
  /\ RunningAuthentic(exe, 0)
  /\ Readable /\ Whole(journal.release)
RecoverNothing(exe) ==
  /\ ~Interrupted
  /\ selector.current # 0 => RunningAuthentic(exe, 0)
  /\ Readable

-----------------------------------------------------------------------------
(* The steps of install and resume, and the order they come in. *)

AfterSelected ==
  CASE journal.retired = 0 -> "complete"
    [] journal.retired # 0 /\ journal.phase = "retiring" -> "retire"
    [] OTHER -> "retiring"
AfterLink == IF journal.phase = "staged" THEN "selected" ELSE AfterSelected
AfterSelect == IF active = journal.target.current THEN AfterLink ELSE "link"

(* Where resume continues an interrupted journal. *)
ResumeAt ==
  CASE journal.phase = "planned" -> IF journal.op = "install" THEN "stage" ELSE "staged"
    [] journal.phase # "planned" /\ selector # journal.target -> "gate"
    [] OTHER -> AfterSelect

Begin(step, decided) ==
  /\ pc = "idle"
  /\ pc' = step
  /\ call' = decided
  /\ mine' = "none"
  /\ outcome' = "none"
  /\ UNCHANGED <<disk, crashes>>

Apply(r, p, exe) ==
  \/ /\ ApplyNew(r, p, exe)
     /\ Begin("plan", [op |-> "install", release |-> r, policy |-> p, before |-> Digest(anchor),
                       target |-> TargetAnchor(p, Highest(r), TargetSelector(r))])
  \/ /\ ApplyResume(r, p, exe)
     /\ Begin(ResumeAt,
              [op |-> "install", release |-> r, policy |-> p, before |-> Digest(anchor),
               target |-> IF Digest(anchor) = journal.anchorTarget THEN anchor
                          ELSE TargetAnchor(p, Highest(r), journal.target)])

Rollback(r, exe) ==
  /\ RollbackAllowed(r, exe)
  /\ Begin("plan", [op |-> "rollback", release |-> r, policy |-> anchor.policy,
                    before |-> Digest(anchor),
                    target |-> TargetAnchor(anchor.policy, anchor.highest, TargetSelector(r))])

Recover(exe) ==
  /\ RecoverAllowed(exe)
  /\ Begin(ResumeAt, [op |-> journal.op, release |-> journal.release, policy |-> journal.policy,
                      before |-> journal.anchorBefore, target |-> anchor])

(* An operation that finds its result in place. *)
Nothing ==
  /\ pc = "idle"
  /\ outcome' = "ok"
  /\ UNCHANGED <<disk, pc, call, mine, crashes>>

Goto(step) == pc' = step /\ UNCHANGED <<call, mine, outcome, crashes>>
Return(result) ==
  /\ pc' = "idle" /\ call' = NoCall /\ mine' = "none" /\ outcome' = result

(* replaceJournal with the planned record. *)
Plan ==
  /\ pc = "plan"
  /\ journal' = [phase |-> "planned", op |-> call.op, release |-> call.release,
                 policy |-> call.policy, before |-> selector,
                 target |-> TargetSelector(call.release),
                 retired |-> IF call.op = "install" THEN selector.previous ELSE 0,
                 anchorBefore |-> call.before, anchorTarget |-> Digest(call.target)]
  /\ Goto(IF call.op = "install" THEN "stage" ELSE "staged")
  /\ UNCHANGED <<selector, active, anchor, dir, file, bare>>

(* ensureDirectory of stageReleaseDirectory: Mkdirat, then group and mode. *)
MakeDirectory ==
  /\ pc = "stage" /\ call.release \notin dir
  /\ dir' = dir \union {call.release} /\ bare' = "directory"
  /\ Goto("own")
  /\ UNCHANGED <<selector, journal, active, anchor, file>>
OwnDirectory ==
  /\ pc = "own"
  /\ bare' = "none"
  /\ Goto("stage")
  /\ UNCHANGED <<selector, journal, active, anchor, dir, file>>

(* requireDirectory and requireAuthorizedPartialStage: what an earlier     *)
(* process left without its group is residue.                              *)
StageRefuses ==
  /\ pc = "stage" /\ bare # "none" /\ mine = "none"
  /\ Return("error")
  /\ UNCHANGED <<disk, crashes>>

(* The next name to stage: the first in order that is not published. *)
NextName(r) ==
  Order[CHOOSE i \in 1..Len(Order) :
          file[r][Order[i]] # "final" /\ \A j \in 1..(i - 1) : file[r][Order[j]] = "final"]
Staging == pc = "stage" /\ call.release \in dir /\ ~Whole(call.release)
Put(r, n, s) == file' = [file EXCEPT ![r][n] = s]
Owned == bare = "none" /\ UNCHANGED bare
OnlyFiles == UNCHANGED <<selector, journal, active, anchor, dir, call, outcome, crashes>>

(* recoverPayloadStage: an earlier process left its stage behind. *)
RecoverPayloadStage ==
  LET r == call.release  n == NextName(call.release) IN
  /\ Staging /\ Owned /\ mine # n /\ file[r][n] \in {"stage", "both"}
  /\ Put(r, n, IF file[r][n] = "both" THEN "final" ELSE "none")
  /\ OnlyFiles /\ UNCHANGED <<pc, mine>>

(* stageAuthenticatedFile and publishExactBytes: create the stage, give it *)
(* its group, write it, link it to its name, remove the stage.             *)
WriteStage ==
  LET r == call.release  n == NextName(call.release) IN
  /\ Staging /\ bare = "none" /\ file[r][n] = "none"
  /\ Put(r, n, "stage") /\ mine' = n
  /\ bare' = IF n \in ReaderFiles THEN "stage" ELSE "none"
  /\ OnlyFiles /\ UNCHANGED pc
OwnStage ==
  /\ Staging /\ mine = NextName(call.release) /\ bare = "stage"
  /\ bare' = "none"
  /\ OnlyFiles /\ UNCHANGED <<file, pc, mine>>
LinkStage ==
  LET r == call.release  n == NextName(call.release) IN
  /\ Staging /\ Owned /\ mine = n /\ file[r][n] = "stage"
  /\ Put(r, n, "both")
  /\ OnlyFiles /\ UNCHANGED <<pc, mine>>
UnlinkStage ==
  LET r == call.release  n == NextName(call.release) IN
  /\ Staging /\ Owned /\ mine = n /\ file[r][n] = "both"
  /\ Put(r, n, "final") /\ mine' = "none"
  /\ OnlyFiles /\ UNCHANGED pc

(* An error while a stage of ours exists: the deferred unlink runs. *)
StageFails ==
  LET r == call.release  n == NextName(call.release) IN
  /\ Staging /\ mine = n /\ crashes < MaxCrashes
  /\ Put(r, n, IF file[r][n] = "both" THEN "final" ELSE "none")
  /\ bare' = "none"
  /\ Return("error") /\ crashes' = crashes + 1
  /\ UNCHANGED <<selector, journal, active, anchor, dir>>

SetPhase(phase) ==
  /\ journal' = [journal EXCEPT !.phase = phase]
  /\ UNCHANGED <<selector, active, anchor, dir, file, bare>>

JournalStaged ==
  /\ pc = "staged" \/ (pc = "stage" /\ Whole(call.release))
  /\ SetPhase("staged")
  /\ Goto("gate")

(* anchorGate: compare-and-swap of the external anchor. *)
GateRefuses ==
  \/ journal.anchorBefore # call.before
  \/ journal.anchorTarget # Digest(call.target)
  \/ selector # journal.before
  \/ Digest(anchor) \notin {journal.anchorTarget, call.before}
AnchorGate ==
  /\ pc = "gate"
  /\ IF GateRefuses
     THEN /\ Return("error")
          /\ UNCHANGED <<disk, crashes>>
     ELSE /\ anchor' = IF Digest(anchor) = journal.anchorTarget THEN anchor ELSE call.target
          /\ Goto("select")
          /\ UNCHANGED <<selector, journal, active, dir, file, bare>>

ReplaceSelector ==
  /\ pc = "select"
  /\ selector' = journal.target
  /\ Goto(AfterSelect)
  /\ UNCHANGED <<journal, active, anchor, dir, file, bare>>

ReplaceActiveLink ==
  /\ pc = "link"
  /\ active' = journal.target.current
  /\ Goto(AfterLink)
  /\ UNCHANGED <<selector, journal, anchor, dir, file, bare>>

JournalSelected ==
  /\ pc = "selected"
  /\ SetPhase("selected")
  /\ Goto(AfterSelected)

JournalRetiring ==
  /\ pc = "retiring"
  /\ SetPhase("retiring")
  /\ Goto("retire")

(* retireReleaseDirectory: the files, then the receipt, then the directory. *)
RetireFile ==
  LET r == journal.retired IN
  /\ pc = "retire" /\ r \in dir
  /\ \E i \in 1..Len(Order) :
       /\ file[r][Order[i]] = "final"
       /\ \A j \in 1..(i - 1) : file[r][Order[j]] = "none"
       /\ Put(r, Order[i], "none")
  /\ OnlyFiles /\ UNCHANGED <<pc, mine, bare>>
RetireDirectory ==
  LET r == journal.retired IN
  /\ pc = "retire" /\ r \in dir /\ \A n \in Name : file[r][n] = "none"
  /\ dir' = dir \ {r}
  /\ Goto("retire")
  /\ UNCHANGED <<selector, journal, active, anchor, file, bare>>

JournalComplete ==
  /\ pc = "complete" \/ (pc = "retire" /\ journal.retired \notin dir)
  /\ SetPhase("complete")
  /\ Return("ok")
  /\ UNCHANGED crashes

(* The process dies, or a step fails before or after its rename. *)
Interrupt ==
  /\ pc # "idle" /\ crashes < MaxCrashes
  /\ crashes' = crashes + 1
  /\ Return("error")
  /\ UNCHANGED disk

Step ==
  \/ Plan \/ MakeDirectory \/ OwnDirectory \/ StageRefuses
  \/ RecoverPayloadStage \/ WriteStage \/ OwnStage \/ LinkStage \/ UnlinkStage
  \/ JournalStaged \/ AnchorGate \/ ReplaceSelector \/ ReplaceActiveLink
  \/ JournalSelected \/ JournalRetiring \/ RetireFile \/ RetireDirectory \/ JournalComplete

Next ==
  \/ \E exe \in Exe :
       \/ \E r \in Release, p \in Policy : Apply(r, p, exe)
       \/ \E r \in Release : Rollback(r, exe)
       \/ Recover(exe)
  \/ Step \/ StageFails \/ Interrupt

Spec == Init /\ [][Next]_vars

-----------------------------------------------------------------------------
(* Properties. *)

(* Whatever the moment the process stops, the release the fixed link names  *)
(* and the two the selector names are there with every file and the receipt: *)
(* nothing is published before it is staged, nothing is retired that may    *)
(* still be run or rolled back to.                                          *)
EndpointsWhole ==
  \A r \in {active, selector.current, selector.previous} \ {0} : Whole(r)

(* A selector is published only after the external anchor has committed to  *)
(* exactly this selection, and the release it selects then satisfies the    *)
(* floor and the tombstones the anchor has in force; the anchor itself      *)
(* moves one generation at a time and never gives up a floor, a tombstone   *)
(* or the highest sequence.  Rollback, replayed Apply calls and recovery    *)
(* from any interruption included.                                          *)
NeverDowngrades ==
  [][/\ selector' # selector =>
          /\ selector' = anchor.selection
          /\ selector'.current >= Floor[anchor.policy]
          /\ selector'.current \notin Tombs[anchor.policy]
     /\ anchor' # anchor =>
          /\ anchor'.gen = anchor.gen + 1 /\ anchor'.back = Digest(anchor)
          /\ anchor'.highest >= anchor.highest
          /\ Floor[anchor'.policy] >= Floor[anchor.policy]
          /\ Tombs[anchor.policy] \subseteq Tombs[anchor'.policy]]_vars

(* "ErrResidue means disk state cannot be explained by the durable journal, *)
(* selector, and exact receipts": what a completed transaction leaves, with *)
(* nobody else writing, the next operation can explain.                     *)
CompleteIsExplained == pc = "idle" /\ journal.phase = "complete" => Explained
=============================================================================
