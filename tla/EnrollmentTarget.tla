-------------------------- MODULE EnrollmentTarget --------------------------
(***************************************************************************)
(* The durable lifecycle of one enrolled machine (internal/                *)
(* enrollmenttarget, internal/localstate): one state record, an external   *)
(* rollback anchor that binds its exact bytes, a transaction journal, two  *)
(* published views that an unprivileged runtime reads, and the operations  *)
(* that move them.  Every operation is one privileged process that holds   *)
(* the lifecycle lock and the exclusive activation gate and may stop       *)
(* between any two file replacements; a runtime holds the gate shared.     *)
(*                                                                         *)
(* Abstractions.  A digest is the value it is the digest of, so the anchor *)
(* and the views hold the state they bind, and a generation directory is   *)
(* named by that state.  The credential sequence stands for the three      *)
(* parallel high-waters (deployment, credential, release): each has the    *)
(* same rule.  A signed document that does not bind the current state is   *)
(* refused without a change, so only binding documents are enumerated.     *)
(* transaction-view.json is written and removed but read by nothing.       *)
(***************************************************************************)
EXTENDS Naturals, Sequences, FiniteSets

CONSTANTS
  MaxStateGeneration,   \* bound: generations explored (uint64 in the code)
  MaxRecords,           \* bound: record directories created
  MaxPolicySequence,    \* bound: lifecycle policies explored
  MaxFaults,            \* bound: operations that stop half way
  Responses             \* the distinct signed responses to one request

VARIABLES
  boot,         \* how many of Bootstrap's files exist (BootSteps = all)
  state,        \* state.json
  anchor,       \* anchor.json of the rollback anchor root
  journal,      \* transaction-state.json
  marker,       \* transition.json exists in the runtime root
  anchorView,   \* anchor.json of the anchor view root
  runtimeView,  \* runtime.json of the runtime root
  staged,       \* generation directories that are still private (0700)
  litter,       \* those of them that hold a temporary file of a dead writer
  exposed,      \* generation directories readable by the runtime's group
  partial,      \* those of them that a retirement has begun to empty
  records,      \* record-<nonce> directories, by the order of creation
  policies,     \* policy-<sequence>.json files
  op,           \* the operation that holds lifecycle.lock
  runtime,      \* the runtime process
  faults

targetFiles == <<boot, state, anchor, journal, marker, anchorView, runtimeView,
                 staged, litter, exposed, partial, records, policies>>
targetVars == <<targetFiles, op, runtime, faults>>

BootSteps == 5
NoFile == [gen |-> 0]
Idle == [pc |-> "idle"]
Down == [pc |-> "down"]

-----------------------------------------------------------------------------
(* localstate.State and its rules                                          *)

FirstState ==
  [gen |-> 1, request |-> 0, credential |-> 0, floor |-> 0,
   record |-> 0, active |-> 0, policy |-> 0, tombstone |-> 0,
   pending |-> 0, consumed |-> {}, revoked |-> {}, recovery |-> 0]

Enrolled(s) == s.record # 0

(* The credential key of a record: the request record that generated it.   *)
KeyOf(r) == records[r].key

ValidState(s) ==
  /\ s.gen > 0
  /\ s.request >= s.credential
  /\ s.floor <= s.credential
  /\ Enrolled(s) <=> s.credential > 0
  /\ Enrolled(s) => s.active \in 1..s.credential /\ s.active >= s.floor
  /\ s.revoked # {} => s.tombstone > 0
  /\ s.pending # 0 => s.pending \notin s.consumed

ValidateTransition(p, n) ==
  /\ ValidState(p) /\ ValidState(n)
  /\ n.gen = p.gen + 1
  /\ n.request >= p.request /\ n.credential >= p.credential
  /\ n.policy >= p.policy /\ n.tombstone >= p.tombstone
  /\ n.recovery >= p.recovery /\ n.floor >= p.floor
  /\ p.consumed \subseteq n.consumed
  /\ p.revoked \subseteq n.revoked
  /\ n.floor # p.floor => n.policy > p.policy
  /\ n.revoked # p.revoked => n.tombstone > p.tombstone
  /\ (Enrolled(p) /\ n.record = p.record) =>
        /\ n.active = p.active /\ n.policy = p.policy
        /\ n.tombstone = p.tombstone
  /\ (p.pending # 0 /\ n.pending # p.pending) => p.pending \in n.consumed
  /\ (n.pending # 0 /\ n.pending # p.pending) => n.request > p.request

-----------------------------------------------------------------------------
TargetInit ==
  /\ boot = 0 /\ state = NoFile /\ anchor = NoFile /\ journal = NoFile
  /\ marker = FALSE /\ anchorView = NoFile /\ runtimeView = NoFile
  /\ staged = {} /\ litter = {} /\ exposed = {} /\ partial = {}
  /\ records = <<>> /\ policies = <<>>
  /\ op = Idle /\ runtime = Down /\ faults = 0

(* readAnchoredState: state.json counts only while the anchor binds it.    *)
Anchored == state # NoFile /\ anchor = state

(* The locks an operation takes without waiting: lifecycle.lock, then the  *)
(* exclusive activation gate, which a runtime denies while it is up.       *)
Acquired == op = Idle /\ runtime = Down

(* The start of commitAnchoredState: a transition that does not validate   *)
(* is refused, and what the operation wrote before it stays.               *)
Commit(kind, id, next) ==
  op' = IF ValidateTransition(state, next)
        THEN [pc |-> "journal", kind |-> kind, id |-> id, next |-> next,
              old |-> NoFile]
        ELSE Idle

(* Bootstrap: root and lock, bootstrap.json, anchor, the two views, and    *)
(* state.json last.  A second attempt finds the root and is refused.       *)
Bootstrap ==
  /\ op = Idle /\ boot = 0
  /\ op' = [pc |-> "boot", kind |-> "boot", id |-> 0, next |-> FirstState,
            old |-> NoFile]
  /\ boot' = 1
  /\ UNCHANGED <<state, anchor, journal, marker, anchorView, runtimeView,
                 staged, litter, exposed, partial, records, policies,
                 runtime, faults>>

BootstrapStep ==
  /\ op.pc = "boot"
  /\ boot' = boot + 1
  /\ anchor' = IF boot' = 3 THEN FirstState ELSE anchor
  /\ anchorView' = IF boot' = 4 THEN FirstState ELSE anchorView
  /\ state' = IF boot' = BootSteps THEN FirstState ELSE state
  /\ op' = IF boot' = BootSteps THEN Idle ELSE op
  /\ UNCHANGED <<journal, marker, runtimeView, staged, litter, exposed,
                 partial, records, policies, runtime, faults>>

(* InitRequest (and ImportPendingClient for the first request): a fresh    *)
(* record directory with its keys and response identity, then the commit.  *)
InitRequest ==
  /\ Acquired /\ Anchored
  /\ state.pending = 0
  /\ state.gen < MaxStateGeneration /\ Len(records) < MaxRecords
  /\ LET id == Len(records) + 1
         seq == state.request + 1 IN
       /\ records' = Append(records,
            [key |-> id, credential |-> seq, response |-> 0, policy |-> 0,
             tombstone |-> 0, sealed |-> FALSE, identity |-> TRUE,
             known |-> FALSE])
       /\ Commit("init", id, [state EXCEPT !.gen = @ + 1, !.request = seq,
                                           !.pending = id])
  /\ UNCHANGED <<boot, state, anchor, journal, marker, anchorView, runtimeView,
                 staged, litter, exposed, partial, policies, runtime, faults>>

(* CancelPending: the digest is consumed in the same commit that clears    *)
(* the request; the keys are unlinked only afterwards (see Post).          *)
CancelPending ==
  /\ Acquired /\ Anchored
  /\ state.pending # 0 /\ state.gen < MaxStateGeneration
  /\ Commit("cancel", state.pending,
       [state EXCEPT !.gen = @ + 1, !.pending = 0,
                     !.consumed = @ \cup {state.pending}])
  /\ UNCHANGED <<targetFiles, runtime, faults>>

(* VerifyForApply: the response is for the pending request, which has not  *)
(* been consumed, advances the credential sequence and carries no          *)
(* tombstoned key.                                                         *)
Acceptable(rec) ==
  /\ rec.identity
  /\ rec.credential > state.credential
  /\ rec.key \notin state.revoked

(* The rendered files, deployment and manifest are written once: EnsureFile *)
(* accepts a file of an earlier attempt only when it is the same.          *)
Sealable(rec, response) ==
  rec.sealed => /\ rec.response = response
                /\ rec.policy = state.policy /\ rec.tombstone = state.tombstone

ApplyResponse(response) ==
  /\ Acquired /\ Anchored
  /\ state.pending # 0 /\ state.gen < MaxStateGeneration
  /\ LET id == state.pending
         rec == records[id] IN
       /\ Acceptable(rec) /\ Sealable(rec, response)
       /\ records' = [records EXCEPT ![id] =
            [rec EXCEPT !.sealed = TRUE, !.response = response,
               !.policy = state.policy, !.tombstone = state.tombstone]]
       /\ Commit("apply", id,
            [state EXCEPT !.gen = @ + 1, !.record = id,
               !.active = rec.credential, !.credential = rec.credential,
               !.consumed = @ \cup {id}, !.pending = 0])
  /\ UNCHANGED <<boot, state, anchor, journal, marker, anchorView, runtimeView,
                 staged, litter, exposed, partial, policies, runtime, faults>>

(* createDerivedRecord: the credentials of record r under a policy.        *)
Derived(r, policy, tombstone) ==
  [records[r] EXCEPT !.policy = policy, !.tombstone = tombstone,
                     !.sealed = TRUE, !.identity = FALSE, !.known = FALSE]

(* ApplyLifecyclePolicy: revocations only grow, the active credential may  *)
(* not be among them, and floors stay within the high-waters.  The signed  *)
(* document is stored as policy-<sequence>.json before the commit, and a   *)
(* file left there by another document is never replaced.                  *)
PolicyFile(revoked, floor) == [at |-> state, revoked |-> revoked, floor |-> floor]

Storable(seq, file) == seq \in DOMAIN policies => policies[seq] = file

ApplyLifecyclePolicy(revoked, floor) ==
  /\ Acquired /\ Anchored /\ Enrolled(state)
  /\ state.gen < MaxStateGeneration /\ Len(records) < MaxRecords
  /\ state.policy < MaxPolicySequence
  /\ state.revoked \subseteq revoked
  /\ KeyOf(state.record) \notin revoked
  /\ floor >= state.floor /\ floor <= state.credential
  /\ LET seq == state.policy + 1
         tomb == IF revoked = state.revoked THEN state.tombstone ELSE seq
         file == PolicyFile(revoked, floor)
         id == Len(records) + 1 IN
       /\ Storable(seq, file)
       /\ policies' = [q \in DOMAIN policies \cup {seq} |->
                         IF q = seq THEN file ELSE policies[q]]
       /\ records' = Append(records, Derived(state.record, seq, tomb))
       /\ Commit("policy", id,
            [state EXCEPT !.gen = @ + 1, !.policy = seq, !.tombstone = tomb,
               !.floor = floor, !.revoked = revoked, !.record = id])
  /\ UNCHANGED <<boot, state, anchor, journal, marker, anchorView, runtimeView,
                 staged, litter, exposed, partial, runtime, faults>>

\* Mutant: rollback does not look at the tombstones.
NotTombstonedEver(r) == TRUE

NotTombstoned(r) == KeyOf(r) \notin state.revoked

\* Mutant: any complete record on disk may be rolled back to.
AuthorisedOnDisk(r) == records[r].sealed

(* The operator signs the digest of a record that a status report named.   *)
Authorised(r) == records[r].sealed /\ records[r].known

(* Rollback to an authorised retained record: within floor and high-water, *)
(* not tombstoned, re-rendered under the current policy.                   *)
Rollback(r) ==
  /\ Acquired /\ Anchored /\ Enrolled(state)
  /\ state.gen < MaxStateGeneration /\ Len(records) < MaxRecords
  /\ Authorised(r)
  /\ records[r].credential >= state.floor
  /\ records[r].credential <= state.credential
  /\ NotTombstoned(r)
  /\ records' = Append(records, Derived(r, state.policy, state.tombstone))
  /\ Commit("rollback", r,
       [state EXCEPT !.gen = @ + 1, !.recovery = @ + 1,
          !.record = Len(records) + 1, !.active = records[r].credential])
  /\ UNCHANGED <<boot, state, anchor, journal, marker, anchorView, runtimeView,
                 staged, litter, exposed, partial, policies, runtime, faults>>

(* RecoverTransaction: the anchor decides.  When it binds state.json the   *)
(* attempt before it is abandoned and state.json is published again; when  *)
(* it is ahead, only the journal it binds may be installed.                *)
RecoveryTarget ==
  IF anchor = state THEN state ELSE journal

Recover ==
  /\ Acquired /\ state # NoFile
  /\ \/ anchor = state
     \/ journal # NoFile /\ anchor = journal /\ ValidateTransition(state, journal)
  /\ op' = [pc |-> "journal", kind |-> "recover", id |-> 0,
            next |-> RecoveryTarget, old |-> NoFile]
  /\ UNCHANGED <<targetFiles, runtime, faults>>

-----------------------------------------------------------------------------
(* prepareViewCommit, the two replacements and publishPreparedViews, one   *)
(* durable file operation a step.                                          *)

At(pc) == op.pc = pc
Goto(pc) == op' = [op EXCEPT !.pc = pc]

\* Mutant: no journal is written.
WriteJournalNever ==
  /\ At("journal") /\ Goto("stage")
  /\ UNCHANGED <<targetFiles, runtime, faults>>

WriteJournal ==
  /\ At("journal") /\ Goto("stage")
  /\ journal' = op.next
  /\ UNCHANGED <<boot, state, anchor, marker, anchorView, runtimeView, staged,
                 litter, exposed, partial, records, policies, runtime, faults>>

(* The previous selection is remembered for retirement; a generation that  *)
(* is exposed already is verified, another is (re)staged in private.       *)
Stage ==
  /\ At("stage")
  /\ op.next \notin partial
  /\ op' = [op EXCEPT !.pc = "marker", !.old = runtimeView]
  /\ staged' = IF Enrolled(op.next) /\ op.next \notin exposed
               THEN staged \cup {op.next} ELSE staged
  /\ UNCHANGED <<boot, state, anchor, journal, marker, anchorView, runtimeView,
                 litter, exposed, partial, records, policies, runtime, faults>>

WriteMarker ==
  /\ At("marker")
  /\ Goto(IF op.kind # "recover" THEN "anchor" ELSE "state")
  /\ marker' = TRUE
  /\ UNCHANGED <<boot, state, anchor, journal, anchorView, runtimeView, staged,
                 litter, exposed, partial, records, policies, runtime, faults>>

(* From here on a status report names the active record (known): only such *)
(* a record can be in an authorisation of the operator.                    *)
AdvanceAnchor ==
  /\ At("anchor") /\ Goto("state")
  /\ anchor' = op.next
  /\ records' = [r \in DOMAIN records |->
       IF r = op.next.record THEN [records[r] EXCEPT !.known = TRUE]
       ELSE records[r]]
  /\ UNCHANGED <<boot, state, journal, marker, anchorView, runtimeView, staged,
                 litter, exposed, partial, policies, runtime, faults>>

ReplaceState ==
  /\ At("state") /\ Goto("aview")
  /\ state' = op.next
  /\ UNCHANGED <<boot, anchor, journal, marker, anchorView, runtimeView, staged,
                 litter, exposed, partial, records, policies, runtime, faults>>

PublishAnchorView ==
  /\ At("aview") /\ Goto("expose")
  /\ anchorView' = op.next
  /\ UNCHANGED <<boot, state, anchor, journal, marker, runtimeView, staged,
                 litter, exposed, partial, records, policies, runtime, faults>>

(* ExposeDir insists on the exact file set, so a stage with a temporary    *)
(* file in it is refused and the operation ends there.                     *)
Expose ==
  /\ At("expose")
  /\ IF op.next \in staged
     THEN IF op.next \in litter
          THEN op' = Idle /\ UNCHANGED <<staged, exposed>>
          ELSE /\ Goto("retire")
               /\ staged' = staged \ {op.next}
               /\ exposed' = exposed \cup {op.next}
     ELSE Goto("retire") /\ UNCHANGED <<staged, exposed>>
  /\ UNCHANGED <<boot, state, anchor, journal, marker, anchorView, runtimeView,
                 litter, partial, records, policies, runtime, faults>>

(* RetireDir empties the previous generation and then removes it.          *)
Retiring == op.old # NoFile /\ op.old # op.next

RetireFiles ==
  /\ At("retire") /\ Goto("remove")
  /\ partial' = IF Retiring THEN partial \cup ({op.old} \cap exposed) ELSE partial
  /\ UNCHANGED <<boot, state, anchor, journal, marker, anchorView, runtimeView,
                 staged, litter, exposed, records, policies, runtime, faults>>

RetireDir ==
  /\ At("remove") /\ Goto("select")
  /\ exposed' = IF Retiring THEN exposed \ {op.old} ELSE exposed
  /\ partial' = IF Retiring THEN partial \ {op.old} ELSE partial
  /\ UNCHANGED <<boot, state, anchor, journal, marker, anchorView, runtimeView,
                 staged, litter, records, policies, runtime, faults>>

SelectRuntime ==
  /\ At("select") /\ Goto("unmark")
  /\ runtimeView' = IF Enrolled(op.next) THEN op.next ELSE runtimeView
  /\ UNCHANGED <<boot, state, anchor, journal, marker, anchorView, staged,
                 litter, exposed, partial, records, policies, runtime, faults>>

ClearMarker ==
  /\ At("unmark") /\ Goto("clean")
  /\ marker' = FALSE
  /\ UNCHANGED <<boot, state, anchor, journal, anchorView, runtimeView, staged,
                 litter, exposed, partial, records, policies, runtime, faults>>

CleanJournal ==
  /\ At("clean") /\ Goto("post")
  /\ journal' = NoFile
  /\ UNCHANGED <<boot, state, anchor, marker, anchorView, runtimeView, staged,
                 litter, exposed, partial, records, policies, runtime, faults>>

(* What follows the commit and is never relied on: the one-time response   *)
(* identity of an applied request, or the files of a cancelled one, are    *)
(* unlinked.                                                               *)
Post ==
  /\ At("post") /\ op' = Idle
  /\ records' = IF op.kind \in {"apply", "cancel"}
                THEN [records EXCEPT ![op.id].identity = FALSE] ELSE records
  /\ UNCHANGED <<boot, state, anchor, journal, marker, anchorView, runtimeView,
                 staged, litter, exposed, partial, policies, runtime, faults>>

(* The process dies, or a file operation fails and the error is returned:  *)
(* locks are released, files stay.  A writer killed inside the stage       *)
(* leaves the temporary name it was writing.                               *)
Stop ==
  /\ op # Idle /\ faults < MaxFaults
  /\ op' = Idle /\ faults' = faults + 1
  /\ \/ UNCHANGED <<staged, litter>>
     \/ /\ At("stage") /\ Enrolled(op.next) /\ op.next \notin exposed
        /\ staged' = staged \cup {op.next}
        /\ litter' = litter \cup {op.next}
  /\ UNCHANGED <<boot, state, anchor, journal, marker, anchorView, runtimeView,
                 exposed, partial, records, policies, runtime>>

(* WithReconciledAppliedResponse runs under lifecycle.lock only: the exact *)
(* response is bound by the active record, whose identity file it unlinks. *)
Reconcile(response) ==
  /\ op = Idle /\ Anchored
  /\ state.pending = 0 /\ Enrolled(state)
  /\ records[state.record].response = response
  /\ records[state.record].identity
  /\ records' = [records EXCEPT ![state.record].identity = FALSE]
  /\ UNCHANGED <<boot, state, anchor, journal, marker, anchorView, runtimeView,
                 staged, litter, exposed, partial, policies, op, runtime, faults>>

-----------------------------------------------------------------------------
(* OpenRuntimeGeneration: the gate is taken shared first, then the marker, *)
(* both views and the generation are read; FinalCheck repeats the reading  *)
(* before the first network operation.                                     *)

RuntimeLock ==
  /\ runtime = Down /\ op = Idle /\ boot = BootSteps
  /\ runtime' = [pc |-> "locked"]
  /\ UNCHANGED <<targetFiles, op, faults>>

Selectable == /\ ~marker /\ runtimeView # NoFile
              /\ runtimeView = anchorView
              /\ runtimeView \in exposed \ partial

RuntimeOpen ==
  /\ runtime.pc = "locked"
  /\ runtime' = IF Selectable THEN [pc |-> "open", view |-> runtimeView] ELSE Down
  /\ UNCHANGED <<targetFiles, op, faults>>

FinalCheck ==
  /\ runtime.pc = "open"
  /\ runtime' = IF Selectable /\ runtimeView = runtime.view
                THEN [runtime EXCEPT !.pc = "serving"] ELSE Down
  /\ UNCHANGED <<targetFiles, op, faults>>

RuntimeClose ==
  /\ runtime.pc = "serving" /\ runtime' = Down
  /\ UNCHANGED <<targetFiles, op, faults>>

-----------------------------------------------------------------------------
TargetNext ==
  \/ Bootstrap \/ BootstrapStep \/ InitRequest \/ CancelPending
  \/ \E response \in Responses : ApplyResponse(response) \/ Reconcile(response)
  \/ \E revoked \in SUBSET {records[r].key : r \in DOMAIN records},
        floor \in 0..MaxRecords : ApplyLifecyclePolicy(revoked, floor)
  \/ \E r \in DOMAIN records : Rollback(r)
  \/ Recover \/ WriteJournal \/ Stage \/ WriteMarker \/ AdvanceAnchor
  \/ ReplaceState \/ PublishAnchorView \/ Expose \/ RetireFiles \/ RetireDir
  \/ SelectRuntime \/ ClearMarker \/ CleanJournal \/ Post \/ Stop
  \/ RuntimeLock \/ RuntimeOpen \/ FinalCheck \/ RuntimeClose

TargetSpec == TargetInit /\ [][TargetNext]_targetVars

-----------------------------------------------------------------------------
(* Properties                                                              *)

(* Wherever an operation stops, private state is recoverable: the anchor   *)
(* binds state.json, or it binds the journal, which is one valid           *)
(* transition ahead (commitAnchoredState's order of journal, anchor,       *)
(* state; RecoverTransaction never finds the anchor ahead of nothing).     *)
Recoverable ==
  state # NoFile =>
    \/ anchor = state
    \/ journal # NoFile /\ anchor = journal /\ ValidateTransition(state, journal)

(* A runtime that passed OpenRuntimeGeneration and FinalCheck uses the     *)
(* generation of the committed state, complete and exposed, for as long as *)
(* it serves: no lifecycle operation moves or empties it underneath.       *)
RuntimeServesAnchored ==
  runtime.pc \in {"open", "serving"} =>
    /\ runtime.view = anchor /\ runtime.view = state
    /\ runtime.view \in exposed \ partial
    /\ records[anchor.record].policy = anchor.policy

(* A tombstoned credential is not active in any committed state, whatever  *)
(* mix of rollback, re-applied response, policy and recovery led there.    *)
RevocationSticks ==
  anchor # NoFile /\ Enrolled(anchor) =>
    records[anchor.record].key \notin anchor.revoked

(* What the runtime may use, in every state: the committed generation, and *)
(* never a revoked credential.                                             *)
ServedIsAuthorised == RuntimeServesAnchored /\ RevocationSticks

(* The active credential changes only to that of the pending request or    *)
(* back to one that was active before: a cancelled or consumed request     *)
(* never comes to life, through a crash and recovery included.             *)
ActiveLineage ==
  [][anchor' # anchor /\ anchor # NoFile /\ Enrolled(anchor') =>
       LET key == records'[anchor'.record].key IN
         \/ key = anchor.pending /\ key \notin anchor.consumed
         \/ \E r \in DOMAIN records : records[r].known /\ records[r].key = key]_targetVars

=============================================================================
