-------------------------- MODULE EnrollmentProofs --------------------------
(***************************************************************************)
(* Proofs about the enrolled machine, for any number of operations,        *)
(* records and faults, and about the file primitives it stands on, for any *)
(* values, inodes and faults; and about the setup of a client through the  *)
(* relay's mailbox, for any invitations, transcripts, responses and times. *)
(*                                                                         *)
(* TargetInv says how far journal, anchor and state of the operation under *)
(* way have come at each of its writes (CommitHolds), that without the     *)
(* marker the published anchor is the committed state (MarkerHolds), and   *)
(* that the records a state names are its own and not revoked              *)
(* (RecordsHold).  Recoverable, ServedIsAuthorised and ActiveLineage       *)
(* follow.                                                                 *)
(*                                                                         *)
(* FileInv says what the call has made of its inode at each system call    *)
(* (CallHolds), that a file open to the group is whole and synced          *)
(* (OpenHolds), and that every directory entry a power loss could bring    *)
(* back is one the callers allow (EntriesHold).                            *)
(*                                                                         *)
(* SetupInv says what each phase of a recipient's session implies for the  *)
(* operator's and for the lifecycle root (SessionsHold, LifeHolds), that   *)
(* no two invitations share a request (RequestsOwned), what the receipt    *)
(* stands on (ReadyHolds), and what the command under way has established  *)
(* at each of its positions (WorkingHolds, ClosingHolds).  ExchangeSound   *)
(* and SetupSurvives follow.                                               *)
(***************************************************************************)
EXTENDS EnrollmentTarget, ClientSetup, SecureFile, FiniteSetTheorems, SequenceTheorems, TLAPS

-----------------------------------------------------------------------------
(* The enrolled machine: state, anchor, journal and views. *)

States == [gen : Nat \ {0}, request : Nat, credential : Nat, floor : Nat, record : Nat,
           active : Nat, policy : Nat, tombstone : Nat, pending : Nat,
           consumed : SUBSET Nat, revoked : SUBSET Nat, recovery : Nat]
StateFiles == States \cup {NoFile}
RecordDirs == [key : Nat, credential : Nat, response : Responses \cup {0}, policy : Nat,
               tombstone : Nat, sealed : BOOLEAN, identity : BOOLEAN, known : BOOLEAN]
BeforeAnchor == {"journal", "stage", "marker", "anchor"}
Publishing == {"aview", "expose", "retire", "remove", "select", "unmark", "clean", "post"}
CommitSteps == BeforeAnchor \cup {"state"} \cup Publishing
Operations == [pc : CommitSteps \cup {"boot"},
               kind : {"boot", "init", "cancel", "apply", "policy", "rollback", "recover"},
               id : Nat, next : States, old : StateFiles]
Runtimes == {Down, [pc |-> "locked"]} \cup [pc : {"open", "serving"}, view : StateFiles]

TargetTypeOK ==
    /\ boot \in 0 .. BootSteps
    /\ state \in StateFiles /\ anchor \in StateFiles /\ journal \in StateFiles
    /\ anchorView \in StateFiles /\ runtimeView \in StateFiles
    /\ marker \in BOOLEAN
    /\ staged \subseteq States /\ litter \subseteq States
    /\ exposed \subseteq States /\ partial \subseteq States
    /\ records \in Seq(RecordDirs)
    /\ op \in Operations \cup {Idle}
    /\ runtime \in Runtimes

\* Bootstrap writes state.json last, and nothing else runs before it.
BootHolds ==
    /\ boot < BootSteps => /\ state = NoFile /\ ~marker /\ runtimeView = NoFile
                           /\ op.pc \in {"idle", "boot"} /\ runtime = Down
    /\ boot = BootSteps => state # NoFile /\ op.pc # "boot"
    /\ boot < 3 => anchor = NoFile
    /\ boot \in 3 .. 4 => anchor = FirstState
    /\ boot = 4 => anchorView = FirstState
    /\ op.pc = "boot" => boot > 0

\* How far journal, anchor and state of the operation under way have come.
CommitHolds ==
    /\ op.pc \in {"journal", "stage", "marker"} /\ op.kind = "recover" =>
          /\ anchor = op.next
          /\ state = op.next \/ (journal = op.next /\ ValidateTransition(state, op.next))
    /\ op.pc \in BeforeAnchor /\ (op.kind # "recover" \/ op.pc = "anchor") =>
          op.kind # "recover" /\ anchor = state /\ ValidateTransition(state, op.next)
    /\ op.pc \in {"stage", "marker", "anchor", "state"} => journal = op.next
    /\ op.pc = "state" =>
          anchor = op.next /\ (state = op.next \/ ValidateTransition(state, op.next))
    /\ op.pc \in Publishing => anchor = op.next /\ state = op.next
    /\ op.pc \in Publishing \ {"aview"} => anchorView = op.next

\* Without the marker the published anchor is the committed state.
MarkerHolds ==
    /\ ~marker /\ state # NoFile => anchor = state /\ anchorView = state
    /\ op.pc \in {"anchor", "state"} \cup (Publishing \ {"clean", "post"}) => marker

\* A runtime has the gate: no operation runs, and what it read is still there.
RuntimeHolds ==
    /\ runtime # Down => op = Idle
    /\ runtime.pc \in {"open", "serving"} =>
          /\ ~marker /\ runtimeView # NoFile
          /\ runtime.view = runtimeView /\ runtimeView = anchorView
          /\ runtimeView \in exposed \ partial
    /\ runtimeView # NoFile => Enrolled(runtimeView)

\* The records a state names exist: the pending request is its own key and not
\* the active record, which was rendered under the state's policy and is not
\* tombstoned by it.
Sound(s) ==
    s # NoFile =>
      /\ s.record \in 0 .. Len(records) /\ s.pending \in 0 .. Len(records)
      /\ s.pending # 0 => s.pending # s.record /\ records[s.pending].key = s.pending
      /\ s.record # 0 => /\ records[s.record].policy = s.policy
                         /\ records[s.record].key \notin s.revoked

\* Where the credential of the state being committed comes from.
Lineage ==
    \/ /\ records[op.next.record].key = state.pending
       /\ state.pending \notin state.consumed
    \/ \E r \in DOMAIN records :
          records[r].known /\ records[r].key = records[op.next.record].key

RecordsHold ==
    /\ Sound(state) /\ Sound(anchor)
    /\ op.pc \in CommitSteps => Sound(op.next)
    /\ anchor # NoFile /\ anchor.record # 0 => records[anchor.record].known
    /\ op.pc \in BeforeAnchor /\ op.kind # "recover" /\ op.next.record # 0 => Lineage
    /\ op.pc \in CommitSteps /\ op.kind \in {"apply", "cancel"} => op.id \in DOMAIN records

TargetInv == /\ TargetTypeOK /\ BootHolds /\ CommitHolds /\ MarkerHolds /\ RuntimeHolds
             /\ RecordsHold /\ Recoverable

-----------------------------------------------------------------------------
\* The first state is a state, and no state is the missing file.
LEMMA StateFacts ==
    /\ FirstState \in States /\ NoFile \notin States
    /\ FirstState.record = 0 /\ FirstState.pending = 0
    /\ Idle \notin Operations /\ Idle.pc = "idle" /\ Down.pc = "down"
  BY DEF FirstState, States, NoFile, Idle, Operations, Down, CommitSteps, BeforeAnchor, Publishing

\* Before Bootstrap nothing is there.
LEMMA TargetInit_Inv == TargetInit => TargetInv
  <1> SUFFICES ASSUME TargetInit PROVE TargetInv
    OBVIOUS
  <1>1. TargetTypeOK
    <2>1. records \in Seq(RecordDirs)
      BY DEF TargetInit
    <2>2. marker \in BOOLEAN
      BY DEF TargetInit
    <2> QED BY <2>1, <2>2 DEF TargetInit, TargetTypeOK, StateFiles, BootSteps, Runtimes
  <1>2. op.pc = "idle" /\ runtime = Down /\ runtime.pc = "down"
    BY StateFacts DEF TargetInit
  <1>3. BootHolds
    BY <1>2 DEF TargetInit, BootHolds, BootSteps
  <1>4. CommitHolds /\ MarkerHolds
    BY <1>2 DEF TargetInit, CommitHolds, MarkerHolds, BeforeAnchor, Publishing
  <1>5. RuntimeHolds
    BY <1>2 DEF TargetInit, RuntimeHolds
  <1>6. RecordsHold
    BY <1>2 DEF TargetInit, RecordsHold, Sound, CommitSteps, BeforeAnchor, Publishing
  <1>7. Recoverable
    BY DEF TargetInit, Recoverable
  <1> QED BY <1>1, <1>3, <1>4, <1>5, <1>6, <1>7 DEF TargetInv

\* An operation that moves on keeps everything but its place.
LEMMA GotoEffect ==
    ASSUME TargetInv, NEW p \in CommitSteps, op.pc \in CommitSteps, Goto(p)
    PROVE  /\ op \in Operations /\ op' \in Operations /\ op'.pc = p
           /\ op'.kind = op.kind /\ op'.id = op.id /\ op'.next = op.next /\ op'.old = op.old
           /\ op.next \in States /\ runtime = Down /\ boot = BootSteps /\ state # NoFile
  <1>1. op # Idle
    BY StateFacts DEF CommitSteps, BeforeAnchor, Publishing
  <1>2. op \in Operations
    BY <1>1 DEF TargetInv, TargetTypeOK
  <1>3. runtime = Down
    BY <1>1 DEF TargetInv, RuntimeHolds
  <1>4. boot = BootSteps /\ state # NoFile
    BY DEF TargetInv, BootHolds, TargetTypeOK, BootSteps, CommitSteps, BeforeAnchor, Publishing
  <1>5. op' = [op EXCEPT !.pc = p]
    BY DEF Goto
  <1> QED BY <1>2, <1>3, <1>4, <1>5 DEF Operations

-----------------------------------------------------------------------------
(* The steps of a commit. *)

\* The journal binds what is about to be committed.
LEMMA WriteJournal_Inv == TargetInv /\ WriteJournal => TargetInv'
  <1> SUFFICES ASSUME TargetInv, WriteJournal PROVE TargetInv'
    OBVIOUS
  <1> USE DEF CommitSteps, BeforeAnchor, Publishing
  <1>1. /\ op \in Operations /\ op' \in Operations /\ op.pc = "journal" /\ op'.pc = "stage"
        /\ op'.kind = op.kind /\ op'.id = op.id /\ op'.next = op.next
        /\ op.next \in States /\ runtime = Down /\ boot = BootSteps /\ state # NoFile
    BY GotoEffect DEF WriteJournal, At
  <1>2. TargetTypeOK'
    BY <1>1 DEF TargetInv, TargetTypeOK, WriteJournal, StateFiles
  <1>3. BootHolds'
    BY <1>1, StateFacts DEF TargetInv, BootHolds, WriteJournal, BootSteps
  <1>4. CommitHolds'
    BY <1>1, StateFacts DEF TargetInv, CommitHolds, WriteJournal
  <1>5. MarkerHolds'
    BY <1>1 DEF TargetInv, MarkerHolds, CommitHolds, WriteJournal
  <1>6. RuntimeHolds'
    BY <1>1, StateFacts DEF TargetInv, RuntimeHolds, WriteJournal
  <1>7. RecordsHold'
    BY <1>1 DEF TargetInv, RecordsHold, CommitHolds, Sound, Lineage, WriteJournal
  <1>8. Recoverable'
    BY <1>1 DEF TargetInv, Recoverable, CommitHolds, WriteJournal
  <1> QED BY <1>2, <1>3, <1>4, <1>5, <1>6, <1>7, <1>8 DEF TargetInv

\* The marker is there before anything published changes.
LEMMA WriteMarker_Inv == TargetInv /\ WriteMarker => TargetInv'
  <1> SUFFICES ASSUME TargetInv, WriteMarker PROVE TargetInv'
    OBVIOUS
  <1> USE DEF CommitSteps, BeforeAnchor, Publishing
  <1>1. /\ op \in Operations /\ op' \in Operations /\ op.pc = "marker" /\ op'.pc = (IF op.kind # "recover" THEN "anchor" ELSE "state")
        /\ op'.kind = op.kind /\ op'.id = op.id /\ op'.next = op.next
        /\ op.next \in States /\ runtime = Down /\ boot = BootSteps /\ state # NoFile
    BY GotoEffect DEF WriteMarker, At
  <1>2. TargetTypeOK'
    BY <1>1 DEF TargetInv, TargetTypeOK, WriteMarker, StateFiles
  <1>3. BootHolds'
    BY <1>1, StateFacts DEF TargetInv, BootHolds, WriteMarker, BootSteps
  <1>4. CommitHolds'
    BY <1>1, StateFacts DEF TargetInv, CommitHolds, WriteMarker
  <1>5. MarkerHolds'
    BY <1>1 DEF TargetInv, MarkerHolds, CommitHolds, WriteMarker
  <1>6. RuntimeHolds'
    BY <1>1, StateFacts DEF TargetInv, RuntimeHolds, WriteMarker
  <1>7. RecordsHold'
    BY <1>1 DEF TargetInv, RecordsHold, CommitHolds, Sound, Lineage, WriteMarker
  <1>8. Recoverable'
    BY <1>1 DEF TargetInv, Recoverable, CommitHolds, WriteMarker
  <1> QED BY <1>2, <1>3, <1>4, <1>5, <1>6, <1>7, <1>8 DEF TargetInv

\* state.json follows the anchor.
LEMMA ReplaceState_Inv == TargetInv /\ ReplaceState => TargetInv'
  <1> SUFFICES ASSUME TargetInv, ReplaceState PROVE TargetInv'
    OBVIOUS
  <1> USE DEF CommitSteps, BeforeAnchor, Publishing
  <1>1. /\ op \in Operations /\ op' \in Operations /\ op.pc = "state" /\ op'.pc = "aview"
        /\ op'.kind = op.kind /\ op'.id = op.id /\ op'.next = op.next
        /\ op.next \in States /\ runtime = Down /\ boot = BootSteps /\ state # NoFile
    BY GotoEffect DEF ReplaceState, At
  <1>2. TargetTypeOK'
    BY <1>1 DEF TargetInv, TargetTypeOK, ReplaceState, StateFiles
  <1>3. BootHolds'
    BY <1>1, StateFacts DEF TargetInv, BootHolds, ReplaceState, BootSteps
  <1>4. CommitHolds'
    BY <1>1, StateFacts DEF TargetInv, CommitHolds, ReplaceState
  <1>5. MarkerHolds'
    BY <1>1 DEF TargetInv, MarkerHolds, CommitHolds, ReplaceState
  <1>6. RuntimeHolds'
    BY <1>1, StateFacts DEF TargetInv, RuntimeHolds, ReplaceState
  <1>7. RecordsHold'
    BY <1>1 DEF TargetInv, RecordsHold, CommitHolds, Sound, Lineage, ReplaceState
  <1>8. Recoverable'
    BY <1>1 DEF TargetInv, Recoverable, CommitHolds, ReplaceState
  <1> QED BY <1>2, <1>3, <1>4, <1>5, <1>6, <1>7, <1>8 DEF TargetInv

\* The published anchor follows.
LEMMA PublishAnchorView_Inv == TargetInv /\ PublishAnchorView => TargetInv'
  <1> SUFFICES ASSUME TargetInv, PublishAnchorView PROVE TargetInv'
    OBVIOUS
  <1> USE DEF CommitSteps, BeforeAnchor, Publishing
  <1>1. /\ op \in Operations /\ op' \in Operations /\ op.pc = "aview" /\ op'.pc = "expose"
        /\ op'.kind = op.kind /\ op'.id = op.id /\ op'.next = op.next
        /\ op.next \in States /\ runtime = Down /\ boot = BootSteps /\ state # NoFile
    BY GotoEffect DEF PublishAnchorView, At
  <1>2. TargetTypeOK'
    BY <1>1 DEF TargetInv, TargetTypeOK, PublishAnchorView, StateFiles
  <1>3. BootHolds'
    BY <1>1, StateFacts DEF TargetInv, BootHolds, PublishAnchorView, BootSteps
  <1>4. CommitHolds'
    BY <1>1, StateFacts DEF TargetInv, CommitHolds, PublishAnchorView
  <1>5. MarkerHolds'
    BY <1>1 DEF TargetInv, MarkerHolds, CommitHolds, PublishAnchorView
  <1>6. RuntimeHolds'
    BY <1>1, StateFacts DEF TargetInv, RuntimeHolds, PublishAnchorView
  <1>7. RecordsHold'
    BY <1>1 DEF TargetInv, RecordsHold, CommitHolds, Sound, Lineage, PublishAnchorView
  <1>8. Recoverable'
    BY <1>1 DEF TargetInv, Recoverable, CommitHolds, PublishAnchorView
  <1> QED BY <1>2, <1>3, <1>4, <1>5, <1>6, <1>7, <1>8 DEF TargetInv

\* Nobody reads the generation that is emptied.
LEMMA RetireFiles_Inv == TargetInv /\ RetireFiles => TargetInv'
  <1> SUFFICES ASSUME TargetInv, RetireFiles PROVE TargetInv'
    OBVIOUS
  <1> USE DEF CommitSteps, BeforeAnchor, Publishing
  <1>1. /\ op \in Operations /\ op' \in Operations /\ op.pc = "retire" /\ op'.pc = "remove"
        /\ op'.kind = op.kind /\ op'.id = op.id /\ op'.next = op.next
        /\ op.next \in States /\ runtime = Down /\ boot = BootSteps /\ state # NoFile
    BY GotoEffect DEF RetireFiles, At
  <1>2. TargetTypeOK'
    BY <1>1 DEF TargetInv, TargetTypeOK, RetireFiles, StateFiles, Retiring
  <1>3. BootHolds'
    BY <1>1, StateFacts DEF TargetInv, BootHolds, RetireFiles, BootSteps
  <1>4. CommitHolds'
    BY <1>1, StateFacts DEF TargetInv, CommitHolds, RetireFiles
  <1>5. MarkerHolds'
    BY <1>1 DEF TargetInv, MarkerHolds, CommitHolds, RetireFiles
  <1>6. RuntimeHolds'
    BY <1>1, StateFacts DEF TargetInv, RuntimeHolds, RetireFiles
  <1>7. RecordsHold'
    BY <1>1 DEF TargetInv, RecordsHold, CommitHolds, Sound, Lineage, RetireFiles
  <1>8. Recoverable'
    BY <1>1 DEF TargetInv, Recoverable, CommitHolds, RetireFiles
  <1> QED BY <1>2, <1>3, <1>4, <1>5, <1>6, <1>7, <1>8 DEF TargetInv

\* The previous generation goes.
LEMMA RetireDir_Inv == TargetInv /\ RetireDir => TargetInv'
  <1> SUFFICES ASSUME TargetInv, RetireDir PROVE TargetInv'
    OBVIOUS
  <1> USE DEF CommitSteps, BeforeAnchor, Publishing
  <1>1. /\ op \in Operations /\ op' \in Operations /\ op.pc = "remove" /\ op'.pc = "select"
        /\ op'.kind = op.kind /\ op'.id = op.id /\ op'.next = op.next
        /\ op.next \in States /\ runtime = Down /\ boot = BootSteps /\ state # NoFile
    BY GotoEffect DEF RetireDir, At
  <1>2. TargetTypeOK'
    BY <1>1 DEF TargetInv, TargetTypeOK, RetireDir, StateFiles, Retiring
  <1>3. BootHolds'
    BY <1>1, StateFacts DEF TargetInv, BootHolds, RetireDir, BootSteps
  <1>4. CommitHolds'
    BY <1>1, StateFacts DEF TargetInv, CommitHolds, RetireDir
  <1>5. MarkerHolds'
    BY <1>1 DEF TargetInv, MarkerHolds, CommitHolds, RetireDir
  <1>6. RuntimeHolds'
    BY <1>1, StateFacts DEF TargetInv, RuntimeHolds, RetireDir
  <1>7. RecordsHold'
    BY <1>1 DEF TargetInv, RecordsHold, CommitHolds, Sound, Lineage, RetireDir
  <1>8. Recoverable'
    BY <1>1 DEF TargetInv, Recoverable, CommitHolds, RetireDir
  <1> QED BY <1>2, <1>3, <1>4, <1>5, <1>6, <1>7, <1>8 DEF TargetInv

\* The runtime selection is the committed state, if it is enrolled.
LEMMA SelectRuntime_Inv == TargetInv /\ SelectRuntime => TargetInv'
  <1> SUFFICES ASSUME TargetInv, SelectRuntime PROVE TargetInv'
    OBVIOUS
  <1> USE DEF CommitSteps, BeforeAnchor, Publishing
  <1>1. /\ op \in Operations /\ op' \in Operations /\ op.pc = "select" /\ op'.pc = "unmark"
        /\ op'.kind = op.kind /\ op'.id = op.id /\ op'.next = op.next
        /\ op.next \in States /\ runtime = Down /\ boot = BootSteps /\ state # NoFile
    BY GotoEffect DEF SelectRuntime, At
  <1>2. TargetTypeOK'
    BY <1>1 DEF TargetInv, TargetTypeOK, SelectRuntime, StateFiles
  <1>3. BootHolds'
    BY <1>1, StateFacts DEF TargetInv, BootHolds, SelectRuntime, BootSteps
  <1>4. CommitHolds'
    BY <1>1, StateFacts DEF TargetInv, CommitHolds, SelectRuntime
  <1>5. MarkerHolds'
    BY <1>1 DEF TargetInv, MarkerHolds, CommitHolds, SelectRuntime
  <1>6. RuntimeHolds'
    BY <1>1, StateFacts DEF TargetInv, RuntimeHolds, SelectRuntime
  <1>7. RecordsHold'
    BY <1>1 DEF TargetInv, RecordsHold, CommitHolds, Sound, Lineage, SelectRuntime
  <1>8. Recoverable'
    BY <1>1 DEF TargetInv, Recoverable, CommitHolds, SelectRuntime
  <1> QED BY <1>2, <1>3, <1>4, <1>5, <1>6, <1>7, <1>8 DEF TargetInv

\* The marker goes after both views.
LEMMA ClearMarker_Inv == TargetInv /\ ClearMarker => TargetInv'
  <1> SUFFICES ASSUME TargetInv, ClearMarker PROVE TargetInv'
    OBVIOUS
  <1> USE DEF CommitSteps, BeforeAnchor, Publishing
  <1>1. /\ op \in Operations /\ op' \in Operations /\ op.pc = "unmark" /\ op'.pc = "clean"
        /\ op'.kind = op.kind /\ op'.id = op.id /\ op'.next = op.next
        /\ op.next \in States /\ runtime = Down /\ boot = BootSteps /\ state # NoFile
    BY GotoEffect DEF ClearMarker, At
  <1>2. TargetTypeOK'
    BY <1>1 DEF TargetInv, TargetTypeOK, ClearMarker, StateFiles
  <1>3. BootHolds'
    BY <1>1, StateFacts DEF TargetInv, BootHolds, ClearMarker, BootSteps
  <1>4. CommitHolds'
    BY <1>1, StateFacts DEF TargetInv, CommitHolds, ClearMarker
  <1>5. MarkerHolds'
    BY <1>1 DEF TargetInv, MarkerHolds, CommitHolds, ClearMarker
  <1>6. RuntimeHolds'
    BY <1>1, StateFacts DEF TargetInv, RuntimeHolds, ClearMarker
  <1>7. RecordsHold'
    BY <1>1 DEF TargetInv, RecordsHold, CommitHolds, Sound, Lineage, ClearMarker
  <1>8. Recoverable'
    BY <1>1 DEF TargetInv, Recoverable, CommitHolds, ClearMarker
  <1> QED BY <1>2, <1>3, <1>4, <1>5, <1>6, <1>7, <1>8 DEF TargetInv

\* The journal goes last.
LEMMA CleanJournal_Inv == TargetInv /\ CleanJournal => TargetInv'
  <1> SUFFICES ASSUME TargetInv, CleanJournal PROVE TargetInv'
    OBVIOUS
  <1> USE DEF CommitSteps, BeforeAnchor, Publishing
  <1>1. /\ op \in Operations /\ op' \in Operations /\ op.pc = "clean" /\ op'.pc = "post"
        /\ op'.kind = op.kind /\ op'.id = op.id /\ op'.next = op.next
        /\ op.next \in States /\ runtime = Down /\ boot = BootSteps /\ state # NoFile
    BY GotoEffect DEF CleanJournal, At
  <1>2. TargetTypeOK'
    BY <1>1 DEF TargetInv, TargetTypeOK, CleanJournal, StateFiles
  <1>3. BootHolds'
    BY <1>1, StateFacts DEF TargetInv, BootHolds, CleanJournal, BootSteps
  <1>4. CommitHolds'
    BY <1>1, StateFacts DEF TargetInv, CommitHolds, CleanJournal
  <1>5. MarkerHolds'
    BY <1>1 DEF TargetInv, MarkerHolds, CommitHolds, CleanJournal
  <1>6. RuntimeHolds'
    BY <1>1, StateFacts DEF TargetInv, RuntimeHolds, CleanJournal
  <1>7. RecordsHold'
    BY <1>1 DEF TargetInv, RecordsHold, CommitHolds, Sound, Lineage, CleanJournal
  <1>8. Recoverable'
    BY <1>1 DEF TargetInv, Recoverable, CommitHolds, CleanJournal
  <1> QED BY <1>2, <1>3, <1>4, <1>5, <1>6, <1>7, <1>8 DEF TargetInv

\* The previous selection is remembered and the new generation staged.
LEMMA Stage_Inv == TargetInv /\ Stage => TargetInv'
  <1> SUFFICES ASSUME TargetInv, Stage PROVE TargetInv'
    OBVIOUS
  <1> USE DEF CommitSteps, BeforeAnchor, Publishing
  <1>1. op \in Operations /\ op.pc = "stage" /\ runtime = Down /\ boot = BootSteps /\ state # NoFile
    <2>1. op.pc = "stage" /\ op # Idle
      BY StateFacts DEF Stage, At
    <2> QED BY <2>1 DEF TargetInv, TargetTypeOK, RuntimeHolds, BootHolds, BootSteps
  <1>2. op' = [op EXCEPT !.pc = "marker", !.old = runtimeView] /\ runtimeView \in StateFiles
    BY DEF Stage, TargetInv, TargetTypeOK
  <1>3. /\ op' \in Operations /\ op'.pc = "marker" /\ op'.kind = op.kind /\ op'.id = op.id
        /\ op'.next = op.next /\ op.next \in States
    BY <1>1, <1>2 DEF Operations
  <1>4. TargetTypeOK'
    BY <1>3 DEF TargetInv, TargetTypeOK, Stage
  <1>5. BootHolds' /\ MarkerHolds' /\ RuntimeHolds'
    BY <1>1, <1>3 DEF TargetInv, BootHolds, BootSteps, MarkerHolds, RuntimeHolds, Stage, Down
  <1>6. CommitHolds' /\ Recoverable'
    BY <1>1, <1>3 DEF TargetInv, CommitHolds, Recoverable, Stage
  <1>7. RecordsHold'
    BY <1>1, <1>3 DEF TargetInv, RecordsHold, Sound, Lineage, Stage
  <1> QED BY <1>4, <1>5, <1>6, <1>7 DEF TargetInv

\* The anchor commits; the record it names is known from here on.
LEMMA AdvanceAnchor_Inv == TargetInv /\ AdvanceAnchor => TargetInv'
  <1> SUFFICES ASSUME TargetInv, AdvanceAnchor PROVE TargetInv'
    OBVIOUS
  <1> USE DEF CommitSteps, BeforeAnchor, Publishing
  <1>1. /\ op \in Operations /\ op' \in Operations /\ op.pc = "anchor" /\ op'.pc = "state"
        /\ op'.kind = op.kind /\ op'.id = op.id /\ op'.next = op.next
        /\ op.next \in States /\ runtime = Down /\ boot = BootSteps /\ state # NoFile
    BY GotoEffect DEF AdvanceAnchor, At
  <1>2. records \in Seq(RecordDirs)
    BY DEF TargetInv, TargetTypeOK
  <1>3. /\ records' \in Seq(RecordDirs) /\ Len(records') = Len(records)
        /\ DOMAIN records' = DOMAIN records
        /\ \A r \in DOMAIN records : /\ records'[r].key = records[r].key
                                     /\ records'[r].policy = records[r].policy
                                     /\ r = op.next.record => records'[r].known
    <2> DEFINE New(r) == IF r = op.next.record THEN [records[r] EXCEPT !.known = TRUE]
                         ELSE records[r]
    <2>1. records' = [r \in 1 .. Len(records) |-> New(r)] /\ DOMAIN records = 1 .. Len(records)
      BY <1>2 DEF AdvanceAnchor
    <2>2. \A r \in 1 .. Len(records) : records[r] \in RecordDirs
      BY <1>2
    <2>3. \A r \in 1 .. Len(records) :
             /\ New(r) \in RecordDirs
             /\ New(r).key = records[r].key /\ New(r).policy = records[r].policy
             /\ r = op.next.record => New(r).known
      BY <2>2 DEF RecordDirs
    <2> HIDE DEF New
    <2>4. Len(records) \in Nat
      BY <1>2
    <2>5. records' \in [1 .. Len(records) -> RecordDirs]
      BY <2>1, <2>3
    <2>6. records' \in Seq(RecordDirs)
      BY <2>4, <2>5
    <2>7. Len(records') = Len(records)
      BY <2>4, <2>1, <2>6
    <2> QED BY <2>1, <2>3, <2>6, <2>7
  <1>4. TargetTypeOK'
    BY <1>1, <1>3 DEF TargetInv, TargetTypeOK, AdvanceAnchor, StateFiles
  <1>5. BootHolds' /\ RuntimeHolds'
    BY <1>1 DEF TargetInv, BootHolds, BootSteps, RuntimeHolds, AdvanceAnchor, Down
  <1>6. CommitHolds' /\ MarkerHolds' /\ Recoverable'
    BY <1>1, StateFacts DEF TargetInv, CommitHolds, MarkerHolds, Recoverable, AdvanceAnchor
  <1>7. \A s \in StateFiles : Sound(s) =>
          (s # NoFile =>
            /\ s.record \in 0 .. Len(records') /\ s.pending \in 0 .. Len(records')
            /\ s.pending # 0 => s.pending # s.record /\ records'[s.pending].key = s.pending
            /\ s.record # 0 => /\ records'[s.record].policy = s.policy
                               /\ records'[s.record].key \notin s.revoked)
    BY <1>2, <1>3 DEF Sound
  <1>8. RecordsHold'
    <2>1. Sound(state)' /\ Sound(anchor)' /\ Sound(op.next)'
      BY <1>1, <1>7, StateFacts DEF TargetInv, TargetTypeOK, RecordsHold, StateFiles, Sound, AdvanceAnchor
    <2>2. anchor'.record # 0 => records'[anchor'.record].known
      BY <1>1, <1>2, <1>3, StateFacts DEF TargetInv, RecordsHold, Sound, AdvanceAnchor
    <2> QED BY <1>1, <1>3, <2>1, <2>2 DEF TargetInv, RecordsHold
  <1> QED BY <1>4, <1>5, <1>6, <1>8 DEF TargetInv

\* The operation ends and leaves the files as they are.
LEMMA EndsInv ==
    ASSUME TargetInv, op # Idle, op' = Idle,
           UNCHANGED << boot, state, anchor, journal, marker, anchorView, runtimeView, exposed,
                        partial, records, runtime >>,
           staged' \subseteq States, litter' \subseteq States
    PROVE  TargetInv'
  <1>1. op'.pc = "idle" /\ runtime = Down
    BY StateFacts DEF TargetInv, RuntimeHolds
  <1>2. TargetTypeOK' /\ BootHolds' /\ MarkerHolds' /\ RuntimeHolds' /\ CommitHolds'
    BY <1>1 DEF TargetInv, TargetTypeOK, BootHolds, MarkerHolds, RuntimeHolds, CommitHolds, Down,
                BeforeAnchor, Publishing
  <1>3. RecordsHold' /\ Recoverable'
    BY <1>1 DEF TargetInv, RecordsHold, Sound, Recoverable, CommitSteps, BeforeAnchor, Publishing
  <1> QED BY <1>2, <1>3 DEF TargetInv

\* A stage with a dead writer's file ends the operation; another is exposed.
LEMMA Expose_Inv == TargetInv /\ Expose => TargetInv'
  <1> SUFFICES ASSUME TargetInv, Expose PROVE TargetInv'
    OBVIOUS
  <1> USE DEF CommitSteps, BeforeAnchor, Publishing
  <1>1. CASE op' = Idle
    <2>1. op # Idle /\ op \in Operations
      BY StateFacts DEF Expose, At, TargetInv, TargetTypeOK
    <2>2. [op EXCEPT !.pc = "retire"] # Idle
      BY <2>1 DEF Operations, Idle
    <2>3. UNCHANGED << staged, exposed >>
      BY <1>1, <2>2 DEF Expose, Goto
    <2> QED BY <1>1, <2>1, <2>3, EndsInv DEF Expose, TargetInv, TargetTypeOK
  <1>2. CASE op' # Idle
    <2>0. op.pc = "expose" /\ Goto("retire")
      BY <1>2 DEF Expose, At
    <2>1. /\ op \in Operations /\ op' \in Operations /\ op'.pc = "retire"
          /\ op'.kind = op.kind /\ op'.id = op.id /\ op'.next = op.next
          /\ op.next \in States /\ runtime = Down /\ boot = BootSteps /\ state # NoFile
      BY <2>0, GotoEffect
    <2>2. TargetTypeOK'
      BY <2>1 DEF TargetInv, TargetTypeOK, Expose
    <2>3. BootHolds' /\ MarkerHolds' /\ RuntimeHolds'
      BY <2>0, <2>1 DEF TargetInv, BootHolds, BootSteps, MarkerHolds, RuntimeHolds, Expose, Down
    <2>4. CommitHolds' /\ Recoverable'
      BY <2>0, <2>1 DEF TargetInv, CommitHolds, Recoverable, Expose
    <2>5. RecordsHold'
      BY <2>0, <2>1 DEF TargetInv, RecordsHold, Sound, Expose
    <2> QED BY <2>2, <2>3, <2>4, <2>5 DEF TargetInv
  <1> QED BY <1>1, <1>2

\* An operation may stop, killed or failed, at any of its writes.
LEMMA Stop_Inv == TargetInv /\ Stop => TargetInv'
  <1> SUFFICES ASSUME TargetInv, Stop PROVE TargetInv'
    OBVIOUS
  <1>1. op \in Operations
    BY DEF Stop, TargetInv, TargetTypeOK
  <1>2. staged' \subseteq States /\ litter' \subseteq States
    BY <1>1 DEF Stop, TargetInv, TargetTypeOK, Operations
  <1> QED BY <1>2, EndsInv DEF Stop

\* What Post and Reconcile unlink is no part of a state: the records keep
\* their keys, their policy and whether they are known.
LEMMA IdentityGone ==
    ASSUME TargetInv, NEW r \in DOMAIN records,
           records' = [records EXCEPT ![r].identity = FALSE]
    PROVE  /\ records' \in Seq(RecordDirs) /\ Len(records') = Len(records)
           /\ DOMAIN records' = DOMAIN records
           /\ \A q \in DOMAIN records : /\ records'[q].key = records[q].key
                                        /\ records'[q].policy = records[q].policy
                                        /\ records'[q].known = records[q].known
  <1>1. records \in Seq(RecordDirs) /\ records[r] \in RecordDirs
    BY DEF TargetInv, TargetTypeOK
  <1> DEFINE new == [records[r] EXCEPT !.identity = FALSE]
  <1>2. /\ new \in RecordDirs /\ new.key = records[r].key
        /\ new.policy = records[r].policy /\ new.known = records[r].known
    BY <1>1 DEF RecordDirs
  <1>3. records' = [records EXCEPT ![r] = new]
    OBVIOUS
  <1> HIDE DEF new
  <1>4. r \in 1 .. Len(records) /\ DOMAIN records = 1 .. Len(records)
    BY <1>1
  <1>5. /\ records' \in Seq(RecordDirs) /\ Len(records') = Len(records)
        /\ \A q \in 1 .. Len(records) : records'[q] = IF q = r THEN new ELSE records[q]
    <2>1. /\ [records EXCEPT ![r] = new] \in Seq(RecordDirs)
          /\ Len([records EXCEPT ![r] = new]) = Len(records)
          /\ \A q \in 1 .. Len(records) :
                [records EXCEPT ![r] = new][q] = IF q = r THEN new ELSE records[q]
      BY <1>1, <1>2, <1>4, ExceptSeq
    <2> QED BY <1>3, <2>1
  <1>6. DOMAIN records' = DOMAIN records
    BY <1>4, <1>5
  <1> QED BY <1>2, <1>4, <1>5, <1>6

\* Records that keep keys, policies and knowledge keep what states say.
LEMMA RecordsKept ==
    ASSUME TargetInv, UNCHANGED << state, anchor >>,
           Len(records') = Len(records), DOMAIN records' = DOMAIN records,
           \A q \in DOMAIN records : /\ records'[q].key = records[q].key
                                     /\ records'[q].policy = records[q].policy
                                     /\ records'[q].known = records[q].known
    PROVE  /\ Sound(state)' /\ Sound(anchor)'
           /\ anchor' # NoFile /\ anchor'.record # 0 => records'[anchor'.record].known
  <1>1. records \in Seq(RecordDirs)
    BY DEF TargetInv, TargetTypeOK
  <1>2. state # NoFile => state.record \in Nat /\ state.pending \in Nat
    BY DEF TargetInv, TargetTypeOK, StateFiles, States
  <1>3. anchor # NoFile => anchor.record \in Nat /\ anchor.pending \in Nat
    BY DEF TargetInv, TargetTypeOK, StateFiles, States
  <1>4. Sound(state)'
    BY <1>1, <1>2 DEF TargetInv, RecordsHold, Sound
  <1>5. Sound(anchor)'
    BY <1>1, <1>3 DEF TargetInv, RecordsHold, Sound
  <1>6. anchor # NoFile /\ anchor.record # 0 => anchor.record \in DOMAIN records
    BY <1>1, <1>3 DEF TargetInv, RecordsHold, Sound
  <1> QED BY <1>4, <1>5, <1>6 DEF TargetInv, RecordsHold

\* What follows the commit only unlinks identity files of the records.
LEMMA Post_Inv == TargetInv /\ Post => TargetInv'
  <1> SUFFICES ASSUME TargetInv, Post PROVE TargetInv'
    OBVIOUS
  <1>1. op.pc = "post" /\ op # Idle /\ op' = Idle /\ op'.pc = "idle"
    BY StateFacts DEF Post, At
  <1>2. CASE op.kind \notin {"apply", "cancel"}
    BY <1>1, <1>2, EndsInv DEF Post, TargetInv, TargetTypeOK
  <1>3. CASE op.kind \in {"apply", "cancel"}
    <2>1. op.id \in DOMAIN records
      BY <1>1, <1>3 DEF TargetInv, RecordsHold, CommitSteps, Publishing
    <2>2. records' = [records EXCEPT ![op.id].identity = FALSE]
      BY <1>3 DEF Post
    <2>3. /\ records' \in Seq(RecordDirs) /\ Len(records') = Len(records)
          /\ DOMAIN records' = DOMAIN records
          /\ \A q \in DOMAIN records : /\ records'[q].key = records[q].key
                                       /\ records'[q].policy = records[q].policy
                                       /\ records'[q].known = records[q].known
      BY <2>1, <2>2, IdentityGone
    <2>4. /\ Sound(state)' /\ Sound(anchor)'
          /\ anchor' # NoFile /\ anchor'.record # 0 => records'[anchor'.record].known
      BY <2>3, RecordsKept DEF Post
    <2>5. RecordsHold'
      BY <1>1, <2>4 DEF RecordsHold, CommitSteps, BeforeAnchor, Publishing
    <2>6. TargetTypeOK' /\ BootHolds' /\ MarkerHolds' /\ RuntimeHolds' /\ CommitHolds'
      BY <1>1, <2>3 DEF TargetInv, TargetTypeOK, BootHolds, MarkerHolds, RuntimeHolds, CommitHolds, Down,
                  BeforeAnchor, Publishing, Post
    <2>7. Recoverable'
      BY DEF TargetInv, Recoverable, Post
    <2> QED BY <2>5, <2>6, <2>7 DEF TargetInv
  <1> QED BY <1>2, <1>3

\* Reconciling an applied response unlinks the identity of the active record.
LEMMA Reconcile_Inv == ASSUME TargetInv, NEW response \in Responses, Reconcile(response)
                       PROVE  TargetInv'
  <1>1. op = Idle /\ op' = Idle /\ op.pc = "idle" /\ op'.pc = "idle"
    BY StateFacts DEF Reconcile
  <1>2. state.record \in DOMAIN records
    BY DEF TargetInv, TargetTypeOK, RecordsHold, Sound, Reconcile, Anchored, Enrolled
  <1>3. /\ records' \in Seq(RecordDirs) /\ Len(records') = Len(records)
        /\ DOMAIN records' = DOMAIN records
        /\ \A q \in DOMAIN records : /\ records'[q].key = records[q].key
                                     /\ records'[q].policy = records[q].policy
                                     /\ records'[q].known = records[q].known
    BY <1>2, IdentityGone DEF Reconcile
  <1>4. /\ Sound(state)' /\ Sound(anchor)'
        /\ anchor' # NoFile /\ anchor'.record # 0 => records'[anchor'.record].known
    BY <1>3, RecordsKept DEF Reconcile
  <1>5. RecordsHold'
    BY <1>1, <1>4 DEF RecordsHold, CommitSteps, BeforeAnchor, Publishing
  <1>6. TargetTypeOK' /\ BootHolds' /\ MarkerHolds' /\ RuntimeHolds' /\ CommitHolds'
    BY <1>1, <1>3 DEF TargetInv, TargetTypeOK, BootHolds, MarkerHolds, RuntimeHolds, CommitHolds,
                BeforeAnchor, Publishing, Reconcile
  <1>7. Recoverable'
    BY DEF TargetInv, Recoverable, Reconcile
  <1> QED BY <1>5, <1>6, <1>7 DEF TargetInv

-----------------------------------------------------------------------------
(* The operations, up to their commit. *)

\* An operation over the committed state that is refused or begins its commit
\* keeps the invariant if the states it leaves and commits are sound.
LEMMA CommitOpens ==
    ASSUME TargetInv, Acquired, Anchored,
           UNCHANGED << boot, state, anchor, journal, marker, anchorView, runtimeView, staged,
                        litter, exposed, partial, runtime >>,
           records' \in Seq(RecordDirs), Sound(state)',
           state.record # 0 => records'[state.record].known,
           \/ op' = Idle
           \/ /\ op' \in Operations /\ op'.pc = "journal" /\ op'.kind # "recover"
              /\ ValidateTransition(state, op'.next)
              /\ Sound(op.next)'
              /\ op'.next.record # 0 => Lineage'
              /\ op'.kind \in {"apply", "cancel"} => op'.id \in DOMAIN records'
    PROVE  TargetInv'
  <1>1. op = Idle /\ op.pc = "idle" /\ runtime = Down /\ anchor = state /\ state # NoFile
    BY StateFacts DEF Acquired, Anchored
  <1>2. boot = BootSteps
    BY <1>1 DEF TargetInv, TargetTypeOK, BootHolds, BootSteps
  <1>3. CASE op' = Idle
    <2>1. op'.pc = "idle"
      BY <1>3, StateFacts
    <2>2. TargetTypeOK' /\ BootHolds' /\ MarkerHolds' /\ RuntimeHolds' /\ CommitHolds'
      BY <1>1, <1>3 DEF TargetInv, TargetTypeOK, BootHolds, MarkerHolds, RuntimeHolds, CommitHolds,
                  BeforeAnchor, Publishing
    <2>3. RecordsHold' /\ Recoverable'
      BY <1>1, <2>1 DEF RecordsHold, Sound, Recoverable, CommitSteps, BeforeAnchor, Publishing
    <2> QED BY <2>2, <2>3 DEF TargetInv
  <1>4. CASE op' # Idle
    <2>1. TargetTypeOK' /\ BootHolds' /\ MarkerHolds' /\ RuntimeHolds'
      BY <1>1, <1>2, <1>4 DEF TargetInv, TargetTypeOK, BootHolds, BootSteps, MarkerHolds, RuntimeHolds,
                  Publishing, Down
    <2>2. CommitHolds'
      BY <1>1, <1>4 DEF CommitHolds, BeforeAnchor, Publishing
    <2>3. RecordsHold' /\ Recoverable'
      BY <1>1, <1>4 DEF RecordsHold, Sound, Recoverable, CommitSteps, BeforeAnchor, Publishing
    <2> QED BY <2>1, <2>2, <2>3 DEF TargetInv
  <1> QED BY <1>3, <1>4

\* What Commit leaves of the operation.
LEMMA CommitEffect ==
    ASSUME NEW kind \in {"init", "cancel", "apply", "policy", "rollback"}, NEW STATE id, id \in Nat,
           NEW STATE next, next \in States, Commit(kind, id, next)
    PROVE  \/ op' = Idle
           \/ /\ op' \in Operations /\ op'.pc = "journal" /\ op'.kind = kind /\ op'.id = id
              /\ op'.next = next /\ ValidateTransition(state, next)
  BY DEF Commit, Operations, CommitSteps, BeforeAnchor, StateFiles

\* The numbers of a state.
LEMMA StateFields ==
    ASSUME NEW s \in States
    PROVE  /\ s.gen + 1 \in Nat \ {0} /\ s.request + 1 \in Nat /\ s.policy + 1 \in Nat
           /\ s.recovery + 1 \in Nat /\ s.policy \in Nat /\ s.tombstone \in Nat
           /\ s.pending \in Nat /\ s.record \in Nat
           /\ s.consumed \cup {s.pending} \in SUBSET Nat
  BY DEF States

\* The committed state, for an operation that may begin.
LEMMA CommittedFacts ==
    ASSUME TargetInv, Anchored
    PROVE  /\ state \in States /\ state # NoFile /\ anchor = state /\ Sound(state)
           /\ records \in Seq(RecordDirs) /\ DOMAIN records = 1 .. Len(records) /\ Len(records) \in Nat
           /\ state.record # 0 => state.record \in DOMAIN records /\ records[state.record].known
           /\ state.pending # 0 => state.pending \in DOMAIN records
  <1>1. /\ state \in States /\ state # NoFile /\ anchor = state /\ Sound(state)
        /\ records \in Seq(RecordDirs)
    BY DEF TargetInv, TargetTypeOK, StateFiles, Anchored, RecordsHold
  <1>2. state.record \in Nat /\ state.pending \in Nat
    BY <1>1 DEF States
  <1>3. DOMAIN records = 1 .. Len(records) /\ Len(records) \in Nat
    BY <1>1
  <1>4. state.record # 0 => state.record \in DOMAIN records
    BY <1>1, <1>2, <1>3 DEF Sound
  <1>5. state.pending # 0 => state.pending \in DOMAIN records
    BY <1>1, <1>2, <1>3 DEF Sound
  <1> QED BY <1>1, <1>3, <1>4, <1>5 DEF TargetInv, RecordsHold

\* A fresh record directory disturbs no other.
LEMMA RecordAppended ==
    ASSUME TargetInv, Anchored, UNCHANGED << state, anchor >>,
           NEW STATE rec, rec \in RecordDirs, records' = Append(records, rec)
    PROVE  /\ records' \in Seq(RecordDirs) /\ Len(records') = Len(records) + 1
           /\ DOMAIN records' = 1 .. Len(records) + 1
           /\ \A q \in 1 .. Len(records) : records'[q] = records[q]
           /\ records'[Len(records) + 1] = rec
           /\ Sound(state)'
           /\ state.record # 0 => records'[state.record].known
  <1>1. /\ records' \in Seq(RecordDirs) /\ Len(records') = Len(records) + 1
        /\ \A q \in 1 .. Len(records) : records'[q] = records[q]
        /\ records'[Len(records) + 1] = rec
    BY CommittedFacts, AppendProperties
  <1>2. DOMAIN records' = 1 .. Len(records) + 1
    BY <1>1
  <1>3. Sound(state)'
    BY <1>1, CommittedFacts DEF Sound
  <1>4. state.record # 0 => records'[state.record].known
    BY <1>1, CommittedFacts
  <1> QED BY <1>1, <1>2, <1>3, <1>4

\* A new request takes a new record and is not consumed.
LEMMA InitRequest_Inv == TargetInv /\ InitRequest => TargetInv'
  <1> SUFFICES ASSUME TargetInv, InitRequest PROVE TargetInv'
    OBVIOUS
  <1> DEFINE id == Len(records) + 1
             rec == [key |-> id, credential |-> state.request + 1, response |-> 0, policy |-> 0,
                     tombstone |-> 0, sealed |-> FALSE, identity |-> TRUE, known |-> FALSE]
             next == [state EXCEPT !.gen = @ + 1, !.request = state.request + 1, !.pending = id]
  <1>1. Acquired /\ Anchored /\ records' = Append(records, rec) /\ Commit("init", id, next)
    BY DEF InitRequest
  <1>0. state \in States /\ id \in Nat /\ state.request + 1 \in Nat
    BY <1>1, CommittedFacts, StateFields
  <1>2. rec \in RecordDirs /\ rec.key = id
    BY <1>0 DEF RecordDirs
  <1>3. /\ next \in States /\ next.record = state.record /\ next.policy = state.policy
        /\ next.revoked = state.revoked /\ next.pending = id
    <2>1. state.gen + 1 \in Nat \ {0}
      BY <1>0, StateFields
    <2> HIDE DEF id
    <2> QED BY <1>0, <2>1 DEF States
  <1> HIDE DEF rec, next
  <1>4. UNCHANGED << state, anchor >>
    BY DEF InitRequest
  <1>5. /\ records' \in Seq(RecordDirs) /\ Len(records') = Len(records) + 1
        /\ DOMAIN records' = 1 .. Len(records) + 1
        /\ \A q \in 1 .. Len(records) : records'[q] = records[q]
        /\ records'[Len(records) + 1] = rec
        /\ Sound(state)'
        /\ state.record # 0 => records'[state.record].known
    BY <1>1, <1>2, <1>4, RecordAppended
  <1>6. \/ op' = Idle
        \/ /\ op' \in Operations /\ op'.pc = "journal" /\ op'.kind = "init" /\ op'.id = id
           /\ op'.next = next /\ ValidateTransition(state, next)
    BY <1>0, <1>1, <1>3, CommitEffect
  <1>7. op' # Idle => Sound(op.next)'
    BY <1>1, <1>2, <1>3, <1>5, <1>6, CommittedFacts DEF Sound
  <1>8. op' # Idle /\ op'.next.record # 0 => Lineage'
    BY <1>1, <1>3, <1>5, <1>6, CommittedFacts DEF Lineage
  <1> QED BY <1>1, <1>5, <1>6, <1>7, <1>8, CommitOpens DEF InitRequest

\* Cancelling gives the pending request up and keeps the active one.
LEMMA CancelPending_Inv == TargetInv /\ CancelPending => TargetInv'
  <1> SUFFICES ASSUME TargetInv, CancelPending PROVE TargetInv'
    OBVIOUS
  <1> DEFINE next == [state EXCEPT !.gen = @ + 1, !.pending = 0,
                                   !.consumed = @ \cup {state.pending}]
  <1>1. Acquired /\ Anchored /\ Commit("cancel", state.pending, next) /\ state.pending # 0
    BY DEF CancelPending
  <1>2. /\ next \in States /\ next.record = state.record /\ next.policy = state.policy
        /\ next.revoked = state.revoked /\ next.pending = 0 /\ state.pending \in Nat
    <2>1. /\ state \in States /\ state.gen + 1 \in Nat \ {0} /\ state.pending \in Nat
          /\ state.consumed \cup {state.pending} \in SUBSET Nat
      BY <1>1, CommittedFacts, StateFields
    <2> QED BY <2>1 DEF States
  <1> HIDE DEF next
  <1>3. UNCHANGED << boot, state, anchor, journal, marker, anchorView, runtimeView, staged, litter,
                     exposed, partial, runtime, records >>
    BY DEF CancelPending, targetFiles
  <1>4. \/ op' = Idle
        \/ /\ op' \in Operations /\ op'.pc = "journal" /\ op'.kind = "cancel" /\ op'.id = state.pending
           /\ op'.next = next /\ ValidateTransition(state, next)
    BY <1>1, <1>2, CommitEffect
  <1>5. Sound(state)' /\ (op' # Idle => Sound(op.next)')
    BY <1>1, <1>2, <1>3, <1>4, CommittedFacts DEF Sound
  <1>6. op' # Idle /\ op'.next.record # 0 => Lineage'
    BY <1>1, <1>2, <1>3, <1>4, CommittedFacts DEF Lineage
  <1> QED BY <1>1, <1>3, <1>4, <1>5, <1>6, CommitOpens, CommittedFacts

\* A response makes the pending request the active record.
LEMMA ApplyResponse_Inv == ASSUME TargetInv, NEW response \in Responses, ApplyResponse(response)
                           PROVE  TargetInv'
  <1> DEFINE id == state.pending
             rec == records[id]
             new == [rec EXCEPT !.sealed = TRUE, !.response = response, !.policy = state.policy,
                                !.tombstone = state.tombstone]
             next == [state EXCEPT !.gen = @ + 1, !.record = id, !.active = rec.credential,
                        !.credential = rec.credential, !.consumed = @ \cup {id}, !.pending = 0]
  <1>1. /\ Acquired /\ Anchored /\ Commit("apply", id, next) /\ id # 0
        /\ records' = [records EXCEPT ![id] = new] /\ rec.key \notin state.revoked
    BY DEF ApplyResponse, Acceptable
  <1>2. id \in 1 .. Len(records) /\ id \in DOMAIN records /\ id \in Nat /\ rec \in RecordDirs
    BY <1>1, CommittedFacts DEF States
  <1>3. new \in RecordDirs /\ new.key = rec.key /\ new.policy = state.policy
    BY <1>1, <1>2, CommittedFacts DEF RecordDirs, States
  <1>4. /\ next \in States /\ next.record = id /\ next.policy = state.policy
        /\ next.revoked = state.revoked /\ next.pending = 0
    <2>1. rec.credential \in Nat
      BY <1>2 DEF RecordDirs
    <2>2. /\ state \in States /\ state.gen + 1 \in Nat \ {0} /\ id \in Nat
          /\ state.consumed \cup {id} \in SUBSET Nat
      BY <1>1, CommittedFacts, StateFields
    <2> HIDE DEF rec, id
    <2> QED BY <2>1, <2>2 DEF States
  <1> HIDE DEF new, next
  <1>5. UNCHANGED << boot, state, anchor, journal, marker, anchorView, runtimeView, staged, litter,
                     exposed, partial, runtime >>
    BY DEF ApplyResponse
  <1>6. /\ records' \in Seq(RecordDirs) /\ Len(records') = Len(records)
        /\ \A q \in 1 .. Len(records) : records'[q] = IF q = id THEN new ELSE records[q]
    <2>1. records \in Seq(RecordDirs)
      BY <1>1, CommittedFacts
    <2> QED BY <1>1, <1>2, <1>3, <2>1, ExceptSeq
  <1>7. \/ op' = Idle
        \/ /\ op' \in Operations /\ op'.pc = "journal" /\ op'.kind = "apply" /\ op'.id = id
           /\ op'.next = next /\ ValidateTransition(state, next)
    BY <1>1, <1>2, <1>4, CommitEffect
  <1>8. rec.key = id /\ id # state.record
    BY <1>1, CommittedFacts DEF Sound
  <1>9. Sound(state)' /\ (state.record # 0 => records'[state.record].known)
    BY <1>1, <1>2, <1>3, <1>5, <1>6, <1>8, CommittedFacts DEF Sound
  <1>10. op' # Idle => Sound(op.next)'
    BY <1>1, <1>2, <1>3, <1>4, <1>6, <1>7, <1>8, CommittedFacts DEF Sound
  <1>11. op' # Idle => state.pending \notin state.consumed
    BY <1>1, <1>7 DEF ValidateTransition, ValidState
  <1>12. op' # Idle => Lineage'
    BY <1>2, <1>3, <1>4, <1>5, <1>6, <1>7, <1>8, <1>11 DEF Lineage
  <1>13. DOMAIN records' = 1 .. Len(records)
    BY <1>6
  <1> QED BY <1>1, <1>2, <1>5, <1>6, <1>7, <1>9, <1>10, <1>12, <1>13, CommitOpens

\* A derived record carries the credential of its origin.
LEMMA DerivedFacts ==
    ASSUME TargetInv, NEW STATE r, r \in DOMAIN records, NEW STATE p, p \in Nat, NEW STATE t, t \in Nat
    PROVE  /\ Derived(r, p, t) \in RecordDirs /\ Derived(r, p, t).key = records[r].key
           /\ Derived(r, p, t).policy = p
  <1>1. records[r] \in RecordDirs
    BY DEF TargetInv, TargetTypeOK
  <1> QED BY <1>1 DEF Derived, RecordDirs

\* A policy renders the active record again, under a new record.
LEMMA ApplyLifecyclePolicy_Inv ==
    ASSUME TargetInv, NEW revoked \in SUBSET {records[r].key : r \in DOMAIN records},
           NEW floor \in 0 .. MaxRecords, ApplyLifecyclePolicy(revoked, floor)
    PROVE  TargetInv'
  <1> DEFINE seq == state.policy + 1
             tomb == IF revoked = state.revoked THEN state.tombstone ELSE seq
             id == Len(records) + 1
             rec == Derived(state.record, seq, tomb)
             next == [state EXCEPT !.gen = @ + 1, !.policy = seq, !.tombstone = tomb,
                                   !.floor = floor, !.revoked = revoked, !.record = id]
  <1>1. /\ Acquired /\ Anchored /\ Commit("policy", id, next) /\ state.record # 0
        /\ records' = Append(records, rec) /\ records[state.record].key \notin revoked
    BY DEF ApplyLifecyclePolicy, Enrolled, KeyOf
  <1>2. seq \in Nat /\ tomb \in Nat /\ id \in Nat /\ state.record \in DOMAIN records
    BY <1>1, CommittedFacts DEF States
  <1>3. revoked \in SUBSET Nat /\ floor \in Nat
    <2>1. \A r \in DOMAIN records : records[r] \in RecordDirs
      BY <1>1, CommittedFacts
    <2>2. \A r \in DOMAIN records : records[r].key \in Nat
      BY <2>1 DEF RecordDirs
    <2> QED BY <2>2
  <1>4. /\ next \in States /\ next.record = id /\ next.policy = seq
        /\ next.revoked = revoked /\ next.pending = state.pending
    <2>1. state \in States /\ state.gen + 1 \in Nat \ {0}
      BY <1>1, CommittedFacts, StateFields
    <2> HIDE DEF seq, tomb, id
    <2> QED BY <1>2, <1>3, <2>1 DEF States
  <1>5. rec \in RecordDirs /\ rec.key = records[state.record].key /\ rec.policy = seq
    BY <1>2, DerivedFacts
  <1> HIDE DEF rec, next
  <1>6. UNCHANGED << boot, state, anchor, journal, marker, anchorView, runtimeView, staged, litter,
                     exposed, partial, runtime >>
    BY DEF ApplyLifecyclePolicy
  <1>7. /\ records' \in Seq(RecordDirs) /\ Len(records') = Len(records) + 1
        /\ DOMAIN records' = 1 .. Len(records) + 1
        /\ \A q \in 1 .. Len(records) : records'[q] = records[q]
        /\ records'[Len(records) + 1] = rec
        /\ Sound(state)'
        /\ state.record # 0 => records'[state.record].known
    BY <1>1, <1>5, <1>6, RecordAppended
  <1>8. \/ op' = Idle
        \/ /\ op' \in Operations /\ op'.pc = "journal" /\ op'.kind = "policy" /\ op'.id = id
           /\ op'.next = next /\ ValidateTransition(state, next)
    BY <1>1, <1>2, <1>4, CommitEffect
  <1>9. op' # Idle => Sound(op.next)'
    BY <1>1, <1>2, <1>4, <1>5, <1>7, <1>8, CommittedFacts DEF Sound
  <1>10. op' # Idle => Lineage'
    BY <1>1, <1>2, <1>4, <1>5, <1>7, <1>8, CommittedFacts DEF Lineage
  <1> QED BY <1>1, <1>6, <1>7, <1>8, <1>9, <1>10, CommitOpens

\* A rollback returns to a credential that was active before.
LEMMA Rollback_Inv == ASSUME TargetInv, NEW r \in DOMAIN records, Rollback(r)
                      PROVE  TargetInv'
  <1> DEFINE id == Len(records) + 1
             rec == Derived(r, state.policy, state.tombstone)
             next == [state EXCEPT !.gen = @ + 1, !.recovery = @ + 1,
                        !.record = Len(records) + 1, !.active = records[r].credential]
  <1>1. /\ Acquired /\ Anchored /\ Commit("rollback", r, next) /\ records[r].known
        /\ records' = Append(records, rec) /\ records[r].key \notin state.revoked
    BY DEF Rollback, Authorised, NotTombstoned, KeyOf
  <1>2. /\ id \in Nat /\ r \in Nat /\ r \in 1 .. Len(records) /\ records[r].credential \in Nat
        /\ state.policy \in Nat /\ state.tombstone \in Nat
    <2>1. id \in Nat /\ r \in Nat /\ r \in 1 .. Len(records) /\ records[r] \in RecordDirs
      BY <1>1, CommittedFacts
    <2>2. state.policy \in Nat /\ state.tombstone \in Nat
      BY <1>1, CommittedFacts, StateFields
    <2> QED BY <2>1, <2>2 DEF RecordDirs
  <1>4. /\ next \in States /\ next.record = id /\ next.policy = state.policy
        /\ next.revoked = state.revoked /\ next.pending = state.pending
    <2>1. state \in States /\ state.gen + 1 \in Nat \ {0} /\ state.recovery + 1 \in Nat
      BY <1>1, CommittedFacts, StateFields
    <2>2. Len(records) + 1 \in Nat
      BY <1>2
    <2> QED BY <1>2, <2>1, <2>2 DEF States
  <1>5. rec \in RecordDirs /\ rec.key = records[r].key /\ rec.policy = state.policy
    BY <1>2, DerivedFacts
  <1> HIDE DEF rec, next
  <1>6. UNCHANGED << boot, state, anchor, journal, marker, anchorView, runtimeView, staged, litter,
                     exposed, partial, runtime >>
    BY DEF Rollback
  <1>7. /\ records' \in Seq(RecordDirs) /\ Len(records') = Len(records) + 1
        /\ DOMAIN records' = 1 .. Len(records) + 1
        /\ \A q \in 1 .. Len(records) : records'[q] = records[q]
        /\ records'[Len(records) + 1] = rec
        /\ Sound(state)'
        /\ state.record # 0 => records'[state.record].known
    BY <1>1, <1>5, <1>6, RecordAppended
  <1>8. \/ op' = Idle
        \/ /\ op' \in Operations /\ op'.pc = "journal" /\ op'.kind = "rollback" /\ op'.id = r
           /\ op'.next = next /\ ValidateTransition(state, next)
    BY <1>1, <1>2, <1>4, CommitEffect
  <1>9. op' # Idle => Sound(op.next)'
    BY <1>1, <1>2, <1>4, <1>5, <1>7, <1>8, CommittedFacts DEF Sound
  <1>10. op' # Idle => Lineage'
    BY <1>1, <1>2, <1>4, <1>5, <1>7, <1>8, CommittedFacts DEF Lineage
  <1> QED BY <1>1, <1>6, <1>7, <1>8, <1>9, <1>10, CommitOpens

\* RecoverTransaction continues what the anchor already binds.
LEMMA Recover_Inv == TargetInv /\ Recover => TargetInv'
  <1> SUFFICES ASSUME TargetInv, Recover PROVE TargetInv'
    OBVIOUS
  <1> USE DEF CommitSteps, BeforeAnchor, Publishing
  <1>1. /\ op = Idle /\ op.pc = "idle" /\ runtime = Down /\ state # NoFile
        /\ UNCHANGED << boot, state, anchor, journal, marker, anchorView, runtimeView, staged, litter,
                        exposed, partial, records, runtime >>
    BY StateFacts DEF Recover, Acquired, targetFiles
  <1>2. /\ RecoveryTarget \in States /\ RecoveryTarget = anchor
        /\ state = RecoveryTarget \/ (journal = RecoveryTarget /\ ValidateTransition(state, RecoveryTarget))
    BY <1>1 DEF Recover, RecoveryTarget, TargetInv, TargetTypeOK, StateFiles
  <1>3. /\ op' \in Operations /\ op'.pc = "journal" /\ op'.kind = "recover"
        /\ op'.next = RecoveryTarget
    <2>1. op' = [pc |-> "journal", kind |-> "recover", id |-> 0, next |-> RecoveryTarget, old |-> NoFile]
      BY DEF Recover
    <2> QED BY <1>2, <2>1 DEF Operations, StateFiles
  <1>4. boot = BootSteps
    BY <1>1 DEF TargetInv, TargetTypeOK, BootHolds, BootSteps
  <1>5. TargetTypeOK' /\ BootHolds' /\ MarkerHolds' /\ RuntimeHolds'
    BY <1>1, <1>3, <1>4 DEF TargetInv, TargetTypeOK, BootHolds, BootSteps, MarkerHolds, RuntimeHolds, Down
  <1>6. CommitHolds' /\ Recoverable'
    BY <1>1, <1>2, <1>3 DEF TargetInv, CommitHolds, Recoverable
  <1>7. RecordsHold'
    BY <1>1, <1>2, <1>3 DEF TargetInv, RecordsHold, Sound
  <1> QED BY <1>5, <1>6, <1>7 DEF TargetInv

\* Bootstrap begins with nothing on disk.
LEMMA Bootstrap_Inv == TargetInv /\ Bootstrap => TargetInv'
  <1> SUFFICES ASSUME TargetInv, Bootstrap PROVE TargetInv'
    OBVIOUS
  <1> USE DEF CommitSteps, BeforeAnchor, Publishing
  <1>1. op' \in Operations /\ op'.pc = "boot" /\ op'.kind = "boot"
    <2>1. op' = [pc |-> "boot", kind |-> "boot", id |-> 0, next |-> FirstState, old |-> NoFile]
      BY DEF Bootstrap
    <2> QED BY <2>1, StateFacts DEF Operations, StateFiles
  <1>2. /\ boot = 0 /\ boot' = 1 /\ state = NoFile /\ runtime = Down /\ anchor = NoFile /\ ~marker
        /\ runtimeView = NoFile
    BY DEF Bootstrap, TargetInv, BootHolds, BootSteps
  <1>3. TargetTypeOK' /\ BootHolds' /\ MarkerHolds' /\ RuntimeHolds'
    BY <1>1, <1>2 DEF TargetInv, TargetTypeOK, BootHolds, BootSteps, MarkerHolds, RuntimeHolds, Down, Bootstrap
  <1>4. CommitHolds' /\ RecordsHold' /\ Recoverable'
    BY <1>1, <1>2 DEF CommitHolds, RecordsHold, Sound, Recoverable, Bootstrap
  <1> QED BY <1>3, <1>4 DEF TargetInv

\* Bootstrap writes its files in order, state.json last.
LEMMA BootstrapStep_Inv == TargetInv /\ BootstrapStep => TargetInv'
  <1> SUFFICES ASSUME TargetInv, BootstrapStep PROVE TargetInv'
    OBVIOUS
  <1> USE DEF CommitSteps, BeforeAnchor, Publishing
  <1>1. /\ op \in Operations /\ op.pc = "boot" /\ boot \in 1 .. 4 /\ boot' = boot + 1
    BY StateFacts DEF BootstrapStep, TargetInv, TargetTypeOK, BootHolds, BootSteps
  <1>2. state = NoFile /\ runtime = Down /\ ~marker /\ runtimeView = NoFile
    BY <1>1 DEF TargetInv, BootHolds, BootSteps
  <1>3. op' \in Operations \cup {Idle} /\ op'.pc = IF boot = 4 THEN "idle" ELSE "boot"
    BY <1>1, StateFacts DEF BootstrapStep, BootSteps
  <1>4. /\ anchor' = IF boot < 2 THEN NoFile ELSE FirstState
        /\ boot \in 3 .. 4 => anchorView' = FirstState
        /\ state' = IF boot = 4 THEN FirstState ELSE NoFile
    BY <1>1, <1>2 DEF BootstrapStep, TargetInv, BootHolds, BootSteps
  <1>5. TargetTypeOK'
    BY <1>1, <1>3, <1>4, StateFacts DEF TargetInv, TargetTypeOK, BootstrapStep, StateFiles, BootSteps
  <1>6. BootHolds'
    BY <1>1, <1>2, <1>3, <1>4, StateFacts DEF BootHolds, BootstrapStep, BootSteps
  <1>7. MarkerHolds' /\ RuntimeHolds'
    BY <1>1, <1>2, <1>3, <1>4, StateFacts DEF TargetInv, MarkerHolds, RuntimeHolds, BootstrapStep
  <1>8. CommitHolds' /\ Recoverable'
    BY <1>1, <1>2, <1>3, <1>4, StateFacts DEF CommitHolds, Recoverable, BootstrapStep
  <1>9. RecordsHold'
    <2>1. Len(records) \in Nat
      BY DEF TargetInv, TargetTypeOK
    <2> QED BY <1>1, <1>2, <1>3, <1>4, <2>1, StateFacts DEF RecordsHold, Sound, BootstrapStep
  <1> QED BY <1>5, <1>6, <1>7, <1>8, <1>9 DEF TargetInv

-----------------------------------------------------------------------------
(* The runtime. *)

\* A step of the runtime changes no file.
LEMMA RuntimeOnly ==
    ASSUME TargetInv, UNCHANGED << targetFiles, op >>, op = Idle, boot = BootSteps,
           runtime' \in Runtimes,
           runtime'.pc \in {"open", "serving"} => Selectable /\ runtime'.view = runtimeView
    PROVE  TargetInv'
  <1>1. TargetTypeOK' /\ BootHolds' /\ MarkerHolds' /\ CommitHolds'
    BY DEF TargetInv, TargetTypeOK, BootHolds, BootSteps, MarkerHolds, CommitHolds, targetFiles
  <1>2. RuntimeHolds'
    BY DEF TargetInv, RuntimeHolds, targetFiles, Selectable
  <1>3. RecordsHold' /\ Recoverable'
    BY DEF TargetInv, RecordsHold, Sound, Lineage, Recoverable, targetFiles
  <1> QED BY <1>1, <1>2, <1>3 DEF TargetInv

\* The runtime takes the gate, reads, checks again, serves and leaves.
LEMMA RuntimeSteps ==
    ASSUME TargetInv, RuntimeLock \/ RuntimeOpen \/ FinalCheck \/ RuntimeClose
    PROVE  TargetInv'
  <1>1. CASE RuntimeLock
    BY <1>1, RuntimeOnly DEF RuntimeLock, Runtimes
  <1>2. (op = Idle /\ boot = BootSteps) \/ runtime = Down
    BY DEF TargetInv, TargetTypeOK, RuntimeHolds, BootHolds, BootSteps
  <1>3. CASE RuntimeOpen
    <2>1. op = Idle /\ boot = BootSteps
      BY <1>2, <1>3, StateFacts DEF RuntimeOpen
    <2>2. CASE Selectable
      <3>1. runtime' = [pc |-> "open", view |-> runtimeView]
        BY <1>3, <2>2 DEF RuntimeOpen
      <3>2. runtime' \in Runtimes /\ runtime'.view = runtimeView
        BY <3>1 DEF Runtimes, TargetInv, TargetTypeOK
      <3> QED BY <1>3, <2>1, <2>2, <3>2, RuntimeOnly DEF RuntimeOpen
    <2>3. CASE ~Selectable
      <3>1. runtime' = Down
        BY <1>3, <2>3 DEF RuntimeOpen
      <3> QED BY <1>3, <2>1, <3>1, StateFacts, RuntimeOnly DEF RuntimeOpen, Runtimes
    <2> QED BY <2>2, <2>3
  <1>4. CASE FinalCheck
    <2>1. op = Idle /\ boot = BootSteps
      BY <1>2, <1>4, StateFacts DEF FinalCheck
    <2>2. CASE Selectable /\ runtimeView = runtime.view
      <3>1. runtime \in [pc : {"open", "serving"}, view : StateFiles]
        BY <1>4 DEF FinalCheck, TargetInv, TargetTypeOK, Runtimes, Down
      <3>2. runtime' = [runtime EXCEPT !.pc = "serving"]
        BY <1>4, <2>2 DEF FinalCheck
      <3>3. runtime' \in Runtimes /\ runtime'.view = runtimeView
        BY <2>2, <3>1, <3>2 DEF Runtimes
      <3> QED BY <1>4, <2>1, <2>2, <3>3, RuntimeOnly DEF FinalCheck
    <2>3. CASE ~(Selectable /\ runtimeView = runtime.view)
      <3>1. runtime' = Down
        BY <1>4, <2>3 DEF FinalCheck
      <3> QED BY <1>4, <2>1, <3>1, StateFacts, RuntimeOnly DEF FinalCheck, Runtimes
    <2> QED BY <2>2, <2>3
  <1>5. CASE RuntimeClose
    <2>1. op = Idle /\ boot = BootSteps
      BY <1>2, <1>5, StateFacts DEF RuntimeClose
    <2> QED BY <1>5, <2>1, StateFacts, RuntimeOnly DEF RuntimeClose, Runtimes
  <1> QED BY <1>1, <1>3, <1>4, <1>5

\* Every step of the machine keeps the invariant.
LEMMA TargetNext_Inv == TargetInv /\ [TargetNext]_targetVars => TargetInv'
  <1> SUFFICES ASSUME TargetInv, [TargetNext]_targetVars PROVE TargetInv'
    OBVIOUS
  <1>1. CASE UNCHANGED targetVars
    BY <1>1 DEF targetVars, targetFiles, TargetInv, TargetTypeOK, BootHolds, CommitHolds, MarkerHolds,
                RuntimeHolds, RecordsHold, Sound, Lineage, Recoverable
  <1>2. CASE TargetNext
    BY <1>2, Bootstrap_Inv, BootstrapStep_Inv, InitRequest_Inv, CancelPending_Inv, ApplyResponse_Inv,
       Reconcile_Inv, ApplyLifecyclePolicy_Inv, Rollback_Inv, Recover_Inv, WriteJournal_Inv, Stage_Inv,
       WriteMarker_Inv, AdvanceAnchor_Inv, ReplaceState_Inv, PublishAnchorView_Inv, Expose_Inv,
       RetireFiles_Inv, RetireDir_Inv, SelectRuntime_Inv, ClearMarker_Inv, CleanJournal_Inv, Post_Inv,
       Stop_Inv, RuntimeSteps DEF TargetNext
  <1> QED BY <1>1, <1>2

\* The inductive invariant of the enrolled machine.
THEOREM TargetInductive == TargetSpec => []TargetInv
  BY TargetInit_Inv, TargetNext_Inv, PTL DEF TargetSpec

\* Type correctness of the enrolled machine's files and processes.
THEOREM TargetTyped == TargetSpec => []TargetTypeOK
  <1>1. TargetInv => TargetTypeOK
    BY DEF TargetInv
  <1> QED BY <1>1, TargetInductive, PTL

\* Wherever an operation stops, RecoverTransaction finds an anchor that binds
\* state.json or the journal (commitAnchoredState), for any number of
\* operations, faults and records.
THEOREM RecoveryTheorem == TargetSpec => []Recoverable
  <1>1. TargetInv => Recoverable
    BY DEF TargetInv
  <1> QED BY <1>1, TargetInductive, PTL

\* The runtime serves the committed generation, whole, under its policy, and
\* no committed state has a tombstoned credential active.
THEOREM ServedTheorem == TargetSpec => []ServedIsAuthorised
  <1>1. ASSUME TargetInv PROVE RuntimeServesAnchored
    <2> SUFFICES ASSUME runtime.pc \in {"open", "serving"}
                 PROVE  /\ runtime.view = anchor /\ runtime.view = state
                        /\ runtime.view \in exposed \ partial
                        /\ records[anchor.record].policy = anchor.policy
      BY DEF RuntimeServesAnchored
    <2>1. runtime # Down /\ boot = BootSteps
      BY <1>1, StateFacts DEF TargetInv, TargetTypeOK, BootHolds, BootSteps
    <2>2. /\ ~marker /\ runtimeView # NoFile /\ runtime.view = runtimeView
          /\ runtimeView = anchorView /\ runtimeView \in exposed \ partial
      BY <1>1 DEF TargetInv, RuntimeHolds
    <2>3. anchor = state /\ anchorView = state
      BY <1>1, <2>1, <2>2 DEF TargetInv, MarkerHolds, BootHolds
    <2>4. anchor.record # 0
      BY <1>1, <2>2, <2>3 DEF TargetInv, RuntimeHolds, Enrolled
    <2>5. records[anchor.record].policy = anchor.policy
      BY <1>1, <2>2, <2>3, <2>4 DEF TargetInv, RecordsHold, Sound
    <2> QED BY <2>2, <2>3, <2>5
  <1>2. ASSUME TargetInv PROVE RevocationSticks
    BY <1>2 DEF RevocationSticks, TargetInv, RecordsHold, Sound, Enrolled
  <1> QED BY <1>1, <1>2, TargetInductive, PTL DEF ServedIsAuthorised

\* The active credential is always that of the pending request or one that
\* was active before: no crash, recovery, rollback or policy brings a
\* cancelled or consumed request to life.
THEOREM LineageTheorem == TargetSpec => ActiveLineage
  <1> DEFINE Descends ==
        anchor' # anchor /\ anchor # NoFile /\ Enrolled(anchor') =>
          LET key == records'[anchor'.record].key IN
            \/ key = anchor.pending /\ key \notin anchor.consumed
            \/ \E r \in DOMAIN records : records[r].known /\ records[r].key = key
  <1>1. ASSUME TargetInv, [TargetNext]_targetVars PROVE Descends
    <2>1. CASE anchor' = anchor
      BY <2>1
    <2>2. CASE AdvanceAnchor
      <3>1. /\ op.pc = "anchor" /\ anchor' = op.next /\ op.kind # "recover" /\ anchor = state
        BY <1>1, <2>2 DEF AdvanceAnchor, At, TargetInv, CommitHolds, BeforeAnchor
      <3>2. op.next.record # 0 => Lineage /\ op.next.record \in DOMAIN records
        <4>1. op # Idle
          BY <3>1, StateFacts
        <4>2. op.next \in States
          BY <1>1, <4>1 DEF TargetInv, TargetTypeOK, Operations
        <4> QED BY <1>1, <3>1, <4>2, StateFacts
                DEF TargetInv, TargetTypeOK, RecordsHold, Sound, BeforeAnchor, CommitSteps
      <3>3. op.next.record # 0 => records'[op.next.record].key = records[op.next.record].key
        <4>1. op.next.record # 0 => records[op.next.record] \in RecordDirs
          BY <1>1, <3>2 DEF TargetInv, TargetTypeOK
        <4> QED BY <2>2, <3>2, <4>1 DEF AdvanceAnchor, RecordDirs
      <3> QED BY <3>1, <3>2, <3>3 DEF Lineage, Enrolled
    <2>3. CASE BootstrapStep /\ anchor' # anchor
      BY <1>1, <2>3, StateFacts DEF BootstrapStep, TargetInv, BootHolds, BootSteps, Enrolled
    <2>4. UNCHANGED anchor \/ AdvanceAnchor \/ BootstrapStep
      BY <1>1 DEF TargetNext, targetVars, targetFiles, Bootstrap, InitRequest, CancelPending,
                  ApplyResponse, Reconcile, ApplyLifecyclePolicy, Rollback, Recover, WriteJournal,
                  Stage, WriteMarker, ReplaceState, PublishAnchorView, Expose, RetireFiles,
                  RetireDir, SelectRuntime, ClearMarker, CleanJournal, Post, Stop, RuntimeLock,
                  RuntimeOpen, FinalCheck, RuntimeClose
    <2> QED BY <2>1, <2>2, <2>3, <2>4
  <1>2. TargetInv /\ [TargetNext]_targetVars => [Descends]_targetVars
    BY <1>1
  <1> QED BY <1>2, TargetInductive, PTL DEF TargetSpec, ActiveLineage

-----------------------------------------------------------------------------
(* One file name, system call by system call. *)

Modes == {"private", "open"}
InodeStates == [data : Int, mode : Modes, disk : Int \X Modes]
FileCalls == [op : {"replace", "create", "ensure", "unlink"}, v : Values \cup {Missing},
              at : 1 .. 8, fd : Inodes \cup {Missing}]
FileReaders == [at : {"read", "check", "returned"}, fd : Inodes, got : Int]

FileTypeOK ==
    /\ view \in BOOLEAN
    /\ inode \in [Inodes -> InodeStates]
    /\ dirs \in Seq(Inodes \cup {Missing}) /\ dirs # <<>>
    /\ call \in FileCalls \cup {NoCall}
    /\ reader \in FileReaders \cup {NoReader}
    /\ fileFaults \in 0 .. MaxFileFaults

\* The place of the call's last system call.
LastAt == IF call.op = "unlink" THEN 2
          ELSE IF call.op = "replace" THEN IF view THEN 8 ELSE 6
          ELSE IF view THEN 7 ELSE 5

Named == {dirs[k] : k \in DOMAIN dirs}
Image(d, m, disk) == [data |-> d, mode |-> m, disk |-> disk]

\* What the call has made of its inode: created, written and synced, and in a
\* publication root opened to the group and synced again.
Place == IF call.op = "replace" /\ call.at > 5 THEN call.at - 1 ELSE call.at
Progress ==
    CASE Place = 2 -> Image(Blank, "private", <<Blank, "private">>)
      [] Place = 3 -> Image(Short(call.v), "private", <<Blank, "private">>)
      [] Place = 4 -> Image(call.v, "private", <<Blank, "private">>)
      [] Place = 5 -> Image(call.v, "private", <<call.v, "private">>)
      [] Place = 6 -> Image(call.v, "open", <<call.v, "private">>)
      [] Place = 7 -> Image(call.v, "open", <<call.v, "open">>)

\* Only a rename gives the inode of a replacement the name.
CallHolds ==
    call # NoCall =>
      /\ call.at <= LastAt
      /\ Passes(call.op, call.v) \subseteq allowed
      /\ call.op # "unlink" => call.v \in Values
      /\ call.at = 1 \/ call.op = "unlink" => call.fd = Missing
      /\ call.op # "unlink" /\ call.at > 1 =>
            /\ call.fd \in Inodes /\ inode[call.fd] = Progress
            /\ IF call.op = "replace" /\ call.at <= 5 THEN call.fd \notin Named
               ELSE Dir = call.fd
      /\ call.op = "unlink" /\ call.at = 2 => Dir = Missing

\* A file the group can read is whole and synced.
OpenHolds ==
    \A i \in Inodes :
        /\ inode[i].mode = "open" => inode[i].data \in Values /\ inode[i].disk[1] = inode[i].data
        /\ inode[i].disk[2] = "open" => inode[i].mode = "open"

ReaderHolds ==
    reader # NoReader => /\ inode[reader.fd].mode = "open"
                         /\ reader.at # "read" => reader.got \in Values

\* The inodes the directory and the call refer to.
HeldInodes == (Named \cup (IF call = NoCall THEN {} ELSE {call.fd})) \ {Missing}
HeldHolds ==
    Cardinality(HeldInodes) <= fileFaults + 1 + (IF call = NoCall THEN 0
                                           ELSE IF call.fd = Missing THEN 0 ELSE 1)

\* Every entry since the last fsync of the directory is allowed to survive.
EntryHolds(i) == IF i = Missing THEN Gone \in allowed ELSE Survives(i) \subseteq allowed
EntriesHold == \A k \in DOMAIN dirs : EntryHolds(dirs[k])

\* A name without a change since the last fsync of its directory selects an
\* inode that is on disk, and that no running call writes.
SyncedHolds ==
    Synced /\ Dir # Missing =>
        /\ inode[Dir].disk = <<inode[Dir].data, inode[Dir].mode>>
        /\ call # NoCall => call.fd # Dir

FileInv == /\ FileTypeOK /\ CallHolds /\ OpenHolds /\ ReaderHolds /\ HeldHolds
           /\ EntriesHold /\ SyncedHolds

\* No call is a running call; the constants.
LEMMA FileFacts ==
    /\ NoCall \notin FileCalls /\ NoCall.op = "none" /\ NoReader \notin FileReaders
    /\ NoReader.at = "none" /\ Missing \notin Inodes /\ Missing \notin Values
    /\ Inodes \subseteq Int /\ Values \subseteq Int /\ Blank \in Int /\ Blank \notin Values
    /\ \A v \in Values : Short(v) \in Int /\ ~(Short(v) > 0) /\ v > 0
    /\ Unused \in InodeStates /\ Unused = Image(Blank, "private", <<Blank, "private">>)
  BY FileBounds DEF NoCall, FileCalls, NoReader, FileReaders, Missing, Blank, Short, Unused,
                    InodeStates, Modes, Image

\* The file starts missing, and no inode is in use.
LEMMA FileInit_Inv == FileInit => FileInv
  <1> SUFFICES ASSUME FileInit PROVE FileInv
    OBVIOUS
  <1>1. dirs = <<Missing>> /\ dirs \in Seq(Inodes \cup {Missing}) /\ dirs # <<>>
    BY DEF FileInit
  <1>2. FileTypeOK
    BY <1>1, FileFacts, FileBounds DEF FileInit, FileTypeOK
  <1>3. CallHolds /\ ReaderHolds
    BY DEF FileInit, CallHolds, ReaderHolds
  <1>4. OpenHolds
    BY FileFacts DEF FileInit, OpenHolds, Unused
  <1>5. EntriesHold
    BY <1>1 DEF FileInit, EntriesHold, EntryHolds
  <1>6. HeldHolds
    <2>1. HeldInodes = {}
      BY <1>1 DEF FileInit, HeldInodes, Named
    <2> QED BY <2>1, FS_EmptySet DEF HeldHolds, FileInit
  <1>7. SyncedHolds
    BY <1>1 DEF SyncedHolds, Dir
  <1> QED BY <1>2, <1>3, <1>4, <1>5, <1>6, <1>7 DEF FileInv

\* Which system call a place of the program is.
LEMMA CallingAt ==
    ASSUME FileTypeOK, call # NoCall, call.at <= LastAt
    PROVE  /\ call \in FileCalls
           /\ Calling("create") <=> call.op # "unlink" /\ call.at = 1
           /\ Calling("begin") <=> call.op # "unlink" /\ call.at = 2
           /\ Calling("write") <=> call.op # "unlink" /\ call.at = 3
           /\ Calling("fsync") <=> /\ call.op # "unlink"
                                   /\ \/ call.at = 4
                                      \/ view /\ call.at = IF call.op = "replace" THEN 7 ELSE 6
           /\ Calling("rename") <=> call.op = "replace" /\ call.at = 5
           /\ Calling("open") <=> /\ call.op # "unlink" /\ view
                                  /\ call.at = IF call.op = "replace" THEN 6 ELSE 5
           /\ Calling("unlink") <=> call.op = "unlink" /\ call.at = 1
           /\ Calling("syncdir") <=> call.at = LastAt
  <1>0. call \in FileCalls /\ call.op \in {"replace", "create", "ensure", "unlink"} /\ call.at \in 1 .. 8
    BY DEF FileTypeOK, FileCalls
  <1>1. CASE call.op = "unlink"
    <2>1. Program(call.op) = <<"unlink", "syncdir">> /\ call.at \in 1 .. 2
      BY <1>0, <1>1 DEF Program, LastAt
    <2> QED BY <1>0, <1>1, <2>1 DEF Calling, LastAt
  <1>2. CASE call.op = "replace" /\ ~view
    <2>1. /\ Program(call.op) = <<"create", "begin", "write", "fsync", "rename", "syncdir">>
          /\ call.at \in 1 .. 6
      BY <1>0, <1>2 DEF Program, LastAt
    <2> QED BY <1>0, <1>2, <2>1 DEF Calling, LastAt
  <1>3. CASE call.op = "replace" /\ view
    <2>1. /\ Program(call.op) =
               <<"create", "begin", "write", "fsync", "rename", "open", "fsync", "syncdir">>
          /\ call.at \in 1 .. 8
      BY <1>0, <1>3 DEF Program, LastAt
    <2> QED BY <1>0, <1>3, <2>1 DEF Calling, LastAt
  <1>4. CASE call.op \in {"create", "ensure"} /\ ~view
    <2>1. /\ Program(call.op) = <<"create", "begin", "write", "fsync", "syncdir">>
          /\ call.at \in 1 .. 5
      BY <1>0, <1>4 DEF Program, LastAt
    <2> QED BY <1>0, <1>4, <2>1 DEF Calling, LastAt
  <1>5. CASE call.op \in {"create", "ensure"} /\ view
    <2>1. /\ Program(call.op) =
               <<"create", "begin", "write", "fsync", "open", "fsync", "syncdir">>
          /\ call.at \in 1 .. 7
      BY <1>0, <1>5 DEF Program, LastAt
    <2> QED BY <1>0, <1>5, <2>1 DEF Calling, LastAt
  <1> QED BY <1>0, <1>1, <1>2, <1>3, <1>4, <1>5 DEF FileTypeOK

\* A running call is well formed.
LEMMA CallFacts ==
    ASSUME FileInv, NEW step, Calling(step)
    PROVE  /\ call # NoCall /\ call \in FileCalls /\ call.at <= LastAt /\ call.at \in 1 .. 8
           /\ call.op \in {"replace", "create", "ensure", "unlink"}
           /\ call.fd \in Inodes \cup {Missing} /\ dirs \in Seq(Inodes \cup {Missing})
  BY FileFacts DEF Calling, FileInv, FileTypeOK, CallHolds, FileCalls

\* The last entry of the directory.
LEMMA DirFacts ==
    ASSUME FileTypeOK
    PROVE  /\ Len(dirs) \in DOMAIN dirs /\ Dir \in Named /\ Dir \in Inodes \cup {Missing}
           /\ Named \subseteq Inodes \cup {Missing} /\ DOMAIN dirs = 1 .. Len(dirs)
           /\ Len(dirs) \in Nat
  <1>1. dirs \in Seq(Inodes \cup {Missing}) /\ dirs # <<>>
    BY DEF FileTypeOK
  <1>2. Len(dirs) \in DOMAIN dirs /\ DOMAIN dirs = 1 .. Len(dirs) /\ Len(dirs) \in Nat
    BY <1>1
  <1> QED BY <1>1, <1>2 DEF Dir, Named

\* A new entry becomes the one the name selects.
LEMMA DirAppended ==
    ASSUME FileTypeOK, NEW STATE i, i \in Inodes \cup {Missing}, dirs' = Append(dirs, i)
    PROVE  /\ dirs' \in Seq(Inodes \cup {Missing}) /\ dirs' # <<>> /\ Dir' = i
           /\ Named' = Named \cup {i} /\ ~Synced'
           /\ \A k \in DOMAIN dirs' : dirs'[k] \in Named \cup {i}
  <1>1. dirs \in Seq(Inodes \cup {Missing})
    BY DEF FileTypeOK
  <1>2. /\ dirs' \in Seq(Inodes \cup {Missing}) /\ dirs' # <<>> /\ Len(dirs') = Len(dirs) + 1
        /\ \A k \in 1 .. Len(dirs) : dirs'[k] = dirs[k]
        /\ dirs'[Len(dirs) + 1] = i
    BY <1>1, AppendProperties
  <1>3. DOMAIN dirs' = 1 .. Len(dirs) + 1 /\ DOMAIN dirs = 1 .. Len(dirs) /\ Len(dirs) \in Nat
    BY <1>1, <1>2
  <1>4. Dir' = i
    BY <1>2 DEF Dir
  <1>5. \A k \in DOMAIN dirs' : dirs'[k] \in Named \cup {i}
    BY <1>2, <1>3 DEF Named
  <1>6. \A x \in Named \cup {i} : \E k \in DOMAIN dirs' : dirs'[k] = x
    BY <1>2, <1>3 DEF Named
  <1>7. Named' = Named \cup {i}
    BY <1>5, <1>6 DEF Named
  <1>8. ~Synced'
    <2>1. Len(dirs) \in DOMAIN dirs
      BY DirFacts
    <2> QED BY <1>2, <1>3, <2>1 DEF Synced
  <1> QED BY <1>2, <1>4, <1>5, <1>7, <1>8

\* A directory of one entry.
LEMMA DirSingle ==
    ASSUME NEW STATE i, i \in Inodes \cup {Missing}, dirs' = <<i>>
    PROVE  /\ dirs' \in Seq(Inodes \cup {Missing}) /\ dirs' # <<>> /\ Dir' = i /\ Named' = {i}
           /\ DOMAIN dirs' = {1} /\ dirs'[1] = i
  BY DEF Dir, Named

\* What can survive of an inode.
LEMMA SurvivesWhich ==
    ASSUME NEW STATE d, NEW STATE m, NEW STATE e, NEW STATE n, NEW STATE i,
           inode[i] = Image(d, m, <<e, n>>)
    PROVE  \A x \in Survives(i) : \E y, z :
              /\ x = <<y, z>> /\ z \in {m, n}
              /\ y = d \/ (d # e /\ y = e) \/ (d # e /\ d > 0 /\ y = Short(d))
  <1>1. inode[i].data = d /\ inode[i].mode = m /\ inode[i].disk[1] = e /\ inode[i].disk[2] = n
    BY DEF Image
  <1> SUFFICES ASSUME NEW x \in Survives(i)
               PROVE  \E y, z : /\ x = <<y, z>> /\ z \in {m, n}
                                /\ y = d \/ (d # e /\ y = e) \/ (d # e /\ d > 0 /\ y = Short(d))
    OBVIOUS
  <1>2. PICK y \in (IF d = e THEN {d} ELSE {e, d} \cup (IF d > 0 THEN {Short(d)} ELSE {})),
             z \in {n, m} : x = <<y, z>>
    BY <1>1 DEF Survives
  <1>3. y = d \/ (d # e /\ y = e) \/ (d # e /\ d > 0 /\ y = Short(d))
    BY <1>2
  <1> QED BY <1>2, <1>3

\* What survives of a call's inode under its name is a state the call passes.
LEMMA ProgressSurvives ==
    FileTypeOK /\ CallHolds /\ call # NoCall /\ call.fd # Missing /\ call.fd \in Named
      => Survives(call.fd) \subseteq allowed
  <1> SUFFICES ASSUME FileTypeOK, CallHolds, call # NoCall, call.fd # Missing, call.fd \in Named
               PROVE  Survives(call.fd) \subseteq allowed
    OBVIOUS
  <1>1. call \in FileCalls /\ call.at \in 1 .. 8 /\ call.op \in {"replace", "create", "ensure", "unlink"}
    BY DEF FileTypeOK, FileCalls
  <1>2. /\ call.op # "unlink" /\ call.at \in 2 .. LastAt /\ call.v \in Values
        /\ Passes(call.op, call.v) \subseteq allowed /\ inode[call.fd] = Progress
        /\ call.op = "replace" => call.at > 5
    BY <1>1 DEF CallHolds, LastAt
  <1>3. /\ Place \in 2 .. 7
        /\ call.op = "replace" => Place >= 5
        /\ ~view => Place <= 5
    BY <1>1, <1>2 DEF Place, LastAt
  <1>4. /\ <<call.v, "private">> \in allowed
        /\ view => <<call.v, "open">> \in allowed
        /\ call.op # "replace" => /\ <<Blank, "private">> \in allowed
                                  /\ <<Short(call.v), "private">> \in allowed
    BY <1>1, <1>2 DEF Passes
  <1>5. call.v # Blank /\ call.v > 0 /\ ~(Short(call.v) > 0) /\ ~(Blank > 0) /\ Short(call.v) # Blank
    <2>1. call.v \in Nat \ {0}
      BY <1>2, FileBounds
    <2> QED BY <2>1 DEF Blank, Short
  <1>6. CASE Place = 2
    <2>1. inode[call.fd] = Image(Blank, "private", <<Blank, "private">>)
      BY <1>2, <1>6 DEF Progress
    <2>2. \A x \in Survives(call.fd) : \E y, z :
             /\ x = <<y, z>> /\ z \in {"private", "private"}
             /\ \/ y = Blank
                \/ Blank # Blank /\ y = Blank
                \/ Blank # Blank /\ Blank > 0 /\ y = Short(Blank)
      BY <2>1, SurvivesWhich
    <2> QED BY <1>3, <1>4, <1>6, <2>2
  <1>7. CASE Place = 3
    <2>1. inode[call.fd] = Image(Short(call.v), "private", <<Blank, "private">>)
      BY <1>2, <1>7 DEF Progress
    <2>2. \A x \in Survives(call.fd) : \E y, z :
             /\ x = <<y, z>> /\ z \in {"private", "private"}
             /\ \/ y = Short(call.v)
                \/ Short(call.v) # Blank /\ y = Blank
                \/ Short(call.v) # Blank /\ Short(call.v) > 0 /\ y = Short(Short(call.v))
      BY <2>1, SurvivesWhich
    <2> QED BY <1>3, <1>4, <1>5, <1>7, <2>2
  <1>8. CASE Place = 4
    <2>1. inode[call.fd] = Image(call.v, "private", <<Blank, "private">>)
      BY <1>2, <1>8 DEF Progress
    <2>2. \A x \in Survives(call.fd) : \E y, z :
             /\ x = <<y, z>> /\ z \in {"private", "private"}
             /\ \/ y = call.v
                \/ call.v # Blank /\ y = Blank
                \/ call.v # Blank /\ call.v > 0 /\ y = Short(call.v)
      BY <2>1, SurvivesWhich
    <2> QED BY <1>3, <1>4, <1>5, <1>8, <2>2
  <1>9. CASE Place = 5
    <2>1. inode[call.fd] = Image(call.v, "private", <<call.v, "private">>)
      BY <1>2, <1>9 DEF Progress
    <2>2. \A x \in Survives(call.fd) : \E y, z :
             /\ x = <<y, z>> /\ z \in {"private", "private"}
             /\ \/ y = call.v
                \/ call.v # call.v /\ y = call.v
                \/ call.v # call.v /\ call.v > 0 /\ y = Short(call.v)
      BY <2>1, SurvivesWhich
    <2> QED BY <1>3, <1>4, <1>5, <1>9, <2>2
  <1>10. CASE Place = 6
    <2>1. inode[call.fd] = Image(call.v, "open", <<call.v, "private">>)
      BY <1>2, <1>10 DEF Progress
    <2>2. \A x \in Survives(call.fd) : \E y, z :
             /\ x = <<y, z>> /\ z \in {"open", "private"}
             /\ \/ y = call.v
                \/ call.v # call.v /\ y = call.v
                \/ call.v # call.v /\ call.v > 0 /\ y = Short(call.v)
      BY <2>1, SurvivesWhich
    <2> QED BY <1>3, <1>4, <1>5, <1>10, <2>2
  <1>11. CASE Place = 7
    <2>1. inode[call.fd] = Image(call.v, "open", <<call.v, "open">>)
      BY <1>2, <1>11 DEF Progress
    <2>2. \A x \in Survives(call.fd) : \E y, z :
             /\ x = <<y, z>> /\ z \in {"open", "open"}
             /\ \/ y = call.v
                \/ call.v # call.v /\ y = call.v
                \/ call.v # call.v /\ call.v > 0 /\ y = Short(call.v)
      BY <2>1, SurvivesWhich
    <2> QED BY <1>3, <1>4, <1>5, <1>11, <2>2
  <1> QED BY <1>3, <1>6, <1>7, <1>8, <1>9, <1>10, <1>11

\* Entries that keep their inodes, and that of the call, stay allowed.
LEMMA EntriesKeep ==
    ASSUME FileInv, FileTypeOK', CallHolds', allowed \subseteq allowed',
           \A i \in Named' : \/ i = Missing /\ Gone \in allowed'
                             \/ i \in Named /\ i # Missing /\ inode'[i] = inode[i]
                             \/ i # Missing /\ call' # NoCall /\ i = call'.fd
    PROVE  EntriesHold'
  <1>1. (FileTypeOK /\ CallHolds /\ call # NoCall /\ call.fd # Missing /\ call.fd \in Named)'
           => (Survives(call.fd) \subseteq allowed)'
    BY ProgressSurvives, PTL
  <1>2. \A i \in Named : i # Missing => Survives(i) \subseteq allowed
    BY DEF FileInv, EntriesHold, EntryHolds, Named
  <1> SUFFICES ASSUME NEW k \in DOMAIN dirs' PROVE EntryHolds(dirs[k])'
    BY DEF EntriesHold
  <1>4. dirs'[k] \in Named'
    BY DEF Named
  <1>5. CASE dirs'[k] = Missing
    BY <1>4, <1>5 DEF EntryHolds
  <1>6. CASE dirs'[k] # Missing /\ dirs'[k] \in Named /\ inode'[dirs'[k]] = inode[dirs'[k]]
    <2>1. Survives(dirs[k])' = Survives(dirs'[k])
      BY <1>6 DEF Survives
    <2>2. Survives(dirs'[k]) \subseteq allowed
      BY <1>2, <1>6
    <2> QED BY <1>6, <2>1, <2>2 DEF EntryHolds
  <1>7. CASE dirs'[k] # Missing /\ call' # NoCall /\ dirs'[k] = call'.fd
    <2>1. Survives(dirs[k])' = Survives(call.fd)'
      BY <1>7 DEF Survives
    <2> QED BY <1>1, <1>4, <1>7, <2>1 DEF EntryHolds
  <1> QED BY <1>4, <1>5, <1>6, <1>7

\* What the entries are before a step.
LEMMA EntryFacts ==
    ASSUME FileInv
    PROVE  \A i \in Named : i = Missing => Gone \in allowed
  BY DEF FileInv, EntriesHold, EntryHolds, Named

\* A call begins.
LEMMA Begins_Inv ==
    ASSUME FileInv, call = NoCall, NEW what \in {"replace", "create", "ensure", "unlink"},
           NEW v, v \in Values \/ (what = "unlink" /\ v = Missing), Begins(what, v)
    PROVE  FileInv'
  <1>1. /\ call' \in FileCalls /\ call' # NoCall /\ call'.op = what /\ call'.v = v /\ call'.at = 1
        /\ call'.fd = Missing
    <2>1. call' = [op |-> what, v |-> v, at |-> 1, fd |-> Missing]
      BY DEF Begins
    <2>2. call' \in FileCalls
      BY <2>1 DEF FileCalls
    <2> QED BY <2>1, <2>2, FileFacts
  <1>2. FileTypeOK'
    BY <1>1 DEF Begins, FileInv, FileTypeOK
  <1>3. allowed \subseteq allowed' /\ (Passes(call.op, call.v) \subseteq allowed)'
    BY <1>1 DEF Begins, Passes
  <1>4. CallHolds'
    <2>1. (call.at <= LastAt)'
      BY <1>1 DEF LastAt
    <2> QED BY <1>1, <1>3, <2>1 DEF CallHolds
  <1>5. OpenHolds' /\ ReaderHolds'
    BY DEF FileInv, OpenHolds, ReaderHolds, Begins
  <1>6. HeldHolds'
    <2>1. HeldInodes' = HeldInodes
      BY <1>1 DEF HeldInodes, Named, Begins
    <2> QED BY <1>1, <2>1 DEF FileInv, HeldHolds, Begins
  <1>7. Named' = Named /\ inode' = inode
    BY DEF Named, Begins
  <1>8. EntriesHold'
    BY <1>2, <1>3, <1>4, <1>7, EntryFacts, EntriesKeep
  <1>9. SyncedHolds'
    BY <1>1 DEF FileInv, SyncedHolds, Synced, Dir, Begins
  <1> QED BY <1>2, <1>4, <1>5, <1>6, <1>8, <1>9 DEF FileInv

\* Nothing happens.
LEMMA FileStutter == FileInv /\ UNCHANGED fileVars => FileInv'
  <1> SUFFICES ASSUME FileInv, UNCHANGED fileVars PROVE FileInv'
    OBVIOUS
  <1>1. /\ view' = view /\ inode' = inode /\ dirs' = dirs /\ call' = call /\ reader' = reader
        /\ allowed' = allowed /\ fileFaults' = fileFaults /\ Named' = Named /\ Dir' = Dir
    BY DEF fileVars, Named, Dir
  <1>2. FileTypeOK'
    BY <1>1 DEF FileInv, FileTypeOK
  <1>3. LastAt' = LastAt /\ Progress' = Progress
    BY <1>1 DEF LastAt, Progress, Place
  <1>4. (Passes(call.op, call.v))' = Passes(call.op, call.v)
    BY <1>1 DEF Passes
  <1>5. CallHolds'
    BY <1>1, <1>3, <1>4 DEF FileInv, CallHolds
  <1>6. OpenHolds' /\ ReaderHolds'
    BY <1>1 DEF FileInv, OpenHolds, ReaderHolds
  <1>7. HeldHolds'
    BY <1>1 DEF FileInv, HeldHolds, HeldInodes
  <1>8. EntriesHold'
    BY <1>1, <1>2, <1>5, EntryFacts, EntriesKeep
  <1>9. SyncedHolds'
    BY <1>1 DEF FileInv, SyncedHolds, Synced
  <1> QED BY <1>2, <1>5, <1>6, <1>7, <1>8, <1>9 DEF FileInv

\* The file EnsureFile accepts is on disk if its directory is.
LEMMA Accepts_Inv ==
    ASSUME FileInv, call = NoCall, NEW v \in Values, Dir # Missing,
           inode[Dir].data = v, inode[Dir].mode = "private",
           allowed' = IF Synced THEN {<<v, "private">>} ELSE allowed,
           UNCHANGED << view, inode, dirs, call, reader, fileFaults >>
    PROVE  FileInv'
  <1>1. CASE ~Synced
    BY <1>1, FileStutter DEF fileVars
  <1>2. CASE Synced
    <2>1. Named' = Named /\ Dir' = Dir
      BY DEF Named, Dir
    <2>2. FileTypeOK'
      BY <1>2, FileFacts DEF FileInv, FileTypeOK, Modes
    <2>3. CallHolds' /\ OpenHolds' /\ ReaderHolds'
      BY DEF FileInv, CallHolds, OpenHolds, ReaderHolds
    <2>4. HeldHolds' /\ SyncedHolds'
      BY <2>1 DEF FileInv, HeldHolds, HeldInodes, SyncedHolds, Synced
    <2>5. DOMAIN dirs = {1} /\ dirs[1] = Dir
      BY <1>2, DirFacts DEF FileInv, Synced, Dir
    <2>6. inode[Dir].disk[1] = v /\ inode[Dir].disk[2] = "private"
      BY <1>2 DEF FileInv, SyncedHolds
    <2>7. \A x \in Survives(dirs[1])' : x = <<v, "private">>
      BY <2>5, <2>6 DEF Survives
    <2>8. EntriesHold'
      BY <1>2, <2>5, <2>7 DEF EntriesHold, EntryHolds
    <2> QED BY <2>2, <2>3, <2>4, <2>8 DEF FileInv
  <1> QED BY <1>1, <1>2

\* A call begins, or is refused or answered at once.
LEMMA Calls_Inv ==
    ASSUME FileInv, \/ \E v \in Values : ReplaceFile(v) \/ CreateExclusive(v) \/ EnsureFile(v)
                    \/ UnlinkFile
    PROVE  FileInv'
  <1>2. CASE \E v \in Values : ReplaceFile(v) \/ CreateExclusive(v) \/ EnsureFile(v)
    <2>1. PICK v \in Values : ReplaceFile(v) \/ CreateExclusive(v) \/ EnsureFile(v)
      BY <1>2
    <2>2. CASE call = NoCall /\ \E what \in {"replace", "create", "ensure"} : Begins(what, v)
      BY <2>2, Begins_Inv
    <2>3. CASE EnsureFile(v) /\ Dir # Missing
      BY <2>3, Accepts_Inv DEF EnsureFile
    <2> QED BY <2>1, <2>2, <2>3 DEF ReplaceFile, CreateExclusive, EnsureFile
  <1>3. CASE UnlinkFile
    BY <1>3, Begins_Inv DEF UnlinkFile
  <1> QED BY <1>2, <1>3

\* A step of the call on its own inode only.
LEMMA OwnInode ==
    ASSUME FileInv, call # NoCall, call.op # "unlink", call.at \in 2 .. LastAt - 1,
           ~(call.op = "replace" /\ call.at = 5),
           Proceeds, UNCHANGED << view, dirs, reader, allowed, fileFaults >>,
           inode' \in [Inodes -> InodeStates],
           \A i \in Inodes \ {call.fd} : inode'[i] = inode[i],
           inode'[call.fd] = Progress'
    PROVE  FileInv'
  <1>1. call \in FileCalls /\ call.at \in 1 .. 8 /\ call.op \in {"replace", "create", "ensure", "unlink"}
    BY DEF FileInv, FileTypeOK, FileCalls
  <1>2. /\ call.v \in Values /\ call.fd \in Inodes /\ inode[call.fd] = Progress
        /\ Passes(call.op, call.v) \subseteq allowed
        /\ IF call.op = "replace" /\ call.at <= 5 THEN call.fd \notin Named ELSE Dir = call.fd
    BY <1>1 DEF FileInv, CallHolds
  <1>3. LastAt \in 2 .. 8 /\ LastAt' = LastAt
    <2>1. call'.op = call.op
      BY <1>1 DEF Proceeds, FileCalls
    <2> QED BY <2>1 DEF LastAt
  <1>4. /\ call' \in FileCalls /\ call'.op = call.op /\ call'.v = call.v /\ call'.at = call.at + 1
        /\ call'.fd = call.fd /\ call' # NoCall
    <2>1. call.at + 1 \in 1 .. 8
      BY <1>3
    <2>2. call' = [call EXCEPT !.at = call.at + 1]
      BY DEF Proceeds
    <2>3. /\ call' \in FileCalls /\ call'.op = call.op /\ call'.v = call.v /\ call'.at = call.at + 1
          /\ call'.fd = call.fd
      BY <1>1, <2>1, <2>2 DEF FileCalls
    <2> QED BY <2>3, FileFacts
  <1>5. FileTypeOK'
    BY <1>4 DEF FileInv, FileTypeOK
  <1>6. Named' = Named /\ Dir' = Dir
    BY DEF Named, Dir
  <1>7. (Passes(call.op, call.v) \subseteq allowed)'
    BY <1>2, <1>4 DEF Passes
  <1>8. CallHolds'
    BY <1>1, <1>2, <1>3, <1>4, <1>6, <1>7 DEF CallHolds
  <1>9. /\ Place \in 2 .. 6 /\ Place' \in 3 .. 7
        /\ Place' = Place + 1
    BY <1>1, <1>3, <1>4 DEF Place, LastAt
  <1>10. /\ inode'[call.fd].mode = "open" =>
              inode'[call.fd].data \in Values /\ inode'[call.fd].disk[1] = inode'[call.fd].data
         /\ inode'[call.fd].disk[2] = "open" => inode'[call.fd].mode = "open"
         /\ inode[call.fd].mode = "open" => inode'[call.fd].mode = "open"
    BY <1>2, <1>4, <1>9, FileFacts DEF Progress, Image
  <1>11. OpenHolds'
    BY <1>2, <1>10 DEF FileInv, OpenHolds
  <1>12. ReaderHolds'
    <2>1. reader # NoReader => reader.fd \in Inodes
      BY DEF FileInv, FileTypeOK, FileReaders
    <2> QED BY <1>10, <2>1 DEF FileInv, ReaderHolds
  <1>13. HeldHolds'
    <2>1. HeldInodes' = HeldInodes
      BY <1>4, <1>6 DEF HeldInodes
    <2> QED BY <1>4, <2>1 DEF FileInv, HeldHolds
  <1>14. EntriesHold'
    <2>1. Named \subseteq Inodes \cup {Missing}
      BY DirFacts DEF FileInv
    <2> QED BY <1>2, <1>4, <1>5, <1>6, <1>8, <2>1, EntryFacts, EntriesKeep
  <1>15. SyncedHolds'
    <2>1. Synced' = Synced /\ Dir \in Inodes \cup {Missing}
      BY DirFacts DEF FileInv, Synced
    <2> QED BY <1>4, <1>6, <2>1 DEF FileInv, SyncedHolds
  <1> QED BY <1>5, <1>8, <1>11, <1>12, <1>13, <1>14, <1>15 DEF FileInv

\* The inode of a call that writes it.
LEMMA WritesFacts ==
    ASSUME FileInv, NEW step \in {"begin", "write", "fsync", "open"}, Calling(step)
    PROVE  /\ call # NoCall /\ call.op \in {"replace", "create", "ensure"}
           /\ call.at \in 2 .. LastAt - 1 /\ ~(call.op = "replace" /\ call.at = 5)
           /\ call.fd \in Inodes /\ inode[call.fd] = Progress /\ inode[call.fd] \in InodeStates
           /\ call.v \in Values
           /\ Proceeds => Place' = Place + 1 /\ call'.v = call.v
           /\ step = "begin" <=> Place = 2
           /\ step = "write" <=> Place = 3
           /\ step = "fsync" <=> Place \in {4, 6}
           /\ step = "open" <=> Place = 5
  <1>1. /\ call # NoCall /\ call \in FileCalls /\ call.at <= LastAt /\ call.at \in 1 .. 8
        /\ call.op \in {"replace", "create", "ensure", "unlink"}
    BY CallFacts
  <1>2. /\ Calling("begin") <=> call.op # "unlink" /\ call.at = 2
        /\ Calling("write") <=> call.op # "unlink" /\ call.at = 3
        /\ Calling("fsync") <=> /\ call.op # "unlink"
                                /\ \/ call.at = 4
                                   \/ view /\ call.at = IF call.op = "replace" THEN 7 ELSE 6
        /\ Calling("open") <=> /\ call.op # "unlink" /\ view
                               /\ call.at = IF call.op = "replace" THEN 6 ELSE 5
    BY <1>1, CallingAt DEF FileInv
  <1>3. /\ call.op \in {"replace", "create", "ensure"} /\ call.at \in 2 .. LastAt - 1
        /\ ~(call.op = "replace" /\ call.at = 5)
        /\ step = "begin" <=> Place = 2
        /\ step = "write" <=> Place = 3
        /\ step = "fsync" <=> Place \in {4, 6}
        /\ step = "open" <=> Place = 5
    BY <1>1, <1>2 DEF LastAt, Place
  <1>4. call.fd \in Inodes /\ inode[call.fd] = Progress /\ call.v \in Values
    BY <1>1, <1>3 DEF FileInv, CallHolds
  <1>5. inode[call.fd] \in InodeStates
    BY <1>4 DEF FileInv, FileTypeOK
  <1>6. Proceeds => call'.op = call.op /\ call'.at = call.at + 1 /\ call'.v = call.v
    BY <1>1 DEF Proceeds, FileCalls
  <1>7. Proceeds => Place' = Place + 1
    BY <1>1, <1>3, <1>6 DEF Place
  <1> QED BY <1>1, <1>3, <1>4, <1>5, <1>6, <1>7

\* write: the new inode holds a part of the value, then all of it.
LEMMA SysWrite_Inv == FileInv /\ SysWrite => FileInv'
  <1> SUFFICES ASSUME FileInv, SysWrite PROVE FileInv'
    OBVIOUS
  <1>1. PICK step \in {"begin", "write"} : Calling(step)
    BY DEF SysWrite
  <1>2. /\ call # NoCall /\ call.op # "unlink" /\ call.at \in 2 .. LastAt - 1
        /\ ~(call.op = "replace" /\ call.at = 5) /\ call.fd \in Inodes
        /\ inode[call.fd] = Progress /\ inode[call.fd] \in InodeStates /\ call.v \in Values
        /\ Place' = Place + 1 /\ call'.v = call.v
        /\ step = "begin" <=> Place = 2
        /\ step = "write" <=> Place = 3
    BY <1>1, WritesFacts DEF SysWrite
  <1>3. step = "begin" <=> Calling("begin")
    BY <1>1 DEF Calling
  <1> DEFINE d == IF Calling("begin") THEN Short(call.v) ELSE call.v
             new == [inode[call.fd] EXCEPT !.data = d]
  <1>4. d \in Int
    BY <1>2, FileFacts
  <1>5. inode' = [inode EXCEPT ![call.fd] = new]
    BY DEF SysWrite
  <1>6. new \in InodeStates
    BY <1>2, <1>4 DEF InodeStates
  <1>7. new = Progress'
    <2>1. CASE Place = 2
      BY <1>1, <1>2, <1>3, <2>1 DEF Progress, Image
    <2>2. CASE Place = 3
      BY <1>1, <1>2, <1>3, <2>2 DEF Progress, Image
    <2> QED BY <1>1, <1>2, <2>1, <2>2
  <1> HIDE DEF new, d
  <1>8. /\ inode' \in [Inodes -> InodeStates] /\ inode'[call.fd] = Progress'
        /\ \A i \in Inodes \ {call.fd} : inode'[i] = inode[i]
    BY <1>2, <1>5, <1>6, <1>7 DEF FileInv, FileTypeOK
  <1> QED BY <1>2, <1>8, OwnInode DEF SysWrite

\* fsync: the content on disk is the content in memory.
LEMMA SysFsync_Inv == FileInv /\ SysFsync => FileInv'
  <1> SUFFICES ASSUME FileInv, SysFsync PROVE FileInv'
    OBVIOUS
  <1>1. Calling("fsync")
    BY DEF SysFsync
  <1>2. /\ call # NoCall /\ call.op # "unlink" /\ call.at \in 2 .. LastAt - 1
        /\ ~(call.op = "replace" /\ call.at = 5) /\ call.fd \in Inodes
        /\ inode[call.fd] = Progress /\ inode[call.fd] \in InodeStates /\ call.v \in Values
        /\ Place' = Place + 1 /\ call'.v = call.v /\ Place \in {4, 6}
    BY <1>1, WritesFacts DEF SysFsync
  <1> DEFINE new == [inode[call.fd] EXCEPT !.disk = <<inode[call.fd].data, inode[call.fd].mode>>]
  <1>5. inode' = [inode EXCEPT ![call.fd] = new]
    BY DEF SysFsync
  <1>6. new \in InodeStates
    BY <1>2 DEF InodeStates
  <1>7. new = Progress'
    <2>1. CASE Place = 4
      BY <1>2, <2>1 DEF Progress, Image
    <2>2. CASE Place = 6
      BY <1>2, <2>2 DEF Progress, Image
    <2> QED BY <1>2, <2>1, <2>2
  <1> HIDE DEF new
  <1>8. /\ inode' \in [Inodes -> InodeStates] /\ inode'[call.fd] = Progress'
        /\ \A i \in Inodes \ {call.fd} : inode'[i] = inode[i]
    BY <1>2, <1>5, <1>6, <1>7 DEF FileInv, FileTypeOK
  <1> QED BY <1>2, <1>8, OwnInode DEF SysFsync

\* PrepareViewFile: only a whole and synced file is opened to the group.
LEMMA PrepareViewFile_Inv == FileInv /\ PrepareViewFile => FileInv'
  <1> SUFFICES ASSUME FileInv, PrepareViewFile PROVE FileInv'
    OBVIOUS
  <1>1. Calling("open")
    BY DEF PrepareViewFile
  <1>2. /\ call # NoCall /\ call.op # "unlink" /\ call.at \in 2 .. LastAt - 1
        /\ ~(call.op = "replace" /\ call.at = 5) /\ call.fd \in Inodes
        /\ inode[call.fd] = Progress /\ inode[call.fd] \in InodeStates /\ call.v \in Values
        /\ Place' = Place + 1 /\ call'.v = call.v /\ Place = 5
    BY <1>1, WritesFacts DEF PrepareViewFile
  <1> DEFINE new == [inode[call.fd] EXCEPT !.mode = "open"]
  <1>5. inode' = [inode EXCEPT ![call.fd] = new]
    BY DEF PrepareViewFile
  <1>6. new \in InodeStates
    BY <1>2 DEF InodeStates, Modes
  <1>7. new = Progress'
    BY <1>2 DEF Progress, Image
  <1> HIDE DEF new
  <1>8. /\ inode' \in [Inodes -> InodeStates] /\ inode'[call.fd] = Progress'
        /\ \A i \in Inodes \ {call.fd} : inode'[i] = inode[i]
    BY <1>2, <1>5, <1>6, <1>7 DEF FileInv, FileTypeOK
  <1> QED BY <1>2, <1>8, OwnInode DEF PrepareViewFile

\* There is an inode nobody refers to.
LEMMA FreshExists ==
    ASSUME FileInv, call # NoCall, call.fd = Missing
    PROVE  Fresh \in Inodes /\ Fresh \notin Referenced
  <1> DEFINE R == IF reader = NoReader THEN {} ELSE {reader.fd}
  <1>1. HeldInodes \subseteq Inodes /\ R \subseteq Inodes
    BY DirFacts DEF FileInv, FileTypeOK, HeldInodes, FileReaders
  <1>2. IsFiniteSet(Inodes) /\ IsFiniteSet(HeldInodes) /\ IsFiniteSet(R)
    BY <1>1, FileBounds, FS_Subset
  <1>3. Cardinality(HeldInodes) <= MaxFileFaults + 1 /\ Cardinality(HeldInodes) \in Nat
    BY <1>2, FileBounds, FS_CardinalityType DEF FileInv, FileTypeOK, HeldHolds
  <1>4. Cardinality(R) <= 1 /\ Cardinality(R) \in Nat
    <2>1. CASE reader = NoReader
      <3>1. R = {}
        BY <2>1
      <3> QED BY <3>1, FS_EmptySet
    <2>2. CASE reader # NoReader
      <3>1. R = {reader.fd}
        BY <2>2
      <3> QED BY <3>1, FS_Singleton
    <2> QED BY <2>1, <2>2
  <1>5. /\ IsFiniteSet(HeldInodes \cup R)
        /\ Cardinality(HeldInodes \cup R) <= Cardinality(HeldInodes) + Cardinality(R)
        /\ Cardinality(HeldInodes \cup R) \in Nat
    <2>1. /\ IsFiniteSet(HeldInodes \cup R) /\ Cardinality(HeldInodes \cap R) \in Nat
          /\ Cardinality(HeldInodes \cup R) = Cardinality(HeldInodes) + Cardinality(R) - Cardinality(HeldInodes \cap R)
      <3>1. IsFiniteSet(HeldInodes \cap R)
        BY <1>2, FS_Intersection
      <3> QED BY <1>2, <3>1, FS_Union, FS_CardinalityType
    <2>2. Cardinality(HeldInodes \cup R) \in Nat
      BY <2>1, FS_CardinalityType
    <2> QED BY <1>3, <1>4, <2>1, <2>2
  <1>6. HeldInodes \cup R # Inodes
    BY <1>3, <1>4, <1>5, FileBounds
  <1>7. PICK i \in Inodes : i \notin HeldInodes \cup R
    BY <1>1, <1>6
  <1>8. i \notin Referenced
    BY <1>7, FileFacts DEF Referenced, HeldInodes, Named
  <1> QED BY <1>7, <1>8 DEF Fresh

\* open: an unused inode, under a temporary name or the final one.
LEMMA SysCreate_Inv == FileInv /\ SysCreate => FileInv'
  <1> SUFFICES ASSUME FileInv, SysCreate PROVE FileInv'
    OBVIOUS
  <1>1. Calling("create")
    BY DEF SysCreate
  <1>2. /\ call # NoCall /\ call \in FileCalls /\ call.at = 1 /\ call.op \in {"replace", "create", "ensure"}
        /\ call.v \in Values /\ call.fd = Missing /\ Passes(call.op, call.v) \subseteq allowed
    <2>1. /\ call # NoCall /\ call \in FileCalls /\ call.at <= LastAt
          /\ call.op \in {"replace", "create", "ensure", "unlink"}
      BY <1>1, CallFacts
    <2>2. call.op # "unlink" /\ call.at = 1
      BY <1>1, <2>1, CallingAt DEF FileInv
    <2> QED BY <2>1, <2>2 DEF FileInv, CallHolds
  <1>3. Fresh \in Inodes /\ Fresh \notin Referenced
    BY <1>2, FreshExists
  <1>4. Fresh \notin Named /\ (reader # NoReader => reader.fd # Fresh) /\ Fresh # Missing
    BY <1>3, FileFacts DEF Referenced, Named
  <1> DEFINE f == Fresh
  <1>5. /\ inode' = [inode EXCEPT ![f] = Unused] /\ call' = [call EXCEPT !.at = @ + 1, !.fd = f]
        /\ dirs' = IF call.op = "replace" THEN dirs ELSE Append(dirs, f)
        /\ UNCHANGED << view, reader, allowed, fileFaults >>
    BY DEF SysCreate
  <1>6. f \in Inodes /\ f \notin Named /\ f # Missing /\ (reader # NoReader => reader.fd # f)
    BY <1>3, <1>4
  <1> HIDE DEF f
  <1>7. /\ call' \in FileCalls /\ call' # NoCall /\ call'.op = call.op /\ call'.v = call.v /\ call'.at = 2
        /\ call'.fd = f
    <2>1. /\ call' \in FileCalls /\ call'.op = call.op /\ call'.v = call.v /\ call'.at = 2
          /\ call'.fd = f
      <3>1. call' = [call EXCEPT !.at = 2, !.fd = f]
        BY <1>2, <1>5
      <3>2. 2 \in 1 .. 8 /\ f \in Inodes \cup {Missing}
        BY <1>6
      <3> QED BY <1>2, <3>1, <3>2 DEF FileCalls
    <2> QED BY <2>1, FileFacts
  <1>8. /\ inode' \in [Inodes -> InodeStates] /\ inode'[f] = Unused
        /\ \A i \in Inodes \ {f} : inode'[i] = inode[i]
    BY <1>5, <1>6, FileFacts DEF FileInv, FileTypeOK
  <1>9. /\ dirs' \in Seq(Inodes \cup {Missing}) /\ dirs' # <<>>
        /\ Named' = IF call.op = "replace" THEN Named ELSE Named \cup {f}
        /\ call.op # "replace" => Dir' = f /\ ~Synced'
    <2>1. CASE call.op = "replace"
      BY <1>5, <2>1 DEF FileInv, FileTypeOK, Named
    <2>2. CASE call.op # "replace"
      BY <1>5, <1>6, <2>2, DirAppended DEF FileInv
    <2> QED BY <2>1, <2>2
  <1>10. FileTypeOK'
    BY <1>5, <1>7, <1>8, <1>9 DEF FileInv, FileTypeOK
  <1>11. inode'[f] = Progress'
    BY <1>7, <1>8, FileFacts DEF Progress, Place
  <1>12. CallHolds'
    <2>1. (call.at <= LastAt)' /\ (Passes(call.op, call.v) \subseteq allowed)'
      BY <1>2, <1>5, <1>7 DEF LastAt, Passes
    <2> QED BY <1>2, <1>5, <1>6, <1>7, <1>9, <1>11, <2>1 DEF CallHolds
  <1>13. OpenHolds'
    <2>1. Unused.mode = "private" /\ Unused.disk[2] = "private"
      BY DEF Unused
    <2> QED BY <1>6, <1>8, <2>1 DEF FileInv, OpenHolds
  <1>14. ReaderHolds'
    <2>1. reader # NoReader => reader.fd \in Inodes
      BY DEF FileInv, FileTypeOK, FileReaders
    <2> QED BY <1>5, <1>6, <1>8, <2>1 DEF FileInv, ReaderHolds
  <1>15. HeldHolds'
    <2>1. HeldInodes' = HeldInodes \cup {f} /\ f \notin HeldInodes
      BY <1>2, <1>6, <1>7, <1>9 DEF HeldInodes
    <2>2. HeldInodes \subseteq Inodes
      BY DirFacts, <1>2 DEF FileInv, FileTypeOK, HeldInodes
    <2>3. IsFiniteSet(HeldInodes)
      BY <2>2, FileBounds, FS_Subset
    <2>4. Cardinality(HeldInodes') = Cardinality(HeldInodes) + 1 /\ Cardinality(HeldInodes) \in Nat
      BY <2>1, <2>3, FS_AddElement, FS_CardinalityType
    <2>5. Cardinality(HeldInodes) <= fileFaults + 1 /\ fileFaults \in Nat
      BY <1>2, FileBounds DEF FileInv, FileTypeOK, HeldHolds
    <2> QED BY <1>5, <1>6, <1>7, <2>4, <2>5 DEF HeldHolds
  <1>16. EntriesHold'
    <2>1. Named \subseteq Inodes \cup {Missing}
      BY DirFacts DEF FileInv
    <2>2. \A i \in Named' : \/ i = Missing /\ Gone \in allowed'
                            \/ i \in Named /\ i # Missing /\ inode'[i] = inode[i]
                            \/ i # Missing /\ call' # NoCall /\ i = call'.fd
      BY <1>5, <1>6, <1>7, <1>8, <1>9, <2>1, EntryFacts
    <2> QED BY <1>5, <1>10, <1>12, <2>2, EntriesKeep
  <1>17. SyncedHolds'
    <2>1. CASE call.op = "replace"
      <3>1. Synced' = Synced /\ Dir' = Dir /\ Dir \in Named /\ Dir \in Inodes \cup {Missing}
        BY <1>5, <2>1, DirFacts DEF FileInv, Synced, Dir
      <3> QED BY <1>6, <1>7, <1>8, <3>1 DEF FileInv, SyncedHolds
    <2>2. CASE call.op # "replace"
      BY <1>9, <2>2 DEF SyncedHolds
    <2> QED BY <2>1, <2>2
  <1> QED BY <1>10, <1>12, <1>13, <1>14, <1>15, <1>16, <1>17 DEF FileInv

\* rename: the name gets a whole and synced inode.
LEMMA SysRename_Inv == FileInv /\ SysRename => FileInv'
  <1> SUFFICES ASSUME FileInv, SysRename PROVE FileInv'
    OBVIOUS
  <1>1. Calling("rename") /\ Proceeds /\ dirs' = Append(dirs, call.fd)
        /\ UNCHANGED << view, inode, reader, allowed, fileFaults >>
    BY DEF SysRename
  <1>2. /\ call # NoCall /\ call \in FileCalls /\ call.at = 5 /\ call.op = "replace"
        /\ call.v \in Values /\ call.fd \in Inodes /\ Passes(call.op, call.v) \subseteq allowed
        /\ inode[call.fd] = Progress
    <2>1. call # NoCall /\ call \in FileCalls /\ call.at <= LastAt
      BY <1>1, CallFacts
    <2>2. call.op = "replace" /\ call.at = 5
      BY <1>1, <2>1, CallingAt DEF FileInv
    <2> QED BY <2>1, <2>2 DEF FileInv, CallHolds
  <1>3. /\ call' \in FileCalls /\ call' # NoCall /\ call'.op = "replace" /\ call'.v = call.v /\ call'.at = 6
        /\ call'.fd = call.fd
    <2>1. call' = [call EXCEPT !.at = 6]
      BY <1>1, <1>2 DEF Proceeds
    <2>2. 6 \in 1 .. 8
      OBVIOUS
    <2>3. /\ call' \in FileCalls /\ call'.op = "replace" /\ call'.v = call.v /\ call'.at = 6
          /\ call'.fd = call.fd
      BY <1>2, <2>1, <2>2 DEF FileCalls
    <2> QED BY <2>3, FileFacts
  <1>4. /\ dirs' \in Seq(Inodes \cup {Missing}) /\ dirs' # <<>> /\ Dir' = call.fd
        /\ Named' = Named \cup {call.fd} /\ ~Synced'
    BY <1>1, <1>2, DirAppended DEF FileInv
  <1>5. FileTypeOK'
    BY <1>1, <1>3, <1>4 DEF FileInv, FileTypeOK
  <1>6. Progress' = Progress
    BY <1>2, <1>3 DEF Progress, Place
  <1>7. CallHolds'
    <2>1. (call.at <= LastAt)' /\ (Passes(call.op, call.v) \subseteq allowed)'
      BY <1>1, <1>2, <1>3 DEF LastAt, Passes
    <2> QED BY <1>1, <1>2, <1>3, <1>4, <1>6, <2>1 DEF CallHolds
  <1>8. OpenHolds' /\ ReaderHolds'
    BY <1>1 DEF FileInv, OpenHolds, ReaderHolds
  <1>9. HeldHolds'
    <2>1. HeldInodes' = HeldInodes
      BY <1>2, <1>3, <1>4 DEF HeldInodes
    <2> QED BY <1>1, <1>2, <1>3, <2>1 DEF FileInv, HeldHolds
  <1>10. EntriesHold'
    BY <1>1, <1>2, <1>3, <1>4, <1>5, <1>7, FileFacts, EntryFacts, EntriesKeep
  <1> QED BY <1>4, <1>5, <1>7, <1>8, <1>9, <1>10 DEF FileInv, SyncedHolds

\* unlink: the name is gone, though perhaps not on disk.
LEMMA SysUnlink_Inv == FileInv /\ SysUnlink => FileInv'
  <1> SUFFICES ASSUME FileInv, SysUnlink PROVE FileInv'
    OBVIOUS
  <1>1. Calling("unlink") /\ Proceeds /\ dirs' = Append(dirs, Missing)
        /\ UNCHANGED << view, inode, reader, allowed, fileFaults >>
    BY DEF SysUnlink
  <1>2. /\ call # NoCall /\ call \in FileCalls /\ call.at = 1 /\ call.op = "unlink"
        /\ call.fd = Missing /\ Passes(call.op, call.v) \subseteq allowed
    <2>1. call # NoCall /\ call \in FileCalls /\ call.at <= LastAt
      BY <1>1, CallFacts
    <2>2. call.op = "unlink" /\ call.at = 1
      BY <1>1, <2>1, CallingAt DEF FileInv
    <2> QED BY <2>1, <2>2 DEF FileInv, CallHolds
  <1>3. /\ call' \in FileCalls /\ call' # NoCall /\ call'.op = "unlink" /\ call'.v = call.v /\ call'.at = 2
        /\ call'.fd = Missing
    <2>1. call' = [call EXCEPT !.at = 2]
      BY <1>1, <1>2 DEF Proceeds
    <2>2. 2 \in 1 .. 8
      OBVIOUS
    <2>3. /\ call' \in FileCalls /\ call'.op = "unlink" /\ call'.v = call.v /\ call'.at = 2
          /\ call'.fd = Missing
      BY <1>2, <2>1, <2>2 DEF FileCalls
    <2> QED BY <2>3, FileFacts
  <1>4. /\ dirs' \in Seq(Inodes \cup {Missing}) /\ dirs' # <<>> /\ Dir' = Missing
        /\ Named' = Named \cup {Missing} /\ ~Synced'
    BY <1>1, DirAppended DEF FileInv
  <1>5. FileTypeOK'
    BY <1>1, <1>3, <1>4 DEF FileInv, FileTypeOK
  <1>6. Gone \in allowed
    BY <1>2 DEF Passes
  <1>7. CallHolds'
    <2>1. (call.at <= LastAt)' /\ (Passes(call.op, call.v) \subseteq allowed)'
      BY <1>1, <1>2, <1>3 DEF LastAt, Passes
    <2> QED BY <1>3, <1>4, <2>1 DEF CallHolds
  <1>8. OpenHolds' /\ ReaderHolds'
    BY <1>1 DEF FileInv, OpenHolds, ReaderHolds
  <1>9. HeldHolds'
    <2>1. HeldInodes' = HeldInodes
      BY <1>2, <1>3, <1>4 DEF HeldInodes
    <2> QED BY <1>1, <1>2, <1>3, <2>1 DEF FileInv, HeldHolds
  <1>10. EntriesHold'
    BY <1>1, <1>4, <1>5, <1>6, <1>7, EntryFacts, EntriesKeep
  <1> QED BY <1>4, <1>5, <1>7, <1>8, <1>9, <1>10 DEF FileInv, SyncedHolds

\* At most one entry is left and no call runs.
LEMMA OneEntry ==
    ASSUME fileFaults' \in Nat, call' = NoCall, NEW STATE i, i \in Inodes \cup {Missing}, dirs' = <<i>>
    PROVE  HeldHolds'
  <1>1. HeldInodes' \subseteq {i} /\ IsFiniteSet({i}) /\ Cardinality({i}) = 1
    BY DirSingle, FS_Singleton DEF HeldInodes
  <1>2. Cardinality(HeldInodes') <= 1 /\ Cardinality(HeldInodes') \in Nat
    BY <1>1, FS_Subset, FS_CardinalityType
  <1> QED BY <1>2 DEF HeldHolds

\* fsync of the directory: its earlier entries are forgotten.
LEMMA SysSyncDir_Inv == FileInv /\ SysSyncDir => FileInv'
  <1> SUFFICES ASSUME FileInv, SysSyncDir PROVE FileInv'
    OBVIOUS
  <1> DEFINE keep == {Dir} \cup (IF reader = NoReader THEN {} ELSE {reader.fd})
  <1>1. /\ Calling("syncdir") /\ dirs' = <<Dir>> /\ allowed' = {Settled(call.op, call.v)}
        /\ call' = NoCall /\ inode' = Freed(keep) /\ UNCHANGED << view, reader, fileFaults >>
    BY DEF SysSyncDir
  <1>2. /\ inode' \in [Inodes -> InodeStates]
        /\ \A i \in Inodes : inode'[i] = IF i \in keep THEN inode[i] ELSE Unused
    BY <1>1, FileFacts DEF Freed, FileInv, FileTypeOK
  <1>3. Dir \in Inodes \cup {Missing}
    BY DirFacts DEF FileInv
  <1>4. /\ dirs' \in Seq(Inodes \cup {Missing}) /\ dirs' # <<>> /\ DOMAIN dirs' = {1} /\ dirs'[1] = Dir
    BY <1>1, <1>3, DirSingle
  <1>5. FileTypeOK'
    BY <1>1, <1>2, <1>4 DEF FileInv, FileTypeOK
  <1>6. CallHolds'
    BY <1>1 DEF CallHolds
  <1>7. OpenHolds'
    <2>1. Unused.mode = "private" /\ Unused.disk[2] = "private"
      BY DEF Unused
    <2> QED BY <1>2, <2>1 DEF FileInv, OpenHolds
  <1>8. ReaderHolds'
    <2>1. reader # NoReader => reader.fd \in Inodes /\ inode'[reader.fd] = inode[reader.fd]
      BY <1>2 DEF FileInv, FileTypeOK, FileReaders
    <2> QED BY <1>1, <2>1 DEF FileInv, ReaderHolds
  <1>9. HeldHolds'
    BY <1>1, <1>3, OneEntry, FileBounds DEF FileInv, FileTypeOK
  <1>11. Dir' = Dir
    BY <1>1, <1>3, DirSingle
  <1>10. EntriesHold' /\ SyncedHolds'
    <2>1. call # NoCall /\ call \in FileCalls /\ call.at <= LastAt /\ call.at \in 1 .. 8
          /\ call.op \in {"replace", "create", "ensure", "unlink"}
      BY <1>1, CallFacts
    <2>2. call.at = LastAt
      BY <1>1, <2>1, CallingAt DEF FileInv
    <2>3. CASE call.op = "unlink"
      <3>1. Dir = Missing
        BY <2>1, <2>2, <2>3 DEF FileInv, CallHolds, LastAt
      <3>2. Gone \in allowed'
        BY <1>1, <2>3 DEF Settled
      <3> QED BY <1>4, <1>11, <3>1, <3>2 DEF EntriesHold, EntryHolds, SyncedHolds
    <2>4. CASE call.op # "unlink"
      <3>1. call.fd \in Inodes /\ inode[call.fd] = Progress /\ Dir = call.fd /\ call.v \in Values
        BY <2>1, <2>2, <2>4 DEF FileInv, CallHolds, LastAt
      <3>2. Place = IF view THEN 7 ELSE 5
        BY <2>1, <2>2, <2>4 DEF Place, LastAt
      <3> DEFINE m == IF view THEN "open" ELSE "private"
      <3>3. inode[call.fd] = Image(call.v, m, <<call.v, m>>)
        BY <3>1, <3>2 DEF Progress
      <3>4. inode'[call.fd] = Image(call.v, m, <<call.v, m>>)
        BY <1>2, <3>1, <3>3
      <3>5. <<call.v, m>> \in allowed'
        BY <1>1, <2>4 DEF Settled
      <3>6. call.fd # Missing /\ dirs'[1] = call.fd
        BY <1>4, <3>1, FileFacts
      <3>7. \A x \in Survives(dirs[1])' : x = <<call.v, m>>
        <4>1. inode'[dirs'[1]].data = call.v /\ inode'[dirs'[1]].mode = m
              /\ inode'[dirs'[1]].disk[1] = call.v /\ inode'[dirs'[1]].disk[2] = m
          BY <3>4, <3>6 DEF Image
        <4> HIDE DEF m
        <4> QED BY <4>1 DEF Survives
      <3>8. EntriesHold'
        BY <1>4, <3>5, <3>6, <3>7 DEF EntriesHold, EntryHolds
      <3>9. SyncedHolds'
        <4>1. inode'[Dir'].disk = <<inode'[Dir'].data, inode'[Dir'].mode>>
          BY <1>11, <3>1, <3>4 DEF Image
        <4> QED BY <1>1, <4>1 DEF SyncedHolds
      <3> QED BY <3>8, <3>9
    <2> QED BY <2>3, <2>4
  <1> QED BY <1>5, <1>6, <1>7, <1>8, <1>9, <1>10 DEF FileInv

\* A call that ends early leaves the directory, or the name removed.
LEMMA CallGone ==
    ASSUME FileInv, Faulty, call # NoCall, call' = NoCall, UNCHANGED << view, inode, reader, allowed >>,
           \/ dirs' = dirs
           \/ Gone \in allowed /\ dirs' = Append(dirs, Missing)
    PROVE  FileInv'
  <1>1. fileFaults' = fileFaults + 1 /\ fileFaults' \in 0 .. MaxFileFaults /\ fileFaults \in Nat
    BY FileBounds DEF Faulty, FileInv, FileTypeOK
  <1>2. /\ dirs' \in Seq(Inodes \cup {Missing}) /\ dirs' # <<>>
        /\ Named' = Named \/ (Named' = Named \cup {Missing} /\ Gone \in allowed)
        /\ (Dir' = Dir /\ Synced' = Synced) \/ ~Synced'
    <2>1. CASE dirs' = dirs
      BY <2>1 DEF FileInv, FileTypeOK, Named, Dir, Synced
    <2>2. CASE Gone \in allowed /\ dirs' = Append(dirs, Missing)
      BY <2>2, DirAppended DEF FileInv
    <2> QED BY <2>1, <2>2
  <1>3. FileTypeOK'
    BY <1>1, <1>2 DEF FileInv, FileTypeOK
  <1>4. CallHolds' /\ OpenHolds' /\ ReaderHolds'
    BY DEF FileInv, CallHolds, OpenHolds, ReaderHolds
  <1>5. HeldHolds'
    <2>1. HeldInodes' \subseteq HeldInodes
      BY <1>2 DEF HeldInodes
    <2>2. HeldInodes \subseteq Inodes
      BY DirFacts DEF FileInv, FileTypeOK, HeldInodes, FileCalls
    <2>3. IsFiniteSet(HeldInodes)
      BY <2>2, FileBounds, FS_Subset
    <2>4. Cardinality(HeldInodes') <= Cardinality(HeldInodes) /\ IsFiniteSet(HeldInodes')
      BY <2>1, <2>3, FS_Subset
    <2>5. Cardinality(HeldInodes') \in Nat /\ Cardinality(HeldInodes) \in Nat
      BY <2>3, <2>4, FS_CardinalityType
    <2>6. Cardinality(HeldInodes) <= fileFaults + 2
      BY <1>1, <2>5 DEF FileInv, HeldHolds
    <2> QED BY <1>1, <2>4, <2>5, <2>6 DEF HeldHolds
  <1>6. EntriesHold'
    <2>1. \A i \in Named' : \/ i = Missing /\ Gone \in allowed'
                            \/ i \in Named /\ i # Missing /\ inode'[i] = inode[i]
      BY <1>2, EntryFacts
    <2> QED BY <1>3, <1>4, <2>1, EntriesKeep
  <1>7. SyncedHolds'
    BY <1>2 DEF FileInv, SyncedHolds
  <1> QED BY <1>3, <1>4, <1>5, <1>6, <1>7 DEF FileInv

\* A failed call removes what it can; a killed one leaves it.
LEMMA CallEnds_Inv == FileInv /\ (CallFails \/ WriterKilled) => FileInv'
  <1> SUFFICES ASSUME FileInv, CallFails \/ WriterKilled PROVE FileInv'
    OBVIOUS
  <1>1. CASE WriterKilled
    BY <1>1, CallGone DEF WriterKilled
  <1>2. CASE CallFails
    <2>1. CASE call.op # "replace" /\ call.fd # Missing
      <3>1. call.op \in {"create", "ensure"} /\ Passes(call.op, call.v) \subseteq allowed
        BY <1>2, <2>1 DEF CallFails, FileInv, FileTypeOK, CallHolds, FileCalls
      <3>2. Gone \in allowed
        BY <3>1 DEF Passes
      <3> QED BY <1>2, <2>1, <3>2, CallGone DEF CallFails
    <2>2. CASE ~(call.op # "replace" /\ call.fd # Missing)
      BY <1>2, <2>2, CallGone DEF CallFails
    <2> QED BY <2>1, <2>2
  <1> QED BY <1>1, <1>2

\* What survives of an inode is again an inode.
LEMMA SurvivorFacts ==
    ASSUME FileInv, NEW i \in Inodes, NEW x \in Survives(i)
    PROVE  /\ x \in Int \X Modes
           /\ x[2] = "open" => x[1] \in Values
  <1>1. inode[i] \in InodeStates
    BY DEF FileInv, FileTypeOK
  <1>2. inode[i].data \in Int /\ inode[i].mode \in Modes /\ inode[i].disk \in Int \X Modes
    BY <1>1 DEF InodeStates
  <1>3. PICK d \in (IF inode[i].data = inode[i].disk[1] THEN {inode[i].data}
                    ELSE {inode[i].disk[1], inode[i].data}
                         \cup (IF inode[i].data > 0 THEN {Short(inode[i].data)} ELSE {})),
             m \in {inode[i].disk[2], inode[i].mode} : x = <<d, m>>
    BY DEF Survives
  <1>4. inode[i].disk[1] \in Int /\ inode[i].disk[2] \in Modes
    BY <1>2
  <1>5. d \in Int /\ m \in Modes
    BY <1>2, <1>3, <1>4 DEF Short
  <1>6. m = "open" => d \in Values
    BY <1>3 DEF FileInv, OpenHolds
  <1> QED BY <1>3, <1>5, <1>6

\* A power loss keeps any entry since the last fsync of the directory.
LEMMA PowerLoss_Inv == FileInv /\ PowerLoss => FileInv'
  <1> SUFFICES ASSUME FileInv, PowerLoss PROVE FileInv'
    OBVIOUS
  <1>1. fileFaults' \in 0 .. MaxFileFaults /\ fileFaults' \in Nat
    BY FileBounds DEF PowerLoss, Faulty, FileInv, FileTypeOK
  <1>2. PICK k \in DOMAIN dirs :
          /\ dirs' = <<dirs[k]>>
          /\ IF dirs[k] = Missing
             THEN inode' = Freed({})
             ELSE \E s \in Survives(dirs[k]) :
                    inode' = [Freed({}) EXCEPT ![dirs[k]] =
                                [data |-> s[1], mode |-> s[2], disk |-> s]]
    BY DEF PowerLoss
  <1> DEFINE i == dirs[k]
  <1>3. i \in Inodes \cup {Missing} /\ EntryHolds(i)
    BY <1>2, DirFacts DEF FileInv, EntriesHold, Named
  <1>4. /\ dirs' \in Seq(Inodes \cup {Missing}) /\ dirs' # <<>> /\ DOMAIN dirs' = {1} /\ dirs'[1] = i
    BY <1>2, <1>3, DirSingle
  <1>5. Freed({}) \in [Inodes -> InodeStates] /\ \A j \in Inodes : Freed({})[j] = Unused
    BY FileFacts DEF Freed
  <1>6. call' = NoCall /\ reader' = NoReader /\ view' = view /\ allowed' = allowed
    BY DEF PowerLoss
  <1>7. CallHolds' /\ ReaderHolds'
    BY <1>6 DEF CallHolds, ReaderHolds
  <1>8. HeldHolds'
    BY <1>1, <1>2, <1>3, <1>6, OneEntry
  <1>9. Unused.mode = "private" /\ Unused.disk[2] = "private"
    BY DEF Unused
  <1>10. CASE i = Missing
    <2>1. inode' \in [Inodes -> InodeStates] /\ \A j \in Inodes : inode'[j] = Unused
      BY <1>2, <1>5, <1>10
    <2>2. FileTypeOK'
      BY <1>1, <1>4, <1>6, <2>1 DEF FileInv, FileTypeOK
    <2>3. OpenHolds'
      BY <1>9, <2>1 DEF OpenHolds
    <2>4. EntriesHold'
      BY <1>3, <1>4, <1>6, <1>10 DEF EntriesHold, EntryHolds
    <2>5. SyncedHolds'
      BY <1>2, <1>3, <1>10, DirSingle DEF SyncedHolds
    <2> QED BY <1>7, <1>8, <2>2, <2>3, <2>4, <2>5 DEF FileInv
  <1>11. CASE i # Missing
    <2>1. PICK s \in Survives(i) :
             inode' = [Freed({}) EXCEPT ![i] = [data |-> s[1], mode |-> s[2], disk |-> s]]
      BY <1>2, <1>11
    <2>2. i \in Inodes /\ s \in Int \X Modes /\ (s[2] = "open" => s[1] \in Values) /\ s \in allowed
      BY <1>3, <1>11, SurvivorFacts DEF EntryHolds
    <2> DEFINE new == [data |-> s[1], mode |-> s[2], disk |-> s]
    <2>3. new \in InodeStates /\ new.data = s[1] /\ new.mode = s[2] /\ new.disk = s /\ s = <<s[1], s[2]>>
      BY <2>2 DEF InodeStates
    <2> HIDE DEF new, i
    <2>4. /\ inode' \in [Inodes -> InodeStates] /\ inode'[i] = new
          /\ \A j \in Inodes \ {i} : inode'[j] = Unused
      BY <1>5, <2>1, <2>2, <2>3 DEF new
    <2>5. FileTypeOK'
      BY <1>1, <1>4, <1>6, <2>4 DEF FileInv, FileTypeOK
    <2>6. OpenHolds'
      BY <1>9, <2>2, <2>3, <2>4 DEF OpenHolds
    <2>7. \A x \in Survives(dirs[1])' : x = s
      <3>1. inode'[dirs'[1]].data = s[1] /\ inode'[dirs'[1]].mode = s[2] /\ inode'[dirs'[1]].disk = s
        BY <1>4, <2>3, <2>4
      <3> QED BY <2>3, <3>1 DEF Survives
    <2>8. EntriesHold'
      BY <1>4, <1>6, <1>11, <2>2, <2>7 DEF EntriesHold, EntryHolds, i
    <2>9. Dir' = i
      BY <1>2, <1>3, DirSingle DEF i
    <2>10. SyncedHolds'
      BY <1>6, <2>3, <2>4, <2>9 DEF SyncedHolds
    <2> QED BY <1>7, <1>8, <2>5, <2>6, <2>8, <2>10 DEF FileInv
  <1> QED BY <1>10, <1>11

\* A step of the reader changes no file.
LEMMA ReaderOnly ==
    ASSUME FileInv, UNCHANGED << view, inode, dirs, call, allowed, fileFaults >>,
           reader' \in FileReaders \cup {NoReader}, ReaderHolds'
    PROVE  FileInv'
  <1>1. Named' = Named /\ Dir' = Dir
    BY DEF Named, Dir
  <1>2. FileTypeOK'
    BY DEF FileInv, FileTypeOK
  <1>3. LastAt' = LastAt /\ Progress' = Progress /\ (Passes(call.op, call.v))' = Passes(call.op, call.v)
    BY DEF LastAt, Progress, Place, Passes
  <1>4. CallHolds'
    BY <1>1, <1>3 DEF FileInv, CallHolds
  <1>5. OpenHolds'
    BY DEF FileInv, OpenHolds
  <1>6. HeldHolds'
    BY <1>1 DEF FileInv, HeldHolds, HeldInodes
  <1>7. EntriesHold'
    BY <1>1, <1>2, <1>4, EntryFacts, EntriesKeep
  <1>8. SyncedHolds'
    BY <1>1 DEF FileInv, SyncedHolds, Synced
  <1> QED BY <1>2, <1>4, <1>5, <1>6, <1>7, <1>8 DEF FileInv

\* A reader opens the name once and reads that inode.
LEMMA Readers_Inv ==
    ASSUME FileInv, ReaderOpens \/ ReaderReads \/ ReaderReturns \/ ReaderAgain
    PROVE  FileInv'
  <1>0. NoReader \in FileReaders \cup {NoReader}
    OBVIOUS
  <1>1. CASE ReaderOpens
    <2>1. reader' = [at |-> "read", fd |-> Dir, got |-> Blank] /\ Dir \in Inodes /\ inode[Dir].mode = "open"
      BY <1>1, DirFacts DEF ReaderOpens, FileInv
    <2>2. reader' \in FileReaders /\ reader'.at = "read" /\ reader'.fd = Dir
      BY <2>1, FileFacts DEF FileReaders
    <2> QED BY <1>1, <2>1, <2>2, ReaderOnly DEF ReaderOpens, ReaderHolds
  <1>2. CASE ReaderReads
    <2>1. reader \in FileReaders /\ reader # NoReader
      BY <1>2, FileFacts DEF ReaderReads, FileInv, FileTypeOK
    <2>2. reader.fd \in Inodes /\ inode[reader.fd].mode = "open" /\ inode[reader.fd].data \in Values
      BY <2>1 DEF FileInv, ReaderHolds, OpenHolds, FileReaders
    <2>3. inode[reader.fd].data \in Int
      BY <2>2, FileFacts
    <2>4. /\ reader' \in FileReaders /\ reader'.fd = reader.fd
          /\ reader'.got \in Values
      BY <1>2, <2>1, <2>2, <2>3 DEF ReaderReads, FileReaders
    <2> QED BY <1>2, <2>2, <2>4, ReaderOnly DEF ReaderReads, ReaderHolds
  <1>3. CASE ReaderReturns
    <2>1. reader \in FileReaders /\ reader # NoReader /\ reader.at = "check"
      BY <1>3, FileFacts DEF ReaderReturns, FileInv, FileTypeOK
    <2>2. CASE reader' = NoReader
      BY <1>3, <2>2, ReaderOnly DEF ReaderReturns, ReaderHolds
    <2>3. CASE reader' = [reader EXCEPT !.at = "returned"]
      <3>1. reader' \in FileReaders /\ reader'.fd = reader.fd /\ reader'.got = reader.got
        BY <2>1, <2>3 DEF FileReaders
      <3>2. ReaderHolds'
        BY <1>3, <2>1, <3>1 DEF ReaderReturns, FileInv, ReaderHolds
      <3> QED BY <1>3, <3>1, <3>2, ReaderOnly DEF ReaderReturns
    <2> QED BY <1>3, <2>2, <2>3 DEF ReaderReturns
  <1>4. CASE ReaderAgain
    BY <1>4, ReaderOnly DEF ReaderAgain, ReaderHolds
  <1> QED BY <1>1, <1>2, <1>3, <1>4

\* Every system call, fault and reader keeps the invariant.
LEMMA FileNext_Inv == FileInv /\ [FileNext]_fileVars => FileInv'
  <1> SUFFICES ASSUME FileInv, [FileNext]_fileVars PROVE FileInv'
    OBVIOUS
  <1>1. CASE UNCHANGED fileVars
    BY <1>1, FileStutter
  <1>2. CASE FileNext
    BY <1>2, Calls_Inv, SysCreate_Inv, SysWrite_Inv, SysFsync_Inv, SysRename_Inv, SysUnlink_Inv,
       PrepareViewFile_Inv, SysSyncDir_Inv, CallEnds_Inv, PowerLoss_Inv, Readers_Inv DEF FileNext
  <1> QED BY <1>1, <1>2

\* The inductive invariant of the file primitives.
THEOREM FileInductive == FileSpec => []FileInv
  BY FileInit_Inv, FileNext_Inv, PTL DEF FileSpec

\* Power loss at any instant leaves the name with what the last successful
\* call stored or with what a later, unfinished one passes through (an
\* EnsureFile that finds the file of a call that never synced it counts for
\* nothing), and the unlocked reader returns whole contents (securefs), for any number of calls,
\* faults and contents.
THEOREM FilesTheorem == FileSpec => []FilesWhole
  <1>1. ASSUME FileInv PROVE PowerLossWithin
    <2>1. \A k \in DOMAIN dirs :
            (IF dirs[k] = Missing THEN {Gone} ELSE Survives(dirs[k])) \subseteq allowed
      BY <1>1 DEF FileInv, EntriesHold, EntryHolds
    <2> QED BY <2>1 DEF PowerLossWithin, Outcomes
  <1>2. ASSUME FileInv PROVE ReadersSeeWhole
    BY <1>2, FileFacts DEF FileInv, ReaderHolds, ReadersSeeWhole
  <1> QED BY <1>1, <1>2, FileInductive, PTL DEF FilesWhole


-----------------------------------------------------------------------------
(* The setup of a client through the relay's mailbox. *)

Phases == {"pending", "confirmed", "verified", "applied", "ready", "cancelled"}
Bindings == [tx : Nat, resp : Issued \cup {0}]
Slots == [made : BOOLEAN, request : Nat, response : Bindings, consumed : BOOLEAN]
Sessions == [gen : Nat, phase : Phases \cup {"none"}, req : Nat, tx : Nat, response : Bindings]
Works == [dir : BOOLEAN, plan : Nat, pending : Nat, cancelled : BOOLEAN, session : Sessions]
Receipts == [inv : Invitations \cup {None}, gen : Nat, req : Nat, cleaned : BOOLEAN]
Lives == [st : {"none", "partial", "empty", "pending", "applied", "cancelled"},
          inv : Invitations \cup {None}, req : Nat, response : Bindings,
          identity : BOOLEAN, ahead : BOOLEAN]
StagePcs == {"stage", "plan", "selector", "pending", "bind", "session"}
ImportPcs == {"import", "unlink"}
CommandNames == {"stage", "confirm", "accept", "resume", "status", "readying", "clean", "cancel"}
PcsOf(name) ==
  CASE name = "stage" -> StagePcs
    [] name = "confirm" -> {"confirm", "import", "unlink", "reply", "mark", "retire"}
    [] name = "accept" -> {"accept", "import", "unlink", "bound", "apply", "applied", "reply"}
    [] name = "resume" -> {"resume", "import", "unlink", "apply", "applied", "reply"}
    [] name = "status" -> {"status", "import", "unlink", "reply"}
    [] name = "readying" -> {"readying", "advance"}
    [] name = "clean" -> {"clean", "cleanWork", "cleanSelector", "cleanReceipt"}
    [] name = "cancel" -> {"cancel", "cancelSession", "cancelPending", "cancelUnlink"}
CtlRecords == [name : CommandNames, pc : UNION {PcsOf(n) : n \in CommandNames},
               inv : Invitations, now : Nat, arg : Bindings, who : {"front", "other"}]
Fronts == [phase : Phases \cup {"none", "wait", "cleaned"}, inv : Invitations \cup {None},
           put : BOOLEAN, response : Bindings]

SetupTypeOK ==
  /\ clock \in Nat /\ stored \in Nat
  /\ slot \in [Invitations -> Slots]
  /\ oper \in [Invitations -> [phase : {"none", "pending", "confirmed", "cancelled"}, tx : Nat]]
  /\ bound \subseteq Bindings
  /\ selector \in Invitations \cup {None}
  /\ ready \in Receipts
  /\ work \in [Invitations -> Works]
  /\ requests \in Seq(Nat) /\ sealed \in Seq(Nat)
  /\ life \in Lives
  /\ ctl \in CtlRecords \cup {NoCtl}
  /\ front \in Fronts

\* Only an open mailbox holds documents.
SlotsHold == \A i \in Invitations :
  slot[i].request # 0 \/ slot[i].response # NoResponse => Open(slot[i])

\* What the phase of a recipient's session implies.
SessionHolds(i) ==
  LET s == work[i].session IN
  /\ s # NoSession =>
       /\ s.phase # "none" /\ s.gen > 0
       /\ s.req \in 1 .. Len(requests)
       /\ s.tx \in 1 .. Len(sealed) /\ sealed[s.tx] = s.req
  /\ s.phase \in Confirmed => oper[i] = [phase |-> "confirmed", tx |-> s.tx]
  /\ s.phase \in {"verified", "applied", "ready"} => s.response \in bound /\ s.response.tx = s.tx
  /\ s.phase \in {"applied", "ready"} =>
       life.st = "applied" /\ life.inv = i /\ life.req = s.req /\ life.response = s.response
  /\ work[i].pending \in 0 .. Len(requests)
SessionsHold == \A i \in Invitations : SessionHolds(i)

\* The lifecycle root belongs to the confirmed setup that is selected or ready.
LifeHolds ==
  /\ life.st = "none" => life = NoLife
  /\ life.st # "none" =>
       /\ life.inv \in Invitations /\ oper[life.inv].phase = "confirmed"
       /\ oper[life.inv].tx \in 1 .. Len(sealed)
       /\ life.req # 0 => sealed[oper[life.inv].tx] = life.req
       /\ selector = life.inv \/ (selector = None /\ ready # NoReady) \/ life.st = "partial"
  /\ life.st = "applied" =>
       life.response \in bound /\ life.response.tx = oper[life.inv].tx
  /\ life.st \in {"pending", "applied"} => life.req # 0
  /\ life.req \in 0 .. Len(requests)

\* The requests of a workspace; no two share one, nor one with the lifecycle of another.
Mine(i) == {work[i].pending, work[i].session.req} \ {0}
RequestsOwned ==
  /\ \A i, j \in Invitations : i # j => Mine(i) \cap Mine(j) = {}
  /\ \A j \in Invitations : j # life.inv => life.req \notin Mine(j)

\* What a receipt stands on.
ReadyHolds ==
  ready # NoReady =>
    /\ ready.inv \in Invitations /\ life.st = "applied" /\ life.inv = ready.inv
    /\ life.req = ready.req /\ ~life.identity
    /\ selector \in {ready.inv, None}
    /\ ready.cleaned \/ Retirable(ready.inv)
    /\ ready.cleaned => work[ready.inv] = NoWork /\ selector = None

\* The command is about the selected setup, which is not cancelled and not ready.
Current == ctl.inv = selector /\ ready = NoReady /\ ~work[ctl.inv].cancelled

\* The setup a command that advances the session works on.
WorkingHolds ==
  /\ ctl.pc \in {"pending", "bind", "session", "import", "unlink", "bound", "apply", "applied"} =>
       Current
  /\ ctl.pc \in {"plan", "selector"} =>
       ready = NoReady /\ (selector # ctl.inv => Absent)
  /\ ctl.pc \in {"bind", "session"} => work[ctl.inv].pending # 0
  /\ ctl.pc = "confirm" => /\ ctl.inv = selector
                           /\ ctl.arg.tx # 0 =>
                                oper[ctl.inv] = [phase |-> "confirmed", tx |-> ctl.arg.tx]
  /\ ctl.pc \in {"accept", "resume", "readying"} => ctl.inv = selector
  /\ ctl.pc = "status" => ctl.inv = IF ready # NoReady THEN ready.inv ELSE selector
  /\ ctl.name = "accept" => ctl.arg \in bound
  /\ ctl.pc \in ImportPcs =>
       Session.phase \in IF ctl.name \in {"confirm", "accept"} THEN {"confirmed"}
                         ELSE IF ctl.name = "resume" THEN {"verified"} ELSE {"confirmed", "verified"}
  /\ ctl.pc = "unlink" => life.st = "pending" /\ life.req = Session.req
  /\ ctl.pc = "bound" => Session.phase = "confirmed"
  /\ ctl.pc \in {"apply", "applied"} => Session.phase = "verified"
  /\ ctl.pc = "applied" => /\ life.st = "applied" /\ life.req = Session.req /\ life.inv = ctl.inv
                           /\ life.response = Session.response

\* What a command that completes, cleans or cancels a setup has established.
ClosingHolds ==
  /\ ctl.pc = "advance" => /\ ready = [inv |-> ctl.inv, gen |-> Session.gen + 1,
                                       req |-> Session.req, cleaned |-> FALSE]
                           /\ Session.phase = "applied" /\ ctl.inv = selector
  /\ ctl.pc \in {"cleanWork", "cleanSelector", "cleanReceipt"} =>
       ready # NoReady /\ ~ready.cleaned /\ work[ready.inv].session = NoSession
  /\ ctl.pc \in {"cleanSelector", "cleanReceipt"} => work[ready.inv] = NoWork
  /\ ctl.pc = "cleanReceipt" => selector = None
  /\ ctl.pc \in {"mark", "retire"} => Session.phase = "cancelled" /\ ctl.inv = selector
  /\ ctl.pc = "retire" => work[ctl.inv].cancelled
  /\ ctl.pc = "cancel" => ctl.inv = selector
  /\ ctl.pc \in {"cancelSession", "cancelPending", "cancelUnlink"} =>
       work[ctl.inv].cancelled /\ life.st # "applied" /\ ctl.inv = selector
  /\ ctl.pc = "reply" => ctl.inv = selector /\ Session.phase # "none"

\* The user's process waits for the command it started, and for no other.
NamesHold ==
  /\ ctl # NoCtl => ctl.pc \in PcsOf(ctl.name) /\ (ctl.who = "front" <=> ctl.name # "cancel")
  /\ ctl.who = "front" <=> front.phase = "wait"

\* The user's process works from the selected setup.
FrontHolds ==
  /\ front.phase \notin {"none", "wait"} => front.inv \in Invitations
  /\ front.phase \in {"pending", "confirmed", "verified", "applied"} => front.inv = selector

RelayHolds == SlotsHold /\ MailboxExact
DiskHolds == SessionsHold /\ LifeHolds /\ RequestsOwned /\ KeysKept /\ ReadyHolds
ControlHolds == NamesHold /\ WorkingHolds /\ ClosingHolds /\ FrontHolds
SetupInv == SetupTypeOK /\ RelayHolds /\ DiskHolds /\ ControlHolds

-----------------------------------------------------------------------------
(* What the records look like. *)

\* What the blank records of the model contain.
LEMMA BlankRecords ==
  /\ NoResponse \in Bindings /\ NoResponse.tx = 0
  /\ NoSession \in Sessions /\ NoSession.phase = "none" /\ NoSession.req = 0
  /\ NoWork \in Works /\ NoWork.session = NoSession /\ NoWork.pending = 0
  /\ ~NoWork.cancelled /\ ~NoWork.dir /\ NoWork.plan = None
  /\ NoLife \in Lives /\ NoLife.st = "none" /\ NoLife.req = 0 /\ NoLife.inv = None
  /\ NoLife.response = NoResponse
  /\ NoReady \in Receipts /\ NoReady.inv = None
  /\ NoFront \in Fronts /\ NoFront.phase = "none" /\ NoFront.inv = None /\ ~NoFront.put
  /\ NoCtl.pc = "none" /\ NoCtl.name = "none" /\ NoCtl.who = "none"
  /\ NoSlot \in Slots /\ NoSlot.request = 0 /\ NoSlot.response = NoResponse
BY DEF NoResponse, NoSession, NoWork, NoLife, NoReady, NoFront, NoCtl, NoSlot, None,
       Bindings, Sessions, Works, Lives, Receipts, Fronts, Slots, Phases

\* The command under way and the workspace it is about are typed.
LEMMA CtlTyped ==
  ASSUME SetupTypeOK, ctl # NoCtl
  PROVE  /\ ctl \in CtlRecords /\ ctl.inv \in Invitations /\ ctl.now \in Nat
         /\ ctl.arg \in Bindings /\ ctl.name \in CommandNames
         /\ work[ctl.inv] \in Works /\ Session \in Sessions
         /\ oper[ctl.inv] \in [phase : {"none", "pending", "confirmed", "cancelled"}, tx : Nat]
BY DEF SetupTypeOK, CtlRecords, Session, Works

\* A command that goes on keeps its name, invitation, time and argument.
LEMMA CtlGoes ==
  ASSUME SetupTypeOK, ctl # NoCtl, NEW pc, CtlGoto(pc), NEW n \in CommandNames,
         pc \in PcsOf(n)
  PROVE  /\ ctl' \in CtlRecords /\ ctl'.pc = pc /\ ctl' # NoCtl
         /\ ctl'.name = ctl.name /\ ctl'.inv = ctl.inv /\ ctl'.now = ctl.now
         /\ ctl'.arg = ctl.arg /\ ctl'.who = ctl.who
<1>1. pc \in UNION {PcsOf(m) : m \in CommandNames}
  OBVIOUS
<1>2. ctl \in CtlRecords
  BY CtlTyped
<1>3. ctl' \in CtlRecords /\ ctl'.pc = pc /\ ctl'.name = ctl.name /\ ctl'.inv = ctl.inv
        /\ ctl'.now = ctl.now /\ ctl'.arg = ctl.arg /\ ctl'.who = ctl.who
  BY <1>1, <1>2 DEF CtlGoto, CtlRecords
<1>4. ctl'.name # "none"
  BY <1>3 DEF CtlRecords, CommandNames
<1> QED
  BY <1>3, <1>4, BlankRecords

\* One workspace changes, the others do not.
WorkIs(i, w) ==
  /\ work' \in [Invitations -> Works] /\ work'[i] = w
  /\ \A j \in Invitations : j # i => work'[j] = work[j]

\* The session of one workspace changes.
LEMMA SessionIs ==
  ASSUME SetupTypeOK, NEW i \in Invitations, NEW s \in Sessions,
         work' = [work EXCEPT ![i].session = s]
  PROVE  /\ WorkIs(i, [work[i] EXCEPT !.session = s])
         /\ work'[i].session = s /\ work'[i].pending = work[i].pending
         /\ work'[i].cancelled = work[i].cancelled
BY DEF SetupTypeOK, WorkIs, Works

\* The pending material of one workspace changes.
LEMMA PendingIs ==
  ASSUME SetupTypeOK, NEW i \in Invitations, NEW r \in Nat,
         work' = [work EXCEPT ![i].pending = r]
  PROVE  /\ WorkIs(i, [work[i] EXCEPT !.pending = r])
         /\ work'[i].session = work[i].session /\ work'[i].pending = r
         /\ work'[i].cancelled = work[i].cancelled
BY DEF SetupTypeOK, WorkIs, Works

\* One workspace is marked cancelled.
LEMMA CancelledIs ==
  ASSUME SetupTypeOK, NEW i \in Invitations,
         work' = [work EXCEPT ![i].cancelled = TRUE]
  PROVE  /\ WorkIs(i, [work[i] EXCEPT !.cancelled = TRUE])
         /\ work'[i].session = work[i].session /\ work'[i].pending = work[i].pending
         /\ work'[i].cancelled
BY DEF SetupTypeOK, WorkIs, Works

\* The directory of one workspace is made.
LEMMA DirIs ==
  ASSUME SetupTypeOK, NEW i \in Invitations,
         work' = [work EXCEPT ![i].dir = TRUE]
  PROVE  /\ WorkIs(i, [work[i] EXCEPT !.dir = TRUE])
         /\ work'[i].session = work[i].session /\ work'[i].pending = work[i].pending
         /\ work'[i].cancelled = work[i].cancelled
BY DEF SetupTypeOK, WorkIs, Works

\* The plan of one workspace changes.
LEMMA PlanIs ==
  ASSUME SetupTypeOK, NEW i \in Invitations, NEW t \in Nat,
         work' = [work EXCEPT ![i].plan = t]
  PROVE  /\ WorkIs(i, [work[i] EXCEPT !.plan = t])
         /\ work'[i].session = work[i].session /\ work'[i].pending = work[i].pending
         /\ work'[i].cancelled = work[i].cancelled
BY DEF SetupTypeOK, WorkIs, Works

\* The session's compare-and-swap: a new generation, phase and response, the same request.
LEMMA Advances ==
  ASSUME SetupTypeOK, ctl # NoCtl, NEW ph \in Phases, NEW b \in Bindings, Advance(ph, b)
  PROVE  /\ WorkIs(ctl.inv, work'[ctl.inv])
         /\ work'[ctl.inv].session \in Sessions
         /\ work'[ctl.inv].session.phase = ph /\ work'[ctl.inv].session.response = b
         /\ work'[ctl.inv].session.gen = Session.gen + 1
         /\ work'[ctl.inv].session.req = Session.req /\ work'[ctl.inv].session.tx = Session.tx
         /\ work'[ctl.inv].pending = work[ctl.inv].pending
         /\ work'[ctl.inv].cancelled = work[ctl.inv].cancelled
<1>1. ctl.inv \in Invitations /\ Session \in Sessions
  BY CtlTyped
<1>2. PICK s : s = [gen |-> Session.gen + 1, phase |-> ph, req |-> Session.req,
                    tx |-> Session.tx, response |-> b]
  OBVIOUS
<1>3. /\ s \in Sessions /\ s.phase = ph /\ s.response = b /\ s.gen = Session.gen + 1
      /\ s.req = Session.req /\ s.tx = Session.tx
  BY <1>1, <1>2 DEF Sessions
<1>4. work' = [work EXCEPT ![ctl.inv].session = s]
  BY <1>2 DEF Advance
<1>5. /\ WorkIs(ctl.inv, [work[ctl.inv] EXCEPT !.session = s])
      /\ work'[ctl.inv].session = s /\ work'[ctl.inv].pending = work[ctl.inv].pending
      /\ work'[ctl.inv].cancelled = work[ctl.inv].cancelled
  BY <1>1, <1>3, <1>4, SessionIs
<1> QED
  BY <1>3, <1>5 DEF WorkIs

-----------------------------------------------------------------------------
(* What a step leaves alone. *)

\* Without a command there is nothing to say about it.
LEMMA IdleHolds == ctl' = NoCtl => WorkingHolds' /\ ClosingHolds'
BY BlankRecords DEF WorkingHolds, ClosingHolds, ImportPcs

\* A step that leaves the mailboxes alone.
LEMMA RelaySame ==
  ASSUME RelayHolds, UNCHANGED relayVars
  PROVE  RelayHolds'
BY DEF RelayHolds, relayVars, SlotsHold, MailboxExact, Open

\* A command at one of its positions is under way.
LEMMA CommandUnder ==
  ASSUME SetupInv, NEW pc, AtCtl(pc), pc # "none"
  PROVE  ctl # NoCtl
BY BlankRecords DEF AtCtl

\* A command that refuses leaves the user's process without a state.
LEMMA RefuseEnds ==
  ASSUME SetupInv, ctl # NoCtl, Refuse, selector' = selector \/ ctl.who = "front"
  PROVE  ControlHolds' /\ ctl' = NoCtl /\ front' \in Fronts
<1>1. ctl' = NoCtl /\ front' \in Fronts
  BY BlankRecords DEF SetupInv, SetupTypeOK, Refuse
<1>2. NamesHold' /\ FrontHolds'
  BY <1>1, BlankRecords DEF SetupInv, ControlHolds, Refuse, NamesHold, FrontHolds
<1>3. WorkingHolds' /\ ClosingHolds'
  BY <1>1, IdleHolds
<1> QED
  BY <1>1, <1>2, <1>3 DEF ControlHolds

\* A command that answers: the user's process works from the selected setup.
LEMMA ReplyEnds ==
  ASSUME SetupInv, ctl # NoCtl, NEW ph, Reply(ph), selector' = selector \/ ctl.who = "front",
         ph \in Phases \cup {"cleaned"},
         ph \in {"pending", "confirmed", "verified", "applied"} => ctl.inv = selector'
  PROVE  ControlHolds' /\ ctl' = NoCtl /\ front' \in Fronts
<1>0. ctl.inv \in Invitations /\ front \in Fronts
  BY CtlTyped DEF SetupInv, SetupTypeOK
<1>1. PICK f : f = [NoFront EXCEPT !.phase = ph, !.inv = ctl.inv]
  OBVIOUS
<1>2. f \in Fronts /\ f.phase = ph /\ f.inv = ctl.inv
  BY <1>0, <1>1 DEF Fronts, NoFront, Phases, Bindings, NoResponse
<1>3. ctl' = NoCtl /\ front' = IF ctl.who # "front" THEN front ELSE f
  BY <1>1 DEF Reply
<1>4. front' \in Fronts
  BY <1>0, <1>2, <1>3
<1>5. ph # "wait" /\ ph # "none"
  BY DEF Phases
<1>6. NamesHold' /\ FrontHolds'
  BY <1>0, <1>2, <1>3, <1>5, BlankRecords DEF SetupInv, ControlHolds, NamesHold, FrontHolds
<1>7. WorkingHolds' /\ ClosingHolds'
  BY <1>3, IdleHolds
<1> QED
  BY <1>3, <1>4, <1>6, <1>7 DEF ControlHolds

\* Only what the directory and the plan of a workspace say may change.
SameSessions ==
  /\ work' \in [Invitations -> Works]
  /\ \A j \in Invitations : /\ work'[j].session = work[j].session
                            /\ work'[j].pending = work[j].pending
                            /\ work'[j].cancelled = work[j].cancelled

\* A step that changes at most directories and plans.
LEMMA SessionsSame ==
  ASSUME SetupInv, SameSessions,
         UNCHANGED <<operVars, ready, selector, requests, sealed, life>>,
         ready # NoReady => UNCHANGED work
  PROVE  DiskHolds'
<1>1. SessionsHold'
  BY DEF SetupInv, DiskHolds, SameSessions, SessionsHold, SessionHolds, operVars
<1>2. LifeHolds'
  BY DEF SetupInv, DiskHolds, LifeHolds, operVars
<1>3. RequestsOwned'
  BY DEF SetupInv, DiskHolds, SameSessions, RequestsOwned, Mine
<1>4. KeysKept'
  BY DEF SetupInv, DiskHolds, SameSessions, KeysKept
<1>5. ReadyHolds'
  BY DEF SetupInv, DiskHolds, ReadyHolds, Retirable
<1> QED
  BY <1>1, <1>2, <1>3, <1>4, <1>5 DEF DiskHolds

\* A step that changes no file.
LEMMA DiskSame ==
  ASSUME SetupInv, UNCHANGED <<operVars, diskVars>>
  PROVE  DiskHolds'
<1>1. work \in [Invitations -> Works] /\ UNCHANGED <<work, ready, selector, requests, sealed, life>>
  BY DEF SetupInv, SetupTypeOK, diskVars
<1>2. SameSessions
  BY <1>1 DEF SameSessions
<1> QED
  BY <1>1, <1>2, SessionsSame

\* The parts of the type invariant that a command may change.
DiskTyped ==
  /\ selector \in Invitations \cup {None}
  /\ ready \in Receipts
  /\ work \in [Invitations -> Works]
  /\ requests \in Seq(Nat) /\ sealed \in Seq(Nat)
  /\ life \in Lives
  /\ ctl \in CtlRecords \cup {NoCtl}
  /\ front \in Fronts

\* A step of the client's machine alone keeps the invariant.
LEMMA LocalKeeps ==
  ASSUME SetupInv, UNCHANGED <<clock, relayVars, operVars>>, DiskTyped', DiskHolds', ControlHolds'
  PROVE  SetupInv'
<1>1. RelayHolds'
  BY RelaySame DEF SetupInv
<1>2. SetupTypeOK'
  BY DEF SetupInv, SetupTypeOK, DiskTyped, relayVars, operVars
<1> QED
  BY <1>1, <1>2 DEF SetupInv

\* A step of a command keeps the invariant when its parts hold afterwards.
LEMMA CommandKeeps ==
  ASSUME SetupInv, CtlSame, DiskTyped', DiskHolds', ControlHolds'
  PROVE  SetupInv'
BY LocalKeeps DEF CtlSame

\* A command that refuses, having changed nothing.
LEMMA RefuseKeeps ==
  ASSUME SetupInv, ctl # NoCtl, Refuse, UNCHANGED diskVars, CtlSame
  PROVE  SetupInv'
<1>1. ControlHolds' /\ ctl' = NoCtl /\ front' \in Fronts
  BY RefuseEnds DEF diskVars
<1>2. DiskHolds'
  BY DiskSame DEF CtlSame
<1>3. DiskTyped'
  BY <1>1 DEF SetupInv, SetupTypeOK, DiskTyped, diskVars
<1> QED
  BY <1>1, <1>2, <1>3, CommandKeeps

\* A command that answers, having changed nothing.
LEMMA ReplyKeeps ==
  ASSUME SetupInv, ctl # NoCtl, NEW ph, Reply(ph), UNCHANGED diskVars, CtlSame,
         ph \in Phases \cup {"cleaned"},
         ph \in {"pending", "confirmed", "verified", "applied"} => ctl.inv = selector
  PROVE  SetupInv'
<1>1. ControlHolds' /\ ctl' = NoCtl /\ front' \in Fronts
  BY ReplyEnds DEF diskVars
<1>2. DiskHolds'
  BY DiskSame DEF CtlSame
<1>3. DiskTyped'
  BY <1>1 DEF SetupInv, SetupTypeOK, DiskTyped, diskVars
<1> QED
  BY <1>1, <1>2, <1>3, CommandKeeps

\* A command that goes on, the user's process waiting as before.
LEMMA GotoNames ==
  ASSUME SetupInv, ctl # NoCtl, NEW pc, CtlGoto(pc), UNCHANGED front,
         selector' = selector \/ ctl.who = "front", pc \in PcsOf(ctl.name)
  PROVE  /\ NamesHold' /\ FrontHolds'
         /\ ctl' \in CtlRecords /\ ctl'.pc = pc /\ ctl' # NoCtl
         /\ ctl'.name = ctl.name /\ ctl'.inv = ctl.inv /\ ctl'.now = ctl.now
         /\ ctl'.arg = ctl.arg /\ ctl'.who = ctl.who
<1>1. SetupTypeOK /\ ctl.name \in CommandNames
  BY CtlTyped DEF SetupInv
<1>2. /\ ctl' \in CtlRecords /\ ctl'.pc = pc /\ ctl' # NoCtl
      /\ ctl'.name = ctl.name /\ ctl'.inv = ctl.inv /\ ctl'.now = ctl.now
      /\ ctl'.arg = ctl.arg /\ ctl'.who = ctl.who
  BY <1>1, CtlGoes
<1>3. NamesHold'
  <2>1. NamesHold
    BY DEF SetupInv, ControlHolds
  <2> QED
    BY <1>2, <2>1 DEF NamesHold
<1>4. FrontHolds'
  BY DEF SetupInv, ControlHolds, NamesHold, FrontHolds
<1> QED
  BY <1>2, <1>3, <1>4

-----------------------------------------------------------------------------
(* Stage *)

\* selectInvitation takes an invitation whose predecessor left no lifecycle.
LEMMA StageSelectKeeps ==
  ASSUME SetupInv, StageSelect PROVE SetupInv'
<1>0. ctl # NoCtl /\ ctl.pc = "stage"
  BY CommandUnder DEF StageSelect, AtCtl
<1>1. CASE ~InvitationValid(ctl.now) \/ ready # NoReady \/ ~Stageable(ctl.inv)
  BY <1>0, <1>1, RefuseKeeps DEF StageSelect
<1>2. CASE InvitationValid(ctl.now) /\ ready = NoReady /\ Stageable(ctl.inv)
  <2>1. PICK pc : pc = IF work[ctl.inv].dir THEN "selector" ELSE "plan"
    OBVIOUS
  <2>2. /\ CtlGoto(pc) /\ UNCHANGED front /\ CtlSame
        /\ work' = [work EXCEPT ![ctl.inv].dir = TRUE]
        /\ UNCHANGED <<selector, ready, requests, sealed, life, front>>
    BY <1>2, <2>1 DEF StageSelect
  <2>3. ctl.inv \in Invitations /\ ctl.name = "stage" /\ SetupTypeOK
    BY <1>0, CtlTyped DEF SetupInv, ControlHolds, NamesHold, PcsOf, StagePcs, CommandNames
  <2>4. pc \in PcsOf(ctl.name)
    BY <2>1, <2>3 DEF PcsOf, StagePcs
  <2>5. /\ NamesHold' /\ FrontHolds'
        /\ ctl' \in CtlRecords /\ ctl'.pc = pc /\ ctl'.name = ctl.name /\ ctl'.inv = ctl.inv
    BY <1>0, <2>2, <2>4, GotoNames
  <2>6. /\ WorkIs(ctl.inv, [work[ctl.inv] EXCEPT !.dir = TRUE])
        /\ work'[ctl.inv].session = work[ctl.inv].session
        /\ work'[ctl.inv].pending = work[ctl.inv].pending
        /\ work'[ctl.inv].cancelled = work[ctl.inv].cancelled
    BY <2>2, <2>3, DirIs
  <2>7. SameSessions
    BY <2>6 DEF WorkIs, SameSessions
  <2>8. DiskHolds'
    BY <1>2, <2>2, <2>7, SessionsSame DEF CtlSame
  <2>9. DiskTyped'
    BY <2>2, <2>5, <2>6 DEF SetupInv, SetupTypeOK, DiskTyped, WorkIs
  <2>10. selector # ctl.inv => Absent
    BY <1>2, SetupAssumption DEF Stageable, Absent, SetupInv, DiskHolds, LifeHolds, None
  <2>11. WorkingHolds'
    BY <1>2, <2>1, <2>2, <2>3, <2>5, <2>10 DEF WorkingHolds, Absent, ImportPcs
  <2>12. ClosingHolds'
    BY <2>1, <2>5 DEF ClosingHolds
  <2> QED
    BY <2>2, <2>5, <2>8, <2>9, <2>11, <2>12, CommandKeeps DEF ControlHolds
<1> QED
  BY <1>1, <1>2

\* The plan of a new workspace is written.
LEMMA StagePlanKeeps ==
  ASSUME SetupInv, StagePlan PROVE SetupInv'
<1>0. ctl # NoCtl /\ ctl.pc = "plan"
  BY CommandUnder DEF StagePlan, AtCtl
<1>1. /\ ctl.inv \in Invitations /\ ctl.now \in Nat /\ ctl.name = "stage" /\ SetupTypeOK
      /\ ready = NoReady /\ (selector # ctl.inv => Absent)
  BY <1>0, CtlTyped DEF SetupInv, ControlHolds, NamesHold, WorkingHolds, PcsOf, StagePcs, CommandNames
<1>2. /\ CtlGoto("selector") /\ CtlSame
      /\ work' = [work EXCEPT ![ctl.inv].plan = ctl.now]
      /\ UNCHANGED <<selector, ready, requests, sealed, life, front>>
  BY DEF StagePlan
<1>3. "selector" \in PcsOf(ctl.name)
  BY <1>1 DEF PcsOf, StagePcs
<1>4. /\ NamesHold' /\ FrontHolds'
      /\ ctl' \in CtlRecords /\ ctl'.pc = "selector" /\ ctl'.name = ctl.name /\ ctl'.inv = ctl.inv
  BY <1>0, <1>2, <1>3, GotoNames
<1>5. /\ WorkIs(ctl.inv, [work[ctl.inv] EXCEPT !.plan = ctl.now])
      /\ work'[ctl.inv].session = work[ctl.inv].session
      /\ work'[ctl.inv].pending = work[ctl.inv].pending
      /\ work'[ctl.inv].cancelled = work[ctl.inv].cancelled
  BY <1>1, <1>2, PlanIs
<1>6. SameSessions
  BY <1>5 DEF WorkIs, SameSessions
<1>7. DiskHolds'
  BY <1>1, <1>2, <1>6, SessionsSame DEF CtlSame
<1>8. DiskTyped'
  BY <1>2, <1>4, <1>5 DEF SetupInv, SetupTypeOK, DiskTyped, WorkIs
<1>9. WorkingHolds' /\ ClosingHolds'
  BY <1>1, <1>2, <1>4 DEF WorkingHolds, Absent, ClosingHolds, ImportPcs
<1> QED
  BY <1>2, <1>4, <1>7, <1>8, <1>9, CommandKeeps DEF ControlHolds

\* current.json names the staged invitation; the lifecycle is its own or absent.
LEMMA StageSelectorKeeps ==
  ASSUME SetupInv, StageSelector PROVE SetupInv'
<1>0. ctl # NoCtl /\ ctl.pc = "selector"
  BY CommandUnder DEF StageSelector, AtCtl
<1>1. /\ ctl.inv \in Invitations /\ ctl.name = "stage" /\ ctl.who = "front" /\ SetupTypeOK
      /\ ready = NoReady /\ (selector # ctl.inv => Absent)
  BY <1>0, CtlTyped DEF SetupInv, ControlHolds, NamesHold, WorkingHolds, PcsOf, StagePcs, CommandNames
<1>2. /\ selector' = ctl.inv /\ CtlSame
      /\ UNCHANGED <<ready, work, requests, sealed, life>>
  BY DEF StageSelector
<1>3. DiskHolds'
  <2>1. SessionsHold' /\ RequestsOwned' /\ KeysKept'
    BY <1>2 DEF SetupInv, DiskHolds, SessionsHold, SessionHolds, RequestsOwned, Mine, KeysKept,
                CtlSame, operVars
  <2>2. LifeHolds'
    BY <1>1, <1>2 DEF SetupInv, DiskHolds, LifeHolds, Absent, CtlSame, operVars
  <2>3. ReadyHolds'
    BY <1>1, <1>2 DEF ReadyHolds
  <2> QED
    BY <2>1, <2>2, <2>3 DEF DiskHolds
<1>4. CASE work[ctl.inv].cancelled
  <2>1. ControlHolds' /\ ctl' = NoCtl /\ front' \in Fronts
    BY <1>0, <1>1, <1>4, RefuseEnds DEF StageSelector
  <2>2. DiskTyped'
    BY <1>1, <1>2, <2>1 DEF SetupTypeOK, DiskTyped
  <2> QED
    BY <1>2, <1>3, <2>1, <2>2, CommandKeeps
<1>5. CASE ~work[ctl.inv].cancelled
  <2>1. CtlGoto("pending") /\ UNCHANGED front
    BY <1>5 DEF StageSelector
  <2>2. "pending" \in PcsOf(ctl.name)
    BY <1>1 DEF PcsOf, StagePcs
  <2>3. /\ NamesHold' /\ FrontHolds'
        /\ ctl' \in CtlRecords /\ ctl'.pc = "pending" /\ ctl'.name = ctl.name /\ ctl'.inv = ctl.inv
    BY <1>0, <1>1, <2>1, <2>2, GotoNames
  <2>4. DiskTyped'
    BY <1>1, <1>2, <2>1, <2>3 DEF SetupTypeOK, DiskTyped
  <2>5. WorkingHolds' /\ ClosingHolds'
    BY <1>1, <1>2, <1>5, <2>3 DEF WorkingHolds, ClosingHolds, ImportPcs, Current
  <2> QED
    BY <1>2, <1>3, <2>3, <2>4, <2>5, CommandKeeps DEF ControlHolds
<1> QED
  BY <1>4, <1>5

\* The requests of a workspace are among those created.
LEMMA OwnedBounds ==
  ASSUME SetupInv, NEW j \in Invitations
  PROVE  /\ Mine(j) \subseteq 1 .. Len(requests)
         /\ work[j] \in Works /\ work[j].session \in Sessions
         /\ work[j].pending \in 0 .. Len(requests)
         /\ work[j].session.req \in 0 .. Len(requests) /\ Len(requests) \in Nat
         /\ work[j].session.req = 0 => work[j].session = NoSession
<1>1. requests \in Seq(Nat) /\ work[j] \in Works /\ work[j].session \in Sessions
  BY DEF SetupInv, SetupTypeOK, Works
<1>2. Len(requests) \in Nat
  BY <1>1
<1>3. SessionHolds(j)
  BY DEF SetupInv, DiskHolds, SessionsHold
<1> QED
  BY <1>1, <1>2, <1>3, BlankRecords DEF SessionHolds, Mine

\* What Append does to a sequence of numbers.
LEMMA AppendIs ==
  ASSUME NEW s \in Seq(Nat), NEW x \in Nat
  PROVE  /\ Append(s, x) \in Seq(Nat) /\ Len(Append(s, x)) = Len(s) + 1 /\ Len(s) \in Nat
         /\ Append(s, x)[Len(s) + 1] = x
         /\ \A k \in 1 .. Len(s) : Append(s, x)[k] = s[k]
OBVIOUS

\* A new request is nobody else's, and hides no key that is still needed.
LEMMA StagePendingKeeps ==
  ASSUME SetupInv, StagePending PROVE SetupInv'
<1>0. ctl # NoCtl /\ ctl.pc = "pending"
  BY CommandUnder DEF StagePending, AtCtl
<1>1. /\ ctl.inv \in Invitations /\ ctl.now \in Nat /\ ctl.name = "stage" /\ SetupTypeOK /\ Current
  BY <1>0, CtlTyped DEF SetupInv, ControlHolds, NamesHold, WorkingHolds, PcsOf, StagePcs, CommandNames
<1>2. CtlSame /\ UNCHANGED <<selector, ready, sealed, life>>
  BY DEF StagePending
<1>3. "bind" \in PcsOf(ctl.name)
  BY <1>1 DEF PcsOf, StagePcs
<1>4. CASE work[ctl.inv].pending # 0
  <2>1. UNCHANGED diskVars
    BY <1>2, <1>4 DEF StagePending, diskVars
  <2>2. CASE ~RequestValid(work[ctl.inv].pending, ctl.now)
    BY <1>0, <1>2, <1>4, <2>1, <2>2, RefuseKeeps DEF StagePending
  <2>3. CASE RequestValid(work[ctl.inv].pending, ctl.now)
    <3>1. CtlGoto("bind") /\ UNCHANGED front
      BY <1>4, <2>3 DEF StagePending
    <3>2. /\ NamesHold' /\ FrontHolds'
          /\ ctl' \in CtlRecords /\ ctl'.pc = "bind" /\ ctl'.name = ctl.name /\ ctl'.inv = ctl.inv
      BY <1>0, <1>2, <1>3, <3>1, GotoNames
    <3>3. DiskHolds' /\ DiskTyped'
      BY <1>1, <1>2, <2>1, <3>1, <3>2, DiskSame DEF SetupTypeOK, DiskTyped, CtlSame, diskVars
    <3>4. WorkingHolds' /\ ClosingHolds'
      BY <1>1, <1>4, <2>1, <3>2 DEF WorkingHolds, ClosingHolds, ImportPcs, Current, diskVars
    <3> QED
      BY <1>2, <3>2, <3>3, <3>4, CommandKeeps DEF ControlHolds
  <2> QED
    BY <2>2, <2>3
<1>5. CASE work[ctl.inv].pending = 0
  <2>1. /\ requests' = Append(requests, ctl.now)
        /\ work' = [work EXCEPT ![ctl.inv].pending = Len(requests) + 1]
        /\ CtlGoto("bind") /\ UNCHANGED front
    BY <1>5 DEF StagePending
  <2>2. /\ NamesHold' /\ FrontHolds'
        /\ ctl' \in CtlRecords /\ ctl'.pc = "bind" /\ ctl'.name = ctl.name /\ ctl'.inv = ctl.inv
    BY <1>0, <1>2, <1>3, <2>1, GotoNames
  <2>3. /\ requests \in Seq(Nat) /\ requests' \in Seq(Nat) /\ Len(requests') = Len(requests) + 1
        /\ Len(requests) \in Nat
    BY <1>1, <2>1, AppendIs DEF SetupTypeOK
  <2>4. Len(requests) + 1 \in Nat
    BY <2>3
  <2>5. /\ WorkIs(ctl.inv, [work[ctl.inv] EXCEPT !.pending = Len(requests) + 1])
        /\ work'[ctl.inv].session = work[ctl.inv].session
        /\ work'[ctl.inv].pending = Len(requests) + 1
        /\ work'[ctl.inv].cancelled = work[ctl.inv].cancelled
    BY <1>1, <2>1, <2>4, PendingIs
  <2>6. \A j \in Invitations : /\ work'[j].session = work[j].session
                               /\ j # ctl.inv => work'[j] = work[j]
    BY <2>5 DEF WorkIs
  <2>7. \A j \in Invitations : /\ Mine(j) \subseteq 1 .. Len(requests)
                               /\ work[j].pending \in 0 .. Len(requests)
                               /\ work[j].session.req \in 0 .. Len(requests)
                               /\ (work[j].session.req = 0 => work[j].session = NoSession)
    BY OwnedBounds
  <2>8. SessionsHold'
    <3> SUFFICES ASSUME NEW j \in Invitations PROVE SessionHolds(j)'
      BY DEF SessionsHold
    <3>1. SessionHolds(j)
      BY DEF SetupInv, DiskHolds, SessionsHold
    <3>2. work'[j].pending \in 0 .. Len(requests')
      BY <2>3, <2>5, <2>6, <2>7
    <3>3. \A x : x \in 1 .. Len(requests) => x \in 1 .. Len(requests')
      BY <2>3
    <3> QED
      BY <1>2, <2>6, <3>1, <3>2, <3>3 DEF SessionHolds, CtlSame, operVars
  <2>9. LifeHolds'
    BY <1>2, <2>3 DEF SetupInv, DiskHolds, LifeHolds, CtlSame, operVars
  <2>10. RequestsOwned'
    <3>1. /\ \A i, j \in Invitations : i # j => Mine(i) \cap Mine(j) = {}
          /\ \A j \in Invitations : j # life.inv => life.req \notin Mine(j)
          /\ life.req \in 0 .. Len(requests)
      BY DEF SetupInv, DiskHolds, RequestsOwned, LifeHolds
    <3>2. \A j \in Invitations : Mine(j)' \subseteq Mine(j) \cup {Len(requests) + 1}
      BY <2>5, <2>6 DEF Mine
    <3>3. \A j \in Invitations : j # ctl.inv => Mine(j)' = Mine(j)
      BY <2>6 DEF Mine
    <3>4. \A j \in Invitations : Len(requests) + 1 \notin Mine(j)
      BY <2>3, <2>7
    <3>5. \A i, j \in Invitations : i # j => Mine(i)' \cap Mine(j)' = {}
      BY <3>1, <3>2, <3>3, <3>4
    <3>6. life.req # Len(requests) + 1
      BY <2>3, <3>1
    <3>7. \A j \in Invitations : j # life'.inv => life'.req \notin Mine(j)'
      BY <1>2, <3>1, <3>2, <3>6
    <3> QED
      BY <3>5, <3>7 DEF RequestsOwned
  <2>11. KeysKept'
    <3> SUFFICES ASSUME NEW j \in Invitations,
                        work'[j].session # NoSession /\ ~work'[j].cancelled
                          /\ work'[j].session.phase # "cancelled"
                 PROVE  \/ work'[j].pending = work'[j].session.req
                        \/ life'.req = work'[j].session.req /\ life'.st \in {"pending", "applied"}
      BY DEF KeysKept
    <3>1. /\ work[j].session # NoSession /\ ~work[j].cancelled
          /\ work[j].session.phase # "cancelled"
      BY <2>5, <2>6
    <3>2. \/ work[j].pending = work[j].session.req
          \/ life.req = work[j].session.req /\ life.st \in {"pending", "applied"}
      BY <3>1 DEF SetupInv, DiskHolds, KeysKept
    <3>3. work[j].session.req # 0
      BY <2>7, <3>1
    <3> QED
      BY <1>2, <1>5, <2>6, <3>2, <3>3
  <2>12. ReadyHolds'
    BY <1>1, <1>2 DEF ReadyHolds, Current
  <2>13. DiskTyped'
    BY <1>1, <1>2, <2>1, <2>2, <2>3, <2>5 DEF SetupTypeOK, DiskTyped, WorkIs
  <2>14. work'[ctl'.inv].pending # 0 /\ Current'
    BY <1>1, <1>2, <2>2, <2>3, <2>5 DEF Current
  <2>15. WorkingHolds' /\ ClosingHolds'
    BY <2>2, <1>1, <2>14 DEF WorkingHolds, ClosingHolds, ImportPcs
  <2> QED
    BY <1>2, <2>2, <2>8, <2>9, <2>10, <2>11, <2>12, <2>13, <2>15, CommandKeeps
       DEF ControlHolds, DiskHolds
<1> QED
  BY <1>4, <1>5

\* bindPlanValidationToRequest moves the plan's time only.
LEMMA StageBindKeeps ==
  ASSUME SetupInv, StageBind PROVE SetupInv'
<1>0. ctl # NoCtl /\ ctl.pc = "bind"
  BY CommandUnder DEF StageBind, AtCtl
<1>1. /\ ctl.inv \in Invitations /\ ctl.now \in Nat /\ ctl.name = "stage" /\ SetupTypeOK /\ Current
      /\ work[ctl.inv].pending # 0
  BY <1>0, CtlTyped DEF SetupInv, ControlHolds, NamesHold, WorkingHolds, PcsOf, StagePcs, CommandNames
<1>2. CtlSame /\ UNCHANGED <<selector, ready, requests, sealed, life>>
  BY DEF StageBind
<1>3. PICK created : created = requests[work[ctl.inv].pending]
  OBVIOUS
<1>4. created \in Nat
  <2>1. work[ctl.inv].pending \in 0 .. Len(requests)
    BY <1>1, OwnedBounds
  <2> QED
    BY <1>1, <1>3, <2>1 DEF SetupTypeOK
<1>5. CASE created < work[ctl.inv].plan
  <2>1. Refuse /\ UNCHANGED diskVars
    BY <1>2, <1>3, <1>5 DEF StageBind, diskVars
  <2> QED
    BY <1>0, <1>2, <2>1, RefuseKeeps
<1>6. CASE ~(created < work[ctl.inv].plan)
  <2>1. /\ work' = [work EXCEPT ![ctl.inv].plan = created]
        /\ CtlGoto("session") /\ UNCHANGED front
    BY <1>3, <1>6 DEF StageBind
  <2>2. "session" \in PcsOf(ctl.name)
    BY <1>1 DEF PcsOf, StagePcs
  <2>3. /\ NamesHold' /\ FrontHolds'
        /\ ctl' \in CtlRecords /\ ctl'.pc = "session" /\ ctl'.name = ctl.name /\ ctl'.inv = ctl.inv
    BY <1>0, <1>2, <2>1, <2>2, GotoNames
  <2>4. /\ WorkIs(ctl.inv, [work[ctl.inv] EXCEPT !.plan = created])
        /\ work'[ctl.inv].session = work[ctl.inv].session
        /\ work'[ctl.inv].pending = work[ctl.inv].pending
        /\ work'[ctl.inv].cancelled = work[ctl.inv].cancelled
    BY <1>1, <1>4, <2>1, PlanIs
  <2>5. SameSessions
    BY <2>4 DEF WorkIs, SameSessions
  <2>6. DiskHolds'
    BY <1>1, <1>2, <2>5, SessionsSame DEF CtlSame, Current
  <2>7. DiskTyped'
    BY <1>1, <1>2, <2>1, <2>3, <2>4 DEF SetupTypeOK, DiskTyped, WorkIs
  <2>8. Current' /\ work'[ctl'.inv].pending # 0
    BY <1>1, <1>2, <2>3, <2>4 DEF Current
  <2>9. WorkingHolds' /\ ClosingHolds'
    BY <1>1, <2>3, <2>8 DEF WorkingHolds, ClosingHolds, ImportPcs
  <2> QED
    BY <1>2, <2>3, <2>6, <2>7, <2>9, CommandKeeps DEF ControlHolds
<1> QED
  BY <1>5, <1>6

-----------------------------------------------------------------------------
(* A command that changes one workspace. *)

\* Transcripts are only added.
SealedGrows == \A k \in 1 .. Len(sealed) : k \in 1 .. Len(sealed') /\ sealed'[k] = sealed[k]

\* The keys of one workspace's session are on disk.
KeyKept(i) ==
  work[i].session # NoSession /\ ~work[i].cancelled /\ work[i].session.phase # "cancelled" =>
    \/ work[i].pending = work[i].session.req
    \/ life.req = work[i].session.req /\ life.st \in {"pending", "applied"}

\* A step that changes one workspace, whose own conditions hold afterwards.
LEMMA OneWorkspace ==
  ASSUME SetupInv, NEW i \in Invitations, WorkIs(i, work'[i]),
         UNCHANGED <<operVars, requests, life>>, SealedGrows,
         SessionHolds(i)', Mine(i)' \subseteq Mine(i), KeyKept(i)'
  PROVE  SessionsHold' /\ RequestsOwned' /\ KeysKept'
<1>1. \A j \in Invitations : j # i => work'[j] = work[j]
  BY DEF WorkIs
<1>2. SessionsHold'
  <2> SUFFICES ASSUME NEW j \in Invitations, j # i PROVE SessionHolds(j)'
    BY DEF SessionsHold
  <2>1. SessionHolds(j) /\ work'[j] = work[j]
    BY <1>1 DEF SetupInv, DiskHolds, SessionsHold
  <2> QED
    BY <2>1 DEF SessionHolds, SealedGrows, operVars
<1>3. RequestsOwned'
  <2>1. \A j \in Invitations : Mine(j)' \subseteq Mine(j)
    BY <1>1 DEF Mine
  <2> QED
    BY <2>1 DEF SetupInv, DiskHolds, RequestsOwned
<1>4. KeysKept'
  <2>1. \A j \in Invitations : KeyKept(j)
    BY DEF SetupInv, DiskHolds, KeysKept, KeyKept
  <2>2. \A j \in Invitations : KeyKept(j)'
    BY <1>1, <2>1 DEF KeyKept
  <2> QED
    BY <2>2 DEF KeysKept, KeyKept
<1> QED
  BY <1>2, <1>3, <1>4

\* A step that leaves the lifecycle root, the selector and the receipt alone.
LEMMA LifeSame ==
  ASSUME SetupInv, UNCHANGED <<operVars, requests, life, selector, ready>>, SealedGrows
  PROVE  LifeHolds'
BY DEF SetupInv, DiskHolds, LifeHolds, SealedGrows, operVars

\* No new transcript.
LEMMA SealedSame == ASSUME UNCHANGED sealed PROVE SealedGrows
BY DEF SealedGrows

\* A new session is sealed on the pending request.
LEMMA StageSessionKeeps ==
  ASSUME SetupInv, StageSession PROVE SetupInv'
<1>0. ctl # NoCtl /\ ctl.pc = "session"
  BY CommandUnder DEF StageSession, AtCtl
<1>1. /\ ctl.inv \in Invitations /\ ctl.name = "stage" /\ SetupTypeOK /\ Current
      /\ work[ctl.inv].pending # 0 /\ Session \in Sessions
  BY <1>0, CtlTyped DEF SetupInv, ControlHolds, NamesHold, WorkingHolds, PcsOf, StagePcs, CommandNames
<1>2. CtlSame /\ UNCHANGED <<selector, ready, requests, life>>
  BY DEF StageSession
<1>3. SessionHolds(ctl.inv)
  BY <1>1 DEF SetupInv, DiskHolds, SessionsHold
<1>4. CASE Session # NoSession
  <2>1. UNCHANGED diskVars
    BY <1>2, <1>4 DEF StageSession, diskVars
  <2>2. Session.phase \in Phases
    BY <1>1, <1>3, <1>4 DEF SessionHolds, Session, Sessions
  <2>3. Refuse \/ Reply(Session.phase)
    BY <1>4 DEF StageSession
  <2>4. CASE Refuse
    BY <1>0, <1>2, <2>1, <2>4, RefuseKeeps
  <2>5. CASE Reply(Session.phase)
    BY <1>0, <1>1, <1>2, <2>1, <2>2, <2>5, ReplyKeeps DEF Current
  <2> QED
    BY <2>3, <2>4, <2>5
<1>5. CASE Session = NoSession
  <2>1. PICK s : s = [gen |-> 1, phase |-> "pending", req |-> work[ctl.inv].pending,
                      tx |-> Len(sealed) + 1, response |-> NoResponse]
    OBVIOUS
  <2>2. /\ sealed' = Append(sealed, work[ctl.inv].pending)
        /\ work' = [work EXCEPT ![ctl.inv].session = s]
        /\ Reply("pending")
    BY <1>5, <2>1 DEF StageSession
  <2>3. work[ctl.inv].pending \in 1 .. Len(requests) /\ Len(requests) \in Nat
    BY <1>1, OwnedBounds
  <2>4. /\ sealed \in Seq(Nat) /\ sealed' \in Seq(Nat) /\ Len(sealed') = Len(sealed) + 1
        /\ Len(sealed) \in Nat /\ sealed'[Len(sealed) + 1] = work[ctl.inv].pending
        /\ \A k \in 1 .. Len(sealed) : sealed'[k] = sealed[k]
    <3>1. work[ctl.inv].pending \in Nat /\ sealed \in Seq(Nat)
      BY <1>1, <2>3 DEF SetupTypeOK
    <3> QED
      BY <2>2, <3>1, AppendIs
  <2>5. SealedGrows
    BY <2>4 DEF SealedGrows
  <2>6. s \in Sessions
    BY <2>1, <2>3, <2>4, BlankRecords DEF Sessions, Phases
  <2>7. /\ WorkIs(ctl.inv, [work[ctl.inv] EXCEPT !.session = s])
        /\ work'[ctl.inv].session = s /\ work'[ctl.inv].pending = work[ctl.inv].pending
        /\ work'[ctl.inv].cancelled = work[ctl.inv].cancelled
    BY <1>1, <2>2, <2>6, SessionIs
  <2>8. PICK i \in Invitations : i = ctl.inv
    BY <1>1
  <2>9. /\ WorkIs(i, work'[i]) /\ work'[i].session = s
        /\ work'[i].pending = work[i].pending
    BY <2>7, <2>8 DEF WorkIs
  <2>10. SessionHolds(i)'
    <3>1. s.phase = "pending" /\ s.gen = 1 /\ s.req = work[i].pending /\ s.tx = Len(sealed) + 1
      BY <2>1, <2>8
    <3>2. s.tx \in 1 .. Len(sealed') /\ sealed'[s.tx] = s.req /\ s.req \in 1 .. Len(requests')
          /\ work'[i].pending \in 0 .. Len(requests')
      BY <1>2, <2>3, <2>4, <2>8, <2>9, <3>1
    <3> QED
      BY <1>2, <2>9, <3>1, <3>2 DEF SessionHolds, Confirmed
  <2>11. Mine(i)' \subseteq Mine(i) /\ KeyKept(i)'
    BY <2>1, <2>8, <2>9 DEF Mine, KeyKept
  <2>12. SessionsHold' /\ RequestsOwned' /\ KeysKept'
    BY <1>2, <2>5, <2>9, <2>10, <2>11, OneWorkspace DEF CtlSame
  <2>13. LifeHolds' /\ ReadyHolds'
    BY <1>1, <1>2, <2>5, LifeSame DEF CtlSame, ReadyHolds, Current
  <2>14. ControlHolds' /\ ctl' = NoCtl /\ front' \in Fronts
    BY <1>0, <1>1, <1>2, <2>2, ReplyEnds DEF Phases, Current
  <2>15. DiskTyped'
    BY <1>1, <1>2, <2>4, <2>9, <2>14 DEF SetupTypeOK, DiskTyped, WorkIs
  <2> QED
    BY <1>2, <2>12, <2>13, <2>14, <2>15, CommandKeeps DEF DiskHolds
<1> QED
  BY <1>4, <1>5

\* A receipt is written once the response is applied: not before, and the
\* setup it names is then neither pending nor cancelled.
LEMMA NotReady ==
  ASSUME SetupInv, ctl # NoCtl, ctl.inv = selector,
         Session.phase \in {"pending", "confirmed", "verified", "cancelled"}
  PROVE  ready = NoReady
<1>1. ctl.inv \in Invitations
  BY CtlTyped DEF SetupInv
<1>2. ctl.inv # None
  BY <1>1, SetupAssumption DEF None
<1>3. ASSUME ready # NoReady PROVE FALSE
  <2>1. /\ selector \in {ready.inv, None} /\ (ready.cleaned \/ Retirable(ready.inv))
        /\ ready.cleaned => selector = None
    BY <1>3 DEF SetupInv, DiskHolds, ReadyHolds
  <2>2. Retirable(ctl.inv)
    BY <1>2, <2>1
  <2> QED
    BY <2>2, BlankRecords DEF Retirable, Session
<1> QED
  BY <1>3

\* No receipt before a response is applied.
LEMMA NotApplied ==
  ASSUME SetupInv, life.st # "applied"
  PROVE  ready = NoReady
BY DEF SetupInv, DiskHolds, ReadyHolds

\* The session advances to a phase that the rest of the state supports.
LEMMA SessionAdvances ==
  ASSUME SetupInv, ctl # NoCtl, NEW ph \in Phases, NEW b \in Bindings, Advance(ph, b),
         UNCHANGED <<operVars, requests, sealed, life, selector, ready>>,
         Session.phase \notin {"none", "cancelled"},
         ph \in Confirmed => oper[ctl.inv] = [phase |-> "confirmed", tx |-> Session.tx],
         ph \in {"verified", "applied", "ready"} => b \in bound /\ b.tx = Session.tx,
         ph \in {"applied", "ready"} => /\ life.st = "applied" /\ life.inv = ctl.inv
                                        /\ life.req = Session.req /\ life.response = b,
         ReadyHolds'
  PROVE  /\ DiskHolds' /\ WorkIs(ctl.inv, work'[ctl.inv])
         /\ work'[ctl.inv].session.phase = ph /\ work'[ctl.inv].session.response = b
         /\ work'[ctl.inv].session.gen = Session.gen + 1
         /\ work'[ctl.inv].session.req = Session.req /\ work'[ctl.inv].session.tx = Session.tx
         /\ work'[ctl.inv].cancelled = work[ctl.inv].cancelled
<1>1. SetupTypeOK /\ ctl.inv \in Invitations /\ Session \in Sessions
  BY CtlTyped DEF SetupInv
<1>2. PICK i \in Invitations : i = ctl.inv
  BY <1>1
<1>3. /\ WorkIs(i, work'[i])
      /\ work'[i].session \in Sessions
      /\ work'[i].session.phase = ph /\ work'[i].session.response = b
      /\ work'[i].session.gen = Session.gen + 1
      /\ work'[i].session.req = Session.req /\ work'[i].session.tx = Session.tx
      /\ work'[i].pending = work[i].pending /\ work'[i].cancelled = work[i].cancelled
  BY <1>1, <1>2, Advances
<1>4. SessionHolds(i) /\ Session = work[i].session /\ Session # NoSession
  BY <1>2, BlankRecords DEF SetupInv, DiskHolds, SessionsHold, Session
<1>5. work'[i].session.gen > 0 /\ ph # "none"
  BY <1>1, <1>3 DEF Sessions, Phases
<1>6. SessionHolds(i)'
  BY <1>2, <1>3, <1>4, <1>5 DEF SessionHolds, operVars
<1>7. Mine(i)' \subseteq Mine(i)
  BY <1>3, <1>4 DEF Mine
<1>8. KeyKept(i)'
  <2>1. KeyKept(i)
    BY DEF SetupInv, DiskHolds, KeysKept, KeyKept
  <2> QED
    BY <1>3, <1>4, <2>1 DEF KeyKept
<1>9. SessionsHold' /\ RequestsOwned' /\ KeysKept' /\ LifeHolds'
  BY <1>3, <1>6, <1>7, <1>8, OneWorkspace, LifeSame, SealedSame
<1> QED
  BY <1>2, <1>3, <1>9 DEF DiskHolds

\* pending.json is unlinked where the keys are kept elsewhere or given up.
LEMMA PendingDropped ==
  ASSUME SetupInv, NEW i \in Invitations, work' = [work EXCEPT ![i].pending = 0],
         UNCHANGED <<operVars, requests, sealed, life, selector, ready>>,
         KeyKept(i)', ready = NoReady
  PROVE  /\ DiskHolds' /\ WorkIs(i, work'[i])
         /\ work'[i].session = work[i].session /\ work'[i].pending = 0
         /\ work'[i].cancelled = work[i].cancelled
<1>1. SetupTypeOK /\ 0 \in Nat
  BY DEF SetupInv
<1>2. /\ WorkIs(i, [work[i] EXCEPT !.pending = 0])
      /\ work'[i].session = work[i].session /\ work'[i].pending = 0
      /\ work'[i].cancelled = work[i].cancelled
  BY <1>1, PendingIs
<1>3. WorkIs(i, work'[i])
  BY <1>2 DEF WorkIs
<1>4. SessionHolds(i) /\ Len(requests) \in Nat
  BY OwnedBounds DEF SetupInv, DiskHolds, SessionsHold
<1>5. SessionHolds(i)'
  BY <1>2, <1>4 DEF SessionHolds, operVars
<1>6. Mine(i)' \subseteq Mine(i)
  BY <1>2 DEF Mine
<1>7. SessionsHold' /\ RequestsOwned' /\ KeysKept' /\ LifeHolds'
  BY <1>3, <1>5, <1>6, OneWorkspace, LifeSame, SealedSame
<1>8. ReadyHolds'
  BY DEF ReadyHolds
<1> QED
  BY <1>2, <1>3, <1>7, <1>8 DEF DiskHolds

\* A setup that is not READY is marked cancelled.
LEMMA SetCancelled ==
  ASSUME SetupInv, NEW i \in Invitations, work' = [work EXCEPT ![i].cancelled = TRUE],
         UNCHANGED <<operVars, requests, sealed, life, selector, ready>>, ready = NoReady
  PROVE  /\ DiskHolds' /\ WorkIs(i, work'[i])
         /\ work'[i].session = work[i].session /\ work'[i].cancelled
<1>1. SetupTypeOK
  BY DEF SetupInv
<1>2. /\ WorkIs(i, [work[i] EXCEPT !.cancelled = TRUE])
      /\ work'[i].session = work[i].session /\ work'[i].pending = work[i].pending
      /\ work'[i].cancelled
  BY <1>1, CancelledIs
<1>3. WorkIs(i, work'[i])
  BY <1>2 DEF WorkIs
<1>4. SessionHolds(i)
  BY DEF SetupInv, DiskHolds, SessionsHold
<1>5. SessionHolds(i)'
  BY <1>2, <1>4 DEF SessionHolds, operVars
<1>6. Mine(i)' \subseteq Mine(i) /\ KeyKept(i)'
  BY <1>2 DEF Mine, KeyKept
<1>7. SessionsHold' /\ RequestsOwned' /\ KeysKept' /\ LifeHolds'
  BY <1>3, <1>5, <1>6, OneWorkspace, LifeSame, SealedSame
<1>8. ReadyHolds'
  BY DEF ReadyHolds
<1> QED
  BY <1>2, <1>3, <1>7, <1>8 DEF DiskHolds

-----------------------------------------------------------------------------
(* The commands that compare, import, accept and apply. *)

\* Words that match are those of the transcript the operator confirmed.
LEMMA ConfirmWordsKeeps ==
  ASSUME SetupInv, ConfirmWords PROVE SetupInv'
<1>0. ctl # NoCtl /\ ctl.pc = "confirm"
  BY CommandUnder DEF ConfirmWords, AtCtl
<1>1. /\ ctl.inv \in Invitations /\ ctl.name = "confirm" /\ SetupTypeOK /\ ctl.inv = selector
      /\ ctl.arg.tx # 0 => oper[ctl.inv] = [phase |-> "confirmed", tx |-> ctl.arg.tx]
      /\ Session \in Sessions
  BY <1>0, CtlTyped DEF SetupInv, ControlHolds, NamesHold, WorkingHolds, PcsOf, StagePcs, CommandNames
<1>2. CtlSame /\ UNCHANGED <<selector, ready, requests, sealed, life>>
  BY DEF ConfirmWords
<1>3. CASE ~OpenCurrent(ctl.now) \/ Session.phase # "pending"
  BY <1>0, <1>2, <1>3, RefuseKeeps DEF ConfirmWords, diskVars
<1>4. CASE OpenCurrent(ctl.now) /\ Session.phase = "pending"
  <2>1. ready = NoReady /\ ~work[ctl.inv].cancelled
    BY <1>0, <1>1, <1>4, NotReady DEF OpenCurrent
  <2>2. ReadyHolds' /\ "confirmed" \in Phases /\ "cancelled" \in Phases /\ NoResponse \in Bindings
    BY <1>2, <2>1, BlankRecords DEF ReadyHolds, Phases
  <2>3. "import" \in PcsOf(ctl.name) /\ "mark" \in PcsOf(ctl.name)
    BY <1>1 DEF PcsOf
  <2>4. Session.tx # 0
    <3>1. SessionHolds(ctl.inv) /\ Session # NoSession
      BY <1>1, <1>4, BlankRecords DEF SetupInv, DiskHolds, SessionsHold
    <3>2. Session.tx \in 1 .. Len(sealed)
      BY <3>1 DEF SessionHolds, Session
    <3> QED
      BY <3>2
  <2>5. CASE ctl.arg.tx = Session.tx
    <3>1. Advance("confirmed", NoResponse) /\ CtlGoto("import") /\ UNCHANGED front
      BY <1>4, <2>5 DEF ConfirmWords
    <3>2. /\ NamesHold' /\ FrontHolds'
          /\ ctl' \in CtlRecords /\ ctl'.pc = "import" /\ ctl'.name = ctl.name /\ ctl'.inv = ctl.inv
      BY <1>0, <1>2, <2>3, <3>1, GotoNames
    <3>3. /\ DiskHolds' /\ WorkIs(ctl.inv, work'[ctl.inv])
          /\ work'[ctl.inv].session.phase = "confirmed"
          /\ work'[ctl.inv].cancelled = work[ctl.inv].cancelled
      BY <1>0, <1>1, <1>2, <1>4, <2>2, <2>4, <2>5, <3>1, SessionAdvances DEF CtlSame
    <3>4. DiskTyped'
      BY <1>1, <1>2, <3>1, <3>2, <3>3 DEF SetupTypeOK, DiskTyped, WorkIs
    <3>5. Current' /\ Session'.phase = "confirmed"
      BY <1>1, <1>2, <2>1, <3>2, <3>3 DEF Current, Session
    <3>6. WorkingHolds' /\ ClosingHolds'
      BY <1>1, <3>2, <3>5 DEF WorkingHolds, ClosingHolds, ImportPcs
    <3> QED
      BY <1>2, <3>2, <3>3, <3>4, <3>6, CommandKeeps DEF ControlHolds
  <2>6. CASE ctl.arg.tx # Session.tx
    <3>1. Advance("cancelled", NoResponse) /\ CtlGoto("mark") /\ UNCHANGED front
      BY <1>4, <2>6 DEF ConfirmWords
    <3>2. /\ NamesHold' /\ FrontHolds'
          /\ ctl' \in CtlRecords /\ ctl'.pc = "mark" /\ ctl'.name = ctl.name /\ ctl'.inv = ctl.inv
      BY <1>0, <1>2, <2>3, <3>1, GotoNames
    <3>3. /\ DiskHolds' /\ WorkIs(ctl.inv, work'[ctl.inv])
          /\ work'[ctl.inv].session.phase = "cancelled"
      BY <1>0, <1>1, <1>2, <1>4, <2>2, <3>1, SessionAdvances DEF CtlSame, Confirmed
    <3>4. DiskTyped'
      BY <1>1, <1>2, <3>1, <3>2, <3>3 DEF SetupTypeOK, DiskTyped, WorkIs
    <3>5. Session'.phase = "cancelled" /\ ctl'.inv = selector'
      BY <1>1, <1>2, <3>2, <3>3 DEF Session
    <3>6. WorkingHolds' /\ ClosingHolds'
      BY <1>1, <3>2, <3>5 DEF WorkingHolds, ClosingHolds, ImportPcs
    <3> QED
      BY <1>2, <3>2, <3>3, <3>4, <3>6, CommandKeeps DEF ControlHolds
  <2> QED
    BY <2>5, <2>6
<1> QED
  BY <1>3, <1>4

\* A mismatch is terminal: the workspace is marked.
LEMMA MarkCancelledKeeps ==
  ASSUME SetupInv, MarkCancelled PROVE SetupInv'
<1>0. ctl # NoCtl /\ ctl.pc = "mark"
  BY CommandUnder DEF MarkCancelled, AtCtl
<1>1. /\ ctl.inv \in Invitations /\ ctl.name = "confirm" /\ SetupTypeOK /\ ctl.inv = selector
      /\ Session.phase = "cancelled"
  BY <1>0, CtlTyped DEF SetupInv, ControlHolds, NamesHold, ClosingHolds, PcsOf, StagePcs, CommandNames
<1>2. /\ CtlSame /\ UNCHANGED <<selector, ready, requests, sealed, life, front>>
      /\ CtlGoto("retire") /\ work' = [work EXCEPT ![ctl.inv].cancelled = TRUE]
  BY DEF MarkCancelled
<1>3. ready = NoReady
  BY <1>0, <1>1, NotReady
<1>4. "retire" \in PcsOf(ctl.name)
  BY <1>1 DEF PcsOf
<1>5. /\ NamesHold' /\ FrontHolds'
      /\ ctl' \in CtlRecords /\ ctl'.pc = "retire" /\ ctl'.name = ctl.name /\ ctl'.inv = ctl.inv
  BY <1>0, <1>2, <1>4, GotoNames
<1>6. /\ DiskHolds' /\ WorkIs(ctl.inv, work'[ctl.inv])
      /\ work'[ctl.inv].session = work[ctl.inv].session /\ work'[ctl.inv].cancelled
  BY <1>1, <1>2, <1>3, SetCancelled DEF CtlSame
<1>7. DiskTyped'
  BY <1>1, <1>2, <1>5, <1>6 DEF SetupTypeOK, DiskTyped, WorkIs
<1>8. Session'.phase = "cancelled" /\ ctl'.inv = selector' /\ work'[ctl'.inv].cancelled
  BY <1>1, <1>2, <1>5, <1>6 DEF Session
<1>9. WorkingHolds' /\ ClosingHolds'
  BY <1>1, <1>5, <1>8 DEF WorkingHolds, ClosingHolds, ImportPcs
<1> QED
  BY <1>2, <1>5, <1>6, <1>7, <1>9, CommandKeeps DEF ControlHolds

\* The keys of a cancelled session are retired.
LEMMA RetirePendingKeeps ==
  ASSUME SetupInv, RetirePending PROVE SetupInv'
<1>0. ctl # NoCtl /\ ctl.pc = "retire"
  BY CommandUnder DEF RetirePending, AtCtl
<1>1. /\ ctl.inv \in Invitations /\ SetupTypeOK /\ ctl.inv = selector
      /\ Session.phase = "cancelled"
  BY <1>0, CtlTyped DEF SetupInv, ControlHolds, ClosingHolds
<1>2. /\ CtlSame /\ UNCHANGED <<selector, ready, requests, sealed, life>>
      /\ Reply("cancelled") /\ work' = [work EXCEPT ![ctl.inv].pending = 0]
  BY DEF RetirePending
<1>3. ready = NoReady
  BY <1>0, <1>1, NotReady
<1>4. PICK i \in Invitations : i = ctl.inv
  BY <1>1
<1>5. KeyKept(i)'
  <2>1. work'[i].session = work[i].session
    BY <1>1, <1>2, <1>4 DEF SetupTypeOK, Works
  <2> QED
    BY <1>1, <1>4, <2>1 DEF KeyKept, Session
<1>6. DiskHolds' /\ WorkIs(i, work'[i])
  BY <1>2, <1>3, <1>4, <1>5, PendingDropped DEF CtlSame
<1>7. ControlHolds' /\ ctl' = NoCtl /\ front' \in Fronts
  BY <1>0, <1>2, ReplyEnds DEF Phases
<1>8. DiskTyped'
  BY <1>1, <1>2, <1>6, <1>7 DEF SetupTypeOK, DiskTyped, WorkIs
<1> QED
  BY <1>2, <1>6, <1>7, <1>8, CommandKeeps

\* The answer is the session's phase.
LEMMA ReplyPhaseKeeps ==
  ASSUME SetupInv, ReplyPhase PROVE SetupInv'
<1>0. ctl # NoCtl /\ ctl.pc = "reply"
  BY CommandUnder DEF ReplyPhase, AtCtl
<1>1. ctl.inv = selector /\ Session.phase # "none" /\ Session \in Sessions
  BY <1>0, CtlTyped DEF SetupInv, ControlHolds, ClosingHolds
<1>2. Session.phase \in Phases
  BY <1>1 DEF Sessions
<1> QED
  BY <1>0, <1>1, <1>2, ReplyKeeps DEF ReplyPhase

\* A command that goes on, having changed nothing.
LEMMA GotoKeeps ==
  ASSUME SetupInv, ctl # NoCtl, NEW pc, CtlGoto(pc), UNCHANGED front, UNCHANGED diskVars, CtlSame,
         pc \in PcsOf(ctl.name),
         ctl'.pc = pc /\ ctl'.name = ctl.name /\ ctl'.inv = ctl.inv /\ ctl'.arg = ctl.arg
           => WorkingHolds' /\ ClosingHolds'
  PROVE  SetupInv'
<1>1. /\ NamesHold' /\ FrontHolds' /\ ctl' \in CtlRecords
      /\ ctl'.pc = pc /\ ctl'.name = ctl.name /\ ctl'.inv = ctl.inv /\ ctl'.arg = ctl.arg
  BY GotoNames DEF diskVars
<1>2. DiskHolds' /\ DiskTyped'
  BY <1>1, DiskSame DEF SetupInv, SetupTypeOK, DiskTyped, CtlSame, diskVars
<1> QED
  BY <1>1, <1>2, CommandKeeps DEF ControlHolds

\* AcceptAndApply opens a confirmed session.
LEMMA AcceptOpenKeeps ==
  ASSUME SetupInv, AcceptOpen PROVE SetupInv'
<1>0. ctl # NoCtl /\ ctl.pc = "accept"
  BY CommandUnder DEF AcceptOpen, AtCtl
<1>1. /\ ctl.inv \in Invitations /\ ctl.name = "accept" /\ SetupTypeOK /\ ctl.inv = selector
      /\ ctl.arg \in bound
  BY <1>0, CtlTyped DEF SetupInv, ControlHolds, NamesHold, WorkingHolds, PcsOf, StagePcs, CommandNames
<1>2. CtlSame /\ UNCHANGED diskVars
  BY DEF AcceptOpen
<1>3. CASE ~(OpenCurrent(ctl.now) /\ Session.phase = "confirmed")
  BY <1>0, <1>2, <1>3, RefuseKeeps DEF AcceptOpen
<1>4. CASE OpenCurrent(ctl.now) /\ Session.phase = "confirmed"
  <2>1. CtlGoto("import") /\ UNCHANGED front /\ "import" \in PcsOf(ctl.name)
    BY <1>1, <1>4 DEF AcceptOpen, PcsOf
  <2>2. Current
    BY <1>0, <1>1, <1>4, NotReady DEF OpenCurrent, Current
  <2>3. ctl'.pc = "import" /\ ctl'.name = ctl.name /\ ctl'.inv = ctl.inv /\ ctl'.arg = ctl.arg
           => WorkingHolds' /\ ClosingHolds'
    BY <1>1, <1>2, <1>4, <2>2
       DEF WorkingHolds, ClosingHolds, ImportPcs, Current, Session, diskVars, CtlSame, operVars
  <2> QED
    BY <1>0, <1>2, <2>1, <2>3, GotoKeeps
<1> QED
  BY <1>3, <1>4

\* ResumeApply opens a verified session.
LEMMA ResumeOpenKeeps ==
  ASSUME SetupInv, ResumeOpen PROVE SetupInv'
<1>0. ctl # NoCtl /\ ctl.pc = "resume"
  BY CommandUnder DEF ResumeOpen, AtCtl
<1>1. /\ ctl.inv \in Invitations /\ ctl.name = "resume" /\ SetupTypeOK /\ ctl.inv = selector
  BY <1>0, CtlTyped DEF SetupInv, ControlHolds, NamesHold, WorkingHolds, PcsOf, StagePcs, CommandNames
<1>2. CtlSame /\ UNCHANGED diskVars
  BY DEF ResumeOpen
<1>3. CASE Refuse
  BY <1>0, <1>2, <1>3, RefuseKeeps
<1>4. CASE Reply("applied")
  BY <1>0, <1>1, <1>2, <1>4, ReplyKeeps DEF Phases
<1>5. CASE OpenCurrent(ctl.now) /\ Session.phase = "verified"
  <2>1. CtlGoto("import") /\ UNCHANGED front /\ "import" \in PcsOf(ctl.name)
    BY <1>1, <1>5 DEF ResumeOpen, PcsOf
  <2>2. Current
    BY <1>0, <1>1, <1>5, NotReady DEF OpenCurrent, Current
  <2>3. ctl'.pc = "import" /\ ctl'.name = ctl.name /\ ctl'.inv = ctl.inv /\ ctl'.arg = ctl.arg
           => WorkingHolds' /\ ClosingHolds'
    BY <1>1, <1>2, <1>5, <2>2
       DEF WorkingHolds, ClosingHolds, ImportPcs, Current, Session, diskVars, CtlSame, operVars
  <2> QED
    BY <1>0, <1>2, <2>1, <2>3, GotoKeeps
<1> QED
  BY <1>3, <1>4, <1>5 DEF ResumeOpen

\* Status imports again, or reports.
LEMMA StatusOpenKeeps ==
  ASSUME SetupInv, StatusOpen PROVE SetupInv'
<1>0. ctl # NoCtl /\ ctl.pc = "status"
  BY CommandUnder DEF StatusOpen, AtCtl
<1>1. /\ ctl.inv \in Invitations /\ ctl.name = "status" /\ SetupTypeOK
      /\ ctl.inv = IF ready # NoReady THEN ready.inv ELSE selector
  BY <1>0, CtlTyped DEF SetupInv, ControlHolds, NamesHold, WorkingHolds, PcsOf, StagePcs, CommandNames
<1>2. CtlSame /\ UNCHANGED diskVars
  BY DEF StatusOpen
<1>3. CASE Refuse
  BY <1>0, <1>2, <1>3, RefuseKeeps
<1>4. CASE Reply("ready")
  BY <1>0, <1>1, <1>2, <1>4, ReplyKeeps DEF Phases
<1>5. CASE ready = NoReady /\ OpenCurrent(ctl.now) /\ Session.phase \in {"confirmed", "verified"}
  <2>1. CtlGoto("import") /\ UNCHANGED front /\ "import" \in PcsOf(ctl.name)
    BY <1>1, <1>5 DEF StatusOpen, PcsOf
  <2>2. Current
    BY <1>0, <1>1, <1>5, NotReady DEF OpenCurrent, Current
  <2>3. ctl'.pc = "import" /\ ctl'.name = ctl.name /\ ctl'.inv = ctl.inv /\ ctl'.arg = ctl.arg
           => WorkingHolds' /\ ClosingHolds'
    BY <1>1, <1>2, <1>5, <2>2
       DEF WorkingHolds, ClosingHolds, ImportPcs, Current, Session, diskVars, CtlSame, operVars
  <2> QED
    BY <1>0, <1>2, <2>1, <2>3, GotoKeeps
<1>6. CASE /\ ready = NoReady /\ ~(OpenCurrent(ctl.now) /\ Session.phase \in {"confirmed", "verified"})
           /\ OpenCurrent(ctl.now) \/ OpenPostApply
  <2>1. CtlGoto("reply") /\ UNCHANGED front /\ "reply" \in PcsOf(ctl.name)
    BY <1>1, <1>6 DEF StatusOpen, PcsOf
  <2>2. ctl.inv = selector /\ Session.phase # "none"
    BY <1>1, <1>6 DEF OpenCurrent, OpenPostApply, Loads, Session, SetupInv, DiskHolds,
                      SessionsHold, SessionHolds
  <2>3. ctl'.pc = "reply" /\ ctl'.name = ctl.name /\ ctl'.inv = ctl.inv /\ ctl'.arg = ctl.arg
           => WorkingHolds' /\ ClosingHolds'
    BY <1>1, <1>2, <1>6, <2>2
       DEF WorkingHolds, ClosingHolds, ImportPcs, Session, diskVars
  <2> QED
    BY <1>0, <1>2, <2>1, <2>3, GotoKeeps
<1> QED
  BY <1>3, <1>4, <1>5, <1>6 DEF StatusOpen

\* What a change of the lifecycle root has to respect.
AppliedStays ==
  life.st = "applied" =>
    /\ life'.st = "applied" /\ life'.inv = life.inv /\ life'.req = life.req
    /\ life'.response = life.response

\* A change of the lifecycle root that keeps keys, owners and applied record.
LEMMA LifeBecomes ==
  ASSUME SetupInv, UNCHANGED <<operVars, work, requests, sealed>>, AppliedStays,
         LifeHolds', ReadyHolds',
         \A j \in Invitations : j # life'.inv => life'.req \notin Mine(j),
         \A j \in Invitations : KeyKept(j)'
  PROVE  DiskHolds'
<1>1. SessionsHold'
  BY DEF SetupInv, DiskHolds, SessionsHold, SessionHolds, AppliedStays, operVars
<1>2. RequestsOwned'
  BY DEF SetupInv, DiskHolds, RequestsOwned, Mine
<1>3. KeysKept'
  BY DEF KeysKept, KeyKept
<1> QED
  BY <1>1, <1>2, <1>3 DEF DiskHolds

\* The same request, in a lifecycle that still holds it.
LEMMA LifeGoesOn ==
  ASSUME SetupInv, UNCHANGED <<operVars, work, requests, sealed>>, AppliedStays,
         LifeHolds', ReadyHolds', life'.inv = life.inv, life'.req = life.req,
         life.st \in {"pending", "applied"} => life'.st \in {"pending", "applied"}
  PROVE  DiskHolds'
<1>1. \A j \in Invitations : j # life'.inv => life'.req \notin Mine(j)
  BY DEF SetupInv, DiskHolds, RequestsOwned
<1>2. \A j \in Invitations : KeyKept(j)'
  BY DEF SetupInv, DiskHolds, KeysKept, KeyKept
<1> QED
  BY <1>1, <1>2, LifeBecomes

\* What a confirmed session of the selected setup says of the operator.
LEMMA ConfirmedSession ==
  ASSUME SetupInv, ctl # NoCtl, Session.phase \in Confirmed
  PROVE  /\ Session # NoSession /\ Session.req \in 1 .. Len(requests)
         /\ Session.tx \in 1 .. Len(sealed) /\ sealed[Session.tx] = Session.req
         /\ oper[ctl.inv] = [phase |-> "confirmed", tx |-> Session.tx]
         /\ oper[ctl.inv].phase = "confirmed" /\ oper[ctl.inv].tx = Session.tx
         /\ Session.phase \in {"verified", "applied", "ready"} =>
              Session.response \in bound /\ Session.response.tx = Session.tx
         /\ Session.phase \in {"applied", "ready"} =>
              /\ life.st = "applied" /\ life.inv = ctl.inv /\ life.req = Session.req
              /\ life.response = Session.response
<1>1. SessionHolds(ctl.inv) /\ Session # NoSession
  BY CtlTyped, BlankRecords DEF SetupInv, DiskHolds, SessionsHold, Confirmed
<1> QED
  BY <1>1 DEF SessionHolds, Session

\* The keys of the session's request are put into the lifecycle root.
LEMMA RequestImported ==
  ASSUME SetupInv, ctl # NoCtl, Current, Session.phase \in {"confirmed", "verified"},
         work[ctl.inv].pending # 0, Importable(work[ctl.inv].pending), NEW a \in BOOLEAN,
         life' = [st |-> "pending", inv |-> ctl.inv, req |-> work[ctl.inv].pending,
                  response |-> NoResponse, identity |-> TRUE, ahead |-> a],
         UNCHANGED <<operVars, selector, ready, work, requests, sealed>>
  PROVE  DiskHolds' /\ life' \in Lives /\ life'.st = "pending" /\ life'.req = Session.req
<1>1. SetupTypeOK /\ ctl.inv \in Invitations /\ Session.phase \in Confirmed
  BY CtlTyped DEF SetupInv, Confirmed
<1>2. PICK r : r = work[ctl.inv].pending
  OBVIOUS
<1>3. r \in 1 .. Len(requests) /\ Len(requests) \in Nat
  BY <1>1, <1>2, OwnedBounds
<1>4. life' \in Lives /\ life'.st = "pending" /\ life'.inv = ctl.inv /\ life'.req = r
  <2>1. r \in Nat
    BY <1>3
  <2>2. NoResponse \in Bindings
    BY BlankRecords
  <2>3. PICK l : l = [st |-> "pending", inv |-> ctl.inv, req |-> r, response |-> NoResponse,
                      identity |-> TRUE, ahead |-> a]
    OBVIOUS
  <2>4. l \in Lives /\ l.st = "pending" /\ l.inv = ctl.inv /\ l.req = r
    BY <1>1, <2>1, <2>2, <2>3 DEF Lives
  <2> QED
    BY <1>2, <2>3, <2>4
<1>5. \/ life.st \in {"none", "empty"}
      \/ life.st = "pending" /\ life.req = r
  BY <1>2 DEF Importable
<1>6. r = Session.req
  <2>1. KeyKept(ctl.inv) /\ Session # NoSession
    BY <1>1, ConfirmedSession DEF SetupInv, DiskHolds, KeysKept, KeyKept
  <2>2. Session.phase # "cancelled" /\ ~work[ctl.inv].cancelled
    BY DEF Current
  <2> QED
    BY <1>2, <1>5, <2>1, <2>2 DEF KeyKept, Session
<1>7. LifeHolds'
  <2>1. /\ oper[ctl.inv].phase = "confirmed" /\ oper[ctl.inv].tx \in 1 .. Len(sealed)
        /\ sealed[oper[ctl.inv].tx] = r
    BY <1>1, <1>6, ConfirmedSession
  <2> QED
    BY <1>1, <1>3, <1>4, <2>1 DEF LifeHolds, Current, operVars
<1>8. \A j \in Invitations : j # life'.inv => life'.req \notin Mine(j)
  <2>1. r \in Mine(ctl.inv)
    BY <1>2, <1>3 DEF Mine
  <2> QED
    BY <1>1, <1>4, <2>1 DEF SetupInv, DiskHolds, RequestsOwned
<1>9. \A j \in Invitations : KeyKept(j)'
  BY <1>4, <1>5 DEF SetupInv, DiskHolds, KeysKept, KeyKept
<1>10. ReadyHolds' /\ AppliedStays
  BY <1>5 DEF ReadyHolds, Current, AppliedStays
<1>11. DiskHolds'
  BY <1>7, <1>8, <1>9, <1>10, LifeBecomes
<1> QED
  BY <1>4, <1>6, <1>11

\* commitPending: the lifecycle holds the session's request before the unlink.
LEMMA ImportPendingKeeps ==
  ASSUME SetupInv, ImportPending PROVE SetupInv'
<1>0. ctl # NoCtl /\ ctl.pc = "import"
  BY CommandUnder DEF ImportPending, AtCtl
<1>1. /\ ctl.inv \in Invitations /\ SetupTypeOK /\ Current
      /\ ctl.name \in {"confirm", "accept", "resume", "status"}
      /\ Session.phase \in IF ctl.name \in {"confirm", "accept"} THEN {"confirmed"}
                           ELSE IF ctl.name = "resume" THEN {"verified"} ELSE {"confirmed", "verified"}
      /\ ctl.name = "accept" => ctl.arg \in bound
  BY <1>0, CtlTyped DEF SetupInv, ControlHolds, NamesHold, WorkingHolds, PcsOf, StagePcs,
                        CommandNames, ImportPcs
<1>2. CtlSame /\ UNCHANGED <<selector, ready, work, requests, sealed>>
  BY DEF ImportPending
<1>3. Session.phase \in {"confirmed", "verified"} /\ Session.phase \in Confirmed
  BY <1>1 DEF Confirmed
<1>4. CASE Refuse /\ UNCHANGED life
  BY <1>0, <1>2, <1>4, RefuseKeeps DEF diskVars
<1>5. CASE work[ctl.inv].pending = 0 /\ Imported(Session.req)
  <2>1. CtlGoto(AfterImport) /\ UNCHANGED front /\ UNCHANGED diskVars
    BY <1>2, <1>5 DEF ImportPending, diskVars
  <2>2. AfterImport \in PcsOf(ctl.name)
    BY <1>1 DEF AfterImport, PcsOf
  <2>3. PICK pc : pc = AfterImport
    OBVIOUS
  <2>4. ctl'.pc = pc /\ ctl'.name = ctl.name /\ ctl'.inv = ctl.inv /\ ctl'.arg = ctl.arg
           => WorkingHolds' /\ ClosingHolds'
    BY <1>1, <1>2, <1>3, <2>1, <2>3
       DEF WorkingHolds, ClosingHolds, ImportPcs, Current, Session, diskVars, CtlSame, operVars,
           AfterImport
  <2> QED
    BY <1>0, <1>2, <2>1, <2>2, <2>3, <2>4, GotoKeeps
<1>6. CASE work[ctl.inv].pending # 0 /\ Importable(work[ctl.inv].pending)
  <2>1. /\ life' = [NoLife EXCEPT !.st = "pending", !.inv = ctl.inv,
                                    !.req = work[ctl.inv].pending, !.identity = TRUE]
        /\ IF work[ctl.inv].pending = Session.req
           THEN CtlGoto("unlink") /\ UNCHANGED front ELSE Refuse
    BY <1>6 DEF ImportPending
  <2>2. life' = [st |-> "pending", inv |-> ctl.inv, req |-> work[ctl.inv].pending,
                 response |-> NoResponse, identity |-> TRUE, ahead |-> FALSE]
    BY <2>1 DEF NoLife
  <2>3. DiskHolds' /\ life' \in Lives /\ life'.st = "pending" /\ life'.req = Session.req
    BY <1>0, <1>1, <1>2, <1>3, <1>6, <2>2, RequestImported DEF CtlSame
  <2>9. CtlGoto("unlink") /\ UNCHANGED front
    BY <2>1, <2>2, <2>3
  <2>4. "unlink" \in PcsOf(ctl.name)
    BY <1>1 DEF PcsOf
  <2>5. /\ NamesHold' /\ FrontHolds'
         /\ ctl' \in CtlRecords /\ ctl'.pc = "unlink" /\ ctl'.name = ctl.name /\ ctl'.inv = ctl.inv
         /\ ctl'.arg = ctl.arg
    BY <1>0, <1>2, <2>4, <2>9, GotoNames
  <2>6. DiskTyped'
    BY <1>1, <1>2, <2>3, <2>5, <2>9 DEF SetupTypeOK, DiskTyped
  <2>7. Current' /\ Session' = Session
    BY <1>1, <1>2, <2>5 DEF Current, Session
  <2>8. WorkingHolds' /\ ClosingHolds'
    BY <1>1, <1>2, <2>3, <2>5, <2>7
       DEF WorkingHolds, ClosingHolds, ImportPcs, CtlSame, operVars
  <2> QED
    BY <1>2, <2>3, <2>5, <2>6, <2>8, CommandKeeps DEF ControlHolds
<1> QED
  BY <1>4, <1>5, <1>6 DEF ImportPending

\* pending.json goes once the lifecycle holds its keys.
LEMMA UnlinkPendingKeeps ==
  ASSUME SetupInv, UnlinkPending PROVE SetupInv'
<1>0. ctl # NoCtl /\ ctl.pc = "unlink"
  BY CommandUnder DEF UnlinkPending, AtCtl
<1>1. /\ ctl.inv \in Invitations /\ SetupTypeOK /\ Current
      /\ ctl.name \in {"confirm", "accept", "resume", "status"}
      /\ Session.phase \in IF ctl.name \in {"confirm", "accept"} THEN {"confirmed"}
                           ELSE IF ctl.name = "resume" THEN {"verified"} ELSE {"confirmed", "verified"}
      /\ ctl.name = "accept" => ctl.arg \in bound
      /\ life.st = "pending" /\ life.req = Session.req
  BY <1>0, CtlTyped DEF SetupInv, ControlHolds, NamesHold, WorkingHolds, PcsOf, StagePcs,
                        CommandNames, ImportPcs
<1>2. /\ CtlSame /\ UNCHANGED <<selector, ready, requests, sealed, life, front>>
      /\ CtlGoto(AfterImport) /\ work' = [work EXCEPT ![ctl.inv].pending = 0]
  BY DEF UnlinkPending
<1>3. PICK pc : pc = AfterImport
  OBVIOUS
<1>4. pc \in PcsOf(ctl.name)
  BY <1>1, <1>3 DEF AfterImport, PcsOf
<1>5. /\ NamesHold' /\ FrontHolds'
      /\ ctl' \in CtlRecords /\ ctl'.pc = pc /\ ctl'.name = ctl.name /\ ctl'.inv = ctl.inv
      /\ ctl'.arg = ctl.arg
  BY <1>0, <1>2, <1>3, <1>4, GotoNames
<1>6. PICK i \in Invitations : i = ctl.inv
  BY <1>1
<1>7. KeyKept(i)'
  <2>1. work'[i].session = work[i].session
    BY <1>1, <1>2, <1>6 DEF SetupTypeOK, Works
  <2> QED
    BY <1>1, <1>2, <1>6, <2>1 DEF KeyKept, Session
<1>8. /\ DiskHolds' /\ WorkIs(i, work'[i]) /\ work'[i].session = work[i].session
      /\ work'[i].cancelled = work[i].cancelled
  BY <1>1, <1>2, <1>6, <1>7, PendingDropped DEF CtlSame, Current
<1>9. DiskTyped'
  BY <1>1, <1>2, <1>5, <1>8 DEF SetupTypeOK, DiskTyped, WorkIs
<1>10. Current' /\ Session' = Session
  BY <1>1, <1>2, <1>5, <1>6, <1>8 DEF Current, Session
<1>11. WorkingHolds' /\ ClosingHolds'
  BY <1>1, <1>2, <1>3, <1>5, <1>10
     DEF WorkingHolds, ClosingHolds, ImportPcs, AfterImport, Current, CtlSame, operVars
<1> QED
  BY <1>2, <1>5, <1>8, <1>9, <1>11, CommandKeeps DEF ControlHolds

\* Only a response bound to this session's transcript is kept.
LEMMA AcceptBoundResponseKeeps ==
  ASSUME SetupInv, AcceptBoundResponse PROVE SetupInv'
<1>0. ctl # NoCtl /\ ctl.pc = "bound"
  BY CommandUnder DEF AcceptBoundResponse, AtCtl
<1>1. /\ ctl.inv \in Invitations /\ SetupTypeOK /\ Current /\ ctl.name = "accept"
      /\ Session.phase = "confirmed" /\ ctl.arg \in bound /\ ctl.arg \in Bindings
  BY <1>0, CtlTyped DEF SetupInv, ControlHolds, NamesHold, WorkingHolds, PcsOf, StagePcs, CommandNames
<1>2. CtlSame /\ UNCHANGED <<selector, ready, requests, sealed, life>>
  BY DEF AcceptBoundResponse
<1>3. CASE ctl.arg.tx # Session.tx
  BY <1>0, <1>2, <1>3, RefuseKeeps DEF AcceptBoundResponse, diskVars
<1>4. CASE ctl.arg.tx = Session.tx
  <2>1. Advance("verified", ctl.arg) /\ CtlGoto("apply") /\ UNCHANGED front
    BY <1>4 DEF AcceptBoundResponse
  <2>2. "apply" \in PcsOf(ctl.name) /\ "verified" \in Phases
    BY <1>1 DEF PcsOf, Phases
  <2>3. /\ NamesHold' /\ FrontHolds'
        /\ ctl' \in CtlRecords /\ ctl'.pc = "apply" /\ ctl'.name = ctl.name /\ ctl'.inv = ctl.inv
        /\ ctl'.arg = ctl.arg
    BY <1>0, <1>2, <2>1, <2>2, GotoNames
  <2>4. PICK b \in Bindings : b = ctl.arg
    BY <1>1
  <2>5. Advance("verified", b) /\ b \in bound /\ b.tx = Session.tx
    BY <1>1, <1>4, <2>1, <2>4
  <2>6. oper[ctl.inv] = [phase |-> "confirmed", tx |-> Session.tx] /\ ReadyHolds'
    BY <1>0, <1>1, <1>2, ConfirmedSession DEF Confirmed, ReadyHolds, Current
  <2>7. /\ DiskHolds' /\ WorkIs(ctl.inv, work'[ctl.inv])
        /\ work'[ctl.inv].session.phase = "verified"
        /\ work'[ctl.inv].cancelled = work[ctl.inv].cancelled
    BY <1>0, <1>1, <1>2, <2>2, <2>5, <2>6, SessionAdvances DEF CtlSame
  <2>8. DiskTyped'
    BY <1>1, <1>2, <2>1, <2>3, <2>7 DEF SetupTypeOK, DiskTyped, WorkIs
  <2>9. Current' /\ Session'.phase = "verified"
    BY <1>1, <1>2, <2>3, <2>7 DEF Current, Session
  <2>10. WorkingHolds' /\ ClosingHolds'
    BY <1>1, <1>2, <2>3, <2>9 DEF WorkingHolds, ClosingHolds, ImportPcs, CtlSame, operVars
  <2> QED
    BY <1>2, <2>3, <2>7, <2>8, <2>10, CommandKeeps DEF ControlHolds
<1> QED
  BY <1>3, <1>4

\* The lifecycle root after the response, and after the one-time identity is gone.
LEMMA LifeRecord ==
  ASSUME SetupTypeOK, NEW st \in {"applied", "cancelled"}, NEW b \in Bindings, NEW id \in BOOLEAN,
         NEW a \in BOOLEAN,
         life' = [st |-> st, inv |-> life.inv, req |-> life.req, response |-> b,
                  identity |-> id, ahead |-> a]
  PROVE  /\ life' \in Lives /\ life'.st = st /\ life'.inv = life.inv /\ life'.req = life.req
         /\ life'.response = b /\ life'.identity = id
BY DEF SetupTypeOK, Lives

\* The response of the confirmed session becomes the active one.
LEMMA ResponseApplied ==
  ASSUME SetupInv, ctl # NoCtl, Current, Session.phase = "verified",
         life.st = "pending", life.req = Session.req,
         NEW id \in BOOLEAN, NEW a \in BOOLEAN,
         life' = [st |-> "applied", inv |-> life.inv, req |-> life.req,
                  response |-> Session.response, identity |-> id, ahead |-> a],
         UNCHANGED <<operVars, selector, ready, work, requests, sealed>>
  PROVE  /\ DiskHolds' /\ life' \in Lives /\ life'.st = "applied" /\ life'.req = Session.req
         /\ life'.inv = ctl.inv /\ life'.response = Session.response
<1>1. SetupTypeOK /\ Session.response \in Bindings
  BY CtlTyped DEF SetupInv, Sessions
<1>2. /\ life' \in Lives /\ life'.st = "applied" /\ life'.inv = life.inv /\ life'.req = life.req
      /\ life'.response = Session.response
  BY <1>1, LifeRecord
<1>3. LifeHolds /\ life.inv = ctl.inv
  BY DEF SetupInv, DiskHolds, LifeHolds, Current
<1>4. /\ Session.response \in bound /\ Session.response.tx = Session.tx
      /\ oper[ctl.inv].tx = Session.tx
  BY ConfirmedSession DEF Confirmed
<1>5. LifeHolds'
  BY <1>2, <1>3, <1>4 DEF LifeHolds, operVars
<1>6. ReadyHolds' /\ AppliedStays
  BY DEF ReadyHolds, Current, AppliedStays
<1>7. DiskHolds'
  BY <1>2, <1>5, <1>6, LifeGoesOn
<1> QED
  BY <1>2, <1>3, <1>7

\* The one-time identity of the applied request is removed.
LEMMA IdentityRemoved ==
  ASSUME SetupInv, life.st = "applied", life' = [life EXCEPT !.identity = FALSE],
         UNCHANGED <<operVars, selector, work, requests, sealed>>, ReadyHolds',
         ready # NoReady => ready' # NoReady
  PROVE  /\ DiskHolds' /\ life' \in Lives /\ life'.st = "applied" /\ life'.req = life.req
         /\ life'.inv = life.inv /\ life'.response = life.response /\ ~life'.identity
<1>1. /\ life' \in Lives /\ life'.st = "applied" /\ life'.req = life.req
      /\ life'.inv = life.inv /\ life'.response = life.response /\ ~life'.identity
  BY DEF SetupInv, SetupTypeOK, Lives
<1>2. LifeHolds'
  BY <1>1 DEF SetupInv, DiskHolds, LifeHolds, operVars
<1>3. AppliedStays
  BY <1>1 DEF AppliedStays
<1>4. DiskHolds'
  BY <1>1, <1>2, <1>3, LifeGoesOn
<1> QED
  BY <1>1, <1>4

\* applyVerified applies the session's response, or reconciles it.
LEMMA ApplyVerifiedKeeps ==
  ASSUME SetupInv, ApplyVerified PROVE SetupInv'
<1>0. ctl # NoCtl /\ ctl.pc = "apply"
  BY CommandUnder DEF ApplyVerified, AtCtl
<1>1. /\ ctl.inv \in Invitations /\ SetupTypeOK /\ Current /\ ctl.name \in {"accept", "resume"}
      /\ Session.phase = "verified" /\ (ctl.name = "accept" => ctl.arg \in bound)
  BY <1>0, CtlTyped DEF SetupInv, ControlHolds, NamesHold, WorkingHolds, PcsOf, StagePcs, CommandNames
<1>2. CtlSame /\ UNCHANGED <<selector, ready, work, requests, sealed>>
  BY DEF ApplyVerified
<1>3. CASE Refuse /\ UNCHANGED life
  BY <1>0, <1>2, <1>3, RefuseKeeps DEF diskVars
<1>4. ASSUME CtlGoto("applied"), UNCHANGED front, DiskHolds', life' \in Lives, life'.st = "applied",
             life'.req = Session.req, life'.inv = ctl.inv, life'.response = Session.response
      PROVE  SetupInv'
  <2>1. "applied" \in PcsOf(ctl.name)
    BY <1>1 DEF PcsOf
  <2>2. /\ NamesHold' /\ FrontHolds'
        /\ ctl' \in CtlRecords /\ ctl'.pc = "applied" /\ ctl'.name = ctl.name /\ ctl'.inv = ctl.inv
        /\ ctl'.arg = ctl.arg
    BY <1>0, <1>2, <1>4, <2>1, GotoNames
  <2>3. DiskTyped'
    BY <1>1, <1>2, <1>4, <2>2 DEF SetupTypeOK, DiskTyped
  <2>4. Current' /\ Session' = Session
    BY <1>1, <1>2, <2>2 DEF Current, Session
  <2>5. WorkingHolds' /\ ClosingHolds'
    BY <1>1, <1>2, <1>4, <2>2, <2>4 DEF WorkingHolds, ClosingHolds, ImportPcs, CtlSame, operVars
  <2> QED
    BY <1>2, <1>4, <2>2, <2>3, <2>5, CommandKeeps DEF ControlHolds
<1>5. CASE /\ life.st = "pending" /\ life.req = Session.req
           /\ life' = [life EXCEPT !.st = "applied", !.response = Session.response,
                                   !.identity = FALSE]
           /\ CtlGoto("applied") /\ UNCHANGED front
  <2>1. life' = [st |-> "applied", inv |-> life.inv, req |-> life.req,
                 response |-> Session.response, identity |-> FALSE, ahead |-> life.ahead]
    BY <1>1, <1>5 DEF SetupTypeOK, Lives
  <2>2. life.ahead \in BOOLEAN
    BY <1>1 DEF SetupTypeOK, Lives
  <2>3. /\ DiskHolds' /\ life' \in Lives /\ life'.st = "applied" /\ life'.req = Session.req
        /\ life'.inv = ctl.inv /\ life'.response = Session.response
    BY <1>0, <1>1, <1>2, <1>5, <2>1, <2>2, ResponseApplied DEF CtlSame
  <2> QED
    BY <1>4, <1>5, <2>3
<1>6. CASE /\ life.st = "applied" /\ life.response = Session.response /\ life.req = Session.req
           /\ life' = [life EXCEPT !.identity = FALSE] /\ CtlGoto("applied") /\ UNCHANGED front
  <2>1. life.inv = ctl.inv
    BY <1>1, <1>6 DEF SetupInv, DiskHolds, LifeHolds, Current
  <2>2. ReadyHolds' /\ ready = NoReady
    BY <1>1, <1>2 DEF ReadyHolds, Current
  <2>3. /\ DiskHolds' /\ life' \in Lives /\ life'.st = "applied" /\ life'.req = life.req
        /\ life'.inv = life.inv /\ life'.response = life.response
    BY <1>2, <1>6, <2>2, IdentityRemoved DEF CtlSame
  <2> QED
    BY <1>4, <1>6, <2>1, <2>3
<1> QED
  BY <1>3, <1>5, <1>6 DEF ApplyVerified

\* The session records what the lifecycle already is.
LEMMA RecordAppliedKeeps ==
  ASSUME SetupInv, RecordApplied PROVE SetupInv'
<1>0. ctl # NoCtl /\ ctl.pc = "applied"
  BY CommandUnder DEF RecordApplied, AtCtl
<1>1. /\ ctl.inv \in Invitations /\ SetupTypeOK /\ Current /\ ctl.name \in {"accept", "resume"}
      /\ Session.phase = "verified" /\ (ctl.name = "accept" => ctl.arg \in bound)
      /\ life.st = "applied" /\ life.req = Session.req /\ life.inv = ctl.inv
      /\ life.response = Session.response /\ Session.response \in Bindings
  BY <1>0, CtlTyped DEF SetupInv, ControlHolds, NamesHold, WorkingHolds, PcsOf, StagePcs,
                        CommandNames, Sessions
<1>2. /\ CtlSame /\ UNCHANGED <<selector, ready, requests, sealed, life, front>>
      /\ Advance("applied", Session.response) /\ CtlGoto("reply")
  BY DEF RecordApplied
<1>3. "reply" \in PcsOf(ctl.name) /\ "applied" \in Phases
  BY <1>1 DEF PcsOf, Phases
<1>4. /\ NamesHold' /\ FrontHolds'
      /\ ctl' \in CtlRecords /\ ctl'.pc = "reply" /\ ctl'.name = ctl.name /\ ctl'.inv = ctl.inv
      /\ ctl'.arg = ctl.arg
  BY <1>0, <1>2, <1>3, GotoNames
<1>5. PICK b \in Bindings : b = Session.response
  BY <1>1
<1>6. /\ oper[ctl.inv] = [phase |-> "confirmed", tx |-> Session.tx] /\ ReadyHolds'
      /\ b \in bound /\ b.tx = Session.tx /\ Advance("applied", b)
  BY <1>0, <1>1, <1>2, <1>5, ConfirmedSession DEF Confirmed, ReadyHolds, Current
<1>7. /\ DiskHolds' /\ WorkIs(ctl.inv, work'[ctl.inv])
      /\ work'[ctl.inv].session.phase = "applied"
  BY <1>0, <1>1, <1>2, <1>3, <1>5, <1>6, SessionAdvances DEF CtlSame
<1>8. DiskTyped'
  BY <1>1, <1>2, <1>4, <1>7 DEF SetupTypeOK, DiskTyped, WorkIs
<1>9. ctl'.inv = selector' /\ Session'.phase = "applied"
  BY <1>1, <1>2, <1>4, <1>7 DEF Current, Session
<1>10. WorkingHolds' /\ ClosingHolds'
  BY <1>1, <1>2, <1>4, <1>9 DEF WorkingHolds, ClosingHolds, ImportPcs, CtlSame, operVars
<1> QED
  BY <1>2, <1>4, <1>7, <1>8, <1>10, CommandKeeps DEF ControlHolds

-----------------------------------------------------------------------------
(* The commands that complete, clean and cancel a setup. *)

\* CompleteReady writes the receipt for the applied session, one generation ahead.
LEMMA ReadyOpenKeeps ==
  ASSUME SetupInv, NEW probe \in BOOLEAN, ReadyOpen(probe) PROVE SetupInv'
<1>0. ctl # NoCtl /\ ctl.pc = "readying"
  BY CommandUnder DEF ReadyOpen, AtCtl
<1>1. /\ ctl.inv \in Invitations /\ SetupTypeOK /\ ctl.name = "readying" /\ ctl.inv = selector
      /\ Session \in Sessions
  BY <1>0, CtlTyped DEF SetupInv, ControlHolds, NamesHold, WorkingHolds, PcsOf, StagePcs, CommandNames
<1>2. CtlSame
  BY DEF ReadyOpen
<1>3. CASE Refuse /\ UNCHANGED diskVars
  BY <1>0, <1>2, <1>3, RefuseKeeps
<1>4. CASE Reply("ready") /\ UNCHANGED diskVars
  BY <1>0, <1>2, <1>4, ReplyKeeps DEF Phases
<1>5. CASE /\ ready = NoReady /\ Session.phase = "applied" /\ life.st = "applied"
           /\ life' = [life EXCEPT !.identity = FALSE]
           /\ UNCHANGED <<selector, work, requests, sealed>>
  <2>1. life.inv = ctl.inv /\ life.req = Session.req
    BY <1>0, <1>5, ConfirmedSession DEF Confirmed
  <2>2. CASE Refuse /\ UNCHANGED ready
    <3>1. ControlHolds' /\ ctl' = NoCtl /\ front' \in Fronts
      BY <1>0, <1>5, <2>2, RefuseEnds
    <3>2. DiskHolds' /\ life' \in Lives
      BY <1>2, <1>5, <2>2, IdentityRemoved DEF ReadyHolds, CtlSame
    <3>3. DiskTyped'
      BY <1>1, <1>5, <2>2, <3>1, <3>2 DEF SetupTypeOK, DiskTyped
    <3> QED
      BY <1>2, <3>1, <3>2, <3>3, CommandKeeps
  <2>3. CASE /\ ready' = [inv |-> ctl.inv, gen |-> Session.gen + 1, req |-> Session.req,
                          cleaned |-> FALSE]
             /\ CtlGoto("advance") /\ UNCHANGED front
    <3>1. /\ ready' \in Receipts /\ ready'.inv = ctl.inv /\ ready'.gen = Session.gen + 1
          /\ ready'.req = Session.req /\ ~ready'.cleaned
      BY <1>1, <2>3 DEF Receipts, Sessions
    <3>2. Retirable(ready.inv)'
      BY <1>5, <3>1 DEF Retirable, Session
    <3>3. /\ life'.st = "applied" /\ life'.inv = ctl.inv /\ life'.req = Session.req
          /\ ~life'.identity
      BY <1>1, <1>5, <2>1 DEF SetupTypeOK, Lives
    <3>4. ReadyHolds'
      BY <1>1, <1>5, <3>1, <3>2, <3>3 DEF ReadyHolds
    <3>5. DiskHolds' /\ life' \in Lives
      BY <1>2, <1>5, <3>4, IdentityRemoved DEF CtlSame
    <3>6. "advance" \in PcsOf(ctl.name)
      BY <1>1 DEF PcsOf
    <3>7. /\ NamesHold' /\ FrontHolds'
          /\ ctl' \in CtlRecords /\ ctl'.pc = "advance" /\ ctl'.name = ctl.name /\ ctl'.inv = ctl.inv
      BY <1>0, <1>5, <2>3, <3>6, GotoNames
    <3>8. DiskTyped'
      BY <1>1, <1>5, <2>3, <3>1, <3>5, <3>7 DEF SetupTypeOK, DiskTyped
    <3>9. Session' = Session /\ ctl'.inv = selector'
      BY <1>1, <1>5, <3>7 DEF Session
    <3>10. WorkingHolds' /\ ClosingHolds'
      BY <1>1, <1>5, <2>3, <3>7, <3>9 DEF WorkingHolds, ClosingHolds, ImportPcs
    <3> QED
      BY <1>2, <3>5, <3>7, <3>8, <3>10, CommandKeeps DEF ControlHolds
  <2> QED
    BY <1>3, <1>4, <1>5, <2>2, <2>3 DEF ReadyOpen
<1> QED
  BY <1>3, <1>4, <1>5 DEF ReadyOpen

\* The session reaches the generation its receipt names.
LEMMA ReadyAdvanceKeeps ==
  ASSUME SetupInv, ReadyAdvance PROVE SetupInv'
<1>0. ctl # NoCtl /\ ctl.pc = "advance"
  BY CommandUnder DEF ReadyAdvance, AtCtl
<1>1. /\ ctl.inv \in Invitations /\ SetupTypeOK /\ ctl.inv = selector /\ Session.phase = "applied"
      /\ ready = [inv |-> ctl.inv, gen |-> Session.gen + 1, req |-> Session.req, cleaned |-> FALSE]
      /\ Session.response \in Bindings
  BY <1>0, CtlTyped DEF SetupInv, ControlHolds, ClosingHolds, Sessions
<1>2. /\ CtlSame /\ UNCHANGED <<selector, ready, requests, sealed, life>>
      /\ Advance("ready", Session.response) /\ Reply("ready")
  BY DEF ReadyAdvance
<1>3. PICK b \in Bindings : b = Session.response
  BY <1>1
<1>4. "ready" \in Phases /\ Advance("ready", b)
  BY <1>2, <1>3 DEF Phases
<1>5. /\ oper[ctl.inv] = [phase |-> "confirmed", tx |-> Session.tx]
      /\ b \in bound /\ b.tx = Session.tx
      /\ life.st = "applied" /\ life.inv = ctl.inv /\ life.req = Session.req /\ life.response = b
  BY <1>0, <1>1, <1>3, ConfirmedSession DEF Confirmed
<1>6. ReadyHolds'
  <2>1. /\ work'[ctl.inv].session.phase = "ready" /\ work'[ctl.inv].session.gen = Session.gen + 1
        /\ work'[ctl.inv].session.req = Session.req
    BY <1>0, <1>1, <1>4, Advances
  <2>2. ready.inv = ctl.inv /\ ready.gen = Session.gen + 1 /\ ready.req = Session.req /\ ~ready.cleaned
    BY <1>1
  <2>3. Retirable(ready.inv)'
    BY <1>2, <2>1, <2>2 DEF Retirable
  <2>4. ready # NoReady
    BY <1>1, <2>2, BlankRecords, SetupAssumption DEF None
  <2> QED
    BY <1>2, <2>2, <2>3, <2>4 DEF SetupInv, DiskHolds, ReadyHolds
<1>7. DiskHolds' /\ WorkIs(ctl.inv, work'[ctl.inv])
  BY <1>0, <1>1, <1>2, <1>4, <1>5, <1>6, SessionAdvances DEF CtlSame
<1>8. ControlHolds' /\ ctl' = NoCtl /\ front' \in Fronts
  BY <1>0, <1>2, <1>4, ReplyEnds
<1>9. DiskTyped'
  BY <1>1, <1>2, <1>7, <1>8 DEF SetupTypeOK, DiskTyped, WorkIs
<1> QED
  BY <1>2, <1>7, <1>8, <1>9, CommandKeeps

\* The workspace of the receipt loses its session, then everything.
LEMMA WorkspaceCleaned ==
  ASSUME SetupInv, ready # NoReady, ~ready.cleaned, NEW w \in Works,
         work' = [work EXCEPT ![ready.inv] = w], w.session = NoSession,
         w.pending \in {0, work[ready.inv].pending},
         UNCHANGED <<operVars, requests, sealed, life, selector, ready>>
  PROVE  DiskHolds' /\ WorkIs(ready.inv, w) /\ ready.inv \in Invitations
<1>1. ready.inv \in Invitations
  BY DEF SetupInv, DiskHolds, ReadyHolds
<1>2. PICK i \in Invitations : i = ready.inv
  BY <1>1
<1>3. WorkIs(i, w) /\ work'[i] = w /\ WorkIs(i, work'[i])
  BY <1>2 DEF SetupInv, SetupTypeOK, WorkIs
<1>4. SessionHolds(i) /\ Len(requests) \in Nat
  BY <1>2, OwnedBounds DEF SetupInv, DiskHolds, SessionsHold
<1>5. SessionHolds(i)'
  BY <1>2, <1>3, <1>4, BlankRecords DEF SessionHolds, Confirmed
<1>6. Mine(i)' \subseteq Mine(i) /\ KeyKept(i)'
  BY <1>2, <1>3, BlankRecords DEF Mine, KeyKept
<1>7. SessionsHold' /\ RequestsOwned' /\ KeysKept' /\ LifeHolds'
  BY <1>3, <1>5, <1>6, OneWorkspace, LifeSame, SealedSame
<1>8. ReadyHolds'
  BY <1>2, <1>3 DEF SetupInv, DiskHolds, ReadyHolds, Retirable
<1> QED
  BY <1>2, <1>3, <1>7, <1>8 DEF DiskHolds

\* RetireTargetStore removes the exact session of the receipt.
LEMMA CleanSessionKeeps ==
  ASSUME SetupInv, CleanSession PROVE SetupInv'
<1>0. ctl # NoCtl /\ ctl.pc = "clean"
  BY CommandUnder DEF CleanSession, AtCtl
<1>1. SetupTypeOK /\ ctl.name = "clean"
  BY <1>0, CtlTyped DEF SetupInv, ControlHolds, NamesHold, PcsOf, StagePcs, CommandNames
<1>2. CtlSame /\ UNCHANGED <<selector, ready, requests, sealed, life>>
  BY DEF CleanSession
<1>3. CASE Refuse /\ UNCHANGED work
  BY <1>0, <1>2, <1>3, RefuseKeeps DEF diskVars
<1>4. CASE Reply("cleaned") /\ UNCHANGED work
  BY <1>0, <1>2, <1>4, ReplyKeeps DEF diskVars
<1>5. CASE /\ ready # NoReady /\ ~ready.cleaned
           /\ work' = [work EXCEPT ![ready.inv].session = NoSession]
           /\ CtlGoto("cleanWork") /\ UNCHANGED front
  <2>1. ready.inv \in Invitations /\ work[ready.inv] \in Works
    BY <1>1, <1>5 DEF SetupInv, DiskHolds, ReadyHolds, SetupTypeOK
  <2>2. PICK w : w = [work[ready.inv] EXCEPT !.session = NoSession]
    OBVIOUS
  <2>3. w \in Works /\ w.session = NoSession /\ w.pending = work[ready.inv].pending
    BY <2>1, <2>2, BlankRecords DEF Works
  <2>4. work' = [work EXCEPT ![ready.inv] = w]
    BY <1>5, <2>2
  <2>5. DiskHolds' /\ WorkIs(ready.inv, w)
    BY <1>2, <1>5, <2>3, <2>4, WorkspaceCleaned DEF CtlSame
  <2>6. "cleanWork" \in PcsOf(ctl.name)
    BY <1>1 DEF PcsOf
  <2>7. /\ NamesHold' /\ FrontHolds'
        /\ ctl' \in CtlRecords /\ ctl'.pc = "cleanWork" /\ ctl'.name = ctl.name /\ ctl'.inv = ctl.inv
    BY <1>0, <1>2, <1>5, <2>6, GotoNames
  <2>8. DiskTyped'
    BY <1>1, <1>2, <1>5, <2>5, <2>7 DEF SetupTypeOK, DiskTyped, WorkIs
  <2>9. WorkingHolds' /\ ClosingHolds'
    BY <1>1, <1>2, <1>5, <2>3, <2>5, <2>7 DEF WorkingHolds, ClosingHolds, ImportPcs, WorkIs
  <2> QED
    BY <1>2, <2>5, <2>7, <2>8, <2>9, CommandKeeps DEF ControlHolds
<1> QED
  BY <1>3, <1>4, <1>5 DEF CleanSession

\* The rest of the workspace is removed.
LEMMA CleanWorkspaceKeeps ==
  ASSUME SetupInv, CleanWorkspace PROVE SetupInv'
<1>0. ctl # NoCtl /\ ctl.pc = "cleanWork"
  BY CommandUnder DEF CleanWorkspace, AtCtl
<1>1. SetupTypeOK /\ ctl.name = "clean" /\ ready # NoReady /\ ~ready.cleaned
  BY <1>0, CtlTyped DEF SetupInv, ControlHolds, NamesHold, ClosingHolds, PcsOf, StagePcs, CommandNames
<1>2. /\ CtlSame /\ UNCHANGED <<selector, ready, requests, sealed, life, front>>
      /\ CtlGoto("cleanSelector") /\ work' = [work EXCEPT ![ready.inv] = NoWork]
  BY DEF CleanWorkspace
<1>3. DiskHolds' /\ WorkIs(ready.inv, NoWork)
  BY <1>1, <1>2, BlankRecords, WorkspaceCleaned DEF CtlSame
<1>4. "cleanSelector" \in PcsOf(ctl.name)
  BY <1>1 DEF PcsOf
<1>5. /\ NamesHold' /\ FrontHolds'
      /\ ctl' \in CtlRecords /\ ctl'.pc = "cleanSelector" /\ ctl'.name = ctl.name /\ ctl'.inv = ctl.inv
  BY <1>0, <1>2, <1>4, GotoNames
<1>6. DiskTyped'
  BY <1>1, <1>2, <1>3, <1>5 DEF SetupTypeOK, DiskTyped, WorkIs
<1>7. WorkingHolds' /\ ClosingHolds'
  BY <1>1, <1>2, <1>3, <1>5, BlankRecords DEF WorkingHolds, ClosingHolds, ImportPcs, WorkIs
<1> QED
  BY <1>2, <1>3, <1>5, <1>6, <1>7, CommandKeeps DEF ControlHolds

\* current.json is removed; the receipt still names the lifecycle's invitation.
LEMMA CleanSelectorKeeps ==
  ASSUME SetupInv, CleanSelector PROVE SetupInv'
<1>0. ctl # NoCtl /\ ctl.pc = "cleanSelector"
  BY CommandUnder DEF CleanSelector, AtCtl
<1>1. /\ SetupTypeOK /\ ctl.name = "clean" /\ ctl.who = "front" /\ ready # NoReady /\ ~ready.cleaned
      /\ work[ready.inv] = NoWork
  BY <1>0, CtlTyped DEF SetupInv, ControlHolds, NamesHold, ClosingHolds, PcsOf, StagePcs, CommandNames
<1>2. /\ CtlSame /\ UNCHANGED <<ready, work, requests, sealed, life, front>>
      /\ CtlGoto("cleanReceipt") /\ selector' = None
  BY DEF CleanSelector
<1>3. DiskHolds'
  <2>1. SessionsHold' /\ RequestsOwned' /\ KeysKept'
    BY <1>2 DEF SetupInv, DiskHolds, SessionsHold, SessionHolds, RequestsOwned, Mine, KeysKept,
                CtlSame, operVars
  <2>2. LifeHolds'
    BY <1>1, <1>2 DEF SetupInv, DiskHolds, LifeHolds, CtlSame, operVars
  <2>3. ReadyHolds'
    BY <1>1, <1>2 DEF SetupInv, DiskHolds, ReadyHolds, Retirable
  <2> QED
    BY <2>1, <2>2, <2>3 DEF DiskHolds
<1>4. "cleanReceipt" \in PcsOf(ctl.name)
  BY <1>1 DEF PcsOf
<1>5. /\ NamesHold' /\ FrontHolds'
      /\ ctl' \in CtlRecords /\ ctl'.pc = "cleanReceipt" /\ ctl'.name = ctl.name /\ ctl'.inv = ctl.inv
  BY <1>0, <1>1, <1>2, <1>4, GotoNames
<1>6. DiskTyped'
  BY <1>1, <1>2, <1>5 DEF SetupTypeOK, DiskTyped
<1>7. WorkingHolds' /\ ClosingHolds'
  BY <1>1, <1>2, <1>5, BlankRecords DEF WorkingHolds, ClosingHolds, ImportPcs
<1> QED
  BY <1>2, <1>3, <1>5, <1>6, <1>7, CommandKeeps DEF ControlHolds

\* The redacted receipt is written when nothing else is left.
LEMMA CleanReceiptKeeps ==
  ASSUME SetupInv, CleanReceipt PROVE SetupInv'
<1>0. ctl # NoCtl /\ ctl.pc = "cleanReceipt"
  BY CommandUnder DEF CleanReceipt, AtCtl
<1>1. /\ SetupTypeOK /\ ready # NoReady /\ work[ready.inv] = NoWork /\ selector = None
  BY <1>0 DEF SetupInv, ControlHolds, ClosingHolds
<1>2. /\ CtlSame /\ UNCHANGED <<selector, work, requests, sealed, life>>
      /\ Reply("cleaned") /\ ready' = [ready EXCEPT !.cleaned = TRUE]
  BY DEF CleanReceipt
<1>3. /\ ready' \in Receipts /\ ready'.inv = ready.inv /\ ready'.req = ready.req /\ ready'.cleaned
      /\ ready.inv \in Invitations
  BY <1>1, <1>2 DEF SetupInv, DiskHolds, ReadyHolds, SetupTypeOK, Receipts
<1>4. DiskHolds'
  <2>1. SessionsHold' /\ RequestsOwned' /\ KeysKept'
    BY <1>2 DEF SetupInv, DiskHolds, SessionsHold, SessionHolds, RequestsOwned, Mine, KeysKept,
                CtlSame, operVars
  <2>2. ready' # NoReady
    BY <1>3, BlankRecords, SetupAssumption DEF None
  <2>3. LifeHolds'
    BY <1>2, <2>2 DEF SetupInv, DiskHolds, LifeHolds, CtlSame, operVars
  <2>4. ReadyHolds'
    BY <1>1, <1>2, <1>3 DEF SetupInv, DiskHolds, ReadyHolds
  <2> QED
    BY <2>1, <2>3, <2>4 DEF DiskHolds
<1>5. ControlHolds' /\ ctl' = NoCtl /\ front' \in Fronts
  BY <1>0, <1>2, ReplyEnds
<1>6. DiskTyped'
  BY <1>1, <1>2, <1>3, <1>5 DEF SetupTypeOK, DiskTyped
<1> QED
  BY <1>2, <1>4, <1>5, <1>6, CommandKeeps

\* Cancel marks a setup that is not applied.
LEMMA CancelMarkKeeps ==
  ASSUME SetupInv, CancelMark PROVE SetupInv'
<1>0. ctl # NoCtl /\ ctl.pc = "cancel"
  BY CommandUnder DEF CancelMark, AtCtl
<1>1. ctl.inv \in Invitations /\ SetupTypeOK /\ ctl.name = "cancel" /\ ctl.inv = selector
  BY <1>0, CtlTyped DEF SetupInv, ControlHolds, NamesHold, ClosingHolds, PcsOf, StagePcs, CommandNames
<1>2. CtlSame /\ UNCHANGED <<selector, ready, requests, sealed, life>>
  BY DEF CancelMark
<1>3. CASE Refuse /\ UNCHANGED work
  BY <1>0, <1>2, <1>3, RefuseKeeps DEF diskVars
<1>4. CASE /\ life.st # "applied" /\ work' = [work EXCEPT ![ctl.inv].cancelled = TRUE]
           /\ CtlGoto("cancelSession") /\ UNCHANGED front
  <2>1. /\ DiskHolds' /\ WorkIs(ctl.inv, work'[ctl.inv]) /\ work'[ctl.inv].cancelled
    BY <1>1, <1>2, <1>4, NotApplied, SetCancelled DEF CtlSame
  <2>2. "cancelSession" \in PcsOf(ctl.name)
    BY <1>1 DEF PcsOf
  <2>3. /\ NamesHold' /\ FrontHolds'
        /\ ctl' \in CtlRecords /\ ctl'.pc = "cancelSession" /\ ctl'.name = ctl.name
        /\ ctl'.inv = ctl.inv
    BY <1>0, <1>2, <1>4, <2>2, GotoNames
  <2>4. DiskTyped'
    BY <1>1, <1>2, <1>4, <2>1, <2>3 DEF SetupTypeOK, DiskTyped, WorkIs
  <2>5. WorkingHolds' /\ ClosingHolds'
    BY <1>1, <1>2, <1>4, <2>1, <2>3 DEF WorkingHolds, ClosingHolds, ImportPcs
  <2> QED
    BY <1>2, <2>1, <2>3, <2>4, <2>5, CommandKeeps DEF ControlHolds
<1> QED
  BY <1>3, <1>4 DEF CancelMark

\* What every step of a cancellation after the mark knows.
LEMMA Cancelling ==
  ASSUME SetupInv, ctl # NoCtl, ctl.pc \in {"cancelSession", "cancelPending", "cancelUnlink"}
  PROVE  /\ ctl.inv \in Invitations /\ SetupTypeOK /\ ctl.name = "cancel" /\ ctl.inv = selector
         /\ work[ctl.inv].cancelled /\ life.st # "applied" /\ ready = NoReady
BY CtlTyped, NotApplied DEF SetupInv, ControlHolds, NamesHold, ClosingHolds, PcsOf, StagePcs,
   CommandNames

\* The session of the marked setup is cancelled.
LEMMA CancelSessionKeeps ==
  ASSUME SetupInv, CancelSession PROVE SetupInv'
<1>0. ctl # NoCtl /\ ctl.pc = "cancelSession"
  BY CommandUnder DEF CancelSession, AtCtl
<1>1. /\ ctl.inv \in Invitations /\ SetupTypeOK /\ ctl.name = "cancel" /\ ctl.inv = selector
      /\ work[ctl.inv].cancelled /\ life.st # "applied" /\ ready = NoReady
  BY <1>0, Cancelling
<1>2. /\ CtlSame /\ UNCHANGED <<selector, ready, requests, sealed, life, front>>
      /\ CtlGoto("cancelPending")
  BY DEF CancelSession
<1>3. "cancelPending" \in PcsOf(ctl.name) /\ "cancelled" \in Phases /\ NoResponse \in Bindings
      /\ ReadyHolds'
  BY <1>1, <1>2, BlankRecords DEF PcsOf, Phases, ReadyHolds
<1>4. /\ NamesHold' /\ FrontHolds'
      /\ ctl' \in CtlRecords /\ ctl'.pc = "cancelPending" /\ ctl'.name = ctl.name
      /\ ctl'.inv = ctl.inv
  BY <1>0, <1>2, <1>3, GotoNames
<1>5. /\ DiskHolds' /\ work' \in [Invitations -> Works]
      /\ work'[ctl.inv].cancelled = work[ctl.inv].cancelled
  <2>1. CASE UNCHANGED work
    BY <1>1, <1>2, <2>1, DiskSame DEF SetupTypeOK, CtlSame, diskVars
  <2>2. CASE /\ Loads(ctl.inv, ctl.now) /\ Session.phase \notin {"cancelled", "applied", "ready"}
             /\ Advance("cancelled", NoResponse)
    <3>1. Session.phase # "none"
      BY <1>1, <2>2 DEF Loads, Session, SetupInv, DiskHolds, SessionsHold, SessionHolds
    <3> QED
      BY <1>0, <1>2, <1>3, <2>2, <3>1, SessionAdvances DEF CtlSame, Confirmed, WorkIs
  <2> QED
    BY <2>1, <2>2 DEF CancelSession
<1>6. DiskTyped'
  BY <1>1, <1>2, <1>4, <1>5 DEF SetupTypeOK, DiskTyped
<1>7. WorkingHolds' /\ ClosingHolds'
  BY <1>1, <1>2, <1>4, <1>5 DEF WorkingHolds, ClosingHolds, ImportPcs
<1> QED
  BY <1>2, <1>4, <1>5, <1>6, <1>7, CommandKeeps DEF ControlHolds

\* The keys in the lifecycle root are given up only for a cancelled setup.
LEMMA LifeCancelled ==
  ASSUME SetupInv, ctl.inv = selector, work[ctl.inv].cancelled, life.st = "pending",
         NEW id \in BOOLEAN, NEW a \in BOOLEAN,
         life' = [st |-> "cancelled", inv |-> life.inv, req |-> life.req,
                  response |-> life.response, identity |-> id, ahead |-> a],
         UNCHANGED <<operVars, selector, ready, work, requests, sealed>>
  PROVE  DiskHolds' /\ life' \in Lives /\ life'.st = "cancelled"
<1>1. SetupTypeOK /\ life.response \in Bindings
  BY DEF SetupInv, SetupTypeOK, Lives
<1>2. /\ life' \in Lives /\ life'.st = "cancelled" /\ life'.inv = life.inv /\ life'.req = life.req
  BY <1>1, LifeRecord
<1>3. LifeHolds /\ life.inv = ctl.inv /\ ready = NoReady
  BY NotApplied DEF SetupInv, DiskHolds, LifeHolds
<1>4. LifeHolds'
  BY <1>2, <1>3 DEF LifeHolds, operVars
<1>5. ReadyHolds' /\ AppliedStays
  BY <1>3 DEF ReadyHolds, AppliedStays
<1>6. \A j \in Invitations : j # life'.inv => life'.req \notin Mine(j)
  BY <1>2 DEF SetupInv, DiskHolds, RequestsOwned
<1>7. ASSUME NEW j \in Invitations PROVE KeyKept(j)'
  <2>1. CASE j = life.inv
    BY <1>3, <2>1 DEF KeyKept
  <2>2. CASE j # life.inv
    <3>1. KeyKept(j) /\ life.req \notin Mine(j)
      BY <2>2 DEF SetupInv, DiskHolds, KeysKept, KeyKept, RequestsOwned
    <3>2. work[j].session.req = 0 => work[j].session = NoSession
      BY OwnedBounds
    <3> QED
      BY <3>1, <3>2 DEF KeyKept, Mine
  <2> QED
    BY <2>1, <2>2
<1>8. DiskHolds'
  BY <1>4, <1>5, <1>6, <1>7, LifeBecomes
<1> QED
  BY <1>2, <1>8

\* The pending request of the marked setup is given up.
LEMMA CancelLifecycleKeeps ==
  ASSUME SetupInv, CancelLifecycle PROVE SetupInv'
<1>0. ctl # NoCtl /\ ctl.pc = "cancelPending"
  BY CommandUnder DEF CancelLifecycle, AtCtl
<1>1. /\ ctl.inv \in Invitations /\ SetupTypeOK /\ ctl.name = "cancel" /\ ctl.inv = selector
      /\ work[ctl.inv].cancelled /\ life.st # "applied" /\ ready = NoReady
  BY <1>0, Cancelling
<1>2. /\ CtlSame /\ UNCHANGED <<selector, ready, work, requests, sealed, front>>
      /\ CtlGoto("cancelUnlink")
  BY DEF CancelLifecycle
<1>3. "cancelUnlink" \in PcsOf(ctl.name)
  BY <1>1 DEF PcsOf
<1>4. /\ NamesHold' /\ FrontHolds'
      /\ ctl' \in CtlRecords /\ ctl'.pc = "cancelUnlink" /\ ctl'.name = ctl.name
      /\ ctl'.inv = ctl.inv
  BY <1>0, <1>2, <1>3, GotoNames
<1>5. DiskHolds' /\ life' \in Lives /\ life'.st # "applied"
  <2>1. CASE life.st # "pending"
    BY <1>1, <1>2, <2>1, DiskSame DEF CancelLifecycle, SetupTypeOK, CtlSame, diskVars
  <2>2. CASE life.st = "pending"
    <3>1. life' = [st |-> "cancelled", inv |-> life.inv, req |-> life.req,
                   response |-> life.response, identity |-> FALSE, ahead |-> life.ahead]
      BY <1>1, <2>2 DEF CancelLifecycle, SetupTypeOK, Lives
    <3>2. life.ahead \in BOOLEAN
      BY <1>1 DEF SetupTypeOK, Lives
    <3> QED
      BY <1>1, <1>2, <2>2, <3>1, <3>2, LifeCancelled DEF CtlSame
  <2> QED
    BY <2>1, <2>2
<1>6. DiskTyped'
  BY <1>1, <1>2, <1>4, <1>5 DEF SetupTypeOK, DiskTyped
<1>7. WorkingHolds' /\ ClosingHolds'
  BY <1>1, <1>2, <1>4, <1>5 DEF WorkingHolds, ClosingHolds, ImportPcs
<1> QED
  BY <1>2, <1>4, <1>5, <1>6, <1>7, CommandKeeps DEF ControlHolds

\* No command is under way and the user's process is gone.
LEMMA AllIdle ==
  ASSUME ctl' = NoCtl, front' = NoFront
  PROVE  ControlHolds' /\ front' \in Fronts
BY IdleHolds, BlankRecords DEF ControlHolds, NamesHold, FrontHolds

\* pending.json of the marked setup is unlinked.
LEMMA CancelUnlinkKeeps ==
  ASSUME SetupInv, CancelUnlink PROVE SetupInv'
<1>0. ctl # NoCtl /\ ctl.pc = "cancelUnlink"
  BY CommandUnder DEF CancelUnlink, AtCtl
<1>1. /\ ctl.inv \in Invitations /\ SetupTypeOK /\ work[ctl.inv].cancelled /\ ready = NoReady
  BY <1>0, Cancelling
<1>2. /\ CtlSame /\ UNCHANGED <<selector, ready, requests, sealed, life>>
      /\ ctl' = NoCtl /\ front' = NoFront /\ work' = [work EXCEPT ![ctl.inv].pending = 0]
  BY DEF CancelUnlink
<1>3. PICK i \in Invitations : i = ctl.inv
  BY <1>1
<1>4. KeyKept(i)'
  <2>1. work'[i].cancelled = work[i].cancelled
    BY <1>1, <1>2, <1>3 DEF SetupTypeOK, Works
  <2> QED
    BY <1>1, <1>3, <2>1 DEF KeyKept
<1>5. DiskHolds' /\ WorkIs(i, work'[i])
  BY <1>1, <1>2, <1>3, <1>4, PendingDropped DEF CtlSame
<1>6. ControlHolds' /\ front' \in Fronts
  BY <1>2, AllIdle
<1>7. DiskTyped'
  BY <1>1, <1>2, <1>5, <1>6 DEF SetupTypeOK, DiskTyped, WorkIs
<1> QED
  BY <1>2, <1>5, <1>6, <1>7, CommandKeeps

-----------------------------------------------------------------------------
(* A command that stops, and the administrator's recovery. *)

\* A bootstrap that is not whole belongs to the confirmed selected setup.
LEMMA ImportResidue ==
  ASSUME SetupInv, ctl # NoCtl, Current, Session.phase \in {"confirmed", "verified"},
         life.st = "none", NEW s \in {"partial", "empty"},
         life' = [NoLife EXCEPT !.st = s, !.inv = ctl.inv],
         UNCHANGED <<operVars, selector, ready, work, requests, sealed>>
  PROVE  DiskHolds' /\ life' \in Lives
<1>1. ctl.inv \in Invitations /\ Session.phase \in Confirmed
  BY CtlTyped DEF SetupInv, Confirmed
<1>2. life' \in Lives /\ life'.st = s /\ life'.inv = ctl.inv /\ life'.req = 0
  <2>1. PICK l : l = [NoLife EXCEPT !.st = s, !.inv = ctl.inv]
    OBVIOUS
  <2>2. NoLife \in Lives /\ NoLife.req = 0
    BY BlankRecords
  <2>3. l \in Lives /\ l.st = s /\ l.inv = ctl.inv /\ l.req = 0
    BY <1>1, <2>1, <2>2 DEF Lives
  <2> QED
    BY <2>1, <2>3
<1>3. /\ oper[ctl.inv].phase = "confirmed" /\ oper[ctl.inv].tx \in 1 .. Len(sealed)
      /\ Len(requests) \in Nat
  BY <1>1, ConfirmedSession, OwnedBounds
<1>4. LifeHolds'
  BY <1>1, <1>2, <1>3 DEF LifeHolds, Current, operVars
<1>5. ReadyHolds' /\ AppliedStays
  BY DEF ReadyHolds, Current, AppliedStays
<1>6. \A j \in Invitations : j # life'.inv => life'.req \notin Mine(j)
  BY <1>2 DEF Mine
<1>7. \A j \in Invitations : KeyKept(j)'
  BY DEF SetupInv, DiskHolds, KeysKept, KeyKept
<1>8. DiskHolds'
  BY <1>4, <1>5, <1>6, <1>7, LifeBecomes
<1> QED
  BY <1>2, <1>8

\* A command stops anywhere, inside a lifecycle call too.
LEMMA CommandStopsKeeps ==
  ASSUME SetupInv, CommandStops PROVE SetupInv'
<1>0. /\ ctl # NoCtl /\ ctl' = NoCtl /\ front' = NoFront /\ LifeResidue /\ SetupTypeOK
      /\ UNCHANGED <<clock, relayVars, operVars, selector, ready, work, requests, sealed>>
  BY DEF CommandStops, SetupInv
<1>1. DiskHolds' /\ life' \in Lives
  <2>1. CASE UNCHANGED life
    BY <1>0, <2>1, DiskSame DEF diskVars, SetupTypeOK
  <2>2. CASE /\ AtCtl("import") /\ work[ctl.inv].pending # 0
             /\ Importable(work[ctl.inv].pending)
             /\ \/ /\ life.st = "none"
                   /\ life' \in {[NoLife EXCEPT !.st = s, !.inv = ctl.inv] : s \in {"partial", "empty"}}
                \/ /\ life.st # "pending"
                   /\ life' = [NoLife EXCEPT !.st = "pending", !.inv = ctl.inv, !.ahead = TRUE,
                                 !.req = work[ctl.inv].pending, !.identity = TRUE]
    <3>1. Current /\ Session.phase \in {"confirmed", "verified"}
      BY <2>2 DEF SetupInv, ControlHolds, WorkingHolds, ImportPcs, AtCtl
    <3>2. CASE /\ life.st = "none"
               /\ \E s \in {"partial", "empty"} : life' = [NoLife EXCEPT !.st = s, !.inv = ctl.inv]
      BY <1>0, <3>1, <3>2, ImportResidue
    <3>3. CASE life' = [NoLife EXCEPT !.st = "pending", !.inv = ctl.inv, !.ahead = TRUE,
                                      !.req = work[ctl.inv].pending, !.identity = TRUE]
      <4>1. life' = [st |-> "pending", inv |-> ctl.inv, req |-> work[ctl.inv].pending,
                     response |-> NoResponse, identity |-> TRUE, ahead |-> TRUE]
        BY <3>3 DEF NoLife
      <4> QED
        BY <1>0, <2>2, <3>1, <4>1, RequestImported
    <3> QED
      BY <2>2, <3>2, <3>3
  <2>3. CASE /\ AtCtl("apply") /\ life.st = "pending" /\ life.req = Session.req
             /\ life' \in {[life EXCEPT !.st = "applied", !.response = Session.response,
                                        !.ahead = a] : a \in BOOLEAN}
    <3>1. Current /\ Session.phase = "verified"
      BY <2>3 DEF SetupInv, ControlHolds, WorkingHolds, AtCtl
    <3>2. PICK a \in BOOLEAN : life' = [life EXCEPT !.st = "applied",
                                          !.response = Session.response, !.ahead = a]
      BY <2>3
    <3>3. life' = [st |-> "applied", inv |-> life.inv, req |-> life.req,
                   response |-> Session.response, identity |-> life.identity, ahead |-> a]
      BY <1>0, <3>2 DEF SetupTypeOK, Lives
    <3>4. life.identity \in BOOLEAN
      BY <1>0 DEF SetupTypeOK, Lives
    <3> QED
      BY <1>0, <2>3, <3>1, <3>3, <3>4, ResponseApplied
  <2>4. CASE /\ AtCtl("cancelPending") /\ life.st = "pending"
             /\ life' = [life EXCEPT !.st = "cancelled", !.ahead = TRUE]
    <3>1. ctl.inv = selector /\ work[ctl.inv].cancelled
      BY <1>0, <2>4, Cancelling DEF AtCtl
    <3>2. life' = [st |-> "cancelled", inv |-> life.inv, req |-> life.req,
                   response |-> life.response, identity |-> life.identity, ahead |-> TRUE]
      BY <1>0, <2>4 DEF SetupTypeOK, Lives
    <3>3. life.identity \in BOOLEAN
      BY <1>0 DEF SetupTypeOK, Lives
    <3> QED
      BY <1>0, <2>4, <3>1, <3>2, <3>3, LifeCancelled
  <2> QED
    BY <1>0, <2>1, <2>2, <2>3, <2>4 DEF LifeResidue
<1>2. ControlHolds' /\ front' \in Fronts
  BY <1>0, AllIdle
<1>3. DiskTyped'
  BY <1>0, <1>1, <1>2 DEF SetupTypeOK, DiskTyped
<1> QED
  BY <1>0, <1>1, <1>2, <1>3, LocalKeeps

\* recover-state completes what the anchor already says.
LEMMA RecoverStateKeeps ==
  ASSUME SetupInv, RecoverState PROVE SetupInv'
<1>0. /\ ctl = NoCtl /\ life' = [life EXCEPT !.ahead = FALSE] /\ SetupTypeOK
      /\ UNCHANGED <<clock, relayVars, operVars, selector, ready, work, requests, sealed, ctl, front>>
  BY DEF RecoverState, SetupInv
<1>1. /\ life' \in Lives /\ life'.st = life.st /\ life'.inv = life.inv /\ life'.req = life.req
      /\ life'.response = life.response /\ life'.identity = life.identity
  BY <1>0 DEF SetupTypeOK, Lives
<1>2. LifeHolds'
  <2>1. LifeHolds /\ life.st # "none"
    BY DEF RecoverState, SetupInv, DiskHolds, LifeHolds, NoLife
  <2> QED
    BY <1>0, <1>1, <2>1 DEF LifeHolds, operVars
<1>3. ReadyHolds' /\ AppliedStays
  BY <1>0, <1>1 DEF SetupInv, DiskHolds, ReadyHolds, Retirable, AppliedStays
<1>4. DiskHolds'
  BY <1>0, <1>1, <1>2, <1>3, LifeGoesOn
<1>5. ControlHolds'
  BY <1>0, IdleHolds DEF SetupInv, ControlHolds, NamesHold, FrontHolds
<1>6. DiskTyped'
  BY <1>0, <1>1 DEF SetupTypeOK, DiskTyped
<1> QED
  BY <1>0, <1>4, <1>5, <1>6, LocalKeeps

-----------------------------------------------------------------------------
(* The relay's mailboxes. *)

\* The requests and the responses that mailboxes s hold.
Asked(s) == {i \in Invitations : s[i].request # 0}
Answered(s) == {i \in Invitations : s[i].response # NoResponse}

\* Mailboxes s that are accounted for by t documents.
Exact(s, t) ==
  /\ s \in [Invitations -> Slots] /\ t \in Nat /\ t <= MaxStored
  /\ t = Cardinality(Asked(s))
         + Cardinality(Answered(s))
  /\ \A i \in Invitations : s[i].request # 0 \/ s[i].response # NoResponse => Open(s[i])

\* The mailboxes are accounted for.
LEMMA ExactIs ==
  ASSUME SetupInv PROVE Exact(slot, stored)
BY DEF SetupInv, SetupTypeOK, RelayHolds, SlotsHold, MailboxExact, Exact, Asked, Answered

\* A step that changes no file of the client and keeps the account.
LEMMA ExactNext ==
  ASSUME SetupInv, UNCHANGED <<operVars, diskVars>>, clock' \in Nat, Exact(slot, stored)',
         ctl' \in CtlRecords \cup {NoCtl}, front' \in Fronts, ControlHolds'
  PROVE  SetupInv'
<1>1. RelayHolds' /\ SetupTypeOK'
  BY DEF SetupInv, SetupTypeOK, RelayHolds, SlotsHold, MailboxExact, Exact, Asked, Answered, operVars, diskVars
<1>2. DiskHolds'
  BY DiskSame
<1> QED
  BY <1>1, <1>2 DEF SetupInv

\* A store that starts, or has expired, holds nothing.
LEMMA ExactEmpty == Exact([i \in Invitations |-> NoSlot], 0)
<1>1. PICK s : s = [i \in Invitations |-> NoSlot]
  OBVIOUS
<1>2. /\ s \in [Invitations -> Slots]
      /\ \A i \in Invitations : s[i].request = 0 /\ s[i].response = NoResponse
  BY <1>1, BlankRecords
<1>3. Asked(s) = {} /\ Answered(s) = {}
  BY <1>2 DEF Asked, Answered
<1>4. Cardinality(Asked(s)) = 0 /\ Cardinality(Answered(s)) = 0
  BY <1>3, FS_EmptySet
<1>5. Exact(s, 0)
  BY <1>2, <1>4, SetupAssumption DEF Exact
<1> QED
  BY <1>1, <1>5

\* expireLocked keeps the account.
LEMMA ExactLive ==
  ASSUME SetupInv PROVE Exact(Live(slot), LiveStored)
BY ExactIs, ExactEmpty DEF Live, LiveStored

\* The two sets that are counted, finite.
LEMMA CountedFinite ==
  ASSUME NEW s, NEW t, Exact(s, t)
  PROVE  /\ IsFiniteSet(Asked(s))
         /\ IsFiniteSet(Answered(s))
         /\ Cardinality(Asked(s)) \in Nat
         /\ Cardinality(Answered(s)) \in Nat
<1>1. /\ IsFiniteSet(Asked(s))
      /\ IsFiniteSet(Answered(s))
  BY SetupAssumption, FS_Subset DEF Asked, Answered
<1> QED
  BY <1>1, FS_CardinalityType

\* A request that is stored is counted.
LEMMA ExactPutRequest ==
  ASSUME NEW s, NEW t, Exact(s, t), NEW i \in Invitations, NEW tx \in Nat,
         NEW u, u = [s EXCEPT ![i].request = tx],
         s[i].request = 0, tx # 0, t < MaxStored, Open(s[i])
  PROVE  Exact(u, t + 1)
<1>1. s \in [Invitations -> Slots] /\ s[i] \in Slots /\ t \in Nat
  BY DEF Exact
<1>2. /\ u \in [Invitations -> Slots] /\ u[i].request = tx /\ u[i].response = s[i].response
      /\ u[i].made = s[i].made /\ u[i].consumed = s[i].consumed
      /\ \A j \in Invitations : j # i => u[j] = s[j]
  BY <1>1 DEF Slots
<1>3. Asked(u) = Asked(s) \cup {i} /\ Answered(u) = Answered(s) /\ i \notin Asked(s)
  BY <1>2 DEF Asked, Answered
<1>4. IsFiniteSet(Asked(s))
  BY CountedFinite
<1>5. Cardinality(Asked(u)) = Cardinality(Asked(s)) + 1
  BY <1>3, <1>4, FS_AddElement
<1>6. \A j \in Invitations : u[j].request # 0 \/ u[j].response # NoResponse => Open(u[j])
  BY <1>2 DEF Open, Exact
<1>7. Cardinality(Asked(s)) \in Nat
      /\ Cardinality(Answered(s)) \in Nat
  BY CountedFinite
<1> QED
  BY <1>1, <1>2, <1>3, <1>5, <1>6, <1>7, SetupAssumption DEF Exact

\* A response that is stored is counted.
LEMMA ExactPutResponse ==
  ASSUME NEW s, NEW t, Exact(s, t), NEW i \in Invitations, NEW b \in Bindings,
         NEW u, u = [s EXCEPT ![i].response = b],
         s[i].response = NoResponse, b # NoResponse, t < MaxStored, Open(s[i])
  PROVE  Exact(u, t + 1)
<1>1. s \in [Invitations -> Slots] /\ s[i] \in Slots /\ t \in Nat
  BY DEF Exact
<1>2. /\ u \in [Invitations -> Slots] /\ u[i].request = s[i].request /\ u[i].response = b
      /\ u[i].made = s[i].made /\ u[i].consumed = s[i].consumed
      /\ \A j \in Invitations : j # i => u[j] = s[j]
  BY <1>1 DEF Slots
<1>3. Asked(u) = Asked(s) /\ Answered(u) = Answered(s) \cup {i} /\ i \notin Answered(s)
  BY <1>2 DEF Asked, Answered
<1>4. IsFiniteSet(Answered(s))
  BY CountedFinite
<1>5. Cardinality(Answered(u)) = Cardinality(Answered(s)) + 1
  BY <1>3, <1>4, FS_AddElement
<1>6. \A j \in Invitations : u[j].request # 0 \/ u[j].response # NoResponse => Open(u[j])
  BY <1>2 DEF Open, Exact
<1>7. Cardinality(Asked(s)) \in Nat
      /\ Cardinality(Answered(s)) \in Nat
  BY CountedFinite
<1> QED
  BY <1>1, <1>2, <1>3, <1>5, <1>6, <1>7, SetupAssumption DEF Exact

\* A put that is refused, or repeats what is there, changes nothing.
LEMMA PutNothing ==
  ASSUME NEW s \in [Invitations -> Slots], NEW i \in Invitations
  PROVE  /\ [s EXCEPT ![i].request = s[i].request] = s
         /\ [s EXCEPT ![i].response = s[i].response] = s
BY DEF Slots

\* PutRequest keeps the account, whether it stores or refuses.
LEMMA PutRequestExact ==
  ASSUME SetupInv, NEW i \in Invitations, NEW tx \in Nat, PutRequestEffect(i, tx)
  PROVE  Exact(slot, stored)'
<1>1. PICK s, t : s = Live(slot) /\ t = LiveStored
  OBVIOUS
<1>2. Exact(s, t) /\ s \in [Invitations -> Slots]
  BY <1>1, ExactLive DEF Exact
<1>3. PICK req : req = IF Open(s[i]) THEN PutInto(s[i].request, tx, 0) ELSE s[i].request
  OBVIOUS
<1>4. /\ slot' = [s EXCEPT ![i].request = req]
      /\ stored' = IF req # s[i].request THEN t + 1 ELSE t
  BY <1>1, <1>3 DEF PutRequestEffect
<1>5. CASE req = s[i].request
  BY <1>2, <1>4, <1>5, PutNothing
<1>6. CASE req # s[i].request
  <2>1. req = tx /\ s[i].request = 0 /\ t < MaxStored /\ Open(s[i]) /\ tx # 0
    BY <1>1, <1>3, <1>6 DEF PutInto
  <2>2. Exact([s EXCEPT ![i].request = tx], t + 1)
    BY <1>2, <2>1, ExactPutRequest
  <2> QED
    BY <1>4, <1>6, <2>1, <2>2
<1> QED
  BY <1>5, <1>6

\* PutRegisteredResponse keeps the account, whether it stores or refuses.
LEMMA PutResponseExact ==
  ASSUME SetupInv, NEW i \in Invitations, NEW b \in Bindings, PutResponseEffect(i, b)
  PROVE  Exact(slot, stored)'
<1>1. PICK s, t : s = Live(slot) /\ t = LiveStored
  OBVIOUS
<1>2. Exact(s, t) /\ s \in [Invitations -> Slots]
  BY <1>1, ExactLive DEF Exact
<1>3. PICK rsp : rsp = IF Open(s[i]) THEN PutInto(s[i].response, b, NoResponse) ELSE s[i].response
  OBVIOUS
<1>4. /\ slot' = [s EXCEPT ![i].response = rsp]
      /\ stored' = IF rsp # s[i].response THEN t + 1 ELSE t
  BY <1>1, <1>3 DEF PutResponseEffect
<1>5. CASE rsp = s[i].response
  BY <1>2, <1>4, <1>5, PutNothing
<1>6. CASE rsp # s[i].response
  <2>1. rsp = b /\ s[i].response = NoResponse /\ t < MaxStored /\ Open(s[i]) /\ b # NoResponse
    BY <1>1, <1>3, <1>6 DEF PutInto
  <2>2. Exact([s EXCEPT ![i].response = b], t + 1)
    BY <1>2, <2>1, ExactPutResponse
  <2> QED
    BY <1>4, <1>6, <2>1, <2>2
<1> QED
  BY <1>5, <1>6

\* Consume takes off exactly what the mailbox held.
LEMMA ConsumeExact ==
  ASSUME SetupInv, NEW i \in Invitations, ConsumeEffect(i)
  PROVE  Exact(slot, stored)'
<1>1. PICK s, t : s = Live(slot) /\ t = LiveStored
  OBVIOUS
<1>2. Exact(s, t) /\ s \in [Invitations -> Slots]
  BY <1>1, ExactLive DEF Exact
<1>3. CASE ~(s[i].made /\ ~s[i].consumed)
  <2>1. slot' = s /\ stored' = t
    BY <1>1, <1>3 DEF ConsumeEffect
  <2> QED
    BY <1>2, <2>1
<1>4. CASE s[i].made /\ ~s[i].consumed
  <2>1. PICK e : e = [NoSlot EXCEPT !.made = TRUE, !.consumed = TRUE]
    OBVIOUS
  <2>2. slot' = [s EXCEPT ![i] = e] /\ stored' = t - Held(s[i])
    BY <1>1, <1>4, <2>1 DEF ConsumeEffect
  <2>3. e \in Slots /\ e.request = 0 /\ e.response = NoResponse
    BY <2>1, BlankRecords DEF NoSlot, Slots, NoResponse
  <2>4. PICK u : u = [s EXCEPT ![i] = e]
    OBVIOUS
  <2>5. u \in [Invitations -> Slots] /\ u[i] = e /\ \A j \in Invitations : j # i => u[j] = s[j]
    BY <1>2, <2>3, <2>4
  <2>6. PICK R, P : /\ R = Asked(s)
                    /\ P = Answered(s)
    OBVIOUS
  <2>7. /\ Asked(u) = R \ {i}
        /\ Answered(u) = P \ {i}
    BY <2>3, <2>5, <2>6 DEF Asked, Answered
  <2>8. IsFiniteSet(R) /\ IsFiniteSet(P) /\ Cardinality(R) \in Nat /\ Cardinality(P) \in Nat
    BY <1>2, <2>6, CountedFinite
  <2>9. /\ Cardinality(R \ {i}) = Cardinality(R) - (IF s[i].request # 0 THEN 1 ELSE 0)
        /\ Cardinality(P \ {i}) = Cardinality(P) - (IF s[i].response # NoResponse THEN 1 ELSE 0)
    <3>1. /\ i \in R => Cardinality(R \ {i}) = Cardinality(R) - 1
          /\ i \in P => Cardinality(P \ {i}) = Cardinality(P) - 1
      BY <2>8, FS_RemoveElement
    <3>2. (i \notin R => R \ {i} = R) /\ (i \notin P => P \ {i} = P)
      OBVIOUS
    <3>3. (i \in R <=> s[i].request # 0) /\ (i \in P <=> s[i].response # NoResponse)
      BY <2>6 DEF Asked, Answered
    <3> QED
      BY <2>8, <3>1, <3>2, <3>3
  <2>10. Cardinality(R \ {i}) \in Nat /\ Cardinality(P \ {i}) \in Nat
    BY <2>8, FS_RemoveElement, FS_CardinalityType
  <2>11. t = Cardinality(R) + Cardinality(P) /\ t \in Nat /\ t <= MaxStored
    BY <1>2, <2>6 DEF Exact
  <2>12. stored' = Cardinality(R \ {i}) + Cardinality(P \ {i}) /\ stored' \in Nat
         /\ stored' <= MaxStored
    BY <2>2, <2>8, <2>9, <2>10, <2>11, SetupAssumption DEF Held
  <2>13. \A j \in Invitations : u[j].request # 0 \/ u[j].response # NoResponse => Open(u[j])
    BY <1>2, <2>3, <2>5 DEF Exact
  <2>14. Exact(u, stored')
    BY <2>5, <2>7, <2>12, <2>13 DEF Exact
  <2> QED
    BY <2>2, <2>4, <2>14
<1> QED
  BY <1>3, <1>4

\* A mailbox that is made again keeps what it holds.
LEMMA CreateExact ==
  ASSUME SetupInv, NEW i \in Invitations, CreateMailbox(i)
  PROVE  Exact(slot, stored)'
<1>1. Exact(slot, stored) /\ slot \in [Invitations -> Slots] /\ stored' = stored
  BY ExactIs DEF Exact, CreateMailbox
<1>2. PICK e : e = IF slot[i].made THEN slot[i] ELSE [NoSlot EXCEPT !.made = TRUE]
  OBVIOUS
<1>3. slot' = [slot EXCEPT ![i] = e]
  BY <1>2 DEF CreateMailbox
<1>4. /\ e \in Slots /\ e.request = slot[i].request /\ e.response = slot[i].response
      /\ e.request # 0 \/ e.response # NoResponse => Open(e)
  <2>1. CASE slot[i].made
    BY <1>1, <1>2, <2>1 DEF Exact
  <2>2. CASE ~slot[i].made
    <3>1. slot[i].request = 0 /\ slot[i].response = NoResponse
      BY <1>1, <2>2 DEF Exact, Open
    <3>2. e \in Slots /\ e.request = 0 /\ e.response = NoResponse
      BY <1>2, <2>2, BlankRecords DEF NoSlot, Slots, NoResponse
    <3> QED
      BY <3>1, <3>2
  <2> QED
    BY <2>1, <2>2
<1>5. /\ slot' \in [Invitations -> Slots]
      /\ \A j \in Invitations : /\ slot'[j].request = slot[j].request
                                /\ slot'[j].response = slot[j].response
                                /\ slot'[j].request # 0 \/ slot'[j].response # NoResponse => Open(slot'[j])
  BY <1>1, <1>3, <1>4 DEF Exact
<1>6. /\ Asked(slot)' = Asked(slot)
      /\ Answered(slot)'
           = Answered(slot)
  BY <1>5 DEF Asked, Answered
<1> QED
  BY <1>1, <1>5, <1>6 DEF Exact

\* A step of the relay alone.
LEMMA ExactAlone ==
  ASSUME SetupInv, UNCHANGED <<operVars, diskVars, ctl, front>>, clock' \in Nat,
         Exact(slot, stored)'
  PROVE  SetupInv'
<1>1. ControlHolds'
  BY DEF SetupInv, ControlHolds, NamesHold, WorkingHolds, Absent, ClosingHolds, FrontHolds, Current, Session,
         operVars, diskVars
<1> QED
  BY <1>1, ExactNext DEF SetupInv, SetupTypeOK

-----------------------------------------------------------------------------
(* The operator: what it has confirmed stays confirmed. *)

\* A step of the operator that changes no confirmed session.
LEMMA OperatorKeeps ==
  ASSUME SetupInv, UNCHANGED <<clock, relayVars, diskVars, ctl, front>>,
         oper' \in [Invitations -> [phase : {"none", "pending", "confirmed", "cancelled"}, tx : Nat]],
         \A j \in Invitations : oper[j].phase = "confirmed" => oper'[j] = oper[j],
         bound \subseteq bound', bound' \subseteq Bindings
  PROVE  SetupInv'
<1>1. RelayHolds'
  BY RelaySame DEF SetupInv
<1>2. SetupTypeOK'
  BY DEF SetupInv, SetupTypeOK, relayVars, diskVars
<1>3. \A j \in Invitations : \A t : oper[j] = [phase |-> "confirmed", tx |-> t] => oper'[j] = oper[j]
  OBVIOUS
<1>4. SessionsHold'
  <2> SUFFICES ASSUME NEW j \in Invitations PROVE SessionHolds(j)'
    BY DEF SessionsHold
  <2>1. SessionHolds(j) /\ UNCHANGED <<work, life, requests, sealed>>
    BY DEF SetupInv, DiskHolds, SessionsHold, diskVars
  <2>2. oper[j] = [phase |-> "confirmed", tx |-> work[j].session.tx] =>
          oper'[j] = [phase |-> "confirmed", tx |-> work[j].session.tx]
    BY <1>3
  <2> QED
    BY <2>1, <2>2 DEF SessionHolds
<1>5. LifeHolds'
  BY DEF SetupInv, DiskHolds, LifeHolds, diskVars
<1>6. RequestsOwned' /\ KeysKept' /\ ReadyHolds'
  BY DEF SetupInv, DiskHolds, RequestsOwned, Mine, KeysKept, ReadyHolds, Retirable, diskVars
<1>7. ctl.pc = "confirm" => ctl.inv \in Invitations
  BY CtlTyped, BlankRecords DEF SetupInv
<1>8. WorkingHolds'
  BY <1>3, <1>7 DEF SetupInv, ControlHolds, WorkingHolds, Absent, Current, Session, diskVars
<1>9. NamesHold' /\ ClosingHolds' /\ FrontHolds'
  BY DEF SetupInv, ControlHolds, NamesHold, ClosingHolds, FrontHolds, Session, diskVars
<1> QED
  BY <1>1, <1>2, <1>4, <1>5, <1>6, <1>8, <1>9 DEF SetupInv, DiskHolds, ControlHolds

\* The operator opens a session where it had none.
LEMMA OpenOperatorKeeps ==
  ASSUME SetupInv, NEW i \in Invitations, OpenOperator(i) PROVE SetupInv'
<1>1. PICK tx \in {Foreign} \cup {t \in {slot[i].request} : Open(slot[i]) /\ t # 0} :
        oper' = [oper EXCEPT ![i] = [phase |-> "pending", tx |-> tx]]
  BY DEF OpenOperator
<1>2. tx \in Nat
  BY SetupAssumption DEF Foreign, SetupInv, SetupTypeOK, Slots
<1>3. /\ oper' \in [Invitations -> [phase : {"none", "pending", "confirmed", "cancelled"}, tx : Nat]]
      /\ \A j \in Invitations : oper[j].phase = "confirmed" => oper'[j] = oper[j]
  BY <1>1, <1>2 DEF OpenOperator, SetupInv, SetupTypeOK
<1> QED
  BY <1>3, OperatorKeeps DEF OpenOperator, SetupInv, SetupTypeOK

\* The operator's comparison ends a pending session.
LEMMA ConfirmTargetWordsKeeps ==
  ASSUME SetupInv, NEW i \in Invitations, NEW slip \in BOOLEAN, ConfirmTargetWords(i, slip)
  PROVE  SetupInv'
<1>1. PICK ph \in {"confirmed", "cancelled"} : oper' = [oper EXCEPT ![i].phase = ph]
  BY DEF ConfirmTargetWords
<1>2. oper \in [Invitations -> [phase : {"none", "pending", "confirmed", "cancelled"}, tx : Nat]]
  BY DEF SetupInv, SetupTypeOK
<1>3. oper' \in [Invitations -> [phase : {"none", "pending", "confirmed", "cancelled"}, tx : Nat]]
  BY <1>1, <1>2
<1>4. \A j \in Invitations : oper[j].phase = "confirmed" => oper'[j] = oper[j]
  BY <1>1, <1>2 DEF ConfirmTargetWords
<1> QED
  BY <1>3, <1>4, OperatorKeeps DEF ConfirmTargetWords, SetupInv, SetupTypeOK

\* Bound responses are only added.
LEMMA BindResponseKeeps ==
  ASSUME SetupInv, NEW i \in Invitations, NEW resp \in Issued, BindResponse(i, resp)
  PROVE  SetupInv'
<1>1. oper[i].tx \in Nat
  BY DEF SetupInv, SetupTypeOK
<1>2. [tx |-> oper[i].tx, resp |-> resp] \in Bindings
  BY <1>1 DEF Bindings
<1> QED
  BY <1>2, OperatorKeeps DEF BindResponse, SetupInv, SetupTypeOK

-----------------------------------------------------------------------------
(* The user's command. *)

\* A command starts when none is under way.
LEMMA Starts ==
  ASSUME SetupInv, NEW n \in CommandNames, NEW i \in Invitations, NEW b \in Bindings,
         NEW w \in {"front", "other"}, Start(n, i, b, w)
  PROVE  /\ ctl = NoCtl /\ ctl' \in CtlRecords /\ ctl'.name = n /\ ctl'.pc = n /\ ctl'.inv = i
         /\ ctl'.arg = b /\ ctl'.who = w
         /\ n \in PcsOf(n) /\ front.phase # "wait"
<1>1. n \in PcsOf(n)
  BY DEF PcsOf, CommandNames, StagePcs
<1>2. n \in UNION {PcsOf(m) : m \in CommandNames}
  BY <1>1
<1>3. clock \in Nat
  BY DEF SetupInv, SetupTypeOK
<1>4. front.phase # "wait"
  BY BlankRecords DEF Start, SetupInv, ControlHolds, NamesHold
<1> QED
  BY <1>1, <1>2, <1>3, <1>4 DEF Start, CtlRecords

\* What must hold for a command of the user's process to start.
LEMMA FrontStarts ==
  ASSUME SetupInv, NEW n \in CommandNames \ {"cancel"}, NEW i \in Invitations, NEW b \in Bindings,
         Start(n, i, b, "front"), front' = [NoFront EXCEPT !.phase = "wait"],
         UNCHANGED <<operVars, diskVars>>,
         n \in {"confirm", "accept", "resume", "readying"} => i = selector,
         n = "confirm" /\ b.tx # 0 => oper[i] = [phase |-> "confirmed", tx |-> b.tx],
         n = "accept" => b \in bound,
         n = "status" => i = IF ready # NoReady THEN ready.inv ELSE selector
  PROVE  ControlHolds' /\ front' \in Fronts /\ ctl' \in CtlRecords
<1>1. /\ ctl = NoCtl /\ ctl' \in CtlRecords /\ ctl'.name = n /\ ctl'.pc = n /\ ctl'.inv = i
      /\ ctl'.arg = b /\ ctl'.who = "front" /\ n \in PcsOf(n)
  BY Starts
<1>2. front' \in Fronts /\ front'.phase = "wait"
  BY BlankRecords DEF Fronts, NoFront
<1>3. NamesHold' /\ FrontHolds'
  BY <1>1, <1>2 DEF NamesHold, FrontHolds
<1>4. n \in {"stage", "confirm", "accept", "resume", "status", "readying", "clean"}
  BY DEF CommandNames
<1>5. WorkingHolds'
  BY <1>1, <1>4 DEF WorkingHolds, ImportPcs, operVars, diskVars
<1>6. ClosingHolds'
  BY <1>1, <1>4 DEF ClosingHolds
<1> QED
  BY <1>1, <1>2, <1>3, <1>5, <1>6 DEF ControlHolds

\* owntransit setup with an invitation.
LEMMA SetupFileKeeps ==
  ASSUME SetupInv, NEW i \in Invitations, SetupFile(i) PROVE SetupInv'
<1>1. ControlHolds' /\ front' \in Fronts /\ ctl' \in CtlRecords
  BY BlankRecords, FrontStarts DEF SetupFile, FrontSame, CommandNames
<1> QED
  BY <1>1, ExactIs, ExactNext DEF SetupFile, FrontSame, relayVars, SetupInv, SetupTypeOK

\* owntransit setup again, on what is ready or selected.
LEMMA SetupResumeKeeps ==
  ASSUME SetupInv, SetupResume PROVE SetupInv'
<1>1. PICK i : i = IF ready # NoReady THEN ready.inv ELSE selector
  OBVIOUS
<1>2. i \in Invitations
  BY <1>1 DEF SetupResume, SetupInv, SetupTypeOK, DiskHolds, ReadyHolds
<1>3. ControlHolds' /\ front' \in Fronts /\ ctl' \in CtlRecords
  BY <1>1, <1>2, BlankRecords, FrontStarts DEF SetupResume, FrontSame, CommandNames
<1> QED
  BY <1>3, ExactIs, ExactNext DEF SetupResume, FrontSame, relayVars, SetupInv, SetupTypeOK

\* --cancel from another terminal.
LEMMA SetupCancelKeeps ==
  ASSUME SetupInv, SetupCancel PROVE SetupInv'
<1>1. selector \in Invitations /\ NoResponse \in Bindings
  BY BlankRecords DEF SetupCancel, SetupInv, SetupTypeOK
<1>2. /\ ctl = NoCtl /\ ctl' \in CtlRecords /\ ctl'.name = "cancel" /\ ctl'.pc = "cancel"
      /\ ctl'.inv = selector /\ ctl'.who = "other" /\ "cancel" \in PcsOf("cancel")
      /\ front.phase # "wait"
  BY <1>1, Starts DEF SetupCancel, CommandNames
<1>3. UNCHANGED <<front, clock, relayVars, operVars, diskVars>>
  BY DEF SetupCancel, FrontSame
<1>4. NamesHold' /\ FrontHolds'
  BY <1>2, <1>3 DEF SetupInv, ControlHolds, NamesHold, FrontHolds, diskVars
<1>5. WorkingHolds' /\ ClosingHolds'
  BY <1>2, <1>3 DEF WorkingHolds, ClosingHolds, ImportPcs, diskVars
<1> QED
  BY <1>2, <1>3, <1>4, <1>5, ExactIs, ExactNext DEF ControlHolds, relayVars, SetupInv, SetupTypeOK

\* The request is put into the mailbox; the call may be lost.
LEMMA FrontPutKeeps ==
  ASSUME SetupInv, NEW ok \in BOOLEAN, FrontPut(ok) PROVE SetupInv'
<1>1. /\ front.phase \in {"pending", "confirmed"} /\ front \in Fronts
      /\ UNCHANGED <<clock, operVars, diskVars, ctl>>
  BY DEF FrontPut, SetupInv, SetupTypeOK
<1>2. front.inv \in Invitations
  BY <1>1 DEF SetupInv, ControlHolds, FrontHolds
<1>3. PICK i \in Invitations : i = front.inv
  BY <1>2
<1>4. PICK tx : tx = work[i].session.tx
  OBVIOUS
<1>5. tx \in Nat
  BY <1>4 DEF SetupInv, SetupTypeOK, Works, Sessions
<1>6. PutRequestEffect(i, tx)
  BY <1>3, <1>4 DEF FrontPut
<1>7. Exact(slot, stored)'
  BY <1>5, <1>6, PutRequestExact
<1>8. /\ front' \in Fronts
      /\ front' = NoFront \/ (front'.phase = front.phase /\ front'.inv = front.inv)
  BY <1>1, BlankRecords DEF FrontPut, Fronts
<1>9. NamesHold' /\ FrontHolds'
  BY <1>1, <1>8, BlankRecords DEF SetupInv, ControlHolds, NamesHold, FrontHolds, diskVars
<1>10. WorkingHolds' /\ ClosingHolds'
  BY <1>1 DEF SetupInv, ControlHolds, WorkingHolds, Absent, ClosingHolds, Current, Session, operVars, diskVars
<1> QED
  BY <1>1, <1>7, <1>8, <1>9, <1>10, ExactNext DEF ControlHolds, SetupInv, SetupTypeOK

\* The words typed are a slip, or the confirmed operator's.
LEMMA FrontWordsKeeps ==
  ASSUME SetupInv, NEW slip \in BOOLEAN, FrontWords(slip) PROVE SetupInv'
<1>1. front.phase = "pending" /\ front.inv \in Invitations /\ front.inv = selector
  BY DEF FrontWords, SetupInv, ControlHolds, FrontHolds
<1>2. PICK i \in Invitations : i = front.inv
  BY <1>1
<1>3. PICK b : b = [tx |-> IF slip THEN 0 ELSE oper[i].tx, resp |-> 0]
  OBVIOUS
<1>4. oper[i] \in [phase : {"none", "pending", "confirmed", "cancelled"}, tx : Nat]
  BY DEF SetupInv, SetupTypeOK
<1>5. b \in Bindings
  BY <1>3, <1>4 DEF Bindings
<1>6. b.tx # 0 => oper[i] = [phase |-> "confirmed", tx |-> b.tx]
  BY <1>2, <1>3, <1>4 DEF FrontWords, Revealed
<1>7. Start("confirm", i, b, "front") /\ front' = [NoFront EXCEPT !.phase = "wait"] /\ FrontSame
  BY <1>2, <1>3 DEF FrontWords
<1>8. ControlHolds' /\ front' \in Fronts /\ ctl' \in CtlRecords
  BY <1>1, <1>2, <1>5, <1>6, <1>7, FrontStarts DEF FrontSame, CommandNames
<1> QED
  BY <1>7, <1>8, ExactIs, ExactNext DEF FrontSame, relayVars, SetupInv, SetupTypeOK

\* The relay returns some bound response.
LEMMA FrontResponseKeeps ==
  ASSUME SetupInv, NEW b \in bound, FrontResponse(b) PROVE SetupInv'
<1>1. front.inv \in Invitations /\ front.inv = selector /\ b \in Bindings
  BY DEF FrontResponse, SetupInv, SetupTypeOK, ControlHolds, FrontHolds
<1>2. PICK i \in Invitations : i = front.inv
  BY <1>1
<1>3. Start("accept", i, b, "front") /\ front' = [NoFront EXCEPT !.phase = "wait"] /\ FrontSame
  BY <1>2 DEF FrontResponse
<1>4. ControlHolds' /\ front' \in Fronts /\ ctl' \in CtlRecords
  BY <1>1, <1>2, <1>3, FrontStarts DEF FrontSame, CommandNames
<1> QED
  BY <1>3, <1>4, ExactIs, ExactNext DEF FrontSame, relayVars, SetupInv, SetupTypeOK

\* The user's process goes on from verified and from applied.
LEMMA FrontCommandKeeps ==
  ASSUME SetupInv, NEW ph \in {"verified", "applied"}, NEW n \in {"resume", "readying"},
         FrontCommand(ph, n)
  PROVE  SetupInv'
<1>1. front.inv \in Invitations /\ front.inv = selector /\ NoResponse \in Bindings
  BY BlankRecords DEF FrontCommand, SetupInv, ControlHolds, FrontHolds
<1>2. PICK i \in Invitations : i = front.inv
  BY <1>1
<1>3. /\ Start(n, i, NoResponse, "front") /\ front' = [NoFront EXCEPT !.phase = "wait"]
      /\ FrontSame /\ n \in CommandNames \ {"cancel"}
  BY <1>2 DEF FrontCommand, CommandNames
<1>4. ControlHolds' /\ front' \in Fronts /\ ctl' \in CtlRecords
  BY <1>1, <1>2, <1>3, FrontStarts DEF FrontSame
<1> QED
  BY <1>3, <1>4, ExactIs, ExactNext DEF FrontSame, relayVars, SetupInv, SetupTypeOK

\* The mailbox is consumed, or not, and cleanup starts.
LEMMA FrontConsumeKeeps ==
  ASSUME SetupInv, FrontConsume PROVE SetupInv'
<1>1. front.inv \in Invitations /\ NoResponse \in Bindings
  BY BlankRecords DEF FrontConsume, SetupInv, ControlHolds, FrontHolds
<1>2. PICK i \in Invitations : i = front.inv
  BY <1>1
<1>3. /\ Start("clean", i, NoResponse, "front") /\ front' = [NoFront EXCEPT !.phase = "wait"]
      /\ UNCHANGED <<clock, operVars, diskVars>> /\ (ConsumeEffect(i) \/ UNCHANGED relayVars)
  BY <1>2 DEF FrontConsume
<1>4. ControlHolds' /\ front' \in Fronts /\ ctl' \in CtlRecords
  BY <1>1, <1>2, <1>3, FrontStarts DEF CommandNames
<1>5. Exact(slot, stored)'
  <2>1. CASE ConsumeEffect(i)
    BY <2>1, ConsumeExact
  <2>2. CASE UNCHANGED relayVars
    BY <2>2, ExactIs DEF relayVars
  <2> QED
    BY <1>3, <2>1, <2>2
<1> QED
  BY <1>3, <1>4, <1>5, ExactNext DEF SetupInv, SetupTypeOK

\* The user's process ends.
LEMMA FrontStopKeeps ==
  ASSUME SetupInv, FrontStop PROVE SetupInv'
<1>1. /\ ctl' = NoCtl /\ front' = NoFront /\ UNCHANGED <<clock, relayVars, operVars, diskVars>>
  BY DEF FrontStop, FrontSame
<1>2. ControlHolds' /\ front' \in Fronts
  BY <1>1, AllIdle
<1> QED
  BY <1>1, <1>2, ExactIs, ExactNext DEF relayVars, SetupInv, SetupTypeOK

-----------------------------------------------------------------------------
(* The invariant, and the theorems that follow from it. *)

\* The invariant holds at the start.
LEMMA SetupInvInit == SetupInit => SetupInv
<1> SUFFICES ASSUME SetupInit PROVE SetupInv
  OBVIOUS
<1>1. /\ clock = 1 /\ slot = [i \in Invitations |-> NoSlot] /\ stored = 0
      /\ oper = [i \in Invitations |-> [phase |-> "none", tx |-> 0]] /\ bound = {}
      /\ selector = None /\ ready = NoReady /\ work = [i \in Invitations |-> NoWork]
      /\ requests = <<>> /\ sealed = <<>> /\ life = NoLife /\ ctl = NoCtl /\ front = NoFront
  BY DEF SetupInit
<1>2. \A i \in Invitations : work[i] = NoWork
  BY <1>1
<1>3. Exact(slot, stored)
  BY <1>1, ExactEmpty
<1>4. requests \in Seq(Nat) /\ sealed \in Seq(Nat) /\ Len(requests) = 0
  BY <1>1
<1>5. oper \in [Invitations -> [phase : {"none", "pending", "confirmed", "cancelled"}, tx : Nat]]
  BY <1>1
<1>6. SetupTypeOK
  BY <1>1, <1>3, <1>4, <1>5, BlankRecords DEF SetupTypeOK, Exact
<1>7. RelayHolds
  BY <1>3 DEF RelayHolds, SlotsHold, MailboxExact, Exact, Asked, Answered
<1>8. DiskHolds
  <2>1. SessionsHold
    BY <1>2, <1>4, BlankRecords DEF SessionsHold, SessionHolds, Confirmed
  <2>2. LifeHolds /\ ReadyHolds
    BY <1>1, <1>4, BlankRecords DEF LifeHolds, ReadyHolds
  <2>3. RequestsOwned /\ KeysKept
    BY <1>1, <1>2, BlankRecords DEF RequestsOwned, Mine, KeysKept
  <2> QED
    BY <2>1, <2>2, <2>3 DEF DiskHolds
<1>9. ControlHolds
  BY <1>1, BlankRecords DEF ControlHolds, NamesHold, WorkingHolds, ClosingHolds, FrontHolds, ImportPcs
<1> QED
  BY <1>6, <1>7, <1>8, <1>9 DEF SetupInv

\* Every step of a command.
LEMMA CommandStepKeeps ==
  ASSUME SetupInv, CommandStep PROVE SetupInv'
BY StageSelectKeeps, StagePlanKeeps, StageSelectorKeeps, StagePendingKeeps, StageBindKeeps,
   StageSessionKeeps, ConfirmWordsKeeps, MarkCancelledKeeps, RetirePendingKeeps,
   ImportPendingKeeps, UnlinkPendingKeeps, ReplyPhaseKeeps, AcceptOpenKeeps,
   AcceptBoundResponseKeeps, ResumeOpenKeeps, StatusOpenKeeps, ApplyVerifiedKeeps,
   RecordAppliedKeeps, ReadyOpenKeeps, ReadyAdvanceKeeps, CleanSessionKeeps, CleanWorkspaceKeeps,
   CleanSelectorKeeps, CleanReceiptKeeps, CancelMarkKeeps, CancelSessionKeeps,
   CancelLifecycleKeeps, CancelUnlinkKeeps DEF CommandStep

\* Every step of the user's process.
LEMMA FrontStepKeeps ==
  ASSUME SetupInv, FrontStep PROVE SetupInv'
BY FrontPutKeeps, FrontWordsKeeps, FrontResponseKeeps, FrontCommandKeeps, FrontConsumeKeeps
   DEF FrontStep

\* Time passes.
LEMMA SetupTickKeeps ==
  ASSUME SetupInv, SetupTick PROVE SetupInv'
BY ExactIs, ExactAlone DEF SetupTick, SetupInv, SetupTypeOK, relayVars

\* The relay restarts and has forgotten everything.
LEMMA RelayRestartKeeps ==
  ASSUME SetupInv, RelayRestart PROVE SetupInv'
BY ExactEmpty, ExactAlone DEF RelayRestart, SetupInv, SetupTypeOK

\* A mailbox is made.
LEMMA CreateMailboxKeeps ==
  ASSUME SetupInv, NEW i \in Invitations, CreateMailbox(i) PROVE SetupInv'
BY CreateExact, ExactAlone DEF CreateMailbox, SetupInv, SetupTypeOK

\* The courier puts a bound response.
LEMMA PutResponseKeeps ==
  ASSUME SetupInv, NEW i \in Invitations, NEW b \in bound, PutResponse(i, b) PROVE SetupInv'
<1>1. b \in Bindings
  BY DEF SetupInv, SetupTypeOK
<1> QED
  BY <1>1, PutResponseExact, ExactAlone DEF PutResponse, SetupInv, SetupTypeOK

\* A step that changes nothing.
LEMMA SetupStuttersKeeps ==
  ASSUME SetupInv, UNCHANGED setupVars PROVE SetupInv'
BY ExactIs, ExactAlone DEF setupVars, relayVars, SetupInv, SetupTypeOK

\* Every step keeps the invariant.
LEMMA SetupInvNext == SetupInv /\ [SetupNext]_setupVars => SetupInv'
<1> SUFFICES ASSUME SetupInv, [SetupNext]_setupVars PROVE SetupInv'
  OBVIOUS
<1>1. CASE CommandStep
  BY <1>1, CommandStepKeeps
<1>2. CASE FrontStep
  BY <1>2, FrontStepKeeps
<1>3. CASE UNCHANGED setupVars
  BY <1>3, SetupStuttersKeeps
<1>4. ASSUME NEW i \in Invitations,
             \/ CreateMailbox(i) \/ OpenOperator(i) \/ SetupFile(i)
             \/ \E slip \in BOOLEAN : ConfirmTargetWords(i, slip)
             \/ \E resp \in Issued : BindResponse(i, resp)
             \/ \E b \in bound : PutResponse(i, b)
      PROVE  SetupInv'
  BY <1>4, CreateMailboxKeeps, OpenOperatorKeeps, SetupFileKeeps, ConfirmTargetWordsKeeps,
     BindResponseKeeps, PutResponseKeeps
<1> QED
  BY <1>1, <1>2, <1>3, <1>4, SetupTickKeeps, RelayRestartKeeps, SetupResumeKeeps, SetupCancelKeeps,
     FrontStopKeeps, CommandStopsKeeps, RecoverStateKeeps DEF SetupNext

\* SetupInv is an invariant of the specification.
THEOREM SetupInductive == SetupSpec => []SetupInv
<1>1. SetupInit => SetupInv
  BY SetupInvInit
<1>2. SetupInv /\ [SetupNext]_setupVars => SetupInv'
  BY SetupInvNext
<1> QED
  BY <1>1, <1>2, PTL DEF SetupSpec

\* Whatever the relay delivers, forgets or repeats and wherever a command
\* stops, the two sessions agree on the transcript, only a response bound to
\* it becomes active, and the mailbox store accounts for what it holds
\* (ConfirmTargetWords, ConfirmProvisionerWords, AcceptBoundResponse; the
\* storedBytes of the mailbox store).
THEOREM ExchangeTheorem == SetupSpec => []ExchangeSound
<1>1. SetupInv => ExchangeSound
  <2> SUFFICES ASSUME SetupInv PROVE ExchangeSound
    OBVIOUS
  <2>1. TranscriptsAgree
    BY DEF SetupInv, DiskHolds, SessionsHold, SessionHolds, TranscriptsAgree
  <2>2. AppliedIsBound
    <3>1. LifeHolds
      BY DEF SetupInv, DiskHolds
    <3>2. life.req # 0 => life.st # "none"
      BY <3>1, BlankRecords DEF LifeHolds
    <3> QED
      BY <3>1, <3>2 DEF LifeHolds, AppliedIsBound
  <2>3. MailboxExact
    BY DEF SetupInv, RelayHolds
  <2> QED
    BY <2>1, <2>2, <2>3 DEF ExchangeSound
<1> QED
  BY <1>1, SetupInductive, PTL

\* Wherever a command of a setup stops, the private keys of a request that is
\* neither cancelled nor cleaned are still on disk (commitPending's order), and
\* a READY receipt is backed by the applied request and by a session that
\* cleanup accepts (CompleteReady, CleanupReady).
THEOREM SurvivalTheorem == SetupSpec => []SetupSurvives
<1>1. SetupInv => SetupSurvives
  <2> SUFFICES ASSUME SetupInv PROVE SetupSurvives
    OBVIOUS
  <2>1. KeysKept /\ ReadyHolds
    BY DEF SetupInv, DiskHolds
  <2> QED
    BY <2>1 DEF SetupSurvives, ReadyIsBacked, ReadyHolds
<1> QED
  BY <1>1, SetupInductive, PTL
=============================================================================
