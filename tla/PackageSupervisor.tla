------------------------- MODULE PackageSupervisor -------------------------
(***************************************************************************)
(* The package supervisor of the connector role: packageSupervisor.run of  *)
(* cmd/owntransitctl/package_supervisor_linux.go around one operation of   *)
(* the transaction engine, with the systemd unit it stops and restarts.    *)
(*                                                                         *)
(* The record on disk is <role>.intent or <role>.restart, with its         *)
(* RestartActive.  systemd does not begin a start while the intent file    *)
(* exists (ConditionPathExists=! of the unit), but the condition is read   *)
(* once: a start that has begun runs ExecStartPre and then the connector,  *)
(* whatever the supervisor writes meanwhile.  Active answers true only of  *)
(* a unit that runs; one that is activating or deactivating is inactive to *)
(* all three readings of run.  Starts that are not the supervisor's (boot, *)
(* Restart=on-failure, the operator) come at any moment.                   *)
(***************************************************************************)
EXTENDS PackageTransaction

VARIABLES
  record, keep,          \* none, intent, restart, torn; RestartActive in it
  phase, unit,           \* off, pre (ExecStartPre), run, end; the release of the process
  slipped,               \* the unit was starting or ending when it was read as stopped
  spc, job, seen,        \* the running supervisor: step, operation, first Active
  owed                   \* the unit that was active when an operation set out to stop
                         \* it has not started since

systemd == <<phase, unit, slipped>>
supervisor == <<record, keep, systemd, spc, job, seen, owed>>
allVars == <<vars, supervisor>>

Job ==
  [kind : {"apply"}, release : Release, policy : Policy, exe : Exe]
  \union [kind : {"rollback"}, release : Release, policy : {0}, exe : Exe]
  \union [kind : {"recover"}, release : {0}, policy : {0}, exe : Exe]
NoJob == [kind |-> "none"]

SupervisedInit ==
  /\ Init
  /\ record = "none" /\ keep = FALSE
  /\ phase = "off" /\ unit = 0 /\ slipped = FALSE
  /\ spc = "idle" /\ job = NoJob /\ seen = FALSE
  /\ owed = FALSE

(* PreflightApply, PreflightRollback, PreflightRecover. *)
InPlace(j) ==
  \/ j.kind = "apply" /\ ApplyAgain(j.release, j.policy, j.exe)
  \/ j.kind = "recover" /\ RecoverNothing(j.exe)
Preflight(j) ==
  \/ InPlace(j)
  \/ j.kind = "apply" /\ (ApplyNew(j.release, j.policy, j.exe) \/ ApplyResume(j.release, j.policy, j.exe))
  \/ j.kind = "rollback" /\ RollbackAllowed(j.release, j.exe)
  \/ j.kind = "recover" /\ RecoverAllowed(j.exe)

Active == phase = "run"
Exit == spc' = "idle" /\ job' = NoJob /\ seen' = FALSE

(* run, up to the first write.  A refused preflight and an unreadable       *)
(* record return an error and change nothing.                              *)
Run(j) ==
  /\ spc = "idle" /\ record # "torn"
  /\ Preflight(j)
  /\ spc' = "record" /\ job' = j
  /\ UNCHANGED <<vars, record, keep, systemd, seen, owed>>

(* Mutant: a restart record is left as it is. *)
ReadRecordOnly ==
  /\ spc = "record"
  /\ IF record = "none"
     THEN spc' = "write" /\ seen' = Active /\ owed' = Active
     ELSE spc' = "stop" /\ UNCHANGED <<seen, owed>>
  /\ UNCHANGED <<vars, record, keep, systemd, job>>

(* A restart record goes back to intent; an intent is continued; without   *)
(* either the unit's state is read.                                        *)
ReadRecord ==
  /\ spc = "record"
  /\ IF record = "none"
     THEN spc' = "write" /\ seen' = Active /\ owed' = Active /\ UNCHANGED record
     ELSE spc' = "stop" /\ record' = "intent" /\ UNCHANGED <<seen, owed>>
  /\ UNCHANGED <<vars, keep, systemd, job>>

(* writePackageSupervisorIntent *)
WriteIntent ==
  /\ spc = "write"
  /\ record' = "intent" /\ keep' = seen
  /\ spc' = "stop" /\ seen' = FALSE
  /\ UNCHANGED <<vars, systemd, job, owed>>

(* The process dies between creating the intent file and syncing it. *)
TearIntent ==
  /\ spc = "write" /\ crashes < MaxCrashes
  /\ record' = "torn"
  /\ Exit /\ crashes' = crashes + 1 /\ owed' = FALSE
  /\ UNCHANGED <<disk, pc, call, mine, outcome, keep, systemd>>

Off == phase' = "off" /\ unit' = 0 /\ slipped' = FALSE

(* The second reading: systemctl stop, which waits, for a unit that runs. *)
StopUnit ==
  /\ spc = "stop"
  /\ IF Active THEN Off ELSE UNCHANGED systemd
  /\ spc' = "check"
  /\ UNCHANGED <<vars, record, keep, job, seen, owed>>

(* Mutant: the operation begins on the second reading. *)
CheckNothing ==
  /\ spc = "check"
  /\ spc' = "operate" /\ slipped' = (phase \in {"pre", "end"})
  /\ UNCHANGED <<vars, record, keep, phase, unit, job, seen, owed>>

(* The third reading: "role runtime remained active after stop". *)
Check ==
  /\ spc = "check"
  /\ IF Active THEN Exit ELSE spc' = "operate" /\ UNCHANGED <<job, seen>>
  /\ slipped' = (phase \in {"pre", "end"} \/ slipped)
  /\ UNCHANGED <<vars, record, keep, phase, unit, owed>>

(* operation(): the engine decides again, and runs. *)
Operate ==
  /\ spc = "operate"
  /\ \/ /\ InPlace(job) /\ Nothing
        /\ spc' = "settle"
     \/ /\ \/ job.kind = "apply" /\ Apply(job.release, job.policy, job.exe)
           \/ job.kind = "rollback" /\ Rollback(job.release, job.exe)
           \/ job.kind = "recover" /\ Recover(job.exe)
        /\ spc' = "engine"
  /\ UNCHANGED <<record, keep, systemd, job, seen, owed>>

Engine ==
  /\ spc = "engine"
  /\ Step
  /\ IF pc' = "idle" /\ outcome' # "ok" THEN Exit
     ELSE spc' = (IF pc' = "idle" THEN "settle" ELSE "engine") /\ UNCHANGED <<job, seen>>
  /\ UNCHANGED <<record, keep, systemd, owed>>
EngineFails ==
  /\ spc = "engine"
  /\ StageFails \/ Interrupt
  /\ Exit
  /\ UNCHANGED <<record, keep, systemd, owed>>

(* The operation is complete: the intent becomes the obligation to restart, *)
(* or goes.                                                                *)
Settle ==
  /\ spc = "settle"
  /\ IF keep THEN record' = "restart" /\ spc' = "start" /\ UNCHANGED <<job, seen>>
             ELSE record' = "none" /\ Exit
  /\ UNCHANGED <<vars, keep, systemd, owed>>

(* systemctl start: a unit that runs or is starting is left to it, one that *)
(* is ending is waited for.                                                *)
StartUnit ==
  /\ spc = "start" /\ phase # "end"
  /\ phase' = IF phase = "off" THEN "pre" ELSE phase
  /\ spc' = "remove"
  /\ UNCHANGED <<vars, record, keep, unit, slipped, job, seen, owed>>

(* systemctl start returns when ExecStartPre has; the restart record goes   *)
(* only when the unit is then active.                                      *)
RemoveRecord ==
  /\ spc = "remove" /\ phase # "pre"
  /\ IF Active THEN record' = "none" /\ keep' = FALSE /\ owed' = FALSE
               ELSE UNCHANGED <<record, keep, owed>>
  /\ Exit
  /\ UNCHANGED <<vars, systemd>>

(* A call to systemd or the file system fails, or the process dies. *)
SupervisorFails ==
  /\ spc \notin {"idle", "engine"}
  /\ crashes < MaxCrashes /\ crashes' = crashes + 1
  /\ Exit
  /\ owed' = (owed /\ spc # "write")
  /\ UNCHANGED <<disk, pc, call, mine, outcome, record, keep, systemd>>

(* systemd: a start of its own begins; ExecStartPre ends and the connector  *)
(* runs, or does not; the process is told to end, and is gone.             *)
UnitBegins ==
  /\ phase = "off" /\ record \notin {"intent", "torn"}
  /\ phase' = "pre"
  /\ UNCHANGED <<vars, record, keep, unit, slipped, spc, job, seen, owed>>
UnitRuns ==
  /\ phase = "pre" /\ active # 0
  /\ phase' = "run" /\ unit' = active
  /\ owed' = (owed /\ (spc = "write" \/ record = "intent"))
  /\ UNCHANGED <<vars, record, keep, slipped, spc, job, seen>>
UnitEnds ==
  /\ phase = "run"
  /\ phase' = "end"
  /\ UNCHANGED <<vars, record, keep, unit, slipped, spc, job, seen, owed>>
UnitGone ==
  /\ phase # "off" /\ Off
  /\ UNCHANGED <<vars, record, keep, spc, job, seen, owed>>

Proceed ==
  \/ ReadRecord \/ WriteIntent \/ StopUnit \/ Check \/ Operate \/ Engine \/ Settle
  \/ StartUnit \/ RemoveRecord
SupervisedNext ==
  \/ spc = "idle" /\ \E j \in Job : Run(j)
  \/ Proceed \/ TearIntent \/ EngineFails \/ SupervisorFails
  \/ UnitBegins \/ UnitRuns \/ UnitEnds \/ UnitGone

SupervisedSpec == SupervisedInit /\ [][SupervisedNext]_allVars

(* The supervisor runs on, and the operator repeats package-recover and the *)
(* package-apply that was interrupted.                                     *)
Applies == {j \in Job : j.kind = "apply"}
Recoveries == {j \in Job : j.kind = "recover"}
RecoverAgain == spc = "idle" /\ \E j \in Recoveries : Run(j)
ApplyItAgain == spc = "idle" /\ Interrupted /\ \E j \in Applies : Run(j)
SupervisedFair ==
  /\ WF_allVars(Proceed)
  /\ SF_allVars(RecoverAgain)
  /\ SF_allVars(ApplyItAgain)

-----------------------------------------------------------------------------
(* Properties. *)

(* The unit runs only the release the link names, and never while a         *)
(* transaction is unfinished: neither a start by systemd at the wrong moment *)
(* nor a supervisor that died at any step leaves a half-switched role       *)
(* running.  One start escapes the supervisor, and only one: a unit that    *)
(* was activating, or deactivating, at the third reading, which Active      *)
(* calls stopped; it may run the old release, or none that is complete,     *)
(* until it ends.                                                           *)
RunsComplete == unit # 0 => (unit = active /\ ~Interrupted) \/ slipped

(* A unit that was active when an operation set out to stop it is never     *)
(* forgotten: from the intent on, until it runs again, there is a record on *)
(* disk that obliges the next operation to restart it, however often        *)
(* operations fail and systemd starts and stops the unit in between.        *)
RestartObligation == owed /\ spc # "write" => record \in {"intent", "restart"} /\ keep

(* The three together, in every state of the host: whole releases, a unit   *)
(* that runs a complete one, and a restart that is never forgotten.         *)
RoleServed == EndpointsWhole /\ RunsComplete /\ RestartObligation

(* What a process stopped between creating a directory or a stage and giving *)
(* it its group left behind.  package-apply refuses it as residue, and      *)
(* package-recover refuses a journal that is still planned, so it stays     *)
(* until it is removed by hand.                                             *)
Orphaned == bare # "none" /\ pc = "idle"

(* An install over an active release that was interrupted, at any step and  *)
(* again while being continued, is completed by repeating package-recover   *)
(* and the original package-apply, unless one of the interruptions left an  *)
(* orphan.                                                                  *)
UpgradeHeals ==
  (Interrupted /\ journal.op = "install" /\ journal.before.current # 0)
    ~> (journal.phase = "complete" \/ Orphaned)
=============================================================================
