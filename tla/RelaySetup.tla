----------------------------- MODULE RelaySetup -----------------------------
(***************************************************************************)
(* The manager of one named relay on a server (internal/relaysetup): first *)
(* setup, upgrade, migration of a manually installed relay, uninstall, and *)
(* the recovery each of them runs.  Managers exclude each other with       *)
(* setup.lock, so one command runs at a time; every file it replaces,      *)
(* every systemctl command and every verification is a step of its own.  A *)
(* step can fail before or after it took effect, the manager can be killed *)
(* between two steps, and the server can lose power, after which systemd   *)
(* starts what is enabled.  An administrator may start the old unit.       *)
(*                                                                         *)
(* systemd, the container engine and the website are external: a unit is   *)
(* started as it was last loaded, its start hook must find the data of the *)
(* instance's binding, and a verification succeeds only when the expected  *)
(* image runs behind the expected route.  The relay's keys are never       *)
(* rewritten, so a data directory stands for the identity in it.  Image    *)
(* loading, provider adapters and the default instance are left out.       *)
(***************************************************************************)
EXTENDS Integers, Sequences

CONSTANTS MaxImage,       \* bound: image versions the package installs
          MaxHostFaults,  \* bound: failed steps, kills and power losses
          UnlinkMisleads  \* whether an unlink can fail after the name is gone
                          \* (the sync of its directory failed)

VARIABLES files,      \* units, records, journals, binding, website, data
          host,       \* what systemd has loaded, enabled and running; unseen: the
                      \* relay is stopped because a running one was read as stopped
          manager,    \* the running command: its program and position
          installed,  \* the relay image beside the installed executable
          hostFaults

relayVars == <<files, host, manager, installed, hostFaults>>

Images == 1 .. MaxImage
NoImage == 0
NoUnit == [image |-> NoImage, data |-> "none"]
NoIntent == [image |-> NoImage]
NoManager == [op |-> "none", at |-> 0]

(* The unit text selects the image and the data root of the binding.       *)
UnitOf(image, binding) == [image |-> image, data |-> binding]

Journalled ==
  files.pending # NoImage \/ files.upgrade # NoIntent \/ files.migration # NoIntent

-----------------------------------------------------------------------------
(* systemd                                                                 *)

(* ExecStartPre runs cleanup-container, which reads the instance's binding *)
(* and refuses when its data directory is not whole.                       *)
HookPasses == files.binding = "legacy" \/ (files.binding = "own" /\ files.data = "ready")

Startable(u) == u # NoUnit /\ HookPasses

(* Mutant: the old unit is left as it was while a migration runs. *)
NoMigrationGuard(u) == u # "none"

(* migrationGuard: ConditionPathExists=!migration.json in the old unit.    *)
OldStartable(u) == u = "plain" \/ (u = "guard" /\ files.migration = NoIntent)

Boots ==
  [host EXCEPT !.loaded = files.unit, !.loadedOld = files.oldUnit,
               !.running = IF host.enabled /\ Startable(files.unit) THEN files.unit ELSE NoUnit,
               !.runningOld = host.enabledOld /\ OldStartable(files.oldUnit),
               !.unseen = @ /\ ~(host.enabled /\ Startable(files.unit))]

-----------------------------------------------------------------------------
(* The commands as sequences of steps                                      *)

Upgrading ==
  <<"journal", "edit", "stop", "unit", "reload", "enable", "start", "verify", "save",
    "forget">>

Migrating ==
  <<"journal", "edit", "guard", "reload", "disableOld", "stopOld", "bind", "unit", "reload",
    "enable", "start", "verify", "save", "commit", "verify", "removeOld", "reload", "forget">>

Restoring ==
  <<"validate", "reroute", "stop", "unit", "save", "reload", "able", "restart", "verify", "forget">>

Steps(op) ==
  CASE op = "fresh" ->
         <<"mkdir", "init", "pend", "unit", "reload", "enable", "start", "edit", "verify",
           "save", "unpend">>
    [] op = "unfresh" -> <<"disable", "stop", "unedit">>
    [] op = "recoverFresh" -> <<"disable", "stop", "removeUnit">>
    [] op = "unpend" -> <<"unpend">>
    [] op = "confirm" -> <<"verify", "enable">>
    [] op = "upgrade" -> Upgrading
    [] op = "restore" -> Restoring
    [] op = "migrate" -> Migrating
    [] op = "restoreMigration" ->
         <<"validate", "reroute", "disable", "stop", "removeUnit", "unsave", "unbind", "unguard",
           "reload", "enableOld", "startOld", "verifyOld", "forget">>
    [] op = "finish" -> <<"validate", "verify", "removeOld", "reload", "forget">>
    [] op = "uninstall" -> <<"disable", "stop">>

At(step) == manager.at > 0 /\ Steps(manager.op)[manager.at] = step

Running(op, intent, then) ==
  [op |-> op, at |-> 1, image |-> intent.image, intent |-> intent, then |-> then,
   edited |-> "no"]

Only(image) == [image |-> image]   \* the intent of an operation without a journal

Selecting == [op |-> "select", at |-> 0]

Succeeded ==
  IF manager.at < Len(Steps(manager.op)) THEN [manager EXCEPT !.at = @ + 1]
  ELSE IF manager.then = "select" THEN Selecting ELSE NoManager

Since(step) == \E k \in 1 .. (manager.at - 1) : Steps(manager.op)[k] = step

(* What a command does about the error of a step: first setup disables     *)
(* what it started and rolls back the route it changed, an upgrade         *)
(* restores the previous relay, a migration the old one unless the verified *)
(* decision may be on disk; everything else ends the command.  disable     *)
(* --now does not stop a unit it could not disable.                        *)
RollsBack ==
  CASE manager.op = "fresh" /\ (At("pend") \/ Since("pend")) ->
         [Running("unfresh", manager.intent, "stop") EXCEPT
            !.edited = manager.edited,
            !.at = IF At("enable") \/ Since("enable") THEN 1 ELSE 3]
    [] manager.op = "unfresh" /\ ~At("unedit") -> [manager EXCEPT !.at = 3]
    [] manager.op = "upgrade" /\ Since("journal") -> Running("restore", manager.intent, "stop")
    [] manager.op = "migrate" /\ Since("journal") /\ ~At("commit") /\ ~Since("commit") ->
         Running("restoreMigration", manager.intent, "stop")
    [] OTHER -> NoManager

HostFault == hostFaults < MaxHostFaults /\ hostFaults' = hostFaults + 1

(* A step took effect; it may report an error all the same (a rename whose *)
(* directory sync failed, a command that timed out).                       *)
Done ==
  \/ manager' = Succeeded /\ UNCHANGED hostFaults
  \/ /\ At("forget") \/ At("unpend") => UnlinkMisleads
     /\ HostFault /\ manager' = RollsBack

-----------------------------------------------------------------------------
(* Files                                                                   *)

Writes(step, new) ==
  At(step) /\ files' = new /\ Done /\ UNCHANGED <<host, installed>>

(* Mkdir and Chown: a directory left without its owner is refused from     *)
(* then on ("unsafe relay data directory").                                *)
MakeData ==
  \/ /\ files.data # "raw"
     /\ Writes("mkdir", IF files.data = "none" THEN [files EXCEPT !.data = "dir"] ELSE files)
  \/ /\ At("mkdir") /\ files.data = "none" /\ HostFault
     /\ files' = [files EXCEPT !.data = "raw"] /\ manager' = RollsBack
     /\ UNCHANGED <<host, installed>>
  \/ /\ At("mkdir") /\ files.data = "raw" /\ manager' = RollsBack
     /\ UNCHANGED <<files, host, installed, hostFaults>>
InitData == Writes("init", [files EXCEPT !.data = "ready"])
Pend == Writes("pend", [files EXCEPT !.pending = manager.image])
Unpend == Writes("unpend", [files EXCEPT !.pending = NoImage])

(* is-active and is-enabled of an upgrade: any failure of the command is   *)
(* read as not running, or as not enabled.                                 *)
Readings == [active : BOOLEAN, enabled : BOOLEAN]
Truth == [active |-> host.running # NoUnit, enabled |-> host.enabled]
ReadAs(reading) ==
  \/ reading = Truth /\ UNCHANGED hostFaults
  \/ /\ reading # Truth /\ HostFault
     /\ reading.active => Truth.active
     /\ reading.enabled => Truth.enabled

(* The journal of an upgrade records the previous relay and whether it was *)
(* read as enabled and running, the one of a migration that it is          *)
(* prepared; both record the website route their edit starts from.         *)
UpgradeIntent(reading) ==
  [image |-> installed, previous |-> files.setup, site |-> files.site,
   enabled |-> reading.enabled, running |-> reading.active,
   unseen |-> host.unseen \/ reading.active # Truth.active]
MigrationIntent == [image |-> installed, phase |-> "prepared", site |-> files.site]

Journal ==
  Writes("journal",
    IF manager.op = "upgrade" THEN [files EXCEPT !.upgrade = manager.intent]
    ELSE [files EXCEPT !.migration = manager.intent])

WriteUnit ==
  Writes("unit",
    [files EXCEPT !.unit =
       UnitOf(IF manager.op = "restore" THEN manager.intent.previous ELSE manager.image,
              files.binding)])

SaveSetup ==
  Writes("save",
    [files EXCEPT !.setup =
       IF manager.op = "restore" THEN manager.intent.previous ELSE manager.image])

Unsave == Writes("unsave", [files EXCEPT !.setup = NoImage])
RemoveUnit == Writes("removeUnit", [files EXCEPT !.unit = NoUnit])
Guard == Writes("guard", [files EXCEPT !.oldUnit = "guard"])
Unguard == Writes("unguard", [files EXCEPT !.oldUnit = "plain"])
RemoveOld == Writes("removeOld", [files EXCEPT !.oldUnit = "none"])
Bind == Writes("bind", [files EXCEPT !.binding = "legacy"])
Unbind == Writes("unbind", [files EXCEPT !.binding = "own"])
CommitMigration == Writes("commit", [files EXCEPT !.migration.phase = "committed"])

Forget ==
  Writes("forget",
    IF manager.op \in {"upgrade", "restore"} THEN [files EXCEPT !.upgrade = NoIntent]
    ELSE [files EXCEPT !.migration = NoIntent])

(* route.apply: an error after the write is not always followed by apply's *)
(* own rollback, and only a successful apply counts as a change to undo.   *)
EditRoute ==
  /\ At("edit")
  /\ files' = [files EXCEPT !.site = "peer"]
  /\ \/ manager' = [Succeeded EXCEPT !.edited = IF files.site = "peer" THEN "no" ELSE files.site]
        /\ UNCHANGED hostFaults
     \/ HostFault /\ manager' = RollsBack
  /\ UNCHANGED <<host, installed>>

RestoreRoute ==
  Writes("reroute",
    [files EXCEPT !.site = manager.intent.site])

UneditRoute ==
  Writes("unedit", IF manager.edited = "no" THEN files ELSE [files EXCEPT !.site = manager.edited])

-----------------------------------------------------------------------------
(* systemctl commands and verifications                                    *)

Commands(step, new) ==
  At(step) /\ host' = new /\ Done /\ UNCHANGED <<files, installed>>

(* Mutant: a rollback enables the service it restores, also one that was not. *)
AbleAlways == Commands("able", [host EXCEPT !.enabled = TRUE])

Reload == Commands("reload", [host EXCEPT !.loaded = files.unit, !.loadedOld = files.oldUnit])
Enable == Commands("enable", [host EXCEPT !.enabled = TRUE])
Disable == Commands("disable", [host EXCEPT !.enabled = FALSE])
Able == Commands("able", [host EXCEPT !.enabled = manager.intent.enabled])
StopRelay == Commands("stop", [host EXCEPT !.running = NoUnit])
DisableOld == Commands("disableOld", [host EXCEPT !.enabledOld = FALSE])
StopOld == Commands("stopOld", [host EXCEPT !.runningOld = FALSE])
EnableOld == Commands("enableOld", [host EXCEPT !.enabledOld = TRUE])

(* systemctl start reports the failure of the start hook.                  *)
Start(step) ==
  IF Startable(host.loaded)
  THEN Commands(step,
         IF host.running = NoUnit THEN [host EXCEPT !.running = host.loaded, !.unseen = FALSE]
         ELSE host)
  ELSE At(step) /\ manager' = RollsBack /\ UNCHANGED <<files, host, installed, hostFaults>>

StartRelay == Start("start")

Restart ==
  /\ At("restart")
  /\ IF manager.intent.running THEN Start("restart")
     ELSE Commands("restart", [host EXCEPT !.unseen = manager.intent.unseen])

StartOld ==
  Commands("startOld", [host EXCEPT !.runningOld = @ \/ OldStartable(host.loadedOld)])

(* verifyRunningRelay: the expected image is running with the binding's    *)
(* data and the website has the expected route; a rollback that found no   *)
(* running relay has nothing to verify, and the end of a migration also    *)
(* wants the service enabled.                                              *)
RouteVerified == files.site = IF manager.op = "restore" THEN manager.intent.site ELSE "peer"

Verified ==
  LET expected == UnitOf(IF manager.op = "restore" THEN manager.intent.previous ELSE manager.image,
                         files.binding)
  IN /\ host.running = expected
     /\ RouteVerified
     /\ manager.op \in {"migrate", "finish"} => host.enabled

Verify ==
  /\ At("verify")
  /\ IF Verified \/ (manager.op = "restore" /\ ~manager.intent.running)
     THEN Done
     ELSE manager' = RollsBack /\ UNCHANGED hostFaults
  /\ UNCHANGED <<files, host, installed>>

VerifyOld ==
  /\ At("verifyOld")
  /\ IF host.runningOld /\ files.site = manager.intent.site
     THEN Done
     ELSE manager' = RollsBack /\ UNCHANGED hostFaults
  /\ UNCHANGED <<files, host, installed>>

(* Mutant: a rollback accepts only the unit the upgrade was writing. *)
RecognizedNextOnly ==
  /\ manager.op = "restore" => files.unit = UnitOf(manager.image, files.binding)
  /\ manager.op = "restoreMigration" => files.oldUnit \in {"plain", "guard"}

(* restoreManaged and the migration's recovery accept only the recorded    *)
(* generations of what they are about to overwrite.                        *)
Recognized ==
  /\ manager.op = "restore" =>
       /\ files.unit \in {UnitOf(i, files.binding) : i \in {manager.intent.previous, manager.image}}
       /\ files.setup \in {manager.intent.previous, manager.image}
  /\ manager.op = "restoreMigration" =>
       /\ files.oldUnit \in {"plain", "guard"}
       /\ files.unit \in {NoUnit, UnitOf(manager.image, "legacy")}
       /\ files.setup \in {NoImage, manager.image}
       /\ files.data = "none"
  /\ manager.op = "finish" =>
       /\ files.binding = "legacy" /\ files.setup = manager.image
       /\ files.unit = UnitOf(manager.image, "legacy")
       /\ files.oldUnit \in {"guard", "none"}

Validate ==
  /\ At("validate")
  /\ IF Recognized THEN Done ELSE manager' = NoManager /\ UNCHANGED hostFaults
  /\ UNCHANGED <<files, host, installed>>

-----------------------------------------------------------------------------
(* Commands                                                                *)

(* reserveInstance writes the binding of a URL that has none.              *)
Reserved == IF files.binding = "none" THEN [files EXCEPT !.binding = "own"] ELSE files

(* recoverFresh: a pending setup that was saved only drops its journal;    *)
(* another one loses the unit it had written.                              *)
RecoverFresh ==
  IF files.setup = files.pending THEN Running("unpend", Only(installed), "select")
  ELSE IF files.unit = NoUnit THEN Selecting
  ELSE Running("recoverFresh", Only(installed), "select")

(* ApplySetup under the lock: an unfinished migration is finished or       *)
(* undone first, else the instance is reserved and first setup's or an     *)
(* upgrade's leftovers are recovered.                                      *)
Setup ==
  /\ manager = NoManager
  /\ files' = Reserved
  /\ manager' =
       CASE files.migration # NoIntent /\ files.migration.phase = "committed" ->
              Running("finish", files.migration, "stop")
         [] files.migration # NoIntent /\ files.migration.phase = "prepared" ->
              Running("restoreMigration", files.migration, "select")
         [] files.migration = NoIntent /\ files.pending # NoImage ->
              RecoverFresh
         [] files.migration = NoIntent /\ files.pending = NoImage /\ files.upgrade # NoIntent ->
              Running("restore", files.upgrade, "select")
         [] OTHER -> Selecting
  /\ UNCHANGED <<host, installed, hostFaults>>

(* discoverManual: the old relay is whole, active, enabled and routed.     *)
ManualFound ==
  files.oldUnit = "plain" /\ host.loadedOld = "plain" /\ host.enabledOld /\ host.runningOld

(* incompleteReservation: the destination owns no relay state.             *)
Unowned ==
  /\ files.setup = NoImage /\ files.upgrade = NoIntent /\ files.data = "none"
  /\ files.pending = NoImage /\ files.unit = NoUnit
  /\ host.running = NoUnit /\ ~host.enabled

(* After recovery: upgrade a saved relay (or only verify it when nothing   *)
(* would change), migrate a manual one, or set up a new one; a saved relay *)
(* whose unit or container is not the saved one is refused.                *)
SavedUnit == UnitOf(files.setup, files.binding)
UpgradeOrConfirm(reading) ==
  IF files.unit # SavedUnit \/ host.running \notin {NoUnit, SavedUnit} THEN NoManager
  ELSE IF files.setup = installed /\ reading.active /\ files.site = "peer"
  THEN Running("confirm", Only(installed), "stop")
  ELSE Running("upgrade", UpgradeIntent(reading), "stop")
MigrateOrSetUp ==
  IF ManualFound
  THEN IF Unowned THEN Running("migrate", MigrationIntent, "stop") ELSE NoManager
  ELSE IF host.runningOld \/ host.running # NoUnit THEN NoManager
  ELSE Running("fresh", Only(installed), "stop")
Select ==
  /\ manager = Selecting
  /\ IF files.setup # NoImage
     THEN \E reading \in Readings : ReadAs(reading) /\ manager' = UpgradeOrConfirm(reading)
     ELSE manager' = MigrateOrSetUp /\ UNCHANGED hostFaults
  /\ UNCHANGED <<files, host, installed>>

(* prepareUninstall refuses while an operation is pending.                 *)
Uninstall ==
  /\ manager = NoManager /\ ~Journalled /\ files.setup # NoImage
  /\ files.unit = UnitOf(files.setup, files.binding)
  /\ host.running \in {NoUnit, files.unit}
  /\ manager' = Running("uninstall", Only(files.setup), "stop")
  /\ UNCHANGED <<files, host, installed, hostFaults>>

(* The package is upgraded: a new image lies beside the executable.        *)
InstallPackage ==
  /\ manager = NoManager /\ installed < MaxImage
  /\ installed' = installed + 1
  /\ UNCHANGED <<files, host, manager, hostFaults>>

StepFails ==
  /\ manager.at > 0 /\ HostFault
  /\ manager' = RollsBack
  /\ UNCHANGED <<files, host, installed>>

ManagerKilled ==
  /\ manager # NoManager /\ HostFault
  /\ manager' = NoManager
  /\ UNCHANGED <<files, host, installed>>

PowerLoss ==
  /\ HostFault
  /\ manager' = NoManager /\ host' = Boots
  /\ UNCHANGED <<files, installed>>

AdministratorStartsOld ==
  /\ ~host.runningOld /\ OldStartable(host.loadedOld)
  /\ host' = [host EXCEPT !.runningOld = TRUE]
  /\ UNCHANGED <<files, manager, installed, hostFaults>>

-----------------------------------------------------------------------------
(* A new server, one with a manually installed relay, or one whose managed *)
(* relay an earlier release set up, its route without the peer header.     *)
RelayInit ==
  /\ \E found \in {"nothing", "manual", "managed"} :
       LET manual == found = "manual"
           managed == found = "managed"
           first == IF managed THEN UnitOf(1, "own") ELSE NoUnit
           oldUnit == IF manual THEN "plain" ELSE "none" IN
       /\ files = [unit |-> first, oldUnit |-> oldUnit, setup |-> first.image,
                   pending |-> NoImage, upgrade |-> NoIntent, migration |-> NoIntent,
                   binding |-> IF managed THEN "own" ELSE "none",
                   site |-> IF found = "nothing" THEN "none" ELSE "plain",
                   data |-> IF managed THEN "ready" ELSE "none"]
       /\ host = [loaded |-> first, loadedOld |-> oldUnit, enabled |-> managed,
                  enabledOld |-> manual, running |-> first, runningOld |-> manual,
                  unseen |-> FALSE]
  /\ manager = NoManager /\ installed = 1 /\ hostFaults = 0

ManagerStep ==
  \/ MakeData \/ InitData \/ Pend \/ Unpend \/ Journal \/ WriteUnit \/ SaveSetup \/ Unsave
  \/ RemoveUnit \/ Guard \/ Unguard \/ RemoveOld \/ Bind \/ Unbind \/ CommitMigration \/ Forget
  \/ EditRoute \/ RestoreRoute \/ UneditRoute \/ Reload \/ Enable \/ Disable \/ Able \/ StopRelay
  \/ DisableOld \/ StopOld \/ EnableOld \/ StartRelay \/ Restart \/ StartOld \/ Verify \/ VerifyOld
  \/ Validate \/ Select

RelayNext ==
  \/ ManagerStep
  \/ Setup \/ Uninstall \/ InstallPackage
  \/ StepFails \/ ManagerKilled \/ PowerLoss \/ AdministratorStartsOld

RelaySpec == RelayInit /\ [][RelayNext]_relayVars

(* A running command goes on until it ends, and while a journal is left    *)
(* the administrator runs setup again, as every error message asks.        *)
RelayFair ==
  /\ WF_relayVars(ManagerStep)
  /\ WF_relayVars(Journalled /\ Setup)

-----------------------------------------------------------------------------
(* Migration moves a data directory from the old unit to the managed one:  *)
(* no step, crash, reboot, rollback or start by hand ever has both relays  *)
(* running on it.                                                          *)
OneRelayPerData == ~(host.runningOld /\ host.running.data = "legacy")

(* When no command runs and no journal is left, the host is in one of the  *)
(* states setup promises: the saved image is the one in the unit, loaded,  *)
(* and running whenever enabled, on the binding's data, with the old unit  *)
(* gone if the data was its; or nothing is saved and an old relay is as it *)
(* was.  An enabled relay is stopped only after an upgrade that failed had *)
(* failed to see it run: is-active returned an error and the rollback      *)
(* restores what was read (unseen).                                        *)
QuietIsConsistent ==
  manager = NoManager /\ ~Journalled =>
    IF files.setup # NoImage
    THEN /\ files.unit = UnitOf(files.setup, files.binding) /\ host.loaded = files.unit
         /\ host.running \in {NoUnit, files.unit}
         /\ host.enabled => host.running = files.unit \/ host.unseen
         /\ files.binding = "legacy" => files.oldUnit = "none" /\ ~host.runningOld
    ELSE /\ files.unit = NoUnit /\ host.running = NoUnit /\ ~host.enabled
         /\ files.binding # "legacy"
         /\ files.oldUnit # "none" => host.runningOld /\ host.enabledOld

(* The host at every instant: never two relays on one data directory, and  *)
(* a promised state whenever nothing is going on.                          *)
HostSound == OneRelayPerData /\ QuietIsConsistent

(* An upgrade's journal is removed only when the upgrade is complete or    *)
(* everything it recorded, as it was read, is as before: image, unit,      *)
(* website route, enablement and whether the relay runs.                   *)
UpgradeAllOrNothing ==
  [][LET j == files.upgrade IN
     j # NoIntent /\ files'.upgrade = NoIntent =>
       \/ /\ files'.setup = j.image /\ files'.site = "peer"
          /\ host'.enabled /\ host'.running = files'.unit
          /\ files'.unit = UnitOf(j.image, files'.binding)
       \/ /\ files'.setup = j.previous /\ files'.site = j.site
          /\ files'.unit = UnitOf(j.previous, files'.binding) /\ host'.loaded = files'.unit
          /\ host'.enabled = j.enabled
          /\ host'.running = IF j.running THEN files'.unit ELSE NoUnit]_relayVars

(* Whatever was interrupted, running setup again clears every journal.     *)
JournalsClear == Journalled ~> ~Journalled
=============================================================================
