---------------------------- MODULE MCLifecycles ----------------------------
(* Pairing, PackageSupervisor and RelaySetup for TLC: three lifecycles that  *)
(* are kept on disk and interrupted at any step.  They share no file, so a   *)
(* behaviour exercises one of them: two clients that hold one code, of which *)
(* the first may renew twice as well; the releases and policies of           *)
(* MCPackageTransaction; or the relay host with three images.                *)
EXTENDS Pairing, PackageSupervisor, MCPackageTransaction, RelaySetup

CONSTANTS c1, c2

VARIABLE part

OneRenews == [c \in Clients |-> IF c = c1 THEN 3 ELSE 1]

LifecyclesInit ==
    /\ part \in {"pairing", "package", "relay"}
    /\ PairingInit /\ SupervisedInit /\ RelayInit
    /\ part # "relay" => files.site = "none"
LifecyclesNext ==
    \/ part = "pairing" /\ PairingNext /\ UNCHANGED <<part, allVars, relayVars>>
    \/ part = "package" /\ SupervisedNext /\ UNCHANGED <<part, pairingVars, relayVars>>
    \/ part = "relay" /\ RelayNext /\ UNCHANGED <<part, pairingVars, allVars>>

\* The fairness of each module (PairingFair, SupervisedFair, RelayFair) in the
\* behaviours that exercise it.
PairingHere == part = "pairing"
PackageHere == part = "package"
RelayHere == part = "relay"
LifecyclesSpec ==
    /\ LifecyclesInit /\ [][LifecyclesNext]_<<part, pairingVars, allVars, relayVars>>
    /\ <>[][PairingHere => Calm]_pairingVars
    /\ \A c \in Clients : WF_pairingVars(PairingHere /\ ClientProceeds(c))
    /\ WF_allVars(PackageHere /\ Proceed)
    /\ SF_allVars(PackageHere /\ RecoverAgain)
    /\ SF_allVars(PackageHere /\ ApplyItAgain)
    /\ WF_relayVars(RelayHere /\ ManagerStep)
    /\ WF_relayVars(RelayHere /\ Journalled /\ Setup)

\* Work that was interrupted on disk is brought to an end: an upgrade of the
\* package is completed (lifecycle_unix.go), unless it was stopped between
\* creating a directory or a stage and giving it its group (UpgradeHeals), and
\* every journal of the relay's setup is cleared (upgrade_linux.go,
\* migration_transaction_linux.go).
LifecyclesSettle == UpgradeHeals /\ JournalsClear
=============================================================================
