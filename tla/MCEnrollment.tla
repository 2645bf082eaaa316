---------------------------- MODULE MCEnrollment ----------------------------
(* EnrollmentTarget, ClientSetup and SecureFile for TLC: the layers of an    *)
(* enrollment, each abstract in the one above it.  ClientSetup sees a target *)
(* as a lifecycle that takes or refuses a request and a response, the target *)
(* sees file operations that happen or not, SecureFile is their system       *)
(* calls; a behaviour exercises one layer.                                   *)
EXTENDS EnrollmentTarget, ClientSetup, SecureFile, TLC

VARIABLE layer

Symmetry == Permutations(Invitations)

EnrollmentInit ==
  /\ layer \in {"target", "setup", "file"}
  /\ TargetInit /\ SetupInit /\ FileInit
  /\ layer # "file" => view
EnrollmentNext ==
  \/ layer = "target" /\ TargetNext /\ UNCHANGED <<layer, setupVars, fileVars>>
  \/ layer = "setup" /\ SetupNext /\ UNCHANGED <<layer, targetVars, fileVars>>
  \/ layer = "file" /\ FileNext /\ UNCHANGED <<layer, targetVars, setupVars>>
EnrollmentSpec ==
  EnrollmentInit /\ [][EnrollmentNext]_<<layer, targetVars, setupVars, fileVars>>
=============================================================================
