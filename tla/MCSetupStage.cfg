SPECIFICATION SetupSpec
CONSTANTS
  Invitations = {i1}
  MaxClock = 3  InvitationEnd = 3  RequestLife = 2
  MaxTranscripts = 2  MaxStored = 3  Issued = {1}  MaxSetupFaults = 0
INVARIANT
  StageResumesExact
CHECK_DEADLOCK FALSE
