SPECIFICATION EnrollmentSpec
CONSTANTS
  MaxStateGeneration = 7  MaxRecords = 4  MaxPolicySequence = 1  MaxFaults = 1
  Responses = {1, 2}
  Invitations = {i1, i2}
  MaxClock = 3  InvitationEnd = 3  RequestLife = 2
  MaxTranscripts = 2  MaxStored = 3  Issued = {1}  MaxSetupFaults = 1
  Values = {1, 2}  Inodes = {1, 2, 3, 4, 5}  MaxFileFaults = 2
SYMMETRY Symmetry
INVARIANTS
  Recoverable
  ServedIsAuthorised
  ExchangeSound
  SetupSurvives
  FilesWhole
PROPERTIES
  ActiveLineage
CHECK_DEADLOCK FALSE
