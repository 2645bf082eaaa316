SPECIFICATION LifecyclesSpec
CONSTANTS
    c1 = c1  c2 = c2  None = None
    Clients = {c1, c2}
    MaxRetired = 1  MaxAttempts = 1  MaxRequests <- OneRenews
    MaxRelease = 3  MaxPolicy = 3
    Floor <- MCFloor  Tombs <- MCTombs  Files <- MCFiles  ReaderFiles <- MCReaderFiles
    MaxGen = 4  MaxCrashes = 2
    MaxImage = 3  MaxHostFaults = 4  UnlinkMisleads = FALSE
INVARIANTS PeersTogether RoleServed HostSound
PROPERTIES RetiredNeverPairs Recovers NeverDowngrades UpgradeAllOrNothing LifecyclesSettle
CHECK_DEADLOCK FALSE
