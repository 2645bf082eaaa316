SPECIFICATION RoutesSpec
CONSTANTS
    r1 = r1  r2 = r2  A = A  B = B
    l1 = l1  l2 = l2  l3 = l3  c2 = c2
    Absent = Absent
    Routes = {r1}
    Roots = {A, B}
    Conns = {c1}
    ReceiverOf <- OneReceiver
    Ads <- TokenAds
    Offers <- NoOffers
    Legacy <- OldToken
    Validities = {2}
    MaxTime = 3  Ahead = 1  Grace = 1
    LiveTTL = 2  PendingTTL = 1
    RegLimit = 1  PendingLimit = 1  MaxRecords = 1
    Legs = {l1, l2, l3}
    Clients = {c1, c2}
    CarrierRoutes = {r1, r2}
    Kinds = {"pairing", "runtime"}
    RouteOf <- TwoRoutes
    KindOf <- SomePairing
    TermsOf <- SameTerms
    PendingMax <- Pending1
    RouteMax = 1  ActiveMax = 1  RouteActiveMax = 1
INVARIANTS RemovalIsFinal Restartable CarriersSound RemovalReachesAll
PROPERTIES ReopenIsDurable
CHECK_DEADLOCK FALSE
