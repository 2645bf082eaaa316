SPECIFICATION RelaysSpec
CONSTANTS
  k1 = k1
  k2 = k2
  d1 = d1
  c1 = c1
  c2 = c2
  r1 = r1
  ann = ann
  p1 = p1
  p2 = p2
  r2 = r2  A = A  l1 = l1
  None = None  Absent = Absent
  Routes <- TwoRoutes
  ReceiverOf <- OneReceiver
  Ads <- CacheAds
  Offers <- CacheOffers
  Roots = {A}
  Validities = {1}
  Legacy = {}
  Conns = {}
  MaxTime = 2  Ahead = 0  Grace = 1
  LiveTTL = 2  PendingTTL = 1
  RegLimit = 1  PendingLimit = 1  MaxRecords = 2
  Carrier = {k1, k2, d1, c1, c2}
  Route = {r1}
  Client = {ann}
  Pin = {p1}
  Identity <- OneRoute
  OuterHandshakes = 2
  PendingGlobal = 2
  PendingPerRoute = 2
  PendingPerClient = 2
  ActiveGlobal = 1
  ActivePerRoute = 1
  ActivePerClient = 1
SYMMETRY MCSymmetry
INVARIANTS
  PendingOnCurrentControl
  SendNeverBlocks
  SessionsSound
  CachesFollowPolicy
