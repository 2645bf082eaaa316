SPECIFICATION SessionsSpec
CONSTANTS
  k1 = k1
  k2 = k2
  k3 = k3
  c1 = c1
  c2 = c2
  r1 = r1
  ann = ann
  bob = bob
  p1 = p1
  None = None
  Carrier = {k1, k2, k3, c1, c2}
  Route = {r1}
  Client = {ann, bob}
  Pin = {p1}
  Identity <- MCIdentity
  OuterHandshakes = 2
  PendingGlobal = 2
  PendingPerRoute = 2
  PendingPerClient = 1
  ActiveGlobal = 2
  ActivePerRoute = 2
  ActivePerClient = 1
  ConnPending = 2
  ConnActive = 1
  Lease <- LeaseOf
  Renew <- RenewOf
  MaxNow = 4
  MaxChallenges = 2
  MaxBytes = 1
  MaxDisturbance = 1
  WireCapacity = 1
  ControlCapacity = 4
SYMMETRY MCSymmetry
INVARIANTS
  RendezvousAgrees
  LeaseHolds
  NeverStalls
