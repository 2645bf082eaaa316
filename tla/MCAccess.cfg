SPECIFICATION AccessSpec
CONSTANTS
  e1 = e1  s1 = s1  s2 = s2  s3 = s3  ann = ann  bob = bob  None = None
  Epoch = {e1}
  Session = {s1, s2, s3}
  Client = {ann, bob}
  InnerClient <- MCInnerClient
  Capability = TRUE
  Pending = 2  Active = 2  ActivePerClient = 1
  ReconnectMin = 1  ReconnectMax = 3
  Interval = 3  Capacity = 6  Rounding = 1  MaxLag = 1  MaxTime = 6
  q1 = q1  q2 = q2  q3 = q3  ip1 = ip1  ip2 = ip2
  Request = {q1, q2, q3}
  Peer = {ip1, ip2}
  PeerOf <- TwoPeers
  MaxActive = 2  MaxPeerActive = 1  MaxPeers = 1
  GlobalRate = 1  GlobalBurst = 2  PeerRate = 2  PeerBurst = 2
  IdleTime = 0  MaxGuardTime = 3
INVARIANTS
  SessionGate
  RateBound
  PatienceIsServed
  UnitsExact
PROPERTIES
  NobodyLeftWaiting
