SPECIFICATION FairSpec
CONSTANTS
  k1 = k1
  k2 = k2
  d1 = d1
  c1 = c1
  c2 = c2
  r1 = r1
  ann = ann
  p1 = p1
  p2 = p2
  None = None
  Carrier = {k1, k2, d1, c1}
  Route = {r1}
  Client = {ann}
  Pin = {p1, p2}
  Identity <- Live
  OuterHandshakes = 2
  PendingGlobal = 2
  PendingPerRoute = 2
  PendingPerClient = 2
  ActiveGlobal = 1
  ActivePerRoute = 1
  ActivePerClient = 1
PROPERTIES
  NothingLingers
