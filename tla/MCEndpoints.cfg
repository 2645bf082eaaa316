SPECIFICATION EndpointsSpec
CONSTANTS
  a = a  r = r  w1 = w1
  Workers = {w1, w2}
  MaxReplacements = 1
  MaxFloor = 1
  Opening = {a, b, r}
  Accepting = {r}
  MaxDials = 2
  MaxWrites = 1
  Slots = 2
  MaxApprovals = 2
  MaxGenerations = 2
  Phase = 2
  IdleLimit = 1
  Lifetime = 2
  LeafEnd = 3
  Drain = 1
  MaxClock = 6
INVARIANTS
  DenialHolds
  LinkSound
  WorkerSound
  DeadlinesHold
PROPERTIES
  AlarmLatched
  TokenNeverRegresses
  ComesBack
  EndpointsEnd
