SPECIFICATION FairDeadlines
CONSTANTS
  Phase = 3
  IdleLimit = 2
  Lifetime = 3
  LeafEnd = 2
  Drain = 1
  MaxClock = 8
INVARIANTS
  EndsWithLeaf
