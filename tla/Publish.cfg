SPECIFICATION PubFairSpec
CONSTANTS
  Publications = {"p1", "p2", "p3", "p4"}
  Clones = {"c1", "c2"}
  CloneOf <- CloneUsed
  EventOf <- EventTold
  PayloadOf <- PayloadTold
  Pushes = {"p1", "p3", "p4"}
  EnsuresPr = {"p1"}
  MaxFailures = 2
INVARIANTS
  EventOnce
  SuccessIsPushed
PROPERTIES
  GetsThrough
CHECK_DEADLOCK FALSE
