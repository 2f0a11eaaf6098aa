CONSTANTS
  None = None
  Requests = {r1, r2}
  Browsers = {b1, b2}
  Ids = {i1, i2, i3}
  Signals = {s1, s2}
  MaxSessions = 1
  IdleTime = 1
  MaxTime = 3
SPECIFICATION Spec
SYMMETRY Symmetry
INVARIANTS
  TypeOK
  AgentsAccountedFor
  PopulationBounded
  WalletsArePrivate
PROPERTIES
  ClosedForCause
