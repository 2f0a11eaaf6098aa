CONSTANTS
  None = None
  Runs = {r1, r2}
  Identities <- MCIdentities
  Throughs = {1, 7}
  Addons = {"odd"}
  LeafKey <- MCLeafKey
  CoreWindows <- MCWindows
  NativeWindows <- MCWindows
  MaxTime = 1
SPECIFICATION Spec
INVARIANTS
  TypeOK
  AloneVerifiesItsOwn
  ValidTracesToChain
  EngineReportedTruly
PROPERTIES
  EveryRunEnds
