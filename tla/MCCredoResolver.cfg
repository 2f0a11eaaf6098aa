CONSTANTS
  None = None
  did = did
  old = old
  renewed = renewed
  Calls = {c1, c2}
  Dids = {did}
  Chains = {old, renewed}
  Modes = {"auto", "native", "core"}
  Addons = {"absent", "odd", "good"}
  CoreWindows <- MCCoreWindows
  NativeWindows <- MCNativeWindows
  MaxTime = 1
SPECIFICATION Spec
INVARIANTS
  TypeOK
  OneEngine
  NativeOnDemand
  ChainIsFresh
PROPERTIES
  EveryResolveSettles
