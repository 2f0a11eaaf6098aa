CONSTANTS
  None = None
  Garbage = Garbage
  Scalar <- MCScalar
  Calls = {c1}
  Certificates <- MCCertificates
  Chains <- MCChains
  Dids <- MCDids
  MaxTime = 3
SPECIFICATION Spec
INVARIANTS
  TypeOK
  ResolvedPathIsSound
  PinnedAuthorityVouches
  ResolvedWhileValid
PROPERTIES
  ImplementsResolutionSpec
  EveryCallSettles
