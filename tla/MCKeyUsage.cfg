CONSTANTS
  None = None
  Garbage = Garbage
  Scalar <- MCScalar
  Calls = {c1}
  Certificates <- MCCertificates
  Chains <- MCChains
  Dids <- MCDids
  MaxTime = 0
SPECIFICATION Spec
INVARIANTS
  DocumentHasRelationship
