CONSTANTS
  None = None
  Garbage = Garbage
  Scalar <- MCScalar
  Shown <- MCShown
  Foreign <- MCForeign
  Wrapping <- MCWrapping
  MdocLife = 1
  Submissions <- MCSubmissions
  Orders <- MCOrders
  Requested <- MCRequested
  Alterations = {"none", "content", "issuer", "chain", "wrapping", "elements", "disclosures"}
  Pages = {}
  AddonLoads = {}
  Runs = {}
  MaxTime = 2
SPECIFICATION Spec
INVARIANTS
  SignedAsAsked
  MatrixTellsTruth
PROPERTIES
  PassMeansGenuine
  UntouchedVerifies
  BlameIsEarned
