CONSTANTS
  None = None
  Garbage = Garbage
  Scalar <- MCScalar
  Shown <- MCShown
  Foreign <- MCForeign
  Wrapping <- MCWrapping
  MdocLife = 1
  Submissions <- OneSubmission
  Orders = {}
  Requested <- OneRequest
  Alterations = {}
  Pages = {p1}
  AddonLoads = {TRUE}
  Runs = {}
  MaxTime = 0
SPECIFICATION Spec
PROPERTIES
  MdocUnaffected
