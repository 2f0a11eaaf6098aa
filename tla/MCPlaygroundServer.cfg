CONSTANTS
  None = None
  Garbage = Garbage
  Scalar <- MCScalar
  Shown <- MCShown
  Foreign <- MCForeign
  Wrapping <- MCWrapping
  MdocLife = 1
  Submissions <- OneSubmission
  Orders = {}
  Requested <- OneRequest
  Alterations = {}
  Pages = {p1, p2}
  AddonLoads = {TRUE, FALSE}
  Runs = {"all", "credo"}
  MaxTime = 0
SPECIFICATION Spec
INVARIANTS
  TypeOK
PROPERTIES
  EveryRequestAnswered
