CONSTANTS
  None = None
  Calls = {c1, c2, c3}
  Asked <- MCAsked
  Verdict <- MCVerdict
  Workers = 2
  Heap = 2
SPECIFICATION Spec
INVARIANTS
  TypeOK
  StringsOwned
  AnswersItsOwnCall
PROPERTIES
  EveryCallSettles
