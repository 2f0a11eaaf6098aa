\* Two fetches in flight; a chain that signs JSON-LD only and that Askar takes,
\* and one that signs SD-JWT and mDoc, has a mirrored key and Askar does not take.
CONSTANTS
  None = None
  ed = ed
  ec = ec
  c1 = c1
  c2 = c2
  Chains = {ed, ec}
  KeyType <- MCKeyType
  Typed <- MCTyped
  Templates = {"badge", "licence"}
  Offered <- MCOffered
  Throughs = {2, 6}
  Calls = {c1, c2}

SPECIFICATION Spec
SYMMETRY Symmetry

INVARIANTS TypeOK ButtonsAgree StaleOnlyIfOvertaken KeyGoesWithChain NoButtonStuck

PROPERTIES NothingStartsOverARun
