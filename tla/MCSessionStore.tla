----------------------------- MODULE MCSessionStore -----------------------------
(***************************************************************************)
(* Symmetry for TLC: requests, browsers and ids are only ever compared for *)
(* equality (the order of the Map is in the entries), signals likewise.    *)
(***************************************************************************)
EXTENDS SessionStore, TLC

Symmetry ==
  Permutations(Requests) \cup Permutations(Browsers) \cup Permutations(Ids) \cup Permutations(Signals)
=============================================================================
