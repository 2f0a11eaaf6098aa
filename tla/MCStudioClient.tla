----------------------------- MODULE MCStudioClient -----------------------------
(* Chains whose keys sign different formats, and templates that differ.    *)
EXTENDS StudioClient, TLC

CONSTANTS ed, ec, c1, c2

MCKeyType == ed :> "Ed25519" @@ ec :> "P-521"

\* One key goes with its chain, one only by the x of its point.
MCTyped == {LeafKey(ed), [of |-> ec, mirrored |-> TRUE]}

MCOffered == "badge" :> {"jsonld", "sd-jwt"} @@ "licence" :> {"mdoc"}

Symmetry == Permutations(Calls)
=============================================================================
