---------------------------- MODULE MCCredoResolver ----------------------------
(***************************************************************************)
(* One DID and two chains for it, of which each engine takes another set:  *)
(* the engines do not agree on everything (core-divergences.json).  The    *)
(* old chain's leaf expires after the first moment.                        *)
(***************************************************************************)
EXTENDS CredoResolver

CONSTANTS did, old, renewed

Always == {{0, 1}}

Expiring == {{0}, {0, 1}}

Never == {{}}

MCCoreWindows == [pair \in {<<did, old>>, <<did, renewed>>} |-> IF pair[2] = old THEN Expiring ELSE Never]

MCNativeWindows ==
  [pair \in {<<did, old>>, <<did, renewed>>} |-> IF pair[2] = old THEN Expiring ELSE Always]
=============================================================================
