------------------------------- MODULE MCCredoRun -------------------------------
(***************************************************************************)
(* One DID with a chain that expires after the first moment, and the chain *)
(* of a renewed certificate under the same authority and subject (so the   *)
(* same DID).  The mirrored key is the one whose point has the same x: the *)
(* upload's comparison of keys lets it through.                            *)
(***************************************************************************)
EXTENDS CredoRun

Identity(chain, key) == [did |-> "did", chain |-> chain, key |-> key]

MCIdentities ==
  { Identity("first", "k1"), Identity("renewed", "mirrored"), Identity("first", None) }

MCLeafKey == [first |-> "k1", renewed |-> "k2"]

\* Leaf and root.
MCWindows ==
  [pair \in {"did"} \X {"first", "renewed"} |->
     IF pair[2] = "first" THEN {{0}, {0, 1}} ELSE {{0, 1}}]
=================================================================================
