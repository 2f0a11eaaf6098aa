---------------------------- MODULE MCDidResolution ----------------------------
(***************************************************************************)
(* Certificates, chains and DIDs for TLC.  The good certificates are leaf, *)
(* mid and root; every other one differs from a good one in one respect a  *)
(* check looks at, and the chains combine them, so that each check is the  *)
(* only one to refuse some chain and the last to pass others.              *)
(***************************************************************************)
EXTENDS DidResolution, EcdsaSignature

Key(kind, id) == [kind |-> kind, id |-> id]
Name(cn) == [CN |-> cn]
Bc(ca, pathLen) == [ca |-> ca, pathLen |-> pathLen]

MCScalar == [leaf |-> "leaf", pctOrg |-> "org", org |-> "org", mail |-> "mail", sign |-> "sign", host |-> "host"]

Root == [ id |-> "root", subject |-> Name("root"), issuer |-> Name("root"), repeats |-> FALSE,
          key |-> Key("ok", "kr"), signedBy |-> Key("ok", "kr"), bc |-> Bc(TRUE, None),
          ku |-> None, from |-> 0, to |-> 3, san |-> {}, eku |-> {}, fulcio |-> None ]

Mid == [Root EXCEPT !.id = "mid", !.subject = Name("mid"), !.key = Key("ok", "km"), !.bc = Bc(TRUE, 0)]

Leaf == [Mid EXCEPT !.id = "leaf", !.issuer = Name("mid"), !.key = Key("ok", "kl"),
                    !.signedBy = Key("ok", "km"), !.bc = None, !.ku = {"digitalSignature"},
                    !.subject = [CN |-> "leaf", O |-> "org"],
                    !.san = {<<"email", "mail">>}, !.eku = {"sign"}, !.fulcio = <<"https", "host">>]

\* A second intermediate, between mid and the root, and one that renews mid's
\* own name (self-issued).
Upper == [Mid EXCEPT !.id = "upper", !.subject = Name("upper"), !.key = Key("ok", "ku"), !.bc = Bc(TRUE, 1)]
LowMid == [Mid EXCEPT !.id = "lowmid", !.issuer = Name("upper"), !.signedBy = Key("ok", "ku")]
Renewed == [Mid EXCEPT !.id = "renewed", !.issuer = Name("mid"), !.signedBy = Key("ok", "ko")]
OldMid == [Mid EXCEPT !.id = "oldmid", !.key = Key("ok", "ko"), !.bc = Bc(TRUE, 0)]

Leaves ==
  { Leaf,
    [Leaf EXCEPT !.to = 1],                            \* expires during the call
    [Leaf EXCEPT !.from = 2],                          \* becomes valid during it
    [Leaf EXCEPT !.signedBy = Key("ok", "kx")],        \* named, not signed, by mid
    [Leaf EXCEPT !.issuer = Name("other")],
    [Leaf EXCEPT !.repeats = TRUE],
    [Leaf EXCEPT !.key = Key("curve", "kl")],
    [Leaf EXCEPT !.key = Key("algorithm", "kl")],
    [Leaf EXCEPT !.ku = {"certSign"}],
    [Leaf EXCEPT !.ku = {"keyAgreement"}] }

Mids ==
  { Mid,
    [Mid EXCEPT !.to = 1],
    [Mid EXCEPT !.bc = None],
    [Mid EXCEPT !.bc = Bc(FALSE, None)],
    [Mid EXCEPT !.signedBy = Key("ok", "kx")],
    [Mid EXCEPT !.key = Key("algorithm", "km")] }

Roots ==
  { Root,
    [Root EXCEPT !.bc = Bc(TRUE, 1)],
    [Root EXCEPT !.bc = Bc(TRUE, 0)],                  \* one intermediate too few
    [Root EXCEPT !.bc = None],
    [Root EXCEPT !.to = 1],
    [Root EXCEPT !.repeats = TRUE],
    [Root EXCEPT !.key = Key("curve", "kr")] }

MCCertificates == Leaves \cup Mids \cup Roots \cup {Upper, LowMid, Renewed, OldMid}

\* The good root and mid also sign directly, and as a pair.
MCChains ==
  { <<l, m, r>> : l \in Leaves, m \in {Mid}, r \in {Root} }
    \cup { <<l, m, r>> : l \in {Leaf, [Leaf EXCEPT !.to = 1]}, m \in Mids, r \in Roots }
    \cup { <<l, Mid>> : l \in Leaves }
    \cup { <<Leaf, LowMid, Upper, r>> : r \in {Root, [Root EXCEPT !.bc = Bc(TRUE, 1)]} }
    \cup { <<Leaf, Renewed, OldMid, Root>>, <<Leaf, Garbage, Root>>, <<Leaf>>, <<>>, <<Mid, Leaf>> }

Policy(name, parts) == [name |-> name, parts |-> parts]

MCDid == [ prefix |-> TRUE, path |-> FALSE, query |-> FALSE, fragment |-> FALSE, alg |-> "sha256",
           fp |-> <<"sha256", "mid">>, policies |-> <<Policy("subject", <<"CN", "leaf">>)>> ]

MCDids ==
  { MCDid,
    [MCDid EXCEPT !.fragment = TRUE, !.fp = <<"sha256", "root">>],
    [MCDid EXCEPT !.fp = <<"sha256", "leaf">>],
    [MCDid EXCEPT !.alg = "sha512"],
    [MCDid EXCEPT !.alg = "md5"],
    [MCDid EXCEPT !.query = TRUE],
    [MCDid EXCEPT !.policies = <<>>],
    [MCDid EXCEPT !.policies = <<Policy("subject", <<"CN", "leaf", "O", "pctOrg">>), Policy("eku", <<"sign">>)>>],
    [MCDid EXCEPT !.policies = <<Policy("subject", <<"CN", "leaf", "CN", "leaf">>)>>],
    [MCDid EXCEPT !.policies = <<Policy("subject", <<"CN", "org">>)>>],
    [MCDid EXCEPT !.policies = <<Policy("san", <<"email", "mail">>), Policy("fulcio-issuer", <<"host">>)>>],
    [MCDid EXCEPT !.policies = <<Policy("san", <<"email", "mail">>), Policy("colour", <<"red">>)>>] }

-----------------------------------------------------------------------------
(* The conversion of an ECDSA signature on small strings; the theorems of   *)
(* EcdsaSignatureProofs are about all of them.                              *)

SomeBytes == {0, 1, 255}
Strings(widths) == UNION {[1..width -> SomeBytes] : width \in widths}
Encodings(coordinate) == {der \in Strings(1..3) : Encodes(der, coordinate)}

\* Whatever zeros its two DER integers have or lack, a signature keeps its
\* coordinates in the curve's width; without a width it does so exactly when
\* a coordinate fills it (derToRawEcdsaSignature).
ASSUME SignatureBytesKept ==
  \A width \in 1..2 : \A r, s \in [1..width -> SomeBytes] :
    \A derR \in Encodings(r), derS \in Encodings(s) :
      /\ RawSignature(derR, derS, width) = r \o s
      /\ (RawSignature(derR, derS, 0) = r \o s) <=> (width = 1 \/ r[1] # 0 \/ s[1] # 0)
=============================================================================
