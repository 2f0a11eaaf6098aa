------------------------------ MODULE X509Chain ------------------------------
(***************************************************************************)
(* The pure part of @didx509/core: what typescript/src/x509.ts asks of a   *)
(* certificate chain and what typescript/src/didx509.ts asks of a DID      *)
(* against that chain.  Nothing here has state; DidResolution calls these  *)
(* operators at the points where the code calls the functions.             *)
(*                                                                         *)
(* A chain is a sequence, leaf first, so the code's index i is position    *)
(* i + 1.  A certificate is a record                                       *)
(*   id        stands for the DER bytes (two certificates with the same    *)
(*             bytes have the same fingerprints; hashes do not collide)    *)
(*   subject   function from attribute label to value; issuer likewise     *)
(*   repeats   an attribute type occurs twice in subject or issuer         *)
(*   key       [kind, id]: the public key, kind as in KeyKinds             *)
(*   signedBy  the key the signature verifies under                        *)
(*   bc        None, or the BasicConstraints [ca, pathLen]                 *)
(*   ku        None, or the set of KeyUsage bits                           *)
(*   from, to  notBefore and notAfter                                      *)
(*   san, eku  sets of [type, value] pairs and of OIDs                     *)
(*   fulcio    None, or the issuer URL as <<scheme, host>>                 *)
(*                                                                         *)
(* A DID is a record: the flags prefix, path, query and fragment, the      *)
(* CA fingerprint (alg, fp; None where the text has no such part), and the *)
(* sequence of policies [name, parts], where parts is the value split at   *)
(* ":" and empty where the segment has no ":" at all.                      *)
(***************************************************************************)
EXTENDS Integers, Sequences, FiniteSets

CONSTANTS
  None,     \* an absent extension, field or document
  Garbage,  \* a chain entry that does not decode to a certificate
  Scalar    \* decodeScalar: a function from well-formed encoded values to texts

(***************************************************************************)
(* Certificates and chains (x509.ts).                                      *)
(***************************************************************************)
KeyKinds == {"ok", "curve", "algorithm"}   \* usable, EC curve not supported, algorithm not supported

Algorithms == {"sha256", "sha384", "sha512"}

Fingerprint(cert, alg) == <<alg, cert.id>>

Loads(chain) == \A k \in DOMAIN chain : chain[k] # Garbage

LongEnough(chain) == Len(chain) >= 2

SupportedCurve(cert) == cert.key.kind # "curve"

\* exportPublicKey: the key can be turned into a CryptoKey.
Exportable(cert) == SupportedCurve(cert) /\ cert.key.kind # "algorithm"

\* Slip: the names are compared and the signature is not.
NamedIssuer(cert, issuer) == cert.issuer = issuer.subject /\ Exportable(issuer)

\* verifyCertificateIssuedBy.
IssuedBy(cert, issuer) ==
  /\ cert.issuer = issuer.subject
  /\ Exportable(issuer)
  /\ cert.signedBy = issuer.key

\* Slips: the bound is one too generous, or the leaf counts as an intermediate.
PathLengthOffByOne(bc, k) == bc.pathLen # None => bc.pathLen >= k - 3
PathLengthCountsLeaf(bc, k) == bc.pathLen # None => bc.pathLen >= k - 1

\* The authority at position k has k - 2 certificates between it and the leaf.
PathLengthMet(bc, k) == bc.pathLen # None => bc.pathLen >= k - 2

\* Only a certificate above the leaf is asked for its basic constraints, and
\* one without the extension passes.
ConstraintsMet(chain, k) ==
  (k > 1 /\ chain[k].bc # None) => chain[k].bc.ca /\ PathLengthMet(chain[k].bc, k)

ValidAt(cert, t) == cert.from <= t /\ t <= cert.to

\* parseNameAttributes throws for a name that repeats an attribute type.
Decodes(chain) == \A k \in DOMAIN chain : ~chain[k].repeats

(***************************************************************************)
(* The DID and its predicates (didx509.ts).                                *)
(***************************************************************************)
\* didDocumentId: the DID up to its fragment.
DocumentId(did) == [did EXCEPT !.fragment = FALSE]

ParsesDid(did) ==
  /\ did.prefix
  /\ ~did.path
  /\ ~did.query
  /\ did.alg # None
  /\ did.fp # None
  /\ did.policies # <<>>
  /\ \A i \in DOMAIN did.policies : did.policies[i].parts # <<>>

DecodesTo(encoded, text) == encoded \in DOMAIN Scalar /\ Scalar[encoded] = text

LabelPositions(parts) == {i \in DOMAIN parts : i % 2 = 1}

SubjectHolds(parts, subject) ==
  /\ Len(parts) % 2 = 0
  /\ \A i, j \in LabelPositions(parts) : parts[i] = parts[j] => i = j
  /\ \A i \in LabelPositions(parts) : /\ parts[i] \in DOMAIN subject
                                      /\ DecodesTo(parts[i + 1], subject[parts[i]])

SanHolds(parts, san) ==
  /\ Len(parts) = 2
  /\ \E entry \in san : entry[1] = parts[1] /\ DecodesTo(parts[2], entry[2])

EkuHolds(parts, eku) == Len(parts) = 1 /\ \E oid \in eku : DecodesTo(parts[1], oid)

FulcioIssuerHolds(parts, fulcio) ==
  /\ Len(parts) = 1
  /\ fulcio # None
  /\ fulcio[1] = "https"
  /\ DecodesTo(parts[1], fulcio[2])

\* A policy of any other name is refused.
PolicyHolds(policy, leaf) ==
  \/ policy.name = "subject" /\ SubjectHolds(policy.parts, leaf.subject)
  \/ policy.name = "san" /\ SanHolds(policy.parts, leaf.san)
  \/ policy.name = "eku" /\ EkuHolds(policy.parts, leaf.eku)
  \/ policy.name = "fulcio-issuer" /\ FulcioIssuerHolds(policy.parts, leaf.fulcio)

\* Slip: the leaf itself may satisfy the pin.
PinsAnyCertificate(did, chain) ==
  /\ did.alg \in Algorithms
  /\ \E k \in DOMAIN chain : Fingerprint(chain[k], did.alg) = did.fp

\* The fingerprint names a certificate above the leaf.
PinsAuthority(did, chain) ==
  /\ did.alg \in Algorithms
  /\ \E k \in 2..Len(chain) : Fingerprint(chain[k], did.alg) = did.fp

CheckDid(did, chain) ==
  /\ ParsesDid(did)
  /\ PinsAuthority(did, chain)
  /\ \A i \in DOMAIN did.policies : PolicyHolds(did.policies[i], chain[1])

(***************************************************************************)
(* The document.                                                           *)
(***************************************************************************)
KeyUsageNames(leaf, bit) == leaf.ku = None \/ bit \in leaf.ku

Relationships(leaf) ==
  (IF KeyUsageNames(leaf, "digitalSignature") THEN {"authentication", "assertionMethod"} ELSE {})
    \cup (IF KeyUsageNames(leaf, "keyAgreement") THEN {"keyAgreement"} ELSE {})

Document(did, chain) ==
  [id |-> DocumentId(did), key |-> chain[1].key, relationships |-> Relationships(chain[1])]
=============================================================================
