--------------------------- MODULE CredentialStudio ---------------------------
(***************************************************************************)
(* What the playground's credential studio computes (playground/src:       *)
(* credentials.ts, studio.ts, sign-*.ts and lib/): reading an identity     *)
(* from a chain and a key file or generating one, its did:x509, the        *)
(* formats it can sign, signing, and the checklist of a verification.      *)
(* The studio keeps nothing between requests, so these are operators on    *)
(* the request, the clock and the state of the mDoc encoder;               *)
(* PlaygroundServer calls them where the handlers call the functions.      *)
(*                                                                         *)
(* Certificates, chains and DIDs are those of X509Chain.  The key of a     *)
(* certificate is [kind, id, type, x]: type is the generator's name for    *)
(* its algorithm, x the part of the public key that uploads compare.       *)
(***************************************************************************)
EXTENDS X509Chain

CONSTANTS
  Shown,   \* Shown[v]: what subject value v reads as in an RFC 4514 name, up to a comma
  MdocLife \* how long the studio's mDocs are valid, whatever their certificates' dates

ASSUME MdocsHaveALife == MdocLife \in Nat

-----------------------------------------------------------------------------
(* Keys and formats (lib/capabilities.ts, sign-*.ts).                      *)

Formats == {"jsonld", "sd-jwt", "mdoc"}

EcTypes == {"P-256", "P-384", "P-521"}

RsaTypes == {"RSA-2048", "RSA-4096"}

KeyTypes == EcTypes \cup RsaTypes \cup {"Ed25519"}

EsAlgorithm(type) ==
  CASE type = "P-256" -> "ES256" [] type = "P-384" -> "ES384" [] type = "P-521" -> "ES512"

\* sdJwtAlgorithmFor.  Web Crypto names RS256 in every RSA key it exports, and
\* the signer honours the name.
SdJwtAlgorithm(type) ==
  IF type \in EcTypes THEN EsAlgorithm(type) ELSE IF type \in RsaTypes THEN "RS256" ELSE None

\* Slip: the COSE layer is believed to carry RSA keys.
MdocAlgorithmWithRsa(type) ==
  IF type \in EcTypes THEN EsAlgorithm(type) ELSE IF type \in RsaTypes THEN "PS256" ELSE None

\* mdocAlgorithmFor.
MdocAlgorithm(type) == IF type \in EcTypes THEN EsAlgorithm(type) ELSE None

\* supportsJsonLd.
JsonLdAlgorithm(type) == IF type = "Ed25519" THEN "EdDSA" ELSE None

SigningAlgorithm(type, format) ==
  CASE format = "jsonld" -> JsonLdAlgorithm(type)
    [] format = "sd-jwt" -> SdJwtAlgorithm(type)
    [] format = "mdoc" -> MdocAlgorithm(type)

\* signableFormatsFor.
SignableFormats(type) == {format \in Formats : SigningAlgorithm(type, format) # None}

\* FORMAT_ALGORITHMS: the algorithms wired for each format.
Wired(format) ==
  CASE format = "jsonld" -> {"EdDSA"}
    [] format = "sd-jwt" -> {"ES256", "ES384", "ES512", "RS256"}
    [] format = "mdoc" -> {"ES256", "ES384", "ES512"}

\* KEY_ALGORITHMS, a table of its own beside the signers' functions.
KeyAlgorithms ==
  [type \in KeyTypes |->
     CASE type \in EcTypes -> [jsonld |-> None, sdjwt |-> EsAlgorithm(type), mdoc |-> EsAlgorithm(type)]
       [] type \in RsaTypes -> [jsonld |-> None, sdjwt |-> "RS256", mdoc |-> None]
       [] type = "Ed25519" -> [jsonld |-> "EdDSA", sdjwt |-> None, mdoc |-> None]]

\* availabilityOf: the algorithm, or why there is none.
Availability(type, format) ==
  LET row == KeyAlgorithms[type]
      algorithm == CASE format = "jsonld" -> row.jsonld [] format = "sd-jwt" -> row.sdjwt
                     [] format = "mdoc" -> row.mdoc
  IN IF algorithm # None THEN algorithm
     ELSE IF format = "jsonld" THEN "spec-excluded" ELSE "implementation-gap"

\* credoKeySupportFor.
CredoHolds(type) == type \in {"P-256", "P-384", "Ed25519"}

\* capabilityMatrix: the row of a key type.
MatrixRow(type) ==
  [credo |-> CredoHolds(type), cells |-> [format \in Formats |-> Availability(type, format)]]

-----------------------------------------------------------------------------
(* Templates (credentials.ts).                                             *)

\* The claims that are always shown count as one, Fixed.
Fixed == "fixed"

Template(formats, disclosable) ==
  [formats |-> formats, claims |-> {Fixed} \cup disclosable, disclosable |-> disclosable]

Templates ==
  [degree |-> Template(Formats, {"graduationDate", "studentId"}),
   employee |-> Template(Formats, {"employeeId", "clearance"}),
   mdl |-> Template({"mdoc", "sd-jwt"}, {"driving_privileges"}),
   invoice |-> Template(Formats, {"hsCode", "invoiceValue", "paymentTerms"}),
   shippingBill |-> Template(Formats, {"containerNumber", "declaredValue"})]

-----------------------------------------------------------------------------
(* Identities (lib/upload.ts, lib/generate.ts, lib/key-import.ts).         *)

\* The studio's did:x509, its fingerprint SHA-256 and of the chain's last
\* certificate.
Did(chain, attribute, value) ==
  [prefix |-> TRUE, path |-> FALSE, query |-> FALSE, fragment |-> FALSE, alg |-> "sha256",
   fp |-> Fingerprint(chain[Len(chain)], "sha256"),
   policies |-> <<[name |-> "subject", parts |-> <<attribute, value>>]>>]

HasAttribute(chain, attribute) == attribute \in DOMAIN chain[1].subject

\* deriveDid, deriveDidFromChain: the value is read back from the text of the
\* leaf's subject.
DeriveDid(chain, attribute) == Did(chain, attribute, Shown[chain[1].subject[attribute]])

\* toPkcs8Der: PKCS#8 is taken as it is, PKCS#1 and SEC1 are wrapped; SEC1 must
\* carry its curve.
ToPkcs8(file) ==
  \/ file.label \in {"PRIVATE KEY", "RSA PRIVATE KEY"}
  \/ file.label = "EC PRIVATE KEY" /\ file.curve

\* algorithmFor: one of the imports it tries takes the key.
AlgorithmKnown(file) == file.key.type \in KeyTypes

ImportsKey(file) == ToPkcs8(file) /\ AlgorithmKnown(file)

\* publicKeysMatch: the y of an EC key is not compared.
PublicKeysMatch(a, b) == a.type = b.type /\ a.x = b.x

\* parseUploadedIdentity gets through.  A submission is [chain, file,
\* attribute], its file None when no key is given.
Parses(sub) ==
  /\ sub.chain # <<>>
  /\ Loads(sub.chain)
  /\ \A k \in DOMAIN sub.chain : Exportable(sub.chain[k])
  /\ HasAttribute(sub.chain, sub.attribute)
  /\ sub.file # None => ImportsKey(sub.file) /\ PublicKeysMatch(sub.chain[1].key, sub.file.key)

\* The identity it returns.
Identity(sub) ==
  [chain |-> sub.chain, did |-> DeriveDid(sub.chain, sub.attribute), key |-> sub.chain[1].key,
   secret |-> IF sub.file = None THEN None ELSE sub.file.key]

FreshKey(name, type) == [kind |-> "ok", id |-> name, type |-> type, x |-> name]

\* A self-signed root, valid from t on.
FreshRoot(serial, t, validity, pathLen, ku) ==
  [id |-> <<"root", serial>>, subject |-> [CN |-> "root"], issuer |-> [CN |-> "root"], repeats |-> FALSE,
   key |-> FreshKey(<<"root", serial>>, "P-256"), signedBy |-> FreshKey(<<"root", serial>>, "P-256"),
   bc |-> [ca |-> TRUE, pathLen |-> pathLen], ku |-> ku, from |-> t, to |-> t + validity,
   san |-> {}, eku |-> {}, fulcio |-> None]

\* A leaf under it, valid for the same time.
FreshLeaf(root, serial, type, subject, ku) ==
  [root EXCEPT !.id = <<"leaf", serial>>, !.subject = subject, !.key = FreshKey(<<"leaf", serial>>, type),
               !.bc = None, !.ku = ku]

\* generateIdentity, and the DID on an attribute, with the value of the CN where
\* the leaf's subject has no such attribute.
Generated(order, serial, t) ==
  LET root == FreshRoot(serial, t, order.validity, 1, {"keyCertSign", "cRLSign"})
      leaf == FreshLeaf(root, serial, order.type, order.subject, {"digitalSignature", "nonRepudiation"})
      value == IF order.attribute \in DOMAIN order.subject
               THEN order.subject[order.attribute] ELSE order.subject.CN
  IN [chain |-> <<leaf, root>>, did |-> Did(<<leaf, root>>, order.attribute, value),
      key |-> leaf.key, secret |-> leaf.key]

\* What the browser sends back of a generated identity: its PEMs.
Resubmitted(identity, attribute) ==
  [chain |-> identity.chain, attribute |-> attribute,
   file |-> [label |-> "PRIVATE KEY", curve |-> FALSE, key |-> identity.secret]]

\* resolveDidFromPem, start to end at one instant.
Resolves(did, chain, t) ==
  /\ Loads(chain)
  /\ LongEnough(chain)
  /\ \A k \in DOMAIN chain :
       /\ SupportedCurve(chain[k])
       /\ k < Len(chain) => IssuedBy(chain[k], chain[k + 1])
       /\ ConstraintsMet(chain, k)
       /\ ValidAt(chain[k], t)
  /\ Decodes(chain)
  /\ CheckDid(did, chain)
  /\ Exportable(chain[1])
  /\ Relationships(chain[1]) # {}

\* report: an identity whose DID does not resolve is not shown at all.
Reports(identity, t) == Resolves(identity.did, identity.chain, t)

-----------------------------------------------------------------------------
(* Signing (credentials.ts, sign-jsonld.ts, sign-sd-jwt.ts, sign-mdoc.ts). *)

\* x5cOf, chainDer: the leaf and the last certificate, nothing between them.
EmbeddedChain(chain) == <<chain[1], chain[Len(chain)]>>

\* Every disclosable claim is committed to, shown or not.
Committed(template, withheld) == Templates[template].disclosable

\* The credential of a request [format, template, withheld], made at t.  An mDoc
\* names no issuer and has an end of its own; only an SD-JWT discloses
\* selectively.  What the issuer signed is intact until someone changes it; an
\* mDoc's elements lie outside it, and edited says that their values are no
\* longer those it holds digests of.
Credential(identity, request, t) ==
  LET selective == request.format = "sd-jwt"
      template == Templates[request.template]
      movable == IF selective THEN Committed(request.template, request.withheld) ELSE {}
  IN [format |-> request.format, template |-> request.template,
      issuer |-> IF request.format = "mdoc" THEN None ELSE identity.did,
      x5c |-> EmbeddedChain(identity.chain), signer |-> identity.secret, intact |-> TRUE,
      edited |-> FALSE, until |-> IF request.format = "mdoc" THEN t + MdocLife ELSE None,
      committed |-> movable,
      visible |-> IF selective
                  THEN (template.claims \ template.disclosable) \cup (movable \ request.withheld)
                  ELSE template.claims]

\* verifyChain.  A link's own verification looks at the date of the certificate
\* below it; the root's date is not looked at.
VerifyChain(x5c, t) ==
  /\ \A k \in 1..(Len(x5c) - 1) : x5c[k].signedBy = x5c[k + 1].key /\ ValidAt(x5c[k], t)
  /\ ValidAt(x5c[1], t)

\* issuerAuth.verify over createMdocContext; the library asks for a country in
\* the signer's subject, and that the mDoc's own validityInfo has not run out.
\* The elements are not compared with their digests.
IssuerAuthHolds(credential, t) ==
  /\ credential.intact
  /\ t <= credential.until
  /\ credential.signer = credential.x5c[1].key
  /\ "C" \in DOMAIN credential.x5c[1].subject
  /\ VerifyChain(credential.x5c, t)

\* Slip: the SD-JWT is returned without the signer's own verification of it.
TrustsItsKey(identity) == TRUE

\* sdjwt.verify, under the leaf's public key, before the presentation is returned.
ProvesItsKey(identity) == identity.secret = identity.key

\* The signers return and do not throw.  Each proves its work by its own means:
\* JSON-LD resolves the issuer, SD-JWT verifies its signature, mDoc its
\* issuerAuth.
SignsJsonLd(identity, t) ==
  identity.secret # None /\ JsonLdAlgorithm(identity.key.type) # None /\ Resolves(identity.did, identity.chain, t)

SignsSdJwt(identity) ==
  identity.secret # None /\ SdJwtAlgorithm(identity.key.type) # None /\ ProvesItsKey(identity)

SignsMdoc(identity, request, t, encoderBroken) ==
  /\ identity.secret # None
  /\ MdocAlgorithm(identity.key.type) # None
  /\ ~encoderBroken
  /\ IssuerAuthHolds(Credential(identity, request, t), t)

\* signCredential.
Signs(identity, request, t, encoderBroken) ==
  /\ request.format \in Templates[request.template].formats
  /\ CASE request.format = "jsonld" -> SignsJsonLd(identity, t)
       [] request.format = "sd-jwt" -> SignsSdJwt(identity)
       [] request.format = "mdoc" -> SignsMdoc(identity, request, t, encoderBroken)

-----------------------------------------------------------------------------
(* Verification (credentials.ts, sign-*.ts, lib/issuer.ts).                *)

\* parseDidSubject: the attribute a DID pins, None where it is no such DID.
PinnedAttribute(did) == IF did.policies = <<>> THEN None ELSE did.policies[1].parts[1]

\* Slip: whatever the DID pins, the CN is read.
AlwaysCommonName(credential) == "CN"

\* The attribute an issuer is recovered by: for an mDoc always the CN.
RecoveryAttribute(credential) ==
  IF credential.format = "mdoc" THEN "CN" ELSE PinnedAttribute(credential.issuer)

\* identityFromX5c gets through: a pinned attribute must be in the embedded
\* leaf's subject.
Recoverable(credential) ==
  /\ credential.x5c # <<>>
  /\ RecoveryAttribute(credential) # None => HasAttribute(credential.x5c, RecoveryAttribute(credential))

\* The DID the embedded chain reproduces; a foreign issuer is taken as claimed.
RecoveredDid(credential) ==
  IF RecoveryAttribute(credential) = None THEN credential.issuer
  ELSE DeriveDid(credential.x5c, RecoveryAttribute(credential))

\* Slip: the issuer's document is not resolved against the chain.
LoadsAnyIssuer(credential, t) == TRUE

\* createDocumentLoader, for the identity recovered from the credential.
LoadsIssuer(credential, t) == Resolves(RecoveredDid(credential), credential.x5c, t)

\* The verification ends in an exception, not in a verdict.
Throws(credential, t) ==
  \/ ~Recoverable(credential)
  \/ credential.format = "jsonld" /\ ~LoadsIssuer(credential, t)

\* The verdict on the signature, where there is one.
JsonLdHolds(credential) ==
  /\ credential.intact
  /\ credential.signer = credential.x5c[1].key
  /\ credential.issuer = RecoveredDid(credential)
  /\ "assertionMethod" \in Relationships(credential.x5c[1])

SdJwtHolds(credential) == credential.intact /\ credential.signer = credential.x5c[1].key

SignatureHolds(credential, t) ==
  CASE credential.format = "jsonld" -> JsonLdHolds(credential)
    [] credential.format = "sd-jwt" -> SdJwtHolds(credential)
    [] credential.format = "mdoc" -> IssuerAuthHolds(credential, t)

\* extractIssuerDetails: the issuer claimed (for an mDoc, the one recovered) is
\* a did:x509 that the chain reproduces.
DidMatchesChain(credential) ==
  /\ RecoveryAttribute(credential) # None
  /\ credential.format # "mdoc" => credential.issuer = RecoveredDid(credential)

\* leaf.extensions.canSign: an absent key usage permits nothing here.
CanSign(leaf) == leaf.ku # None /\ leaf.ku \cap {"digitalSignature", "nonRepudiation"} # {}

\* Slip: an exception is reported as a signature that failed.
SkipsNothing(thrown) == FALSE

\* Only an exception leaves the signature unchecked.
SkipsSignature(thrown) == thrown

Verdict(holds) == IF holds THEN "passed" ELSE "failed"

\* inspectChain, from the catch: of an mDoc whose verification threw, nothing.
InspectChain(credential) == IF credential.format = "mdoc" THEN <<>> ELSE credential.x5c

\* leaf.expired, leaf.notYetValid.
InDate(leaf, t) == ValidAt(leaf, t)

\* verificationChecks, after a verdict or, from the catch, with whatever of the
\* chain and the issuer can still be read: no issuer where the chain does not
\* yield one.
Checks(credential, t) ==
  LET thrown == Throws(credential, t)
      holds == ~thrown /\ SignatureHolds(credential, t)
      chain == IF thrown THEN InspectChain(credential) ELSE credential.x5c
      issuer == chain # <<>> /\ Recoverable(credential)
  IN [chain |-> IF chain # <<>> THEN "passed" ELSE "skipped",
      signature |-> IF SkipsSignature(thrown) THEN "skipped" ELSE Verdict(holds),
      did |-> IF issuer THEN Verdict(DidMatchesChain(credential)) ELSE "absent",
      validity |-> IF issuer THEN Verdict(InDate(chain[1], t)) ELSE "skipped",
      usage |-> IF issuer THEN Verdict(CanSign(chain[1])) ELSE "absent",
      disclosures |-> IF credential.format # "sd-jwt" THEN "absent"
                      ELSE IF holds THEN "passed" ELSE "skipped"]

AllPassed(checks) == \A check \in DOMAIN checks : checks[check] \in {"passed", "absent"}

-----------------------------------------------------------------------------
(* The scripted flows (flows.ts, credo.ts, lib/identity.ts).               *)

FlowNames == {"resolve", "jsonld", "sd-jwt", "mdoc", "credo"}

\* createIdentity: a fresh identity, its subject with the country an mDoc needs.
Demo(type, t) ==
  LET root == FreshRoot("demo", t, 1, 2, None)
      leaf == FreshLeaf(root, "demo", type, [C |-> "US", CN |-> "Acme"], {"digitalSignature"})
  IN [chain |-> <<leaf, root>>, did |-> Did(<<leaf, root>>, "CN", "Acme"),
      key |-> leaf.key, secret |-> leaf.key]

\* What a flow signs.
DemoCredential(name, t) ==
  Credential(Demo(IF name = "jsonld" THEN "Ed25519" ELSE "P-256", t),
             [format |-> name, template |-> "degree", withheld |-> {"studentId"}], t)

\* Each flow ends without an exception, its verdict aside: the first resolves
\* what it made, the JSON-LD and SD-JWT ones verify and resolve, the mDoc one
\* must encode, and the Credo one resolves through X509DidResolver.
ResolveFlow(t) == Resolves(Demo("P-256", t).did, Demo("P-256", t).chain, t)

JsonLdFlow(t) == LoadsIssuer(DemoCredential("jsonld", t), t)

SdJwtFlow(t) == SdJwtHolds(DemoCredential("sd-jwt", t)) /\ ResolveFlow(t)

MdocFlow(t, encoderBroken) == ~encoderBroken /\ IssuerAuthHolds(DemoCredential("mdoc", t), t)

CredoFlow(t) == ResolveFlow(t)

\* FLOWS: the runner of a name.
FlowEnds(name, t, encoderBroken) ==
  CASE name = "resolve" -> ResolveFlow(t)
    [] name = "jsonld" -> JsonLdFlow(t)
    [] name = "sd-jwt" -> SdJwtFlow(t)
    [] name = "mdoc" -> MdocFlow(t, encoderBroken)
    [] name = "credo" -> CredoFlow(t)
=============================================================================
