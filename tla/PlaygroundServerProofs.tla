------------------------ MODULE PlaygroundServerProofs ------------------------
(***************************************************************************)
(* Theorems about PlaygroundServer for any uploads, orders, requests and   *)
(* alterations.  First what the studio's operators do (a checklist that    *)
(* passes, a credential just signed, a table of algorithms); then what a   *)
(* request carries from step to step (RequestInv), by which the credential *)
(* a browser holds is one the studio signed (HeldInv).                     *)
(***************************************************************************)
EXTENDS PlaygroundServer, TLAPS

\* The credential is what the studio signs for a submission, and did once.
SignedFor(credential, sub, what) ==
  /\ sub \in Submission /\ what \in Requested /\ Parses(sub)
  /\ \E t \in 0..MaxTime, broken \in BOOLEAN :
       credential = Credential(Identity(sub), what, t) /\ Signs(Identity(sub), what, t, broken)

\* What a request r carries at each stage, beside the credential h held.
RequestInv(r, h) ==
  /\ DOMAIN r = DOMAIN Free
  /\ r.stage \in {"free", "read", "parsed", "signed", "answered"}
  /\ r.kind \in Kinds \cup {None}
  /\ r.stage # "free" => r.kind # None
  /\ r.stage = "free" => r.credential = None
  /\ r.stage = "read" => r.kind # "verify"
  /\ r.stage = "parsed" => r.kind # "generate"
  /\ r.stage = "signed" => r.kind = "sign"
  /\ r.stage = "answered" => r.status \in {200, 400}
  /\ r.stage # "answered" => r.checks = None /\ r.formats = None
  /\ r.kind = "generate" => r.order \in Orders
  /\ r.kind \in {"upload", "sign"} => r.sub \in Submission
  /\ r.kind = "credo-resolve" => \E sub \in Submission : r.sub = [sub EXCEPT !.file = None]
  /\ r.kind = "sign" => r.what \in Requested
  /\ r.kind = "sign" /\ r.stage = "parsed" => Parses(r.sub)
  /\ r.kind # "sign" /\ r.kind # "verify" => r.credential = None
  /\ r.stage = "signed" => r.credential # None
  /\ r.kind = "sign" /\ r.stage = "answered" /\ r.status = 200 => r.credential # None
  /\ r.kind = "sign" /\ r.credential # None => SignedFor(r.credential, r.sub, r.what)
  /\ r.kind = "verify" => /\ h # None
                          /\ \E alteration \in Alterations : r.credential = Altered(h, alteration)
  /\ r.formats # None =>
       \/ r.kind = "generate" /\ r.formats = SignableFormats(r.order.type)
       \/ r.kind = "upload" /\ r.formats = SignableFormats(r.sub.chain[1].key.type)

\* What the browser holds, h, the studio signed for the submission s.
HeldInv(h, s) ==
  /\ (h = None) <=> (s = None)
  /\ h # None => \E what \in Requested : SignedFor(h, s, what)

Stacks == {"mdoc", "credo"}

Importers == {"studio", "status", "credo tab", "flow", "run all"}

\* A stack is evaluated at most once.
ModulesInv(m) ==
  /\ m \in Seq([stack : Stacks, by : Importers])
  /\ \A j, k \in DOMAIN m : m[j].stack = m[k].stack => j = k

FlowInv(f) == DOMAIN f = DOMAIN NoFlow /\ f.status \in {None, 200, 500}

ServerInv ==
  /\ now \in 0..MaxTime
  /\ ModulesInv(modules)
  /\ support \in {"unasked", "pending", "available", "rejected"}
  /\ page \in [Pages -> {"unasked", "asking", "shows tab", "hides tab"}]
  /\ minted \in Submission \cup {None}
  /\ RequestInv(request, held)
  /\ HeldInv(held, signer)
  /\ FlowInv(flow)

-----------------------------------------------------------------------------
(* What the studio computes.                                               *)

\* The signers' functions, the key table and the format table agree.
LEMMA TablesAgree ==
  ASSUME NEW type \in KeyTypes, NEW format \in Formats
  PROVE  (SigningAlgorithm(type, format) # None) <=> (MatrixRow(type).cells[format] \in Wired(format))
<1>1. MatrixRow(type).cells[format] = Availability(type, format)
  BY DEF MatrixRow
<1>2. CASE type \in EcTypes
  <2> type \notin RsaTypes /\ type # "Ed25519" /\ EsAlgorithm(type) \in {"ES256", "ES384", "ES512"}
    BY <1>2 DEF EcTypes, RsaTypes, EsAlgorithm
  <2>1. KeyAlgorithms[type] = [jsonld |-> None, sdjwt |-> EsAlgorithm(type), mdoc |-> EsAlgorithm(type)]
    BY <1>2 DEF KeyAlgorithms
  <2>2. /\ JsonLdAlgorithm(type) = None
        /\ SdJwtAlgorithm(type) = EsAlgorithm(type) /\ MdocAlgorithm(type) = EsAlgorithm(type)
    BY <1>2 DEF JsonLdAlgorithm, SdJwtAlgorithm, MdocAlgorithm
  <2> QED
    BY <1>1, <2>1, <2>2, NoneIsNothingElse DEF SigningAlgorithm, Availability, Wired, Formats
<1>3. CASE type \in RsaTypes
  <2> type \notin EcTypes /\ type # "Ed25519"
    BY <1>3 DEF EcTypes, RsaTypes
  <2>1. KeyAlgorithms[type] = [jsonld |-> None, sdjwt |-> "RS256", mdoc |-> None]
    BY <1>3 DEF KeyAlgorithms
  <2>2. JsonLdAlgorithm(type) = None /\ SdJwtAlgorithm(type) = "RS256" /\ MdocAlgorithm(type) = None
    BY <1>3 DEF JsonLdAlgorithm, SdJwtAlgorithm, MdocAlgorithm
  <2> QED
    BY <1>1, <2>1, <2>2, NoneIsNothingElse DEF SigningAlgorithm, Availability, Wired, Formats
<1>4. CASE type = "Ed25519"
  <2> type \notin EcTypes /\ type \notin RsaTypes
    BY <1>4 DEF EcTypes, RsaTypes
  <2>1. KeyAlgorithms[type] = [jsonld |-> "EdDSA", sdjwt |-> None, mdoc |-> None]
    BY <1>4 DEF KeyAlgorithms
  <2>2. JsonLdAlgorithm(type) = "EdDSA" /\ SdJwtAlgorithm(type) = None /\ MdocAlgorithm(type) = None
    BY <1>4 DEF JsonLdAlgorithm, SdJwtAlgorithm, MdocAlgorithm
  <2> QED
    BY <1>1, <2>1, <2>2, NoneIsNothingElse DEF SigningAlgorithm, Availability, Wired, Formats
<1> QED
  BY <1>2, <1>3, <1>4 DEF KeyTypes

\* So the formats offered for a key are those the tables claim.
LEMMA OfferedIsClaimed ==
  ASSUME NEW type \in KeyTypes
  PROVE  SignableFormats(type) = {format \in Formats : MatrixRow(type).cells[format] \in Wired(format)}
BY TablesAgree DEF SignableFormats

\* What is signed at all is signed with a key of one of the types.
LEMMA SignersKeyType ==
  ASSUME NEW type, NEW format \in Formats, SigningAlgorithm(type, format) # None
  PROVE  type \in KeyTypes
BY DEF SigningAlgorithm, JsonLdAlgorithm, SdJwtAlgorithm, MdocAlgorithm, Formats, KeyTypes

\* An SD-JWT shows none of the claims withheld and commits to all it can disclose.
LEMMA WithheldIsCommitted ==
  ASSUME NEW identity, NEW what, NEW t \in 0..MaxTime, NEW c, c = Credential(identity, what, t), what.format = "sd-jwt"
  PROVE  LET movable == what.withheld \cap Templates[what.template].disclosable
         IN movable \cap c.visible = {} /\ movable \subseteq c.committed
<1> DEFINE template == Templates[what.template]
<1>1. c.committed = template.disclosable
  BY DEF Credential, Committed
<1>2. c.visible = (template.claims \ template.disclosable) \cup (template.disclosable \ what.withheld)
  BY DEF Credential, Committed
<1> HIDE DEF template
<1> QED
  BY <1>1, <1>2 DEF template

\* What holds of every submission, uploaded or made by the generator.
LEMMA SubmissionParts ==
  ASSUME NEW sub \in Submission
  PROVE  /\ DOMAIN sub = {"chain", "file", "attribute"}
         /\ sub # None /\ [sub EXCEPT !.file = None] # None /\ sub.attribute # None
         /\ Len(sub.chain) = 2 => sub.chain = <<sub.chain[1], sub.chain[2]>>
         /\ Parses(sub) /\ sub.file # None /\ sub.chain[1].key.type = "Ed25519"
              => sub.file.key = sub.chain[1].key
<1>1. sub # None /\ [sub EXCEPT !.file = None] # None /\ sub.attribute # None
  BY NoneIsNothingElse
<1>2. CASE sub \in Submissions
  <2>1. sub.chain \in Seq({sub.chain[k] : k \in DOMAIN sub.chain})
    BY <1>2, UploadsAreSubmissions
  <2>2. Len(sub.chain) = 2 => sub.chain = <<sub.chain[1], sub.chain[2]>>
    BY <2>1
  <2> QED
    BY <1>1, <1>2, <2>2, UploadsAreSubmissions
<1>3. CASE sub \notin Submissions
  <2>1. PICK order \in Orders, t \in 0..MaxTime :
          sub = Resubmitted(Generated(order, "mint", t), order.attribute)
    BY <1>3 DEF Submission
  <2>2. PICK leaf, root, did : Generated(order, "mint", t)
          = [chain |-> <<leaf, root>>, did |-> did, key |-> leaf.key, secret |-> leaf.key]
    BY DEF Generated
  <2> DEFINE identity == Generated(order, "mint", t)
             file == [label |-> "PRIVATE KEY", curve |-> FALSE, key |-> identity.secret]
  <2>3. identity.chain = <<leaf, root>> /\ identity.secret = leaf.key
    BY <2>2
  <2>4. file.key = identity.secret
    OBVIOUS
  <2>5. sub = [chain |-> identity.chain, attribute |-> order.attribute, file |-> file]
    BY <2>1 DEF Resubmitted
  <2> HIDE DEF identity, file
  <2>6. sub.chain = <<leaf, root>> /\ sub.file = file /\ DOMAIN sub = {"chain", "file", "attribute"}
    BY <2>3, <2>5
  <2>7. sub.chain[1] = leaf /\ sub.chain[2] = root
    BY <2>6
  <2>8. sub.file.key = sub.chain[1].key
    BY <2>3, <2>4, <2>6, <2>7
  <2> QED
    BY <1>1, <2>6, <2>7, <2>8
<1> QED
  BY <1>2, <1>3

\* A credential the studio signed: its parts, and what signing it made sure of.
LEMMA SignedParts ==
  ASSUME NEW c, NEW sub, NEW what, SignedFor(c, sub, what)
  PROVE  /\ c # None
         /\ DOMAIN c = {"format", "template", "issuer", "x5c", "signer", "intact", "edited", "until",
                        "committed", "visible"}
         /\ c.format = what.format /\ c.format \in Formats /\ c.intact = TRUE
         /\ c.x5c = <<sub.chain[1], sub.chain[Len(sub.chain)]>>
         /\ c.issuer = IF c.format = "mdoc" THEN None ELSE DeriveDid(sub.chain, sub.attribute)
         /\ sub.file # None /\ c.signer = sub.file.key
         /\ c.signer.type = sub.chain[1].key.type
         /\ SigningAlgorithm(c.signer.type, c.format) # None
         /\ c.signer = sub.chain[1].key
         /\ c.format = "mdoc" => \E t \in 0..MaxTime : IssuerAuthHolds(c, t)
<1>1. PICK t \in 0..MaxTime, broken \in BOOLEAN :
        c = Credential(Identity(sub), what, t) /\ Signs(Identity(sub), what, t, broken)
  BY DEF SignedFor
<1>2. sub \in Submission /\ what \in Requested /\ Parses(sub)
  BY DEF SignedFor
<1> DEFINE identity == Identity(sub)
<1>3. /\ identity.chain = sub.chain /\ identity.did = DeriveDid(sub.chain, sub.attribute)
      /\ identity.key = sub.chain[1].key
      /\ identity.secret = IF sub.file = None THEN None ELSE sub.file.key
  BY DEF Identity
<1>4. c # None
  BY <1>1, <1>2, NoneIsNothingElse
<1>5. what.format \in Formats
  BY <1>2, RequestsAreKnown
<1>6. Signs(identity, what, t, broken)
  BY <1>1
<1>7. c = Credential(identity, what, t)
  BY <1>1
<1> HIDE DEF identity
<1>8. /\ DOMAIN c = {"format", "template", "issuer", "x5c", "signer", "intact", "edited", "until",
                    "committed", "visible"}
      /\ c.format = what.format /\ c.intact = TRUE /\ c.signer = identity.secret
      /\ c.issuer = (IF what.format = "mdoc" THEN None ELSE identity.did)
      /\ c.x5c = <<identity.chain[1], identity.chain[Len(identity.chain)]>>
  BY <1>7 DEF Credential, EmbeddedChain
<1>9. identity.secret # None /\ SigningAlgorithm(identity.key.type, what.format) # None
  BY <1>5, <1>6 DEF Signs, SignsJsonLd, SignsSdJwt, SignsMdoc, SigningAlgorithm, Formats
<1>10. sub.file # None /\ c.signer = sub.file.key
  BY <1>3, <1>8, <1>9
<1>11. sub.file.key.type = sub.chain[1].key.type
  BY <1>2, <1>10 DEF Parses, PublicKeysMatch
<1>12. what.format = "mdoc" => IssuerAuthHolds(c, t)
  BY <1>6, <1>7 DEF Signs, SignsMdoc
<1>13. c.signer = sub.chain[1].key
  <2>1. CASE what.format = "jsonld"
    <3>1. sub.chain[1].key.type = "Ed25519"
      BY <2>1, <1>9, <1>3 DEF SigningAlgorithm, JsonLdAlgorithm
    <3> QED
      BY <3>1, <1>2, <1>10, SubmissionParts
  <2>2. CASE what.format = "sd-jwt"
    BY <2>2, <1>3, <1>6, <1>8 DEF Signs, SignsSdJwt, ProvesItsKey
  <2>3. CASE what.format = "mdoc"
    BY <2>3, <1>3, <1>8, <1>12 DEF IssuerAuthHolds
  <2> QED
    BY <2>1, <2>2, <2>3, <1>5 DEF Formats
<1> QED
  BY <1>3, <1>4, <1>5, <1>8, <1>9, <1>10, <1>11, <1>12, <1>13

\* Beside the signature: nothing was changed when it was signed, only an SD-JWT
\* commits to claims, and an mDoc has its last day.
LEMMA SignedExtras ==
  ASSUME NEW c, NEW sub, NEW what, SignedFor(c, sub, what)
  PROVE  /\ c.edited = FALSE
         /\ c.format # "sd-jwt" => c.committed = {}
         /\ c.format = "mdoc" => c.until \in Nat
<1> DEFINE identity == Identity(sub)
<1>1. PICK t \in 0..MaxTime : c = Credential(identity, what, t)
  BY DEF SignedFor
<1> HIDE DEF identity
<1>2. /\ c.edited = FALSE /\ c.format = what.format
      /\ c.until = (IF what.format = "mdoc" THEN t + MdocLife ELSE None)
      /\ what.format # "sd-jwt" => c.committed = {}
  BY <1>1 DEF Credential
<1>3. t + MdocLife \in Nat
  BY ClockIsBounded, MdocsHaveALife
<1> QED
  BY <1>2, <1>3

\* The embedded leaf and CA reproduce the issuer the studio named.
LEMMA IssuerIsRecovered ==
  ASSUME NEW c, NEW sub, NEW what, SignedFor(c, sub, what), c.format # "mdoc"
  PROVE  /\ RecoveryAttribute(c) = sub.attribute /\ RecoveryAttribute(c) # None
         /\ Recoverable(c)
         /\ RecoveredDid(c) = c.issuer
<1> DEFINE a == sub.attribute
           ca == sub.chain[Len(sub.chain)]
           value == Shown[sub.chain[1].subject[a]]
<1>1. c.issuer = DeriveDid(sub.chain, a) /\ c.x5c = <<sub.chain[1], ca>>
  BY SignedParts
<1>2. a # None /\ HasAttribute(sub.chain, a)
  BY SubmissionParts DEF SignedFor, Parses
<1>3. DeriveDid(sub.chain, a) = [prefix |-> TRUE, path |-> FALSE, query |-> FALSE, fragment |-> FALSE,
                                 alg |-> "sha256", fp |-> Fingerprint(ca, "sha256"),
                                 policies |-> <<[name |-> "subject", parts |-> <<a, value>>]>>]
  BY DEF DeriveDid, Did
<1>4. c.x5c[1] = sub.chain[1] /\ c.x5c[Len(c.x5c)] = ca /\ c.x5c # <<>>
  BY <1>1
<1> HIDE DEF a, ca, value
<1>5. PinnedAttribute(c.issuer) = a
  BY <1>1, <1>3 DEF PinnedAttribute
<1>6. RecoveryAttribute(c) = a
  BY <1>5 DEF RecoveryAttribute
<1>7. DeriveDid(c.x5c, a) = DeriveDid(sub.chain, a)
  BY <1>3, <1>4 DEF DeriveDid, Did, value
<1> QED
  BY <1>1, <1>2, <1>4, <1>6, <1>7 DEF Recoverable, RecoveredDid, HasAttribute, a

\* What a checklist without a failure says of the credential.
LEMMA PassedChecks ==
  ASSUME NEW c, NEW t, c.format \in Formats, AllPassed(Checks(c, t))
  PROVE  /\ ~Throws(c, t) /\ SignatureHolds(c, t)
         /\ c.x5c # <<>> /\ c.intact /\ c.signer = c.x5c[1].key
         /\ ValidAt(c.x5c[1], t) /\ CanSign(c.x5c[1])
         /\ c.format = "jsonld" => Resolves(c.issuer, c.x5c, t)
         /\ c.format = "mdoc" => t <= c.until
<1> DEFINE checks == Checks(c, t)
           thrown == Throws(c, t)
           holds == ~thrown /\ SignatureHolds(c, t)
           chain == IF thrown THEN InspectChain(c) ELSE c.x5c
           issuer == chain # <<>> /\ Recoverable(c)
<1>1. /\ DOMAIN checks = {"chain", "signature", "did", "validity", "usage", "disclosures"}
      /\ checks.signature = IF SkipsSignature(thrown) THEN "skipped" ELSE Verdict(holds)
      /\ checks.validity = IF issuer THEN Verdict(InDate(chain[1], t)) ELSE "skipped"
      /\ checks.usage = IF issuer THEN Verdict(CanSign(chain[1])) ELSE "absent"
  BY DEF Checks
<1>2. /\ checks.signature \in {"passed", "absent"} /\ checks.validity \in {"passed", "absent"}
      /\ checks.usage \in {"passed", "absent"}
  BY <1>1 DEF AllPassed
<1> HIDE DEF checks
<1>3. ~thrown /\ SignatureHolds(c, t)
  BY <1>1, <1>2 DEF SkipsSignature, Verdict
<1>4. issuer /\ InDate(chain[1], t)
  BY <1>1, <1>2 DEF Verdict
<1>5. CanSign(chain[1])
  BY <1>1, <1>2, <1>4 DEF Verdict
<1>6. c.x5c # <<>> /\ ValidAt(c.x5c[1], t) /\ CanSign(c.x5c[1])
  BY <1>3, <1>4, <1>5 DEF InDate
<1>7. c.intact /\ c.signer = c.x5c[1].key
  BY <1>3 DEF SignatureHolds, JsonLdHolds, SdJwtHolds, IssuerAuthHolds, Formats
<1>8. c.format = "jsonld" => Resolves(c.issuer, c.x5c, t)
  BY <1>3 DEF Throws, LoadsIssuer, SignatureHolds, JsonLdHolds
<1>9. c.format = "mdoc" => t <= c.until
  BY <1>3 DEF SignatureHolds, IssuerAuthHolds
<1> QED
  BY <1>3, <1>6, <1>7, <1>8, <1>9

\* What is left of the studio's in a credential that passes: all of a JSON-LD
\* one, all but some claims shown of an SD-JWT, and what an mDoc's issuer signed.
AsSigned(a, c) ==
  CASE c.format = "jsonld" -> a = c
    [] c.format = "sd-jwt" -> a = [c EXCEPT !.visible = a.visible] /\ a.visible \subseteq c.visible
    [] c.format = "mdoc" -> a = [c EXCEPT !.x5c = a.x5c, !.edited = a.edited]

\* Replacing a part of a credential by itself.
LEMMA SameCredential ==
  ASSUME NEW c, DOMAIN c = {"format", "template", "issuer", "x5c", "signer", "intact", "edited", "until",
                            "committed", "visible"},
         c = [part \in DOMAIN c |-> c[part]],
         c.format \in Formats
  PROVE  AsSigned(c, c)
<1>1. c = [c EXCEPT !.visible = c.visible] /\ c = [c EXCEPT !.x5c = c.x5c, !.edited = c.edited]
  OBVIOUS
<1> QED
  BY <1>1 DEF AsSigned, Formats

\* An alteration that leaves a credential passing has left it as it was signed.
LEMMA AlteredIsNoticed ==
  ASSUME NEW c, NEW sub, NEW what, SignedFor(c, sub, what), NEW alteration \in Alterations,
         NEW a, a = Altered(c, alteration), a.intact, a.x5c # <<>>
  PROVE  AsSigned(a, c)
<1>1. /\ DOMAIN c = {"format", "template", "issuer", "x5c", "signer", "intact", "edited", "until",
                     "committed", "visible"}
      /\ c.format \in Formats /\ c.intact = TRUE
  BY SignedParts
<1>2. c.edited = FALSE /\ (c.format # "sd-jwt" => c.committed = {})
  BY SignedExtras
<1> c = [part \in DOMAIN c |-> c[part]]
  BY DEF SignedFor, Credential
<1>3. AsSigned(c, c)
  BY <1>1, <1>2, SameCredential
<1>4. alteration \in {"none", "content", "issuer", "chain", "wrapping", "elements", "disclosures"}
  BY RequestsAreKnown
<1> DEFINE mdoc == c.format = "mdoc"
<1>5. CASE alteration = "none"
  BY <1>3, <1>5 DEF Altered
<1>6. CASE alteration = "content"
  <2>1. a = [c EXCEPT !.intact = FALSE]
    BY <1>6 DEF Altered
  <2> QED
    BY <1>1, <2>1
<1>7. CASE alteration = "issuer"
  <2>1. a = IF mdoc THEN c ELSE [c EXCEPT !.issuer = Foreign, !.intact = FALSE]
    BY <1>7 DEF Altered
  <2>2. [c EXCEPT !.issuer = Foreign, !.intact = FALSE].intact = FALSE
    BY <1>1
  <2> QED
    BY <1>3, <2>1, <2>2
<1>8. CASE alteration = "chain"
  <2>1. a = [c EXCEPT !.x5c = <<>>, !.intact = mdoc]
    BY <1>8 DEF Altered
  <2> QED
    BY <1>1, <2>1
<1>9. CASE alteration = "wrapping"
  <2>1. a = [c EXCEPT !.x5c = Wrapping, !.intact = mdoc]
    BY <1>9 DEF Altered
  <2>2. mdoc
    BY <1>1, <2>1
  <2>3. a = [c EXCEPT !.x5c = a.x5c, !.edited = a.edited]
    BY <1>1, <1>2, <2>1, <2>2
  <2> QED
    BY <2>2, <2>3 DEF AsSigned
<1>10. CASE alteration = "elements"
  <2>1. a = [c EXCEPT !.edited = mdoc]
    BY <1>10 DEF Altered
  <2>2. CASE mdoc
    <3>1. a = [c EXCEPT !.x5c = a.x5c, !.edited = a.edited]
      BY <1>1, <1>2, <2>1, <2>2
    <3> QED
      BY <2>2, <3>1 DEF AsSigned
  <2>3. CASE ~mdoc
    <3>1. a = c
      BY <1>1, <1>2, <2>1, <2>3
    <3> QED
      BY <1>3, <3>1
  <2> QED
    BY <2>2, <2>3
<1>11. CASE alteration = "disclosures"
  <2>1. a = [c EXCEPT !.visible = c.visible \ c.committed]
    BY <1>11 DEF Altered
  <2>2. CASE c.format = "sd-jwt"
    <3>1. a = [c EXCEPT !.visible = a.visible] /\ a.visible \subseteq c.visible
      BY <1>1, <2>1
    <3> QED
      BY <2>2, <3>1 DEF AsSigned
  <2>3. CASE c.format # "sd-jwt"
    <3>1. c.visible \ c.committed = c.visible
      BY <1>2, <2>3
    <3>2. a = c
      BY <1>1, <1>2, <2>1, <3>1
    <3> QED
      BY <1>3, <3>2
  <2> QED
    BY <2>2, <2>3
<1> QED
  BY <1>4, <1>5, <1>6, <1>7, <1>8, <1>9, <1>10, <1>11

\* Altering a credential keeps its format.
LEMMA AlteredKeepsFormat ==
  ASSUME NEW c, NEW sub, NEW what, SignedFor(c, sub, what), NEW alteration \in Alterations
  PROVE  Altered(c, alteration).format = c.format
<1>1. DOMAIN c = {"format", "template", "issuer", "x5c", "signer", "intact", "edited", "until",
                  "committed", "visible"}
  BY SignedParts
<1> QED
  BY <1>1, RequestsAreKnown DEF Altered

\* The links of an mDoc's chain held when it was signed, and hold still: what
\* can have changed since is the date.
LEMMA IssuerAuthKeeps ==
  ASSUME NEW c, NEW sub, NEW what, SignedFor(c, sub, what), c.format = "mdoc",
         NEW t, t <= c.until, ValidAt(c.x5c[1], t)
  PROVE  IssuerAuthHolds(c, t)
<1>1. PICK s \in 0..MaxTime : IssuerAuthHolds(c, s)
  BY SignedParts
<1> DEFINE leaf == sub.chain[1]
           ca == sub.chain[Len(sub.chain)]
<1>2. Len(c.x5c) = 2
  <2>1. c.x5c = <<leaf, ca>>
    BY SignedParts
  <2> HIDE DEF leaf, ca
  <2> QED
    BY <2>1
<1>3. 1..(Len(c.x5c) - 1) = {1}
  BY <1>2
<1> QED
  BY <1>1, <1>3 DEF IssuerAuthHolds, VerifyChain

\* What the studio signed carries a signature only its own rules refuse later.
LEMMA BlamedSignature ==
  ASSUME NEW c, NEW sub, NEW what, SignedFor(c, sub, what), NEW t \in 0..MaxTime,
         Checks(c, t).signature = "failed"
  PROVE  \/ c.format = "mdoc" /\ (t > c.until \/ ~ValidAt(c.x5c[1], t))
         \/ c.format = "jsonld" /\ "assertionMethod" \notin Relationships(c.x5c[1])
<1> DEFINE thrown == Throws(c, t)
           holds == ~thrown /\ SignatureHolds(c, t)
<1>1. Checks(c, t).signature = IF SkipsSignature(thrown) THEN "skipped" ELSE Verdict(holds)
  BY DEF Checks
<1>2. ~SignatureHolds(c, t)
  BY <1>1 DEF SkipsSignature, Verdict
<1> DEFINE leaf == sub.chain[1]
           ca == sub.chain[Len(sub.chain)]
<1>3. c.format \in Formats /\ c.intact = TRUE /\ c.signer = c.x5c[1].key
  <2>1. c.x5c = <<leaf, ca>> /\ c.format \in Formats /\ c.intact = TRUE /\ c.signer = leaf.key
    BY SignedParts
  <2> HIDE DEF leaf, ca
  <2>2. c.x5c[1] = leaf
    BY <2>1
  <2> QED
    BY <2>1, <2>2
<1>4. CASE c.format = "jsonld"
  BY <1>2, <1>3, <1>4, IssuerIsRecovered DEF SignatureHolds, JsonLdHolds
<1>5. CASE c.format = "sd-jwt"
  BY <1>2, <1>3, <1>5 DEF SignatureHolds, SdJwtHolds
<1>6. CASE c.format = "mdoc"
  <2>1. ~(t <= c.until) \/ ~ValidAt(c.x5c[1], t)
    BY <1>2, <1>6, IssuerAuthKeeps DEF SignatureHolds
  <2>2. c.until \in Nat
    BY <1>6, SignedExtras
  <2>3. t \in Nat
    BY ClockIsBounded
  <2>4. ~(t <= c.until) => t > c.until
    BY <2>2, <2>3
  <2> QED
    BY <1>6, <2>1, <2>4
<1> QED
  BY <1>3, <1>4, <1>5, <1>6 DEF Formats

\* What was signed with a leaf and its CA passes while the identity resolves.
LEMMA UntouchedPasses ==
  ASSUME NEW c, NEW sub, NEW what, SignedFor(c, sub, what), NEW t,
         Len(sub.chain) = 2, Reports(Identity(sub), t),
         CanSign(sub.chain[1]), "assertionMethod" \in Relationships(sub.chain[1]),
         c.format = "mdoc" => "CN" \in DOMAIN sub.chain[1].subject /\ t <= c.until
  PROVE  AllPassed(Checks(c, t))
<1> DEFINE leaf == sub.chain[1]
           ca == sub.chain[2]
<1>1. sub.chain = <<leaf, ca>> /\ c.x5c = <<leaf, ca>>
  <2>1. sub.chain = <<leaf, ca>>
    BY SubmissionParts DEF SignedFor
  <2>2. c.x5c = <<leaf, sub.chain[Len(sub.chain)]>>
    BY SignedParts
  <2> QED
    BY <2>1, <2>2
<1>2. c.x5c = sub.chain /\ c.x5c[1] = leaf /\ c.x5c # <<>>
  <2> HIDE DEF leaf, ca
  <2>1. c.x5c[1] = leaf /\ c.x5c # <<>>
    BY <1>1
  <2> QED
    BY <1>1, <2>1
<1>3. c.format \in Formats /\ c.intact = TRUE /\ c.signer = leaf.key
  BY SignedParts
<1>4. Resolves(DeriveDid(sub.chain, sub.attribute), c.x5c, t)
  BY <1>2 DEF Reports, Identity
<1>5. ValidAt(leaf, t)
  BY <1>2, <1>4 DEF Resolves
<1> HIDE DEF leaf
<1>6. Recoverable(c) /\ RecoveryAttribute(c) # None
  <2>1. CASE c.format = "mdoc"
    <3>1. RecoveryAttribute(c) = "CN" /\ None # "CN"
      BY <2>1, NoneIsNothingElse DEF RecoveryAttribute
    <3>2. HasAttribute(c.x5c, "CN")
      BY <2>1, <1>2 DEF HasAttribute, leaf
    <3> QED
      BY <3>1, <3>2, <1>2 DEF Recoverable
  <2>2. CASE c.format # "mdoc"
    BY <2>2, IssuerIsRecovered
  <2> QED
    BY <2>1, <2>2
<1>7. c.format # "mdoc" => c.issuer = RecoveredDid(c) /\ c.issuer = DeriveDid(sub.chain, sub.attribute)
  BY IssuerIsRecovered, SignedParts
<1>8. ~Throws(c, t)
  BY <1>4, <1>6, <1>7 DEF Throws, LoadsIssuer
<1>9. SignatureHolds(c, t)
  <2>1. CASE c.format = "jsonld"
    BY <2>1, <1>2, <1>3, <1>7 DEF SignatureHolds, JsonLdHolds, leaf
  <2>2. CASE c.format = "sd-jwt"
    BY <2>2, <1>2, <1>3 DEF SignatureHolds, SdJwtHolds
  <2>3. CASE c.format = "mdoc"
    BY <2>3, <1>2, <1>5, IssuerAuthKeeps DEF SignatureHolds
  <2> QED
    BY <2>1, <2>2, <2>3, <1>3 DEF Formats
<1>10. DidMatchesChain(c)
  BY <1>6, <1>7 DEF DidMatchesChain
<1> DEFINE thrown == Throws(c, t)
           holds == ~thrown /\ SignatureHolds(c, t)
           chain == IF thrown THEN InspectChain(c) ELSE c.x5c
           issuer == chain # <<>> /\ Recoverable(c)
<1>11. Checks(c, t)
         = [chain |-> IF chain # <<>> THEN "passed" ELSE "skipped",
            signature |-> IF SkipsSignature(thrown) THEN "skipped" ELSE Verdict(holds),
            did |-> IF issuer THEN Verdict(DidMatchesChain(c)) ELSE "absent",
            validity |-> IF issuer THEN Verdict(InDate(chain[1], t)) ELSE "skipped",
            usage |-> IF issuer THEN Verdict(CanSign(chain[1])) ELSE "absent",
            disclosures |-> IF c.format # "sd-jwt" THEN "absent" ELSE IF holds THEN "passed" ELSE "skipped"]
  BY DEF Checks
<1>12. ~thrown /\ holds /\ chain = c.x5c /\ issuer /\ chain # <<>>
  BY <1>2, <1>6, <1>8, <1>9
<1>13. ~SkipsSignature(thrown)
  BY <1>12 DEF SkipsSignature
<1>14. InDate(chain[1], t) /\ CanSign(chain[1])
  BY <1>2, <1>5, <1>12 DEF InDate, leaf
<1> HIDE DEF thrown, holds, chain, issuer
<1> QED
  BY <1>10, <1>11, <1>12, <1>13, <1>14 DEF AllPassed, Verdict

-----------------------------------------------------------------------------
(* What a request carries, from stage to stage.                            *)

LEMMA FreeParts ==
  /\ None \notin {"generate", "upload", "sign", "verify", "credo-resolve"}
  /\ DOMAIN Free = {"stage", "kind", "sub", "order", "what", "credential", "status", "checks", "formats"}
  /\ Free.stage = "free" /\ Free.kind = None /\ Free.credential = None
  /\ Free.checks = None /\ Free.formats = None
BY NoneIsNothingElse DEF Free, Kinds

LEMMA AskedGenerate ==
  ASSUME NEW h, NEW order \in Orders
  PROVE  RequestInv([Free EXCEPT !.stage = "read", !.kind = "generate", !.order = order], h)
<1> DEFINE r == [Free EXCEPT !.stage = "read", !.kind = "generate", !.order = order]
<1>1. /\ DOMAIN r = DOMAIN Free /\ r.stage = "read" /\ r.kind = "generate" /\ r.order = order
      /\ r.credential = None /\ r.checks = None /\ r.formats = None
  BY FreeParts
<1> HIDE DEF r
<1>2. RequestInv(r, h)
  BY <1>1, FreeParts DEF RequestInv, Kinds
<1> QED
  BY <1>2 DEF r

LEMMA AskedUpload ==
  ASSUME NEW h, NEW sub \in Submission
  PROVE  RequestInv([Free EXCEPT !.stage = "read", !.kind = "upload", !.sub = sub], h)
<1> DEFINE r == [Free EXCEPT !.stage = "read", !.kind = "upload", !.sub = sub]
<1>1. /\ DOMAIN r = DOMAIN Free /\ r.stage = "read" /\ r.kind = "upload" /\ r.sub = sub
      /\ r.credential = None /\ r.checks = None /\ r.formats = None
  BY FreeParts
<1> HIDE DEF r
<1>2. RequestInv(r, h)
  BY <1>1, FreeParts DEF RequestInv, Kinds
<1> QED
  BY <1>2 DEF r

LEMMA AskedCredoResolve ==
  ASSUME NEW h, NEW sub \in Submission
  PROVE  RequestInv([Free EXCEPT !.stage = "read", !.kind = "credo-resolve",
                                 !.sub = [sub EXCEPT !.file = None]], h)
<1> DEFINE keyless == [sub EXCEPT !.file = None]
           r == [Free EXCEPT !.stage = "read", !.kind = "credo-resolve", !.sub = keyless]
<1>1. \E s \in Submission : keyless = [s EXCEPT !.file = None]
  OBVIOUS
<1> HIDE DEF keyless
<1>2. /\ DOMAIN r = DOMAIN Free /\ r.stage = "read" /\ r.kind = "credo-resolve" /\ r.sub = keyless
      /\ r.credential = None /\ r.checks = None /\ r.formats = None
  BY FreeParts
<1> HIDE DEF r
<1>3. RequestInv(r, h)
  BY <1>1, <1>2, FreeParts DEF RequestInv, Kinds
<1> QED
  BY <1>3 DEF r, keyless

LEMMA AskedSign ==
  ASSUME NEW h, NEW sub \in Submission, NEW what \in Requested
  PROVE  RequestInv([Free EXCEPT !.stage = "read", !.kind = "sign", !.sub = sub, !.what = what], h)
<1> DEFINE r == [Free EXCEPT !.stage = "read", !.kind = "sign", !.sub = sub, !.what = what]
<1>1. /\ DOMAIN r = DOMAIN Free /\ r.stage = "read" /\ r.kind = "sign" /\ r.sub = sub /\ r.what = what
      /\ r.credential = None /\ r.checks = None /\ r.formats = None
  BY FreeParts
<1> HIDE DEF r
<1>2. RequestInv(r, h)
  BY <1>1, FreeParts DEF RequestInv, Kinds
<1> QED
  BY <1>2 DEF r

LEMMA AskedVerify ==
  ASSUME NEW h, h # None, NEW alteration \in Alterations
  PROVE  RequestInv([Free EXCEPT !.stage = "parsed", !.kind = "verify",
                                 !.credential = Altered(h, alteration)], h)
<1> DEFINE credential == Altered(h, alteration)
           r == [Free EXCEPT !.stage = "parsed", !.kind = "verify", !.credential = credential]
<1>1. \E a \in Alterations : credential = Altered(h, a)
  OBVIOUS
<1> HIDE DEF credential
<1>2. /\ DOMAIN r = DOMAIN Free /\ r.stage = "parsed" /\ r.kind = "verify" /\ r.credential = credential
      /\ r.checks = None /\ r.formats = None
  BY FreeParts
<1> HIDE DEF r
<1>3. RequestInv(r, h)
  BY <1>1, <1>2, FreeParts DEF RequestInv, Kinds
<1> QED
  BY <1>3 DEF r, credential

LEMMA FreedRequest ==
  ASSUME NEW h
  PROVE  RequestInv(Free, h)
BY FreeParts DEF RequestInv, Kinds

LEMMA Refused ==
  ASSUME NEW r, NEW h, RequestInv(r, h), r.stage \in {"read", "parsed"}
  PROVE  RequestInv([r EXCEPT !.stage = "answered", !.status = 400], h)
<1> DEFINE s == [r EXCEPT !.stage = "answered", !.status = 400]
<1>1. /\ DOMAIN s = DOMAIN Free /\ s.stage = "answered" /\ s.status = 400
      /\ s.kind = r.kind /\ s.sub = r.sub /\ s.order = r.order /\ s.what = r.what
      /\ s.credential = r.credential /\ s.checks = r.checks /\ s.formats = r.formats
  BY FreeParts DEF RequestInv
<1> HIDE DEF s
<1>2. RequestInv(s, h)
  BY <1>1 DEF RequestInv
<1> QED
  BY <1>2 DEF s

LEMMA ParsedRequest ==
  ASSUME NEW r, NEW h, RequestInv(r, h), r.stage = "read", r.kind # "generate", Parses(r.sub)
  PROVE  RequestInv([r EXCEPT !.stage = "parsed"], h)
<1> DEFINE s == [r EXCEPT !.stage = "parsed"]
<1>1. /\ DOMAIN s = DOMAIN Free /\ s.stage = "parsed" /\ s.status = r.status
      /\ s.kind = r.kind /\ s.sub = r.sub /\ s.order = r.order /\ s.what = r.what
      /\ s.credential = r.credential /\ s.checks = r.checks /\ s.formats = r.formats
  BY FreeParts DEF RequestInv
<1> HIDE DEF s
<1>2. RequestInv(s, h)
  BY <1>1 DEF RequestInv
<1> QED
  BY <1>2 DEF s

LEMMA ReportedRequest ==
  ASSUME NEW r, NEW h, RequestInv(r, h), r.stage \in {"read", "parsed"}, NEW type,
         \/ r.kind = "generate" /\ type = r.order.type
         \/ r.kind = "upload" /\ type = r.sub.chain[1].key.type
  PROVE  RequestInv([r EXCEPT !.stage = "answered", !.status = 200, !.formats = SignableFormats(type)], h)
<1> DEFINE formats == SignableFormats(type)
           s == [r EXCEPT !.stage = "answered", !.status = 200, !.formats = formats]
<1>1. \/ r.kind = "generate" /\ formats = SignableFormats(r.order.type)
      \/ r.kind = "upload" /\ formats = SignableFormats(r.sub.chain[1].key.type)
  OBVIOUS
<1> HIDE DEF formats
<1>2. /\ DOMAIN s = DOMAIN Free /\ s.stage = "answered" /\ s.status = 200 /\ s.formats = formats
      /\ s.kind = r.kind /\ s.sub = r.sub /\ s.order = r.order /\ s.what = r.what
      /\ s.credential = r.credential /\ s.checks = r.checks
  BY FreeParts DEF RequestInv
<1> HIDE DEF s
<1>3. RequestInv(s, h)
  BY <1>1, <1>2 DEF RequestInv
<1> QED
  BY <1>3 DEF s, formats

LEMMA SignedRequest ==
  ASSUME NEW r, NEW h, RequestInv(r, h), r.stage = "parsed", r.kind = "sign",
         NEW c, SignedFor(c, r.sub, r.what)
  PROVE  RequestInv([r EXCEPT !.stage = "signed", !.credential = c], h)
<1> DEFINE s == [r EXCEPT !.stage = "signed", !.credential = c]
<1>1. /\ DOMAIN s = DOMAIN Free /\ s.stage = "signed" /\ s.status = r.status /\ s.credential = c
      /\ s.kind = r.kind /\ s.sub = r.sub /\ s.order = r.order /\ s.what = r.what
      /\ s.checks = r.checks /\ s.formats = r.formats
  BY FreeParts DEF RequestInv
<1>2. c # None
  BY SignedParts
<1> HIDE DEF s
<1>3. RequestInv(s, h)
  BY <1>1, <1>2 DEF RequestInv
<1> QED
  BY <1>3 DEF s

LEMMA VerifiedRequest ==
  ASSUME NEW r, NEW h, RequestInv(r, h), r.kind = "verify" \/ r.stage = "signed",
         r.stage \in {"parsed", "signed"}, NEW checks
  PROVE  RequestInv([r EXCEPT !.stage = "answered", !.status = 200, !.checks = checks], h)
<1> DEFINE s == [r EXCEPT !.stage = "answered", !.status = 200, !.checks = checks]
<1>1. /\ DOMAIN s = DOMAIN Free /\ s.stage = "answered" /\ s.status = 200
      /\ s.kind = r.kind /\ s.sub = r.sub /\ s.order = r.order /\ s.what = r.what
      /\ s.credential = r.credential /\ s.formats = r.formats
  BY FreeParts DEF RequestInv
<1> HIDE DEF s
<1>2. RequestInv(s, h)
  BY <1>1 DEF RequestInv
<1> QED
  BY <1>2 DEF s

LEMMA CredoAnswered ==
  ASSUME NEW r, NEW h, RequestInv(r, h), r.stage = "parsed", r.kind = "credo-resolve"
  PROVE  RequestInv([r EXCEPT !.stage = "answered", !.status = 200], h)
<1> DEFINE s == [r EXCEPT !.stage = "answered", !.status = 200]
<1>1. /\ DOMAIN s = DOMAIN Free /\ s.stage = "answered" /\ s.status = 200
      /\ s.kind = r.kind /\ s.sub = r.sub /\ s.order = r.order /\ s.what = r.what
      /\ s.credential = r.credential /\ s.checks = r.checks /\ s.formats = r.formats
  BY FreeParts DEF RequestInv
<1> HIDE DEF s
<1>2. RequestInv(s, h)
  BY <1>1 DEF RequestInv
<1> QED
  BY <1>2 DEF s

-----------------------------------------------------------------------------
(* Each step keeps the invariant.                                          *)

\* An import evaluates a stack that was not, or does nothing.
LEMMA ImportKeeps ==
  ASSUME ModulesInv(modules), NEW stack \in Stacks, NEW by \in Importers
  PROVE  ModulesInv(AfterImport(stack, by))
<1>1. CASE Evaluated(stack)
  BY <1>1 DEF AfterImport
<1>2. CASE ~Evaluated(stack)
  <2> DEFINE m == Append(modules, [stack |-> stack, by |-> by])
             Module == [stack : Stacks, by : Importers]
  <2>1. modules \in Seq(Module) /\ [stack |-> stack, by |-> by] \in Module
    BY DEF ModulesInv, Importers
  <2>2. m \in Seq(Module) /\ Len(m) = Len(modules) + 1 /\ m[Len(m)].stack = stack
        /\ \A k \in 1..Len(modules) : m[k] = modules[k]
    BY <2>1
  <2>3. DOMAIN modules = 1..Len(modules) /\ DOMAIN m = 1..(Len(modules) + 1) /\ Len(modules) \in Nat
    BY <2>1, <2>2
  <2>4. \A k \in DOMAIN modules : modules[k].stack # stack
    BY <1>2 DEF Evaluated
  <2> HIDE DEF m
  <2>5. \A j, k \in DOMAIN m : m[j].stack = m[k].stack => j = k
    <3> SUFFICES ASSUME NEW j \in DOMAIN m, NEW k \in DOMAIN m, m[j].stack = m[k].stack PROVE j = k
      OBVIOUS
    <3>1. CASE j \in DOMAIN modules /\ k \in DOMAIN modules
      BY <3>1, <2>2, <2>3 DEF ModulesInv
    <3>2. CASE j \in DOMAIN modules /\ k \notin DOMAIN modules
      BY <3>2, <2>2, <2>3, <2>4
    <3>3. CASE j \notin DOMAIN modules /\ k \in DOMAIN modules
      BY <3>3, <2>2, <2>3, <2>4
    <3>4. CASE j \notin DOMAIN modules /\ k \notin DOMAIN modules
      BY <3>4, <2>3
    <3> QED
      BY <3>1, <3>2, <3>3, <3>4
  <2> QED
    BY <1>2, <2>2, <2>5 DEF AfterImport, ModulesInv, Importers, m
<1> QED
  BY <1>1, <1>2

LEMMA ServerInit == Init => ServerInv
<1> SUFFICES ASSUME Init PROVE ServerInv
  OBVIOUS
<1>1. RequestInv(request, held)
  BY FreedRequest DEF Init
<1>2. ModulesInv(modules)
  BY DEF Init, ModulesInv
<1>3. FlowInv(flow) /\ HeldInv(held, signer)
  BY DEF Init, NoFlow, FlowInv, HeldInv
<1> QED
  BY <1>1, <1>2, <1>3, ClockIsBounded DEF Init, ServerInv

\* A step that only moves the request.
LEMMA OnlyRequest ==
  ASSUME ServerInv, ModulesInv(modules'), RequestInv(request', held),
         UNCHANGED <<now, support, page, minted, held, signer, flow>>
  PROVE  ServerInv'
BY DEF ServerInv

\* A step that leaves the request alone.
LEMMA AllButRequest ==
  ASSUME ServerInv, now' \in 0..MaxTime, ModulesInv(modules'), FlowInv(flow'),
         support' \in {"unasked", "pending", "available", "rejected"},
         page' \in [Pages -> {"unasked", "asking", "shows tab", "hides tab"}],
         UNCHANGED <<minted, request, held, signer>>
  PROVE  ServerInv'
BY DEF ServerInv

LEMMA AskGenerateKeeps == ServerInv /\ AskGenerate => ServerInv'
<1> SUFFICES ASSUME ServerInv, AskGenerate PROVE ServerInv'
  OBVIOUS
<1>1. PICK order \in Orders :
        request' = [Free EXCEPT !.stage = "read", !.kind = "generate", !.order = order]
  BY DEF AskGenerate
<1>2. RequestInv(request', held)
  BY <1>1, AskedGenerate
<1> QED
  BY <1>2, OnlyRequest DEF AskGenerate, ServerInv

LEMMA AskWithChainKeeps == ServerInv /\ AskWithChain => ServerInv'
<1> SUFFICES ASSUME ServerInv, AskWithChain PROVE ServerInv'
  OBVIOUS
<1>1. PICK sub \in Known :
        \/ request' = [Free EXCEPT !.stage = "read", !.kind = "upload", !.sub = sub]
        \/ request' = [Free EXCEPT !.stage = "read", !.kind = "credo-resolve",
                                   !.sub = [sub EXCEPT !.file = None]]
        \/ \E what \in Requested :
             request' = [Free EXCEPT !.stage = "read", !.kind = "sign", !.sub = sub, !.what = what]
  BY DEF AskWithChain
<1>2. sub \in Submission
  <2>1. Submissions \subseteq Submission
    BY DEF Submission
  <2> QED
    BY <2>1 DEF Known, ServerInv
<1>3. RequestInv(request', held)
  <2>1. CASE request' = [Free EXCEPT !.stage = "read", !.kind = "upload", !.sub = sub]
    BY <1>2, <2>1, AskedUpload
  <2>2. CASE request' = [Free EXCEPT !.stage = "read", !.kind = "credo-resolve",
                                     !.sub = [sub EXCEPT !.file = None]]
    BY <1>2, <2>2, AskedCredoResolve
  <2>3. ASSUME NEW what \in Requested,
               request' = [Free EXCEPT !.stage = "read", !.kind = "sign", !.sub = sub, !.what = what]
        PROVE  RequestInv(request', held)
    BY <1>2, <2>3, AskedSign
  <2> QED
    BY <1>1, <2>1, <2>2, <2>3
<1> QED
  BY <1>3, OnlyRequest DEF AskWithChain, ServerInv

LEMMA AskVerifyKeeps == ServerInv /\ AskVerify => ServerInv'
<1> SUFFICES ASSUME ServerInv, AskVerify PROVE ServerInv'
  OBVIOUS
<1>1. PICK alteration \in Alterations :
        request' = [Free EXCEPT !.stage = "parsed", !.kind = "verify",
                                !.credential = Altered(held, alteration)]
  BY DEF AskVerify
<1>2. RequestInv(request', held)
  BY <1>1, AskedVerify DEF AskVerify
<1> QED
  BY <1>2, OnlyRequest DEF AskVerify, ServerInv

LEMMA ParseIdentityKeeps == ServerInv /\ ParseIdentity => ServerInv'
<1> SUFFICES ASSUME ServerInv, ParseIdentity PROVE ServerInv'
  OBVIOUS
<1>1. CASE ParsesUpload(request.sub)
  <2>1. request' = [request EXCEPT !.stage = "parsed"]
    BY <1>1 DEF ParseIdentity
  <2>2. RequestInv(request', held)
    BY <1>1, <2>1, ParsedRequest DEF ParseIdentity, ParsesUpload, ServerInv
  <2> QED
    BY <2>2, OnlyRequest DEF ParseIdentity, ServerInv
<1>2. CASE ~ParsesUpload(request.sub)
  <2>1. request' = [request EXCEPT !.stage = "answered", !.status = 400] /\ request.stage = "read"
    BY <1>2 DEF ParseIdentity, Refuse
  <2>2. RequestInv(request, held)
    BY DEF ServerInv
  <2>3. RequestInv(request', held)
    BY <2>1, <2>2, Refused
  <2> QED
    BY <2>3, OnlyRequest DEF ParseIdentity, ServerInv
<1> QED
  BY <1>1, <1>2

\* The report of an identity, from either route.
LEMMA ReportKeeps ==
  ASSUME ServerInv, NEW identity, Report(identity), request.stage \in {"read", "parsed"},
         \/ request.kind = "generate" /\ identity.key.type = request.order.type
         \/ request.kind = "upload" /\ identity.key.type = request.sub.chain[1].key.type
  PROVE  ModulesInv(modules') /\ RequestInv(request', held)
<1>1. RequestInv(request, held) /\ ModulesInv(modules)
  BY DEF ServerInv
<1>2. CASE Reports(identity, now)
  <2>1. ModulesInv(modules')
    BY <1>1, <1>2, ImportKeeps DEF Report, Stacks, Importers
  <2> DEFINE type == identity.key.type
  <2>2. request' = [request EXCEPT !.stage = "answered", !.status = 200, !.formats = SignableFormats(type)]
    BY <1>2 DEF Report
  <2> HIDE DEF type
  <2>3. RequestInv(request', held)
    BY <1>1, <2>2, ReportedRequest DEF type
  <2> QED
    BY <2>1, <2>3
<1>3. CASE ~Reports(identity, now)
  <2>1. request' = [request EXCEPT !.stage = "answered", !.status = 400] /\ modules' = modules
    BY <1>3 DEF Report, Refuse
  <2> QED
    BY <1>1, <2>1, Refused
<1> QED
  BY <1>2, <1>3

LEMMA GenerateKeeps == ServerInv /\ Generate => ServerInv'
<1> SUFFICES ASSUME ServerInv, Generate PROVE ServerInv'
  OBVIOUS
<1> DEFINE order == request.order
           identity == Generated(order, "mint", now)
<1>1. RequestInv(request, held) /\ now \in 0..MaxTime
  BY DEF ServerInv
<1>2. request.kind = "generate" /\ request.stage = "read"
  BY DEF Generate, Asked
<1>3. order \in Orders
  BY <1>1, <1>2 DEF RequestInv
<1>4. Report(identity) /\ minted' \in {None, Resubmitted(identity, order.attribute)}
  BY DEF Generate
<1>5. identity.key.type = order.type
  BY DEF Generated, FreshLeaf, FreshRoot, FreshKey
<1>6. Resubmitted(identity, order.attribute) \in Submission
  BY <1>1, <1>3 DEF Submission
<1>7. UNCHANGED <<now, support, page, held, signer, flow>>
  BY DEF Generate
<1> HIDE DEF identity
<1>8. ModulesInv(modules') /\ RequestInv(request', held)
  BY <1>2, <1>4, <1>5, ReportKeeps
<1>9. minted' \in Submission \cup {None}
  BY <1>4, <1>6
<1> QED
  BY <1>7, <1>8, <1>9 DEF ServerInv

LEMMA UploadKeeps == ServerInv /\ Upload => ServerInv'
<1> SUFFICES ASSUME ServerInv, Upload PROVE ServerInv'
  OBVIOUS
<1> DEFINE identity == Identity(request.sub)
<1>1. /\ request.kind = "upload" /\ request.stage = "parsed" /\ Report(identity)
      /\ UNCHANGED <<now, support, page, minted, held, signer, flow>>
  BY DEF Upload, Asked
<1>2. identity.key.type = request.sub.chain[1].key.type
  BY DEF Identity
<1> HIDE DEF identity
<1>3. ModulesInv(modules') /\ RequestInv(request', held)
  BY <1>1, <1>2, ReportKeeps
<1> QED
  BY <1>1, <1>3, OnlyRequest

LEMMA SignKeeps == ServerInv /\ Sign => ServerInv'
<1> SUFFICES ASSUME ServerInv, Sign PROVE ServerInv'
  OBVIOUS
<1> DEFINE sub == request.sub
           what == request.what
           identity == Identity(sub)
           signs == Signs(identity, what, now, EncoderBroken)
<1>1. RequestInv(request, held) /\ ModulesInv(modules) /\ now \in 0..MaxTime
  BY DEF ServerInv
<1>2. /\ request.kind = "sign" /\ request.stage = "parsed"
      /\ UNCHANGED <<now, support, page, minted, held, signer, flow>>
  BY DEF Sign, Asked
<1>3. sub \in Submission /\ what \in Requested /\ Parses(sub)
  BY <1>1, <1>2 DEF RequestInv
<1>4. modules' = AfterImport("mdoc", "studio") \/ modules' = modules
  BY DEF Sign
<1>5. ModulesInv(modules')
  BY <1>1, <1>4, ImportKeeps DEF Stacks, Importers
<1>6. RequestInv(request', held)
  <2>1. CASE signs
    <3> DEFINE c == Credential(identity, what, now)
    <3>1. request' = [request EXCEPT !.stage = "signed", !.credential = c]
      BY <2>1 DEF Sign
    <3>2. SignedFor(c, sub, what)
      BY <1>1, <1>3, <2>1 DEF SignedFor, EncoderBroken
    <3> HIDE DEF c
    <3> QED
      BY <1>1, <1>2, <3>1, <3>2, SignedRequest
  <2>2. CASE ~signs
    <3>1. request' = [request EXCEPT !.stage = "answered", !.status = 400]
      BY <2>2 DEF Sign, Refuse
    <3> QED
      BY <1>1, <1>2, <3>1, Refused
  <2> QED
    BY <2>1, <2>2
<1> QED
  BY <1>2, <1>5, <1>6, OnlyRequest

LEMMA VerifyKeeps == ServerInv /\ Verify => ServerInv'
<1> SUFFICES ASSUME ServerInv, Verify PROVE ServerInv'
  OBVIOUS
<1> DEFINE checks == Checks(request.credential, now)
<1>1. RequestInv(request, held) /\ ModulesInv(modules)
  BY DEF ServerInv
<1>2. /\ request.kind = "verify" \/ request.stage = "signed"
      /\ request.stage \in {"parsed", "signed"}
      /\ modules' = AfterImport("mdoc", "studio") \/ modules' = modules
      /\ request' = [request EXCEPT !.stage = "answered", !.status = 200, !.checks = checks]
      /\ UNCHANGED <<now, support, page, minted, held, signer, flow>>
  BY DEF Verify, Asked
<1> HIDE DEF checks
<1>3. ModulesInv(modules')
  BY <1>1, <1>2, ImportKeeps DEF Stacks, Importers
<1>4. RequestInv(request', held)
  BY <1>1, <1>2, VerifiedRequest
<1> QED
  BY <1>2, <1>3, <1>4, OnlyRequest

LEMMA CredoResolveKeeps == ServerInv /\ CredoResolve => ServerInv'
<1> SUFFICES ASSUME ServerInv, CredoResolve PROVE ServerInv'
  OBVIOUS
<1>1. RequestInv(request, held) /\ ModulesInv(modules)
  BY DEF ServerInv
<1>2. /\ request.kind = "credo-resolve" /\ request.stage = "parsed"
      /\ modules' = AfterImport("credo", "credo tab")
      /\ \/ request' = [request EXCEPT !.stage = "answered", !.status = 200]
         \/ request' = [request EXCEPT !.stage = "answered", !.status = 400]
      /\ UNCHANGED <<now, support, page, minted, held, signer, flow>>
  BY DEF CredoResolve, Asked, Refuse
<1>3. ModulesInv(modules')
  BY <1>1, <1>2, ImportKeeps DEF Stacks, Importers
<1>4. RequestInv(request', held)
  <2>1. CASE request' = [request EXCEPT !.stage = "answered", !.status = 200]
    BY <1>1, <1>2, <2>1, CredoAnswered
  <2>2. CASE request' = [request EXCEPT !.stage = "answered", !.status = 400]
    BY <1>1, <1>2, <2>2, Refused
  <2> QED
    BY <1>2, <2>1, <2>2
<1> QED
  BY <1>2, <1>3, <1>4, OnlyRequest

LEMMA DeliverKeeps == ServerInv /\ Deliver => ServerInv'
<1> SUFFICES ASSUME ServerInv, Deliver PROVE ServerInv'
  OBVIOUS
<1>1. RequestInv(request, held) /\ HeldInv(held, signer)
  BY DEF ServerInv
<1>2. /\ request' = Free /\ request.stage = "answered"
      /\ UNCHANGED <<now, modules, support, page, minted, flow>>
  BY DEF Deliver
<1>3. RequestInv(request', held')
  BY <1>2, FreedRequest
<1>4. HeldInv(held', signer')
  <2>1. CASE request.kind = "sign" /\ request.status = 200
    <3>1. held' = request.credential /\ signer' = request.sub
      BY <2>1 DEF Deliver
    <3>2. request.credential # None /\ SignedFor(request.credential, request.sub, request.what)
      BY <1>1, <1>2, <2>1 DEF RequestInv
    <3>3. request.what \in Requested /\ request.sub \in Submission
      BY <3>2 DEF SignedFor
    <3>4. request.sub # None
      BY <3>3, SubmissionParts
    <3> QED
      BY <3>1, <3>2, <3>3, <3>4 DEF HeldInv
  <2>2. CASE ~(request.kind = "sign" /\ request.status = 200)
    <3>1. held' = held /\ signer' = signer
      BY <2>2 DEF Deliver
    <3> QED
      BY <1>1, <3>1
  <2> QED
    BY <2>1, <2>2
<1> QED
  BY <1>2, <1>3, <1>4 DEF ServerInv

LEMMA TabKeeps ==
  ASSUME ServerInv, (\E p \in Pages : AskStatus(p) \/ AnswerStatus(p)) \/ SupportSettles \/ UseCredoTab
  PROVE  ServerInv'
<1>1. /\ UNCHANGED <<now, minted, request, held, signer, flow>>
      /\ support' \in {support, "pending", "available", "rejected"}
      /\ \/ page' = page
         \/ \E p \in Pages, shown \in {"asking", "shows tab", "hides tab"} :
              page' = [page EXCEPT ![p] = shown]
  BY DEF AskStatus, AnswerStatus, SupportSettles, UseCredoTab
<1>2. modules' \in {modules, AfterImport("credo", "status"), AfterImport("credo", "credo tab")}
  BY DEF AskStatus, AnswerStatus, SupportSettles, UseCredoTab
<1>3. /\ ModulesInv(modules) /\ FlowInv(flow) /\ now \in 0..MaxTime
      /\ support \in {"unasked", "pending", "available", "rejected"}
      /\ page \in [Pages -> {"unasked", "asking", "shows tab", "hides tab"}]
  BY DEF ServerInv
<1>4. ModulesInv(modules')
  BY <1>2, <1>3, ImportKeeps DEF Stacks, Importers
<1>5. page' \in [Pages -> {"unasked", "asking", "shows tab", "hides tab"}]
  BY <1>1, <1>3
<1>6. support' \in {"unasked", "pending", "available", "rejected"}
  BY <1>1, <1>3
<1> QED
  BY <1>1, <1>3, <1>4, <1>5, <1>6, AllButRequest

LEMMA AskFlowsKeeps == ServerInv /\ AskFlows => ServerInv'
<1> SUFFICES ASSUME ServerInv, AskFlows PROVE ServerInv'
  OBVIOUS
<1>1. PICK name \in Runs :
        flow' = IF name = "all" THEN [NoFlow EXCEPT !.left = AllFlows, !.all = TRUE]
                ELSE [NoFlow EXCEPT !.left = <<name>>]
  BY DEF AskFlows
<1>2. FlowInv(flow')
  BY <1>1 DEF FlowInv, NoFlow
<1> QED
  BY <1>2, AllButRequest DEF AskFlows, ServerInv

LEMMA RunFlowKeeps == ServerInv /\ RunFlow => ServerInv'
<1> SUFFICES ASSUME ServerInv, RunFlow PROVE ServerInv'
  OBVIOUS
<1> DEFINE name == Head(flow.left)
           by == IF flow.all THEN "run all" ELSE "flow"
           last == IF Len(flow.left) = 1 THEN 200 ELSE None
           left == Tail(flow.left)
           done == Append(flow.done, name)
<1>1. FlowInv(flow) /\ ModulesInv(modules)
  BY DEF ServerInv
<1>2. StackOf(name) # {} => name \in Stacks
  BY DEF StackOf, Stacks
<1>3. by \in Importers /\ last \in {None, 200}
  BY DEF Importers
<1>4. modules' = IF StackOf(name) = {} THEN modules ELSE AfterImport(name, by)
  BY DEF RunFlow
<1>5. \/ flow' = [flow EXCEPT !.left = left, !.done = done, !.status = last]
      \/ flow' = [flow EXCEPT !.left = <<>>, !.done = <<>>, !.status = 500]
  BY DEF RunFlow
<1>6. UNCHANGED <<now, support, page, request, minted, held, signer>>
  BY DEF RunFlow
<1> HIDE DEF name, by, last, left, done
<1>7. ModulesInv(modules')
  BY <1>1, <1>2, <1>3, <1>4, ImportKeeps
<1>8. FlowInv(flow')
  <2>1. DOMAIN flow = {"left", "done", "status", "all"}
    BY <1>1 DEF FlowInv, NoFlow
  <2>2. DOMAIN flow' = DOMAIN flow /\ flow'.status \in {last, 500}
    <3>1. CASE flow' = [flow EXCEPT !.left = left, !.done = done, !.status = last]
      BY <2>1, <3>1
    <3>2. CASE flow' = [flow EXCEPT !.left = <<>>, !.done = <<>>, !.status = 500]
      BY <2>1, <3>2
    <3> QED
      BY <1>5, <3>1, <3>2
  <2> QED
    BY <1>1, <1>3, <2>2 DEF FlowInv
<1> QED
  BY <1>6, <1>7, <1>8, AllButRequest DEF ServerInv

LEMMA TickKeeps == ServerInv /\ Tick => ServerInv'
<1> SUFFICES ASSUME ServerInv, Tick PROVE ServerInv'
  OBVIOUS
<1>1. now' \in 0..MaxTime
  <2>1. now \in 0..MaxTime
    BY DEF ServerInv
  <2> QED
    BY <2>1, ClockIsBounded DEF Tick
<1>2. ModulesInv(modules') /\ FlowInv(flow')
  BY DEF Tick, ServerInv
<1> QED
  BY <1>1, <1>2, AllButRequest DEF Tick, ServerInv

\* The invariant is inductive.
LEMMA ServerStep == ServerInv /\ [Next]_vars => ServerInv'
<1> SUFFICES ASSUME ServerInv, [Next]_vars PROVE ServerInv'
  OBVIOUS
<1>1. CASE AskGenerate \/ AskWithChain \/ AskVerify
  BY <1>1, AskGenerateKeeps, AskWithChainKeeps, AskVerifyKeeps
<1>2. CASE Handle
  BY <1>2, ParseIdentityKeeps, GenerateKeeps, UploadKeeps, SignKeeps, VerifyKeeps, CredoResolveKeeps
     DEF Handle
<1>3. CASE Deliver
  BY <1>3, DeliverKeeps
<1>4. CASE \E p \in Pages : AskStatus(p) \/ AnswerStatus(p)
  BY <1>4, TabKeeps
<1>5. CASE SupportSettles
  BY <1>5, TabKeeps
<1>6. CASE UseCredoTab
  BY <1>6, TabKeeps
<1>7. CASE AskFlows \/ RunFlow \/ Tick
  BY <1>7, AskFlowsKeeps, RunFlowKeeps, TickKeeps
<1>8. CASE UNCHANGED vars
  BY <1>8, AllButRequest DEF vars, ServerInv
<1> QED
  BY <1>1, <1>2, <1>3, <1>4, <1>5, <1>6, <1>7, <1>8 DEF Next

LEMMA ServerInvariant == Spec => []ServerInv
<1> QED
  BY ServerInit, ServerStep, PTL DEF Spec

-----------------------------------------------------------------------------
(* The theorems.                                                           *)

LEMMA TwoStacks ==
  ASSUME NEW m, ModulesInv(m)
  PROVE  Len(m) <= 2
<1>1. m \in Seq([stack : Stacks, by : Importers])
  BY DEF ModulesInv, Importers
<1>2. Len(m) \in Nat /\ DOMAIN m = 1..Len(m) /\ \A k \in DOMAIN m : m[k].stack \in {"mdoc", "credo"}
  <2> DEFINE Module == [stack : Stacks, by : Importers]
  <2>1. \A x \in Module : x.stack \in {"mdoc", "credo"}
    BY DEF Stacks
  <2>2. m \in Seq(Module)
    BY <1>1
  <2> HIDE DEF Module
  <2>3. Len(m) \in Nat /\ DOMAIN m = 1..Len(m) /\ \A k \in DOMAIN m : m[k] \in Module
    BY <2>2
  <2> QED
    BY <2>1, <2>3
<1>3. ASSUME Len(m) > 2 PROVE FALSE
  <2>1. 1 \in DOMAIN m /\ 2 \in DOMAIN m /\ 3 \in DOMAIN m
    BY <1>2, <1>3
  <2>2. \A j, k \in DOMAIN m : m[j].stack = m[k].stack => j = k
    BY DEF ModulesInv
  <2>3. m[1].stack # m[2].stack /\ m[1].stack # m[3].stack /\ m[2].stack # m[3].stack
    BY <2>1, <2>2
  <2> QED
    BY <1>2, <2>1, <2>3
<1> QED
  BY <1>2, <1>3

LEMMA InvImpliesType == ServerInv => TypeOK
<1> SUFFICES ASSUME ServerInv PROVE TypeOK
  OBVIOUS
<1>1. /\ now \in 0..MaxTime /\ minted \in Submission \cup {None}
      /\ support \in {"unasked", "pending", "available", "rejected"}
      /\ page \in [Pages -> {"unasked", "asking", "shows tab", "hides tab"}]
      /\ ModulesInv(modules) /\ RequestInv(request, held) /\ HeldInv(held, signer) /\ FlowInv(flow)
  BY DEF ServerInv
<1>2. Len(modules) <= 2
  BY <1>1, TwoStacks
<1>3. \A k \in DOMAIN modules :
        modules[k] \in [stack : {"mdoc", "credo"}, by : {"studio", "status", "credo tab", "flow", "run all"}]
  <2> DEFINE Module == [stack : {"mdoc", "credo"}, by : {"studio", "status", "credo tab", "flow", "run all"}]
  <2>1. modules \in Seq(Module)
    BY <1>1 DEF ModulesInv, Stacks, Importers
  <2> HIDE DEF Module
  <2>2. \A k \in DOMAIN modules : modules[k] \in Module
    BY <2>1
  <2> QED
    BY <2>2 DEF Module
<1>4. request.stage = "parsed" /\ request.kind # "verify" => request.sub # None
  <2> SUFFICES ASSUME request.stage = "parsed", request.kind # "verify" PROVE request.sub # None
    OBVIOUS
  <2>1. request.kind \in Kinds \cup {None} /\ request.kind # "generate"
    BY <1>1 DEF RequestInv
  <2>2. CASE request.kind \in {"upload", "sign"}
    <3>1. request.sub \in Submission
      BY <1>1, <2>2 DEF RequestInv
    <3> QED
      BY <3>1, SubmissionParts
  <2>3. CASE request.kind = "credo-resolve"
    <3>1. PICK sub \in Submission : request.sub = [sub EXCEPT !.file = None]
      BY <1>1, <2>3 DEF RequestInv
    <3> QED
      BY <3>1, SubmissionParts
  <2>4. request.kind # None
    BY <1>1 DEF RequestInv
  <2> QED
    BY <2>1, <2>2, <2>3, <2>4 DEF Kinds
<1>5. request.stage = "signed" => request.kind = "sign" /\ request.credential # None
  BY <1>1 DEF RequestInv
<1>6. /\ request.stage \in {"free", "read", "parsed", "signed", "answered"}
      /\ request.kind \in Kinds \cup {None}
      /\ request.stage = "answered" => request.status \in {200, 400}
  BY <1>1 DEF RequestInv
<1>7. ((held = None) <=> (signer = None)) /\ flow.status \in {None, 200, 500}
  BY <1>1 DEF HeldInv, FlowInv
<1> QED
  BY <1>1, <1>2, <1>3, <1>4, <1>5, <1>6, <1>7 DEF TypeOK

\* Every variable has its type, whatever is uploaded, ordered and asked for; in
\* particular no stack is evaluated twice, and a request that reaches a handler
\* carries what the handler reads.
THEOREM ServerTypeCorrect == Spec => []TypeOK
<1> QED
  BY ServerInvariant, InvImpliesType, PTL

LEMMA InvImpliesSignedAsAsked == ServerInv => SignedAsAsked
<1> SUFFICES ASSUME ServerInv, request.kind = "sign", request.credential # None
             PROVE  LET credential == request.credential
                        movable == request.what.withheld \cap Templates[request.what.template].disclosable
                    IN /\ credential.signer = request.sub.chain[1].key
                       /\ credential.format = "sd-jwt" =>
                            movable \cap credential.visible = {} /\ movable \subseteq credential.committed
  BY DEF SignedAsAsked
<1> DEFINE c == request.credential
           sub == request.sub
           what == request.what
<1>1. SignedFor(c, sub, what)
  BY DEF ServerInv, RequestInv
<1> HIDE DEF c, sub, what
<1>2. c.signer = sub.chain[1].key /\ c.format = what.format
  BY <1>1, SignedParts
<1>3. PICK t \in 0..MaxTime : c = Credential(Identity(sub), what, t)
  BY <1>1 DEF SignedFor
<1>4. c.format = "sd-jwt" =>
        LET movable == what.withheld \cap Templates[what.template].disclosable
        IN movable \cap c.visible = {} /\ movable \subseteq c.committed
  BY <1>2, <1>3, WithheldIsCommitted
<1> QED
  BY <1>2, <1>4 DEF c, sub, what

\* Whoever's submission is signed for holds the leaf's key, whatever part of it
\* the upload compared; and the claims withheld from an SD-JWT are committed to
\* and not shown.
THEOREM SignaturesAreTheLeafs == Spec => []SignedAsAsked
<1> QED
  BY ServerInvariant, InvImpliesSignedAsAsked, PTL

LEMMA InvImpliesMatrix == ServerInv => MatrixTellsTruth
<1> SUFFICES ASSUME ServerInv PROVE MatrixTellsTruth
  OBVIOUS
<1>1. RequestInv(request, held) /\ HeldInv(held, signer)
  BY DEF ServerInv
<1> DEFINE Claims(type, format) == MatrixRow(type).cells[format] \in Wired(format)
           type == IF request.kind = "generate" THEN request.order.type ELSE request.sub.chain[1].key.type
<1>2. ASSUME request.formats # None, type \in KeyTypes
      PROVE  request.formats = {format \in Formats : Claims(type, format)}
  <2>1. request.formats = SignableFormats(type)
    BY <1>1, <1>2 DEF RequestInv
  <2> HIDE DEF type
  <2> QED
    BY <1>2, <2>1, OfferedIsClaimed
<1>3. ASSUME held # None PROVE Claims(held.signer.type, held.format)
  <2>1. PICK what \in Requested : SignedFor(held, signer, what)
    BY <1>1, <1>3 DEF HeldInv
  <2>2. held.format \in Formats /\ SigningAlgorithm(held.signer.type, held.format) # None
    BY <2>1, SignedParts
  <2>3. held.signer.type \in KeyTypes
    BY <2>2, SignersKeyType
  <2> QED
    BY <2>2, <2>3, TablesAgree
<1> HIDE DEF type
<1> QED
  BY <1>2, <1>3 DEF MatrixTellsTruth, type

\* For every key type and format: what an identity is offered is what the
\* capability tables claim, and what was signed they claim too.
THEOREM TablesTellTheTruth == Spec => []MatrixTellsTruth
<1> QED
  BY ServerInvariant, InvImpliesMatrix, PTL

\* A step that answers with a checklist is a verification of the credential the
\* request carries, at the time it answers.
LEMMA ChecklistStep ==
  ASSUME ServerInv, [Next]_vars, AnswersWithChecks
  PROVE  Verify /\ request'.checks = Checks(request.credential, now)
<1>1. request.stage \in {"parsed", "signed"} /\ request'.stage = "answered" /\ request'.checks # None
  BY DEF AnswersWithChecks
<1>2. DOMAIN request = DOMAIN Free /\ request.checks = None
  BY <1>1 DEF ServerInv, RequestInv
<1>3. DOMAIN request = {"stage", "kind", "sub", "order", "what", "credential", "status", "checks", "formats"}
  BY <1>2, FreeParts
<1>4. request' # request
  BY <1>1
<1>5. ~(AskGenerate \/ AskWithChain \/ AskVerify \/ Deliver)
  BY <1>1 DEF AskGenerate, AskWithChain, AskVerify, Deliver
<1>6. ASSUME request' = [request EXCEPT !.stage = "answered", !.status = 400] PROVE FALSE
  BY <1>1, <1>2, <1>3, <1>6
<1>7. ~ParseIdentity
  BY <1>1 DEF ParseIdentity
<1>8. ~Generate
  BY <1>1 DEF Generate, Asked
<1>9. ~Upload
  BY <1>1, <1>2, <1>3, <1>6 DEF Upload, Asked, Report, Refuse
<1>10. ~Sign
  BY <1>1, <1>2, <1>3, <1>6 DEF Sign, Asked, Refuse
<1>11. ~CredoResolve
  <2>1. CredoResolve => \/ request' = [request EXCEPT !.stage = "answered", !.status = 200]
                        \/ request' = [request EXCEPT !.stage = "answered", !.status = 400]
    BY DEF CredoResolve, Refuse
  <2>2. ASSUME request' = [request EXCEPT !.stage = "answered", !.status = 200] PROVE FALSE
    BY <1>1, <1>2, <1>3, <2>2
  <2> QED
    BY <1>6, <2>1, <2>2
<1>12. ASSUME NEW p \in Pages PROVE ~(AskStatus(p) \/ AnswerStatus(p))
  BY <1>4 DEF AskStatus, AnswerStatus
<1>13. ~(SupportSettles \/ UseCredoTab \/ AskFlows \/ RunFlow \/ Tick \/ UNCHANGED vars)
  BY <1>4 DEF SupportSettles, UseCredoTab, AskFlows, RunFlow, Tick, vars
<1>14. Verify
  BY <1>5, <1>7, <1>8, <1>9, <1>10, <1>11, <1>12, <1>13 DEF Next, Handle
<1> DEFINE checks == Checks(request.credential, now)
<1>15. request' = [request EXCEPT !.stage = "answered", !.status = 200, !.checks = checks]
  BY <1>14 DEF Verify
<1> HIDE DEF checks
<1>16. request'.checks = checks
  BY <1>3, <1>15
<1> QED
  BY <1>14, <1>16 DEF checks

\* The credential of a checklist: signed for the request's submission, or the
\* one held, altered or not.
LEMMA ChecklistCredential ==
  ASSUME ServerInv, Verify
  PROVE  \/ request.kind = "sign" /\ SignedFor(request.credential, request.sub, request.what)
         \/ /\ request.kind = "verify"
            /\ \E what \in Requested, alteration \in Alterations :
                 SignedFor(held, signer, what) /\ request.credential = Altered(held, alteration)
<1>1. RequestInv(request, held) /\ HeldInv(held, signer)
  BY DEF ServerInv
<1>2. \/ request.kind = "verify" /\ request.stage = "parsed"
      \/ request.kind = "sign" /\ request.stage = "signed"
  BY DEF Verify, Asked
<1>3. request.kind = "sign" => SignedFor(request.credential, request.sub, request.what)
  BY <1>1, <1>2 DEF RequestInv
<1>4. CASE request.kind = "verify"
  <2>1. held # None /\ \E alteration \in Alterations : request.credential = Altered(held, alteration)
    BY <1>1, <1>4 DEF RequestInv
  <2> QED
    BY <1>1, <1>4, <2>1 DEF HeldInv
<1> QED
  BY <1>2, <1>3, <1>4

LEMMA PassStep ==
  ASSUME ServerInv, [Next]_vars, AnswersWithChecks, AllPassed(request'.checks)
  PROVE  LET credential == request.credential
             leaf == credential.x5c[1]
         IN /\ credential.signer = leaf.key
            /\ ValidAt(leaf, now) /\ CanSign(leaf)
            /\ credential.format = "jsonld" => Resolves(credential.issuer, credential.x5c, now)
            /\ credential.format = "mdoc" => now <= credential.until
            /\ request.kind = "verify" => AsSigned(credential, held)
<1> DEFINE c == request.credential
<1>1. Verify /\ request'.checks = Checks(c, now)
  BY ChecklistStep
<1>2. \/ request.kind = "sign" /\ SignedFor(c, request.sub, request.what)
      \/ /\ request.kind = "verify"
         /\ \E what \in Requested, alteration \in Alterations :
              SignedFor(held, signer, what) /\ c = Altered(held, alteration)
  BY <1>1, ChecklistCredential
<1> HIDE DEF c
<1>3. c.format \in Formats
  <2>1. CASE SignedFor(c, request.sub, request.what)
    BY <2>1, SignedParts
  <2>2. ASSUME NEW what \in Requested, NEW alteration \in Alterations,
               SignedFor(held, signer, what), c = Altered(held, alteration)
        PROVE  c.format \in Formats
    <3>1. c.format = held.format
      BY <2>2, AlteredKeepsFormat
    <3> QED
      BY <2>2, <3>1, SignedParts
  <2> QED
    BY <1>2, <2>1, <2>2
<1>4. AllPassed(Checks(c, now))
  BY <1>1
<1>5. /\ c.x5c # <<>> /\ c.intact /\ c.signer = c.x5c[1].key
      /\ ValidAt(c.x5c[1], now) /\ CanSign(c.x5c[1])
      /\ c.format = "jsonld" => Resolves(c.issuer, c.x5c, now)
      /\ c.format = "mdoc" => now <= c.until
  BY <1>3, <1>4, PassedChecks
<1>6. request.kind = "verify" => AsSigned(c, held)
  <2> SUFFICES ASSUME request.kind = "verify" PROVE AsSigned(c, held)
    OBVIOUS
  <2>1. PICK what \in Requested, alteration \in Alterations :
          SignedFor(held, signer, what) /\ c = Altered(held, alteration)
    BY <1>2
  <2> QED
    BY <1>5, <2>1, AlteredIsNoticed
<1> QED
  BY <1>5, <1>6 DEF c

\* A checklist without a failure is given only to a credential whose signed part
\* is the studio's, signed with the key of a leaf that is in date and may sign:
\* the JSON-LD credential itself, the SD-JWT but for disclosures left out, and
\* the mDoc but for its chain and the values of its elements.
THEOREM NoFalsePass == Spec => PassMeansGenuine
<1>1. ServerInv /\ [Next]_vars =>
        [AnswersWithChecks /\ AllPassed(request'.checks) =>
           LET credential == request.credential
               leaf == credential.x5c[1]
           IN /\ credential.signer = leaf.key
              /\ ValidAt(leaf, now) /\ CanSign(leaf)
              /\ credential.format = "jsonld" => Resolves(credential.issuer, credential.x5c, now)
              /\ credential.format = "mdoc" => now <= credential.until
              /\ request.kind = "verify" =>
                   CASE held.format = "jsonld" -> credential = held
                     [] held.format = "sd-jwt" ->
                          /\ credential = [held EXCEPT !.visible = credential.visible]
                          /\ credential.visible \subseteq held.visible
                     [] held.format = "mdoc" ->
                          credential = [held EXCEPT !.x5c = credential.x5c, !.edited = credential.edited]]_vars
  BY PassStep DEF AsSigned
<1> QED
  BY <1>1, ServerInvariant, PTL DEF Spec, PassMeansGenuine

LEMMA UntouchedStep ==
  ASSUME ServerInv, [Next]_vars, AnswersWithChecks, request.kind = "verify", request.credential = held
  PROVE  LET leaf == signer.chain[1] IN
           /\ Len(signer.chain) = 2
           /\ Reports(Identity(signer), now)
           /\ CanSign(leaf) /\ "assertionMethod" \in Relationships(leaf)
           /\ held.format = "mdoc" => "CN" \in DOMAIN leaf.subject /\ now <= held.until
           => AllPassed(request'.checks)
<1>1. Verify /\ request'.checks = Checks(held, now)
  BY ChecklistStep
<1>2. PICK what \in Requested : SignedFor(held, signer, what)
  BY <1>1, ChecklistCredential
<1> QED
  BY <1>1, <1>2, UntouchedPasses

\* The other way round: what was signed and not altered passes for as long as
\* its identity resolves and, of an mDoc, its own dates last.
THEOREM NoFalseAlarm == Spec => UntouchedVerifies
<1>1. ServerInv /\ [Next]_vars =>
        [AnswersWithChecks /\ request.kind = "verify" /\ request.credential = held =>
           LET leaf == signer.chain[1] IN
             /\ Len(signer.chain) = 2
             /\ Reports(Identity(signer), now)
             /\ CanSign(leaf) /\ "assertionMethod" \in Relationships(leaf)
             /\ held.format = "mdoc" => "CN" \in DOMAIN leaf.subject /\ now <= held.until
             => AllPassed(request'.checks)]_vars
  BY UntouchedStep
<1> QED
  BY <1>1, ServerInvariant, PTL DEF Spec, UntouchedVerifies

LEMMA BlameStep ==
  ASSUME ServerInv, [Next]_vars, AnswersWithChecks, request.kind = "verify", request.credential = held,
         request'.checks.signature = "failed"
  PROVE  \/ held.format = "mdoc" /\ (now > held.until \/ ~ValidAt(held.x5c[1], now))
         \/ held.format = "jsonld" /\ "assertionMethod" \notin Relationships(held.x5c[1])
<1>1. Verify /\ request'.checks = Checks(held, now)
  BY ChecklistStep
<1>2. PICK what \in Requested : SignedFor(held, signer, what)
  BY <1>1, ChecklistCredential
<1>3. now \in 0..MaxTime
  BY DEF ServerInv
<1> QED
  BY <1>1, <1>2, <1>3, BlamedSignature

\* The signature of an unaltered credential is blamed only by its own rules.
THEOREM NoFalseBlame == Spec => BlameIsEarned
<1>1. ServerInv /\ [Next]_vars =>
        [AnswersWithChecks /\ request.kind = "verify" /\ request.credential = held
           /\ request'.checks.signature = "failed" =>
             \/ held.format = "mdoc" /\ (now > held.until \/ ~ValidAt(held.x5c[1], now))
             \/ held.format = "jsonld" /\ "assertionMethod" \notin Relationships(held.x5c[1])]_vars
  BY BlameStep
<1> QED
  BY <1>1, ServerInvariant, PTL DEF Spec, BlameIsEarned
=============================================================================
