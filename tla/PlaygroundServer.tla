--------------------------- MODULE PlaygroundServer ---------------------------
(***************************************************************************)
(* The playground's process (playground/src/server.ts and what its routes  *)
(* call): a visitor's requests to the credential studio, the page's        *)
(* question whether the Credo tab is there, the scripted flows, and the    *)
(* routes of the Credo tab, as far as they load modules.  The studio keeps *)
(* nothing between requests; what the requests do share is the clock, the  *)
(* modules the process has evaluated, and the memo of the Credo question.  *)
(*                                                                         *)
(* Credo and the mDoc stack share cbor-x's encoder state: a process that   *)
(* evaluates Credo before the mDoc stack can sign no mDoc.                 *)
(***************************************************************************)
EXTENDS CredentialStudio

CONSTANTS
  Submissions,   \* the chains, key files and attributes visitors upload
  Orders,        \* what they ask the generator for
  Requested,     \* the signing requests: records [format, template, withheld]
  Alterations,   \* what is done to a credential before it is verified
  Foreign,       \* a DID that is no did:x509 of the studio's kind
  Wrapping,      \* another chain to put in the place of the one a credential carries
  Pages,         \* the page loads, each asking for the status of the Credo tab
  AddonLoads,    \* how the import of the native Askar addon may end on this host
  Runs,          \* the flow runs asked for: names of flows, or "all"
  MaxTime        \* bound on the clock

VARIABLES
  now,           \* Date.now()
  modules,       \* the stacks evaluated, in order: records [stack, by]
  support,       \* credoAgentSupport: "unasked", "pending", "available", "rejected"
  page,          \* page[p]: what the page knows of the Credo tab
  request,       \* the studio's request
  minted,        \* the identity the browser was given by the generator, or None
  held,          \* the credential it was given, or None
  signer,        \* history: the submission the held credential was signed with
  flow           \* the run of the scripted flows

vars == <<now, modules, support, page, request, minted, held, signer, flow>>

ASSUME ClockIsBounded == MaxTime \in Nat

ASSUME RunsAreKnown == AddonLoads \subseteq BOOLEAN /\ Runs \subseteq FlowNames \cup {"all"}

Kinds == {"generate", "upload", "sign", "verify", "credo-resolve"}

\* A chain with its key file and attribute, uploaded or made by the generator.
Submission == Submissions \cup {Resubmitted(Generated(order, "mint", t), order.attribute) :
                                  order \in Orders, t \in 0..MaxTime}

ASSUME RequestsAreKnown ==
  /\ Alterations \subseteq {"none", "content", "issuer", "chain", "wrapping", "elements", "disclosures"}
  /\ \A what \in Requested : what.format \in Formats

\* An Ed25519 key is all x: what an upload compares of it is the whole key.
ASSUME UploadsAreSubmissions ==
  \A sub \in Submissions :
    /\ DOMAIN sub = {"chain", "file", "attribute"}
    /\ sub.chain \in Seq({sub.chain[k] : k \in DOMAIN sub.chain})
    /\ Parses(sub) /\ sub.file # None /\ sub.chain[1].key.type = "Ed25519"
         => sub.file.key = sub.chain[1].key

ASSUME NoneIsNothingElse ==
  /\ None \notin Kinds \cup {"CN", "EdDSA", "ES256", "ES384", "ES512", "RS256"}
  /\ \A sub \in Submission :
       /\ None \notin {sub, [sub EXCEPT !.file = None], sub.attribute}
       /\ \A what \in Requested, t \in 0..MaxTime :
            Parses(sub) => Credential(Identity(sub), what, t) # None

\* The verdict of a verification, the report of an identity, or nothing.
Free == [stage |-> "free", kind |-> None, sub |-> None, order |-> None, what |-> None,
         credential |-> None, status |-> None, checks |-> None, formats |-> None]

NoFlow == [left |-> <<>>, done |-> <<>>, status |-> None, all |-> FALSE]

-----------------------------------------------------------------------------
Init ==
  /\ now = 0
  /\ modules = <<>>
  /\ support = "unasked"
  /\ page = [p \in Pages |-> "unasked"]
  /\ request = Free
  /\ minted = None
  /\ held = None
  /\ signer = None
  /\ flow = NoFlow

Evaluated(stack) == \E k \in DOMAIN modules : modules[k].stack = stack

\* Slip: a module imported again is evaluated again.
ImportsAgain(stack, by) == Append(modules, [stack |-> stack, by |-> by])

\* import() of a module that is evaluated already does nothing.
AfterImport(stack, by) ==
  IF Evaluated(stack) THEN modules ELSE Append(modules, [stack |-> stack, by |-> by])

\* The encoder is Credo's: Credo was evaluated and the mDoc stack was not yet.
EncoderBroken == Len(modules) > 0 /\ modules[1].stack = "credo"

-----------------------------------------------------------------------------
(* The studio's routes.                                                    *)

Known == Submissions \cup (IF minted = None THEN {} ELSE {minted})

\* A POST to /api/generate.
AskGenerate ==
  /\ request.stage = "free"
  /\ minted = None
  /\ \E order \in Orders :
       request' = [Free EXCEPT !.stage = "read", !.kind = "generate", !.order = order]
  /\ UNCHANGED <<now, modules, support, page, minted, held, signer, flow>>

\* A POST to /api/upload, /api/sign or /api/credo-resolve, which takes no key.
AskWithChain ==
  /\ request.stage = "free"
  /\ \E sub \in Known :
       \/ request' = [Free EXCEPT !.stage = "read", !.kind = "upload", !.sub = sub]
       \/ request' = [Free EXCEPT !.stage = "read", !.kind = "credo-resolve",
                                  !.sub = [sub EXCEPT !.file = None]]
       \/ /\ held = None
          /\ \E what \in Requested :
               request' = [Free EXCEPT !.stage = "read", !.kind = "sign", !.sub = sub, !.what = what]
  /\ UNCHANGED <<now, modules, support, page, minted, held, signer, flow>>

\* What a visitor may do to the credential in between.  "content" is what the
\* issuer signed.  An mDoc names no issuer, its chain is in a header no
\* signature covers, and its elements lie beside the digests that were signed.
\* The disclosures of an SD-JWT may be withheld later.
Altered(credential, alteration) ==
  LET mdoc == credential.format = "mdoc" IN
  CASE alteration = "none" -> credential
    [] alteration = "content" -> [credential EXCEPT !.intact = FALSE]
    [] alteration = "issuer" -> IF mdoc THEN credential
                                ELSE [credential EXCEPT !.issuer = Foreign, !.intact = FALSE]
    [] alteration = "chain" -> [credential EXCEPT !.x5c = <<>>, !.intact = mdoc]
    [] alteration = "wrapping" -> [credential EXCEPT !.x5c = Wrapping, !.intact = mdoc]
    [] alteration = "elements" -> [credential EXCEPT !.edited = mdoc]
    [] alteration = "disclosures" -> [credential EXCEPT !.visible = @ \ credential.committed]

\* A POST to /api/verify.
AskVerify ==
  /\ request.stage = "free"
  /\ held # None
  /\ \E alteration \in Alterations :
       request' = [Free EXCEPT !.stage = "parsed", !.kind = "verify",
                               !.credential = Altered(held, alteration)]
  /\ UNCHANGED <<now, modules, support, page, minted, held, signer, flow>>

Asked(kind, stage) == request.kind = kind /\ request.stage = stage

\* Slip: the exception is not caught and no response is written.
Unanswered == UNCHANGED request

\* serialize: an exception is a 400.
Refuse == request' = [request EXCEPT !.stage = "answered", !.status = 400]

ParsesUpload(sub) == Parses(sub)

\* parseUploadedIdentity, in whichever route: by itself it needs no clock.
ParseIdentity ==
  /\ request.stage = "read"
  /\ request.kind # "generate"
  /\ IF ParsesUpload(request.sub) THEN request' = [request EXCEPT !.stage = "parsed"] ELSE Refuse
  /\ UNCHANGED <<now, modules, support, page, minted, held, signer, flow>>

\* report, from studioUpload or studioGenerate: the DID is resolved, then the
\* signers are imported and asked for their formats.
Report(identity) ==
  IF Reports(identity, now)
  THEN /\ modules' = AfterImport("mdoc", "studio")
       /\ request' = [request EXCEPT !.stage = "answered", !.status = 200,
                                     !.formats = SignableFormats(identity.key.type)]
  ELSE Refuse /\ UNCHANGED modules

\* studioGenerate.  The browser is given the identity's PEMs.
Generate ==
  /\ Asked("generate", "read")
  /\ LET identity == Generated(request.order, "mint", now) IN
       /\ Report(identity)
       /\ minted' = IF Reports(identity, now) THEN Resubmitted(identity, request.order.attribute) ELSE None
  /\ UNCHANGED <<now, support, page, held, signer, flow>>

\* studioUpload.
Upload ==
  /\ Asked("upload", "parsed")
  /\ Report(Identity(request.sub))
  /\ UNCHANGED <<now, support, page, minted, held, signer, flow>>

\* signCredential: the mDoc signer is imported once its format is asked for.
Sign ==
  /\ Asked("sign", "parsed")
  /\ LET identity == Identity(request.sub)
         wanted == request.what.format \in Templates[request.what.template].formats
     IN /\ modules' = IF wanted /\ request.what.format = "mdoc" THEN AfterImport("mdoc", "studio") ELSE modules
        /\ IF Signs(identity, request.what, now, EncoderBroken)
           THEN request' = [request EXCEPT !.stage = "signed",
                                           !.credential = Credential(identity, request.what, now)]
           ELSE Refuse
  /\ UNCHANGED <<now, support, page, minted, held, signer, flow>>

\* verifyCredentialPayload, of a credential sent in or as the self-check of one
\* just signed.  It answers with a checklist, whatever happens.
Verify ==
  /\ Asked("verify", "parsed") \/ Asked("sign", "signed")
  /\ modules' = IF request.credential.format = "mdoc" THEN AfterImport("mdoc", "studio") ELSE modules
  /\ request' = [request EXCEPT !.stage = "answered", !.status = 200, !.checks = Checks(request.credential, now)]
  /\ UNCHANGED <<now, support, page, minted, held, signer, flow>>

\* studioCredoResolve: Credo resolves the DID, and without a key nothing is signed.
CredoResolve ==
  /\ Asked("credo-resolve", "parsed")
  /\ modules' = AfterImport("credo", "credo tab")
  /\ IF Reports(Identity(request.sub), now)
     THEN request' = [request EXCEPT !.stage = "answered", !.status = 200]
     ELSE Refuse
  /\ UNCHANGED <<now, support, page, minted, held, signer, flow>>

\* The browser takes the answer, and keeps a credential.
Deliver ==
  /\ request.stage = "answered"
  /\ request' = Free
  /\ IF request.kind = "sign" /\ request.status = 200
     THEN held' = request.credential /\ signer' = request.sub
     ELSE UNCHANGED <<held, signer>>
  /\ UNCHANGED <<now, modules, support, page, minted, flow>>

-----------------------------------------------------------------------------
(* The Credo tab and the scripted flows.                                   *)

\* A page is loaded and asks for the status; the first to ask starts the import.
AskStatus(p) ==
  /\ page[p] = "unasked"
  /\ page' = [page EXCEPT ![p] = "asking"]
  /\ support' = IF support = "unasked" THEN "pending" ELSE support
  /\ UNCHANGED <<now, modules, request, minted, held, signer, flow>>

\* credo-session.ts imports credo-agent.ts, which imports the addon before
\* Credo: without the addon the import is rejected and Credo not evaluated.
SupportSettles ==
  /\ support = "pending"
  /\ \/ /\ TRUE \in AddonLoads
        /\ support' = "available"
        /\ modules' = AfterImport("credo", "status")
     \/ /\ FALSE \in AddonLoads
        /\ support' = "rejected"
        /\ UNCHANGED modules
  /\ UNCHANGED <<now, page, request, minted, held, signer, flow>>

SupportKnown == support \in {"available", "rejected"}

\* The memo answers every page; its rejection becomes main.ts's 500.
AnswerStatus(p) ==
  /\ page[p] = "asking"
  /\ SupportKnown
  /\ page' = [page EXCEPT ![p] = IF support = "available" THEN "shows tab" ELSE "hides tab"]
  /\ UNCHANGED <<now, modules, support, request, minted, held, signer, flow>>

\* A page that shows the tab runs or resets an Agent: credo-session.ts is
\* imported again.
UseCredoTab ==
  /\ \E p \in Pages : page[p] = "shows tab"
  /\ modules' = AfterImport("credo", "credo tab")
  /\ UNCHANGED <<now, support, page, request, minted, held, signer, flow>>

\* runAll's order.
AllFlows == <<"resolve", "jsonld", "sd-jwt", "mdoc", "credo">>

\* A POST to /api/run, or to /api/run/<name>.
AskFlows ==
  /\ flow.left = <<>>
  /\ \E name \in Runs :
       flow' = IF name = "all" THEN [NoFlow EXCEPT !.left = AllFlows, !.all = TRUE]
               ELSE [NoFlow EXCEPT !.left = <<name>>]
  /\ UNCHANGED <<now, modules, support, page, request, minted, held, signer>>

StackOf(name) == IF name \in {"mdoc", "credo"} THEN {name} ELSE {}

\* The next flow of the run.  One that throws is the answer to all of it: the
\* results so far are dropped, with a 500.
RunFlow ==
  /\ flow.left # <<>>
  /\ LET name == Head(flow.left)
         ends == FlowEnds(name, now, EncoderBroken)
     IN /\ modules' = IF StackOf(name) = {} THEN modules
                      ELSE AfterImport(name, IF flow.all THEN "run all" ELSE "flow")
        /\ flow' = IF ends
                   THEN [flow EXCEPT !.left = Tail(@), !.done = Append(@, name),
                                     !.status = IF Len(flow.left) = 1 THEN 200 ELSE None]
                   ELSE [flow EXCEPT !.left = <<>>, !.done = <<>>, !.status = 500]
  /\ UNCHANGED <<now, support, page, request, minted, held, signer>>

Tick ==
  /\ now < MaxTime
  /\ now' = now + 1
  /\ UNCHANGED <<modules, support, page, request, minted, held, signer, flow>>

Handle == ParseIdentity \/ Generate \/ Upload \/ Sign \/ Verify \/ CredoResolve

Next ==
  \/ AskGenerate \/ AskWithChain \/ AskVerify
  \/ Handle \/ Deliver
  \/ SupportSettles \/ UseCredoTab
  \/ \E p \in Pages : AskStatus(p) \/ AnswerStatus(p)
  \/ AskFlows \/ RunFlow
  \/ Tick

\* What a handler awaits (Web Crypto, an import) settles; visitors ask what and
\* when they like.
Fairness ==
  /\ WF_vars(Handle)
  /\ WF_vars(SupportSettles)
  /\ WF_vars(RunFlow)
  /\ \A p \in Pages : WF_vars(AnswerStatus(p))

Spec == Init /\ [][Next]_vars /\ Fairness

-----------------------------------------------------------------------------
\* Every variable has its type; what a request carries is what its stage needs.
TypeOK ==
  /\ now \in 0..MaxTime
  /\ Len(modules) <= 2
  /\ \A k \in DOMAIN modules :
       modules[k] \in [stack : {"mdoc", "credo"}, by : {"studio", "status", "credo tab", "flow", "run all"}]
  /\ support \in {"unasked", "pending", "available", "rejected"}
  /\ page \in [Pages -> {"unasked", "asking", "shows tab", "hides tab"}]
  /\ request.stage \in {"free", "read", "parsed", "signed", "answered"}
  /\ request.kind \in Kinds \cup {None}
  /\ request.stage = "answered" => request.status \in {200, 400}
  /\ request.stage = "parsed" /\ request.kind # "verify" => request.sub # None
  /\ request.stage = "signed" => request.kind = "sign" /\ request.credential # None
  /\ minted \in Submission \cup {None}
  /\ (held = None) <=> (signer = None)
  /\ flow.status \in {None, 200, 500}

\* The step that answers a verification, or the self-check of a signing.
AnswersWithChecks ==
  request.stage \in {"parsed", "signed"} /\ request'.stage = "answered" /\ request'.checks # None

\* A checklist without a failure means what it says, and no more.  The leaf the
\* credential carries is in date and may sign, and its key signed it.  A JSON-LD
\* credential is the studio's in every respect, and its chain resolves its
\* issuer now.  An SD-JWT is the studio's but for disclosures left out since.
\* Of an mDoc only what the issuer signed is sure, within its own dates: neither
\* the values of its elements (nothing compares them with the digests) nor the
\* chain around the signer's key (verificationChecks, the three verifiers).
PassMeansGenuine ==
  [][AnswersWithChecks /\ AllPassed(request'.checks) =>
       LET credential == request.credential
           leaf == credential.x5c[1]
       IN /\ credential.signer = leaf.key
          /\ ValidAt(leaf, now) /\ CanSign(leaf)
          /\ credential.format = "jsonld" => Resolves(credential.issuer, credential.x5c, now)
          /\ credential.format = "mdoc" => now <= credential.until
          /\ request.kind = "verify" =>
               CASE held.format = "jsonld" -> credential = held
                 [] held.format = "sd-jwt" ->
                      /\ credential = [held EXCEPT !.visible = credential.visible]
                      /\ credential.visible \subseteq held.visible
                 [] held.format = "mdoc" ->
                      credential = [held EXCEPT !.x5c = credential.x5c, !.edited = credential.edited]]_vars

\* The other way round: what was signed with a leaf and its CA, and not altered
\* since, passes every check for as long as the identity resolves, an mDoc for
\* as long as its own dates say too.  (The leaf may sign, and for an mDoc, whose
\* DID is always recovered by CN, it has one.)
UntouchedVerifies ==
  [][AnswersWithChecks /\ request.kind = "verify" /\ request.credential = held =>
       LET leaf == signer.chain[1] IN
         /\ Len(signer.chain) = 2
         /\ Reports(Identity(signer), now)
         /\ CanSign(leaf) /\ "assertionMethod" \in Relationships(leaf)
         /\ held.format = "mdoc" => "CN" \in DOMAIN leaf.subject /\ now <= held.until
         => AllPassed(request'.checks)]_vars

\* The checklist says which check failed.  It blames the signature of a
\* credential nobody altered only where the signature's own rules have come to
\* refuse it: an mDoc out of date by now, itself or its leaf, or a JSON-LD
\* credential whose leaf may not assert.  A chain or a DID that fails is no bad
\* signature.
BlameIsEarned ==
  [][AnswersWithChecks /\ request.kind = "verify" /\ request.credential = held
       /\ request'.checks.signature = "failed" =>
         \/ held.format = "mdoc" /\ (now > held.until \/ ~ValidAt(held.x5c[1], now))
         \/ held.format = "jsonld" /\ "assertionMethod" \notin Relationships(held.x5c[1])]_vars

\* Whoever signs proves it holds the leaf's key, although an upload compares
\* only part of it; and a claim withheld from an SD-JWT is absent from what is
\* shown and still committed to, so the holder can disclose it later.
SignedAsAsked ==
  request.kind = "sign" /\ request.credential # None =>
    LET credential == request.credential
        movable == request.what.withheld \cap Templates[request.what.template].disclosable
    IN /\ credential.signer = request.sub.chain[1].key
       /\ credential.format = "sd-jwt" =>
            movable \cap credential.visible = {} /\ movable \subseteq credential.committed

\* What is offered, what the capability tables say and what gets signed agree,
\* though each is written down on its own: the signers' functions, KEY_ALGORITHMS
\* and FORMAT_ALGORITHMS.  (The tables have a row for each of KEY_PROFILES.)
\* What sign-mdoc.ts says of RSA keys beside its code does not agree: a comment
\* lets an RSA leaf sign RS256, and the signer's error advises to generate an RSA
\* identity, which mdocAlgorithmFor and both tables refuse.
MatrixTellsTruth ==
  LET Claims(type, format) == MatrixRow(type).cells[format] \in Wired(format) IN
    /\ request.stage = "answered" /\ request.formats # None =>
         LET type == IF request.kind = "generate" THEN request.order.type ELSE request.sub.chain[1].key.type
         IN type \in KeyTypes => request.formats = {format \in Formats : Claims(type, format)}
    /\ held # None => Claims(held.signer.type, held.format)

\* Every request is answered, every page learns whether to show the tab, and a
\* run of flows ends, whatever is refused or rejected on the way.
EveryRequestAnswered ==
  /\ request.stage # "free" ~> request.stage \in {"answered", "free"}
  /\ \A p \in Pages : page[p] = "asking" ~> page[p] \in {"shows tab", "hides tab"}
  /\ flow.left # <<>> ~> flow.status # None

-----------------------------------------------------------------------------
(* What a comment in the code says and the code does not do.               *)

\* server.ts says of Credo: imported lazily, so a request that never touches
\* the Credo tab is unaffected.  Then no signing request is refused for want of
\* a working encoder where nobody has done more than load the page.
MdocUnaffected ==
  [][Asked("sign", "parsed") /\ request'.status = 400 =>
       \/ ~Signs(Identity(request.sub), request.what, now, FALSE)
       \/ modules[1].by # "status"]_vars
=============================================================================
