------------------------------ MODULE StudioClient ------------------------------
(***************************************************************************)
(* The Certificate Studio page (playground/src/studio-script.ts): one      *)
(* identity held in the browser and re-sent with every request, over a     *)
(* server that keeps nothing (studio.ts, server.ts).  Handlers await       *)
(* fetch; meanwhile the visitor goes on clicking and typing, and answers   *)
(* come back in any order.  Rendered markup is left out, and with it the   *)
(* marks of the steps, read only to word a button (studio-script.ts 456).  *)
(***************************************************************************)
EXTENDS Integers, FiniteSets

CONSTANTS
  None,        \* null, and the empty text of a field
  Chains,      \* the chains generated or uploaded
  KeyType,     \* KeyType[chain]: the type of its leaf's key
  Typed,       \* the keys the visitor types into up-key
  Templates,   \* the credential templates
  Offered,     \* Offered[template]: the formats it is issued in
  Throughs,    \* the Credo steps whose buttons are pressed
  Calls        \* the fetches in flight at one time: bounds the page's concurrency

VARIABLES
  identity,    \* the last loaded identity
  keyField,    \* the text of up-key
  template,    \* the template chosen in vc-template
  signed,      \* the last signed credential
  payload,     \* the credential whose payload step 4 displays
  verdict,     \* the credential whose verification the page shows
  signOff,     \* btn-sign.disabled
  verifyOff,   \* btn-verify.disabled
  available,   \* credoAvailable
  running,     \* credoRunning
  result,      \* credoResult
  off,         \* disabled: the Credo buttons that run, and the one that verifies
  call         \* call[c]: a fetch in flight

studio == <<keyField, template, signed, payload, verdict, signOff, verifyOff>>
credo == <<available, running, result, off>>
vars == <<identity, studio, credo, call>>

Formats == {"jsonld", "sd-jwt", "mdoc"}

\* ASKAR_SUPPORTED_KEYS.
AskarKeys == {"P-256", "P-384", "Ed25519"}

KeyTypes == AskarKeys \cup {"P-521", "RSA-2048", "RSA-4096"}

\* signableFormatsFor.
SignableBy(keyType) ==
  IF keyType = "Ed25519" THEN {"jsonld"}
  ELSE IF keyType \in {"RSA-2048", "RSA-4096"} THEN {"sd-jwt"} ELSE {"sd-jwt", "mdoc"}

ASSUME ChainsAreTyped == KeyType \in [Chains -> KeyTypes] /\ None \notin Chains

\* A key as text: the key of a chain's leaf or, for an elliptic curve, the one
\* whose point has the same x and the other y.
Keys == { key \in [of : Chains, mirrored : BOOLEAN] :
            key.mirrored => KeyType[key.of] \in {"P-256", "P-384", "P-521"} }

LeafKey(chain) == [of |-> chain, mirrored |-> FALSE]

ASSUME KeysAreTyped == Typed \subseteq Keys

ASSUME TemplatesOffer == Offered \in [Templates -> SUBSET Formats] /\ None \notin Templates

Steps == 1..7

ASSUME ThroughsAreSteps == Throughs \subseteq Steps

Kinds == {"generate", "upload", "sign", "verify", "run", "check", "reset"}

\* A request: run and check are the Credo tab's two callers of one route.
\* crossed (history): the page was changed under it by an edit or an answer.
Requests ==
  [kind : Kinds, chain : Chains \cup {None}, key : Keys \cup {None}, template : Templates \cup {None},
   format : Formats \cup {None}, through : Steps, crossed : BOOLEAN]

Identities == [chain : Chains, key : Keys \cup {None}, keyPresent : BOOLEAN, edited : BOOLEAN]
Credentials == [chain : Chains, format : Formats, crossed : BOOLEAN]
Results == [chain : Chains, through : Steps, crossed : BOOLEAN]

ASSUME NoneIsNothing ==
  /\ None \notin BOOLEAN /\ None \notin Keys /\ None \notin Requests /\ None \notin Identities
  /\ None \notin Credentials /\ None \notin Results

-----------------------------------------------------------------------------
\* The catalogue has come and the status of the Agent has been asked for.
Init ==
  /\ identity = None
  /\ keyField = None
  /\ template \in Templates
  /\ signed = None /\ payload = None /\ verdict = None
  /\ signOff = FALSE /\ verifyOff = TRUE
  /\ available = None /\ running = FALSE /\ result = None
  /\ off = [run |-> FALSE, verify |-> TRUE]
  /\ call = [c \in Calls |-> None]

InFlight(kind) == {c \in Calls : call[c] # None /\ call[c].kind = kind}

\* fetch: the request is made of what the page holds now.
Send(kind, chain, key, format, through) ==
  \E c \in Calls :
    /\ call[c] = None
    /\ call' = [call EXCEPT ![c] =
         [kind |-> kind, chain |-> chain, key |-> key,
          template |-> IF kind = "sign" THEN template ELSE None,
          format |-> format, through |-> through, crossed |-> FALSE]]

\* Call c is over, and kinds of calls still in flight have been overtaken.
Settle(c, kinds) ==
  call' = [d \in Calls |->
             IF d = c \/ call[d] = None THEN None
             ELSE [call[d] EXCEPT !.crossed = @ \/ call[d].kind \in kinds]]

\* What populateFormats puts in vc-format.
Options == IF identity = None THEN {} ELSE Offered[template] \cap SignableBy(KeyType[identity.chain])

\* credoKeyUnsupported, negated.
WalletTakesKey == KeyType[identity.chain] \in AskarKeys

\* Slip: buttons stay enabled while a run is in progress.
RunsAgain == identity # None /\ identity.keyPresent /\ available = TRUE /\ WalletTakesKey

CanRun ==
  identity # None /\ identity.keyPresent /\ available = TRUE /\ ~running /\ WalletTakesKey

Issued == result # None /\ result.through >= 6

\* syncCredoButtons.
SyncCredoButtons == off' = [run |-> ~CanRun', verify |-> ~(CanRun /\ Issued)']

\* Slip: the buttons are left as they were.
ResetWithoutSync ==
  /\ result' = None
  /\ off' = off

ResetCredo ==
  /\ result' = None
  /\ SyncCredoButtons

-----------------------------------------------------------------------------
(* Loading an identity, and the form.                                      *)

ClickGenerate ==
  /\ InFlight("generate") = {}
  /\ \E chain \in Chains : Send("generate", chain, LeafKey(chain), None, 1)
  /\ UNCHANGED <<identity, studio, credo>>

ClickUpload ==
  /\ InFlight("upload") = {}
  /\ \E chain \in Chains : Send("upload", chain, keyField, None, 1)
  /\ UNCHANGED <<identity, studio, credo>>

\* The visitor types into up-key.
EditKey ==
  /\ \E text \in Typed \cup {None} : text # keyField /\ keyField' = text
  /\ call' = [c \in Calls |-> IF c \in InFlight("upload")
                              THEN [call[c] EXCEPT !.crossed = TRUE] ELSE call[c]]
  /\ UNCHANGED <<identity, template, signed, payload, verdict, signOff, verifyOff, credo>>

\* Slip: the server takes a chain without looking at its key.
AcceptsAny(c) == TRUE

\* publicKeysMatch, which does not compare y.
Matches(key, chain) == key # None /\ key.of = chain

\* parseUploadedIdentity: a key that is supplied must match the leaf's.
Accepts(c) == call[c].key = None \/ Matches(call[c].key, call[c].chain)

\* The calls whose answers are about an identity or a credential.
Dependent == {"sign", "verify", "run", "check"}

\* Slip: the credential of the identity before is kept.
KeepsSigned == signed' = signed

DropsSigned == signed' = None

\* step-4-out is emptied only where there is no key: the payload of the
\* credential before stays in view of an identity with one.
KeepsPayload(c) == payload' = IF call[c].key # None THEN payload ELSE None

\* loadIdentity after its fetch, and the handler's own lines: an uploaded key
\* is read again from the field, the server does not echo it.
Load(c) ==
  /\ call[c] # None /\ call[c].kind \in {"generate", "upload"}
  /\ Accepts(c)
  /\ identity' = [chain |-> call[c].chain,
                  key |-> IF call[c].kind = "generate" THEN LeafKey(call[c].chain) ELSE keyField,
                  keyPresent |-> call[c].key # None,
                  edited |-> call[c].crossed]
  /\ DropsSigned
  /\ KeepsPayload(c)
  /\ verdict' = None
  /\ verifyOff' = TRUE
  /\ UNCHANGED <<keyField, template, available, running>>
  /\ signOff' = (Options' = {})
  /\ ResetCredo
  /\ Settle(c, Dependent)

LoadFails(c) ==
  /\ call[c] # None /\ call[c].kind \in {"generate", "upload"}
  /\ Settle(c, {})
  /\ UNCHANGED <<identity, studio, credo>>

\* vc-template changes: populateFormats.
ChooseTemplate ==
  /\ \E t \in Templates \ {template} : template' = t
  /\ UNCHANGED <<identity, keyField, signed, payload, verdict, verifyOff, credo, call>>
  /\ signOff' = IF identity = None THEN signOff ELSE Options' = {}

-----------------------------------------------------------------------------
(* Signing and verifying.                                                  *)

\* sign(): an identity without options sends the format ''.
ClickSign ==
  /\ ~signOff
  /\ identity # None
  /\ \E format \in IF Options = {} THEN {None} ELSE Options :
       Send("sign", identity.chain, identity.key, format, 1)
  /\ signOff' = TRUE
  /\ payload' = None
  /\ UNCHANGED <<identity, keyField, template, signed, verdict, verifyOff, credo>>

\* Slip: the server signs whatever format it is asked for.
SignsAny(c) == call[c].key = LeafKey(call[c].chain)

\* studioSign: the key matches, and what it signs verifies with the leaf's; the
\* format is one the template may be issued in with it.
ServerSigns(c) ==
  /\ call[c].key = LeafKey(call[c].chain)
  /\ call[c].format \in Offered[call[c].template] \cap SignableBy(KeyType[call[c].chain])

Signed(c) ==
  /\ c \in InFlight("sign")
  /\ ServerSigns(c)
  /\ signed' = [chain |-> call[c].chain, format |-> call[c].format, crossed |-> call[c].crossed]
  /\ payload' = signed'
  /\ verdict' = None
  /\ verifyOff' = FALSE
  /\ signOff' = FALSE
  /\ Settle(c, {"verify"})
  /\ UNCHANGED <<identity, keyField, template, credo>>

\* Slip: the button is given back on success only.
StaysOff == signOff

\* The finally block of sign().
BackOn == FALSE

SignFails(c) ==
  /\ c \in InFlight("sign")
  /\ signOff' = BackOn
  /\ payload' = None
  /\ Settle(c, {})
  /\ UNCHANGED <<identity, keyField, template, signed, verdict, verifyOff, credo>>

\* btn-verify; without a credential it only says so.
ClickVerify ==
  /\ ~verifyOff
  /\ signed # None
  /\ Send("verify", signed.chain, None, signed.format, 1)
  /\ verifyOff' = TRUE
  /\ verdict' = None
  /\ UNCHANGED <<identity, keyField, template, signed, payload, signOff, credo>>

\* The outcome of the verification is shown, or the error in its place.
VerifyEnds(c) ==
  /\ c \in InFlight("verify")
  /\ verdict' \in {None, [chain |-> call[c].chain, format |-> call[c].format,
                          crossed |-> call[c].crossed]}
  /\ verifyOff' = FALSE
  /\ Settle(c, {})
  /\ UNCHANGED <<identity, keyField, template, signed, payload, signOff, credo>>

-----------------------------------------------------------------------------
(* The Credo tab, shown once the status says that an Agent can run.        *)

\* The answer to credoStatus, a failure being a no.
StatusAnswers ==
  /\ available = None
  /\ available' \in BOOLEAN
  /\ UNCHANGED <<identity, studio, running, call>>
  /\ IF available' THEN ResetCredo ELSE UNCHANGED <<result, off>>

\* runCredoFlow(n); credoStatus answers at once by now.
ClickRun(n) ==
  /\ available = TRUE /\ ~off.run
  /\ identity # None /\ identity.keyPresent /\ WalletTakesKey
  /\ running' = TRUE
  /\ Send("run", identity.chain, identity.key, None, n)
  /\ UNCHANGED <<identity, studio, available, result>>
  /\ SyncCredoButtons

\* btn-credo-verify: the whole flow again, and no credoRunning around it.
ClickCredoVerify ==
  /\ available = TRUE /\ ~off.verify
  /\ identity # None
  /\ Send("check", identity.chain, identity.key, None, 7)
  /\ UNCHANGED <<identity, studio, available, running, result>>
  /\ SyncCredoButtons

\* Only a run or its verification, and only its own credoRunning, is over.
Flow(c) == call[c] # None /\ call[c].kind \in {"run", "check"}
StillRunning(c) == running /\ call[c].kind = "check"

\* The upload is parsed again, and a run without a key is refused at its start.
ServerRuns(c) == Matches(call[c].key, call[c].chain)

FlowAnswers(c) ==
  /\ Flow(c)
  /\ ServerRuns(c)
  /\ result' = [chain |-> call[c].chain, through |-> call[c].through, crossed |-> call[c].crossed]
  /\ running' = StillRunning(c)
  /\ Settle(c, {})
  /\ UNCHANGED <<identity, studio, available>>
  /\ SyncCredoButtons

FlowFails(c) ==
  /\ Flow(c)
  /\ running' = StillRunning(c)
  /\ Settle(c, {})
  /\ UNCHANGED <<identity, studio, available, result>>
  /\ SyncCredoButtons

ClickReset ==
  /\ available = TRUE /\ InFlight("reset") = {}
  /\ Send("reset", None, None, None, 1)
  /\ UNCHANGED <<identity, studio, credo>>

ResetEnds(c) ==
  /\ c \in InFlight("reset")
  /\ UNCHANGED <<identity, studio, available, running>>
  /\ ResetCredo \/ UNCHANGED <<result, off>>
  /\ Settle(c, {})

-----------------------------------------------------------------------------
Answer(c) ==
  \/ Load(c) \/ LoadFails(c) \/ Signed(c) \/ SignFails(c) \/ VerifyEnds(c)
  \/ FlowAnswers(c) \/ FlowFails(c) \/ ResetEnds(c)

Next ==
  \/ ClickGenerate \/ ClickUpload \/ EditKey \/ ChooseTemplate
  \/ ClickSign \/ ClickVerify
  \/ \E n \in Throughs : ClickRun(n)
  \/ ClickCredoVerify \/ ClickReset
  \/ StatusAnswers
  \/ \E c \in Calls : Answer(c)

Spec == Init /\ [][Next]_vars

-----------------------------------------------------------------------------
\* Every variable has its type.
TypeOK ==
  /\ identity \in Identities \cup {None}
  /\ keyField \in Typed \cup {None}
  /\ template \in Templates
  /\ signed \in Credentials \cup {None}
  /\ payload \in Credentials \cup {None}
  /\ verdict \in Credentials \cup {None}
  /\ signOff \in BOOLEAN /\ verifyOff \in BOOLEAN
  /\ available \in BOOLEAN \cup {None}
  /\ running \in BOOLEAN
  /\ result \in Results \cup {None}
  /\ off \in [run : BOOLEAN, verify : BOOLEAN]
  /\ call \in [Calls -> Requests \cup {None}]

\* However loads, runs, verifications and resets interleave, the Credo tab's
\* buttons say what can be pressed: syncCredoButtons is called after the last
\* change of what it reads, in every handler (studio-script.ts 453-471).
ButtonsAgree ==
  available = TRUE => off = [run |-> ~CanRun, verify |-> ~(CanRun /\ Issued)]

\* credoRunning stands for exactly one run in flight, across loads, resets and
\* verifications, and while there is one nothing else is sent to the wallet: no
\* run and no verification starts over it (studio-script.ts 692-715).  The
\* converse is not so: a verification sets no credoRunning, and runs and further
\* verifications do start over one (757-781).
NothingStartsOverARun ==
  /\ [](Cardinality(InFlight("run")) = IF running THEN 1 ELSE 0)
  /\ [][InFlight("run") # {} => \A c \in Calls : Flow(c)' => call[c] # None]_vars

\* The page can hold a credential, a verdict or a Credo result of another
\* identity than the one it shows, for nothing ties an answer to the state it
\* is rendered into; but only when the answer was overtaken by a load, or a
\* verdict by a signature (studio-script.ts 264, 332, 701).  The payload in view
\* is the credential's held, or outlived it in a load that brought a key
\* (111-146 leave step-4-out alone then).
StaleOnlyIfOvertaken ==
  /\ signed # None => signed.crossed \/ signed.chain = identity.chain
  /\ payload # None => signed \in {None, payload}
  /\ verdict # None => verdict.crossed \/ (signed # None /\ verdict.chain = signed.chain
                                           /\ verdict.format = signed.format)
  /\ result # None => result.crossed \/ result.chain = identity.chain

\* The key re-sent with a chain is one the server matched to its leaf, to the x
\* of its point, unless the field was edited while the upload was in flight
\* (studio-script.ts 397 reads it afterwards; lib/upload.ts 203-212).
KeyGoesWithChain ==
  identity # None /\ identity.keyPresent => identity.edited \/ Matches(identity.key, identity.chain)

\* Whatever fails or is overtaken, a button that could be of use is disabled
\* only while a fetch that gives it back is in flight (studio-script.ts 283,
\* 339, and the buttons a load leaves enabled or disabled at 149-178).
NoButtonStuck ==
  /\ signOff => InFlight("sign") # {} \/ Options = {}
  /\ verifyOff => InFlight("verify") # {} \/ signed = None
=============================================================================
