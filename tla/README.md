# did:x509: a verification project

TLA+ specifications of the did:x509 libraries and of the playground built on them, TLC configurations that check them on small instances, and TLAPS proofs
of the theorems that hold for every size. Paths are relative to the repository
root, which this project calls `src/`.

## 1. The system

| Part | Where | State it keeps | Operations |
|---|---|---|---|
| `@didx509/core` | `typescript/src` | none between calls; each resolution is a sequence of awaited checks | load, verify a chain, parse and check a DID, build a document |
| did-resolver plugin | `typescript/src/did-resolver-plugin.ts` | none | the same checks, errors reported as codes |
| `@didx509/credo` | `typescript-credo/src` | mode, memoised load promise, selected engine, native module | `resolve`, `usedImplementation` |
| `@didx509/native` | `typescript-native` | worker per call, strings owned by the shim | `resolve*`, sync and async |
| Session store | `playground/src/credo-session.ts` | `Map` of sessions, sweeper | `acquire`, `runCredoAgent`, `endSession`, sweep, `shutdownAll` |
| Credo Agent run | `playground/src/credo-agent.ts` | wallet, chain map, resolver | seven steps, `shutdown` |
| HTTP server | `playground/src/server.ts`, `main.ts` | memo of the Agent's availability; the modules the process has evaluated, and in which order | routes, signals |
| Credential studio | `playground/src/studio.ts`, `credentials.ts`, `sign-*.ts` | none: the browser sends chain and key with each request | generate, upload, sign, verify |
| Browser client | `playground/src/studio-script.ts` | current identity, credential, Credo steps | button handlers, each with awaited requests |
| Identities and keys | `playground/src/lib` | none | certificates and keys in and out of DER, PEM, JWK |
| Scripted flows | `flows.ts`, `jsonld.ts`, `sd-jwt.ts`, `mdoc.ts`, `credo.ts` | none | five demonstrations, alone or all in one request |
| Scripts, examples | `typescript-native/scripts`, `examples` | none | tools and demonstrations |

How they interact. A browser's request carries a cookie to the server; the route
asks the session store for the Agent of that cookie; a run drives the Agent,
which calls the registered `X509DidResolver`; the resolver finds the chain (the
option, or the chain map through `getChain`), loads the native addon or falls
back to the core, and the core verifies chain and DID. All of this is
single-threaded JavaScript: code between two awaits runs alone, and at every
await any other handler, timer or signal may run. The native addon alone uses
threads.

What is hard here, and what makes each part correct:

* Resolution: many checks in a fixed order, most of them awaited, with a clock
  read per certificate. Correct when a document is only ever returned for a chain
  that vouches for the DID, and every call settles with the right kind of error.
* Session store: check and use are separated by awaits; four parties (eviction,
  sweeper, reset, exit) remove sessions; cookies outlive sessions and sessions
  outlive cookies. Correct when no wallet leaks, none is shared between browsers,
  none is closed without cause, and the population stays bounded.
* Credo resolver: one load shared by concurrent first calls and remembered.
  Correct when one engine answers everything and no chain is cached.
* Credo run: runs of a session share wallet and chain map by DID. Correct when a
  run that is alone on its DID verifies what it issued, and a race can fail a
  verification but never make a wrong one pass. The clock may fail it too: the DID is
  resolved in step 2 and again in step 7.
* Browser client: answers arrive in any order while the page's state moves on.
  Correct when its buttons agree with its state, nothing is sent to the wallet over a
  run, and what it holds belongs to the identity it shows.
* Native addon: threads of a pool and the main thread are in the shim at the same
  time, and memory may run out in it and in the copy of its answer. Correct when every
  call settles, a value goes only where its own arguments deserve one, and no string of
  the shim is lost without its caller hearing of a failure.
* Credential studio: three formats, each with its own signer, its own way of
  failing and its own check that notices. Correct when a checklist that passes
  means a credential genuine in all that its format's verification covers, one that
  fails names the fault, and what the page offers can be signed.
* HTTP server: handlers import modules when they first need them, and two of the
  stacks share an encoder. Correct when every request is answered and no visitor
  depends on what another one had the process load.

`PROJECT.json` lists every hazard at its line with the properties that cover it.

## 2. The modules

| Module | Models | Uses |
|---|---|---|
| `X509Chain` | the pure part of `x509.ts` and `didx509.ts`: what each check asks of a chain and a DID | |
| `ResolutionSpec` | abstract specification of a resolution: when a call may resolve, may be refused, and with what | `X509Chain` |
| `DidResolution` | `resolveDid`, `resolveDidFromPem` and the plugin, one action per awaited step | `X509Chain`, `INSTANCE ResolutionSpec` |
| `EcdsaSignature` | `derToRawEcdsaSignature`: two DER integers to two coordinates of the curve's width, with a reference for "the same number" | |
| `EcdsaSignatureProofs` | theorems about `EcdsaSignature` | `EcdsaSignature` |
| `MCDidResolution` | certificates, chains and DIDs for TLC; `EcdsaSignature` on short strings | `DidResolution`, `EcdsaSignature` |
| `DidResolutionProofs` | theorems about `DidResolution` | `DidResolution` |
| `SessionStore` | `credo-session.ts` under the routes of `server.ts` and the signals of `main.ts` | |
| `MCSessionStore` | symmetry for TLC | `SessionStore` |
| `SessionStoreProofs` | theorems about `SessionStore` | `SessionStore` |
| `CredoResolver` | `X509DidResolver` with any number of concurrent calls | |
| `MCCredoResolver` | one DID, two chains, one that expires and one the engines differ on | `CredoResolver` |
| `CredoResolverProofs` | theorems about `CredoResolver` | `CredoResolver` |
| `CredoRun` | `CredoSession.run`, runs sharing one Agent | `INSTANCE CredoResolver` |
| `MCCredoRun` | identities of one DID: one that expires, one renewed with a mirrored key, one without a key | `CredoRun` |
| `CredoRunProofs` | theorems about `CredoRun` | `CredoRun`, `INSTANCE CredoResolverProofs` |
| `StudioClient` | the handlers of `studio-script.ts`, with requests in flight | |
| `MCStudioClient` | two chains and two templates that differ in formats | `StudioClient` |
| `StudioClientProofs` | theorems about `StudioClient` | `StudioClient` |
| `NativeAddon` | `@didx509/native` from the JavaScript wrapper through `addon.cpp` into the shim and back | |
| `MCNativeAddon` | one ask per way through the code | `NativeAddon` |
| `NativeAddonProofs` | theorems about `NativeAddon` | `NativeAddon` |
| `CredentialStudio` | the pure part of the studio: identities, templates, signing, verification, the checklist, the flows | `X509Chain` |
| `PlaygroundServer` | the routes of `server.ts` that call it, with the clock, the modules loaded and the status of the Credo tab | `CredentialStudio` |
| `MCPlaygroundServer` | identities for TLC, each different from a good one in one respect | `PlaygroundServer` |
| `PlaygroundServerProofs` | theorems about `PlaygroundServer` and the operators of `CredentialStudio` | `PlaygroundServer` |

Correspondence with the code. `PROJECT.json` maps each definition to its lines.
In outline:

* `DidResolution`: `pc[c]` is the await a call stands at. `Invoke` is everything
  before the first await (option checks, loading, length and curves);
  `VerifyLink` one awaited signature; `CheckCertificate` one turn of the loop
  that reads the clock; `MatchDid` the decoding and `checkDidX509`;
  `BuildDocument` the awaited key export and the document. A certificate is a
  record of what the checks look at; its signature is the key it verifies under.
* `EcdsaSignature`: byte strings are sequences, most significant byte first. The loop
  of `removeLeadingZeros` is the position it stops at, `padToLength` a function on the
  positions of its result; in the resolution a verified signature remains the key it
  verifies under.
* `SessionStore`: `sessions` is the `Map`, a function from the ids it holds;
  `place` in an entry is its position in the Map's iteration order, which breaks
  the ties of the eviction. `request[r]` is the handler of a request and the
  await it stands at. `Arrive` captures the cookie; `AcquireHit` and
  `AcquireMiss` are `acquire` up to its first await; `Started`, `StartFails`,
  `RunEnds`, `RunThrows` what follows. `Dismiss` is a deletion with the
  shutdown that is not awaited; `Signal` and `Exit` are `shutdownAll` and
  `process.exit`. `owner` is a history variable.
* `CredoResolver`: `promise` is `implementationPromise`; `Select` the `??=`,
  `Load` its settlement with the handlers chained to it, `Proceed` a caller going
  on. An engine is what it holds of each DID and chain: for each certificate, the
  moments at which it would be found in order (`CoreWindows`, `NativeWindows`; one
  certificate never in order makes a chain that never resolves). Between the question
  and the answer it reads the clock once for each, so `MayAccept` and `MayRefuse` can
  both hold of an answer during which something expired. `Reinstall` is the
  environment: an import that failed is not remembered by the runtime, so what a
  second one would find may differ.
* `CredoRun`: one action per awaited step; the resolver's own actions are those
  of `CredoResolver`, with the chain map as its hook. Credo and Askar are
  external: importing a DID stores document and key in one record, signing uses
  the key of the record, and any wallet operation may throw.
* `StudioClient`: a handler that fetches is two actions, the click up to the
  request and the answer with everything after it; `call[c]` is what the request
  carries. The buttons' `disabled` flags are state, for guards read them. `run` and
  `check` are the two handlers that post to the Agent's route, of which only the first
  sets `credoRunning`. `payload` is the credential that step 4 displays: a load with a
  key leaves it in view when `signed` is gone. A key is the leaf of its point's x and
  whether the point is mirrored, for the upload compares no more (`Matches`). `edited`
  and `crossed` are history variables: the page changed between a request and its answer. The status of the
  Agent is one action, since nothing can be pressed on the Credo tab before it.
  A Credo step's button is guarded by its `disabled` flag only: a locked step takes
  no pointer events, but the keyboard still reaches it.
* `NativeAddon`: `call[c].stage` is where a call stands: queued for the pool, in the
  shim, back from it with a string to copy, executed and waiting for the main
  thread, settled. `main` is the synchronous call that holds the main thread; no
  JavaScript runs while it does. `out` and `err` are the shim's two result
  pointers, `text` the addon's own copy. didx509cpp is given by its verdict on each
  input. `Heap` bounds the texts memory is found for, so that both of the shim's
  allocations, the engine's own and the addon's copy can fail; a text short enough for a
  `std::string` to hold in itself needs none there. `CopyFails` is the copy that throws:
  the string stays, a worker's call ends in `OnError`, and a synchronous one in an error
  or, nothing in `run_sync` catching it, with the process (`up`), as node-addon-api is
  built. In `AnswersItsOwnCall` calls share memory, the pool and the main thread only;
  the rest of it is about the option's two spellings and the plugin that drops them.
* `CredentialStudio` has no state: `Signs` says whether a signer returns,
  `Credential` what it returns, `Checks` the checklist of `verificationChecks`, from
  the verdict or from the `catch`. A credential is what the checks look at: format,
  issuer, embedded chain, the key it was signed with, whether what was signed is intact,
  which claims are committed to and visible, and of an mDoc its own last day and whether
  its elements, which lie outside the signature, were edited. A certificate's key adds to
  that of `X509Chain` the type the generator knows it by and the coordinate an
  upload compares. `Shown` is the one conversion that loses something: the value of
  a subject attribute read back from the text of the name, up to a comma.
* `PlaygroundServer`: a request moves from `read` to `parsed`, `signed` and
  `answered`, one action per function that awaits. `modules` is the runtime's module
  registry in the order of evaluation; `support` is the memoised promise of
  `credoAgentAvailable`. `minted`, `held` and `signer` are the browser's side: the
  identity it was given, its credential, and what that was signed with. `flow` is
  the rest of a run of the scripted flows.

## 3. The runs

| Run | Result | What it shows |
|---|---|---|
| `did_resolution` | pass | soundness, pin, validity, refinement of `ResolutionSpec`, settlement |
| `session_store` | pass | no leak, no sharing, bounded population, causes of every shutdown |
| `session_liveness` | pass | idle Agents are collected; a signalled process ends |
| `credo_resolver` | pass | one engine, loud misconfiguration, fresh chains, settlement |
| `credo_run` | pass | lone runs verify their own unless it expired; races never validate an uncertified key; true engine; every run ends |
| `studio_client` | pass | buttons agree with state, nothing starts over a run, staleness only when overtaken, no button lost |
| `native_addon` | pass | every call settles, a value only where it is due; a string is lost only in a failed copy |
| `credential_studio` | pass | what a passed checklist covers in each format; untouched credentials pass; what is offered can be signed |
| `playground_server` | pass | every request is answered, every page told, whatever was loaded in whatever order |
| `key_usage` | violation | `specification.md` 350 and 479 against the plugin |
| `hard_cap` | violation | `credo-session.ts` 29 against lines 86 to 106 |
| `mdoc_unaffected` | violation | `server.ts` 25 against the status request of every page load |

The two runs of `MCDidResolution` also evaluate `SignatureBytesKept`: the
conversion of an ECDSA signature for every pair of coordinates of up to two bytes
and every DER integer of up to three that holds them, over the bytes 0, 1 and 255.

Every property of a passing run has a mutant: an operator marked "Slip" beside
the one it replaces, a plausible mistake that the property catches.

Bounds, and why they are enough:

* `did_resolution`: one call (calls share nothing but the clock), clock 0 to 3,
  which lets a certificate expire, or become valid, between any two steps. 26
  certificates, each differing from a good one in one respect; chains of up to
  four, so that a second intermediate (also a self-issued one) meets a path length.
* `session_store`: `MaxSessions` 1, two concurrent requests, two browsers, three
  ids, two signals, clock 0 to 3 with `IdleTime` 1. Two starts overlap on a full
  store, so the bound is reached; the clock passes the idle time twice. Requests,
  browsers, ids and signals are symmetric. The ids bound the sessions ever
  started; when they run out a run request can only be rejected.
* `session_liveness`: one browser, two ids, one signal, no symmetry.
* `credo_resolver`: two concurrent calls, one DID, two chains, all modes and all
  states of the addon; clock 0 to 1, which lets the old chain expire before, while or
  after an engine looks at it.
* `credo_run`: two run requests at a time, each reusable without limit, one DID;
  three identities; runs that stop after step 1 or 7 (`Throughs`): a longer one passes
  through the states in which a shorter one ends. Clock 0 to 1, so that a chain expires
  between any two steps. The addon is one that loads with the wrong API, so that
  reporting the package differs from reporting the engine; with one that is good the
  state space is out of reach, and the theorems cover it.
* `studio_client`: two fetches in flight, symmetric; more would repeat pairs of
  overtaking answers. One chain Askar takes that signs only JSON-LD, one it does
  not take that signs SD-JWT and mDoc; one template of mDoc only, so that each
  combination of identity and template with and without options occurs. The
  buttons of steps 2 and 6 (`Throughs`): a result without a credential and
  one with it. Two texts for the key field: one that is a chain's key and one that is
  the mirror of the other's.
* `native_addon`: three calls over a pool of two threads and the main one, so that all
  three threads can be in the shim; each verdict of the engine, each spelling of the
  option alone and against the other, document and JWK, and the plugin with and
  without its chain. The heap holds two strings, one fewer than can be asked for.
* `credential_studio`: one studio request at a time (they share nothing but the
  modules), clock 0 to 2, `MdocLife` 1, so that an mDoc expires before its leaf and
  after; every key type, every way an upload is refused, and the
  odd identities that are accepted: a mirrored or missing key, an expired leaf, a
  key usage that may not sign, no country, no CN, an intermediate. Six alterations
  beside none: of what the issuer signed, of the issuer named, the chain removed, another
  chain (`Wrapping`) round the same leaf key, an mDoc's elements, disclosures dropped.
  A certificate can expire between any two requests, and between signing and the
  self-check.
* `playground_server`: two pages, one identity, one signing request, `all` flows or
  the Credo one alone, an addon that loads or does not, and no clock: it is about
  who loads what first.
* `key_usage` needs no clock; the other violations use the smallest instance that
  shows them.

Fairness. None in `StudioClient`: an answer may never come, and `NoButtonStuck` is
the safety form of its progress. Elsewhere, weak fairness on the steps that await Web Crypto, the import of a
module, the resolver's hook and engine, the wallet and the Agents' start and
shutdown: these promises settle. Weak fairness on the sweeper: the interval fires
while the process lives. None on requests, on signals, on the clock, or on a
particular outcome: starts and runs may fail every time. Liveness of the store
holds "or the process has exited". `Rest` steps in `DidResolution` and
`SessionStore` are the ends of their behaviours (all settled; process gone), and
`Wait` in `NativeAddon` is the event loop at rest, so deadlock is checked everywhere.
In `NativeAddon`, weak fairness on each call's own steps: libuv's threads take what is
queued and the event loop settles what was executed; nobody has to call. In
`PlaygroundServer`, on the studio's handlers, the settling of the status import, the
next flow of a run, and the answer to a page: all are awaits of Web Crypto, of an
import or of a settled promise.

## 4. The proofs

Every property of the passing runs that is not a liveness property is a theorem, for
every value of the constants.

Assumptions: those named in the modules (finite sets of requests and ids, a cap of
at least one, naturals for bounds and path lengths, `None` not a value). Three in
`PlaygroundServer` say what its constants stand for: `RequestsAreKnown` (formats are
the three, alterations those that are modelled), `UploadsAreSubmissions` (an upload has the fields
of one; a key that matches an Ed25519 leaf's is the leaf's, for such a key is all x)
and `NoneIsNothingElse`. TLC evaluates each of them in its runs.

`DidResolutionProofs`. The inductive invariant `StagesInv` adds to `TypeOK` what
each stage of a call has established: every link below position `at` is
verified, every certificate below it met its constraints and was in its period
at a moment between `since` and `now`, and at the last stages all of them. The
safety properties alone are not inductive, for they speak of settled calls only.
From it follow `ResolvedSound`, `PinSound` and `ValiditySound`. That the code's
count of all intermediates implies RFC 5280's count of those not self-issued is a
lemma on cardinalities. `Refinement` maps each action: `Invoke` to `Ask` or
`AskInVain`, a settling step to `Settle`, any other to a stutter.

`SessionStoreProofs`. The inductive invariant `StoreInv` is the conjunction of
`TypeOK`, `AgentsAccountedFor`, `StartsApart` (no two handlers start one id, and
the Agent of a start in flight is untouched: without it a failed start could take
an entry's Agent away) and `OwnersKnown` (every id a cookie, a request or a
handler names belongs to that browser; a fresh id to nobody). `PopulationBounded`
is inductive relative to it; its step needs that an eviction at capacity finds
somebody, which rests on the least element of a set of naturals (a library
theorem on well-founded relations). `ClosedForCause` is proved from the invariant
action by action.

`StudioClientProofs`. The inductive invariant `PageInv` joins the state properties
with `WellMade` (what a request of each kind carries), `RunsApart` (the run in
flight, as a set instead of a count) and `InStep`: a request that was not crossed
still agrees with the page. Without `InStep` the staleness properties say nothing
about the next answer. `NothingStartsOverARun` follows from it: its count from
`RunsApart`, its action part from `ButtonsAgree`, for the buttons are off during a run.
`SendAdds` and `SettleFrees` are what a send and an answer
do to the requests in flight, for any number of them.

`NativeAddonProofs`. A step changes one call, so the inductive invariant `AddonInv` is a
statement about single calls, `RecordInv`, and two about all of them: `MainHeld` (a
synchronous call in the shim is the one the main thread is in) and `PoolBound`.
`RecordInv` says what each stage knows of the engine's answer, which `AnswersItsOwnCall`
alone, speaking of settled calls, does not, and of the string that holds it: freed, or
left behind by a copy that threw. `OneCallChanges` carries it from one call to
all; each action then has to show its own record right. `StringsAreFew` counts the
strings not left behind: each belongs to a different call in the shim, and those are on
the pool's threads or in `main`.

`CredoResolverProofs`. `OneEngine` speaks of answered calls and says nothing of the
load they wait for, so the inductive invariant `ResolverInv` joins `LoadInv` (promise,
selected engine and loaded module tell one story in each mode) with `CallInv`, what
each stage of one call knows: its chain is among those the hook has answered or
would answer now, its engine is the one selected. `OneCallMoves` carries a step of
one call to all of them, whose records depend on the load only through what `Grows`
says of it. `EngineIsForLife` is the same as an action property: no step replaces a
selected engine.

`CredoRunProofs`. The session runs the resolver's actions with the chain map as its
hook, so the theorems about the resolver are taken over by instance:
`SessionUsesResolver` says that every behaviour of the session is one of
`CredoResolver`, and `SessionInv` contains its `ResolverInv`. The rest of
`SessionInv` is per run: `RunInv` (what each step of a run has established),
`AloneInv` (a run no other overlaps finds the chain map, the wallet's record and the
signer as it left them) and `ValidInv`. `AloneVerifiesItsOwn` alone is not inductive:
it speaks of finished runs, and what they end with was put there several steps before,
into state that other runs write. It and `ValidTracesToChain` are stated with the moments
between which the verification's engine looked at the chain (`from`, `to`), not with the
chain alone. `ChainsPosted` is what a race can reach: any chain
somebody posted for the DID, and no other.

`PlaygroundServerProofs`. Most of what the studio promises is about operators, and the
lemmas are on them: what a credential is made of (`SignedParts`, `SignedExtras`),
what a withheld claim becomes (`WithheldIsCommitted`), that the recovered issuer is the
one signed under (`IssuerIsRecovered`), what a passed checklist implies
(`PassedChecks`), that an alteration is noticed but for what the format leaves uncovered (`AlteredIsNoticed`), what an
untouched credential passes (`UntouchedPasses`), when a signature is blamed
(`BlamedSignature`), and that the tables and the signers agree (`TablesAgree`,
`OfferedIsClaimed`). The inductive invariant `ServerInv` brings them to the server's
state: `RequestInv` is what a request carries at each stage, `HeldInv` that the
credential in the browser is one that the studio once signed for the submission kept
beside it (`SignedFor`), `ModulesInv` that a stack is evaluated at most once. The three
action properties follow from it at the step that answers a verification.

`EcdsaSignatureProofs`. Strings are compared digit by digit from their ends, so that no
induction on the bytes is needed; the loop of `removeLeadingZeros` is the least position
it may stop at, by well-foundedness of the naturals. `SignatureIsKept`: under the width
of the issuer's curve both coordinates arrive unchanged, for every coordinate and every
DER integer of it, minimal or not. `InferredWidthSuffices`: without a width, exactly
when a coordinate fills it; the comment on the function (`x509.ts` 162) asks that of
both, which is more than needed.

Model-checked only: liveness under fairness, which is outside the prover's reach
(`EveryCallSettles` of both modules, `IdleAgentsClose`, `SignalsEndTheProcess`,
`EveryResolveSettles`, `EveryRunEnds`, `EveryRequestAnswered`), and the three
properties the code violates.

## 5. Where the code departs from what it says

The three violation runs show, by a trace each, what `PROJECT.json` lists as findings.
Met while modelling, modelled as the code has it, and not given a run of their own:

* An intermediate without basic constraints passes (`x509.ts` 529), where the
  specification (`specification.md` 429) asks for RFC 5280's path validation.
* A credential carries the leaf and the last certificate only (`x5cOf`, `chainDer`),
  though `credentials.ts` 14 says it carries the signing chain. Below an intermediate
  an mDoc is refused, the self-check of a JSON-LD credential cannot resolve its
  issuer, and an SD-JWT passes.
* The native plugin never passes the validity option on (`did-resolver-plugin.ts` of
  `typescript-native`, 70 to 73), though its line 19 says that its behaviour "matches the
  @didx509/core plugin exactly", and that one reads it (90 to 92). `AnswersItsOwnCall`
  therefore lets the plugin, and it alone, answer `notFound` where the option would have
  made the input hold.
* A `std::bad_alloc` in the addon's copy of the shim's string (`addon.cpp` 55) comes
  before its release (56): the string is lost. In a worker the exception reaches
  `OnError`; in `run_sync` nothing catches it. `StringsOwned` says that this is the only
  way to lose one.
* `btn-credo-verify` posts the whole flow (`studio-script.ts` 757 to 781) without
  reading or setting `credoRunning`: a run, or a second verification, can be started over
  a verification, in one wallet. `CredoRun` models what becomes of that; the page only
  promises the other direction (`NothingStartsOverARun`).
* Loading an identity with a key drops the signed credential and leaves its payload on
  the page (`studio-script.ts` 111 to 146 empty `step-4-out` only without a key), under
  the new identity, until the next signing. `StaleOnlyIfOvertaken` says of the payload
  that it is never shown beside another credential.
* An upload accepts the key of the mirrored point, for `publicKeysMatch` leaves out y
  (`upload.ts` 203 to 212), so `KeyGoesWithChain` is about the x only; signing notices
  (`SignedAsAsked`).
* `sign-mdoc.ts` says of RSA both that "an RSA leaf signs RS256" (253) and, in the
  signer's error, that the playground wires RS/PS256 and the visitor may "generate a ...
  RSA identity" (460 to 466); its own `mdocAlgorithmFor` (267 to 274) and the capability
  tables refuse RSA, and `MatrixTellsTruth` says only that these agree.
* `sign-sd-jwt.ts` 299 warns that "passing `false` here would delete" a claim from the
  credential; the next lines pass it, and it withholds, as `SignedAsAsked` says.
* An mDoc is valid for 365 days (`sign-mdoc.ts` 515 to 519), an identity for up to ten
  years: afterwards the signature of an untouched mDoc of a good identity fails, and is
  blamed. `UntouchedVerifies` and `BlameIsEarned` say so. That `issuerAuth.verify`
  enforces the date is an assumption about `@owf/mdoc`, whose source is not in the
  repository.
* A passed checklist covers, of an mDoc, what the issuer signed: `verifyMdocCredential`
  (610 to 618) compares no element with its digest, and its chain travels in an
  unprotected header, so changed elements, or another chain round the same leaf key, pass;
  of an SD-JWT, all but disclosures left out, which is the format's purpose.
  `PassMeansGenuine` states this per format.
* A run resolves its DID in step 2 and again in step 7 (`credo-agent.ts` 248 and 359), by
  engines that read the clock each time: a lone run with the right key reports
  `matches` and not `valid` when its chain expires in between.
* The status route answers 500, not "unavailable", once the import has been
  rejected; the page then hides its tab, as it does for either.
* A second signal, or a start in flight at the first, ends the process with a wallet
  open.
* The answer to a signature gives `btn-sign` back although the template chosen
  meanwhile has no format the key can sign; and a loaded chain leaves every Credo
  step locked beyond the pointer, though `studio-script.ts` 447 says any can be pressed.
* An mDoc's DID is always recovered by the CN, so that of an identity with a DID on
  another attribute is not the issuer's, and one without a CN cannot be verified.
* An expired leaf shows as a failed signature for an mDoc, as a skipped one for
  JSON-LD, and as a failed validity check alone for an SD-JWT.
* A leaf without a key usage extension resolves with every relationship, and its
  `canSign` is false.
* A generated identity with its DID on an attribute its subject lacks takes the CN's
  value and cannot be resolved; a subject value with a comma is cut, with the same end.
* `runAll` drops the results so far when one flow throws.

## 6. Not modelled, and the plan

Not modelled, for the reasons in `PROJECT.json`: command lines, scripts, workflows,
examples; the page's HTML, which is most of `server.ts`; displayed text. Abstracted:
the bytes of encodings (DER but for ECDSA signatures, COSE, JOSE), hashing (no collisions), the
did:x509 text (a record of its parts), an SD-JWT's digests of its disclosures, which its
library compares.

Next:

1. The rest of `encoding.ts`: scalars, percent encoding, base64url and name strings,
   as functions against reference definitions.
2. Critical extensions in `X509Chain` (the specification's step 2 against what the
   code examines).
3. An abstract lifecycle of a wallet that `SessionStore` implements, with the
   refinement proved.
