----------------------------- MODULE DidResolution -----------------------------
(***************************************************************************)
(* resolveDid / resolveDidFromPem of typescript/src/didx509.ts and the     *)
(* did-resolver plugin of typescript/src/did-resolver-plugin.ts, step by   *)
(* step: what runs before the first await, one step per awaited signature  *)
(* check, one per certificate of the constraints-and-validity loop (each   *)
(* iteration reads the clock anew), the DID check, and the key export that *)
(* is awaited before the document is built.  The clock advances between    *)
(* any two steps.                                                          *)
(***************************************************************************)
EXTENDS X509Chain

CONSTANTS
  Calls,          \* the calls made
  Certificates,   \* the certificates callers may present
  Chains,         \* the chains they present, some of them with Garbage entries
  Dids,           \* the DIDs they ask for
  MaxTime         \* bound on the clock

VARIABLES
  now,      \* the wall clock, in some unit
  pc,       \* pc[c]: where call c is, see Stages
  call,     \* call[c]: its arguments, None before it is made
  since,    \* since[c]: when it was made
  at,       \* at[c]: the certificate it looks at next
  result    \* result[c]: [status, doc], "pending" until it settles

vars == <<now, pc, call, since, at, result>>

Stages == {"idle", "links", "certs", "did", "key", "settled"}

Statuses == {"pending", "resolved", "rejected", "notFound", "invalidDidResolutionOptions"}

Queries == [api : {"library", "plugin"}, did : Dids, chain : Chains, skip : BOOLEAN]

ASSUME ChainsAreSequences == Chains \subseteq Seq(Certificates \cup {Garbage})

ASSUME PathLengthsAreNaturals ==
  \A cert \in Certificates :
    cert.bc = None \/ cert.bc.pathLen = None \/ cert.bc.pathLen \in Nat

ASSUME NoneIsNotAValue ==
  None \notin Queries /\ Garbage \notin Certificates /\ MaxTime \in Nat

Abstract == INSTANCE ResolutionSpec WITH
  phase <- [c \in Calls |-> IF pc[c] \in {"idle", "settled"} THEN pc[c] ELSE "open"],
  query <- call

-----------------------------------------------------------------------------
Init ==
  /\ now = 0
  /\ pc = [c \in Calls |-> "idle"]
  /\ call = [c \in Calls |-> None]
  /\ since = [c \in Calls |-> 0]
  /\ at = [c \in Calls |-> 1]
  /\ result = [c \in Calls |-> [status |-> "pending", doc |-> None]]

\* A refused library call rejects its promise; the plugin reports notFound.
Refusal(q) ==
  [status |-> IF q.api = "plugin" THEN "notFound" ELSE "rejected", doc |-> None]

SettleWith(c, outcome) ==
  /\ pc' = [pc EXCEPT ![c] = "settled"]
  /\ result' = [result EXCEPT ![c] = outcome]
  /\ UNCHANGED at

Refuse(c) == SettleWith(c, Refusal(call[c]))

GoTo(c, stage, k) ==
  /\ pc' = [pc EXCEPT ![c] = stage]
  /\ at' = [at EXCEPT ![c] = k]
  /\ UNCHANGED result

\* The plugin was given no x509chain, or an empty one.
LacksChain(q) == q.api = "plugin" /\ q.chain = <<>>

\* The synchronous part of verifyCertificateChain: loading, the length and
\* the curve of every key.
PassesUpFront(chain) ==
  /\ Loads(chain)
  /\ LongEnough(chain)
  /\ \A k \in DOMAIN chain : SupportedCurve(chain[k])

\* A call and everything it does before its first await.
Invoke(c) ==
  /\ pc[c] = "idle"
  /\ \E q \in Queries :
       /\ call' = [call EXCEPT ![c] = q]
       /\ \/ /\ LacksChain(q)
             /\ SettleWith(c, [status |-> "invalidDidResolutionOptions", doc |-> None])
          \/ /\ ~LacksChain(q)
             /\ ~PassesUpFront(q.chain)
             /\ SettleWith(c, Refusal(q))
          \/ /\ ~LacksChain(q)
             /\ PassesUpFront(q.chain)
             /\ GoTo(c, "links", 1)
  /\ since' = [since EXCEPT ![c] = now]
  /\ UNCHANGED now

\* Slip: the loop does not advance.
SamePosition(k) == k

\* The loops' i++.
Following(k) == k + 1

\* Slip: the loop runs to the last certificate and not to the one below it.
LinksPastTheEnd(chain, k) == k = Len(chain)

\* The loop condition i < chain.length - 1 fails after position k.
LastLink(chain, k) == k + 1 = Len(chain)

\* verifyCertificateIssuedBy, awaited for each certificate below the last.
VerifyLink(c) ==
  LET chain == call[c].chain
      k     == at[c]
  IN
  /\ pc[c] = "links"
  /\ \/ /\ ~IssuedBy(chain[k], chain[k + 1])
        /\ Refuse(c)
     \/ /\ IssuedBy(chain[k], chain[k + 1])
        /\ ~LastLink(chain, k)
        /\ GoTo(c, "links", Following(k))
     \/ /\ IssuedBy(chain[k], chain[k + 1])
        /\ LastLink(chain, k)
        /\ GoTo(c, "certs", 1)
  /\ UNCHANGED <<now, call, since>>

\* Slip: the validity period is read off the first certificate only.
InPeriodLeafOnly(q, k, t) == q.skip \/ k > 1 \/ ValidAt(q.chain[k], t)

InPeriod(q, k, t) == q.skip \/ ValidAt(q.chain[k], t)

\* One turn of the loop over basic constraints and validity.
CheckCertificate(c) ==
  LET q      == call[c]
      k      == at[c]
      passes == ConstraintsMet(q.chain, k) /\ InPeriod(q, k, now)
  IN
  /\ pc[c] = "certs"
  /\ \/ ~passes /\ Refuse(c)
     \/ passes /\ k < Len(q.chain) /\ GoTo(c, "certs", Following(k))
     \/ passes /\ k = Len(q.chain) /\ GoTo(c, "did", k)
  /\ UNCHANGED <<now, call, since>>

\* decodeCertificate of every certificate, then checkDidX509.
MatchDid(c) ==
  LET passes == Decodes(call[c].chain) /\ CheckDid(call[c].did, call[c].chain) IN
  /\ pc[c] = "did"
  /\ \/ ~passes /\ Refuse(c)
     \/ passes /\ GoTo(c, "key", at[c])
  /\ UNCHANGED <<now, call, since>>

\* The leaf's key usage allows something; only the library asks.
AcceptsKeyUsage(q) == q.api = "plugin" \/ Relationships(q.chain[1]) # {}

\* extractPublicKeyAsJwk of the leaf, awaited, and the document built from it.
BuildDocument(c) ==
  LET q      == call[c]
      passes == Exportable(q.chain[1]) /\ AcceptsKeyUsage(q)
  IN
  /\ pc[c] = "key"
  /\ \/ ~passes /\ Refuse(c)
     \/ passes /\ SettleWith(c, [status |-> "resolved", doc |-> Document(q.did, q.chain)])
  /\ UNCHANGED <<now, call, since>>

Step(c) == VerifyLink(c) \/ CheckCertificate(c) \/ MatchDid(c) \/ BuildDocument(c)

Tick ==
  /\ now < MaxTime
  /\ now' = now + 1
  /\ UNCHANGED <<pc, call, since, at, result>>

\* Every call has settled and the clock has reached its bound.
Rest ==
  /\ now = MaxTime
  /\ \A c \in Calls : pc[c] = "settled"
  /\ UNCHANGED vars

Next == (\E c \in Calls : Invoke(c) \/ Step(c)) \/ Tick \/ Rest

\* Every await is on Web Crypto, which settles each promise it hands out.
Fairness == \A c \in Calls : WF_vars(Step(c))

Spec == Init /\ [][Next]_vars /\ Fairness

-----------------------------------------------------------------------------
\* A call settles with a document, or without one.
Results ==
  [status : Statuses \ {"resolved"}, doc : {None}]
    \cup {[status |-> "resolved", doc |-> Document(q.did, q.chain)] : q \in {p \in Queries : p.chain # <<>>}}

\* The state has its type; in particular the loops never look past either end
\* of the chain (the code reads chain[i]! and chain[i + 1]! unchecked).
TypeOK ==
  /\ now \in 0..MaxTime
  /\ pc \in [Calls -> Stages]
  /\ call \in [Calls -> Queries \cup {None}]
  /\ since \in [Calls -> 0..MaxTime]
  /\ at \in [Calls -> Nat \ {0}]
  /\ result \in [Calls -> Results]
  /\ \A c \in Calls :
       /\ pc[c] # "idle" => call[c] # None
       /\ pc[c] \notin {"idle", "settled"} => PassesUpFront(call[c].chain)
       /\ pc[c] = "links" => at[c] + 1 \in DOMAIN call[c].chain
       /\ pc[c] = "certs" => at[c] \in DOMAIN call[c].chain

Resolved(c) == result[c].status = "resolved"

\* A document is only ever returned for a chain in which each certificate is
\* named and signed by the next and each authority that carries basic
\* constraints may issue under RFC 5280's own count of intermediates
\* (x509.ts 500-557, whose count is a simpler one).
ResolvedPathIsSound == \A c \in Calls : Resolved(c) => Abstract!SoundPath(call[c].chain)

\* The authority the DID pins stands above the leaf, and signatures lead from
\* it down to the key the document publishes: neither the pin (didx509.ts
\* 94-108) nor the links (x509.ts 519-521) show this alone.
PinnedAuthorityVouches ==
  \A c \in Calls : Resolved(c) =>
    LET chain == call[c].chain
        did   == call[c].did
    IN  \E top \in 2..Len(chain) :
          /\ did.fp = Fingerprint(chain[top], did.alg)
          /\ \A k \in 1..(top - 1) : chain[k].signedBy = chain[k + 1].key
          /\ result[c].doc.key = chain[1].key
          /\ result[c].doc.id = [did EXCEPT !.fragment = FALSE]

\* Unless the caller waives the check, each certificate of a resolved chain
\* was inside its validity period at some moment of the call: a chain that
\* is out of date throughout the call never resolves (x509.ts 550-555).
ResolvedWhileValid ==
  \A c \in Calls : Resolved(c) /\ ~call[c].skip =>
    Abstract!SeenValid(call[c].chain, since[c], now)

\* Every call, in whatever order its checks ran, has one of the outcomes
\* ResolutionSpec allows: resolved only for a chain that vouches for the DID,
\* refused only when some check can fail.
ImplementsResolutionSpec == Abstract!Spec

\* Every call that was made settles.
EveryCallSettles == \A c \in Calls : pc[c] # "idle" ~> pc[c] = "settled"

-----------------------------------------------------------------------------
(* What specification.md says and the code does not do.                    *)

\* specification.md 479: a leaf whose key usage names neither digitalSignature
\* nor keyAgreement fails, so a document always has a relationship.
DocumentHasRelationship ==
  \A c \in Calls : Resolved(c) => result[c].doc.relationships # {}
=============================================================================
