---------------------------- MODULE ResolutionSpec ----------------------------
(***************************************************************************)
(* What resolving a did:x509 promises, without the order in which the code *)
(* gets there: a call that is open may settle at any moment, with the      *)
(* document when the chain vouches for the DID and without it when some    *)
(* check can fail, each certificate being looked at once, at a moment of   *)
(* the resolver's choice between the call and its settlement.              *)
(*                                                                         *)
(* The path-length rule is RFC 5280's (only non-self-issued intermediates  *)
(* count), the one specification.md asks for; a resolver may be stricter,  *)
(* so the condition to refuse is wider than the negation of the condition  *)
(* to resolve.                                                             *)
(***************************************************************************)
EXTENDS X509Chain

CONSTANTS
  Calls,     \* the calls made over the life of the system
  Queries    \* what may be asked: records [api, did, chain, skip]

VARIABLES
  now,       \* the wall clock
  phase,     \* phase[c]: "idle", "open" or "settled"
  query,     \* query[c]: what call c asks, None while idle
  since,     \* since[c]: when call c was made
  result     \* result[c]: [status, doc]

vars == <<now, phase, query, since, result>>

Pending == [status |-> "pending", doc |-> None]

-----------------------------------------------------------------------------
NonSelfIssuedBelow(chain, k) == {j \in 2..(k - 1) : chain[j].issuer # chain[j].subject}

\* RFC 5280 section 4.2.1.9, for an authority that carries the extension.
AuthorityMayIssue(chain, k) ==
  chain[k].bc # None =>
    /\ chain[k].bc.ca
    /\ chain[k].bc.pathLen # None =>
         chain[k].bc.pathLen >= Cardinality(NonSelfIssuedBelow(chain, k))

\* The stricter rule a resolver may follow: all intermediates count.
AuthorityMustIssue(chain, k) ==
  chain[k].bc # None =>
    chain[k].bc.ca /\ (chain[k].bc.pathLen # None => chain[k].bc.pathLen + 2 >= k)

\* Every certificate is named and signed by the next one, and every
\* certificate above the leaf may issue.
SoundPath(chain) ==
  /\ Len(chain) >= 2
  /\ \A k \in 1..(Len(chain) - 1) : /\ chain[k].issuer = chain[k + 1].subject
                                    /\ chain[k].signedBy = chain[k + 1].key
  /\ \A k \in 2..Len(chain) : AuthorityMayIssue(chain, k)

\* No certificate was outside its validity period throughout the call.
SeenValid(chain, first, last) ==
  \A k \in DOMAIN chain : \E t \in first..last : ValidAt(chain[k], t)

SeenInvalid(chain, first, last) ==
  \E k \in DOMAIN chain : \E t \in first..last : ~ValidAt(chain[k], t)

\* The library refuses a leaf whose key has no use in a DID document; the
\* did-resolver plugin does not.
UsableLeaf(q) ==
  /\ Exportable(q.chain[1])
  /\ q.api = "plugin" \/ Relationships(q.chain[1]) # {}

MayResolve(q, first, last) ==
  /\ Loads(q.chain)
  /\ SoundPath(q.chain)
  /\ \A k \in DOMAIN q.chain : Exportable(q.chain[k])
  /\ q.skip \/ SeenValid(q.chain, first, last)
  /\ Decodes(q.chain)
  /\ CheckDid(q.did, q.chain)
  /\ UsableLeaf(q)

MayRefuse(q, first, last) ==
  \/ ~Loads(q.chain)
  \/ ~SoundPath(q.chain)
  \/ \E k \in DOMAIN q.chain : ~Exportable(q.chain[k])
  \/ \E k \in 2..Len(q.chain) : ~AuthorityMustIssue(q.chain, k)
  \/ ~q.skip /\ SeenInvalid(q.chain, first, last)
  \/ ~Decodes(q.chain)
  \/ ~CheckDid(q.did, q.chain)
  \/ ~UsableLeaf(q)

\* A library call is rejected; the plugin answers with an error code instead.
RefusalStatus(q) ==
  IF q.api = "plugin"
  THEN IF q.chain = <<>> THEN "invalidDidResolutionOptions" ELSE "notFound"
  ELSE "rejected"

-----------------------------------------------------------------------------
Init ==
  /\ now = 0
  /\ phase = [c \in Calls |-> "idle"]
  /\ query = [c \in Calls |-> None]
  /\ since = [c \in Calls |-> 0]
  /\ result = [c \in Calls |-> Pending]

\* Call c asks q, one of the queries there are.
Asks(c, q) == q \in Queries /\ query' = [query EXCEPT ![c] = q]

Ask(c) ==
  /\ phase[c] = "idle"
  /\ Asks(c, query'[c])
  /\ phase' = [phase EXCEPT ![c] = "open"]
  /\ since' = [since EXCEPT ![c] = now]
  /\ UNCHANGED <<now, result>>

\* Refused as it is made.
AskInVain(c) ==
  /\ phase[c] = "idle"
  /\ LET q == query'[c] IN
       /\ Asks(c, q)
       /\ MayRefuse(q, now, now)
       /\ result' = [result EXCEPT ![c] = [status |-> RefusalStatus(q), doc |-> None]]
  /\ phase' = [phase EXCEPT ![c] = "settled"]
  /\ since' = [since EXCEPT ![c] = now]
  /\ UNCHANGED now

Settle(c) ==
  /\ phase[c] = "open"
  /\ LET q == query[c] IN
       \/ /\ MayResolve(q, since[c], now)
          /\ result' = [result EXCEPT
                          ![c] = [status |-> "resolved", doc |-> Document(q.did, q.chain)]]
       \/ /\ MayRefuse(q, since[c], now)
          /\ result' = [result EXCEPT ![c] = [status |-> RefusalStatus(q), doc |-> None]]
  /\ phase' = [phase EXCEPT ![c] = "settled"]
  /\ UNCHANGED <<now, query, since>>

PassTime == now' = now + 1 /\ UNCHANGED <<phase, query, since, result>>

Next == PassTime \/ \E c \in Calls : Ask(c) \/ AskInVain(c) \/ Settle(c)

Spec == Init /\ [][Next]_vars
=============================================================================
