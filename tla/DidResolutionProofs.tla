-------------------------- MODULE DidResolutionProofs --------------------------
(***************************************************************************)
(* For any chains, DIDs and number of calls: a call of DidResolution has   *)
(* its type, and a call that resolves was made with a sound path, pinned   *)
(* by an authority that vouches for the leaf, each certificate of which    *)
(* was seen valid during the call.                                         *)
(***************************************************************************)
EXTENDS DidResolution, FiniteSetTheorems, TLAPS

-----------------------------------------------------------------------------
(* Type correctness.                                                       *)

LEMMA QueryFields ==
  ASSUME NEW q \in Queries
  PROVE  /\ q.chain \in Seq(Certificates \cup {Garbage})
         /\ Len(q.chain) \in Nat
         /\ DOMAIN q.chain = 1..Len(q.chain)
         /\ q # None
BY ChainsAreSequences, NoneIsNotAValue DEF Queries

LEMMA RefusalIsResult ==
  /\ [status |-> "invalidDidResolutionOptions", doc |-> None] \in Results
  /\ \A q : Refusal(q) \in Results
BY DEF Refusal, Results, Statuses

LEMMA InitTypeOK == Init => TypeOK
BY NoneIsNotAValue DEF Init, TypeOK, Results, Stages, Statuses

LEMMA InvokeTypeOK == ASSUME TypeOK, NEW c \in Calls, Invoke(c) PROVE TypeOK'
<1>1. PICK q \in Queries : /\ call' = [call EXCEPT ![c] = q]
                           /\ \/ SettleWith(c, [status |-> "invalidDidResolutionOptions", doc |-> None])
                              \/ SettleWith(c, Refusal(q))
                              \/ PassesUpFront(q.chain) /\ GoTo(c, "links", 1)
  BY DEF Invoke
<1>2. /\ now' \in 0..MaxTime
      /\ call' \in [Calls -> Queries \cup {None}]
      /\ since' \in [Calls -> 0..MaxTime]
  BY <1>1 DEF TypeOK, Invoke
<1>3. /\ pc' \in [Calls -> Stages]
      /\ at' \in [Calls -> Nat \ {0}]
      /\ result' \in [Calls -> Results]
  BY <1>1, RefusalIsResult DEF TypeOK, SettleWith, GoTo, Stages
<1>4. ASSUME NEW d \in Calls
      PROVE  /\ pc'[d] # "idle" => call'[d] # None
             /\ pc'[d] \notin {"idle", "settled"} => PassesUpFront(call'[d].chain)
             /\ pc'[d] = "links" => at'[d] + 1 \in DOMAIN call'[d].chain
             /\ pc'[d] = "certs" => at'[d] \in DOMAIN call'[d].chain
  <2>1. CASE d # c
    BY <1>1, <2>1 DEF TypeOK, SettleWith, GoTo
  <2>2. CASE d = c
    BY <1>1, <2>2, QueryFields DEF TypeOK, SettleWith, GoTo, PassesUpFront, LongEnough
  <2>3. QED BY <2>1, <2>2
<1>5. QED BY <1>2, <1>3, <1>4 DEF TypeOK

LEMMA RefuseTypeOK ==
  ASSUME TypeOK, NEW c \in Calls, Refuse(c), UNCHANGED <<now, call, since>>, pc[c] # "idle"
  PROVE  TypeOK'
BY RefusalIsResult DEF TypeOK, Refuse, SettleWith, Stages

LEMMA VerifyLinkTypeOK == ASSUME TypeOK, NEW c \in Calls, VerifyLink(c) PROVE TypeOK'
<1>1. pc[c] = "links" /\ call[c] \in Queries /\ UNCHANGED <<now, call, since>>
  BY DEF VerifyLink, TypeOK
<1>2. CASE Refuse(c)
  BY <1>1, <1>2, RefuseTypeOK
<1>3. CASE ~LastLink(call[c].chain, at[c]) /\ GoTo(c, "links", Following(at[c]))
  <2>1. at[c] + 1 \in 1..Len(call[c].chain) /\ at[c] + 1 # Len(call[c].chain) /\ at[c] \in Nat
    BY <1>1, <1>3, QueryFields DEF TypeOK, LastLink
  <2>2. Following(at[c]) + 1 \in DOMAIN call[c].chain /\ Following(at[c]) \in Nat \ {0}
    BY <1>1, <2>1, QueryFields DEF Following
  <2>3. QED
    BY <1>1, <1>3, <2>2 DEF TypeOK, GoTo, Stages
<1>4. CASE LastLink(call[c].chain, at[c]) /\ GoTo(c, "certs", 1)
  <2>1. 1 \in DOMAIN call[c].chain
    BY <1>1, QueryFields DEF TypeOK
  <2>2. QED
    BY <1>1, <1>4, <2>1 DEF TypeOK, GoTo, Stages
<1>5. QED BY <1>2, <1>3, <1>4 DEF VerifyLink

LEMMA CheckCertificateTypeOK == ASSUME TypeOK, NEW c \in Calls, CheckCertificate(c) PROVE TypeOK'
<1>1. pc[c] = "certs" /\ call[c] \in Queries /\ UNCHANGED <<now, call, since>>
  BY DEF CheckCertificate, TypeOK
<1>2. CASE Refuse(c)
  BY <1>1, <1>2, RefuseTypeOK
<1>3. CASE at[c] < Len(call[c].chain) /\ GoTo(c, "certs", Following(at[c]))
  <2>1. Following(at[c]) \in DOMAIN call[c].chain /\ Following(at[c]) \in Nat \ {0}
    BY <1>1, <1>3, QueryFields DEF TypeOK, Following
  <2>2. QED
    BY <1>1, <1>3, <2>1 DEF TypeOK, GoTo, Stages
<1>4. CASE GoTo(c, "did", at[c])
  BY <1>1, <1>4 DEF TypeOK, GoTo, Stages
<1>5. QED BY <1>2, <1>3, <1>4 DEF CheckCertificate

LEMMA MatchDidTypeOK == ASSUME TypeOK, NEW c \in Calls, MatchDid(c) PROVE TypeOK'
<1>1. CASE Refuse(c)
  BY <1>1, RefuseTypeOK DEF MatchDid
<1>2. CASE GoTo(c, "key", at[c])
  BY <1>2 DEF MatchDid, TypeOK, GoTo, Stages
<1>3. QED BY <1>1, <1>2 DEF MatchDid

LEMMA BuildDocumentTypeOK == ASSUME TypeOK, NEW c \in Calls, BuildDocument(c) PROVE TypeOK'
<1> DEFINE q == call[c]
<1>1. q \in Queries /\ PassesUpFront(q.chain) /\ UNCHANGED <<now, call, since>>
  BY DEF BuildDocument, TypeOK
<1>2. CASE Refuse(c)
  BY <1>2, RefuseTypeOK DEF BuildDocument
<1>3. CASE SettleWith(c, [status |-> "resolved", doc |-> Document(q.did, q.chain)])
  <2>1. q.chain # <<>>
    BY <1>1, QueryFields DEF PassesUpFront, LongEnough
  <2>2. [status |-> "resolved", doc |-> Document(q.did, q.chain)] \in Results
    BY <1>1, <2>1 DEF Results
  <2>3. QED
    BY <1>1, <1>3, <2>2 DEF TypeOK, SettleWith, Stages, BuildDocument
<1>4. QED BY <1>2, <1>3 DEF BuildDocument

LEMMA TickTypeOK == TypeOK /\ Tick => TypeOK'
BY NoneIsNotAValue DEF TypeOK, Tick

\* The state of DidResolution always has its type, whatever is asked of it.
THEOREM TypeCorrect == Spec => []TypeOK
<1>1. TypeOK /\ [Next]_vars => TypeOK'
  <2> SUFFICES ASSUME TypeOK, [Next]_vars PROVE TypeOK'
    OBVIOUS
  <2>1. ASSUME NEW c \in Calls, Invoke(c) PROVE TypeOK'
    BY <2>1, InvokeTypeOK
  <2>2. ASSUME NEW c \in Calls, Step(c) PROVE TypeOK'
    BY <2>2, VerifyLinkTypeOK, CheckCertificateTypeOK, MatchDidTypeOK, BuildDocumentTypeOK DEF Step
  <2>3. CASE Tick
    BY <2>3, TickTypeOK
  <2>4. CASE UNCHANGED vars
    BY <2>4 DEF TypeOK, vars
  <2>5. QED BY <2>1, <2>2, <2>3, <2>4 DEF Next, Rest
<1>2. QED BY <1>1, InitTypeOK, PTL DEF Spec

-----------------------------------------------------------------------------
(* The inductive invariant: what a call has established by the time it     *)
(* reaches each stage.                                                     *)

LinksUpTo(chain, n) == \A k \in 1..n : IssuedBy(chain[k], chain[k + 1])

CertificatesUpTo(q, n, first, last) ==
  \A k \in 1..n : /\ ConstraintsMet(q.chain, k)
                  /\ q.skip \/ \E t \in first..last : ValidAt(q.chain[k], t)

\* All that stands before the key export.
Vetted(q, first, last) ==
  /\ PassesUpFront(q.chain)
  /\ LinksUpTo(q.chain, Len(q.chain) - 1)
  /\ CertificatesUpTo(q, Len(q.chain), first, last)
  /\ Decodes(q.chain)
  /\ CheckDid(q.did, q.chain)

StageInv(c) ==
  LET q == call[c] IN
  /\ since[c] <= now
  /\ pc[c] # "settled" => ~Resolved(c)
  /\ pc[c] = "links" => LinksUpTo(q.chain, at[c] - 1)
  /\ pc[c] \in {"certs", "did", "key"} => LinksUpTo(q.chain, Len(q.chain) - 1)
  /\ pc[c] = "certs" => CertificatesUpTo(q, at[c] - 1, since[c], now)
  /\ pc[c] \in {"did", "key"} => CertificatesUpTo(q, Len(q.chain), since[c], now)
  /\ pc[c] = "key" => Decodes(q.chain) /\ CheckDid(q.did, q.chain)
  /\ Resolved(c) => /\ Vetted(q, since[c], now)
                    /\ result[c].doc = Document(q.did, q.chain)

StagesInv == \A c \in Calls : StageInv(c)

\* A step that leaves a call alone, but for the clock, leaves its invariant.
LEMMA StageInvLater ==
  ASSUME TypeOK, TypeOK', NEW d \in Calls, StageInv(d), now' >= now,
         pc'[d] = pc[d], call'[d] = call[d], since'[d] = since[d],
         at'[d] = at[d], result'[d] = result[d]
  PROVE  StageInv(d)'
<1>1. now \in Nat /\ now' \in Nat /\ since[d] \in Nat
  BY NoneIsNotAValue DEF TypeOK
<1>2. \A q, n : CertificatesUpTo(q, n, since[d], now) => CertificatesUpTo(q, n, since[d], now')
  <2>1. \A t \in since[d]..now : t \in since[d]..now'
    BY <1>1
  <2>2. QED BY <2>1 DEF CertificatesUpTo
<1>3. \A q : Vetted(q, since[d], now) => Vetted(q, since[d], now')
  BY <1>2 DEF Vetted
<1>4. QED
  BY <1>1, <1>2, <1>3 DEF StageInv, Resolved

\* A call that settles without a document owes nothing.
LEMMA StageInvRefused ==
  ASSUME TypeOK, NEW c \in Calls, StageInv(c), Refuse(c), UNCHANGED <<now, call, since>>
  PROVE  StageInv(c)'
<1>1. pc'[c] = "settled" /\ result'[c] = Refusal(call[c])
  BY DEF Refuse, SettleWith, TypeOK
<1>2. ~Resolved(c)'
  BY <1>1 DEF Resolved, Refusal
<1>3. QED BY <1>1, <1>2 DEF StageInv

LEMMA StageInvInvoke ==
  ASSUME TypeOK, NEW c \in Calls, StageInv(c), Invoke(c)
  PROVE  StageInv(c)'
<1>1. since'[c] = now /\ now' = now /\ now \in Nat /\ ~Resolved(c)
  BY NoneIsNotAValue DEF Invoke, TypeOK, StageInv
<1>2. PICK q \in Queries : /\ call' = [call EXCEPT ![c] = q]
                           /\ \/ SettleWith(c, [status |-> "invalidDidResolutionOptions", doc |-> None])
                              \/ SettleWith(c, Refusal(q))
                              \/ GoTo(c, "links", 1)
  BY DEF Invoke
<1>3. CASE GoTo(c, "links", 1)
  BY <1>1, <1>3 DEF StageInv, GoTo, TypeOK, Resolved, LinksUpTo
<1>4. CASE \/ SettleWith(c, [status |-> "invalidDidResolutionOptions", doc |-> None])
           \/ SettleWith(c, Refusal(q))
  <2>1. pc'[c] = "settled" /\ ~Resolved(c)'
    BY <1>4 DEF SettleWith, TypeOK, Resolved, Refusal
  <2>2. QED BY <1>1, <2>1 DEF StageInv
<1>5. QED BY <1>2, <1>3, <1>4

LEMMA LinksExtend ==
  ASSUME NEW chain, NEW n \in Nat \ {0}, LinksUpTo(chain, n - 1), IssuedBy(chain[n], chain[n + 1])
  PROVE  LinksUpTo(chain, n)
<1>1. ASSUME NEW k \in 1..n PROVE IssuedBy(chain[k], chain[k + 1])
  <2>1. CASE k = n
    BY <2>1
  <2>2. CASE k # n
    BY <2>2 DEF LinksUpTo
  <2>3. QED BY <2>1, <2>2
<1>2. QED BY <1>1 DEF LinksUpTo

LEMMA StageInvVerifyLink ==
  ASSUME TypeOK, NEW c \in Calls, StageInv(c), VerifyLink(c)
  PROVE  StageInv(c)'
<1> DEFINE chain == call[c].chain
<1>1. pc[c] = "links" /\ call[c] \in Queries /\ UNCHANGED <<now, call, since>>
  BY DEF VerifyLink, TypeOK
<1>2. LinksUpTo(chain, at[c] - 1) /\ ~Resolved(c) /\ since[c] <= now
  BY <1>1 DEF StageInv
<1>3. at[c] \in Nat \ {0} /\ Len(chain) \in Nat
  BY <1>1, QueryFields DEF TypeOK
<1>4. CASE Refuse(c)
  BY <1>1, <1>4, StageInvRefused
<1>5. CASE IssuedBy(chain[at[c]], chain[at[c] + 1]) /\ GoTo(c, "links", Following(at[c]))
  <2>1. LinksUpTo(chain, Following(at[c]) - 1)
    BY <1>2, <1>3, <1>5, LinksExtend DEF Following
  <2>2. QED
    BY <1>1, <1>2, <1>5, <2>1 DEF StageInv, GoTo, TypeOK, Resolved
<1>6. CASE IssuedBy(chain[at[c]], chain[at[c] + 1]) /\ LastLink(chain, at[c]) /\ GoTo(c, "certs", 1)
  <2>1. LinksUpTo(chain, Len(chain) - 1)
    <3>1. at[c] = Len(chain) - 1
      BY <1>3, <1>6 DEF LastLink
    <3>2. QED BY <1>2, <1>3, <1>6, <3>1, LinksExtend
  <2>2. CertificatesUpTo(call[c], 0, since[c], now)
    BY DEF CertificatesUpTo
  <2>3. QED
    BY <1>1, <1>2, <1>6, <2>1, <2>2 DEF StageInv, GoTo, TypeOK, Resolved
<1>7. QED BY <1>4, <1>5, <1>6 DEF VerifyLink

LEMMA StageInvCheckCertificate ==
  ASSUME TypeOK, NEW c \in Calls, StageInv(c), CheckCertificate(c)
  PROVE  StageInv(c)'
<1> DEFINE q == call[c]
<1> DEFINE k == at[c]
<1>1. pc[c] = "certs" /\ q \in Queries /\ UNCHANGED <<now, call, since>>
  BY DEF CheckCertificate, TypeOK
<1>2. /\ CertificatesUpTo(q, k - 1, since[c], now)
      /\ LinksUpTo(q.chain, Len(q.chain) - 1)
      /\ ~Resolved(c)
      /\ since[c] <= now
  BY <1>1 DEF StageInv
<1>3. k \in Nat \ {0} /\ Len(q.chain) \in Nat /\ now \in Nat /\ since[c] \in Nat
  BY <1>1, QueryFields, NoneIsNotAValue DEF TypeOK
<1>4. CASE Refuse(c)
  BY <1>1, <1>4, StageInvRefused
<1>5. CASE ConstraintsMet(q.chain, k) /\ InPeriod(q, k, now)
  <2>1. CertificatesUpTo(q, k, since[c], now)
    <3>1. ASSUME NEW j \in 1..k
          PROVE  /\ ConstraintsMet(q.chain, j)
                 /\ q.skip \/ \E t \in since[c]..now : ValidAt(q.chain[j], t)
      <4>1. CASE j = k
        BY <1>2, <1>3, <1>5, <4>1 DEF InPeriod
      <4>2. CASE j # k
        BY <1>2, <1>3, <4>2 DEF CertificatesUpTo
      <4>3. QED BY <4>1, <4>2
    <3>2. QED BY <3>1 DEF CertificatesUpTo
  <2>2. CASE GoTo(c, "certs", Following(k))
    <3>1. CertificatesUpTo(q, Following(k) - 1, since[c], now)
      BY <1>3, <2>1 DEF Following
    <3>2. QED
      BY <1>1, <1>2, <2>2, <3>1 DEF StageInv, GoTo, TypeOK, Resolved
  <2>3. CASE k = Len(q.chain) /\ GoTo(c, "did", k)
    BY <1>1, <1>2, <2>1, <2>3 DEF StageInv, GoTo, TypeOK, Resolved
  <2>4. CASE Refuse(c)
    BY <1>1, <2>4, StageInvRefused
  <2>5. QED BY <1>5, <2>2, <2>3, <2>4 DEF CheckCertificate
<1>6. QED BY <1>4, <1>5 DEF CheckCertificate

LEMMA StageInvMatchDid ==
  ASSUME TypeOK, NEW c \in Calls, StageInv(c), MatchDid(c)
  PROVE  StageInv(c)'
<1>1. CASE Refuse(c)
  BY <1>1, StageInvRefused DEF MatchDid
<1>2. CASE /\ Decodes(call[c].chain)
           /\ CheckDid(call[c].did, call[c].chain)
           /\ GoTo(c, "key", at[c])
  BY <1>2 DEF MatchDid, StageInv, GoTo, TypeOK, Resolved
<1>3. QED BY <1>1, <1>2 DEF MatchDid

LEMMA StageInvBuildDocument ==
  ASSUME TypeOK, NEW c \in Calls, StageInv(c), BuildDocument(c)
  PROVE  StageInv(c)'
<1> DEFINE q == call[c]
<1>1. pc[c] = "key" /\ PassesUpFront(q.chain) /\ UNCHANGED <<now, call, since>>
  BY DEF BuildDocument, TypeOK
<1>2. Vetted(q, since[c], now) /\ since[c] <= now
  BY <1>1 DEF StageInv, Vetted
<1>3. CASE Refuse(c)
  BY <1>1, <1>3, StageInvRefused
<1>4. CASE SettleWith(c, [status |-> "resolved", doc |-> Document(q.did, q.chain)])
  <2>1. pc'[c] = "settled" /\ result'[c].doc = Document(q.did, q.chain)
    BY <1>4 DEF SettleWith, TypeOK
  <2>2. QED BY <1>1, <1>2, <2>1 DEF StageInv
<1>5. QED BY <1>3, <1>4 DEF BuildDocument

THEOREM StagesCorrect == Spec => []StagesInv
<1>1. Init => StagesInv
  BY DEF Init, StagesInv, StageInv, Resolved
<1>2. TypeOK /\ TypeOK' /\ StagesInv /\ [Next]_vars => StagesInv'
  <2> SUFFICES ASSUME TypeOK, TypeOK', StagesInv, [Next]_vars, NEW d \in Calls
               PROVE  StageInv(d)'
    BY DEF StagesInv
  <2>1. StageInv(d) /\ now \in Nat
    BY NoneIsNotAValue DEF StagesInv, TypeOK
  <2>2. ASSUME NEW c \in Calls, Invoke(c) \/ Step(c) PROVE StageInv(d)'
    <3>1. CASE c = d
      BY <2>1, <2>2, <3>1, StageInvInvoke, StageInvVerifyLink, StageInvCheckCertificate,
         StageInvMatchDid, StageInvBuildDocument DEF Step
    <3>2. CASE c # d
      <4>1. /\ now' = now /\ pc'[d] = pc[d] /\ call'[d] = call[d]
            /\ since'[d] = since[d] /\ at'[d] = at[d] /\ result'[d] = result[d]
        BY <2>2, <3>2 DEF TypeOK, Invoke, Step, VerifyLink, CheckCertificate, MatchDid, BuildDocument,
           SettleWith, Refuse, GoTo
      <4>2. QED BY <2>1, <4>1, StageInvLater
    <3>3. QED BY <3>1, <3>2
  <2>3. CASE Tick
    BY <2>1, <2>3, StageInvLater DEF Tick
  <2>4. CASE UNCHANGED vars
    BY <2>1, <2>4, StageInvLater DEF vars
  <2>5. QED BY <2>2, <2>3, <2>4 DEF Next, Rest
<1>3. QED BY <1>1, <1>2, TypeCorrect, PTL DEF Spec

-----------------------------------------------------------------------------
(* What the inductive invariant says of a resolved call.                   *)

\* RFC 5280's count of intermediates never exceeds the code's.
LEMMA FewerCount ==
  ASSUME NEW chain, NEW k \in Nat, k >= 2
  PROVE  /\ Cardinality(Abstract!NonSelfIssuedBelow(chain, k)) \in Nat
         /\ Cardinality(Abstract!NonSelfIssuedBelow(chain, k)) <= k - 2
<1> DEFINE below == 2..(k - 1)
<1>1. IsFiniteSet(below) /\ Cardinality(below) = k - 2
  BY FS_Interval
<1>2. Abstract!NonSelfIssuedBelow(chain, k) \subseteq below
  BY DEF Abstract!NonSelfIssuedBelow
<1>3. QED
  BY <1>1, <1>2, FS_Subset, FS_CardinalityType

\* The instance has its own copy of the standard operator.
LEMMA SameCardinality == \A S : Abstract!Cardinality(S) = Cardinality(S)
BY DEF Abstract!Cardinality, Cardinality, Abstract!IsFiniteSet, IsFiniteSet

LEMMA VettedIsSound ==
  ASSUME NEW q \in Queries, NEW first, NEW last, Vetted(q, first, last)
  PROVE  Abstract!SoundPath(q.chain)
<1> DEFINE chain == q.chain
<1>1. Len(chain) \in Nat /\ Len(chain) >= 2 /\ DOMAIN chain = 1..Len(chain)
  BY QueryFields DEF Vetted, PassesUpFront, LongEnough
<1>2. \A k \in 1..(Len(chain) - 1) : /\ chain[k].issuer = chain[k + 1].subject
                                    /\ chain[k].signedBy = chain[k + 1].key
  BY DEF Vetted, LinksUpTo, IssuedBy
<1>3. ASSUME NEW k \in 2..Len(chain) PROVE Abstract!AuthorityMayIssue(chain, k)
  <2>1. chain[k] \in Certificates
    BY <1>1, QueryFields DEF Vetted, PassesUpFront, Loads
  <2>2. chain[k].bc # None => chain[k].bc.ca /\ PathLengthMet(chain[k].bc, k)
    BY <1>1 DEF Vetted, CertificatesUpTo, ConstraintsMet
  <2>3. ASSUME chain[k].bc # None, chain[k].bc.pathLen # None
        PROVE  chain[k].bc.pathLen >= Cardinality(Abstract!NonSelfIssuedBelow(chain, k))
    <3>1. chain[k].bc.pathLen \in Nat /\ chain[k].bc.pathLen >= k - 2
      BY <2>1, <2>2, <2>3, PathLengthsAreNaturals DEF PathLengthMet
    <3>2. QED BY <1>1, <3>1, FewerCount
  <2>4. chain[k].bc # None => chain[k].bc.ca
    BY <2>2, Zenon
  <2>5. chain[k].bc # None => (chain[k].bc.pathLen # None =>
          chain[k].bc.pathLen >= Abstract!Cardinality(Abstract!NonSelfIssuedBelow(chain, k)))
    BY <2>3, SameCardinality
  <2>6. QED BY <2>4, <2>5, Zenon DEF Abstract!AuthorityMayIssue
<1>4. QED BY <1>1, <1>2, <1>3 DEF Abstract!SoundPath

LEMMA ResolvedIsVetted ==
  ASSUME TypeOK, StagesInv, NEW c \in Calls, Resolved(c)
  PROVE  /\ call[c] \in Queries
         /\ Vetted(call[c], since[c], now)
         /\ result[c].doc = Document(call[c].did, call[c].chain)
<1>1. StageInv(c)
  BY DEF StagesInv
<1>2. pc[c] = "settled"
  BY <1>1 DEF StageInv
<1>3. QED
  BY <1>1, <1>2 DEF StageInv, TypeOK

\* A document is only returned for a chain that RFC 5280's rules on names,
\* signatures, CA bits and path lengths allow, for chains of any length.
THEOREM ResolvedSound == Spec => []ResolvedPathIsSound
<1>1. TypeOK /\ StagesInv => ResolvedPathIsSound
  BY ResolvedIsVetted, VettedIsSound DEF ResolvedPathIsSound
<1>2. QED BY <1>1, TypeCorrect, StagesCorrect, PTL

\* The pinned authority stands above the leaf and signatures lead from it to
\* the published key, whatever the chain's length and the DID's policies.
THEOREM PinSound == Spec => []PinnedAuthorityVouches
<1>1. ASSUME TypeOK, StagesInv, NEW c \in Calls, Resolved(c)
      PROVE  LET chain == call[c].chain
                 did   == call[c].did
             IN  \E top \in 2..Len(chain) :
                   /\ did.fp = Fingerprint(chain[top], did.alg)
                   /\ \A k \in 1..(top - 1) : chain[k].signedBy = chain[k + 1].key
                   /\ result[c].doc.key = chain[1].key
                   /\ result[c].doc.id = [did EXCEPT !.fragment = FALSE]
  <2> DEFINE chain == call[c].chain
  <2> DEFINE did == call[c].did
  <2>1. /\ call[c] \in Queries
        /\ Vetted(call[c], since[c], now)
        /\ result[c].doc = Document(did, chain)
    BY <1>1, ResolvedIsVetted
  <2>2. PICK top \in 2..Len(chain) : Fingerprint(chain[top], did.alg) = did.fp
    BY <2>1 DEF Vetted, CheckDid, PinsAuthority
  <2>3. \A k \in 1..(top - 1) : chain[k].signedBy = chain[k + 1].key
    <3>1. \A k \in 1..(top - 1) : k \in 1..(Len(chain) - 1)
      BY <2>1, QueryFields
    <3>2. QED BY <2>1, <3>1 DEF Vetted, LinksUpTo, IssuedBy
  <2>4. result[c].doc.key = chain[1].key /\ result[c].doc.id = [did EXCEPT !.fragment = FALSE]
    BY <2>1 DEF Document, DocumentId
  <2>5. QED BY <2>2, <2>3, <2>4
<1>2. TypeOK /\ StagesInv => PinnedAuthorityVouches
  BY <1>1 DEF PinnedAuthorityVouches
<1>3. QED BY <1>2, TypeCorrect, StagesCorrect, PTL

\* No chain resolves that had a certificate out of date for the whole call.
THEOREM ValiditySound == Spec => []ResolvedWhileValid
<1>1. ASSUME TypeOK, StagesInv, NEW c \in Calls, Resolved(c), ~call[c].skip
      PROVE  Abstract!SeenValid(call[c].chain, since[c], now)
  <2>1. call[c] \in Queries /\ Vetted(call[c], since[c], now)
    BY <1>1, ResolvedIsVetted
  <2>2. DOMAIN call[c].chain = 1..Len(call[c].chain)
    BY <2>1, QueryFields
  <2>3. \A k \in 1..Len(call[c].chain) : \E t \in since[c]..now : ValidAt(call[c].chain[k], t)
    BY <1>1, <2>1, Zenon DEF Vetted, CertificatesUpTo
  <2>4. QED
    BY <2>2, <2>3 DEF Abstract!SeenValid, Abstract!ValidAt, ValidAt
<1>2. TypeOK /\ StagesInv => ResolvedWhileValid
  BY <1>1 DEF ResolvedWhileValid
<1>3. QED BY <1>2, TypeCorrect, StagesCorrect, PTL

-----------------------------------------------------------------------------
(* DidResolution implements ResolutionSpec.                                *)

\* The instance has its own copies of X509Chain's operators too.
LEMMA SameChainOperators ==
  /\ \A chain : Abstract!Loads(chain) = Loads(chain)
  /\ \A chain : Abstract!Decodes(chain) = Decodes(chain)
  /\ \A cert : Abstract!Exportable(cert) = Exportable(cert)
  /\ \A cert, t : Abstract!ValidAt(cert, t) = ValidAt(cert, t)
  /\ \A leaf : Abstract!Relationships(leaf) = Relationships(leaf)
BY DEF Abstract!Loads, Loads, Abstract!Decodes, Decodes, Abstract!Exportable, Exportable,
       Abstract!SupportedCurve, SupportedCurve, Abstract!ValidAt, ValidAt,
       Abstract!Relationships, Relationships, Abstract!KeyUsageNames, KeyUsageNames

LEMMA SamePolicies == \A policy, leaf : Abstract!PolicyHolds(policy, leaf) = PolicyHolds(policy, leaf)
BY DEF Abstract!PolicyHolds, PolicyHolds, Abstract!SubjectHolds, SubjectHolds, Abstract!SanHolds, SanHolds,
       Abstract!EkuHolds, EkuHolds, Abstract!FulcioIssuerHolds, FulcioIssuerHolds,
       Abstract!LabelPositions, LabelPositions, Abstract!DecodesTo, DecodesTo

LEMMA SameCheckDid == \A did, chain : Abstract!CheckDid(did, chain) = CheckDid(did, chain)
<1>1. \A did : Abstract!ParsesDid(did) = ParsesDid(did)
  BY DEF Abstract!ParsesDid, ParsesDid
<1>2. \A did, chain : Abstract!PinsAuthority(did, chain) = PinsAuthority(did, chain)
  BY DEF Abstract!PinsAuthority, PinsAuthority, Abstract!Algorithms, Algorithms,
         Abstract!Fingerprint, Fingerprint
<1>3. QED
  BY <1>1, <1>2, SamePolicies DEF Abstract!CheckDid, CheckDid

LEMMA SameDocument == \A did, chain : Abstract!Document(did, chain) = Document(did, chain)
BY SameChainOperators DEF Abstract!Document, Document, Abstract!DocumentId, DocumentId

\* What ResolutionSpec sees of pc.
Phase == [c \in Calls |-> IF pc[c] \in {"idle", "settled"} THEN pc[c] ELSE "open"]

\* A refused call settles as ResolutionSpec's Settle does, given its reason.
LEMMA RefuseSettles ==
  ASSUME TypeOK, NEW c \in Calls, Refuse(c), UNCHANGED <<now, call, since>>,
         pc[c] \notin {"idle", "settled"}, Abstract!MayRefuse(call[c], since[c], now)
  PROVE  Abstract!Settle(c)
<1>1. call[c].chain # <<>>
  BY QueryFields DEF TypeOK, PassesUpFront, LongEnough
<1>2. Refusal(call[c]) = [status |-> Abstract!RefusalStatus(call[c]), doc |-> None]
  BY <1>1 DEF Refusal, Abstract!RefusalStatus
<1>3. Phase[c] = "open" /\ Phase' = [Phase EXCEPT ![c] = "settled"]
  BY DEF Phase, TypeOK, Refuse, SettleWith
<1>4. QED
  BY <1>2, <1>3 DEF Abstract!Settle, Phase, Refuse, SettleWith

\* A step inside a call is invisible.
LEMMA GoToStutters ==
  ASSUME TypeOK, NEW c \in Calls, NEW stage \in Stages \ {"idle", "settled"}, NEW k,
         GoTo(c, stage, k), UNCHANGED <<now, call, since>>, pc[c] \notin {"idle", "settled"}
  PROVE  UNCHANGED Abstract!vars
<1>1. Phase' = Phase
  BY DEF Phase, TypeOK, GoTo
<1>2. QED BY <1>1 DEF Abstract!vars, Phase, GoTo

LEMMA InvokeRefines ==
  ASSUME TypeOK, NEW c \in Calls, Invoke(c)
  PROVE  Abstract!Ask(c) \/ Abstract!AskInVain(c)
<1>1. PICK q \in Queries :
        /\ call' = [call EXCEPT ![c] = q]
        /\ \/ /\ LacksChain(q)
              /\ SettleWith(c, [status |-> "invalidDidResolutionOptions", doc |-> None])
           \/ /\ ~LacksChain(q)
              /\ ~PassesUpFront(q.chain)
              /\ SettleWith(c, Refusal(q))
           \/ /\ PassesUpFront(q.chain)
              /\ GoTo(c, "links", 1)
  BY DEF Invoke
<1>2. pc[c] = "idle" /\ since' = [since EXCEPT ![c] = now] /\ now' = now
  BY DEF Invoke
<1>3. Phase[c] = "idle"
  BY <1>2 DEF Phase
<1>4. call'[c] = q /\ Abstract!Asks(c, call'[c])
  BY <1>1 DEF TypeOK, Abstract!Asks
<1>5. CASE GoTo(c, "links", 1)
  <2>1. Phase' = [Phase EXCEPT ![c] = "open"]
    BY <1>5 DEF Phase, TypeOK, GoTo
  <2>2. QED
    BY <1>2, <1>3, <1>4, <1>5, <2>1 DEF Abstract!Ask, Phase, GoTo
<1>6. ASSUME NEW outcome, SettleWith(c, outcome), Abstract!MayRefuse(q, now, now),
             outcome = [status |-> Abstract!RefusalStatus(q), doc |-> None]
      PROVE  Abstract!AskInVain(c)
  <2>1. Phase' = [Phase EXCEPT ![c] = "settled"]
    BY <1>6 DEF Phase, TypeOK, SettleWith
  <2>2. QED
    BY <1>2, <1>3, <1>4, <1>6, <2>1 DEF Abstract!AskInVain, Phase, SettleWith
<1>7. CASE /\ LacksChain(q)
           /\ SettleWith(c, [status |-> "invalidDidResolutionOptions", doc |-> None])
  <2>1. ~Abstract!SoundPath(q.chain)
    BY <1>7 DEF LacksChain, Abstract!SoundPath
  <2>2. Abstract!RefusalStatus(q) = "invalidDidResolutionOptions"
    BY <1>7 DEF LacksChain, Abstract!RefusalStatus
  <2>3. QED BY <1>6, <1>7, <2>1, <2>2 DEF Abstract!MayRefuse
<1>8. CASE /\ ~LacksChain(q)
           /\ ~PassesUpFront(q.chain)
           /\ SettleWith(c, Refusal(q))
  <2>1. Abstract!MayRefuse(q, now, now)
    <3>1. CASE ~Loads(q.chain)
      BY <3>1, SameChainOperators DEF Abstract!MayRefuse
    <3>2. CASE ~LongEnough(q.chain)
      BY <3>2, QueryFields DEF LongEnough, Abstract!MayRefuse, Abstract!SoundPath
    <3>3. CASE \E k \in DOMAIN q.chain : ~SupportedCurve(q.chain[k])
      BY <3>3, SameChainOperators DEF Exportable, Abstract!MayRefuse
    <3>4. QED BY <1>8, <3>1, <3>2, <3>3 DEF PassesUpFront
  <2>2. Refusal(q) = [status |-> Abstract!RefusalStatus(q), doc |-> None]
    BY <1>8 DEF LacksChain, Refusal, Abstract!RefusalStatus
  <2>3. QED BY <1>6, <1>8, <2>1, <2>2
<1>9. QED BY <1>1, <1>5, <1>7, <1>8

LEMMA VerifyLinkRefines ==
  ASSUME TypeOK, NEW c \in Calls, VerifyLink(c)
  PROVE  Abstract!Settle(c) \/ UNCHANGED Abstract!vars
<1> DEFINE chain == call[c].chain
<1> DEFINE k == at[c]
<1>1. pc[c] = "links" /\ call[c] \in Queries /\ UNCHANGED <<now, call, since>>
  BY DEF VerifyLink, TypeOK
<1>2. k \in 1..(Len(chain) - 1) /\ k + 1 \in DOMAIN chain
  BY <1>1, QueryFields DEF TypeOK
<1>3. CASE ~IssuedBy(chain[k], chain[k + 1]) /\ Refuse(c)
  <2>1. Abstract!MayRefuse(call[c], since[c], now)
    <3>1. CASE ~Exportable(chain[k + 1])
      BY <1>2, <3>1, SameChainOperators DEF Abstract!MayRefuse
    <3>2. CASE chain[k].issuer # chain[k + 1].subject \/ chain[k].signedBy # chain[k + 1].key
      BY <1>2, <3>2 DEF Abstract!MayRefuse, Abstract!SoundPath
    <3>3. QED BY <1>3, <3>1, <3>2 DEF IssuedBy
  <2>2. QED BY <1>1, <1>3, <2>1, RefuseSettles
<1>4. CASE GoTo(c, "links", Following(k)) \/ GoTo(c, "certs", 1)
  BY <1>1, <1>4, GoToStutters DEF Stages
<1>5. QED BY <1>3, <1>4 DEF VerifyLink

LEMMA CheckCertificateRefines ==
  ASSUME TypeOK, NEW c \in Calls, StageInv(c), CheckCertificate(c)
  PROVE  Abstract!Settle(c) \/ UNCHANGED Abstract!vars
<1> DEFINE q == call[c]
<1> DEFINE k == at[c]
<1>1. pc[c] = "certs" /\ q \in Queries /\ UNCHANGED <<now, call, since>>
  BY DEF CheckCertificate, TypeOK
<1>2. k \in DOMAIN q.chain /\ k \in 1..Len(q.chain) /\ Loads(q.chain) /\ now \in since[c]..now
  <2>1. k \in DOMAIN q.chain /\ k \in 1..Len(q.chain) /\ Loads(q.chain)
    BY <1>1, QueryFields DEF TypeOK, PassesUpFront
  <2>2. since[c] <= now /\ since[c] \in Nat /\ now \in Nat
    BY NoneIsNotAValue DEF TypeOK, StageInv
  <2>3. QED BY <2>1, <2>2
<1>3. CASE ~(ConstraintsMet(q.chain, k) /\ InPeriod(q, k, now)) /\ Refuse(c)
  <2>1. CASE ~ConstraintsMet(q.chain, k)
    <3>1. q.chain[k] \in Certificates
      BY <1>1, <1>2, QueryFields DEF Loads
    <3>2. k \in 2..Len(q.chain) /\ ~Abstract!AuthorityMustIssue(q.chain, k)
      BY <1>1, <1>2, <2>1, <3>1, QueryFields, PathLengthsAreNaturals
         DEF ConstraintsMet, PathLengthMet, Abstract!AuthorityMustIssue
    <3>3. Abstract!MayRefuse(q, since[c], now)
      BY <3>2 DEF Abstract!MayRefuse
    <3>4. QED BY <1>1, <1>3, <3>3, RefuseSettles
  <2>2. CASE ~InPeriod(q, k, now)
    <3>1. ~q.skip /\ Abstract!SeenInvalid(q.chain, since[c], now)
      BY <1>2, <2>2, SameChainOperators DEF InPeriod, Abstract!SeenInvalid
    <3>2. Abstract!MayRefuse(q, since[c], now)
      BY <3>1 DEF Abstract!MayRefuse
    <3>3. QED BY <1>1, <1>3, <3>2, RefuseSettles
  <2>3. QED BY <1>3, <2>1, <2>2
<1>4. CASE GoTo(c, "certs", Following(k)) \/ GoTo(c, "did", k)
  BY <1>1, <1>4, GoToStutters DEF Stages
<1>5. QED BY <1>3, <1>4 DEF CheckCertificate

LEMMA MatchDidRefines ==
  ASSUME TypeOK, NEW c \in Calls, MatchDid(c)
  PROVE  Abstract!Settle(c) \/ UNCHANGED Abstract!vars
<1>1. pc[c] = "did" /\ UNCHANGED <<now, call, since>>
  BY DEF MatchDid
<1>2. CASE ~(Decodes(call[c].chain) /\ CheckDid(call[c].did, call[c].chain)) /\ Refuse(c)
  <2>1. Abstract!MayRefuse(call[c], since[c], now)
    BY <1>2, SameChainOperators, SameCheckDid DEF Abstract!MayRefuse
  <2>2. QED BY <1>1, <1>2, <2>1, RefuseSettles
<1>3. CASE GoTo(c, "key", at[c])
  BY <1>1, <1>3, GoToStutters DEF Stages
<1>4. QED BY <1>2, <1>3 DEF MatchDid

LEMMA BuildDocumentRefines ==
  ASSUME TypeOK, NEW c \in Calls, StageInv(c), BuildDocument(c)
  PROVE  Abstract!Settle(c)
<1> DEFINE q == call[c]
<1>1. pc[c] = "key" /\ q \in Queries /\ UNCHANGED <<now, call, since>>
  BY DEF BuildDocument, TypeOK
<1>2. Vetted(q, since[c], now)
  BY <1>1 DEF StageInv, Vetted, TypeOK
<1>3. Abstract!UsableLeaf(q) = (Exportable(q.chain[1]) /\ AcceptsKeyUsage(q))
  BY SameChainOperators DEF Abstract!UsableLeaf, AcceptsKeyUsage
<1>4. CASE ~(Exportable(q.chain[1]) /\ AcceptsKeyUsage(q)) /\ Refuse(c)
  <2>1. Abstract!MayRefuse(q, since[c], now)
    BY <1>3, <1>4 DEF Abstract!MayRefuse
  <2>2. QED BY <1>1, <1>4, <2>1, RefuseSettles
<1>5. CASE /\ Exportable(q.chain[1]) /\ AcceptsKeyUsage(q)
           /\ SettleWith(c, [status |-> "resolved", doc |-> Document(q.did, q.chain)])
  <2>1. Len(q.chain) \in Nat /\ Len(q.chain) >= 2 /\ DOMAIN q.chain = 1..Len(q.chain)
    BY <1>1, <1>2, QueryFields DEF Vetted, PassesUpFront, LongEnough
  <2>2. \A k \in DOMAIN q.chain : Exportable(q.chain[k])
    <3>1. ASSUME NEW k \in 2..Len(q.chain) PROVE Exportable(q.chain[k])
      <4>1. k - 1 \in 1..(Len(q.chain) - 1) /\ (k - 1) + 1 = k
        BY <2>1
      <4>2. IssuedBy(q.chain[k - 1], q.chain[(k - 1) + 1])
        BY <1>2, <4>1 DEF Vetted, LinksUpTo
      <4>3. QED BY <4>1, <4>2 DEF IssuedBy
    <3>2. QED BY <1>5, <2>1, <3>1
  <2>3. q.skip \/ Abstract!SeenValid(q.chain, since[c], now)
    <3>1. \A k \in 1..Len(q.chain) : q.skip \/ \E t \in since[c]..now : ValidAt(q.chain[k], t)
      BY <1>2, Zenon DEF Vetted, CertificatesUpTo
    <3>2. QED BY <2>1, <3>1, SameChainOperators DEF Abstract!SeenValid
  <2>4. Abstract!MayResolve(q, since[c], now)
    <3>1. Loads(q.chain) /\ Decodes(q.chain) /\ CheckDid(q.did, q.chain)
      BY <1>2 DEF Vetted, PassesUpFront
    <3>2. Abstract!SoundPath(q.chain)
      BY <1>1, <1>2, VettedIsSound
    <3>3. QED
      BY <1>3, <1>5, <2>2, <2>3, <3>1, <3>2, SameChainOperators, SameCheckDid, Zenon DEF Abstract!MayResolve
  <2>5. Phase[c] = "open" /\ Phase' = [Phase EXCEPT ![c] = "settled"]
    BY <1>1, <1>5 DEF Phase, TypeOK, SettleWith
  <2>6. QED
    BY <1>1, <1>5, <2>4, <2>5, SameDocument DEF Abstract!Settle, Phase, SettleWith
<1>6. QED BY <1>4, <1>5 DEF BuildDocument

LEMMA TickRefines == TypeOK /\ Tick => Abstract!PassTime
BY DEF Tick, Abstract!PassTime

LEMMA InitRefines == Init => Abstract!Init
BY DEF Init, Abstract!Init, Abstract!Pending

\* However its steps interleave with the clock, every behaviour of
\* DidResolution is one that ResolutionSpec allows.
THEOREM Refinement == Spec => ImplementsResolutionSpec
<1>1. TypeOK /\ StagesInv /\ [Next]_vars => [Abstract!Next]_Abstract!vars
  <2> SUFFICES ASSUME TypeOK, StagesInv, [Next]_vars
               PROVE  Abstract!Next \/ UNCHANGED Abstract!vars
    OBVIOUS
  <2>1. ASSUME NEW c \in Calls, Invoke(c) PROVE Abstract!Next
    BY <2>1, InvokeRefines DEF Abstract!Next
  <2>2. ASSUME NEW c \in Calls, Step(c) PROVE Abstract!Next \/ UNCHANGED Abstract!vars
    <3>1. StageInv(c)
      BY DEF StagesInv
    <3>2. Abstract!Settle(c) \/ UNCHANGED Abstract!vars
      BY <2>2, <3>1, VerifyLinkRefines, CheckCertificateRefines, MatchDidRefines,
         BuildDocumentRefines DEF Step
    <3>3. QED BY <3>2 DEF Abstract!Next
  <2>3. CASE Tick
    BY <2>3, TickRefines DEF Abstract!Next
  <2>4. CASE UNCHANGED vars
    BY <2>4 DEF vars, Abstract!vars
  <2>5. QED BY <2>1, <2>2, <2>3, <2>4 DEF Next, Rest
<1>2. QED
  BY <1>1, InitRefines, TypeCorrect, StagesCorrect, PTL DEF Spec, ImplementsResolutionSpec, Abstract!Spec
=============================================================================
