----------------------------- MODULE CredoRunProofs -----------------------------
(***************************************************************************)
(* Theorems about CredoRun for any runs, identities and engines.  A run    *)
(* uses the resolver as CredoResolver lets it be used, so the theorems of  *)
(* CredoResolverProofs hold of the resolver inside; what is added here is  *)
(* what a run may rely on between two of its steps (RunInv), alone on its  *)
(* DID or not.                                                             *)
(***************************************************************************)
EXTENDS CredoRun, TLAPS

Facts == INSTANCE CredoResolverProofs WITH Calls <- Runs, Modes <- {"auto"}

\* Somebody posted this chain for this DID.
Posted(did, chain) == \E i \in Identities : i.did = did /\ i.chain = chain

\* The chain map and the resolver's calls hold only what was posted.
ChainsPosted ==
  /\ hook
  /\ \A did \in Dids : provided[did] # None => Posted(did, provided[did])
  /\ \A r \in Runs : call[r].chain # None => Posted(call[r].did, call[r].chain)

\* A run x with its call k of the resolver.
RunInv(x, k) ==
  /\ x.stage # "free" => /\ x.identity \in Identities /\ x.identity.key # None
                         /\ x.steps # LastStep /\ ~x.valid
  /\ x.stage \in {"import", "bind", "wallet", "sign"} => x.doc # None
  /\ x.stage \in {"wallet", "sign"} => record[x.identity.did] # None
  /\ x.stage = "resolving" =>
       k.stage # "hook" /\ k.did = x.identity.did /\ k.chain = x.identity.chain
  /\ x.stage \notin {"resolving", "verifying"} => k.stage = "free"
  /\ x.stage \in {"import", "bind", "wallet", "sign", "verify", "verifying"} => selected # None
  /\ x.stage \in {"bind", "wallet", "sign", "verify", "verifying"} =>
       (x.matches <=> x.identity.key = LeafKey[x.identity.chain])
  /\ x.stage = "verifying" => k.did = x.identity.did
  /\ x.engine # None => x.engine = selected

\* What the engine of call k made of identity i's chain.
Accepted(i, k) == Resolver!MayAccept(k.engine, i.did, i.chain, k.from, k.to)

Refused(i, k) == Resolver!MayRefuse(k.engine, i.did, i.chain, k.from, k.to)

\* What a run finds as it left it while no other touches its DID.
AloneInv(x, k) ==
  x.alone =>
    /\ x.stage # "free" => provided[x.identity.did] = x.identity.chain
    /\ x.stage \in {"wallet", "sign"} => record[x.identity.did].key = x.identity.key
    /\ x.stage \in {"verify", "verifying"} => x.signer = x.identity.key
    /\ x.stage = "verifying" => /\ k.stage # "hook" => k.chain = x.identity.chain
                                /\ k.stage = "free" => k.outcome \in {"resolved", "notFound"}
    /\ x.steps = LastStep => /\ x.signer = x.identity.key
                             /\ x.valid => x.matches /\ Accepted(x.identity, k)
                             /\ x.matches /\ ~x.valid => Refused(x.identity, k)

\* A signature found valid traces to a chain the engine could accept.
ValidInv(x, k) ==
  x.valid => \E i \in Identities : /\ i.did = x.identity.did
                                   /\ LeafKey[i.chain] = x.signer
                                   /\ Accepted(i, k)

SessionInv ==
  /\ TypeOK
  /\ Facts!ResolverInv
  /\ ChainsPosted
  /\ \A r \in Runs : RunInv(run[r], call[r]) /\ AloneInv(run[r], call[r]) /\ ValidInv(run[r], call[r])

-----------------------------------------------------------------------------
(* A run uses the resolver as it may be used.                              *)

LEMMA ResolverAssumptions ==
  /\ {"auto"} \subseteq {"auto", "native", "core"} /\ Addons \subseteq Facts!AddonStates
  /\ None \notin Chains /\ None \notin Dids /\ None \notin Facts!Engines
  /\ MaxTime \in Nat
  /\ CoreWindows \in Facts!WindowsOf(Dids, Chains) /\ NativeWindows \in Facts!WindowsOf(Dids, Chains)
BY AddonsAreKnown, NoneIsNoValue, WindowsAreKnown DEF Resolver!WindowsOf, Facts!WindowsOf, Resolver!AddonStates, Facts!AddonStates, Facts!Engines

\* The two instances of CredoResolver are one.
LEMMA SameInit == Resolver!Init => Facts!Init
BY DEF Resolver!Init, Facts!Init, Resolver!NoCall, Facts!NoCall

LEMMA SameNext == Resolver!Next <=> Facts!Next
BY DEF Resolver!Next, Facts!Next, Resolver!Resolve, Facts!Resolve, Resolver!NoCall, Facts!NoCall,
       Resolver!Progress, Facts!Progress, Resolver!HookAnswers, Facts!HookAnswers,
       Resolver!HookChain, Facts!HookChain, Resolver!HookThrows, Facts!HookThrows,
       Resolver!Settle, Facts!Settle, Resolver!Select, Facts!Select,
       Resolver!LoadsNow, Facts!LoadsNow, Resolver!Proceed, Facts!Proceed,
       Resolver!Engines, Facts!Engines, Resolver!Answer, Facts!Answer,
       Resolver!Asked, Facts!Asked, Resolver!Windows, Facts!Windows,
       Resolver!MayAccept, Facts!MayAccept, Resolver!MayRefuse, Facts!MayRefuse,
       Resolver!Tick, Facts!Tick, Resolver!Load, Facts!Load,
       Resolver!ModuleLoaded, Facts!ModuleLoaded, Resolver!OnLoadFailure, Facts!OnLoadFailure,
       Resolver!Provide, Facts!Provide, Resolver!Reinstall, Facts!Reinstall

LEMMA SameType == (Facts!TypeOK <=> Resolver!TypeOK) /\ (Facts!TypeOK' <=> Resolver!TypeOK')
BY DEF Facts!TypeOK, Resolver!TypeOK, Facts!CallStates, Resolver!CallStates, Facts!Engines,
       Resolver!Engines, Facts!Outcomes, Resolver!Outcomes

\* Every step of a session is a step of its resolver, or none.
LEMMA RunUsesResolver == TypeOK /\ [Next]_vars => [Resolver!Next]_resolverVars
<1> SUFFICES ASSUME TypeOK, [Next]_vars, ~UNCHANGED resolverVars PROVE Resolver!Next
  OBVIOUS
<1>1. ASSUME NEW r \in Runs, Start(r) PROVE Resolver!Next
  <2>1. PICK i \in Identities : Resolver!Provide(i.did, i.chain)
    BY <1>1 DEF Start, RememberChain
  <2>2. i.did \in Dids /\ i.chain \in Chains \cup {None}
    BY DEF Dids, Chains
  <2> QED
    BY <2>1, <2>2 DEF Resolver!Next
<1>2. ASSUME NEW r \in Runs, AskResolver(r) PROVE Resolver!Next
  <2>1. run[r].identity \in Identities
    BY <1>2, NoneIsNoIdentity DEF AskResolver, TypeOK, RunStates
  <2>2. Did(r) \in Dids /\ run[r].identity.chain \in Chains \cup {None} /\ None \in Chains \cup {None}
    BY <2>1 DEF Did, Dids, Chains
  <2> QED
    BY <1>2, <2>2 DEF AskResolver, Resolver!Next
<1>3. ASSUME NEW r \in Runs, ResolverWorks(r) PROVE Resolver!Next
  BY <1>3 DEF ResolverWorks, Resolver!Next, Resolver!Progress
<1>4. CASE ResolverLoads
  BY <1>4 DEF ResolverLoads, Resolver!Next
<1>5. CASE TimePasses
  BY <1>5 DEF TimePasses, Resolver!Next
<1>6. ASSUME NEW r \in Runs, Resolved(r) \/ ImportKey(r) \/ BindDid(r) \/ ReadWallet(r)
                               \/ Sign(r) \/ Verified(r) \/ WalletThrows(r)
      PROVE  FALSE
  BY <1>6 DEF Resolved, ImportKey, BindDid, ReadWallet, Sign, Verified, WalletThrows
<1> QED
  BY <1>1, <1>2, <1>3, <1>4, <1>5, <1>6 DEF Next, Progress, Shutdown, vars

\* So the resolver's own invariant is kept, and it grows as it does alone.
LEMMA InsideResolver ==
  ASSUME TypeOK, Facts!ResolverInv, [Next]_vars
  PROVE  Facts!ResolverInv' /\ Facts!Grows /\ Resolver!TypeOK'
<1>1. [Facts!Next]_(Facts!vars)
  BY RunUsesResolver, SameNext DEF resolverVars, Facts!vars
<1>2. Facts!ResolverInv'
  BY <1>1, ResolverAssumptions, Facts!ResolverStep
<1>3. Facts!Grows
  BY <1>1, ResolverAssumptions, Facts!ResolverGrows
<1>4. Resolver!TypeOK'
  BY <1>2, SameType DEF Facts!ResolverInv
<1> QED
  BY <1>2, <1>3, <1>4

-----------------------------------------------------------------------------
(* What one run's step leaves to the others.                               *)

\* The call of q is where it was; only what the hook could have said may grow.
SameCall(q) ==
  /\ call'[q].stage = call[q].stage /\ call'[q].did = call[q].did
  /\ call'[q].chain = call[q].chain /\ call'[q].outcome = call[q].outcome
  /\ call'[q].engine = call[q].engine /\ call'[q].from = call[q].from /\ call'[q].to = call[q].to

\* A binding may be replaced, but not taken away.
KeepsBindings ==
  /\ record' \in [Dids -> Bindings \cup {None}]
  /\ \A did \in Dids : record[did] # None => record'[did] # None

KeepsDid(did) == provided'[did] = provided[did] /\ record'[did] = record[did]

LEMMA RunFields ==
  ASSUME TypeOK, NEW r \in Runs
  PROVE  /\ run[r] \in RunStates
         /\ run[r].stage # "free" => run[r].identity \in Identities /\ Did(r) \in Dids
BY NoneIsNoIdentity DEF TypeOK, RunStates, Did, Dids

\* What an engine made of a chain at one moment stays as it is.
LEMMA VerdictStays ==
  ASSUME Facts!Grows, NEW q \in Runs, SameCall(q), NEW i
  PROVE  /\ Accepted(i, call[q]) => Accepted(i, call[q])'
         /\ Refused(i, call[q]) => Refused(i, call[q])'
BY DEF Facts!Grows, SameCall, Accepted, Refused, Resolver!MayAccept, Resolver!MayRefuse

\* A run that takes no step keeps what it may rely on, told of a step that
\* touches its DID or not.
LEMMA OtherKeeps ==
  ASSUME SessionInv, Facts!Grows, KeepsBindings, NEW q \in Runs, SameCall(q), NEW x \in RunStates,
         x = run[q] \/ x = [run[q] EXCEPT !.alone = FALSE],
         x.stage # "free" /\ x.alone => KeepsDid(Did(q))
  PROVE  RunInv(x, call[q])' /\ AloneInv(x, call[q])' /\ ValidInv(x, call[q])'
<1>1. /\ run[q] \in RunStates /\ RunInv(run[q], call[q]) /\ AloneInv(run[q], call[q]) /\ ValidInv(run[q], call[q])
      /\ run[q].stage # "free" => Did(q) \in Dids
  BY RunFields DEF SessionInv
<1>2. /\ x.stage = run[q].stage /\ x.identity = run[q].identity /\ x.through = run[q].through
      /\ x.steps = run[q].steps /\ x.doc = run[q].doc /\ x.engine = run[q].engine
      /\ x.matches = run[q].matches /\ x.signer = run[q].signer /\ x.valid = run[q].valid
      /\ x.alone => run[q].alone
  BY <1>1 DEF RunStates
<1>3. RunInv(x, call[q])'
  <2>1. selected # None => selected' # None
    BY DEF Facts!Grows
  <2>2. x.engine # None => x.engine = selected'
    <3>1. x.engine # None => x.engine = selected
      BY <1>1, <1>2 DEF RunInv
    <3> QED
      BY <3>1 DEF Facts!Grows
  <2> QED
    BY <1>1, <1>2, <2>1, <2>2 DEF RunInv, SameCall, KeepsBindings, Did
<1>4. AloneInv(x, call[q])'
  <2>1. /\ Accepted(x.identity, call[q]) => Accepted(x.identity, call[q])'
        /\ Refused(x.identity, call[q]) => Refused(x.identity, call[q])'
    BY VerdictStays
  <2> QED
    BY <1>1, <1>2, <2>1 DEF AloneInv, SameCall, KeepsDid, Did
<1>5. ValidInv(x, call[q])'
  <2>1. \A i \in Identities : Accepted(i, call[q]) => Accepted(i, call[q])'
    BY VerdictStays
  <2> QED
    BY <1>1, <1>2, <2>1 DEF ValidInv
<1> QED
  BY <1>3, <1>4, <1>5

\* The invariant holds next if it holds next of each run.
LEMMA AllKeep ==
  ASSUME SessionInv, [Next]_vars, KeepsBindings, closed' \in BOOLEAN, ChainsPosted',
         run' \in [Runs -> RunStates],
         \A q \in Runs : RunInv(run[q], call[q])' /\ AloneInv(run[q], call[q])' /\ ValidInv(run[q], call[q])'
  PROVE  SessionInv'
<1>1. Facts!ResolverInv' /\ Resolver!TypeOK'
  BY InsideResolver DEF SessionInv
<1>2. TypeOK'
  <2>1. ASSUME NEW r \in Runs
        PROVE  /\ run'[r].stage # "free" => run'[r].identity # None /\ run'[r].identity.key # None
               /\ run'[r].stage \in {"import", "bind", "wallet", "sign"} => run'[r].doc # None
               /\ run'[r].stage \in {"wallet", "sign"} => record'[run'[r].identity.did] # None
    BY NoneIsNoIdentity DEF RunInv
  <2> QED
    BY <1>1, <2>1 DEF TypeOK, KeepsBindings, Did
<1> QED
  BY <1>1, <1>2 DEF SessionInv

\* A step of run r that gives it the state x, and changes chain map and wallet at
\* its own DID only, telling the others if it does.
LEMMA RunMoves ==
  ASSUME SessionInv, [Next]_vars, NEW r \in Runs, NEW x \in RunStates, NEW touched \in BOOLEAN,
         Becomes(r, x, touched), KeepsBindings, closed' \in BOOLEAN, ChainsPosted',
         \A q \in Runs \ {r} : SameCall(q),
         \A did \in Dids : KeepsDid(did) \/ (touched /\ did = x.identity.did),
         RunInv(x, call[r])', AloneInv(x, call[r])', ValidInv(x, call[r])'
  PROVE  SessionInv'
<1>1. Facts!Grows
  BY InsideResolver DEF SessionInv
<1>2. /\ \A q \in Runs : run[q] \in RunStates
      /\ \A q \in Runs : [run[q] EXCEPT !.alone = FALSE] \in RunStates
  BY RunFields DEF SessionInv, RunStates
<1>3. run' \in [Runs -> RunStates]
  BY <1>2 DEF Becomes
<1>4. ASSUME NEW q \in Runs
      PROVE  RunInv(run[q], call[q])' /\ AloneInv(run[q], call[q])' /\ ValidInv(run[q], call[q])'
  <2>1. CASE q = r
    <3>1. run'[q] = x
      BY <2>1 DEF Becomes
    <3> QED
      BY <2>1, <3>1 DEF RunInv, AloneInv, ValidInv, Accepted, Refused
  <2>2. CASE q # r
    <3>1. PICK y \in RunStates :
             /\ run'[q] = y /\ (y = run[q] \/ y = [run[q] EXCEPT !.alone = FALSE])
             /\ touched /\ run[q].stage # "free" /\ Did(q) = x.identity.did => ~y.alone
      BY <1>2, <2>2 DEF Becomes, RunStates
    <3>2. y.stage # "free" /\ y.alone => KeepsDid(Did(q))
      <4>1. y.stage = run[q].stage
        BY <1>2, <3>1 DEF RunStates
      <4> QED
        BY <3>1, <4>1, RunFields DEF SessionInv
    <3>3. RunInv(y, call[q])' /\ AloneInv(y, call[q])' /\ ValidInv(y, call[q])'
      BY <1>1, <2>2, <3>1, <3>2, OtherKeeps
    <3> QED
      BY <3>1, <3>3 DEF RunInv, AloneInv, ValidInv, Accepted, Refused
  <2> QED
    BY <2>1, <2>2
<1> QED
  BY <1>3, <1>4, AllKeep

-----------------------------------------------------------------------------
(* The steps of a run.                                                     *)

LEMMA EntryRecord ==
  ASSUME NEW x \in RunStates, NEW k \in 0..LastStep, NEW next \in Stages
  PROVE  LET y == Entry(x, k, next) IN
           /\ y \in RunStates
           /\ y.stage = IF x.through = k THEN "free" ELSE next
           /\ y.steps = k
           /\ y.identity = x.identity /\ y.through = x.through /\ y.doc = x.doc
           /\ y.engine = x.engine /\ y.matches = x.matches /\ y.signer = x.signer
           /\ y.valid = x.valid /\ y.alone = x.alone
BY DEF Entry, RunStates, Stages

LEMMA NoRunRecord ==
  /\ NoRun \in RunStates /\ NoRun.stage = "free" /\ NoRun.engine = None /\ ~NoRun.alone /\ ~NoRun.valid
  /\ NoRun.identity = None /\ NoRun.doc = None /\ NoRun.steps = 0
BY DEF NoRun, RunStates, Stages, LastStep

LEMMA SessionInit == Init => SessionInv
<1> SUFFICES ASSUME Init PROVE SessionInv
  OBVIOUS
<1>1. Facts!ResolverInv
  BY SameInit, ResolverAssumptions, Facts!ResolverInit DEF Init
<1>2. Resolver!TypeOK
  BY <1>1, SameType DEF Facts!ResolverInv
<1>3. \A r \in Runs : run[r] = NoRun
  BY DEF Init
<1>4. TypeOK
  BY <1>2, <1>3, NoRunRecord DEF Init, TypeOK
<1>5. ChainsPosted
  BY DEF Init, ChainsPosted, Resolver!Init, Resolver!NoCall
<1>6. \A r \in Runs : RunInv(run[r], call[r]) /\ AloneInv(run[r], call[r]) /\ ValidInv(run[r], call[r])
  <2>1. \A r \in Runs : call[r].stage = "free"
    BY DEF Init, Resolver!Init, Resolver!NoCall
  <2> QED
    BY <1>3, <2>1, NoRunRecord DEF RunInv, AloneInv, ValidInv
<1> QED
  BY <1>1, <1>4, <1>5, <1>6 DEF SessionInv

\* A step that leaves resolver, wallet and chain map alone needs only its own
\* state to be right.
LEMMA QuietStep ==
  ASSUME SessionInv, [Next]_vars, NEW r \in Runs, NEW x \in RunStates, Becomes(r, x, FALSE),
         UNCHANGED <<resolverVars, record, closed>>,
         RunInv(x, call[r]), AloneInv(x, call[r]), ValidInv(x, call[r])
  PROVE  SessionInv'
<1>1. KeepsBindings /\ closed' \in BOOLEAN
  BY DEF SessionInv, TypeOK, KeepsBindings
<1>2. ChainsPosted'
  BY DEF SessionInv, ChainsPosted, resolverVars
<1>3. \A q \in Runs : SameCall(q)
  BY DEF SameCall, resolverVars
<1>4. \A did \in Dids : KeepsDid(did)
  BY DEF KeepsDid, resolverVars
<1>5. RunInv(x, call[r])' /\ AloneInv(x, call[r])' /\ ValidInv(x, call[r])'
  <2>1. UNCHANGED <<selected, module, call, provided, record>>
    BY DEF resolverVars
  <2> QED
    BY <2>1 DEF RunInv, AloneInv, ValidInv, Accepted, Refused, Resolver!MayAccept, Resolver!MayRefuse
<1> QED
  BY <1>1, <1>2, <1>3, <1>4, <1>5, RunMoves

\* An error leaves nothing to rely on.
LEMMA NothingLeft == \A k : k.stage = "free" => RunInv(NoRun, k) /\ AloneInv(NoRun, k) /\ ValidInv(NoRun, k)
BY NoRunRecord DEF RunInv, AloneInv, ValidInv

LEMMA ThrownKeeps ==
  ASSUME SessionInv, [Next]_vars, NEW r \in Runs, Becomes(r, Thrown, FALSE), call[r].stage = "free",
         UNCHANGED <<resolverVars, record, closed>>
  PROVE  SessionInv'
BY QuietStep, NothingLeft, NoRunRecord DEF Thrown

LEMMA StartKeeps ==
  ASSUME SessionInv, [Next]_vars, NEW r \in Runs, Start(r)
  PROVE  SessionInv'
<1>1. PICK i \in Identities, through \in Throughs :
        LET fresh == [NoRun EXCEPT !.identity = i, !.through = through, !.alone = TRUE] IN
        \/ i.key = None /\ Becomes(r, Thrown, FALSE) /\ UNCHANGED resolverVars
        \/ /\ i.key # None /\ through = 1
           /\ Becomes(r, Entry(fresh, 1, "free"), FALSE) /\ UNCHANGED resolverVars
        \/ /\ i.key # None /\ through > 1
           /\ Becomes(r, Entry(fresh, 1, "resolve"), TRUE) /\ RememberChain(i)
  BY DEF Start
<1> DEFINE fresh == [NoRun EXCEPT !.identity = i, !.through = through, !.alone = TRUE]
<1>2. UNCHANGED <<record, closed>> /\ through \in 1..LastStep /\ call[r].stage = "free"
  BY NoneIsNoIdentity DEF Start, SessionInv, RunInv
<1>3. /\ fresh \in RunStates /\ fresh.identity = i /\ fresh.through = through /\ fresh.alone
      /\ fresh.doc = None /\ fresh.engine = None /\ ~fresh.valid
  <2> DEFINE posted == [NoRun EXCEPT !.identity = i]
             asked == [posted EXCEPT !.through = through]
  <2>1. /\ posted \in RunStates /\ posted.identity = i /\ ~posted.valid
        /\ posted.doc = None /\ posted.engine = None
    BY NoRunRecord DEF RunStates
  <2>2. through \in 0..LastStep
    BY <1>2 DEF LastStep
  <2> HIDE DEF posted
  <2>3. /\ asked \in RunStates /\ asked.identity = i /\ asked.through = through /\ ~asked.valid
        /\ asked.doc = None /\ asked.engine = None
    BY <2>1, <2>2 DEF RunStates
  <2> HIDE DEF asked
  <2>4. fresh = [asked EXCEPT !.alone = TRUE]
    BY DEF asked, posted
  <2> HIDE DEF fresh
  <2> QED
    BY <2>3, <2>4 DEF RunStates
<1> HIDE DEF fresh
<1>4. 1 \in 0..LastStep /\ 1 # LastStep
  BY DEF LastStep
<1>5. CASE i.key = None /\ Becomes(r, Thrown, FALSE) /\ UNCHANGED resolverVars
  BY <1>2, <1>5, ThrownKeeps
<1>6. CASE /\ i.key # None /\ through = 1
           /\ Becomes(r, Entry(fresh, 1, "free"), FALSE) /\ UNCHANGED resolverVars
  <2>1. PICK x \in RunStates : /\ Becomes(r, x, FALSE) /\ x.stage = "free" /\ x.steps = 1
                               /\ x.engine = None /\ ~x.valid
    <3> DEFINE y == Entry(fresh, 1, "free")
    <3>1. "free" \in Stages
      BY DEF Stages
    <3>2. /\ y \in RunStates /\ y.stage = "free" /\ y.steps = 1 /\ y.identity = i
          /\ y.engine = None /\ ~y.valid
      BY <1>3, <1>4, <1>6, <3>1, EntryRecord
    <3> QED
      BY <1>6, <3>2
  <2>2. RunInv(x, call[r]) /\ AloneInv(x, call[r]) /\ ValidInv(x, call[r])
    BY <1>2, <1>4, <2>1 DEF RunInv, AloneInv, ValidInv
  <2> QED
    BY <1>2, <1>6, <2>1, <2>2, QuietStep
<1>7. CASE /\ i.key # None /\ through > 1
           /\ Becomes(r, Entry(fresh, 1, "resolve"), TRUE) /\ RememberChain(i)
  <2>1. PICK x \in RunStates : /\ Becomes(r, x, TRUE) /\ x.stage = "resolve" /\ x.steps = 1
                               /\ x.identity = i /\ x.engine = None /\ ~x.valid
    <3> DEFINE y == Entry(fresh, 1, "resolve")
    <3>1. "resolve" \in Stages
      BY DEF Stages
    <3>2. /\ y \in RunStates /\ y.stage = "resolve" /\ y.steps = 1 /\ y.identity = i
          /\ y.engine = None /\ ~y.valid
      BY <1>3, <1>4, <1>7, <3>1, EntryRecord
    <3> QED
      BY <1>7, <3>2
  <2>2. /\ provided' = [provided EXCEPT ![i.did] = i.chain] /\ UNCHANGED <<hook, selected, module>>
        /\ provided \in [Dids -> Chains \cup {None}] /\ call \in [Runs -> Resolver!CallStates]
        /\ call' = [c \in Runs |-> IF call[c].stage = "hook" /\ call[c].did = i.did
                                   THEN [call[c] EXCEPT !.asked = @ \cup {i.chain}] ELSE call[c]]
    BY <1>7 DEF RememberChain, Resolver!Provide, SessionInv, TypeOK, Resolver!TypeOK
  <2>3. i.did \in Dids /\ Posted(i.did, i.chain)
    BY DEF Dids, Posted
  <2>4. KeepsBindings /\ closed' \in BOOLEAN
    BY <1>2 DEF SessionInv, TypeOK, KeepsBindings
  <2>5. \A q \in Runs : SameCall(q)
    BY <2>2 DEF SameCall, Resolver!CallStates
  <2>6. ChainsPosted'
    BY <2>2, <2>3, <2>5 DEF SessionInv, ChainsPosted, SameCall, Posted
  <2>7. \A did \in Dids : KeepsDid(did) \/ did = x.identity.did
    BY <1>2, <2>1, <2>2 DEF KeepsDid
  <2>8. RunInv(x, call[r])' /\ AloneInv(x, call[r])' /\ ValidInv(x, call[r])'
    BY <1>2, <1>4, <1>7, <2>1, <2>2, <2>3, <2>5 DEF RunInv, AloneInv, ValidInv, SameCall
  <2> QED
    BY <2>1, <2>4, <2>5, <2>6, <2>7, <2>8, RunMoves
<1> QED
  BY <1>1, <1>5, <1>6, <1>7 DEF fresh

\* What a question does to the resolver's call.
LEMMA ResolveEffect ==
  ASSUME SessionInv, NEW r \in Runs, NEW did \in Dids, NEW option \in Chains \cup {None},
         Resolver!Resolve(r, did, option)
  PROVE  /\ call'[r].stage = IF option # None THEN "select" ELSE "hook"
         /\ call'[r].did = did /\ call'[r].chain = option
         /\ UNCHANGED <<mode, hook, provided, addon, promise, selected, module, now>>
         /\ \A q \in Runs \ {r} : SameCall(q)
<1> DEFINE asked == {IF option # None THEN option ELSE provided[did]}
           fresh == [Resolver!NoCall EXCEPT !.did = did, !.chain = option, !.asked = asked]
<1>1. hook /\ call \in [Runs -> Resolver!CallStates]
  BY DEF SessionInv, ChainsPosted, TypeOK, Resolver!TypeOK
<1>2. fresh \in Resolver!CallStates /\ fresh.did = did /\ fresh.chain = option
  <2>1. asked \subseteq Chains \cup {None}
    BY DEF SessionInv, TypeOK, Resolver!TypeOK
  <2>2. Resolver!NoCall \in Resolver!CallStates
    BY WindowsAreKnown DEF Resolver!NoCall, Resolver!CallStates, Resolver!Outcomes
  <2> QED
    BY <2>1, <2>2 DEF Resolver!CallStates
<1>3. \/ option # None /\ call' = [call EXCEPT ![r] = [fresh EXCEPT !.stage = "select"]]
      \/ option = None /\ call' = [call EXCEPT ![r] = [fresh EXCEPT !.stage = "hook"]]
  BY <1>1 DEF Resolver!Resolve
<1>4. UNCHANGED <<mode, hook, provided, addon, promise, selected, module, now>>
  BY DEF Resolver!Resolve
<1> HIDE DEF fresh
<1>5. \A q \in Runs \ {r} : SameCall(q)
  BY <1>1, <1>3 DEF SameCall
<1>6. \/ option # None /\ call'[r] = [fresh EXCEPT !.stage = "select"]
      \/ option = None /\ call'[r] = [fresh EXCEPT !.stage = "hook"]
  BY <1>1, <1>3
<1> QED
  BY <1>2, <1>4, <1>5, <1>6 DEF Resolver!CallStates

LEMMA AskKeeps ==
  ASSUME SessionInv, [Next]_vars, NEW r \in Runs, AskResolver(r)
  PROVE  SessionInv'
<1>1. /\ run[r] \in RunStates /\ run[r].stage \in {"resolve", "verify"} /\ Did(r) \in Dids
      /\ run[r].identity \in Identities /\ UNCHANGED <<record, closed>>
      /\ RunInv(run[r], call[r]) /\ AloneInv(run[r], call[r]) /\ ValidInv(run[r], call[r])
  BY RunFields DEF AskResolver, SessionInv
<1>2. run[r].identity.chain \in Chains /\ run[r].identity.chain # None
  BY <1>1, NoneIsNoValue DEF Chains
<1>3. PICK option \in Chains \cup {None}, x \in RunStates :
        /\ Resolver!Resolve(r, Did(r), option)
        /\ Becomes(r, x, FALSE)
        /\ \/ run[r].stage = "resolve" /\ option = run[r].identity.chain /\ x.stage = "resolving"
           \/ run[r].stage = "verify" /\ option = None /\ x.stage = "verifying"
        /\ x.identity = run[r].identity /\ x.steps = run[r].steps /\ x.doc = run[r].doc
        /\ x.engine = run[r].engine /\ x.matches = run[r].matches /\ x.signer = run[r].signer
        /\ x.valid = run[r].valid /\ x.alone = run[r].alone
  <2>1. CASE /\ run[r].stage = "resolve" /\ Resolver!Resolve(r, Did(r), run[r].identity.chain)
             /\ Becomes(r, [run[r] EXCEPT !.stage = "resolving"], FALSE)
    <3> DEFINE y == [run[r] EXCEPT !.stage = "resolving"]
    <3>1. /\ y \in RunStates /\ y.stage = "resolving"
          /\ y.identity = run[r].identity /\ y.steps = run[r].steps /\ y.doc = run[r].doc
          /\ y.engine = run[r].engine /\ y.matches = run[r].matches /\ y.signer = run[r].signer
          /\ y.valid = run[r].valid /\ y.alone = run[r].alone
      BY <1>1 DEF RunStates, Stages
    <3> QED
      BY <1>2, <2>1, <3>1
  <2>2. CASE /\ run[r].stage = "verify" /\ Resolver!Resolve(r, Did(r), None)
             /\ Becomes(r, [run[r] EXCEPT !.stage = "verifying"], FALSE)
    <3> DEFINE y == [run[r] EXCEPT !.stage = "verifying"]
    <3>1. /\ y \in RunStates /\ y.stage = "verifying"
          /\ y.identity = run[r].identity /\ y.steps = run[r].steps /\ y.doc = run[r].doc
          /\ y.engine = run[r].engine /\ y.matches = run[r].matches /\ y.signer = run[r].signer
          /\ y.valid = run[r].valid /\ y.alone = run[r].alone
      BY <1>1 DEF RunStates, Stages
    <3> QED
      BY <2>2, <3>1
  <2> QED
    BY <2>1, <2>2 DEF AskResolver
<1>4. /\ call'[r].stage = IF option # None THEN "select" ELSE "hook"
      /\ call'[r].did = Did(r) /\ call'[r].chain = option
      /\ UNCHANGED <<mode, hook, provided, addon, promise, selected, module, now>>
      /\ \A q \in Runs \ {r} : SameCall(q)
  BY <1>1, <1>3, ResolveEffect
<1>5. KeepsBindings /\ closed' \in BOOLEAN /\ \A did \in Dids : KeepsDid(did)
  BY <1>1, <1>4 DEF SessionInv, TypeOK, KeepsBindings, KeepsDid
<1>6. ChainsPosted'
  <2>1. option # None => Posted(Did(r), option)
    BY <1>1, <1>3 DEF Posted, Did
  <2> QED
    BY <1>4, <2>1 DEF SessionInv, ChainsPosted, SameCall, Posted
<1>8. RunInv(x, call[r])' /\ AloneInv(x, call[r])' /\ ValidInv(x, call[r])'
  BY <1>1, <1>2, <1>3, <1>4, NoneIsNoValue DEF RunInv, AloneInv, ValidInv, Did
<1> QED
  BY <1>3, <1>4, <1>5, <1>6, <1>8, RunMoves

\* A run that takes no step itself, while its call does.
LEMMA CallMoves ==
  ASSUME SessionInv, [Next]_vars, NEW r \in Runs, UNCHANGED <<run, record, closed, hook, provided>>,
         \A q \in Runs \ {r} : SameCall(q), call'[r].did = call[r].did, call[r].stage # "free",
         call'[r].chain # None => Posted(call[r].did, call'[r].chain), call'[r].stage # "hook",
         run[r].stage = "resolving" => call'[r].chain = call[r].chain,
         run[r].stage = "verifying" /\ run[r].alone =>
           /\ call'[r].chain = run[r].identity.chain
           /\ call'[r].stage = "free" => call'[r].outcome \in {"resolved", "notFound"}
  PROVE  SessionInv'
<1>1. Facts!Grows
  BY InsideResolver DEF SessionInv
<1>2. KeepsBindings /\ closed' \in BOOLEAN /\ run' \in [Runs -> RunStates]
  BY DEF SessionInv, TypeOK, KeepsBindings
<1>3. ChainsPosted'
  BY DEF SessionInv, ChainsPosted, SameCall, Posted
<1>4. ASSUME NEW q \in Runs
      PROVE  RunInv(run[q], call[q])' /\ AloneInv(run[q], call[q])' /\ ValidInv(run[q], call[q])'
  <2>1. PICK x \in RunStates : x = run[q]
    BY RunFields DEF SessionInv
  <2>2. RunInv(x, call[q]) /\ AloneInv(x, call[q]) /\ ValidInv(x, call[q]) /\ KeepsDid(Did(q))
    BY <2>1 DEF SessionInv, KeepsDid
  <2>3. RunInv(x, call[q])' /\ AloneInv(x, call[q])' /\ ValidInv(x, call[q])'
    <3>1. CASE q # r
      BY <1>1, <1>2, <2>1, <2>2, <3>1, OtherKeeps
    <3>2. CASE q = r
      <4>1. selected # None => selected' # None
        BY <1>1 DEF Facts!Grows
      <4>2. x.engine # None => x.engine = selected'
        BY <1>1, <2>2 DEF RunInv, Facts!Grows
      <4> QED
        BY <2>1, <2>2, <3>2, <4>1, <4>2 DEF RunInv, AloneInv, ValidInv
    <3> QED
      BY <3>1, <3>2
  <2> QED
    BY <2>1, <2>3 DEF RunInv, AloneInv, ValidInv, Accepted, Refused
<1> QED
  BY <1>2, <1>3, <1>4, AllKeep

\* The resolver's own steps.  A run that is alone finds its chain in the map and
\* an engine that answers.
LEMMA WorksKeeps ==
  ASSUME SessionInv, [Next]_vars, NEW r \in Runs, ResolverWorks(r)
  PROVE  SessionInv'
<1> DEFINE k == call[r]
           i == run[r].identity
<1>1. /\ UNCHANGED <<run, record, closed, hook, provided>> /\ mode = "auto"
      /\ call \in [Runs -> Resolver!CallStates] /\ k \in Resolver!CallStates
      /\ RunInv(run[r], k) /\ AloneInv(run[r], k) /\ Facts!CallInv(k) /\ Facts!LoadInv
      /\ k.chain # None => Posted(k.did, k.chain)
      /\ run[r].stage = "verifying" => i \in Identities /\ i.did \in Dids /\ i.chain # None
  <2>1. /\ UNCHANGED <<run, record, closed, hook, provided>>
    BY DEF ResolverWorks, Resolver!HookAnswers, Resolver!Select, Resolver!Proceed, Resolver!Answer
  <2>2. mode = "auto" /\ call \in [Runs -> Resolver!CallStates]
    BY DEF SessionInv, TypeOK, Resolver!TypeOK
  <2>3. /\ RunInv(run[r], k) /\ AloneInv(run[r], k) /\ Facts!CallInv(k) /\ Facts!LoadInv
        /\ k.chain # None => Posted(k.did, k.chain)
    BY DEF SessionInv, ChainsPosted, Facts!ResolverInv
  <2>4. run[r].stage = "verifying" => i \in Identities /\ i.did \in Dids /\ i.chain # None
    BY RunFields, NoneIsNoValue DEF SessionInv, Did, Chains
  <2> QED
    BY <2>1, <2>2, <2>3, <2>4
<1>2. CASE Resolver!HookAnswers(r) /\ provided[k.did] = None
  <2>1. call' = [call EXCEPT ![r] = [k EXCEPT !.stage = "free", !.outcome = "invalidDidResolutionOptions"]]
        /\ k.stage = "hook"
    BY <1>2 DEF Resolver!HookAnswers, Resolver!HookChain, Resolver!Settle
  <2>2. /\ call'[r].stage = "free" /\ call'[r].did = k.did /\ call'[r].chain = k.chain
        /\ \A q \in Runs \ {r} : SameCall(q)
    BY <1>1, <2>1 DEF SameCall, Resolver!CallStates
  <2>3. ~(run[r].stage = "resolving") /\ ~(run[r].stage = "verifying" /\ run[r].alone)
    BY <1>1, <1>2, <2>1 DEF RunInv, AloneInv
  <2> QED
    BY <1>1, <2>1, <2>2, <2>3, CallMoves
<1>3. CASE Resolver!HookAnswers(r) /\ provided[k.did] # None
  <2>1. call' = [call EXCEPT ![r] = [k EXCEPT !.stage = "select", !.chain = provided[k.did]]]
        /\ k.stage = "hook"
    BY <1>3 DEF Resolver!HookAnswers, Resolver!HookChain, Resolver!Settle
  <2>2. /\ call'[r].stage = "select" /\ call'[r].did = k.did /\ call'[r].chain = provided[k.did]
        /\ \A q \in Runs \ {r} : SameCall(q)
    BY <1>1, <2>1 DEF SameCall, Resolver!CallStates
  <2>3. k.did \in Dids
    BY <1>1, <2>1 DEF Facts!CallInv
  <2>4. Posted(k.did, provided[k.did])
    BY <1>3, <2>3 DEF SessionInv, ChainsPosted
  <2>5. run[r].stage # "resolving"
    BY <1>1, <2>1 DEF RunInv
  <2>6. run[r].stage = "verifying" /\ run[r].alone => provided[k.did] = i.chain
    BY <1>1 DEF RunInv, AloneInv
  <2> QED
    BY <1>1, <2>1, <2>2, <2>4, <2>5, <2>6, CallMoves
<1>4. CASE Resolver!Select(r)
  <2>1. /\ k.stage = "select"
        /\ \/ call' = [call EXCEPT ![r] = [k EXCEPT !.stage = "engine", !.engine = "core", !.from = now]]
           \/ call' = [call EXCEPT ![r] = [k EXCEPT !.stage = "wait"]]
    BY <1>4 DEF Resolver!Select, Resolver!Asked
  <2>2. /\ call'[r].stage \in {"engine", "wait"} /\ call'[r].did = k.did /\ call'[r].chain = k.chain
        /\ \A q \in Runs \ {r} : SameCall(q)
    <3>1. \A q \in Runs \ {r} : SameCall(q)
      BY <1>1, <2>1 DEF SameCall
    <3>2. \/ call'[r] = [k EXCEPT !.stage = "engine", !.engine = "core", !.from = now]
          \/ call'[r] = [k EXCEPT !.stage = "wait"]
      BY <1>1, <2>1
    <3> QED
      BY <1>1, <3>1, <3>2 DEF Resolver!CallStates
  <2>3. run[r].stage = "verifying" /\ run[r].alone => k.chain = i.chain
    BY <1>1, <2>1 DEF AloneInv
  <2> QED
    BY <1>1, <2>1, <2>2, <2>3, CallMoves
<1>5. CASE Resolver!Proceed(r)
  <2>1. /\ k.stage = "wait"
        /\ \/ call' = [call EXCEPT ![r] = [k EXCEPT !.stage = "engine", !.engine = promise, !.from = now]]
           \/ /\ promise = "rejected"
              /\ call' = [call EXCEPT ![r] = [k EXCEPT !.stage = "free", !.outcome = "rejected"]]
    BY <1>5 DEF Resolver!Proceed, Resolver!Settle, Resolver!Asked
  <2>2. /\ call'[r].stage \in {"engine", "free"} /\ call'[r].did = k.did /\ call'[r].chain = k.chain
        /\ call'[r].stage = "free" => promise = "rejected"
        /\ \A q \in Runs \ {r} : SameCall(q)
    <3>1. \A q \in Runs \ {r} : SameCall(q)
      BY <1>1, <2>1 DEF SameCall
    <3>2. \/ call'[r] = [k EXCEPT !.stage = "engine", !.engine = promise, !.from = now]
          \/ promise = "rejected" /\ call'[r] = [k EXCEPT !.stage = "free", !.outcome = "rejected"]
      BY <1>1, <2>1
    <3> QED
      BY <1>1, <3>1, <3>2 DEF Resolver!CallStates
  <2>3. run[r].stage = "verifying" /\ run[r].alone => k.chain = i.chain /\ promise # "rejected"
    BY <1>1, <2>1 DEF RunInv, AloneInv, Facts!LoadInv, Facts!Engines
  <2> QED
    BY <1>1, <2>1, <2>2, <2>3, CallMoves
<1>6. CASE Resolver!Answer(r)
  <2>1. PICK outcome \in {"resolved", "notFound"} :
          call' = [call EXCEPT ![r] = [k EXCEPT !.stage = "free", !.to = now, !.outcome = outcome]]
    BY <1>6 DEF Resolver!Answer
  <2>2. k.stage = "engine"
    BY <1>6 DEF Resolver!Answer
  <2>3. /\ call'[r].stage = "free" /\ call'[r].did = k.did /\ call'[r].chain = k.chain
        /\ call'[r].outcome = outcome
        /\ \A q \in Runs \ {r} : SameCall(q)
    BY <1>1, <2>1 DEF SameCall, Resolver!CallStates
  <2>4. run[r].stage = "verifying" /\ run[r].alone => k.chain = i.chain
    BY <1>1, <2>2 DEF AloneInv
  <2> QED
    BY <1>1, <2>2, <2>3, <2>4, CallMoves
<1> QED
  BY <1>2, <1>3, <1>4, <1>5, <1>6 DEF ResolverWorks

\* The addon is loaded, time passes or the Agent is shut down: no run and no call moves.
LEMMA BackgroundKeeps ==
  ASSUME SessionInv, [Next]_vars, ResolverLoads \/ TimePasses \/ Shutdown \/ UNCHANGED vars
  PROVE  SessionInv'
<1>1. UNCHANGED <<run, record, call, provided, hook>> /\ closed' \in BOOLEAN
  BY DEF ResolverLoads, TimePasses, Resolver!Tick, Shutdown, vars, resolverVars, Resolver!Load, SessionInv, TypeOK
<1>2. Facts!Grows
  BY InsideResolver DEF SessionInv
<1>3. KeepsBindings /\ run' \in [Runs -> RunStates] /\ ChainsPosted'
  BY <1>1 DEF SessionInv, TypeOK, KeepsBindings, ChainsPosted
<1>4. ASSUME NEW q \in Runs
      PROVE  RunInv(run[q], call[q])' /\ AloneInv(run[q], call[q])' /\ ValidInv(run[q], call[q])'
  <2>1. PICK x \in RunStates : x = run[q]
    BY RunFields DEF SessionInv
  <2>2. SameCall(q) /\ KeepsDid(Did(q))
    BY <1>1 DEF SameCall, KeepsDid
  <2>3. RunInv(x, call[q])' /\ AloneInv(x, call[q])' /\ ValidInv(x, call[q])'
    BY <1>2, <1>3, <2>1, <2>2, OtherKeeps
  <2> QED
    BY <1>1, <2>1, <2>3 DEF RunInv, AloneInv, ValidInv, Accepted, Refused
<1> QED
  BY <1>1, <1>3, <1>4, AllKeep

\* Step 2: what the resolver's verdict leaves to the rest of the run.
LEMMA ResolvedKeeps ==
  ASSUME SessionInv, [Next]_vars, NEW r \in Runs, Resolved(r)
  PROVE  SessionInv'
<1> DEFINE i == run[r].identity
           z == [run[r] EXCEPT !.doc = LeafKey[call[r].chain], !.engine = ReportedEngine]
<1>1. /\ run[r] \in RunStates /\ run[r].stage = "resolving" /\ i \in Identities /\ i.key # None
      /\ RunInv(run[r], call[r]) /\ AloneInv(run[r], call[r]) /\ Facts!CallInv(call[r])
      /\ selected \in {"native", "core", None} /\ call[r].stage = "free"
      /\ UNCHANGED <<resolverVars, record, closed>>
  BY RunFields, SameType DEF Resolved, HasSettled, SessionInv, RunInv, Facts!ResolverInv, Facts!TypeOK, Facts!Engines
<1>2. CASE call[r].outcome # "resolved" /\ Becomes(r, Thrown, FALSE)
  BY <1>1, <1>2, ThrownKeeps
<1>3. CASE call[r].outcome = "resolved" /\ Becomes(r, Entry(z, 2, "import"), FALSE)
  <2>1. /\ call[r].did = i.did /\ call[r].chain = i.chain /\ call[r].engine = selected /\ selected # None
    BY <1>1, <1>3 DEF RunInv, Facts!CallInv
  <2>3. LeafKey[i.chain] \in Keys /\ LeafKey[i.chain] # None
    BY <1>1, NoneIsNoValue DEF Keys, Chains
  <2>4. /\ z \in RunStates /\ z.stage = "resolving" /\ z.identity = i /\ z.doc = LeafKey[i.chain]
        /\ z.engine = selected /\ ~z.valid /\ z.alone = run[r].alone
    BY <1>1, <2>1, <2>3 DEF RunStates, ReportedEngine, RunInv
  <2> HIDE DEF z
  <2>5. 2 \in 0..LastStep /\ 2 # LastStep /\ "import" \in Stages
    BY DEF LastStep, Stages
  <2>6. PICK x \in RunStates :
          /\ Becomes(r, x, FALSE) /\ x.stage \in {"free", "import"} /\ x.steps = 2 /\ x.identity = i
          /\ x.doc = LeafKey[i.chain] /\ x.engine = selected /\ ~x.valid /\ x.alone = run[r].alone
    <3> DEFINE y == Entry(z, 2, "import")
    <3>1. /\ y \in RunStates /\ y.stage \in {"free", "import"} /\ y.steps = 2 /\ y.identity = i
          /\ y.doc = LeafKey[i.chain] /\ y.engine = selected /\ ~y.valid /\ y.alone = run[r].alone
      BY <2>4, <2>5, EntryRecord
    <3> QED
      BY <1>3, <3>1
  <2>7. RunInv(x, call[r])
    BY <1>1, <2>1, <2>3, <2>5, <2>6 DEF RunInv
  <2>8. AloneInv(x, call[r]) /\ ValidInv(x, call[r])
    BY <1>1, <2>5, <2>6 DEF AloneInv, ValidInv
  <2> QED
    BY <1>1, <2>6, <2>7, <2>8, QuietStep
<1> QED
  BY <1>2, <1>3 DEF Resolved

\* Step 3.
LEMMA ImportKeeps ==
  ASSUME SessionInv, [Next]_vars, NEW r \in Runs, ImportKey(r)
  PROVE  SessionInv'
<1> DEFINE i == run[r].identity
           z == [run[r] EXCEPT !.matches = (i.key = LeafKey[i.chain])]
<1>1. /\ run[r] \in RunStates /\ run[r].stage = "import" /\ i \in Identities /\ i.key # None
      /\ RunInv(run[r], call[r]) /\ AloneInv(run[r], call[r])
      /\ Becomes(r, Entry(z, 3, "bind"), FALSE)
      /\ UNCHANGED <<resolverVars, record, closed>>
  BY RunFields DEF ImportKey, SessionInv, RunInv
<1>2. /\ z \in RunStates /\ z.identity = i /\ z.doc = run[r].doc /\ (z.matches <=> i.key = LeafKey[i.chain])
      /\ z.engine = run[r].engine /\ ~z.valid /\ z.alone = run[r].alone
  BY <1>1 DEF RunStates, RunInv
<1> HIDE DEF z
<1>3. 3 \in 0..LastStep /\ 3 # LastStep /\ "bind" \in Stages
  BY DEF LastStep, Stages
<1>4. PICK x \in RunStates :
        /\ Becomes(r, x, FALSE) /\ x.stage \in {"free", "bind"} /\ x.steps = 3 /\ x.identity = i
        /\ x.doc = run[r].doc /\ (x.matches <=> i.key = LeafKey[i.chain])
        /\ x.engine = run[r].engine /\ ~x.valid /\ x.alone = run[r].alone
  <2> DEFINE y == Entry(z, 3, "bind")
  <2>1. /\ y \in RunStates /\ y.stage \in {"free", "bind"} /\ y.steps = 3 /\ y.identity = i
        /\ y.doc = run[r].doc /\ (y.matches <=> i.key = LeafKey[i.chain])
        /\ y.engine = run[r].engine /\ ~y.valid /\ y.alone = run[r].alone
    BY <1>2, <1>3, EntryRecord
  <2> QED
    BY <1>1, <2>1
<1>5. RunInv(x, call[r]) /\ AloneInv(x, call[r]) /\ ValidInv(x, call[r])
  BY <1>1, <1>3, <1>4 DEF RunInv, AloneInv, ValidInv
<1> QED
  BY <1>1, <1>4, <1>5, QuietStep

\* Step 4: the run's own binding, and nobody's else but those it tells.
LEMMA BindKeeps ==
  ASSUME SessionInv, [Next]_vars, NEW r \in Runs, BindDid(r)
  PROVE  SessionInv'
<1> DEFINE i == run[r].identity
           binding == [doc |-> run[r].doc, key |-> i.key]
<1>1. /\ run[r] \in RunStates /\ run[r].stage = "bind" /\ i \in Identities /\ i.key # None
      /\ Did(r) = i.did /\ i.did \in Dids /\ run[r].doc # None
      /\ RunInv(run[r], call[r]) /\ AloneInv(run[r], call[r])
      /\ record' = [record EXCEPT ![i.did] = binding] /\ record \in [Dids -> Bindings \cup {None}]
      /\ Becomes(r, Entry(run[r], 4, "wallet"), TRUE)
      /\ UNCHANGED <<resolverVars, closed>> /\ closed \in BOOLEAN
  BY RunFields DEF BindDid, SessionInv, RunInv, Did, TypeOK, Overwrite
<1>2. binding \in Bindings /\ binding # None /\ binding.key = i.key
  <2>1. run[r].doc \in Keys /\ i.key \in Keys
    BY <1>1 DEF RunStates, Keys
  <2> QED
    BY <2>1, NoneIsNoValue DEF Bindings
<1> HIDE DEF binding
<1>3. 4 \in 0..LastStep /\ 4 # LastStep /\ "wallet" \in Stages
  BY DEF LastStep, Stages
<1>4. PICK x \in RunStates :
        /\ Becomes(r, x, TRUE) /\ x.stage \in {"free", "wallet"} /\ x.steps = 4 /\ x.identity = i
        /\ x.doc = run[r].doc /\ x.matches = run[r].matches
        /\ x.engine = run[r].engine /\ x.valid = run[r].valid /\ x.alone = run[r].alone
  <2> DEFINE y == Entry(run[r], 4, "wallet")
  <2>1. /\ y \in RunStates /\ y.stage \in {"free", "wallet"} /\ y.steps = 4 /\ y.identity = i
        /\ y.doc = run[r].doc /\ y.matches = run[r].matches
        /\ y.engine = run[r].engine /\ y.valid = run[r].valid /\ y.alone = run[r].alone
    BY <1>1, <1>3, EntryRecord
  <2> QED
    BY <1>1, <2>1
<1>5. KeepsBindings
  BY <1>1, <1>2 DEF KeepsBindings
<1>6. ChainsPosted' /\ \A q \in Runs : SameCall(q)
  BY <1>1 DEF SessionInv, ChainsPosted, SameCall, resolverVars
<1>7. \A did \in Dids : KeepsDid(did) \/ did = x.identity.did
  BY <1>1, <1>4 DEF KeepsDid, resolverVars
<1>8. RunInv(x, call[r])'
  <2>1. selected' # None /\ UNCHANGED call
    BY <1>1 DEF RunInv, resolverVars
  <2>2. record'[i.did] = binding
    BY <1>1
  <2> QED
    BY <1>1, <1>2, <1>3, <1>4, <2>1, <2>2 DEF RunInv, resolverVars
<1>9. AloneInv(x, call[r])' /\ ValidInv(x, call[r])'
  BY <1>1, <1>2, <1>3, <1>4 DEF AloneInv, RunInv, ValidInv, resolverVars
<1> QED
  BY <1>1, <1>4, <1>5, <1>6, <1>7, <1>8, <1>9, RunMoves

\* Step 5.
LEMMA ReadKeeps ==
  ASSUME SessionInv, [Next]_vars, NEW r \in Runs, ReadWallet(r)
  PROVE  SessionInv'
<1>1. /\ run[r] \in RunStates /\ run[r].stage = "wallet" /\ run[r].identity \in Identities
      /\ RunInv(run[r], call[r]) /\ AloneInv(run[r], call[r])
      /\ Becomes(r, Entry(run[r], 5, "sign"), FALSE)
      /\ UNCHANGED <<resolverVars, record, closed>>
  BY RunFields DEF ReadWallet, SessionInv
<1>2. 5 \in 0..LastStep /\ 5 # LastStep /\ "sign" \in Stages
  BY DEF LastStep, Stages
<1>3. PICK x \in RunStates :
        /\ Becomes(r, x, FALSE) /\ x.stage \in {"free", "sign"} /\ x.steps = 5
        /\ x.identity = run[r].identity /\ x.doc = run[r].doc /\ x.matches = run[r].matches
        /\ x.engine = run[r].engine /\ x.valid = run[r].valid /\ x.alone = run[r].alone
  <2> DEFINE y == Entry(run[r], 5, "sign")
  <2>1. /\ y \in RunStates /\ y.stage \in {"free", "sign"} /\ y.steps = 5
        /\ y.identity = run[r].identity /\ y.doc = run[r].doc /\ y.matches = run[r].matches
        /\ y.engine = run[r].engine /\ y.valid = run[r].valid /\ y.alone = run[r].alone
    BY <1>1, <1>2, EntryRecord
  <2> QED
    BY <1>1, <2>1
<1>4. RunInv(x, call[r]) /\ AloneInv(x, call[r]) /\ ValidInv(x, call[r])
  BY <1>1, <1>2, <1>3 DEF RunInv, AloneInv, ValidInv
<1> QED
  BY <1>1, <1>3, <1>4, QuietStep

\* Step 6: alone, the key found in the wallet is the run's own.
LEMMA SignKeeps ==
  ASSUME SessionInv, [Next]_vars, NEW r \in Runs, Sign(r)
  PROVE  SessionInv'
<1> DEFINE i == run[r].identity
           z == [run[r] EXCEPT !.signer = record[Did(r)].key]
<1>1. /\ run[r] \in RunStates /\ run[r].stage = "sign" /\ i \in Identities
      /\ Did(r) = i.did /\ record[i.did] \in Bindings
      /\ RunInv(run[r], call[r]) /\ AloneInv(run[r], call[r])
      /\ Becomes(r, Entry(z, 6, "verify"), FALSE)
      /\ UNCHANGED <<resolverVars, record, closed>>
  BY RunFields DEF Sign, SessionInv, RunInv, Did, TypeOK
<1>2. /\ z \in RunStates /\ z.identity = i /\ z.matches = run[r].matches
      /\ z.signer = record[i.did].key /\ z.engine = run[r].engine /\ z.valid = run[r].valid
      /\ z.alone = run[r].alone
  BY <1>1 DEF RunStates, Bindings
<1> HIDE DEF z
<1>3. 6 \in 0..LastStep /\ 6 # LastStep /\ "verify" \in Stages
  BY DEF LastStep, Stages
<1>4. PICK x \in RunStates :
        /\ Becomes(r, x, FALSE) /\ x.stage \in {"free", "verify"} /\ x.steps = 6 /\ x.identity = i
        /\ x.matches = run[r].matches /\ x.signer = record[i.did].key
        /\ x.engine = run[r].engine /\ x.valid = run[r].valid /\ x.alone = run[r].alone
  <2> DEFINE y == Entry(z, 6, "verify")
  <2>1. /\ y \in RunStates /\ y.stage \in {"free", "verify"} /\ y.steps = 6 /\ y.identity = i
        /\ y.matches = run[r].matches /\ y.signer = record[i.did].key
        /\ y.engine = run[r].engine /\ y.valid = run[r].valid /\ y.alone = run[r].alone
    BY <1>2, <1>3, EntryRecord
  <2> QED
    BY <1>1, <2>1
<1>5. RunInv(x, call[r]) /\ AloneInv(x, call[r]) /\ ValidInv(x, call[r])
  BY <1>1, <1>3, <1>4 DEF RunInv, AloneInv, ValidInv
<1> QED
  BY <1>1, <1>4, <1>5, QuietStep

\* Step 7: the verdict is about the chain the resolver was given.
LEMMA VerifiedKeeps ==
  ASSUME SessionInv, [Next]_vars, NEW r \in Runs, Verified(r)
  PROVE  SessionInv'
<1> DEFINE i == run[r].identity
           z == [run[r] EXCEPT !.valid = Verifies(r)]
<1>1. /\ run[r] \in RunStates /\ run[r].stage = "verifying" /\ i \in Identities
      /\ call[r].stage = "free" /\ call[r].did = i.did
      /\ RunInv(run[r], call[r]) /\ AloneInv(run[r], call[r]) /\ Facts!CallInv(call[r])
      /\ call[r].chain # None => Posted(call[r].did, call[r].chain)
      /\ Becomes(r, Entry(z, 7, "free"), FALSE)
      /\ UNCHANGED <<resolverVars, record, closed>>
  BY RunFields DEF Verified, HasSettled, SessionInv, RunInv, Facts!ResolverInv, ChainsPosted
<1>2. /\ z \in RunStates /\ z.identity = i /\ z.matches = run[r].matches
      /\ z.signer = run[r].signer /\ z.engine = run[r].engine /\ z.valid = Verifies(r)
      /\ z.alone = run[r].alone
  BY <1>1 DEF RunStates, Verifies
<1> HIDE DEF z
<1>3. 7 \in 0..LastStep /\ "free" \in Stages
  BY DEF LastStep, Stages
<1>4. PICK x \in RunStates :
        /\ Becomes(r, x, FALSE) /\ x.stage = "free" /\ x.identity = i
        /\ x.matches = run[r].matches /\ x.signer = run[r].signer
        /\ x.engine = run[r].engine /\ x.valid = Verifies(r) /\ x.alone = run[r].alone
  <2> DEFINE y == Entry(z, 7, "free")
  <2>1. /\ y \in RunStates /\ y.stage = "free" /\ y.identity = i
        /\ y.matches = run[r].matches /\ y.signer = run[r].signer
        /\ y.engine = run[r].engine /\ y.valid = Verifies(r) /\ y.alone = run[r].alone
    BY <1>2, <1>3, EntryRecord
  <2> QED
    BY <1>1, <2>1
<1>5. RunInv(x, call[r])
  BY <1>1, <1>4 DEF RunInv
<1>6. \A did, chain :
        /\ Facts!MayAccept(call[r].engine, did, chain, call[r].from, call[r].to)
             => Resolver!MayAccept(call[r].engine, did, chain, call[r].from, call[r].to)
        /\ Facts!MayRefuse(call[r].engine, did, chain, call[r].from, call[r].to)
             => Resolver!MayRefuse(call[r].engine, did, chain, call[r].from, call[r].to)
  BY DEF Facts!MayAccept, Resolver!MayAccept, Facts!MayRefuse, Resolver!MayRefuse,
         Facts!Windows, Resolver!Windows
<1>7. AloneInv(x, call[r])
  <2>1. x.alone => /\ x.signer = i.key /\ call[r].chain = i.chain
                   /\ call[r].outcome \in {"resolved", "notFound"}
    BY <1>1, <1>4 DEF AloneInv
  <2>2. x.matches <=> i.key = LeafKey[i.chain]
    BY <1>1, <1>4 DEF RunInv
  <2>3. x.alone /\ x.valid => Accepted(i, call[r])
    BY <1>1, <1>4, <1>6, <2>1 DEF Facts!CallInv, Verifies, Accepted
  <2>4. x.alone /\ x.matches /\ ~x.valid => Refused(i, call[r])
    BY <1>1, <1>4, <1>6, <2>1, <2>2 DEF Facts!CallInv, Verifies, Refused
  <2>5. x.alone /\ x.valid => x.matches
    BY <1>4, <2>1, <2>2 DEF Verifies
  <2> QED
    BY <1>4, <2>1, <2>3, <2>4, <2>5 DEF AloneInv
<1>8. ValidInv(x, call[r])
  <2> SUFFICES ASSUME x.valid
               PROVE  \E j \in Identities : /\ j.did = i.did /\ LeafKey[j.chain] = x.signer
                                            /\ Accepted(j, call[r])
    BY <1>4 DEF ValidInv
  <2>1. call[r].outcome = "resolved" /\ x.signer = LeafKey[call[r].chain]
    BY <1>4 DEF Verifies
  <2>2. /\ call[r].chain # None
        /\ Resolver!MayAccept(call[r].engine, i.did, call[r].chain, call[r].from, call[r].to)
    BY <1>1, <1>6, <2>1 DEF Facts!CallInv
  <2>3. PICK j \in Identities : j.did = i.did /\ j.chain = call[r].chain
    BY <1>1, <2>2 DEF Posted
  <2> QED
    BY <2>1, <2>2, <2>3 DEF Accepted
<1> QED
  BY <1>1, <1>4, <1>5, <1>7, <1>8, QuietStep

LEMMA SessionStep == SessionInv /\ [Next]_vars => SessionInv'
<1> SUFFICES ASSUME SessionInv, [Next]_vars PROVE SessionInv'
  OBVIOUS
<1>1. ASSUME NEW r \in Runs, Start(r) PROVE SessionInv'
  BY <1>1, StartKeeps
<1>2. ASSUME NEW r \in Runs, AskResolver(r) \/ ResolverWorks(r) \/ Resolved(r) PROVE SessionInv'
  BY <1>2, AskKeeps, WorksKeeps, ResolvedKeeps
<1>3. ASSUME NEW r \in Runs, ImportKey(r) \/ BindDid(r) \/ ReadWallet(r) PROVE SessionInv'
  BY <1>3, ImportKeeps, BindKeeps, ReadKeeps
<1>4. ASSUME NEW r \in Runs, Sign(r) \/ Verified(r) PROVE SessionInv'
  BY <1>4, SignKeeps, VerifiedKeeps
<1>5. ASSUME NEW r \in Runs, WalletThrows(r) PROVE SessionInv'
  BY <1>5, ThrownKeeps DEF WalletThrows, SessionInv, RunInv
<1> QED
  BY <1>1, <1>2, <1>3, <1>4, <1>5, BackgroundKeeps DEF Next, Progress

LEMMA SessionInvariant == Spec => []SessionInv
BY SessionInit, SessionStep, PTL DEF Spec

-----------------------------------------------------------------------------
\* The session's state has its type, and a run has what its next step uses; no
\* record it signs with is ever missing.
THEOREM SessionTypeCorrect == Spec => []TypeOK
<1>1. SessionInv => TypeOK
  BY DEF SessionInv
<1> QED
  BY <1>1, SessionInvariant, PTL

\* A session drives its resolver as CredoResolver lets callers drive it, so what
\* is proved of the resolver alone holds of the one inside (credo-agent.ts).
THEOREM SessionUsesResolver == Spec => Resolver!Init /\ [][Resolver!Next]_resolverVars
<1>1. Init => Resolver!Init
  BY DEF Init
<1>2. SessionInv /\ [Next]_vars => [Resolver!Next]_resolverVars
  BY RunUsesResolver DEF SessionInv
<1> QED
  BY <1>1, <1>2, SessionInvariant, PTL DEF Spec

\* A run whose DID no other touches signs with its own key, and what it issued
\* verifies if that key is the certificate's and the engine takes the chain at the
\* moment of the verification, whatever it made of it in step 2
\* (credo-agent.ts 223-386).
THEOREM LoneRunsVerifyTheirOwn == Spec => []AloneVerifiesItsOwn
<1>1. SessionInv => AloneVerifiesItsOwn
  BY DEF SessionInv, AloneInv, AloneVerifiesItsOwn, Accepted, Refused
<1> QED
  BY <1>1, SessionInvariant, PTL

\* Whatever races, a signature reported valid was made with a key that a chain
\* for the DID certifies, one the engine could accept when the signature was
\* checked (credo-agent.ts 350-358).
THEOREM ValidityTracesToChains == Spec => []ValidTracesToChain
<1>1. SessionInv => ValidTracesToChain
  BY DEF SessionInv, ValidInv, ValidTracesToChain, Did, Accepted
<1> QED
  BY <1>1, SessionInvariant, PTL

\* The engine a run reports is the one its document came from, and the only one
\* the session ever uses (credo-agent.ts 264-271).
THEOREM EngineIsReportedTruly == Spec => []EngineReportedTruly
<1>1. SessionInv => EngineReportedTruly
  BY DEF SessionInv, RunInv, Facts!ResolverInv, Facts!CallInv, EngineReportedTruly
<1> QED
  BY <1>1, SessionInvariant, PTL
=============================================================================
