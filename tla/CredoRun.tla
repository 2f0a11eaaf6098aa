-------------------------------- MODULE CredoRun --------------------------------
(***************************************************************************)
(* CredoSession.run of playground/src/credo-agent.ts: the seven steps      *)
(* through one Agent, whose wallet, chain map and X509DidResolver all runs *)
(* of the session share.  A browser may have several runs open, and the    *)
(* session store may shut the Agent down under them.  Credo and Askar are  *)
(* external: the wallet holds one record per DID, the document and the key *)
(* bound to it, and signing as a DID uses that key.                        *)
(***************************************************************************)
EXTENDS Integers

CONSTANTS
  None,            \* undefined
  Runs,            \* the run requests open on the session at one time
  Identities,      \* what is posted: [did, chain, key], key None without one
  Throughs,        \* the steps a run may be asked to stop after
  Addons,          \* what importing the addon may find
  LeafKey,         \* a function: the key each chain's leaf certifies
  CoreWindows,     \* when @didx509/core resolves a DID and a chain, and
  NativeWindows,   \* when @didx509/native does: see CredoResolver
  MaxTime          \* bound on the clock

VARIABLES
  mode, hook, provided, addon, promise, selected, module, now, call,  \* the resolver's
  run,      \* run[r]: the state and the result of the run on request r
  record,   \* record[did]: what dids.import stored, [doc, key], or None
  closed    \* agent.shutdown() was called

resolverVars == <<mode, hook, provided, addon, promise, selected, module, now, call>>

vars == <<resolverVars, run, record, closed>>

Dids == {i.did : i \in Identities}
Chains == {i.chain : i \in Identities}
Keys == {LeafKey[chain] : chain \in Chains} \cup ({i.key : i \in Identities} \ {None})

LastStep == 7

\* The chain map is what the resolver's getChain hook reads.
Resolver == INSTANCE CredoResolver WITH Calls <- Runs, Modes <- {"auto"}

ASSUME NoneIsNoIdentity == None \notin Identities /\ Throughs \subseteq 1..LastStep

ASSUME NoneIsNoValue ==
  None \notin Dids \cup Chains \cup Keys \cup {"native", "core"} \cup [doc : Keys, key : Keys]

ASSUME WindowsAreKnown ==
  /\ MaxTime \in Nat
  /\ CoreWindows \in Resolver!WindowsOf(Dids, Chains)
  /\ NativeWindows \in Resolver!WindowsOf(Dids, Chains)

ASSUME AddonsAreKnown == Addons \subseteq Resolver!AddonStates

Stages == {"free", "resolve", "resolving", "import", "bind", "wallet", "sign", "verify", "verifying"}

\* steps counts the entries of the result; doc is the key of the resolved
\* document, signer the key the credential was signed with; alone (history)
\* says no other run has touched the DID's chain or record meanwhile.
RunStates ==
  [stage : Stages, identity : Identities \cup {None}, through : 0..LastStep, steps : 0..LastStep,
   doc : Keys \cup {None}, engine : {"native", "core", None}, matches : BOOLEAN,
   signer : Keys \cup {None}, valid : BOOLEAN, alone : BOOLEAN]

NoRun ==
  [stage |-> "free", identity |-> None, through |-> 0, steps |-> 0, doc |-> None,
   engine |-> None, matches |-> FALSE, signer |-> None, valid |-> FALSE, alone |-> FALSE]

-----------------------------------------------------------------------------
\* CredoSession.start has put the Agent together; the resolver is in 'auto'.
Init ==
  /\ Resolver!Init
  /\ hook = TRUE
  /\ run = [r \in Runs |-> NoRun]
  /\ record = [did \in Dids |-> None]
  /\ closed = FALSE

Did(r) == run[r].identity.did

\* The run has its k-th entry and stops there or goes on.
Entry(state, k, next) ==
  [state EXCEPT !.steps = k, !.stage = IF state.through = k THEN "free" ELSE next]

\* An error is answered, without the entries there were.
Thrown == NoRun

\* Run r gets this state; with touched, the others open on its DID are told.
Becomes(r, state, touched) ==
  run' = [q \in Runs |->
            IF q = r THEN state
            ELSE IF touched /\ run[q].stage # "free" /\ Did(q) = state.identity.did
                 THEN [run[q] EXCEPT !.alone = FALSE]
                 ELSE run[q]]

\* this.chains.set(identity.did, identity.x509chain), before it is resolved.
RememberChain(i) == Resolver!Provide(i.did, i.chain)

\* The key guard, step 1, and the chain remembered for the rest.
Start(r) ==
  /\ run[r].stage = "free"
  /\ \E i \in Identities, through \in Throughs :
       LET fresh == [NoRun EXCEPT !.identity = i, !.through = through, !.alone = TRUE] IN
       \/ /\ i.key = None
          /\ Becomes(r, Thrown, FALSE)
          /\ UNCHANGED resolverVars
       \/ /\ i.key # None
          /\ through = 1
          /\ Becomes(r, Entry(fresh, 1, "free"), FALSE)
          /\ UNCHANGED resolverVars
       \/ /\ i.key # None
          /\ through > 1
          /\ Becomes(r, Entry(fresh, 1, "resolve"), TRUE)
          /\ RememberChain(i)
  /\ UNCHANGED <<record, closed>>

\* agent.dids.resolve reaches the resolver: with the chain as an option the
\* first time, and without one when Credo verifies.
AskResolver(r) ==
  /\ \/ /\ run[r].stage = "resolve"
        /\ Resolver!Resolve(r, Did(r), run[r].identity.chain)
        /\ Becomes(r, [run[r] EXCEPT !.stage = "resolving"], FALSE)
     \/ /\ run[r].stage = "verify"
        /\ Resolver!Resolve(r, Did(r), None)
        /\ Becomes(r, [run[r] EXCEPT !.stage = "verifying"], FALSE)
  /\ UNCHANGED <<record, closed>>

\* The resolver's own steps for run r; its hook, a Map's get, cannot throw.
ResolverWorks(r) ==
  /\ \/ Resolver!HookAnswers(r) \/ Resolver!Select(r)
     \/ Resolver!Proceed(r) \/ Resolver!Answer(r)
  /\ UNCHANGED <<run, record, closed>>

ResolverLoads == Resolver!Load /\ UNCHANGED <<run, record, closed>>

\* Slip: only a document is waited for, and an error never noticed.
HasDocument(r) == call[r].stage = "free" /\ call[r].outcome = "resolved"

HasSettled(r) == call[r].stage = "free"

\* Slip: the package's presence is reported, not the engine that answered.
PackageReported == IF addon = "absent" THEN "core" ELSE "native"

\* resolver.usedImplementation ?? 'core'.
ReportedEngine == IF selected = None THEN "core" ELSE selected

\* Step 2.
Resolved(r) ==
  /\ run[r].stage = "resolving"
  /\ HasSettled(r)
  /\ \/ /\ call[r].outcome = "resolved"
        /\ Becomes(r, Entry([run[r] EXCEPT !.doc = LeafKey[call[r].chain], !.engine = ReportedEngine],
                            2, "import"), FALSE)
     \/ /\ call[r].outcome # "resolved"
        /\ Becomes(r, Thrown, FALSE)
  /\ UNCHANGED <<resolverVars, record, closed>>

\* Step 3: kms.importKey, and the stored key compared with the certificate's.
ImportKey(r) ==
  /\ run[r].stage = "import"
  /\ ~closed
  /\ LET i == run[r].identity IN
       Becomes(r, Entry([run[r] EXCEPT !.matches = (i.key = LeafKey[i.chain])], 3, "bind"), FALSE)
  /\ UNCHANGED <<resolverVars, record, closed>>

\* Slip: a record that is there is left as it is.
KeepRecord(did, new) == IF record[did] = None THEN new ELSE record[did]

\* Slip: only a record that is there is updated.
UpdateOnly(did, new) == IF record[did] = None THEN None ELSE new

\* overwrite: true.
Overwrite(did, new) == new

\* Step 4: dids.import.
BindDid(r) ==
  /\ run[r].stage = "bind"
  /\ ~closed
  /\ record' = [record EXCEPT ![Did(r)] =
                  Overwrite(Did(r), [doc |-> run[r].doc, key |-> run[r].identity.key])]
  /\ Becomes(r, Entry(run[r], 4, "wallet"), TRUE)
  /\ UNCHANGED <<resolverVars, closed>>

\* Step 5: dids.getCreatedDids.
ReadWallet(r) ==
  /\ run[r].stage = "wallet"
  /\ ~closed
  /\ Becomes(r, Entry(run[r], 5, "sign"), FALSE)
  /\ UNCHANGED <<resolverVars, record, closed>>

\* Step 6: sdJwtVc.sign finds the key bound to the DID at this time.
Sign(r) ==
  /\ run[r].stage = "sign"
  /\ ~closed
  /\ Becomes(r, Entry([run[r] EXCEPT !.signer = record[Did(r)].key], 6, "verify"), FALSE)
  /\ UNCHANGED <<resolverVars, record, closed>>

\* Slip: the signature is checked with the key in the wallet.
MatchesWallet(r) == run[r].signer = record[Did(r)].key

\* The document resolved for the verification, at its own moment, carries the
\* signer's key.
Verifies(r) == call[r].outcome = "resolved" /\ run[r].signer = LeafKey[call[r].chain]

\* Step 7: a verification that fails is an entry like one that succeeds.
Verified(r) ==
  /\ run[r].stage = "verifying"
  /\ HasSettled(r)
  /\ Becomes(r, Entry([run[r] EXCEPT !.valid = Verifies(r)], 7, "free"), FALSE)
  /\ UNCHANGED <<resolverVars, record, closed>>

\* Credo or Askar throws, for a key it does not take or a wallet that is closed.
WalletThrows(r) ==
  /\ run[r].stage \in {"import", "bind", "wallet", "sign", "verify"}
  /\ Becomes(r, Thrown, FALSE)
  /\ UNCHANGED <<resolverVars, record, closed>>

TimePasses == Resolver!Tick /\ UNCHANGED <<run, record, closed>>

\* The session store shuts the Agent down.
Shutdown ==
  /\ ~closed
  /\ closed' = TRUE
  /\ UNCHANGED <<resolverVars, run, record>>

Progress(r) ==
  \/ AskResolver(r) \/ ResolverWorks(r) \/ Resolved(r) \/ ImportKey(r) \/ BindDid(r)
  \/ ReadWallet(r) \/ Sign(r) \/ Verified(r) \/ WalletThrows(r)

Next == (\E r \in Runs : Start(r) \/ Progress(r)) \/ ResolverLoads \/ TimePasses \/ Shutdown

\* Whatever a run awaits settles: the load of the addon, the resolver, the wallet.
Fairness == WF_vars(ResolverLoads) /\ \A r \in Runs : WF_vars(Progress(r))

Spec == Init /\ [][Next]_vars /\ Fairness

-----------------------------------------------------------------------------
Bindings == [doc : Keys, key : Keys]

\* The state has its type, the resolver's included; a run has what its next
\* step uses, and the record it signs with is never missing.
TypeOK ==
  /\ Resolver!TypeOK
  /\ run \in [Runs -> RunStates]
  /\ record \in [Dids -> Bindings \cup {None}]
  /\ closed \in BOOLEAN
  /\ \A r \in Runs :
       /\ run[r].stage # "free" => run[r].identity # None /\ run[r].identity.key # None
       /\ run[r].stage \in {"import", "bind", "wallet", "sign"} => run[r].doc # None
       /\ run[r].stage \in {"wallet", "sign"} => record[Did(r)] # None

\* A run whose DID no other run touches signs with the key it imported, whatever
\* chain, key or record earlier runs left behind and however the runs for other
\* DIDs interleave; and it verifies what it issued if that key is the
\* certificate's, unless the engine found the chain out of order at the moment of
\* the verification: it resolved in step 2 and resolves anew in step 7
\* (credo-agent.ts 223-386).
AloneVerifiesItsOwn ==
  \A r \in Runs : run[r].steps = LastStep /\ run[r].alone =>
    LET i == run[r].identity
        k == call[r] IN
    /\ run[r].signer = i.key
    /\ run[r].valid => /\ run[r].matches
                       /\ Resolver!MayAccept(k.engine, i.did, i.chain, k.from, k.to)
    /\ run[r].matches /\ ~run[r].valid => Resolver!MayRefuse(k.engine, i.did, i.chain, k.from, k.to)

\* With runs for one DID and different chains racing, a run may sign with the
\* other's key and verify against the other's chain; but a signature reported
\* valid was made with a key that a chain for the DID certifies, one its engine
\* could accept at the moment of the verification (credo-agent.ts 350-358:
\* trust still traces back to the CA).
ValidTracesToChain ==
  \A r \in Runs : run[r].valid =>
    \E i \in Identities :
      /\ i.did = Did(r)
      /\ LeafKey[i.chain] = run[r].signer
      /\ Resolver!MayAccept(call[r].engine, i.did, i.chain, call[r].from, call[r].to)

\* The engine a run reports is the one its document came from, also when the
\* first runs share the load (credo-agent.ts 264-271).
EngineReportedTruly ==
  \A r \in Runs : run[r].engine # None => run[r].engine = call[r].engine \/ call[r].engine = None

\* Every run ends, with a result or with an error.
EveryRunEnds == \A r \in Runs : run[r].stage # "free" ~> run[r].stage = "free"

=============================================================================
