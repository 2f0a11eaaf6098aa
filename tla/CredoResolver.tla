----------------------------- MODULE CredoResolver -----------------------------
(***************************************************************************)
(* X509DidResolver of typescript-credo/src/x509-did-resolver.ts: one       *)
(* instance in an Agent's registry, any number of resolve calls at a time. *)
(* It finds the chain (the x509chain option, or the getChain hook), picks  *)
(* the engine (the native addon or @didx509/core, by a load it does once   *)
(* and remembers, failure included) and asks that engine.                  *)
(*                                                                         *)
(* The two engines are external here: each judges a chain by certificates  *)
(* in date at the moments it reads the clock; DidResolution is the core    *)
(* engine in detail.                                                       *)
(***************************************************************************)
EXTENDS Integers

CONSTANTS
  None,            \* undefined
  Calls,           \* the callers, each with one call open at a time
  Dids,
  Chains,          \* non-empty chains
  Modes,           \* options.implementation, over the instances considered
  Addons,          \* what importing the addon may find: see AddonStates
  CoreWindows,     \* what @didx509/core holds of a DID and a chain: see Windows
  NativeWindows,   \* what @didx509/native does
  MaxTime          \* bound on the clock

VARIABLES
  mode,        \* options.implementation ?? 'auto'
  hook,        \* options.getChain is given
  provided,    \* provided[did]: what the hook answers, None for nothing
  addon,       \* what import('@didx509/native') finds: see AddonStates
  promise,     \* implementationPromise: "unset", "loading", an engine or "rejected"
  selected,    \* selectedImplementation, read by usedImplementation
  module,      \* nativeModule is set
  now,         \* the clock the engines read
  call         \* call[c]: the state of c's call

vars == <<mode, hook, provided, addon, promise, selected, module, now, call>>

Engines == {"native", "core"}

\* Not installed or not loadable, loadable with another API, or good.
AddonStates == {"absent", "odd", "good"}

Outcomes == {"pending", "resolved", "notFound", "invalidDidResolutionOptions", "rejected"}

\* asked (history): the option, or what the hook would have answered at some
\* moment since the call was made; from and to (history): when the engine was
\* asked and when it answered.  An outcome stays until the next call.
CallStates ==
  [stage : {"free", "hook", "select", "wait", "engine"}, did : Dids \cup {None},
   chain : Chains \cup {None}, asked : SUBSET (Chains \cup {None}),
   engine : Engines \cup {None}, from : 0..MaxTime, to : 0..MaxTime, outcome : Outcomes]

NoCall == [stage |-> "free", did |-> None, chain |-> None, asked |-> {},
           engine |-> None, from |-> 0, to |-> 0, outcome |-> "pending"]

ASSUME ModesAreKnown == Modes \subseteq {"auto", "native", "core"} /\ Addons \subseteq AddonStates

\* Of each DID and chain, the moments each of its certificates would be found in
\* order; a chain that never resolves has one that never would.
WindowsOf(dids, chains) == [dids \X chains -> SUBSET SUBSET (0..MaxTime)]

ASSUME TimeIsBounded == MaxTime \in Nat

ASSUME WindowsAreKnown ==
  CoreWindows \in WindowsOf(Dids, Chains) /\ NativeWindows \in WindowsOf(Dids, Chains)

ASSUME NoneIsNoChain == None \notin Chains /\ None \notin Dids /\ None \notin Engines

-----------------------------------------------------------------------------
Init ==
  /\ mode \in Modes
  /\ hook \in BOOLEAN
  /\ provided = [did \in Dids |-> None]
  /\ addon \in Addons
  /\ promise = "unset"
  /\ selected = None
  /\ module = FALSE
  /\ now = 0
  /\ call = [c \in Calls |-> NoCall]

Settle(c, outcome) ==
  call' = [call EXCEPT ![c] = [@ EXCEPT !.stage = "free", !.outcome = outcome]]

\* resolve is called; it runs up to the hook's answer or to the selection.
Resolve(c, did, option) ==
  /\ call[c].stage = "free"
  /\ LET fresh == [NoCall EXCEPT !.did = did, !.chain = option,
                        !.asked = {IF option # None THEN option ELSE provided[did]}] IN
       \/ option # None
          /\ call' = [call EXCEPT ![c] = [fresh EXCEPT !.stage = "select"]]
       \/ option = None /\ hook
          /\ call' = [call EXCEPT ![c] = [fresh EXCEPT !.stage = "hook"]]
       \/ option = None /\ ~hook
          /\ call' = [call EXCEPT ![c] = [fresh EXCEPT !.outcome = "invalidDidResolutionOptions"]]
  /\ UNCHANGED <<mode, hook, provided, addon, promise, selected, module, now>>

\* Slip: a chain found for this DID before is used again.
CachedChain(did) ==
  IF \E c \in Calls : call[c].did = did /\ call[c].chain # None
  THEN (CHOOSE x \in {call[c] : c \in Calls} : x.did = did /\ x.chain # None).chain
  ELSE provided[did]

HookChain(did) == provided[did]

\* The awaited getChain answers.
HookAnswers(c) ==
  /\ call[c].stage = "hook"
  /\ LET chain == HookChain(call[c].did) IN
       \/ chain = None /\ Settle(c, "invalidDidResolutionOptions")
       \/ chain # None
          /\ call' = [call EXCEPT ![c] = [@ EXCEPT !.stage = "select", !.chain = chain]]
  /\ UNCHANGED <<mode, hook, provided, addon, promise, selected, module, now>>

\* getChain throws: nothing catches it, so resolve rejects.
HookThrows(c) ==
  /\ call[c].stage = "hook"
  /\ Settle(c, "rejected")
  /\ UNCHANGED <<mode, hook, provided, addon, promise, selected, module, now>>

\* Slip: every selection loads anew.
LoadsAgain == promise # "loading"

\* ??= : the first selection starts the load, the others share it.
LoadsNow == promise = "unset"

\* The call turns to its engine.
Asked(state, engine) == [state EXCEPT !.stage = "engine", !.engine = engine, !.from = now]

\* selectImplementation.
Select(c) ==
  /\ call[c].stage = "select"
  /\ \/ /\ mode = "core"
        /\ selected' = "core"
        /\ call' = [call EXCEPT ![c] = Asked(@, "core")]
        /\ UNCHANGED promise
     \/ /\ mode # "core"
        /\ promise' = IF LoadsNow THEN "loading" ELSE promise
        /\ call' = [call EXCEPT ![c] = [@ EXCEPT !.stage = "wait"]]
        /\ UNCHANGED selected
  /\ UNCHANGED <<mode, hook, provided, addon, module, now>>

\* Slip: a failed load falls back to the core whatever was asked for.
FallsBackAlways == "core"

\* Slip: a failed load is forgotten, so that the next call may try again.
ForgetsFailure == "unset"

\* What a failed load makes of the promise.
OnLoadFailure == IF mode = "native" THEN "rejected" ELSE "core"

\* Slip: nativeModule is not assigned.
ModuleAsBefore == module

\* loadNative assigns nativeModule once the API has been checked.
ModuleLoaded == TRUE

\* loadNative settles, and the handlers chained to it run.
Load ==
  /\ promise = "loading"
  /\ \/ /\ addon = "good"
        /\ module' = ModuleLoaded
        /\ promise' = "native"
        /\ selected' = "native"
     \/ /\ addon # "good"
        /\ promise' = OnLoadFailure
        /\ selected' = IF OnLoadFailure = "core" THEN "core" ELSE selected
        /\ UNCHANGED module
  /\ UNCHANGED <<mode, hook, provided, addon, now, call>>

\* A call goes on with the promise's value, or rejects with its reason.
Proceed(c) ==
  /\ call[c].stage = "wait"
  /\ \/ promise \in Engines
        /\ call' = [call EXCEPT ![c] = Asked(@, promise)]
     \/ promise = "rejected" /\ Settle(c, "rejected")
  /\ UNCHANGED <<mode, hook, provided, addon, promise, selected, module, now>>

Windows(engine, did, chain) == IF engine = "core" THEN CoreWindows[did, chain] ELSE NativeWindows[did, chain]

\* An engine asked at from that answers at to reads the clock in between, once
\* for each certificate: all it read in order may have been at moments of their own.
MayAccept(engine, did, chain, from, to) ==
  /\ engine = "native" => module
  /\ \A window \in Windows(engine, did, chain) : window \cap (from..to) # {}

\* It refuses for a certificate out of order at one of these moments; the addon
\* also for want of memory (NativeAddon).
MayRefuse(engine, did, chain, from, to) ==
  \/ engine = "native"
  \/ \E window \in Windows(engine, did, chain) : ~(from..to \subseteq window)

\* The engine answers; whatever it throws becomes notFound.
Answer(c) ==
  /\ call[c].stage = "engine"
  /\ LET x == call[c] IN
     \E outcome \in {"resolved", "notFound"} :
       /\ outcome = "resolved" => MayAccept(x.engine, x.did, x.chain, x.from, now)
       /\ outcome = "notFound" => MayRefuse(x.engine, x.did, x.chain, x.from, now)
       /\ call' = [call EXCEPT ![c] = [@ EXCEPT !.stage = "free", !.to = now, !.outcome = outcome]]
  /\ UNCHANGED <<mode, hook, provided, addon, promise, selected, module, now>>

\* The application's registry of chains changes.
Provide(did, chain) ==
  /\ hook
  /\ provided' = [provided EXCEPT ![did] = chain]
  /\ call' = [c \in Calls |->
       IF call[c].stage = "hook" /\ call[c].did = did
       THEN [call[c] EXCEPT !.asked = @ \cup {chain}] ELSE call[c]]
  /\ UNCHANGED <<mode, hook, addon, promise, selected, module, now>>

\* The addon is installed, rebuilt or removed while the process runs.
Reinstall ==
  /\ addon' \in Addons
  /\ UNCHANGED <<mode, hook, provided, promise, selected, module, now, call>>

Tick ==
  /\ now < MaxTime
  /\ now' = now + 1
  /\ UNCHANGED <<mode, hook, provided, addon, promise, selected, module, call>>

Progress(c) == HookAnswers(c) \/ HookThrows(c) \/ Select(c) \/ Proceed(c) \/ Answer(c)

Next ==
  \/ \E c \in Calls, did \in Dids, option \in Chains \cup {None} : Resolve(c, did, option)
  \/ \E c \in Calls : Progress(c)
  \/ Load
  \/ \E did \in Dids, chain \in Chains \cup {None} : Provide(did, chain)
  \/ Reinstall
  \/ Tick

\* Hooks and engines settle what they are asked, and an import settles.
Fairness == WF_vars(Load) /\ \A c \in Calls : WF_vars(Progress(c))

Spec == Init /\ [][Next]_vars /\ Fairness

-----------------------------------------------------------------------------
\* The state has its type; a call that waits has a load to wait for, and one
\* that asks the native engine finds its module set.
TypeOK ==
  /\ mode \in Modes
  /\ hook \in BOOLEAN
  /\ provided \in [Dids -> Chains \cup {None}]
  /\ addon \in Addons
  /\ promise \in {"unset", "loading", "rejected"} \cup Engines
  /\ selected \in Engines \cup {None}
  /\ module \in BOOLEAN
  /\ now \in 0..MaxTime
  /\ call \in [Calls -> CallStates]
  /\ \A c \in Calls :
       /\ call[c].stage = "wait" => promise # "unset"
       /\ call[c].stage \in {"select", "wait", "engine"} => call[c].chain # None
       /\ call[c].stage = "engine" => call[c].engine # None
       /\ call[c].engine = "native" => module

Resolved(c) == call[c].outcome = "resolved"

\* The engine is chosen once for the life of the resolver, whoever asks first
\* and whatever becomes of the addon on disk: all documents come from the one
\* that usedImplementation names (x509-did-resolver.ts 111-113, 205-226).
OneEngine == \A c \in Calls : Resolved(c) => call[c].engine = selected

\* implementation 'native' is a demand: nothing is ever answered by the core
\* engine, and a load that failed surfaces as a rejection in the calls that
\* shared it as in all later ones, not as a DID that was not found (138-141).
NativeOnDemand ==
  mode = "native" => \A c \in Calls :
    /\ call[c].engine # "core"
    /\ call[c].outcome = "notFound" => promise = "native"

\* allowsCaching is false (94): the chain a document is built from is the one
\* passed, or one the hook stood ready to give while the call was open; what
\* an earlier call found is not used again.
ChainIsFresh == \A c \in Calls : call[c].chain # None => call[c].chain \in call[c].asked

\* Every resolve settles, those that join a load in flight included.
EveryResolveSettles == \A c \in Calls : call[c].stage # "free" ~> call[c].stage = "free"
=============================================================================
