-------------------------- MODULE CredoResolverProofs --------------------------
(***************************************************************************)
(* Theorems about CredoResolver for any callers, DIDs and chains, and for  *)
(* engines that accept whatever they accept.  The three properties speak   *)
(* of calls that have their chain or their answer; the invariant says what *)
(* holds on the way there, of the one load (LoadInv) and of the record of  *)
(* each call (CallInv).                                                    *)
(***************************************************************************)
EXTENDS CredoResolver, TLAPS

\* The promise, the selected engine and the module tell one story: core mode
\* loads nothing, otherwise the engine is what the load came to.
LoadInv ==
  /\ mode = "core" => promise = "unset" /\ selected \in {None, "core"}
  /\ mode # "core" => IF promise \in Engines THEN selected = promise ELSE selected = None
  /\ promise = "native" => module
  /\ mode = "native" => promise # "core"

\* One call.  What each stage has (as in TypeOK); what the hook would answer it
\* now is on record; its engine is the one selected, known before an answer is.
CallInv(r) ==
  /\ r.stage = "wait" => promise # "unset"
  /\ r.stage \in {"select", "wait", "engine"} => r.chain # None
  /\ r.stage = "engine" => r.engine # None
  /\ r.engine = "native" => module
  /\ r.stage # "free" => r.outcome = "pending"
  /\ r.stage = "hook" => r.did \in Dids /\ provided[r.did] \in r.asked
  /\ r.chain # None => r.chain \in r.asked
  /\ r.engine # None => r.engine = selected
  /\ r.outcome \in {"resolved", "notFound"} => r.engine # None /\ r.chain # None
  /\ r.outcome = "resolved" => MayAccept(r.engine, r.did, r.chain, r.from, r.to)
  /\ r.outcome = "notFound" => MayRefuse(r.engine, r.did, r.chain, r.from, r.to)

ResolverInv == TypeOK /\ LoadInv /\ \A c \in Calls : CallInv(call[c])

\* What all calls rest on may only grow: a load once begun stays begun, the
\* engine once selected stays, and so does the loaded module.
Grows ==
  /\ promise # "unset" => promise' # "unset"
  /\ selected # None => selected' = selected
  /\ module => module'

USE ModesAreKnown, NoneIsNoChain, TimeIsBounded

-----------------------------------------------------------------------------
\* A step that gives call c the record r, and may go on with the load, keeps
\* the invariant if r is right.
LEMMA OneCallMoves ==
  ASSUME ResolverInv, NEW c \in Calls, NEW r \in CallStates, CallInv(r)',
         call' = [call EXCEPT ![c] = r], Grows, LoadInv',
         UNCHANGED <<mode, hook, provided, addon, now>>,
         promise' \in {"unset", "loading", "rejected"} \cup Engines,
         selected' \in Engines \cup {None}, module' \in BOOLEAN
  PROVE  ResolverInv'
<1>1. call' \in [Calls -> CallStates] /\ call'[c] = r /\ \A d \in Calls \ {c} : call'[d] = call[d]
  BY DEF ResolverInv, TypeOK
<1>2. ASSUME NEW d \in Calls PROVE CallInv(call[d])'
  <2>1. CASE d = c
    BY <1>1, <2>1 DEF CallInv, MayAccept, MayRefuse
  <2>2. CASE d # c
    <3>1. CallInv(call[d]) /\ call'[d] = call[d] /\ call[d].engine \in Engines \cup {None}
      BY <1>1, <2>2 DEF ResolverInv, TypeOK, CallStates
    <3> QED
      BY <3>1 DEF CallInv, Grows, MayAccept, MayRefuse
  <2> QED
    BY <2>1, <2>2
<1>3. TypeOK'
  BY <1>1, <1>2 DEF ResolverInv, TypeOK, CallInv
<1> QED
  BY <1>2, <1>3 DEF ResolverInv

LEMMA NoCallRecord ==
  /\ NoCall \in CallStates /\ NoCall.stage = "free" /\ NoCall.chain = None
  /\ NoCall.engine = None /\ NoCall.outcome = "pending"
BY DEF NoCall, CallStates, Outcomes

LEMMA ResolverInit == Init => ResolverInv
<1> SUFFICES ASSUME Init PROVE ResolverInv
  OBVIOUS
<1>1. call \in [Calls -> CallStates] /\ \A c \in Calls : call[c] = NoCall
  BY NoCallRecord DEF Init
<1>2. TypeOK
  <2>1. now \in 0..MaxTime /\ provided \in [Dids -> Chains \cup {None}]
    BY DEF Init
  <2>2. /\ mode \in Modes /\ hook \in BOOLEAN /\ addon \in Addons /\ promise = "unset"
        /\ selected \in Engines \cup {None} /\ module \in BOOLEAN
    BY DEF Init
  <2> QED
    BY <1>1, <2>1, <2>2, NoCallRecord DEF TypeOK, Engines
<1>3. LoadInv
  BY DEF Init, LoadInv, Engines
<1>4. \A c \in Calls : CallInv(call[c])
  BY <1>1, NoCallRecord DEF CallInv, Engines
<1> QED
  BY <1>2, <1>3, <1>4 DEF ResolverInv

LEMMA ResolveKeeps ==
  ASSUME ResolverInv, NEW c \in Calls, NEW did \in Dids, NEW option \in Chains \cup {None},
         Resolve(c, did, option)
  PROVE  ResolverInv'
<1> DEFINE asked == {IF option # None THEN option ELSE provided[did]}
           fresh == [NoCall EXCEPT !.did = did, !.chain = option, !.asked = asked]
<1>1. asked \subseteq Chains \cup {None}
  BY DEF ResolverInv, TypeOK
<1>2. /\ fresh \in CallStates /\ fresh.stage = "free" /\ fresh.did = did /\ fresh.chain = option
      /\ fresh.asked = asked /\ fresh.engine = None /\ fresh.outcome = "pending"
  BY <1>1, NoCallRecord DEF CallStates
<1>3. \/ option # None /\ call' = [call EXCEPT ![c] = [fresh EXCEPT !.stage = "select"]]
      \/ option = None /\ call' = [call EXCEPT ![c] = [fresh EXCEPT !.stage = "hook"]]
      \/ call' = [call EXCEPT ![c] = [fresh EXCEPT !.outcome = "invalidDidResolutionOptions"]]
  BY DEF Resolve
<1> HIDE DEF fresh
<1>4. PICK r \in CallStates :
         /\ call' = [call EXCEPT ![c] = r]
         /\ r.did = did /\ r.chain = option /\ r.asked = asked /\ r.engine = None
         /\ \/ option # None /\ r.stage = "select" /\ r.outcome = "pending"
            \/ option = None /\ r.stage = "hook" /\ r.outcome = "pending"
            \/ r.stage = "free" /\ r.outcome = "invalidDidResolutionOptions"
  <2>1. CASE option # None /\ call' = [call EXCEPT ![c] = [fresh EXCEPT !.stage = "select"]]
    <3> DEFINE s == [fresh EXCEPT !.stage = "select"]
    <3>1. /\ s \in CallStates /\ s.stage = "select" /\ s.outcome = "pending"
          /\ s.did = did /\ s.chain = option /\ s.asked = asked /\ s.engine = None
      BY <1>2 DEF CallStates
    <3> QED
      BY <2>1, <3>1
  <2>2. CASE option = None /\ call' = [call EXCEPT ![c] = [fresh EXCEPT !.stage = "hook"]]
    <3> DEFINE s == [fresh EXCEPT !.stage = "hook"]
    <3>1. /\ s \in CallStates /\ s.stage = "hook" /\ s.outcome = "pending"
          /\ s.did = did /\ s.chain = option /\ s.asked = asked /\ s.engine = None
      BY <1>2 DEF CallStates
    <3> QED
      BY <2>2, <3>1
  <2>3. CASE call' = [call EXCEPT ![c] = [fresh EXCEPT !.outcome = "invalidDidResolutionOptions"]]
    <3> DEFINE s == [fresh EXCEPT !.outcome = "invalidDidResolutionOptions"]
    <3>1. /\ s \in CallStates /\ s.stage = "free" /\ s.outcome = "invalidDidResolutionOptions"
          /\ s.did = did /\ s.chain = option /\ s.asked = asked /\ s.engine = None
      BY <1>2 DEF CallStates, Outcomes
    <3> QED
      BY <2>3, <3>1
  <2> QED
    BY <1>3, <2>1, <2>2, <2>3
<1>5. UNCHANGED <<mode, hook, provided, addon, promise, selected, module, now>>
  BY DEF Resolve
<1>6. CallInv(r)'
  BY <1>4, <1>5 DEF CallInv, Engines
<1>7. Grows /\ LoadInv'
  BY <1>5 DEF Grows, LoadInv, ResolverInv
<1> QED
  BY <1>4, <1>5, <1>6, <1>7, OneCallMoves DEF ResolverInv, TypeOK

LEMMA HookKeeps ==
  ASSUME ResolverInv, NEW c \in Calls, HookAnswers(c) \/ HookThrows(c)
  PROVE  ResolverInv'
<1>1. /\ call[c] \in CallStates /\ call[c].stage = "hook" /\ CallInv(call[c])
      /\ UNCHANGED <<mode, hook, provided, addon, promise, selected, module, now>>
  BY DEF ResolverInv, TypeOK, HookAnswers, HookThrows
<1>2. call[c].did \in Dids /\ provided[call[c].did] \in Chains \cup {None}
  BY <1>1 DEF CallInv, ResolverInv, TypeOK
<1>3. Grows /\ LoadInv'
  BY <1>1 DEF Grows, LoadInv, ResolverInv
<1>4. ASSUME NEW outcome \in {"invalidDidResolutionOptions", "rejected"}, Settle(c, outcome)
      PROVE  ResolverInv'
  <2>1. PICK r \in CallStates :
           /\ call' = [call EXCEPT ![c] = r] /\ r.stage = "free" /\ r.outcome = outcome
           /\ r.did = call[c].did /\ r.chain = call[c].chain /\ r.asked = call[c].asked
           /\ r.engine = call[c].engine
    <3> DEFINE s == [call[c] EXCEPT !.stage = "free", !.outcome = outcome]
    <3>1. /\ s \in CallStates /\ s.stage = "free" /\ s.outcome = outcome /\ s.did = call[c].did
          /\ s.chain = call[c].chain /\ s.asked = call[c].asked /\ s.engine = call[c].engine
      BY <1>1 DEF CallStates, Outcomes
    <3>2. call' = [call EXCEPT ![c] = s]
      BY <1>4 DEF Settle
    <3> QED
      BY <3>1, <3>2
  <2>2. CallInv(r)'
    BY <1>1, <2>1 DEF CallInv
  <2> QED
    BY <1>1, <1>3, <2>1, <2>2, OneCallMoves DEF ResolverInv, TypeOK
<1>5. ASSUME provided[call[c].did] # None,
             call' = [call EXCEPT ![c] = [@ EXCEPT !.stage = "select", !.chain = provided[call[c].did]]]
      PROVE  ResolverInv'
  <2>1. PICK r \in CallStates :
           /\ call' = [call EXCEPT ![c] = r] /\ r.stage = "select"
           /\ r.chain = provided[call[c].did] /\ r.did = call[c].did /\ r.asked = call[c].asked
           /\ r.engine = call[c].engine /\ r.outcome = call[c].outcome
    <3> DEFINE s == [call[c] EXCEPT !.stage = "select", !.chain = provided[call[c].did]]
    <3>1. /\ s \in CallStates /\ s.stage = "select" /\ s.chain = provided[call[c].did]
          /\ s.did = call[c].did /\ s.asked = call[c].asked /\ s.engine = call[c].engine
          /\ s.outcome = call[c].outcome
      BY <1>1, <1>2, <1>5 DEF CallStates
    <3>2. call' = [call EXCEPT ![c] = s]
      BY <1>5
    <3> QED
      BY <3>1, <3>2
  <2>2. CallInv(r)'
    BY <1>1, <1>5, <2>1 DEF CallInv
  <2> QED
    BY <1>1, <1>3, <2>1, <2>2, OneCallMoves DEF ResolverInv, TypeOK
<1> QED
  BY <1>4, <1>5 DEF HookAnswers, HookThrows, HookChain

LEMMA SelectKeeps ==
  ASSUME ResolverInv, NEW c \in Calls, Select(c)
  PROVE  ResolverInv'
<1>1. /\ call[c] \in CallStates /\ call[c].stage = "select" /\ CallInv(call[c]) /\ mode \in Modes
      /\ UNCHANGED <<mode, hook, provided, addon, module, now>>
  BY DEF ResolverInv, TypeOK, Select
<1>2. call[c].chain # None /\ call[c].outcome = "pending"
  BY <1>1 DEF CallInv
<1>3. CASE /\ mode = "core" /\ selected' = "core" /\ UNCHANGED promise
           /\ call' = [call EXCEPT ![c] = Asked(@, "core")]
  <2>1. PICK r \in CallStates :
           /\ call' = [call EXCEPT ![c] = r] /\ r.stage = "engine" /\ r.engine = "core"
           /\ r.chain = call[c].chain /\ r.asked = call[c].asked /\ r.outcome = call[c].outcome
    <3> DEFINE s == Asked(call[c], "core")
    <3>1. /\ s \in CallStates /\ s.stage = "engine" /\ s.engine = "core"
          /\ s.chain = call[c].chain /\ s.asked = call[c].asked /\ s.outcome = call[c].outcome
      BY <1>1 DEF CallStates, Engines, Asked, ResolverInv, TypeOK
    <3> HIDE DEF s
    <3>2. call' = [call EXCEPT ![c] = s]
      BY <1>3 DEF s
    <3> QED
      BY <3>1, <3>2
  <2>2. LoadInv' /\ Grows
    BY <1>1, <1>3 DEF ResolverInv, LoadInv, Grows
  <2>3. CallInv(r)'
    BY <1>1, <1>2, <1>3, <2>1 DEF CallInv, Engines
  <2> QED
    BY <1>1, <1>3, <2>1, <2>2, <2>3, OneCallMoves DEF ResolverInv, TypeOK, Engines
<1>4. CASE /\ mode # "core" /\ UNCHANGED selected
           /\ promise' = IF LoadsNow THEN "loading" ELSE promise
           /\ call' = [call EXCEPT ![c] = [@ EXCEPT !.stage = "wait"]]
  <2>1. PICK r \in CallStates :
           /\ call' = [call EXCEPT ![c] = r] /\ r.stage = "wait" /\ r.engine = call[c].engine
           /\ r.chain = call[c].chain /\ r.asked = call[c].asked /\ r.outcome = call[c].outcome
    <3> DEFINE s == [call[c] EXCEPT !.stage = "wait"]
    <3>1. /\ s \in CallStates /\ s.stage = "wait" /\ s.engine = call[c].engine
          /\ s.chain = call[c].chain /\ s.asked = call[c].asked /\ s.outcome = call[c].outcome
      BY <1>1 DEF CallStates
    <3> QED
      BY <1>4, <3>1
  <2>2. promise' \in {"unset", "loading", "rejected"} \cup Engines /\ promise' # "unset"
    BY <1>4 DEF ResolverInv, TypeOK, LoadsNow
  <2>3. LoadInv' /\ Grows
    BY <1>1, <1>4, <2>2 DEF ResolverInv, LoadInv, Grows, LoadsNow, Engines
  <2>4. CallInv(r)'
    BY <1>1, <1>2, <1>4, <2>1, <2>2 DEF CallInv
  <2> QED
    BY <1>1, <1>4, <2>1, <2>2, <2>3, <2>4, OneCallMoves DEF ResolverInv, TypeOK
<1> QED
  BY <1>3, <1>4 DEF Select

LEMMA ProceedKeeps ==
  ASSUME ResolverInv, NEW c \in Calls, Proceed(c)
  PROVE  ResolverInv'
<1>1. /\ call[c] \in CallStates /\ call[c].stage = "wait" /\ CallInv(call[c]) /\ mode \in Modes
      /\ UNCHANGED <<mode, hook, provided, addon, promise, selected, module, now>>
  BY DEF ResolverInv, TypeOK, Proceed
<1>2. call[c].chain # None /\ call[c].outcome = "pending"
  BY <1>1 DEF CallInv
<1>3. Grows /\ LoadInv'
  BY <1>1 DEF Grows, LoadInv, ResolverInv
<1>4. CASE /\ promise \in Engines
           /\ call' = [call EXCEPT ![c] = Asked(@, promise)]
  <2>1. selected = promise /\ (promise = "native" => module)
    BY <1>1, <1>4 DEF ResolverInv, LoadInv, Engines
  <2>2. PICK r \in CallStates :
           /\ call' = [call EXCEPT ![c] = r] /\ r.stage = "engine" /\ r.engine = promise
           /\ r.chain = call[c].chain /\ r.asked = call[c].asked /\ r.outcome = call[c].outcome
    <3> DEFINE s == Asked(call[c], promise)
    <3>1. /\ s \in CallStates /\ s.stage = "engine" /\ s.engine = promise
          /\ s.chain = call[c].chain /\ s.asked = call[c].asked /\ s.outcome = call[c].outcome
      BY <1>1, <1>4 DEF CallStates, Asked, ResolverInv, TypeOK
    <3> HIDE DEF s
    <3>2. call' = [call EXCEPT ![c] = s]
      BY <1>4 DEF s
    <3> QED
      BY <3>1, <3>2
  <2>3. CallInv(r)'
    BY <1>1, <1>2, <1>4, <2>1, <2>2 DEF CallInv
  <2> QED
    BY <1>1, <1>3, <2>2, <2>3, OneCallMoves DEF ResolverInv, TypeOK
<1>5. CASE promise = "rejected" /\ Settle(c, "rejected")
  <2>1. PICK r \in CallStates :
           /\ call' = [call EXCEPT ![c] = r] /\ r.stage = "free" /\ r.outcome = "rejected"
           /\ r.chain = call[c].chain /\ r.asked = call[c].asked /\ r.engine = call[c].engine
    <3> DEFINE s == [call[c] EXCEPT !.stage = "free", !.outcome = "rejected"]
    <3>1. /\ s \in CallStates /\ s.stage = "free" /\ s.outcome = "rejected"
          /\ s.chain = call[c].chain /\ s.asked = call[c].asked /\ s.engine = call[c].engine
      BY <1>1 DEF CallStates, Outcomes
    <3> QED
      BY <1>5, <3>1 DEF Settle
  <2>2. CallInv(r)'
    BY <1>1, <2>1 DEF CallInv
  <2> QED
    BY <1>1, <1>3, <2>1, <2>2, OneCallMoves DEF ResolverInv, TypeOK
<1> QED
  BY <1>4, <1>5 DEF Proceed

LEMMA AnswerKeeps ==
  ASSUME ResolverInv, NEW c \in Calls, Answer(c)
  PROVE  ResolverInv'
<1>1. /\ call[c] \in CallStates /\ call[c].stage = "engine" /\ CallInv(call[c]) /\ now \in 0..MaxTime
      /\ UNCHANGED <<mode, hook, provided, addon, promise, selected, module, now>>
  BY DEF ResolverInv, TypeOK, Answer
<1>2. call[c].chain # None /\ call[c].engine # None
  BY <1>1 DEF CallInv
<1>3. Grows /\ LoadInv'
  BY <1>1 DEF Grows, LoadInv, ResolverInv
<1>4. PICK outcome \in {"resolved", "notFound"} :
        /\ outcome = "resolved" => MayAccept(call[c].engine, call[c].did, call[c].chain, call[c].from, now)
        /\ outcome = "notFound" => MayRefuse(call[c].engine, call[c].did, call[c].chain, call[c].from, now)
        /\ call' = [call EXCEPT ![c] = [@ EXCEPT !.stage = "free", !.to = now, !.outcome = outcome]]
  BY DEF Answer
<1>5. PICK r \in CallStates :
         /\ call' = [call EXCEPT ![c] = r] /\ r.stage = "free" /\ r.outcome = outcome
         /\ r.did = call[c].did /\ r.chain = call[c].chain /\ r.asked = call[c].asked
         /\ r.engine = call[c].engine /\ r.from = call[c].from /\ r.to = now
  <2> DEFINE s == [call[c] EXCEPT !.stage = "free", !.to = now, !.outcome = outcome]
  <2>1. /\ s \in CallStates /\ s.stage = "free" /\ s.outcome = outcome
        /\ s.did = call[c].did /\ s.chain = call[c].chain /\ s.asked = call[c].asked
        /\ s.engine = call[c].engine /\ s.from = call[c].from /\ s.to = now
    BY <1>1 DEF CallStates, Outcomes
  <2> QED
    BY <1>4, <2>1
<1>6. CallInv(r)'
  <2>1. /\ r.outcome = "resolved" => MayAccept(r.engine, r.did, r.chain, r.from, r.to)'
        /\ r.outcome = "notFound" => MayRefuse(r.engine, r.did, r.chain, r.from, r.to)'
    BY <1>1, <1>4, <1>5 DEF MayAccept, MayRefuse
  <2> QED
    BY <1>1, <1>2, <1>5, <2>1 DEF CallInv
<1> QED
  BY <1>1, <1>3, <1>5, <1>6, OneCallMoves DEF ResolverInv, TypeOK

\* The load settles: promise, engine and module change together.
LEMMA LoadKeeps == ASSUME ResolverInv, Load PROVE ResolverInv'
<1>1. promise = "loading" /\ UNCHANGED <<mode, hook, provided, addon, now, call>> /\ mode \in Modes
  BY DEF Load, ResolverInv, TypeOK
<1>2. mode # "core" /\ selected = None
  BY <1>1 DEF ResolverInv, LoadInv, Engines
<1>3. \/ module' /\ module' \in BOOLEAN /\ promise' = "native" /\ selected' = "native"
      \/ /\ promise' = OnLoadFailure /\ UNCHANGED module
         /\ selected' = IF OnLoadFailure = "core" THEN "core" ELSE selected
  BY DEF Load, ModuleLoaded
<1>4. Grows
  BY <1>1, <1>2, <1>3 DEF Grows, OnLoadFailure
<1>5. LoadInv'
  BY <1>1, <1>2, <1>3 DEF LoadInv, OnLoadFailure, Engines
<1>6. ASSUME NEW c \in Calls PROVE CallInv(call[c])'
  <2>1. CallInv(call[c]) /\ call[c].engine = None
    BY <1>2 DEF ResolverInv, CallInv
  <2> QED
    BY <1>1, <1>4, <2>1 DEF CallInv, Grows
<1>7. TypeOK'
  <2>1. promise' \in {"unset", "loading", "rejected"} \cup Engines /\ selected' \in Engines \cup {None}
        /\ module' \in BOOLEAN
    BY <1>2, <1>3 DEF OnLoadFailure, Engines, ResolverInv, TypeOK
  <2> QED
    BY <1>1, <1>6, <2>1 DEF ResolverInv, TypeOK, CallInv
<1> QED
  BY <1>5, <1>6, <1>7 DEF ResolverInv

LEMMA ProvideKeeps ==
  ASSUME ResolverInv, NEW did \in Dids, NEW chain \in Chains \cup {None}, Provide(did, chain)
  PROVE  ResolverInv'
<1>1. /\ UNCHANGED <<mode, hook, addon, promise, selected, module, now>>
      /\ provided' = [provided EXCEPT ![did] = chain]
      /\ provided \in [Dids -> Chains \cup {None}]
  BY DEF Provide, ResolverInv, TypeOK
<1>2. ASSUME NEW c \in Calls
      PROVE  call'[c] \in CallStates /\ CallInv(call[c])'
  <2>1. call[c] \in CallStates /\ CallInv(call[c])
    BY DEF ResolverInv, TypeOK
  <2>2. CASE call[c].stage = "hook" /\ call[c].did = did
    <3>1. call'[c] = [call[c] EXCEPT !.asked = @ \cup {chain}]
      BY <2>2 DEF Provide
    <3>2. /\ call'[c] \in CallStates /\ call'[c].stage = call[c].stage /\ call'[c].did = did
          /\ call'[c].chain = call[c].chain /\ call'[c].asked = call[c].asked \cup {chain}
          /\ call'[c].engine = call[c].engine /\ call'[c].outcome = call[c].outcome
      BY <2>1, <2>2, <3>1 DEF CallStates
    <3>3. provided'[did] = chain
      BY <1>1
    <3> QED
      BY <1>1, <2>1, <2>2, <3>2, <3>3 DEF CallInv, MayAccept, MayRefuse
  <2>3. CASE ~(call[c].stage = "hook" /\ call[c].did = did)
    <3>1. call'[c] = call[c]
      BY <2>3 DEF Provide
    <3>2. call[c].stage = "hook" => provided'[call[c].did] = provided[call[c].did]
      BY <1>1, <2>1, <2>3 DEF CallInv
    <3> QED
      BY <1>1, <2>1, <3>1, <3>2 DEF CallInv, MayAccept, MayRefuse
  <2> QED
    BY <2>2, <2>3
<1>3. call' \in [Calls -> CallStates]
  BY <1>2 DEF Provide
<1>4. TypeOK'
  BY <1>1, <1>2, <1>3 DEF ResolverInv, TypeOK, CallInv
<1>5. LoadInv'
  BY <1>1 DEF ResolverInv, LoadInv
<1> QED
  BY <1>2, <1>4, <1>5 DEF ResolverInv

LEMMA ReinstallKeeps == ASSUME ResolverInv, Reinstall PROVE ResolverInv'
BY DEF Reinstall, ResolverInv, TypeOK, LoadInv, CallInv, MayAccept, MayRefuse

LEMMA TickKeeps == ASSUME ResolverInv, Tick PROVE ResolverInv'
<1>1. /\ now' \in 0..MaxTime
      /\ UNCHANGED <<mode, hook, provided, addon, promise, selected, module, call>>
  BY DEF Tick, ResolverInv, TypeOK
<1>2. LoadInv'
  BY <1>1 DEF ResolverInv, LoadInv
<1>3. \A c \in Calls : CallInv(call[c])'
  BY <1>1 DEF ResolverInv, CallInv, MayAccept, MayRefuse
<1>4. TypeOK'
  BY <1>1 DEF ResolverInv, TypeOK
<1> QED
  BY <1>2, <1>3, <1>4 DEF ResolverInv

LEMMA StutterKeeps == ASSUME ResolverInv, UNCHANGED vars PROVE ResolverInv'
BY DEF vars, ResolverInv, TypeOK, LoadInv, CallInv, MayAccept, MayRefuse

LEMMA ResolverStep == ResolverInv /\ [Next]_vars => ResolverInv'
<1> SUFFICES ASSUME ResolverInv, [Next]_vars PROVE ResolverInv'
  OBVIOUS
<1>1. ASSUME NEW c \in Calls, Progress(c) PROVE ResolverInv'
  BY <1>1, HookKeeps, SelectKeeps, ProceedKeeps, AnswerKeeps DEF Progress
<1>2. ASSUME NEW c \in Calls, NEW did \in Dids, NEW option \in Chains \cup {None},
             Resolve(c, did, option)
      PROVE  ResolverInv'
  BY <1>2, ResolveKeeps
<1>3. ASSUME NEW did \in Dids, NEW chain \in Chains \cup {None}, Provide(did, chain)
      PROVE  ResolverInv'
  BY <1>3, ProvideKeeps
<1> QED
  BY <1>1, <1>2, <1>3, LoadKeeps, ReinstallKeeps, TickKeeps, StutterKeeps DEF Next

\* A promise made, an engine named and a module loaded stay.
LEMMA ResolverGrows == ResolverInv /\ [Next]_vars => Grows
<1> SUFFICES ASSUME ResolverInv, [Next]_vars PROVE Grows
  OBVIOUS
<1> USE DEF ResolverInv, LoadInv, Grows, Engines
<1>1. ASSUME NEW c \in Calls, Select(c) PROVE Grows
  BY <1>1 DEF Select, LoadsNow
<1>2. CASE Load
  BY <1>2 DEF Load, OnLoadFailure, ModuleLoaded
<1>3. CASE UNCHANGED <<promise, selected, module>>
  BY <1>3
<1> QED
  BY <1>1, <1>2, <1>3 DEF Next, Progress, Resolve, HookAnswers, HookThrows, Proceed, Answer, Provide,
                          Reinstall, Tick, vars

LEMMA ResolverInvariant == Spec => []ResolverInv
BY ResolverInit, ResolverStep, PTL DEF Spec

-----------------------------------------------------------------------------
\* The resolver's state has its type, and a call has what its stage uses.
THEOREM ResolverTypeCorrect == Spec => []TypeOK
<1>1. ResolverInv => TypeOK
  BY DEF ResolverInv
<1> QED
  BY <1>1, ResolverInvariant, PTL

\* Whoever asks first and whatever becomes of the addon on disk, every document
\* comes from the engine usedImplementation names (x509-did-resolver.ts 205-226).
THEOREM OneEngineAnswers == Spec => []OneEngine
<1>1. ResolverInv => OneEngine
  BY DEF ResolverInv, CallInv, OneEngine, Resolved
<1> QED
  BY <1>1, ResolverInvariant, PTL

\* The same as an action property: an engine once named is named for good.
THEOREM EngineIsForLife == Spec => [][selected # None => selected' = selected]_vars
<1>1. ResolverInv /\ [Next]_vars => [selected # None => selected' = selected]_vars
  BY ResolverGrows DEF Grows
<1> QED
  BY <1>1, ResolverInvariant, PTL DEF Spec

\* implementation 'native' never falls back, and a load that failed never looks
\* like a DID that was not found (x509-did-resolver.ts 138-141, 205-226).
THEOREM NativeNeverFallsBack == Spec => []NativeOnDemand
<1>1. ResolverInv => NativeOnDemand
  <2> SUFFICES ASSUME ResolverInv, mode = "native", NEW c \in Calls
               PROVE  call[c].engine # "core" /\ (call[c].outcome = "notFound" => promise = "native")
    BY DEF NativeOnDemand
  <2>1. CallInv(call[c]) /\ call[c].engine \in Engines \cup {None}
    BY DEF ResolverInv, TypeOK, CallStates
  <2>2. promise # "core" /\ (selected # None => promise = selected)
    BY DEF ResolverInv, LoadInv
  <2> QED
    BY <2>1, <2>2 DEF CallInv, Engines
<1> QED
  BY <1>1, ResolverInvariant, PTL

\* No chain but the one passed, or one the hook stood ready to give while the
\* call was open, reaches an engine (x509-did-resolver.ts 94).
THEOREM ChainsAreFresh == Spec => []ChainIsFresh
<1>1. ResolverInv => ChainIsFresh
  BY DEF ResolverInv, CallInv, ChainIsFresh
<1> QED
  BY <1>1, ResolverInvariant, PTL
=============================================================================
