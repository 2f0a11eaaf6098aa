------------------------------ MODULE NativeAddon ------------------------------
(***************************************************************************)
(* @didx509/native: a call passes from JavaScript (didx509.ts, or the      *)
(* did-resolver plugin) through the Node-API addon (addon.cpp) into the C  *)
(* shim (didx509_shim.cpp) around didx509cpp, and its answer comes back.   *)
(* An asynchronous call runs in the shim on a thread of libuv's pool and   *)
(* settles on the main thread; a synchronous one runs on the main thread   *)
(* and holds it.  The shim's answer is a string it allocates, and the      *)
(* addon copies and frees it; the copy may find no memory.                 *)
(***************************************************************************)
EXTENDS Integers, FiniteSets

CONSTANTS
  None,      \* undefined, nullptr
  Calls,     \* the calls made over the life of the process
  Asked,     \* what they may ask
  Verdict,   \* what didx509cpp makes of each input
  Workers,   \* the threads of libuv's pool
  Heap       \* the long texts malloc grants at one time: bounds the memory

VARIABLES
  call,      \* call[c]: call c
  main,      \* the synchronous call the main thread is in, or None
  up         \* the process runs

vars == <<call, main, up>>

ASSUME PoolAndHeapAreNatural == Workers \in Nat \ {0} /\ Heap \in Nat

ASSUME CallsAreFinite == IsFiniteSet(Calls) /\ None \notin Calls

\* An input holds, holds but for its dates, fails, makes the engine throw
\* something that is no std::exception, or makes it return a text that is not
\* JSON, or JSON without an id.
Verdicts == {"holds", "expired", "fails", "foreign", "garbled", "nameless"}

\* chain: the PEM chain (or x509chain option) is a string, is none, or has an
\* empty entry.  The two options may each be left out.
Asks ==
  [via : {"async", "sync", "plugin"}, returns : {"document", "jwk"},
   chain : {"given", "absent", "hollow"}, input : DOMAIN Verdict,
   ignoreTime : BOOLEAN \cup {None}, skipValidityPeriodCheck : BOOLEAN \cup {None}]

ASSUME EngineAnswersAll ==
  /\ Asked \subseteq Asks
  /\ \A input \in DOMAIN Verdict : Verdict[input] \in Verdicts

Stages == {"idle", "queued", "shim", "returned", "executed", "settled"}

\* The texts of the shim and of a std::bad_alloc that a std::string holds in
\* itself, and those it needs memory for.
Short == {"unknown error", "out of memory", "bad_alloc"}
Texts == {"value", "garbled", "nameless", "exception"} \cup Short

\* What the caller gets.
Answers ==
  {"value", "exception", "invalid output", "TypeError", "invalidDidResolutionOptions", "notFound"}
    \cup Short

ASSUME NoneIsNoText == None \notin Texts /\ None \notin BOOLEAN

Records ==
  [stage : Stages, ask : Asked \cup {None}, ok : BOOLEAN, out : Texts \cup {None},
   err : Texts \cup {None}, text : Texts \cup {None}, answer : Answers \cup {None}]

Idle == [stage |-> "idle", ask |-> None, ok |-> FALSE, out |-> None, err |-> None,
         text |-> None, answer |-> None]

-----------------------------------------------------------------------------
Init == call = [c \in Calls |-> Idle] /\ main = None /\ up = TRUE

\* Slip: the alias wins over the option's own name.
AliasFirst(ask) ==
  IF ask.skipValidityPeriodCheck # None THEN ask.skipValidityPeriodCheck ELSE ask.ignoreTime = TRUE

\* ignoreTimeFrom: an explicit false wins over the alias.  The plugin passes
\* no options on.
IgnoreTimeFrom(ask) ==
  /\ ask.via # "plugin"
  /\ IF ask.ignoreTime # None THEN ask.ignoreTime ELSE ask.skipValidityPeriodCheck = TRUE

\* assertString, and the plugin's own look at the x509chain option.
Presentable(ask) == ask.chain = "given" \/ (ask.via # "plugin" /\ ask.chain = "hollow")

RefusedUnasked(ask) ==
  IF ask.via # "plugin" THEN "TypeError"
  ELSE IF ask.chain = "absent" THEN "invalidDidResolutionOptions" ELSE "notFound"

\* A call that reaches the addon: on the main thread, or queued for the pool.
Call(c) ==
  /\ call[c].stage = "idle"
  /\ main = None
  /\ \E ask \in Asked :
       IF ~Presentable(ask)
       THEN /\ call' = [call EXCEPT ![c] = [@ EXCEPT !.stage = "settled", !.ask = ask,
                                                     !.answer = RefusedUnasked(ask)]]
            /\ UNCHANGED main
       ELSE IF ask.via = "sync"
       THEN /\ call' = [call EXCEPT ![c] = [@ EXCEPT !.stage = "shim", !.ask = ask]]
            /\ main' = c
       ELSE /\ call' = [call EXCEPT ![c] = [@ EXCEPT !.stage = "queued", !.ask = ask]]
            /\ UNCHANGED main
  /\ UNCHANGED up

InShim(c) == call[c].stage \in {"shim", "returned"}

OnPool == {c \in Calls : InShim(c) /\ call[c].ask.via # "sync"}

\* A thread of the pool takes the worker: Execute begins.
Execute(c) ==
  /\ call[c].stage = "queued"
  /\ Cardinality(OnPool) < Workers
  /\ call' = [call EXCEPT ![c].stage = "shim"]
  /\ UNCHANGED <<main, up>>

HoldsString(c) == call[c].out # None \/ call[c].err # None

\* The shim's strings that nobody has freed, and the addon's copies that wait
\* for the main thread.
Room ==
  Cardinality({c \in Calls : HoldsString(c)})
    + Cardinality({c \in Calls : call[c].stage = "executed" /\ call[c].text \notin Short}) < Heap

\* What didx509cpp does with the call.
Engine(ask) ==
  LET verdict == Verdict[ask.input] IN
    IF verdict = "holds" \/ (verdict = "expired" /\ IgnoreTimeFrom(ask)) THEN "value"
    ELSE IF verdict \in {"foreign", "garbled", "nameless"} THEN verdict ELSE "exception"

\* dup_string: a copy, or nothing when malloc has no room; on a full heap a
\* short text may still find some.
Dup(text) == IF Room THEN {text} ELSE IF text \in Short THEN {text, None} ELSE {None}

\* run, when the engine returns a string.
ShimReturns(c) ==
  /\ call[c].stage = "shim"
  /\ Engine(call[c].ask) \in {"value", "garbled", "nameless"}
  /\ \/ /\ Room
        /\ call' = [call EXCEPT ![c] = [@ EXCEPT !.stage = "returned", !.ok = TRUE,
                                                 !.out = Engine(call[c].ask)]]
     \/ /\ ~Room
        /\ \E text \in Dup("out of memory") :
             call' = [call EXCEPT ![c] = [@ EXCEPT !.stage = "returned", !.err = text]]
  /\ UNCHANGED <<main, up>>

\* What the engine throws: its verdict, or that itself found no memory.
Thrown(ask) ==
  (IF Room THEN {} ELSE {"bad_alloc"})
    \cup (IF Engine(ask) = "exception" THEN {"exception"} ELSE {})
    \cup (IF Engine(ask) = "foreign" THEN {"unknown error"} ELSE {})

\* run, when the engine throws.
ShimThrows(c) ==
  /\ call[c].stage = "shim"
  /\ \E thrown \in Thrown(call[c].ask) : \E text \in Dup(thrown) :
       call' = [call EXCEPT ![c] = [@ EXCEPT !.stage = "returned", !.err = text]]
  /\ UNCHANGED <<main, up>>

\* What call_shim's second half copies.
Source(r) == IF r.ok THEN r.out ELSE IF r.err # None THEN r.err ELSE "unknown error"

\* Slip: only a success's string is freed.
FreesValueOnly(r) == [r EXCEPT !.text = Source(r), !.out = None]

\* call_shim's second half, where the copy succeeds: then the string is freed.
CopyAndFree(r) == [r EXCEPT !.text = Source(r), !.out = None, !.err = None]

\* Where it does not, std::bad_alloc leaves the string behind and the outcome
\* as it was constructed.
CopyThrown(r) == [r EXCEPT !.text = "bad_alloc", !.ok = FALSE]

\* parseJson, and the look at document.id.
IsOutput(r) == r.text = "value" \/ (r.text = "nameless" /\ r.ask.returns = "jwk")

\* Slip: the addon's text is handed on as it is.
HandedOn(r) == r.text

\* What the JavaScript wrapper makes of the addon's answer: it parses a value,
\* asks a document for its id, and wraps an error with its text kept.
Wrapped(r) ==
  LET answer == IF ~r.ok THEN r.text
                ELSE IF IsOutput(r) THEN "value" ELSE "invalid output"
  IN IF r.ask.via = "plugin" /\ answer # "value" THEN "notFound" ELSE answer

Settled(r) == [r EXCEPT !.stage = "settled", !.answer = Wrapped(r)]

\* The addon is back from the shim with an outcome, its own or an exception's:
\* a synchronous call returns or throws there and then, a worker leaves it for
\* the main thread.
Leave(c, r) ==
  IF main = c
  THEN call' = [call EXCEPT ![c] = Settled(r)] /\ main' = None
  ELSE call' = [call EXCEPT ![c] = [r EXCEPT !.stage = "executed"]] /\ UNCHANGED main

LeaveShim(c) ==
  /\ call[c].stage = "returned"
  /\ Room \/ Source(call[c]) \in Short
  /\ Leave(c, CopyAndFree(call[c]))
  /\ UNCHANGED up

\* The copy finds no memory.  node-addon-api makes a worker's exception its
\* error; nothing in run_sync catches one, so that it becomes an error of
\* JavaScript or ends the process as that library is built.
CopyFails(c) ==
  /\ call[c].stage = "returned"
  /\ ~Room /\ Source(call[c]) \notin Short
  /\ \/ Leave(c, CopyThrown(call[c])) /\ UNCHANGED up
     \/ main = c /\ up' = FALSE /\ UNCHANGED <<call, main>>

\* Slip: OnOK settles the deferred of a success only.
CompletesSuccess(c) == call[c].stage = "executed" /\ call[c].ok

Executed(c) == call[c].stage = "executed"

\* OnOK, or OnError after an exception, on the main thread: the deferred is
\* resolved or rejected.
Complete(c) ==
  /\ Executed(c)
  /\ main = None
  /\ call' = [call EXCEPT ![c] = Settled(@)]
  /\ UNCHANGED <<main, up>>

\* The event loop waits, or is gone.
Wait == (main = None \/ ~up) /\ UNCHANGED vars

Step(c) ==
  /\ up
  /\ \/ Execute(c) \/ ShimReturns(c) \/ ShimThrows(c) \/ LeaveShim(c) \/ CopyFails(c)
     \/ Complete(c)

Next == Wait \/ \E c \in Calls : (up /\ Call(c)) \/ Step(c)

\* The pool and the event loop take what is theirs to take; no caller must call.
Spec == Init /\ [][Next]_vars /\ \A c \in Calls : WF_vars(Step(c))

-----------------------------------------------------------------------------
\* Every variable has its type.
TypeOK == call \in [Calls -> Records] /\ main \in Calls \cup {None} /\ up \in BOOLEAN

\* A call has one string of the shim at most.  It outlives the shim's return to
\* the addon only where the addon's copy of it found no memory (addon.cpp 55
\* throws before 56 frees it): such a string is never freed, and its caller is
\* told of a failure.  The others are never more than the calls that can be in
\* the shim at one time, on any path through run and call_shim.
StringsOwned ==
  /\ \A c \in Calls : HoldsString(c) =>
       /\ call[c].out = None \/ call[c].err = None
       /\ call[c].stage # "returned" =>
            /\ call[c].stage \in {"executed", "settled"} /\ call[c].text = "bad_alloc"
            /\ call[c].stage = "settled" => call[c].answer \in {"bad_alloc", "notFound"}
  /\ Cardinality({c \in Calls : HoldsString(c) /\ call[c].stage = "returned"}) <= Workers + 1

\* The caller says the dates may be ignored: by ignoreTime, or by the alias
\* when ignoreTime is left out.
MayIgnoreTime(ask) ==
  ask.ignoreTime = TRUE \/ (ask.ignoreTime = None /\ ask.skipValidityPeriodCheck = TRUE)

\* A value goes only to a caller for whom the input holds, on the options that
\* very caller gave, and the engine's message only to one for whom it does not.
\* An input that holds may still be refused: for want of memory, or by the
\* plugin, which drops the option to ignore the dates, whatever its comment says
\* of the core plugin, which reads it (did-resolver-plugin.ts 19 and 70-73).
AnswersItsOwnCall ==
  \A c \in Calls :
    LET ask == call[c].ask
        verdict == Verdict[ask.input]
        holds == \/ verdict = "holds"
                 \/ verdict = "expired" /\ MayIgnoreTime(ask)
                 \/ verdict = "nameless" /\ ask.returns = "jwk"
    IN call[c].stage = "settled" /\ ask.chain = "given" =>
         /\ call[c].answer = "value" => holds
         /\ call[c].answer = "exception" => ~holds
         /\ holds => \/ call[c].answer \in {"value"} \cup Short
                     \/ /\ call[c].answer = "notFound" /\ ask.via = "plugin"
                        /\ verdict = "expired" \/ call[c].text \in Short

\* Every call that is made settles, or the process is gone: a worker's failure,
\* a foreign exception or a full heap leaves no promise pending.
EveryCallSettles ==
  \A c \in Calls : call[c].stage # "idle" ~> call[c].stage = "settled" \/ ~up
=============================================================================
