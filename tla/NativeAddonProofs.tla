--------------------------- MODULE NativeAddonProofs ---------------------------
(***************************************************************************)
(* Theorems about NativeAddon, for any number of calls, inputs and threads *)
(* and a heap of any size.  A step changes one call, so the invariant is a *)
(* statement about single calls (RecordInv), and two about all of them:    *)
(* who is in the shim on the main thread, and how many on the pool.        *)
(***************************************************************************)
EXTENDS NativeAddon, FiniteSetTheorems, TLAPS

Failures == {"exception"} \cup Short

\* What the shim or the addon says of a failure, when it says the engine threw.
Blames(ask, text) == text = "exception" => Engine(ask) = "exception"

\* What the engine returns, rather than throws.
Returned(ask) == Engine(ask) \in {"value", "garbled", "nameless"}

Holds(ask) ==
  \/ Verdict[ask.input] = "holds"
  \/ Verdict[ask.input] = "expired" /\ MayIgnoreTime(ask)
  \/ Verdict[ask.input] = "nameless" /\ ask.returns = "jwk"

\* What a settled call may have been answered (AnswersItsOwnCall, of one call).
RightAnswer(r) ==
  r.ask.chain = "given" =>
    /\ r.answer = "value" => Holds(r.ask)
    /\ r.answer = "exception" => ~Holds(r.ask)
    /\ Holds(r.ask) => \/ r.answer \in {"value"} \cup Short
                       \/ /\ r.answer = "notFound" /\ r.ask.via = "plugin"
                          /\ Verdict[r.ask.input] = "expired" \/ r.text \in Short

NoString(r) == r.out = None /\ r.err = None

\* What an outcome of call_shim may be.
Outcome(r) ==
  IF r.ok THEN r.text = Engine(r.ask) /\ Returned(r.ask)
  ELSE r.text \in Failures /\ Blames(r.ask, r.text)

\* A string left behind belongs to an outcome that says so.
Told(r) == NoString(r) \/ (r.text = "bad_alloc" /\ ~r.ok)

\* One call, from its arguments to its answer.
RecordInv(r) ==
  /\ r.stage # "idle" => r.ask \in Asked
  /\ r.stage = "queued" => r.ask.via # "sync"
  /\ r.stage \in {"idle", "queued", "shim"} => ~r.ok /\ NoString(r)
  /\ r.out = None \/ r.err = None
  /\ r.stage = "returned" =>
       IF r.ok THEN r.out = Engine(r.ask) /\ Returned(r.ask)
       ELSE r.err \in Failures \cup {None} /\ Blames(r.ask, r.err)
  /\ r.stage \in {"executed", "settled"} => Told(r)
  /\ r.stage = "executed" => Outcome(r)
  /\ r.stage = "settled" => RightAnswer(r) /\ (NoString(r) \/ r.answer \in {"bad_alloc", "notFound"})

InMain(c) == InShim(c) /\ call[c].ask.via = "sync"

\* A synchronous call that is in the shim is the one the main thread is in.
MainHeld == \A c \in Calls : InMain(c) => main = c

PoolBound == Cardinality(OnPool) <= Workers

AddonInv == TypeOK /\ (\A c \in Calls : RecordInv(call[c])) /\ MainHeld /\ PoolBound

USE PoolAndHeapAreNatural, CallsAreFinite, EngineAnswersAll, NoneIsNoText

-----------------------------------------------------------------------------
\* What the engine makes of a call, verdict by verdict.
LEMMA EngineOutcomes ==
  ASSUME NEW ask \in Asked
  PROVE  /\ Verdict[ask.input] \in Verdicts
         /\ Engine(ask) \in {"value", "garbled", "nameless", "foreign", "exception"}
         /\ Verdict[ask.input] = "holds" => Engine(ask) = "value"
         /\ Verdict[ask.input] = "expired" =>
              Engine(ask) = IF MayIgnoreTime(ask) /\ ask.via # "plugin" THEN "value" ELSE "exception"
         /\ Verdict[ask.input] = "fails" => Engine(ask) = "exception"
         /\ Verdict[ask.input] \in {"foreign", "garbled", "nameless"} => Engine(ask) = Verdict[ask.input]
<1> DEFINE verdict == Verdict[ask.input]
<1>1. ask \in Asks
  OBVIOUS
<1>2. verdict \in Verdicts
  BY <1>1 DEF Asks
<1>3. IgnoreTimeFrom(ask) <=> (MayIgnoreTime(ask) /\ ask.via # "plugin")
  <2>1. ask.ignoreTime # None => ask.ignoreTime \in BOOLEAN
    BY <1>1 DEF Asks
  <2> QED
    BY <2>1 DEF IgnoreTimeFrom, MayIgnoreTime
<1> QED
  BY <1>2, <1>3 DEF Engine, Verdicts

\* A step that changes one call to a record that satisfies the invariant keeps
\* it for all, provided the main thread and the pool have room for that call.
LEMMA OneCallChanges ==
  ASSUME AddonInv, NEW c \in Calls, NEW r \in Records, RecordInv(r),
         call' = [call EXCEPT ![c] = r],
         main' \in Calls \cup {None}, up' \in BOOLEAN,
         r.stage \in {"shim", "returned"} /\ r.ask.via = "sync" => main' = c,
         \A d \in Calls \ {c} : InMain(d) => main' = d,
         r.stage \in {"shim", "returned"} /\ r.ask.via # "sync" =>
           c \in OnPool \/ Cardinality(OnPool) < Workers
  PROVE  AddonInv'
<1>1. call \in [Calls -> Records]
  BY DEF AddonInv, TypeOK
<1>2. call' \in [Calls -> Records] /\ call'[c] = r /\ \A d \in Calls \ {c} : call'[d] = call[d]
  BY <1>1
<1>3. TypeOK'
  BY <1>2 DEF TypeOK
<1>4. \A d \in Calls : RecordInv(call'[d])
  BY <1>2 DEF AddonInv
<1>5. MainHeld'
  BY <1>2 DEF MainHeld, InMain, InShim
<1>6. PoolBound'
  <2>1. IsFiniteSet(OnPool) /\ Cardinality(OnPool) \in Nat /\ Cardinality(OnPool) <= Workers
    BY FS_Subset, FS_CardinalityType DEF AddonInv, PoolBound, OnPool
  <2>2. CASE OnPool' \subseteq OnPool
    BY <2>1, <2>2, FS_Subset, FS_CardinalityType DEF PoolBound
  <2>3. CASE ~(OnPool' \subseteq OnPool)
    <3>1. c \notin OnPool /\ OnPool' \subseteq OnPool \cup {c}
      BY <1>2, <2>3 DEF OnPool, InShim
    <3>2. c \in OnPool'
      BY <2>3, <3>1
    <3>3. Cardinality(OnPool) < Workers
      BY <1>2, <3>1, <3>2 DEF OnPool, InShim
    <3>4. Cardinality(OnPool \cup {c}) = Cardinality(OnPool) + 1 /\ IsFiniteSet(OnPool \cup {c})
      BY <2>1, <3>1, FS_AddElement
    <3>5. Cardinality(OnPool') <= Cardinality(OnPool \cup {c}) /\ Cardinality(OnPool') \in Nat
      BY <3>1, <3>4, FS_Subset, FS_CardinalityType
    <3> QED
      BY <2>1, <3>3, <3>4, <3>5 DEF PoolBound
  <2> QED
    BY <2>2, <2>3
<1> QED
  BY <1>3, <1>4, <1>5, <1>6 DEF AddonInv

\* Settled: what an outcome says is enough to answer the call.
LEMMA SettledRight ==
  ASSUME NEW r \in Records, r.ask \in Asked, Outcome(r), Told(r), r.out = None \/ r.err = None
  PROVE  Settled(r) \in Records /\ RecordInv(Settled(r)) /\ Settled(r).stage = "settled"
<1> DEFINE answer == Wrapped(r)
           s == Settled(r)
<1>1. Engine(r.ask) \in {"value", "garbled", "nameless", "foreign", "exception"}
  BY EngineOutcomes
<1>2. answer \in Answers
  BY <1>1 DEF Wrapped, IsOutput, Answers, Failures, Records, Outcome, Short
<1>3. /\ s = [r EXCEPT !.stage = "settled", !.answer = answer]
      /\ s \in Records
  BY <1>2 DEF Settled, Records, Stages
<1>4. /\ s.stage = "settled" /\ s.answer = answer /\ s.ask = r.ask /\ s.ok = r.ok
      /\ s.out = r.out /\ s.err = r.err /\ s.text = r.text
  BY <1>3 DEF Records
<1>5. CASE r.ok
  <2>1. r.text \in {"value", "garbled", "nameless"} /\ r.text = Engine(r.ask)
    BY <1>5 DEF Outcome, Returned
  <2>2. answer = IF IsOutput(r) THEN "value"
                 ELSE IF r.ask.via = "plugin" THEN "notFound" ELSE "invalid output"
    BY <1>5 DEF Wrapped
  <2>3. IsOutput(r) <=> Holds(r.ask)
    <3>1. CASE Verdict[r.ask.input] = "holds"
      BY <2>1, <3>1, EngineOutcomes DEF IsOutput, Holds
    <3>2. CASE Verdict[r.ask.input] = "expired"
      BY <2>1, <3>2, EngineOutcomes DEF IsOutput, Holds
    <3>3. CASE Verdict[r.ask.input] \notin {"holds", "expired"}
      BY <2>1, <3>3, EngineOutcomes DEF IsOutput, Holds, Verdicts
    <3> QED BY <3>1, <3>2, <3>3
  <2>4. RightAnswer(s)
    BY <1>4, <2>2, <2>3 DEF RightAnswer
  <2> QED BY <1>3, <1>4, <1>5, <2>4 DEF RecordInv, Told, NoString
<1>6. CASE ~r.ok
  <2>1. r.text \in {"exception"} \cup Short /\ (r.text = "exception" => Engine(r.ask) = "exception")
    BY <1>6 DEF Outcome, Failures, Blames
  <2>2. answer = IF r.ask.via = "plugin" THEN "notFound" ELSE r.text
    BY <1>6, <2>1 DEF Wrapped, Short
  <2>3. Engine(r.ask) = "exception" /\ Holds(r.ask) =>
          r.ask.via = "plugin" /\ Verdict[r.ask.input] = "expired"
    BY EngineOutcomes DEF Holds
  <2>4. RightAnswer(s)
    BY <1>4, <2>1, <2>2, <2>3 DEF RightAnswer, Short
  <2>5. NoString(s) \/ answer \in {"bad_alloc", "notFound"}
    BY <1>4, <2>2 DEF Told, NoString
  <2> QED BY <1>3, <1>4, <2>4, <2>5 DEF RecordInv, Told, NoString
<1> QED
  BY <1>5, <1>6

-----------------------------------------------------------------------------
LEMMA AddonInit == Init => AddonInv
<1> SUFFICES ASSUME Init PROVE AddonInv
  OBVIOUS
<1>1. Idle \in Records
  BY DEF Idle, Records, Stages
<1>2. TypeOK
  BY <1>1 DEF Init, TypeOK
<1>3. \A c \in Calls : RecordInv(call[c]) /\ ~InShim(c)
  BY DEF Init, Idle, RecordInv, NoString, InShim
<1>4. MainHeld
  BY <1>3 DEF MainHeld, InMain
<1>5. OnPool = {}
  BY <1>3 DEF OnPool
<1>6. PoolBound
  BY <1>5, FS_EmptySet DEF PoolBound
<1> QED
  BY <1>2, <1>3, <1>4, <1>6 DEF AddonInv

LEMMA StaysPut ==
  ASSUME AddonInv, UNCHANGED <<call, main>>, up' \in BOOLEAN
  PROVE  AddonInv'
BY DEF AddonInv, TypeOK, MainHeld, PoolBound, OnPool, InMain, InShim

LEMMA CallKeeps ==
  ASSUME AddonInv, NEW c \in Calls, Call(c)
  PROVE  AddonInv'
<1>1. /\ call[c] \in Records /\ RecordInv(call[c]) /\ call[c].stage = "idle" /\ main = None
      /\ ~call[c].ok /\ call[c].out = None /\ call[c].err = None /\ up' \in BOOLEAN
  BY DEF AddonInv, TypeOK, Call, RecordInv, NoString
<1>2. \A d \in Calls : ~InMain(d)
  BY <1>1 DEF AddonInv, MainHeld
<1>3. PICK ask \in Asked :
         IF ~Presentable(ask)
         THEN /\ call' = [call EXCEPT ![c] = [call[c] EXCEPT !.stage = "settled", !.ask = ask,
                                                             !.answer = RefusedUnasked(ask)]]
              /\ UNCHANGED main
         ELSE IF ask.via = "sync"
         THEN /\ call' = [call EXCEPT ![c] = [call[c] EXCEPT !.stage = "shim", !.ask = ask]]
              /\ main' = c
         ELSE /\ call' = [call EXCEPT ![c] = [call[c] EXCEPT !.stage = "queued", !.ask = ask]]
              /\ UNCHANGED main
  BY DEF Call, AddonInv, TypeOK
<1>4. CASE ~Presentable(ask)
  <2> DEFINE r == [call[c] EXCEPT !.stage = "settled", !.ask = ask, !.answer = RefusedUnasked(ask)]
  <2>1. r \in Records
    BY <1>1 DEF Records, Stages, RefusedUnasked, Answers
  <2>2. r.stage = "settled" /\ r.ask = ask /\ r.out = None /\ r.err = None
    BY <1>1 DEF Records
  <2>3. ask.chain # "given"
    BY <1>4 DEF Presentable
  <2>4. RecordInv(r)
    BY <2>2, <2>3 DEF RecordInv, RightAnswer, Told, NoString
  <2>5. call' = [call EXCEPT ![c] = r] /\ main' = None
    BY <1>1, <1>3, <1>4
  <2> HIDE DEF r
  <2> QED
    BY <1>1, <1>2, <2>1, <2>2, <2>4, <2>5, OneCallChanges
<1>5. CASE Presentable(ask) /\ ask.via = "sync"
  <2> DEFINE r == [call[c] EXCEPT !.stage = "shim", !.ask = ask]
  <2>1. r \in Records
    BY <1>1 DEF Records, Stages
  <2>2. r.stage = "shim" /\ r.ask = ask /\ ~r.ok /\ r.out = None /\ r.err = None
    BY <1>1 DEF Records
  <2>3. RecordInv(r)
    BY <2>2 DEF RecordInv, NoString
  <2>4. call' = [call EXCEPT ![c] = r] /\ main' = c
    BY <1>3, <1>5
  <2> HIDE DEF r
  <2> QED
    BY <1>1, <1>2, <1>5, <2>1, <2>2, <2>3, <2>4, OneCallChanges
<1>6. CASE Presentable(ask) /\ ask.via # "sync"
  <2> DEFINE r == [call[c] EXCEPT !.stage = "queued", !.ask = ask]
  <2>1. r \in Records
    BY <1>1 DEF Records, Stages
  <2>2. r.stage = "queued" /\ r.ask = ask /\ ~r.ok /\ r.out = None /\ r.err = None
    BY <1>1 DEF Records
  <2>3. RecordInv(r)
    BY <1>6, <2>2 DEF RecordInv, NoString
  <2>4. call' = [call EXCEPT ![c] = r] /\ main' = None
    BY <1>1, <1>3, <1>6
  <2> HIDE DEF r
  <2> QED
    BY <1>1, <1>2, <2>1, <2>2, <2>3, <2>4, OneCallChanges
<1> QED
  BY <1>4, <1>5, <1>6

LEMMA ExecuteKeeps ==
  ASSUME AddonInv, NEW c \in Calls, Execute(c)
  PROVE  AddonInv'
<1> DEFINE r == [call[c] EXCEPT !.stage = "shim"]
<1>1. /\ call[c] \in Records /\ RecordInv(call[c]) /\ call[c].stage = "queued"
      /\ ~call[c].ok /\ call[c].out = None /\ call[c].err = None
      /\ call[c].ask \in Asked /\ call[c].ask.via # "sync" /\ up' \in BOOLEAN
  BY DEF AddonInv, TypeOK, Execute, RecordInv, NoString
<1>2. r \in Records
  BY <1>1 DEF Records, Stages
<1>3. r.stage = "shim" /\ r.ask = call[c].ask /\ ~r.ok /\ r.out = None /\ r.err = None
  BY <1>1 DEF Records
<1>4. RecordInv(r)
  BY <1>1, <1>3 DEF RecordInv, NoString
<1>5. call' = [call EXCEPT ![c] = r] /\ main' = main /\ Cardinality(OnPool) < Workers
  BY <1>1 DEF Execute, AddonInv, TypeOK
<1>6. main \in Calls \cup {None} /\ \A d \in Calls : InMain(d) => main = d
  BY DEF AddonInv, TypeOK, MainHeld
<1> HIDE DEF r
<1> QED
  BY <1>1, <1>2, <1>3, <1>4, <1>5, <1>6, OneCallChanges

\* The call stays in the shim, on the thread it is on.
LEMMA ShimKeeps ==
  ASSUME AddonInv, NEW c \in Calls, ShimReturns(c) \/ ShimThrows(c)
  PROVE  AddonInv'
<1>1. /\ call[c] \in Records /\ RecordInv(call[c]) /\ call[c].stage = "shim"
      /\ ~call[c].ok /\ call[c].out = None /\ call[c].err = None
      /\ call[c].ask \in Asked /\ call \in [Calls -> Records] /\ up' \in BOOLEAN
  BY DEF AddonInv, TypeOK, ShimReturns, ShimThrows, RecordInv, NoString
<1>2. /\ main' = main /\ main \in Calls \cup {None}
      /\ \A d \in Calls : InMain(d) => main = d
      /\ call[c].ask.via = "sync" => main = c
      /\ call[c].ask.via # "sync" => c \in OnPool
  BY <1>1 DEF AddonInv, TypeOK, MainHeld, InMain, InShim, OnPool, ShimReturns, ShimThrows
<1>3. CASE \E text \in {"value", "garbled", "nameless"} :
             /\ text = Engine(call[c].ask)
             /\ call' = [call EXCEPT ![c] = [call[c] EXCEPT !.stage = "returned", !.ok = TRUE, !.out = text]]
  <2>1. PICK text \in {"value", "garbled", "nameless"} :
             /\ text = Engine(call[c].ask)
             /\ call' = [call EXCEPT ![c] = [call[c] EXCEPT !.stage = "returned", !.ok = TRUE, !.out = text]]
    BY <1>3
  <2> DEFINE r == [call[c] EXCEPT !.stage = "returned", !.ok = TRUE, !.out = text]
  <2>2. r \in Records
    BY <1>1 DEF Records, Stages, Texts
  <2>3. r.stage = "returned" /\ r.ask = call[c].ask /\ r.ok /\ r.out = text /\ r.err = None
    BY <1>1 DEF Records
  <2>4. RecordInv(r)
    BY <1>1, <2>1, <2>3 DEF RecordInv, Returned, Failures
  <2>5. call' = [call EXCEPT ![c] = r]
    BY <2>1
  <2> HIDE DEF r
  <2> QED
    BY <1>1, <1>2, <2>2, <2>3, <2>4, <2>5, OneCallChanges
<1>4. CASE \E text \in Failures \cup {None} :
             /\ Blames(call[c].ask, text)
             /\ call' = [call EXCEPT ![c] = [call[c] EXCEPT !.stage = "returned", !.err = text]]
  <2>1. PICK text \in Failures \cup {None} :
             /\ Blames(call[c].ask, text)
             /\ call' = [call EXCEPT ![c] = [call[c] EXCEPT !.stage = "returned", !.err = text]]
    BY <1>4
  <2> DEFINE r == [call[c] EXCEPT !.stage = "returned", !.err = text]
  <2>2. r \in Records
    BY <1>1 DEF Records, Stages, Texts, Failures
  <2>3. r.stage = "returned" /\ r.ask = call[c].ask /\ ~r.ok /\ r.out = None /\ r.err = text
    BY <1>1 DEF Records
  <2>4. RecordInv(r)
    BY <1>1, <2>1, <2>3 DEF RecordInv, Returned, Failures
  <2>5. call' = [call EXCEPT ![c] = r]
    BY <2>1
  <2> HIDE DEF r
  <2> QED
    BY <1>1, <1>2, <2>2, <2>3, <2>4, <2>5, OneCallChanges
<1>5. CASE ShimReturns(c)
  <2>1. CASE Room
    BY <1>3, <1>5, <2>1 DEF ShimReturns
  <2>2. CASE ~Room
    <3>1. PICK text \in Dup("out of memory") :
               call' = [call EXCEPT ![c] = [call[c] EXCEPT !.stage = "returned", !.err = text]]
      BY <1>5, <2>2 DEF ShimReturns
    <3>2. text \in {"out of memory", None}
      BY DEF Dup
    <3>3. Blames(call[c].ask, text) /\ text \in Failures \cup {None}
      BY <3>2 DEF Blames, Texts, Failures, Short
    <3> QED
      BY <1>4, <3>1, <3>3
  <2> QED
    BY <2>1, <2>2
<1>6. CASE ShimThrows(c)
  <2>0. PICK thrown \in Thrown(call[c].ask) : \E text \in Dup(thrown) :
          call' = [call EXCEPT ![c] = [call[c] EXCEPT !.stage = "returned", !.err = text]]
    BY <1>6 DEF ShimThrows
  <2>1. PICK text \in Dup(thrown) :
          call' = [call EXCEPT ![c] = [call[c] EXCEPT !.stage = "returned", !.err = text]]
    BY <2>0
  <2>2. thrown \in {"exception", "unknown error", "bad_alloc"}
        /\ (thrown = "exception" => Engine(call[c].ask) = "exception")
    BY DEF Thrown
  <2>3. text \in {thrown, None}
    BY DEF Dup
  <2>4. text \in Failures \cup {None} /\ Blames(call[c].ask, text)
    BY <2>2, <2>3 DEF Failures, Short, Blames, Texts
  <2> QED
    BY <1>4, <2>1, <2>4
<1> QED
  BY <1>5, <1>6

\* Whether the string is copied and freed or the copy throws, what comes of it
\* is an outcome, and a string left behind is told of.
LEMMA BothOutcomes ==
  ASSUME NEW r \in Records, RecordInv(r), r.stage = "returned",
         NEW s \in {CopyAndFree(r), CopyThrown(r)}
  PROVE  /\ s \in Records /\ s.ask = r.ask /\ Outcome(s) /\ Told(s)
         /\ s.out = None \/ s.err = None
<1>1. r.out = None \/ r.err = None
  BY DEF RecordInv
<1>2. CASE s = CopyAndFree(r)
  <2> DEFINE text == Source(r)
  <2>1. text \in Texts \cup {None}
    BY DEF Records, Source, Texts, Short
  <2>2. IF r.ok THEN text = Engine(r.ask) /\ Returned(r.ask)
        ELSE text \in Failures /\ Blames(r.ask, text)
    BY DEF RecordInv, Source, Blames, Failures, Short
  <2>3. s = [r EXCEPT !.text = text, !.out = None, !.err = None]
    BY <1>2 DEF CopyAndFree
  <2> HIDE DEF text
  <2>4. s \in Records /\ s.out = None /\ s.err = None /\ s.text = text /\ s.ask = r.ask /\ s.ok = r.ok
    BY <2>1, <2>3 DEF Records
  <2> QED
    BY <2>2, <2>4 DEF Outcome, Told, NoString
<1>3. CASE s = CopyThrown(r)
  <2>1. s = [r EXCEPT !.text = "bad_alloc", !.ok = FALSE]
    BY <1>3 DEF CopyThrown
  <2>2. /\ s \in Records /\ s.out = r.out /\ s.err = r.err /\ s.text = "bad_alloc"
        /\ s.ask = r.ask /\ s.ok = FALSE
    BY <2>1 DEF Records, Texts, Short
  <2> QED
    BY <1>1, <2>2 DEF Outcome, Told, Failures, Short, Blames
<1> QED
  BY <1>2, <1>3

\* A call leaves the shim with either, and settles or waits for the main thread.
LEMMA LeaveKeeps ==
  ASSUME AddonInv, NEW c \in Calls, call[c].stage = "returned",
         NEW f \in {CopyAndFree(call[c]), CopyThrown(call[c])}, Leave(c, f), UNCHANGED up
  PROVE  AddonInv'
<1>1. /\ call[c] \in Records /\ RecordInv(call[c]) /\ up' \in BOOLEAN
      /\ call[c].ask \in Asked
      /\ main \in Calls \cup {None} /\ \A d \in Calls : InMain(d) => main = d
  BY DEF AddonInv, TypeOK, RecordInv, MainHeld
<1>2. f \in Records /\ f.ask = call[c].ask /\ Outcome(f) /\ Told(f) /\ (f.out = None \/ f.err = None)
  BY <1>1, BothOutcomes
<1>3. CASE main = c
  <2>1. call' = [call EXCEPT ![c] = Settled(f)] /\ main' = None
    BY <1>3 DEF Leave
  <2>2. Settled(f) \in Records /\ RecordInv(Settled(f)) /\ Settled(f).stage = "settled"
    BY <1>1, <1>2, SettledRight
  <2> QED
    BY <1>1, <1>3, <2>1, <2>2, OneCallChanges
<1>4. CASE main # c
  <2> DEFINE r == [f EXCEPT !.stage = "executed"]
  <2>1. call' = [call EXCEPT ![c] = r] /\ main' = main
    BY <1>4 DEF Leave
  <2>2. r \in Records
    BY <1>2 DEF Records, Stages
  <2>3. /\ r.stage = "executed" /\ r.ask = f.ask /\ r.ok = f.ok /\ r.text = f.text
        /\ r.out = f.out /\ r.err = f.err
    BY <1>2 DEF Records
  <2>4. RecordInv(r)
    BY <1>1, <1>2, <2>3 DEF RecordInv, Outcome, Told, NoString
  <2> HIDE DEF r
  <2> QED
    BY <1>1, <2>1, <2>2, <2>3, <2>4, OneCallChanges
<1> QED
  BY <1>3, <1>4

\* The end of the process leaves every call where it is.
LEMMA LeaveShimKeeps ==
  ASSUME AddonInv, NEW c \in Calls, LeaveShim(c) \/ CopyFails(c)
  PROVE  AddonInv'
<1>1. CASE LeaveShim(c)
  BY <1>1, LeaveKeeps DEF LeaveShim
<1>2. CASE CopyFails(c) /\ UNCHANGED up
  BY <1>2, LeaveKeeps, StaysPut DEF CopyFails
<1>3. CASE up' = FALSE /\ UNCHANGED <<call, main>>
  BY <1>3, StaysPut
<1> QED
  BY <1>1, <1>2, <1>3 DEF CopyFails

LEMMA CompleteKeeps ==
  ASSUME AddonInv, NEW c \in Calls, Complete(c)
  PROVE  AddonInv'
<1>1. /\ call[c] \in Records /\ RecordInv(call[c]) /\ call[c].stage = "executed"
      /\ call[c].ask \in Asked /\ up' \in BOOLEAN
      /\ main = None /\ \A d \in Calls : InMain(d) => main = d
  BY DEF AddonInv, TypeOK, Complete, Executed, RecordInv, MainHeld
<1>2. Outcome(call[c]) /\ Told(call[c]) /\ (call[c].out = None \/ call[c].err = None)
  BY <1>1 DEF RecordInv
<1>3. call' = [call EXCEPT ![c] = Settled(call[c])] /\ main' = main
  BY <1>1 DEF Complete, AddonInv, TypeOK
<1>4. Settled(call[c]) \in Records /\ RecordInv(Settled(call[c])) /\ Settled(call[c]).stage = "settled"
  BY <1>1, <1>2, SettledRight
<1> QED
  BY <1>1, <1>3, <1>4, OneCallChanges

LEMMA AddonStep == AddonInv /\ [Next]_vars => AddonInv'
<1> SUFFICES ASSUME AddonInv, [Next]_vars PROVE AddonInv'
  OBVIOUS
<1>1. CASE UNCHANGED vars
  BY <1>1, StaysPut DEF vars, AddonInv, TypeOK
<1>2. CASE Next
  <2>1. CASE Wait
    BY <1>1, <2>1 DEF Wait
  <2>2. ASSUME NEW c \in Calls, Call(c) \/ Step(c) PROVE AddonInv'
    BY <2>2, CallKeeps, ExecuteKeeps, ShimKeeps, LeaveShimKeeps, CompleteKeeps DEF Step
  <2> QED
    BY <1>2, <2>1, <2>2 DEF Next
<1> QED
  BY <1>1, <1>2

LEMMA AddonInvariant == Spec => []AddonInv
  BY AddonInit, AddonStep, PTL DEF Spec

-----------------------------------------------------------------------------
\* The type invariant, for any number of calls, threads and strings: whatever
\* the shim returns, a caller only ever gets one of the answers the JavaScript
\* layer knows.
THEOREM AddonTypeCorrect == Spec => []TypeOK
  BY AddonInvariant, PTL DEF AddonInv

\* A value or the engine's message is about the call's own input and options;
\* only memory, or the plugin's dropped option, can keep a value back (addon.cpp's
\* ResolveWorker, the wrapper in didx509.ts, the plugin).
THEOREM AnswersAreItsOwn == Spec => []AnswersItsOwnCall
<1>1. AddonInv => AnswersItsOwnCall
  BY DEF AddonInv, RecordInv, RightAnswer, Holds, AnswersItsOwnCall
<1> QED
  BY <1>1, AddonInvariant, PTL

\* The strings that are still owned are at most one for each thread that can be
\* in the shim.
LEMMA StringsAreFew ==
  ASSUME AddonInv
  PROVE  Cardinality({c \in Calls : HoldsString(c) /\ call[c].stage = "returned"}) <= Workers + 1
<1> DEFINE S == {c \in Calls : HoldsString(c) /\ call[c].stage = "returned"}
           T == OnPool \cup {main}
<1>1. IsFiniteSet(OnPool)
  BY FS_Subset DEF OnPool
<1>2. S \subseteq T
  BY DEF AddonInv, MainHeld, InMain, InShim, OnPool
<1>3. Cardinality(OnPool) <= Workers
  BY DEF AddonInv, PoolBound
<1> HIDE DEF S
<1>4. IsFiniteSet(T) /\ Cardinality(T) <= Cardinality(OnPool) + 1
  <2>1. Cardinality(OnPool) \in Nat
    BY <1>1, FS_CardinalityType
  <2>2. /\ IsFiniteSet(T)
        /\ Cardinality(T) = IF main \in OnPool THEN Cardinality(OnPool) ELSE Cardinality(OnPool) + 1
    BY <1>1, FS_AddElement, Zenon
  <2> QED BY <2>1, <2>2
<1> HIDE DEF T
<1>5. Cardinality(S) <= Cardinality(T) /\ IsFiniteSet(S)
  BY <1>2, <1>4, FS_Subset
<1>6. Cardinality(S) \in Nat /\ Cardinality(T) \in Nat /\ Cardinality(OnPool) \in Nat
  BY <1>1, <1>4, <1>5, FS_CardinalityType
<1>7. Cardinality(S) <= Workers + 1
  BY <1>3, <1>4, <1>5, <1>6
<1> QED
  BY <1>7 DEF S

\* A string of the shim outlives its call's return to the addon only where the
\* copy of it threw, and then the caller is told of a failure: on every path
\* through run and call_shim, however full the heap is.
THEOREM StringsLeakOnlyByThrow == Spec => []StringsOwned
<1>1. AddonInv => StringsOwned
  <2> SUFFICES ASSUME AddonInv PROVE StringsOwned
    OBVIOUS
  <2>1. ASSUME NEW c \in Calls, HoldsString(c)
        PROVE  /\ call[c].out = None \/ call[c].err = None
               /\ call[c].stage # "returned" =>
                    /\ call[c].stage \in {"executed", "settled"} /\ call[c].text = "bad_alloc"
                    /\ call[c].stage = "settled" => call[c].answer \in {"bad_alloc", "notFound"}
    BY <2>1 DEF AddonInv, TypeOK, Records, Stages, RecordInv, Told, NoString, HoldsString
  <2> QED
    BY <2>1, StringsAreFew DEF StringsOwned
<1> QED
  BY <1>1, AddonInvariant, PTL
=============================================================================
