--------------------------- MODULE StudioClientProofs ---------------------------
(***************************************************************************)
(* The page's invariants, for any chains, templates, pressed steps and     *)
(* number of fetches in flight.                                            *)
(***************************************************************************)
EXTENDS StudioClient, FiniteSetTheorems, TLAPS

\* What a fetch in flight was made of still is what the page holds, or the
\* fetch has been overtaken.
InStep ==
  \A c \in Calls : call[c] # None /\ ~call[c].crossed =>
    /\ call[c].kind \in {"sign", "run", "check"} => identity # None /\ call[c].chain = identity.chain
    /\ call[c].kind = "verify" =>
         signed # None /\ call[c].chain = signed.chain /\ call[c].format = signed.format
    /\ call[c].kind = "upload" => call[c].key = keyField

\* What every request carries, by its kind.
WellMade ==
  \A c \in Calls : call[c] # None =>
    /\ call[c].kind # "reset" => call[c].chain \in Chains
    /\ call[c].kind = "generate" => call[c].key = LeafKey(call[c].chain)
    /\ call[c].kind = "verify" => call[c].format \in Formats

\* credoRunning, without counting.
RunsApart ==
  /\ running => \E c \in Calls : InFlight("run") = {c}
  /\ ~running => InFlight("run") = {}

PageInv ==
  TypeOK /\ WellMade /\ ButtonsAgree /\ RunsApart /\ InStep /\ StaleOnlyIfOvertaken
  /\ KeyGoesWithChain /\ NoButtonStuck

-----------------------------------------------------------------------------
(* What a send and a settlement do to the fetches in flight.               *)

LEMMA LeafKeyIsKey == \A chain \in Chains : LeafKey(chain) \in Keys
BY DEF LeafKey, Keys

\* A send takes a free slot and leaves the others alone.
LEMMA SendAdds ==
  ASSUME TypeOK, NEW kind \in Kinds, NEW chain \in Chains \cup {None}, NEW key \in Keys \cup {None},
         NEW format \in Formats \cup {None}, NEW through \in Steps,
         Send(kind, chain, key, format, through)
  PROVE  /\ call' \in [Calls -> Requests \cup {None}]
         /\ \E c \in Calls :
              /\ call[c] = None
              /\ call'[c] # None
              /\ call'[c].kind = kind /\ call'[c].chain = chain /\ call'[c].key = key
              /\ call'[c].format = format /\ call'[c].through = through /\ ~call'[c].crossed
              /\ \A d \in Calls : d # c => call'[d] = call[d]
              /\ \A k \in Kinds : InFlight(k)' = IF k = kind THEN InFlight(k) \cup {c} ELSE InFlight(k)
<1> DEFINE sent == [kind |-> kind, chain |-> chain, key |-> key,
                    template |-> IF kind = "sign" THEN template ELSE None,
                    format |-> format, through |-> through, crossed |-> FALSE]
<1>1. PICK c \in Calls : call[c] = None /\ call' = [call EXCEPT ![c] = sent]
  BY DEF Send
<1>2. sent \in Requests /\ sent # None
  <2>1. (IF kind = "sign" THEN template ELSE None) \in Templates \cup {None}
    BY DEF TypeOK
  <2>2. sent \in Requests
    BY <2>1 DEF Requests
  <2> QED BY <2>2, NoneIsNothing
<1>3. call \in [Calls -> Requests \cup {None}]
  BY DEF TypeOK
<1>4. call' \in [Calls -> Requests \cup {None}]
  BY <1>1, <1>2, <1>3
<1>5. call'[c] = sent /\ \A d \in Calls : d # c => call'[d] = call[d]
  BY <1>1, <1>3
<1>6. sent.kind = kind /\ sent.chain = chain /\ sent.key = key /\ sent.format = format
      /\ sent.through = through /\ ~sent.crossed
  OBVIOUS
<1> HIDE DEF sent
<1>7. \A k \in Kinds : InFlight(k)' = IF k = kind THEN InFlight(k) \cup {c} ELSE InFlight(k)
  BY <1>1, <1>2, <1>5, <1>6 DEF InFlight
<1> QED BY <1>1, <1>2, <1>4, <1>5, <1>6, <1>7

\* A settlement empties one slot and at most marks the others as overtaken.
LEMMA SettleFrees ==
  ASSUME TypeOK, NEW c \in Calls, NEW kinds, Settle(c, kinds)
  PROVE  /\ call' \in [Calls -> Requests \cup {None}]
         /\ call'[c] = None
         /\ \A d \in Calls : d # c =>
              /\ call'[d] = None <=> call[d] = None
              /\ call[d] # None =>
                   /\ call'[d].kind = call[d].kind /\ call'[d].chain = call[d].chain
                   /\ call'[d].key = call[d].key /\ call'[d].format = call[d].format
                   /\ call'[d].through = call[d].through
                   /\ call'[d].crossed = (call[d].crossed \/ call[d].kind \in kinds)
         /\ \A k \in Kinds : InFlight(k)' = InFlight(k) \ {c}
<1>1. \A d \in Calls : call[d] \in Requests \cup {None}
  BY DEF TypeOK
<1>2. \A d \in Calls : d # c /\ call[d] # None =>
        /\ call'[d] = [call[d] EXCEPT !.crossed = @ \/ call[d].kind \in kinds]
        /\ call'[d] \in Requests
        /\ call'[d].kind = call[d].kind /\ call'[d].chain = call[d].chain
        /\ call'[d].key = call[d].key /\ call'[d].format = call[d].format
        /\ call'[d].through = call[d].through
        /\ call'[d].crossed = (call[d].crossed \/ call[d].kind \in kinds)
  <2> SUFFICES ASSUME NEW d \in Calls, d # c, call[d] # None
               PROVE  /\ call'[d] = [call[d] EXCEPT !.crossed = @ \/ call[d].kind \in kinds]
                      /\ call'[d] \in Requests
                      /\ call'[d].kind = call[d].kind /\ call'[d].chain = call[d].chain
                      /\ call'[d].key = call[d].key /\ call'[d].format = call[d].format
                      /\ call'[d].through = call[d].through
                      /\ call'[d].crossed = (call[d].crossed \/ call[d].kind \in kinds)
    OBVIOUS
  <2>1. call'[d] = [call[d] EXCEPT !.crossed = @ \/ call[d].kind \in kinds]
    BY DEF Settle
  <2>2. call[d] \in Requests
    BY <1>1
  <2> DEFINE over == call[d].crossed \/ call[d].kind \in kinds
  <2>3. over \in BOOLEAN
    OBVIOUS
  <2>4. call'[d] = [call[d] EXCEPT !.crossed = over]
    BY <2>1
  <2> HIDE DEF over
  <2>5. /\ call'[d] \in Requests
        /\ call'[d].kind = call[d].kind /\ call'[d].chain = call[d].chain
        /\ call'[d].key = call[d].key /\ call'[d].format = call[d].format
        /\ call'[d].through = call[d].through
        /\ call'[d].crossed = over
    BY <2>2, <2>3, <2>4 DEF Requests
  <2> QED BY <2>1, <2>5 DEF over
<1>3. call'[c] = None /\ \A d \in Calls : call[d] = None => call'[d] = None
  BY DEF Settle
<1>4. call' \in [Calls -> Requests \cup {None}]
  <2>1. DOMAIN call' = Calls /\ call' = [d \in Calls |-> call'[d]]
    BY DEF Settle
  <2> QED BY <1>2, <1>3, <2>1
<1>5. \A d \in Calls : d # c => (call'[d] = None <=> call[d] = None)
  BY <1>2, <1>3, NoneIsNothing
<1>6. \A k \in Kinds : InFlight(k)' = InFlight(k) \ {c}
  BY <1>2, <1>3, <1>5 DEF InFlight
<1> QED BY <1>2, <1>3, <1>4, <1>5, <1>6

-----------------------------------------------------------------------------
(* Types.                                                                  *)

LEMMA TypeInit == Init => TypeOK /\ WellMade
<1> SUFFICES ASSUME Init PROVE TypeOK /\ WellMade
  OBVIOUS
<1>1. off \in [run : BOOLEAN, verify : BOOLEAN]
  BY DEF Init
<1>2. call \in [Calls -> Requests \cup {None}]
  BY DEF Init
<1> QED BY <1>1, <1>2 DEF Init, TypeOK, WellMade

\* syncCredoButtons leaves two Booleans, resetCredo the other parts typed too.
LEMMA SyncTyped == SyncCredoButtons => off' \in [run : BOOLEAN, verify : BOOLEAN]
<1> DEFINE r == ~CanRun'
           v == ~(CanRun /\ Issued)'
<1>1. r \in BOOLEAN /\ v \in BOOLEAN
  OBVIOUS
<1>2. SyncCredoButtons => off' = [run |-> r, verify |-> v]
  BY DEF SyncCredoButtons
<1> HIDE DEF r, v
<1> QED BY <1>1, <1>2

LEMMA ResetTyped ==
  ResetCredo => /\ result' = None
                /\ off' \in [run : BOOLEAN, verify : BOOLEAN]
BY SyncTyped DEF ResetCredo

\* A send of a well-made request keeps the fetches typed and well made.
LEMMA SendTyped ==
  ASSUME TypeOK, WellMade, NEW kind \in Kinds, NEW chain \in Chains \cup {None},
         NEW key \in Keys \cup {None}, NEW format \in Formats \cup {None}, NEW through \in Steps,
         Send(kind, chain, key, format, through),
         kind # "reset" => chain \in Chains,
         kind = "generate" => key = LeafKey(chain),
         kind = "verify" => format \in Formats
  PROVE  call' \in [Calls -> Requests \cup {None}] /\ WellMade'
<1>1. call' \in [Calls -> Requests \cup {None}]
  BY SendAdds
<1>2. PICK c \in Calls :
        /\ call'[c].kind = kind /\ call'[c].chain = chain /\ call'[c].key = key
        /\ call'[c].format = format
        /\ \A d \in Calls : d # c => call'[d] = call[d]
  BY SendAdds
<1>3. WellMade'
  BY <1>2 DEF WellMade
<1> QED BY <1>1, <1>3

\* The page and the fetches keep their types, action by action.
LEMMA TypeStep == TypeOK /\ WellMade /\ [Next]_vars => TypeOK' /\ WellMade'
<1> SUFFICES ASSUME TypeOK, WellMade, [Next]_vars PROVE TypeOK' /\ WellMade'
  OBVIOUS
<1>c. \A c \in Calls : call[c] # None => call[c] \in Requests
  BY DEF TypeOK
<1>i. identity # None => identity \in Identities /\ identity.chain \in Chains
                         /\ identity.key \in Keys \cup {None}
  BY DEF TypeOK, Identities
<1>s. ASSUME NEW c \in Calls, NEW kinds, Settle(c, kinds)
      PROVE  call' \in [Calls -> Requests \cup {None}] /\ WellMade'
  BY <1>s, SettleFrees DEF WellMade
<1>1. CASE UNCHANGED vars
  BY <1>1 DEF vars, studio, credo, TypeOK, WellMade
<1>2. CASE ClickGenerate
  <2>1. PICK chain \in Chains : Send("generate", chain, LeafKey(chain), None, 1)
    BY <1>2 DEF ClickGenerate
  <2>2. call' \in [Calls -> Requests \cup {None}] /\ WellMade'
    BY <2>1, SendTyped, LeafKeyIsKey DEF Kinds, Steps
  <2> QED BY <1>2, <2>2 DEF ClickGenerate, studio, credo, TypeOK
<1>3. CASE ClickUpload
  <2>0. keyField \in Keys \cup {None}
    BY KeysAreTyped DEF TypeOK
  <2>1. PICK chain \in Chains : Send("upload", chain, keyField, None, 1)
    BY <1>3 DEF ClickUpload
  <2>2. call' \in [Calls -> Requests \cup {None}] /\ WellMade'
    BY <2>0, <2>1, SendTyped DEF Kinds, Steps
  <2> QED BY <1>3, <2>2 DEF ClickUpload, studio, credo, TypeOK
<1>4. CASE EditKey
  <2>1. \A c \in Calls : c \in InFlight("upload") =>
          [call[c] EXCEPT !.crossed = TRUE] \in Requests
    BY <1>c DEF InFlight, Requests
  <2>2. call' \in [Calls -> Requests \cup {None}]
    BY <1>4, <2>1 DEF EditKey, TypeOK
  <2>3. \A c \in Calls : call'[c] # None =>
          /\ call[c] # None
          /\ call'[c].kind = call[c].kind /\ call'[c].chain = call[c].chain
          /\ call'[c].key = call[c].key /\ call'[c].format = call[c].format
    BY <1>4, <1>c DEF EditKey, InFlight, Requests
  <2>4. WellMade'
    BY <2>3 DEF WellMade
  <2> QED BY <1>4, <2>2, <2>4 DEF EditKey, credo, TypeOK
<1>5. CASE ChooseTemplate
  <2>1. signOff' \in BOOLEAN
    BY <1>5 DEF ChooseTemplate, TypeOK
  <2> QED BY <1>5, <2>1 DEF ChooseTemplate, credo, TypeOK, WellMade
<1>6. CASE ClickSign
  <2>0. identity.chain \in Chains /\ identity.key \in Keys \cup {None}
    BY <1>6, <1>i DEF ClickSign
  <2>1. PICK format \in Formats \cup {None} : Send("sign", identity.chain, identity.key, format, 1)
    <3>1. Options \subseteq Formats
      BY <1>i, TemplatesOffer DEF Options, TypeOK
    <3> QED BY <1>6, <3>1 DEF ClickSign
  <2>3. "sign" \in Kinds /\ 1 \in Steps /\ identity.chain \in Chains \cup {None}
    BY <2>0 DEF Kinds, Steps
  <2>2. call' \in [Calls -> Requests \cup {None}] /\ WellMade'
    BY <2>0, <2>1, <2>3, SendTyped
  <2> QED BY <1>6, <2>2 DEF ClickSign, credo, TypeOK
<1>7. CASE ClickVerify
  <2>1. signed \in Credentials /\ signed.chain \in Chains /\ signed.format \in Formats
    BY <1>7 DEF ClickVerify, TypeOK, Credentials
  <2>2. Send("verify", signed.chain, None, signed.format, 1)
    BY <1>7 DEF ClickVerify
  <2>3. /\ signed.chain \in Chains /\ signed.chain \in Chains \cup {None}
        /\ signed.format \in Formats /\ signed.format \in Formats \cup {None}
        /\ "verify" \in Kinds /\ 1 \in Steps /\ None \in Chains \cup {None}
    BY <2>1 DEF Kinds, Steps
  <2>4. call' \in [Calls -> Requests \cup {None}] /\ WellMade'
    BY <2>2, <2>3, SendTyped
  <2> QED BY <1>7, <2>4 DEF ClickVerify, credo, TypeOK
<1>8. ASSUME NEW n \in Throughs, ClickRun(n) PROVE TypeOK' /\ WellMade'
  <2>0. identity.chain \in Chains /\ identity.key \in Keys \cup {None}
    BY <1>8, <1>i DEF ClickRun
  <2>1. n \in Steps /\ Send("run", identity.chain, identity.key, None, n)
    BY <1>8, ThroughsAreSteps DEF ClickRun
  <2>2. call' \in [Calls -> Requests \cup {None}] /\ WellMade'
    BY <2>0, <2>1, SendTyped DEF Kinds
  <2>3. off' \in [run : BOOLEAN, verify : BOOLEAN]
    BY <1>8, SyncTyped DEF ClickRun, TypeOK
  <2> QED BY <1>8, <2>2, <2>3 DEF ClickRun, studio, TypeOK
<1>9. CASE ClickCredoVerify
  <2>0. identity.chain \in Chains /\ identity.key \in Keys \cup {None}
    BY <1>9, <1>i DEF ClickCredoVerify
  <2>1. Send("check", identity.chain, identity.key, None, 7)
    BY <1>9 DEF ClickCredoVerify
  <2>2. call' \in [Calls -> Requests \cup {None}] /\ WellMade'
    BY <2>0, <2>1, SendTyped DEF Kinds, Steps
  <2>3. off' \in [run : BOOLEAN, verify : BOOLEAN]
    BY <1>9, SyncTyped DEF ClickCredoVerify, TypeOK
  <2> QED BY <1>9, <2>2, <2>3 DEF ClickCredoVerify, studio, TypeOK
<1>10. CASE ClickReset
  <2>1. Send("reset", None, None, None, 1)
    BY <1>10 DEF ClickReset
  <2>2. call' \in [Calls -> Requests \cup {None}] /\ WellMade'
    BY <2>1, SendTyped DEF Kinds, Steps
  <2> QED BY <1>10, <2>2 DEF ClickReset, studio, credo, TypeOK
<1>11. CASE StatusAnswers
  <2>1. result' \in Results \cup {None}
        /\ off' \in [run : BOOLEAN, verify : BOOLEAN]
    BY <1>11, ResetTyped DEF StatusAnswers, TypeOK
  <2> QED BY <1>11, <2>1 DEF StatusAnswers, studio, TypeOK, WellMade
<1>12. ASSUME NEW c \in Calls, Load(c) PROVE TypeOK' /\ WellMade'
  <2>1. call[c] \in Requests /\ call[c].chain \in Chains
    BY <1>12, <1>c DEF Load, WellMade
  <2>2. identity' \in Identities
    <3> DEFINE key == IF call[c].kind = "generate" THEN LeafKey(call[c].chain) ELSE keyField
               present == call[c].key # None
    <3>1. key \in Keys \cup {None} /\ present \in BOOLEAN /\ call[c].crossed \in BOOLEAN
      BY <2>1, LeafKeyIsKey, KeysAreTyped DEF Requests, TypeOK
    <3>2. identity' = [chain |-> call[c].chain, key |-> key, keyPresent |-> present,
                       edited |-> call[c].crossed]
      BY <1>12 DEF Load
    <3> QED BY <2>1, <3>1, <3>2 DEF Identities
  <2>3. signOff' \in BOOLEAN
    BY <1>12 DEF Load
  <2>4. call' \in [Calls -> Requests \cup {None}] /\ WellMade'
    BY <1>12, <1>s DEF Load
  <2>5. result' = None /\ off' \in [run : BOOLEAN, verify : BOOLEAN]
    BY <1>12, ResetTyped DEF Load
  <2> QED BY <1>12, <2>2, <2>3, <2>4, <2>5 DEF Load, DropsSigned, KeepsPayload, TypeOK
<1>13. ASSUME NEW c \in Calls, LoadFails(c) PROVE TypeOK' /\ WellMade'
  BY <1>13, <1>s DEF LoadFails, studio, credo, TypeOK
<1>14. ASSUME NEW c \in Calls, Signed(c) PROVE TypeOK' /\ WellMade'
  <2>1. call[c] \in Requests /\ call[c].chain \in Chains
    BY <1>14, <1>c DEF Signed, InFlight, WellMade
  <2>2. call[c].format \in Formats /\ call[c].crossed \in BOOLEAN
    <3>1. call[c].format \in SignableBy(KeyType[call[c].chain])
      BY <1>14 DEF Signed, ServerSigns
    <3> QED BY <2>1, <3>1 DEF SignableBy, Formats, Requests
  <2>3. signed' \in Credentials
    BY <1>14, <2>1, <2>2 DEF Signed, Credentials
  <2> QED BY <1>14, <1>s, <2>3 DEF Signed, credo, TypeOK
<1>15. ASSUME NEW c \in Calls, SignFails(c) PROVE TypeOK' /\ WellMade'
  BY <1>15, <1>s DEF SignFails, BackOn, credo, TypeOK
<1>16. ASSUME NEW c \in Calls, VerifyEnds(c) PROVE TypeOK' /\ WellMade'
  <2>1. call[c] \in Requests /\ call[c].chain \in Chains /\ call[c].format \in Formats
    BY <1>16, <1>c DEF VerifyEnds, InFlight, WellMade
  <2>2. [chain |-> call[c].chain, format |-> call[c].format, crossed |-> call[c].crossed]
          \in Credentials
    BY <2>1 DEF Credentials, Requests
  <2> QED BY <1>16, <1>s, <2>2 DEF VerifyEnds, credo, TypeOK
<1>17. ASSUME NEW c \in Calls, FlowAnswers(c) PROVE TypeOK' /\ WellMade'
  <2>1. call[c] \in Requests /\ call[c].chain \in Chains
    BY <1>17, <1>c DEF FlowAnswers, Flow, WellMade
  <2>2. result' \in Results
    BY <1>17, <2>1 DEF FlowAnswers, Results, Requests
  <2>3. off' \in [run : BOOLEAN, verify : BOOLEAN]
    BY <1>17, SyncTyped DEF FlowAnswers, TypeOK
  <2>4. running' \in BOOLEAN
    BY <1>17 DEF FlowAnswers, StillRunning, TypeOK
  <2> QED BY <1>17, <1>s, <2>2, <2>3, <2>4 DEF FlowAnswers, studio, TypeOK
<1>18. ASSUME NEW c \in Calls, FlowFails(c) PROVE TypeOK' /\ WellMade'
  <2>1. off' \in [run : BOOLEAN, verify : BOOLEAN]
    BY <1>18, SyncTyped DEF FlowFails, TypeOK
  <2>2. running' \in BOOLEAN
    BY <1>18 DEF FlowFails, StillRunning, TypeOK
  <2> QED BY <1>18, <1>s, <2>1, <2>2 DEF FlowFails, studio, TypeOK
<1>19. ASSUME NEW c \in Calls, ResetEnds(c) PROVE TypeOK' /\ WellMade'
  <2>1. result' \in Results \cup {None}
        /\ off' \in [run : BOOLEAN, verify : BOOLEAN]
    BY <1>19, ResetTyped DEF ResetEnds, TypeOK
  <2>2. c \in Calls
    OBVIOUS
  <2> QED BY <1>19, <1>s, <2>1 DEF ResetEnds, studio, TypeOK
<1> QED
  BY <1>1, <1>2, <1>3, <1>4, <1>5, <1>6, <1>7, <1>8, <1>9, <1>10, <1>11, <1>12, <1>13,
     <1>14, <1>15, <1>16, <1>17, <1>18, <1>19 DEF Next, Answer

-----------------------------------------------------------------------------
(* The buttons.                                                            *)

\* Every handler that changes what the buttons depend on ends by setting them.
LEMMA ButtonsStep == TypeOK /\ ButtonsAgree /\ [Next]_vars => ButtonsAgree'
<1> SUFFICES ASSUME TypeOK, ButtonsAgree, [Next]_vars PROVE ButtonsAgree'
  OBVIOUS
<1>1. CASE UNCHANGED <<identity, credo>>
  BY <1>1 DEF credo, ButtonsAgree, CanRun, Issued, WalletTakesKey
<1>2. CASE SyncCredoButtons
  BY <1>2 DEF SyncCredoButtons, ButtonsAgree
<1>3. CASE available' = FALSE
  BY <1>3 DEF ButtonsAgree
<1>4. UNCHANGED vars => UNCHANGED <<identity, credo>>
  BY DEF vars
<1>5. ClickGenerate \/ ClickUpload \/ EditKey \/ ChooseTemplate \/ ClickSign \/ ClickVerify
        \/ ClickReset => UNCHANGED <<identity, credo>>
  BY DEF ClickGenerate, ClickUpload, EditKey, ChooseTemplate, ClickSign, ClickVerify, ClickReset
<1>6. StatusAnswers => SyncCredoButtons \/ available' = FALSE
  BY DEF StatusAnswers, ResetCredo
<1>7. \A n \in Throughs : ClickRun(n) => SyncCredoButtons
  BY DEF ClickRun
<1>8. ClickCredoVerify => SyncCredoButtons
  BY DEF ClickCredoVerify
<1>9. \A c \in Calls : LoadFails(c) \/ Signed(c) \/ SignFails(c) \/ VerifyEnds(c)
                        => UNCHANGED <<identity, credo>>
  BY DEF LoadFails, Signed, SignFails, VerifyEnds
<1>10. \A c \in Calls : Load(c) \/ FlowAnswers(c) \/ FlowFails(c) => SyncCredoButtons
  BY DEF Load, ResetCredo, FlowAnswers, FlowFails
<1>11. \A c \in Calls : ResetEnds(c) => SyncCredoButtons \/ UNCHANGED <<identity, credo>>
  BY DEF ResetEnds, ResetCredo, credo
<1> QED
  BY <1>1, <1>2, <1>3, <1>4, <1>5, <1>6, <1>7, <1>8, <1>9, <1>10, <1>11 DEF Next, Answer

\* credoRunning counts the runs in flight: one is sent when there is none, and
\* its own answer, only, clears the flag.
LEMMA RunsStep == TypeOK /\ ButtonsAgree /\ RunsApart /\ [Next]_vars => RunsApart'
<1> SUFFICES ASSUME TypeOK, ButtonsAgree, RunsApart, [Next]_vars PROVE RunsApart'
  OBVIOUS
<1> DEFINE Kept == UNCHANGED running /\ InFlight("run")' = InFlight("run")
<1>k. CASE Kept
  BY <1>k DEF RunsApart
<1>r. "run" \in Kinds
  BY DEF Kinds
<1>o. ASSUME NEW c \in Calls, c \notin InFlight("run"), NEW kinds, Settle(c, kinds)
      PROVE  InFlight("run")' = InFlight("run")
  BY <1>o, <1>r, SettleFrees
<1>1. CASE UNCHANGED vars \/ ChooseTemplate \/ StatusAnswers
  BY <1>1, <1>k DEF vars, credo, ChooseTemplate, StatusAnswers, InFlight
<1>2. CASE ClickGenerate
  <2>1. PICK chain \in Chains : Send("generate", chain, LeafKey(chain), None, 1)
    BY <1>2 DEF ClickGenerate
  <2>2. InFlight("run")' = InFlight("run")
    BY <2>1, <1>r, SendAdds, LeafKeyIsKey DEF Kinds, Steps
  <2> QED BY <1>2, <1>k, <2>2 DEF ClickGenerate, credo
<1>3. CASE ClickUpload
  <2>1. PICK chain \in Chains : Send("upload", chain, keyField, None, 1)
    BY <1>3 DEF ClickUpload
  <2>2. keyField \in Keys \cup {None}
    BY KeysAreTyped DEF TypeOK
  <2>3. InFlight("run")' = InFlight("run")
    BY <2>1, <2>2, <1>r, SendAdds DEF Kinds, Steps
  <2> QED BY <1>3, <1>k, <2>3 DEF ClickUpload, credo
<1>4. CASE EditKey
  <2>1. \A c \in Calls : c \notin InFlight("upload") => call'[c] = call[c]
    BY <1>4 DEF EditKey
  <2>2. \A c \in InFlight("upload") : c \notin InFlight("run")
    BY DEF InFlight
  <2>3. \A c \in InFlight("upload") : call'[c].kind = "upload"
    BY <1>4 DEF EditKey, InFlight, TypeOK, Requests
  <2>4. InFlight("run")' = InFlight("run")
    BY <2>1, <2>2, <2>3 DEF InFlight
  <2> QED BY <1>4, <1>k, <2>4 DEF EditKey, credo
<1>5. CASE ClickSign \/ ClickCredoVerify
  <2>1. identity.chain \in Chains \cup {None} /\ identity.key \in Keys \cup {None}
    BY <1>5 DEF ClickSign, ClickCredoVerify, TypeOK, Identities
  <2>2. Options \subseteq Formats
    BY <1>5, TemplatesOffer DEF Options, TypeOK
  <2>3. PICK kind \in {"sign", "check"}, format \in Formats \cup {None}, n \in Steps :
          Send(kind, identity.chain, identity.key, format, n)
    BY <1>5, <2>2 DEF ClickSign, ClickCredoVerify, Steps
  <2>4. InFlight("run")' = InFlight("run")
    BY <2>1, <2>3, <1>r, SendAdds DEF Kinds
  <2> QED BY <1>5, <1>k, <2>4 DEF ClickSign, ClickCredoVerify, credo
<1>6. CASE ClickVerify
  <2>1. PICK kind \in {"verify"}, chain \in Chains \cup {None}, key \in Keys \cup {None},
              format \in Formats \cup {None}, n \in Steps : Send(kind, chain, key, format, n)
    <3>1. signed.chain \in Chains \cup {None} /\ signed.format \in Formats \cup {None}
      BY <1>6 DEF ClickVerify, TypeOK, Credentials
    <3> QED BY <1>6, <3>1 DEF ClickVerify, Steps
  <2>3. InFlight("run")' = InFlight("run")
    BY <2>1, <1>r, SendAdds DEF Kinds
  <2> QED BY <1>6, <1>k, <2>3 DEF ClickVerify, credo
<1>7. ASSUME NEW n \in Throughs, ClickRun(n) PROVE RunsApart'
  <2>1. ~running
    <3> DEFINE can == CanRun
    <3>1. off = [run |-> ~can, verify |-> ~(can /\ Issued)] /\ ~off.run
      BY <1>7 DEF ClickRun, ButtonsAgree
    <3>2. can => ~running
      BY DEF CanRun
    <3> HIDE DEF can
    <3> QED BY <3>1, <3>2
  <2>2. PICK chain \in Chains \cup {None}, key \in Keys \cup {None},
              format \in Formats \cup {None} : n \in Steps /\ Send("run", chain, key, format, n)
    <3>1. identity.chain \in Chains \cup {None} /\ identity.key \in Keys \cup {None}
      BY <1>7 DEF ClickRun, TypeOK, Identities
    <3> QED BY <1>7, <3>1, ThroughsAreSteps DEF ClickRun
  <2>4. PICK c \in Calls : InFlight("run")' = InFlight("run") \cup {c}
    BY <2>2, <1>r, SendAdds
  <2>5. InFlight("run")' = {c} /\ running'
    BY <1>7, <2>1, <2>4 DEF RunsApart, ClickRun
  <2> QED BY <2>5 DEF RunsApart
<1>8. CASE ClickReset
  <2>1. InFlight("run")' = InFlight("run")
    BY <1>8, <1>r, SendAdds DEF ClickReset, Kinds, Steps
  <2> QED BY <1>8, <1>k, <2>1 DEF ClickReset, credo
<1>9. ASSUME NEW c \in Calls, Load(c) \/ LoadFails(c) \/ Signed(c) \/ SignFails(c) \/ VerifyEnds(c)
                              \/ ResetEnds(c)
      PROVE  RunsApart'
  <2>1. c \notin InFlight("run")
    BY <1>9 DEF Load, LoadFails, Signed, SignFails, VerifyEnds, ResetEnds, InFlight
  <2>2. running' = running
    BY <1>9 DEF Load, LoadFails, Signed, SignFails, VerifyEnds, ResetEnds, credo
  <2>3. InFlight("run")' = InFlight("run")
    BY <1>9, <1>o, <2>1 DEF Load, LoadFails, Signed, SignFails, VerifyEnds, ResetEnds
  <2> QED BY <1>k, <2>2, <2>3
<1>10. ASSUME NEW c \in Calls, FlowAnswers(c) \/ FlowFails(c) PROVE RunsApart'
  <2>1. Flow(c) /\ Settle(c, {}) /\ running' = StillRunning(c)
    BY <1>10 DEF FlowAnswers, FlowFails
  <2>2. InFlight("run")' = InFlight("run") \ {c}
    BY <2>1, <1>r, SettleFrees
  <2>3. CASE call[c].kind = "check"
    BY <1>k, <1>o, <2>1, <2>3 DEF StillRunning, InFlight, TypeOK
  <2>4. CASE call[c].kind = "run"
    <3>1. c \in InFlight("run")
      BY <2>1, <2>4 DEF Flow, InFlight
    <3>2. InFlight("run") = {c}
      BY <3>1 DEF RunsApart, TypeOK
    <3>3. InFlight("run")' = {} /\ ~running'
      BY <2>1, <2>2, <2>4, <3>2 DEF StillRunning
    <3> QED BY <3>3 DEF RunsApart
  <2> QED BY <2>1, <2>3, <2>4 DEF Flow
<1> QED
  BY <1>1, <1>2, <1>3, <1>4, <1>5, <1>6, <1>7, <1>8, <1>9, <1>10 DEF Next, Answer

\* A run in flight keeps the two handlers that would send another out.
LEMMA AloneStep ==
  ASSUME TypeOK, ButtonsAgree, RunsApart, [Next]_vars, InFlight("run") # {},
         NEW c \in Calls, call[c] = None
  PROVE  ~Flow(c)'
<1>1. running
  BY DEF RunsApart
<1>2. ~ClickCredoVerify /\ \A n \in Throughs : ~ClickRun(n)
  <2> DEFINE can == CanRun
  <2> DEFINE runs == ~can
             verifies == ~(can /\ Issued)
  <2>1. ~can
    BY <1>1 DEF CanRun
  <2>2. available = TRUE => off = [run |-> runs, verify |-> verifies]
    BY DEF ButtonsAgree
  <2> HIDE DEF can
  <2>4. runs /\ verifies
    BY <2>1
  <2> HIDE DEF runs, verifies
  <2>3. available = TRUE => off.run /\ off.verify
    BY <2>2, <2>4
  <2> QED BY <2>3 DEF ClickCredoVerify, ClickRun
<1>3. ASSUME NEW kind \in Kinds \ {"run", "check"}, NEW chain \in Chains \cup {None},
             NEW key \in Keys \cup {None}, NEW format \in Formats \cup {None}, NEW n \in Steps,
             Send(kind, chain, key, format, n)
      PROVE  ~Flow(c)'
  <2>1. PICK d \in Calls : call'[d].kind = kind /\ \A e \in Calls : e # d => call'[e] = call[e]
    BY <1>3, SendAdds, SMTT(60)
  <2> QED BY <2>1 DEF Flow
<1>4. ASSUME NEW d \in Calls, NEW kinds, Settle(d, kinds) PROVE ~Flow(c)'
  BY <1>4 DEF Settle, Flow
<1>i. identity # None => identity.chain \in Chains \cup {None} /\ identity.key \in Keys \cup {None}
  BY DEF TypeOK, Identities
<1>5. CASE UNCHANGED call
  BY <1>5 DEF Flow
<1>6. UNCHANGED vars \/ ChooseTemplate \/ StatusAnswers => UNCHANGED call
  BY DEF vars, ChooseTemplate, StatusAnswers
<1>7. CASE ClickGenerate
  <2>1. PICK kind \in {"generate"}, chain \in Chains, n \in Steps : Send(kind, chain, LeafKey(chain), None, n)
    BY <1>7 DEF ClickGenerate, Steps
  <2> QED BY <1>3, <2>1, LeafKeyIsKey DEF Kinds
<1>8. CASE ClickUpload
  <2>1. keyField \in Keys \cup {None}
    BY KeysAreTyped DEF TypeOK
  <2>2. PICK kind \in {"upload"}, chain \in Chains, key \in Keys \cup {None}, n \in Steps :
          Send(kind, chain, key, None, n)
    BY <1>8, <2>1 DEF ClickUpload, Steps
  <2> QED BY <1>3, <2>2 DEF Kinds
<1>9. CASE EditKey
  BY <1>9 DEF EditKey, InFlight, Flow
<1>10. CASE ClickSign
  <2>1. Options \subseteq Formats
    BY <1>10, TemplatesOffer DEF Options, TypeOK
  <2>2. PICK kind \in {"sign"}, chain \in Chains \cup {None}, key \in Keys \cup {None},
              format \in Formats \cup {None}, n \in Steps : Send(kind, chain, key, format, n)
    <3>1. identity.chain \in Chains \cup {None} /\ identity.key \in Keys \cup {None}
      BY <1>10, <1>i DEF ClickSign
    <3>2. PICK format \in Formats \cup {None} : Send("sign", identity.chain, identity.key, format, 1)
      BY <1>10, <2>1 DEF ClickSign
    <3>3. 1 \in Steps /\ "sign" \in {"sign"}
      BY DEF Steps
    <3> QED BY <3>1, <3>2, <3>3
  <2> QED BY <1>3, <2>2 DEF Kinds
<1>11. CASE ClickVerify
  <2>1. signed.chain \in Chains \cup {None} /\ signed.format \in Formats \cup {None}
    BY <1>11 DEF ClickVerify, TypeOK, Credentials
  <2>2. PICK kind \in {"verify"}, chain \in Chains \cup {None}, key \in Keys \cup {None},
              format \in Formats \cup {None}, n \in Steps : Send(kind, chain, key, format, n)
    BY <1>11, <2>1 DEF ClickVerify, Steps
  <2> QED BY <1>3, <2>2 DEF Kinds
<1>12. CASE ClickReset
  <2>1. PICK kind \in {"reset"}, n \in Steps : Send(kind, None, None, None, n)
    BY <1>12 DEF ClickReset, Steps
  <2> QED BY <1>3, <2>1 DEF Kinds
<1>13. ASSUME NEW d \in Calls, Answer(d) PROVE ~Flow(c)'
  <2>1. \E kinds \in SUBSET Kinds : Settle(d, kinds)
    <3>1. Dependent \subseteq Kinds /\ {"verify"} \subseteq Kinds /\ {} \subseteq Kinds
      BY DEF Dependent, Kinds
    <3> QED BY <1>13, <3>1 DEF Answer, Load, LoadFails, Signed, SignFails, VerifyEnds, FlowAnswers,
                               FlowFails, ResetEnds
  <2> QED BY <1>4, <2>1
<1> QED
  BY <1>2, <1>5, <1>6, <1>7, <1>8, <1>9, <1>10, <1>11, <1>12, <1>13 DEF Next

-----------------------------------------------------------------------------
(* Answers and the page they come back to.                                 *)

\* A send that is made of what the page holds keeps the fetches in step.
LEMMA SendInStep ==
  ASSUME TypeOK, InStep, NEW kind \in Kinds, NEW chain \in Chains \cup {None},
         NEW key \in Keys \cup {None}, NEW format \in Formats \cup {None}, NEW through \in Steps,
         Send(kind, chain, key, format, through),
         UNCHANGED <<identity, keyField, signed>>,
         kind \in {"sign", "run", "check"} => identity # None /\ chain = identity.chain,
         kind = "verify" => signed # None /\ chain = signed.chain /\ format = signed.format,
         kind = "upload" => key = keyField
  PROVE  InStep'
<1>1. PICK c \in Calls :
        /\ call'[c].kind = kind /\ call'[c].chain = chain /\ call'[c].key = key
        /\ call'[c].format = format
        /\ \A d \in Calls : d # c => call'[d] = call[d]
  BY SendAdds, SMTT(60)
<1>2. SUFFICES ASSUME NEW d \in Calls, call'[d] # None, ~call'[d].crossed
               PROVE  /\ call'[d].kind \in {"sign", "run", "check"} =>
                           identity # None /\ call'[d].chain = identity.chain
                      /\ call'[d].kind = "verify" =>
                           signed # None /\ call'[d].chain = signed.chain /\ call'[d].format = signed.format
                      /\ call'[d].kind = "upload" => call'[d].key = keyField
  BY DEF InStep
<1>3. CASE d = c
  BY <1>1, <1>3
<1>4. CASE d # c
  BY <1>1, <1>2, <1>4 DEF InStep
<1> QED BY <1>3, <1>4

\* A settlement keeps them so when it overtakes what depends on its changes.
LEMMA SettleInStep ==
  ASSUME TypeOK, InStep, NEW c \in Calls, NEW kinds, Settle(c, kinds), UNCHANGED keyField,
         {"sign", "run", "check"} \subseteq kinds \/ UNCHANGED identity,
         "verify" \in kinds \/ UNCHANGED signed
  PROVE  InStep'
<1>1. \A d \in Calls : call'[d] # None /\ ~call'[d].crossed =>
        /\ call[d] # None /\ ~call[d].crossed /\ call[d].kind \notin kinds
        /\ call'[d].kind = call[d].kind /\ call'[d].chain = call[d].chain
        /\ call'[d].key = call[d].key /\ call'[d].format = call[d].format
  BY SettleFrees
<1> QED BY <1>1 DEF InStep

LEMMA InStepStep == TypeOK /\ InStep /\ [Next]_vars => InStep'
<1> SUFFICES ASSUME TypeOK, InStep, [Next]_vars PROVE InStep'
  OBVIOUS
<1>s. ASSUME NEW kind \in Kinds, NEW chain \in Chains \cup {None}, NEW key \in Keys \cup {None},
             NEW format \in Formats \cup {None}, NEW through \in Steps,
             Send(kind, chain, key, format, through), UNCHANGED <<identity, keyField, signed>>,
             kind \in {"sign", "run", "check"} => identity # None /\ chain = identity.chain,
             kind = "verify" => signed # None /\ chain = signed.chain /\ format = signed.format,
             kind = "upload" => key = keyField
      PROVE  InStep'
  BY <1>s, SendInStep
<1>a. ASSUME NEW c \in Calls, Settle(c, {}), UNCHANGED <<identity, keyField, signed>>
      PROVE  InStep'
  BY <1>a, SettleInStep
<1>1. CASE UNCHANGED vars \/ ChooseTemplate \/ StatusAnswers
  BY <1>1 DEF vars, studio, ChooseTemplate, StatusAnswers, InStep
<1>2. CASE ClickGenerate
  <2>1. PICK kind \in {"generate"}, chain \in Chains, n \in Steps : Send(kind, chain, LeafKey(chain), None, n)
    BY <1>2 DEF ClickGenerate, Steps
  <2> QED BY <1>2, <1>s, <2>1, LeafKeyIsKey DEF ClickGenerate, studio, Kinds
<1>3. CASE ClickUpload
  <2>1. keyField \in Keys \cup {None}
    BY KeysAreTyped DEF TypeOK
  <2>2. PICK kind \in {"upload"}, chain \in Chains, key \in Keys \cup {None}, n \in Steps :
          key = keyField /\ Send(kind, chain, key, None, n)
    BY <1>3, <2>1 DEF ClickUpload, Steps
  <2> QED BY <1>3, <1>s, <2>2 DEF ClickUpload, studio, Kinds
<1>4. CASE EditKey
  <2>1. \A c \in Calls : call'[c] # None /\ ~call'[c].crossed => call'[c] = call[c] /\ call[c].kind # "upload"
    BY <1>4 DEF EditKey, InFlight, TypeOK, Requests
  <2> QED BY <1>4, <2>1 DEF EditKey, InStep
<1>5. CASE ClickSign
  <2>1. identity # None /\ identity.chain \in Chains \cup {None} /\ identity.key \in Keys \cup {None}
    BY <1>5 DEF ClickSign, TypeOK, Identities
  <2>2. Options \subseteq Formats
    BY <1>5, TemplatesOffer DEF Options, TypeOK
  <2>3. PICK kind \in {"sign"}, chain \in Chains \cup {None}, key \in Keys \cup {None},
              format \in Formats \cup {None}, n \in Steps :
          chain = identity.chain /\ Send(kind, chain, key, format, n)
    BY <1>5, <2>1, <2>2 DEF ClickSign, Steps
  <2> QED BY <1>5, <1>s, <2>1, <2>3 DEF ClickSign, Kinds
<1>6. CASE ClickVerify
  <2>1. signed.chain \in Chains \cup {None} /\ signed.format \in Formats \cup {None} /\ signed # None
    BY <1>6 DEF ClickVerify, TypeOK, Credentials
  <2>2. PICK kind \in {"verify"}, chain \in Chains \cup {None}, key \in Keys \cup {None},
              format \in Formats \cup {None}, n \in Steps :
          chain = signed.chain /\ format = signed.format /\ Send(kind, chain, key, format, n)
    BY <1>6, <2>1 DEF ClickVerify, Steps
  <2> QED BY <1>6, <1>s, <2>1, <2>2 DEF ClickVerify, Kinds
<1>7. ASSUME NEW m \in Throughs, ClickRun(m) PROVE InStep'
  <2>1. identity # None /\ identity.chain \in Chains \cup {None} /\ identity.key \in Keys \cup {None}
    BY <1>7 DEF ClickRun, TypeOK, Identities
  <2>2. PICK kind \in {"run"}, chain \in Chains \cup {None}, key \in Keys \cup {None},
              format \in Formats \cup {None}, n \in Steps :
          chain = identity.chain /\ Send(kind, chain, key, format, n)
    BY <1>7, <2>1, ThroughsAreSteps DEF ClickRun
  <2> QED BY <1>7, <1>s, <2>1, <2>2 DEF ClickRun, studio, Kinds
<1>8. CASE ClickCredoVerify
  <2>1. identity # None /\ identity.chain \in Chains \cup {None} /\ identity.key \in Keys \cup {None}
    BY <1>8 DEF ClickCredoVerify, TypeOK, Identities
  <2>2. PICK kind \in {"check"}, chain \in Chains \cup {None}, key \in Keys \cup {None},
              format \in Formats \cup {None}, n \in Steps :
          chain = identity.chain /\ Send(kind, chain, key, format, n)
    BY <1>8, <2>1 DEF ClickCredoVerify, Steps
  <2> QED BY <1>8, <1>s, <2>1, <2>2 DEF ClickCredoVerify, studio, Kinds
<1>9. CASE ClickReset
  <2>1. PICK kind \in {"reset"}, n \in Steps : Send(kind, None, None, None, n)
    BY <1>9 DEF ClickReset, Steps
  <2> QED BY <1>9, <1>s, <2>1 DEF ClickReset, studio, Kinds
<1>10. ASSUME NEW c \in Calls, Load(c) PROVE InStep'
  <2>1. Settle(c, Dependent) /\ UNCHANGED keyField
    BY <1>10 DEF Load
  <2> QED BY <2>1, SettleInStep DEF Dependent
<1>11. ASSUME NEW c \in Calls, Signed(c) PROVE InStep'
  <2>1. Settle(c, {"verify"}) /\ UNCHANGED <<identity, keyField>>
    BY <1>11 DEF Signed
  <2> QED BY <2>1, SettleInStep
<1>12. ASSUME NEW c \in Calls, LoadFails(c) \/ SignFails(c) \/ VerifyEnds(c) \/ FlowAnswers(c)
                               \/ FlowFails(c) \/ ResetEnds(c)
       PROVE  InStep'
  BY <1>12, <1>a DEF LoadFails, SignFails, VerifyEnds, FlowAnswers, FlowFails, ResetEnds, studio
<1> QED
  BY <1>1, <1>2, <1>3, <1>4, <1>5, <1>6, <1>7, <1>8, <1>9, <1>10, <1>11, <1>12 DEF Next, Answer

\* What is shown came from an answer that was in step, or says it was not.
LEMMA StaleStep == TypeOK /\ InStep /\ StaleOnlyIfOvertaken /\ [Next]_vars => StaleOnlyIfOvertaken'
<1> SUFFICES ASSUME TypeOK, InStep, StaleOnlyIfOvertaken, [Next]_vars PROVE StaleOnlyIfOvertaken'
  OBVIOUS
<1>1. CASE UNCHANGED <<identity, signed, payload, verdict, result>>
  BY <1>1 DEF StaleOnlyIfOvertaken
<1>2. UNCHANGED vars \/ ClickGenerate \/ ClickUpload \/ EditKey \/ ChooseTemplate
        \/ (\E n \in Throughs : ClickRun(n)) \/ ClickCredoVerify \/ ClickReset
        => UNCHANGED <<identity, signed, payload, verdict, result>>
  BY DEF vars, studio, credo, ClickGenerate, ClickUpload, EditKey, ChooseTemplate,
         ClickRun, ClickCredoVerify, ClickReset
<1>3. CASE ClickSign \/ ClickVerify
  BY <1>3 DEF ClickSign, ClickVerify, credo, StaleOnlyIfOvertaken
<1>4. CASE StatusAnswers
  BY <1>4 DEF StatusAnswers, ResetCredo, studio, StaleOnlyIfOvertaken
<1>5. ASSUME NEW c \in Calls, Load(c) PROVE StaleOnlyIfOvertaken'
  BY <1>5 DEF Load, DropsSigned, KeepsPayload, ResetCredo, StaleOnlyIfOvertaken
<1>6. ASSUME NEW c \in Calls, LoadFails(c) \/ SignFails(c) \/ FlowFails(c)
      PROVE  StaleOnlyIfOvertaken'
  BY <1>6 DEF LoadFails, SignFails, FlowFails, studio, credo, StaleOnlyIfOvertaken
<1>7. ASSUME NEW c \in Calls, Signed(c) PROVE StaleOnlyIfOvertaken'
  <2>1. call[c] # None /\ (call[c].crossed \/ call[c].chain = identity.chain)
    BY <1>7 DEF Signed, InFlight, InStep
  <2> QED BY <1>7, <2>1 DEF Signed, credo, StaleOnlyIfOvertaken
<1>8. ASSUME NEW c \in Calls, VerifyEnds(c) PROVE StaleOnlyIfOvertaken'
  <2>1. \/ call[c].crossed
        \/ signed # None /\ call[c].chain = signed.chain /\ call[c].format = signed.format
    BY <1>8 DEF VerifyEnds, InFlight, InStep
  <2> QED BY <1>8, <2>1 DEF VerifyEnds, credo, StaleOnlyIfOvertaken
<1>9. ASSUME NEW c \in Calls, FlowAnswers(c) PROVE StaleOnlyIfOvertaken'
  <2>1. call[c].crossed \/ call[c].chain = identity.chain
    BY <1>9 DEF FlowAnswers, Flow, InStep
  <2> QED BY <1>9, <2>1 DEF FlowAnswers, studio, StaleOnlyIfOvertaken
<1>10. ASSUME NEW c \in Calls, ResetEnds(c) PROVE StaleOnlyIfOvertaken'
  BY <1>10 DEF ResetEnds, ResetCredo, studio, StaleOnlyIfOvertaken
<1> QED
  BY <1>1, <1>2, <1>3, <1>4, <1>5, <1>6, <1>7, <1>8, <1>9, <1>10 DEF Next, Answer

\* An upload that was not crossed left the field as it was when it was sent.
LEMMA KeyStep == TypeOK /\ WellMade /\ InStep /\ KeyGoesWithChain /\ [Next]_vars => KeyGoesWithChain'
<1> SUFFICES ASSUME TypeOK, WellMade, InStep, KeyGoesWithChain, [Next]_vars PROVE KeyGoesWithChain'
  OBVIOUS
<1>1. CASE UNCHANGED identity
  BY <1>1 DEF KeyGoesWithChain
<1>2. ASSUME NEW c \in Calls, Load(c) PROVE KeyGoesWithChain'
  <2> DEFINE key == IF call[c].kind = "generate" THEN LeafKey(call[c].chain) ELSE keyField
             present == call[c].key # None
             edited == call[c].crossed
  <2>1. identity' = [chain |-> call[c].chain, key |-> key, keyPresent |-> present, edited |-> edited]
    BY <1>2 DEF Load
  <2>2. present /\ ~edited => Matches(key, call[c].chain)
    BY <1>2 DEF Load, Accepts, WellMade, InStep
  <2> HIDE DEF key, present, edited
  <2> QED BY <2>1, <2>2 DEF KeyGoesWithChain
<1>3. UNCHANGED vars \/ ClickGenerate \/ ClickUpload \/ EditKey \/ ChooseTemplate \/ ClickSign
        \/ ClickVerify \/ (\E n \in Throughs : ClickRun(n)) \/ ClickCredoVerify \/ ClickReset
        \/ StatusAnswers => UNCHANGED identity
  BY DEF vars, ClickGenerate, ClickUpload, EditKey, ChooseTemplate, ClickSign, ClickVerify,
         ClickRun, ClickCredoVerify, ClickReset, StatusAnswers
<1>4. \A c \in Calls : LoadFails(c) \/ Signed(c) \/ SignFails(c) \/ VerifyEnds(c)
        \/ FlowAnswers(c) \/ FlowFails(c) \/ ResetEnds(c) => UNCHANGED identity
  BY DEF LoadFails, Signed, SignFails, VerifyEnds, FlowAnswers, FlowFails, ResetEnds
<1> QED BY <1>1, <1>2, <1>3, <1>4 DEF Next, Answer

\* A button that is off waits for a fetch in flight, or has nothing to act on.
LEMMA ButtonStep == TypeOK /\ NoButtonStuck /\ [Next]_vars => NoButtonStuck'
<1> SUFFICES ASSUME TypeOK, NoButtonStuck, [Next]_vars PROVE NoButtonStuck'
  OBVIOUS
<1>k. "sign" \in Kinds /\ "verify" \in Kinds
  BY DEF Kinds
<1> DEFINE Kept == UNCHANGED <<identity, template, signed, signOff, verifyOff>>
<1>1. ASSUME Kept, InFlight("sign") \subseteq InFlight("sign")',
             InFlight("verify") \subseteq InFlight("verify")'
      PROVE  NoButtonStuck'
  <2>1. Options' = Options
    BY <1>1 DEF Options
  <2> QED BY <1>1, <2>1 DEF NoButtonStuck
<1>2. ASSUME NEW kind \in Kinds, NEW chain \in Chains \cup {None}, NEW key \in Keys \cup {None},
             NEW format \in Formats \cup {None}, NEW n \in Steps, Send(kind, chain, key, format, n)
      PROVE  /\ kind = "sign" => InFlight("sign")' # {}
             /\ kind = "verify" => InFlight("verify")' # {}
             /\ InFlight("sign") \subseteq InFlight("sign")'
             /\ InFlight("verify") \subseteq InFlight("verify")'
  <2>1. PICK c \in Calls :
          /\ call'[c] # None /\ call'[c].kind = kind /\ call[c] = None
          /\ \A d \in Calls : d # c => call'[d] = call[d]
    BY <1>2, SendAdds
  <2>2. InFlight("sign")' = IF "sign" = kind THEN InFlight("sign") \cup {c} ELSE InFlight("sign")
    BY <2>1 DEF InFlight
  <2>3. InFlight("verify")' = IF "verify" = kind THEN InFlight("verify") \cup {c} ELSE InFlight("verify")
    BY <2>1 DEF InFlight
  <2> QED BY <2>2, <2>3
<1>3. ASSUME NEW c \in Calls, NEW kinds, Settle(c, kinds)
      PROVE  /\ c \notin InFlight("sign") => InFlight("sign")' = InFlight("sign")
             /\ c \notin InFlight("verify") => InFlight("verify")' = InFlight("verify")
  <2>1. \A k \in Kinds : InFlight(k)' = InFlight(k) \ {c}
    BY <1>3, SettleFrees
  <2>2. /\ InFlight("sign")' = InFlight("sign") \ {c}
        /\ InFlight("verify")' = InFlight("verify") \ {c}
    BY <1>k, <2>1
  <2> QED BY <2>2
<1>4. CASE UNCHANGED vars \/ StatusAnswers
  BY <1>1, <1>4 DEF vars, studio, StatusAnswers, InFlight
<1>5. CASE ClickGenerate
  <2>1. PICK kind \in {"generate"}, chain \in Chains, n \in Steps : Send(kind, chain, LeafKey(chain), None, n)
    BY <1>5 DEF ClickGenerate, Steps
  <2> QED BY <1>1, <1>2, <1>5, <2>1, LeafKeyIsKey DEF ClickGenerate, studio, Kinds
<1>6. CASE ClickUpload
  <2>1. keyField \in Keys \cup {None}
    BY KeysAreTyped DEF TypeOK
  <2>2. PICK kind \in {"upload"}, chain \in Chains, key \in Keys \cup {None}, n \in Steps :
          Send(kind, chain, key, None, n)
    BY <1>6, <2>1 DEF ClickUpload, Steps
  <2> QED BY <1>1, <1>2, <1>6, <2>2 DEF ClickUpload, studio, Kinds
<1>7. CASE EditKey
  <2>1. \A c \in Calls : /\ c \notin InFlight("upload") => call'[c] = call[c]
                         /\ c \in InFlight("upload") => call[c].kind = "upload"
    BY <1>7 DEF EditKey, InFlight
  <2>2. InFlight("sign") \subseteq InFlight("sign")' /\ InFlight("verify") \subseteq InFlight("verify")'
    BY <2>1 DEF InFlight
  <2> QED BY <1>1, <1>7, <2>2 DEF EditKey
<1>8. CASE ChooseTemplate
  <2>1. signOff' => Options' = {} \/ InFlight("sign")' # {}
    <3>1. CASE identity = None
      BY <1>8, <3>1 DEF ChooseTemplate, Options
    <3>2. CASE identity # None
      BY <1>8, <3>2 DEF ChooseTemplate
    <3> QED BY <3>1, <3>2
  <2> QED BY <1>8, <2>1 DEF ChooseTemplate, NoButtonStuck, InFlight
<1>9. CASE ClickSign
  <2>1. identity.chain \in Chains \cup {None} /\ identity.key \in Keys \cup {None}
    BY <1>9 DEF ClickSign, TypeOK, Identities
  <2>2. Options \subseteq Formats
    BY <1>9, TemplatesOffer DEF Options, TypeOK
  <2>3. PICK kind \in {"sign"}, chain \in Chains \cup {None}, key \in Keys \cup {None},
              format \in Formats \cup {None}, n \in Steps : Send(kind, chain, key, format, n)
    BY <1>9, <2>1, <2>2 DEF ClickSign, Steps
  <2>4. InFlight("sign")' # {} /\ InFlight("verify") \subseteq InFlight("verify")'
    BY <1>2, <1>k, <2>3
  <2> QED BY <1>9, <2>4 DEF ClickSign, NoButtonStuck
<1>10. CASE ClickVerify
  <2>1. signed.chain \in Chains \cup {None} /\ signed.format \in Formats \cup {None}
    BY <1>10 DEF ClickVerify, TypeOK, Credentials
  <2>2. PICK kind \in {"verify"}, chain \in Chains \cup {None}, key \in Keys \cup {None},
              format \in Formats \cup {None}, n \in Steps : Send(kind, chain, key, format, n)
    <3>1. Send("verify", signed.chain, None, signed.format, 1)
      BY <1>10 DEF ClickVerify
    <3>2. 1 \in Steps /\ None \in Chains \cup {None} /\ "verify" \in {"verify"}
      BY DEF Steps
    <3> QED BY <2>1, <3>1, <3>2
  <2>3. kind \in Kinds /\ kind = "verify"
    BY <1>k
  <2>4. InFlight("verify")' # {} /\ InFlight("sign") \subseteq InFlight("sign")'
    BY <1>2, <2>2, <2>3
  <2>5. Options' = Options
    BY <1>10 DEF ClickVerify, Options
  <2> QED BY <1>10, <2>4, <2>5 DEF ClickVerify, NoButtonStuck
<1>11. ASSUME NEW m \in Throughs, ClickRun(m) PROVE NoButtonStuck'
  <2>1. identity.chain \in Chains \cup {None} /\ identity.key \in Keys \cup {None}
    BY <1>11 DEF ClickRun, TypeOK, Identities
  <2>2. PICK kind \in {"run"}, chain \in Chains \cup {None}, key \in Keys \cup {None},
              format \in Formats \cup {None}, n \in Steps : Send(kind, chain, key, format, n)
    BY <1>11, <2>1, ThroughsAreSteps DEF ClickRun
  <2> QED BY <1>1, <1>2, <1>11, <2>2 DEF ClickRun, studio, Kinds
<1>12. CASE ClickCredoVerify
  <2>1. identity.chain \in Chains \cup {None} /\ identity.key \in Keys \cup {None}
    BY <1>12 DEF ClickCredoVerify, TypeOK, Identities
  <2>2. PICK kind \in {"check"}, chain \in Chains \cup {None}, key \in Keys \cup {None},
              format \in Formats \cup {None}, n \in Steps : Send(kind, chain, key, format, n)
    BY <1>12, <2>1 DEF ClickCredoVerify, Steps
  <2> QED BY <1>1, <1>2, <1>12, <2>2 DEF ClickCredoVerify, studio, Kinds
<1>13. CASE ClickReset
  <2>1. PICK kind \in {"reset"}, n \in Steps : Send(kind, None, None, None, n)
    BY <1>13 DEF ClickReset, Steps
  <2> QED BY <1>1, <1>2, <1>13, <2>1 DEF ClickReset, studio, Kinds
<1>14. ASSUME NEW c \in Calls, Load(c) PROVE NoButtonStuck'
  BY <1>14 DEF Load, DropsSigned, NoButtonStuck
<1>15. ASSUME NEW c \in Calls, Signed(c) PROVE NoButtonStuck'
  BY <1>15 DEF Signed, NoButtonStuck
<1>16. ASSUME NEW c \in Calls, SignFails(c) PROVE NoButtonStuck'
  <2>1. c \notin InFlight("verify") /\ Settle(c, {})
    BY <1>16 DEF SignFails, InFlight
  <2> QED BY <1>16, <1>3, <2>1 DEF SignFails, BackOn, NoButtonStuck
<1>17. ASSUME NEW c \in Calls, VerifyEnds(c) PROVE NoButtonStuck'
  <2>1. c \notin InFlight("sign") /\ Settle(c, {})
    BY <1>17 DEF VerifyEnds, InFlight
  <2>2. Options' = Options
    BY <1>17 DEF VerifyEnds, Options
  <2> QED BY <1>17, <1>3, <2>1, <2>2 DEF VerifyEnds, NoButtonStuck
<1>18. ASSUME NEW c \in Calls, LoadFails(c) \/ FlowAnswers(c) \/ FlowFails(c) \/ ResetEnds(c)
       PROVE  NoButtonStuck'
  <2>1. c \notin InFlight("verify") /\ c \notin InFlight("sign") /\ Settle(c, {})
    BY <1>18 DEF LoadFails, FlowAnswers, FlowFails, ResetEnds, Flow, InFlight
  <2>2. Kept
    BY <1>18 DEF LoadFails, FlowAnswers, FlowFails, ResetEnds, studio
  <2> QED BY <1>1, <1>3, <2>1, <2>2
<1> QED
  BY <1>4, <1>5, <1>6, <1>7, <1>8, <1>9, <1>10, <1>11, <1>12, <1>13, <1>14, <1>15, <1>16,
     <1>17, <1>18 DEF Next, Answer

-----------------------------------------------------------------------------
(* The theorems.                                                           *)

LEMMA PageInvariant == Spec => []PageInv
<1>1. Init => PageInv
  <2>1. Init => TypeOK /\ WellMade
    BY TypeInit
  <2>2. Init => ButtonsAgree /\ KeyGoesWithChain /\ NoButtonStuck /\ StaleOnlyIfOvertaken
    BY NoneIsNothing DEF Init, ButtonsAgree, KeyGoesWithChain, NoButtonStuck, StaleOnlyIfOvertaken
  <2>3. Init => RunsApart /\ InStep
    BY DEF Init, RunsApart, InStep, InFlight
  <2> QED BY <2>1, <2>2, <2>3 DEF PageInv
<1>2. PageInv /\ [Next]_vars => PageInv'
  BY TypeStep, ButtonsStep, RunsStep, InStepStep, StaleStep, KeyStep, ButtonStep DEF PageInv
<1> QED BY <1>1, <1>2, PTL DEF Spec

\* The page and every fetch in flight have their types: an answer never finds
\* the page in a state its handler cannot read (studio-script.ts 111-150).
THEOREM PageTypeCorrect == Spec => []TypeOK
<1>1. PageInv => TypeOK
  BY DEF PageInv
<1> QED BY <1>1, PageInvariant, PTL

\* The Credo tab's buttons say what can be pressed, however handlers
\* interleave and however many fetches are in flight (studio-script.ts 453-471).
THEOREM ButtonsAlwaysAgree == Spec => []ButtonsAgree
<1>1. PageInv => ButtonsAgree
  BY DEF PageInv
<1> QED BY <1>1, PageInvariant, PTL

\* credoRunning is set exactly while one run is in flight, and over it neither
\* a run nor a verification is sent to the wallet (studio-script.ts 692-715).
THEOREM NothingEverStartsOverARun == Spec => NothingStartsOverARun
<1> DEFINE One == Cardinality(InFlight("run")) = IF running THEN 1 ELSE 0
           Alone == InFlight("run") # {} => \A c \in Calls : Flow(c)' => call[c] # None
<1>1. PageInv => One
  <2> SUFFICES ASSUME PageInv PROVE One
    OBVIOUS
  <2>1. CASE running
    BY <2>1, FS_Singleton DEF PageInv, RunsApart
  <2>2. CASE ~running
    BY <2>2, FS_EmptySet DEF PageInv, RunsApart
  <2> QED BY <2>1, <2>2
<1>2. PageInv /\ [Next]_vars => [Alone]_vars
  BY AloneStep DEF PageInv
<1> HIDE DEF One, Alone
<1>3. Spec => []One
  BY <1>1, PageInvariant, PTL
<1>4. Spec => [][Alone]_vars
  BY <1>2, PageInvariant, PTL DEF Spec
<1> QED BY <1>3, <1>4 DEF One, Alone, NothingStartsOverARun

\* A stale credential, verdict or result on the page came from an answer that
\* a load or a signature had overtaken (studio-script.ts 264, 332, 701).
THEOREM StalenessNeedsOvertaking == Spec => []StaleOnlyIfOvertaken
<1>1. PageInv => StaleOnlyIfOvertaken
  BY DEF PageInv
<1> QED BY <1>1, PageInvariant, PTL

\* A chain is kept with its leaf's key, unless the key field was edited while
\* the upload was in flight (studio-script.ts 397).
THEOREM KeysStayWithChains == Spec => []KeyGoesWithChain
<1>1. PageInv => KeyGoesWithChain
  BY DEF PageInv
<1> QED BY <1>1, PageInvariant, PTL

\* A disabled button waits for a fetch in flight or has nothing to act on:
\* no failure leaves it off for good (studio-script.ts 283, 339).
THEOREM NoButtonEverStuck == Spec => []NoButtonStuck
<1>1. PageInv => NoButtonStuck
  BY DEF PageInv
<1> QED BY <1>1, PageInvariant, PTL
=============================================================================
