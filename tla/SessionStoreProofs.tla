---------------------------- MODULE SessionStoreProofs ----------------------------
(***************************************************************************)
(* Theorems about SessionStore for any number of requests, browsers,       *)
(* sessions and signals, any cap and any idle time.                        *)
(***************************************************************************)
EXTENDS SessionStore, FiniteSetTheorems, WellFoundedInduction, TLAPS

\* What a handler carries is its own: the id it is starting is in no other
\* handler's hands, and no Agent runs under it yet.
StartsApart ==
  /\ \A r \in Requests : request[r].stage = "starting" => agent[request[r].id] = "starting"
  /\ \A r, q \in Requests :
       request[r].stage = "starting" /\ request[q].stage = "starting" /\ request[r].id = request[q].id
         => r = q

\* Every id a browser, a request or a handler names was started for that
\* browser; an id not yet given out belongs to nobody.
OwnersKnown ==
  /\ \A id \in Ids : agent[id] = "none" => owner[id] = None
  /\ \A b \in Browsers : cookie[b] # None => owner[cookie[b].id] = b
  /\ \A r \in Requests : request[r].sid # None =>
       request[r].browser \in Browsers /\ owner[request[r].sid] = request[r].browser
  /\ \A r \in Requests :
       request[r].stage \in {"starting", "running"} => owner[request[r].id] = request[r].browser

StoreInv == TypeOK /\ AgentsAccountedFor /\ StartsApart /\ OwnersKnown

-----------------------------------------------------------------------------
USE BoundsAreNaturals, NoneIsNoId

\* The initial state has its type and nobody owns anything.
LEMMA InitStore == Init => StoreInv /\ PopulationBounded
<1> SUFFICES ASSUME Init PROVE StoreInv /\ PopulationBounded
  OBVIOUS
<1>1. TypeOK
  <2>1. Live = {}
    BY DEF Init, Live
  <2>2. request \in [Requests -> Handlers]
    BY DEF Init, Handlers, Free, Stages
  <2>3. \A r \in Requests : request[r].stage = "free"
    BY DEF Init, Free
  <2>4. /\ agent \in [Ids -> AgentStages]
        /\ owner \in [Ids -> Browsers \cup {None}]
        /\ cookie \in [Browsers -> Cookies \cup {None}]
    BY DEF Init, AgentStages
  <2>5. drain \in [Signals -> {None} \cup SUBSET Ids]
    BY DEF Init
  <2>6. now \in 0..MaxTime
    BY DEF Init
  <2>7. sweeping \in BOOLEAN /\ exited \in BOOLEAN
    BY DEF Init
  <2> QED BY <2>1, <2>2, <2>3, <2>4, <2>5, <2>6, <2>7 DEF TypeOK
<1>2. AgentsAccountedFor
  BY DEF Init, AgentsAccountedFor, Live
<1>3. StartsApart /\ OwnersKnown
  BY DEF Init, StartsApart, OwnersKnown, Free
<1>4. PopulationBounded
  <2>1. Live = {} /\ Starting = {}
    BY DEF Init, Live, Starting, Free
  <2>2. Cardinality(Live) = 0 /\ Cardinality(Starting) = 0
    BY <2>1, FS_EmptySet
  <2>3. Cardinality(Requests) \in Nat
    BY PopulationIsFinite, FS_CardinalityType
  <2> QED BY <2>2, <2>3 DEF PopulationBounded
<1> QED BY <1>1, <1>2, <1>3, <1>4 DEF StoreInv

\* Every step keeps the types.
LEMMA TypeStep == TypeOK /\ [Next]_vars => TypeOK'
<1> SUFFICES ASSUME TypeOK, [Next]_vars PROVE TypeOK'
  OBVIOUS
<1> USE DEF TypeOK, Running, Live, Handlers, Stages, AgentStages
<1>1. ASSUME UNCHANGED vars PROVE TypeOK'
  BY <1>1 DEF vars
<1>2. ASSUME NEW s \in Signals, Exit(s) PROVE TypeOK'
  BY <1>2 DEF Exit
<1>3. ASSUME NEW r \in Requests, Arrive(r) PROVE TypeOK'
  <2> PICK b \in Browsers, kind \in {"run", "reset"} :
        request' = [request EXCEPT ![r] =
          [Free EXCEPT !.stage = kind, !.browser = b,
                       !.sid = IF cookie[b] = None THEN None ELSE cookie[b].id]]
    BY <1>3 DEF Arrive
  <2> DEFINE sid == IF cookie[b] = None THEN None ELSE cookie[b].id
             h == [Free EXCEPT !.stage = kind, !.browser = b, !.sid = sid]
  <2>1. sid \in Ids \cup {None}
    BY DEF Cookies
  <2>2. h \in Handlers /\ h.stage = kind /\ h.browser = b
    BY <2>1 DEF Free
  <2>3. request' \in [Requests -> Handlers] /\ request'[r] = h
        /\ \A q \in Requests : q # r => request'[q] = request[q]
    BY <2>2
  <2>4. UNCHANGED <<now, sessions, sweeping, agent, owner, cookie, drain, exited>>
    BY <1>3 DEF Arrive
  <2>5. \A q \in Requests :
          /\ request'[q].stage # "free" => request'[q].browser \in Browsers
          /\ request'[q].stage \in {"starting", "running"} => request'[q].id \in Ids
          /\ request'[q].stage = "resetting" => request'[q].sid \in Ids
    BY <2>2, <2>3
  <2> QED BY <2>3, <2>4, <2>5
<1>4. ASSUME NEW r \in Requests, RejectIdentity(r) PROVE TypeOK'
  BY <1>4 DEF RejectIdentity, Answer, Free
<1>5. ASSUME NEW r \in Requests, AcquireHit(r) PROVE TypeOK'
  <2>1. request[r].sid \in Ids
    BY <1>5 DEF AcquireHit
  <2> DEFINE h == [request[r] EXCEPT !.stage = "running", !.id = request[r].sid]
  <2>4. request' = [request EXCEPT ![r] = h] /\ h \in Handlers
    BY <1>5, <2>1 DEF AcquireHit
  <2>5. request' \in [Requests -> Handlers]
    BY <2>4
  <2>2. Live' = Live /\ \A id \in Live : sessions'[id] \in Entries
    BY <1>5 DEF AcquireHit, Touch, Entries
  <2>3. \A q \in Requests :
          /\ request'[q].stage # "free" => request'[q].browser \in Browsers
          /\ request'[q].stage \in {"starting", "running"} => request'[q].id \in Ids
          /\ request'[q].stage = "resetting" => request'[q].sid \in Ids
    BY <1>5, <2>1 DEF AcquireHit
  <2> QED BY <1>5, <2>5, <2>2, <2>3 DEF AcquireHit
<1>6. ASSUME NEW r \in Requests, AcquireMiss(r) PROVE TypeOK'
  <2> PICK id \in FreshIds :
        /\ sessions' = [i \in Live \ Evicted |-> sessions[i]]
        /\ agent' = [i \in Ids |-> IF i = id THEN "starting"
                                   ELSE IF i \in Evicted THEN "closing" ELSE agent[i]]
        /\ owner' = [owner EXCEPT ![id] = request[r].browser]
        /\ request' = [request EXCEPT ![r] =
             [@ EXCEPT !.stage = "starting", !.id = id, !.created = TRUE]]
    BY <1>6 DEF AcquireMiss
  <2>1. id \in Ids
    BY DEF FreshIds
  <2>2. Live' = Live \ Evicted /\ \A i \in Live' : sessions'[i] = sessions[i]
    OBVIOUS
  <2> DEFINE h == [request[r] EXCEPT !.stage = "starting", !.id = id, !.created = TRUE]
  <2>7. request' = [request EXCEPT ![r] = h]
    OBVIOUS
  <2>8. h \in Handlers
    <3>1. request[r] \in Handlers
      OBVIOUS
    <3> QED BY <3>1, <2>1
  <2>3. request' \in [Requests -> Handlers]
    BY <2>7, <2>8
  <2>4. \A q \in Requests :
          /\ request'[q].stage # "free" => request'[q].browser \in Browsers
          /\ request'[q].stage \in {"starting", "running"} => request'[q].id \in Ids
          /\ request'[q].stage = "resetting" => request'[q].sid \in Ids
    BY <1>6, <2>1 DEF AcquireMiss
  <2>5. agent' \in [Ids -> AgentStages] /\ owner' \in [Ids -> Browsers \cup {None}]
    BY <1>6, <2>1 DEF AcquireMiss
  <2>6. UNCHANGED <<now, sweeping, cookie, drain, exited>>
    BY <1>6 DEF AcquireMiss
  <2> QED BY <2>2, <2>3, <2>4, <2>5, <2>6
<1>7. ASSUME NEW r \in Requests, Started(r) PROVE TypeOK'
  <2>1. Place \in Nat
    <3>1. IsFiniteSet({id \in Ids : agent[id] \in {"up", "closing", "closed"}})
      BY PopulationIsFinite, FS_Subset
    <3> QED BY <3>1, FS_CardinalityType DEF Place
  <2> QED BY <1>7, <2>1 DEF Started, Register, StartSweeper, Entries
<1>8. ASSUME NEW r \in Requests, StartFails(r) PROVE TypeOK'
  BY <1>8 DEF StartFails, Answer, Free
<1>9. ASSUME NEW r \in Requests, RunEnds(r) PROVE TypeOK'
  BY <1>9 DEF RunEnds, Answer, Free, Cookies
<1>10. ASSUME NEW r \in Requests, RunThrows(r) PROVE TypeOK'
  BY <1>10 DEF RunThrows, Answer, Free
<1>11. ASSUME NEW r \in Requests, EndSession(r) PROVE TypeOK'
  BY <1>11 DEF EndSession, Dismiss
<1>12. ASSUME NEW r \in Requests, ResetEnds(r) PROVE TypeOK'
  BY <1>12 DEF ResetEnds, Answer, Free
<1>13. ASSUME Sweep PROVE TypeOK'
  BY <1>13 DEF Sweep, Dismiss
<1>14. ASSUME NEW id \in Ids, AgentCloses(id) PROVE TypeOK'
  BY <1>14 DEF AgentCloses
<1>15. ASSUME Tick PROVE TypeOK'
  BY <1>15 DEF Tick
<1>16. ASSUME NEW s \in Signals, Signal(s) PROVE TypeOK'
  BY <1>16 DEF Signal, Dismiss, Awaited
<1> QED
  BY <1>1, <1>2, <1>3, <1>4, <1>5, <1>6, <1>7, <1>8, <1>9, <1>10, <1>11, <1>12,
     <1>13, <1>14, <1>15, <1>16 DEF Next, Serve, Rest

-----------------------------------------------------------------------------
(* No wallet leaks.                                                        *)

\* The Agents that are up and the entries of the Map come and go together.
LEMMA AccountedStep == StoreInv /\ [Next]_vars => AgentsAccountedFor'
<1> SUFFICES ASSUME StoreInv, [Next]_vars PROVE AgentsAccountedFor'
  OBVIOUS
<1> USE DEF StoreInv, TypeOK, AgentsAccountedFor, Live
<1>1. ASSUME UNCHANGED <<sessions, agent>> PROVE AgentsAccountedFor'
  BY <1>1
<1>2. ASSUME NEW r \in Requests, AcquireHit(r) PROVE AgentsAccountedFor'
  BY <1>2 DEF AcquireHit, Touch
<1>3. ASSUME NEW r \in Requests, AcquireMiss(r) PROVE AgentsAccountedFor'
  BY <1>3 DEF AcquireMiss, FreshIds, Evicted
<1>4. ASSUME NEW r \in Requests, Started(r) PROVE AgentsAccountedFor'
  BY <1>4 DEF Started, Register
<1>5. ASSUME NEW r \in Requests, StartFails(r) PROVE AgentsAccountedFor'
  BY <1>5 DEF StartFails, StartsApart
<1>6. ASSUME NEW ids \in SUBSET Ids, Dismiss(ids) PROVE AgentsAccountedFor'
  BY <1>6 DEF Dismiss
<1>7. ASSUME NEW r \in Requests, EndSession(r) PROVE AgentsAccountedFor'
  <2>1. {request[r].sid} \in SUBSET Ids /\ Dismiss({request[r].sid})
    BY <1>7 DEF EndSession
  <2> QED BY <1>6, <2>1
<1>8. ASSUME Sweep PROVE AgentsAccountedFor'
  <2>1. {id \in Live : Expired(id)} \in SUBSET Ids /\ Dismiss({id \in Live : Expired(id)})
    BY <1>8 DEF Sweep
  <2> QED BY <1>6, <2>1
<1>9. ASSUME NEW s \in Signals, Signal(s) PROVE AgentsAccountedFor'
  <2>1. Live \in SUBSET Ids /\ Dismiss(Live)
    BY <1>9 DEF Signal
  <2> QED BY <1>6, <2>1
<1>10. ASSUME NEW id \in Ids, AgentCloses(id) PROVE AgentsAccountedFor'
  BY <1>10 DEF AgentCloses
<1> QED
  BY <1>1, <1>2, <1>3, <1>4, <1>5, <1>7, <1>8, <1>9, <1>10
  DEF Next, Serve, Rest, vars, Exit, Arrive, RejectIdentity, RunEnds, RunThrows,
      ResetEnds, Tick

\* Two starts are never for the same id, and nothing else touches its Agent.
LEMMA StartsApartStep == StoreInv /\ [Next]_vars => StartsApart'
<1> SUFFICES ASSUME StoreInv, [Next]_vars PROVE StartsApart'
  OBVIOUS
<1> USE DEF StoreInv, TypeOK, AgentsAccountedFor, StartsApart
<1>1. ASSUME UNCHANGED <<request, agent>> PROVE StartsApart'
  BY <1>1
<1>2. ASSUME NEW r \in Requests, NEW h \in Handlers, h.stage # "starting",
             request' = [request EXCEPT ![r] = h], agent' = agent
      PROVE  StartsApart'
  BY <1>2
<1>3. ASSUME NEW r \in Requests, NEW h \in Handlers, request[r].stage = "starting", h.stage # "starting",
             request' = [request EXCEPT ![r] = h],
             NEW a, agent' = [agent EXCEPT ![request[r].id] = a]
      PROVE  StartsApart'
  BY <1>3
<1>4. ASSUME NEW ids \in SUBSET Live, Dismiss(ids),
             request' = request
             \/ \E r \in Requests : request' = [request EXCEPT ![r].stage = "resetting"]
      PROVE  StartsApart'
  BY <1>4 DEF Dismiss, Handlers
<1>5. Free \in Handlers /\ Free.stage = "free"
  BY DEF Free, Handlers, Stages
<1>6. ASSUME NEW r \in Requests, Arrive(r) PROVE StartsApart'
  BY <1>6, <1>5 DEF Arrive, Free
<1>7. ASSUME NEW r \in Requests, AcquireHit(r) PROVE StartsApart'
  BY <1>7 DEF AcquireHit, Handlers
<1>8. ASSUME NEW r \in Requests, AcquireMiss(r) PROVE StartsApart'
  BY <1>8 DEF AcquireMiss, FreshIds, Evicted, Handlers
<1>9. ASSUME NEW r \in Requests, Started(r) PROVE StartsApart'
  BY <1>9 DEF Started, Handlers
<1>10. ASSUME NEW r \in Requests, StartFails(r) PROVE StartsApart'
  BY <1>10, <1>3, <1>5 DEF StartFails, Answer
<1>11. ASSUME NEW r \in Requests, RejectIdentity(r) \/ RunEnds(r) \/ RunThrows(r) \/ ResetEnds(r)
       PROVE  StartsApart'
  BY <1>11, <1>2, <1>5 DEF RejectIdentity, RunEnds, RunThrows, ResetEnds, Answer
<1>12. ASSUME NEW r \in Requests, EndSession(r) PROVE StartsApart'
  <2>1. {request[r].sid} \in SUBSET Live /\ Dismiss({request[r].sid})
    BY <1>12 DEF EndSession
  <2> QED BY <1>4, <1>12, <2>1 DEF EndSession
<1>13. ASSUME Sweep PROVE StartsApart'
  <2>1. {id \in Live : Expired(id)} \in SUBSET Live /\ Dismiss({id \in Live : Expired(id)})
    BY <1>13 DEF Sweep
  <2> QED BY <1>4, <1>13, <2>1 DEF Sweep
<1>14. ASSUME NEW s \in Signals, Signal(s) PROVE StartsApart'
  BY <1>14, <1>4 DEF Signal
<1>15. ASSUME NEW id \in Ids, AgentCloses(id) PROVE StartsApart'
  BY <1>15 DEF AgentCloses
<1> QED
  BY <1>1, <1>6, <1>7, <1>8, <1>9, <1>10, <1>11, <1>12, <1>13, <1>14, <1>15
  DEF Next, Serve, Rest, vars, Exit, Tick

-----------------------------------------------------------------------------
(* Wallets are private.                                                    *)

\* A fresh id has no owner, so nothing in use is affected when it gets one.
LEMMA OwnersStep == StoreInv /\ [Next]_vars => OwnersKnown'
<1> SUFFICES ASSUME StoreInv, [Next]_vars PROVE OwnersKnown'
  OBVIOUS
<1> USE DEF StoreInv, TypeOK, AgentsAccountedFor, OwnersKnown, Live
<1>1. ASSUME UNCHANGED <<owner, request, cookie>>, \A id \in Ids : agent'[id] = "none" => agent[id] = "none"
      PROVE  OwnersKnown'
  BY <1>1
<1>2. ASSUME NEW r \in Requests, UNCHANGED <<owner, cookie>>, Answer(r),
             \A id \in Ids : agent'[id] = "none" => agent[id] = "none"
      PROVE  OwnersKnown'
  BY <1>2 DEF Answer, Free
<1>3. ASSUME NEW r \in Requests, Arrive(r) PROVE OwnersKnown'
  BY <1>3 DEF Arrive, Free, Cookies
<1>4. ASSUME NEW r \in Requests, RejectIdentity(r) \/ RunThrows(r) \/ StartFails(r) PROVE OwnersKnown'
  BY <1>4, <1>2 DEF RejectIdentity, RunThrows, StartFails
<1>5. ASSUME NEW r \in Requests, AcquireHit(r) PROVE OwnersKnown'
  BY <1>5 DEF AcquireHit, Handlers
<1>6. ASSUME NEW r \in Requests, AcquireMiss(r) PROVE OwnersKnown'
  <2> PICK id \in FreshIds :
        /\ agent' = [i \in Ids |-> IF i = id THEN "starting"
                                   ELSE IF i \in Evicted THEN "closing" ELSE agent[i]]
        /\ owner' = [owner EXCEPT ![id] = request[r].browser]
        /\ request' = [request EXCEPT ![r] =
             [@ EXCEPT !.stage = "starting", !.id = id, !.created = TRUE]]
    BY <1>6 DEF AcquireMiss
  <2>1. id \in Ids /\ owner[id] = None
    BY DEF FreshIds
  <2>2. request[r].browser \in Browsers /\ cookie' = cookie
    BY <1>6 DEF AcquireMiss
  <2>3. \A i \in Ids : agent'[i] = "none" => owner'[i] = None
    BY <2>1
  <2>4. \A b \in Browsers : cookie'[b] # None => owner'[cookie'[b].id] = b
    BY <2>1, <2>2 DEF Cookies
  <2>5. \A q \in Requests : request[q].sid # None => request[q].sid # id
    BY <2>1, <1>6 DEF AcquireMiss, Handlers, Free
  <2>6. \A q \in Requests : request[q].stage \in {"starting", "running"} => request[q].id # id
    BY <2>1 DEF Handlers
  <2>7. \A q \in Requests : /\ request'[q].sid = request[q].sid
                            /\ request'[q].browser = request[q].browser
                            /\ q # r => request'[q] = request[q]
    BY DEF Handlers
  <2>8. request'[r].id = id
    BY DEF Handlers
  <2> QED BY <2>1, <2>2, <2>3, <2>4, <2>5, <2>6, <2>7, <2>8
<1>7. ASSUME NEW r \in Requests, Started(r) PROVE OwnersKnown'
  BY <1>7 DEF Started, Handlers
<1>8. ASSUME NEW r \in Requests, RunEnds(r) PROVE OwnersKnown'
  BY <1>8 DEF RunEnds, Answer, Free, Cookies
<1>9. ASSUME NEW r \in Requests, EndSession(r) PROVE OwnersKnown'
  BY <1>9 DEF EndSession, Dismiss, Handlers
<1>10. ASSUME NEW r \in Requests, ResetEnds(r) PROVE OwnersKnown'
  BY <1>10 DEF ResetEnds, Answer, Free
<1>11. ASSUME Sweep \/ \E s \in Signals : Signal(s) PROVE OwnersKnown'
  <2>1. \A id \in Ids : agent'[id] = "none" => agent[id] = "none"
    <3>1. CASE Sweep
      BY <3>1 DEF Sweep, Dismiss
    <3>2. CASE \E s \in Signals : Signal(s)
      BY <3>2 DEF Signal, Dismiss
    <3> QED BY <1>11, <3>1, <3>2
  <2>2. UNCHANGED <<owner, request, cookie>>
    BY <1>11 DEF Sweep, Signal
  <2> QED BY <2>1, <2>2, <1>1
<1>12. ASSUME NEW id \in Ids, AgentCloses(id) PROVE OwnersKnown'
  BY <1>12, <1>1 DEF AgentCloses
<1>13. ASSUME Tick PROVE OwnersKnown'
  BY <1>13 DEF Tick
<1>14. ASSUME UNCHANGED <<owner, request, cookie, agent>> PROVE OwnersKnown'
  BY <1>14, <1>1
<1> QED
  BY <1>3, <1>4, <1>5, <1>6, <1>7, <1>8, <1>9, <1>10, <1>11, <1>12, <1>13, <1>14
  DEF Next, Serve, Rest, vars, Exit

-----------------------------------------------------------------------------
(* The population is bounded.                                              *)

\* Removing something from a finite set makes it smaller.
LEMMA Smaller ==
  ASSUME NEW S, IsFiniteSet(S), NEW T, T \cap S # {}
  PROVE  Cardinality(S \ T) + 1 <= Cardinality(S)
<1> PICK x : x \in T \cap S
  OBVIOUS
<1>1. IsFiniteSet(S \ {x}) /\ Cardinality(S \ {x}) = Cardinality(S) - 1
  BY FS_RemoveElement
<1>2. S \ T \subseteq S \ {x}
  OBVIOUS
<1>3. IsFiniteSet(S \ T) /\ Cardinality(S \ T) <= Cardinality(S \ {x})
  BY <1>1, <1>2, FS_Subset
<1>4. Cardinality(S) \in Nat /\ Cardinality(S \ T) \in Nat
  BY <1>3, FS_CardinalityType
<1> QED BY <1>1, <1>3, <1>4

\* A non-empty set of naturals has a least element.
LEMMA Least == ASSUME NEW S \in SUBSET Nat, S # {} PROVE \E m \in S : \A n \in S : m <= n
<1>1. IsWellFoundedOn(OpToRel(<, Nat), Nat)
  BY NatLessThanWellFounded
<1>2. PICK m \in S : \A n \in S : ~(<<n, m>> \in OpToRel(<, Nat))
  BY <1>1, WFMin
<1>3. \A n \in S : ~(n < m)
  BY <1>2 DEF OpToRel
<1> QED BY <1>3

\* At capacity the eviction loop finds someone to evict.
LEMMA SomebodyIsEvicted == ASSUME TypeOK, AtCapacity PROVE Evicted \cap Live # {}
<1> USE DEF TypeOK, Entries
<1>1. Live # {}
  <2>1. Cardinality({}) = 0
    BY FS_EmptySet
  <2>2. ~(0 >= MaxSessions)
    BY BoundsAreNaturals
  <2> QED BY <2>1, <2>2 DEF AtCapacity
<1> DEFINE Times == {sessions[id].lastUsed : id \in Live}
<1>2. Times \in SUBSET Nat /\ Times # {}
  BY <1>1
<1>3. PICK t \in Times : \A u \in Times : t <= u
  BY <1>2, Least
<1> DEFINE Places == {sessions[id].place : id \in {i \in Live : sessions[i].lastUsed = t}}
<1>4. Places \in SUBSET Nat /\ Places # {}
  <2>1. PICK id \in Live : sessions[id].lastUsed = t
    BY <1>3
  <2>2. sessions[id].place \in Places
    BY <2>1
  <2>3. ASSUME NEW p \in Places PROVE p \in Nat
    BY <2>3
  <2> HIDE DEF Places
  <2> QED BY <2>2, <2>3
<1>5. PICK p \in Places : \A u \in Places : p <= u
  BY <1>4, Least
<1>6. PICK id \in Live : sessions[id].lastUsed = t /\ sessions[id].place = p
  BY <1>5
<1>7. ASSUME NEW other \in Live PROVE Older(id, other)
  <2>1. t <= sessions[other].lastUsed
    BY <1>3
  <2>2. CASE t = sessions[other].lastUsed
    <3>1. sessions[other].place \in Places
      BY <2>2
    <3> QED BY <3>1, <1>5, <1>6, <2>2 DEF Older
  <2>3. CASE t # sessions[other].lastUsed
    BY <2>1, <2>3, <1>2, <1>6 DEF Older
  <2> QED BY <2>2, <2>3
<1> QED BY <1>6, <1>7 DEF Evicted

\* A start adds to the population only below capacity, and only once.
LEMMA PopulationStep == StoreInv /\ PopulationBounded /\ [Next]_vars => PopulationBounded'
<1> SUFFICES ASSUME StoreInv, PopulationBounded, [Next]_vars PROVE PopulationBounded'
  OBVIOUS
<1> USE DEF StoreInv, TypeOK
<1>1. /\ IsFiniteSet(Live) /\ Cardinality(Live) \in Nat
      /\ IsFiniteSet(Starting) /\ Cardinality(Starting) \in Nat
      /\ Cardinality(Requests) \in Nat
  BY PopulationIsFinite, FS_Subset, FS_CardinalityType DEF Starting
<1>2. ASSUME Live' \subseteq Live, Starting' \subseteq Starting PROVE PopulationBounded'
  <2>1. Cardinality(Live') <= Cardinality(Live) /\ Cardinality(Live') \in Nat
    BY <1>1, <1>2, FS_Subset, FS_CardinalityType
  <2>2. Cardinality(Starting') <= Cardinality(Starting) /\ Cardinality(Starting') \in Nat
    BY <1>1, <1>2, FS_Subset, FS_CardinalityType
  <2> QED BY <1>1, <2>1, <2>2 DEF PopulationBounded
<1>3. ASSUME NEW r \in Requests, AcquireMiss(r) PROVE PopulationBounded'
  <2>1. Live' = Live \ Evicted
    BY <1>3 DEF AcquireMiss, Live
  <2>2. Starting' = Starting \cup {r} /\ r \notin Starting
    BY <1>3 DEF AcquireMiss, Starting, Handlers
  <2>3. Cardinality(Starting') = Cardinality(Starting) + 1
    BY <1>1, <2>2, FS_AddElement
  <2>4. CASE AtCapacity
    <3>1. Cardinality(Live') + 1 <= Cardinality(Live)
      BY <2>1, <2>4, <1>1, SomebodyIsEvicted, Smaller
    <3>2. Cardinality(Live') \in Nat
      BY <2>1, <1>1, FS_Subset, FS_CardinalityType
    <3> QED BY <1>1, <2>3, <3>1, <3>2 DEF PopulationBounded
  <2>5. CASE ~AtCapacity
    <3>1. Live' = Live
      BY <2>1, <2>5 DEF Evicted
    <3>2. Cardinality(Live) + 1 <= MaxSessions
      BY <2>5, <1>1 DEF AtCapacity
    <3>3. Starting' \subseteq Requests
      BY DEF Starting
    <3>4. Cardinality(Starting') <= Cardinality(Requests)
      BY <3>3, PopulationIsFinite, FS_Subset
    <3> QED BY <1>1, <2>3, <3>1, <3>2, <3>4 DEF PopulationBounded
  <2> QED BY <2>4, <2>5
<1>4. ASSUME NEW r \in Requests, Started(r) PROVE PopulationBounded'
  <2>1. Live' = Live \cup {request[r].id}
    BY <1>4 DEF Started, Register, Live
  <2>2. Starting' = Starting \ {r} /\ r \in Starting
    BY <1>4 DEF Started, Starting, Handlers
  <2>3. Cardinality(Starting') = Cardinality(Starting) - 1
    BY <1>1, <2>2, FS_RemoveElement
  <2>4. Cardinality(Live') <= Cardinality(Live) + 1 /\ Cardinality(Live') \in Nat
    <3>1. CASE request[r].id \in Live
      <4>1. Live' = Live
        BY <3>1, <2>1
      <4> QED BY <4>1, <1>1
    <3>2. CASE request[r].id \notin Live
      <4>1. Cardinality(Live \cup {request[r].id}) = Cardinality(Live) + 1
        BY <3>2, <1>1, FS_AddElement
      <4> QED BY <4>1, <2>1, <1>1
    <3> QED BY <3>1, <3>2
  <2> QED BY <1>1, <2>3, <2>4 DEF PopulationBounded
<1>5. ASSUME NEW r \in Requests, Arrive(r) PROVE PopulationBounded'
  BY <1>5, <1>2 DEF Arrive, Free, Starting, Live
<1>6. ASSUME NEW r \in Requests, Answer(r), UNCHANGED sessions PROVE PopulationBounded'
  BY <1>6, <1>2 DEF Answer, Free, Starting, Live
<1>7. ASSUME NEW r \in Requests, AcquireHit(r) PROVE PopulationBounded'
  BY <1>7, <1>2 DEF AcquireHit, Touch, Starting, Live, Handlers
<1>8. ASSUME NEW r \in Requests, EndSession(r) PROVE PopulationBounded'
  BY <1>8, <1>2 DEF EndSession, Dismiss, Starting, Live, Handlers
<1>9. ASSUME Sweep \/ \E s \in Signals : Signal(s) PROVE PopulationBounded'
  BY <1>9, <1>2 DEF Sweep, Signal, Dismiss, Starting, Live
<1>10. ASSUME UNCHANGED <<sessions, request>> PROVE PopulationBounded'
  BY <1>10, <1>2 DEF Starting, Live
<1> QED
  BY <1>3, <1>4, <1>5, <1>6, <1>7, <1>8, <1>9, <1>10
  DEF Next, Serve, Rest, vars, Exit, RejectIdentity, StartFails, RunEnds, RunThrows,
      ResetEnds, AgentCloses, Tick

-----------------------------------------------------------------------------
(* Agents are shut down for cause.                                         *)

Cause(id) ==
  \/ now - sessions[id].lastUsed > IdleTime
  \/ /\ Cardinality(Live) >= MaxSessions
     /\ IsOldest(id)
     /\ \E r \in Requests : request[r].stage = "run" /\ request'[r].stage = "starting"
  \/ \E r \in Requests : /\ request[r].stage = "reset"
                         /\ request'[r].stage = "resetting"
                         /\ request[r].browser = owner[id]
  \/ \E s \in Signals : drain[s] = None /\ drain'[s] # None

ClosesForCause == \A id \in Ids : agent[id] = "up" /\ agent'[id] = "closing" => Cause(id)

\* What is evicted has not been used since anything else was.
LEMMA EvictedIsOldest == ASSUME TypeOK, NEW id \in Evicted PROVE AtCapacity /\ IsOldest(id)
  BY DEF TypeOK, Entries, Evicted, Older, IsOldest

\* An Agent that is up begins to close in four actions only, each with its cause.
LEMMA CauseStep == StoreInv /\ [Next]_vars => ClosesForCause
<1> SUFFICES ASSUME StoreInv, [Next]_vars,
                    NEW id \in Ids, agent[id] = "up", agent'[id] = "closing"
             PROVE  Cause(id)
  BY DEF ClosesForCause
<1> USE DEF StoreInv, TypeOK
<1>1. ASSUME NEW r \in Requests, AcquireMiss(r) PROVE Cause(id)
  <2>1. id \in Evicted
    BY <1>1 DEF AcquireMiss, FreshIds
  <2>2. AtCapacity /\ IsOldest(id)
    BY <2>1, EvictedIsOldest
  <2>3. request[r].stage = "run" /\ request'[r].stage = "starting"
    BY <1>1 DEF AcquireMiss, Handlers
  <2> QED BY <2>2, <2>3 DEF Cause, AtCapacity
<1>2. ASSUME NEW r \in Requests, EndSession(r) PROVE Cause(id)
  <2>1. id = request[r].sid /\ request[r].sid # None
    BY <1>2 DEF EndSession, Dismiss
  <2>2. request[r].stage = "reset" /\ request'[r].stage = "resetting"
    BY <1>2 DEF EndSession, Handlers
  <2>3. request[r].browser = owner[id]
    BY <2>1 DEF OwnersKnown
  <2> QED BY <2>2, <2>3 DEF Cause
<1>3. ASSUME Sweep PROVE Cause(id)
  BY <1>3 DEF Sweep, Dismiss, Expired, Cause
<1>4. ASSUME NEW s \in Signals, Signal(s) PROVE Cause(id)
  <2>1. drain[s] = None /\ drain'[s] = Live
    BY <1>4 DEF Signal, Awaited
  <2>2. id \in Live
    BY DEF AgentsAccountedFor
  <2>3. Live # None
    BY NoneIsNoId
  <2> QED BY <2>1, <2>3 DEF Cause
<1>5. ASSUME NEW r \in Requests, Started(r) \/ StartFails(r) PROVE Cause(id)
  BY <1>5 DEF Started, StartFails
<1>6. ASSUME NEW i \in Ids, AgentCloses(i) PROVE Cause(id)
  BY <1>6 DEF AgentCloses
<1>7. ASSUME UNCHANGED agent PROVE Cause(id)
  BY <1>7
<1> QED
  BY <1>1, <1>2, <1>3, <1>4, <1>5, <1>6, <1>7
  DEF Next, Serve, Rest, vars, Exit, Arrive, RejectIdentity, AcquireHit, RunEnds, RunThrows,
      ResetEnds, Tick

-----------------------------------------------------------------------------
\* The invariant is inductive.
LEMMA StoreStep == StoreInv /\ [Next]_vars => StoreInv'
  BY TypeStep, AccountedStep, StartsApartStep, OwnersStep DEF StoreInv

\* Every behaviour stays within the invariant.
THEOREM StoreCorrect == Spec => []StoreInv
  BY InitStore, StoreStep, PTL DEF Spec

\* Every behaviour is type correct.
THEOREM StoreTypeCorrect == Spec => []TypeOK
<1>1. StoreInv => TypeOK
  BY DEF StoreInv
<1> QED BY <1>1, StoreCorrect, PTL

\* No wallet ever leaks: what is up is in the Map.
THEOREM NoWalletLeaks == Spec => []AgentsAccountedFor
<1>1. StoreInv => AgentsAccountedFor
  BY DEF StoreInv
<1> QED BY <1>1, StoreCorrect, PTL

\* MAX_SESSIONS is exceeded by the concurrent starts at most.
THEOREM PopulationStaysBounded == Spec => []PopulationBounded
  BY InitStore, StoreStep, PopulationStep, PTL DEF Spec

\* Nobody's requests run in somebody else's wallet.
THEOREM WalletsStayPrivate == Spec => []WalletsArePrivate
<1>1. StoreInv => WalletsArePrivate
  BY DEF StoreInv, OwnersKnown, WalletsArePrivate
<1> QED BY <1>1, StoreCorrect, PTL

\* Nothing is shut down without one of the four causes.
THEOREM ShutDownForCause == Spec => ClosedForCause
<1>1. StoreInv /\ [Next]_vars => [ClosesForCause]_vars
  BY CauseStep
<1>2. [][ClosesForCause]_vars => ClosedForCause
  BY PTL DEF ClosedForCause, ClosesForCause, Cause
<1> QED BY <1>1, <1>2, StoreCorrect, PTL DEF Spec
=============================================================================
