------------------------------ MODULE SessionStore ------------------------------
(***************************************************************************)
(* The playground's store of Credo Agents (playground/src/credo-session.ts *)
(* under the routes of server.ts and the signal handlers of main.ts): one  *)
(* Agent with an in-memory wallet per session, found again by a cookie,    *)
(* collected by an idle sweeper, a least-recently-used eviction, a reset   *)
(* and the exit of the process.  Between two awaits a handler runs alone;  *)
(* at each await the other handlers, the sweeper and the signals run.      *)
(***************************************************************************)
EXTENDS Integers, FiniteSets

CONSTANTS
  None,          \* undefined
  Requests,      \* the requests the server handles at one time
  Browsers,      \* who sends them
  Ids,           \* what randomUUID may return, once each: bounds the sessions
  Signals,       \* the SIGINTs and SIGTERMs the process receives
  MaxSessions,   \* MAX_SESSIONS
  IdleTime,      \* IDLE_MS, also the Max-Age of the cookie
  MaxTime        \* bound on the clock

VARIABLES
  now,        \* Date.now()
  sessions,   \* the Map: a function from the ids it holds to their entries
  sweeping,   \* the sweeper's interval is set
  agent,      \* agent[id]: the Agent of that id
  owner,      \* history: owner[id] is the browser that Agent was started for
  request,    \* request[r]: the handler of request r
  cookie,     \* cookie[b]: the cookie browser b holds, or None
  drain,      \* drain[s]: what shutdownAll awaits for signal s, None before it
  exited      \* process.exit has run

vars == <<now, sessions, sweeping, agent, owner, request, cookie, drain, exited>>

ASSUME BoundsAreNaturals ==
  MaxSessions \in Nat \ {0} /\ IdleTime \in Nat /\ MaxTime \in Nat

ASSUME PopulationIsFinite == IsFiniteSet(Requests) /\ IsFiniteSet(Ids)

ASSUME NoneIsNoId ==
  None \notin Ids /\ None \notin Browsers /\ \A ids \in SUBSET Ids : ids # None

\* Where a handler is: a run request before acquire, in Session.start, in
\* session.run; a reset request before endSession, in session.shutdown.
Stages == {"free", "run", "starting", "running", "reset", "resetting"}

\* sid is the cookie sent, id the session acquired, created whether for it.
Handlers ==
  [stage : Stages, browser : Browsers \cup {None}, sid : Ids \cup {None},
   id : Ids \cup {None}, created : BOOLEAN]

Free == [stage |-> "free", browser |-> None, sid |-> None, id |-> None, created |-> FALSE]

AgentStages == {"none", "starting", "failed", "up", "closing", "closed"}

-----------------------------------------------------------------------------
Init ==
  /\ now = 0
  /\ sessions = [id \in {} |-> None]
  /\ sweeping = FALSE
  /\ agent = [id \in Ids |-> "none"]
  /\ owner = [id \in Ids |-> None]
  /\ request = [r \in Requests |-> Free]
  /\ cookie = [b \in Browsers |-> None]
  /\ drain = [s \in Signals |-> None]
  /\ exited = FALSE

Live == DOMAIN sessions

\* The server takes requests until its first signal closes it.
Serving == \A s \in Signals : drain[s] = None

\* Slip: the entry is deleted and its Agent left running.
Forget(ids) ==
  /\ sessions' = [id \in Live \ ids |-> sessions[id]]
  /\ agent' = agent

\* sessions.delete(id) and session.shutdown(), for each of these.
Dismiss(ids) ==
  /\ sessions' = [id \in Live \ ids |-> sessions[id]]
  /\ agent' = [id \in Ids |-> IF id \in ids THEN "closing" ELSE agent[id]]

\* entry.lastUsed = Date.now().
Touch(id) == sessions' = [sessions EXCEPT ![id].lastUsed = now]

\* A Map is iterated in the order its keys were set: place is an entry's.
Place == Cardinality({id \in Ids : agent[id] \in {"up", "closing", "closed"}})

\* sessions.set(id, entry).
Register(id) ==
  sessions' = [i \in Live \cup {id} |->
                 IF i = id THEN [lastUsed |-> now, place |-> Place] ELSE sessions[i]]

\* The process lives on: nothing but Exit ends it.
Running == ~exited /\ UNCHANGED exited

\* Request r is answered.
Answer(r) == request' = [request EXCEPT ![r] = Free]

-----------------------------------------------------------------------------
(* The routes of server.ts.                                                *)

\* A request is sent with the cookie the browser holds at that time; its body
\* is then read and, for a run, its identity parsed.
Arrive(r) ==
  /\ Running
  /\ Serving
  /\ request[r].stage = "free"
  /\ \E b \in Browsers, kind \in {"run", "reset"} :
       request' = [request EXCEPT ![r] =
         [Free EXCEPT !.stage = kind, !.browser = b,
                      !.sid = IF cookie[b] = None THEN None ELSE cookie[b].id]]
  /\ UNCHANGED <<now, sessions, sweeping, agent, owner, cookie, drain>>

\* identityFromRequest throws: a 400, with no session looked at.
RejectIdentity(r) ==
  /\ Running
  /\ request[r].stage = "run"
  /\ Answer(r)
  /\ UNCHANGED <<now, sessions, sweeping, agent, owner, cookie, drain>>

\* acquire finds the session the cookie names.
AcquireHit(r) ==
  /\ Running
  /\ request[r].stage = "run"
  /\ request[r].sid \in Live
  /\ Touch(request[r].sid)
  /\ request' = [request EXCEPT ![r] = [@ EXCEPT !.stage = "running", !.id = request[r].sid]]
  /\ UNCHANGED <<now, sweeping, agent, owner, cookie, drain>>

\* Slip: one session more than MAX_SESSIONS before anything is evicted.
OverCapacity == Cardinality(Live) > MaxSessions

AtCapacity == Cardinality(Live) >= MaxSessions

\* Slip: the eviction prefers the most recently used.
MostRecent(id, other) == sessions[id].lastUsed >= sessions[other].lastUsed

\* The eviction loop keeps the first of the least lastUsed it meets.
Older(id, other) ==
  \/ sessions[id].lastUsed < sessions[other].lastUsed
  \/ sessions[id].lastUsed = sessions[other].lastUsed /\ sessions[id].place <= sessions[other].place

Evicted == IF AtCapacity THEN {id \in Live : \A other \in Live : Older(id, other)} ELSE {}

\* Slip: an id is given out again once the Agent that had it is closed.
RecycledIds == {id \in Ids : agent[id] \in {"none", "failed", "closed"}}

\* What randomUUID may return: an id no session has had.
FreshIds == {id \in Ids : agent[id] = "none"}

\* acquire finds none: it evicts at capacity, does not await the eviction,
\* and awaits Session.start for a new id.
AcquireMiss(r) ==
  /\ Running
  /\ request[r].stage = "run"
  /\ request[r].sid \notin Live
  /\ \E id \in FreshIds :
       /\ sessions' = [i \in Live \ Evicted |-> sessions[i]]
       /\ agent' = [i \in Ids |-> IF i = id THEN "starting"
                                  ELSE IF i \in Evicted THEN "closing" ELSE agent[i]]
       /\ owner' = [owner EXCEPT ![id] = request[r].browser]
       /\ request' = [request EXCEPT ![r] =
            [@ EXCEPT !.stage = "starting", !.id = id, !.created = TRUE]]
  /\ UNCHANGED <<now, sweeping, cookie, drain>>

\* Slip: the sweeper is not started with the first session.
SweepsAsBefore == sweeping

\* startSweeper: the interval is set now, or was before.
StartSweeper == TRUE

\* Session.start resolves: the session is registered and the run begins.
Started(r) ==
  /\ Running
  /\ request[r].stage = "starting"
  /\ Register(request[r].id)
  /\ agent' = [agent EXCEPT ![request[r].id] = "up"]
  /\ sweeping' = StartSweeper
  /\ request' = [request EXCEPT ![r].stage = "running"]
  /\ UNCHANGED <<now, owner, cookie, drain>>

\* agent.initialize throws inside Session.start: a 400, nothing registered.
StartFails(r) ==
  /\ Running
  /\ request[r].stage = "starting"
  /\ agent' = [agent EXCEPT ![request[r].id] = "failed"]
  /\ Answer(r)
  /\ UNCHANGED <<now, sessions, sweeping, owner, cookie, drain>>

\* session.run resolves: the answer sets a cookie when it made the session.
RunEnds(r) ==
  /\ Running
  /\ request[r].stage = "running"
  /\ cookie' = IF request[r].created
               THEN [cookie EXCEPT ![request[r].browser] =
                       [id |-> request[r].id, until |-> now + IdleTime]]
               ELSE cookie
  /\ Answer(r)
  /\ UNCHANGED <<now, sessions, sweeping, agent, owner, drain>>

\* session.run throws: a 400 that carries no cookie, whoever made the session.
RunThrows(r) ==
  /\ Running
  /\ request[r].stage = "running"
  /\ Answer(r)
  /\ UNCHANGED <<now, sessions, sweeping, agent, owner, cookie, drain>>

\* endSession deletes the entry the cookie names and awaits its shutdown.
EndSession(r) ==
  /\ Running
  /\ request[r].stage = "reset"
  /\ request[r].sid \in Live
  /\ Dismiss({request[r].sid})
  /\ request' = [request EXCEPT ![r].stage = "resetting"]
  /\ UNCHANGED <<now, sweeping, owner, cookie, drain>>

\* session.shutdown() has settled; a failure is swallowed.
ShutDown(id) == agent[id] = "closed"

\* The answer to a reset clears the browser's cookie, whichever it is by now.
ResetEnds(r) ==
  /\ Running
  /\ \/ request[r].stage = "reset" /\ request[r].sid \notin Live
     \/ request[r].stage = "resetting" /\ ShutDown(request[r].sid)
  /\ cookie' = [cookie EXCEPT ![request[r].browser] = None]
  /\ Answer(r)
  /\ UNCHANGED <<now, sessions, sweeping, agent, owner, drain>>

-----------------------------------------------------------------------------
(* The sweeper, the Agents, the clock and the signals.                     *)

Expired(id) == now - sessions[id].lastUsed > IdleTime

\* The interval fires and finds something to collect.
Sweep ==
  /\ Running
  /\ sweeping
  /\ \E id \in Live : Expired(id)
  /\ Dismiss({id \in Live : Expired(id)})
  /\ UNCHANGED <<now, sweeping, owner, request, cookie, drain>>

\* agent.shutdown() settles, one way or the other.
AgentCloses(id) ==
  /\ Running
  /\ agent[id] = "closing"
  /\ agent' = [agent EXCEPT ![id] = "closed"]
  /\ UNCHANGED <<now, sessions, sweeping, owner, request, cookie, drain>>

\* Time passes, and browsers drop the cookies whose Max-Age is over.
Tick ==
  /\ Running
  /\ now < MaxTime
  /\ now' = now + 1
  /\ cookie' = [b \in Browsers |->
                  IF cookie[b] # None /\ cookie[b].until > now + 1 THEN cookie[b] ELSE None]
  /\ UNCHANGED <<sessions, sweeping, agent, owner, request, drain>>

\* Slip: Session.start calls in flight are awaited too, and nobody ends those.
AwaitsStarting == {id \in Ids : agent[id] \in {"starting", "up"}}

\* shutdownAll awaits the Agents it takes out of the Map.
Awaited == Live

\* A signal: server.close(), then shutdownAll clears the interval and the Map
\* and awaits the Agents that were in it.
Signal(s) ==
  /\ Running
  /\ drain[s] = None
  /\ sweeping' = FALSE
  /\ Dismiss(Live)
  /\ drain' = [drain EXCEPT ![s] = Awaited]
  /\ UNCHANGED <<now, owner, request, cookie>>

\* shutdownAll has resolved for signal s: process.exit(0).
Exit(s) ==
  /\ ~exited
  /\ drain[s] # None
  /\ \A id \in drain[s] : ShutDown(id)
  /\ exited' = TRUE
  /\ UNCHANGED <<now, sessions, sweeping, agent, owner, request, cookie, drain>>

\* The process is gone.
Rest == exited /\ UNCHANGED vars

Serve(r) ==
  \/ RejectIdentity(r) \/ AcquireHit(r) \/ AcquireMiss(r) \/ Started(r) \/ StartFails(r)
  \/ RunEnds(r) \/ RunThrows(r) \/ EndSession(r) \/ ResetEnds(r)

Next ==
  \/ \E r \in Requests : Arrive(r) \/ Serve(r)
  \/ Sweep
  \/ \E id \in Ids : AgentCloses(id)
  \/ Tick
  \/ \E s \in Signals : Signal(s) \/ Exit(s)
  \/ Rest

\* Timers fire, and what Credo and Askar were asked for settles, while the
\* process lives; nothing makes a browser send or a signal come.
Fairness ==
  /\ \A r \in Requests : WF_vars(Serve(r))
  /\ \A id \in Ids : WF_vars(AgentCloses(id))
  /\ WF_vars(Sweep)
  /\ \A s \in Signals : WF_vars(Exit(s))

Spec == Init /\ [][Next]_vars /\ Fairness

-----------------------------------------------------------------------------
Entries == [lastUsed : 0..MaxTime, place : Nat]

Cookies == [id : Ids, until : Nat]

\* The state has its type; a handler holds what its stage needs; the interval
\* is set whenever the Map holds a session, or nothing would collect it.
TypeOK ==
  /\ now \in 0..MaxTime
  /\ sweeping \in BOOLEAN
  /\ Live \subseteq Ids
  /\ \A id \in Live : sessions[id] \in Entries
  /\ agent \in [Ids -> AgentStages]
  /\ owner \in [Ids -> Browsers \cup {None}]
  /\ request \in [Requests -> Handlers]
  /\ cookie \in [Browsers -> Cookies \cup {None}]
  /\ drain \in [Signals -> {None} \cup SUBSET Ids]
  /\ exited \in BOOLEAN
  /\ \A r \in Requests :
       /\ request[r].stage # "free" => request[r].browser \in Browsers
       /\ request[r].stage \in {"starting", "running"} => request[r].id \in Ids
       /\ request[r].stage = "resetting" => request[r].sid \in Ids
  /\ Live # {} => sweeping

\* Evictions, sweeps, resets and starts may interleave, but no wallet leaks:
\* the Agents that are up are exactly those the Map still holds, each of the
\* others that ran has been told to shut down (credo-session.ts 60-139).
AgentsAccountedFor == Live = {id \in Ids : agent[id] = "up"}

\* The requests that are starting a session, which no entry shows yet.
Starting == {r \in Requests : request[r].stage = "starting"}

\* MAX_SESSIONS is checked before an await and the session added after it, so
\* it can be passed; but only by the starts that overlap, never by a drift
\* over a long run of requests (credo-session.ts 86-106).
PopulationBounded ==
  Cardinality(Live) + Cardinality(Starting) < MaxSessions + Cardinality(Requests)

\* Visitors cannot see each other's imports (credo-agent.ts 191-192): the
\* Agent a request runs on was started for the browser that sent it, whatever
\* cookies are stale and whichever sessions were evicted meanwhile.
WalletsArePrivate ==
  \A r \in Requests : request[r].stage = "running" => owner[request[r].id] = request[r].browser

IsOldest(id) == \A other \in Live : sessions[id].lastUsed <= sessions[other].lastUsed

\* An Agent is shut down for one of four reasons only: idle beyond IDLE_MS,
\* the least recently used when a new session finds MAX_SESSIONS of them,
\* a reset by the browser it serves, or the end of the process.
ClosedForCause ==
  [][\A id \in Ids : agent[id] = "up" /\ agent'[id] = "closing" =>
       \/ now - sessions[id].lastUsed > IdleTime
       \/ /\ Cardinality(Live) >= MaxSessions
          /\ IsOldest(id)
          /\ \E r \in Requests : request[r].stage = "run" /\ request'[r].stage = "starting"
       \/ \E r \in Requests : /\ request[r].stage = "reset"
                              /\ request'[r].stage = "resetting"
                              /\ request[r].browser = owner[id]
       \/ \E s \in Signals : drain[s] = None /\ drain'[s] # None]_vars

\* A session idle for longer than IDLE_MS is collected, unless a request gets
\* to it first; the process is not kept alive for it.
IdleAgentsClose ==
  \A id \in Ids :
    (id \in Live /\ Expired(id)) ~> (exited \/ agent[id] = "closed" \/ (id \in Live /\ ~Expired(id)))

\* Once signalled, the process ends: shutdownAll never waits for an Agent that
\* nobody shuts down, whatever was being started or closed at that time.
SignalsEndTheProcess == \A s \in Signals : (drain[s] # None) ~> exited

-----------------------------------------------------------------------------
(* What comments in the code say and the code does not do.                 *)

\* credo-session.ts 29: a hard cap on concurrent agents.
HardCap == Cardinality(Live) <= MaxSessions
=============================================================================
