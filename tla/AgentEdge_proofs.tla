-------------------------- MODULE AgentEdge_proofs --------------------------
(***************************************************************************)
(* Proofs about the parts of AgentEdge, for every number of callers,       *)
(* openers and requests: who owns the sessions and the connections of the  *)
(* remote clients, that the table of handles drains, that a task of the    *)
(* A2A server ends once, that an admitted call hands over the tree of      *)
(* sub-agents that is registered, and that a worker with the fingerprint   *)
(* of the agent enforces what the agent was built with.  Each part has an  *)
(* inductive invariant of its own; the steps of the other parts leave its  *)
(* variables alone.                                                        *)
(***************************************************************************)
EXTENDS AgentEdge, FiniteSetTheorems, SequenceTheorems, WellFoundedInduction, TLAPS

-----------------------------------------------------------------------------
(* The remote clients.                                                     *)

Holding == {"connect", "rpc", "backoff"}

RemoteTypes ==
  /\ open \in BOOLEAN /\ made \in Nat /\ inner \in 0..made
  /\ DOMAIN user = Callers /\ \A c \in Callers : "step" \in DOMAIN user[c]
  /\ live \subseteq 1..made

\* The MCP client: whoever is inside an operation holds the mutex, and only a
\* caller inside an attempt has a session at the server.
SessionsOwned ==
  /\ \A c \in Callers : user[c].step \in Holding <=> mutex = c
  /\ sessions = {c \in Callers : user[c].step = "rpc"}

\* The A2A client: what a caller made and did not publish is its own.
MineOwn ==
  \A c \in Callers : user[c].step = "publish" =>
    /\ user[c].mine \in live \ {inner}
    /\ \A d \in Callers : user[d].step = "publish" /\ user[d].mine = user[c].mine => d = c

GotReal ==
  \A c \in Callers : user[c].step = "use" => "got" \in DOMAIN user[c] /\ user[c].got \in Nat \ {0}

\* The shared client is connected while the client is open.
SharedAlive == open /\ inner # NoInner => inner \in live

RemoteInv == RemoteTypes /\ SessionsOwned /\ MineOwn /\ GotReal /\ SharedAlive /\ ConnectionsOwned

\* What one caller's step does to the callers.
Only(c) ==
  /\ DOMAIN user' = Callers /\ "step" \in DOMAIN user'[c]
  /\ \A d \in Callers \ {c} : user'[d] = user[d]

LEMMA SetEffect ==
  ASSUME RemoteTypes, NEW c \in Callers, NEW u, Set(c, u), "step" \in DOMAIN u
  PROVE  Only(c) /\ user'[c] = u
  BY DEF RemoteTypes, Set, Only

LEMMA StepEffect ==
  ASSUME RemoteTypes, NEW c \in Callers, NEW s, Step(c, s)
  PROVE  Only(c) /\ user'[c].step = s /\ user'[c] = [user[c] EXCEPT !.step = s]
  <1>1. "step" \in DOMAIN user[c] /\ DOMAIN user = Callers
    BY DEF RemoteTypes
  <1>2. user' = [user EXCEPT ![c] = [user[c] EXCEPT !.step = s]]
    BY <1>1 DEF Step
  <1>3. QED
    BY <1>1, <1>2 DEF Only

LEMMA ReturnedEffect ==
  ASSUME RemoteTypes, NEW c \in Callers, NEW r, Returned(c, r)
  PROVE  Only(c) /\ user'[c].step = "returned"
  <1> DEFINE u == [user[c] EXCEPT !.step = "returned", !.result = r]
  <1>1. "step" \in DOMAIN user[c]
    BY DEF RemoteTypes
  <1>2. "step" \in DOMAIN u /\ u.step = "returned"
    BY <1>1
  <1>3. Set(c, u)
    BY DEF Returned
  <1> HIDE DEF u
  <1>4. QED
    BY <1>2, <1>3, SetEffect

\* Steps that only move a caller outside the mutex, without a connection of
\* its own, keep the invariant.
Quiet(c) ==
  /\ Only(c) /\ UNCHANGED <<open, mutex, sessions, inner, live, made>>
  /\ user[c].step \notin Holding \cup {"publish"}
  /\ user'[c].step \notin Holding \cup {"publish"}
  /\ user'[c].step = "use" => "got" \in DOMAIN user'[c] /\
       \/ open /\ inner # NoInner /\ user'[c].got = inner
       \/ user[c].step = "use" /\ user'[c].got = user[c].got

LEMMA QuietKeeps ==
  ASSUME RemoteInv, NEW c \in Callers, Quiet(c)
  PROVE  RemoteInv'
  <1> USE DEF Quiet, Only, Holding
  <1>1. RemoteTypes'
    BY DEF RemoteInv, RemoteTypes
  <1>2. SessionsOwned'
    BY DEF RemoteInv, SessionsOwned
  <1>3. MineOwn'
    BY DEF RemoteInv, MineOwn
  <1>4. GotReal'
    BY DEF RemoteInv, RemoteTypes, GotReal, NoInner
  <1>5. SharedAlive'
    BY DEF RemoteInv, SharedAlive
  <1>6. ConnectionsOwned'
    BY DEF RemoteInv, ConnectionsOwned
  <1>7. QED
    BY <1>1, <1>2, <1>3, <1>4, <1>5, <1>6 DEF RemoteInv

\* Steps of an MCP operation: the mutex and the session follow the caller's
\* place, and the A2A side is not touched.
Inside(c) ==
  /\ Only(c) /\ UNCHANGED <<open, inner, live, made>>
  /\ user[c].step \notin {"publish", "use"} /\ user'[c].step \notin {"publish", "use"}
  /\ \/ mutex' = mutex /\ (user[c].step \in Holding <=> user'[c].step \in Holding)
     \/ mutex = Nobody /\ mutex' = c /\ user'[c].step \in Holding
     \/ user[c].step \in Holding /\ mutex' = Nobody /\ user'[c].step \notin Holding
  /\ sessions' = IF user'[c].step = "rpc" THEN sessions \cup {c} ELSE sessions \ {c}

LEMMA InsideKeeps ==
  ASSUME RemoteInv, NEW c \in Callers, Inside(c)
  PROVE  RemoteInv'
  <1> USE DEF Inside, Only, Holding
  <1>1. RemoteTypes'
    BY DEF RemoteInv, RemoteTypes
  <1>2. SessionsOwned'
    <2>1. \A d \in Callers : user'[d].step \in Holding <=> mutex' = d
      BY CallersAssumption DEF RemoteInv, SessionsOwned, Nobody
    <2>2. sessions' = {d \in Callers : user'[d].step = "rpc"}
      BY DEF RemoteInv, SessionsOwned
    <2>3. QED
      BY <2>1, <2>2 DEF SessionsOwned
  <1>3. MineOwn'
    BY DEF RemoteInv, MineOwn
  <1>4. GotReal'
    BY DEF RemoteInv, GotReal
  <1>5. SharedAlive'
    BY DEF RemoteInv, SharedAlive
  <1>6. ConnectionsOwned'
    BY DEF RemoteInv, ConnectionsOwned
  <1>7. QED
    BY <1>1, <1>2, <1>3, <1>4, <1>5, <1>6 DEF RemoteInv

LEMMA FailedEffect ==
  ASSUME RemoteInv, NEW c \in Callers, FailedAttempt(c), user[c].step \in Holding
  PROVE  /\ Only(c)
         /\ \/ user'[c].step = "returned" /\ mutex' = Nobody
            \/ user'[c].step = "backoff" /\ mutex' = mutex
  <1>1. CASE user[c].attempt = RetryAttempts
    BY <1>1, ReturnedEffect DEF FailedAttempt, RemoteInv
  <1>2. CASE user[c].attempt # RetryAttempts
    BY <1>2, StepEffect DEF FailedAttempt, RemoteInv
  <1>3. QED
    BY <1>1, <1>2

\* The MCP steps.
LEMMA MCPSteps ==
  ASSUME RemoteInv, NEW c \in Callers,
         withSession(c) \/ Connect(c) \/ Request(c) \/ ListTools(c) \/ waitMCPRetry(c)
  PROVE  RemoteInv'
  <1>T. RemoteTypes /\ "step" \in DOMAIN user[c]
    BY DEF RemoteInv, RemoteTypes
  <1>S. /\ user[c].step \in Holding <=> mutex = c
        /\ c \in sessions <=> user[c].step = "rpc"
    BY DEF RemoteInv, SessionsOwned
  <1>1. CASE withSession(c)
    <2>1. CASE open
      <3>1. user[c].step = "lock" /\ mutex = Nobody /\ mutex' = c /\ Step(c, "connect")
            /\ UNCHANGED <<open, sessions, inner, live, made>>
        BY <1>1, <2>1 DEF withSession, a2aVars
      <3>2. Only(c) /\ user'[c].step = "connect"
        BY <1>T, <3>1, StepEffect
      <3>3. QED
        BY <1>S, <3>1, <3>2, InsideKeeps DEF Inside, Holding
    <2>2. CASE ~open
      <3>1. user[c].step = "lock" /\ Returned(c, "error") /\ UNCHANGED <<open, mutex, sessions, inner, live, made>>
        BY <1>1, <2>2 DEF withSession, a2aVars
      <3>2. Only(c) /\ user'[c].step = "returned"
        BY <1>T, <3>1, ReturnedEffect
      <3>3. QED
        BY <3>1, <3>2, QuietKeeps DEF Quiet, Holding
    <2>3. QED
      BY <2>1, <2>2
  <1>2. CASE Connect(c)
    <2>1. user[c].step = "connect" /\ UNCHANGED <<open, inner, live, made>>
      BY <1>2 DEF Connect, a2aVars
    <2>2. CASE Step(c, "rpc") /\ sessions' = sessions \cup {c} /\ UNCHANGED mutex
      <3>1. Only(c) /\ user'[c].step = "rpc"
        BY <1>T, <2>2, StepEffect
      <3>2. QED
        BY <2>1, <2>2, <3>1, InsideKeeps DEF Inside, Holding
    <2>3. CASE FailedAttempt(c) /\ UNCHANGED sessions
      <3>1. /\ Only(c)
            /\ \/ user'[c].step = "returned" /\ mutex' = Nobody
               \/ user'[c].step = "backoff" /\ mutex' = mutex
        BY <2>1, <2>3, FailedEffect DEF Holding
      <3>2. sessions' = sessions \ {c}
        BY <1>S, <2>1, <2>3
      <3>3. QED
        BY <2>1, <3>1, <3>2, InsideKeeps DEF Inside, Holding
    <2>4. QED
      BY <1>2, <2>2, <2>3 DEF Connect
  <1>3. CASE Request(c)
    <2>1. user[c].step = "rpc" /\ UNCHANGED <<open, inner, live, made>> /\ sessions' = sessions \ {c}
      BY <1>3 DEF Request, CloseSession, a2aVars
    <2>2. CASE Unlock(c, "ok")
      <3>1. Only(c) /\ user'[c].step = "returned" /\ mutex' = Nobody
        BY <1>T, <2>2, ReturnedEffect DEF Unlock
      <3>2. QED
        BY <2>1, <3>1, InsideKeeps DEF Inside, Holding
    <2>3. CASE FailedAttempt(c)
      <3>1. /\ Only(c)
            /\ \/ user'[c].step = "returned" /\ mutex' = Nobody
               \/ user'[c].step = "backoff" /\ mutex' = mutex
        BY <2>1, <2>3, FailedEffect DEF Holding
      <3>2. QED
        BY <2>1, <3>1, InsideKeeps DEF Inside, Holding
    <2>4. QED
      BY <1>3, <2>2, <2>3 DEF Request
  <1>4. CASE ListTools(c)
    <2> DEFINE u == user[c]
               more == user[c].out \o Pages[user[c].page]
               turned == [u EXCEPT !.out = more, !.page = @ + 1]
               listed == [u EXCEPT !.out = Apply(more), !.step = "returned", !.result = "ok"]
    <2>1. user[c].step = "rpc" /\ UNCHANGED <<open, inner, live, made>>
      BY <1>4 DEF ListTools, a2aVars
    <2>2. "step" \in DOMAIN turned /\ turned.step = "rpc" /\ "step" \in DOMAIN listed /\ listed.step = "returned"
      BY <1>T, <2>1
    <2>3. \/ Set(c, turned) /\ UNCHANGED <<mutex, sessions>>
          \/ Set(c, listed) /\ mutex' = Nobody /\ sessions' = sessions \ {c}
          \/ FailedAttempt(c) /\ sessions' = sessions \ {c}
      BY <1>4 DEF ListTools, CloseSession, mcpVars
    <2> HIDE DEF turned, listed, more
    <2>4. CASE Set(c, turned) /\ UNCHANGED <<mutex, sessions>>
      <3>1. Only(c) /\ user'[c].step = "rpc"
        BY <1>T, <2>2, <2>4, SetEffect
      <3>2. sessions' = sessions \cup {c}
        BY <1>S, <2>1, <2>4
      <3>3. QED
        BY <2>1, <2>4, <3>1, <3>2, InsideKeeps DEF Inside, Holding
    <2>5. CASE Set(c, listed) /\ mutex' = Nobody /\ sessions' = sessions \ {c}
      <3>1. Only(c) /\ user'[c].step = "returned"
        BY <1>T, <2>2, <2>5, SetEffect
      <3>2. QED
        BY <2>1, <2>5, <3>1, InsideKeeps DEF Inside, Holding
    <2>6. CASE FailedAttempt(c) /\ sessions' = sessions \ {c}
      <3>1. /\ Only(c)
            /\ \/ user'[c].step = "returned" /\ mutex' = Nobody
               \/ user'[c].step = "backoff" /\ mutex' = mutex
        BY <2>1, <2>6, FailedEffect DEF Holding
      <3>2. QED
        BY <2>1, <2>6, <3>1, InsideKeeps DEF Inside, Holding
    <2>7. QED
      BY <2>3, <2>4, <2>5, <2>6
  <1>5. CASE waitMCPRetry(c)
    <2> DEFINE retried == [user[c] EXCEPT !.step = "connect", !.attempt = @ + 1, !.page = 1]
    <2>1. user[c].step = "backoff" /\ UNCHANGED <<open, sessions, inner, live, made>>
      BY <1>5 DEF waitMCPRetry, a2aVars
    <2>2. "step" \in DOMAIN retried /\ retried.step = "connect"
      BY <1>T
    <2>3. (Set(c, retried) /\ UNCHANGED mutex) \/ Unlock(c, "error")
      BY <1>5 DEF waitMCPRetry
    <2>4. sessions' = sessions \ {c}
      BY <1>S, <2>1
    <2> HIDE DEF retried
    <2>5. CASE Set(c, retried) /\ UNCHANGED mutex
      <3>1. Only(c) /\ user'[c].step = "connect"
        BY <1>T, <2>2, <2>5, SetEffect
      <3>2. QED
        BY <2>1, <2>4, <2>5, <3>1, InsideKeeps DEF Inside, Holding
    <2>6. CASE Unlock(c, "error")
      <3>1. Only(c) /\ user'[c].step = "returned" /\ mutex' = Nobody
        BY <1>T, <2>6, ReturnedEffect DEF Unlock
      <3>2. QED
        BY <2>1, <2>4, <3>1, InsideKeeps DEF Inside, Holding
    <2>7. QED
      BY <2>3, <2>5, <2>6
  <1>6. QED
    BY <1>1, <1>2, <1>3, <1>4, <1>5

\* The steps of a caller that touch neither the mutex nor a connection of its own.
LEMMA QuietSteps ==
  ASSUME RemoteInv, NEW c \in Callers,
         \/ \E do : BeginMCP(c, do) \/ checkClosed(c, do) \/ getInner(c, do) \/ Requested(c, do)
         \/ PingA2A(c) \/ ResolveCard(c) \/ SendStreamingMessage(c) \/ Again(c)
  PROVE  RemoteInv'
  <1>T. RemoteTypes
    BY DEF RemoteInv
  \* A caller that returns, or is ready again.
  <1>1. ASSUME NEW u, Set(c, u), "step" \in DOMAIN u, u.step \in {"ready", "lock", "card", "resolve", "returned"},
               user[c].step \notin Holding \cup {"publish"},
               UNCHANGED <<open, mutex, sessions, inner, live, made>>
        PROVE  RemoteInv'
    <2>1. Only(c) /\ user'[c] = u
      BY <1>1, <1>T, SetEffect
    <2>2. QED
      BY <1>1, <2>1, QuietKeeps DEF Quiet, Holding
  <1>2. ASSUME NEW r, Set(c, [step |-> "returned", result |-> r]), user[c].step \notin Holding \cup {"publish"},
               UNCHANGED <<open, mutex, sessions, inner, live, made>>
        PROVE  RemoteInv'
    BY <1>1, <1>2
  <1>3. ASSUME NEW do, BeginMCP(c, do) PROVE RemoteInv'
    <2>0. user[c] = Ready /\ UNCHANGED <<open, mutex, sessions, inner, live, made>>
      BY <1>3 DEF BeginMCP, mcpVars, a2aVars
    <2>1. user[c].step = "ready"
      BY <2>0 DEF Ready
    <2> DEFINE u == [step |-> "lock", op |-> do, attempt |-> 1, page |-> 1, out |-> <<>>, result |-> ""]
    <2>2. Set(c, u) /\ "step" \in DOMAIN u /\ u.step = "lock"
      BY <1>3 DEF BeginMCP
    <2> HIDE DEF u
    <2>3. QED
      BY <1>1, <2>0, <2>1, <2>2 DEF Holding
  <1>4. ASSUME NEW do, checkClosed(c, do) PROVE RemoteInv'
    <2>1. user[c].step = "ready" /\ UNCHANGED <<open, mutex, sessions, inner, live, made>>
      BY <1>4 DEF checkClosed, Ready, mcpVars, a2aVars
    <2>2. Set(c, [step |-> "card", op |-> do]) \/ Set(c, [step |-> "returned", result |-> "error"])
      BY <1>4 DEF checkClosed, Closed
    <2>3. QED
      BY <1>1, <1>2, <2>1, <2>2 DEF Holding
  <1>5. ASSUME NEW do, getInner(c, do) PROVE RemoteInv'
    <2>1. user[c].step = "ready" /\ UNCHANGED <<open, mutex, sessions, inner, live, made>>
      BY <1>5 DEF getInner, Ready, mcpVars, a2aVars
    <2>2. \/ Set(c, [step |-> "returned", result |-> "error"])
          \/ Set(c, [step |-> "resolve", op |-> do])
          \/ open /\ inner # NoInner /\ Set(c, [step |-> "use", got |-> inner, op |-> do])
      BY <1>5, <1>T DEF getInner, Closed, RemoteTypes
    <2>3. CASE open /\ inner # NoInner /\ Set(c, [step |-> "use", got |-> inner, op |-> do])
      <3>1. Only(c) /\ user'[c] = [step |-> "use", got |-> inner, op |-> do]
        BY <1>T, <2>3, SetEffect
      <3>2. QED
        BY <2>1, <2>3, <3>1, QuietKeeps DEF Quiet, Holding
    <2>4. QED
      BY <1>1, <1>2, <2>1, <2>2, <2>3 DEF Holding
  <1>6. ASSUME NEW do, Requested(c, do) PROVE RemoteInv'
    <2>1. PICK r \in {"ok", "error"} : Set(c, [step |-> "returned", result |-> r])
      BY <1>6 DEF Requested
    <2>2. user[c].step = "use" /\ UNCHANGED <<open, mutex, sessions, inner, live, made>>
      BY <1>6 DEF Requested, mcpVars, a2aVars
    <2>3. QED
      BY <1>2, <2>1, <2>2 DEF Holding
  <1>7. ASSUME PingA2A(c) PROVE RemoteInv'
    <2>1. PICK r \in {"ok", "error"} : Set(c, [step |-> "returned", result |-> r])
      BY <1>7 DEF PingA2A
    <2>2. user[c].step = "card" /\ UNCHANGED <<open, mutex, sessions, inner, live, made>>
      BY <1>7 DEF PingA2A, mcpVars, a2aVars
    <2>3. QED
      BY <1>2, <2>1, <2>2 DEF Holding
  <1>8. ASSUME ResolveCard(c) PROVE RemoteInv'
    <2>1. PICK r \in {"ok", "error"} : Set(c, [step |-> "returned", result |-> r])
      BY <1>8 DEF ResolveCard, Closed
    <2>2. user[c].step = "card" /\ UNCHANGED <<open, mutex, sessions, inner, live, made>>
      BY <1>8 DEF ResolveCard, mcpVars
    <2>3. QED
      BY <1>2, <2>1, <2>2 DEF Holding
  <1>9. ASSUME SendStreamingMessage(c) PROVE RemoteInv'
    <2>1. user[c].step = "use" /\ UNCHANGED <<open, mutex, sessions, inner, live, made>>
      BY <1>9 DEF SendStreamingMessage, mcpVars, a2aVars
    <2>2. CASE Step(c, "use")
      <3>1. Only(c) /\ user'[c] = [user[c] EXCEPT !.step = "use"] /\ user'[c].step = "use"
        BY <1>T, <2>2, StepEffect
      <3>2. "got" \in DOMAIN user[c]
        BY <2>1 DEF RemoteInv, GotReal
      <3>3. "got" \in DOMAIN user'[c] /\ user'[c].got = user[c].got
        BY <3>1, <3>2
      <3>4. QED
        BY <2>1, <3>1, <3>3, QuietKeeps DEF Quiet, Holding
    <2>3. CASE \E r \in {"ok", "error"} : Set(c, [step |-> "returned", result |-> r])
      BY <1>2, <2>1, <2>3 DEF Holding
    <2>4. QED
      BY <1>9, <2>2, <2>3 DEF SendStreamingMessage
  <1>10. ASSUME Again(c) PROVE RemoteInv'
    <2>1. user[c].step = "returned" /\ Set(c, Ready) /\ UNCHANGED <<open, mutex, sessions, inner, live, made>>
      BY <1>10 DEF Again, mcpVars, a2aVars
    <2>2. QED
      BY <1>1, <2>1 DEF Ready, Holding
  <1>11. QED
    BY <1>3, <1>4, <1>5, <1>6, <1>7, <1>8, <1>9, <1>10

\* A connection is made, published, or destroyed by Close.
LEMMA NewFromCardStep ==
  ASSUME RemoteInv, NEW c \in Callers, NewFromCard(c)
  PROVE  RemoteInv'
  <1>T. RemoteTypes
    BY DEF RemoteInv
  <1>1. user[c].step = "resolve" /\ UNCHANGED <<open, mutex, sessions, inner>>
    BY DEF NewFromCard, mcpVars
  <1>2. CASE Closed(c) /\ UNCHANGED <<made, live>>
    <2>1. Only(c) /\ user'[c] = [step |-> "returned", result |-> "error"]
      BY <1>T, <1>2, SetEffect DEF Closed
    <2>2. QED
      BY <1>1, <1>2, <2>1, QuietKeeps DEF Quiet, Holding
  <1>3. CASE /\ Set(c, [step |-> "publish", mine |-> made + 1, op |-> user[c].op])
             /\ made' = made + 1 /\ live' = live \cup {made + 1}
    <2>1. Only(c) /\ user'[c] = [step |-> "publish", mine |-> made + 1, op |-> user[c].op]
      BY <1>T, <1>3, SetEffect
    <2>2. user'[c].step = "publish" /\ user'[c].mine = made + 1
      BY <2>1
    <2>3. RemoteTypes'
      <3>1. DOMAIN user' = Callers /\ \A d \in Callers : "step" \in DOMAIN user'[d]
        BY <2>1, <1>T DEF RemoteTypes, Only
      <3>2. open' \in BOOLEAN /\ made' \in Nat /\ inner' \in 0..made' /\ live' \subseteq 1..made'
        <4>1. made \in Nat /\ inner \in 0..made /\ open \in BOOLEAN /\ live \subseteq 1..made
          BY <1>T DEF RemoteTypes
        <4>2. 0..made \subseteq 0..(made + 1) /\ 1..made \subseteq 1..(made + 1) /\ made + 1 \in 1..(made + 1)
          BY <4>1
        <4>3. live \cup {made + 1} \subseteq 1..(made + 1)
          BY <4>1, <4>2, Zenon
        <4>4. QED
          BY <1>1, <1>3, <4>1, <4>2, <4>3
      <3>3. QED
        BY <3>1, <3>2 DEF RemoteTypes
    <2>4. SessionsOwned'
      BY <1>1, <2>1, <2>2 DEF RemoteInv, SessionsOwned, Only, Holding
    <2>5. MineOwn'
      BY <1>1, <1>3, <2>1, <2>2, <1>T DEF RemoteInv, RemoteTypes, MineOwn, Only
    <2>6. GotReal'
      BY <1>1, <2>1, <2>2 DEF RemoteInv, GotReal, Only
    <2>7. SharedAlive'
      BY <1>1, <1>3 DEF RemoteInv, SharedAlive
    <2>8. ConnectionsOwned'
      BY <1>1, <1>3, <2>1, <2>2 DEF RemoteInv, ConnectionsOwned, Only
    <2>9. QED
      BY <2>3, <2>4, <2>5, <2>6, <2>7, <2>8 DEF RemoteInv
  <1>4. QED
    BY <1>2, <1>3 DEF NewFromCard

LEMMA PublishStep ==
  ASSUME RemoteInv, NEW c \in Callers, publishInner(c)
  PROVE  RemoteInv'
  <1>T. RemoteTypes
    BY DEF RemoteInv
  <1>1. user[c].step = "publish" /\ UNCHANGED <<open, mutex, sessions, made>>
    BY DEF publishInner, mcpVars
  <1>2. user[c].mine \in live \ {inner} /\ user[c].mine \in 1..made
    BY <1>1, <1>T DEF RemoteInv, RemoteTypes, MineOwn
  \* Whatever happens, the caller has nothing of its own any more.
  <1>3. ASSUME NEW u, Set(c, u), "step" \in DOMAIN u, u.step \in {"returned", "use"},
               u.step = "use" => "got" \in DOMAIN u /\ u.got = inner' /\ inner' # NoInner,
               \/ inner' = inner /\ live' = live \ {user[c].mine}
               \/ open /\ inner = NoInner /\ inner' = user[c].mine /\ live' = live
        PROVE  RemoteInv'
    <2>1. Only(c) /\ user'[c] = u
      BY <1>T, <1>3, SetEffect
    <2>2. RemoteTypes'
      <3>1. DOMAIN user' = Callers /\ \A d \in Callers : "step" \in DOMAIN user'[d]
        BY <2>1, <1>T DEF RemoteTypes, Only
      <3>2. open' \in BOOLEAN
        BY <1>1, <1>T DEF RemoteTypes
      <3>3. made' \in Nat /\ live' \subseteq 1..made'
        BY <1>1, <1>3, <1>T DEF RemoteTypes
      <3>4. inner' \in 0..made'
        <4>1. inner' = inner \/ inner' = user[c].mine
          BY <1>3
        <4>2. made' = made /\ made \in Nat /\ inner \in 0..made /\ user[c].mine \in 1..made
          BY <1>1, <1>2, <1>T DEF RemoteTypes
        <4>3. QED
          BY <4>1, <4>2
      <3>5. QED
        BY <3>1, <3>2, <3>3, <3>4 DEF RemoteTypes
    <2>3. SessionsOwned'
      BY <1>1, <1>3, <2>1 DEF RemoteInv, SessionsOwned, Only, Holding
    <2>4. MineOwn'
      BY <1>1, <1>3, <2>1 DEF RemoteInv, MineOwn, Only
    <2>5. GotReal'
      BY <1>3, <2>1, <2>2 DEF RemoteInv, RemoteTypes, GotReal, Only, NoInner
    <2>6. ConnectionsOwned'
      <3>1. live' \subseteq {inner'} \cup {user'[d].mine : d \in {e \in Callers : user'[e].step = "publish"}}
        <4>1. ASSUME NEW x \in live'
              PROVE  x = inner' \/ \E d \in Callers : user'[d].step = "publish" /\ x = user'[d].mine
          <5>1. x \in live /\ x # 0
            BY <1>3, <4>1, <1>T DEF RemoteTypes
          <5>2. x = inner \/ \E d \in Callers : user[d].step = "publish" /\ x = user[d].mine
            BY <5>1 DEF RemoteInv, ConnectionsOwned
          <5>3. QED
            BY <1>1, <1>3, <2>1, <4>1, <5>1, <5>2 DEF Only, NoInner
        <4>2. QED
          BY <4>1
      <3>2. open' => \A d \in Callers : user'[d].step = "use" => user'[d].got = inner'
        BY <1>1, <1>3, <2>1 DEF RemoteInv, ConnectionsOwned, GotReal, Only, NoInner
      <3>3. QED
        BY <3>1, <3>2 DEF ConnectionsOwned
    <2>7. SharedAlive'
      BY <1>1, <1>2, <1>3 DEF RemoteInv, SharedAlive
    <2>8. QED
      BY <2>2, <2>3, <2>4, <2>5, <2>6, <2>7 DEF RemoteInv
  <1>4. CASE ~open /\ Closed(c) /\ live' = live \ {user[c].mine} /\ UNCHANGED <<inner, card>>
    BY <1>3, <1>4 DEF Closed
  <1>5. CASE open /\ inner # NoInner /\ Use(c, inner) /\ live' = live \ {user[c].mine} /\ UNCHANGED <<inner, card>>
    <2> DEFINE u == [step |-> "use", got |-> inner, op |-> user[c].op]
    <2>1. Set(c, u) /\ "step" \in DOMAIN u /\ u.step = "use" /\ "got" \in DOMAIN u /\ u.got = inner
      BY <1>5 DEF Use
    <2> HIDE DEF u
    <2>2. QED
      BY <1>3, <1>5, <2>1
  <1>6. CASE open /\ inner = NoInner /\ Use(c, user[c].mine) /\ inner' = user[c].mine /\ card' = TRUE /\ UNCHANGED live
    <2> DEFINE u == [step |-> "use", got |-> user[c].mine, op |-> user[c].op]
    <2>1. Set(c, u) /\ "step" \in DOMAIN u /\ u.step = "use" /\ "got" \in DOMAIN u /\ u.got = user[c].mine
      BY <1>6 DEF Use
    <2> HIDE DEF u
    <2>2. QED
      BY <1>2, <1>3, <1>6, <2>1 DEF NoInner
  <1>7. QED
    BY <1>4, <1>5, <1>6 DEF publishInner

LEMMA CloseSteps ==
  ASSUME RemoteInv, CloseMCP \/ CloseA2A \/ UNCHANGED remoteVars
  PROVE  RemoteInv'
  <1>T. RemoteTypes
    BY DEF RemoteInv
  <1>1. CASE UNCHANGED remoteVars
    BY <1>1 DEF remoteVars, RemoteInv, RemoteTypes, SessionsOwned, MineOwn, GotReal, SharedAlive, ConnectionsOwned
  <1>2. CASE CloseMCP
    <2>1. ~open' /\ open' \in BOOLEAN /\ UNCHANGED <<mutex, sessions, user, inner, live, made>>
      BY <1>2 DEF CloseMCP, mcpVars, a2aVars
    <2>2. QED
      BY <2>1 DEF RemoteInv, RemoteTypes, SessionsOwned, MineOwn, GotReal, SharedAlive, ConnectionsOwned
  <1>3. CASE CloseA2A
    <2>1. /\ ~open' /\ open' \in BOOLEAN /\ UNCHANGED <<mutex, sessions, user, made>>
          /\ inner' = NoInner /\ live' = live \ {inner}
      BY <1>3 DEF CloseA2A, mcpVars
    <2>2. RemoteTypes'
      <3>1. made \in Nat /\ made' = made /\ inner' = 0 /\ live \subseteq 1..made /\ live' \subseteq live
        BY <2>1, <1>T DEF RemoteTypes, NoInner
      <3>2. inner' \in 0..made' /\ made' \in Nat
        BY <3>1
      <3>3. live' \subseteq 1..made'
        BY <3>1
      <3>4. QED
        BY <2>1, <3>2, <3>3, <1>T DEF RemoteTypes
    <2>3. SessionsOwned' /\ GotReal' /\ SharedAlive'
      BY <2>1 DEF RemoteInv, SessionsOwned, GotReal, SharedAlive
    <2>4. MineOwn'
      BY <2>1, <1>T DEF RemoteInv, RemoteTypes, MineOwn, NoInner
    <2>5. ConnectionsOwned'
      BY <2>1 DEF RemoteInv, ConnectionsOwned
    <2>6. QED
      BY <2>2, <2>3, <2>4, <2>5 DEF RemoteInv
  <1>4. QED
    BY <1>1, <1>2, <1>3

LEMMA RemoteInitial == RemoteInit => RemoteInv
  <1> SUFFICES ASSUME RemoteInit PROVE RemoteInv
    OBVIOUS
  <1>1. \A c \in Callers : "step" \in DOMAIN user[c] /\ user[c].step = "ready"
    BY DEF RemoteInit, Ready
  <1>2. RemoteTypes
    BY <1>1 DEF RemoteInit, RemoteTypes, NoInner
  <1>3. SessionsOwned /\ MineOwn /\ GotReal
    BY <1>1, CallersAssumption DEF RemoteInit, SessionsOwned, MineOwn, GotReal, Holding, Nobody
  <1>4. SharedAlive /\ ConnectionsOwned
    BY <1>1 DEF RemoteInit, SharedAlive, ConnectionsOwned
  <1>5. QED
    BY <1>2, <1>3, <1>4 DEF RemoteInv

LEMMA RemoteStep == RemoteInv /\ [RemoteNext]_remoteVars => RemoteInv'
  <1> SUFFICES ASSUME RemoteInv, [RemoteNext]_remoteVars PROVE RemoteInv'
    OBVIOUS
  <1>1. CASE CloseMCP \/ CloseA2A \/ UNCHANGED remoteVars
    BY <1>1, CloseSteps
  <1>2. ASSUME NEW c \in Callers, NewFromCard(c) PROVE RemoteInv'
    BY <1>2, NewFromCardStep
  <1>3. ASSUME NEW c \in Callers, publishInner(c) PROVE RemoteInv'
    BY <1>3, PublishStep
  <1>4. ASSUME NEW c \in Callers,
               withSession(c) \/ Connect(c) \/ Request(c) \/ ListTools(c) \/ waitMCPRetry(c)
        PROVE  RemoteInv'
    BY <1>4, MCPSteps
  <1>5. ASSUME NEW c \in Callers,
               \/ \E do : BeginMCP(c, do) \/ checkClosed(c, do) \/ getInner(c, do) \/ Requested(c, do)
               \/ PingA2A(c) \/ ResolveCard(c) \/ SendStreamingMessage(c) \/ Again(c)
        PROVE  RemoteInv'
    BY <1>5, QuietSteps
  <1>6. QED
    BY <1>1, <1>2, <1>3, <1>4, <1>5 DEF RemoteNext, SendMessage, GetTask, CancelTask

-----------------------------------------------------------------------------
(* The A2A server.                                                         *)

\* The events of a streamed task before it ends: the task, its first status,
\* then the deltas, the first of which makes the artifact.
StreamEvent(i) ==
  IF i = 1 THEN [kind |-> "task"]
  ELSE IF i = 2 THEN Status("working") ELSE Artifact(i = 3, i - 2)

TaskEvents ==
  [kind : {"message", "task"}] \cup [kind : {"status"}, state : {"working", "completed", "failed"}]
    \cup [kind : {"artifact"}, new : BOOLEAN, delta : Nat]

Unstarted == {"new", "accepted", "refused", "run", "submit"}

Steps == Unstarted \cup {"work", "start", "events", "ended", "lost"}
RequestState ==
  [step : Steps, deltas : Nat, artifact : BOOLEAN, reader : BOOLEAN, conn : BOOLEAN]

ServerTypes ==
  /\ request \in [Requests -> RequestState]
  /\ yielded \in [Requests -> Seq(TaskEvents)]

\* Where a request is decides what was yielded.
Yielded(r) ==
  LET ev == yielded[r] q == request[r]
  IN /\ q.step \in Unstarted => ev = <<>>
     /\ q.step = "work" => Len(ev) = 1
     /\ q.step = "start" => Len(ev) = 2
     /\ q.step = "events" => Len(ev) = q.deltas + 2
     /\ q.step # "ended" => (q.artifact <=> q.deltas > 0) /\ q.reader
     /\ q.step \in {"start", "work"} => q.deltas = 0
     /\ q.step \in Unstarted => q.deltas = 0
     /\ q.step # "ended" => \A i \in 1..Len(ev) : ev[i] = StreamEvent(i)
     /\ q.step = "ended" =>
          /\ ev # <<>> /\ \A i \in 1..Len(ev) - 1 : ev[i] = StreamEvent(i)
          /\ \/ Terminal(ev[Len(ev)])
             \/ ~q.reader /\ ev[Len(ev)] = StreamEvent(Len(ev))

\* What the end of the server has to do with a request: net/http waits for the
\* requests whose handler runs, and the exit of the process for none.
Served(r) ==
  /\ request[r].step = "new" => ~request[r].conn
  /\ request[r].step = "lost" => server = "exited"
  /\ server = "stopped" /\ request[r].conn => request[r].step \in {"refused", "ended"}

ServerInv ==
  /\ ServerTypes
  /\ \A r \in Requests : Yielded(r)
  /\ \A r \in Requests : Served(r)

\* What one request's step does: its place moves, and it may yield one event.
Moves(r) ==
  /\ request' \in [Requests -> RequestState]
  /\ \A q \in Requests \ {r} : request'[q] = request[q]

Yields(r, e) ==
  /\ yielded' \in [Requests -> Seq(TaskEvents)]
  /\ \A q \in Requests \ {r} : yielded'[q] = yielded[q]
  /\ Len(yielded'[r]) = Len(yielded[r]) + 1
  /\ \A i \in 1..Len(yielded[r]) : yielded'[r][i] = yielded[r][i]
  /\ yielded'[r][Len(yielded[r]) + 1] = e

LEMMA AppendEffect ==
  ASSUME ServerTypes, NEW r \in Requests, NEW e \in TaskEvents,
         yielded' = [yielded EXCEPT ![r] = Append(@, e)]
  PROVE  Yields(r, e)
  <1>1. yielded[r] \in Seq(TaskEvents) /\ yielded'[r] = Append(yielded[r], e)
    BY DEF ServerTypes
  <1>2. Append(yielded[r], e) \in Seq(TaskEvents) /\ Len(Append(yielded[r], e)) = Len(yielded[r]) + 1
    BY <1>1
  <1>3. yielded' \in [Requests -> Seq(TaskEvents)] /\ \A q \in Requests \ {r} : yielded'[q] = yielded[q]
    BY <1>2 DEF ServerTypes
  <1>4. QED
    BY <1>1, <1>2, <1>3 DEF Yields

LEMMA StepMove ==
  ASSUME ServerTypes, NEW r \in Requests, NEW step \in Steps,
         request' = [request EXCEPT ![r].step = step]
  PROVE  /\ Moves(r) /\ request'[r].step = step /\ request'[r].deltas = request[r].deltas
         /\ request'[r].artifact = request[r].artifact /\ request'[r].reader = request[r].reader
         /\ request'[r].conn = request[r].conn
  <1> DEFINE new == [request[r] EXCEPT !.step = step]
  <1>1. new \in RequestState /\ new.step = step /\ new.deltas = request[r].deltas
        /\ new.artifact = request[r].artifact /\ new.reader = request[r].reader
        /\ new.conn = request[r].conn
    BY DEF ServerTypes, RequestState
  <1>2. request' = [request EXCEPT ![r] = new]
    BY DEF ServerTypes
  <1> HIDE DEF new
  <1>3. QED
    BY <1>1, <1>2 DEF ServerTypes, Moves

LEMMA YieldEffect ==
  ASSUME ServerTypes, NEW r \in Requests, NEW e \in TaskEvents, NEW step \in Steps, Yield(r, e, step)
  PROVE  /\ Yields(r, e) /\ Moves(r)
         /\ request'[r].deltas = request[r].deltas /\ request'[r].artifact = request[r].artifact
         /\ request'[r].conn = request[r].conn
         /\ \/ request'[r].step = step /\ request'[r].reader = request[r].reader
            \/ request'[r].step = "ended" /\ ~request'[r].reader
  <1>1. Yields(r, e)
    BY AppendEffect DEF Yield
  <1>2. CASE request' = [request EXCEPT ![r].step = step]
    BY <1>1, <1>2, StepMove
  <1>3. CASE request' = [request EXCEPT ![r].step = "ended", ![r].reader = FALSE]
    <2> DEFINE new == [request[r] EXCEPT !.step = "ended", !.reader = FALSE]
    <2>1. new \in RequestState /\ new.step = "ended" /\ ~new.reader /\ new.deltas = request[r].deltas
          /\ new.artifact = request[r].artifact /\ new.conn = request[r].conn
      BY DEF ServerTypes, RequestState, Steps
    <2>2. request' = [request EXCEPT ![r] = new]
      BY <1>3 DEF ServerTypes
    <2> HIDE DEF new
    <2>3. QED
      BY <1>1, <2>1, <2>2 DEF ServerTypes, Moves
  <1>4. QED
    BY <1>2, <1>3 DEF Yield

\* A request in flight that yields and keeps its shape keeps the invariant.
LEMMA YieldKeeps ==
  ASSUME ServerInv, NEW r \in Requests, NEW e \in TaskEvents,
         request[r].step \in {"run", "submit", "work", "start", "events"},
         Yields(r, e), Moves(r), server' = server, request'[r].conn = request[r].conn,
         \/ /\ request'[r].step = "ended"
            /\ Terminal(e) \/ (~request'[r].reader /\ e = StreamEvent(Len(yielded[r]) + 1))
         \/ /\ request'[r].step \in {"work", "start", "events"} /\ e = StreamEvent(Len(yielded[r]) + 1)
            /\ request'[r].step = "work" => Len(yielded[r]) = 0 /\ request'[r].deltas = 0
            /\ request'[r].step = "start" => Len(yielded[r]) = 1 /\ request'[r].deltas = 0
            /\ request'[r].step = "events" => Len(yielded[r]) = request'[r].deltas + 1
            /\ (request'[r].artifact <=> request'[r].deltas > 0) /\ request'[r].reader
  PROVE  ServerInv'
  <1>1. ServerTypes'
    BY DEF Moves, Yields, ServerTypes
  <1> DEFINE n == Len(yielded[r])
  <1>2. /\ n \in Nat /\ Len(yielded'[r]) = n + 1 /\ yielded'[r][n + 1] = e
        /\ \A i \in 1..n : yielded'[r][i] = yielded[r][i] /\ yielded[r][i] = StreamEvent(i)
    <2>1. n \in Nat
      BY DEF ServerInv, ServerTypes
    <2>2. \A i \in 1..n : yielded[r][i] = StreamEvent(i)
      BY DEF ServerInv, Yielded
    <2>3. QED
      BY <2>1, <2>2 DEF Yields
  <1>3. yielded'[r] # <<>>
    BY <1>2
  <1>4. Yielded(r)'
    <2> SUFFICES /\ request'[r].step \in Unstarted => FALSE
                 /\ request'[r].step = "work" => Len(yielded'[r]) = 1
                 /\ request'[r].step = "start" => Len(yielded'[r]) = 2
                 /\ request'[r].step = "events" => Len(yielded'[r]) = request'[r].deltas + 2
                 /\ request'[r].step # "ended" => (request'[r].artifact <=> request'[r].deltas > 0) /\ request'[r].reader
                 /\ request'[r].step \in {"start", "work"} => request'[r].deltas = 0
                 /\ request'[r].step # "ended" => \A i \in 1..Len(yielded'[r]) : yielded'[r][i] = StreamEvent(i)
                 /\ request'[r].step = "ended" =>
                      /\ \A i \in 1..Len(yielded'[r]) - 1 : yielded'[r][i] = StreamEvent(i)
                      /\ \/ Terminal(yielded'[r][Len(yielded'[r])])
                         \/ ~request'[r].reader /\ yielded'[r][Len(yielded'[r])] = StreamEvent(Len(yielded'[r]))
      BY <1>3 DEF Yielded, StreamEvent, Status, Artifact, Terminal
    <2>1. CASE request'[r].step = "ended"
      <3>1. yielded'[r][Len(yielded'[r])] = e
        BY <1>2
      <3>2. \A i \in 1..Len(yielded'[r]) - 1 : yielded'[r][i] = StreamEvent(i)
        BY <1>2
      <3>3. QED
        BY <1>2, <2>1, <3>1, <3>2 DEF Unstarted
    <2>2. CASE request'[r].step \in {"work", "start", "events"}
      <3>1. \A i \in 1..Len(yielded'[r]) : yielded'[r][i] = StreamEvent(i)
        <4>1. \A i \in 1..Len(yielded'[r]) : i \in 1..n \/ i = n + 1
          BY <1>2
        <4>2. e = StreamEvent(n + 1)
          BY <2>2
        <4>3. QED
          BY <1>2, <4>1, <4>2
      <3>2. request'[r].deltas \in Nat
        BY <1>1 DEF ServerTypes, RequestState
      <3>3. n \in Nat /\ Len(yielded'[r]) = n + 1 /\ request'[r].step \notin Unstarted \cup {"ended"}
        BY <1>2, <2>2 DEF Unstarted
      <3>4. /\ request'[r].step = "work" => n = 0 /\ request'[r].deltas = 0
            /\ request'[r].step = "start" => n = 1 /\ request'[r].deltas = 0
            /\ request'[r].step = "events" => n = request'[r].deltas + 1
        BY <2>2
      <3>5. request'[r].step \in {"work", "start"} => request'[r].deltas = 0
        BY <3>4
      <3>6. /\ request'[r].step = "work" => Len(yielded'[r]) = 1
            /\ request'[r].step = "start" => Len(yielded'[r]) = 2
            /\ request'[r].step = "events" => Len(yielded'[r]) = request'[r].deltas + 2
        <4> HIDE DEF n
        <4>1. QED
          BY <3>2, <3>3, <3>4
      <3>7. request'[r].step # "ended" /\ request'[r].step \notin Unstarted
        BY <3>3
      <3>8. (request'[r].artifact <=> request'[r].deltas > 0) /\ request'[r].reader
        BY <2>2, <3>7
      <3>9. QED
        BY <3>1, <3>5, <3>6, <3>7, <3>8
    <2>3. QED
      BY <2>1, <2>2
  <1>5. ASSUME NEW q \in Requests \ {r} PROVE Yielded(q)'
    <2>1. request'[q] = request[q] /\ yielded'[q] = yielded[q] /\ Yielded(q)
      BY DEF ServerInv, Moves, Yields
    <2>2. QED
      BY <2>1 DEF Yielded
  <1>6. \A q \in Requests : Served(q)'
    BY DEF ServerInv, Served, Moves
  <1>7. QED
    BY <1>1, <1>4, <1>5, <1>6 DEF ServerInv

\* So does one that moves without yielding.
LEMMA MoveKeeps ==
  ASSUME ServerInv, NEW r \in Requests, Moves(r), UNCHANGED <<server, yielded>>,
         \/ request[r].step = "new" /\ request'[r].step = "accepted" /\ server \notin {"stopped", "exited"}
         \/ request[r].step = "accepted" /\ request'[r].step \in {"refused", "submit", "run"}
         \/ request[r].step = "start" /\ request'[r].step = "events"
         \/ request[r].step # "new" /\ request'[r].step = request[r].step /\ ~request'[r].conn,
         request[r].step = "new" \/ ~request'[r].conn \/ request'[r].conn = request[r].conn,
         /\ request'[r].deltas = request[r].deltas /\ request'[r].artifact = request[r].artifact
         /\ request'[r].reader = request[r].reader
  PROVE  ServerInv'
  <1>1. ServerTypes'
    BY DEF ServerInv, Moves, ServerTypes
  <1>2. Yielded(r)'
    <2>1. yielded' = yielded /\ Yielded(r)
      BY DEF ServerInv
    <2>2. CASE \/ request[r].step \in {"new", "accepted"} /\ request'[r].step \in {"accepted", "refused", "submit", "run"}
               \/ request'[r].step = request[r].step
      BY <2>1, <2>2 DEF Yielded, Unstarted
    <2>3. CASE request[r].step = "start" /\ request'[r].step = "events"
      <3>1. Len(yielded[r]) = 2 /\ request[r].deltas = 0
        BY <2>1, <2>3 DEF Yielded
      <3>2. Len(yielded'[r]) = request'[r].deltas + 2
        BY <2>1, <3>1
      <3>3. "start" \notin Unstarted /\ "events" \notin Unstarted
        BY DEF Unstarted
      <3>4. QED
        BY <2>1, <2>3, <3>2, <3>3 DEF Yielded
    <2>4. QED
      BY <2>2, <2>3
  <1>3. ASSUME NEW q \in Requests \ {r} PROVE Yielded(q)'
    <2>1. request'[q] = request[q] /\ yielded'[q] = yielded[q] /\ Yielded(q)
      BY DEF ServerInv, Moves
    <2>2. QED
      BY <2>1 DEF Yielded
  <1>4. \A q \in Requests : Served(q)'
    BY DEF ServerInv, Served, Moves
  <1>5. QED
    BY <1>1, <1>2, <1>3, <1>4 DEF ServerInv

LEMMA EventTypes ==
  /\ [kind |-> "message"] \in TaskEvents /\ Terminal([kind |-> "message"])
  /\ [kind |-> "task"] \in TaskEvents /\ [kind |-> "task"] = StreamEvent(1)
  /\ Status("working") \in TaskEvents /\ Status("working") = StreamEvent(2)
  /\ \A t \in {"completed", "failed"} : Status(t) \in TaskEvents /\ Terminal(Status(t))
  <1>1. [kind |-> "message"].kind = "message" /\ [kind |-> "message"] \in TaskEvents
    BY DEF TaskEvents
  <1>2. [kind |-> "task"] \in TaskEvents /\ [kind |-> "task"] = StreamEvent(1)
    BY DEF TaskEvents, StreamEvent
  <1>3. \A t \in {"working", "completed", "failed"} :
          Status(t) \in TaskEvents /\ Status(t).kind = "status" /\ Status(t).state = t
    BY DEF TaskEvents, Status
  <1>4. Status("working") = StreamEvent(2)
    BY DEF StreamEvent
  <1>5. QED
    BY <1>1, <1>2, <1>3, <1>4 DEF Terminal

LEMMA DeltaEvent == \A k \in Nat \ {0} : Artifact(k = 1, k) \in TaskEvents /\ Artifact(k = 1, k) = StreamEvent(k + 2)
  <1> SUFFICES ASSUME NEW k \in Nat \ {0}
               PROVE  Artifact(k = 1, k) \in TaskEvents /\ Artifact(k = 1, k) = StreamEvent(k + 2)
    OBVIOUS
  <1>1. (k = 1) \in BOOLEAN /\ k \in Nat
    OBVIOUS
  <1>2. Artifact(k = 1, k) \in TaskEvents
    BY <1>1 DEF TaskEvents, Artifact
  <1>3. (k + 2 = 3) = (k = 1) /\ k + 2 - 2 = k /\ k + 2 # 1 /\ k + 2 # 2
    OBVIOUS
  <1>4. QED
    BY <1>2, <1>3 DEF StreamEvent

LEMMA ServerStep == ServerInv /\ [ServerNext]_serverVars => ServerInv'
  <1> SUFFICES ASSUME ServerInv, [ServerNext]_serverVars PROVE ServerInv'
    OBVIOUS
  <1>T. ServerTypes
    BY DEF ServerInv
  <1>1. CASE UNCHANGED serverVars
    BY <1>1 DEF serverVars, ServerInv, ServerTypes, Yielded, Served
  <1>2. CASE RunA2A \/ ServeFails \/ ShutdownBegins \/ CardJSON
    <2>1. /\ UNCHANGED <<request, yielded>>
          /\ server = "exited" => server' = "exited"
          /\ server' = "stopped" => server = "stopped"
      BY <1>2 DEF RunA2A, ServeFails, ShutdownBegins, CardJSON
    <2>2. QED
      BY <2>1 DEF ServerInv, ServerTypes, Yielded, Served
  \* No handler runs, so a request with one was refused or has ended.
  <1>3. CASE Shutdown
    <2>1. /\ UNCHANGED <<request, yielded>> /\ server = "stopping"
          /\ \A r \in Requests : request[r].conn => request[r].step \in {"new", "refused", "ended", "lost"}
      BY <1>3 DEF Shutdown, Open, InFlight
    <2>2. \A r \in Requests : Served(r)'
      BY <2>1 DEF ServerInv, Served
    <2>3. QED
      BY <2>1, <2>2 DEF ServerInv, ServerTypes, Yielded
  <1>12. CASE Exit
    <2>1. /\ server' = "exited" /\ UNCHANGED yielded
          /\ request' = [r \in Requests |-> IF r \in InFlight THEN [request[r] EXCEPT !.step = "lost"] ELSE request[r]]
      BY <1>12 DEF Exit
    <2>2. ASSUME NEW r \in Requests
          PROVE  /\ request'[r] \in RequestState /\ request'[r].conn = request[r].conn
                 /\ request'[r].deltas = request[r].deltas /\ request'[r].artifact = request[r].artifact
                 /\ request'[r].reader = request[r].reader
                 /\ \/ request'[r].step = request[r].step
                    \/ request'[r].step = "lost" /\ request[r].step # "ended"
      <3>1. CASE r \in InFlight
        <4> DEFINE new == [request[r] EXCEPT !.step = "lost"]
        <4>1. /\ new \in RequestState /\ new.conn = request[r].conn /\ new.deltas = request[r].deltas
              /\ new.artifact = request[r].artifact /\ new.reader = request[r].reader /\ new.step = "lost"
          BY <1>T DEF ServerTypes, RequestState, Steps
        <4>2. request'[r] = new
          BY <2>1, <3>1
        <4> HIDE DEF new
        <4>3. QED
          BY <3>1, <4>1, <4>2 DEF InFlight
      <3>2. CASE r \notin InFlight
        BY <1>T, <2>1, <3>2 DEF ServerTypes
      <3>3. QED
        BY <3>1, <3>2
    <2>3. ServerTypes'
      BY <1>T, <2>1, <2>2 DEF ServerTypes
    <2>4. ASSUME NEW r \in Requests PROVE Yielded(r)'
      <3>1. Yielded(r) /\ yielded'[r] = yielded[r]
        BY <2>1 DEF ServerInv
      <3>2. CASE request'[r].step = request[r].step
        BY <2>2, <3>1, <3>2 DEF Yielded
      <3>3. CASE request'[r].step = "lost" /\ request[r].step # "ended"
        BY <2>2, <3>1, <3>3 DEF Yielded, Unstarted
      <3>4. QED
        BY <2>2, <3>2, <3>3
    <2>5. \A r \in Requests : Served(r)'
      BY <2>1, <2>2 DEF ServerInv, Served
    <2>6. QED
      BY <2>3, <2>4, <2>5 DEF ServerInv
  <1>13. ASSUME NEW r \in Requests, Accept(r) PROVE ServerInv'
    <2> DEFINE new == [request[r] EXCEPT !.step = "accepted", !.conn = TRUE]
    <2>1. /\ server \in {"serving", "stopping", "broken"} /\ request[r].step = "new"
          /\ request' = [request EXCEPT ![r] = new] /\ UNCHANGED <<server, yielded>>
      BY <1>13, <1>T DEF Accept, ServerTypes
    <2>2. /\ new \in RequestState /\ new.step = "accepted" /\ new.deltas = request[r].deltas
          /\ new.artifact = request[r].artifact /\ new.reader = request[r].reader
      BY <1>T DEF ServerTypes, RequestState, Steps, Unstarted
    <2> HIDE DEF new
    <2>3. Moves(r) /\ request'[r] = new
      BY <1>T, <2>1, <2>2 DEF Moves, ServerTypes
    <2>4. QED
      BY <2>1, <2>2, <2>3, MoveKeeps
  <1>14. ASSUME NEW r \in Requests, HangUp(r) PROVE ServerInv'
    <2> DEFINE new == [request[r] EXCEPT !.conn = FALSE]
    <2>1. /\ request[r].step # "new" /\ UNCHANGED <<server, yielded>>
          /\ request' = [request EXCEPT ![r] = new]
      BY <1>14, <1>T DEF HangUp, Open, InFlight, ServerTypes
    <2>2. /\ new \in RequestState /\ new.step = request[r].step /\ new.deltas = request[r].deltas
          /\ new.artifact = request[r].artifact /\ new.reader = request[r].reader /\ ~new.conn
      BY <1>T DEF ServerTypes, RequestState
    <2> HIDE DEF new
    <2>3. Moves(r) /\ request'[r] = new
      BY <1>T, <2>1, <2>2 DEF Moves, ServerTypes
    <2>4. QED
      BY <2>1, <2>2, <2>3, MoveKeeps
  <1>15. ASSUME NEW r \in Requests, Before(r) PROVE ServerInv'
    <2>1. PICK step \in {"refused", "submit", "run"} : request' = [request EXCEPT ![r].step = step]
      BY <1>15 DEF Before
    <2>2. step \in Steps
      BY DEF Steps, Unstarted
    <2>3. request[r].step = "accepted" /\ UNCHANGED <<server, yielded>>
      BY <1>15 DEF Before
    <2>4. QED
      BY <1>T, <2>1, <2>2, <2>3, StepMove, MoveKeeps
  \* A request that ends with a terminal event, or because the library stops pulling.
  <1>4. ASSUME NEW r \in Requests, NEW e \in TaskEvents,
               request[r].step \in {"run", "start", "events"}, Yield(r, e, "ended"), Terminal(e),
               server' = server
        PROVE  ServerInv'
    <2>1. "ended" \in Steps
      BY DEF Steps
    <2>2. Yields(r, e) /\ Moves(r) /\ request'[r].step = "ended" /\ request'[r].conn = request[r].conn
      BY <1>T, <1>4, <2>1, YieldEffect
    <2>3. QED
      BY <1>4, <2>2, YieldKeeps
  <1>5. ASSUME NEW r \in Requests, ExecuteRun(r) PROVE ServerInv'
    <2>1. request[r].step = "run" /\ server' = server
      BY <1>5 DEF ExecuteRun
    <2>2. \E e \in {[kind |-> "message"], Status("failed")} : Yield(r, e, "ended")
      BY <1>5 DEF ExecuteRun
    <2>3. QED
      BY <1>4, <2>1, <2>2, EventTypes
  \* The two events before the run.
  <1>6. ASSUME NEW r \in Requests, Submit(r) PROVE ServerInv'
    <2>1. request[r].step = "submit" /\ Yield(r, [kind |-> "task"], "work") /\ server' = server
      BY <1>6 DEF Submit
    <2>2. /\ "work" \in Steps /\ Len(yielded[r]) = 0 /\ Len(yielded[r]) + 1 = 1 /\ request[r].deltas = 0
          /\ (request[r].artifact <=> request[r].deltas > 0) /\ request[r].reader
      BY <2>1 DEF Steps, ServerInv, Yielded, Unstarted
    <2>3. /\ Yields(r, [kind |-> "task"]) /\ Moves(r)
          /\ request'[r].deltas = request[r].deltas /\ request'[r].artifact = request[r].artifact
          /\ request'[r].conn = request[r].conn
          /\ \/ request'[r].step = "work" /\ request'[r].reader = request[r].reader
             \/ request'[r].step = "ended" /\ ~request'[r].reader
      BY <1>T, <2>1, <2>2, YieldEffect, EventTypes
    <2>4. QED
      BY <2>1, <2>2, <2>3, YieldKeeps, EventTypes
  <1>7. ASSUME NEW r \in Requests, Work(r) PROVE ServerInv'
    <2>1. request[r].step = "work" /\ Yield(r, Status("working"), "start") /\ server' = server
      BY <1>7 DEF Work
    <2>2. /\ "start" \in Steps /\ Len(yielded[r]) = 1 /\ Len(yielded[r]) + 1 = 2 /\ request[r].deltas = 0
          /\ (request[r].artifact <=> request[r].deltas > 0) /\ request[r].reader
      <3>1. "start" \in Steps /\ Yielded(r)
        BY DEF Steps, ServerInv
      <3>2. Len(yielded[r]) = 1 /\ request[r].deltas = 0
        BY <2>1, <3>1 DEF Yielded
      <3>3. (request[r].artifact <=> request[r].deltas > 0) /\ request[r].reader
        BY <2>1, <3>1 DEF Yielded
      <3>4. QED
        BY <3>1, <3>2, <3>3
    <2>3. /\ Yields(r, Status("working")) /\ Moves(r)
          /\ request'[r].deltas = request[r].deltas /\ request'[r].artifact = request[r].artifact
          /\ request'[r].conn = request[r].conn
          /\ \/ request'[r].step = "start" /\ request'[r].reader = request[r].reader
             \/ request'[r].step = "ended" /\ ~request'[r].reader
      BY <1>T, <2>1, <2>2, YieldEffect, EventTypes
    <2>4. QED
      BY <2>1, <2>2, <2>3, YieldKeeps, EventTypes
  <1>8. ASSUME NEW r \in Requests, StartStream(r) PROVE ServerInv'
    <2>1. request[r].step = "start" /\ server' = server
      BY <1>8 DEF StartStream
    <2>2. CASE request' = [request EXCEPT ![r].step = "events"] /\ UNCHANGED yielded
      <3>1. "events" \in Steps
        BY DEF Steps
      <3>2. QED
        BY <1>T, <2>1, <2>2, <3>1, StepMove, MoveKeeps
    <2>3. CASE Yield(r, Status("failed"), "ended")
      BY <1>4, <2>1, <2>3, EventTypes
    <2>4. QED
      BY <1>8, <2>2, <2>3 DEF StartStream
  <1>9. ASSUME NEW r \in Requests, TextDelta(r) PROVE ServerInv'
    <2> DEFINE k == request[r].deltas + 1
               next == [request[r] EXCEPT !.deltas = k, !.artifact = TRUE]
               last == [next EXCEPT !.step = "ended", !.reader = FALSE]
               e == Artifact(FirstDelta(r), k)
    <2>1. /\ request[r].step = "events" /\ server' = server
          /\ yielded' = [yielded EXCEPT ![r] = Append(@, e)]
          /\ request' = [request EXCEPT ![r] = next] \/ request' = [request EXCEPT ![r] = last]
      BY <1>9 DEF TextDelta
    <2>2. /\ request[r] \in RequestState /\ request[r].deltas \in Nat /\ Len(yielded[r]) = request[r].deltas + 2
          /\ (request[r].artifact <=> request[r].deltas > 0) /\ request[r].reader
      BY <2>1, <1>T DEF ServerTypes, RequestState, ServerInv, Yielded
    <2>3. k \in Nat \ {0} /\ FirstDelta(r) = (k = 1) /\ Len(yielded[r]) + 1 = k + 2
      <3>1. k \in Nat \ {0} /\ Len(yielded[r]) + 1 = k + 2
        BY <2>2
      <3>2. FirstDelta(r) <=> (k = 1)
        BY <2>2 DEF FirstDelta
      <3>3. QED
        BY <3>1, <3>2 DEF FirstDelta
    <2>4. e \in TaskEvents /\ e = StreamEvent(Len(yielded[r]) + 1)
      BY <2>3, DeltaEvent
    <2>5. /\ next \in RequestState /\ next.step = "events" /\ next.deltas = k /\ next.artifact /\ next.reader
          /\ last \in RequestState /\ last.step = "ended" /\ ~last.reader
          /\ next.conn = request[r].conn /\ last.conn = request[r].conn
      <3>1. k \in Nat /\ TRUE \in BOOLEAN /\ FALSE \in BOOLEAN /\ "ended" \in Steps
        BY <2>3 DEF Steps
      <3> HIDE DEF k
      <3>2. /\ next \in RequestState /\ next.step = "events" /\ next.deltas = k /\ next.artifact /\ next.reader
            /\ next.conn = request[r].conn
        BY <2>1, <2>2, <3>1 DEF RequestState
      <3> HIDE DEF next
      <3>3. last \in RequestState /\ last.step = "ended" /\ ~last.reader /\ last.conn = next.conn
        BY <3>1, <3>2 DEF RequestState
      <3>4. QED
        BY <3>2, <3>3
    <2> HIDE DEF next, last, e, k
    <2>6. Yields(r, e)
      BY <1>T, <2>1, <2>4, AppendEffect
    <2>7. Moves(r) /\ (request'[r] = next \/ request'[r] = last)
      BY <1>T, <2>1, <2>5 DEF Moves, ServerTypes
    <2>8. Len(yielded[r]) = k + 1 /\ k > 0
      BY <2>2 DEF k
    <2>9. QED
      BY <2>1, <2>2, <2>4, <2>5, <2>6, <2>7, <2>8, YieldKeeps
  <1>10. ASSUME NEW r \in Requests, StreamEnd(r) PROVE ServerInv'
    <2>1. /\ request[r].step = "events" /\ server' = server
          /\ \E s \in {"completed", "failed"} : Yield(r, Status(s), "ended")
      BY <1>10 DEF StreamEnd, Finished
    <2>2. QED
      BY <1>4, <2>1, EventTypes
  <1>11. QED
    BY <1>1, <1>2, <1>3, <1>5, <1>6, <1>7, <1>8, <1>9, <1>10, <1>12, <1>13, <1>14, <1>15 DEF ServerNext

LEMMA ServerInitial == ServerInit => ServerInv
  <1> SUFFICES ASSUME ServerInit PROVE ServerInv
    OBVIOUS
  <1>1. Arriving \in RequestState /\ Arriving.step = "new" /\ Arriving.deltas = 0 /\ ~Arriving.artifact
        /\ Arriving.reader /\ ~Arriving.conn
    BY DEF Arriving, RequestState, Steps, Unstarted
  <1>2. \A r \in Requests : request[r] = Arriving /\ yielded[r] = <<>>
    BY DEF ServerInit
  <1>3. ServerTypes
    BY <1>1 DEF ServerInit, ServerTypes
  <1>4. \A r \in Requests : Yielded(r)
    BY <1>1, <1>2 DEF Yielded, Unstarted
  <1>5. \A r \in Requests : Served(r)
    BY <1>1, <1>2 DEF Served, ServerInit
  <1>6. QED
    BY <1>3, <1>4, <1>5 DEF ServerInv

\* The kinds of the events before the last one.
LEMMA StreamEventKinds ==
  \A i \in Nat \ {0} :
    /\ ~Terminal(StreamEvent(i))
    /\ StreamEvent(i).kind = "artifact" <=> i > 2
    /\ i > 2 => StreamEvent(i).delta = i - 2 /\ (StreamEvent(i).new <=> i = 3)
    /\ StreamEvent(i).kind = "status" => StreamEvent(i).state = "working"
  <1> SUFFICES ASSUME NEW i \in Nat \ {0}
               PROVE  /\ ~Terminal(StreamEvent(i))
                      /\ StreamEvent(i).kind = "artifact" <=> i > 2
                      /\ i > 2 => StreamEvent(i).delta = i - 2 /\ (StreamEvent(i).new <=> i = 3)
                      /\ StreamEvent(i).kind = "status" => StreamEvent(i).state = "working"
    OBVIOUS
  <1>1. CASE i = 1
    BY <1>1 DEF StreamEvent, Terminal
  <1>2. CASE i = 2
    BY <1>2 DEF StreamEvent, Terminal, Status
  <1>3. CASE i > 2
    <2>1. StreamEvent(i) = [kind |-> "artifact", new |-> (i = 3), delta |-> i - 2]
      BY <1>3 DEF StreamEvent, Artifact
    <2>2. /\ StreamEvent(i).kind = "artifact" /\ StreamEvent(i).delta = i - 2
          /\ StreamEvent(i).new = (i = 3)
      BY <2>1
    <2>3. QED
      BY <1>3, <2>2 DEF Terminal
  <1>4. QED
    BY <1>1, <1>2, <1>3

LEMMA FinalField == \A k, f, t : [kind |-> k, final |-> f, status |-> t].final = f
  OBVIOUS

\* A final event of the client is a terminal one of the server.
LEMMA FinalIsTerminal ==
  \A e \in TaskEvents : fromSDKEvent(e).final => Terminal(e)
  <1> SUFFICES ASSUME NEW e \in TaskEvents, fromSDKEvent(e).final PROVE Terminal(e)
    OBVIOUS
  <1>1. CASE e \in [kind : {"message", "task"}]
    <2>1. e.kind \in {"message", "task"}
      BY <1>1
    <2>2. e.kind = "message" \/ fromSDKEvent(e) =
            [kind |-> "taskStatus", final |-> TerminalState("submitted"), status |-> fromSDKTaskState("submitted")]
      BY <2>1 DEF fromSDKEvent
    <2>3. ~TerminalState("submitted")
      BY DEF TerminalState
    <2>4. CASE e.kind # "message"
      <3>1. fromSDKEvent(e) =
              [kind |-> "taskStatus", final |-> TerminalState("submitted"), status |-> fromSDKTaskState("submitted")]
        BY <2>2, <2>4
      <3>2. TerminalState("submitted")
        BY <3>1
      <3>3. QED
        BY <2>3, <3>2
    <2>5. QED
      BY <2>4 DEF Terminal
  <1>2. CASE e \in [kind : {"status"}, state : {"working", "completed", "failed"}]
    <2>1. e.kind = "status" /\ e.state \in {"working", "completed", "failed"}
      BY <1>2
    <2>2. fromSDKEvent(e) =
            [kind |-> "taskStatus", final |-> TerminalState(e.state), status |-> fromSDKTaskState(e.state)]
      BY <2>1 DEF fromSDKEvent
    <2>3. TerminalState(e.state)
      BY <2>2
    <2>4. QED
      BY <2>1, <2>3 DEF Terminal, TerminalState
  <1>3. CASE e \in [kind : {"artifact"}, new : BOOLEAN, delta : Nat]
    <2>1. e.kind = "artifact"
      BY <1>3
    <2>2. fromSDKEvent(e) = [kind |-> "artifact", final |-> FALSE, status |-> ""]
      BY <2>1 DEF fromSDKEvent
    <2>3. fromSDKEvent(e).final = FALSE
      BY <2>2, FinalField, Zenon
    <2>4. QED
      BY <2>3
  <1>4. QED
    BY <1>1, <1>2, <1>3 DEF TaskEvents

LEMMA ServerInvImplies == ServerInv => TaskEndsOnce
  <1> SUFFICES ASSUME ServerInv, NEW r \in Requests
               PROVE  LET ev == yielded[r]
                      IN /\ \A i \in DOMAIN ev : ClientSees(r)[i].final => i = Len(ev)
                         /\ \A i \in DOMAIN ev : Terminal(ev[i]) => i = Len(ev)
                         /\ request[r].step = "ended" /\ request[r].reader => ev # <<>> /\ Terminal(ev[Len(ev)])
                         /\ \A i \in DOMAIN ev : ev[i].kind = "artifact" =>
                              ev[i].delta = Cardinality(Artifacts(r, i)) /\ (ev[i].new <=> ev[i].delta = 1)
                         /\ server = "stopped" /\ request[r].conn => request[r].step \in {"refused", "ended"}
    BY DEF TaskEndsOnce
  <1> DEFINE ev == yielded[r]
             n == Len(yielded[r])
  <1>1. ev \in Seq(TaskEvents) /\ n \in Nat /\ DOMAIN ev = 1..n /\ \A i \in 1..n : ev[i] \in TaskEvents
    BY DEF ServerInv, ServerTypes
  <1>2. /\ \A i \in 1..n : i < n => ev[i] = StreamEvent(i)
        /\ n > 0 => ev[n] = StreamEvent(n) \/ (request[r].step = "ended" /\ Terminal(ev[n]))
        /\ request[r].step = "ended" => n > 0
        /\ request[r].step = "ended" /\ request[r].reader => Terminal(ev[n])
    BY <1>1 DEF ServerInv, Yielded
  <1>3. \A i \in 1..n : Terminal(ev[i]) => i = n
    BY <1>1, <1>2, StreamEventKinds
  <1>4. \A i \in DOMAIN ev : ClientSees(r)[i].final => i = n
    BY <1>1, <1>3, FinalIsTerminal DEF ClientSees
  <1>5. \A i \in 1..n : ev[i].kind = "artifact" <=> (ev[i] = StreamEvent(i) /\ i > 2)
    <2>1. n > 0 /\ Terminal(ev[n]) => ev[n].kind # "artifact"
      BY DEF Terminal
    <2>2. QED
      BY <1>1, <1>2, <2>1, StreamEventKinds
  <1>6. ASSUME NEW i \in 1..n, ev[i].kind = "artifact"
        PROVE  ev[i].delta = Cardinality(Artifacts(r, i)) /\ (ev[i].new <=> ev[i].delta = 1)
    <2>1. i > 2 /\ ev[i].delta = i - 2 /\ (ev[i].new <=> i = 3)
      BY <1>1, <1>5, <1>6, StreamEventKinds
    <2>2. \A j \in 1..i : ev[j] = StreamEvent(j)
      BY <1>1, <1>2, <1>5, <1>6
    <2>3. Artifacts(r, i) = 3..i
      <3>1. \A j \in 1..i : ev[j].kind = "artifact" <=> j > 2
        BY <1>1, <2>2, StreamEventKinds
      <3>2. QED
        BY <1>1, <3>1 DEF Artifacts
    <2>4. i \in Int /\ 3 \in Int /\ ~(3 > i) /\ i - 3 + 1 = i - 2
      BY <1>1, <2>1
    <2>5. Cardinality(3..i) = i - 2
      BY <2>4, FS_Interval
    <2>6. QED
      BY <2>1, <2>3, <2>4, <2>5
  <1>7. server = "stopped" /\ request[r].conn => request[r].step \in {"refused", "ended"}
    BY DEF ServerInv, Served
  <1>8. request[r].step = "ended" /\ request[r].reader => ev # <<>> /\ Terminal(ev[n])
    BY <1>1, <1>2
  <1>9. QED
    BY <1>1, <1>3, <1>4, <1>6, <1>7, <1>8

-----------------------------------------------------------------------------
(* The table of handles: whatever it holds has a goroutine that will take  *)
(* it out.                                                                 *)
TableWatched == table # NoHandle => table \in waiting

LEMMA TableStep == TableWatched /\ [HandleStep]_handleVars => TableWatched'
  <1> SUFFICES ASSUME TableWatched, [HandleStep]_handleVars PROVE TableWatched'
    OBVIOUS
  <1> USE DEF TableWatched
  <1>1. CASE UNCHANGED handleVars
    BY <1>1 DEF handleVars
  <1>2. ASSUME NEW o \in Openers, LookUp(o) \/ GetRunHandle(o) PROVE TableWatched'
    BY <1>2 DEF LookUp, GetRunHandle
  <1>3. ASSUME NEW o \in Openers, ExistingHandle(o) PROVE TableWatched'
    BY <1>3 DEF ExistingHandle
  <1>4. ASSUME NEW o \in Openers, Track(o) PROVE TableWatched'
    BY <1>4 DEF Track
  <1>5. ASSUME NEW h, awaitCompletion(h) PROVE TableWatched'
    BY <1>5 DEF awaitCompletion
  <1>6. ASSUME NEW h, HandleDone(h) \/ RunEnds PROVE TableWatched'
    BY <1>6 DEF HandleDone, RunEnds
  <1>7. QED
    BY <1>1, <1>2, <1>3, <1>4, <1>5, <1>6 DEF HandleStep, GetAgentRun, GetAgentStream, newAgentRun, newAgentStream

-----------------------------------------------------------------------------
(* Sequences.                                                              *)

\* A set of numbers that is not empty has a least one.
LEMMA LeastNat ==
    ASSUME NEW S, S \subseteq Nat, S # {}
    PROVE  \E x \in S : \A y \in S : ~(y < x)
<1>1. PICK R : R = OpToRel(<, Nat)
  OBVIOUS
<1>2. IsWellFoundedOn(OpToRel(<, Nat), Nat)
  BY NatLessThanWellFounded
<1>3. IsWellFoundedOn(R, Nat)
  BY <1>1, <1>2
<1>4. \E x \in S : \A y \in S : ~(<<y, x>> \in R)
  BY <1>3, WFMin
<1>5. \A x, y \in Nat : y < x => <<y, x>> \in R
  BY <1>1 DEF OpToRel
<1>. QED
  BY <1>4, <1>5

\* Induction from 1 to n, as a fact about the set of the numbers that are done.
LEMMA UpTo ==
    ASSUME NEW n \in Nat, NEW S, 1 \in S \/ n = 0, \A i \in 1..n : i < n /\ i \in S => i + 1 \in S
    PROVE  \A i \in 1..n : i \in S
<1>1. SUFFICES ASSUME (1..n) \ S # {} PROVE FALSE
  OBVIOUS
<1>2. PICK x \in (1..n) \ S : \A y \in (1..n) \ S : ~(y < x)
  <2>1. PICK M : M = (1..n) \ S
    OBVIOUS
  <2>2. M \subseteq Nat /\ M # {}
    BY <1>1, <2>1
  <2>3. \E x \in M : \A y \in M : ~(y < x)
    BY <2>2, LeastNat
  <2>. QED
    BY <2>1, <2>3
<1>3. x # 1 /\ x - 1 \in 1..n /\ x - 1 < x /\ x - 1 < n /\ (x - 1) + 1 = x
  BY <1>2
<1>. QED
  BY <1>2, <1>3

Joins(s, F, i) == IF i = 1 THEN s[i] ELSE F[i - 1] \o s[i]
Flattens(s, F) == F = [i \in 1..Len(s) |-> Joins(s, F, i)]

\* FlattenSeq of the community modules, which puts the tool lists of the servers
\* and the tasks of the sub-agents one after the other, is defined by a choice;
\* there is a function to choose.
LEMMA FlattenExists ==
    ASSUME NEW A, NEW s \in Seq(A)
    PROVE  \E F : Flattens(s, F)
<1> DEFINE n == Len(s)
           Part(k, G) == \A i \in 1..k : G[i] = Joins(s, G, i)
           S == {k \in 1..n : \E G : Part(k, G)}
<1>1. n \in Nat
  OBVIOUS
<1>2. 1 \in S \/ n = 0
  <2> DEFINE G == [i \in {1} |-> s[1]]
  <2>1. Part(1, G)
    BY DEF Joins
  <2> HIDE DEF Part
  <2>. QED
    BY <2>1, <1>1
<1>3. ASSUME NEW k \in 1..n, k < n, k \in S
      PROVE  k + 1 \in S
  <2>1. PICK G : Part(k, G)
    BY <1>3
  <2> DEFINE H == [i \in 1..(k + 1) |-> IF i <= k THEN G[i] ELSE Joins(s, G, i)]
  <2>2. \A i \in 1..k : H[i] = G[i]
    OBVIOUS
  <2>3. H[k + 1] = Joins(s, G, k + 1)
    OBVIOUS
  <2> HIDE DEF H
  <2>4. ASSUME NEW i \in 1..(k + 1) PROVE H[i] = Joins(s, H, i)
    <3>1. Joins(s, G, i) = Joins(s, H, i)
      <4>1. i = 1 \/ (i - 1 \in 1..k)
        OBVIOUS
      <4>. QED
        BY <4>1, <2>2 DEF Joins
    <3>2. CASE i = k + 1
      BY <3>1, <3>2, <2>3
    <3>3. CASE i \in 1..k
      BY <3>1, <3>3, <2>1, <2>2
    <3>. QED
      BY <3>2, <3>3
  <2>5. Part(k + 1, H)
    BY <2>4
  <2>6. k + 1 \in 1..n
    BY <1>1, <1>3
  <2> HIDE DEF Part
  <2>. QED
    BY <2>5, <2>6
<1> HIDE DEF S
<1>4. n = 0 \/ n \in S
  <2>1. \A k \in 1..n : k < n /\ k \in S => k + 1 \in S
    BY <1>3
  <2> HIDE DEF n
  <2>2. \A k \in 1..n : k \in S
    BY <1>1, <1>2, <2>1, UpTo
  <2>. QED
    BY <1>1, <2>2
<1>5. \E G : Part(n, G)
  <2>1. n = 0 => Part(n, s)
    OBVIOUS
  <2>. QED
    BY <1>4, <2>1 DEF S
<1>6. PICK G : Part(n, G)
  BY <1>5
<1> DEFINE F == [i \in 1..n |-> G[i]]
<1>7. \A i \in 1..n : Joins(s, G, i) = Joins(s, F, i)
  BY <1>1 DEF Joins
<1>8. F = [i \in 1..n |-> Joins(s, F, i)]
  <2>1. \A i \in 1..n : F[i] = Joins(s, F, i)
    BY <1>6, <1>7
  <2> HIDE DEF F
  <2>2. F = [i \in 1..n |-> F[i]]
    BY DEF F
  <2>. QED
    BY <2>1, <2>2
<1>. QED
  BY <1>8 DEF Flattens

\* What it chooses joins the parts from the left.
LEMMA FlattenIs ==
    ASSUME NEW A, NEW s \in Seq(A), Len(s) # 0
    PROVE  \E F : Flattens(s, F) /\ FlattenSeq(s) = F[Len(s)]
<1> DEFINE G == CHOOSE F : Flattens(s, F)
<1>1. Flattens(s, G)
  BY FlattenExists
<1>2. FlattenSeq(s) = G[Len(s)]
  BY DEF FlattenSeq, Flattens, Joins
<1>. QED
  BY <1>1, <1>2

\* It keeps the type of the elements, and has those of every part and no others.
LEMMA FlattenParts ==
    ASSUME NEW T, NEW s \in Seq(Seq(T))
    PROVE  /\ FlattenSeq(s) \in Seq(T)
           /\ \A i \in 1..Len(s) : Range(s[i]) \subseteq Range(FlattenSeq(s))
           /\ \A x \in Range(FlattenSeq(s)) : \E i \in 1..Len(s) : x \in Range(s[i])
<1> DEFINE n == Len(s)
<1>0. n \in Nat
  OBVIOUS
<1>1. CASE n = 0
  <2>1. FlattenSeq(s) = s
    BY <1>1 DEF FlattenSeq
  <2>2. s = <<>>
    BY <1>1
  <2>3. Range(s) = {}
    BY <2>2 DEF Range
  <2>. QED
    BY <1>1, <2>1, <2>2, <2>3
<1>2. CASE n # 0
  <2>1. PICK F : Flattens(s, F) /\ FlattenSeq(s) = F[n]
    BY <1>2, FlattenIs
  <2> DEFINE Good(i) == /\ F[i] \in Seq(T)
                        /\ \A j \in 1..i : Range(s[j]) \subseteq Range(F[i])
                        /\ \A x \in Range(F[i]) : \E j \in 1..i : x \in Range(s[j])
             S == {i \in 1..n : Good(i)}
  <2>2. \A i \in 1..n : F[i] = Joins(s, F, i) /\ s[i] \in Seq(T)
    <3>1. F = [i \in 1..n |-> Joins(s, F, i)]
      BY <2>1 DEF Flattens
    <3>2. \A i \in 1..n : F[i] = Joins(s, F, i)
      BY <3>1
    <3>3. \A i \in 1..n : s[i] \in Seq(T)
      OBVIOUS
    <3>. QED
      BY <3>2, <3>3
  <2>3. 1 \in S
    <3>1. 1 \in 1..n
      BY <1>0, <1>2
    <3>2. F[1] = s[1] /\ s[1] \in Seq(T)
      BY <2>2, <3>1 DEF Joins
    <3>. QED
      BY <3>1, <3>2
  <2>4. ASSUME NEW i \in 1..n, i < n, i \in S PROVE i + 1 \in S
    <3>1. i + 1 \in 1..n /\ i + 1 # 1 /\ (i + 1) - 1 = i
      BY <1>0, <2>4
    <3>2. F[i + 1] = F[i] \o s[i + 1] /\ s[i + 1] \in Seq(T)
      BY <2>2, <3>1 DEF Joins
    <3>3. Good(i)
      BY <2>4
    <3>4. Range(F[i] \o s[i + 1]) = Range(F[i]) \cup Range(s[i + 1]) /\ F[i] \o s[i + 1] \in Seq(T)
      BY <3>2, <3>3, RangeConcatenation, ConcatProperties
    <3>5. \A j \in 1..(i + 1) : j \in 1..i \/ j = i + 1
      BY <2>4
    <3>6. \A j \in 1..i : j \in 1..(i + 1)
      BY <2>4
    <3>7. i + 1 \in 1..(i + 1)
      BY <2>4
    <3>8. Good(i + 1)
      BY <3>2, <3>3, <3>4, <3>5, <3>6, <3>7
    <3> HIDE DEF Good
    <3>. QED
      BY <3>1, <3>8
  <2> HIDE DEF S
  <2>5. \A i \in 1..n : i \in S
    <3> HIDE DEF n
    <3>. QED
      BY <1>0, <2>3, <2>4, UpTo
  <2>6. n \in S
    BY <1>0, <1>2, <2>5
  <2>7. Good(n)
    BY <2>6 DEF S
  <2>. QED
    BY <2>1, <2>7
<1>. QED
  BY <1>1, <1>2

\* Taking a name out of a registry leaves a list of names.
LEMMA RemoveType ==
    ASSUME NEW T, NEW s \in Seq(T), NEW x \in Range(s)
    PROVE  removeFromOrder(s, x) \in Seq(T)
<1> DEFINE I == {i \in 1..Len(s) : s[i] = x}
<1>1. I # {} /\ I \subseteq Nat
  BY DEF Range
<1>2. \E i \in I : \A j \in I : ~(j < i)
  <2> HIDE DEF I
  <2>. QED
    BY <1>1, LeastNat
<1>3. \E i \in I : \A j \in I : i <= j
  BY <1>2
<1>4. Min(I) \in I
  BY <1>3 DEF Min
<1>5. SelectInSeq(s, LAMBDA v : v = x) = Min(I)
  BY <1>1 DEF SelectInSeq
<1>6. \E i \in 1..Len(s) : s[i] = x
  BY <1>1
<1> DEFINE k == Min(I)
<1>7. removeFromOrder(s, x) = RemoveAt(s, k)
  BY <1>5, <1>6 DEF removeFromOrder, RemoveFirst
<1>8. k \in 1..Len(s)
  BY <1>4
<1> HIDE DEF k
<1>9. RemoveAt(s, k) \in Seq(T)
  BY <1>8 DEF RemoveAt
<1>. QED
  BY <1>7, <1>9

-----------------------------------------------------------------------------
(* Admission.                                                              *)

\* The tasks of the work list.
Path == Seq(Agents) \ {<<>>}
Task ==
  [do : {"tools", "graph", "specs"}, path : Path]
  \cup [do : {"listing", "skills", "subtools"}, path : Path, names : Seq(STRING)]
  \cup [do : {"visit"}, trail : Path]
  \cup [do : {"handler"}]

\* The tasks that end with the tool list of an agent and the check of its graph.
Resolving == {"tools", "listing", "skills", "subtools", "graph"}
Paths(r) == UNION {Below(r, k) : k \in Nat}

\* The first agents of a path, and the agents visited on the way below the root.
PathTo(p, j) == [i \in 1..j |-> p[i]]
Trail(p, j) == [i \in 1..j |-> p[i + 1]]
Validating(W) == \E x \in W : x.do \in Resolving /\ x.path = <<Root>>

\* Only paths of registered sub-agents are worked on.
Placed(r, W) == \A x \in W : x.do \in Resolving \cup {"specs"} => x.path \in Paths(r)

\* A resolved tool list has the tool of every registered sub-agent.
Delegates(r, o) ==
  /\ o[1] \in Paths(r)
  /\ \A s \in Range(r[Last(o[1])].sub) : \E i \in 1..Len(o[2]) : o[2][i] = AgentTool[s]

\* Every route is a path, and every path has its route or a tree of specifications
\* that is left and starts on the way to it.
RoutesReal(r, rt) == \A p \in rt : \E k \in Nat : p \in Below(r, k + 1)
RoutesAll(r, W, rt) ==
  \A k \in Nat : \A p \in Below(r, k + 1) : p \in rt \/ \E j \in 1..(k + 1) : Specs(PathTo(p, j)) \in W

\* Every path is within the limit, or the validation is to come, or a visit is left
\* on the way to it.
DepthAll(r, W) ==
  \A k \in Nat : \A p \in Below(r, k + 1) :
    Validating(W) \/ k + 1 <= MaxDepth \/ \E j \in 1..(k + 1) : Visit(Trail(p, j)) \in W

\* What the tasks W that are left and the tool lists and routes that are done
\* make of the registries r.
Covered(r, W, off, rt) ==
  /\ Placed(r, W) /\ (\A o \in off : Delegates(r, o))
  /\ RoutesReal(r, rt) /\ RoutesAll(r, W, rt) /\ DepthAll(r, W)

\* The inductive invariant.  A change of a registry moves the counter past the
\* one the call began with, and from there on only the tool lists are promised.
CallForm == {"kind", "step", "work", "atStart"} \subseteq DOMAIN call
CallInv ==
  /\ CallForm /\ registries \in Registries /\ changes \in Nat
  /\ \A o \in offered : IsInjective(o[2])
  /\ call = NoCall => offered = {} /\ routes = {}
  /\ call # NoCall => call.atStart[2] \in Nat /\ call.atStart[2] <= changes
  /\ call.step = "admitted" => call.work = <<>>
  /\ call.step \in {"busy", "admitted"} /\ Undisturbed =>
       /\ call.atStart[1] = registries /\ call.work \in Seq(Task)
       /\ Covered(registries, Range(call.work), offered, routes)

\* What it means to be a path of k delegations below the root.
LEMMA PathFacts ==
  ASSUME NEW r, NEW k \in Nat, NEW p \in Below(r, k)
  PROVE  /\ p \in Path /\ Len(p) = k + 1 /\ Last(p) = p[k + 1] /\ p[1] = Root
         /\ \A i \in 1..(k + 1) : p[i] \in Agents
         /\ \A i \in 1..k : p[i + 1] \in Range(r[p[i]].sub)
<1>1. p \in [1..(k + 1) -> Agents]
  BY DEF Below
<1>2. p \in Seq(Agents) /\ Len(p) = k + 1
  BY <1>1
<1>3. p[1] = Root /\ \A i \in 1..k : p[i + 1] \in Range(r[p[i]].sub)
  BY DEF Below
<1>4. p # <<>>
  BY <1>2
<1>. QED
  BY <1>1, <1>2, <1>3, <1>4 DEF Path, Last

\* A registered sub-agent makes a path longer.
LEMMA PathGrows ==
  ASSUME NEW r, NEW k \in Nat, NEW p \in Below(r, k), NEW s \in Agents, s \in Range(r[Last(p)].sub)
  PROVE  Append(p, s) \in Below(r, k + 1)
<1>1. /\ p \in Seq(Agents) /\ Len(p) = k + 1 /\ Last(p) = p[k + 1] /\ p[1] = Root
      /\ \A i \in 1..k : p[i + 1] \in Range(r[p[i]].sub)
  BY PathFacts DEF Path
<1> DEFINE q == Append(p, s)
<1>2. /\ q \in Seq(Agents) /\ Len(q) = k + 2 /\ q[k + 2] = s
      /\ \A i \in 1..(k + 1) : q[i] = p[i]
  BY <1>1
<1> HIDE DEF q
<1>3. q \in [1..(k + 1) + 1 -> Agents]
  BY <1>2
<1>4. q[1] = Root
  BY <1>1, <1>2
<1>5. ASSUME NEW i \in 1..(k + 1) PROVE q[i + 1] \in Range(r[q[i]].sub)
  <2>1. CASE i = k + 1
    BY <1>1, <1>2, <2>1
  <2>2. CASE i \in 1..k
    <3>1. i + 1 \in 1..(k + 1)
      BY <2>2
    <3>. QED
      BY <1>1, <1>2, <2>2, <3>1
  <2>. QED
    BY <2>1, <2>2
<1>6. q \in Below(r, k + 1)
  BY <1>3, <1>4, <1>5 DEF Below
<1>. QED
  BY <1>6 DEF q

\* The head of the work list is replaced by other tasks.
LEMMA Replaced ==
  ASSUME NEW w \in Seq(Task), w # <<>>, NEW ts \in Seq(Task)
  PROVE  /\ ts \o Tail(w) \in Seq(Task) /\ Head(w) \in Task /\ Head(w) \in Range(w)
         /\ \A x \in Range(w) : x = Head(w) \/ x \in Range(ts \o Tail(w))
         /\ Range(ts) \subseteq Range(ts \o Tail(w))
         /\ \A x \in Range(ts \o Tail(w)) : x \in Range(ts) \/ x \in Range(w)
<1>1. Tail(w) \in Seq(Task) /\ Len(Tail(w)) = Len(w) - 1 /\ Len(w) \in Nat \ {0} /\ w[1] = Head(w)
      /\ \A i \in 1..(Len(w) - 1) : Tail(w)[i] = w[i + 1]
  OBVIOUS
<1>2. Range(ts \o Tail(w)) = Range(ts) \cup Range(Tail(w)) /\ ts \o Tail(w) \in Seq(Task)
  <2>1. PICK v \in Seq(Task) : v = Tail(w)
    BY <1>1
  <2>2. Range(ts \o v) = Range(ts) \cup Range(v)
    BY RangeConcatenation
  <2>3. ts \o v \in Seq(Task)
    BY ConcatProperties
  <2>. QED
    BY <2>1, <2>2, <2>3
<1>3. \A x \in Range(w) : x = Head(w) \/ x \in Range(Tail(w))
  <2> SUFFICES ASSUME NEW i \in 1..Len(w) PROVE w[i] = Head(w) \/ w[i] \in Range(Tail(w))
    BY DEF Range
  <2>1. CASE i = 1
    BY <1>1, <2>1
  <2>2. CASE i # 1
    <3>1. i - 1 \in 1..Len(Tail(w)) /\ Tail(w)[i - 1] = w[i] /\ DOMAIN Tail(w) = 1..Len(Tail(w))
      BY <1>1, <2>2
    <3>. QED
      BY <1>1, <3>1 DEF Range
  <2>. QED
    BY <2>1, <2>2
<1>4. \A x \in Range(Tail(w)) : x \in Range(w)
  BY <1>1 DEF Range
<1>5. Head(w) \in Task /\ Head(w) \in Range(w)
  <2>1. 1 \in 1..Len(w)
    BY <1>1
  <2>. QED
    BY <1>1, <2>1 DEF Range
<1>. QED
  BY <1>2, <1>3, <1>4, <1>5

\* The tasks that replace the head h in W: V is what is left then.
Takes(W, h, N, V) ==
  /\ h \in W /\ (\A x \in W : x = h \/ x \in V) /\ N \subseteq V /\ (\A x \in V : x \in N \/ x \in W)

\* The next task of the same tools stands for what the previous one stood for.
LEMMA CoverResolve ==
  ASSUME NEW r, NEW W, NEW h, NEW n, NEW V, Takes(W, h, {n}, V), NEW rt,
         Placed(r, W), RoutesAll(r, W, rt), DepthAll(r, W),
         h.do \in Resolving, n.do \in Resolving, n.path = h.path
  PROVE  Placed(r, V) /\ RoutesAll(r, V, rt) /\ DepthAll(r, V)
<1>1. n \in V
  BY DEF Takes
<1>2. Placed(r, V)
  BY DEF Placed, Takes
<1>3. \A q : h # Specs(q) /\ h # Visit(q)
  BY DEF Specs, Visit, Resolving
<1>4. RoutesAll(r, V, rt)
  BY <1>3 DEF RoutesAll, Takes
<1>5. Validating(W) => Validating(V)
  BY <1>1 DEF Validating, Takes
<1>6. DepthAll(r, V)
  BY <1>3, <1>5 DEF DepthAll, Takes
<1>. QED
  BY <1>2, <1>4, <1>6

\* The question about the approval handler stood for no path.
LEMMA CoverHandler ==
  ASSUME NEW r, NEW W, NEW h, NEW V, Takes(W, h, {}, V), NEW rt,
         Placed(r, W), RoutesAll(r, W, rt), DepthAll(r, W), h.do = "handler"
  PROVE  Placed(r, V) /\ RoutesAll(r, V, rt) /\ DepthAll(r, V)
<1>2. Placed(r, V)
  BY DEF Placed, Takes
<1>3. \A q : h # Specs(q) /\ h # Visit(q)
  BY DEF Specs, Visit
<1>4. RoutesAll(r, V, rt)
  BY <1>3 DEF RoutesAll, Takes
<1>5. Validating(W) => Validating(V)
  BY DEF Validating, Takes, Resolving
<1>6. DepthAll(r, V)
  BY <1>3, <1>5 DEF DepthAll, Takes
<1>. QED
  BY <1>2, <1>4, <1>6

\* Validating the root leaves a visit on every path below it.
LEMMA CoverGraph ==
  ASSUME NEW r, NEW W, NEW h, NEW N, NEW V, Takes(W, h, N, V), NEW rt,
         Placed(r, W), RoutesAll(r, W, rt), DepthAll(r, W), h.do = "graph",
         N = {Visit(<<s>>) : s \in Range(r[Last(h.path)].sub)}
  PROVE  Placed(r, V) /\ RoutesAll(r, V, rt) /\ DepthAll(r, V)
<1>1. \A x \in N : x.do = "visit"
  BY DEF Visit
<1>2. Placed(r, V)
  BY <1>1 DEF Placed, Takes, Resolving
<1>3. \A q : h # Specs(q) /\ h # Visit(q)
  BY DEF Specs, Visit
<1>4. RoutesAll(r, V, rt)
  BY <1>3 DEF RoutesAll, Takes
<1>5. ASSUME NEW k \in Nat, NEW p \in Below(r, k + 1), Validating(W)
      PROVE  Validating(V) \/ \E j \in 1..(k + 1) : Visit(Trail(p, j)) \in V
  <2>1. PICK x \in W : x.do \in Resolving /\ x.path = <<Root>>
    BY <1>5 DEF Validating
  <2>2. CASE x # h
    BY <2>1, <2>2 DEF Validating, Takes
  <2>3. CASE x = h
    <3>1. h.path = <<Root>>
      BY <2>1, <2>3
    <3>2. Last(h.path) = Root
      BY <3>1 DEF Last
    <3>3. p[1] = Root /\ p[1 + 1] \in Range(r[p[1]].sub)
      BY PathFacts
    <3>4. Visit(<<p[2]>>) \in V
      BY <3>2, <3>3 DEF Takes
    <3>5. Trail(p, 1) = <<p[2]>>
      BY DEF Trail
    <3>. QED
      BY <3>4, <3>5
  <2>. QED
    BY <2>2, <2>3
<1>6. DepthAll(r, V)
  BY <1>3, <1>5 DEF DepthAll, Takes
<1>. QED
  BY <1>2, <1>4, <1>6

\* A visit that is not too deep leaves one for every sub-agent, which is on every
\* path that goes on.
LEMMA CoverVisit ==
  ASSUME NEW r, NEW W, NEW t, NEW N, NEW V, Takes(W, Visit(t), N, V), NEW rt,
         Placed(r, W), RoutesAll(r, W, rt), DepthAll(r, W), ~TooDeep(t), t \in Path,
         N = {Visit(Append(t, s)) : s \in Range(r[Last(t)].sub)}
  PROVE  Placed(r, V) /\ RoutesAll(r, V, rt) /\ DepthAll(r, V)
<1> DEFINE h == Visit(t)
<1>1. h.do = "visit" /\ \A x \in N : x.do = "visit"
  BY DEF Visit
<1>2. Placed(r, V)
  BY <1>1 DEF Placed, Takes, Resolving
<1>3. \A q : h # Specs(q)
  BY DEF Specs, Visit
<1>4. RoutesAll(r, V, rt)
  BY <1>3 DEF RoutesAll, Takes
<1>5. Validating(W) => Validating(V)
  BY <1>1 DEF Validating, Takes, Resolving
<1>6. ASSUME NEW k \in Nat, NEW p \in Below(r, k + 1), NEW j \in 1..(k + 1), Visit(Trail(p, j)) \in W
      PROVE  k + 1 <= MaxDepth \/ \E i \in 1..(k + 1) : Visit(Trail(p, i)) \in V
  <2>1. CASE Visit(Trail(p, j)) # h
    BY <1>6, <2>1 DEF Takes
  <2>2. CASE Visit(Trail(p, j)) = h
    <3>1. t = Trail(p, j)
      <4>1. Visit(Trail(p, j)).trail = Visit(t).trail
        BY <2>2
      <4>. QED
        BY <4>1 DEF Visit
    <3>2. Len(t) = j /\ t[j] = p[j + 1] /\ Last(t) = p[j + 1]
      BY <3>1 DEF Trail, Last, Path
    <3>3. CASE j = k + 1
      BY <3>2, <3>3, FacadeAssumption DEF TooDeep
    <3>4. CASE j # k + 1
      <4>1. j + 1 \in 1..(k + 1)
        BY <3>4
      <4>2. p[(j + 1) + 1] \in Range(r[p[j + 1]].sub)
        BY <4>1, PathFacts
      <4>3. Visit(Append(t, p[j + 2])) \in V
        BY <3>2, <4>2 DEF Takes
      <4>4. Append(t, p[j + 2]) = Trail(p, j + 1)
        BY <3>1, <3>2 DEF Trail, Path
      <4>. QED
        BY <4>1, <4>3, <4>4
    <3>. QED
      BY <3>3, <3>4
  <2>. QED
    BY <2>1, <2>2
<1>7. DepthAll(r, V)
  BY <1>5, <1>6, FacadeAssumption DEF DepthAll
<1>. QED
  BY <1>2, <1>4, <1>7

\* Building a tree of specifications adds the routes of one agent and leaves the
\* trees of its sub-agents.
LEMMA CoverSpecs ==
  ASSUME NEW r \in Registries, NEW W, NEW q, NEW N, NEW V, Takes(W, Specs(q), N, V), NEW rt, NEW rt2,
         Placed(r, W), RoutesAll(r, W, rt), DepthAll(r, W), RoutesReal(r, rt),
         N = UNION {{Tools(Append(q, s)), Specs(Append(q, s))} : s \in Range(r[Last(q)].sub)},
         rt2 = rt \cup {Append(q, s) : s \in Range(r[Last(q)].sub)}
  PROVE  Placed(r, V) /\ RoutesAll(r, V, rt2) /\ DepthAll(r, V) /\ RoutesReal(r, rt2)
<1> DEFINE h == Specs(q)
<1>1. h.do = "specs" /\ h.path = q /\ h \in W
  BY DEF Specs, Takes
<1>2. PICK n \in Nat : q \in Below(r, n)
  BY <1>1 DEF Placed, Paths
<1>3. q \in Path /\ Last(q) \in Agents /\ Len(q) = n + 1
  BY <1>2, PathFacts
<1>4. \A s \in Range(r[Last(q)].sub) : s \in Agents /\ Append(q, s) \in Below(r, n + 1)
  <2>1. r[Last(q)].sub \in Seq(Agents)
    BY <1>3 DEF Registries
  <2>2. Range(r[Last(q)].sub) \subseteq Agents
    BY <2>1 DEF Range
  <2>. QED
    BY <1>2, <2>2, PathGrows
<1>5. RoutesReal(r, rt2)
  BY <1>4 DEF RoutesReal
<1>6. Placed(r, V)
  <2>1. ASSUME NEW x \in N PROVE x.path \in Paths(r)
    <3>1. PICK s \in Range(r[Last(q)].sub) : x \in {Tools(Append(q, s)), Specs(Append(q, s))}
      BY <2>1
    <3>2. x.path = Append(q, s)
      BY <3>1 DEF Tools, Specs
    <3>. QED
      BY <1>4, <3>2 DEF Paths
  <2>. QED
    BY <2>1 DEF Placed, Takes
<1>7. Validating(W) => Validating(V)
  BY <1>1 DEF Validating, Takes, Resolving
<1>8. \A t : h # Visit(t)
  BY DEF Specs, Visit
<1>9. DepthAll(r, V)
  BY <1>7, <1>8 DEF DepthAll, Takes
<1>10. ASSUME NEW k \in Nat, NEW p \in Below(r, k + 1), NEW j \in 1..(k + 1), Specs(PathTo(p, j)) \in W
       PROVE  p \in rt2 \/ \E i \in 1..(k + 1) : Specs(PathTo(p, i)) \in V
  <2>1. CASE Specs(PathTo(p, j)) # h
    BY <1>10, <2>1 DEF Takes
  <2>2. CASE Specs(PathTo(p, j)) = h
    <3>1. q = PathTo(p, j)
      <4>1. Specs(PathTo(p, j)).path = Specs(q).path
        BY <2>2
      <4>. QED
        BY <4>1 DEF Specs
    <3>2. Len(q) = j /\ Last(q) = p[j] /\ q \in Seq(Agents)
      BY <1>3, <3>1 DEF PathTo, Last, Path
    <3>3. /\ p \in Seq(Agents) /\ Len(p) = k + 2 /\ j + 1 \in 1..(k + 2)
          /\ p[j + 1] \in Range(r[p[j]].sub)
      BY PathFacts DEF Path
    <3>4. Append(q, p[j + 1]) = PathTo(p, j + 1)
      BY <3>1, <3>2 DEF PathTo
    <3>5. PathTo(p, j + 1) \in rt2 /\ Specs(PathTo(p, j + 1)) \in V
      <4>1. Specs(Append(q, p[j + 1])) \in N
        BY <3>2, <3>3
      <4>2. Append(q, p[j + 1]) \in rt2
        BY <3>2, <3>3
      <4>. QED
        BY <3>4, <4>1, <4>2 DEF Takes
    <3>6. CASE j = k + 1
      <4>1. PathTo(p, k + 2) = p
        BY <3>3 DEF PathTo
      <4>2. j + 1 = k + 2
        BY <3>6
      <4>. QED
        BY <3>5, <4>1, <4>2
    <3>7. CASE j # k + 1
      <4>1. j + 1 \in 1..(k + 1)
        BY <3>7
      <4>. QED
        BY <3>5, <4>1
    <3>. QED
      BY <3>6, <3>7
  <2>. QED
    BY <2>1, <2>2
<1>11. RoutesAll(r, V, rt2)
  BY <1>10 DEF RoutesAll
<1>. QED
  BY <1>5, <1>6, <1>9, <1>11

\* The admission goes on with other tasks in place of the first.
LEMMA Continued ==
  ASSUME CallForm, call.step = "busy", NEW ts, Continue(ts)
  PROVE  /\ CallForm' /\ call' # NoCall /\ call'.atStart = call.atStart
         /\ call'.work = ts \o Tail(call.work) /\ call'.step \in {"busy", "admitted"}
         /\ call'.step = "admitted" => call'.work = <<>>
<1>1. call' = [call EXCEPT !.work = ts \o Tail(@),
                           !.step = IF ts \o Tail(call.work) = <<>> THEN "admitted" ELSE @]
  BY DEF Continue
<1>2. /\ call'.atStart = call.atStart /\ call'.work = ts \o Tail(call.work) /\ DOMAIN call' = DOMAIN call
      /\ call'.step = IF ts \o Tail(call.work) = <<>> THEN "admitted" ELSE "busy"
  BY <1>1 DEF CallForm
<1>3. call'.step # "idle"
  BY <1>2
<1>. QED
  BY <1>2, <1>3 DEF CallForm, NoCall

\* A step of an admission that goes on.
LEMMA StepCovers ==
  ASSUME CallInv, call.step = "busy", call.work # <<>>, NEW ts, Continue(ts), UNCHANGED <<registries, changes>>,
         \A o \in offered' : IsInjective(o[2]),
         ASSUME Undisturbed, call.work \in Seq(Task), Head(call.work) \in Task,
                Covered(registries, Range(call.work), offered, routes),
                Head(call.work) \in Range(call.work)
         PROVE  /\ ts \in Seq(Task)
                /\ \A V : Takes(Range(call.work), Head(call.work), Range(ts), V)
                          => Covered(registries, V, offered', routes')
  PROVE  CallInv'
<1>1. CallForm
  BY DEF CallInv
<1>2. /\ CallForm' /\ call' # NoCall /\ call'.atStart = call.atStart
      /\ call'.work = ts \o Tail(call.work) /\ call'.step \in {"busy", "admitted"}
      /\ call'.step = "admitted" => call'.work = <<>>
  BY <1>1, Continued
<1>3. call # NoCall
  BY DEF NoCall
<1>4. ASSUME Undisturbed'
      PROVE  /\ call'.atStart[1] = registries' /\ call'.work \in Seq(Task)
             /\ Covered(registries', Range(call'.work), offered', routes')
  <2>1. Undisturbed
    BY <1>2, <1>4 DEF Undisturbed
  <2>2. call.atStart[1] = registries /\ call.work \in Seq(Task) /\ Covered(registries, Range(call.work), offered, routes)
    BY <2>1 DEF CallInv
  <2>3. Head(call.work) \in Task /\ Head(call.work) \in Range(call.work)
    BY <2>2, Replaced
  <2>4. /\ ts \in Seq(Task)
        /\ \A V : Takes(Range(call.work), Head(call.work), Range(ts), V)
                          => Covered(registries, V, offered', routes')
    BY <2>1, <2>2, <2>3
  <2>5. /\ ts \o Tail(call.work) \in Seq(Task)
        /\ Takes(Range(call.work), Head(call.work), Range(ts), Range(ts \o Tail(call.work)))
    BY <2>2, <2>4, Replaced DEF Takes
  <2>. QED
    BY <1>2, <2>2, <2>4, <2>5
<1>5. /\ registries' \in Registries /\ changes' \in Nat
      /\ call'.atStart[2] \in Nat /\ call'.atStart[2] <= changes'
  BY <1>2, <1>3 DEF CallInv
<1>. QED
  BY <1>2, <1>4, <1>5 DEF CallInv

\* A refused admission promises nothing more.
LEMMA RefuseKeeps ==
  ASSUME CallInv, call.step = "busy", Refuse, UNCHANGED <<registries, changes, offered>>
  PROVE  CallInv'
<1>1. CallForm /\ call # NoCall
  BY DEF CallInv, NoCall
<1>2. /\ call'.atStart = call.atStart /\ DOMAIN call' = DOMAIN call /\ call'.step = "refused"
  BY <1>1 DEF Refuse, CallForm
<1>3. CallForm' /\ call' # NoCall
  BY <1>1, <1>2 DEF CallForm, NoCall
<1>. QED
  BY <1>1, <1>2, <1>3 DEF CallInv

\* What is known of the task at the head.
LEMMA HeadTask ==
  ASSUME NEW h \in Task
  PROVE  /\ h.do \in Resolving \cup {"specs"} => h.path \in Path
         /\ h.do \in {"listing", "skills", "subtools"} => h.names \in Seq(STRING)
         /\ h.do = "specs" => h = Specs(h.path)
         /\ h.do = "visit" => h = Visit(h.trail) /\ h.trail \in Path
BY DEF Task, Resolving, Specs, Visit

\* What the registries hold at the end of a path.
LEMMA SubsAt ==
  ASSUME registries \in Registries, NEW p \in Path
  PROVE  /\ Last(p) \in Agents
         /\ At(p).tool \in Seq(STRING) /\ At(p).mcp \in Seq(Servers)
         /\ At(p).a2a \in Seq(Servers) /\ At(p).sub \in Seq(Agents)
<1>1. Last(p) \in Agents
  BY DEF Path, Last
<1>. QED
  BY <1>1 DEF At, Registries

\* The tools that remote servers list are names.
LEMMA ListsType ==
  ASSUME NEW s \in Seq(Servers)
  PROVE  Lists(s) \in Seq(STRING)
<1> DEFINE l == [i \in 1..Len(s) |-> Remote[s[i]]]
<1>1. l \in Seq(Seq(STRING))
  BY FacadeAssumption
<1>2. FlattenSeq(l) \in Seq(STRING)
  <2> HIDE DEF l
  <2>. QED
    BY <1>1, FlattenParts
<1>. QED
  BY <1>2 DEF Lists

\* A task that is replaced by the next one of the same tools.
LEMMA ResolveStep ==
  ASSUME CallInv, call.step = "busy", call.work # <<>>, NEW n, Continue(<<n>>),
         UNCHANGED <<registries, changes, offered, routes>>,
         Head(call.work).do \in Resolving, n.do \in Resolving, n.path = Head(call.work).path,
         Undisturbed /\ Head(call.work) \in Task => n \in Task
  PROVE  CallInv'
<1>1. \A o \in offered' : IsInjective(o[2])
  BY DEF CallInv
<1>2. ASSUME Undisturbed, call.work \in Seq(Task), Head(call.work) \in Task,
             Covered(registries, Range(call.work), offered, routes),
             Head(call.work) \in Range(call.work)
      PROVE  /\ <<n>> \in Seq(Task)
             /\ \A V : Takes(Range(call.work), Head(call.work), Range(<<n>>), V)
                          => Covered(registries, V, offered', routes')
  <2>1. <<n>> \in Seq(Task)
    BY <1>2
  <2>2. Range(<<n>>) = {n}
    BY DEF Range
  <2>3. ASSUME NEW V, Takes(Range(call.work), Head(call.work), {n}, V)
        PROVE  Covered(registries, V, offered', routes')
    BY <1>2, <2>3, CoverResolve DEF Covered
  <2>. QED
    BY <2>1, <2>2, <2>3
<1>. QED
  BY <1>1, <1>2, StepCovers

\* The native tools, those of MCP servers and those of A2A peers.
LEMMA ToolsStep ==
  ASSUME CallInv, resolveTools \/ resolveMCPTools \/ resolveA2ATools
  PROVE  CallInv'
<1> DEFINE h == Head(call.work)
           native == Listing(h.path, At(h.path).tool)
           remote == Skills(h.path, h.names \o Lists(At(h.path).mcp))
           peers == SubTools(h.path, h.names \o Lists(At(h.path).a2a))
<1>1. registries \in Registries
  BY DEF CallInv
<1>2. CASE resolveTools
  <2>1. /\ call.step = "busy" /\ call.work # <<>> /\ h.do = "tools" /\ Continue(<<native>>)
        /\ UNCHANGED <<registries, changes, offered, routes>>
    BY <1>2 DEF resolveTools, Do
  <2>2. native.do = "listing" /\ native.path = h.path
    BY DEF Listing
  <2>3. h \in Task => native \in Task
    BY <1>1, <2>1, HeadTask, SubsAt DEF Task, Listing, Resolving
  <2> HIDE DEF native
  <2>. QED
    BY <2>1, <2>2, <2>3, ResolveStep DEF Resolving
<1>3. CASE resolveMCPTools
  <2>1. /\ call.step = "busy" /\ call.work # <<>> /\ h.do = "listing" /\ (Continue(<<remote>>) \/ Refuse)
        /\ UNCHANGED <<registries, changes, offered, routes>>
    BY <1>3 DEF resolveMCPTools, Do
  <2>2. remote.do = "skills" /\ remote.path = h.path
    BY DEF Skills
  <2>3. h \in Task => remote \in Task
    <3> SUFFICES ASSUME h \in Task PROVE remote \in Task
      OBVIOUS
    <3>1. h.path \in Path /\ h.names \in Seq(STRING)
      BY <2>1, HeadTask DEF Resolving
    <3>2. Lists(At(h.path).mcp) \in Seq(STRING)
      BY <1>1, <3>1, SubsAt, ListsType
    <3>3. h.names \o Lists(At(h.path).mcp) \in Seq(STRING)
      BY <3>1, <3>2
    <3>. QED
      BY <3>1, <3>3 DEF Task, Skills
  <2> HIDE DEF remote
  <2>. QED
    BY <2>1, <2>2, <2>3, ResolveStep, RefuseKeeps DEF Resolving
<1>4. CASE resolveA2ATools
  <2>1. /\ call.step = "busy" /\ call.work # <<>> /\ h.do = "skills" /\ (Continue(<<peers>>) \/ Refuse)
        /\ UNCHANGED <<registries, changes, offered, routes>>
    BY <1>4 DEF resolveA2ATools, Do
  <2>2. peers.do = "subtools" /\ peers.path = h.path
    BY DEF SubTools
  <2>3. h \in Task => peers \in Task
    <3> SUFFICES ASSUME h \in Task PROVE peers \in Task
      OBVIOUS
    <3>1. h.path \in Path /\ h.names \in Seq(STRING)
      BY <2>1, HeadTask DEF Resolving
    <3>2. Lists(At(h.path).a2a) \in Seq(STRING)
      BY <1>1, <3>1, SubsAt, ListsType
    <3>3. h.names \o Lists(At(h.path).a2a) \in Seq(STRING)
      BY <3>1, <3>2
    <3>. QED
      BY <3>1, <3>3 DEF Task, SubTools
  <2> HIDE DEF peers
  <2>. QED
    BY <2>1, <2>2, <2>3, ResolveStep, RefuseKeeps DEF Resolving
<1>. QED
  BY <1>2, <1>3, <1>4

\* The second of two joined sequences is found behind the first.
LEMMA ConcatAt ==
  ASSUME NEW S, NEW a \in Seq(S), NEW b \in Seq(S), NEW j \in 1..Len(b)
  PROVE  Len(a) + j \in 1..Len(a \o b) /\ (a \o b)[Len(a) + j] = b[j]
<1>1. Len(a) \in Nat /\ Len(b) \in Nat /\ Len(a \o b) = Len(a) + Len(b)
  OBVIOUS
<1>2. Len(a) + j \in 1..(Len(a) + Len(b)) /\ ~(Len(a) + j <= Len(a)) /\ (Len(a) + j) - Len(a) = j
  BY <1>1
<1>3. \A i \in 1..(Len(a) + Len(b)) : (a \o b)[i] = IF i <= Len(a) THEN a[i] ELSE b[i - Len(a)]
  BY ConcatProperties
<1>. QED
  BY <1>1, <1>2, <1>3

\* The delegate tools of a list of sub-agents carry their names, place by place.
LEMMA DelegateNames ==
  ASSUME NEW s \in Seq(Agents), NEW j \in 1..Len(s)
  PROVE  /\ [i \in 1..Len(s) |-> AgentTool[s[i]]] \in Seq(STRING)
         /\ Len([i \in 1..Len(s) |-> AgentTool[s[i]]]) = Len(s)
         /\ [i \in 1..Len(s) |-> AgentTool[s[i]]][j] = AgentTool[s[j]]
<1>1. AgentTool \in [Agents -> STRING]
  BY FacadeAssumption, Zenon
<1>2. \A i \in 1..Len(s) : s[i] \in Agents
  OBVIOUS
<1>3. \A i \in 1..Len(s) : AgentTool[s[i]] \in STRING
  BY <1>1, <1>2, Zenon
<1>. QED
  BY <1>3

\* The delegate tools complete the list: all names differ, and every registered
\* sub-agent has its tool.
LEMMA SubToolsStep ==
  ASSUME CallInv, resolveSubAgentTools
  PROVE  CallInv'
<1> DEFINE h == Head(call.work)
           subs == At(h.path).sub
           own == [i \in 1..Len(subs) |-> AgentTool[subs[i]]]
           names == h.names \o own
           n == Graph(h.path)
           o == <<h.path, names>>
<1>1. /\ call.step = "busy" /\ call.work # <<>> /\ h.do = "subtools"
      /\ UNCHANGED <<registries, changes, routes>>
      /\ \/ IsInjective(names) /\ Continue(<<n>>) /\ offered' = offered \cup {o}
         \/ Refuse /\ UNCHANGED offered
  BY Zenon DEF resolveSubAgentTools, Do, UniqueNames
<1>2. n.do = "graph" /\ n.path = h.path
  BY DEF Graph
<1>3. CASE Refuse /\ UNCHANGED offered
  BY <1>1, <1>3, RefuseKeeps
<1>4. CASE IsInjective(names) /\ Continue(<<n>>) /\ offered' = offered \cup {o}
  <2>1. \A x \in offered' : IsInjective(x[2])
    <3>1. \A x \in offered : IsInjective(x[2])
      BY DEF CallInv
    <3>2. o[2] = names
      BY Zenon
    <3> HIDE DEF o, names
    <3>. QED
      BY <1>4, <3>1, <3>2
  <2>2. ASSUME Undisturbed, call.work \in Seq(Task), Head(call.work) \in Task,
               Covered(registries, Range(call.work), offered, routes),
               Head(call.work) \in Range(call.work)
        PROVE  /\ <<n>> \in Seq(Task)
               /\ \A V : Takes(Range(call.work), Head(call.work), Range(<<n>>), V)
                          => Covered(registries, V, offered', routes')
    <3>1. h.path \in Path /\ h.names \in Seq(STRING)
      BY <1>1, <2>2, HeadTask, Zenon DEF Resolving
    <3>2. n \in Task
      BY <3>1 DEF Task, Graph
    <3>3. <<n>> \in Seq(Task) /\ Range(<<n>>) = {n}
      BY <3>2 DEF Range
    <3>4. subs \in Seq(Agents)
      BY <3>1, SubsAt DEF CallInv
    <3>5. h.path \in Paths(registries)
      BY <1>1, <2>2, Zenon DEF Covered, Placed, Resolving
    <3>6. ASSUME NEW s \in Range(registries[Last(h.path)].sub)
          PROVE  \E i \in 1..Len(names) : names[i] = AgentTool[s]
      <4>1. PICK j \in 1..Len(subs) : subs[j] = s
        BY <3>4, <3>6 DEF Range, At
      <4>2. own \in Seq(STRING) /\ Len(own) = Len(subs) /\ own[j] = AgentTool[s]
        <5>1. PICK a \in Seq(Agents) : a = subs
          BY <3>4, Zenon
        <5>2. j \in 1..Len(a) /\ a[j] = s
          BY <4>1, <5>1, Zenon
        <5>3. own = [i \in 1..Len(a) |-> AgentTool[a[i]]]
          BY <5>1, Zenon
        <5> HIDE DEF own, subs
        <5>4. /\ [i \in 1..Len(a) |-> AgentTool[a[i]]] \in Seq(STRING)
              /\ Len([i \in 1..Len(a) |-> AgentTool[a[i]]]) = Len(a)
              /\ [i \in 1..Len(a) |-> AgentTool[a[i]]][j] = AgentTool[a[j]]
          BY <5>1, <5>2, DelegateNames, Zenon
        <5>. QED
          BY <5>1, <5>2, <5>3, <5>4, Zenon
      <4>3. PICK x \in Seq(STRING) : x = own
        BY <4>2, Zenon
      <4>4. PICK y \in Seq(STRING) : y = h.names
        BY <3>1
      <4>5. j \in 1..Len(x) /\ x[j] = AgentTool[s]
        BY <4>1, <4>2, <4>3, Zenon
      <4>6. names = y \o x
        BY <4>3, <4>4
      <4> HIDE DEF names, own
      <4>7. Len(y) + j \in 1..Len(y \o x) /\ (y \o x)[Len(y) + j] = x[j]
        BY <4>5, ConcatAt
      <4>. QED
        BY <4>5, <4>6, <4>7
    <3>7. Delegates(registries, o)
      <4> HIDE DEF names
      <4>. QED
        BY <3>5, <3>6 DEF Delegates
    <3> HIDE DEF n, o
    <3>8. ASSUME NEW V, Takes(Range(call.work), Head(call.work), {n}, V)
          PROVE  Covered(registries, V, offered', routes')
      <4>1. Placed(registries, V) /\ RoutesAll(registries, V, routes) /\ DepthAll(registries, V)
        BY <1>1, <1>2, <2>2, <3>8, CoverResolve DEF Covered, Resolving
      <4>. QED
        BY <1>1, <1>4, <2>2, <3>7, <4>1, Zenon DEF Covered
    <3>. QED
      BY <3>3, <3>8
  <2> HIDE DEF n, o, names
  <2>. QED
    BY <1>1, <1>4, <2>1, <2>2, StepCovers
<1>. QED
  BY <1>1, <1>3, <1>4, Zenon

\* The visits that a validation or a visit leaves.
LEMMA ChildTasks ==
  ASSUME NEW s \in Seq(Agents), NEW t, t \in Path \/ t = <<>>
  PROVE  LET ts == [i \in 1..Len(s) |-> Visit(Append(t, s[i]))]
         IN  ts \in Seq(Task) /\ Range(ts) = {Visit(Append(t, a)) : a \in Range(s)}
<1> DEFINE ts == [i \in 1..Len(s) |-> Visit(Append(t, s[i]))]
<1>1. \A i \in 1..Len(s) : Visit(Append(t, s[i])) \in Task
  <2> SUFFICES ASSUME NEW i \in 1..Len(s) PROVE Visit(Append(t, s[i])) \in Task
    OBVIOUS
  <2>1. s[i] \in Agents
    OBVIOUS
  <2>0. t \in Seq(Agents)
    <3>1. t = <<>> => t \in Seq(Agents)
      OBVIOUS
    <3>. QED
      BY <3>1 DEF Path
  <2>2. Append(t, s[i]) \in Path
    BY <2>0, <2>1, SMTT(60) DEF Path
  <2>. QED
    BY <2>2 DEF Visit, Task
<1>2. ts \in Seq(Task)
  BY <1>1
<1>3. Range(ts) = {Visit(Append(t, a)) : a \in Range(s)}
  BY DEF Range
<1>. QED
  BY <1>2, <1>3

\* The validation starts the visits,
LEMMA GraphStep ==
  ASSUME CallInv, validateSubAgentRegistry
  PROVE  CallInv'
<1> DEFINE h == Head(call.work)
           subs == At(h.path).sub
           ts == [i \in 1..Len(subs) |-> Visit(<<subs[i]>>)]
<1>1. /\ call.step = "busy" /\ call.work # <<>> /\ h.do = "graph"
      /\ UNCHANGED <<registries, changes, offered, routes>> /\ (Refuse \/ Continue(ts))
  BY DEF validateSubAgentRegistry, Do
<1>2. CASE Refuse
  BY <1>1, <1>2, RefuseKeeps
<1>3. CASE Continue(ts)
  <2>1. \A x \in offered' : IsInjective(x[2])
    BY <1>1 DEF CallInv
  <2>2. ASSUME Undisturbed, call.work \in Seq(Task), Head(call.work) \in Task,
               Covered(registries, Range(call.work), offered, routes),
               Head(call.work) \in Range(call.work)
        PROVE  /\ ts \in Seq(Task)
               /\ \A V : Takes(Range(call.work), Head(call.work), Range(ts), V)
                          => Covered(registries, V, offered', routes')
    <3>1. h.path \in Path
      BY <1>1, <2>2, HeadTask DEF Resolving
    <3>2. subs \in Seq(Agents)
      BY <3>1, SubsAt DEF CallInv
    <3>3. \A a : Append(<<>>, a) = <<a>>
      OBVIOUS
    <3>4. ts = [i \in 1..Len(subs) |-> Visit(Append(<<>>, subs[i]))]
      BY <3>3
    <3>5. ts \in Seq(Task) /\ Range(ts) = {Visit(<<a>>) : a \in Range(registries[Last(h.path)].sub)}
      <4>1. ts \in Seq(Task) /\ Range(ts) = {Visit(Append(<<>>, a)) : a \in Range(subs)}
        BY <3>2, <3>4, ChildTasks
      <4>2. {Visit(Append(<<>>, a)) : a \in Range(subs)} = {Visit(<<a>>) : a \in Range(subs)}
        BY <3>3
      <4>. QED
        BY <4>1, <4>2 DEF At
    <3> HIDE DEF ts
    <3>6. ASSUME NEW V, Takes(Range(call.work), Head(call.work), Range(ts), V)
          PROVE  Covered(registries, V, offered', routes')
      <4>1. Placed(registries, V) /\ RoutesAll(registries, V, routes) /\ DepthAll(registries, V)
        BY <1>1, <2>2, <3>5, <3>6, CoverGraph DEF Covered
      <4>. QED
        BY <1>1, <2>2, <4>1 DEF Covered
    <3>. QED
      BY <3>5, <3>6
  <2> HIDE DEF ts
  <2>. QED
    BY <1>1, <1>3, <2>1, <2>2, StepCovers
<1>. QED
  BY <1>1, <1>2, <1>3

\* and a visit goes one level down or refuses.
LEMMA VisitStep ==
  ASSUME CallInv, dfsSubAgentDepth
  PROVE  CallInv'
<1> DEFINE h == Head(call.work)
           t == h.trail
           subs == registries[Last(t)].sub
           ts == [i \in 1..Len(subs) |-> Visit(Append(t, subs[i]))]
<1>1. /\ call.step = "busy" /\ call.work # <<>> /\ h.do = "visit"
      /\ UNCHANGED <<registries, changes, offered, routes>> /\ (Refuse \/ (~TooDeep(t) /\ Continue(ts)))
  BY DEF dfsSubAgentDepth, Do
<1>2. CASE Refuse
  BY <1>1, <1>2, RefuseKeeps
<1>3. CASE ~TooDeep(t) /\ Continue(ts)
  <2>1. \A x \in offered' : IsInjective(x[2])
    BY <1>1 DEF CallInv
  <2>2. ASSUME Undisturbed, call.work \in Seq(Task), Head(call.work) \in Task,
               Covered(registries, Range(call.work), offered, routes),
               Head(call.work) \in Range(call.work)
        PROVE  /\ ts \in Seq(Task)
               /\ \A V : Takes(Range(call.work), Head(call.work), Range(ts), V)
                          => Covered(registries, V, offered', routes')
    <3>1. t \in Path /\ h = Visit(t)
      BY <1>1, <2>2, HeadTask
    <3>2. subs \in Seq(Agents)
      BY <3>1, SubsAt DEF CallInv, At
    <3>5. ts \in Seq(Task) /\ Range(ts) = {Visit(Append(t, a)) : a \in Range(registries[Last(t)].sub)}
      BY <3>1, <3>2, ChildTasks
    <3> HIDE DEF ts
    <3>6. ASSUME NEW V, Takes(Range(call.work), Head(call.work), Range(ts), V)
          PROVE  Covered(registries, V, offered', routes')
      <4>0. Takes(Range(call.work), Visit(t), Range(ts), V)
        BY <3>1, <3>6
      <4>1. Placed(registries, V) /\ RoutesAll(registries, V, routes) /\ DepthAll(registries, V)
        <5> HIDE DEF t
        <5>. QED
          BY <1>3, <2>2, <3>1, <3>5, <4>0, CoverVisit DEF Covered
      <4>. QED
        BY <1>1, <2>2, <4>1 DEF Covered
    <3>. QED
      BY <3>5, <3>6
  <2> HIDE DEF ts
  <2>. QED
    BY <1>1, <1>3, <2>1, <2>2, StepCovers
<1>. QED
  BY <1>1, <1>2, <1>3

\* Run asks for the approval handler.
LEMMA HandlerStep ==
  ASSUME CallInv, hasApprovalTools
  PROVE  CallInv'
<1> DEFINE h == Head(call.work)
<1>1. /\ call.step = "busy" /\ call.work # <<>> /\ h.do = "handler"
      /\ UNCHANGED <<registries, changes, offered, routes>> /\ (Refuse \/ Continue(<<>>))
  BY DEF hasApprovalTools, Do
<1>2. CASE Refuse
  BY <1>1, <1>2, RefuseKeeps
<1>3. CASE Continue(<<>>)
  <2>1. \A x \in offered' : IsInjective(x[2])
    BY <1>1 DEF CallInv
  <2>2. ASSUME Undisturbed, call.work \in Seq(Task), Head(call.work) \in Task,
               Covered(registries, Range(call.work), offered, routes),
               Head(call.work) \in Range(call.work)
        PROVE  /\ <<>> \in Seq(Task)
               /\ \A V : Takes(Range(call.work), Head(call.work), Range(<<>>), V)
                          => Covered(registries, V, offered', routes')
    <3>1. <<>> \in Seq(Task) /\ Range(<<>>) = {}
      BY DEF Range
    <3>2. ASSUME NEW V, Takes(Range(call.work), Head(call.work), {}, V)
          PROVE  Covered(registries, V, offered', routes')
      BY <1>1, <2>2, <3>2, CoverHandler DEF Covered
    <3>. QED
      BY <3>1, <3>2
  <2>. QED
    BY <1>1, <1>3, <2>1, <2>2, StepCovers
<1>. QED
  BY <1>1, <1>2, <1>3

\* The tasks that a tree of specifications leaves: two for every sub-agent.
LEMMA SpecTasks ==
  ASSUME NEW s \in Seq(Agents), NEW q \in Path
  PROVE  LET ts == FlattenSeq([i \in 1..Len(s) |-> <<Tools(Append(q, s[i])), Specs(Append(q, s[i]))>>])
         IN  ts \in Seq(Task) /\ Range(ts) = UNION {{Tools(Append(q, a)), Specs(Append(q, a))} : a \in Range(s)}
<1> DEFINE pair(a) == <<Tools(Append(q, a)), Specs(Append(q, a))>>
           l == [i \in 1..Len(s) |-> pair(s[i])]
           ts == FlattenSeq(l)
<1>1. ASSUME NEW a \in Agents
      PROVE  pair(a) \in Seq(Task) /\ Range(pair(a)) = {Tools(Append(q, a)), Specs(Append(q, a))}
  <2>1. Append(q, a) \in Path
    BY DEF Path
  <2>2. Tools(Append(q, a)) \in Task /\ Specs(Append(q, a)) \in Task
    BY <2>1 DEF Tools, Specs, Task
  <2>3. \A x, y : Range(<<x, y>>) = {x, y}
    BY DEF Range
  <2>. QED
    BY <2>2, <2>3
<1>2. \A i \in 1..Len(s) : s[i] \in Agents
  OBVIOUS
<1>3. l \in Seq(Seq(Task)) /\ Len(l) = Len(s) /\ \A i \in 1..Len(s) : l[i] = pair(s[i])
  <2>1. \A i \in 1..Len(s) : pair(s[i]) \in Seq(Task)
    BY <1>1, <1>2
  <2> HIDE DEF pair
  <2>. QED
    BY <2>1
<1>4. /\ ts \in Seq(Task)
      /\ \A i \in 1..Len(s) : Range(l[i]) \subseteq Range(ts)
      /\ \A x \in Range(ts) : \E i \in 1..Len(s) : x \in Range(l[i])
  <2> HIDE DEF l
  <2>. QED
    BY <1>3, FlattenParts
<1>5. Range(s) = {s[i] : i \in 1..Len(s)}
  BY DEF Range
<1>6. \A i \in 1..Len(s) : Range(l[i]) = {Tools(Append(q, s[i])), Specs(Append(q, s[i]))}
  BY <1>1, <1>2, <1>3
<1>7. Range(ts) = UNION {{Tools(Append(q, a)), Specs(Append(q, a))} : a \in Range(s)}
  <2>1. ASSUME NEW x \in Range(ts)
        PROVE  \E a \in Range(s) : x \in {Tools(Append(q, a)), Specs(Append(q, a))}
    <3>1. PICK i \in 1..Len(s) : x \in Range(l[i])
      BY <1>4, <2>1
    <3> HIDE DEF l, ts
    <3>2. x \in {Tools(Append(q, s[i])), Specs(Append(q, s[i]))} /\ s[i] \in Range(s)
      BY <1>5, <1>6, <3>1
    <3>. QED
      BY <3>2
  <2>2. ASSUME NEW a \in Range(s)
        PROVE  {Tools(Append(q, a)), Specs(Append(q, a))} \subseteq Range(ts)
    <3>1. PICK i \in 1..Len(s) : s[i] = a
      BY <1>5
    <3> HIDE DEF l, ts
    <3>. QED
      BY <1>4, <1>6, <3>1
  <2> HIDE DEF ts, l, pair
  <2>. QED
    BY <2>1, <2>2
<1>. QED
  BY <1>4, <1>7

\* The specifications of one agent.
LEMMA SpecsStep ==
  ASSUME CallInv, resolveSubAgentSpecs
  PROVE  CallInv'
<1> DEFINE h == Head(call.work)
           q == h.path
           subs == At(q).sub
           ts == FlattenSeq([i \in 1..Len(subs) |-> <<Tools(Append(q, subs[i])), Specs(Append(q, subs[i]))>>])
<1>1. /\ call.step = "busy" /\ call.work # <<>> /\ h.do = "specs" /\ Continue(ts)
      /\ UNCHANGED <<registries, changes, offered>>
      /\ routes' = routes \cup {Append(q, subs[i]) : i \in 1..Len(subs)}
  BY Zenon DEF resolveSubAgentSpecs, Do
<1>2. \A x \in offered' : IsInjective(x[2])
  BY <1>1 DEF CallInv
<1>3. ASSUME Undisturbed, call.work \in Seq(Task), Head(call.work) \in Task,
             Covered(registries, Range(call.work), offered, routes),
             Head(call.work) \in Range(call.work)
      PROVE  /\ ts \in Seq(Task)
             /\ \A V : Takes(Range(call.work), Head(call.work), Range(ts), V)
                        => Covered(registries, V, offered', routes')
  <2>1. q \in Path /\ h = Specs(q)
    BY <1>1, <1>3, HeadTask
  <2>2. subs \in Seq(Agents) /\ registries \in Registries
    BY <2>1, SubsAt DEF CallInv
  <2>3. ts \in Seq(Task)
        /\ Range(ts) = UNION {{Tools(Append(q, a)), Specs(Append(q, a))} : a \in Range(registries[Last(q)].sub)}
    <3>1. ts \in Seq(Task) /\ Range(ts) = UNION {{Tools(Append(q, a)), Specs(Append(q, a))} : a \in Range(subs)}
      BY <2>1, <2>2, SpecTasks
    <3>. QED
      BY <3>1, Zenon DEF At
  <2>4. routes' = routes \cup {Append(q, a) : a \in Range(registries[Last(q)].sub)}
    <3>1. Range(subs) = {subs[i] : i \in 1..Len(subs)}
      BY <2>2 DEF Range
    <3>2. {Append(q, subs[i]) : i \in 1..Len(subs)} = {Append(q, a) : a \in Range(subs)}
      BY <3>1
    <3>. QED
      BY <1>1, <3>2, Zenon DEF At
  <2> HIDE DEF ts
  <2>5. ASSUME NEW V, Takes(Range(call.work), Head(call.work), Range(ts), V)
        PROVE  Covered(registries, V, offered', routes')
    <3>0. Takes(Range(call.work), Specs(q), Range(ts), V)
      BY <2>1, <2>5
    <3>1. Placed(registries, V) /\ RoutesAll(registries, V, routes') /\ DepthAll(registries, V) /\ RoutesReal(registries, routes')
      <4>1. PICK N : N = Range(ts)
        OBVIOUS
      <4>2. PICK W : W = Range(call.work)
        OBVIOUS
      <4>3. PICK p \in Path : p = q
        BY <2>1
      <4>4. /\ Takes(W, Specs(p), N, V) /\ Placed(registries, W) /\ RoutesReal(registries, routes)
            /\ RoutesAll(registries, W, routes) /\ DepthAll(registries, W)
            /\ N = UNION {{Tools(Append(p, a)), Specs(Append(p, a))} : a \in Range(registries[Last(p)].sub)}
            /\ routes' = routes \cup {Append(p, a) : a \in Range(registries[Last(p)].sub)}
        BY <1>3, <2>3, <2>4, <3>0, <4>1, <4>2, <4>3 DEF Covered
      <4>. QED
        BY <2>2, <4>4, CoverSpecs
    <3>. QED
      BY <1>1, <1>3, <3>1, Zenon DEF Covered
  <2>. QED
    BY <2>3, <2>5
<1> HIDE DEF ts
<1>. QED
  BY <1>1, <1>2, <1>3, StepCovers

\* The first tasks of an admission.
LEMMA BeginStep ==
  ASSUME CallInv, Run \/ Stream
  PROVE  CallInv'
<1> DEFINE a == Tools(<<Root>>)
           b == Specs(<<Root>>)
           w == call'.work
<1>1. /\ call = NoCall /\ UNCHANGED <<registries, changes, offered, routes>>
      /\ call'.step = "busy" /\ call'.atStart = <<registries, changes>>
      /\ (w = <<a, Handler, b>> \/ w = <<a, b>>)
      /\ DOMAIN call' = {"kind", "step", "work", "atStart"}
  BY DEF Run, Stream
<1>2. offered = {} /\ routes = {}
  BY <1>1 DEF CallInv
<1>3. <<Root>> \in Path
  BY FacadeAssumption DEF Path
<1>4. a \in Task /\ b \in Task /\ Handler \in Task
  BY <1>3 DEF Tools, Specs, Handler, Task
<1>5. w \in Seq(Task) /\ Range(w) \subseteq {a, Handler, b} /\ a \in Range(w) /\ b \in Range(w)
  <2>1. \A x, y : Range(<<x, y>>) = {x, y}
    BY DEF Range
  <2>2. \A x, y, z : Range(<<x, y, z>>) = {x, y, z}
    BY DEF Range
  <2>3. <<a, Handler, b>> \in Seq(Task) /\ <<a, b>> \in Seq(Task)
    BY <1>4
  <2>4. CASE w = <<a, Handler, b>>
    <3> HIDE DEF w, a, b
    <3>. QED
      BY <2>2, <2>3, <2>4
  <2>5. CASE w = <<a, b>>
    <3> HIDE DEF w, a, b
    <3>. QED
      BY <2>1, <2>3, <2>5
  <2>. QED
    BY <1>1, <2>4, <2>5
<1>6. <<Root>> \in Paths(registries)
  <2>1. <<Root>> \in Below(registries, 0)
    BY FacadeAssumption DEF Below
  <2>. QED
    BY <2>1 DEF Paths
<1>7. a.do = "tools" /\ a.path = <<Root>> /\ b.do = "specs" /\ b.path = <<Root>> /\ Handler.do = "handler"
  BY DEF Tools, Specs, Handler
<1> HIDE DEF w
<1>8. Placed(registries, Range(w))
  BY <1>5, <1>6, <1>7 DEF Placed, Resolving
<1>9. RoutesAll(registries, Range(w), routes)
  <2> SUFFICES ASSUME NEW k \in Nat, NEW p \in Below(registries, k + 1)
               PROVE  \E j \in 1..(k + 1) : Specs(PathTo(p, j)) \in Range(w)
    BY DEF RoutesAll
  <2>1. p[1] = Root
    BY PathFacts
  <2>2. PathTo(p, 1) = <<Root>>
    BY <2>1 DEF PathTo
  <2>. QED
    BY <1>5, <2>2
<1>10. DepthAll(registries, Range(w))
  BY <1>5, <1>7 DEF DepthAll, Validating, Resolving
<1>11. Covered(registries, Range(w), offered, routes)
  BY <1>2, <1>8, <1>9, <1>10 DEF Covered, RoutesReal
<1>12. call' # NoCall
  BY <1>1 DEF NoCall
<1>. QED
  BY <1>1, <1>2, <1>5, <1>11, <1>12 DEF CallInv, CallForm, w

\* One registry of an agent is replaced.
LEMMA OneField ==
  ASSUME NEW T, NEW M, NEW A, NEW S, NEW c \in [tool : T, mcp : M, a2a : A, sub : S], NEW v,
         NEW f \in {"tool", "mcp", "a2a", "sub"},
         f = "tool" => v \in T, f = "mcp" => v \in M, f = "a2a" => v \in A, f = "sub" => v \in S
  PROVE  [c EXCEPT ![f] = v] \in [tool : T, mcp : M, a2a : A, sub : S]
<1>1. PICK d : d = [c EXCEPT ![f] = v]
  OBVIOUS
<1>2. DOMAIN d = {"tool", "mcp", "a2a", "sub"} /\ \A g \in DOMAIN d : d[g] = IF g = f THEN v ELSE c[g]
  BY <1>1
<1>3. c.tool \in T /\ c.mcp \in M /\ c.a2a \in A /\ c.sub \in S
  OBVIOUS
<1>4. d["tool"] \in T
  BY <1>2, <1>3
<1>5. d["mcp"] \in M
  BY <1>2, <1>3
<1>6. d["a2a"] \in A
  BY <1>2, <1>3
<1>7. d["sub"] \in S
  BY <1>2, <1>3
<1>8. d = [g \in DOMAIN d |-> d[g]]
  BY <1>1
<1>9. d = [tool |-> d["tool"], mcp |-> d["mcp"], a2a |-> d["a2a"], sub |-> d["sub"]]
  BY <1>2, <1>8
<1>. QED
  BY <1>1, <1>4, <1>5, <1>6, <1>7, <1>9

\* Another goroutine changes a registry.
LEMMA ChangeStep ==
  ASSUME CallInv, NEW e \in Registrable, registerLocked(e) \/ unregisterLocked(e)
  PROVE  CallInv'
<1>1. /\ changes' = changes + 1 /\ UNCHANGED <<call, offered, routes>>
      /\ \/ registries' = [registries EXCEPT ![e.at][e.reg] = Append(@, e.name)]
         \/ /\ registries' = [registries EXCEPT ![e.at][e.reg] = removeFromOrder(@, e.name)]
            /\ e.name \in Range(registries[e.at][e.reg])
  BY DEF registerLocked, unregisterLocked
<1>2. e.at \in Agents /\ e.reg \in DOMAIN NamesOf /\ e.name \in NamesOf[e.reg] /\ registries \in Registries
  BY FacadeAssumption DEF CallInv
<1>3. registries' \in Registries
  <2> DEFINE old == registries[e.at][e.reg]
  <2>1. old \in Seq(NamesOf[e.reg])
    BY <1>2 DEF Registries, NamesOf
  <2>2. PICK new \in Seq(NamesOf[e.reg]) : registries' = [registries EXCEPT ![e.at][e.reg] = new]
    <3>1. Append(old, e.name) \in Seq(NamesOf[e.reg])
      <4>1. PICK x \in Seq(NamesOf[e.reg]) : x = old
        BY <2>1
      <4>0. PICK K : K = NamesOf[e.reg]
        OBVIOUS
      <4>2. Append(x, e.name) \in Seq(NamesOf[e.reg])
        <5>1. x \in Seq(K) /\ e.name \in K
          BY <1>2, <4>0
        <5>2. Append(x, e.name) \in Seq(K)
          BY <5>1
        <5>. QED
          BY <4>0, <5>2
      <4>. QED
        BY <4>1, <4>2
    <3>2. e.name \in Range(old) => removeFromOrder(old, e.name) \in Seq(NamesOf[e.reg])
      <4> HIDE DEF old
      <4>. QED
        BY <2>1, RemoveType
    <3>. QED
      BY <1>1, <3>1, <3>2
  <2>3. [registries[e.at] EXCEPT ![e.reg] = new] \in
          [tool : Seq(STRING), mcp : Seq(Servers), a2a : Seq(Servers), sub : Seq(Agents)]
    <3>1. registries[e.at] \in [tool : Seq(STRING), mcp : Seq(Servers), a2a : Seq(Servers), sub : Seq(Agents)]
      BY <1>2 DEF Registries
    <3>2. PICK c \in [tool : Seq(STRING), mcp : Seq(Servers), a2a : Seq(Servers), sub : Seq(Agents)] :
            c = registries[e.at]
      BY <3>1
    <3>3. new \in Seq(NamesOf[e.reg]) /\ e.reg \in {"tool", "mcp", "a2a", "sub"}
      BY <1>2, <2>2 DEF NamesOf
    <3>4. /\ e.reg = "tool" => new \in Seq(STRING)
          /\ e.reg = "mcp" => new \in Seq(Servers)
          /\ e.reg = "a2a" => new \in Seq(Servers)
          /\ e.reg = "sub" => new \in Seq(Agents)
      BY <3>3 DEF NamesOf
    <3>. QED
      BY <3>2, <3>3, <3>4, OneField
  <2>4. registries' = [registries EXCEPT ![e.at] = [registries[e.at] EXCEPT ![e.reg] = new]]
    BY <2>2
  <2>. QED
    BY <1>2, <2>3, <2>4 DEF Registries
<1>4. call # NoCall => call.atStart[2] <= changes' /\ ~Undisturbed'
  BY <1>1 DEF CallInv, Undisturbed
<1>5. call.step \in {"busy", "admitted"} => call # NoCall
  BY DEF NoCall
<1>6. changes' \in Nat
  BY <1>1 DEF CallInv
<1>. QED
  BY <1>1, <1>3, <1>4, <1>5, <1>6 DEF CallInv, CallForm

\* Every step of an admission, and of the goroutines that change registries.
LEMMA AdmissionStep == CallInv /\ [Admission]_admissionVars => CallInv'
<1> SUFFICES ASSUME CallInv, [Admission]_admissionVars PROVE CallInv'
  OBVIOUS
<1>1. CASE UNCHANGED admissionVars
  BY <1>1 DEF admissionVars, CallInv, CallForm, Undisturbed
<1>2. CASE \E e \in Registrable :
             \/ RegisterTool(e) \/ RegisterMCP(e) \/ RegisterA2A(e) \/ RegisterSubAgent(e)
             \/ UnregisterTool(e) \/ UnregisterMCP(e) \/ UnregisterA2A(e) \/ UnregisterSubAgent(e)
  BY <1>2, ChangeStep DEF RegisterTool, RegisterMCP, RegisterA2A, RegisterSubAgent,
       UnregisterTool, UnregisterMCP, UnregisterA2A, UnregisterSubAgent
<1>. QED
  BY <1>1, <1>2, BeginStep, ToolsStep, SubToolsStep, GraphStep, VisitStep, HandlerStep, SpecsStep DEF Admission

\* With no task left nothing stands for a path any more: the routes are the paths.
LEMMA AdmittedInv == CallInv => AdmittedSound
<1> SUFFICES ASSUME CallInv, call.step = "admitted" PROVE AdmittedSound
  BY DEF AdmittedSound
<1>1. \A o \in offered : IsInjective(o[2])
  BY DEF CallInv
<1>2. ASSUME Undisturbed
      PROVE  LET r == call.atStart[1]
             IN /\ Below(r, MaxDepth + 1) = {}
                /\ routes = UNION {Below(r, k) : k \in 1..MaxDepth}
                /\ \A o \in offered : \A a \in Agents :
                     Append(o[1], a) \in routes =>
                       \E i \in 1..Len(o[2]) : o[2][i] = AgentTool[a]
  <2> DEFINE r == registries
  <2>1. call.atStart[1] = r /\ call.work = <<>> /\ Covered(r, Range(call.work), offered, routes)
    BY <1>2 DEF CallInv
  <2>2. Range(call.work) = {}
    BY <2>1 DEF Range
  <2>3. ASSUME NEW k \in Nat, NEW p \in Below(r, k + 1)
        PROVE  k + 1 <= MaxDepth /\ p \in routes
    <3>1. RoutesAll(r, {}, routes) /\ DepthAll(r, {})
      BY <2>1, <2>2 DEF Covered
    <3>2. ~Validating({})
      BY DEF Validating
    <3>. QED
      BY <2>3, <3>1, <3>2 DEF RoutesAll, DepthAll
  <2>4. \A p \in routes : \E k \in Nat : p \in Below(r, k + 1)
    BY <2>1 DEF Covered, RoutesReal
  <2>5. MaxDepth \in Nat /\ MaxDepth > 0
    BY FacadeAssumption
  <2>6. Below(r, MaxDepth + 1) = {}
    <3>1. ~(MaxDepth + 1 <= MaxDepth)
      BY <2>5
    <3>. QED
      BY <2>3, <2>5, <3>1
  <2>7. routes = UNION {Below(r, k) : k \in 1..MaxDepth}
    <3>1. ASSUME NEW p \in routes PROVE \E k \in 1..MaxDepth : p \in Below(r, k)
      <4>1. PICK k \in Nat : p \in Below(r, k + 1)
        BY <2>4
      <4>2. k + 1 \in 1..MaxDepth
        BY <2>3, <2>5, <4>1
      <4>. QED
        BY <4>1, <4>2
    <3>2. ASSUME NEW k \in 1..MaxDepth, NEW p \in Below(r, k) PROVE p \in routes
      <4>1. k - 1 \in Nat /\ (k - 1) + 1 = k
        BY <2>5
      <4>. QED
        BY <2>3, <4>1
    <3>. QED
      BY <3>1, <3>2
  <2>8. ASSUME NEW o \in offered, NEW a \in Agents, Append(o[1], a) \in routes
        PROVE  \E i \in 1..Len(o[2]) : o[2][i] = AgentTool[a]
    <3>1. Delegates(r, o)
      BY <2>1 DEF Covered
    <3>2. PICK n \in Nat : o[1] \in Below(r, n)
      BY <3>1 DEF Delegates, Paths
    <3>3. o[1] \in Seq(Agents) /\ Len(o[1]) = n + 1 /\ Last(o[1]) = o[1][n + 1]
      BY <3>2, PathFacts DEF Path
    <3> DEFINE q == o[1]
               p == Append(q, a)
    <3>4. Len(p) = n + 2 /\ p[n + 2] = a /\ p[n + 1] = q[n + 1]
      BY <3>3
    <3>5. PICK k \in Nat : p \in Below(r, k + 1)
      BY <2>4, <2>8
    <3> HIDE DEF p, q
    <3>6. Len(p) = k + 2 /\ \A i \in 1..(k + 1) : p[i + 1] \in Range(r[p[i]].sub)
      BY <3>5, PathFacts
    <3>7. n + 1 \in 1..(k + 1) /\ (n + 1) + 1 = n + 2
      BY <3>4, <3>6
    <3>8. a \in Range(r[Last(o[1])].sub)
      BY <3>3, <3>4, <3>6, <3>7 DEF q
    <3>. QED
      BY <3>1, <3>8 DEF Delegates
  <2>. QED
    BY <2>1, <2>6, <2>7, <2>8
<1>. QED
  BY <1>1, <1>2 DEF AdmittedSound

-----------------------------------------------------------------------------
(* Building an agent and its worker.                                       *)

\* A configuration has the fields of agentConfig.
IsConfig(c) == c = [f \in ConfigFields |-> c[f]]

\* The fields, one by one.
LEMMA FieldsAre ==
  ConfigFields = {"factory", "local", "conflict", "named", "fallback", "mode", "timeout", "approval", "iterations", "budget",
               "hooks", "retrievers", "retrieverMode", "tools", "shared", "servers", "clients", "peers", "peerClients",
               "subs", "memory", "breaker", "policy", "conversation", "disableLocalWorker", "disableFingerprintCheck"}
  BY DEF ConfigFields, agentConfig

\* A build starts with no runtime chosen.
LEMMA StartConfig ==
  /\ IsConfig(agentConfig) /\ IsBudget(agentConfig.budget) /\ agentConfig.factory = "none"
  /\ agentConfig.local = FALSE /\ agentConfig.conflict = FALSE
  <1>1. IsConfig(agentConfig)
    BY DEF IsConfig, ConfigFields, agentConfig
  <1>2. IsBudget(agentConfig.budget)
    BY DEF IsBudget, agentConfig, NoBudget
  <1>. QED
    BY <1>1, <1>2 DEF agentConfig

\* One more option.
LEMMA OptionSets ==
  ASSUME NEW o \in Offered, NEW c, IsConfig(c), IsBudget(c.budget)
  PROVE  /\ IsConfig(ApplyOption(c, o)) /\ IsBudget(ApplyOption(c, o).budget)
         /\ o.opt = "factory" => /\ ApplyOption(c, o).factory = o.v /\ ApplyOption(c, o).local = c.local
                                 /\ ApplyOption(c, o).conflict = (c.conflict \/ c.factory \notin {"none", o.v} \/ c.local)
         /\ o.opt = "local" => /\ ApplyOption(c, o).factory = c.factory
                               /\ c.factory # "none" => ApplyOption(c, o).conflict = TRUE
                               /\ c.factory = "none" => ApplyOption(c, o).local = TRUE /\ ApplyOption(c, o).conflict = c.conflict
         /\ o.opt \notin {"factory", "local"} =>
              /\ ApplyOption(c, o).factory = c.factory /\ ApplyOption(c, o).local = c.local
              /\ ApplyOption(c, o).conflict = c.conflict
  <1>1. /\ o.opt \in ConfigFields \ {"conflict"} /\ (o.opt = "budget" => IsBudget(o.v))
        /\ {"factory", "local", "conflict", "hooks", "budget"} \subseteq ConfigFields
    BY FieldsAre, ConfigAssumption
  <1>2. DOMAIN c = ConfigFields
    BY DEF IsConfig
  <1>3. CASE o.opt = "factory"
    <2> DEFINE d == [c EXCEPT !.conflict = \/ @ \/ c.factory \notin {"none", o.v} \/ c.local, !.factory = o.v]
    <2>1. ApplyOption(c, o) = d
      BY <1>3 DEF ApplyOption, withRuntimeFactory
    <2>2. /\ IsConfig(d) /\ d.budget = c.budget /\ d.factory = o.v /\ d.local = c.local
          /\ d.conflict = (c.conflict \/ c.factory \notin {"none", o.v} \/ c.local)
      BY <1>1, <1>2 DEF IsConfig
    <2> HIDE DEF d
    <2>. QED
      BY <1>3, <2>1, <2>2
  <1>4. CASE o.opt = "local"
    <2>1. CASE c.factory # "none"
      <3> DEFINE d == [c EXCEPT !.conflict = TRUE]
      <3>1. ApplyOption(c, o) = d
        BY <1>4, <2>1 DEF ApplyOption, withLocalConfig
      <3>2. IsConfig(d) /\ d.budget = c.budget /\ d.factory = c.factory /\ d.conflict = TRUE
        BY <1>1, <1>2 DEF IsConfig
      <3> HIDE DEF d
      <3>. QED
        BY <1>4, <2>1, <3>1, <3>2
    <2>2. CASE c.factory = "none"
      <3> DEFINE d == [c EXCEPT !.local = TRUE]
      <3>1. ApplyOption(c, o) = d
        BY <1>4, <2>2 DEF ApplyOption, withLocalConfig
      <3>2. IsConfig(d) /\ d.budget = c.budget /\ d.factory = c.factory /\ d.local = TRUE /\ d.conflict = c.conflict
        BY <1>1, <1>2 DEF IsConfig
      <3> HIDE DEF d
      <3>. QED
        BY <1>4, <2>2, <3>1, <3>2
    <2>. QED
      BY <2>1, <2>2
  <1>5. CASE o.opt = "hooks"
    <2> DEFINE d == [c EXCEPT !.hooks = Append(@, o.v)]
    <2>1. ApplyOption(c, o) = d
      BY <1>5 DEF ApplyOption
    <2>2. /\ IsConfig(d) /\ d.budget = c.budget /\ d.factory = c.factory /\ d.local = c.local
          /\ d.conflict = c.conflict
      BY <1>1, <1>2 DEF IsConfig
    <2> HIDE DEF d
    <2>. QED
      BY <1>5, <2>1, <2>2
  <1>6. CASE o.opt \notin {"factory", "local", "hooks"}
    <2> DEFINE d == [c EXCEPT ![o.opt] = o.v]
    <2>1. ApplyOption(c, o) = d
      BY <1>6 DEF ApplyOption
    <2>2. IsConfig(d)
      BY <1>1, <1>2 DEF IsConfig
    <2>3. d.factory = c.factory /\ d.local = c.local /\ d.conflict = c.conflict
      BY <1>1, <1>2, <1>6 DEF IsConfig
    <2>4. IsBudget(d.budget)
      <3>1. CASE o.opt = "budget"
        <4>1. d.budget = o.v
          BY <1>1, <1>2, <3>1 DEF IsConfig
        <4> HIDE DEF d
        <4>. QED
          BY <1>1, <3>1, <4>1
      <3>2. CASE o.opt # "budget"
        <4>1. d.budget = c.budget
          BY <1>1, <1>2, <3>2 DEF IsConfig
        <4> HIDE DEF d
        <4>. QED
          BY <4>1
      <3>. QED
        BY <3>1, <3>2
    <2> HIDE DEF d
    <2>. QED
      BY <1>6, <2>1, <2>2, <2>3, <2>4
  <1>. QED
    BY <1>3, <1>4, <1>5, <1>6

\* The defaults of a budget make a budget.
LEMMA BudgetDefaulted ==
  ASSUME NEW b, IsBudget(b)
  PROVE  IsBudget(BudgetDefaults(b))
  <1>1. CASE b = NoBudget
    <2>1. b.onExceeded # "wait"
      BY <1>1 DEF NoBudget
    <2>. QED
      BY <1>1, <2>1 DEF BudgetDefaults
  <1>2. CASE b # NoBudget /\ b.onExceeded = "wait"
    <2> DEFINE x == IF b.extra = 0 THEN b.tokens ELSE b.extra
               y == IF b.extraCost = 0 THEN b.cost ELSE b.extraCost
    <2>1. BudgetDefaults(b) = [b EXCEPT !.extra = x, !.extraCost = y]
      BY <1>2 DEF BudgetDefaults
    <2> HIDE DEF x, y
    <2>2. IsBudget([b EXCEPT !.extra = x, !.extraCost = y])
      BY DEF IsBudget
    <2>. QED
      BY <2>1, <2>2
  <1>3. CASE b # NoBudget /\ b.onExceeded # "wait"
    <2>1. IsBudget([b EXCEPT !.onExceeded = "stop"])
      BY DEF IsBudget
    <2>2. BudgetDefaults(b) = [b EXCEPT !.onExceeded = "stop"]
      BY <1>3 DEF BudgetDefaults
    <2>. QED
      BY <2>1, <2>2
  <1>. QED
    BY <1>1, <1>2, <1>3

\* What the defaults leave and what they fill in.
LEMMA DefaultsAre ==
  ASSUME NEW c, IsConfig(c), IsBudget(c.budget), NEW reg
  PROVE  Defaults(c, reg).factory = c.factory /\ IsBudget(Defaults(c, reg).budget)
  <1>1. DOMAIN c = ConfigFields /\ "factory" \in ConfigFields /\ "budget" \in ConfigFields
    BY FieldsAre DEF IsConfig
  <1>2. Defaults(c, reg).factory = c.factory
    BY <1>1 DEF Defaults
  <1>3. Defaults(c, reg).budget = BudgetDefaults(c.budget)
    BY <1>1 DEF Defaults
  <1>. QED
    BY <1>2, <1>3, BudgetDefaulted

\* What a build that is not refused returns.
LEMMA BuildReturns ==
  ASSUME NEW c, IsConfig(c), IsBudget(c.budget), NEW reg, buildAgentConfig(c, reg).ok
  PROVE  /\ buildAgentConfig(c, reg).cfg.factory = c.factory
         /\ IsBudget(buildAgentConfig(c, reg).cfg.budget)
         /\ ~c.conflict
  <1> DEFINE names == buildToolRegistry(c, reg).names
             ok == buildToolRegistry(c, reg).ok /\ BuildRegistries(c) /\ AfterRegistries(c, names)
  <1>1. buildAgentConfig(c, reg) = IF ~BeforeRegistries(c) THEN [ok |-> FALSE, names |-> reg]
                                   ELSE IF ok THEN [ok |-> TRUE, names |-> names, cfg |-> Defaults(c, names)]
                                   ELSE [ok |-> FALSE, names |-> names]
    BY DEF buildAgentConfig
  <1> HIDE DEF names, ok
  <1>2. BeforeRegistries(c) /\ buildAgentConfig(c, reg) = [ok |-> TRUE, names |-> names, cfg |-> Defaults(c, names)]
    BY <1>1
  <1>3. buildAgentConfig(c, reg).cfg = Defaults(c, names)
    BY <1>2
  <1>. QED
    BY <1>2, <1>3, DefaultsAre DEF BeforeRegistries

\* The agent that was built has the runtime its options chose, and a worker
\* that was built serves it: another runtime than the agent's is a conflict
\* of the worker's options.
BuiltAs(c, a) == a.factory = c.factory /\ IsBudget(a.budget)
ServedBy(c, w) == w.factory = "temporal" /\ IsBudget(w.budget) /\ c.factory \in {"none", "temporal"}

ConfigInv ==
  /\ IsConfig(options) /\ IsBudget(options.budget)
  /\ stage = "built" => BuiltAs(options, agent)
  /\ worker.status = "built" => stage = "built" /\ ServedBy(options, worker.cfg)

\* It holds at the start.
LEMMA ConfigInitial == ConfigInit => ConfigInv
  BY StartConfig DEF ConfigInit, ConfigInv

\* The worker that a deployment builds, drifted or not.
LEMMA WorkerServes ==
  ASSUME IsConfig(options), IsBudget(options.budget),
         NEW d \in Offered \cup {[opt |-> "none"]}, NewAgentWorker(d), worker'.status = "built"
  PROVE  ServedBy(options, worker'.cfg)
  <1> DEFINE c == IF d.opt = "none" THEN options ELSE ApplyOption(options, d)
             r == buildAgentConfig(c, <<>>)
  <1>1. worker' = IF r.ok /\ c.factory = "temporal" /\ ~c.disableFingerprintCheck
                  THEN [status |-> "built", cfg |-> r.cfg] ELSE [status |-> "refused"]
    BY DEF NewAgentWorker
  <1>2. IsConfig(c) /\ IsBudget(c.budget)
    <2>1. CASE d.opt = "none"
      BY <2>1
    <2>2. CASE d.opt # "none"
      <3>1. d \in Offered /\ c = ApplyOption(options, d)
        BY <2>2
      <3>2. IsConfig(ApplyOption(options, d)) /\ IsBudget(ApplyOption(options, d).budget)
        BY <3>1, OptionSets
      <3> HIDE DEF c
      <3>. QED
        BY <3>1, <3>2
    <2>. QED
      BY <2>1, <2>2
  <1>3. c.factory = "temporal" /\ ~c.conflict => options.factory \in {"none", "temporal"}
    <2>1. CASE d.opt = "none"
      BY <2>1
    <2>2. CASE d.opt # "none"
      <3>1. d \in Offered /\ c = ApplyOption(options, d)
        BY <2>2
      <3> HIDE DEF c
      <3>2. CASE d.opt = "factory"
        BY <3>1, <3>2, OptionSets
      <3>3. CASE d.opt # "factory"
        BY <3>1, <3>3, OptionSets
      <3>. QED
        BY <3>2, <3>3
    <2>. QED
      BY <2>1, <2>2
  <1> HIDE DEF c, r
  <1>4. r.ok /\ c.factory = "temporal" /\ worker'.cfg = r.cfg
    BY <1>1
  <1>5. r.cfg.factory = c.factory /\ IsBudget(r.cfg.budget) /\ ~c.conflict
    BY <1>2, <1>4, BuildReturns DEF r
  <1>. QED
    BY <1>3, <1>4, <1>5 DEF ServedBy

\* Every operation on options, agent and worker keeps it.
LEMMA ConfigStep ==
  ASSUME ConfigInv, [ConfigNext]_configVars
  PROVE  ConfigInv'
  <1>1. CASE UNCHANGED configVars
    BY <1>1 DEF ConfigInv, configVars
  <1>2. ASSUME NEW o \in Offered, WithOption(o)
        PROVE  ConfigInv'
    <2>1. IsConfig(options') /\ IsBudget(options'.budget)
      BY <1>2, OptionSets DEF WithOption, ConfigInv
    <2>2. stage' # "built" /\ worker'.status # "built"
      BY <1>2 DEF WithOption, ConfigInv
    <2>. QED
      BY <2>1, <2>2 DEF ConfigInv
  <1>3. CASE NewAgent
    <2> DEFINE r == buildAgentConfig(options, IF options.shared THEN registry ELSE <<>>)
    <2>1. /\ stage' = (IF r.ok THEN "built" ELSE "refused") /\ agent' = (IF r.ok THEN r.cfg ELSE agent)
          /\ options' = options /\ worker' = worker /\ stage = "options"
      BY <1>3 DEF NewAgent
    <2>2. r.ok => BuiltAs(options, r.cfg)
      BY BuildReturns DEF ConfigInv, BuiltAs
    <2> HIDE DEF r
    <2>3. stage' = "built" => BuiltAs(options, agent')
      BY <2>1, <2>2
    <2>. QED
      BY <2>1, <2>3 DEF ConfigInv
  <1>4. CASE TryAgain
    <2>1. options' = agentConfig /\ stage' # "built" /\ worker'.status # "built"
      BY <1>4 DEF TryAgain, ConfigInv
    <2>. QED
      BY <2>1, StartConfig DEF ConfigInv
  <1>5. ASSUME NEW d \in Offered \cup {[opt |-> "none"]}, NewAgentWorker(d)
        PROVE  ConfigInv'
    <2>1. options' = options /\ agent' = agent /\ stage' = stage /\ stage = "built"
      BY <1>5 DEF NewAgentWorker
    <2>2. worker'.status = "built" => ServedBy(options, worker'.cfg)
      BY <1>5, WorkerServes DEF ConfigInv
    <2>. QED
      BY <2>1, <2>2 DEF ConfigInv
  <1>. QED
    BY <1>1, <1>2, <1>3, <1>4, <1>5 DEF ConfigNext

\* Equal fingerprints of an agent and of a worker that serves it are equal
\* limits, windows and policies.
LEMMA FingerprintFields ==
  ASSUME NEW a, NEW w, ComputeAgentFingerprint(a) = ComputeAgentFingerprint(w)
  PROVE  /\ Range(a.tools) = Range(w.tools) /\ a.policy = w.policy
         /\ a.fallback = w.fallback /\ a.breaker = w.breaker
         /\ a.iterations = w.iterations /\ a.timeout = w.timeout /\ a.approval = w.approval
         /\ a.budget.tokens = w.budget.tokens /\ a.budget.cost = w.budget.cost
         /\ a.budget.onExceeded = w.budget.onExceeded
         /\ a.budget.extra = w.budget.extra /\ a.budget.extraCost = w.budget.extraCost
  <1> DEFINE F == ComputeAgentFingerprint(a)
             G == ComputeAgentFingerprint(w)
  <1>1. /\ F.tools = Range(a.tools) /\ F.policy = a.policy /\ F.errors = <<a.fallback, a.breaker>>
        /\ F.iterations = a.iterations /\ F.timeout = a.timeout /\ F.approval = a.approval
        /\ F.budget = BudgetPayload(a.budget)
    BY DEF ComputeAgentFingerprint, toolPolicyFingerprint, errorControlFingerprint
  <1>2. /\ G.tools = Range(w.tools) /\ G.policy = w.policy /\ G.errors = <<w.fallback, w.breaker>>
        /\ G.iterations = w.iterations /\ G.timeout = w.timeout /\ G.approval = w.approval
        /\ G.budget = BudgetPayload(w.budget)
    BY DEF ComputeAgentFingerprint, toolPolicyFingerprint, errorControlFingerprint
  <1>3. F = G
    OBVIOUS
  <1> HIDE DEF F, G
  <1>4. <<a.fallback, a.breaker>> = <<w.fallback, w.breaker>>
    BY <1>1, <1>2, <1>3
  <1>5. BudgetPayload(a.budget) = BudgetPayload(w.budget)
    BY <1>1, <1>2, <1>3
  <1>6. a.fallback = w.fallback /\ a.breaker = w.breaker
    BY <1>4
  <1>7. /\ a.budget.tokens = w.budget.tokens /\ a.budget.cost = w.budget.cost
        /\ a.budget.onExceeded = w.budget.onExceeded
        /\ a.budget.extra = w.budget.extra /\ a.budget.extraCost = w.budget.extraCost
    BY <1>5 DEF BudgetPayload
  <1>. QED
    BY <1>1, <1>2, <1>3, <1>6, <1>7

\* Two budgets that agree in what the digest covers differ in the rest only.
LEMMA FingerprintedFields ==
  ASSUME NEW a, NEW b, IsBudget(a), IsBudget(b), a.tokens = b.tokens, a.cost = b.cost,
         a.onExceeded = b.onExceeded, a.extra = b.extra, a.extraCost = b.extraCost
  PROVE  Fingerprinted(a) = Fingerprinted(b)
  <1>1. DOMAIN NoBudget = {"tokens", "cost", "promptPrice", "completionPrice", "onExceeded", "extra", "extraCost",
                           "approvals"}
    BY DEF NoBudget
  <1> DEFINE kept(x) == [f \in DOMAIN NoBudget |-> IF f \in {"promptPrice", "completionPrice", "approvals"} THEN 0 ELSE x[f]]
  <1>2. ASSUME NEW x, IsBudget(x)
        PROVE  Fingerprinted(x) = kept(x)
    BY <1>1, <1>2 DEF IsBudget, Fingerprinted
  <1>3. kept(a) = kept(b)
    BY <1>1
  <1>. QED
    BY <1>2, <1>3

\* What follows for a worker with the fingerprint of the agent.
LEMMA ConfigInvImplies ==
  ASSUME ConfigInv
  PROVE  WorkerEnforces
  <1> DEFINE w == worker.cfg
  <1> SUFFICES ASSUME TakesActivities
               PROVE  /\ approvalTaskTimeout(agent) = approvalTaskTimeout(w)
                      /\ Fingerprinted(agent.budget) = Fingerprinted(w.budget)
                      /\ agent.breaker = w.breaker /\ agent.fallback = w.fallback
                      /\ agent.iterations = w.iterations /\ agent.timeout = w.timeout
                      /\ {t \in Range(agent.tools) : RequiresApproval(agent, t)}
                           = {t \in Range(w.tools) : RequiresApproval(w, t)}
                      /\ /\ agent.budget.promptPrice = w.budget.promptPrice
                         /\ agent.budget.completionPrice = w.budget.completionPrice
                         => \A u \in Spends : checkLimits(agent.budget, u) = checkLimits(w.budget, u)
    BY Zenon DEF WorkerEnforces
  <1>1. ComputeAgentFingerprint(agent) = ComputeAgentFingerprint(w)
    BY DEF verifyAgentFingerprint, TakesActivities
  <1>2. /\ agent.factory \in {"none", "temporal"} /\ w.factory = "temporal"
        /\ IsBudget(agent.budget) /\ IsBudget(w.budget)
    BY DEF ConfigInv, BuiltAs, ServedBy, TakesActivities
  <1> HIDE DEF w
  <1>3. approvalTaskTimeout(agent) = approvalTaskTimeout(w)
    BY <1>1, <1>2, FingerprintFields DEF approvalTaskTimeout
  <1>4. Fingerprinted(agent.budget) = Fingerprinted(w.budget)
    BY <1>1, <1>2, FingerprintFields, FingerprintedFields
  <1>7. ASSUME agent.budget.promptPrice = w.budget.promptPrice, agent.budget.completionPrice = w.budget.completionPrice,
               NEW u \in Spends
        PROVE  checkLimits(agent.budget, u) = checkLimits(w.budget, u)
    BY <1>1, <1>7, FingerprintFields DEF checkLimits
  <1>5. agent.policy = w.policy /\ Range(agent.tools) = Range(w.tools)
    BY <1>1, FingerprintFields
  <1>6. {t \in Range(agent.tools) : RequiresApproval(agent, t)} = {t \in Range(w.tools) : RequiresApproval(w, t)}
    BY <1>5 DEF RequiresApproval
  <1>. QED
    BY <1>1, <1>3, <1>4, <1>6, <1>7, FingerprintFields

\* Unless the options contradict each other, they asked for the runtime the
\* configuration has and for no other.
RuntimesAsked ==
  IF options.factory # "none" THEN ~options.local /\ asked = {options.factory}
  ELSE asked = IF options.local THEN {"local"} ELSE {}

RuntimeInv == ConfigInv /\ (~options.conflict => RuntimesAsked) /\ (stage = "built" => ~options.conflict)

\* An agent that is built was asked for its runtime and for no other.
OneRuntime ==
  stage = "built" => asked \subseteq {IF agent.factory # "none" THEN agent.factory ELSE "local"}

\* Every operation keeps that.
LEMMA RuntimeStep ==
  ASSUME RuntimeInv, [ConfigNext]_configVars
  PROVE  RuntimeInv'
  <1>1. ConfigInv'
    BY ConfigStep DEF RuntimeInv
  <1>2. CASE UNCHANGED configVars
    BY <1>1, <1>2 DEF RuntimeInv, RuntimesAsked, configVars
  <1>3. ASSUME NEW o \in Offered, WithOption(o)
        PROVE  RuntimeInv'
    <2>1. /\ options' = ApplyOption(options, o) /\ stage' # "built"
          /\ asked' = asked \cup (IF o.opt = "factory" THEN {o.v} ELSE IF o.opt = "local" THEN {"local"} ELSE {})
      BY <1>3 DEF WithOption
    <2>2. IsConfig(options) /\ IsBudget(options.budget)
      BY DEF RuntimeInv, ConfigInv
    <2>3. ~options'.conflict => RuntimesAsked'
      <3>1. CASE o.opt = "factory"
        <4>1. /\ options'.factory = o.v /\ options'.local = options.local
              /\ options'.conflict = (options.conflict \/ options.factory \notin {"none", o.v} \/ options.local)
          BY <2>1, <2>2, <3>1, OptionSets
        <4>2. o.v \notin {"none", "local"} /\ asked' = asked \cup {o.v}
          BY <2>1, <3>1, ConfigAssumption
        <4>. QED
          BY <4>1, <4>2 DEF RuntimeInv, RuntimesAsked
      <3>2. CASE o.opt = "local"
        <4>1. /\ options'.factory = options.factory
              /\ options.factory # "none" => options'.conflict = TRUE
              /\ options.factory = "none" => options'.local = TRUE /\ options'.conflict = options.conflict
          BY <2>1, <2>2, <3>2, OptionSets
        <4>2. asked' = asked \cup {"local"}
          BY <2>1, <3>2
        <4>. QED
          BY <4>1, <4>2 DEF RuntimeInv, RuntimesAsked
      <3>3. CASE o.opt \notin {"factory", "local"}
        <4>1. /\ options'.factory = options.factory /\ options'.local = options.local
              /\ options'.conflict = options.conflict
          BY <2>1, <2>2, <3>3, OptionSets
        <4>2. asked' = asked
          BY <2>1, <3>3
        <4>. QED
          BY <4>1, <4>2 DEF RuntimeInv, RuntimesAsked
      <3>. QED
        BY <3>1, <3>2, <3>3
    <2>. QED
      BY <1>1, <2>1, <2>3 DEF RuntimeInv
  <1>4. CASE NewAgent
    <2> DEFINE r == buildAgentConfig(options, IF options.shared THEN registry ELSE <<>>)
    <2>1. stage' = (IF r.ok THEN "built" ELSE "refused") /\ options' = options /\ asked' = asked
      BY <1>4 DEF NewAgent
    <2>2. r.ok => ~options.conflict
      BY BuildReturns DEF RuntimeInv, ConfigInv
    <2> HIDE DEF r
    <2>. QED
      BY <1>1, <2>1, <2>2 DEF RuntimeInv, RuntimesAsked
  <1>5. CASE TryAgain
    <2>1. options' = agentConfig /\ asked' = {} /\ stage' # "built"
      BY <1>5 DEF TryAgain
    <2>. QED
      BY <1>1, <2>1, StartConfig DEF RuntimeInv, RuntimesAsked
  <1>6. ASSUME NEW d \in Offered \cup {[opt |-> "none"]}, NewAgentWorker(d)
        PROVE  RuntimeInv'
    BY <1>1, <1>6 DEF NewAgentWorker, RuntimeInv, RuntimesAsked
  <1>. QED
    BY <1>2, <1>3, <1>4, <1>5, <1>6 DEF ConfigNext

-----------------------------------------------------------------------------
(* The parts together: a step is one of one part, and leaves the variables *)
(* of the others alone.                                                    *)
LEMMA PartSteps ==
  ASSUME [Next]_vars
  PROVE  [ConfigNext]_configVars /\ [RemoteNext]_remoteVars /\ [ServerNext]_serverVars /\ [HandleStep]_handleVars
         /\ [Admission]_admissionVars
  <1>1. UNCHANGED facadeVars => UNCHANGED handleVars /\ UNCHANGED admissionVars
    BY DEF facadeVars, handleVars, admissionVars
  <1>2. QED
    BY <1>1 DEF Next, vars

\* The MCP client's mutex covers an operation from its first attempt to its
\* last: whoever is inside holds it, and nobody else has a session.
THEOREM SessionsSafe == Spec => []SessionsOwned
  <1>1. Init => RemoteInv
    BY RemoteInitial DEF Init
  <1>2. RemoteInv /\ [Next]_vars => RemoteInv'
    BY PartSteps, RemoteStep
  <1>3. RemoteInv => SessionsOwned
    BY DEF RemoteInv
  <1>4. QED
    BY <1>1, <1>2, <1>3, PTL DEF Spec

\* No connection of the A2A client is left behind by a lost race or by Close,
\* and while the client is open everybody uses the shared one.
THEOREM ConnectionsSafe == Spec => []ConnectionsOwned
  <1>1. Init => RemoteInv
    BY RemoteInitial DEF Init
  <1>2. RemoteInv /\ [Next]_vars => RemoteInv'
    BY PartSteps, RemoteStep
  <1>3. RemoteInv => ConnectionsOwned
    BY DEF RemoteInv
  <1>4. QED
    BY <1>1, <1>2, <1>3, PTL DEF Spec

\* While the A2A client is open nobody holds a connection that was destroyed:
\* throwing away the late one never hits the one in use.
UsedAlive == open => \A c \in Callers : user[c].step = "use" => user[c].got \in live

THEOREM ConnectionsAlive == Spec => []UsedAlive
  <1>1. Init => RemoteInv
    BY RemoteInitial DEF Init
  <1>2. RemoteInv /\ [Next]_vars => RemoteInv'
    BY PartSteps, RemoteStep
  <1>3. RemoteInv => UsedAlive
    BY DEF RemoteInv, GotReal, SharedAlive, ConnectionsOwned, UsedAlive, NoInner
  <1>4. QED
    BY <1>1, <1>2, <1>3, PTL DEF Spec

\* Every A2A request yields at most one terminal event, the last, and one that ran to
\* its end with a reader has it; its deltas are one artifact in order; and when the
\* server has stopped, a request whose client has waited was refused or has ended.
THEOREM TasksEnd == Spec => []TaskEndsOnce
  <1>1. Init => ServerInv
    BY ServerInitial DEF Init
  <1>2. ServerInv /\ [Next]_vars => ServerInv'
    BY PartSteps, ServerStep
  <1>3. QED
    BY <1>1, <1>2, ServerInvImplies, PTL DEF Spec

\* Whatever handle the agent's table holds, a goroutine is waiting to take it
\* out: with all of them ended the table is empty.
THEOREM TableEmpties == Spec => []TableDrains
  <1>1. Init => TableWatched
    BY DEF Init, FacadeInit, TableWatched
  <1>2. TableWatched /\ [Next]_vars => TableWatched'
    BY PartSteps, TableStep
  <1>3. TableWatched => TableDrains
    BY DEF TableWatched, TableDrains
  <1>4. QED
    BY <1>1, <1>2, <1>3, PTL DEF Spec

\* Run and Stream hand the runtime exactly the tree that is registered, when no
\* registry changes on the way: every path of sub-agents within the depth limit,
\* none beyond it, each with its route and its delegate tool; and never a tool list
\* with two tools of one name, whatever changes.
THEOREM AdmissionsSound == Spec => []AdmittedSound
  <1>1. Init => CallInv
    BY FacadeAssumption DEF Init, FacadeInit, CallInv, CallForm, NoCall
  <1>2. CallInv /\ [Next]_vars => CallInv'
    BY PartSteps, AdmissionStep
  <1>3. QED
    BY <1>1, <1>2, AdmittedInv, PTL DEF Spec

\* For every set of options, every order they are given in and every drift
\* of the worker's: a worker with the agent's fingerprint enforces what the
\* agent was built with.
THEOREM WorkersEnforce == Spec => []WorkerEnforces
  <1>1. Init => ConfigInv
    BY ConfigInitial DEF Init
  <1>2. ConfigInv /\ [Next]_vars => ConfigInv'
    <2> SUFFICES ASSUME ConfigInv, [Next]_vars PROVE ConfigInv'
      OBVIOUS
    <2>1. [ConfigNext]_configVars
      BY PartSteps
    <2>. QED
      BY <2>1, ConfigStep
  <1>3. ConfigInv => WorkerEnforces
    BY ConfigInvImplies
  <1>. QED
    BY <1>1, <1>2, <1>3, PTL DEF Spec

\* Options that ask for two runtimes, in whatever order, never make an
\* agent: the one that is built runs where its options said, all of them.
THEOREM OneRuntimeBuilt == Spec => []OneRuntime
  <1>1. Init => RuntimeInv
    <2> SUFFICES ASSUME Init PROVE RuntimeInv
      OBVIOUS
    <2>1. options = agentConfig /\ asked = {} /\ stage = "options" /\ ConfigInit
      BY DEF Init, ConfigInit
    <2>. QED
      BY <2>1, StartConfig, ConfigInitial DEF RuntimeInv, RuntimesAsked
  <1>2. RuntimeInv /\ [Next]_vars => RuntimeInv'
    <2> SUFFICES ASSUME RuntimeInv, [Next]_vars PROVE RuntimeInv'
      OBVIOUS
    <2>1. [ConfigNext]_configVars
      BY PartSteps
    <2>. QED
      BY <2>1, RuntimeStep
  <1>3. RuntimeInv => OneRuntime
    BY DEF RuntimeInv, ConfigInv, BuiltAs, RuntimesAsked, OneRuntime
  <1>. QED
    BY <1>1, <1>2, <1>3, PTL DEF Spec
=============================================================================
