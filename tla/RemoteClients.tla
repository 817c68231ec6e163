---------------------------- MODULE RemoteClients ----------------------------
(***************************************************************************)
(* The clients through which an agent reaches MCP servers                  *)
(* (pkg/mcp/client/client.go) and A2A peers (pkg/a2a/client/client.go).    *)
(* The tool calls of a parallel batch, the listings of other runs and      *)
(* Close use one client at the same time.                                  *)
(*                                                                         *)
(* The MCP client opens a session for each attempt of an operation and     *)
(* holds its mutex from the first attempt to the last; the A2A client      *)
(* makes one inner client, outside its lock, when the first caller needs   *)
(* it, and throws away what it made when another caller was faster.        *)
(***************************************************************************)
EXTENDS Naturals, Sequences, FiniteSets

CONSTANTS
  Callers,       \* goroutines that use the client
  Pages,         \* the server's tools, a sequence of pages (sequences of names)
  Allow,         \* AllowTools of the filter; {} is no filter
  Block,         \* BlockTools of the filter
  RetryAttempts, \* attempts of an MCP operation
  MaxInner       \* bound: inner A2A clients made

\* The name for "no caller" is none of the callers.
ASSUME CallersAssumption == "nobody" \notin Callers

VARIABLES
  client,     \* "mcp" or "a2a": which client the callers share
  open,       \* the client was not closed
  mutex,      \* who holds Client.mu of the MCP client, or Nobody
  sessions,   \* sessions open at the MCP server, by caller
  user,       \* Callers -> the operation of the caller
  inner,      \* the A2A client's inner, or NoInner
  live,       \* inner clients connected and not destroyed
  made,       \* inner clients made so far
  card        \* the A2A client has a card

remoteVars == <<client, open, mutex, sessions, user, inner, live, made, card>>

Nobody == "nobody"
NoInner == 0
Ready == [step |-> "ready"]

RemoteInit ==
  /\ client \in {"mcp", "a2a"} /\ open = TRUE
  /\ mutex = Nobody /\ sessions = {}
  /\ user = [c \in Callers |-> Ready]
  /\ inner = NoInner /\ live = {} /\ made = 0 /\ card = FALSE

Set(c, u) == user' = [user EXCEPT ![c] = u]
Step(c, step) == user' = [user EXCEPT ![c].step = step]
mcpVars == <<mutex, sessions>>
a2aVars == <<inner, live, made, card>>

-----------------------------------------------------------------------------
(* MCP.                                                                     *)

\* Ping, ListTools or CallTool (whose arguments were decoded) reaches withSession.
BeginMCP(c, do) ==
  /\ client = "mcp" /\ user[c] = Ready
  /\ Set(c, [step |-> "lock", op |-> do, attempt |-> 1, page |-> 1, out |-> <<>>, result |-> ""])
  /\ UNCHANGED <<client, open, mcpVars, a2aVars>>

Returned(c, r) == Set(c, [user[c] EXCEPT !.step = "returned", !.result = r])

\* The mutex is taken, then a closed client refuses.
withSession(c) ==
  /\ user[c].step = "lock" /\ mutex = Nobody
  /\ IF open THEN mutex' = c /\ Step(c, "connect") ELSE Returned(c, "error") /\ UNCHANGED mutex
  /\ UNCHANGED <<client, open, sessions, a2aVars>>

\* A failed attempt: the last one ends the operation, after the others it waits.
FailedAttempt(c) ==
  IF user[c].attempt = RetryAttempts
  THEN Returned(c, "error") /\ mutex' = Nobody
  ELSE Step(c, "backoff") /\ UNCHANGED mutex

Connect(c) ==
  /\ user[c].step = "connect"
  /\ \/ Step(c, "rpc") /\ sessions' = sessions \cup {c} /\ UNCHANGED mutex
     \/ FailedAttempt(c) /\ UNCHANGED sessions
  /\ UNCHANGED <<client, open, a2aVars>>

\* The exact names of the filter, applied once to the whole listing.
Apply(names) ==
  SelectSeq(names, LAMBDA n : IF Allow # {} THEN n \in Allow ELSE n \notin Block)

\* sess.Close after fn, whatever fn returned.
CloseSession(c, ok) == sessions \ {c}

Unlock(c, r) == Returned(c, r) /\ mutex' = Nobody

\* Ping and CallTool: one request.
Request(c) ==
  /\ user[c].step = "rpc" /\ user[c].op \in {"ping", "call"}
  /\ \/ Unlock(c, "ok") /\ sessions' = CloseSession(c, TRUE)
     \/ FailedAttempt(c) /\ sessions' = CloseSession(c, FALSE)
  /\ UNCHANGED <<client, open, a2aVars>>

\* ListTools: one page.  What was listed stays in out when the attempt fails,
\* and the next attempt starts at the first page.
ListTools(c) ==
  LET u == user[c] out == user[c].out \o Pages[user[c].page]
  IN /\ u.step = "rpc" /\ u.op = "list"
     /\ \/ u.page < Len(Pages) /\ Set(c, [u EXCEPT !.out = out, !.page = @ + 1]) /\ UNCHANGED mcpVars
        \/ /\ u.page = Len(Pages)
           /\ Set(c, [u EXCEPT !.out = Apply(out), !.step = "returned", !.result = "ok"])
           /\ mutex' = Nobody /\ sessions' = CloseSession(c, TRUE)
        \/ FailedAttempt(c) /\ sessions' = CloseSession(c, FALSE)
     /\ UNCHANGED <<client, open, a2aVars>>

\* The back-off ends, or the caller's context does.
waitMCPRetry(c) ==
  /\ user[c].step = "backoff"
  /\ \/ Set(c, [user[c] EXCEPT !.step = "connect", !.attempt = @ + 1, !.page = 1]) /\ UNCHANGED mutex
     \/ Unlock(c, "error")
  /\ UNCHANGED <<client, open, sessions, a2aVars>>

\* Close takes the mutex: it waits for the operation in progress.
CloseMCP ==
  /\ client = "mcp" /\ open /\ mutex = Nobody
  /\ open' = FALSE
  /\ UNCHANGED <<client, mcpVars, user, a2aVars>>

-----------------------------------------------------------------------------
(* A2A.                                                                     *)

Closed(c) == Set(c, [step |-> "returned", result |-> "error"])

\* Ping, ResolveCard and ListSkills only ask whether the client is closed.
checkClosed(c, do) ==
  /\ client = "a2a" /\ user[c] = Ready
  /\ IF open THEN Set(c, [step |-> "card", op |-> do]) ELSE Closed(c)
  /\ UNCHANGED <<client, open, mcpVars, a2aVars>>

\* Ping: the card is fetched and dropped.
PingA2A(c) ==
  /\ user[c].step = "card" /\ user[c].op = "ping"
  /\ \E r \in {"ok", "error"} : Set(c, [step |-> "returned", result |-> r])
  /\ UNCHANGED <<client, open, mcpVars, a2aVars>>

\* ResolveCard: fetched without the lock and kept, in a client closed meanwhile too.
ResolveCard(c) ==
  /\ user[c].step = "card" /\ user[c].op = "resolve"
  /\ \/ Closed(c) /\ UNCHANGED card
     \/ Set(c, [step |-> "returned", result |-> "ok"]) /\ card' = TRUE
  /\ UNCHANGED <<client, open, mcpVars, inner, live, made>>

\* SendMessage, SendStreamingMessage, GetTask and CancelTask ask for the inner
\* client: closed, there already, or to be made.
getInner(c, do) ==
  /\ client = "a2a" /\ user[c] = Ready
  /\ IF ~open THEN Closed(c)
     ELSE Set(c, IF inner # NoInner THEN [step |-> "use", got |-> inner, op |-> do] ELSE [step |-> "resolve", op |-> do])
  /\ UNCHANGED <<client, open, mcpVars, a2aVars>>

\* The card is resolved, whether there is one or not, and the connection made,
\* without the lock.
NewFromCard(c) ==
  /\ user[c].step = "resolve" /\ made < MaxInner
  /\ \/ /\ Set(c, [step |-> "publish", mine |-> made + 1, op |-> user[c].op])
        /\ made' = made + 1 /\ live' = live \cup {made + 1}
     \/ Closed(c) /\ UNCHANGED <<made, live>>
  /\ UNCHANGED <<client, open, inner, card, mcpVars>>

Use(c, i) == Set(c, [step |-> "use", got |-> i, op |-> user[c].op])

\* Mutant: whoever is late keeps what it made.
KeepExtra(c) ==
  /\ user[c].step = "publish"
  /\ IF ~open THEN Closed(c) /\ live' = live \ {user[c].mine} /\ UNCHANGED <<inner, card>>
     ELSE /\ Use(c, user[c].mine) /\ UNCHANGED live
          /\ inner' = (IF inner = NoInner THEN user[c].mine ELSE inner) /\ card' = TRUE
  /\ UNCHANGED <<client, open, made, mcpVars>>

\* The lock again: a closed client and a client somebody else has set in the
\* meantime mean that this one is destroyed.
publishInner(c) ==
  /\ user[c].step = "publish"
  /\ \/ ~open /\ Closed(c) /\ live' = live \ {user[c].mine} /\ UNCHANGED <<inner, card>>
     \/ open /\ inner # NoInner /\ Use(c, inner)
        /\ live' = live \ {user[c].mine} /\ UNCHANGED <<inner, card>>
     \/ open /\ inner = NoInner /\ Use(c, user[c].mine)
        /\ inner' = user[c].mine /\ card' = TRUE /\ UNCHANGED live
  /\ UNCHANGED <<client, open, made, mcpVars>>

\* One request on the inner client; one that Close destroyed fails it.
Requested(c, do) ==
  /\ user[c].step = "use" /\ user[c].op = do
  /\ \E r \in {"ok", "error"} : (r = "ok" => user[c].got \in live) /\ Set(c, [step |-> "returned", result |-> r])
  /\ UNCHANGED <<client, open, mcpVars, a2aVars>>

SendMessage(c) == Requested(c, "send")
GetTask(c) == Requested(c, "task")
CancelTask(c) == Requested(c, "cancel")

\* The iterator is returned before the request is made; it yields events until
\* the stream ends or fails or its reader has enough.
SendStreamingMessage(c) ==
  /\ user[c].step = "use" /\ user[c].op = "stream"
  /\ \/ user[c].got \in live /\ Step(c, "use")
     \/ \E r \in {"ok", "error"} : (r = "ok" => user[c].got \in live) /\ Set(c, [step |-> "returned", result |-> r])
  /\ UNCHANGED <<client, open, mcpVars, a2aVars>>

\* Close marks the client closed and destroys the inner one.
CloseA2A ==
  /\ client = "a2a" /\ open
  /\ open' = FALSE /\ inner' = NoInner /\ live' = live \ {inner} /\ card' = FALSE
  /\ UNCHANGED <<client, user, made, mcpVars>>

-----------------------------------------------------------------------------
\* A caller that has its answer may call again.
Again(c) == user[c].step = "returned" /\ Set(c, Ready) /\ UNCHANGED <<client, open, mcpVars, a2aVars>>

RemoteNext ==
  \/ \E c \in Callers : \/ \E do \in {"ping", "list", "call"} : BeginMCP(c, do)
                        \/ withSession(c) \/ Connect(c) \/ Request(c) \/ ListTools(c) \/ waitMCPRetry(c)
                        \/ \E do \in {"ping", "resolve"} : checkClosed(c, do)
                        \/ PingA2A(c) \/ ResolveCard(c)
                        \/ \E do \in {"send", "stream", "task", "cancel"} : getInner(c, do)
                        \/ NewFromCard(c) \/ publishInner(c)
                        \/ SendMessage(c) \/ GetTask(c) \/ CancelTask(c) \/ SendStreamingMessage(c)
                        \/ Again(c)
  \/ CloseMCP \/ CloseA2A

RemoteSpec == RemoteInit /\ [][RemoteNext]_remoteVars

-----------------------------------------------------------------------------
(* Properties.                                                              *)

\* Every connected inner client is the one that is shared or still in the
\* hands of the caller that made it, so none is left behind by a lost race or
\* by Close; and while the client is open everybody who got one got the shared one.
ConnectionsOwned ==
  /\ live \subseteq {inner} \cup {user[c].mine : c \in {d \in Callers : user[d].step = "publish"}}
  /\ open => \A c \in Callers : user[c].step = "use" => user[c].got = inner
=============================================================================
