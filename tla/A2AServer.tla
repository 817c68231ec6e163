------------------------------ MODULE A2AServer ------------------------------
(***************************************************************************)
(* The A2A server of an agent (pkg/agent/a2a_server.go): its life, the     *)
(* check of bearer tokens, the agent card, and the executor that turns an  *)
(* agent run, or the events of an agent stream, into A2A task events.      *)
(*                                                                         *)
(* The protocol library (a2asrv, net/http) is external: it pulls the       *)
(* executor's events one by one and may stop pulling at any of them.  The  *)
(* executor runs under a context of its own: it goes on when the request's *)
(* HTTP handler has returned, and is cut when the process exits.           *)
(* Cancel answers with one event and touches neither the run nor its       *)
(* events, so it is no action.  The k-th text delta of a run is k.  The    *)
(* events are also shown as an SDK client of the server sees them          *)
(* (pkg/a2a/client/convert.go).                                            *)
(***************************************************************************)
EXTENDS Naturals, Sequences, FiniteSets

CONSTANTS
  Requests,    \* inbound SendMessage calls
  Tokens,      \* BearerTokens; {} is no authentication
  Presented,   \* what a request may present as its bearer token; "none" is no header
  AgentTools,  \* outcomes of resolveTools: sequences of [name, kind]; <<>> when it fails
  CardSkills,  \* Skills of the configured AgentCard, a sequence; <<>> is none
  MaxDeltas    \* bound: text deltas of one run

VARIABLES
  server,      \* "down", "serving", "stopping", "broken"; RunA2A returned: "stopped", "failed", "exited"
  streams,     \* LLMClient.IsStreamSupported
  request,     \* Requests -> [step, deltas, artifact, reader, conn]; conn: its HTTP handler runs
  yielded,     \* Requests -> the task events the library was given
  skills       \* the skills on the last card served

serverVars == <<server, streams, request, yielded, skills>>

Arriving == [step |-> "new", deltas |-> 0, artifact |-> FALSE, reader |-> TRUE, conn |-> FALSE]

ServerInit ==
  /\ server = "down" /\ streams \in BOOLEAN
  /\ request = [r \in Requests |-> Arriving]
  /\ yielded = [r \in Requests |-> <<>>]
  /\ skills = <<>>

InFlight == {r \in Requests : request[r].step \notin {"new", "refused", "ended", "lost"}}

\* The requests net/http waits for: the handler has not returned.
Open == {r \in InFlight : request[r].conn}

\* RunA2A: the listener comes up, or fails and RunA2A returns its error.
RunA2A ==
  /\ server = "down"
  /\ \E s \in {"serving", "failed"} : server' = s
  /\ UNCHANGED <<streams, request, yielded, skills>>

\* Serve ends with an error: RunA2A returns it and closes nothing.
ServeFails ==
  /\ server = "serving" /\ server' = "broken"
  /\ UNCHANGED <<streams, request, yielded, skills>>

\* The context ends: the listener is closed, Shutdown waits.
ShutdownBegins ==
  /\ server = "serving" /\ server' = "stopping"
  /\ UNCHANGED <<streams, request, yielded, skills>>

\* No handler runs; closing the listener may have failed.
Shutdown ==
  /\ server = "stopping" /\ Open = {}
  /\ \E s \in {"stopped", "failed"} : server' = s
  /\ UNCHANGED <<streams, request, yielded, skills>>

\* RunA2A has returned and the process exits: the executors are cut.
Exit ==
  /\ server \in {"stopped", "failed", "broken"} /\ server' = "exited"
  /\ request' = [r \in Requests |-> IF r \in InFlight THEN [request[r] EXCEPT !.step = "lost"] ELSE request[r]]
  /\ UNCHANGED <<streams, yielded, skills>>

-----------------------------------------------------------------------------
(* The card.                                                                *)

\* A skill for each tool that has a name; that of an A2A tool is the peer's.
deriveSDKSkills(tools) ==
  SelectSeq(tools, LAMBDA t : t.name # "")

\* The configured skills go before the derived ones.
buildSDKAgentCard(tools) == IF CardSkills # <<>> THEN CardSkills ELSE deriveSDKSkills(tools)

\* CardJSON, for every GET of the card.
CardJSON ==
  /\ server = "serving"
  /\ \E tools \in AgentTools : skills' = buildSDKAgentCard(tools)
  /\ UNCHANGED <<server, streams, request, yielded>>

-----------------------------------------------------------------------------
(* A request.                                                               *)

\* A request arrives, on a connection made while the listener was open.
Accept(r) ==
  /\ server \in {"serving", "stopping", "broken"} /\ request[r].step = "new"
  /\ request' = [request EXCEPT ![r].step = "accepted", ![r].conn = TRUE]
  /\ UNCHANGED <<server, streams, yielded, skills>>

\* The handler returns before the executor ends: the client has hung up, or asked
\* not to wait.  a2aJSONRPCDetachInboundCancel: that cancels nothing.
HangUp(r) ==
  /\ r \in Open /\ request[r].step # "accepted"
  /\ request' = [request EXCEPT ![r].conn = FALSE]
  /\ UNCHANGED <<server, streams, yielded, skills>>

\* The interceptor's Before: one of the tokens, or no authentication.
Authenticated(token) == Tokens = {} \/ token \in Tokens

Before(r) ==
  /\ request[r].step = "accepted"
  /\ \E token \in Presented :
       request' = [request EXCEPT ![r].step = IF ~Authenticated(token) THEN "refused"
                                              ELSE IF streams THEN "submit" ELSE "run"]
  /\ UNCHANGED <<server, streams, yielded, skills>>

\* yield: the library takes the event, and may say that it wants no more.
Yield(r, e, step) ==
  /\ yielded' = [yielded EXCEPT ![r] = Append(@, e)]
  /\ \/ request' = [request EXCEPT ![r].step = step]
     \/ request' = [request EXCEPT ![r].step = "ended", ![r].reader = FALSE]

Status(s) == [kind |-> "status", state |-> s]
Artifact(new, k) == [kind |-> "artifact", new |-> new, delta |-> k]

\* Without streaming: one Run and its Get, one message or a failure.
ExecuteRun(r) ==
  /\ request[r].step = "run"
  /\ \E e \in {[kind |-> "message"], Status("failed")} : Yield(r, e, "ended")
  /\ UNCHANGED <<server, streams, skills>>

Submit(r) ==
  /\ request[r].step = "submit" /\ Yield(r, [kind |-> "task"], "work")
  /\ UNCHANGED <<server, streams, skills>>

Work(r) ==
  /\ request[r].step = "work" /\ Yield(r, Status("working"), "start")
  /\ UNCHANGED <<server, streams, skills>>

\* Stream and Events: either may fail.
StartStream(r) ==
  /\ request[r].step = "start"
  /\ \/ request' = [request EXCEPT ![r].step = "events"] /\ UNCHANGED yielded
     \/ Yield(r, Status("failed"), "ended")
  /\ UNCHANGED <<server, streams, skills>>

FirstDelta(r) == ~request[r].artifact

\* A text delta: the first makes the artifact, the others append to it.  Empty
\* deltas and other events are skipped.
TextDelta(r) ==
  LET k == request[r].deltas + 1
      next == [request[r] EXCEPT !.deltas = k, !.artifact = TRUE]
  IN /\ request[r].step = "events" /\ k <= MaxDeltas
     /\ yielded' = [yielded EXCEPT ![r] = Append(@, Artifact(FirstDelta(r), k))]
     /\ \/ request' = [request EXCEPT ![r] = next]
        \/ request' = [request EXCEPT ![r] = [next EXCEPT !.step = "ended", !.reader = FALSE]]
     /\ UNCHANGED <<server, streams, skills>>

\* Mutant: the loop goes on to the end of the channel after RUN_FINISHED.
FinishedGoesOn(r) == Yield(r, Status("completed"), "events")

\* RUN_FINISHED ends the task as completed.
Finished(r) == Yield(r, Status("completed"), "ended")

\* RUN_ERROR ends it as failed; a channel that closes is taken for completed.
StreamEnd(r) ==
  /\ request[r].step = "events"
  /\ \/ Finished(r)
     \/ \E s \in {"failed", "completed"} : Yield(r, Status(s), "ended")
  /\ UNCHANGED <<server, streams, skills>>

ServerNext ==
  \/ RunA2A \/ ServeFails \/ ShutdownBegins \/ Shutdown \/ Exit \/ CardJSON
  \/ \E r \in Requests : \/ Accept(r) \/ HangUp(r) \/ Before(r) \/ ExecuteRun(r) \/ Submit(r) \/ Work(r)
                         \/ StartStream(r) \/ TextDelta(r) \/ StreamEnd(r)

ServerSpec == ServerInit /\ [][ServerNext]_serverVars

-----------------------------------------------------------------------------
(* What an SDK client makes of the events.                                  *)

\* The states keep their names; others are unknown.
fromSDKTaskState(s) ==
  IF s \in {"submitted", "working", "input-required", "completed", "canceled", "failed", "rejected", "auth-required"}
  THEN s ELSE "unknown"

\* External: TaskState.Terminal of the protocol library.
TerminalState(s) == s \in {"completed", "canceled", "failed", "rejected"}

\* A task and a status are a task status, final when the state is terminal; a
\* message is never final; an artifact is when it is its last chunk, which this
\* server does not set.
fromSDKEvent(e) ==
  CASE e.kind = "message" -> [kind |-> "message", final |-> FALSE, status |-> ""]
    [] e.kind = "task" -> [kind |-> "taskStatus", final |-> TerminalState("submitted"), status |-> fromSDKTaskState("submitted")]
    [] e.kind = "status" -> [kind |-> "taskStatus", final |-> TerminalState(e.state), status |-> fromSDKTaskState(e.state)]
    [] e.kind = "artifact" -> [kind |-> "artifact", final |-> FALSE, status |-> ""]

\* The iterator yields the converted events in order.
ClientSees(r) == [i \in DOMAIN yielded[r] |-> fromSDKEvent(yielded[r][i])]

-----------------------------------------------------------------------------
(* Properties.                                                              *)

Terminal(e) == e.kind = "message" \/ (e.kind = "status" /\ e.state \in {"completed", "failed"})

\* The artifact events of a request among the first i.
Artifacts(r, i) == {j \in 1..i : yielded[r][j].kind = "artifact"}

\* A request has at most one terminal event, the last, and one whose executor ran to
\* its end with a reader has it.  The deltas are one artifact, made by the first and in the
\* run's order.  A client that reads until IsFinal reads all.  When RunA2A returns
\* nil, a request whose client has waited has its end: only one whose handler had
\* returned can be cut by the exit of the process.
TaskEndsOnce ==
  \A r \in Requests :
    LET ev == yielded[r]
    IN /\ \A i \in DOMAIN ev : ClientSees(r)[i].final => i = Len(ev)
       /\ \A i \in DOMAIN ev : Terminal(ev[i]) => i = Len(ev)
       /\ request[r].step = "ended" /\ request[r].reader => ev # <<>> /\ Terminal(ev[Len(ev)])
       /\ \A i \in DOMAIN ev : ev[i].kind = "artifact" =>
            ev[i].delta = Cardinality(Artifacts(r, i)) /\ (ev[i].new <=> ev[i].delta = 1)
       /\ server = "stopped" /\ request[r].conn => request[r].step \in {"refused", "ended"}
=============================================================================
