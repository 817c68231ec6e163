------------------------------ MODULE ToolCalls ------------------------------
(***************************************************************************)
(* The tool and retriever operations of the base runtime                   *)
(* (base/runtime.go): AuthorizeTool, ExecuteTool for every kind of tool,   *)
(* with the hook chains of internal/hooks, and ExecuteRetrievers, which    *)
(* searches all retrievers at the same time before the first LLM call.     *)
(*                                                                         *)
(* The calls of one turn run in parallel.  A durable runtime retries the   *)
(* operation of a call whose attempt was lost, with the same run,          *)
(* iteration and call id; the idempotency key made of them is what an      *)
(* external service has to tell a retry from a new call.                   *)
(***************************************************************************)
EXTENDS Naturals, Sequences, FiniteSets, SequencesExt

CONSTANTS
  Retrievers,   \* the configured retrievers, a sequence of distinct names
  StoreOf,      \* function from their names to "pgvector", "weaviate" or "custom"
  Kind,         \* function from the run's tools to their kinds
  Turns,        \* the turns of a run: sequences of calls [name, id]
  MaxAttempts   \* bound: attempts of one call

\* A call of the run: its turn and its position in the turn.
Calls == UNION {{t} \X (1..Len(Turns[t])) : t \in 1..Len(Turns)}
CallAt(c) == Turns[c[1]][c[2]]

VARIABLES
  search,     \* retriever positions -> [step, docs]: the goroutines and results[idx]
  retrieved,  \* what ExecuteRetrievers returned, or Pending
  turn,       \* the turn being executed
  call,       \* Calls -> [step, attempt, failed]: failed is execErr of the tool
  served,     \* the external service: keys it has acted on
  effects,    \* history: Calls -> times the service acted for the call
  tally      \* tool_call_started / _failed / _completed, and attempts lost

callVars == <<search, retrieved, turn, call, served, effects, tally>>

Pending == [none |-> TRUE]
Taken == [taken |-> TRUE]
Searchers == DOMAIN Retrievers
Active(t) == {c \in Calls : c[1] = t}

ToolInit ==
  /\ search = [i \in Searchers |-> [step |-> "before", docs |-> FALSE]]
  /\ retrieved = Pending
  /\ turn = 1
  /\ call = [c \in Calls |-> [step |-> "authorize", attempt |-> 1, failed |-> FALSE]]
  /\ served = {} /\ effects = [c \in Calls |-> 0]
  /\ tally = [started |-> 0, failed |-> 0, completed |-> 0, lost |-> 0]

toolVars == <<turn, call, served, effects, tally>>
searchVars == <<search, retrieved>>

-----------------------------------------------------------------------------
(* Prefetch: one goroutine for each retriever.                              *)

EndSearch(i, step, docs) ==
  search' = [search EXCEPT ![i] = [step |-> step, docs |-> docs]]

\* The before-retrieve hooks: the first error ends this retriever's search.
RunBeforeRetrieve(i) ==
  /\ search[i].step = "before"
  /\ \/ search' = [search EXCEPT ![i].step = "search"]
     \/ EndSearch(i, "failed", FALSE)
  /\ UNCHANGED <<retrieved, toolVars>>

\* External: what the document store answers to a search.
StoreAnswers == {"unreachable", "refused", "malformed", "none", "found"}

NoDocs == [err |-> FALSE, docs |-> FALSE]
Docs == [err |-> FALSE, docs |-> TRUE]
SearchError == [err |-> TRUE, docs |-> FALSE]

\* The rows that were read are lost when one of them cannot be.
scanRows(answer) == CASE answer = "malformed" -> SearchError [] answer = "none" -> NoDocs [] OTHER -> Docs

\* pgvector: the query is embedded, then sent; each failure is the search's.
pgvectorSearch(answer, embedded) ==
  IF ~embedded \/ answer \in {"unreachable", "refused"} THEN SearchError ELSE scanRows(answer)

\* A response without data is no documents: the errors in it are not looked at.
parseDocuments(answer) ==
  CASE answer \in {"refused", "none"} -> NoDocs [] answer = "malformed" -> SearchError [] OTHER -> Docs

weaviateSearch(answer) == IF answer = "unreachable" THEN SearchError ELSE parseDocuments(answer)

SearchOutcomes(store) ==
  CASE store = "pgvector" -> {pgvectorSearch(a, e) : a \in StoreAnswers, e \in BOOLEAN}
    [] store = "weaviate" -> {weaviateSearch(a) : a \in StoreAnswers}
    [] OTHER -> {NoDocs, Docs, SearchError}

\* The search fails, or finds documents or none.
Search(i) ==
  /\ search[i].step = "search"
  /\ \E o \in SearchOutcomes(StoreOf[Retrievers[i]]) :
       IF o.err THEN EndSearch(i, "failed", FALSE) ELSE EndSearch(i, "after", o.docs)
  /\ UNCHANGED <<retrieved, toolVars>>

\* The after-retrieve hooks may drop what was found, or fail.
RunAfterRetrieve(i) ==
  /\ search[i].step = "after"
  /\ \/ EndSearch(i, "failed", FALSE)
     \/ \E kept \in BOOLEAN : EndSearch(i, "ok", search[i].docs /\ kept)
  /\ UNCHANGED <<retrieved, toolVars>>

\* The sections of the prompt: retrievers that failed or found nothing are
\* skipped, the others keep the order of the configuration.
CombineResults ==
  LET hits == SelectSeq([i \in Searchers |-> i], LAMBDA i : search[i].step = "ok" /\ search[i].docs)
  IN [k \in DOMAIN hits |-> Retrievers[hits[k]]]

\* wg.Wait: every goroutine has written its result.  No failure is an error.
ExecuteRetrievers ==
  /\ retrieved = Pending
  /\ \A i \in Searchers : search[i].step \in {"ok", "failed"}
  /\ retrieved' = [context |-> CombineResults, total |-> Len(Retrievers),
                   failed |-> Cardinality({i \in Searchers : search[i].step = "failed"})]
  /\ UNCHANGED <<search, toolVars>>

\* The caller takes the context into its request; the locals are gone.
TakeContext ==
  /\ retrieved \notin {Pending, Taken} /\ retrieved' = Taken
  /\ search' = [i \in Searchers |-> [step |-> "gone", docs |-> FALSE]]
  /\ UNCHANGED toolVars

-----------------------------------------------------------------------------
(* Tool calls.  They start when the prefetch has ended.  The tools are      *)
(* resolved anew for each operation, so a tool may have gone since the      *)
(* model chose it.                                                          *)

KindOf(c) == Kind[CallAt(c).name]
HooksEligible(kind) == kind \in {"native", "mcp"}

At(c, step) == retrieved = Taken /\ c[1] = turn /\ call[c].step = step
Goto(c, step) == call' = [call EXCEPT ![c].step = step]
Count(what) == tally' = [tally EXCEPT ![what] = @ + 1]

\* A tool without an authorizer is allowed; one that is gone is an error, as is
\* a failing authorizer.
AuthorizeTool(c) ==
  /\ At(c, "authorize")
  /\ \E outcome \in {"execute", "denied", "failed"} : Goto(c, outcome)
  /\ UNCHANGED <<turn, served, effects, tally, searchVars>>

\* The before-hooks of native and MCP tools can refuse the call.
RunBeforeTool(c) == HooksEligible(KindOf(c)) /\ Goto(c, "failed") /\ UNCHANGED tally

\* The start of executeTool: the hooks run before the call is counted as
\* started.  A tool that is gone is answered with a message.
executeTool(c) ==
  /\ At(c, "execute")
  /\ \/ Goto(c, "unknown") /\ UNCHANGED tally
     \/ RunBeforeTool(c)
     \/ Goto(c, IF KindOf(c) = "retriever" THEN "retrieve" ELSE "run") /\ Count("started")
  /\ UNCHANGED <<turn, served, effects, searchVars>>

\* A retriever tool: its name, the query, the hooks, the search, the type of
\* its result or the hooks after it may fail; documents are formatted.
executeRetrieverTool(c) ==
  /\ At(c, "retrieve")
  /\ \/ Goto(c, "failed") /\ Count("failed")
     \/ Goto(c, "done") /\ Count("completed")
  /\ UNCHANGED <<turn, served, effects, searchVars>>

\* Mutant: the key is made of the run and the call id.
KeyWithoutIteration(c) == CallAt(c).id

\* Of one run: the iteration and the id the model gave the call.
IdempotencyKey(c) == <<c[1], CallAt(c).id>>

Returns(c, failed) == call' = [call EXCEPT ![c] = [@ EXCEPT !.step = "after", !.failed = failed]]

\* External: a native tool that forwards the key, to a service that acts once
\* for a key, whether or not its answer arrives.
NativeToolExecute(c) ==
  /\ served' = served \cup {IdempotencyKey(c)}
  /\ effects' = IF IdempotencyKey(c) \in served THEN effects ELSE [effects EXCEPT ![c] = @ + 1]
  /\ \E failed \in BOOLEAN : Returns(c, failed)

\* A message to the remote agent, without the key: it acts on every attempt.  A
\* task that failed there is an answer here.
A2AToolExecute(c) ==
  /\ effects' = [effects EXCEPT ![c] = @ + 1] /\ UNCHANGED served
  /\ \E failed \in BOOLEAN : Returns(c, failed)

\* CallTool of the server, without the key.
MCPToolExecute(c) ==
  /\ effects' = [effects EXCEPT ![c] = @ + 1] /\ UNCHANGED served
  /\ \E failed \in BOOLEAN : Returns(c, failed)

\* tool.Execute with the key in its context: it reaches the service, and an
\* answer or an error comes back, or it fails before that.
Execute(c) ==
  /\ At(c, "run")
  /\ \/ KindOf(c) = "native" /\ NativeToolExecute(c)
     \/ KindOf(c) = "a2a" /\ A2AToolExecute(c)
     \/ KindOf(c) = "mcp" /\ MCPToolExecute(c)
     \/ Returns(c, TRUE) /\ UNCHANGED <<served, effects>>
  /\ UNCHANGED <<turn, tally, searchVars>>

\* What the after-hooks and the tool's error come to: a hook may fail, hide
\* the tool's error or replace an answer by an error.
AfterHooks(c) ==
  \/ Goto(c, "failed") /\ Count("failed")
  \/ Goto(c, "done") /\ Count("completed")

\* The end of executeTool; without hooks the tool's error decides.
RunAfterTool(c) ==
  /\ At(c, "after")
  /\ IF HooksEligible(KindOf(c)) THEN AfterHooks(c)
     ELSE IF call[c].failed THEN Goto(c, "failed") /\ Count("failed")
     ELSE Goto(c, "done") /\ Count("completed")
  /\ UNCHANGED <<turn, served, effects, searchVars>>

\* The attempt is lost with its process or its answer; the runtime repeats the
\* operation with the same input.
Retry(c) ==
  /\ \E s \in {"run", "after", "retrieve"} : At(c, s)
  /\ call[c].attempt < MaxAttempts
  /\ call' = [call EXCEPT ![c] = [step |-> "execute", attempt |-> @.attempt + 1, failed |-> FALSE]]
  /\ Count("lost")
  /\ UNCHANGED <<turn, served, effects, searchVars>>

Over(c) == call[c].step \in {"done", "denied", "failed", "unknown"}

\* The next turn begins when every call of this one has returned; the locals of
\* their operations are gone.
NextTurn ==
  /\ retrieved = Taken /\ turn < Len(Turns) /\ \A c \in Active(turn) : Over(c)
  /\ turn' = turn + 1
  /\ call' = [c \in Calls |-> IF c[1] = turn THEN [step |-> "gone", attempt |-> 1, failed |-> FALSE] ELSE call[c]]
  /\ UNCHANGED <<served, effects, tally, searchVars>>

Finished == retrieved = Taken /\ turn = Len(Turns) /\ \A c \in Active(turn) : Over(c)

ToolNext ==
  \/ \E i \in Searchers : RunBeforeRetrieve(i) \/ Search(i) \/ RunAfterRetrieve(i)
  \/ ExecuteRetrievers \/ TakeContext
  \/ \E c \in Calls : \/ AuthorizeTool(c) \/ executeTool(c) \/ executeRetrieverTool(c)
                      \/ Execute(c) \/ RunAfterTool(c) \/ Retry(c)
  \/ NextTurn
  \/ Finished /\ UNCHANGED callVars

ToolSpec == ToolInit /\ [][ToolNext]_callVars

-----------------------------------------------------------------------------
(* Properties.                                                              *)

\* A native tool that forwards its idempotency key acts once for a call,
\* however often the operation was retried, and exactly once when it reported
\* success: neither a retry nor a call of another turn with the same id takes
\* its effect away.  It needs ids that are set and distinct within a turn.
EffectOnce ==
  \A c \in Calls : KindOf(c) = "native" =>
    /\ effects[c] <= 1
    /\ call[c].step \in {"after", "done"} /\ ~call[c].failed => effects[c] = 1

=============================================================================
