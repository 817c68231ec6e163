# A TLA+ model of agent-sdk-go

agent-sdk-go runs LLM agents: a loop of model calls and tool calls, with
budgets, human approvals, sub-agents, conversation memory and event streams, on
one of three runtimes (in-process, Temporal, Restate). This directory models the
parts of the SDK whose correctness depends on interleaving, failure, replay or
counting, checks them with TLC on small instances and proves most of the safety
properties, for the three runtimes, with TLAPS for every instance.

Paths below are relative to the repository root; `local/`, `temporal/`,
`restate/` and `base/` stand for `internal/runtime/<name>/`.

## 1. Inventory

| Part | State | Operations | Interacts with | What is hard | What makes it correct |
|---|---|---|---|---|---|
| Budget tracker (`base/budget.go`) | tokens, cost, watermark, approvals granted | `Add`, `checkLimits`, `AdvanceWatermark`, `ApprovalsExhausted`, `RestoreState` | shared by a root loop and all its concurrent sub-agents | breaches of several loops at once; windows after an approval; `>=` at the limit | no progress over budget, bounded total spend |
| Budget enforcement (`local/agent_loop.go` `checkBudget`, `enforceBudgetIfExceeded`, `applyBudgetExceeded`) | control state of the root and of each sub-agent | enforce after an LLM call, after the forced call, after a tool batch; wait for an approval | tracker, approval handler or event channel | a sub-agent only reports a breach; retries of a stopped sub-agent; cancel during the wait | as above, and every run ends |
| Event bus (`internal/eventbus/inmem.go`) and forwarder (`local/runtime.go` `subscribeToAgentEvents`) | subscriber lists, buffered channels, an RWMutex | `Publish`, `Subscribe`, unsubscribe, `Close` | loops publish, stream handles subscribe | send on a closed channel; lock held across a blocking send; writer preference | no panic, order, no gaps, drained before the end |
| Agent loop (`local/agent_loop.go`, `base/error_control.go`) | iteration counters, transcript, fallback flag, count of saved messages | LLM call, fallback, extension, forced call, tool batch, save | model, tools, authorizer, approver, conversation store, budget | error returns in the middle of a batch, one failing save | transcripts a model accepts, no loss or repetition in the store, bounded calls |
| Tool circuit breaker (`base/circuit_breaker.go`) | per tool: hash of the last failing arguments, streak, window of hashes, time of the trip | `IsTripped`, `RecordFailure`, `RecordSuccess`, `Restore` | every tool batch | sharing, time, what counts as a failure | a tripped tool stays skipped |
| Tool approvals (`local/agent_loop.go`, `local/runtime.go` `approve`, `internal/types/approval.go`) | pending tokens, result channel of each wait | register, notify, respond, approve by token, time out | approval handler, stream handle, sub-agent runtimes | second answer, late answer, answer racing the timer, token known to another runtime | one outcome per token, nobody blocked |
| Local runs and durable execution (`local/runtime.go`, `run_handle.go`, `stream_handle.go`, `durable_engine.go`) | driver map, handle status, done channel; recorded steps and task record | `Run`, `Stream`, `Get*Handle`, `Cancel`, `Get`; durable step, resume | external durable engine, event bus | cancel racing completion, reattachment, crash between a step and its record | one end, reported by all handles; resume uses recorded results |
| Temporal workflow (`temporal/agent_workflow.go`) | state record carried over continue-as-new, transcript, tool calls at work | loop over activities, approvals, sub-agents, save, continue-as-new | Temporal server, base operations | what the next execution does not know; retried activities | budget, breaker, fallback, transcript survive; the run ends |
| Temporal handles (`temporal/runtime.go`, `run_handle.go`, `stream_handle.go`) | handle, driver, approval feed, reader with offset | start, drive, stop, reconnect, approve, read | Temporal server, event stream | lost worker, failed RPC, crash, retries in the stream | result agrees with the workflow, reconnect loses nothing, stop stops |
| Restate loop (`restate/agent_loop.go`, `subagent.go`) | journal, awakeables | agent handler, approvals, budget, sub-agent call | Restate server | replay must ask for what the journal has | deterministic replay, events once, spend granted |
| Restate handles (`restate/ingress.go`, `run_handle.go`, `stream_handle.go`, `event_log.go`, `server.go`) | event-log object, handle, reader offset, cancel-once | send, lookup, attach, cancel, pull, subscribe, clear | Restate server | lost answers, lost wake-ups, offsets, end of the stream | contract of handles, every event of the handler read, readers end |
| LLM requests and answers (`base/runtime.go`, `pkg/llm`) | request, chunks, open text and reasoning messages | build, convert, send, read chunks, finish | providers, hooks | chunk orders, errors mid-stream, vendor rules for tool results | what is shown is the result; the exchange is kept |
| Long-term memory and retrievers (`base/memory.go`, `pkg/memory`, `pkg/retriever`) | external stores | recall, store, dedup, extraction, search | agent loop, save_memory tool | look-up and write are two requests; scopes | own memories kept, prompts isolated |
| Tool execution (`base/runtime.go`, `internal/hooks`) | attempt, idempotency key | authorize, execute, hooks | tools, MCP, A2A | lost attempts | one effect per call |
| Conversation stores (`pkg/conversation`) | messages of each conversation | `AddMessage`, `ListMessages`, `Clear` | agent loop | trimming with a stale length, several writers | the window is the newest messages |
| Agent facade (`pkg/agent`) | configuration, registries, table of live handles | options, `NewAgent`, worker, `Run`, `Stream`, `Get*`, registry changes | runtimes | option order, configuration drift, registries changing during admission | worker enforces the agent's limits, admitted runs are sound, table drains |
| MCP and A2A clients, A2A server (`pkg/mcp`, `pkg/a2a`, `pkg/agent/a2a_server.go`) | session, lazy inner client; tasks | connect, list, call, close; card, execute, shutdown | tools, remote agents | creation racing `Close`, streams that just end | connections owned, a task ends once |
| Events and types (`internal/events`, `internal/types`) | none | data types, constructors | everything | - | - |
| Built-in tools, logging, telemetry export (`pkg/tools`, `pkg/logger`, `pkg/observability`) | clients of services | one request each | agent loop | I/O | - |
| CLI, benchmarks, eval harness, examples | - | applications of the SDK | - | - | - |

Interaction in one paragraph: `agent.Run`/`Stream` resolves tools and sub-agents
from the registries and hands a request to a runtime. The local runtime registers
a driver goroutine that runs `executeAgentLoop`. The loop loads history from the
conversation store, calls the model, runs the tool calls of a response in parallel
goroutines (a delegation runs the loop of a nested runtime with the parent's
budget tracker, circuit breaker and event channel), appends the results in call
order, enforces the budget, and saves. Everything it does is published on the
event bus on the run's channel; stream handles subscribe and a forwarder goroutine
hands typed events to the caller. Approvals leave the loop as a handler call or an
event with a token and come back through `Respond` or `StreamHandle.Approve`.
Temporal and Restate repeat this orchestration inside their own engines, with the
base operations as activities or journaled steps.

## 2. Plan

In the order of what depends on what; everything here is written and checked.

1. `BudgetTracker`, `RunBudget`; `EventBus`; `ToolApproval`; `LocalServices_proofs`
2. `AgentLoop`; `AgentLoop_proofs`
3. `RunContract`, what handles promise; `LocalRuns`, which implements it, with durable steps, crash and resume; `LocalRuns_proofs`
4. `ToolBreaker`; `TemporalWorkflow` over it and the tracker, `TemporalWorkflow_proofs`; `TemporalRuns`, `TemporalRuns_proofs`
5. `RestateLoop` over breaker and tracker; `RestateRuns`, which implements `RunContract`; `Restate_proofs`
6. `AgentConfig`, `AgentFacade`, `RemoteClients`, `A2AServer`, composed by `AgentEdge`; `AgentEdge_proofs`
7. `LLMRequests`, `LLMCalls`, `AgentMemory`, `ToolCalls`, `RedisConversation`, composed by `BaseOperations`; `BaseOperations_proofs`

`RunBudget` and `AgentLoop` are two views of the same loop: the first keeps the
budget and lets every other decision be free, the second keeps the transcript and
lets the budget's decision be free. In the same way `TemporalRuns` and
`RestateRuns` see from outside, as a status and a log, what `TemporalWorkflow` and
`RestateLoop` do inside.

Every safety property a passing run checks is also proved, in a few cases under the
hypotheses that section 5 names; it says how far the provers go.

## 3. Modules and the code

`PROJECT.json` "map" has the source lines of every definition.

### BudgetTracker, RunBudget

`BudgetTracker` holds operators on a tracker value, one per method of
`base/budget.go`. Costs are integers (micro-units); a rate may round to 0.
`RunBudget` is one run tree. `root` is the control state of the root's
`executeAgentLoop`, `child[c]` that of the nested loop of sub-agent `c`; `attempt`
counts the attempts of `executeWithPolicy`, `over` remembers which attempts of the
batch stopped with `ErrBudgetExceeded`. `RootLLM`, `RootFinalLLM` and
`ToolsReturned` are the three places where the root enforces; `ChildLLM` is the
place where a sub-agent only reports. `BudgetApproved`, `BudgetDenied` and
`AwaitInterrupted` are the ends of `awaitBudgetApprovalStatus`.

### EventBus

One action per blocking point of `Publish`, `Subscribe`, the unsubscribe closure,
`Close` and the forwarder. `rw` is the `sync.RWMutex`, external and modelled from
its documented behaviour: a pending `Lock` stops new `RLock`s, `Unlock` lets the
waiting readers in. `chan[s]` is the 64-slot channel of a subscriber, `fwd[s]` the
forwarder's event in hand and its own 64-slot channel. A message is
`<<publisher, number>>`.

### AgentLoop

One run per member of `Runs`, all on one conversation `conv`. A message is the
place it has in the transcript: its run, iteration, role, and the number of its
calls or its index. `LLMFails`/`LLMReturns`/`FinalLLMReturns` are one
`invokeLLMWithErrorControl` with its retries, `ToolStart`, `ToolAuthorize`,
`ToolApproval`, `ToolExecute` the waits of one `executeSingleTool`,
`CollectResults` what the loop does after the batch, `SaveMessage` one
`AddMessage`. The circuit breaker is the choice of `ToolStart` to end at once. A
session with `Concurrent = FALSE` starts a run when the one before is over.

### ToolApproval

A request is one approval that a tool call, a delegation or a budget pause asks
for. `wait[c]` is where its goroutine stands: in the inline handler call, in the
`select`, or with the deferred `Delete` before it. `pending[rt]` is
`pendingApprovals` of a runtime, `ch[c]` the one-slot `resultCh`. `Respond` is the
closure a handler is given (it sends and never looks at the token), `ApproveCall`
is `StreamHandle.Approve`, whose `LoadAndDelete` is on the root agent's runtime,
`Send` the channel send of both, which blocks when the slot is full; only
`Respond` of a budget request drops instead. `RespondsOnce` says that handlers
call `Respond` at most once, which the SDK does not enforce.

### RunContract, LocalRuns

`RunContract` states what `internal/runtime/runtime.go` promises of handles: a run
begins once and ends once; a handle reports that end, or that its own context
ended, once. `LocalRuns` is one run with several handles. `disk` and `step` are
what the durable engine (external) wrote, `exec` the task body, `driver` the entry
of `liveDrivers`. The loop is a script of four steps: a model call, the approval of
its tool call, the tool, the call that answers; `CallStep` and `RecordStep` are
apart because a crash comes between them. Without durability the same loop runs
with no record, and nobody can reattach.

### ToolBreaker, TemporalWorkflow, TemporalRuns

`TemporalWorkflow` is the workflow function over a chain of executions: `state` is
the `AgentWorkflowState` that continue-as-new carries (`Carried`, `Restore`),
everything else is lost. All replies of an execution are decoded into one variable, so
a reply without usage is charged with the usage that is there (`ReplyCharged`). An LLM
call is shown the last `ConversationSize` messages of the store and what is not saved
yet (`Request`). `MaxCallTokens` is the most one report (of an LLM call or of
a child) can add to the tracker: the report that uses up a window overruns it by at
most one token less than that. Activities have attempts that may die after they acted. A
sub-agent is a child that returns or fails. `TemporalRuns` has the handle with its
driver and waiter (`awaitCompletion`), the approval feed of `Run`, the reader of
`Stream` with its saved offset, and a server with a status, a log, open and pending
approvals. `MaxFaults` bounds crashes, failed calls, lost or redeployed workers and
cut subscriptions.

### RestateLoop, RestateRuns

In `RestateLoop` the handler is the plan of the operations it still has to do
(`loc.plan`); an operation reads the next journal entry or writes one. An attempt
that dies starts over with `pos = 0`; a report is of up to `MaxCallTokens`, and a window
is overrun as in the Temporal workflow. `RestateRuns` has the ingress with its
retries, the handles (`Attach` once, cancel once), the event-log object (`Publish`,
`Pull` with a wait, `Subscribe`, `Clear`), the reader with its peeks after the end,
and the approval driver of `Run`. The caller of a reader may leave (`CallerLeaves`):
while the run goes on the reader stops at some event; while the last events are drained
it drops those for which the buffer has no room and still ends with the terminal one.
An application that stays is taken to read its channel, and the goroutine that closes
`runDoneCh` to be quick.

### AgentEdge: AgentConfig, AgentFacade, RemoteClients, A2AServer

`AgentConfig` applies options in any order, validates, fills in defaults, registers
tools in a registry that outlives a refused build, and compares fingerprints with a
worker whose options may differ by one. A budget has its limits in tokens and dollars,
the prices, what an approval adds and the number of approvals; `checkLimits` asks the
tracker built from it whether a spend of `Spends` stops a run. `AgentFacade` reads one registry per step
of an admission while others change them, and has the table of live handles.
`RemoteClients` is the MCP client (one session per attempt under the mutex) and the
A2A client (a lazy inner client made outside the lock). `A2AServer` is the executor
that turns run and stream results into task events, pulled one by one by the
protocol library (external), also as the SDK's own client reads them. `Shutdown` waits
for HTTP handlers (`Open`), not for executors, which run detached: a handler may return
before its executor ends (`HangUp`), a failed `Serve` waits for nobody (`ServeFails`),
and the exit of the process cuts what is still running (`Exit`).

### BaseOperations: LLMRequests, LLMCalls, AgentMemory, ToolCalls, RedisConversation

`LLMRequests` has, as operators, the request of the base runtime, its wire form for
five providers and the classification of vendor errors. `LLMCalls` is one call with
its chunks in every order the vendor may send, the stream adapters and the events. All
vendors send increments, Gemini's too (external); its adapter takes each for the whole
text so far.
`AgentMemory` is recall and store of several workers on three back ends, the dedup
look-up apart from the write. `ToolCalls` is a batch with lost attempts, hooks and
keys, and the parallel prefetch of retrievers. `RedisConversation` is one action per
request of `AddMessage` and `ListMessages`.

The parts of `AgentEdge`, and those of `BaseOperations`, share no state while they
run, so a behaviour of the composition exercises one part, chosen in its initial
state; the others stutter.

## 4. Runs

`MC*.tla` extend the modules with the constants of the instances; a `.cfg` gives
their values.

| Run | Instance | Shows |
|---|---|---|
| budget_tree | root and 2 sub-agents, 2 attempts each, token and cost limits, 2 approvals | `NoProgressOverBudget`: the root never goes on or succeeds over budget; `RunSpendBounded`: the tokens of the whole tree are bounded by the grants; `Termination` |
| services (bus) | 2 publishers (2 and 1 events), 2 subscribers, unsubscribe, Close, cancel, 1-slot buffers | `NoSendOnClosed`; `DeliveredInOrder`: per-publisher order, no gaps, ended streams drained; `CloseEndsStream`: every unsubscribe gets the lock and ends its stream |
| services (approval) | a tool call and a budget pause on a stream, a sub-agent's tool call with a handler, 2 answers, timers, cancel | `OneAnswerSucceeds`, `AcceptedAgrees`, `NothingLeftBehind`, `AnswersReturn` |
| loop_session | 2 runs in turn, 2 parallel calls, round saves, 1 failing save, extension offers 0, 1, 5, fallback, budget | `RequestWellFormed`; `SavedWhole`; `FallbackSticky` |
| approval_nested | a sub-agent's request on the main stream | violation of `RefusedMeansResolved`: its token is refused while the request is open |
| local_runs | 2 handles, durable and not, run and stream, cancel, timeouts, 1 crash | `ImplementsContract` (refinement of `RunContract`), `ReplayAgrees`, `HandlesEnd` |
| temporal_chain (budget) | 2 iterations, 2 executions, 2 calls, 2 attempts of LLM and save, cancel, 4 tokens and 3 per approval, reports of 2 or none, 2 tokens charged again | `BudgetCarried`, `ChoicesSurvive`, `Termination` |
| temporal_chain (conversation) | the same chain without usage and fallback, 2 dying attempts to save, a history of 4 | `RequestComplete` |
| temporal_runs | run and stream, 2 handles, 1 approval, log of 3, 2 LLM attempts, 1 fault | `ResultAgrees`, `ReconnectComplete`, `StopsWhenAsked` |
| restate (loop) | 1 iteration and 1 extension, a native tool and a sub-agent with 2 attempts, windows of 3 tokens and reports of 2, 1 approval, 2 faults | `ReplayDeterministic`, `EventsOnce`, `SpendGranted` |
| restate (handles) | 2 holders, log of 2, 2 attempts of a send, 2 faults | `ReaderComplete`, `ImplementsContract`, `ReadersEnd` |
| agent_edge | every sequence of 3 options and a second build; depth 2, 2 registry changes; 3 openers; 3 callers; 2 server requests | `WorkerEnforces`, `AdmittedSound`, `TableDrains`, `ConnectionsOwned`, `TaskEndsOnce` |
| agent_fingerprint | the same | violation of `WorkerStopsAlike`: a worker with other token prices has the agent's fingerprint |
| base_operations | 6 clients with 3 chunks; 2 workers with 3 operations on 3 back ends; 3 retrievers, 3 turns of tools with 2 attempts; 2 Redis adders, 4 adds, window 2 | `DeliveredIsResult`, `ExchangeKept`, `OwnMemoriesKept`, `PromptIsolated`, `EffectOnce`, `HistoryWindow` |
| gemini_stream | the same with Gemini's client | violation of `GeminiAccumulates`: the result of its stream is the last chunk |

A violation run states what a page of the documentation or a comment says;
`PROJECT.json` "findings" quotes it next to the code. Every property of a passing run has a
mutant: a plausible slip in one definition that makes TLC report that property.

`services`, `restate` and `temporal_chain` ask two questions each; a behaviour is about
one of them, chosen in its initial state (`part`, `question`). The parts of the first
two share no state; in the third a behaviour about the budget has no dying saves, and
one about the conversation no usage and no fallback model.

### Bounds

- RunBudget: two children are enough for simultaneous breaches; two attempts for a
  retry of a stopped child; usages straddle the limit; two approvals make a second
  window and exhaustion happen.
- EventBus: buffers of one slot fill after one event, so every blocking case
  happens; two publishers and two subscribers give every pairing of a close with a
  send.
- AgentLoop: one iteration and its extension have a first, a last and an extended
  round; offers 0, 1 and 5 are below, at and above the cap; two calls per batch make
  parallel ends and an error next to a success happen; two runs make history.
- ToolApproval: two answers race for one token or go to two requests; three
  requests are the kinds of waits next to each other.
- LocalRuns: two handles are a driver and an attached one, or, after the crash, a
  dead one and one that resumed; values of the LLM steps differ so that a replay
  with other results shows.
- TemporalWorkflow: the second execution is the first that knows only the carried
  state; two iterations let a decision of the first matter in it; with reports of two
  tokens a window is met exactly or overrun, and a charge that is repeated (`MaxRecharged`)
  may be the one that uses it up; what the model is shown is asked with dying saves and
  a store longer than the history limit. TemporalRuns: a log
  of three holds an attempt, its retry and what follows; one fault at a time, at any
  point.
- RestateLoop, RestateRuns: two faults let an attempt die while it replays, and a
  retry fail again; a window of three and reports of two make a breach overrun it; a log
  of two is read in two pages, one after the end, or in one batch that a caller leaves.
- AgentEdge: three options are a rule of two and an unrelated one in any order; a
  depth of two has a chain at and above the limit; three openers are two that race
  and one that comes after an end; of two server requests one can be waited for while the
  other runs detached; the spends reach a limit in tokens, in dollars, or neither.
- BaseOperations: three chunks are text, tool call and usage in every order; the
  channel of two fills; two workers interleave look-up and write; two adders and a
  window of two let a trim with a stale length cut a new message.
- Symmetry: the workers of memory and the adders of Redis are interchangeable in
  base_operations, which checks invariants only.
- `CHECK_DEADLOCK FALSE` where the modelled part ends: bus, approvals, the handles,
  the Restate handler and the two compositions have final states.

### Fairness

- RunBudget, AgentLoop: weak fairness of the loop's own steps. Calls to models,
  tools and stores return because each has the timeout of its execution policy; a
  tool approval ends by its timer; the non-durable budget wait has no timer, and
  ends because the run context has a deadline (`Limits.Timeout`).
- EventBus: goroutines that can run do run, a lock that is free is eventually given,
  and consumers named `Readers` keep reading.
- ToolApproval: goroutines go on, timers fire, handlers return. Nobody has to ask,
  to answer or to cancel, so a budget wait, which has no timer, may last for ever.
- LocalRuns: the goroutines of handles and of the loop; the timer of an approval is
  a step of the loop. Nobody has to answer, reattach or cancel.
- TemporalWorkflow: workflow and activities go on, since a worker polls; approval
  activities end because they have a start-to-close timeout. TemporalRuns: the
  goroutines of a handle; a subscription to a closed workflow ends. The workflow, its
  worker and the people have no fairness there: a stop has to work without them.
- RestateRuns: the handler ends, an awakeable has a timer next to it, the reader and
  the attach go on.
- RestateLoop, AgentEdge and BaseOperations are checked for safety only.

### Refinement

`LocalRuns` and `RestateRuns` instantiate `RunContract` with a mapping of their
handles to reports, and check its specification as a property. For `LocalRuns` the
contexts that may stop a handle include that of the driver it is attached to; for
`RestateRuns` a broken attach counts as one. `TemporalRuns` states its promise
directly (`ResultAgrees`), over the workflow's own status, the handle and the
terminal event of the stream.

## 5. Proofs

Each `*_proofs.tla` extends the modules it is about. Assumptions are the named
`ASSUME`s of the modules, which TLC evaluates on every instance, and the hypotheses
named below. A theorem is about every value of the constants: every number of runs,
handles, callers, events, crashes and retries, and every limit.

- `LocalServices_proofs`, `RunBudget`: `IInv` is the inductive invariant. It adds to
  the types the arithmetic of the tracker (what has been spent since the watermark is
  below the window unless a breach is pending) and, for each child, that calls made
  over the window belong to attempts recorded in `over`. From it: `TypeCorrect`,
  `BudgetEnforced`, `NoSpuriousStop`, `ApprovalLimit`, `OvershootLimit`, `SpendLimit`.
- `LocalServices_proofs`, `EventBus`: for `SendSafe` the invariant says that a
  publisher between its locked read of the subscriber list and its return is a reader
  of the mutex, that a writer that closes a channel excludes readers, and that
  subscribers a publisher still has to reach are subscribed and open. For
  `StreamsInOrder` it also follows a publisher's events through the subscriber's
  channel, the forwarder's hand, its output channel and what was read: joined, they
  are consecutive numbers up to the one being published.
- `LocalServices_proofs`, `ToolApproval`: `TokenInv` is inductive for every set of
  requests, runtimes and answers. Its parts say that a token is registered only with
  its owner and only while its request waits (`TokenHome`), that only what was asked
  is answered (`AnswersAsked`), and, for requests answered one way (on the stream
  only, or by a handler that responds once: `OneWay`), that an accepted answer has
  taken its token (`TokenTaken`), that the slot is free while the token is there or
  the answer is on its way (`SlotFree`), that there is one taker (`OneTaker`) and which
  way it came (`ViaKnown`). `OneAnswer` and `NoStuckAnswer` follow for those requests;
  for one with both ways they do not hold, since `Respond` does not take the token.
  `AnswerInv` adds where slots and outcomes come from; `AnswersDecide` follows when
  all requests are `OneWay`, for the same reason.
- `AgentLoop_proofs`: `LoopInv` (`IterationBound`, `CallCount`, `FallbackRemembered`)
  is inductive: the number of LLM calls made is tied to the iteration counter plus one
  for a replaced primary call plus one for the forced call, which is what bounds them
  (`BoundedCalls`); `FallbackForGood` needs that the loop remembers the fallback or is
  over. `TranscriptInv` says where every message of a transcript and of the store comes
  from, how many of a run's own are saved, and that the store has none twice
  (`SavedOnce`). From it `RunsSavedWhole`, while the store has dropped nothing
  (`Untrimmed`: a bounded store drops old messages by design). `RequestInv` adds, while
  nothing was lost, that the transcript of the run at work is well-formed, and the
  conversation when there is none; `RequestsWellFormed` follows
  for runs one after the other (`Concurrent = FALSE`: overlapping runs interleave
  their saves in one conversation), while the store dropped nothing and is read whole
  (`ReadWhole`: a history limit may cut between a request and its results, section 7).
- `LocalRuns_proofs`: `HandleInv` (`RunBegun`, `TargetDrives`, `GotRight`) gives the
  refinement `ContractImplemented`: the initial states map to initial states of
  `RunContract` and every step to a step or a stutter. `ReplayInv` (while a step is at
  work nobody used its result; what a durable run went on with is on disk, unchanged
  unless the deadline of the approval came first) gives `ReplayIsFaithful`; `ToolInv`
  gives `ToolRunsBounded`, one tool run per process life.
- `TemporalWorkflow_proofs`: `LimitInv` says that the tracker has the tokens that the
  whole chain was charged with (`spent` as reported, `recharged` by replies without
  usage), that at every place of the loop it is within its limits and its
  watermark at most what the grants allow, and the same of the tracker the carried
  state restores; it needs `BatchInv`, the results still to be collected. From them
  `BudgetOfTheChain`. `ChoiceInv` (where another LLM call can follow, a run that fell
  back says so) gives the action property `ChoicesOfTheChain`. `RequestInv` gives
  `RequestsOfTheChain`, for every history limit, since the limit cuts the store in front
  and leaves what is held: at every place of a round the store and what the workflow (or
  the carried state) holds show the transcript, and the transcript has no message of
  the round that is still to come, so that none is said twice. A message said goes to
  the end of both (`ShowsAppended`), and an attempt to save that wrote the first k
  messages repeats them ahead of all that are held (`ShowsAgain`).
- `TemporalRuns_proofs`: `ResultInv` (a stop cause is the way the run context ended; a
  result was read from a closed workflow and goes with its status) gives
  `ResultsAgree`. `ReconnectInv` adds the shape of the log (attempts grow, an approval
  is there once), that open approvals are pending, and that everything below a saved
  offset was seen or withheld by a later retry; it gives `ReconnectsComplete` for
  approvals of the root workflow (`Nested = {}`: only the root is asked which are open).
- `Restate_proofs`, `RestateRuns`: `HandleInv` gives the refinement `ContractImplemented`;
  `ReaderInv` (a reader whose caller stayed was given everything up to its offset, drains
  only for a handle that is done, and a terminal event is the last of the log but for
  tokens on their way) gives `ReaderSeesAll`.
- `Restate_proofs`, `RestateLoop`: `StepForms` reduces the steps to four forms: an
  operation of the handler is read or written and its event logged, the code between
  operations runs, a new attempt begins, or the handler stays where it is or is taken
  away. The locals after an operation are a function of the locals before and of the
  value read (`Read`), and three invariants follow it.
  - `ReplayInv`: there is one course of the handler through the whole journal, each of
    its places the step of the one before, and the attempt is at a place of it. It
    gives `ReplaysTheJournal`, with a tools resolver (`HasResolver`): without one only
    the process that sent the run has the tools, and a resumed attempt takes another way.
  - `SpendInv`: usage is below the watermark and one window, or the plan is to ask, to
    wait or to fail; the watermark is at most the windows that the entries read so far
    granted, each with what one report overran it. It gives `SpendIsGranted`.
  - `EventInv`: no event is in the journal twice, the log has only events of the
    journal and all of its starts that were not cancelled, and the plan of the attempt
    holds nothing that the entries it read have done (`Orderly`: its events are new, a
    tool has no end yet and has its start behind it or in the plan, and ahead of an
    iteration's tools every event is of an earlier iteration). The plan is kept in order
    (`Ordered`) by what the handler does to it: take the head, put a batch in its place,
    leave out a tool, retry a sub-agent. It gives `EventsAreOnce`.
- `AgentEdge_proofs`: one invariant per part, kept by the other parts because they
  leave its variables alone. `RemoteInv` (who holds the mutex has the session; an inner
  client not yet published is its maker's own) gives `SessionsSafe`, `ConnectionsSafe`,
  `ConnectionsAlive`; `ServerInv` (the events of a request go with the step of its
  executor, the end of the server with the requests whose handler runs) gives `TasksEnd`; `TableWatched` (every entry of the table has a goroutine
  that will take out that entry) gives `TableEmpties`. `CallInv` is about a call whose
  registries nobody changed: every path of sub-agents below the root has its route or
  a tree of specifications left on the way to it, and is within the depth limit or has
  a visit left on the way (`Covered`); each kind of task passes on what it stood for
  (`CoverVisit`, `CoverSpecs`, ...), and with no task left the routes are the paths. It
  gives `AdmissionsSound`, for registries of the shape `FacadeAssumption` states.
  `ConfigInv` (an agent that is built has the runtime of its options; a worker that is
  built is a Temporal one, and the agent's options chose Temporal or no runtime, since
  a drift that sets another one is a conflict) gives `WorkersEnforce`: equal
  fingerprints are equal in every field the property names. Of the fields of a budget
  the two token prices and `MaxApprovals` are not covered (`Fingerprinted`), so the spend
  at which a run is stopped is proved equal only for equal prices; without that the run
  agent_fingerprint refutes it. `RuntimeInv` adds that options without a
  conflict asked for one runtime at most, and gives `OneRuntimeBuilt`.
- `BaseOperations_proofs`: `ToolInv` (the service has the key of every native call it
  acted for) gives `NeverTwice`, and `EffectsOnce` when the model gave the calls of a
  turn distinct ids (`DistinctIds`; without it two calls share a key, section 7).
  `HistoryInv` (the list is the end of what was pushed; a trim that comes too late cuts
  only what a later push makes room for) gives `ConversationWindow`. `MemoryInv` (what
  is stored, being written or found belongs to its scope) gives `MemoriesKept` and
  `PromptsIsolated`, when hooks that set ids set different ones in different scopes
  (`OwnHookIDs`: an id set by a hook is the key of the entry, whatever its scope;
  both properties are about scopes in which every key has a value, `Identified`).
  `LLMInv` follows a call while it streams: the events so far parse to the open and
  closed flags of the loop and carry the text that was accumulated (`SseOK`), or, for
  Gemini, are in order whatever the texts of the chunks in its channel are (`GeminiOK`);
  what its streams deliver is not proved, since the run gemini_stream refutes it. Each piece of events that a step emits
  leads from one state of the grammar to another (`Adds`). It gives `AnswersDelivered`.
  `ExchangeKept` is inductive as it stands, since only `Send` puts a request on the
  wire; the argument of `ExchangesKept` is about the conversions. Each joins pieces, one
  per message, but the results of a run of results are all in the piece of the first
  (`Reach` is where that run ends) for Anthropic and Gemini. From the prefixes: the calls
  and results of the first k pieces are those of the messages reached, and between two
  runs of results there is a turn of another kind. Reasoning comes out as a budget or a
  level, by cases. The hypotheses: in a history a result follows another result, the
  user or an assistant's calls (`HistoriesInOrder`: the loop saves a result right behind
  the calls or another result, and a history cut in front may begin with results behind
  the context put there), and budgets of tokens are numbers (`BudgetsAreNumbers`).

Only model-checked:
- Liveness (`Termination`, `CloseEndsStream`, `AnswersReturn`, `HandlesEnd`,
  `StopsWhenAsked`, `ReadersEnd`): fairness is out of the prover's reach.
- Deadlock freedom, which is about `ENABLED`.

What a recursive function on a sequence gives is proved where it is needed, from the
least position at which it would fail (`LeastNat`, `UpTo` of `Restate_proofs`, from
the well-foundedness of `<`): the library's induction theorems take an operator as a
parameter, which the provers cannot instantiate. The same way shows that there is a
function for the choice in `FlattenSeq` of the community modules, and what it joins
(`FlattenExists`, `FlattenParts` of `AgentEdge_proofs`), and that the events of a call
parse one after the other (`ParseAppend`); `SelectSeq` and the folds over an operator
remain opaque.

## 6. Not modelled

- Built-in tools, logging, telemetry export: one request to a service each, no
  protocol of their own. CLI, benchmarks, eval harness, examples: applications.
- The engines: durable-go, the Temporal and Restate servers, Redis, PostgreSQL,
  Weaviate, vendors and transports appear as the code uses them.
- Option plumbing: setters without a rule, connection options, telemetry attributes,
  texts of prompts and errors, message parts of A2A.
- Events of a local tool call, and the step history that a reattached stream
  replays: no state of the loop depends on them.
- The breaker's map, which nested loops of the local runtime use without a lock: a
  data race that Go answers with the end of the process. The breaker is a value here.
- Nested sub-agents of Temporal and Restate: a call that returns or fails. Nesting is
  modelled where state is shared, in `RunBudget`.

## 7. Seen in the source while modelling

Without a run of their own, unless one is named; the models follow the code.

Local runtime
- A budget stop returns `lastContent`, which is assigned only right before the loop
  is left (`local/agent_loop.go:340`, `:399`), so it is empty, and the drivers complete
  the handle without a result (`local/runtime.go:304`, `:494`);
  `docs/features/budget.mdx:75` promises a result with the partial response.
- The forced final call is counted (`local/agent_loop.go:400`) after the budget check
  that may end the run (`:392`).
- `checkLimits` measures the first window with `ApprovalExtraTokens`
  (`base/budget.go:150`); `internal/types/budget.go:56` and `:77` describe it as what
  an approval adds.
- A tool call that ends in an error (`local/agent_loop.go:677-682`, `:845-855`) has a
  TOOL_CALL_START event and no TOOL_CALL_END.
- A second `Respond` for a tool request succeeds or blocks (`local/agent_loop.go:787`),
  and so does an `Approve` after the handler's answer (`local/runtime.go:596`);
  `docs/features/approvals.mdx:78` says that it returns `ErrApprovalAlreadyResolved`.
- A timed-out approval is a tool message and the run goes on
  (`local/agent_loop.go:548-561`), as `internal/types/approval.go:24` says;
  `docs/features/approvals.mdx:8` says that the run fails.
- A run timeout of 30 s leaves an approval timeout of 0 (`pkg/agent/config.go:890-899`),
  which the runtimes read as 31 days (`local/agent_loop.go:1158-1167`,
  `temporal/agent_workflow.go:1020-1026`, `restate/runtime.go:248-254`).
- `Publish` holds the read lock across blocking sends: one full subscriber and a
  pending `Lock` stall every channel (`internal/eventbus/inmem.go:51-63`).
- The history window may cut between an assistant message and its tool results
  (`base/runtime.go:121`).
- Durable: saves to conversation and memory are not steps, so a resumed run repeats
  them (`local/agent_loop.go:480-490`); a timed-out approval may be replayed as
  approved; a delegation gets a new run id for every attempt (`:886`).
- A subscriber may see the end of a stream twice when a driver ended while another was
  being attached (`local/runtime.go:102`); a stream attached to the driver of a `Run`
  gets no terminal event.

Temporal
- Every reply of the LLM activity is decoded into one `llmResult`
  (`temporal/agent_workflow.go:571`, `:592`) and `Usage` is omitempty, so a reply without
  usage is charged with the usage before it; `internal/types/agent.go:44` says that usage
  is the sum of what was reported.
- `uuid.New()` makes message ids in workflow code (`temporal/agent_workflow.go:575`,
  `:661`), which a replay does not repeat.
- A cancel request, and the count of granted approvals, do not survive continue-as-new.
- A failed `Terminate` at the deadline leaves the driver waiting (`temporal/runtime.go:254`).
- Two concurrent `GetRunHandle` calls both attach a driver, and both prompt.
- The fingerprint leaves out the token prices (run agent_fingerprint),
  `Budget.MaxApprovals` (`temporal/fingerprint.go:154-160`) and servers registered through registries; it includes the timeouts that
  `pkg/agent/config.go:446` calls "Agent only".

Restate
- `offset` is moved to the tail of the log before the offsets of a batch are counted from
  it (`restate/stream_handle.go:171-176`, `restate/event_log.go:155`): a client that
  resumes from the offset of an event skips later ones; `docs/runtimes/restate.mdx:188`
  says that it loses nothing.
- A breach is handled without the check of exhausted approvals
  (`restate/agent_loop.go:1158`).
- `Cancel` runs its request inside `sync.Once` (`restate/run_handle.go:80-98`): after a
  failure it cannot be repeated, and `Status` says cancelled.
- The terminal event of a stream goes out after events that were dropped when the
  caller's context ended during the drain (`restate/stream_handle.go:203-206`).
- Tokens are sent one-way (`restate/agent_loop.go:1255`) and may come after the end, or
  twice; the log of a failed run is never cleared; a reconnected `Run` handle has no
  approval driver; `Attach` has no retry (`restate/run_handle.go:137`).

Providers, memory, tools
- The Gemini adapter repeats the previous delta on an error chunk, and its goroutine
  blocks when the reader stops
  (`pkg/llm/gemini/client.go:218-295`); a call may have no id (`:427`), so calls share
  an idempotency key.
- `openAIResponseToLLM` indexes `Choices[0]` unchecked (`pkg/llm/openai/client.go:217`).
- Only the type of an Anthropic error is classified (`pkg/llm/anthropic/client.go:204`),
  so a prompt that is too long is a provider failure;
  `docs/features/error-control.mdx:70` says `context_exceeded`.
- The least thinking budget of Anthropic equals `DefaultMaxTokens`
  (`pkg/llm/config.go:49`); JSON without a schema is not asked of Anthropic and Gemini.
- A failed stream leaves TEXT_MESSAGE_START without its end.
- The dedup look-up and the store are not atomic; a store in a wider scope may
  overwrite a narrower entry (pgvector); a parent without an agent id sees memories of
  its sub-agents (`base/utils.go:23-41`); Weaviate limits before it filters expired
  entries (`pkg/memory/weaviate/memory.go`).
- The Weaviate retriever takes GraphQL errors without data for no documents
  (`pkg/retriever/weaviate/retriever.go:232`).
- MCP `ListTools` repeats tools of earlier pages on a retry
  (`pkg/mcp/client/client.go:124-145`).
- The A2A client keeps a card it never reads (`pkg/a2a/client/client.go:120-123`); a
  failed remote task is returned as a success (`pkg/agent/a2a.go:122-150`); A2A and MCP
  tools do not forward the idempotency key.
- `RunA2A` returns the error of `Serve` without waiting for requests, and its
  `Shutdown` does not wait for executors whose client hung up
  (`pkg/agent/a2a_server.go:98-110`).
- The A2A server reports a stream that closes without a terminal event as completed,
  and `Cancel` does not stop the run (`pkg/agent/a2a_server.go:535-542`).
- Redis: `AddMessage` trims with a length read earlier
  (`pkg/conversation/redis/conversation.go:121-153`), and keeps the message when a
  later request fails.

Facade
- `GetAgentRun` deletes where another handle may have been put
  (`pkg/agent/agent.go:325`), and concurrent calls make two handles.
- `GetAgentStream` says it looks at the status and looks at `Done` (`:368`).
- Admission does not look at the approval tools of sub-agents; a sub-agent that is
  unregistered between two reads leaves a tool without a route.
- `NewAgent` after a refused build fails with duplicate tools when the registry is
  shared.
