-------------------------- MODULE TemporalWorkflow --------------------------
(***************************************************************************)
(* AgentWorkflow of the Temporal runtime (internal/runtime/temporal/       *)
(* agent_workflow.go): the agent loop of one root run as a chain of        *)
(* workflow executions. Every call to a model, a tool, a store or a person *)
(* is an activity that Temporal runs at least once; a long history makes   *)
(* the execution continue as a new one that knows only what the state      *)
(* record carries. Answers of models, tools, hooks and people are free.    *)
(* A cancel request reaches one execution: its activities then end with a  *)
(* CanceledError, the ones already at work go on unobserved.               *)
(***************************************************************************)
EXTENDS BudgetTracker, ToolBreaker

CONSTANTS
    Usages,            \* usages an LLM call or a delegated run can report
    MaxCallTokens,     \* most tokens of one such report
    ConversationSize,  \* Session.ConversationSize; 0 or less = the default of 20
    MaxIter,           \* Limits.MaxIterations
    ExtraOffers,       \* ExtraIterations the hook can return; 0 = final call
    MaxCalls,          \* bound: tool calls of one LLM response
    Sequential,        \* ToolExecutionMode sequential
    SaveOnIteration,   \* Session.ConversationSaveOnIteration
    StoreRunMemory,    \* RunEndMemoryStoreEnabled
    HasFallback,       \* OnLLMFailure may ask for a resolvable fallback model
    LLMAttempts,       \* MaxAttempts of the LLM policy
    SaveAttempts,      \* MaxAttempts of the conversation policy
    Hashes,            \* argument hashes of tool calls
    MaxRecharged,      \* bound: tokens charged for replies without usage
    MaxDied,           \* bound: attempts to save that die
    MaxLost,           \* bound: AddMessage calls that fail
    MaxExecutions      \* bound: workflow executions of the chain

ASSUME WorkflowAssumption ==
    /\ Usages \subseteq LLMUsage
    /\ MaxCallTokens \in Nat /\ \A u \in Usages : u.total <= MaxCallTokens
    /\ ConversationSize \in Int
    /\ MaxIter \in Nat \ {0} /\ ExtraOffers \subseteq Int /\ MaxCalls \in Nat \ {0}
    /\ LLMAttempts \in Nat \ {0} /\ SaveAttempts \in Nat \ {0}
    /\ Hashes \subseteq Nat /\ MaxLost \in Nat /\ MaxDied \in Nat /\ MaxRecharged \in Nat /\ MaxExecutions \in Nat \ {0}
    /\ {Sequential, SaveOnIteration, StoreRunMemory, HasFallback} \subseteq BOOLEAN

VARIABLES
    pc,           \* where the workflow code is
    state,        \* AgentWorkflowState of the execution's input
    iter, maxIter, extended, useFallback, messages, tracker, breaker,   \* locals
    llmUsage,     \* Usage of llmResult, which every reply is decoded into
    attempt,      \* attempt of the activity in progress
    calls,        \* tool calls of the latest response
    tool,         \* tool[i]: progress of tool call i
    result,       \* result[i]: what the call gives the loop
    merged,       \* results that are in messages
    resume,       \* where the loop goes on when a budget pause is approved
    pendingApprovals,   \* the map of the query handler and of the cleanup
    open,         \* tool calls whose approval activity the server holds open
    cancelled,    \* the execution has seen a cancel request
    execution,    \* number of the execution in the chain
    outcome,
    store,        \* the stored conversation
    died,         \* attempts to save that died
    lost,         \* messages whose AddMessage failed
    transcript,   \* every message of the run, in order
    spent,        \* tokens of all usage reported to the loop
    recharged,    \* tokens charged for replies that reported no usage
    grants,       \* budget pauses approved in the whole run
    client        \* model of the latest LLM call

locals == <<iter, maxIter, extended, useFallback, tracker, breaker, llmUsage>>
batch  == <<calls, tool, result, merged, pendingApprovals, open>>
ghosts == <<transcript, spent, recharged, grants, client>>
stores == <<store, lost, died>>
vars == <<pc, state, locals, messages, attempt, batch, resume, cancelled, execution, outcome,
          stores, ghosts>>

NoUsage == [total |-> 0, prompt |-> 0, completion |-> 0]
NoResult == [failed |-> FALSE, counts |-> FALSE, usage |-> NoUsage]
NoTools == [i \in 1..MaxCalls |-> "idle"]
NoResults == [i \in 1..MaxCalls |-> NoResult]
Message == [iter : Nat, role : {"user", "assistant", "tool"}, n : Nat]
UserMsg == [iter |-> 0, role |-> "user", n |-> 0]
AssistantMsg(k) == [iter |-> iter, role |-> "assistant", n |-> k]
ToolMsg(i) == [iter |-> iter, role |-> "tool", n |-> i]
Elements(s) == {s[i] : i \in 1..Len(s)}

NewState ==
    [iteration |-> 0, messages |-> <<UserMsg>>, tokens |-> 0, cost |-> 0, wmTokens |-> 0,
     wmCost |-> 0, useFallback |-> FALSE, extended |-> FALSE, extra |-> 0,
     breaker |-> NewToolState]

Init ==
    /\ pc = "start" /\ state = NewState
    /\ iter = 0 /\ maxIter = MaxIter /\ extended = FALSE /\ useFallback = FALSE
    /\ messages = <<>> /\ tracker = NewBudgetTracker /\ breaker = NewToolState
    /\ llmUsage = NoUsage /\ attempt = 1 /\ calls = 0 /\ merged = 0
    /\ tool = NoTools /\ result = NoResults
    /\ resume = "llm" /\ pendingApprovals = {} /\ open = {}
    /\ cancelled = FALSE /\ execution = 1 /\ outcome = "none"
    /\ store = <<>> /\ lost = {} /\ died = 0
    /\ transcript = <<UserMsg>> /\ spent = 0 /\ recharged = 0 /\ grants = 0 /\ client = "none"

(* Mutant of Restore: the totals start at zero in every execution. *)
RestoreForgetsTotals ==
    /\ pc = "start"
    /\ iter' = state.iteration /\ maxIter' = MaxIter + state.extra
    /\ extended' = state.extended /\ useFallback' = state.useFallback
    /\ messages' = state.messages /\ breaker' = state.breaker /\ llmUsage' = NoUsage
    /\ tracker' = NewBudgetTracker
    /\ pc' = "recall"
    /\ UNCHANGED <<state, attempt, batch, resume, cancelled, execution, outcome, stores, ghosts>>

(* The setup of an execution: stream, query handler, locals from the state  *)
(* it was given.                                                            *)
Restore ==
    /\ pc = "start"
    /\ iter' = state.iteration /\ maxIter' = MaxIter + state.extra
    /\ extended' = state.extended /\ useFallback' = state.useFallback
    /\ messages' = state.messages /\ breaker' = state.breaker /\ llmUsage' = NoUsage
    /\ tracker' = RestoreState(state.tokens, state.cost, state.wmTokens, state.wmCost)
    /\ pc' = "recall"
    /\ UNCHANGED <<state, attempt, batch, resume, cancelled, execution, outcome, stores, ghosts>>

Exit(o) == pc' = "exit" /\ outcome' = o
Go(l) == pc' = l /\ UNCHANGED outcome

(* Memory recall and retriever prefetch, repeated by every execution; an    *)
(* error of either activity ends the run.                                   *)
Activity(from, to) ==
    /\ pc = from
    /\ IF cancelled THEN Exit("cancelled") ELSE Go(to) \/ Exit("failed")
    /\ UNCHANGED <<state, locals, messages, attempt, batch, resume, cancelled, execution, stores,
                   ghosts>>

RecallMemory == Activity("recall", "prefetch")
PrefetchRetrievers == Activity("prefetch", "llm")
-----------------------------------------------------------------------------
(* handleBudgetExceeded on a tracker t in breach; next is where the loop    *)
(* goes on when the pause is approved.                                      *)
handleBudgetExceeded(t, next) ==
    IF OnExceeded = "wait_for_approval" /\ ~ApprovalsExhausted(t)
    THEN Go("budget") /\ resume' = next
    ELSE Exit("budgetExceeded") /\ UNCHANGED resume

(* Usage goes into the totals, and the loop goes on at next unless that     *)
(* breaches the budget.                                                     *)
Charge(u, next) ==
    /\ tracker' = Add(tracker, u)
    /\ IF checkLimits(Add(tracker, u))
       THEN handleBudgetExceeded(Add(tracker, u), next)
       ELSE Go(next) /\ UNCHANGED resume

(* AgentBudgetApprovalActivity ends: approved, no stream to ask on, or      *)
(* rejected, timed out, failed or cancelled.                                *)
BudgetApproval ==
    /\ pc = "budget"
    /\ \/ ~cancelled /\ tracker' = AdvanceWatermark(tracker) /\ grants' = grants + 1
          /\ Go(resume)
       \/ ~cancelled /\ Exit("approvalUnavailable") /\ UNCHANGED <<tracker, grants>>
       \/ Exit("budgetExceeded") /\ UNCHANGED <<tracker, grants>>
    /\ UNCHANGED <<state, iter, maxIter, extended, useFallback, breaker, llmUsage, messages, attempt,
                   batch, resume, cancelled, execution, stores, transcript, spent, recharged, client>>
-----------------------------------------------------------------------------
InCall == pc \in {"llm", "final"}
Client(fb) == IF fb THEN "fallback" ELSE "primary"

LastN(s, n) == IF Len(s) <= n THEN s ELSE SubSeq(s, Len(s) - n + 1, Len(s))
limit == IF ConversationSize <= 0 THEN 20 ELSE ConversationSize

(* The messages an LLM activity sends: the end of the stored conversation,  *)
(* read anew by every attempt, and what the workflow has not saved.         *)
FetchConversationMessages == LastN(store, limit)
Request == FetchConversationMessages \o messages

(* An attempt of the LLM activity fails, is lost, or times out: Temporal    *)
(* makes another one while attempts are left.                               *)
LLMAttemptFails ==
    /\ InCall /\ ~cancelled
    /\ client' = Client(useFallback)
    /\ \/ attempt < LLMAttempts /\ attempt' = attempt + 1 /\ UNCHANGED <<pc, outcome>>
       \/ attempt = LLMAttempts /\ attempt' = 1 /\ Exit("failed")
    /\ UNCHANGED <<state, locals, messages, batch, resume, cancelled, execution, stores,
                   transcript, spent, recharged, grants>>

(* The last attempt's failure is answered with the fallback model, inside   *)
(* the same activity, and that fails too.                                   *)
FallbackFails ==
    /\ InCall /\ ~cancelled /\ attempt = LLMAttempts /\ ~useFallback /\ HasFallback
    /\ client' = "fallback" /\ attempt' = 1
    /\ Exit("failed")
    /\ UNCHANGED <<state, locals, messages, batch, resume, cancelled, execution, stores,
                   transcript, spent, recharged, grants>>

LLMCanceled ==
    /\ InCall /\ cancelled
    /\ attempt' = 1 /\ Exit("cancelled")
    /\ UNCHANGED <<state, locals, messages, batch, resume, cancelled, execution, stores, ghosts>>

(* An attempt that returns a response; fb: by the fallback model. The final *)
(* call does not remember that it fell back.                                *)
runLLMActivity(fb) ==
    /\ InCall /\ ~cancelled
    /\ fb => useFallback \/ (HasFallback /\ attempt = LLMAttempts)
    /\ ~fb => ~useFallback
    /\ client' = Client(fb)
    /\ attempt' = 1
    /\ useFallback' = IF pc = "llm" THEN fb ELSE useFallback

(* A response of an ordinary call, charged first; what it asks for is       *)
(* looked at when the budget allows.                                        *)
AfterLLM(k) == IF k = 0 THEN "answer" ELSE IF iter = maxIter - 1 THEN "decide" ELSE "batch"

(* The usage of a reply. A reply is decoded into the llmResult that the     *)
(* replies before it were decoded into, and its usage is left out when the  *)
(* provider reported none: then the one that is there is charged again.     *)
ReplyCharged(next) ==
    \/ \E u \in Usages :
          /\ llmUsage' = u /\ Charge(u, next)
          /\ spent' = spent + u.total /\ UNCHANGED recharged
    \/ /\ recharged + llmUsage.total <= MaxRecharged
       /\ Charge(llmUsage, next)
       /\ recharged' = recharged + llmUsage.total /\ UNCHANGED <<llmUsage, spent>>

LLMReturns ==
    /\ pc = "llm"
    /\ \E fb \in BOOLEAN : runLLMActivity(fb)
    /\ \E k \in 0..MaxCalls : calls' = k /\ ReplyCharged(AfterLLM(k))
    /\ UNCHANGED <<state, iter, maxIter, extended, breaker, messages, tool, result, merged,
                   pendingApprovals, open, cancelled, execution, stores, transcript, grants>>

FinalLLMReturns ==
    /\ pc = "final"
    /\ \E fb \in BOOLEAN : runLLMActivity(fb)
    /\ ReplyCharged("answer")
    /\ UNCHANGED <<state, iter, maxIter, extended, breaker, messages, batch, cancelled, execution,
                   stores, transcript, grants>>

Say(m) == messages' = Append(messages, m) /\ transcript' = Append(transcript, m)

Answer ==
    /\ pc = "answer"
    /\ Say(AssistantMsg(0))
    /\ Go("saveEnd")
    /\ UNCHANGED <<state, locals, attempt, batch, resume, cancelled, execution, stores, spent,
                   recharged, grants, client>>

ClampExtraIterations(extra) ==
    IF extra < 1 THEN 0 ELSE IF extra > MaxIter THEN MaxIter ELSE extra

(* The decision activity of the last iteration: one extension, or the final *)
(* call; a failed activity ends the run.                                    *)
DecideMaxIterations ==
    /\ pc = "decide"
    /\ \/ cancelled /\ Exit("cancelled") /\ UNCHANGED <<maxIter, extended>>
       \/ ~cancelled /\ Exit("failed") /\ UNCHANGED <<maxIter, extended>>
       \/ /\ ~cancelled
          /\ \E offer \in ExtraOffers :
                LET extra == ClampExtraIterations(offer)
                IN  IF ~extended /\ extra >= 1
                    THEN maxIter' = maxIter + extra /\ extended' = TRUE /\ Go("batch")
                    ELSE UNCHANGED <<maxIter, extended>> /\ Go("final")
    /\ UNCHANGED <<state, iter, useFallback, tracker, breaker, llmUsage, messages, attempt, batch,
                   resume, cancelled, execution, stores, ghosts>>
-----------------------------------------------------------------------------
(* The tool batch: one coroutine per call, or one call after the other.     *)
Over == {"ended", "aborted"}

StartBatch ==
    /\ pc = "batch"
    /\ Say(AssistantMsg(calls))
    /\ Go("tools")
    /\ UNCHANGED <<state, locals, attempt, calls, tool, result, merged, resume, pendingApprovals, open, cancelled,
                   execution, stores, spent, recharged, grants, client>>

ToolStep(i, from, to) ==
    /\ pc = "tools" /\ i <= calls /\ tool[i] = from
    /\ tool' = [tool EXCEPT ![i] = to]
    /\ UNCHANGED <<pc, state, locals, messages, attempt, calls, merged, resume, cancelled,
                   execution, outcome, stores, ghosts>>

Ends(i, r) == result' = [result EXCEPT ![i] = r]
NoApprovalChange == UNCHANGED <<pendingApprovals, open>>
Ran(failed) == [NoResult EXCEPT !.failed = failed, !.counts = TRUE]

(* An unknown tool and a tripped one end at once, as results that did not   *)
(* fail; any other is authorized first.                                     *)
ToolStart(i) ==
    /\ Sequential => \A j \in 1..(i - 1) : tool[j] \in Over
    /\ \/ ToolStep(i, "idle", "ended") /\ Ends(i, NoResult)
       \/ IF IsTripped(breaker, 0)
          THEN ToolStep(i, "idle", "ended") /\ Ends(i, Ran(FALSE))
          ELSE ToolStep(i, "idle", "auth") /\ UNCHANGED result
    /\ NoApprovalChange

(* A denial does not count as a failure, an authorizer that fails does. *)
ToolAuthorize(i) ==
    /\ \/ ToolStep(i, "auth", "aborted") /\ Ends(i, Ran(TRUE)) /\ NoApprovalChange
       \/ ~cancelled /\ ToolStep(i, "auth", "ended") /\ Ends(i, Ran(FALSE)) /\ NoApprovalChange
       \/ ~cancelled /\ ToolStep(i, "auth", "exec") /\ UNCHANGED result /\ NoApprovalChange
       \/ /\ ~cancelled /\ ToolStep(i, "auth", "approval") /\ UNCHANGED result
          /\ pendingApprovals' = pendingApprovals \cup {i} /\ open' = open \cup {i}

(* Mutant of ApprovalResolved: the approval activity has no timeout. *)
ApprovalUnanswered(i) ==
    /\ i \in open /\ cancelled /\ pc # "closed"
    /\ open' = open \ {i}
    /\ UNCHANGED <<pc, state, locals, messages, attempt, calls, tool, merged, resume, cancelled,
                   execution, outcome, stores, ghosts, result, pendingApprovals>>

(* On the server the approval activity is completed by the user's answer,   *)
(* by itself when the event cannot be published, or by its timeout; one     *)
(* that the workflow has given up changes nothing there.                    *)
ApprovalResolved(i) ==
    /\ i \in open
    /\ \/ /\ ~cancelled
          /\ \E to \in {"approved", "rejected", "unavailable", "timedOut", "error"} :
                ToolStep(i, "approval", to)
       \/ /\ cancelled /\ pc # "closed"
          /\ UNCHANGED <<pc, state, locals, messages, attempt, calls, tool, merged, resume,
                         cancelled, execution, outcome, stores, ghosts>>
    /\ open' = open \ {i}
    /\ UNCHANGED <<result, pendingApprovals>>

Forget(i) == pendingApprovals' = pendingApprovals \ {i} /\ UNCHANGED open

(* The workflow sees the resolution, and the entry leaves the map. *)
ApprovalReturns(i) ==
    /\ \/ ToolStep(i, "approved", "exec") /\ UNCHANGED result
       \/ /\ \E st \in {"rejected", "unavailable", "timedOut"} : ToolStep(i, st, "ended")
          /\ Ends(i, Ran(FALSE))
       \/ ToolStep(i, "error", "aborted") /\ Ends(i, Ran(TRUE))
    /\ Forget(i)

(* The wait ends with a CanceledError: the activity stays open at the       *)
(* server and its entry in the map, for the cleanup.                        *)
ApprovalCanceled(i) ==
    /\ cancelled
    /\ ToolStep(i, "approval", "aborted")
    /\ Ends(i, Ran(TRUE))
    /\ NoApprovalChange

(* The error of a tool is its result. *)
ToolExecute(i) ==
    /\ ToolStep(i, "exec", "ended")
    /\ \E failed \in BOOLEAN : (cancelled => failed) /\ Ends(i, Ran(failed))
    /\ NoApprovalChange

(* A child workflow: refused without a queue or below the depth limit, or   *)
(* run to its end. Its usage is reported only when it completed; a refusal  *)
(* and a failure are results that report none.                              *)
delegateToSubAgent(i) ==
    /\ ToolStep(i, "exec", "ended")
    /\ \/ Ends(i, NoResult)
       \/ ~cancelled /\ \E u \in Usages : Ends(i, [NoResult EXCEPT !.usage = u])
    /\ NoApprovalChange

ToolAction(i) ==
    \/ ToolStart(i) \/ ToolAuthorize(i) \/ ApprovalReturns(i) \/ ApprovalCanceled(i)
    \/ ToolExecute(i) \/ delegateToSubAgent(i)
-----------------------------------------------------------------------------
BatchOver == pc = "tools" /\ \A i \in 1..calls : tool[i] \in Over
AfterBatch == IF merged + 1 < calls THEN "tools" ELSE IF SaveOnIteration THEN "save" ELSE "history"

(* One result joins the conversation, in the order of the calls: breaker,   *)
(* message, and the usage of a delegated run.                               *)
CollectResult ==
    /\ BatchOver
    /\ LET i == merged + 1
       IN  /\ \E h \in Hashes : breaker' =
                 ApplyToolCircuitResult(breaker, result[i].counts, h, result[i].failed, 0)
           /\ Say(ToolMsg(i))
           /\ IF i < calls
              THEN merged' = i /\ UNCHANGED <<calls, tool, result>>
              ELSE /\ merged' = 0 /\ calls' = 0
                   /\ tool' = NoTools /\ result' = NoResults
           /\ IF result[i].usage = NoUsage
              THEN Go(AfterBatch) /\ UNCHANGED <<tracker, spent, resume>>
              ELSE Charge(result[i].usage, AfterBatch) /\ spent' = spent + result[i].usage.total
    /\ UNCHANGED <<state, iter, maxIter, extended, useFallback, llmUsage, attempt, pendingApprovals,
                   open, cancelled, execution, stores, recharged, grants, client>>

(* One attempt of AddConversationMessagesActivity: the first k messages go  *)
(* to the store one by one, those whose AddMessage fails are skipped.       *)
AddMessages(k) ==
    \E skipped \in SUBSET (1..k) :
        /\ lost' = lost \cup {messages[j] : j \in skipped}
        /\ Cardinality(lost') <= MaxLost
        /\ LET kept == {j \in 1..k : j \notin skipped}
               nth(n) == CHOOSE j \in kept : Cardinality({x \in kept : x <= j}) = n
           IN  store' = store \o [n \in 1..Cardinality(kept) |-> messages[nth(n)]]

Completes == AddMessages(Len(messages)) /\ UNCHANGED died
Dies ==
    /\ died < MaxDied /\ died' = died + 1
    /\ \E k \in 0..Len(messages) : AddMessages(k)

(* The workflow sees an error: of the last attempt, or its own cancel,      *)
(* whatever the activity had written by then.                               *)
SaveFails == (cancelled \/ attempt = SaveAttempts) /\ (UNCHANGED stores \/ Dies)

(* An attempt that dies half-way is tried again from its first message. *)
SaveAttemptDies ==
    /\ pc \in {"save", "saveEnd"} /\ attempt < SaveAttempts /\ ~cancelled
    /\ Dies
    /\ attempt' = attempt + 1
    /\ UNCHANGED <<pc, state, locals, messages, batch, resume, cancelled, execution, outcome,
                   ghosts>>

(* Mutant of SaveRound: the messages are dropped whether saved or not. *)
SaveRoundDrops ==
    /\ pc = "save" /\ attempt' = 1
    /\ \/ ~cancelled /\ Completes /\ messages' = <<>>
       \/ SaveFails /\ messages' = <<>>
    /\ Go("history")
    /\ UNCHANGED <<state, locals, batch, resume, cancelled, execution, ghosts>>

(* The save of a round: the messages are dropped from the workflow only     *)
(* when the activity succeeded.                                             *)
SaveRound ==
    /\ pc = "save" /\ attempt' = 1
    /\ \/ ~cancelled /\ Completes /\ messages' = <<>>
       \/ SaveFails /\ UNCHANGED messages
    /\ Go("history")
    /\ UNCHANGED <<state, locals, batch, resume, cancelled, execution, ghosts>>

NextIteration ==
    /\ pc = "history"
    /\ iter' = iter + 1
    /\ Go(IF iter + 1 < maxIter THEN "llm" ELSE "saveEnd")
    /\ UNCHANGED <<state, maxIter, extended, useFallback, tracker, breaker, llmUsage, messages,
                   attempt, batch, resume, cancelled, execution, stores, ghosts>>

(* Mutant of Carried: the breaker starts afresh. *)
CarriedNoBreaker ==
    [iteration |-> iter + 1, messages |-> messages, tokens |-> tracker.tokens,
     cost |-> tracker.cost, wmTokens |-> tracker.wmTokens, wmCost |-> tracker.wmCost,
     useFallback |-> useFallback, extended |-> extended,
     extra |-> IF maxIter > MaxIter THEN maxIter - MaxIter ELSE 0, breaker |-> NewToolState]

Carried ==
    [iteration |-> iter + 1, messages |-> messages, tokens |-> tracker.tokens,
     cost |-> tracker.cost, wmTokens |-> tracker.wmTokens, wmCost |-> tracker.wmCost,
     useFallback |-> useFallback, extended |-> extended,
     extra |-> IF maxIter > MaxIter THEN maxIter - MaxIter ELSE 0, breaker |-> breaker]

(* The history is too long: the next execution starts from the carried      *)
(* state. A cancel request this execution has seen does not go with it;     *)
(* approval activities it has left open are completed by the cleanup.       *)
ContinueAsNew ==
    /\ pc = "history" /\ execution < MaxExecutions
    /\ state' = Carried
    /\ pendingApprovals' = {} /\ open' = {}
    /\ execution' = execution + 1
    /\ cancelled' = FALSE
    /\ Go("start")
    /\ UNCHANGED <<locals, messages, attempt, calls, tool, result, merged, resume, stores, ghosts>>

(* The save at the end fails the run only when there were no round saves. *)
SaveEnd ==
    /\ pc = "saveEnd" /\ attempt' = 1
    /\ \/ ~cancelled /\ Completes /\ Go("memory")
       \/ /\ SaveFails
          /\ IF SaveOnIteration THEN Go("memory")
             ELSE Exit(IF cancelled THEN "cancelled" ELSE "failed")
    /\ UNCHANGED <<state, locals, messages, batch, resume, cancelled, execution, ghosts>>

(* The run-end memory store cannot fail the run, but sees its cancel. *)
StoreMemory ==
    /\ pc = "memory"
    /\ Exit(IF StoreRunMemory /\ cancelled THEN "cancelled" ELSE "completed")
    /\ UNCHANGED <<state, locals, messages, attempt, batch, resume, cancelled, execution, stores,
                   ghosts>>

(* The deferred cleanup: the approval activities in the map are completed   *)
(* with a CanceledError, in a context that is not cancelled.                *)
Cleanup ==
    /\ pc = "exit"
    /\ \/ open' = open \ pendingApprovals
       \/ pendingApprovals # {} /\ UNCHANGED open
    /\ Go("closed")
    /\ UNCHANGED <<state, locals, messages, attempt, calls, tool, result, merged, resume,
                   pendingApprovals, cancelled, execution, stores, ghosts>>

(* Cancel of the run handle reaches the execution that is open now. *)
CancelRequested ==
    /\ pc \notin {"exit", "closed"} /\ ~cancelled
    /\ cancelled' = TRUE
    /\ UNCHANGED <<pc, state, locals, messages, attempt, batch, resume, execution, outcome,
                   stores, ghosts>>

Closed == pc = "closed" /\ UNCHANGED vars

LoopStep ==
    \/ Restore \/ RecallMemory \/ PrefetchRetrievers \/ BudgetApproval
    \/ LLMAttemptFails \/ FallbackFails \/ LLMCanceled \/ LLMReturns \/ FinalLLMReturns
    \/ Answer \/ DecideMaxIterations
    \/ StartBatch \/ CollectResult
    \/ SaveAttemptDies \/ SaveRound \/ NextIteration \/ ContinueAsNew
    \/ SaveEnd \/ StoreMemory \/ Cleanup

Next ==
    \/ LoopStep
    \/ \E i \in 1..MaxCalls : ToolAction(i) \/ ApprovalResolved(i)
    \/ CancelRequested \/ Closed

(* Workers run the tasks, activities end or time out: the approval ones     *)
(* have ApprovalTimeout as their StartToClose timeout.                      *)
Fairness ==
    /\ WF_vars(LoopStep)
    /\ \A i \in 1..MaxCalls : WF_vars(ToolAction(i)) /\ WF_vars(ApprovalResolved(i))

Spec == Init /\ [][Next]_vars /\ Fairness
-----------------------------------------------------------------------------
TypeOK ==
    /\ pc \in {"start", "recall", "prefetch", "budget", "llm", "final", "answer", "decide", "batch", "tools",
               "save", "history", "saveEnd", "memory", "exit", "closed"}
    /\ iter \in Nat /\ maxIter \in Nat /\ tracker \in Tracker /\ llmUsage \in LLMUsage
    /\ attempt \in Nat /\ calls \in 0..MaxCalls /\ merged \in 0..MaxCalls
    /\ pendingApprovals \subseteq 1..MaxCalls /\ open \subseteq 1..MaxCalls
    /\ lost \subseteq Message
    /\ outcome \in {"none", "completed", "failed", "cancelled", "budgetExceeded",
                    "approvalUnavailable"}

(* The budget is one over the chain of executions: the totals are those of  *)
(* everything reported so far, and of what was charged for replies without  *)
(* usage, and the loop never goes on over its limits, nor without as many   *)
(* grants as it has used up windows. A window is overrun by the charge that *)
(* uses it up, and by no other.                                             *)
BudgetCarried ==
    /\ pc # "start" => tracker.tokens = spent + recharged
    /\ pc \in {"llm", "final", "decide", "batch", "tools", "save"} =>
          /\ ~checkLimits(tracker)
          /\ MaxTokens > 0 =>
                tracker.tokens < grants * (tokenWindow + MaxCallTokens - 1) + tokenWindow

(* What a run has decided it does not take back, in this execution or a     *)
(* later one: a tripped tool stays skipped, and "FallbackModel - use        *)
(* FallbackLLMClient for the rest of the run".                              *)
ChoicesSurvive ==
    [][/\ breaker.tripped => breaker'.tripped
       /\ client = "fallback" => client' = "fallback"]_vars

(* s is t in order, with repetitions: it has the messages of t, which are   *)
(* all different, and a message comes after the first copies of the earlier *)
(* ones.                                                                    *)
Shows(s, t) ==
    /\ Elements(s) = Elements(t)
    /\ \A i, j \in 1..Len(t) : i < j =>
          /\ t[i] # t[j]
          /\ \A q \in 1..Len(s) : s[q] = t[j] => \E p \in 1..(q - 1) : s[p] = t[i]

(* After a message of t comes, in s, every later one of t. *)
Follows(s, t) ==
    \A i, j \in 1..Len(t) : i < j =>
        \A q \in 1..Len(s) : s[q] = t[i] => \E p \in (q + 1)..Len(s) : s[p] = t[j]

(* s is an end of t, with repetitions. *)
EndsAs(s, t) ==
    /\ t[Len(t)] \in Elements(s) /\ Elements(s) \subseteq Elements(t)
    /\ Follows(s, t)

(* What the model is shown: the stored conversation and the messages the    *)
(* workflow still holds are the transcript of the run in order, repeated    *)
(* where an attempt to save was repeated, and missing only what the store   *)
(* refused. Of a stored conversation longer than the limit it is shown the  *)
(* end: then the earliest messages are missing, and no later one.           *)
RequestComplete ==
    InCall /\ lost = {} =>
        /\ EndsAs(Request, transcript)
        /\ Len(store) <= limit => Shows(Request, transcript)

(* Every run ends, whoever does not answer and however often it continues   *)
(* as new.                                                                  *)
Termination == <>(pc = "closed")

=============================================================================
