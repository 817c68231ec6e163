----------------------------- MODULE AgentLoop -----------------------------
(***************************************************************************)
(* The agent loop of the local runtime (internal/runtime/local/            *)
(* agent_loop.go) over a session: several runs that share one conversation *)
(* store. A run reads the history, alternates LLM calls and tool batches,  *)
(* falls back to a second model, extends its iterations once, and saves    *)
(* its messages after every round or at its end. A message is the place it *)
(* has in the transcript; texts, arguments and results are left out. What  *)
(* the budget decides is a free choice here (RunBudget models it), and so  *)
(* are the answers of models, tools, authorizers and approvers.            *)
(***************************************************************************)
EXTENDS Integers, Sequences, FiniteSets

CONSTANTS
    Runs,              \* the runs of the session
    Concurrent,        \* runs may overlap; otherwise each waits for the last
    MaxIter,           \* Limits.MaxIterations, defaulted
    ExtraOffers,       \* ExtraIterations OnMaxIterationsExceeded can return; 0 = final call
    MaxCalls,          \* bound: tool calls of one LLM response
    Sequential,        \* ToolExecutionMode sequential
    SaveOnIteration,   \* Session.ConversationSaveOnIteration
    ConversationSize,  \* messages of history a run loads (default 20)
    StoreMaxSize,      \* messages the store keeps (default 100)
    HasFallback,       \* OnLLMFailure may ask for a resolvable fallback model
    HasBudget,         \* the run has a budget that may stop it
    MaxLost            \* bound: AddMessage calls that fail

ASSUME LoopAssumption ==
    /\ IsFiniteSet(Runs)
    /\ MaxIter \in Nat \ {0} /\ MaxCalls \in Nat \ {0}
    /\ ExtraOffers \subseteq Int
    /\ ConversationSize \in Nat \ {0} /\ StoreMaxSize \in Nat \ {0}
    /\ MaxLost \in Nat
    /\ {Concurrent, Sequential, SaveOnIteration, HasFallback, HasBudget} \subseteq BOOLEAN

VARIABLES
    pc,           \* pc[r]: control state of run r
    iter,         \* loop index
    maxIter,      \* loop bound, extension included
    extended,     \* iterationsExtended
    useFallback,  \* the loop has switched to the fallback model
    final,        \* the call in progress is the forced one without tools
    messages,     \* the transcript the next LLM call sends
    persisted,    \* persistedMessageCount
    calls,        \* tool calls of the current response
    tool,         \* tool[r][i]: state of tool call i of the batch
    client,       \* model of the latest LLM call
    made,         \* LLM calls invoked
    completed,    \* LLM calls that returned a response, numbering the responses
    content,      \* lastContent: the number of the response it holds, 0 = ""
    outcome,      \* how the run ended
    conv,         \* the stored conversation
    lost          \* messages whose AddMessage failed

loopVars == <<iter, maxIter, extended, useFallback, final>>
llmVars  == <<client, made, completed, content>>
toolVars == <<calls, tool>>
storeVars == <<conv, lost>>
vars == <<pc, iter, maxIter, extended, useFallback, final, messages, persisted, calls,
          tool, client, made, completed, content, outcome, conv, lost>>

\* n is the number of tool calls of an assistant message, the index of a tool result.
Message == [run : Runs, iter : Nat, role : {"user", "assistant", "tool"}, n : Nat]
UserMsg(r)         == [run |-> r, iter |-> 0, role |-> "user", n |-> 0]
AssistantMsg(r, k) == [run |-> r, iter |-> iter[r], role |-> "assistant", n |-> k]
ToolMsg(r, i)      == [run |-> r, iter |-> iter[r], role |-> "tool", n |-> i]

Active == {r \in Runs : pc[r] \notin {"new", "done"}}
NoTools == [i \in 1..MaxCalls |-> "idle"]
LastN(s, n) == IF Len(s) <= n THEN s ELSE SubSeq(s, Len(s) - n + 1, Len(s))

Init ==
    /\ pc = [r \in Runs |-> "new"]
    /\ iter = [r \in Runs |-> 0]
    /\ maxIter = [r \in Runs |-> MaxIter]
    /\ extended = [r \in Runs |-> FALSE]
    /\ useFallback = [r \in Runs |-> FALSE]
    /\ final = [r \in Runs |-> FALSE]
    /\ messages = [r \in Runs |-> <<>>]
    /\ persisted = [r \in Runs |-> 0]
    /\ calls = [r \in Runs |-> 0]
    /\ tool = [r \in Runs |-> NoTools]
    /\ client = [r \in Runs |-> "none"]
    /\ made = [r \in Runs |-> 0]
    /\ completed = [r \in Runs |-> 0]
    /\ content = [r \in Runs |-> 0]
    /\ outcome = [r \in Runs |-> "none"]
    /\ conv = <<>>
    /\ lost = {}

Goto(r, l) == pc' = [pc EXCEPT ![r] = l]
End(r, o)  == Goto(r, "done") /\ outcome' = [outcome EXCEPT ![r] = o]
Go(r, l)   == Goto(r, l) /\ UNCHANGED outcome
-----------------------------------------------------------------------------

(* The history of the conversation in front of the user's prompt, or the    *)
(* prompt alone when the store cannot be read.                              *)
FetchConversationMessages(r) ==
    /\ pc[r] = "new"
    /\ Concurrent \/ Active = {}
    /\ \E history \in {LastN(conv, ConversationSize), <<>>} :
        /\ messages' = [messages EXCEPT ![r] = Append(history, UserMsg(r))]
        /\ persisted' = [persisted EXCEPT ![r] = Len(history)]
    /\ Go(r, "prefetch")
    /\ UNCHANGED <<loopVars, llmVars, toolVars, storeVars>>

(* Memory recall and retriever prefetch; an error of either ends the run. *)
Prefetch(r) ==
    /\ pc[r] = "prefetch"
    /\ Go(r, "llm") \/ End(r, "failed")
    /\ UNCHANGED <<loopVars, messages, persisted, llmVars, toolVars, storeVars>>
-----------------------------------------------------------------------------
(* invokeLLM: the bookkeeping of one call, retries of the policy included.  *)
Fallback(r) == pc[r] = "fallback" \/ useFallback[r]

invokeLLM(r) ==
    /\ pc[r] \in {"llm", "fallback"}
    /\ made' = [made EXCEPT ![r] = @ + 1]
    /\ client' = [client EXCEPT ![r] = IF Fallback(r) THEN "fallback" ELSE "primary"]

(* The call fails after its retries. The first failure of the primary model *)
(* may be answered with the fallback; any other one ends the run.           *)
LLMFails(r) ==
    /\ invokeLLM(r)
    /\ \/ ~Fallback(r) /\ HasFallback /\ Go(r, "fallback")
       \/ End(r, "failed")
    /\ UNCHANGED <<loopVars, messages, persisted, completed, content, toolVars, storeVars>>

(* Mutant of LLMResponds: the fallback serves one call only. *)
LLMRespondsForgets(r) ==
    /\ invokeLLM(r)
    /\ completed' = [completed EXCEPT ![r] = @ + 1]
    /\ UNCHANGED useFallback

LLMResponds(r) ==
    /\ invokeLLM(r)
    /\ completed' = [completed EXCEPT ![r] = @ + 1]
    /\ useFallback' = [useFallback EXCEPT ![r] = Fallback(r)]

(* checkBudget says stop: ErrBudgetExceeded with the content so far. *)
BudgetStop(r) ==
    /\ HasBudget
    /\ End(r, "budget")
    /\ UNCHANGED content

Answer(r) ==
    /\ messages' = [messages EXCEPT ![r] = Append(@, AssistantMsg(r, 0))]
    /\ content' = [content EXCEPT ![r] = completed[r] + 1]
    /\ Go(r, "saveEnd")

(* An assistant message that asks for k tools goes into the transcript, and *)
(* its batch starts.                                                        *)
StartBatch(r, k) ==
    /\ messages' = [messages EXCEPT ![r] = Append(@, AssistantMsg(r, k))]
    /\ tool' = [tool EXCEPT ![r] = NoTools]
    /\ Go(r, "tools")

(* A response of an ordinary call: the answer, a tool batch, or, in the     *)
(* last iteration, the decision about more iterations.                      *)
LLMReturns(r) ==
    /\ ~final[r]
    /\ LLMResponds(r)
    /\ \E k \in 0..MaxCalls :
        /\ calls' = [calls EXCEPT ![r] = k]
        /\ \/ BudgetStop(r) /\ UNCHANGED <<messages, tool>>
           \/ k = 0 /\ Answer(r) /\ UNCHANGED tool
           \/ /\ k > 0 /\ iter[r] = maxIter[r] - 1
              /\ Go(r, "decide")
              /\ UNCHANGED <<messages, content, tool>>
           \/ /\ k > 0 /\ iter[r] # maxIter[r] - 1
              /\ StartBatch(r, k)
              /\ UNCHANGED content
    /\ UNCHANGED <<iter, maxIter, extended, final, persisted, storeVars>>

(* The forced call without tools ends the loop; whether it fell back is not *)
(* remembered.                                                              *)
FinalLLMReturns(r) ==
    /\ final[r]
    /\ invokeLLM(r)
    /\ completed' = [completed EXCEPT ![r] = @ + 1]
    /\ \/ BudgetStop(r) /\ UNCHANGED messages
       \/ Answer(r)
    /\ UNCHANGED <<loopVars, persisted, toolVars, storeVars>>

ClampExtraIterations(extra) ==
    IF extra < 1 THEN 0 ELSE IF extra > MaxIter THEN MaxIter ELSE extra

(* The hook's decision in the last iteration: more rounds, granted once and *)
(* capped, or the final call.                                               *)
DecideMaxIterations(r) ==
    /\ pc[r] = "decide"
    /\ \E offer \in ExtraOffers :
        LET extra == ClampExtraIterations(offer)
        IN  IF ~extended[r] /\ extra >= 1
            THEN /\ maxIter' = [maxIter EXCEPT ![r] = @ + extra]
                 /\ extended' = [extended EXCEPT ![r] = TRUE]
                 /\ StartBatch(r, calls[r])
                 /\ UNCHANGED final
            ELSE /\ final' = [final EXCEPT ![r] = TRUE]
                 /\ Go(r, "llm")
                 /\ UNCHANGED <<maxIter, extended, messages, tool>>
    /\ UNCHANGED <<iter, useFallback, persisted, llmVars, calls, storeVars>>
-----------------------------------------------------------------------------
(* executeSingleTool, the waits of one call in turn. A call ends with a     *)
(* result, or aborts with an error that its batch makes a tool message.     *)
Over == {"ended", "aborted"}

ToolStep(r, i, from, to) ==
    /\ pc[r] = "tools" /\ i <= calls[r] /\ tool[r][i] = from
    /\ tool' = [tool EXCEPT ![r][i] = to]
    /\ UNCHANGED <<pc, outcome, loopVars, messages, persisted, llmVars, calls, storeVars>>

\* An unknown tool and a tripped one end at once.
ToolStart(r, i) ==
    /\ Sequential => \A j \in 1..(i - 1) : tool[r][j] \in Over
    /\ \E to \in {"auth", "ended"} : ToolStep(r, i, "idle", to)

\* AuthorizeTool fails, denies, or allows, with or without an approval.
ToolAuthorize(r, i) ==
    \E to \in {"aborted", "ended", "approval", "exec"} : ToolStep(r, i, "auth", to)

\* Approved; rejected or unavailable; timed out, cancelled or of unknown status.
ToolApproval(r, i) ==
    \E to \in {"exec", "ended", "aborted"} : ToolStep(r, i, "approval", to)

\* ExecuteTool or a delegation: its error is a result too.
ToolExecute(r, i) == ToolStep(r, i, "exec", "ended")

ToolAction(r, i) ==
    ToolStart(r, i) \/ ToolAuthorize(r, i) \/ ToolApproval(r, i) \/ ToolExecute(r, i)

NextIteration(r) ==
    /\ iter' = [iter EXCEPT ![r] = @ + 1]
    /\ Go(r, IF iter[r] + 1 < maxIter[r] THEN "llm" ELSE "saveEnd")

BatchOver(r) == pc[r] = "tools" /\ \A i \in 1..calls[r] : tool[r][i] \in Over

(* Mutant of Results: only the calls that ran leave a message. *)
ResultsOfEnded(r) ==
    SelectSeq([i \in 1..calls[r] |-> ToolMsg(r, i)], LAMBDA m : tool[r][m.n] = "ended")

Results(r) == [i \in 1..calls[r] |-> ToolMsg(r, i)]

(* The results join the transcript in the order of the calls; the budget is *)
(* enforced, and the round saved if configured.                             *)
CollectResults(r) ==
    /\ BatchOver(r)
    /\ messages' = [messages EXCEPT ![r] = @ \o Results(r)]
    /\ \/ BudgetStop(r) /\ UNCHANGED iter
       \/ /\ IF SaveOnIteration
             THEN Go(r, "saveRound") /\ UNCHANGED iter
             ELSE NextIteration(r)
          /\ UNCHANGED content
    /\ UNCHANGED <<maxIter, extended, useFallback, final, persisted, client, made, completed,
                   toolVars, storeVars>>
-----------------------------------------------------------------------------

(* Mutant of SaveMessage: the first failure ends the save. *)
SaveMessageGivesUp(r) ==
    /\ pc[r] \in {"saveRound", "saveEnd"} /\ persisted[r] < Len(messages[r])
    /\ LET msg == messages[r][persisted[r] + 1]
       IN  \/ /\ conv' = LastN(Append(conv, msg), StoreMaxSize)
              /\ persisted' = [persisted EXCEPT ![r] = @ + 1]
              /\ UNCHANGED lost
           \/ /\ Cardinality(lost) < MaxLost
              /\ lost' = lost \cup {msg}
              /\ persisted' = [persisted EXCEPT ![r] = Len(messages[r])]
              /\ UNCHANGED conv
    /\ UNCHANGED <<pc, outcome, loopVars, messages, llmVars, toolVars>>

(* persistConversationMessages, one AddMessage: a failure is logged and the *)
(* message is skipped.                                                      *)
SaveMessage(r) ==
    /\ pc[r] \in {"saveRound", "saveEnd"} /\ persisted[r] < Len(messages[r])
    /\ LET msg == messages[r][persisted[r] + 1]
       IN  \/ conv' = LastN(Append(conv, msg), StoreMaxSize) /\ UNCHANGED lost
           \/ Cardinality(lost) < MaxLost /\ lost' = lost \cup {msg} /\ UNCHANGED conv
    /\ persisted' = [persisted EXCEPT ![r] = @ + 1]
    /\ UNCHANGED <<pc, outcome, loopVars, messages, llmVars, toolVars>>

SaveRoundDone(r) ==
    /\ pc[r] = "saveRound" /\ persisted[r] = Len(messages[r])
    /\ NextIteration(r)
    /\ UNCHANGED <<maxIter, extended, useFallback, final, messages, persisted, llmVars,
                   toolVars, storeVars>>

(* The run-end memory store cannot fail the run. *)
RunCompletes(r) ==
    /\ pc[r] = "saveEnd" /\ persisted[r] = Len(messages[r])
    /\ End(r, "completed")
    /\ UNCHANGED <<loopVars, messages, persisted, llmVars, toolVars, storeVars>>

LoopStep(r) ==
    \/ Prefetch(r)
    \/ LLMFails(r) \/ LLMReturns(r) \/ FinalLLMReturns(r) \/ DecideMaxIterations(r)
    \/ CollectResults(r) \/ SaveMessage(r) \/ SaveRoundDone(r) \/ RunCompletes(r)

SessionOver == Active = {} /\ \A r \in Runs : pc[r] = "done"

Next ==
    \/ \E r \in Runs : FetchConversationMessages(r) \/ LoopStep(r)
    \/ \E r \in Runs, i \in 1..MaxCalls : ToolAction(r, i)
    \/ SessionOver /\ UNCHANGED vars

(* Calls to models, tools, authorizers and the store return, approvals are  *)
(* answered or time out.                                                    *)
Fairness ==
    /\ \A r \in Runs : WF_vars(LoopStep(r))
    /\ \A r \in Runs, i \in 1..MaxCalls : WF_vars(ToolAction(r, i))

Spec == Init /\ [][Next]_vars /\ Fairness
-----------------------------------------------------------------------------
PCs == {"new", "prefetch", "llm", "fallback", "decide", "tools", "saveRound", "saveEnd", "done"}

TypeOK ==
    /\ pc \in [Runs -> PCs]
    /\ iter \in [Runs -> Nat] /\ maxIter \in [Runs -> Nat]
    /\ extended \in [Runs -> BOOLEAN]
    /\ useFallback \in [Runs -> BOOLEAN]
    /\ final \in [Runs -> BOOLEAN]
    /\ messages \in [Runs -> Seq(Message)]
    /\ persisted \in [Runs -> Nat]
    /\ calls \in [Runs -> 0..MaxCalls]
    /\ tool \in [Runs -> [1..MaxCalls -> {"idle", "auth", "approval", "exec"} \cup Over]]
    /\ client \in [Runs -> {"none", "primary", "fallback"}]
    /\ made \in [Runs -> Nat] /\ completed \in [Runs -> Nat]
    /\ content \in [Runs -> Nat]
    /\ outcome \in [Runs -> {"none", "completed", "failed", "budget"}]
    /\ \A r \in Runs : persisted[r] <= Len(messages[r])
    /\ conv \in Seq(Message) /\ Len(conv) <= StoreMaxSize
    /\ lost \subseteq Message

Elements(s) == {s[i] : i \in 1..Len(s)}

(* A transcript a chat model accepts: every assistant message that asks for *)
(* tools is followed by one result per call in order, and every tool result *)
(* answers such a message.                                                  *)
WellFormed(s) ==
    /\ \A i \in 1..Len(s) : s[i].role = "assistant" =>
        \A j \in 1..s[i].n :
            /\ i + j <= Len(s)
            /\ s[i + j] = [s[i] EXCEPT !.role = "tool", !.n = j]
    /\ \A i \in 1..Len(s) : s[i].role = "tool" =>
        /\ i - s[i].n >= 1
        /\ LET a == s[i - s[i].n]
           IN  a.role = "assistant" /\ a.run = s[i].run /\ a.iter = s[i].iter /\ a.n >= s[i].n

(* What multi-step chats need to stay coherent: every LLM call of every run *)
(* of the session is made with a well-formed transcript, whatever earlier   *)
(* runs failed at, unless the store has lost messages.                      *)
RequestWellFormed ==
    \A r \in Runs : pc[r] \in {"llm", "fallback"} /\ lost = {} => WellFormed(messages[r])

(* No message is written to the conversation twice, neither by the round    *)
(* saves followed by the save at the end nor by a later run that has loaded *)
(* it as history. A run that completed has saved its whole transcript,      *)
(* prompt and answer included, except for what the store failed to take; a  *)
(* run that did not has saved whole rounds.                                 *)
SavedWhole ==
    /\ \A i, j \in 1..Len(conv) : conv[i] = conv[j] => i = j
    /\ \A r \in Runs :
        /\ outcome[r] = "completed" =>
             Elements(messages[r]) \subseteq Elements(conv) \cup lost
        /\ pc[r] = "done" =>
             \A m \in Elements(conv) : m.run = r /\ m.role = "assistant" =>
                 \A j \in 1..m.n :
                    [m EXCEPT !.role = "tool", !.n = j] \in Elements(conv) \cup lost

(* The LLM calls of one run are bounded whatever hooks and models answer:   *)
(* the iterations, doubled by the one extension, the forced call, and the   *)
(* one failed call of the primary model that the fallback replaced.         *)
CallsBounded == \A r \in Runs : made[r] <= 2 * MaxIter + 2

(* "FallbackModel - use FallbackLLMClient for the rest of the run": after a *)
(* call to the fallback model the primary one is not called again.          *)
FallbackSticky ==
    [][\A r \in Runs : client[r] = "fallback" => client'[r] = "fallback"]_vars

(* Every run that starts ends. *)
Termination == \A r \in Runs : pc[r] = "prefetch" ~> pc[r] = "done"
-----------------------------------------------------------------------------
(* The inductive invariant behind CallsBounded and FallbackSticky.          *)

LoopTypes ==
    /\ pc \in [Runs -> PCs]
    /\ iter \in [Runs -> Nat] /\ maxIter \in [Runs -> Nat] /\ made \in [Runs -> Nat]
    /\ extended \in [Runs -> BOOLEAN]
    /\ useFallback \in [Runs -> BOOLEAN]
    /\ final \in [Runs -> BOOLEAN]
    /\ client \in [Runs -> {"none", "primary", "fallback"}]

(* The loop bound is the configured one, at most doubled by one extension,  *)
(* and a run inside the loop is below it.                                   *)
IterationBound(r) ==
    /\ maxIter[r] <= IF extended[r] THEN 2 * MaxIter ELSE MaxIter
    /\ pc[r] \in PCs \ {"saveEnd", "done"} => iter[r] < maxIter[r]

(* One call for each iteration, one for the primary call that the fallback  *)
(* replaced, one for the forced call.                                       *)
CallCount(r) ==
    LET replaced == IF useFallback[r] THEN 1 ELSE 0
        forced   == IF final[r] THEN 1 ELSE 0
    IN  /\ pc[r] \in {"new", "prefetch", "llm"} => made[r] <= iter[r] + replaced + forced
        /\ pc[r] = "fallback" => ~useFallback[r] /\ made[r] <= iter[r] + 1 + forced
        /\ pc[r] \in {"decide", "tools", "saveRound"} =>
               ~final[r] /\ made[r] <= iter[r] + 1 + replaced
        /\ made[r] <= 2 * MaxIter + 2

(* The latest call went to the fallback model only if the loop remembers it *)
(* or is over.                                                              *)
FallbackRemembered(r) ==
    client[r] = "fallback" => useFallback[r] \/ pc[r] \in {"saveEnd", "done"}

LoopInv ==
    /\ LoopTypes
    /\ \A r \in Runs : IterationBound(r) /\ CallCount(r) /\ FallbackRemembered(r)
=============================================================================
