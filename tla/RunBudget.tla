----------------------------- MODULE RunBudget -----------------------------
(***************************************************************************)
(* Budget enforcement over one local run tree (internal/runtime/local/     *)
(* agent_loop.go): a root agent loop and the sub-agent loops it delegates  *)
(* to, all adding LLM usage to one shared tracker. Only the root applies   *)
(* OnExceeded; a sub-agent whose Add breaches stops with ErrBudgetExceeded *)
(* and the root enforces once its whole tool batch is back. Sub-agents of  *)
(* one batch run concurrently (parallel tool execution).                   *)
(***************************************************************************)
EXTENDS BudgetTracker

CONSTANTS
    Children,          \* sub-agents the root can delegate to
    Usages,            \* usages an LLM call can report
    MaxCallTokens,     \* bound on the tokens of one LLM call
    MaxIter,           \* iterations of the root loop, an extension included
    ChildMaxIter,      \* LLM calls of one sub-agent attempt
    SubAgentAttempts,  \* MaxAttempts of the sub-agent execution policy
    HasApprover        \* an ApprovalHandler or an event channel exists

ASSUME RunTreeAssumption ==
    /\ IsFiniteSet(Children)
    /\ Usages \subseteq LLMUsage
    /\ MaxCallTokens \in Nat
    /\ \A u \in Usages : u.total <= MaxCallTokens
    /\ MaxIter \in Nat \ {0} /\ ChildMaxIter \in Nat \ {0}
    /\ SubAgentAttempts \in Nat \ {0}
    /\ HasApprover \in BOOLEAN

VARIABLES
    tracker,   \* the shared BudgetTracker
    root,      \* control state of the root loop
    resume,    \* where the root continues when the pending approval is granted
    iter,      \* root iteration
    child,     \* child[c]: "idle" or "running" or "returned"
    calls,     \* LLM calls child c made in its current attempt
    attempt,   \* attempt number of child c under executeWithPolicy
    over,      \* the attempts <<c, k>> of this batch that ended in ErrBudgetExceeded
    ctxDone    \* the run context is cancelled or past its deadline

vars == <<tracker, root, resume, iter, child, calls, attempt, over, ctxDone>>

childVars == <<child, calls, attempt, over>>

Terminal == {"completed", "budgetExceeded", "approvalUnavailable", "failed"}
Running  == {"llm", "llmFinal", "tools"}
RootStates == Running \cup {"toolsWait", "await"} \cup Terminal

AttemptIds == Children \X (1..SubAgentAttempts)

Init ==
    /\ tracker = NewBudgetTracker
    /\ root = "llm"
    /\ resume = "llm"
    /\ iter = 0
    /\ child = [c \in Children |-> "idle"]
    /\ calls = [c \in Children |-> 0]
    /\ attempt = [c \in Children |-> 1]
    /\ over = {}
    /\ ctxDone = FALSE

(* applyBudgetExceeded on a tracker t that is in breach; next is where the  *)
(* loop goes on when the breach is approved.                                *)
applyBudgetExceeded(t, next) ==
    IF OnExceeded = "wait_for_approval" /\ ~ApprovalsExhausted(t)
    THEN IF HasApprover
         THEN root' = "await" /\ resume' = next
         ELSE root' = "approvalUnavailable" /\ UNCHANGED resume
    ELSE root' = "budgetExceeded" /\ UNCHANGED resume

(* checkBudget of the root after an LLM call with usage u. *)
checkBudget(u, next) ==
    /\ tracker' = Add(tracker, u)
    /\ IF checkLimits(Add(tracker, u))
       THEN applyBudgetExceeded(Add(tracker, u), next)
       ELSE root' = next /\ UNCHANGED resume

(* Where the loop goes after an LLM response: done when the model asked for *)
(* no tool, the forced call without tools in the last iteration, else the   *)
(* tool batch.                                                              *)
AfterLLM(hasToolCalls) ==
    IF ~hasToolCalls THEN "completed"
    ELSE IF iter = MaxIter - 1 THEN "llmFinal"
    ELSE "tools"

RootLLM ==
    /\ root = "llm"
    /\ \E u \in Usages, hasToolCalls \in BOOLEAN :
           checkBudget(u, AfterLLM(hasToolCalls))
    /\ UNCHANGED <<iter, childVars, ctxDone>>

RootFinalLLM ==
    /\ root = "llmFinal"
    /\ \E u \in Usages : checkBudget(u, "completed")
    /\ UNCHANGED <<iter, childVars, ctxDone>>

(* A provider that reports no usage (nil): Add returns without a check. *)
RootUnmetered ==
    /\ \/ root = "llm" /\ \E hasToolCalls \in BOOLEAN : root' = AfterLLM(hasToolCalls)
       \/ root = "llmFinal" /\ root' = "completed"
    /\ UNCHANGED <<tracker, resume, iter, childVars, ctxDone>>

(* The LLM call of the root returns an error (retries exhausted, or the run *)
(* context is done): nothing is added and the run fails.                    *)
RootLLMError ==
    /\ root \in {"llm", "llmFinal"}
    /\ root' = "failed"
    /\ UNCHANGED <<tracker, resume, iter, childVars, ctxDone>>

(* executeToolsParallel starts one goroutine per call; S are the calls that *)
(* delegate to a sub-agent, the other tools do not touch the tracker.       *)
StartTools ==
    /\ root = "tools"
    /\ \E S \in SUBSET Children :
           child' = [c \in Children |-> IF c \in S THEN "running" ELSE "idle"]
    /\ calls' = [c \in Children |-> 0]
    /\ attempt' = [c \in Children |-> 1]
    /\ over' = {}
    /\ root' = "toolsWait"
    /\ UNCHANGED <<tracker, resume, iter, ctxDone>>

(* executeWithPolicy after a failed sub-agent attempt: another attempt from *)
(* the start while attempts are left and the run context is live, else the  *)
(* error text becomes the tool result.                                      *)
FailAttempt(c) ==
    \/ /\ attempt[c] < SubAgentAttempts /\ ~ctxDone
       /\ attempt' = [attempt EXCEPT ![c] = @ + 1]
       /\ calls' = [calls EXCEPT ![c] = 0]
       /\ UNCHANGED child
    \/ /\ attempt[c] >= SubAgentAttempts \/ ctxDone
       /\ child' = [child EXCEPT ![c] = "returned"]
       /\ UNCHANGED <<attempt, calls>>

(* A sub-agent goes on: one more LLM call of its loop, or its result. *)
ChildContinues(c) ==
    /\ \/ /\ calls[c] + 1 < ChildMaxIter
          /\ calls' = [calls EXCEPT ![c] = @ + 1]
          /\ UNCHANGED child
       \/ /\ child' = [child EXCEPT ![c] = "returned"]
          /\ UNCHANGED calls
    /\ UNCHANGED <<attempt, over>>

(* checkBudget of a sub-agent (EnforceBudget = false): add to the shared    *)
(* tracker, and on breach end this attempt with ErrBudgetExceeded.          *)
ChildLLM(c) ==
    /\ child[c] = "running"
    /\ \E u \in Usages :
        /\ tracker' = Add(tracker, u)
        /\ IF checkLimits(Add(tracker, u))
           THEN /\ over' = over \cup {<<c, attempt[c]>>}
                /\ FailAttempt(c)
           ELSE ChildContinues(c)
    /\ UNCHANGED <<root, resume, iter, ctxDone>>

(* A sub-agent's call without reported usage is not stopped, even when the  *)
(* tree is already over its limits.                                         *)
ChildUnmetered(c) ==
    /\ child[c] = "running"
    /\ ChildContinues(c)
    /\ UNCHANGED <<tracker, root, resume, iter, ctxDone>>

(* A sub-agent attempt fails for another reason. *)
ChildError(c) ==
    /\ child[c] = "running"
    /\ FailAttempt(c)
    /\ UNCHANGED <<tracker, root, resume, iter, over, ctxDone>>

(* Mutant of ToolsReturned: the root does not look at the shared tracker. *)
ToolsReturnedUnchecked ==
    /\ root = "toolsWait"
    /\ \A c \in Children : child[c] # "running"
    /\ root' = "llm"
    /\ iter' = iter + 1
    /\ UNCHANGED <<tracker, resume, childVars, ctxDone>>

(* wg.Wait, then enforceBudgetIfExceeded, then the next iteration. *)
ToolsReturned ==
    /\ root = "toolsWait"
    /\ \A c \in Children : child[c] # "running"
    /\ IF checkLimits(tracker)
       THEN applyBudgetExceeded(tracker, "llm")
       ELSE root' = "llm" /\ UNCHANGED resume
    /\ iter' = iter + 1
    /\ UNCHANGED <<tracker, childVars, ctxDone>>

(* The pending budget approval is granted: the watermark moves to the       *)
(* totals of now and the loop goes on where it paused.                      *)
BudgetApproved ==
    /\ root = "await"
    /\ tracker' = AdvanceWatermark(tracker)
    /\ root' = resume
    /\ UNCHANGED <<resume, iter, childVars, ctxDone>>

(* Rejected by the caller, or timed out in durable mode: both end the run   *)
(* with ErrBudgetExceeded.                                                  *)
BudgetDenied ==
    /\ root = "await"
    /\ root' = "budgetExceeded"
    /\ UNCHANGED <<tracker, resume, iter, childVars, ctxDone>>

(* Mutant of AwaitInterrupted: the wait does not select on ctx.Done(). *)
AwaitIgnoresContext == root = "await" /\ ctxDone /\ UNCHANGED vars

(* awaitBudgetApprovalStatus sees ctx.Done(): counted as a rejection. *)
AwaitInterrupted ==
    /\ root = "await" /\ ctxDone
    /\ root' = "budgetExceeded"
    /\ UNCHANGED <<tracker, resume, iter, childVars, ctxDone>>

(* Cancel, or the run deadline. *)
ContextDone ==
    /\ ~ctxDone /\ root \notin Terminal
    /\ ctxDone' = TRUE
    /\ UNCHANGED <<tracker, root, resume, iter, childVars>>

Finished ==
    /\ root \in Terminal
    /\ UNCHANGED vars

Step ==
    \/ RootLLM \/ RootFinalLLM \/ RootUnmetered \/ RootLLMError
    \/ StartTools \/ ToolsReturned
    \/ \E c \in Children : ChildLLM(c) \/ ChildUnmetered(c) \/ ChildError(c)
    \/ BudgetApproved \/ BudgetDenied \/ AwaitInterrupted

Next == Step \/ ContextDone \/ Finished

(* Goroutines keep running and the run deadline passes eventually; nobody   *)
(* has to answer an approval.                                               *)
Fairness ==
    /\ WF_vars(RootLLM \/ RootFinalLLM \/ RootUnmetered \/ RootLLMError)
    /\ WF_vars(StartTools) /\ WF_vars(ToolsReturned)
    /\ \A c \in Children : WF_vars(ChildLLM(c) \/ ChildUnmetered(c) \/ ChildError(c))
    /\ WF_vars(AwaitInterrupted)
    /\ WF_vars(ContextDone)

Spec == Init /\ [][Next]_vars /\ Fairness
-----------------------------------------------------------------------------
TypeOK ==
    /\ tracker \in Tracker
    /\ root \in RootStates
    /\ resume \in Running \cup {"completed"}
    /\ iter \in Nat
    /\ child \in [Children -> {"idle", "running", "returned"}]
    /\ calls \in [Children -> Nat]
    /\ attempt \in [Children -> 1..SubAgentAttempts]
    /\ over \in SUBSET AttemptIds
    /\ ctxDone \in BOOLEAN

(* The root never starts another LLM call or tool batch, and never reports  *)
(* success, while the run tree is over its limits: every breach, its own or *)
(* a sub-agent's, is approved or stops the run first.                       *)
NoProgressOverBudget ==
    root \in Running \cup {"completed"} => ~checkLimits(tracker)

(* A caller is asked, and a run is stopped for its budget, only when the    *)
(* limits are breached at that moment.                                      *)
StoppedOnlyWhenOver ==
    root \in {"await", "budgetExceeded", "approvalUnavailable"} => checkLimits(tracker)

(* No more pauses are approved in one run than MaxApprovals allows. *)
ApprovalsBounded == tracker.approvals <= effectiveMaxApproval

(* How far past the open window the tree can spend: one call of the root,   *)
(* plus one call for each sub-agent attempt that was told to stop.          *)
OvershootBounded ==
    MaxTokens > 0 =>
        tracker.tokens < tracker.wmTokens + tokenWindow
                             + (Cardinality(over) + 1) * MaxCallTokens

(* The most one approval period can spend, whoever spends it. *)
PeriodTokens ==
    tokenWindow + (Cardinality(AttemptIds) + 1) * MaxCallTokens

(* What a token budget is for: the whole run tree spends less than one      *)
(* period for each approval that was granted, plus one.                     *)
RunSpendBounded ==
    MaxTokens > 0 => tracker.tokens < (tracker.approvals + 1) * PeriodTokens

(* Every run ends, even when nobody answers a budget approval. *)
Termination == <>(root \in Terminal)

-----------------------------------------------------------------------------
(* The inductive invariant behind the theorems of RunBudget_proofs.         *)

(* Sub-agents run only while the root waits for its batch. *)
ChildrenOnlyInBatch ==
    \A c \in Children : child[c] = "running" => root = "toolsWait"

(* An attempt in over is finished: its sub-agent is in a later attempt or   *)
(* has returned.                                                            *)
OverAttemptsEnded ==
    \A c \in Children, k \in 1..SubAgentAttempts :
        <<c, k>> \in over => k < attempt[c] \/ child[c] = "returned"

(* While a batch runs, each sub-agent attempt told to stop accounts for at  *)
(* most one call past the window.                                           *)
BatchOvershoot ==
    MaxTokens > 0 /\ root = "toolsWait" =>
        tracker.tokens < tracker.wmTokens + tokenWindow
                             + Cardinality(over) * MaxCallTokens

AwaitHasApprovalsLeft == root = "await" => ~ApprovalsExhausted(tracker)

WatermarkBounded ==
    MaxTokens > 0 => tracker.wmTokens <= tracker.approvals * PeriodTokens

IInv ==
    /\ TypeOK
    /\ NoProgressOverBudget /\ StoppedOnlyWhenOver
    /\ ApprovalsBounded /\ AwaitHasApprovalsLeft
    /\ ChildrenOnlyInBatch /\ OverAttemptsEnded
    /\ BatchOvershoot /\ OvershootBounded /\ WatermarkBounded

=============================================================================
