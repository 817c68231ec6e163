--------------------------- MODULE BudgetTracker ---------------------------
(***************************************************************************)
(* The per-run budget of internal/runtime/base/budget.go: a tracker that   *)
(* accumulates token and cost usage of one run and says when a limit is    *)
(* breached. The tracker is a value here; the modules that EXTEND this one *)
(* hold it in a variable and call the operators below as the runtimes call *)
(* the methods. Every method holds the tracker's mutex, so each operator   *)
(* is one atomic step. Costs are the integer nano-dollars of the code.     *)
(***************************************************************************)
EXTENDS Integers, FiniteSets

CONSTANTS
    MaxTokens,             \* BudgetConfig.MaxTokens; 0 = no token limit
    MaxCost,               \* BudgetConfig.MaxCostUSD in nano-USD; 0 = no cost limit
    ApprovalExtraTokens,   \* BudgetConfig.ApprovalExtraTokens as configured
    ApprovalExtraCost,     \* BudgetConfig.ApprovalExtraCostUSD in nano-USD
    PromptRate,            \* nano-USD per prompt token
    CompletionRate,        \* nano-USD per completion token
    OnExceeded,            \* "stop_run" or "wait_for_approval"
    MaxApprovals           \* BudgetConfig.MaxApprovals; 0 = default

\* pkg/agent/config.go validateBudget: the configurations NewAgent accepts.
ASSUME BudgetConfigAssumption ==
    /\ MaxTokens \in Nat /\ MaxCost \in Nat
    /\ ApprovalExtraTokens \in Nat /\ ApprovalExtraCost \in Nat
    /\ PromptRate \in Nat /\ CompletionRate \in Nat
    /\ MaxApprovals \in Nat
    /\ MaxTokens # 0 \/ MaxCost # 0
    /\ OnExceeded \in {"stop_run", "wait_for_approval"}
    /\ OnExceeded = "stop_run" =>
           ApprovalExtraTokens = 0 /\ ApprovalExtraCost = 0 /\ MaxApprovals = 0

defaultMaxApprovals == 5

\* One LLM call's usage as the provider reports it.
LLMUsage == [total : Nat, prompt : Nat, completion : Nat]

Tracker == [tokens : Nat, cost : Nat, wmTokens : Nat, wmCost : Nat, approvals : Nat]

NewBudgetTracker ==
    [tokens |-> 0, cost |-> 0, wmTokens |-> 0, wmCost |-> 0, approvals |-> 0]

effectiveMaxApproval ==
    IF MaxApprovals = 0 THEN defaultMaxApprovals ELSE MaxApprovals

\* The window checkLimits compares the growth since the watermark with: the
\* extra amount when there is one (validateBudget copies MaxTokens / MaxCostUSD
\* into a zero extra), and otherwise the limit itself.
tokenWindow == IF ApprovalExtraTokens = 0 THEN MaxTokens ELSE ApprovalExtraTokens
costWindow  == IF ApprovalExtraCost = 0 THEN MaxCost ELSE ApprovalExtraCost

TokensExceeded(t) == MaxTokens > 0 /\ t.tokens >= t.wmTokens + tokenWindow
CostExceeded(t)   == MaxCost > 0 /\ t.cost >= t.wmCost + costWindow

\* checkLimits returns a BudgetExceededError.
checkLimits(t) == TokensExceeded(t) \/ CostExceeded(t)

CostOf(u) == u.prompt * PromptRate + u.completion * CompletionRate

\* Add updates the totals whether or not the limit is breached; the caller
\* reads the outcome as checkLimits of the new tracker.
Add(t, u) == [t EXCEPT !.tokens = @ + u.total, !.cost = @ + CostOf(u)]

\* Mutant of AdvanceWatermark: the approval is not counted.
AdvanceWatermarkUncounted(t) == [t EXCEPT !.wmTokens = t.tokens, !.wmCost = t.cost]

AdvanceWatermark(t) ==
    [t EXCEPT !.approvals = @ + 1, !.wmTokens = t.tokens, !.wmCost = t.cost]

ApprovalsExhausted(t) == t.approvals >= effectiveMaxApproval

\* RestoreState on a fresh tracker: totals and watermarks come from the
\* durable state, the approval counter is the fresh tracker's.
RestoreState(tokens, cost, wmTokens, wmCost) ==
    [NewBudgetTracker EXCEPT !.tokens = tokens, !.cost = cost,
                             !.wmTokens = wmTokens, !.wmCost = wmCost]
=============================================================================
