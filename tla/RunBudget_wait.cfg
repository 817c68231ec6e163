SPECIFICATION Spec
CONSTANTS
    MaxTokens = 3
    MaxCost = 4
    ApprovalExtraTokens = 2
    ApprovalExtraCost = 0
    PromptRate = 1
    CompletionRate = 1
    OnExceeded = "wait_for_approval"
    MaxApprovals = 2
    Children = {c1, c2}
    Usages <- MCUsages
    MaxCallTokens = 2
    MaxIter = 3
    ChildMaxIter = 2
    SubAgentAttempts = 2
    HasApprover = TRUE
INVARIANT NoProgressOverBudget
INVARIANT RunSpendBounded
PROPERTY Termination
