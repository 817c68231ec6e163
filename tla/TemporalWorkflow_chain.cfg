SPECIFICATION ChainSpec
CONSTANTS
    MaxTokens = 4
    MaxCost = 0
    ApprovalExtraTokens = 3
    ApprovalExtraCost = 0
    PromptRate = 0
    CompletionRate = 0
    OnExceeded = "wait_for_approval"
    MaxApprovals = 1
    MaxConsecutiveSameArgs = 2
    PatternWindowSize = 0
    ResetAfter = 0
    Usages <- MCUsages
    MaxCallTokens = 2
    ConversationSize = 4
    MaxIter = 2
    ExtraOffers <- MCOffers
    MaxCalls = 2
    Sequential = FALSE
    SaveOnIteration = TRUE
    StoreRunMemory = TRUE
    HasFallback = TRUE
    LLMAttempts = 2
    SaveAttempts = 2
    Hashes = {1}
    MaxLost = 0
    MaxRecharged = 2
    MaxDied = 2
    MaxExecutions = 2
INVARIANT BudgetCarried
INVARIANT RequestComplete
PROPERTY ChoicesSurvive
PROPERTY Termination
