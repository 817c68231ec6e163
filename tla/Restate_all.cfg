SPECIFICATION RestateSpec
CONSTANTS
    MaxTokens = 3
    MaxCost = 0
    ApprovalExtraTokens = 3
    ApprovalExtraCost = 0
    PromptRate = 0
    CompletionRate = 0
    OnExceeded = "wait_for_approval"
    MaxApprovals = 1
    MaxConsecutiveSameArgs = 1
    PatternWindowSize = 0
    ResetAfter = 1
    Usages <- MCTwoTokens
    MaxCallTokens = 2
    MaxIter = 1
    Extra = 1
    SubAttempts = 2
    HasResolver = TRUE
    HasFallback = TRUE
    MaxLoopFaults = 2
    Holders <- MCHolders
    Starter = "a"
    Attempts = 2
    DrainPeeks = 2
    MaxLog = 2
    MaxFaults = 2
INVARIANT ReplayDeterministic
INVARIANT EventsOnce
INVARIANT SpendGranted
INVARIANT ReaderComplete
PROPERTY ImplementsContract
PROPERTY ReadersEnd
CHECK_DEADLOCK FALSE
