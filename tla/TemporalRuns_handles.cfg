SPECIFICATION Spec
CONSTANTS
    Modes <- BothModes
    MaxHandles = 2
    Approvals <- OneApproval
    Nested <- NoneNested
    HasTimeout = TRUE
    LLMAttempts = 2
    MaxLog = 3
    MaxFaults = 1
INVARIANT ResultAgrees
INVARIANT ReconnectComplete
PROPERTY StopsWhenAsked
CHECK_DEADLOCK FALSE
