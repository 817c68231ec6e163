SPECIFICATION Spec
CONSTANTS
    r1 = r1
    r2 = r2
    Runs = {r1, r2}
    Concurrent = FALSE
    MaxIter = 1
    ExtraOffers <- Offers
    MaxCalls = 2
    Sequential = FALSE
    SaveOnIteration = TRUE
    ConversationSize = 20
    StoreMaxSize = 30
    HasFallback = TRUE
    HasBudget = TRUE
    MaxLost = 1
INVARIANT RequestWellFormed
INVARIANT SavedWhole
PROPERTY FallbackSticky
