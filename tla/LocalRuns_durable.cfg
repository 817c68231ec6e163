SPECIFICATION Spec
CONSTANTS
    Durability <- Both
    MaxHandles = 2
    MaxCrashes = 1
PROPERTY ImplementsContract
INVARIANT ReplayAgrees
PROPERTY HandlesEnd
CHECK_DEADLOCK FALSE
