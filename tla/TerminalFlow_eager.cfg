SPECIFICATION Spec
CONSTANTS
    Sizes = {1, 2}
    Declarations = {0, 1, 2, 3}
    MaxOutboundQueue = 2
    MaxChunks = 3
    MaxOthers = 2
    Applications <- EagerOnly
INVARIANT CreditReplenishes
CHECK_DEADLOCK FALSE
