SPECIFICATION FairSpec
CONSTANTS
    Sizes = {1, 2}
    Declarations = {0, 1, 2}
    MaxOutboundQueue = 2
    MaxChunks = 3
    MaxOthers = 2
    Applications <- Cases
INVARIANTS WindowKept FaultsEarned
PROPERTY ChunksArrive
CHECK_DEADLOCK FALSE
