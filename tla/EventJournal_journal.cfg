SPECIFICATION Spec
CONSTANTS
    Copies = 2
    MaxFaultOutputFrames = 3
    Events <- MCEvents
    Altered = "altered"
    Width = 3
    Scripts <- MCScripts
    MaxIngests = 3
    MaxReplays = 2
INVARIANTS JournalSound GapMeansHole ReplayComplete
CHECK_DEADLOCK FALSE
