SPECIFICATION FairSpec
CONSTANTS
    ia = ia ib = ib qa = qa sa = sa sb = sb
    Calls = {ia, ib, qa, sa, sb}
    Workloads <- Pairs
    Kind <- MCKind
    MaxInFlightRequests = 1
    MaxOutboundQueue = 1
    MaxAnswers <- MCAnswers
INVARIANTS CallsSound CompletedKept NegotiatedOnce
PROPERTY CloseUnblocks
CHECK_DEADLOCK FALSE
