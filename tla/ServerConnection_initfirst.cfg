SPECIFICATION Spec
CONSTANTS
    ia = ia ib = ib qa = qa sa = sa sb = sb ua = ua stop = stop
    id1 = id1 id2 = id2 id3 = id3 stream = stream
    Requests = {ia, ib, qa, sa, sb, ua, stop}
    Workloads <- InitAndQuery
    Kind <- MCKind
    RequestID <- MCRequestID
    Stream <- MCStream
    SubscriptionIDs = {s1}
    None = None
    MaxInFlightRequests = 2
    MaxSubscriptions = 2
    MaxOutboundQueue = 1
    MaxFrames = 1
    MaxHeartbeats = 0
INVARIANT InitializationFirst
CHECK_DEADLOCK FALSE
