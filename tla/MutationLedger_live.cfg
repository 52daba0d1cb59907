SPECIFICATION FairSpec
CONSTANTS
    r1 = r1 r2 = r2 c1 = c1 c2 = c2
    stop = stop stop2 = stop2 other = other attach = attach
    key1 = key1 key2 = key2 key3 = key3 id1 = id1 id2 = id2 id3 = id3
    NoConn = NoConn NoRecord = NoRecord
    Requests = {r1, r2}
    Conns = {c1, c2}
    Workloads <- LiveLoads
    Commands = {stop, stop2, other, attach}
    Attach = {attach}
    KeyOf <- MCKeyOf
    CommandIDOf <- MCCommandIDOf
    Maximum <- MCMaximum
    ResultSizes = {1, 3}
    Overhead = 1
    MaxIdempotencyEntries = 2
    MaxIdempotencyBytes = 4
    MaxOutboundQueue = 1
PROPERTIES RecordResolves ImplementsOutcome
CHECK_DEADLOCK FALSE
