SPECIFICATION Spec
CHECK_DEADLOCK FALSE
CONSTANTS
    None = None
    Servers <- MCServers
    Offers <- MCOffers
    ClientEnvelopes = {1, 2, 3}
    Limits <- MCLimits
    LimitBounds <- MCLimitBounds
    MaxMessageBytes = 3
    MaxTerminalChunkBytes = 2
    Scenarios <- MCScenarios
    Diagnostics <- MCDiagnostics
    Marker <- MCMarker
    StderrLimit = 3
    NegotiatedMaximum = 3
    SmallMaximum = 1
    MaxSequence = 2
    BufferSize = 2
    MaxFrame = 3
    MaxStream = 7
    ReservedKeys = {"tenant_id", "approved"}
    ExtensionNames = {"vendor/op"}
INVARIANTS SessionsClosed PassMeans SkipsReported GoodPasses CapabilitiesServed NegotiationSound WireExact
PROPERTY Completes
