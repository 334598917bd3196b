SPECIFICATION Spec
CONSTANTS
    Window = 2
    Threshold = 1
    MinWarmup = 2
    MinPps = 2
    Required = 2
    GuardBaseline = TRUE
    Baselines <- MCBaselines
    MaxRate = 3
    MaxSuppressed = 3
    Sources = {"a", "b"}
    NoSource = NoSource
    Blacklisted = {"b"}
    Ports = {0, 1, 2, 3}
    MinScanPorts = 2
    ScanVotes <- MCScanVotes
    MinShare = 70
    DashboardPorts = {3}
    RawFrames <- MCRawFrames
    ProbeFrames <- MCProbeFrames
    MaxSecond = 3
    MaxRecords = 9
INVARIANTS
    ParserSound
    NothingLost
PROPERTIES
    ImplementsLive
CHECK_DEADLOCK FALSE
