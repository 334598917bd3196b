SPECIFICATION Spec
CONSTANTS
    Window = 3
    Threshold = 1
    MinWarmup = 2
    MinPps = 2
    Required = 2
    GuardBaseline = TRUE
    Baselines <- MCBaselines
    MaxRate = 3
    MaxSuppressed = 3
    Sources = {"a", "b"}
    NoSource = NoSource
    Blacklisted = {"b"}
    Ports = {0, 1, 2, 3}
    DashboardPorts = {3}
    Arrivals <- MCArrivals
    MinScanPorts = 2
    ScanVotes <- MCScanVotes
    MinShare = 60
    Second = 1
    MaxElapsed = 1
INVARIANTS
    CountersConsistent
    ThreatHonest
PROPERTIES
    ReportedOnce
    AttributionHonest
    FloodNotAbsorbed
