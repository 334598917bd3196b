SPECIFICATION FairSpec
CONSTANTS
    QueueSize = 1
    PcapFile = FALSE
    MayFail = FALSE
    MaxFrames = 0
    MaxAlerts = 0
    MaxInterrupts = 2
PROPERTIES
    ShutdownStopsSensor
