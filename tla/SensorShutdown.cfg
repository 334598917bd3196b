SPECIFICATION FairSpec
CONSTANTS
    QueueSize = 1
    PcapFile = TRUE
    MayFail = FALSE
    MaxFrames = 1
    MaxAlerts = 1
    MaxInterrupts = 1
PROPERTIES
    StopEndsProcess
    InterruptIsOrderly
