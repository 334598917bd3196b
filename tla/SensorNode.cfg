SPECIFICATION Spec
CONSTANTS
    QueueSize = 1
    PcapFile = TRUE
    MayFail = TRUE
    MaxFrames = 2
    MaxAlerts = 2
    MaxInterrupts = 2
INVARIANTS
    FramesConsistent
    ReportSound
    ShutdownOnce
