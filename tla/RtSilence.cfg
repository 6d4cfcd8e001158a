SPECIFICATION FairSpec
CONSTANTS
    QueueDepth = 1
    StsTimeout = 0
    AcquireGap = 0
    Inputs = {"Auto", "zero_sts", "drive_cmd", "clock", "host_silence", "high_estop"}
PROPERTY SilentSysStops
