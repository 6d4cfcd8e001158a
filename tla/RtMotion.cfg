SPECIFICATION Spec
CONSTANTS
    QueueDepth = 1
    StsTimeout = 0
    AcquireGap = 0
    Inputs = {"Auto", "Estop", "zero_sts", "estop_sts", "drive_cmd", "steer_cmd", "low_bus_off", "high_bus_off"}
INVARIANT TypeOK EstopNeverDropped MotionOnlyUnderAuthority MotionNeedsNewHostCommand
