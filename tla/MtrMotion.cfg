SPECIFICATION Spec
CONSTANTS
    CommsTimeout = 1
    StsTimeout = 1
    DriveTimeout = 1
    RecoverGap = 0
    RecoverFrames = 2
    Dwell = 2
    Laps = {1}
    Frames = {"estop", "assert", "zero", "corrupt", "auto", "on", "off", "drive", "other", "reboot"}
    Kinds = {"next", "repeat"}
    Setpoints = {"fwd", "D", "R"}
INVARIANTS TypeOK LatchOpensRelays EngagedOnNewFrames
PROPERTIES TwoZerosRelease AssertOpensRelays SilenceOpensRelays ReversalDwells
