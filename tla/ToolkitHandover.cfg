SPECIFICATION FairSpec
CONSTANTS
    Sources = {"drive_console", "control_keyboard"}
    Channels = {"motor"}
    Ids = {1, 2, 3, 4, 5}
    Inputs = {"intent", "rejected", "release", "cancel"}
PROPERTIES DriveGetsThrough KeepsControlContract
