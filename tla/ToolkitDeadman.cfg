SPECIFICATION FairSpec
CONSTANTS
    Sources = {"drive_console"}
    Channels = {"motor"}
    Ids = {1, 2, 3}
    Inputs = {"intent", "direct_off"}
PROPERTY KinematicsSilenceStops
