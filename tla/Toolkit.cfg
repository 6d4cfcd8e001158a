SPECIFICATION FairSpec
CONSTANTS
    Sources = {"drive_console"}
    Channels = {"motor"}
    Ids = {1, 2, 3}
    Inputs = {"intent", "rejected", "direct_on", "direct_off", "release", "cancel", "cut",
              "stop_all", "profile", "close", "bench_off", "failure"}
INVARIANTS TypeOK Tracked
PROPERTIES DirectSilenceStops KeepsControlContract
