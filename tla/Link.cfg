SPECIFICATION FairSpec
CONSTANTS
    Senders = {"s1"}
    MaxFaults = 2
    Prompt = TRUE
    Inputs = {"unplug", "stall", "record"}
INVARIANTS TypeOK FailureReachesBench RecoveryReachesSession LossIsPursued
           StaleBenchNeverSends CompleteIsOneEpoch
PROPERTY LinkComesBack
