CONSTANTS
  LongPressTicks <- LongPress
  DebounceTicks <- Debounce
  Inputs <- StopInputs
SPECIFICATION FairSpec
PROPERTIES HeldMushroomRecaptures HeartbeatLossRecaptures
