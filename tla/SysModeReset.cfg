CONSTANTS
  LongPressTicks <- LongPress
  DebounceTicks <- Debounce
  Inputs <- ResetInputs
SPECIFICATION Spec
INVARIANTS TypeOK RemoteResetKeepsLiveFaults RunNeedsStartCycle
PROPERTY KeepsAuthorityContract
