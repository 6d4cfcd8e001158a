CONSTANTS
  LongPressTicks <- LongPress
  DebounceTicks <- Debounce
  Inputs <- RaceInputs
SPECIFICATION Spec
PROPERTY EstopLeftOnlyByReset
