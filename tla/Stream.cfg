CONSTANTS
  Modulus = 8
  MaxForward = 2
  Timeout = 2
  DefaultModulus = 4
  DefaultForward = 3
SPECIFICATION FairSpec
INVARIANTS TypeOK ValidFollowsTheWire
PROPERTIES RepeatNeverRestores EveryFrameCounts SteadyProducerHeld KeepsStreamContract
