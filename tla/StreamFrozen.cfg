CONSTANTS
  Modulus = 8
  MaxForward = 2
  Timeout = 2
  DefaultModulus = 4
  DefaultForward = 3
SPECIFICATION Spec
INVARIANT FrozenLosesAuthority
