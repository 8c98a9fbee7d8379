CONSTANTS
  Sensors = {s1}
  PressureTime = 1
  LongRunTime = 10
  StartupTime = 5
  RetryTime = 14
  Byte = 4
SPECIFICATION Spec
INVARIANTS
  NeverBoth
  DryBounded
  FailedIsOff
  
