CONSTANTS
  Nets = {1}
  Starts = {0, 1}
  FactoryNet = 1
  FactoryStart = 0
  Blank = 255
  Grace = 3
  Quiet = 2
  MaxPipe = 1
SPECIFICATION Spec
INVARIANTS
  LostIsDefault
  CfgWhole
PROPERTIES
  LossNoticed
  GoneIsFreed
