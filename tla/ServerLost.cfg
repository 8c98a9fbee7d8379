CONSTANTS
  Nets = {1}
  Starts = {0, 1}
  FactoryNet = 1
  FactoryStart = 0
  Blank = 255
  Grace = 4
  Quiet = 3
  MaxPipe = 1
SPECIFICATION Spec
PROPERTY
  OnlyWhenLost
