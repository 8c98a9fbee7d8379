CONSTANTS
  Addrs = {11, 12}
  Los = {21}
  His = {31, 32}
  FactoryAddr = 11
  FactoryLo = 21
  FactoryHi = 31
  Erased = 255
  Delay = 1
  Slots = 2
  MaxEvents = 2
SPECIFICATION Spec
INVARIANTS
  DisplayHonest
  CellsOwn
  LogKept
PROPERTY
  Saves
