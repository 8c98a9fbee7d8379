CONSTANTS
  Bits = 3
  Devices <- Few
  Kind <- Kinds
  Buses = 2
  NTemp = 3
  MapSize = 2
  MaxEvents = 2
SPECIFICATION Spec
INVARIANTS
  SearchInOrder
  AllFound
  NumberedInPlace
PROPERTY
  Reports
