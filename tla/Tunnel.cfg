CONSTANTS
  BufSize = 2
  Threshold = 2
  ByteSize = 2
  Lengths = {3}
  SlowBytes = 1
  MaxBytes = 2
  MaxMsgs = 2
SPECIFICATION Spec
INVARIANTS
  SessionsDontOverlap
  Relayed
PROPERTIES
  WholeMessage
  Reaccepts
