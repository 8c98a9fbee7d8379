CONSTANTS
  MaxRx <- MCMaxRx
  Timeout <- MCTimeout
  CntMod <- MCCntMod
SPECIFICATION Spec
INVARIANTS
  RtuFrameIsQuiet
  ReplyFraming
PROPERTIES
  FrameUntouched
  FreshOnRelease
  KeepsPromise
