CONSTANTS
  Lengths = {1, 2, 5}
  Interference = {"short", "masked", "nested"}
SPECIFICATION UartSpec
INVARIANT
  WithinReply
PROPERTIES
  KeepsLine
  CalmSendingEnds
