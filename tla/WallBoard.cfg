CONSTANTS
  Topics = {0, 1}
  Switches = {0}
  Buttons = {}
  ErrorLimit = 1
  MaxEvents = 2
  MaxStream = 2
SPECIFICATION Spec
INVARIANTS
  ItemAlive
  NeverSpins
  Agreement
PROPERTIES
  AckedIsTaken
  Resubscribes
