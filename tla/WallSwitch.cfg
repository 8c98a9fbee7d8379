CONSTANTS
  hall = hall
  room = room
  Panels = {hall, room}
  Buttons = {1}
  Switches = {0}
  Hands <- SharedHands
  Width = 2
  MaxEvents = 2
SPECIFICATION Spec
INVARIANTS
  Agreement
  NoEcho
PROPERTY
  NoBounce
