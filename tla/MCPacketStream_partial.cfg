SPECIFICATION Spec
CONSTANTS
  Base = 4
  Payloads <- MCPayloads
  Rooms <- MCRooms
  MaxPackets = 3
  MaxPartials = 2
INVARIANT Uncorrupted
CHECK_DEADLOCK FALSE
