SPECIFICATION FairSpec
CONSTANTS
  Base = 4
  Payloads <- MCPayloads
  Rooms <- MCRooms
  MaxPackets = 3
  MaxPartials = 2
INVARIANT IntactUpToCut
PROPERTIES AllArrive ImplementsChannel
CHECK_DEADLOCK FALSE
