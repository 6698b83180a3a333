SPECIFICATION FairHandoff
CONSTANTS
  a = a
  b = b
  Server <- MCServer
  Traveller <- MCOne
  MaxSessions = 2
  MaxMoves = 1
  MaxChatter = 1
CHECK_DEADLOCK FALSE
INVARIANTS
  HomeKnowsItsTraveller
  FirstGuestIsAccountedFor
PROPERTIES
  TravellerIsPlaced
