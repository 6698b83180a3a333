CONSTANTS
  ann = ann
  bob = bob
  Owner = Owner
  Player = {ann, bob}
  Rules <- MCRules
  Sendable <- MCSendable
  Slow = {bob}
  InputCap = 1
  ClientCap = 3
  JoinCap = 1
  MaxVisits = 2
  MaxSends = 3
SPECIFICATION FairSpec
CHECK_DEADLOCK FALSE
INVARIANTS
  AccessIsEnforced
  PresenceIsTold
  NoGridlock
PROPERTIES
  NobodyStaysBehind
