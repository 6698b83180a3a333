SPECIFICATION FairSpec
CONSTANTS
  Key <- MCKey
  MaxItems = 2
  MaxTouches = 3
CHECK_DEADLOCK FALSE
INVARIANTS
  NoLostNotification
PROPERTIES
  ReadyIsServed
