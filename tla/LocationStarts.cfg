SPECIFICATION Spec
CONSTANTS
  realm = realm
  editor = editor
  Nowhere = Nowhere
  AssetPlace = {realm}
  AppPlace = {editor}
  JoinCap = 1
  MaxJoins = 3
  MaxFailures = 1
  MaxErased = 1
CHECK_DEADLOCK FALSE
INVARIANTS
  RunsOnce
  RunsFromTheDatabase
PROPERTIES
  AdmitsAsPromised
  EveryoneIsAnswered
