\* One question more than there are identifiers: next_id wraps onto live entries.
SPECIFICATION SpecWhereabouts
CONSTANTS
  ann = ann
  bob = bob
  Request = {1, 2, 3}
  IdSpace = 2
  MaxRequests = 3
  Lifetime = 1
  MaxTime = 1
  Home <- MCHome
  Away <- MCAway
  Asker = ann
  Plans <- MCPlans
  People <- MCPeople
  Settings <- MCSettings
  ServerSettings <- MCServerSettings
  MaxChanges = 1
CHECK_DEADLOCK FALSE
INVARIANTS
  AnswersGoHome
  WaitingIsTracked
  ToldAsAllowed
PROPERTIES
  EverybodyIsTold
