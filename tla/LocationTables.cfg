SPECIFICATION Spec
CONSTANTS
  owner = owner
  guest = guest
  Name <- MCName
  Owner = owner
  Settings <- MCSettings
  IdSpace = 3
  MaxJoins = 3
  MaxOutputs = 1
  MaxChanges = 1
CHECK_DEADLOCK FALSE
INVARIANTS
  AccessIsEnforced
  TablesAgree
