SPECIFICATION Spec
CONSTANTS
  MaxSent = 4
  MaxSockets = 3
  FirstWait = 2
  FirstDelay = 5
  MaxDelay = 120
  GiveUp = 6
INVARIANTS
  NothingOvertakes
  LossNeedsAMishap
  RetriesBackOff
