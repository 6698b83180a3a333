SPECIFICATION Spec
CONSTANTS
    ann = ann
    bob = bob
    Ann = Ann
    h1 = h1
    h2 = h2
    Names = {ann, bob, Ann}
    Accounts = {ann, bob}
    SpelledFor <- MCSpelledFor
    Configured = {ann}
    Prints = {k}
    Kinds = {"otp", "fixed_otp", "fixed", "phpbb", "uru", "oidc", "ldap"}
    Handlers = {h1, h2}
    RequestLife = 1
    TokenLife = 1
    Leeway = 0
    NoOne = NoOne
    MaxTime = 2
    MaxRuns = 2
    MaxLogins = 1
    MaxTokens = 1
    MaxSockets = 1
    MaxChanges = 1
SYMMETRY MCSymmetry
CHECK_DEADLOCK FALSE
INVARIANTS
  LockHolds
  RemovedKeysAreUseless
  UsedOnceInTime
  ConnectionsAreVouched
