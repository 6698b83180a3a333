SPECIFICATION Spec
CONSTANTS
    p1 = p1
    p2 = p2
    d1 = d1
    d2 = d2
    far1 = far1
    far2 = far2
    People = {p1, p2}
    Administrators = {p2}
    Descriptors = {d1, d2}
    KindOf <- MCKinds
    Criteria <- MCCriteria
    Rules = {"own", "new"}
    OwnRules = "own"
    Marked <- MCMarked
    FarPublic = {far1, far2}
    Wanted = {"Public", "Trashed"}
    Lag = 1
    Chunk = 2
    Nobody = Nobody
    MaxOps = 3
    MaxErrors = 1
CHECK_DEADLOCK FALSE
INVARIANTS
  VisibilityIsHeard
  SearchShowsAllowed
  FoundIsShown
  ChangesOnlyOwn
