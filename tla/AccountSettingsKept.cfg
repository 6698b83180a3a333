SPECIFICATION SettingsSpec
CONSTANTS
    t0 = t0
    t1 = t1
    tx = tx
    e1 = e1
    ex = ex
    en = en
    Tastes = {t0, t1, tx}
    FirstTaste = t0
    Items = {e1, ex, en}
    LocalForm <- MCForm
    Here = {e1}
    Elsewhere = {ex}
    Malformed = {en}
    NoValue = NoValue
    Groups <- MCGroups
    MaxAsked = 4
    MaxFaults = 1
CHECK_DEADLOCK FALSE
INVARIANTS
  CacheIsRight
  StoredOnSuccess
  AnswerIsOnItsWay
