CONSTANTS
    Template <- MCTemplate
    Evaluate <- Value
    Admits <- Check
    Values <- Words
    Failed = Failed
    Undefined = Failed
    Seed = 2
    Inputs <- MCInputs
    Day <- MCDay
    Never = Never
    MaxTime = 4
    MaxInputs = 3
    MaxCrashes = 1
    Width = 3
SPECIFICATION PuzzleSpec
CHECK_DEADLOCK FALSE
INVARIANTS
  WholeUnlessTorn
  NobodyIsLeftOut
  RoundsAreBounded
  DueTimersAreServed
