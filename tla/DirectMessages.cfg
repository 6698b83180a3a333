CONSTANTS
  A = A
  B = B
  ann = ann
  bob = bob
  cat = cat
  nobody = nobody
  m1 = m1
  m2 = m2
  Server = {A, B}
  Name = {ann, bob, cat, nobody}
  Known = {ann, bob, cat}
  Home <- MCHome
  Message = {m1, m2}
  Transient = {m2}
  MaxFaults = 1
SPECIFICATION Spec
CHECK_DEADLOCK FALSE
INVARIANTS
  DeliveredIsWritten
  AnswersFindTheirMessage
  ShownIsWritten
