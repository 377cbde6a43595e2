SPECIFICATION Spec
CONSTANTS
  Requests = {r1}
  DayIds = {d1,d2}
  AssignIds = {a1,a2,a3}
  Employees = {e1,e2}
  StagesCount = 2
  ListenerCap = 2
  None = None
SYMMETRY Symmetry
INVARIANT PaperComplete
INVARIANT ListenedOnce
PROPERTY ContentFrozen
PROPERTY ChainSpec
CHECK_DEADLOCK FALSE
