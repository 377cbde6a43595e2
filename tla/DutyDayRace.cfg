SPECIFICATION Spec
CONSTANTS
  Requests = {r1,r2}
  DayIds = {d1,d2}
  AssignIds = {a1,a2}
  Employees = {e1}
  StagesCount = 2
  ListenerCap = 2
  None = None
SYMMETRY Symmetry
INVARIANT SignatureChain
INVARIANT ListenersBacked
INVARIANT OneDay
INVARIANT RosterIntegrity
PROPERTY LeftDraftForGood
CHECK_DEADLOCK FALSE
