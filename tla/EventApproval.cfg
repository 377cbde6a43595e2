SPECIFICATION Spec
CONSTANTS
  Requests = {r1,r2}
  Events = {v1}
  AssignIds = {a1,a2}
  Employees = {e1,e2}
  MaxEdits = 2
  None = None
SYMMETRY Symmetry
INVARIANT Consistent
INVARIANT PrintedAsDecided
PROPERTY HistorySpec
PROPERTY PaperFinal
CHECK_DEADLOCK FALSE
