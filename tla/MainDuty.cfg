SPECIFICATION Spec
CONSTANTS
  Requests = {r1,r2}
  Duties = {d1}
  Tasks = {t1,t2}
  AssignIds = {a1,a2}
  FileIds = {f1,f2}
  Employees = {e1,e2}
  Windows <- Two
  Cars = {c1}
  None = None
CONSTRAINT Explored
SYMMETRY Symmetry
INVARIANT Consistent
PROPERTY HistorySpec
PROPERTY SentIsManned
PROPERTY TransferLeavesOne
PROPERTY VerdictFinal
CHECK_DEADLOCK FALSE
