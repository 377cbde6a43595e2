SPECIFICATION FairSpec
CONSTANTS
  d1 = d1
  a1 = a1
  g1 = g1
  e1 = e1
  None = None
  Requests = {r1,r2}
  Duties = {d1}
  Posts = {a1}
  Post <- OneDuty
  Polygons = {g1}
  Points = {p1}
  Employees = {e1}
  Vehicles = {v1}
  Places = {x}
  Hours = 2
  Windows <- Early
  MaxEdits = 1
  MaxFailures = 1
INVARIANT Consistent
PROPERTY StoppedIsQuiet
PROPERTY StrayReported
CHECK_DEADLOCK FALSE
