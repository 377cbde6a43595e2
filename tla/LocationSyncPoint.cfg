SPECIFICATION Spec
CONSTANTS
  Requests = {r1}
  Locations = {a,b}
  Points = {p}
  Items = {i}
  Organizations = {o}
  None = None
  ByAdminSite = {}
  MaxSaves = 4
  MaxFailures = 0
SYMMETRY Symmetry
INVARIANT PointKnownToService
CHECK_DEADLOCK FALSE
