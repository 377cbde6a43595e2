SPECIFICATION Spec
CONSTANTS
  Requests = {r1,r2}
  Locations = {a,b}
  Points = {p}
  Items = {i}
  Organizations = {o}
  None = None
  ByAdminSite = {b}
  MaxSaves = 4
  MaxFailures = 1
SYMMETRY Symmetry
INVARIANT OneRowPerItem
INVARIANT NoOrphanPoints
INVARIANT KnownToService
CHECK_DEADLOCK FALSE
