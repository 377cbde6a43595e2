SPECIFICATION FairSpec
CONSTANTS
  s1 = s1
  s2 = s2
  l1 = l1
  l2 = l2
  i1 = i1
  a1 = a1
  None = None
  Sections = {s1,s2}
  Listeners = {l1,l2}
  ListensTo <- OneEach
  Incidents = {i1}
  Slots = 1
  Buffer = 1
  Window = 1
  Admins = {}
  District <- Districts
  AdminDistrict <- Nobody
  MaxEvents = 1
  MaxFailures = 1
PROPERTY ListenerComesBack
PROPERTY IncidentsNotified
PROPERTY WithdrawnStops
CHECK_DEADLOCK FALSE
