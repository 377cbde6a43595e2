SPECIFICATION Spec
CONSTANTS
  s1 = s1
  s2 = s2
  l1 = l1
  l2 = l2
  i1 = i1
  a1 = a1
  None = None
  Sections = {s2}
  Listeners = {l1,l2}
  ListensTo <- TwoOfOne
  Incidents = {}
  Slots = 2
  Buffer = 1
  Window = 1
  Admins = {a1}
  District <- Districts
  AdminDistrict <- OneSeat
  MaxEvents = 2
  MaxFailures = 1
INVARIANT LoggedInOrder
INVARIANT PushedIsLogged
PROPERTY AcceptedIsLogged
SYMMETRY Symmetry
CHECK_DEADLOCK FALSE
