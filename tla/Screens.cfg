SPECIFICATION Spec
CONSTANTS
  g1 = g1 d1 = d1 o1 = o1 o2 = o2 u1 = u1 u2 = u2 u3 = u3 day1 = day1 day2 = day2 day3 = day3 day4 = day4 e1 = e1 e2 = e2 e3 = e3 s1 = s1 s2 = s2 a2 = a2 k3 = k3 a1 = a1 k1 = k1 k2 = k2
  x0 = x0 x1 = x1 f0 = f0 f1 = f1 t1 = t1 p1 = p1 q1 = q1 n1 = n1 y1 = y1 m1 = m1 i1 = i1 i2 = i2
  g2 = g2 g3 = g3 d2 = d2 d3 = d3 m2 = m2 m3 = m3 p2 = p2 q2 = q2 n2 = n2 b1 = b1 w1 = w1 at1 = at1
  A = A B = B D = D M = M N = N
  Rows = {g1, d1, o1, o2, u1, u2, u3, day1, day2, day3, day4, e1, e2, e3, s1, s2, a2, k3, a1, k1, k2, x0, x1, f0, f1, t1, p1, q1, n1, y1, m1, g2, g3, d2, d3, m2, m3, p2, q2, n2, b1, w1, at1}
  Table <- InstanceTable
  Initial <- InstanceRows
  InitialRoles <- InstanceRoles
  RoleSets <- InstanceRoleSets
  InitialCode <- InstanceCode
  InitialLogin <- InstanceLogin
  GeoFile <- InstanceGeoFile
  Sheet <- InstanceSheet
  Pinfls = {i1, i2}
  Dates = {1}
  Clients = {c1, c2}
  MaxRequests = 2
  None = None
  Gone = Gone
CONSTRAINT Explored
SYMMETRY Symmetry
INVARIANT Consistent
INVARIANT ScreensAgree
INVARIANT BoardConsistent
PROPERTY GoesOnlyWithOwner
CHECK_DEADLOCK FALSE
