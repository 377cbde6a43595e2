SPECIFICATION FairAlertsSpec
CONSTANTS
  Employees = {e1}
  Sections = {s1, s2}
  Crew <- SharedCrew
  MaxSignIns = 2
  Cards = {c1}
  Places = {x}
  Tasks = {t1, t2}
  MaxReceipts = 2
  MaxMishaps = 1
INVARIANT AlertsConsistent
PROPERTY NearIsTold
CHECK_DEADLOCK FALSE
