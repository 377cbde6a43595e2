SPECIFICATION Spec
CONSTANTS
  s1 = s1
  s2 = s2
  e1 = e1
  e2 = e2
  Requests = {r1,r2,r3}
  Sections = {s1,s2}
  Employees = {e1,e2}
  Crew <- TwoSections
  Located = {s1,s2}
  Viewed = {s2}
  MaxDuties = 2
  MaxFailures = 1
SYMMETRY Symmetry
INVARIANT OneActiveDuty
INVARIANT DutiesFollowCheckIns
PROPERTY CheckOutFinal
PROPERTY StartLeavesTracked
CHECK_DEADLOCK FALSE
