------------------------------ MODULE MCDutyDay ------------------------------
(* Instances of DutyDay and its document for TLC. *)
EXTENDS DutyPaper, TLC

Symmetry == Permutations(Requests) \cup Permutations(DayIds) \cup Permutations(AssignIds)
              \cup Permutations(Employees)
=============================================================================
