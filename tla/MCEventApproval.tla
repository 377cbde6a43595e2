---------------------------- MODULE MCEventApproval ----------------------------
(* Instances of EventApproval and its document for TLC. *)
EXTENDS EventPaper, TLC

Symmetry == Permutations(Requests) \cup Permutations(Events) \cup Permutations(AssignIds)
              \cup Permutations(Employees)
=============================================================================
