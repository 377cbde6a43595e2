--------------------------- MODULE MCSectionTracking ---------------------------
(* Instances of SectionTracking for TLC. *)
EXTENDS SectionTracking, TLC

CONSTANTS s1, s2, e1, e2

\* A section with a crew of two, one of whom is also the crew of another one.
TwoSections == [s \in {s1, s2} |-> IF s = s1 THEN {e1, e2} ELSE {e2}]

Symmetry == Permutations(Requests)
=============================================================================
