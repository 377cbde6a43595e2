--------------------------- MODULE MCAlarmPipeline ---------------------------
(* Instances of AlarmPipeline for TLC. *)
EXTENDS AlarmPipeline, TLC

CONSTANTS s1, s2, l1, l2, i1, a1

\* One listener per section; a section whose approval was dispatched twice, next to one
\* whose approval was not dispatched at all.
OneEach  == [l \in {l1, l2} |-> IF l = l1 THEN s1 ELSE s2]
TwoOfOne == [l \in {l1, l2} |-> s2]

\* One section in a district, the other of an organization without one.
Districts == [s \in Sections |-> IF s = s1 THEN None ELSE "north"]

\* A district administrator, or nobody.
OneSeat == [a \in {a1} |-> "north"]
Nobody  == [a \in {} |-> None]

\* For safety only: the listeners of TwoOfOne do not differ.
Symmetry == Permutations({l1, l2})
=============================================================================
