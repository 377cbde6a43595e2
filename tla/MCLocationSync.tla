---------------------------- MODULE MCLocationSync ----------------------------
(* Instances of LocationSync for TLC. *)
EXTENDS LocationSync, TLC

Symmetry == Permutations(Requests) \cup Permutations(Locations \ ByAdminSite)
              \cup Permutations(Points) \cup Permutations(Items)
=============================================================================
