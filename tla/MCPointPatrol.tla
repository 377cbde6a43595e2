---------------------------- MODULE MCPointPatrol ----------------------------
(* An instance of PointPatrol for TLC. *)
EXTENDS PointPatrol

CONSTANTS d1, a1, g1, e1

\* One duty of one assignment, with all vehicles.
OneDuty == [a \in {a1} |-> [duty |-> d1, polygon |-> g1, crew |-> {e1}, cars |-> Vehicles]]

\* The window of the first hour; a second one follows it.
Early == {<<0, 0>>}
=============================================================================
