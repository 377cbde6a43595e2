------------------------------ MODULE MCScreens ------------------------------
(* An instance of Screens: a district with two organisations, one of which has a duty day and a  *)
(* main duty, and one row of the other tables; a user, a daily officer, an exit, an attendance,   *)
(* what a sheet names and two loads of the regions, districts and mahallas may be added.          *)
EXTENDS Screens, TLC
CONSTANTS i1, i2,
  g1, d1, o1, o2, u1, u2, u3, day1, day2, day3, day4, e1, e2, e3, s1, s2, a1, a2, k3, k1, k2, x0, x1, f0, f1, t1, p1, q1, n1, y1, m1,
  g2, g3, d2, d3, m2, m3, p2, q2, n2, b1, w1, at1,
  A, B, D, M, N   \* codes

InstanceTable ==
  [r \in Rows |->
     CASE r \in {g1, g2, g3} -> "region" [] r \in {d1, d2, d3} -> "district" [] r \in {m1, m2, m3} -> "mahalla"
       [] r \in {o1, o2} -> "organization" [] r \in {p1, p2} -> "department" [] r \in {q1, q2} -> "position"
       [] r \in {n1, n2} -> "special_rank" [] r = y1 -> "transport_type" [] r = t1 -> "transport"
       [] r \in {u1, u2, u3} -> "user" [] r \in {f0, f1} -> "officer" [] r \in {day1, day2, day3, day4} -> "day" [] r \in {s1, s2} -> "section"
       [] r \in {e1, e2, e3} -> "event"
       [] r \in {a1, a2} -> "assignment" [] r \in {k1, k2, k3} -> "crew" [] r \in {x0, x1} -> "exit"
       [] r = b1 -> "main_duty" [] r = w1 -> "task" [] r = at1 -> "attendance"]

Plain(r) == [f \in Settable[InstanceTable[r]] |-> None]

InstanceRows ==
  g1 :> Plain(g1) @@ d1 :> [region |-> g1] @@ m1 :> [region |-> g1, district |-> d1]
    @@ o1 :> [region |-> g1, district |-> d1] @@ o2 :> Plain(o2)
    @@ p1 :> [organization |-> o1] @@ q1 :> [department |-> p1] @@ n1 :> Plain(n1)
    @@ y1 :> Plain(y1) @@ t1 :> [organization |-> o1, type |-> y1]
    @@ u1 :> ([hash |-> Hash(i1)] @@ [Plain(u1) EXCEPT !.organization = o1, !.pinfl = i1])
    @@ u2 :> ([hash |-> None] @@ [Plain(u2) EXCEPT !.district = d1]) @@ u3 :> Gone
    @@ f0 :> [organization |-> o1, officer |-> u1, date |-> 1] @@ f1 :> Gone
    @@ day1 :> [organization |-> o1, date |-> 1, status |-> "APPROVED"]
    @@ day2 :> [organization |-> o1, date |-> 2, status |-> "SUBMITTED"]
    @@ day3 :> [organization |-> o1, date |-> 3, status |-> "COLLECTED"]
    @@ day4 :> [organization |-> o2, date |-> 1, status |-> "DRAFT"]
    @@ e1 :> [organization |-> o1, date |-> 1, end |-> 1, status |-> "SUBMITTED"]
    @@ e2 :> [organization |-> o1, date |-> 2, end |-> 3, status |-> "COLLECTED"]
    @@ e3 :> [organization |-> o2, date |-> 1, end |-> 1, status |-> "REJECTED"]
    @@ s2 :> [day |-> day2] @@ a2 :> [section |-> s2] @@ k3 :> [assignment |-> a2, employee |-> u1]
    @@ s1 :> [day |-> day1] @@ a1 :> [section |-> s1]
    @@ k1 :> [assignment |-> a1, employee |-> u1] @@ k2 :> [assignment |-> a1, employee |-> u2]
    @@ x0 :> [employee |-> u1, assignment |-> a1, date |-> 1, returned |-> FALSE]
    @@ b1 :> [organization |-> o1] @@ w1 :> [duty |-> b1]
    @@ [r \in {x1, g2, g3, d2, d3, m2, m3, p2, q2, n2, at1} |-> Gone]

InstanceCode == g1 :> A @@ d1 :> D @@ m1 :> M @@ [r \in Rows |-> None]
InstanceLogin == u1 :> i1 @@ u2 :> None @@ u3 :> None
InstanceSheet == <<i1, i2, None>>

\* A district of an unknown region, a mahalla of that district, and one of an unknown region.
InstanceGeoFile ==
  [region |-> <<[code |-> A, region |-> None, district |-> None]>>,
   district |-> <<[code |-> N, region |-> B, district |-> None], [code |-> D, region |-> A, district |-> None]>>,
   mahalla |-> <<[code |-> N, region |-> B, district |-> N], [code |-> M, region |-> B, district |-> D]>>]

InstanceRoles == u1 :> {"OFFICER"} @@ u2 :> {"COLLECTOR"} @@ u3 :> {}
InstanceRoleSets == {{}, {"DISTRICT_ADMIN"}, {"OFFICER", "COLLECTOR"}}

\* Bound: nothing second beside or after a request about a row that only others refer to, and a
\* dashboard or a command, not both.
Minor == {n1, y1, m1, p1, q1}
Explored ==
  /\ board = Closed \/ job = NoJob
  /\ \/ spent <= 1
     \/ /\ \A c \in Clients : req[c] = Idle \/ req[c].row \notin Minor
        /\ \A r \in Minor : Exists(r)

Symmetry == Permutations(Clients)
===============================================================================
