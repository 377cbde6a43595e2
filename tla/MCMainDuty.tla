------------------------------ MODULE MCMainDuty ------------------------------
(* Instances of MainDuty for TLC. *)
EXTENDS MainDuty, TLC

\* Two windows, of which one ends as the other starts.
Two == {<<2, 4>>, <<1, 2>>}

\* Bounds: a second task or a second window only without cars and absences, and cars only
\* without absences; none of these, nor a second assignment, once two requests have
\* overlapped or a file was saved; no requests about tasks and crews beside files, of which
\* overlapping requests have one, and absences or decisions but not both.
OneTask   == Cardinality(Tasks \ unused) <= 1
OneWindow == /\ \A d \in Duties : duty[d].window # <<1, 2>>
             /\ \A t \in Tasks : task[t].window # <<1, 2>>
NoCars    == \A a \in AssignIds : asg[a].seat = None
Present   == \A a \in AssignIds : absence[a] = NoAbsence
Small     == OneTask /\ OneWindow /\ NoCars /\ Cardinality(AssignIds \ unused) <= 1
Files     == Cardinality(FileIds \ unused)
Filing    == {"idle", "duty.save", "file.save", "approve", "report.read", "report.delete",
              "report.insert", "hand.over", "reject"}

Explored ==
  /\ (OneTask /\ OneWindow /\ (NoCars \/ Present)) \/ (NoCars /\ Present)
  /\ overlapped => /\ Small /\ Files <= 1 /\ \A t \in Tasks : task[t].window = None
                   /\ Present \/ \A d \in Duties : taken[d] = {}
  /\ Files > 0 => Small /\ Present /\ \A r \in Requests : req[r].pc \in Filing

Symmetry == Permutations(Requests) \cup Permutations(Duties) \cup Permutations(Tasks)
              \cup Permutations(AssignIds) \cup Permutations(FileIds)
              \cup Permutations(Employees)
=============================================================================
