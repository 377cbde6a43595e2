------------------------------ MODULE DutyPaper ------------------------------
(* The document of a duty day: a table per section (generate_duty_day_pdf).            *)
EXTENDS DutyDay, Documents

\* No key of an assignment reads as the dash of the empty line.
ASSUME PaperAssumption == Unassigned[1] \notin AssignIds

Rows(d, s) == {a \in AssignIds : home[a] = <<d, s>>}

Paper(d) ==
  Document(signed[d], "submitted", "approved", [s \in sections[d] |-> Lines(Rows(d, s), crew)])

\* When requests do not overlap, whoever prints a day under review gets a table with an
\* employee in each section, and the name of the administrator exactly when the day is
\* approved; a rejected day, or one whose approval was cut short, is never printed as
\* approved.
PaperComplete ==
  \A d \in DayIds : Live(d) =>
    /\ Paper(d).approver # Blank <=> status[d] = "APPROVED"
    /\ status[d] \in UnderReview =>
         /\ Paper(d).maker = "submitted"
         /\ \A s \in sections[d] : Paper(d).tables[s] \notin {{}, {Unassigned}}
=============================================================================
