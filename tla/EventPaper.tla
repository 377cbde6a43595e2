----------------------------- MODULE EventPaper -----------------------------
(* The document of an event: one table (generate_event_pdf).                           *)
EXTENDS EventApproval, Documents

\* No key of an assignment reads as the dash of the empty line.
ASSUME PaperAssumption == Unassigned[1] \notin AssignIds

Rows(v) == {a \in AssignIds : home[a] = v}

Paper(v) == Document(signed[v], "SUBMITTED", "APPROVED", Lines(Rows(v), crew))

\* Until two requests overlap, an event under review is printed with an employee, and
\* with the name of who approved it exactly when it is approved; and its signatures are
\* the decisions that were taken.
PrintedAsDecided ==
  overlapped \/ \A v \in Events : Live(v) =>
    /\ signed[v] = taken[v]
    /\ Paper(v).approver # Blank <=> status[v] = "APPROVED"
    /\ status[v] \in UnderReview =>
         Paper(v).maker = "SUBMITTED" /\ Paper(v).tables \notin {{}, {Unassigned}}

\* Until then, two prints of an event differ in nothing but the approver once it was
\* submitted, and in nothing once it was approved.
PaperFinal ==
  [][\A v \in Events : ~ overlapped' /\ status[v] \in Decisions =>
       /\ edition'[v] = edition[v]
       /\ \A a \in Rows(v) \cup Rows(v)' : home'[a] = home[a] /\ crew'[a] = crew[a]
       /\ Paper(v)' = [Paper(v) EXCEPT !.approver = Paper(v)'.approver]
       /\ Paper(v).approver # Blank => Paper(v)' = Paper(v)]_vars
=============================================================================
