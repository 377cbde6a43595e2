------------------------------ MODULE Documents ------------------------------
(***************************************************************************)
(* The printed form of a duty day and of an event                          *)
(* (monitoring/services/duty_day_pdf_service.py): who approved it and who  *)
(* drew it up, as a signature block above and two codes below the tables,  *)
(* and a line for each employee of an assignment.  Names, ranks, places,   *)
(* vehicles and layout are left out.  A document is a function of the rows *)
(* it is printed from; DutyPaper and EventPaper give the rows.             *)
(***************************************************************************)

\* In place of a signature or of a table: nobody signed, nothing is assigned.
Blank      == "___________________"
Unassigned == <<"-", "Tayinlanmagan">>

\* A line per employee of each assignment in A, so that an assignment without employees
\* has none; a dash when there is no assignment at all.
Lines(A, crewOf) ==
  IF A = {} THEN {Unassigned} ELSE UNION {{a} \X crewOf[a] : a \in A}

\* signatures: the decisions whose ..._by column is set, here by their names in the rows.
Document(signatures, submitted, approved, tables) ==
  [approver |-> IF approved \in signatures THEN approved ELSE Blank,
   maker    |-> IF submitted \in signatures THEN submitted ELSE "created",
   tables   |-> tables]
=============================================================================
