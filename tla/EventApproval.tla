---------------------------- MODULE EventApproval ----------------------------
(***************************************************************************)
(* Events: their assignments and their approval (monitoring/views/event.py,*)
(* services/event_service.py, serializers/event.py).  The chain is that of *)
(* duty days, with two differences that matter when requests overlap: the  *)
(* edit of an event saves the whole row, status and signatures as they     *)
(* were read, and a submission asks for one employee in all, by one query. *)
(*                                                                         *)
(* A request is a thread of the web server and a sequence of statements,   *)
(* with nothing around them, as in DutyDay.  The history variable          *)
(* overlapped says whether two requests were ever under way at once: some  *)
(* properties hold of any interleaving, the others until that happens.     *)
(***************************************************************************)
EXTENDS FiniteSets, Naturals

CONSTANTS
  Requests,     \* the request threads of the web server
  Events,       \* primary keys events may get
  AssignIds,    \* primary keys event assignments may get
  Employees,    \* employees of the organization (mahallas and transports are saved alike)
  MaxEdits,     \* bound: edits of one event
  None          \* stands for "no row" in a request's memory

ASSUME EventAssumption == MaxEdits \in Nat /\ None \notin Events \cup AssignIds

VARIABLES
  status,       \* status[v]  : Event.status, or whether the row exists
  signed,       \* signed[v]  : which of submitted_by ... rejected_by are set
  edition,      \* edition[v] : how often title and times were saved
  home,         \* home[a]    : the event the assignment row a belongs to, None without a row
  unused,       \* primary keys of assignments not given out yet
  crew,         \* crew[a]    : the employees of a (the many-to-many rows)
  req,          \* req[r]     : the request thread r is serving
  taken,        \* history: the decisions ever taken about each event
  overlapped    \* history: were two requests ever under way at once?

roster == <<home, unused, crew>>
vars   == <<status, signed, edition, roster, req, taken, overlapped>>

Decisions == {"SUBMITTED", "COLLECTED", "APPROVED", "REJECTED"}
Status    == Decisions \cup {"DRAFT"}
Absent    == {"unborn", "deleted"}

Steps ==
  {"idle", "patch", "discard", "assign.insert", "patch.crew", "patch.note", "crew.read",
   "crew.write", "assign.delete", "submit.check", "submit", "collect", "approve", "reject"}

\* What a thread holds: its next statement, the rows it loaded, the signatures and the
\* edition of the event it read, the employees asked for and the ones it read.
Request ==
  [pc : Steps, event : Events \cup {None}, asg : AssignIds \cup {None}, sigs : SUBSET Decisions,
   ed : 0 .. MaxEdits, want : SUBSET Employees, old : SUBSET Employees]

Idle == [pc |-> "idle", event |-> None, asg |-> None, sigs |-> {}, ed |-> 0, want |-> {}, old |-> {}]

TypeOK ==
  /\ status  \in [Events -> Status \cup Absent]
  /\ signed  \in [Events -> SUBSET Decisions]
  /\ edition \in [Events -> 0 .. MaxEdits]
  /\ home    \in [AssignIds -> Events \cup {None}]
  /\ unused  \in SUBSET AssignIds
  /\ crew    \in [AssignIds -> SUBSET Employees]
  /\ req     \in [Requests -> Request]
  /\ taken   \in [Events -> SUBSET Decisions]
  /\ overlapped \in BOOLEAN

Init ==
  /\ status  = [v \in Events |-> "unborn"]
  /\ signed  = [v \in Events |-> {}]
  /\ edition = [v \in Events |-> 0]
  /\ home    = [a \in AssignIds |-> None]
  /\ unused  = AssignIds
  /\ crew    = [a \in AssignIds |-> {}]
  /\ req     = [r \in Requests |-> Idle]
  /\ taken   = [v \in Events |-> {}]
  /\ overlapped = FALSE

-----------------------------------------------------------------------------
Live(v)       == status[v] \in Status
Staffed(v)    == \E a \in AssignIds : home[a] = v /\ crew[a] # {}
At(r, step)   == req[r].pc = step

\* Thread r goes on with memory m.
Becomes(r, m) == req' = [req EXCEPT ![r] = m]

\* A request arrives and loads an event whose status its view accepts.
Begin(r, step, v, from) ==
  /\ At(r, "idle")
  /\ status[v] \in from
  /\ Becomes(r, [Idle EXCEPT !.pc = step, !.event = v, !.sigs = signed[v], !.ed = edition[v]])
  /\ overlapped' = (overlapped \/ \E q \in Requests \ {r} : ~ At(q, "idle"))
  /\ UNCHANGED <<status, signed, edition, roster, taken>>

-----------------------------------------------------------------------------
(* The event itself.                                                                 *)

\* One INSERT, and its answer is read back.
CreateEvent(v) ==
  /\ status[v] = "unborn"
  /\ status' = [status EXCEPT ![v] = "DRAFT"]
  /\ UNCHANGED <<signed, edition, roster, req, taken, overlapped>>

BeginPatchEvent(r, v) == edition[v] < MaxEdits /\ Begin(r, "patch", v, {"DRAFT"})
BeginDiscard(r, v)    == Begin(r, "discard", v, {"DRAFT"})

\* serializer.save() writes every column as it was read; a row that is gone is inserted
\* again, without assignments.
SaveEvent(r) ==
  LET v == req[r].event
  IN  /\ At(r, "patch")
      /\ status'  = [status EXCEPT ![v] = "DRAFT"]
      /\ signed'  = [signed EXCEPT ![v] = req[r].sigs]
      /\ edition' = [edition EXCEPT ![v] = req[r].ed + 1]
      /\ Becomes(r, Idle)
      /\ UNCHANGED <<roster, taken, overlapped>>

\* Variant: on_delete=DO_NOTHING.
Discard_NoCascade(r) ==
  /\ At(r, "discard")
  /\ status' = [status EXCEPT ![req[r].event] = "deleted"]
  /\ Becomes(r, Idle)
  /\ UNCHANGED <<signed, edition, roster, taken, overlapped>>

\* delete() goes by primary key and cascades, whatever the status is by now.
Discard(r) ==
  LET v == req[r].event
  IN  /\ At(r, "discard")
      /\ status' = [status EXCEPT ![v] = "deleted"]
      /\ home'   = [a \in AssignIds |-> IF home[a] = v THEN None ELSE home[a]]
      /\ crew'   = [a \in AssignIds |-> IF home[a] = v THEN {} ELSE crew[a]]
      /\ Becomes(r, Idle)
      /\ UNCHANGED <<signed, edition, unused, taken, overlapped>>

-----------------------------------------------------------------------------
(* Its assignments: the row first, the employees by a later set().                   *)

BeginAssign(r, v, W) ==
  /\ At(r, "idle")
  /\ status[v] = "DRAFT"
  /\ Becomes(r, [Idle EXCEPT !.pc = "assign.insert", !.event = v, !.want = W])
  /\ overlapped' = (overlapped \/ \E q \in Requests \ {r} : ~ At(q, "idle"))
  /\ UNCHANGED <<status, signed, edition, roster, taken>>

\* An event that is gone breaks the foreign key.
InsertAssignment(r) ==
  /\ At(r, "assign.insert")
  /\ \/ /\ Live(req[r].event)
        /\ \E a \in unused :
             /\ home'   = [home EXCEPT ![a] = req[r].event]
             /\ unused' = unused \ {a}
             /\ Becomes(r, [req[r] EXCEPT !.pc = "crew.read", !.asg = a])
     \/ /\ ~ Live(req[r].event)
        /\ Becomes(r, Idle)
        /\ UNCHANGED <<home, unused>>
  /\ UNCHANGED <<status, signed, edition, crew, taken, overlapped>>

\* Variant: the view forgets to look at the status of the event.
BeginAssignmentEdit_AnyStatus(r, step, a, W) ==
  /\ At(r, "idle")
  /\ home[a] # None
  /\ Becomes(r, [Idle EXCEPT !.pc = step, !.event = home[a], !.asg = a, !.want = W])
  /\ overlapped' = (overlapped \/ \E q \in Requests \ {r} : ~ At(q, "idle"))
  /\ UNCHANGED <<status, signed, edition, roster, taken>>

BeginAssignmentEdit(r, step, a, W) ==
  /\ At(r, "idle")
  /\ home[a] # None /\ status[home[a]] = "DRAFT"
  /\ Becomes(r, [Idle EXCEPT !.pc = step, !.event = home[a], !.asg = a, !.want = W])
  /\ overlapped' = (overlapped \/ \E q \in Requests \ {r} : ~ At(q, "idle"))
  /\ UNCHANGED <<status, signed, edition, roster, taken>>

BeginPatchCrew(r, a, W)     == BeginAssignmentEdit(r, "patch.crew", a, W)
BeginPatchNote(r, a)        == BeginAssignmentEdit(r, "patch.note", a, {})
BeginDeleteAssignment(r, a) == BeginAssignmentEdit(r, "assign.delete", a, {})

\* save() of the whole assignment row inserts it again when it is gone, if its event is not.
SaveAssignment(r) ==
  /\ req[r].pc \in {"patch.crew", "patch.note"}
  /\ IF Live(req[r].event)
       THEN /\ home' = [home EXCEPT ![req[r].asg] = req[r].event]
            /\ Becomes(r, IF At(r, "patch.crew") THEN [req[r] EXCEPT !.pc = "crew.read"] ELSE Idle)
       ELSE /\ Becomes(r, Idle)
            /\ UNCHANGED home
  /\ UNCHANGED <<status, signed, edition, unused, crew, taken, overlapped>>

ReadCrew(r) ==
  /\ At(r, "crew.read")
  /\ Becomes(r, [req[r] EXCEPT !.pc = "crew.write", !.old = crew[req[r].asg]])
  /\ UNCHANGED <<status, signed, edition, roster, taken, overlapped>>

WriteCrew(r) ==
  LET m == req[r]
  IN  /\ At(r, "crew.write")
      /\ crew' = [crew EXCEPT ![m.asg] = IF home[m.asg] = None THEN @
                                         ELSE (@ \ (m.old \ m.want)) \cup (m.want \ m.old)]
      /\ Becomes(r, Idle)
      /\ UNCHANGED <<status, signed, edition, home, unused, taken, overlapped>>

DeleteAssignment(r) ==
  /\ At(r, "assign.delete")
  /\ home' = [home EXCEPT ![req[r].asg] = None]
  /\ crew' = [crew EXCEPT ![req[r].asg] = {}]
  /\ Becomes(r, Idle)
  /\ UNCHANGED <<status, signed, edition, unused, taken, overlapped>>

-----------------------------------------------------------------------------
(* The decisions.  Each saves status and signature with save(update_fields=...),     *)
(* which fails when the row is gone.                                                 *)

\* Variants: an event the collector has not seen may be approved; a submission is not
\* checked.
BeginApprove_Uncollected(r, v) == Begin(r, "approve", v, {"SUBMITTED", "COLLECTED"})
BeginSubmit_Unchecked(r, v)    == Begin(r, "submit", v, {"DRAFT"})

BeginSubmit(r, v)  == Begin(r, "submit.check", v, {"DRAFT"})
BeginCollect(r, v) == Begin(r, "collect", v, {"SUBMITTED"})
BeginApprove(r, v) == Begin(r, "approve", v, {"COLLECTED"})
BeginReject(r, v)  == Begin(r, "reject", v, {"SUBMITTED", "COLLECTED"})

\* One query over the assignments: is there an employee at all?
CheckStaffed(r) ==
  /\ At(r, "submit.check")
  /\ Becomes(r, IF Staffed(req[r].event) THEN [req[r] EXCEPT !.pc = "submit"] ELSE Idle)
  /\ UNCHANGED <<status, signed, edition, roster, taken, overlapped>>

Decide(r, step, decision) ==
  LET v == req[r].event
  IN  /\ At(r, step)
      /\ IF Live(v)
           THEN /\ status' = [status EXCEPT ![v] = decision]
                /\ signed' = [signed EXCEPT ![v] = @ \cup {decision}]
                /\ taken'  = [taken EXCEPT ![v] = @ \cup {decision}]
           ELSE UNCHANGED <<status, signed, taken>>
      /\ Becomes(r, Idle)
      /\ UNCHANGED <<edition, roster, overlapped>>

SaveSubmit(r)  == Decide(r, "submit", "SUBMITTED")
SaveCollect(r) == Decide(r, "collect", "COLLECTED")
SaveApprove(r) == Decide(r, "approve", "APPROVED")
SaveReject(r)  == Decide(r, "reject", "REJECTED")

\* The server process or the database connection fails under a request.
Abort(r) ==
  /\ ~ At(r, "idle")
  /\ Becomes(r, Idle)
  /\ UNCHANGED <<status, signed, edition, roster, taken, overlapped>>

EditSteps(r) ==
  \/ \E v \in Events : BeginPatchEvent(r, v) \/ BeginDiscard(r, v)
  \/ SaveEvent(r) \/ Discard(r)
  \/ \E v \in Events, W \in SUBSET Employees : BeginAssign(r, v, W)
  \/ InsertAssignment(r)
  \/ \E a \in AssignIds, W \in SUBSET Employees : BeginPatchCrew(r, a, W)
  \/ \E a \in AssignIds : BeginPatchNote(r, a) \/ BeginDeleteAssignment(r, a)
  \/ SaveAssignment(r) \/ ReadCrew(r) \/ WriteCrew(r) \/ DeleteAssignment(r)

ChainSteps(r) ==
  \/ \E v \in Events :
       BeginSubmit(r, v) \/ BeginCollect(r, v) \/ BeginApprove(r, v) \/ BeginReject(r, v)
  \/ CheckStaffed(r)
  \/ SaveSubmit(r) \/ SaveCollect(r) \/ SaveApprove(r) \/ SaveReject(r)

Next ==
  \/ \E v \in Events : CreateEvent(v)
  \/ \E r \in Requests : EditSteps(r) \/ ChainSteps(r) \/ Abort(r)

Spec == Init /\ [][Next]_vars

-----------------------------------------------------------------------------
(* What holds whatever requests overlap.                                              *)

Needs ==
  [x \in Decisions |-> CASE x = "SUBMITTED" -> {}
                         [] x = "COLLECTED" -> {"SUBMITTED"}
                         [] x = "APPROVED"  -> {"COLLECTED"}
                         [] x = "REJECTED"  -> {"SUBMITTED", "COLLECTED"}]

History == INSTANCE ApprovalHistory WITH Docs <- Events, Rewrites <- TRUE

\* Stale decisions and edits that save the whole row leave an order among the decisions:
\* no event is approved that was never collected, nor shows a status it was never given.
HistorySpec == History!Spec

\* A decision in memory rests on one that was taken before it was loaded.
InFlight ==
  \A r \in Requests :
    /\ ~ At(r, "idle") => req[r].event \in Events
    /\ At(r, "collect") => "SUBMITTED" \in taken[req[r].event]
    /\ At(r, "approve") => "COLLECTED" \in taken[req[r].event]
    /\ At(r, "reject")  => taken[req[r].event] \cap {"SUBMITTED", "COLLECTED"} # {}

\* No assignment of a vanished event and no employee of a vanished assignment, though
\* edits bring deleted events and assignments back.
RosterIntegrity ==
  \A a \in AssignIds :
    /\ home[a] # None => Live(home[a])
    /\ crew[a] # {} => home[a] # None

Consistent == TypeOK /\ InFlight /\ RosterIntegrity

-----------------------------------------------------------------------------
\* The statuses that mean an event is before its reviewers, or was approved by them.
UnderReview == {"SUBMITTED", "COLLECTED", "APPROVED"}
=============================================================================
