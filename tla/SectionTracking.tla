---------------------------- MODULE SectionTracking ----------------------------
(***************************************************************************)
(* Going on duty and leaving it, and the tracking of a section this turns  *)
(* on and off.  An employee starts a section on the tablet (tablet/        *)
(* views.py), which records a DutyCheckIn row and asks the location        *)
(* service, a Go process with a database of its own, to open a duty for    *)
(* the section (services/microservice.py, services/grpc_client.py); ending *)
(* it records the check-out and asks it to stop the section's duty.  The   *)
(* live map (views/map.py) opens a duty for any section it finds none of.  *)
(*                                                                         *)
(* The sections are those of a day that has left DRAFT: their crew no      *)
(* longer changes (ContentFrozen of DutyDay).  A request is a thread of    *)
(* the web server; it waits for each remote call, and goes on whatever the *)
(* call answers, an error or nothing at all included.                      *)
(***************************************************************************)
EXTENDS Integers, Sequences

CONSTANTS
  Requests,     \* the request threads of the web server
  Sections,     \* duty sections of days that have left DRAFT
  Employees,    \* the employees with a tablet
  Crew,         \* Crew[s] : the employees with exactly one assignment in section s (for one
                \* with two, the start view finds the section twice and fails)
  Located,      \* sections whose assignments all name a location the service knows
  Viewed,       \* sections somebody may look at on the live map
  MaxDuties,    \* bound: duties opened per section
  MaxFailures   \* bound: remote calls lost and requests cut short

ASSUME TrackingAssumption ==
  /\ Crew \in [Sections -> SUBSET Employees]
  /\ Located \subseteq Sections
  /\ Viewed \subseteq Sections
  /\ MaxDuties \in Nat /\ MaxFailures \in Nat

VARIABLES
  checkin,      \* checkin[s][e] : the DutyCheckIn row of e in s
  duties,       \* duties[s]     : the duties the location service has opened for s
  req,          \* req[r]        : the request thread r is serving
  failures      \* remote calls lost and requests cut short so far

vars == <<checkin, duties, req, failures>>

\* No row, a row without times (made by hand in the admin site), on duty, off duty.
CheckIn == {"none", "blank", "open", "closed"}
Duty    == {"active", "stopped"}
Steps   == {"idle", "start.save", "create.check", "create.insert", "end.save", "stop"}

\* What a thread holds: its next statement or call, the section and the employee.
Request == [pc : Steps \ {"idle"}, section : Sections, emp : Employees] \cup {[pc |-> "idle"]}
Idle    == [pc |-> "idle"]

TypeOK ==
  /\ checkin  \in [Sections -> [Employees -> CheckIn]]
  /\ duties   \in [Sections -> Seq(Duty)]
  /\ \A s \in Sections : Len(duties[s]) <= MaxDuties
  /\ req      \in [Requests -> Request]
  /\ failures \in 0 .. MaxFailures

Init ==
  /\ checkin  = [s \in Sections |-> [e \in Employees |-> "none"]]
  /\ duties   = [s \in Sections |-> << >>]
  /\ req      = [r \in Requests |-> Idle]
  /\ failures = 0

-----------------------------------------------------------------------------
ActiveOf(s) == {i \in 1 .. Len(duties[s]) : duties[s][i] = "active"}
Tracked(s)  == ActiveOf(s) # {}
Started(s, e) == checkin[s][e] \in {"open", "closed"}

At(r, step)   == req[r].pc = step
Goto(r, step) == req' = [req EXCEPT ![r].pc = step]
Done(r)       == req' = [req EXCEPT ![r] = Idle]
Fail          == failures < MaxFailures /\ failures' = failures + 1

-----------------------------------------------------------------------------
(* The check-in row.                                                                 *)

\* The admin site adds a check-in; it cannot set the times.
AddCheckInByHand(s, e) ==
  /\ checkin[s][e] = "none"
  /\ checkin' = [checkin EXCEPT ![s][e] = "blank"]
  /\ UNCHANGED <<duties, req, failures>>

\* Variant: the call goes out before the check-in time is saved.
StartDuty_CallFirst(r, s, e) ==
  /\ At(r, "idle")
  /\ e \in Crew[s]
  /\ checkin[s][e] \in {"none", "blank"}
  /\ checkin' = [checkin EXCEPT ![s][e] = IF @ = "none" THEN "open" ELSE @]
  /\ req' = [req EXCEPT ![r] = [pc |-> "create.check", section |-> s, emp |-> e]]
  /\ UNCHANGED <<duties, failures>>

\* get_or_create: a new row is on duty at once, one without a check-in time is saved
\* next; a section already started or finished is refused, which is not a step.
StartDuty(r, s, e) ==
  /\ At(r, "idle")
  /\ e \in Crew[s]
  /\ \/ /\ checkin[s][e] = "none"
        /\ checkin' = [checkin EXCEPT ![s][e] = "open"]
        /\ req' = [req EXCEPT ![r] = [pc |-> "create.check", section |-> s, emp |-> e]]
     \/ /\ checkin[s][e] = "blank"
        /\ req' = [req EXCEPT ![r] = [pc |-> "start.save", section |-> s, emp |-> e]]
        /\ UNCHANGED checkin
  /\ UNCHANGED <<duties, failures>>

\* Variant: save() of the whole row, whose check-out time was read as empty.
SaveCheckIn_WholeRow(r) ==
  /\ At(r, "start.save")
  /\ checkin' = [checkin EXCEPT ![req[r].section][req[r].emp] = "open"]
  /\ Goto(r, "create.check")
  /\ UNCHANGED <<duties, failures>>

\* save(update_fields=['check_in_time']) leaves a check-out time set meanwhile.
SaveCheckIn(r) ==
  /\ At(r, "start.save")
  /\ checkin' = [checkin EXCEPT ![req[r].section][req[r].emp] =
                   IF @ = "closed" THEN @ ELSE "open"]
  /\ Goto(r, "create.check")
  /\ UNCHANGED <<duties, failures>>

EndDuty(r, s, e) ==
  /\ At(r, "idle")
  /\ checkin[s][e] = "open"
  /\ req' = [req EXCEPT ![r] = [pc |-> "end.save", section |-> s, emp |-> e]]
  /\ UNCHANGED <<checkin, duties, failures>>

SaveCheckOut(r) ==
  /\ At(r, "end.save")
  /\ checkin' = [checkin EXCEPT ![req[r].section][req[r].emp] = "closed"]
  /\ Goto(r, "stop")
  /\ UNCHANGED <<duties, failures>>

-----------------------------------------------------------------------------
(* The location service: DutyCreate looks for an active duty and inserts one, in two  *)
(* statements; DutyStop stops every active duty of the section.                       *)

\* The live map asks DutyInfo, and DutyCreate when it answers nothing.
LookAtMap(r, s) ==
  /\ At(r, "idle")
  /\ s \in Viewed
  /\ \/ ~ Tracked(s) /\ UNCHANGED failures
     \/ Tracked(s) /\ Fail
  /\ \E e \in Employees :
       req' = [req EXCEPT ![r] = [pc |-> "create.check", section |-> s, emp |-> e]]
  /\ UNCHANGED <<checkin, duties>>

\* Variant: the query forgets ended_at IS NULL.
FindActive_Stopped(r) ==
  /\ At(r, "create.check")
  /\ IF duties[req[r].section] # << >> THEN Done(r) ELSE Goto(r, "create.insert")
  /\ UNCHANGED <<checkin, duties, failures>>

FindActive(r) ==
  /\ At(r, "create.check")
  /\ IF Tracked(req[r].section) THEN Done(r) ELSE Goto(r, "create.insert")
  /\ UNCHANGED <<checkin, duties, failures>>

\* Variant: no unique index on the section of the active duties.
InsertDuty_NoUniqueIndex(r) ==
  LET s == req[r].section
  IN  /\ At(r, "create.insert")
      /\ s \in Located => Len(duties[s]) < MaxDuties
      /\ duties' = IF s \in Located THEN [duties EXCEPT ![s] = Append(@, "active")] ELSE duties
      /\ Done(r)
      /\ UNCHANGED <<checkin, failures>>

\* One transaction inserts the duty, its assignments and their crew.  It fails as a whole
\* when the section has an active duty by now (unique index) or when an assignment has no
\* location (foreign key).
InsertDuty(r) ==
  LET s     == req[r].section
      valid == s \in Located /\ ~ Tracked(s)
  IN  /\ At(r, "create.insert")
      /\ valid => Len(duties[s]) < MaxDuties
      /\ duties' = IF valid THEN [duties EXCEPT ![s] = Append(@, "active")] ELSE duties
      /\ Done(r)
      /\ UNCHANGED <<checkin, failures>>

StopDuty(r) ==
  /\ At(r, "stop")
  /\ duties' = [duties EXCEPT ![req[r].section] = [i \in 1 .. Len(@) |-> "stopped"]]
  /\ Done(r)
  /\ UNCHANGED <<checkin, failures>>

\* A remote call is lost or times out, which the request ignores; or the request itself
\* is cut short.  Either way the rest of it does not happen.
CutShort(r) ==
  /\ ~ At(r, "idle")
  /\ Fail
  /\ Done(r)
  /\ UNCHANGED <<checkin, duties>>

Next ==
  \/ \E s \in Sections, e \in Employees : AddCheckInByHand(s, e)
  \/ \E r \in Requests :
       \/ \E s \in Sections, e \in Employees : StartDuty(r, s, e) \/ EndDuty(r, s, e)
       \/ \E s \in Sections : LookAtMap(r, s)
       \/ SaveCheckIn(r) \/ SaveCheckOut(r)
       \/ FindActive(r) \/ InsertDuty(r) \/ StopDuty(r) \/ CutShort(r)

Spec == Init /\ [][Next]_vars

-----------------------------------------------------------------------------
(* What holds whatever requests overlap and whatever calls are lost.                  *)

\* The location service never tracks a section twice, though DutyCreate looks and inserts
\* in two steps and the tablets of a crew and any number of maps send it at once.
OneActiveDuty == \A s \in Sections : \A i, j \in ActiveOf(s) : i = j

\* An employee who has ended the section is not on duty again, however late a start that
\* overlapped the end is saved.
CheckOutFinal ==
  [][\A s \in Sections, e \in Employees :
       checkin[s][e] = "closed" => checkin'[s][e] = "closed"]_vars

\* The location service hears of a check-in or check-out only after the database has it:
\* a section nobody looks at on the map has a duty only if somebody of its crew has
\* started it, and a duty is stopped only if somebody has ended it.
DutiesFollowCheckIns ==
  \A s \in Sections :
    /\ s \notin Viewed /\ duties[s] # << >> =>
         \E e \in Crew[s] : Started(s, e)
    /\ (\E i \in 1 .. Len(duties[s]) : duties[s][i] = "stopped") =>
         \E e \in Crew[s] : checkin[s][e] = "closed"

\* What a request in memory m may rely on: rows are never taken back.
Backed(m) ==
  /\ m.pc = "start.save" => m.emp \in Crew[m.section]
  /\ m.pc \in {"create.check", "create.insert"} /\ m.section \notin Viewed =>
       \E e \in Crew[m.section] : Started(m.section, e)
  /\ m.pc = "end.save" => m.emp \in Crew[m.section]
  /\ m.pc = "stop" => m.emp \in Crew[m.section] /\ checkin[m.section][m.emp] = "closed"

InFlight ==
  /\ \A s \in Sections, e \in Employees : Started(s, e) => e \in Crew[s]
  /\ \A r \in Requests : Backed(req[r])

\* A start whose call got through leaves the section tracked, also when the section was
\* stopped before, or another start or a map was faster.
StartLeavesTracked ==
  [][\A r \in Requests, s \in Located :
       (/\ req[r].pc \in {"create.check", "create.insert"} /\ req'[r].pc = "idle"
        /\ req[r].section = s
        /\ failures' = failures) => Tracked(s)']_vars

-----------------------------------------------------------------------------
(* What the comments of the code say and the code does not do.                        *)

\* microservice.py: DutyCreate is called when the duty section starts.  So a section that
\* is tracked has been started.
OnlyStartedIsTracked ==
  \A s \in Sections : Tracked(s) => \E e \in Crew[s] : Started(s, e)
=============================================================================
