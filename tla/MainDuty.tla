------------------------------- MODULE MainDuty -------------------------------
(***************************************************************************)
(* Main duties, the older form of duty: their tasks, the assignments of    *)
(* employees to tasks, the absence requests about assignments, the files   *)
(* attached to a duty, and the approval chain with the report it makes     *)
(* (monitoring/views/main_duty.py, task.py, task_assignment.py,            *)
(* duty_file.py, their serializers, services/main_duty_service.py,         *)
(* pdf_service.py, external_service.py).                                   *)
(*                                                                         *)
(* A request is a thread of the web server and a sequence of statements    *)
(* with nothing around them.  put() looks at the status of the duty; the   *)
(* PATCH the detail views inherit and their DELETE do not, and both edits  *)
(* save every column of the row they read.  A deletion looks at nothing it *)
(* could be wrong about later, so it is one step.                          *)
(***************************************************************************)
EXTENDS FiniteSets, Naturals

CONSTANTS
  Requests,     \* the request threads of the web server
  Duties,       \* primary keys main duties may get
  Tasks,        \* primary keys tasks may get
  AssignIds,    \* primary keys assignments may get
  FileIds,      \* primary keys files may get
  Employees,    \* employees of the organization
  Windows,      \* pairs of a start and an end time
  Cars,         \* transports of type CAR; other transports are as good as none
  None          \* stands for "nothing"

Span(w, x) == w[1] < x[2] /\ w[2] > x[1]    \* the view's comparison of two windows

ASSUME MainDutyAssumption ==
  /\ Windows \subseteq Nat \X Nat
  /\ None \notin Duties \cup Tasks \cup AssignIds \cup FileIds \cup Employees \cup Windows \cup Cars
ASSUME NoneIsNoVerdict == None \notin {"APPROVED", "REJECTED"}

VARIABLES
  duty,         \* duty[d]    : the MainDuty row; "unborn" or "deleted" without one
  task,         \* task[t]    : the Task row, its duty None without one
  asg,          \* asg[a]     : the TaskAssignment row, its task None without one
  absence,      \* absence[a] : the AbsenceRequest row about a, its status None without one
  file,         \* file[f]    : the DutyFile row; NoFile without one
  unused,       \* primary keys of tasks, assignments and files not given out yet
  handed,       \* <<d, its crews>> as offered to the external system
  req,          \* req[r]     : the request thread r is serving
  taken,        \* history: the decisions ever taken about each duty
  overlapped    \* history: were two requests ever under way at once?

plan == <<duty, task, asg, absence>>
rows == <<plan, file, unused>>
vars == <<rows, handed, req, taken, overlapped>>

Decisions == {"SENT_FOR_APPROVAL", "APPROVED", "REJECTED"}
Status    == Decisions \cup {"DRAFT"}
Verdicts  == {"APPROVED", "REJECTED"}
Seats     == {None} \cup (Cars \X {"DRIVER", "PASSENGER"})

DutyRow    == [status : Status, window : Windows]
TaskRow    == [duty : Duties, window : Windows \cup {None}]
AsgRow     == [task : Tasks, emp : Employees, seat : Seats]
AbsenceRow == [status : Verdicts \cup {"PENDING"}, cover : Employees \cup {None}]
Crews      == SUBSET (Tasks \X Employees)
FileRow    == [duty : Duties \cup {None}, name : {"duty_report", "other"}, crews : Crews]
NoDuty(x)  == [status |-> x, window |-> None]
NoTask     == [duty |-> None, window |-> None]
NoAsg      == [task |-> None, emp |-> None, seat |-> None]
NoAbsence  == [status |-> None, cover |-> None]
NoFile     == [duty |-> None, name |-> None, crews |-> {}]

\* What a thread holds: its next statement, the key and the row it is about to save, the
\* assignments or tasks left in its loop.
Idle == [pc |-> "idle", key |-> None, row |-> None, todo |-> {}]

Request ==
  {Idle}
    \cup [pc : {"duty.save"}, key : Duties, row : DutyRow, todo : {{}}]
    \cup [pc : {"task.insert"}, key : {None}, row : TaskRow, todo : {{}}]
    \cup [pc : {"task.save"}, key : Tasks, row : TaskRow, todo : {{}}]
    \cup [pc : {"clash.find"}, key : Windows, row : AsgRow, todo : {{}}]
    \cup [pc : {"clash.delete"}, key : {None}, row : AsgRow, todo : SUBSET AssignIds]
    \cup [pc : {"asg.insert"}, key : {None}, row : AsgRow, todo : {{}}]
    \cup [pc : {"asg.save"}, key : AssignIds, row : AsgRow, todo : {{}}]
    \cup [pc : {"absence.insert"}, key : AssignIds, row : {None}, todo : {{}}]
    \cup [pc : {"absence.save", "absence.swap", "replace"}, key : AssignIds, row : AbsenceRow, todo : {{}}]
    \cup [pc : {"file.save"}, key : FileIds, row : FileRow, todo : {{}}]
    \cup [pc : {"send.exists", "send.tasks", "approve", "report.read", "hand.over", "reject"},
          key : Duties, row : {None}, todo : {{}}]
    \cup [pc : {"report.delete", "report.insert"}, key : Duties, row : FileRow, todo : {{}}]
    \cup [pc : {"send.check"}, key : Duties, row : {None}, todo : SUBSET Tasks]

TypeOK ==
  /\ duty    \in [Duties -> DutyRow \cup {NoDuty("unborn"), NoDuty("deleted")}]
  /\ task    \in [Tasks -> TaskRow \cup {NoTask}]
  /\ asg     \in [AssignIds -> AsgRow \cup {NoAsg}]
  /\ absence \in [AssignIds -> AbsenceRow \cup {NoAbsence}]
  /\ file    \in [FileIds -> FileRow \cup {NoFile}]
  /\ unused  \in SUBSET (Tasks \cup AssignIds \cup FileIds)
  /\ handed  \in SUBSET (Duties \X Crews)
  /\ req     \in [Requests -> Request]
  /\ taken   \in [Duties -> SUBSET Decisions]
  /\ overlapped \in BOOLEAN

Init ==
  /\ duty    = [d \in Duties |-> NoDuty("unborn")]
  /\ task    = [t \in Tasks |-> NoTask]
  /\ asg     = [a \in AssignIds |-> NoAsg]
  /\ absence = [a \in AssignIds |-> NoAbsence]
  /\ file    = [f \in FileIds |-> NoFile]
  /\ unused  = Tasks \cup AssignIds \cup FileIds
  /\ handed  = {}
  /\ req     = [r \in Requests |-> Idle]
  /\ taken   = [d \in Duties |-> {}]
  /\ overlapped = FALSE

-----------------------------------------------------------------------------
Live(d)      == duty[d].status \in Status
Draft(d)     == duty[d].status = "DRAFT"
LiveTasks    == {t \in Tasks : task[t] # NoTask}
LiveAsgs     == {a \in AssignIds : asg[a] # NoAsg}
TasksOf(d)   == {t \in LiveTasks : task[t].duty = d}
AsgsOf(t)    == {a \in LiveAsgs : asg[a].task = t}
CrewsOf(d)   == {<<asg[a].task, asg[a].emp>> : a \in {b \in LiveAsgs : asg[b].task \in TasksOf(d)}}
ReportsOf(d) == {f \in FileIds : file[f].duty = d /\ file[f].name = "duty_report"}
Serving(t)   == {asg[a].emp : a \in AsgsOf(t)}
\* A task without times of its own has those of its duty.
Hours(t)     == IF task[t].window = None THEN duty[task[t].duty].window ELSE task[t].window

At(r, step)  == req[r].pc = step
Becomes(r, m) == req' = [req EXCEPT ![r] = m]
Done(r)      == Becomes(r, Idle)
Busy(S)      == \E q \in S : ~ At(q, "idle")

\* A request arrives at thread r, has read what it wants and goes on with m.
Begin(r, m) ==
  /\ At(r, "idle")
  /\ Becomes(r, m)
  /\ overlapped' = (overlapped \/ Busy(Requests \ {r}))
  /\ UNCHANGED <<rows, handed, taken>>

Memory(step, key, row) == [pc |-> step, key |-> key, row |-> row, todo |-> {}]

-----------------------------------------------------------------------------
(* Duties.                                                                           *)

CreateDuty(d, w) ==
  /\ duty[d].status = "unborn"
  /\ duty' = [duty EXCEPT ![d] = [status |-> "DRAFT", window |-> w]]
  /\ UNCHANGED <<task, asg, absence, file, unused, handed, req, taken, overlapped>>

BeginPutDuty(r, d, w) ==
  Draft(d) /\ Begin(r, Memory("duty.save", d, [status |-> "DRAFT", window |-> w]))

\* partial_update: no look at the status.
BeginPatchDuty(r, d, w) ==
  Live(d) /\ Begin(r, Memory("duty.save", d, [status |-> duty[d].status, window |-> w]))

\* save() of the whole row, inserted again when it is gone.
SaveDuty(r) ==
  /\ At(r, "duty.save")
  /\ duty' = [duty EXCEPT ![req[r].key] = req[r].row]
  /\ Done(r)
  /\ UNCHANGED <<task, asg, absence, file, unused, handed, taken, overlapped>>

\* What a deletion of the tasks T takes with it: their assignments and absence requests.
Cascade(T) ==
  /\ task'    = [t \in Tasks |-> IF t \in T THEN NoTask ELSE task[t]]
  /\ asg'     = [a \in AssignIds |-> IF asg[a].task \in T THEN NoAsg ELSE asg[a]]
  /\ absence' = [a \in AssignIds |-> IF asg[a].task \in T THEN NoAbsence ELSE absence[a]]

DeleteDuty(d) ==
  /\ Live(d)
  /\ duty' = [duty EXCEPT ![d] = NoDuty("deleted")]
  /\ Cascade(TasksOf(d))
  /\ file' = [f \in FileIds |-> IF file[f].duty = d THEN NoFile ELSE file[f]]
  /\ overlapped' = (overlapped \/ Busy(Requests))
  /\ UNCHANGED <<unused, handed, req, taken>>

-----------------------------------------------------------------------------
(* Tasks.                                                                            *)

BeginAddTask(r, d, w) ==
  Draft(d) /\ Begin(r, Memory("task.insert", None, [duty |-> d, window |-> w]))

InsertTask(r) ==
  /\ At(r, "task.insert")
  /\ \/ /\ Live(req[r].row.duty)
        /\ \E t \in unused \cap Tasks :
             /\ task'   = [task EXCEPT ![t] = req[r].row]
             /\ unused' = unused \ {t}
     \/ ~ Live(req[r].row.duty) /\ UNCHANGED <<task, unused>>
  /\ Done(r)
  /\ UNCHANGED <<duty, asg, absence, file, handed, taken, overlapped>>

BeginPutTask(r, t, w) ==
  /\ t \in LiveTasks /\ Draft(task[t].duty)
  /\ Begin(r, Memory("task.save", t, [duty |-> task[t].duty, window |-> w]))

\* partial_update: any status, and the duty of the task is an ordinary field.
BeginPatchTask(r, t, d, w) ==
  /\ t \in LiveTasks /\ Live(d)
  /\ Begin(r, Memory("task.save", t, [duty |-> d, window |-> w]))

SaveTask(r) ==
  /\ At(r, "task.save")
  /\ task' = [task EXCEPT ![req[r].key] = IF Live(req[r].row.duty) THEN req[r].row ELSE @]
  /\ Done(r)
  /\ UNCHANGED <<duty, asg, absence, file, unused, handed, taken, overlapped>>

DeleteTask(t) ==
  /\ t \in LiveTasks
  /\ Cascade({t})
  /\ overlapped' = (overlapped \/ Busy(Requests))
  /\ UNCHANGED <<duty, file, unused, handed, req, taken>>

-----------------------------------------------------------------------------
(* Assignments.  A new one takes its employee out of the tasks it clashes with, of   *)
(* whatever duty: the clashes are looked up, deleted, and the row inserted.          *)

BeginAssign(r, t, e, s) ==
  /\ t \in LiveTasks /\ Draft(task[t].duty)
  /\ e \notin Serving(t)
  /\ Begin(r, Memory("clash.find", Hours(t), [task |-> t, emp |-> e, seat |-> s]))

\* Variant: the new task's window must contain the other one.
FindClashes_Contained(r) ==
  LET m == req[r]
      clashes == {a \in LiveAsgs : /\ asg[a].emp = m.row.emp /\ asg[a].task # m.row.task
                                   /\ m.key[1] < Hours(asg[a].task)[1]
                                   /\ Hours(asg[a].task)[2] < m.key[2]}
  IN  /\ At(r, "clash.find")
      /\ Becomes(r, IF clashes = {} THEN Memory("asg.insert", None, m.row)
                    ELSE [Memory("clash.delete", None, m.row) EXCEPT !.todo = clashes])
      /\ UNCHANGED <<rows, handed, taken, overlapped>>

FindClashes(r) ==
  LET m == req[r]
      clashes == {a \in LiveAsgs : /\ asg[a].emp = m.row.emp /\ asg[a].task # m.row.task
                                   /\ Span(Hours(asg[a].task), m.key)}
  IN  /\ At(r, "clash.find")
      /\ Becomes(r, IF clashes = {} THEN Memory("asg.insert", None, m.row)
                    ELSE [Memory("clash.delete", None, m.row) EXCEPT !.todo = clashes])
      /\ UNCHANGED <<rows, handed, taken, overlapped>>

DeleteClashes(r) ==
  /\ At(r, "clash.delete")
  /\ asg'     = [a \in AssignIds |-> IF a \in req[r].todo THEN NoAsg ELSE asg[a]]
  /\ absence' = [a \in AssignIds |-> IF a \in req[r].todo THEN NoAbsence ELSE absence[a]]
  /\ Becomes(r, Memory("asg.insert", None, req[r].row))
  /\ UNCHANGED <<duty, task, file, unused, handed, taken, overlapped>>

\* Variant: no unique_together.
Accepted_NoUniqueKey(a, row) == row.task \in LiveTasks

\* The database refuses a row without its task and a second one of task and employee.
Accepted(a, row) ==
  row.task \in LiveTasks /\ \A b \in AsgsOf(row.task) \ {a} : asg[b].emp # row.emp

InsertAssignment(r) ==
  /\ At(r, "asg.insert")
  /\ \/ /\ Accepted(None, req[r].row)
        /\ \E a \in unused \cap AssignIds :
             /\ asg'    = [asg EXCEPT ![a] = req[r].row]
             /\ unused' = unused \ {a}
     \/ ~ Accepted(None, req[r].row) /\ UNCHANGED <<asg, unused>>
  /\ Done(r)
  /\ UNCHANGED <<duty, task, absence, file, handed, taken, overlapped>>

BeginPutAssignment(r, a, e, s) ==
  /\ a \in LiveAsgs /\ Draft(task[asg[a].task].duty)
  /\ Accepted(a, [task |-> asg[a].task, emp |-> e])
  /\ Begin(r, Memory("asg.save", a, [task |-> asg[a].task, emp |-> e, seat |-> s]))

\* partial_update: any status, and the assignment may be moved to another task.
BeginPatchAssignment(r, a, t, e, s) ==
  /\ a \in LiveAsgs
  /\ Accepted(a, [task |-> t, emp |-> e])
  /\ Begin(r, Memory("asg.save", a, [task |-> t, emp |-> e, seat |-> s]))

SaveAssignment(r) ==
  LET a == req[r].key
  IN  /\ At(r, "asg.save")
      /\ asg' = [asg EXCEPT ![a] = IF Accepted(a, req[r].row) THEN req[r].row ELSE @]
      /\ Done(r)
      /\ UNCHANGED <<duty, task, absence, file, unused, handed, taken, overlapped>>

DeleteAssignment(a) ==
  /\ a \in LiveAsgs
  /\ asg'     = [asg EXCEPT ![a] = NoAsg]
  /\ absence' = [absence EXCEPT ![a] = NoAbsence]
  /\ overlapped' = (overlapped \/ Busy(Requests))
  /\ UNCHANGED <<duty, task, file, unused, handed, req, taken>>

-----------------------------------------------------------------------------
(* Absence requests.                                                                 *)

BeginAbsence(r, a) ==
  /\ a \in LiveAsgs /\ absence[a] = NoAbsence
  /\ Begin(r, Memory("absence.insert", a, None))

\* The one-to-one key refuses a second request about an assignment, or one about none.
InsertAbsence(r) ==
  LET a == req[r].key
  IN  /\ At(r, "absence.insert")
      /\ absence' = [absence EXCEPT ![a] =
                       IF a \in LiveAsgs /\ @ = NoAbsence
                         THEN [status |-> "PENDING", cover |-> None] ELSE @]
      /\ Done(r)
      /\ UNCHANGED <<duty, task, asg, file, unused, handed, taken, overlapped>>

\* Variant: a decided request may be decided again.
BeginReview_Again(r, a, v, c) ==
  /\ absence[a] # NoAbsence
  /\ Begin(r, Memory(IF v = "APPROVED" /\ c # None THEN "absence.swap" ELSE "absence.save", a,
                     [status |-> v, cover |-> IF c = None THEN absence[a].cover ELSE c]))

\* The verdict v may be missing (the request stays PENDING), and so may the replacement
\* c: a replacement named by an earlier review stays in the row but is not acted on.
BeginReview(r, a, v, c) ==
  /\ absence[a].status = "PENDING"
  /\ Begin(r, Memory(IF v = "APPROVED" /\ c # None THEN "absence.swap" ELSE "absence.save", a,
                     [status |-> v, cover |-> IF c = None THEN absence[a].cover ELSE c]))

\* save() of the whole row.  (Of two requests about an assignment that was brought back,
\* the second is not told from the first.)
SaveReview(r) ==
  LET a == req[r].key
  IN  /\ req[r].pc \in {"absence.save", "absence.swap"}
      /\ absence' = [absence EXCEPT ![a] = IF a \in LiveAsgs THEN req[r].row ELSE @]
      /\ IF At(r, "absence.swap") /\ a \in LiveAsgs
           THEN Becomes(r, [req[r] EXCEPT !.pc = "replace"]) ELSE Done(r)
      /\ UNCHANGED <<duty, task, asg, file, unused, handed, taken, overlapped>>

\* save(update_fields=['employee', ...]): the unique key may refuse the replacement, after
\* the review was saved.
Replace(r) ==
  LET a == req[r].key
  IN  /\ At(r, "replace")
      /\ asg' = [asg EXCEPT ![a] =
                   IF a \in LiveAsgs /\ Accepted(a, [task |-> asg[a].task, emp |-> req[r].row.cover])
                     THEN [@ EXCEPT !.emp = req[r].row.cover] ELSE @]
      /\ Done(r)
      /\ UNCHANGED <<duty, task, absence, file, unused, handed, taken, overlapped>>

-----------------------------------------------------------------------------
(* The files of a duty.  A report is a file the approval makes; its name is free for  *)
(* other files.                                                                      *)

UploadFile(d, n) ==
  /\ Live(d)
  /\ \E f \in unused \cap FileIds :
       /\ file'   = [file EXCEPT ![f] = [duty |-> d, name |-> n, crews |-> {}]]
       /\ unused' = unused \ {f}
  /\ overlapped' = (overlapped \/ Busy(Requests))
  /\ UNCHANGED <<plan, handed, req, taken>>

\* put() needs a new file; the inherited PATCH may rename or move the one there is.
BeginPutFile(r, f, d, n) ==
  /\ file[f] # NoFile /\ (d # None => Live(d))
  /\ Begin(r, Memory("file.save", f, [duty |-> d, name |-> n, crews |-> {}]))

BeginPatchFile(r, f, d, n) ==
  /\ file[f] # NoFile /\ (d # None => Live(d))
  /\ Begin(r, Memory("file.save", f, [duty |-> d, name |-> n, crews |-> file[f].crews]))

SaveFile(r) ==
  LET m == req[r]
  IN  /\ At(r, "file.save")
      /\ file' = [file EXCEPT ![m.key] = IF m.row.duty = None \/ Live(m.row.duty) THEN m.row ELSE @]
      /\ Done(r)
      /\ UNCHANGED <<plan, unused, handed, taken, overlapped>>

DeleteFile(f) ==
  /\ file[f] # NoFile
  /\ file' = [file EXCEPT ![f] = NoFile]
  /\ overlapped' = (overlapped \/ Busy(Requests))
  /\ UNCHANGED <<plan, unused, handed, req, taken>>

-----------------------------------------------------------------------------
(* The approval chain.                                                               *)

BeginSend(r, d)    == Draft(d) /\ Begin(r, Memory("send.exists", d, None))

\* Variant: a duty still in DRAFT may be approved.
BeginApprove_Draft(r, d) ==
  /\ duty[d].status \in {"DRAFT", "SENT_FOR_APPROVAL"}
  /\ Begin(r, Memory("approve", d, None))

BeginApprove(r, d) == duty[d].status = "SENT_FOR_APPROVAL" /\ Begin(r, Memory("approve", d, None))
BeginReject(r, d)  == duty[d].status = "SENT_FOR_APPROVAL" /\ Begin(r, Memory("reject", d, None))

\* tasks.exists(), and then a query of its own for the tasks to look at.
AnyTask(r) ==
  /\ At(r, "send.exists")
  /\ IF TasksOf(req[r].key) = {} THEN Done(r)
     ELSE Becomes(r, [req[r] EXCEPT !.pc = "send.tasks"])
  /\ UNCHANGED <<rows, handed, taken, overlapped>>

ListTasks(r) ==
  /\ At(r, "send.tasks")
  /\ Becomes(r, [req[r] EXCEPT !.pc = "send.check", !.todo = TasksOf(req[r].key)])
  /\ UNCHANGED <<rows, handed, taken, overlapped>>

\* A task needs an assignment, and each car of its assignments a driver.
Driven(t) ==
  \A a \in AsgsOf(t) : asg[a].seat # None =>
    \E b \in AsgsOf(t) : asg[b].seat = <<asg[a].seat[1], "DRIVER">>
Manned(t) == AsgsOf(t) # {} /\ Driven(t)

\* Variant: the drivers are not looked at.
CheckTask_AnyCrew(r) ==
  /\ At(r, "send.check")
  /\ \E t \in req[r].todo :
       IF AsgsOf(t) # {} THEN Becomes(r, [req[r] EXCEPT !.todo = @ \ {t}]) ELSE Done(r)
  /\ UNCHANGED <<rows, handed, taken, overlapped>>

CheckTask(r) ==
  /\ At(r, "send.check")
  /\ \E t \in req[r].todo :
       IF Manned(t) THEN Becomes(r, [req[r] EXCEPT !.todo = @ \ {t}]) ELSE Done(r)
  /\ UNCHANGED <<rows, handed, taken, overlapped>>

\* save(update_fields=...) writes the status whatever it has become, and fails without a row.
Decide(r, decision, next) ==
  LET d == req[r].key
  IN  /\ IF Live(d)
           THEN /\ duty'  = [duty EXCEPT ![d].status = decision]
                /\ taken' = [taken EXCEPT ![d] = @ \cup {decision}]
                /\ Becomes(r, next)
           ELSE Done(r) /\ UNCHANGED <<duty, taken>>
      /\ UNCHANGED <<task, asg, absence, file, unused, handed, overlapped>>

SaveSend(r)    == At(r, "send.check") /\ req[r].todo = {} /\ Decide(r, "SENT_FOR_APPROVAL", Idle)
SaveApprove(r) == At(r, "approve") /\ Decide(r, "APPROVED", [req[r] EXCEPT !.pc = "report.read"])
SaveReject(r)  == At(r, "reject") /\ Decide(r, "REJECTED", Idle)

\* The report has a row per task and in it a line per assignment, under the names of who
\* approved it; the queries behind it are taken as one.
ReadReport(r) ==
  LET d == req[r].key
  IN  /\ At(r, "report.read")
      /\ Becomes(r, Memory("report.delete", d, [duty |-> d, name |-> "duty_report", crews |-> CrewsOf(d)]))
      /\ UNCHANGED <<rows, handed, taken, overlapped>>

\* Variant: earlier reports are kept.
DeleteReports_None(r) ==
  /\ At(r, "report.delete")
  /\ Becomes(r, [req[r] EXCEPT !.pc = "report.insert"])
  /\ UNCHANGED <<rows, handed, taken, overlapped>>

DeleteReports(r) ==
  /\ At(r, "report.delete")
  /\ file' = [f \in FileIds |-> IF f \in ReportsOf(req[r].key) THEN NoFile ELSE file[f]]
  /\ Becomes(r, [req[r] EXCEPT !.pc = "report.insert"])
  /\ UNCHANGED <<plan, unused, handed, taken, overlapped>>

\* A duty that is gone breaks the foreign key, and the request fails.
InsertReport(r) ==
  /\ At(r, "report.insert")
  /\ \/ /\ Live(req[r].key)
        /\ \E f \in unused \cap FileIds :
             /\ file'   = [file EXCEPT ![f] = req[r].row]
             /\ unused' = unused \ {f}
             /\ Becomes(r, Memory("hand.over", req[r].key, None))
     \/ /\ ~ Live(req[r].key)
        /\ Done(r)
        /\ UNCHANGED <<file, unused>>
  /\ UNCHANGED <<plan, handed, taken, overlapped>>

\* The message to the external system: tasks and crews, read again.
Message(d) == <<d, CrewsOf(d)>>

\* It is posted, and errors are swallowed.
HandOver(r) ==
  /\ At(r, "hand.over")
  /\ handed' = handed \cup {Message(req[r].key)}
  /\ Done(r)
  /\ UNCHANGED <<rows, taken, overlapped>>

\* The server process or the database connection fails under a request, or the making of
\* the document does.
Abort(r) ==
  /\ ~ At(r, "idle")
  /\ Done(r)
  /\ UNCHANGED <<rows, handed, taken, overlapped>>

-----------------------------------------------------------------------------
DutySteps(r) ==
  \/ \E d \in Duties, w \in Windows : BeginPutDuty(r, d, w) \/ BeginPatchDuty(r, d, w)
  \/ SaveDuty(r)
  \/ \E d \in Duties : BeginSend(r, d) \/ BeginApprove(r, d) \/ BeginReject(r, d)
  \/ AnyTask(r) \/ ListTasks(r) \/ CheckTask(r) \/ SaveSend(r)
  \/ SaveApprove(r) \/ SaveReject(r)
  \/ ReadReport(r) \/ DeleteReports(r) \/ InsertReport(r) \/ HandOver(r)

FileSteps(r) ==
  \/ \E f \in FileIds, d \in Duties \cup {None}, n \in {"duty_report", "other"} :
       BeginPutFile(r, f, d, n) \/ BeginPatchFile(r, f, d, n)
  \/ SaveFile(r)

TaskSteps(r) ==
  \/ \E d \in Duties, w \in Windows \cup {None} : BeginAddTask(r, d, w)
  \/ InsertTask(r)
  \/ \E t \in Tasks, d \in Duties, w \in Windows \cup {None} :
       BeginPutTask(r, t, w) \/ BeginPatchTask(r, t, d, w)
  \/ SaveTask(r)

CrewSteps(r) ==
  \/ \E t \in Tasks, e \in Employees, s \in Seats : BeginAssign(r, t, e, s)
  \/ FindClashes(r) \/ DeleteClashes(r) \/ InsertAssignment(r)
  \/ \E a \in AssignIds, t \in Tasks, e \in Employees, s \in Seats :
       BeginPutAssignment(r, a, e, s) \/ BeginPatchAssignment(r, a, t, e, s)
  \/ SaveAssignment(r)
  \/ \E a \in AssignIds : BeginAbsence(r, a)
  \/ InsertAbsence(r)
  \/ \E a \in AssignIds, v \in Verdicts \cup {"PENDING"}, c \in Employees \cup {None} :
       BeginReview(r, a, v, c)
  \/ SaveReview(r) \/ Replace(r)

Next ==
  \/ \E d \in Duties, w \in Windows : CreateDuty(d, w)
  \/ \E d \in Duties : DeleteDuty(d)
  \/ \E d \in Duties, n \in {"duty_report", "other"} : UploadFile(d, n)
  \/ \E f \in FileIds : DeleteFile(f)
  \/ \E t \in Tasks : DeleteTask(t)
  \/ \E a \in AssignIds : DeleteAssignment(a)
  \/ \E r \in Requests : DutySteps(r) \/ TaskSteps(r) \/ CrewSteps(r) \/ FileSteps(r) \/ Abort(r)

Spec == Init /\ [][Next]_vars

-----------------------------------------------------------------------------
(* What holds whatever requests overlap.                                              *)

Needs ==
  [x \in Decisions |-> IF x = "SENT_FOR_APPROVAL" THEN {} ELSE {"SENT_FOR_APPROVAL"}]

History == INSTANCE ApprovalHistory
             WITH Docs <- Duties, Rewrites <- TRUE, status <- [d \in Duties |-> duty[d].status]

\* Late decisions and edits that save the whole row may repeat or undo a decision, but none
\* is taken about a duty that was never sent for approval.
HistorySpec == History!Spec

\* What was offered to the external system had been approved, and so had what the report of
\* an approval lists.
HandedWasApproved ==
  /\ \A x \in handed : "APPROVED" \in taken[x[1]]
  /\ \A f \in FileIds : file[f].crews # {} => \E d \in Duties : "APPROVED" \in taken[d]

\* Deletions, edits that bring a row back, moves of tasks and replacements leave no row
\* without the row it belongs to, and no employee twice in a task.
Integrity ==
  /\ \A t \in LiveTasks : Live(task[t].duty)
  /\ \A a \in LiveAsgs : asg[a].task \in LiveTasks
  /\ \A a \in AssignIds : absence[a] # NoAbsence => a \in LiveAsgs
  /\ \A f \in FileIds : file[f].duty # None => Live(file[f].duty)
  /\ \A a, b \in LiveAsgs : asg[a].task = asg[b].task /\ asg[a].emp = asg[b].emp => a = b

\* Until two requests overlap, an approval leaves one report, whatever files of that name
\* there were, with the crews that it hands over.
OneReport ==
  overlapped \/ \A r \in Requests : At(r, "hand.over") =>
    \E f \in FileIds : /\ ReportsOf(req[r].key) = {f}
                       /\ file[f].crews = CrewsOf(req[r].key)

Consistent == TypeOK /\ HandedWasApproved /\ Integrity /\ OneReport

-----------------------------------------------------------------------------
(* What holds until two requests overlap.                                             *)

\* A duty goes out for approval with a crew for every task and a driver for every car.
SentIsManned ==
  [][\A d \in Duties :
       ~ overlapped' /\ Draft(d) /\ duty'[d].status \in Decisions =>
         TasksOf(d) # {} /\ \A t \in TasksOf(d) : Manned(t)]_vars

\* Whoever is assigned to a task serves no other task at the same time: the transfer finds
\* every clash, whatever duty it is in.
TransferLeavesOne ==
  [][\A a \in AssignIds :
       ~ overlapped' /\ asg[a] = NoAsg /\ asg'[a] # NoAsg =>
         \A b \in LiveAsgs : asg[b].emp = asg'[a].emp =>
           ~ Span(Hours(asg[b].task), Hours(asg'[a].task))]_vars

\* A verdict about an absence is final.
VerdictFinal ==
  [][\A a \in AssignIds :
       ~ overlapped' /\ absence[a].status \in Verdicts =>
         absence'[a] \in {absence[a], NoAbsence}]_vars

=============================================================================
